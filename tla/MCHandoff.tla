----------------------------- MODULE MCHandoff -----------------------------
(* Handoff for TLC.                                                         *)
EXTENDS Handoff, TLC

CONSTANT Earlier   \* a recipient, or NoOne

Interchangeable == Permutations(Guests)

\* The recipient Earlier has come and gone and the link has been reset; at most one
\* flush is still awaiting, before or after it read the key of Earlier.
AfterOne ==
  /\ own \in {Unlinked} \cup {[Unlinked EXCEPT !.flights[f] = 1] : f \in {Started, Earlier}}
  /\ secret = [active |-> TRUE, sent |-> InFlight(own), kept |-> TRUE, burned |-> FALSE,
               wiped |-> "no", toggles |-> 0]
  /\ page = [[g \in Guests |-> Waiting] EXCEPT ![Earlier] = Gone(Waiting)]
  /\ await = [[g \in Guests |-> [answer |-> "none", hello |-> "none", pong |-> "none"]]
                EXCEPT ![Earlier] = [answer |-> "done", hello |-> "done", pong |-> "done"]]
  /\ toGuest = [g \in Guests |-> <<>>]
  /\ toOwner = [g \in Guests |-> <<>>]

AfterOneSpec == AfterOne /\ [][Next]_vars /\ Fairness
=============================================================================
