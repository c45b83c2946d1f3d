----------------------------- MODULE Directory -----------------------------
(***************************************************************************)
(* What the hub promises about who is in which room, without its channels, *)
(* events, clocks and grace periods: a room is opened by an owner and has  *)
(* two seats; a newcomer takes a free one or that of a guest who is not at *)
(* work; a guest that goes offline leaves, an owner stays; a whole room    *)
(* may be retired.  Hub implements it (Hub!RefinesDirectory).              *)
(***************************************************************************)
CONSTANTS Codes, Peers

VARIABLES
  members,   \* room code -> who is in the room; a room exists while somebody is
  role,      \* "owner" or "guest" of that room, "none" of a peer in no room
  online,    \* the peers that have a stream
  spoke      \* the peers that have sent a signal

directory == <<members, role, online, spoke>>

Guests(c) == {p \in members[c] : role[p] = "guest"}
\* A guest with a stream that has signalled is not displaced.
AtWork == online \cap spoke

Init ==
  /\ members = [c \in Codes |-> {}]
  /\ role = [p \in Peers |-> "none"]
  /\ online = {}
  /\ spoke = {}

\* The peers P are in no room any more.
Gone(P) ==
  /\ role' = [p \in Peers |-> IF p \in P THEN "none" ELSE role[p]]
  /\ online' = online \ P
  /\ spoke' = spoke \ P

\* A stranger opens a room that does not exist, and owns it.
Open(c, p) ==
  /\ members[c] = {}
  /\ role[p] = "none"
  /\ members' = [members EXCEPT ![c] = {p}]
  /\ role' = [role EXCEPT ![p] = "owner"]
  /\ UNCHANGED <<online, spoke>>

\* A stranger becomes a guest of an existing room.  Guests that are not at
\* work may have to go, but only for a newcomer that gets in, and never the
\* owner.
Admit(c, p, displaced) ==
  /\ members[c] # {}
  /\ role[p] = "none"
  /\ displaced \subseteq Guests(c) \ AtWork
  /\ \A q, r \in members[c] \ displaced : q = r      \* one of two seats is free
  /\ members' = [members EXCEPT ![c] = (members[c] \ displaced) \cup {p}]
  /\ role' = [q \in Peers |-> IF q = p THEN "guest"
                              ELSE IF q \in displaced THEN "none" ELSE role[q]]
  /\ online' = online \ displaced
  /\ spoke' = spoke \ displaced

\* A member leaves, of its own accord or, as a guest, with its last stream.
Depart(c, p) ==
  /\ p \in members[c]
  /\ members' = [members EXCEPT ![c] = @ \ {p}]
  /\ Gone({p})

Connect(c, p) ==
  /\ p \in members[c]
  /\ online' = online \cup {p}
  /\ UNCHANGED <<members, role, spoke>>

\* Only an owner can be offline and still in its room.
Disconnect(c, p) ==
  /\ p \in members[c]
  /\ role[p] = "owner"
  /\ online' = online \ {p}
  /\ UNCHANGED <<members, role, spoke>>

Speak(c, p) ==
  /\ p \in members[c]
  /\ spoke' = spoke \cup {p}
  /\ UNCHANGED <<members, role, online>>

\* Rooms go with everybody in them.
Retire(C) ==
  /\ members' = [c \in Codes |-> IF c \in C THEN {} ELSE members[c]]
  /\ Gone(UNION {members[c] : c \in C})

Next ==
  \/ \E c \in Codes, p \in Peers :
       \/ Open(c, p) \/ Depart(c, p) \/ Connect(c, p) \/ Disconnect(c, p) \/ Speak(c, p)
       \/ \E displaced \in SUBSET members[c] : Admit(c, p, displaced)
  \/ \E C \in SUBSET Codes : Retire(C)

Spec == Init /\ [][Next]_directory
=============================================================================
