------------------------------ MODULE HubViews ------------------------------
(***************************************************************************)
(* The two ends of a subscription together: the hub, and the browser that  *)
(* reads the stream and keeps session.remotePeerId from the events it      *)
(* handles (app.js, handleServerEvent).  The browser acts on remotePeerId  *)
(* alone: it is who signals are addressed to and whom the secret goes to.  *)
(***************************************************************************)
EXTENDS Hub

VARIABLES
  remote,   \* stream -> session.remotePeerId as its events so far left it
  filled    \* stream -> its buffer has been full, so an event may be missing

viewVars == <<vars, remote, filled>>

\* The room-state event names everybody, this browser too: syncRemotePeer.
SyncRemotePeer(me, ids) ==
  IF ids \subseteq {me} THEN NoOne ELSE CHOOSE p \in ids : p # me

Named(event) == CHOOSE p \in event.ids : TRUE

\* handleSignal: a ready or an offer (handleOffer) assigns its sender, an answer
\* or a candidate leaves view alone.  The hub relays all four alike, so which one
\* it was is assigns.
HandleSignal(view, event, assigns) == IF assigns THEN Named(event) ELSE view

\* handleServerEvent: what remotePeerId is after the event.  Every assignment
\* comes before the handler's first await.
HandleServerEvent(view, me, event, assigns) ==
  CASE event.type = "room-state" -> SyncRemotePeer(me, event.ids)
    [] event.type = "peer-joined" -> Named(event)
    [] event.type = "peer-left" -> NoOne
    [] event.type = "signal" -> HandleSignal(view, event, assigns)

ViewInit ==
  /\ Init
  /\ remote = [s \in Subs |-> NoOne]
  /\ filled = [s \in Subs |-> FALSE]

\* Nothing is claimed of a stream that overflowed, so the browser's view of it
\* is not tracked any further.
Overflowed(s) == chan'[s] # "free" /\ (filled[s] \/ Len(queue'[s]) = BufferSize)

\* The browser handles the event its stream has just delivered.
Follow(s, assigns) ==
  IF chan'[s] = "free" \/ Overflowed(s) THEN NoOne
  ELSE IF Len(queue'[s]) < Len(queue[s])
       THEN HandleServerEvent(remote[s], home[s].peer, Head(queue[s]), assigns)
       ELSE remote[s]

ViewNext ==
  /\ Next
  /\ \E assigns \in BOOLEAN : remote' = [s \in Subs |-> Follow(s, assigns)]
  /\ filled' = [s \in Subs |-> Overflowed(s)]

ViewSpec == ViewInit /\ [][ViewNext]_viewVars

-----------------------------------------------------------------------------
(* Properties *)

\* remotePeerId as buffered event i leaves it if it assigns, or as it is now.
Held(s, i) ==
  IF i = 0 THEN remote[s]
  ELSE HandleServerEvent(remote[s], home[s].peer, queue[s][i], TRUE)

\* What remotePeerId may be once the events still buffered on s are handled: as
\* an event left it with only signals behind, none of which need assign it.
Outcomes(s) ==
  {Held(s, i) : i \in {j \in 0..Len(queue[s]) :
     \A k \in (j + 1)..Len(queue[s]) : queue[s][k].type = "signal"}}

\* The browsers agree with the hub on who is in the room: on every stream of a
\* room's peer that never overflowed, the events delivered and buffered so far
\* lead to remotePeerId being the other peer, or null for a peer on its own,
\* whichever of the signals among them assign it.
RemoteAgrees ==
  \A c \in live : \A p \in members[c] : \A s \in peer[p].streams :
    ~filled[s] => \A view \in Outcomes(s) :
                    IF members[c] = {p} THEN view = NoOne ELSE view \in members[c] \ {p}
=============================================================================
