--------------------------- MODULE HubViewsProofs ---------------------------
(***************************************************************************)
(* The two ends of a subscription agree: on every stream that never        *)
(* overflowed, what the browser makes of its events is what the hub knows, *)
(* for any number of rooms, peers and streams and any buffer size.         *)
(***************************************************************************)
EXTENDS HubViews, DirectoryProofs, SequenceTheorems

USE HubAssumption

-----------------------------------------------------------------------------
(* One stream, one step *)

\* What RemoteAgrees says of one stream s of peer p in room c.
Agrees(c, p, s) ==
  \A view \in Outcomes(s) :
    IF members[c] = {p} THEN view = NoOne ELSE view \in members[c] \ {p}

LEMMA RemoteAgreesIs ==
  RemoteAgrees <=> \A c \in live : \A p \in members[c] : \A s \in peer[p].streams :
                     ~filled[s] => Agrees(c, p, s)
BY DEF RemoteAgrees, Agrees

LEMMA OfferNothing ==
  ASSUME NEW q \in Seq(Event), Len(q) <= BufferSize
  PROVE  Offer(q, <<>>) = q
<1>1. Len(<<>>) <= BufferSize - Len(q)
  OBVIOUS
<1>2. Offer(q, <<>>) = q \o <<>>
  BY <1>1 DEF Offer
<1> QED
  BY <1>2

\* A buffer that an offer does not fill has taken all of it.
LEMMA OfferFits ==
  ASSUME NEW q \in Seq(Event), Len(q) <= BufferSize, NEW es \in Seq(Event),
         Len(Offer(q, es)) # BufferSize
  PROVE  Offer(q, es) = q \o es
<1>1. CASE Len(es) <= BufferSize - Len(q)
  BY <1>1 DEF Offer
<1>2. CASE ~(Len(es) <= BufferSize - Len(q))
  <2> DEFINE free == BufferSize - Len(q)
  <2>1. free \in Nat
    OBVIOUS
  <2>2. SubSeq(es, 1, free) \in Seq(Event) /\ Len(SubSeq(es, 1, free)) = free
    BY <1>2, <2>1
  <2>3. Offer(q, es) = q \o SubSeq(es, 1, free)
    BY <1>2 DEF Offer
  <2>4. Len(Offer(q, es)) = BufferSize
    BY <2>1, <2>2, <2>3
  <2> QED
    BY <2>4
<1> QED
  BY <1>1, <1>2

LEMMA ViewOf ==
  ASSUME ViewNext, NEW s \in Subs, chan'[s] # "free", ~filled'[s]
  PROVE  /\ ~filled[s] /\ Len(queue'[s]) # BufferSize
         /\ ~(Len(queue'[s]) < Len(queue[s])) => remote'[s] = remote[s]
         /\ Len(queue'[s]) < Len(queue[s])
              => \E assigns \in BOOLEAN :
                   remote'[s] = HandleServerEvent(remote[s], home[s].peer, Head(queue[s]), assigns)
<1>1. filled'[s] = Overflowed(s) /\ \E assigns \in BOOLEAN : remote'[s] = Follow(s, assigns)
  BY DEF ViewNext
<1>2. ~Overflowed(s)
  BY <1>1
<1>3. ~filled[s] /\ Len(queue'[s]) # BufferSize
  BY <1>2 DEF Overflowed
<1> QED
  BY <1>1, <1>2, <1>3 DEF Follow

LEMMA OutcomesAre ==
  ASSUME NEW s
  PROVE  \A view : view \in Outcomes(s) <=>
           \E i \in 0..Len(queue[s]) :
             /\ \A k \in (i + 1)..Len(queue[s]) : queue[s][k].type = "signal"
             /\ view = Held(s, i)
BY DEF Outcomes

\* A stream nothing was sent to and nothing was read from.
LEMMA Unread ==
  ASSUME QueueOK(queue), ViewNext, NEW s \in Subs, chan'[s] # "free", ~filled'[s],
         queue'[s] = queue[s], home'[s] = home[s]
  PROVE  ~filled[s] /\ Outcomes(s)' \subseteq Outcomes(s)
<1>1. ~(Len(queue'[s]) < Len(queue[s]))
  BY DEF QueueOK
<1>2. ~filled[s] /\ remote'[s] = remote[s]
  BY <1>1, ViewOf
<1> QED
  BY <1>2 DEF Outcomes, Held

\* What an offered list adds, when it fits.
LEMMA Appended ==
  ASSUME QueueOK(queue), ViewNext, NEW s \in Subs, chan'[s] # "free", ~filled'[s],
         NEW es \in Seq(Event), queue'[s] = Offer(queue[s], es)
  PROVE  /\ ~filled[s] /\ queue'[s] = queue[s] \o es /\ remote'[s] = remote[s]
         /\ queue[s] \in Seq(Event)
<1>1. queue[s] \in Seq(Event) /\ Len(queue[s]) <= BufferSize
  BY DEF QueueOK
<1>2. Len(queue'[s]) # BufferSize
  BY ViewOf
<1>3. queue'[s] = queue[s] \o es
  BY <1>1, <1>2, OfferFits
<1>4. ~(Len(queue'[s]) < Len(queue[s]))
  <2>1. Len(queue'[s]) = Len(queue[s]) + Len(es) /\ Len(es) \in Nat /\ Len(queue[s]) \in Nat
    BY <1>1, <1>3
  <2> QED
    BY <2>1
<1> QED
  BY <1>1, <1>3, <1>4, ViewOf

\* An event that is not a signal and was sent last decides.
LEMMA Told ==
  ASSUME QueueOK(queue), ViewNext, NEW s \in Subs, chan'[s] # "free", ~filled'[s],
         NEW es \in Seq(Event), NEW e \in Event, es # <<>>, es[Len(es)] = e, e.type # "signal",
         queue'[s] = Offer(queue[s], es), home'[s] = home[s]
  PROVE  \A view \in Outcomes(s)' : \E other :
           view = HandleServerEvent(other, home[s].peer, e, TRUE)
<1> DEFINE q == queue'[s]
<1>1. queue[s] \in Seq(Event) /\ q = queue[s] \o es
  BY Appended
<1>2. Len(q) \in Nat \ {0} /\ q[Len(q)] = e
  <2>1. Len(es) \in Nat \ {0} /\ Len(queue[s]) \in Nat
    BY <1>1
  <2>2. Len(q) = Len(queue[s]) + Len(es)
    BY <1>1
  <2>3. q[Len(queue[s]) + Len(es)] = es[Len(es)]
    BY <1>1, <2>1
  <2> QED
    BY <2>1, <2>2, <2>3
<1>3. ASSUME NEW view \in Outcomes(s)'
      PROVE  \E other : view = HandleServerEvent(other, home[s].peer, e, TRUE)
  <2>1. PICK i \in 0..Len(q) :
               /\ \A k \in (i + 1)..Len(q) : q[k].type = "signal"
               /\ view = Held(s, i)'
    BY <1>3 DEF Outcomes
  <2> HIDE DEF q
  <2>2. i = Len(q)
    <3>1. CASE i < Len(q)
      <4>1. Len(q) \in (i + 1)..Len(q)
        BY <1>2, <3>1
      <4> QED
        BY <1>2, <2>1, <4>1
    <3> QED
      BY <1>2, <3>1
  <2> USE DEF q
  <2>3. view = HandleServerEvent(remote'[s], home'[s].peer, e, TRUE)
    BY <1>2, <2>1, <2>2 DEF Held
  <2> QED
    BY <2>3
<1> QED
  BY <1>3

\* A signal may assign its sender, or leave everything as it would have been.
LEMMA Signalled ==
  ASSUME QueueOK(queue), ViewNext, NEW s \in Subs, chan'[s] # "free", ~filled'[s],
         NEW e \in Event, queue'[s] = Offer(queue[s], <<e>>), home'[s] = home[s]
  PROVE  /\ ~filled[s]
         /\ \A view \in Outcomes(s)' :
              \/ view \in Outcomes(s)
              \/ view = HandleServerEvent(remote[s], home[s].peer, e, TRUE)
<1> DEFINE q == queue[s]
           r == queue'[s]
<1>1. ~filled[s] /\ q \in Seq(Event) /\ r = q \o <<e>> /\ remote'[s] = remote[s]
  <2>1. <<e>> \in Seq(Event)
    OBVIOUS
  <2> QED
    BY <2>1, Appended
<1>2. /\ Len(q) \in Nat /\ Len(r) = Len(q) + 1 /\ r[Len(r)] = e
      /\ \A k \in 1..Len(q) : r[k] = q[k]
  BY <1>1
<1>3. ASSUME NEW view \in Outcomes(s)'
      PROVE  view \in Outcomes(s) \/ view = HandleServerEvent(remote[s], home[s].peer, e, TRUE)
  <2>1. PICK i \in 0..Len(r) :
               /\ \A k \in (i + 1)..Len(r) : r[k].type = "signal"
               /\ view = Held(s, i)'
    BY <1>3 DEF Outcomes
  <2>2. view = IF i = 0 THEN remote[s] ELSE HandleServerEvent(remote[s], home[s].peer, r[i], TRUE)
    BY <1>1, <2>1 DEF Held
  <2> HIDE DEF q, r
  <2>3. CASE i = Len(r)
    <3>1. i # 0 /\ r[i] = e
      BY <1>2, <2>3
    <3> QED
      BY <2>2, <3>1
  <2>4. CASE i # Len(r)
    <3>1. i \in 0..Len(q) /\ \A k \in (i + 1)..Len(q) : q[k].type = "signal"
      BY <1>2, <2>1, <2>4
    <3>2. view = Held(s, i)
      <4>1. i # 0 => r[i] = q[i]
        BY <1>2, <3>1
      <4> QED
        BY <2>2, <4>1 DEF Held, q
    <3> QED
      BY <3>1, <3>2, OutcomesAre DEF q
  <2> QED
    BY <2>3, <2>4
<1> QED
  BY <1>1, <1>3

\* Reading an event adds nothing to what the stream may lead to.
LEMMA Taken ==
  ASSUME QueueOK(queue), ViewNext, NEW s \in Subs, chan'[s] # "free", ~filled'[s],
         queue[s] # <<>>, queue'[s] = Tail(queue[s]), home'[s] = home[s]
  PROVE  ~filled[s] /\ Outcomes(s)' \subseteq Outcomes(s)
<1> DEFINE q == queue[s]
           r == queue'[s]
<1>1. q \in Seq(Event) /\ r = Tail(q)
  BY DEF QueueOK
<1>2. /\ Len(q) \in Nat \ {0} /\ Len(r) = Len(q) - 1 /\ Head(q) = q[1]
      /\ \A k \in 1..Len(r) : r[k] = q[k + 1]
  <2>1. /\ Tail(q) \in Seq(Event) /\ Len(Tail(q)) = Len(q) - 1
        /\ \A k \in 1..Len(Tail(q)) : Tail(q)[k] = q[k + 1]
    BY <1>1, HeadTailProperties
  <2>2. Len(q) \in Nat /\ Len(q) > 0
    BY <1>1, EmptySeq
  <2> QED
    BY <1>1, <2>1, <2>2
<1>3. q[1] \in Event
  BY <1>1, <1>2
<1>4. /\ ~filled[s]
      /\ \E assigns \in BOOLEAN :
           remote'[s] = HandleServerEvent(remote[s], home[s].peer, q[1], assigns)
  <2>1. Len(r) < Len(q)
    BY <1>2
  <2> QED
    BY <1>2, <2>1, ViewOf
<1>5. \/ remote'[s] = HandleServerEvent(remote[s], home[s].peer, q[1], TRUE)
      \/ q[1].type = "signal" /\ remote'[s] = remote[s]
  <2>1. PICK assigns \in BOOLEAN :
               remote'[s] = HandleServerEvent(remote[s], home[s].peer, q[1], assigns)
    BY <1>4
  <2> QED
    BY <1>3, <2>1 DEF HandleServerEvent, HandleSignal, Event
<1>6. ASSUME NEW view \in Outcomes(s)'
      PROVE  view \in Outcomes(s)
  <2>1. PICK i \in 0..Len(r) :
               /\ \A k \in (i + 1)..Len(r) : r[k].type = "signal"
               /\ view = Held(s, i)'
    BY <1>6 DEF Outcomes
  <2>2. view = IF i = 0 THEN remote'[s]
               ELSE HandleServerEvent(remote'[s], home[s].peer, r[i], TRUE)
    BY <2>1 DEF Held
  <2> HIDE DEF q, r
  <2>3. \A k \in (i + 2)..Len(q) : q[k].type = "signal"
    <3>1. ASSUME NEW k \in (i + 2)..Len(q)
          PROVE  q[k].type = "signal"
      <4>1. k - 1 \in (i + 1)..Len(r) /\ k - 1 \in 1..Len(r) /\ (k - 1) + 1 = k
        BY <1>2, <2>1, <3>1
      <4>2. r[k - 1] = q[k] /\ r[k - 1].type = "signal"
        BY <1>2, <2>1, <4>1
      <4> QED
        BY <4>2
    <3> QED
      BY <3>1
  <2>4. i + 1 \in 0..Len(q) /\ i + 1 # 0 /\ (i + 1) + 1 = i + 2
    BY <1>2, <2>1
  <2>5. Held(s, i + 1) \in Outcomes(s)
    BY <2>3, <2>4, OutcomesAre DEF q
  <2>6. CASE i # 0
    <3>1. r[i] = q[i + 1] /\ q[i + 1] \in Event
      BY <1>1, <1>2, <2>1, <2>6
    <3>2. HandleServerEvent(remote'[s], home[s].peer, q[i + 1], TRUE)
            = HandleServerEvent(remote[s], home[s].peer, q[i + 1], TRUE)
      BY DEF HandleServerEvent, HandleSignal
    <3>3. view = Held(s, i + 1)
      BY <2>2, <2>4, <2>6, <3>1, <3>2 DEF Held, q
    <3> QED
      BY <2>5, <3>3
  <2>7. CASE i = 0 /\ remote'[s] = HandleServerEvent(remote[s], home[s].peer, q[1], TRUE)
    <3>1. view = Held(s, i + 1)
      BY <2>2, <2>4, <2>7 DEF Held, q
    <3> QED
      BY <2>5, <3>1
  <2>8. CASE i = 0 /\ q[1].type = "signal" /\ remote'[s] = remote[s]
    <3>1. \A k \in 1..Len(q) : q[k].type = "signal"
      BY <1>2, <2>3, <2>8
    <3>2. Held(s, 0) \in Outcomes(s)
      BY <1>2, <3>1, OutcomesAre DEF q
    <3> QED
      BY <2>2, <2>8, <3>2 DEF Held
  <2> QED
    BY <1>5, <2>6, <2>7, <2>8
<1> QED
  BY <1>4, <1>6

LEMMA JoinedHandled ==
  \A view, me, p : HandleServerEvent(view, me, PeerJoined(p), TRUE) = p
<1> TAKE view, me, p
<1>1. (CHOOSE q \in {p} : TRUE) = p
  OBVIOUS
<1> QED
  BY <1>1 DEF HandleServerEvent, PeerJoined, Named

LEMMA LeftHandled ==
  \A view, me, p : HandleServerEvent(view, me, PeerLeft(p), TRUE) = NoOne
BY DEF HandleServerEvent, PeerLeft

LEMMA SignalHandled ==
  \A view, me, p : HandleServerEvent(view, me, Signal(p), TRUE) = p
<1> TAKE view, me, p
<1>1. (CHOOSE q \in {p} : TRUE) = p
  OBVIOUS
<1> QED
  BY <1>1 DEF HandleServerEvent, HandleSignal, Signal, Named

LEMMA NotSignals ==
  \A p : PeerJoined(p).type # "signal" /\ PeerLeft(p).type # "signal"
BY DEF PeerJoined, PeerLeft

LEMMA SyncRoom ==
  \A view, me, P :
    /\ P = {me} => HandleServerEvent(view, me, RoomState(P), TRUE) = NoOne
    /\ me \in P /\ P # {me} => HandleServerEvent(view, me, RoomState(P), TRUE) \in P \ {me}
<1> TAKE view, me, P
<1>1. HandleServerEvent(view, me, RoomState(P), TRUE) = SyncRemotePeer(me, P)
  BY DEF HandleServerEvent, RoomState
<1>2. ASSUME me \in P, P # {me}
      PROVE  SyncRemotePeer(me, P) \in P \ {me}
  <2>1. \E p \in P : p # me
    BY <1>2
  <2> QED
    BY <2>1 DEF SyncRemotePeer
<1> QED
  BY <1>1, <1>2 DEF SyncRemotePeer

-----------------------------------------------------------------------------
(* One stream of the room's peer, before and after *)

LEMMA NextIsStep ==
  ASSUME IInv, ViewNext
  PROVE  [Next]_vars /\ IInv' /\ QueueOK(queue)
<1>1. [Next]_vars
  BY DEF ViewNext
<1> QED
  BY <1>1, IInvStep, TypeOKQueue DEF IInv

\* What is known of a stream of a seated peer after a step.
LEMMA SeatedAfter ==
  ASSUME IInv, ViewNext, NEW c \in live', NEW p \in members'[c], NEW s \in peer'[p].streams
  PROVE  /\ c \in Codes /\ p \in Peers /\ s \in Subs
         /\ chan'[s] = "open" /\ home'[s] = [code |-> c, peer |-> p]
<1>1. IInv'
  BY NextIsStep
<1>2. c \in Codes /\ p \in Peers
  BY <1>1 DEF IInv, TypeOK
<1>3. s \in Subs
  BY <1>1, <1>2 DEF IInv, TypeOK, Peer
<1>4. chan'[s] = "open" /\ home'[s] = [code |-> c, peer |-> p]
  BY <1>1 DEF IInv, StreamsWired
<1> QED
  BY <1>2, <1>3, <1>4

LEMMA SeatedBefore ==
  ASSUME IInv, NEW c \in live, NEW p \in members[c], NEW s \in peer[p].streams
  PROVE  /\ c \in Codes /\ p \in Peers /\ s \in Subs
         /\ chan[s] = "open" /\ home[s] = [code |-> c, peer |-> p]
         /\ home[s].peer = p /\ home[s].code = c
<1>1. c \in Codes /\ p \in Peers
  BY DEF IInv, TypeOK
<1>2. s \in Subs
  BY <1>1 DEF IInv, TypeOK, Peer
<1>3. chan[s] = "open" /\ home[s] = [code |-> c, peer |-> p]
  BY DEF IInv, StreamsWired
<1>4. home[s].peer = p /\ home[s].code = c
  BY <1>3
<1> QED
  BY <1>1, <1>2, <1>3, <1>4

\* Who listens on a stream of the peers of a room: that room's peer alone.
LEMMA OneListener ==
  ASSUME IInv, NEW c \in live, NEW d \in live, NEW P \in SUBSET members[d],
         NEW p \in members[c], NEW s \in peer[p].streams
  PROVE  s \in StreamsOf(P) <=> c = d /\ p \in P
<1>1. ASSUME s \in StreamsOf(P)
      PROVE  c = d /\ p \in P
  <2>1. PICK q \in P : s \in peer[q].streams
    BY <1>1 DEF StreamsOf
  <2>2. home[s].peer = q /\ home[s].code = d
    BY <2>1, WiredHome DEF IInv
  <2>3. home[s].peer = p /\ home[s].code = c
    BY WiredHome DEF IInv
  <2> QED
    BY <2>1, <2>2, <2>3
<1> QED
  BY <1>1 DEF StreamsOf

\* A stream that was there, in a room that did not change, and that heard
\* nothing or was only read.
LEMMA Kept ==
  ASSUME IInv, RemoteAgrees, ViewNext,
         NEW c \in live, c \in live', NEW p \in members[c], members'[c] = members[c],
         NEW s \in peer[p].streams, s \in peer'[p].streams, ~filled'[s],
         \/ queue'[s] = queue[s]
         \/ queue[s] # <<>> /\ queue'[s] = Tail(queue[s])
  PROVE  Agrees(c, p, s)'
<1>1. s \in Subs /\ home[s] = [code |-> c, peer |-> p]
  BY SeatedBefore
<1>2. chan'[s] = "open" /\ home'[s] = [code |-> c, peer |-> p]
  BY SeatedAfter
<1>3. QueueOK(queue)
  BY NextIsStep
<1>4. ~filled[s] /\ Outcomes(s)' \subseteq Outcomes(s)
  <2>1. CASE queue'[s] = queue[s]
    BY <1>1, <1>2, <1>3, <2>1, Unread
  <2>2. CASE queue[s] # <<>> /\ queue'[s] = Tail(queue[s])
    BY <1>1, <1>2, <1>3, <2>2, Taken
  <2> QED
    BY <2>1, <2>2
<1>5. Agrees(c, p, s)
  BY <1>4, RemoteAgreesIs
<1> QED
  BY <1>4, <1>5 DEF Agrees

\* A stream that was there and heard, last, an event that settles it.
LEMMA Heard ==
  ASSUME IInv, ViewNext,
         NEW c \in live, c \in live', NEW p \in members[c], p \in members'[c],
         NEW s \in peer[p].streams, s \in peer'[p].streams, ~filled'[s],
         NEW es \in Seq(Event), es # <<>>, es[Len(es)].type # "signal",
         queue'[s] = Offer(queue[s], es)
  PROVE  \A view \in Outcomes(s)' : \E other :
           view = HandleServerEvent(other, p, es[Len(es)], TRUE)
<1>1. s \in Subs /\ home[s] = [code |-> c, peer |-> p] /\ home[s].peer = p
  BY SeatedBefore
<1>2. chan'[s] = "open" /\ home'[s] = [code |-> c, peer |-> p]
  BY SeatedAfter
<1>3. QueueOK(queue)
  BY NextIsStep
<1>4. es[Len(es)] \in Event
  <2>1. Len(es) \in 1..Len(es)
    OBVIOUS
  <2> QED
    BY <2>1
<1> QED
  BY <1>1, <1>2, <1>3, <1>4, Told

-----------------------------------------------------------------------------
(* One lemma per operation *)

LEMMA CreateAgrees ==
  ASSUME IInv, RemoteAgrees, ViewNext, NEW c \in Codes, NEW p \in Peers, CreateRoom(c, p)
  PROVE  RemoteAgrees'
<1>1. ASSUME NEW d \in live', NEW q \in members'[d], NEW s \in peer'[q].streams, ~filled'[s]
      PROVE  Agrees(d, q, s)'
  <2>1. d \in Codes /\ q \in Peers /\ s \in Subs
    BY <1>1, SeatedAfter
  <2>2. peer'[p].streams = {} /\ \A r \in Peers \ {p} : peer'[r] = peer[r]
    BY NoStreamsYet DEF CreateRoom, IInv, TypeOK
  <2>3. q # p /\ s \in peer[q].streams
    BY <1>1, <2>1, <2>2
  <2>4. d \in live /\ members'[d] = members[d]
    BY <1>1, <2>1, <2>3 DEF CreateRoom, IInv, TypeOK
  <2>5. queue'[s] = queue[s]
    BY DEF CreateRoom
  <2> QED
    BY <1>1, <2>3, <2>4, <2>5, Kept
<1> QED
  BY <1>1, RemoteAgreesIs DEF RemoteAgrees, Agrees

\* Rooms that go take nothing from the others.
LEMMA ForgetAgrees ==
  ASSUME IInv, RemoteAgrees, ViewNext, NEW C, NEW P, Forget(C, P), UNCHANGED queue
  PROVE  RemoteAgrees'
<1>1. ASSUME NEW d \in live', NEW q \in members'[d], NEW s \in peer'[q].streams, ~filled'[s]
      PROVE  Agrees(d, q, s)'
  <2>1. d \in Codes /\ q \in Peers /\ s \in Subs
    BY <1>1, SeatedAfter
  <2>2. d \in live /\ members'[d] = members[d]
    BY <1>1, <2>1 DEF Forget
  <2>3. s \in peer[q].streams
    BY <1>1, <2>1, NoStreamsYet DEF Forget
  <2> QED
    BY <1>1, <2>2, <2>3, Kept
<1> QED
  BY <1>1 DEF RemoteAgrees, Agrees

LEMMA SubscribeAgrees ==
  ASSUME IInv, RemoteAgrees, ViewNext,
         NEW c \in Codes, NEW p \in Peers, NEW t \in Subs, Subscribe(c, p, t)
  PROVE  RemoteAgrees'
<1>1. ASSUME NEW d \in live', NEW q \in members'[d], NEW s \in peer'[q].streams, ~filled'[s]
      PROVE  Agrees(d, q, s)'
  <2>1. /\ d \in Codes /\ q \in Peers /\ s \in Subs
        /\ chan'[s] = "open" /\ home'[s] = [code |-> d, peer |-> q]
    BY <1>1, SeatedAfter
  <2>2. d \in live /\ q \in members[d] /\ members' = members
    BY <1>1 DEF Subscribe
  <2>3. CASE s = t
    <3>1. home'[t] = [code |-> c, peer |-> p]
      BY DEF Subscribe, IInv, TypeOK
    <3>2. d = c /\ q = p
      BY <2>1, <2>3, <3>1
    <3>3. queue'[t] = <<RoomState(members[c])>>
      BY DEF Subscribe, IInv, TypeOK
    <3>4. \A view \in Outcomes(t)' : \E other :
            view = HandleServerEvent(other, p, RoomState(members[c]), TRUE)
      <4>1. home'[t].peer = p
        BY <3>1
      <4>2. Len(queue'[t]) = 1 /\ queue'[t][1] = RoomState(members[c])
        BY <3>3
      <4>3. queue'[t][1].type # "signal"
        BY <4>2 DEF RoomState
      <4>4. ASSUME NEW view \in Outcomes(t)'
            PROVE  view = HandleServerEvent(remote'[t], p, RoomState(members[c]), TRUE)
        <5>1. PICK i \in 0..Len(queue'[t]) :
                     /\ \A k \in (i + 1)..Len(queue'[t]) : queue'[t][k].type = "signal"
                     /\ view = Held(t, i)'
          BY <4>4 DEF Outcomes
        <5>2. i = 1 /\ view = Held(t, 1)'
          BY <4>2, <4>3, <5>1
        <5>3. Held(t, 1)' = HandleServerEvent(remote'[t], p, RoomState(members[c]), TRUE)
          BY <4>1, <4>2 DEF Held
        <5> QED
          BY <5>1, <5>2, <5>3
      <4> QED
        BY <4>4
    <3>5. ASSUME NEW other
          PROVE  LET view == HandleServerEvent(other, p, RoomState(members[c]), TRUE)
                 IN IF members[c] = {p} THEN view = NoOne ELSE view \in members[c] \ {p}
      <4>1. p \in members[c]
        BY <2>2, <3>2
      <4> QED
        BY <4>1, SyncRoom
    <3>6. members'[d] = members[c]
      BY <2>2, <3>2
    <3> QED
      BY <2>3, <3>2, <3>4, <3>5, <3>6 DEF Agrees
  <2>4. CASE s # t
    <3>1. s \in peer[q].streams
      BY <1>1, <2>1, <2>4 DEF Subscribe, WithStream, IInv, TypeOK, Peer
    <3>2. queue'[s] = queue[s]
      BY <2>1, <2>4 DEF Subscribe, IInv, TypeOK
    <3> QED
      BY <1>1, <2>2, <3>1, <3>2, Kept
  <2> QED
    BY <2>3, <2>4
<1> QED
  BY <1>1 DEF RemoteAgrees, Agrees

LEMMA ReceiveAgrees ==
  ASSUME IInv, RemoteAgrees, ViewNext, NEW t \in Subs, Receive(t)
  PROVE  RemoteAgrees'
<1>1. ASSUME NEW d \in live', NEW q \in members'[d], NEW s \in peer'[q].streams, ~filled'[s]
      PROVE  Agrees(d, q, s)'
  <2>1. d \in live /\ q \in members[d] /\ members' = members /\ s \in peer[q].streams
    BY <1>1 DEF Receive
  <2>2. s \in Subs
    BY <1>1, SeatedAfter
  <2>3. queue'[s] = queue[s] \/ (queue[s] # <<>> /\ queue'[s] = Tail(queue[s]))
    BY <2>2 DEF Receive, IInv, TypeOK
  <2> QED
    BY <1>1, <2>1, <2>3, Kept
<1> QED
  BY <1>1 DEF RemoteAgrees, Agrees

LEMMA TickAgrees ==
  ASSUME IInv, RemoteAgrees, ViewNext, Tick
  PROVE  RemoteAgrees'
<1>1. ASSUME NEW d \in live', NEW q \in members'[d], NEW s \in peer'[q].streams, ~filled'[s]
      PROVE  Agrees(d, q, s)'
  <2>1. d \in live /\ q \in members[d] /\ members' = members /\ queue' = queue
    BY <1>1 DEF Tick
  <2>2. d \in Codes /\ q \in Peers
    BY <1>1, SeatedAfter
  <2>3. s \in peer[q].streams
    BY <1>1, <2>2 DEF Tick, Aged, Gone, NewPeer, IInv, TypeOK, Peer
  <2> QED
    BY <1>1, <2>1, <2>3, Kept
<1> QED
  BY <1>1 DEF RemoteAgrees, Agrees

\* An event is broadcast to the peers P of room c: who hears it, and that
\* nothing reaches anybody else.
LEMMA BroadcastHeard ==
  ASSUME IInv, ViewNext, NEW c \in live, NEW P \in SUBSET members[c], NEW e \in Event,
         queue' = Delivered(Broadcast(P, e)),
         NEW d \in live, d \in live', NEW q \in members[d], q \in members'[d],
         NEW s \in peer[q].streams, s \in peer'[q].streams, ~filled'[s]
  PROVE  /\ d = c /\ q \in P => queue'[s] = Offer(queue[s], <<e>>)
         /\ ~(d = c /\ q \in P) => queue'[s] = queue[s]
<1>1. s \in Subs
  BY SeatedBefore
<1>2. queue'[s] = Offer(queue[s], Broadcast(P, e)[s])
  BY <1>1 DEF Delivered
<1>3. ASSUME d = c, q \in P
      PROVE  Broadcast(P, e)[s] = <<e>>
  BY <1>1, <1>3, OneListener DEF Broadcast
<1>4. ASSUME ~(d = c /\ q \in P)
      PROVE  queue'[s] = queue[s]
  <2>1. Broadcast(P, e)[s] = <<>>
    BY <1>1, <1>4, OneListener DEF Broadcast
  <2> QED
    BY <1>1, <1>2, <2>1, OfferNothing DEF IInv, TypeOK
<1> QED
  BY <1>2, <1>3, <1>4

LEMMA SendAgrees ==
  ASSUME IInv, RemoteAgrees, ViewNext,
         NEW c \in Codes, NEW from \in Peers, NEW to \in Peers \cup {NoOne},
         from # to, Send(c, from, to)
  PROVE  RemoteAgrees'
<1> DEFINE P == IF to = NoOne THEN members[c] \ {from} ELSE members[c] \cap {to}
<1>1. c \in live /\ from \in members[c] /\ P \in SUBSET members[c] /\ from \notin P
  BY DEF Send
<1>2. queue' = Delivered(Broadcast(P, Signal(from)))
  BY DEF Send, SignalNews
<1> HIDE DEF P
<1>3. Signal(from) \in Event
  BY EventTypes
<1>4. ASSUME NEW d \in live', NEW q \in members'[d], NEW s \in peer'[q].streams, ~filled'[s]
      PROVE  Agrees(d, q, s)'
  <2>1. d \in live /\ q \in members[d] /\ members' = members
    BY <1>4 DEF Send
  <2>2. s \in peer[q].streams
    <3>1. q \in Peers
      BY <1>4, SeatedAfter
    <3> QED
      BY <1>4, <3>1 DEF Send, Engaged, IInv, TypeOK, Peer
  <2>5. /\ d = c /\ q \in P => queue'[s] = Offer(queue[s], <<Signal(from)>>)
        /\ ~(d = c /\ q \in P) => queue'[s] = queue[s]
    BY <1>1, <1>2, <1>3, <1>4, <2>1, <2>2, BroadcastHeard
  <2>3. CASE d = c /\ q \in P
    <3>1. queue'[s] = Offer(queue[s], <<Signal(from)>>)
      BY <2>3, <2>5
    <3>2. s \in Subs /\ chan'[s] = "open" /\ home'[s] = home[s]
      <4>1. s \in Subs /\ home[s] = [code |-> d, peer |-> q]
        BY <2>1, <2>2, SeatedBefore
      <4>2. chan'[s] = "open" /\ home'[s] = [code |-> d, peer |-> q]
        BY <1>4, SeatedAfter
      <4> QED
        BY <4>1, <4>2
    <3>3. /\ ~filled[s]
          /\ \A view \in Outcomes(s)' : view \in Outcomes(s) \/ view = from
      <4>1. \A view \in Outcomes(s)' :
              view \in Outcomes(s) \/ view = HandleServerEvent(remote[s], home[s].peer, Signal(from), TRUE)
        BY <1>3, <1>4, <3>1, <3>2, NextIsStep, Signalled
      <4>2. ~filled[s]
        BY <1>3, <1>4, <3>1, <3>2, NextIsStep, Signalled
      <4> QED
        BY <4>1, <4>2, SignalHandled
    <3>4. Agrees(d, q, s)
      BY <2>1, <2>2, <3>3, RemoteAgreesIs
    <3>5. from \in members[d] \ {q} /\ members[d] # {q}
      BY <1>1, <2>3
    <3> QED
      BY <2>1, <3>3, <3>4, <3>5 DEF Agrees
  <2>4. CASE ~(d = c /\ q \in P)
    <3>1. queue'[s] = queue[s]
      BY <2>4, <2>5
    <3> QED
      BY <1>4, <2>1, <2>2, <3>1, Kept
  <2> QED
    BY <2>3, <2>4
<1> QED
  BY <1>4 DEF RemoteAgrees, Agrees

\* A peer leaves, and whoever is still in the room hears that it is alone.
LEMMA DepartAgrees ==
  ASSUME IInv, RemoteAgrees, ViewNext, NEW c \in live, NEW p \in members[c], Depart(c, p),
         \A s \in Subs : chan'[s] # "free"
           => queue'[s] = Delivered(Broadcast(members[c] \ {p}, PeerLeft(p)))[s]
  PROVE  RemoteAgrees'
<1> DEFINE P == members[c] \ {p}
<1>1. c \in Codes /\ p \in Peers /\ members[c] \subseteq Peers
  BY DEF IInv, TypeOK
<1>2. PeerLeft(p) \in Event
  BY <1>1, EventTypes
<1>3. \A d \in Codes \ {c} : members'[d] = members[d]
  BY DEF Depart, IInv, TypeOK
<1>4. members'[c] = P
  BY <1>1 DEF Depart, IInv, TypeOK
<1>5. \A q, r \in P : q = r
  <2>1. IsFiniteSet(members[c]) /\ Cardinality(members[c]) <= 2
    BY <1>1, FS_Subset DEF IInv, RoomShape, RoomCapacity
  <2>2. Cardinality(P) = Cardinality(members[c]) - 1 /\ Cardinality(members[c]) \in Nat
    BY <2>1, FS_RemoveElement, FS_CardinalityType
  <2>3. P \in SUBSET Peers /\ Cardinality(P) < 2
    BY <1>1, <2>1, <2>2
  <2> QED
    BY <2>3, FreeSeat
<1>6. ASSUME NEW d \in live', NEW q \in members'[d], NEW s \in peer'[q].streams, ~filled'[s]
      PROVE  Agrees(d, q, s)'
  <2>1. d \in Codes /\ q \in Peers /\ s \in Subs /\ chan'[s] = "open"
    BY <1>6, SeatedAfter
  <2>2. d \in live
    BY <1>6 DEF Depart
  <2>3. q \in members[d] /\ q # p
    <3>1. CASE d = c
      BY <1>4, <1>6, <3>1
    <3>2. CASE d # c
      BY <1>3, <1>6, <2>1, <2>2, <3>2 DEF IInv, RoomShape
    <3> QED
      BY <3>1, <3>2
  <2>4. s \in peer[q].streams
    BY <1>6, <2>1, <2>3 DEF Depart, IInv, TypeOK
  <2>5. queue'[s] = Offer(queue[s], Broadcast(P, PeerLeft(p))[s])
    BY <2>1 DEF Delivered
  <2>6. CASE d = c
    <3>1. q \in P
      BY <2>3, <2>6
    <3>2. Broadcast(P, PeerLeft(p))[s] = <<PeerLeft(p)>>
      <4>1. s \in StreamsOf(P)
        BY <2>4, <3>1 DEF StreamsOf
      <4> QED
        BY <2>1, <4>1 DEF Broadcast
    <3>3. <<PeerLeft(p)>> \in Seq(Event) /\ <<PeerLeft(p)>> # <<>>
          /\ <<PeerLeft(p)>>[Len(<<PeerLeft(p)>>)] = PeerLeft(p)
          /\ PeerLeft(p).type # "signal"
      BY <1>2, NotSignals
    <3>4. \A view \in Outcomes(s)' : \E other :
            view = HandleServerEvent(other, q, PeerLeft(p), TRUE)
      <4> DEFINE es == <<PeerLeft(p)>>
      <4>1. es \in Seq(Event) /\ es # <<>> /\ es[Len(es)] = PeerLeft(p)
            /\ es[Len(es)].type # "signal" /\ queue'[s] = Offer(queue[s], es)
        BY <2>5, <3>2, <3>3
      <4> HIDE DEF es
      <4>2. \A view \in Outcomes(s)' : \E other :
              view = HandleServerEvent(other, q, es[Len(es)], TRUE)
        BY <1>6, <2>2, <2>3, <2>4, <4>1, Heard
      <4> QED
        BY <4>1, <4>2
    <3>5. \A view \in Outcomes(s)' : view = NoOne
      BY <3>4, LeftHandled
    <3>6. members'[d] = {q}
      BY <1>4, <1>5, <2>6, <3>1
    <3> QED
      BY <3>5, <3>6 DEF Agrees
  <2>7. CASE d # c
    <3>1. Broadcast(P, PeerLeft(p))[s] = <<>>
      <4>1. s \notin StreamsOf(P)
        BY <2>2, <2>3, <2>4, <2>7, OneListener
      <4> QED
        BY <2>1, <4>1 DEF Broadcast
    <3>2. queue'[s] = queue[s]
      BY <2>1, <2>5, <3>1, OfferNothing DEF IInv, TypeOK
    <3> QED
      BY <1>3, <1>6, <2>1, <2>2, <2>3, <2>4, <2>7, <3>2, Kept
  <2> QED
    BY <2>6, <2>7
<1> QED
  BY <1>6 DEF RemoteAgrees, Agrees

LEMMA LeaveAgrees ==
  ASSUME IInv, RemoteAgrees, ViewNext, NEW c \in Codes, NEW p \in Peers, Leave(c, p)
  PROVE  RemoteAgrees'
<1>1. c \in live /\ p \in members[c] /\ Depart(c, p)
  BY DEF Leave
<1>2. queue' = Delivered(Broadcast(members[c] \ {p}, PeerLeft(p)))
  BY DEF Leave
<1> QED
  BY <1>1, <1>2, DepartAgrees

LEMMA CleanupAgrees ==
  ASSUME IInv, RemoteAgrees, ViewNext, NEW t \in Subs, Cleanup(t)
  PROVE  RemoteAgrees'
<1>1. \A s \in Subs : chan'[s] # "free" => s # t /\ queue'[s] = Delivered(CleanupNews(t))[s]
  BY DEF Cleanup, IInv, TypeOK, Delivered
<1>2. CASE LosesLastStream(t)
  <2>1. home[t].code \in live /\ home[t].peer \in members[home[t].code]
    BY <1>2 DEF LosesLastStream, StillSeated
  <2>2. Depart(home[t].code, home[t].peer)
    BY <1>2 DEF Cleanup, LosesLastStream
  <2>3. CleanupNews(t) = Broadcast(members[home[t].code] \ {home[t].peer}, PeerLeft(home[t].peer))
    BY <1>2 DEF CleanupNews
  <2> QED
    BY <1>1, <2>1, <2>2, <2>3, DepartAgrees
<1>3. CASE ~LosesLastStream(t)
  <2>1. CleanupNews(t) = [s \in Subs |-> <<>>]
    BY <1>3 DEF CleanupNews
  <2>2. UNCHANGED <<live, members>>
        /\ (peer' = peer \/ peer' = [peer EXCEPT ![home[t].peer] = WithoutStream(@, t)])
    BY <1>3 DEF Cleanup
  <2>3. ASSUME NEW d \in live', NEW q \in members'[d], NEW s \in peer'[q].streams, ~filled'[s]
        PROVE  Agrees(d, q, s)'
    <3>1. d \in Codes /\ q \in Peers /\ s \in Subs /\ chan'[s] = "open"
      BY <2>3, SeatedAfter
    <3>2. s \in peer[q].streams
      <4>1. peer \in [Peers -> Peer]
        BY DEF IInv, TypeOK
      <4>2. peer'[q] \in {peer[q], WithoutStream(peer[q], t)}
        BY <2>2, <3>1, <4>1
      <4>3. WithoutStream(peer[q], t).streams \subseteq peer[q].streams
        BY <3>1, <4>1 DEF WithoutStream, Peer
      <4> QED
        BY <2>3, <4>2, <4>3
    <3>3. queue'[s] = Offer(queue[s], <<>>)
      BY <1>1, <2>1, <3>1 DEF Delivered
    <3>4. queue'[s] = queue[s]
      BY <3>1, <3>3, OfferNothing DEF IInv, TypeOK
    <3> QED
      BY <2>2, <2>3, <3>2, <3>4, Kept
  <2> QED
    BY <2>3 DEF RemoteAgrees, Agrees
<1> QED
  BY <1>2, <1>3

LEMMA NobodyLeaves ==
  ASSUME IInv, NEW c \in live, NEW order \in Evictions(c), NEW q, Remaining(c, order) = members[c]
  PROVE  LeavesHeard(order, q) = <<>>
<1> DEFINE out == Orphans(c) \cup StaleGuests(c)
<1>1. out \subseteq members[c] /\ members[c] \subseteq Peers /\ IsFiniteSet(out)
  <2>1. out \subseteq members[c] /\ members[c] \subseteq Peers
    BY DEF Orphans, StaleGuests, IInv, TypeOK
  <2> QED
    BY <2>1, FS_Subset
<1>2. Cardinality(out) \in Nat /\ order \in [1..Cardinality(out) -> out]
  BY <1>1, FS_CardinalityType DEF Evictions
<1> HIDE DEF out
<1>3. DOMAIN order = {}
  <2>1. \A i \in DOMAIN order : order[i] \in members[c]
    BY <1>1, <1>2
  <2> QED
    BY <2>1 DEF Remaining
<1> QED
  BY <1>3 DEF LeavesHeard

\* A join that is refused has told nobody anything, and one that is admitted
\* ends what everybody hears with its own arrival.
LEMMA JoinAgrees ==
  ASSUME IInv, RemoteAgrees, ViewNext, NEW c \in Codes, NEW p \in Peers, JoinRoom(c, p)
  PROVE  RemoteAgrees'
<1>1. PICK order \in Evictions(c) : EvictAndAdmit(c, p, order)
  BY DEF JoinRoom
<1> DEFINE stay == Remaining(c, order)
           news == JoinNews(c, p, order)
<1>2. c \in live /\ Fresh(p) /\ stay \subseteq members[c]
  BY DEF JoinRoom, Remaining
<1>3. p \notin UNION {members[d] : d \in live}
  BY <1>2, GoneFields DEF Fresh, IInv, RoomShape
<1>4. /\ live' = live /\ queue' = Delivered(news)
      /\ \A d \in Codes \ {c} : members'[d] = members[d]
      /\ members'[c] = IF HasSeat(c, order) THEN stay \cup {p} ELSE stay
  BY <1>1 DEF EvictAndAdmit, IInv, TypeOK
<1>5. \A q \in Peers : peer'[q].streams \subseteq peer[q].streams
                       /\ (q = p => peer'[q].streams = {})
  <2>1. peer[p].streams = {}
    BY <1>2, NoStreamsYet DEF Fresh
  <2>2. \A q \in Peers : peer'[q] \in {peer[q], Gone, NewPeer("guest")}
    BY <1>1 DEF EvictAndAdmit
  <2>3. peer'[p] = peer[p] \/ peer'[p] = Gone \/ peer'[p] = NewPeer("guest")
    BY <2>2
  <2> QED
    BY <2>1, <2>2, <2>3, NoStreamsYet
<1>6. news \in [Subs -> Seq(Event)]
  BY JoinNewsType DEF IInv
<1>7. ASSUME NEW d \in live', NEW q \in members'[d], NEW s \in peer'[q].streams, ~filled'[s]
      PROVE  Agrees(d, q, s)'
  <2>1. d \in Codes /\ q \in Peers /\ s \in Subs
    BY <1>7, SeatedAfter
  <2>2. q # p /\ s \in peer[q].streams
    BY <1>5, <1>7, <2>1
  <2>3. d \in live /\ q \in members[d]
    BY <1>2, <1>4, <1>7, <2>1, <2>2
  <2>4. queue'[s] = Offer(queue[s], news[s])
    BY <1>4, <2>1 DEF Delivered
  <2>5. CASE d # c
    <3>1. s \notin StreamsOf(members[c])
      BY <1>2, <2>2, <2>3, <2>5, OneListener
    <3>2. news[s] = <<>>
      BY <2>1, <3>1 DEF JoinNews
    <3>3. queue'[s] = queue[s]
      BY <2>1, <2>4, <3>2, OfferNothing DEF IInv, TypeOK
    <3> QED
      BY <1>4, <1>7, <2>1, <2>2, <2>3, <2>5, <3>3, Kept
  <2>6. CASE d = c
    <3>1. s \in StreamsOf(members[c])
      BY <2>2, <2>3, <2>6 DEF StreamsOf
    <3>2. Listener(c, s) = q
      <4>1. \A r \in members[c] : s \in peer[r].streams => r = q
        BY <1>2, <2>2, <2>3, <2>6, WiredHome DEF IInv
      <4> QED
        BY <2>2, <2>3, <2>6, <4>1 DEF Listener
    <3>3. news[s] = LeavesHeard(order, q) \o
            (IF HasSeat(c, order) /\ q \in stay THEN <<PeerJoined(p)>> ELSE <<>>)
      BY <2>1, <3>1, <3>2 DEF JoinNews
    <3>4. CASE HasSeat(c, order)
      <4>1. q \in stay /\ members'[c] = stay \cup {p}
        BY <1>4, <1>7, <2>2, <2>6, <3>4
      <4>2. news[s] = LeavesHeard(order, q) \o <<PeerJoined(p)>>
        BY <3>3, <3>4, <4>1
      <4>3. LeavesHeard(order, q) \in Seq(Event) /\ PeerJoined(p) \in Event
        BY LeavesHeardType, EventTypes DEF IInv, TypeOK
      <4>4. news[s] \in Seq(Event) /\ news[s] # <<>> /\ news[s][Len(news[s])] = PeerJoined(p)
            /\ news[s][Len(news[s])].type # "signal"
        BY <4>2, <4>3, NotSignals
      <4>5. \A view \in Outcomes(s)' : \E other :
              view = HandleServerEvent(other, q, PeerJoined(p), TRUE)
        <5>1. \A view \in Outcomes(s)' : \E other :
                view = HandleServerEvent(other, q, news[s][Len(news[s])], TRUE)
          BY <1>7, <2>2, <2>3, <2>4, <4>4, Heard
        <5> QED
          BY <4>4, <5>1
      <4>6. \A view \in Outcomes(s)' : view = p
        BY <4>5, JoinedHandled
      <4> QED
        BY <2>2, <2>6, <4>1, <4>6 DEF Agrees
    <3>5. CASE ~HasSeat(c, order)
      <4>1. stay = members[c]
        BY <1>2, <3>5, RefusedEvictsNobody
      <4>2. LeavesHeard(order, q) = <<>>
        BY <1>1, <1>2, <4>1, NobodyLeaves
      <4>3. news[s] = <<>>
        BY <3>3, <3>5, <4>2
      <4>4. queue'[s] = queue[s]
        BY <2>1, <2>4, <4>3, OfferNothing DEF IInv, TypeOK
      <4> QED
        BY <1>4, <1>7, <2>2, <2>3, <2>6, <3>5, <4>1, <4>4, Kept
    <3> QED
      BY <3>4, <3>5
  <2> QED
    BY <2>5, <2>6
<1> QED
  BY <1>7 DEF RemoteAgrees, Agrees

-----------------------------------------------------------------------------
(* The theorem *)

LEMMA AgreesStep == IInv /\ RemoteAgrees /\ [ViewNext]_viewVars => RemoteAgrees'
<1> SUFFICES ASSUME IInv, RemoteAgrees, [ViewNext]_viewVars
             PROVE  RemoteAgrees'
  OBVIOUS
<1>1. CASE UNCHANGED viewVars
  <2>1. ASSUME NEW s
        PROVE  Outcomes(s)' = Outcomes(s)
    BY <1>1 DEF viewVars, vars, Outcomes, Held
  <2> QED
    BY <1>1, <2>1 DEF viewVars, vars, RemoteAgrees
<1>2. CASE ViewNext
  <2>1. CASE \E c \in Codes, p \in Peers : CreateRoom(c, p) \/ JoinRoom(c, p) \/ Leave(c, p)
    BY <1>2, <2>1, CreateAgrees, JoinAgrees, LeaveAgrees
  <2>2. CASE \E c \in Codes : JoinAbandonedRoom(c)
    BY <1>2, <2>2, ForgetAgrees DEF JoinAbandonedRoom
  <2>3. CASE \E c \in Codes, p \in Peers, s \in Subs : Subscribe(c, p, s)
    BY <1>2, <2>3, SubscribeAgrees
  <2>4. CASE \E c \in Codes, from \in Peers, to \in Peers \cup {NoOne} :
               from # to /\ Send(c, from, to)
    BY <1>2, <2>4, SendAgrees
  <2>5. CASE \E s \in Subs : Cleanup(s) \/ Receive(s)
    BY <1>2, <2>5, CleanupAgrees, ReceiveAgrees
  <2>6. CASE PruneExpired
    BY <1>2, <2>6, ForgetAgrees DEF PruneExpired
  <2>7. CASE Tick
    BY <1>2, <2>7, TickAgrees
  <2> QED
    BY <1>2, <2>1, <2>2, <2>3, <2>4, <2>5, <2>6, <2>7 DEF ViewNext, Next
<1> QED
  BY <1>1, <1>2

\* The composition adds nothing to what the hub can do.
LEMMA HubInside == ViewSpec => Spec
<1>1. ViewInit => Init
  BY DEF ViewInit
<1>2. [ViewNext]_viewVars => [Next]_vars
  BY DEF ViewNext, viewVars, vars
<1> QED
  BY <1>1, <1>2, PTL DEF ViewSpec, Spec

\* handleServerEvent and the hub agree on who is in the room, whatever was
\* evicted, refused, cleaned up late or pruned in between: a stream that never
\* overflowed leads the browser to the other peer of its room, or to nobody.
THEOREM ViewsAgree == ViewSpec => []RemoteAgrees
<1>1. ViewInit => RemoteAgrees
  BY DEF ViewInit, Init, RemoteAgrees
<1>2. ViewSpec => []IInv
  BY HubInside, Inductive, PTL
<1> QED
  BY <1>1, <1>2, AgreesStep, PTL DEF ViewSpec
=============================================================================
