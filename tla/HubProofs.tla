----------------------------- MODULE HubProofs -----------------------------
(***************************************************************************)
(* Proofs about the hub, for any number of codes, peers and handlers, any  *)
(* buffer size and any grace periods.                                      *)
(***************************************************************************)
EXTENDS Hub, FiniteSetTheorems, TLAPS

USE HubAssumption

-----------------------------------------------------------------------------
(* Events and buffers *)

LEMMA EventTypes ==
  ASSUME NEW p \in Peers, NEW P \in SUBSET Peers
  PROVE  /\ RoomState(P) \in Event
         /\ PeerJoined(p) \in Event
         /\ PeerLeft(p) \in Event
         /\ Signal(p) \in Event
BY DEF RoomState, PeerJoined, PeerLeft, Signal, Event

\* The non-blocking send never overfills a channel.
LEMMA OfferType ==
  ASSUME NEW q \in Seq(Event), Len(q) <= BufferSize, NEW es \in Seq(Event)
  PROVE  Offer(q, es) \in Seq(Event) /\ Len(Offer(q, es)) <= BufferSize
<1> DEFINE free == BufferSize - Len(q)
<1>1. free \in Nat
  OBVIOUS
<1>2. CASE Len(es) <= free
  BY <1>1, <1>2 DEF Offer
<1>3. CASE ~(Len(es) <= free)
  <2>1. SubSeq(es, 1, free) \in Seq(Event) /\ Len(SubSeq(es, 1, free)) = free
    BY <1>1, <1>3
  <2>2. Offer(q, es) = q \o SubSeq(es, 1, free)
    BY <1>3 DEF Offer
  <2> QED
    BY <1>1, <2>1, <2>2
<1> QED
  BY <1>2, <1>3

QueueOK(q) == q \in [Subs -> Seq(Event)] /\ \A s \in Subs : Len(q[s]) <= BufferSize

LEMMA DeliveredType ==
  ASSUME QueueOK(queue), NEW events \in [Subs -> Seq(Event)]
  PROVE  QueueOK(Delivered(events))
<1>1. ASSUME NEW s \in Subs
      PROVE  Offer(queue[s], events[s]) \in Seq(Event) /\ Len(Offer(queue[s], events[s])) <= BufferSize
  BY OfferType DEF QueueOK
<1> QED
  BY <1>1 DEF Delivered, QueueOK

LEMMA BroadcastType ==
  ASSUME NEW P \in SUBSET Peers, NEW e \in Event
  PROVE  Broadcast(P, e) \in [Subs -> Seq(Event)]
BY DEF Broadcast

\* What a peer hears of an eviction is a prefix of it, so it is a sequence.
LEMMA LeavesHeardType ==
  ASSUME NEW c \in Codes, members \in [Codes -> SUBSET Peers],
         NEW order \in Evictions(c), NEW p
  PROVE  LeavesHeard(order, p) \in Seq(Event)
<1> DEFINE out == Orphans(c) \cup StaleGuests(c)
           n == Cardinality(out)
           heard == {i \in DOMAIN order : \A j \in 1..i : order[j] # p}
<1>1. out \subseteq Peers /\ IsFiniteSet(out)
  <2>1. out \subseteq Peers
    BY DEF Orphans, StaleGuests
  <2> QED
    BY <2>1, FS_Subset
<1>2. n \in Nat
  BY <1>1, FS_CardinalityType
<1>3. order \in [1..n -> out] /\ \A i, j \in 1..n : i < j => order[i] # order[j]
  BY DEF Evictions
<1>domain. heard = {i \in 1..n : \A j \in 1..i : order[j] # p}
  BY <1>3
<1> HIDE DEF out, n, heard
<1>4. \E m \in Nat : heard = 1..m /\ m <= n
  <2>1. CASE \A j \in 1..n : order[j] # p
    <3>1. heard = 1..n
      <4>1. ASSUME NEW i \in 1..n, NEW j \in 1..i
            PROVE  order[j] # p
        BY <1>2, <2>1
      <4> QED
        BY <1>domain, <4>1
    <3> QED
      BY <1>2, <3>1
  <2>2. ASSUME NEW k \in 1..n, order[k] = p
        PROVE  heard = 1..(k - 1)
    <3>1. ASSUME NEW i \in 1..(k - 1), NEW j \in 1..i
          PROVE  order[j] # p
      BY <1>2, <1>3, <2>2, <3>1
    <3>2. ASSUME NEW i \in heard
          PROVE  i \in 1..(k - 1)
      BY <1>2, <1>domain, <2>2, <3>2
    <3> QED
      BY <1>2, <1>domain, <3>1, <3>2
  <2>3. CASE \E k \in 1..n : order[k] = p
    <3>1. PICK k \in 1..n : heard = 1..(k - 1)
      BY <2>2, <2>3
    <3>2. k - 1 \in Nat /\ k - 1 <= n
      BY <1>2
    <3> QED
      BY <3>1, <3>2
  <2> QED
    BY <2>1, <2>3
<1>5. PICK m \in Nat : heard = 1..m /\ m <= n
  BY <1>4
<1>6. LeavesHeard(order, p) = [i \in 1..m |-> PeerLeft(order[i])]
  BY <1>5 DEF LeavesHeard, heard
<1>7. \A i \in 1..m : PeerLeft(order[i]) \in Event
  BY <1>1, <1>2, <1>3, <1>5, EventTypes
<1> QED
  BY <1>6, <1>7

-----------------------------------------------------------------------------
(* Types *)

LEMMA TypeOKQueue == TypeOK <=> TypeOK /\ QueueOK(queue)
BY DEF TypeOK, QueueOK

LEMMA PeerTypes ==
  /\ Gone \in Peer
  /\ NewPeer("owner") \in Peer
  /\ NewPeer("guest") \in Peer
  /\ \A object \in Peer :
       /\ Engaged(object) \in Peer
       /\ Aged(object) \in Peer
       /\ \A s \in Subs : WithStream(object, s) \in Peer /\ WithoutStream(object, s) \in Peer
<1>1. 0 \in 0..MaxAge /\ \A a \in 0..MaxAge : Older(a) \in 0..MaxAge
  BY DEF MaxAge, Older
<1>2. ASSUME NEW role \in {"owner", "guest", "none"}
      PROVE  NewPeer(role) \in Peer
  <2>1. {} \in SUBSET Subs /\ FALSE \in BOOLEAN
    OBVIOUS
  <2> QED
    BY <1>1, <2>1, Zenon DEF NewPeer, Peer
<1>3. ASSUME NEW object \in Peer
      PROVE  Engaged(object) \in Peer
  BY <1>1, Zenon DEF Engaged, Peer
<1>4. ASSUME NEW object \in Peer
      PROVE  Aged(object) \in Peer
  BY <1>1 DEF Aged, Peer
<1>5. ASSUME NEW object \in Peer, NEW s \in Subs
      PROVE  WithStream(object, s) \in Peer /\ WithoutStream(object, s) \in Peer
  BY <1>1 DEF WithStream, WithoutStream, Peer
<1> QED
  BY <1>2, <1>3, <1>4, <1>5 DEF Gone

LEMMA JoinNewsType ==
  ASSUME TypeOK, NEW c \in Codes, NEW p \in Peers, NEW order \in Evictions(c)
  PROVE  JoinNews(c, p, order) \in [Subs -> Seq(Event)]
<1> DEFINE admission(q) == IF HasSeat(c, order) /\ q \in Remaining(c, order) THEN <<PeerJoined(p)>> ELSE <<>>
<1>1. \A q : LeavesHeard(order, q) \in Seq(Event)
  BY LeavesHeardType DEF TypeOK
<1>2. \A q : admission(q) \in Seq(Event)
  BY EventTypes
<1>3. \A q : LeavesHeard(order, q) \o admission(q) \in Seq(Event)
  BY <1>1, <1>2
<1> QED
  BY <1>3 DEF JoinNews

LEMMA ForgetType ==
  ASSUME TypeOK, NEW C, NEW P, Forget(C, P)
  PROVE  /\ live' \subseteq Codes
         /\ members' \in [Codes -> SUBSET Peers]
         /\ idle' \in [Codes -> 0..MaxAge]
         /\ peer' \in [Peers -> Peer]
BY PeerTypes DEF TypeOK, Forget, MaxAge

LEMMA DepartType ==
  ASSUME TypeOK, NEW c \in Codes, NEW p \in Peers, Depart(c, p)
  PROVE  /\ live' \subseteq Codes
         /\ members' \in [Codes -> SUBSET Peers]
         /\ idle' \in [Codes -> 0..MaxAge]
         /\ peer' \in [Peers -> Peer]
BY PeerTypes DEF TypeOK, Depart, MaxAge

LEMMA TypeOKInit == Init => TypeOK
<1> SUFFICES ASSUME Init
             PROVE  TypeOK
  OBVIOUS
<1>1. peer \in [Peers -> Peer]
  BY PeerTypes DEF Init
<1>2. queue \in [Subs -> Seq(Event)] /\ \A s \in Subs : Len(queue[s]) <= BufferSize
  BY DEF Init
<1>3. live \subseteq Codes /\ members \in [Codes -> SUBSET Peers] /\ idle \in [Codes -> 0..MaxAge]
  BY DEF Init, MaxAge
<1>4. /\ chan \in [Subs -> {"free", "open", "closed"}]
      /\ home \in [Subs -> Home \cup {Nowhere}]
      /\ panicked \in BOOLEAN
  BY DEF Init
<1> QED
  BY <1>1, <1>2, <1>3, <1>4 DEF TypeOK

LEMMA TypeOKStep == TypeOK /\ [Next]_vars => TypeOK'
<1> SUFFICES ASSUME TypeOK, [Next]_vars
             PROVE  TypeOK'
  OBVIOUS
<1> USE DEF TypeOK, MaxAge
<1>1. ASSUME NEW c \in Codes, NEW p \in Peers, CreateRoom(c, p)
      PROVE  TypeOK'
  <2>1. peer' \in [Peers -> Peer] /\ UNCHANGED <<chan, home, queue, panicked>>
    BY <1>1, PeerTypes DEF CreateRoom
  <2>2. live' \subseteq Codes /\ members' \in [Codes -> SUBSET Peers] /\ idle' \in [Codes -> 0..MaxAge]
    BY <1>1 DEF CreateRoom
  <2> QED
    BY <2>1, <2>2
<1>2. ASSUME NEW c \in Codes, JoinAbandonedRoom(c)
      PROVE  TypeOK'
  <2>1. Forget({c}, members[c])
    BY <1>2 DEF JoinAbandonedRoom
  <2>2. chan' \in [Subs -> {"free", "open", "closed"}]
    BY <1>2 DEF JoinAbandonedRoom, Closed
  <2>3. panicked' \in BOOLEAN /\ UNCHANGED <<home, queue>>
    BY <1>2 DEF JoinAbandonedRoom, ClosePanics
  <2> QED
    BY <2>1, <2>2, <2>3, ForgetType
<1>3. ASSUME NEW c \in Codes, NEW p \in Peers, JoinRoom(c, p)
      PROVE  TypeOK'
  <2>1. PICK order \in Evictions(c) : EvictAndAdmit(c, p, order)
    BY <1>3 DEF JoinRoom
  <2>2. QueueOK(queue')
    BY <2>1, JoinNewsType, DeliveredType DEF QueueOK, EvictAndAdmit
  <2>3. members' \in [Codes -> SUBSET Peers] /\ idle' \in [Codes -> 0..MaxAge]
    BY <2>1 DEF EvictAndAdmit, Remaining
  <2>4. peer' \in [Peers -> Peer]
    BY <2>1, PeerTypes DEF EvictAndAdmit
  <2>5. panicked' \in BOOLEAN /\ UNCHANGED <<live, chan, home>>
    BY <2>1 DEF EvictAndAdmit, SendPanics
  <2> QED
    BY <2>2, <2>3, <2>4, <2>5 DEF QueueOK
<1>4. ASSUME NEW c \in Codes, NEW p \in Peers, NEW s \in Subs, Subscribe(c, p, s)
      PROVE  TypeOK'
  <2>1. <<RoomState(members[c])>> \in Seq(Event) /\ Len(<<RoomState(members[c])>>) = 1
    BY EventTypes
  <2>2. QueueOK(queue')
    BY <1>4, <2>1 DEF QueueOK, Subscribe
  <2>3. peer' \in [Peers -> Peer]
    BY <1>4, PeerTypes DEF Subscribe
  <2> QED
    BY <1>4, <2>2, <2>3 DEF QueueOK, Subscribe, Home
<1>5. ASSUME NEW s \in Subs, Cleanup(s)
      PROVE  TypeOK'
  <2>1. CleanupNews(s) \in [Subs -> Seq(Event)]
    <3>1. CASE LosesLastStream(s)
      <4>1. home[s].peer \in Peers
        BY <1>5, <3>1 DEF LosesLastStream, StillSeated
      <4> QED
        BY <3>1, <4>1, EventTypes, BroadcastType DEF CleanupNews, LosesLastStream, StillSeated
    <3>2. CASE ~LosesLastStream(s)
      BY <3>2 DEF CleanupNews
    <3> QED
      BY <3>1, <3>2
  <2>2. QueueOK(Delivered(CleanupNews(s)))
    BY <2>1, DeliveredType DEF QueueOK
  <2>3. QueueOK(queue')
    BY <1>5, <2>2 DEF QueueOK, Cleanup
  <2>4. /\ live' \subseteq Codes
        /\ members' \in [Codes -> SUBSET Peers]
        /\ idle' \in [Codes -> 0..MaxAge]
        /\ peer' \in [Peers -> Peer]
    <3>1. CASE LosesLastStream(s) /\ Depart(home[s].code, home[s].peer)
      BY <3>1, DepartType DEF LosesLastStream, StillSeated
    <3>2. CASE /\ StillSeated(s)
               /\ peer' = [peer EXCEPT ![home[s].peer] = WithoutStream(@, s)]
               /\ UNCHANGED <<live, members, idle>>
      BY <3>2, PeerTypes DEF StillSeated
    <3>3. CASE UNCHANGED <<live, members, idle, peer>>
      BY <3>3
    <3> QED
      BY <1>5, <3>1, <3>2, <3>3 DEF Cleanup
  <2>5. /\ panicked' \in BOOLEAN
        /\ chan' \in [Subs -> {"free", "open", "closed"}]
        /\ home' \in [Subs -> Home \cup {Nowhere}]
    BY <1>5 DEF Cleanup, SendPanics, ClosePanics
  <2> QED
    BY <2>3, <2>4, <2>5 DEF QueueOK
<1>6. ASSUME NEW c \in Codes, NEW from \in Peers, NEW to \in Peers \cup {NoOne}, Send(c, from, to)
      PROVE  TypeOK'
  <2>1. SignalNews(c, from, to) \in [Subs -> Seq(Event)]
    BY EventTypes, BroadcastType DEF SignalNews
  <2>2. QueueOK(queue')
    BY <1>6, <2>1, DeliveredType DEF QueueOK, Send
  <2>3. peer' \in [Peers -> Peer]
    BY <1>6, PeerTypes DEF Send
  <2> QED
    BY <1>6, <2>2, <2>3 DEF QueueOK, Send, SendPanics
<1>7. ASSUME NEW c \in Codes, NEW p \in Peers, Leave(c, p)
      PROVE  TypeOK'
  <2>1. Broadcast(members[c] \ {p}, PeerLeft(p)) \in [Subs -> Seq(Event)]
    BY EventTypes, BroadcastType
  <2>2. QueueOK(queue')
    BY <1>7, <2>1, DeliveredType DEF QueueOK, Leave
  <2>3. Depart(c, p)
    BY <1>7 DEF Leave
  <2>4. panicked' \in BOOLEAN /\ UNCHANGED <<chan, home>>
    BY <1>7 DEF Leave, SendPanics
  <2> QED
    BY <2>2, <2>3, <2>4, DepartType DEF QueueOK
<1>8. ASSUME PruneExpired
      PROVE  TypeOK'
  <2>1. Forget(Expired, PeersOfRooms(Expired))
    BY <1>8 DEF PruneExpired
  <2>2. /\ chan' \in [Subs -> {"free", "open", "closed"}]
        /\ panicked' \in BOOLEAN
        /\ UNCHANGED <<home, queue>>
    BY <1>8 DEF PruneExpired, Closed, ClosePanics
  <2> QED
    BY <2>1, <2>2, ForgetType
<1>9. ASSUME NEW s \in Subs, Receive(s)
      PROVE  TypeOK'
  BY <1>9 DEF Receive
<1>10. ASSUME Tick
       PROVE  TypeOK'
  BY <1>10, PeerTypes DEF Tick, Older
<1>11. ASSUME UNCHANGED vars
       PROVE  TypeOK'
  BY <1>11 DEF vars
<1> QED
  BY <1>1, <1>2, <1>3, <1>4, <1>5, <1>6, <1>7, <1>8, <1>9, <1>10, <1>11 DEF Next

\* Every reachable state of the hub is well formed, and no channel ever holds
\* more than its capacity.
THEOREM TypeCorrect == Spec => []TypeOK
BY TypeOKInit, TypeOKStep, PTL DEF Spec

-----------------------------------------------------------------------------
(* No panic: the streams of the peers in h.rooms are open channels *)

LEMMA SeatedStreamsOpen ==
  ASSUME StreamsWired, NEW c \in live, NEW P \in SUBSET members[c], NEW s \in StreamsOf(P)
  PROVE  chan[s] = "open"
<1>1. PICK p \in P : s \in peer[p].streams
  BY DEF StreamsOf
<1> QED
  BY <1>1 DEF StreamsWired

LEMMA WiredHome ==
  ASSUME StreamsWired, NEW c \in live, NEW p \in members[c], NEW s \in peer[p].streams
  PROVE  chan[s] = "open" /\ home[s].code = c /\ home[s].peer = p
<1>1. chan[s] = "open" /\ home[s] = [code |-> c, peer |-> p]
  BY DEF StreamsWired
<1> QED
  BY <1>1

LEMMA NoStreamsYet == Gone.streams = {} /\ \A role : NewPeer(role).streams = {}
BY DEF Gone, NewPeer

LEMMA BroadcastSafe ==
  ASSUME StreamsWired, NEW c \in live, NEW P \in SUBSET members[c], NEW e
  PROVE  ~SendPanics(Broadcast(P, e))
BY SeatedStreamsOpen DEF SendPanics, Broadcast

LEMMA JoinNewsSafe ==
  ASSUME StreamsWired, NEW c \in live, NEW p, NEW order
  PROVE  ~SendPanics(JoinNews(c, p, order))
<1>1. ASSUME NEW s \in Subs, s \notin StreamsOf(members[c])
      PROVE  JoinNews(c, p, order)[s] = <<>>
  BY <1>1 DEF JoinNews
<1>2. ASSUME NEW s \in StreamsOf(members[c])
      PROVE  chan[s] = "open"
  BY SeatedStreamsOpen
<1> QED
  BY <1>1, <1>2 DEF SendPanics

\* Every action keeps the streams wired and panics nowhere.
LEMMA SafeStep ==
  ASSUME IInv, [Next]_vars
  PROVE  NoPanic' /\ StreamsWired'
<1> USE DEF IInv, NoPanic
<1>1. ASSUME NEW c \in Codes, NEW p \in Peers, CreateRoom(c, p)
      PROVE  NoPanic' /\ StreamsWired'
  <2>1. peer'[p].streams = {} /\ \A q \in Peers \ {p} : peer'[q] = peer[q]
    BY <1>1 DEF CreateRoom, NewPeer, TypeOK
  <2>2. \A d \in live' : \A q \in members'[d] : q = p \/ (d \in live /\ q \in members[d])
    BY <1>1 DEF CreateRoom, TypeOK
  <2>3. UNCHANGED <<chan, home, panicked>> /\ \A d \in live' : \A q \in members'[d] : q \in Peers
    BY <1>1, TypeOKStep DEF CreateRoom, TypeOK
  <2> QED
    BY <2>1, <2>2, <2>3 DEF StreamsWired
<1>2. ASSUME NEW C \in SUBSET live, NEW P, P = PeersOfRooms(C),
             Forget(C, P), chan' = Closed(StreamsOf(P)), UNCHANGED home
      PROVE  StreamsWired' /\ ~ClosePanics(StreamsOf(P))
  <2>1. ASSUME NEW d \in live', NEW q \in members'[d]
        PROVE  d \in live \ C /\ members'[d] = members[d] /\ q \in Peers /\ peer'[q] \in {peer[q], Gone}
    BY <1>2 DEF Forget, TypeOK
  <2>2. ASSUME NEW d \in live', NEW q \in members'[d], NEW s \in peer'[q].streams
        PROVE  chan'[s] = "open" /\ home'[s] = [code |-> d, peer |-> q]
    <3>1. d \in live \ C /\ q \in members[d] /\ s \in peer[q].streams /\ s \in Subs
      <4>1. d \in live \ C /\ q \in members[d] /\ q \in Peers /\ peer'[q] \in {peer[q], Gone}
        BY <2>1
      <4>2. s \in peer[q].streams
        BY <2>2, <4>1, NoStreamsYet
      <4> QED
        BY <4>1, <4>2 DEF TypeOK, Peer
    <3>2. chan[s] = "open" /\ home[s] = [code |-> d, peer |-> q]
      BY <3>1 DEF StreamsWired
    <3>3. s \notin StreamsOf(P)
      <4>1. ASSUME NEW c \in C, NEW r \in members[c], s \in peer[r].streams
            PROVE  FALSE
        BY <3>1, <4>1, WiredHome
      <4> QED
        BY <1>2, <4>1 DEF StreamsOf, PeersOfRooms
    <3> QED
      BY <1>2, <3>1, <3>2, <3>3 DEF Closed, Closing
  <2>3. \A s \in StreamsOf(P) : chan[s] = "open"
    <3>1. ASSUME NEW s \in StreamsOf(P)
          PROVE  \E c \in live : \E r \in members[c] : s \in peer[r].streams
      BY <1>2 DEF StreamsOf, PeersOfRooms
    <3> QED
      BY <3>1, WiredHome
  <2> QED
    BY <2>2, <2>3 DEF StreamsWired, ClosePanics, Closing
<1>3. ASSUME NEW c \in Codes, JoinAbandonedRoom(c)
      PROVE  NoPanic' /\ StreamsWired'
  <2>1. members[c] = PeersOfRooms({c}) /\ {c} \in SUBSET live
    BY <1>3 DEF JoinAbandonedRoom, PeersOfRooms
  <2>2. StreamsWired' /\ ~ClosePanics(StreamsOf(members[c]))
    BY <1>2, <1>3, <2>1 DEF JoinAbandonedRoom
  <2> QED
    BY <1>3, <2>2 DEF JoinAbandonedRoom
<1>4. ASSUME PruneExpired
      PROVE  NoPanic' /\ StreamsWired'
  <2>1. StreamsWired' /\ ~ClosePanics(StreamsOf(PeersOfRooms(Expired)))
    BY <1>2, <1>4 DEF PruneExpired, Expired
  <2> QED
    BY <1>4, <2>1 DEF PruneExpired
<1>5. ASSUME NEW c \in Codes, NEW p \in Peers, JoinRoom(c, p)
      PROVE  NoPanic' /\ StreamsWired'
  <2>1. PICK order \in Evictions(c) : EvictAndAdmit(c, p, order)
    BY <1>5 DEF JoinRoom
  <2>2. ~SendPanics(JoinNews(c, p, order))
    BY <1>5, JoinNewsSafe DEF JoinRoom
  <2>3. ASSUME NEW d \in live', NEW q \in members'[d]
        PROVE  d \in live /\ q \in Peers /\ (q = p \/ q \in members[d])
    BY <2>1, <2>3, <1>5 DEF EvictAndAdmit, Remaining, TypeOK
  <2>4. ASSUME NEW d \in live', NEW q \in members'[d], NEW s \in peer'[q].streams
        PROVE  q \in members[d] /\ s \in peer[q].streams
    <3>1. p \notin members[d] /\ peer[p].streams = {}
      BY <1>5, <2>3 DEF JoinRoom, Fresh, RoomShape, Gone, NewPeer
    <3>2. peer'[q] \in {peer[q], Gone, NewPeer("guest")}
      BY <2>1, <2>3 DEF EvictAndAdmit
    <3>3. s \in peer[q].streams
      BY <2>4, <3>2 DEF Gone, NewPeer
    <3> QED
      BY <2>3, <3>1, <3>3
  <2> QED
    <3>1. \A d \in live' : \A q \in members'[d] : \A s \in peer'[q].streams :
            chan[s] = "open" /\ home[s] = [code |-> d, peer |-> q]
      BY <2>3, <2>4 DEF StreamsWired
    <3>2. UNCHANGED <<chan, home>> /\ ~panicked'
      BY <2>1, <2>2 DEF EvictAndAdmit
    <3> QED
      BY <3>1, <3>2 DEF StreamsWired
<1>6. ASSUME NEW c \in Codes, NEW p \in Peers, NEW s \in Subs, Subscribe(c, p, s)
      PROVE  NoPanic' /\ StreamsWired'
  <2>1. ASSUME NEW d \in live', NEW q \in members'[d], NEW t \in peer'[q].streams
        PROVE  chan'[t] = "open" /\ home'[t] = [code |-> d, peer |-> q]
    <3>1. d \in live /\ q \in members[d] /\ q \in Peers /\ t \in Subs
      BY <1>6, TypeOKStep DEF Subscribe, TypeOK, Peer
    <3>2. CASE t \in peer[q].streams
      <4>1. chan[t] = "open" /\ home[t] = [code |-> d, peer |-> q]
        BY <3>1, <3>2 DEF StreamsWired
      <4>2. t # s
        BY <1>6, <4>1 DEF Subscribe
      <4> QED
        BY <1>6, <3>1, <4>1, <4>2 DEF Subscribe, TypeOK
    <3>3. CASE t \notin peer[q].streams
      <4>1. q = p /\ t = s
        BY <1>6, <2>1, <3>1, <3>3 DEF Subscribe, WithStream, TypeOK, Peer
      <4>2. d = c
        BY <1>6, <3>1, <4>1 DEF Subscribe, RoomShape
      <4> QED
        BY <1>6, <4>1, <4>2 DEF Subscribe, TypeOK
    <3> QED
      BY <3>2, <3>3
  <2> QED
    BY <1>6, <2>1 DEF Subscribe, StreamsWired
<1>7. ASSUME NEW c \in Codes, NEW p \in Peers, c \in live, p \in members[c], Depart(c, p)
      PROVE  \A d \in live' : \A q \in members'[d] :
               /\ d \in live /\ q \in members[d] /\ q \in Peers /\ (q # p \/ d # c)
               /\ peer'[q] \in {peer[q], Gone}
  <2>1. \A d \in live' : \A q \in members'[d] :
          d \in live /\ q \in members[d] /\ q \in Peers /\ (q # p \/ d # c)
    BY <1>7 DEF Depart, TypeOK
  <2>2. \A q \in Peers : peer'[q] \in {peer[q], Gone}
    <3>1. peer' = [peer EXCEPT ![p] = Gone]
      BY <1>7 DEF Depart
    <3>2. peer \in [Peers -> Peer]
      BY DEF TypeOK
    <3> QED
      BY <3>1, <3>2
  <2> QED
    BY <2>1, <2>2
<1>8. ASSUME NEW c \in Codes, NEW p \in Peers, Leave(c, p)
      PROVE  NoPanic' /\ StreamsWired'
  <2>1. ~SendPanics(Broadcast(members[c] \ {p}, PeerLeft(p)))
    BY <1>8, BroadcastSafe DEF Leave
  <2>2. \A d \in live' : \A q \in members'[d] :
          d \in live /\ q \in members[d] /\ \A s \in peer'[q].streams : s \in peer[q].streams
    BY <1>7, <1>8 DEF Leave, Gone, NewPeer
  <2>3. chan' = chan /\ home' = home
    BY <1>8 DEF Leave
  <2>4. NoPanic'
    BY <1>8, <2>1 DEF Leave, NoPanic
  <2>5. ASSUME NEW d \in live', NEW q \in members'[d], NEW s \in peer'[q].streams
        PROVE  chan'[s] = "open" /\ home'[s] = [code |-> d, peer |-> q]
    <3>1. d \in live /\ q \in members[d] /\ s \in peer[q].streams
      BY <2>2
    <3>2. chan[s] = "open" /\ home[s] = [code |-> d, peer |-> q]
      BY <3>1 DEF StreamsWired
    <3> QED
      BY <2>3, <3>2
  <2> QED
    BY <2>4, <2>5 DEF StreamsWired
<1>9. ASSUME NEW s \in Subs, Cleanup(s)
      PROVE  NoPanic' /\ StreamsWired'
  <2> DEFINE c == home[s].code
             p == home[s].peer
  <2>1. ~SendPanics(CleanupNews(s)) /\ ~ClosePanics({s})
    <3>1. ~SendPanics(CleanupNews(s))
      BY BroadcastSafe DEF CleanupNews, LosesLastStream, StillSeated, SendPanics
    <3> QED
      BY <1>9, <3>1 DEF ClosePanics, Closing, Cleanup, TypeOK
  <2>2. ASSUME NEW d \in live', NEW q \in members'[d], NEW t \in peer'[q].streams
        PROVE  d \in live /\ q \in members[d] /\ t \in peer[q].streams /\ t # s
    <3>1. CASE LosesLastStream(s) /\ Depart(c, p)
      <4>1. /\ d \in live /\ q \in members[d] /\ q \in Peers
            /\ q # p \/ d # c
            /\ t \in peer[q].streams
        <5>1. c \in Codes /\ c \in live /\ p \in members[c] /\ p \in Peers
          BY <3>1 DEF LosesLastStream, StillSeated, TypeOK
        <5> QED
          BY <1>7, <2>2, <3>1, <5>1, NoStreamsYet
      <4>2. home[t].code = d /\ home[t].peer = q
        BY <4>1, WiredHome
      <4> QED
        BY <4>1, <4>2
    <3>2. CASE /\ StillSeated(s)
               /\ peer' = [peer EXCEPT ![p] = WithoutStream(@, s)]
               /\ UNCHANGED <<live, members, idle>>
      <4>1. d \in live /\ q \in members[d] /\ q \in Peers
        BY <2>2, <3>2 DEF TypeOK
      <4>2. t \in peer[q].streams /\ (q = p => t # s)
        BY <2>2, <3>2, <4>1 DEF WithoutStream, TypeOK, Peer
      <4>3. home[t] = [code |-> d, peer |-> q]
        BY <4>1, <4>2 DEF StreamsWired
      <4> QED
        BY <4>1, <4>2, <4>3
    <3>3. CASE ~StillSeated(s) /\ UNCHANGED <<live, members, idle, peer>>
      <4>1. home[t] = [code |-> d, peer |-> q] /\ d \in live /\ q \in members[d]
        BY <2>2, <3>3 DEF StreamsWired
      <4> QED
        BY <2>2, <3>3, <4>1 DEF StillSeated
    <3> QED
      BY <1>9, <3>1, <3>2, <3>3 DEF Cleanup
  <2>3. \A t \in Subs \ {s} : chan'[t] = chan[t] /\ home'[t] = home[t]
    BY <1>9 DEF Cleanup, TypeOK
  <2>4. \A d \in live' : \A q \in members'[d] : \A t \in peer'[q].streams : t \in Subs
    BY <2>2 DEF TypeOK, Peer
  <2>5. ASSUME NEW d \in live', NEW q \in members'[d], NEW t \in peer'[q].streams
        PROVE  chan'[t] = "open" /\ home'[t] = [code |-> d, peer |-> q]
    <3>1. d \in live /\ q \in members[d] /\ t \in peer[q].streams /\ t \in Subs \ {s}
      BY <2>2, <2>4
    <3> QED
      BY <2>3, <3>1 DEF StreamsWired
  <2>6. ~panicked'
    BY <1>9, <2>1 DEF Cleanup
  <2> QED
    BY <2>5, <2>6 DEF StreamsWired
<1>10. ASSUME NEW c \in Codes, NEW from \in Peers, NEW to \in Peers \cup {NoOne}, Send(c, from, to)
       PROVE  NoPanic' /\ StreamsWired'
  <2>1. ~SendPanics(SignalNews(c, from, to))
    BY <1>10, BroadcastSafe DEF Send, SignalNews
  <2>2. \A q \in Peers : peer'[q].streams = peer[q].streams
    BY <1>10 DEF Send, Engaged, TypeOK, Peer
  <2>3. \A d \in live : members[d] \subseteq Peers
    BY DEF TypeOK
  <2>4. UNCHANGED <<live, members, chan, home>> /\ ~panicked'
    BY <1>10, <2>1 DEF Send
  <2> QED
    BY <2>2, <2>3, <2>4 DEF StreamsWired
<1>11. ASSUME NEW s \in Subs, Receive(s)
       PROVE  NoPanic' /\ StreamsWired'
  BY <1>11 DEF Receive, StreamsWired
<1>12. ASSUME Tick
       PROVE  NoPanic' /\ StreamsWired'
  <2>1. \A q \in Peers : peer'[q].streams = peer[q].streams
    BY <1>12 DEF Tick, Aged, TypeOK, Peer
  <2>2. \A d \in live : members[d] \subseteq Peers
    BY DEF TypeOK
  <2> QED
    BY <1>12, <2>1, <2>2 DEF Tick, StreamsWired
<1>13. ASSUME UNCHANGED vars
       PROVE  NoPanic' /\ StreamsWired'
  BY <1>13 DEF vars, StreamsWired
<1> QED
  BY <1>1, <1>3, <1>4, <1>5, <1>6, <1>8, <1>9, <1>10, <1>11, <1>12, <1>13 DEF Next

-----------------------------------------------------------------------------
(* The shape of h.rooms *)

\* A step that only takes peers out of rooms, deletes the rooms it empties and
\* leaves the roles alone keeps the shape.
LEMMA ShapeKept ==
  ASSUME TypeOK, TypeOK', RoomShape,
         \A d \in Codes : members'[d] \subseteq members[d] /\ (d \in live' <=> members'[d] # {}),
         \A d \in live' : \A q \in members'[d] : peer'[q].role = peer[q].role
  PROVE  RoomShape'
<1>1. \A d \in live' : d \in Codes /\ d \in live /\ members'[d] \subseteq members[d]
  BY DEF RoomShape, TypeOK
<1>2. ASSUME NEW d \in live'
      PROVE  Cardinality(members'[d]) <= RoomCapacity
  <2>1. IsFiniteSet(members[d]) /\ Cardinality(members[d]) <= RoomCapacity
    BY <1>1, FS_Subset DEF TypeOK, RoomShape
  <2>2. Cardinality(members'[d]) <= Cardinality(members[d])
    BY <1>1, <2>1, FS_Subset
  <2>3. Cardinality(members'[d]) \in Nat /\ Cardinality(members[d]) \in Nat
    BY <1>1, <2>1, FS_Subset, FS_CardinalityType
  <2> QED
    BY <2>1, <2>2, <2>3 DEF RoomCapacity
<1>3. \A d \in live' : \A p, q \in members'[d] :
        peer'[p].role = "owner" /\ peer'[q].role = "owner" => p = q
  BY <1>1 DEF RoomShape
<1>4. \A c, d \in live' : c # d => members'[c] \cap members'[d] = {}
  BY <1>1 DEF RoomShape
<1>5. \A d \in live' : \A p \in members'[d] : peer'[p].role # "none"
  BY <1>1 DEF RoomShape
<1> QED
  BY <1>2, <1>3, <1>4, <1>5 DEF RoomShape

LEMMA SameRoles ==
  \A object \in Peer :
    /\ Engaged(object).role = object.role
    /\ Aged(object).role = object.role
    /\ \A s \in Subs : /\ WithStream(object, s).role = object.role
                      /\ WithoutStream(object, s).role = object.role
BY DEF Engaged, Aged, WithStream, WithoutStream, Peer

LEMMA DepartShape ==
  ASSUME IInv, TypeOK', NEW c \in live, NEW p \in members[c], Depart(c, p)
  PROVE  RoomShape'
<1>1. c \in Codes /\ p \in Peers
  BY DEF IInv, TypeOK
<1>2. \A d \in Codes : members'[d] = IF d = c THEN members[c] \ {p} ELSE members[d]
  BY <1>1 DEF Depart, IInv, TypeOK
<1>3. \A d \in Codes : d \in live' <=> members'[d] # {}
  BY <1>1, <1>2 DEF Depart, IInv, RoomShape
<1>4. \A d \in live' : \A q \in members'[d] : peer'[q].role = peer[q].role
  <2>1. ASSUME NEW d \in live', NEW q \in members'[d]
        PROVE  q # p /\ q \in Peers
    BY <1>1, <1>2 DEF IInv, RoomShape, TypeOK, Depart
  <2> QED
    BY <1>1, <2>1 DEF Depart, IInv, TypeOK
<1> QED
  BY <1>2, <1>3, <1>4, ShapeKept DEF IInv

LEMMA ForgetShape ==
  ASSUME IInv, TypeOK', NEW C \in SUBSET live, Forget(C, PeersOfRooms(C))
  PROVE  RoomShape'
<1>1. \A d \in Codes : members'[d] = IF d \in C THEN {} ELSE members[d]
  BY DEF Forget
<1>2. \A d \in Codes : d \in live' <=> members'[d] # {}
  BY <1>1 DEF Forget, IInv, RoomShape
<1>3. \A d \in live' : \A q \in members'[d] : peer'[q].role = peer[q].role
  <2>1. ASSUME NEW d \in live', NEW q \in members'[d]
        PROVE  q \in Peers /\ q \notin PeersOfRooms(C)
    <3>1. d \in Codes /\ d \in live /\ d \notin C /\ q \in members[d]
      BY <1>1 DEF Forget, IInv, TypeOK
    <3>2. \A c \in C : members[c] \cap members[d] = {}
      BY <3>1 DEF IInv, RoomShape
    <3> QED
      BY <3>1, <3>2 DEF PeersOfRooms, IInv, TypeOK
  <2> QED
    BY <2>1 DEF Forget
<1> QED
  BY <1>1, <1>2, <1>3, ShapeKept DEF IInv

LEMMA ShapeStep ==
  ASSUME IInv, [Next]_vars
  PROVE  RoomShape'
<1> USE DEF IInv
<1>0. TypeOK'
  BY TypeOKStep
<1>1. ASSUME NEW c \in Codes, NEW p \in Peers, CreateRoom(c, p)
      PROVE  RoomShape'
  <2>1. /\ live' = live \cup {c} /\ c \notin live
        /\ \A d \in Codes : members'[d] = IF d = c THEN {p} ELSE members[d]
        /\ \A q \in Peers : peer'[q] = IF q = p THEN NewPeer("owner") ELSE peer[q]
    BY <1>1 DEF CreateRoom, TypeOK
  <2>2. \A d \in live : p \notin members[d]
    BY <1>1 DEF CreateRoom, Fresh, RoomShape, Gone, NewPeer
  <2>3. \A d \in live : d \in Codes /\ members[d] \subseteq Peers
    BY DEF TypeOK
  <2>4. NewPeer("owner").role = "owner"
    BY DEF NewPeer
  <2>5. Cardinality({p}) <= RoomCapacity
    <3>1. Cardinality({p}) = 1
      BY FS_Singleton
    <3> QED
      BY <3>1 DEF RoomCapacity
  <2>6. \A d \in live' : Cardinality(members'[d]) <= RoomCapacity
    BY <2>1, <2>3, <2>5 DEF RoomShape
  <2>7. \A d \in live' : \A q, r \in members'[d] :
          peer'[q].role = "owner" /\ peer'[r].role = "owner" => q = r
    BY <2>1, <2>2, <2>3 DEF RoomShape
  <2>8. \A d, e \in live' : d # e => members'[d] \cap members'[e] = {}
    BY <2>1, <2>2, <2>3 DEF RoomShape
  <2>9. \A d \in live' : \A q \in members'[d] : peer'[q].role # "none"
    BY <2>1, <2>2, <2>3, <2>4 DEF RoomShape
  <2>10. \A d \in Codes : d \in live' <=> members'[d] # {}
    BY <2>1 DEF RoomShape
  <2> QED
    BY <2>6, <2>7, <2>8, <2>9, <2>10 DEF RoomShape
<1>2. ASSUME NEW c \in Codes, JoinAbandonedRoom(c)
      PROVE  RoomShape'
  <2>1. {c} \in SUBSET live /\ members[c] = PeersOfRooms({c})
    BY <1>2 DEF JoinAbandonedRoom, PeersOfRooms
  <2>2. Forget({c}, PeersOfRooms({c}))
    BY <1>2, <2>1 DEF JoinAbandonedRoom
  <2> QED
    BY <1>0, <2>1, <2>2, ForgetShape
<1>3. ASSUME NEW c \in Codes, NEW p \in Peers, JoinRoom(c, p)
      PROVE  RoomShape'
  <2>1. PICK order \in Evictions(c) : EvictAndAdmit(c, p, order)
    BY <1>3 DEF JoinRoom
  <2> DEFINE stay == Remaining(c, order)
             admitted == HasSeat(c, order)
  <2>2. /\ live' = live /\ c \in live /\ peer[p] = Gone
        /\ stay \subseteq members[c]
        /\ \A d \in Codes : members'[d] = IF d = c THEN IF admitted THEN stay \cup {p} ELSE stay
                                        ELSE members[d]
        /\ \A q \in Peers : peer'[q] = IF q = p /\ admitted THEN NewPeer("guest")
                                      ELSE IF q \in members[c] \ stay THEN Gone ELSE peer[q]
    BY <1>3, <2>1 DEF JoinRoom, Fresh, EvictAndAdmit, Remaining, TypeOK
  <2>3. \A d \in live : p \notin members[d] /\ d \in Codes /\ members[d] \subseteq Peers
    BY <2>2 DEF RoomShape, TypeOK, Gone, NewPeer
  <2>4. NewPeer("guest").role = "guest"
    BY DEF NewPeer
  <2>5. IsFiniteSet(stay) /\ Cardinality(stay) \in Nat
    BY <2>2, <2>3, FS_Subset, FS_CardinalityType
  <2>6. admitted <=> Cardinality(stay) < RoomCapacity
    BY DEF HasSeat
  <2>7. Cardinality(members'[c]) <= RoomCapacity /\ members'[c] # {}
    <3>1. CASE admitted
      <4>1. Cardinality(stay \cup {p}) = Cardinality(stay) + 1
        BY <2>2, <2>3, <2>5, FS_AddElement
      <4> QED
        BY <2>2, <2>5, <2>6, <3>1, <4>1 DEF RoomCapacity
    <3>2. CASE ~admitted
      <4>1. Cardinality(members[c]) <= RoomCapacity
        BY <2>2 DEF RoomShape
      <4>2. IsFiniteSet(members[c])
        BY <2>2, <2>3, FS_Subset
      <4>3. Cardinality(stay) <= Cardinality(members[c]) /\ Cardinality(members[c]) \in Nat
        BY <2>2, <4>2, FS_Subset, FS_CardinalityType
      <4>4. stay # {}
        BY <2>6, <3>2, FS_EmptySet DEF RoomCapacity
      <4> QED
        BY <2>2, <2>5, <3>2, <4>1, <4>3, <4>4 DEF RoomCapacity
    <3> QED
      BY <3>1, <3>2
  <2> HIDE DEF stay, admitted
  <2>8. \A d \in live' : Cardinality(members'[d]) <= RoomCapacity
    BY <2>2, <2>3, <2>7 DEF RoomShape
  <2>9. \A d \in live : d # c => members[d] \cap members[c] = {}
    BY <2>2 DEF RoomShape
  <2>10. \A d \in live' : \A q \in members'[d] :
           \/ d = c /\ q = p /\ peer'[q].role = "guest"
           \/ q \in members[d] /\ q # p /\ peer'[q] = peer[q]
    <3>1. ASSUME NEW d \in live', NEW q \in members'[d], ~(q = p /\ d = c)
          PROVE  q \in members[d] /\ q # p /\ peer'[q] = peer[q]
      BY <2>2, <2>3, <2>9, <3>1
    <3>2. ASSUME NEW d \in live', d = c, p \in members'[d]
          PROVE  peer'[p].role = "guest"
      BY <2>2, <2>3, <2>4, <3>2
    <3> QED
      BY <3>1, <3>2
  <2>11. \A d \in live' : \A q, r \in members'[d] :
           peer'[q].role = "owner" /\ peer'[r].role = "owner" => q = r
    BY <2>2, <2>10 DEF RoomShape
  <2>12. \A d, e \in live' : d # e => members'[d] \cap members'[e] = {}
    BY <2>2, <2>10 DEF RoomShape
  <2>13. \A d \in live' : \A q \in members'[d] : peer'[q].role # "none"
    BY <2>2, <2>10 DEF RoomShape
  <2>14. \A d \in Codes : d \in live' <=> members'[d] # {}
    BY <2>2, <2>7 DEF RoomShape
  <2> QED
    BY <2>8, <2>11, <2>12, <2>13, <2>14 DEF RoomShape
<1>4. ASSUME UNCHANGED <<live, members>>, \A q \in Peers : peer'[q].role = peer[q].role
      PROVE  RoomShape'
  <2>1. \A d \in Codes : members'[d] \subseteq members[d] /\ (d \in live' <=> members'[d] # {})
    BY <1>4 DEF RoomShape
  <2>2. \A d \in live' : \A q \in members'[d] : peer'[q].role = peer[q].role
    BY <1>4 DEF TypeOK
  <2> QED
    BY <1>0, <2>1, <2>2, ShapeKept
<1>5. ASSUME NEW c \in Codes, NEW p \in Peers, NEW s \in Subs, Subscribe(c, p, s)
      PROVE  RoomShape'
  BY <1>4, <1>5, SameRoles DEF Subscribe, TypeOK
<1>6. ASSUME NEW s \in Subs, Cleanup(s)
      PROVE  RoomShape'
  <2>1. CASE LosesLastStream(s) /\ Depart(home[s].code, home[s].peer)
    BY <1>0, <2>1, DepartShape DEF LosesLastStream, StillSeated
  <2>2. CASE /\ StillSeated(s)
             /\ peer' = [peer EXCEPT ![home[s].peer] = WithoutStream(@, s)]
             /\ UNCHANGED <<live, members, idle>>
    BY <1>4, <2>2, SameRoles DEF TypeOK
  <2>3. CASE UNCHANGED <<live, members, idle, peer>>
    BY <1>4, <2>3
  <2> QED
    BY <1>6, <2>1, <2>2, <2>3 DEF Cleanup
<1>7. ASSUME NEW c \in Codes, NEW from \in Peers, NEW to \in Peers \cup {NoOne}, Send(c, from, to)
      PROVE  RoomShape'
  BY <1>4, <1>7, SameRoles DEF Send, TypeOK
<1>8. ASSUME NEW c \in Codes, NEW p \in Peers, Leave(c, p)
      PROVE  RoomShape'
  BY <1>0, <1>8, DepartShape DEF Leave
<1>9. ASSUME PruneExpired
      PROVE  RoomShape'
  <2>1. Expired \in SUBSET live
    BY DEF Expired
  <2> QED
    BY <1>0, <1>9, <2>1, ForgetShape DEF PruneExpired
<1>10. ASSUME NEW s \in Subs, Receive(s)
       PROVE  RoomShape'
  BY <1>4, <1>10 DEF Receive
<1>11. ASSUME Tick
       PROVE  RoomShape'
  BY <1>4, <1>11, SameRoles DEF Tick, TypeOK
<1>12. ASSUME UNCHANGED vars
       PROVE  RoomShape'
  BY <1>4, <1>12 DEF vars
<1> QED
  BY <1>1, <1>2, <1>3, <1>5, <1>6, <1>7, <1>8, <1>9, <1>10, <1>11, <1>12 DEF Next

-----------------------------------------------------------------------------
(* The invariant and what follows from it *)

LEMMA IInvInit == Init => IInv
<1> SUFFICES ASSUME Init
             PROVE  IInv
  OBVIOUS
<1>1. NoPanic /\ StreamsWired /\ RoomShape
  BY DEF Init, NoPanic, StreamsWired, RoomShape
<1> QED
  BY <1>1, TypeOKInit DEF IInv

LEMMA IInvStep == IInv /\ [Next]_vars => IInv'
BY TypeOKStep, SafeStep, ShapeStep DEF IInv

\* In every reachable state the hub is well formed, its streams are wired and
\* nothing has panicked.
THEOREM Inductive == Spec => []IInv
BY IInvInit, IInvStep, PTL DEF Spec

\* hub.go never sends on nor closes a closed channel, however the cleanup
\* closures interleave with joins that tear a room down and with the janitor.
THEOREM NeverPanics == Spec => []NoPanic
<1>1. IInv => NoPanic
  BY DEF IInv
<1> QED
  BY <1>1, Inductive, PTL

\* Every stream of a peer in a room is an open channel, and its cleanup
\* closure finds that peer in that room.
THEOREM AlwaysWired == Spec => []StreamsWired
<1>1. IInv => StreamsWired
  BY DEF IInv
<1> QED
  BY <1>1, Inductive, PTL

\* No room is empty, over capacity or has two owners, no peer sits in two.
THEOREM AlwaysInShape == Spec => []RoomShape
<1>1. IInv => RoomShape
  BY DEF IInv
<1> QED
  BY <1>1, Inductive, PTL
=============================================================================
