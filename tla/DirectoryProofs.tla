-------------------------- MODULE DirectoryProofs --------------------------
(***************************************************************************)
(* Hub implements Directory: every step of the hub, seen through members,  *)
(* roles, streams and engagement, is a step of the directory or none.      *)
(* And who can lose a seat in a room, and how: the action properties of    *)
(* Hub.  Both for every value of the constants.                            *)
(***************************************************************************)
EXTENDS HubProofs

USE HubAssumption

\* The directory's variables, as Hub!Dir reads them off the hub's state.
RoleOf == [p \in Peers |-> peer[p].role]
Online == {p \in Peers : Attached(p)}
Spoke == {p \in Peers : peer[p].engaged}

\* A step that leaves roles, streams and engagement alone is not seen.
LEMMA Unseen ==
  ASSUME members' = members,
         \A q \in Peers : /\ peer'[q].role = peer[q].role
                          /\ peer'[q].engaged = peer[q].engaged
                          /\ peer'[q].streams = {} <=> peer[q].streams = {}
  PROVE  UNCHANGED Dir!directory
<1>1. RoleOf' = RoleOf /\ Online' = Online /\ Spoke' = Spoke
  BY DEF RoleOf, Online, Spoke, Attached
<1> QED
  BY <1>1 DEF Dir!directory, RoleOf, Online, Spoke

LEMMA GoneFields == Gone.role = "none" /\ Gone.engaged = FALSE /\ Gone.streams = {}
BY DEF Gone, NewPeer

\* Peers whose objects become garbage are gone from the directory, too.
LEMMA GoneSeen ==
  ASSUME NEW P, \A q \in Peers : peer'[q] = IF q \in P THEN Gone ELSE peer[q]
  PROVE  /\ RoleOf' = [q \in Peers |-> IF q \in P THEN "none" ELSE RoleOf[q]]
         /\ Online' = Online \ P
         /\ Spoke' = Spoke \ P
<1>1. RoleOf' = [q \in Peers |-> IF q \in P THEN "none" ELSE RoleOf[q]]
  BY GoneFields DEF RoleOf
<1>2. Online' = Online \ P
  BY GoneFields DEF Online, Attached
<1>3. Spoke' = Spoke \ P
  BY GoneFields DEF Spoke
<1> QED
  BY <1>1, <1>2, <1>3

LEMMA DepartSeen ==
  ASSUME TypeOK, NEW c \in Codes, NEW p \in members[c], Depart(c, p)
  PROVE  Dir!Depart(c, p)
<1>1. members' = [members EXCEPT ![c] = @ \ {p}]
  BY DEF Depart, TypeOK
<1>2. \A q \in Peers : peer'[q] = IF q \in {p} THEN Gone ELSE peer[q]
  BY DEF Depart, TypeOK
<1> QED
  BY <1>1, <1>2, GoneSeen DEF Dir!Depart, Dir!Gone, RoleOf, Online, Spoke

LEMMA ForgetSeen ==
  ASSUME TypeOK, NEW C, Forget(C, PeersOfRooms(C))
  PROVE  Dir!Retire(C)
<1>1. \A q \in Peers : peer'[q] = IF q \in PeersOfRooms(C) THEN Gone ELSE peer[q]
  BY DEF Forget
<1>2. /\ RoleOf' = [q \in Peers |-> IF q \in PeersOfRooms(C) THEN "none" ELSE RoleOf[q]]
      /\ Online' = Online \ PeersOfRooms(C)
      /\ Spoke' = Spoke \ PeersOfRooms(C)
  BY <1>1, GoneSeen
<1> QED
  BY <1>2 DEF Dir!Retire, Dir!Gone, Forget, PeersOfRooms, RoleOf, Online, Spoke

LEMMA DirInit == Init => Dir!Init
BY GoneFields DEF Init, Dir!Init, Attached

LEMMA DirCreate ==
  ASSUME IInv, NEW c \in Codes, NEW p \in Peers, CreateRoom(c, p)
  PROVE  Dir!Open(c, p)
<1>1. \A q \in Peers : peer'[q] = IF q = p THEN NewPeer("owner") ELSE peer[q]
  BY DEF CreateRoom, IInv, TypeOK
<1>2. peer[p] = Gone /\ members[c] = {}
  BY DEF CreateRoom, Fresh, IInv, RoomShape
<1>3. NewPeer("owner").role = "owner" /\ ~NewPeer("owner").engaged /\ NewPeer("owner").streams = {}
  BY DEF NewPeer
<1>4. RoleOf[p] = "none" /\ RoleOf' = [RoleOf EXCEPT ![p] = "owner"]
  BY <1>1, <1>2, <1>3, GoneFields DEF RoleOf
<1>5. Online' = Online /\ Spoke' = Spoke
  BY <1>1, <1>2, <1>3, GoneFields DEF Online, Spoke, Attached
<1> QED
  BY <1>2, <1>4, <1>5 DEF Dir!Open, CreateRoom, RoleOf, Online, Spoke

\* Whom a join evicts: guests that are not at work.
LEMMA EvictedAreIdleGuests ==
  ASSUME TypeOK, NEW c \in Codes, NEW order \in Evictions(c)
  PROVE  \A q \in members[c] \ Remaining(c, order) :
           q \in Peers /\ peer[q].role = "guest" /\ ~(Attached(q) /\ peer[q].engaged)
<1> DEFINE out == Orphans(c) \cup StaleGuests(c)
<1>1. order \in [1..Cardinality(out) -> out]
  BY DEF Evictions
<1>2. \A q \in out : q \in Peers /\ peer[q].role = "guest" /\ ~(Attached(q) /\ peer[q].engaged)
  BY DEF Orphans, StaleGuests, TypeOK
<1> HIDE DEF out
<1> QED
  BY <1>1, <1>2 DEF Remaining

\* A join that is refused has evicted nobody.
LEMMA RefusedEvictsNobody ==
  ASSUME IInv, NEW c \in live, NEW order, ~HasSeat(c, order)
  PROVE  Remaining(c, order) = members[c]
<1> DEFINE stay == Remaining(c, order)
<1>1. stay \subseteq members[c] /\ members[c] \subseteq Peers
  BY DEF Remaining, IInv, TypeOK
<1> HIDE DEF stay
<1>2. IsFiniteSet(members[c]) /\ IsFiniteSet(stay)
  BY <1>1, FS_Subset
<1>3. /\ Cardinality(members[c]) \in Nat /\ Cardinality(stay) \in Nat
      /\ Cardinality(members[c]) <= 2 /\ ~(Cardinality(stay) < 2)
  BY <1>2, FS_CardinalityType DEF HasSeat, IInv, RoomShape, RoomCapacity, stay
<1>4. Cardinality(stay) <= Cardinality(members[c])
      /\ (Cardinality(members[c]) = Cardinality(stay) => members[c] = stay)
  BY <1>1, <1>2, FS_Subset
<1>5. stay = members[c]
  BY <1>3, <1>4
<1> QED
  BY <1>5 DEF stay

\* Two who are not the same take both seats.
LEMMA FreeSeat ==
  ASSUME NEW S \in SUBSET Peers, Cardinality(S) < 2
  PROVE  \A q, r \in S : q = r
<1> SUFFICES ASSUME NEW q \in S, NEW r \in S, q # r
             PROVE  FALSE
  OBVIOUS
<1>1. IsFiniteSet(S)
  BY FS_Subset
<1>2. IsFiniteSet({q}) /\ Cardinality({q}) = 1
  BY FS_Singleton
<1>3. Cardinality({q} \cup {r}) = 2
  <2>1. r \notin {q}
    OBVIOUS
  <2>2. Cardinality({q} \cup {r}) = Cardinality({q}) + 1
    BY <1>2, <2>1, FS_AddElement
  <2> QED
    BY <1>2, <2>2
<1>4. {q} \cup {r} \in SUBSET S
  OBVIOUS
<1>5. Cardinality({q} \cup {r}) <= Cardinality(S) /\ Cardinality(S) \in Nat
  BY <1>1, <1>4, FS_Subset, FS_CardinalityType
<1> QED
  BY <1>3, <1>5

LEMMA DirJoin ==
  ASSUME IInv, NEW c \in Codes, NEW p \in Peers, JoinRoom(c, p)
  PROVE  \/ \E displaced \in SUBSET members[c] : Dir!Admit(c, p, displaced)
         \/ UNCHANGED Dir!directory
<1>1. PICK order \in Evictions(c) : EvictAndAdmit(c, p, order)
  BY DEF JoinRoom
<1> DEFINE stay == Remaining(c, order)
           displaced == members[c] \ stay
<1>2. c \in live /\ peer[p] = Gone /\ members[c] # {} /\ stay \subseteq members[c]
  BY DEF JoinRoom, Fresh, Remaining, IInv, RoomShape
<1>3. p \notin members[c]
  BY <1>2, GoneFields DEF IInv, RoomShape
<1>4. CASE HasSeat(c, order)
  <2>1. \A q \in Peers : peer'[q] = IF q = p THEN NewPeer("guest")
                                    ELSE IF q \in displaced THEN Gone ELSE peer[q]
    BY <1>1, <1>4 DEF EvictAndAdmit
  <2>2. NewPeer("guest").role = "guest" /\ ~NewPeer("guest").engaged /\ NewPeer("guest").streams = {}
    BY DEF NewPeer
  <2>3. /\ members' = [members EXCEPT ![c] = (members[c] \ displaced) \cup {p}]
        /\ \A q, r \in members[c] \ displaced : q = r
    <3>1. members[c] \ displaced = stay /\ stay \in SUBSET Peers
      BY <1>2 DEF IInv, TypeOK
    <3>2. Cardinality(stay) < 2
      BY <1>4 DEF HasSeat, RoomCapacity
    <3>3. \A q, r \in stay : q = r
      BY <3>1, <3>2, FreeSeat
    <3>4. members' = [members EXCEPT ![c] = stay \cup {p}]
      BY <1>1, <1>4 DEF EvictAndAdmit
    <3> QED
      BY <3>1, <3>3, <3>4
  <2>4. displaced \subseteq {q \in members[c] : RoleOf[q] = "guest"} \ (Online \cap Spoke)
    BY EvictedAreIdleGuests DEF IInv, RoleOf, Online, Spoke
  <2> HIDE DEF displaced
  <2>5. /\ RoleOf[p] = "none"
        /\ RoleOf' = [q \in Peers |-> IF q = p THEN "guest"
                                       ELSE IF q \in displaced THEN "none" ELSE RoleOf[q]]
    BY <1>2, <2>1, <2>2, GoneFields DEF RoleOf
  <2>6. Online' = Online \ displaced /\ Spoke' = Spoke \ displaced
    BY <1>2, <2>1, <2>2, GoneFields DEF Online, Spoke, Attached
  <2>7. Dir!Admit(c, p, displaced)
    BY <1>2, <2>3, <2>4, <2>5, <2>6
       DEF Dir!Admit, Dir!Guests, Dir!AtWork, RoleOf, Online, Spoke
  <2>8. displaced \in SUBSET members[c]
    BY DEF displaced
  <2> QED
    BY <2>7, <2>8 DEF Dir!Admit
<1>5. CASE ~HasSeat(c, order)
  <2>1. stay = members[c]
    BY <1>2, <1>5, RefusedEvictsNobody
  <2>2. members' = members /\ peer' = peer
    BY <1>1, <1>5, <2>1 DEF EvictAndAdmit, IInv, TypeOK
  <2> QED
    BY <2>2, Unseen
<1> QED
  BY <1>4, <1>5

LEMMA DirSubscribe ==
  ASSUME IInv, NEW c \in Codes, NEW p \in Peers, NEW s \in Subs, Subscribe(c, p, s)
  PROVE  Dir!Connect(c, p)
<1>1. \A q \in Peers : peer'[q] = IF q = p THEN WithStream(peer[p], s) ELSE peer[q]
  BY DEF Subscribe, IInv, TypeOK
<1>2. /\ WithStream(peer[p], s).role = peer[p].role
      /\ WithStream(peer[p], s).engaged = peer[p].engaged
      /\ s \in WithStream(peer[p], s).streams
  BY DEF WithStream, IInv, TypeOK, Peer
<1>3. RoleOf' = RoleOf /\ Spoke' = Spoke
  BY <1>1, <1>2 DEF RoleOf, Spoke
<1>4. Online' = Online \cup {p}
  BY <1>1, <1>2 DEF Online, Attached
<1> QED
  BY <1>3, <1>4 DEF Dir!Connect, Subscribe, RoleOf, Online, Spoke

\* The end of a stream: a guest's last one makes it leave, an owner's makes it
\* offline, any other is not seen.
LEMMA DirCleanup ==
  ASSUME IInv, NEW s \in Subs, Cleanup(s)
  PROVE  \/ \E c \in Codes, p \in Peers : Dir!Depart(c, p) \/ Dir!Disconnect(c, p)
         \/ UNCHANGED Dir!directory
<1>1. CASE LosesLastStream(s) /\ Depart(home[s].code, home[s].peer)
  <2>1. PICK c \in Codes, p \in Peers : home[s].code = c /\ home[s].peer = p /\ p \in members[c]
    BY <1>1 DEF LosesLastStream, StillSeated, IInv, TypeOK
  <2>2. Depart(c, p)
    BY <1>1, <2>1 DEF Depart
  <2>3. Dir!Depart(c, p)
    BY <2>1, <2>2, DepartSeen DEF IInv
  <2> QED
    BY <2>3
<1>2. CASE /\ StillSeated(s) /\ ~LosesLastStream(s)
           /\ peer' = [peer EXCEPT ![home[s].peer] = WithoutStream(@, s)]
           /\ UNCHANGED <<live, members, idle>>
  <2> DEFINE c == home[s].code
             p == home[s].peer
             object == WithoutStream(peer[p], s)
  <2>1. c \in Codes /\ p \in Peers /\ p \in members[c] /\ peer[p] \in Peer
    BY <1>2 DEF StillSeated, IInv, TypeOK
  <2>2. \A q \in Peers : peer'[q] = IF q = p THEN object ELSE peer[q]
    BY <1>2, <2>1 DEF IInv, TypeOK
  <2>3. /\ object.role = peer[p].role
        /\ object.engaged = peer[p].engaged
        /\ object.streams = peer[p].streams \ {s}
    BY <2>1 DEF WithoutStream, Peer
  <2> HIDE DEF object
  <2>4. CASE (object.streams = {}) <=> (peer[p].streams = {})
    BY <1>2, <2>2, <2>3, <2>4, Unseen
  <2>5. CASE object.streams = {} /\ peer[p].streams # {}
    <3>1. peer[p].role = "owner"
      <4>1. peer[p].role # "guest"
        BY <1>2, <2>3, <2>5 DEF LosesLastStream
      <4>2. peer[p].role # "none"
        BY <1>2, <2>1 DEF StillSeated, IInv, RoomShape
      <4>3. peer[p].role \in {"owner", "guest", "none"}
        BY <2>1 DEF Peer
      <4> QED
        BY <4>1, <4>2, <4>3
    <3>2. RoleOf' = RoleOf /\ Spoke' = Spoke
      BY <2>2, <2>3 DEF RoleOf, Spoke
    <3>3. Online' = Online \ {p}
      BY <2>2, <2>5 DEF Online, Attached
    <3>4. RoleOf[p] = "owner"
      BY <2>1, <3>1 DEF RoleOf
    <3>5. Dir!Disconnect(c, p)
      BY <1>2, <2>1, <3>2, <3>3, <3>4 DEF Dir!Disconnect, RoleOf, Online, Spoke
    <3> QED
      BY <2>1, <3>5 DEF Dir!Disconnect
  <2> QED
    BY <2>3, <2>4, <2>5
<1>3. CASE UNCHANGED <<live, members, idle, peer>>
  BY <1>3, Unseen
<1> QED
  BY <1>1, <1>2, <1>3 DEF Cleanup

LEMMA DirSend ==
  ASSUME IInv, NEW c \in Codes, NEW p \in Peers, NEW to, Send(c, p, to)
  PROVE  Dir!Speak(c, p)
<1>1. \A q \in Peers : peer'[q] = IF q = p THEN Engaged(peer[p]) ELSE peer[q]
  BY DEF Send, IInv, TypeOK
<1>2. /\ Engaged(peer[p]).role = peer[p].role
      /\ Engaged(peer[p]).engaged = TRUE
      /\ Engaged(peer[p]).streams = peer[p].streams
  BY Zenon DEF Engaged, IInv, TypeOK, Peer
<1>3. RoleOf' = RoleOf /\ Online' = Online
  BY <1>1, <1>2 DEF RoleOf, Online, Attached
<1>4. Spoke' = Spoke \cup {p}
  BY <1>1, <1>2 DEF Spoke
<1> QED
  BY <1>3, <1>4 DEF Dir!Speak, Send, RoleOf, Online, Spoke

\* A second older: nobody comes, goes, connects or speaks.
LEMMA DirTick ==
  ASSUME IInv, Tick
  PROVE  UNCHANGED Dir!directory
<1>1. ASSUME NEW q \in Peers
      PROVE  /\ peer'[q].role = peer[q].role
             /\ peer'[q].engaged = peer[q].engaged
             /\ peer'[q].streams = peer[q].streams
  <2>1. peer'[q] = peer[q] \/ peer'[q] = Aged(peer[q])
    BY DEF Tick
  <2>2. /\ Aged(peer[q]).role = peer[q].role
        /\ Aged(peer[q]).engaged = peer[q].engaged
        /\ Aged(peer[q]).streams = peer[q].streams
    BY Zenon DEF Aged, IInv, TypeOK, Peer
  <2> QED
    BY <2>1, <2>2
<1>2. members' = members
  BY DEF Tick
<1> QED
  BY <1>1, <1>2, Unseen

LEMMA DirStep == IInv /\ [Next]_vars => [Dir!Next]_(Dir!directory)
<1> SUFFICES ASSUME IInv, [Next]_vars
             PROVE  [Dir!Next]_(Dir!directory)
  OBVIOUS
<1>1. ASSUME NEW c \in Codes, NEW p \in Peers, CreateRoom(c, p)
      PROVE  Dir!Next
  BY <1>1, DirCreate DEF Dir!Next
<1>2. ASSUME NEW c \in Codes, JoinAbandonedRoom(c)
      PROVE  Dir!Next
  <2>1. Forget({c}, PeersOfRooms({c}))
    BY <1>2 DEF JoinAbandonedRoom, PeersOfRooms
  <2>2. Dir!Retire({c})
    BY <2>1, ForgetSeen DEF IInv
  <2> QED
    BY <2>2 DEF Dir!Next
<1>3. ASSUME NEW c \in Codes, NEW p \in Peers, JoinRoom(c, p)
      PROVE  Dir!Next \/ UNCHANGED Dir!directory
  BY <1>3, DirJoin DEF Dir!Next
<1>4. ASSUME NEW c \in Codes, NEW p \in Peers, NEW s \in Subs, Subscribe(c, p, s)
      PROVE  Dir!Next
  BY <1>4, DirSubscribe DEF Dir!Next
<1>5. ASSUME NEW s \in Subs, Cleanup(s)
      PROVE  Dir!Next \/ UNCHANGED Dir!directory
  BY <1>5, DirCleanup DEF Dir!Next
<1>6. ASSUME NEW c \in Codes, NEW from \in Peers, NEW to \in Peers \cup {NoOne}, Send(c, from, to)
      PROVE  Dir!Next
  BY <1>6, DirSend DEF Dir!Next
<1>7. ASSUME NEW c \in Codes, NEW p \in Peers, Leave(c, p)
      PROVE  Dir!Next
  <2>1. Dir!Depart(c, p)
    BY <1>7, DepartSeen DEF Leave, IInv
  <2> QED
    BY <2>1 DEF Dir!Next
<1>8. ASSUME PruneExpired
      PROVE  Dir!Next
  <2>1. PICK C \in SUBSET Codes : C = Expired
    BY DEF Expired, IInv, TypeOK
  <2>2. Forget(C, PeersOfRooms(C))
    BY <1>8, <2>1 DEF PruneExpired, Forget, PeersOfRooms
  <2>3. Dir!Retire(C)
    BY <2>2, ForgetSeen DEF IInv
  <2> QED
    BY <2>3 DEF Dir!Next
<1>9. ASSUME NEW s \in Subs, Receive(s)
      PROVE  UNCHANGED Dir!directory
  BY <1>9, Unseen DEF Receive
<1>10. ASSUME Tick
       PROVE  UNCHANGED Dir!directory
  BY <1>10, DirTick
<1>11. ASSUME UNCHANGED vars
       PROVE  UNCHANGED Dir!directory
  BY <1>11, Unseen DEF vars
<1> QED
  BY <1>1, <1>2, <1>3, <1>4, <1>5, <1>6, <1>7, <1>8, <1>9, <1>10, <1>11 DEF Next

\* The hub, with its locks, channels, clocks and grace periods, does to the
\* rooms nothing but what the directory allows.
THEOREM HubImplementsDirectory == Spec => RefinesDirectory
<1>1. Init => Dir!Init
  BY DirInit
<1>2. IInv /\ [Next]_vars => [Dir!Next]_(Dir!directory)
  BY DirStep
<1> QED
  BY <1>1, <1>2, Inductive, PTL DEF Spec, RefinesDirectory, Dir!Spec

-----------------------------------------------------------------------------
(* Who can lose a seat in a room, and how *)

\* The five ways out of a room.
Left(c, p) == Leave(c, p)
Disconnected(c, p) ==
  \E s \in Subs : /\ Cleanup(s) /\ LosesLastStream(s)
                  /\ home[s].code = c /\ home[s].peer = p
Displaced(c, p) == p \in Orphans(c) \cup StaleGuests(c) /\ c \in live'
Abandoned(c) == JoinAbandonedRoom(c) /\ c \notin live'
Pruned(c) == PruneExpired /\ c \in Expired /\ c \notin live'

LEMMA DepartLeaves ==
  ASSUME TypeOK, NEW d \in Codes, NEW q \in Peers, Depart(d, q),
         NEW c \in Codes, NEW p \in members[c], p \notin members'[c]
  PROVE  d = c /\ q = p
BY DEF Depart, TypeOK

LEMMA WaysOut ==
  ASSUME IInv, [Next]_vars, NEW c \in live, NEW p \in members[c], p \notin members'[c]
  PROVE  \/ Left(c, p) \/ Disconnected(c, p) \/ Displaced(c, p)
         \/ Abandoned(c) \/ Pruned(c)
<1> USE DEF IInv
<1>0. c \in Codes /\ p \in Peers
  BY DEF TypeOK
<1>1. ASSUME NEW d \in Codes, NEW q \in Peers, CreateRoom(d, q)
      PROVE  FALSE
  BY <1>0, <1>1 DEF CreateRoom, TypeOK
<1>2. ASSUME NEW d \in Codes, JoinAbandonedRoom(d)
      PROVE  Abandoned(c)
  <2>1. d = c
    BY <1>0, <1>2 DEF JoinAbandonedRoom, Forget
  <2> QED
    BY <1>2, <2>1 DEF Abandoned, JoinAbandonedRoom, Forget
<1>3. ASSUME NEW d \in Codes, NEW q \in Peers, JoinRoom(d, q)
      PROVE  Displaced(c, p)
  <2>1. PICK order \in Evictions(d) : EvictAndAdmit(d, q, order)
    BY <1>3 DEF JoinRoom
  <2>2. d = c /\ p \notin Remaining(d, order)
    BY <1>0, <2>1 DEF EvictAndAdmit, TypeOK
  <2>3. p \in {order[i] : i \in DOMAIN order}
    BY <2>2 DEF Remaining
  <2>4. p \in Orphans(c) \cup StaleGuests(c)
    <3> DEFINE out == Orphans(c) \cup StaleGuests(c)
    <3>1. order \in [1..Cardinality(out) -> out]
      BY <2>2 DEF Evictions
    <3> HIDE DEF out
    <3>2. p \in out
      BY <2>3, <3>1
    <3> QED
      BY <3>2 DEF out
  <2> QED
    BY <2>1, <2>4 DEF Displaced, EvictAndAdmit
<1>4. ASSUME NEW d \in Codes, NEW q \in Peers, NEW s \in Subs, Subscribe(d, q, s)
      PROVE  FALSE
  BY <1>4 DEF Subscribe
<1>5. ASSUME NEW s \in Subs, Cleanup(s)
      PROVE  Disconnected(c, p)
  <2>1. LosesLastStream(s) /\ Depart(home[s].code, home[s].peer)
    BY <1>5 DEF Cleanup
  <2>2. PICK d \in Codes, q \in Peers : home[s].code = d /\ home[s].peer = q
    BY <2>1 DEF LosesLastStream, StillSeated, TypeOK
  <2>3. Depart(d, q)
    BY <2>1, <2>2 DEF Depart
  <2>4. d = c /\ q = p
    BY <1>0, <2>3, DepartLeaves
  <2> QED
    BY <1>5, <2>1, <2>2, <2>4 DEF Disconnected
<1>6. ASSUME NEW d \in Codes, NEW q \in Peers, NEW to \in Peers \cup {NoOne}, Send(d, q, to)
      PROVE  FALSE
  BY <1>6 DEF Send
<1>7. ASSUME NEW d \in Codes, NEW q \in Peers, Leave(d, q)
      PROVE  Left(c, p)
  <2>1. d = c /\ q = p
    BY <1>0, <1>7, DepartLeaves DEF Leave
  <2> QED
    BY <1>7, <2>1 DEF Left
<1>8. ASSUME PruneExpired
      PROVE  Pruned(c)
  <2>1. c \in Expired
    BY <1>0, <1>8 DEF PruneExpired, Forget
  <2> QED
    BY <1>8, <2>1 DEF Pruned, PruneExpired, Forget
<1>9. ASSUME NEW s \in Subs, Receive(s)
      PROVE  FALSE
  BY <1>9 DEF Receive
<1>10. ASSUME Tick
       PROVE  FALSE
  BY <1>10 DEF Tick
<1>11. ASSUME UNCHANGED vars
       PROVE  FALSE
  BY <1>11 DEF vars
<1> QED
  BY <1>1, <1>2, <1>3, <1>4, <1>5, <1>6, <1>7, <1>8, <1>9, <1>10, <1>11 DEF Next

-----------------------------------------------------------------------------

\* A sender whose room is in use and who is attached to it, or reconnects within
\* the grace, stays in it until it leaves: no join evicts it, no end of one of its
\* streams and no janitor.
THEOREM SendersKeepRooms == Spec => ActiveSenderKeepsRoom
<1>1. ASSUME IInv, [Next]_vars, NEW c \in live, NEW p \in members[c],
             peer[p].role = "owner", idle[c] <= RoomTTL,
             Attached(p) \/ peer[p].age < StaleOwnerGrace
      PROVE  p \in members'[c] \/ Leave(c, p)
  <2> SUFFICES ASSUME p \notin members'[c]
               PROVE  Leave(c, p)
    OBVIOUS
  <2>1. ~Disconnected(c, p)
    BY <1>1 DEF Disconnected, LosesLastStream
  <2>2. ~Displaced(c, p)
    BY <1>1 DEF Displaced, Orphans, StaleGuests
  <2>3. ~Abandoned(c)
    <3>1. peer[p].age \in Nat /\ StaleOwnerGrace \in Nat
      BY <1>1, HubAssumption DEF IInv, TypeOK, MaxAge, Peer
    <3>2. ASSUME NEW q \in StaleOwners(c)
          PROVE  FALSE
      <4>1. q = p
        BY <1>1, <3>2 DEF StaleOwners, IInv, RoomShape
      <4> QED
        BY <1>1, <3>1, <3>2, <4>1 DEF StaleOwners, MaxAge
    <3> QED
      BY <3>2 DEF Abandoned, JoinAbandonedRoom
  <2>4. ~Pruned(c)
    <3>1. idle[c] \in 0..MaxAge
      BY <1>1 DEF IInv, TypeOK
    <3> QED
      BY <1>1, <3>1 DEF Pruned, Expired, MaxAge
  <2> QED
    BY <1>1, <2>1, <2>2, <2>3, <2>4, WaysOut DEF Left
<1>2. IInv /\ [Next]_vars =>
        [\A c \in live : \A p \in members[c] :
           peer[p].role = "owner" /\ idle[c] <= RoomTTL
             /\ (Attached(p) \/ peer[p].age < StaleOwnerGrace)
             => p \in members'[c] \/ Leave(c, p)]_vars
  BY <1>1
<1> QED
  BY <1>2, Inductive, PTL DEF Spec, ActiveSenderKeepsRoom

\* A recipient at work keeps its seat in a room that stands, until it leaves
\* or its only stream ends: newcomers do not displace it.
THEOREM RecipientsKeepSeats == Spec => RecipientKeepsSeat
<1>1. ASSUME IInv, [Next]_vars, NEW c \in live \cap live', NEW p \in members[c],
             peer[p].role = "guest", peer[p].engaged \/ peer[p].age < StaleGuestGrace, Attached(p)
      PROVE  \/ p \in members'[c]
             \/ Leave(c, p)
             \/ \E s \in Subs : peer[p].streams = {s} /\ Cleanup(s)
  <2> SUFFICES ASSUME p \notin members'[c]
               PROVE  Leave(c, p) \/ \E s \in Subs : peer[p].streams = {s} /\ Cleanup(s)
    OBVIOUS
  <2>1. ~Displaced(c, p)
    <3>1. peer[p].age \in Nat /\ StaleGuestGrace \in Nat
      BY <1>1 DEF IInv, TypeOK, Peer, MaxAge
    <3> QED
      BY <1>1, <3>1 DEF Displaced, Orphans, StaleGuests
  <2>2. ~Abandoned(c) /\ ~Pruned(c)
    BY <1>1 DEF Abandoned, Pruned
  <2>3. Disconnected(c, p) => \E s \in Subs : peer[p].streams = {s} /\ Cleanup(s)
    BY <1>1 DEF Disconnected, LosesLastStream, Attached
  <2> QED
    BY <1>1, <2>1, <2>2, <2>3, WaysOut DEF Left
<1>2. IInv /\ [Next]_vars =>
        [\A c \in live \cap live' : \A p \in members[c] :
           peer[p].role = "guest" /\ (peer[p].engaged \/ peer[p].age < StaleGuestGrace) /\ Attached(p)
             => \/ p \in members'[c]
                \/ Leave(c, p)
                \/ \E s \in Subs : peer[p].streams = {s} /\ Cleanup(s)]_vars
  BY <1>1
<1> QED
  BY <1>2, Inductive, PTL DEF Spec, RecipientKeepsSeat

\* When a room goes, the hub's channels of whoever did not leave it are closed in
\* the same step: no handler waits on a channel that nothing will be sent on.
THEOREM TeardownsClose == Spec => TeardownClosesChannels
<1>1. ASSUME IInv, [Next]_vars, NEW c \in live \ live', NEW p \in members[c],
             NEW s \in peer[p].streams, chan'[s] = "open"
      PROVE  Leave(c, p)
  <2>1. c \in Codes /\ p \in Peers /\ s \in Subs
    BY <1>1 DEF IInv, TypeOK, Peer
  <2>2. p \notin members'[c]
    <3>1. RoomShape'
      BY <1>1, ShapeStep
    <3> QED
      BY <2>1, <3>1 DEF RoomShape
  <2>3. ~Displaced(c, p)
    BY DEF Displaced
  <2>4. ~Disconnected(c, p)
    <3>1. ASSUME NEW t \in Subs, Cleanup(t), LosesLastStream(t), home[t].peer = p
          PROVE  FALSE
      <4>1. s = t
        BY <1>1, <3>1 DEF LosesLastStream
      <4>2. chan'[t] = "free"
        BY <1>1, <3>1 DEF Cleanup, IInv, TypeOK
      <4> QED
        BY <1>1, <4>1, <4>2
    <3> QED
      BY <3>1 DEF Disconnected
  <2>5. ~Abandoned(c)
    <3>1. s \in StreamsOf(members[c])
      BY DEF StreamsOf
    <3> QED
      BY <1>1, <2>1, <3>1 DEF Abandoned, JoinAbandonedRoom, Closed, Closing
  <2>6. ~Pruned(c)
    <3>1. c \in Expired => s \in StreamsOf(PeersOfRooms(Expired))
      BY DEF StreamsOf, PeersOfRooms
    <3> QED
      BY <1>1, <2>1, <3>1 DEF Pruned, PruneExpired, Closed, Closing
  <2> QED
    BY <1>1, <2>2, <2>3, <2>4, <2>5, <2>6, WaysOut DEF Left
<1>2. IInv /\ [Next]_vars =>
        [\A c \in live \ live' : \A p \in members[c] : \A s \in peer[p].streams :
           chan'[s] = "open" => Leave(c, p)]_vars
  BY <1>1
<1> QED
  BY <1>2, Inductive, PTL DEF Spec, TeardownClosesChannels
=============================================================================
