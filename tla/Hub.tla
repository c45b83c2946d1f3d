-------------------------------- MODULE Hub --------------------------------
(***************************************************************************)
(* internal/room/hub.go: the in-memory signalling hub.  A room is opened   *)
(* under a code by its owner (the sender of a secret), at most one guest   *)
(* (the recipient) is admitted, and events reach a peer through the        *)
(* channels its SSE handlers subscribed.  Every method holds h.mu from its *)
(* first line to its last, so each is one action here; what interleaves is *)
(* the HTTP handlers that call them, the readers of the channels, the      *)
(* cleanup closures that Subscribe hands out and the janitor.              *)
(*                                                                         *)
(* Time is kept as ages instead of timestamps: seconds since lastActive of *)
(* a room and lastSeen of a peer, advanced together by Tick and saturating *)
(* at MaxAge, above which no comparison in the code can tell them apart.   *)
(* A call that fails without touching the hub is a stuttering step.        *)
(***************************************************************************)
EXTENDS Integers, Sequences, FiniteSets

CONSTANTS
  Codes,            \* room codes
  Peers,            \* peer identifiers (randomToken): fresh for each create or join
  Subs,             \* Subscribe calls that can be running at the same time
  BufferSize,       \* capacity of a subscription channel (128 in the code)
  StaleGuestGrace,  \* staleGuestGrace
  StaleOwnerGrace,  \* staleOwnerGrace
  RoomTTL           \* Hub.roomTTL

ASSUME HubAssumption ==
  /\ IsFiniteSet(Peers)
  /\ BufferSize \in Nat \ {0}
  /\ RoomTTL \in Nat
  /\ StaleGuestGrace \in 0..RoomTTL + 1
  /\ StaleOwnerGrace \in 0..RoomTTL + 1

VARIABLES
  live,      \* the keys of h.rooms
  members,   \* room code -> the keys of roomState.peers
  idle,      \* room code -> age of roomState.lastActive
  peer,      \* peer id -> its peer object, Gone once no room refers to it
  chan,      \* subscription -> "free" (no handler), "open" or "closed" channel
  home,      \* subscription -> the (code, peerID) its cleanup closure captured
  queue,     \* subscription -> events buffered in its channel
  panicked   \* a send on, or a close of, a closed channel has happened

vars == <<live, members, idle, peer, chan, home, queue, panicked>>

-----------------------------------------------------------------------------
(* Data *)

RoomCapacity == 2
MaxAge == RoomTTL + 1
Older(age) == IF age < MaxAge THEN age + 1 ELSE age

Peer == [role : {"owner", "guest", "none"}, age : 0..MaxAge,
         engaged : BOOLEAN, streams : SUBSET Subs]
NewPeer(role) == [role |-> role, age |-> 0, engaged |-> FALSE, streams |-> {}]
Gone == NewPeer("none")
WithStream(object, s) == [object EXCEPT !.age = 0, !.streams = @ \cup {s}]
WithoutStream(object, s) == [object EXCEPT !.age = 0, !.streams = @ \ {s}]
Engaged(object) == [object EXCEPT !.age = 0, !.engaged = TRUE]
Aged(object) == [object EXCEPT !.age = Older(@)]

Event == [type : {"room-state", "peer-joined", "peer-left", "signal"},
          ids : SUBSET Peers]
RoomState(P) == [type |-> "room-state", ids |-> P]
PeerJoined(p) == [type |-> "peer-joined", ids |-> {p}]
PeerLeft(p) == [type |-> "peer-left", ids |-> {p}]
Signal(from) == [type |-> "signal", ids |-> {from}]

Home == [code : Codes, peer : Peers]
Nowhere == [code |-> "none", peer |-> "none"]

-----------------------------------------------------------------------------
(* What the operations are made of *)

StreamsOf(P) == UNION {peer[p].streams : p \in P}
Attached(p) == peer[p].streams # {}

\* A token nobody holds: randomToken never repeats one that is still in use.
Fresh(p) ==
  /\ peer[p] = Gone
  /\ \A s \in Subs : home[s].peer # p

\* Mutant of Offer: the channel never refuses.
OfferUnbounded(buffer, events) == buffer \o events

\* The non-blocking send of a list of events: what does not fit is dropped.
Offer(buffer, events) ==
  LET free == BufferSize - Len(buffer)
  IN buffer \o IF Len(events) <= free THEN events ELSE SubSeq(events, 1, free)

\* events[s] is sent to each subscription s: the buffers afterwards, and
\* whether a send panics, which it does on a channel that is not open even
\* inside a select with a default.
Delivered(events) == [s \in Subs |-> Offer(queue[s], events[s])]
SendPanics(events) == \E s \in Subs : events[s] # <<>> /\ chan[s] # "open"

\* broadcastLocked: one event to every stream of the peers P.
Broadcast(P, event) == [s \in Subs |-> IF s \in StreamsOf(P) THEN <<event>> ELSE <<>>]

\* Mutant of Closing: the closed flag is not looked at.
ClosingTwice(S) == S

\* closeSubscriptionLocked skips a subscription it closed before.
Closing(S) == {s \in S : chan[s] # "closed"}
Closed(S) == [s \in Subs |-> IF s \in Closing(S) THEN "closed" ELSE chan[s]]
ClosePanics(S) == \E s \in Closing(S) : chan[s] # "open"

\* Mutant of Forget: delete(h.rooms, code) is missing.
ForgetNothing(C, P) == UNCHANGED <<live, members, idle, peer>>

\* Rooms C leave h.rooms and the peer objects P they held become garbage.
Forget(C, P) ==
  /\ live' = live \ C
  /\ members' = [c \in Codes |-> IF c \in C THEN {} ELSE members[c]]
  /\ idle' = [c \in Codes |-> IF c \in C THEN 0 ELSE idle[c]]
  /\ peer' = [p \in Peers |-> IF p \in P THEN Gone ELSE peer[p]]

\* Mutant of Depart: the empty room is not deleted.
DepartKeepsRoom(c, p) ==
  /\ members' = [members EXCEPT ![c] = @ \ {p}]
  /\ idle' = [idle EXCEPT ![c] = 0]
  /\ peer' = [peer EXCEPT ![p] = Gone]
  /\ UNCHANGED live

\* Peer p leaves room c, and the room goes with its last peer.
Depart(c, p) ==
  LET rest == members[c] \ {p}
  IN /\ live' = IF rest = {} THEN live \ {c} ELSE live
     /\ members' = [members EXCEPT ![c] = rest]
     /\ idle' = [idle EXCEPT ![c] = 0]
     /\ peer' = [peer EXCEPT ![p] = Gone]

-----------------------------------------------------------------------------
(* Who a join evicts *)

\* Mutant of StaleOwners: an owner with streams can be stale.
StaleOwnersAttached(c) ==
  {p \in members[c] : peer[p].role = "owner" /\ peer[p].age >= StaleOwnerGrace}

StaleOwners(c) ==
  {p \in members[c] : peer[p].role = "owner" /\ ~Attached(p) /\ peer[p].age >= StaleOwnerGrace}

\* Mutant of Orphans: the role is not looked at.
OrphansOfAnyRole(c) == {p \in members[c] : ~Attached(p)}

Orphans(c) == {p \in members[c] : peer[p].role = "guest" /\ ~Attached(p)}

\* Mutant of StaleGuests: engagement does not protect.
StaleGuestsEngaged(c) ==
  {p \in members[c] : peer[p].role = "guest" /\ peer[p].age >= StaleGuestGrace}

StaleGuests(c) ==
  {p \in members[c] : peer[p].role = "guest" /\ ~peer[p].engaged /\ peer[p].age >= StaleGuestGrace}

\* The orders in which a join evicts guests: orphans first, each of the two
\* groups in the order the runtime happens to iterate over the map.
Evictions(c) ==
  LET out == Orphans(c) \cup StaleGuests(c)
  IN {order \in [1..Cardinality(out) -> out] :
        \A i, j \in DOMAIN order : i < j =>
          /\ order[i] # order[j]
          /\ order[j] \in Orphans(c) => order[i] \in Orphans(c)}

\* The peer-left events peer p hears while the guests of order are evicted:
\* an eviction is broadcast to the peers that are still in the room.
LeavesHeard(order, p) ==
  LET heard == {i \in DOMAIN order : \A j \in 1..i : order[j] # p}
  IN [i \in heard |-> PeerLeft(order[i])]

\* The peer of room c that stream s belongs to.
Listener(c, s) == CHOOSE p \in members[c] : s \in peer[p].streams
-----------------------------------------------------------------------------
(* The operations *)

Init ==
  /\ live = {}
  /\ members = [c \in Codes |-> {}]
  /\ idle = [c \in Codes |-> 0]
  /\ peer = [p \in Peers |-> Gone]
  /\ chan = [s \in Subs |-> "free"]
  /\ home = [s \in Subs |-> Nowhere]
  /\ queue = [s \in Subs |-> <<>>]
  /\ panicked = FALSE

\* CreateRoom and CreateRoomWithCode: a code that is in use is refused
\* (ErrRoomExists), a random one is drawn until it is not.
CreateRoom(c, p) ==
  /\ c \notin live
  /\ Fresh(p)
  /\ live' = live \cup {c}
  /\ members' = [members EXCEPT ![c] = {p}]
  /\ idle' = [idle EXCEPT ![c] = 0]
  /\ peer' = [peer EXCEPT ![p] = NewPeer("owner")]
  /\ UNCHANGED <<chan, home, queue, panicked>>

\* Mutant of JoinAbandonedRoom: the others' streams are left open.
JoinAbandonedRoomSilently(c) ==
  /\ c \in live
  /\ StaleOwners(c) # {}
  /\ Forget({c}, members[c])
  /\ UNCHANGED <<chan, home, queue, panicked>>

\* JoinRoom when the owner is stale: the room is torn down and the caller
\* gets ErrRoomNotFound.  The owner has no stream, the others' are closed.
JoinAbandonedRoom(c) ==
  /\ c \in live
  /\ StaleOwners(c) # {}
  /\ Forget({c}, members[c])
  /\ chan' = Closed(StreamsOf(members[c]))
  /\ panicked' = (panicked \/ ClosePanics(StreamsOf(members[c])))
  /\ UNCHANGED <<home, queue>>

\* JoinRoom otherwise: orphan and stale guests are evicted, then p is admitted
\* if there is room.  An evicted guest's streams are left as they are.
Remaining(c, order) == members[c] \ {order[i] : i \in DOMAIN order}
HasSeat(c, order) == Cardinality(Remaining(c, order)) < RoomCapacity

JoinNews(c, p, order) ==
  LET heard(q) == LeavesHeard(order, q) \o
                    IF HasSeat(c, order) /\ q \in Remaining(c, order) THEN <<PeerJoined(p)>> ELSE <<>>
  IN [s \in Subs |-> IF s \in StreamsOf(members[c]) THEN heard(Listener(c, s)) ELSE <<>>]

EvictAndAdmit(c, p, order) ==
  LET stay == Remaining(c, order)
      admitted == HasSeat(c, order)
  IN /\ members' = [members EXCEPT ![c] = IF admitted THEN stay \cup {p} ELSE stay]
     /\ idle' = IF admitted THEN [idle EXCEPT ![c] = 0] ELSE idle
     /\ peer' = [q \in Peers |->
                   IF q = p /\ admitted THEN NewPeer("guest")
                   ELSE IF q \in members[c] \ stay THEN Gone ELSE peer[q]]
     /\ queue' = Delivered(JoinNews(c, p, order))
     /\ panicked' = (panicked \/ SendPanics(JoinNews(c, p, order)))
     /\ UNCHANGED <<live, chan, home>>

JoinRoom(c, p) ==
  /\ c \in live
  /\ Fresh(p)
  /\ StaleOwners(c) = {}
  /\ \E order \in Evictions(c) : EvictAndAdmit(c, p, order)

\* Subscribe: s is a channel of its own, with the room's peers as first event.
Subscribe(c, p, s) ==
  /\ c \in live
  /\ p \in members[c]
  /\ chan[s] = "free"
  /\ idle' = [idle EXCEPT ![c] = 0]
  /\ peer' = [peer EXCEPT ![p] = WithStream(@, s)]
  /\ chan' = [chan EXCEPT ![s] = "open"]
  /\ home' = [home EXCEPT ![s] = [code |-> c, peer |-> p]]
  /\ queue' = [queue EXCEPT ![s] = <<RoomState(members[c])>>]
  /\ UNCHANGED <<live, members, panicked>>

\* The cleanup closure of s, run when its handler returns for whatever reason:
\* the peer it captured may have left since, and its room may be gone.  A
\* guest that loses its last stream leaves; an owner stays.
StillSeated(s) == home[s].code \in live /\ home[s].peer \in members[home[s].code]

LosesLastStream(s) ==
  LET p == home[s].peer
  IN StillSeated(s) /\ peer[p].role = "guest" /\ peer[p].streams \subseteq {s}

CleanupNews(s) ==
  IF LosesLastStream(s)
  THEN Broadcast(members[home[s].code] \ {home[s].peer}, PeerLeft(home[s].peer))
  ELSE [t \in Subs |-> <<>>]

Cleanup(s) ==
  /\ chan[s] # "free"
  /\ \/ /\ LosesLastStream(s)
        /\ Depart(home[s].code, home[s].peer)
     \/ /\ StillSeated(s) /\ ~LosesLastStream(s)
        /\ peer' = [peer EXCEPT ![home[s].peer] = WithoutStream(@, s)]
        /\ UNCHANGED <<live, members, idle>>
     \/ /\ ~StillSeated(s)
        /\ UNCHANGED <<live, members, idle, peer>>
  /\ panicked' = (panicked \/ SendPanics(CleanupNews(s)) \/ ClosePanics({s}))
  /\ chan' = [chan EXCEPT ![s] = "free"]
  /\ home' = [home EXCEPT ![s] = Nowhere]
  /\ queue' = [Delivered(CleanupNews(s)) EXCEPT ![s] = <<>>]

\* Send: the activity is recorded before an unknown addressee is refused.
\* to is a peer, or NoOne for a broadcast to everyone else.  The browsers
\* address session.remotePeerId: another peer, one that left, or null.
NoOne == "no one"

SignalNews(c, from, to) ==
  Broadcast(IF to = NoOne THEN members[c] \ {from} ELSE members[c] \cap {to}, Signal(from))

Send(c, from, to) ==
  /\ c \in live
  /\ from \in members[c]
  /\ idle' = [idle EXCEPT ![c] = 0]
  /\ peer' = [peer EXCEPT ![from] = Engaged(@)]
  /\ queue' = Delivered(SignalNews(c, from, to))
  /\ panicked' = (panicked \/ SendPanics(SignalNews(c, from, to)))
  /\ UNCHANGED <<live, members, chan, home>>

\* Mutant of Leave: nobody is told.
LeaveUnannounced(c, p) ==
  /\ c \in live
  /\ p \in members[c]
  /\ Depart(c, p)
  /\ UNCHANGED <<chan, home, queue, panicked>>

\* Leave: the peer's own streams are neither told nor closed.
Leave(c, p) ==
  /\ c \in live
  /\ p \in members[c]
  /\ Depart(c, p)
  /\ queue' = Delivered(Broadcast(members[c] \ {p}, PeerLeft(p)))
  /\ panicked' = (panicked \/ SendPanics(Broadcast(members[c] \ {p}, PeerLeft(p))))
  /\ UNCHANGED <<chan, home>>

\* pruneExpired, run by the janitor.
Expired == {c \in live : idle[c] > RoomTTL}
PeersOfRooms(C) == UNION {members[c] : c \in C}

\* Mutant of PruneExpired: a room somebody has a stream on does not expire.
PruneUnattended ==
  LET unattended == {c \in Expired : StreamsOf(members[c]) = {}}
  IN /\ unattended # {}
     /\ Forget(unattended, PeersOfRooms(unattended))
     /\ UNCHANGED <<chan, home, queue, panicked>>

PruneExpired ==
  /\ Expired # {}
  /\ Forget(Expired, PeersOfRooms(Expired))
  /\ chan' = Closed(StreamsOf(PeersOfRooms(Expired)))
  /\ panicked' = (panicked \/ ClosePanics(StreamsOf(PeersOfRooms(Expired))))
  /\ UNCHANGED <<home, queue>>

\* The handler of s takes the next event; a closed channel drains first.
Receive(s) ==
  /\ queue[s] # <<>>
  /\ queue' = [queue EXCEPT ![s] = Tail(@)]
  /\ UNCHANGED <<live, members, idle, peer, chan, home, panicked>>

\* The clock.
Tick ==
  /\ idle' = [c \in Codes |-> IF c \in live THEN Older(idle[c]) ELSE idle[c]]
  /\ peer' = [p \in Peers |-> IF peer[p] = Gone THEN Gone ELSE Aged(peer[p])]
  /\ UNCHANGED <<live, members, chan, home, queue, panicked>>

Next ==
  \/ \E c \in Codes, p \in Peers : CreateRoom(c, p) \/ JoinRoom(c, p) \/ Leave(c, p)
  \/ \E c \in Codes : JoinAbandonedRoom(c)
  \/ \E c \in Codes, p \in Peers, s \in Subs : Subscribe(c, p, s)
  \/ \E c \in Codes, from \in Peers, to \in Peers \cup {NoOne} :
       from # to /\ Send(c, from, to)
  \/ \E s \in Subs : Cleanup(s) \/ Receive(s)
  \/ PruneExpired
  \/ Tick

Spec == Init /\ [][Next]_vars

\* The ticker of startJanitor and the clock keep going; nothing obliges a
\* client to call, to read or to disconnect.
FairSpec == Spec /\ WF_vars(Tick) /\ WF_vars(PruneExpired)

-----------------------------------------------------------------------------
(* Properties *)

\* Every variable has the shape the Go types and the saturating ages give it,
\* and no buffer exceeds its channel's capacity.
TypeOK ==
  /\ live \subseteq Codes
  /\ members \in [Codes -> SUBSET Peers]
  /\ idle \in [Codes -> 0..MaxAge]
  /\ peer \in [Peers -> Peer]
  /\ chan \in [Subs -> {"free", "open", "closed"}]
  /\ home \in [Subs -> Home \cup {Nowhere}]
  /\ queue \in [Subs -> Seq(Event)]
  /\ \A s \in Subs : Len(queue[s]) <= BufferSize
  /\ panicked \in BOOLEAN

\* No operation ever sends on, or closes, a closed channel: either would panic
\* with the room half updated.  Rooms are torn down (JoinAbandonedRoom,
\* PruneExpired) while their handlers' cleanup closures are still to run.
NoPanic == ~panicked

\* The streams of a room's peers are wired to it: the channel is open, and the
\* cleanup closure will look up that very peer in that very room.
StreamsWired ==
  \A c \in live : \A p \in members[c] : \A s \in peer[p].streams :
    chan[s] = "open" /\ home[s] = [code |-> c, peer |-> p]

\* h.rooms holds no empty room, no room over capacity and no room with two
\* owners, and no peer is in two rooms.  With the streams wired it is what the
\* operations rely on: the inductive invariant of the hub.
RoomShape ==
  /\ \A c \in Codes : c \in live <=> members[c] # {}
  /\ \A c \in live : Cardinality(members[c]) <= RoomCapacity
  /\ \A c \in live : \A p, q \in members[c] :
       peer[p].role = "owner" /\ peer[q].role = "owner" => p = q
  /\ \A c, d \in live : c # d => members[c] \cap members[d] = {}
  /\ \A c \in live : \A p \in members[c] : peer[p].role # "none"

IInv == TypeOK /\ NoPanic /\ StreamsWired /\ RoomShape

\* A sender with a stream, or between two streams and seen within the grace, keeps
\* its room as long as something happened in it within the TTL, whatever others
\* join, leave or lose: only its own Leave ends its membership.
ActiveSenderKeepsRoom ==
  [][\A c \in live : \A p \in members[c] :
       peer[p].role = "owner" /\ idle[c] <= RoomTTL /\ (Attached(p) \/ peer[p].age < StaleOwnerGrace)
         => p \in members'[c] \/ Leave(c, p)]_vars

\* A recipient with a stream that has signalled, or was seen within the grace,
\* keeps its seat as long as the room stands: a newcomer does not displace it,
\* and neither does the end of one of several streams (a reconnect overlaps
\* the old stream with the new one).
RecipientKeepsSeat ==
  [][\A c \in live \cap live' : \A p \in members[c] :
       peer[p].role = "guest" /\ (peer[p].engaged \/ peer[p].age < StaleGuestGrace) /\ Attached(p)
         => \/ p \in members'[c]
            \/ Leave(c, p)
            \/ \E s \in Subs : peer[p].streams = {s} /\ Cleanup(s)]_vars

\* Whoever loses its room without having left it has every channel of its
\* streams closed in that step.  A recipient's handler then returns and its
\* browser reconnects into an error.  Of an owner's merged stream only the
\* forwarder of that room ends: handleOwnerEvents goes on, and its browser is not
\* told.
TeardownClosesChannels ==
  [][\A c \in live \ live' : \A p \in members[c] : \A s \in peer[p].streams :
       chan'[s] = "open" => Leave(c, p)]_vars

\* A room nobody uses is reclaimed: one that stays in h.rooms for ever is used
\* again and again.
UnusedRoomReclaimed ==
  \A c \in Codes : <>[](c \in live) => []<>(idle[c] = 0)

\* Locks, channels, grace periods and the clock implement the directory of
\* rooms: whatever the hub does to a room's members is one of the directory's
\* steps.  A join that is refused has evicted nobody, an owner is never
\* evicted, and a guest goes offline only by leaving.
Dir == INSTANCE Directory WITH
         role <- [p \in Peers |-> peer[p].role],
         online <- {p \in Peers : Attached(p)},
         spoke <- {p \in Peers : peer[p].engaged}
RefinesDirectory == Dir!Spec

-----------------------------------------------------------------------------
(* What the documentation says, and the code does not do *)

\* README.md and the toast of a created secret: the link is live as long as
\* the sender stays online.  Online is having an SSE stream on the room.
OnlineSenderKeepsRoom ==
  [][\A c \in live : \A p \in members[c] :
       peer[p].role = "owner" /\ Attached(p) => p \in members'[c] \/ Leave(c, p)]_vars
=============================================================================
