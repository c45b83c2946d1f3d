-------------------------- MODULE ProvisionProofs --------------------------
(***************************************************************************)
(* Proofs about the life of a sender's secrets, for any number of secrets, *)
(* codes, peers, requests, failures, page loads and imports.               *)
(***************************************************************************)
EXTENDS Provision, TLAPS

USE ProvisionAssumption

-----------------------------------------------------------------------------
(* The inductive invariant *)

\* A request that was served has a seat of the server.
HasSeat(k) == k.stage = "served" => k.code \in Codes /\ k.peer \in Peers

\* So has a session that is published and has not left; and one that is leaving
\* is deleted and has told the server.
Proper(x) ==
  /\ x \in Session
  /\ x.state = "live" /\ (x.listed \/ ~x.notified) => x.code \in Codes /\ x.peer \in Peers
  /\ x.leaving => x.notified /\ x.deleted

SeatsAreReal ==
  /\ \A k \in calls : HasSeat(k)
  /\ \A s \in Secrets : Proper(sess[s])

\* A secret is only in the page's memory while it is new, or the request that
\* creates it is not answered.
Unborn(s) == fate[s] = "new" \/ Creating(s)

\* There are no requests for a new secret, and it is created once.
CreatedOnce ==
  /\ \A k \in calls : fate[k.secret] # "new"
  /\ \A j, k \in calls : j.kind = "create" /\ k.kind = "create" /\ j.secret = k.secret => j = k

\* Of an unborn secret there is no session, no record, and no other request.
UnbornIsNowhere ==
  \A s \in Secrets : Unborn(s) =>
    /\ fate[s] # "removed"
    /\ stored[s] = NotStored
    /\ importing[s] \in {NotStored, "not read"}
    /\ s \notin toRestore
    /\ sess[s] = NoSession
    /\ \A k \in calls : k.secret = s => k.kind \in {"create", "abandoned"}

\* A closed page has neither sessions, nor a stream, nor anything under way.
ClosedIsEmpty ==
  page = "closed" =>
    /\ sess = [s \in Secrets |-> NoSession]
    /\ stream.key = {} /\ toRestore = {}
    /\ importing = NoImport
    /\ \A k \in calls : k.kind = "abandoned"

\* A record that is still to be restored is there, and so it is in an import; the
\* secret has no session, and no other request.
ToRestoreIsStored ==
  \A s \in toRestore :
    /\ stored[s] # NotStored /\ importing[s] # NotStored
    /\ sess[s] = NoSession
    /\ \A k \in calls : k.secret = s => k.kind \in {"restore", "abandoned"}

Typed == TypeOK /\ SeatsAreReal
Whereabouts == CreatedOnce /\ UnbornIsNowhere /\ ClosedIsEmpty /\ ToRestoreIsStored
IInv == Typed /\ Whereabouts

-----------------------------------------------------------------------------
(* What the handlers do to a session *)

Attach(x, c, p) == [x EXCEPT !.code = c, !.peer = p, !.listed = TRUE]
Publish(x) == [x EXCEPT !.state = "live", !.starting = TRUE]
Start(x) == [x EXCEPT !.starting = FALSE]
Retry(x, b) == [x EXCEPT !.retry = b]
Leave(x) == [x EXCEPT !.deleted = TRUE, !.retry = FALSE, !.notified = TRUE, !.leaving = TRUE]
Unlist(x) == [x EXCEPT !.listed = FALSE, !.deleted = TRUE, !.leaving = FALSE, !.retry = FALSE,
                       !.code = Local, !.peer = NoPeer]
Recover(x) == [x EXCEPT !.state = "provisional", !.notified = FALSE]

LEMMA CodeTypes == Local \in Code /\ Codes \subseteq Code /\ NotStored \notin Code
BY DEF Code

\* A session comes to life with a seat, or without one.
LEMMA NewSessions ==
  /\ Proper(NoSession)
  /\ \A c \in Code, p \in Peers \cup {NoPeer} : Proper(NewSession("provisional", c, p))
  /\ \A c \in Codes, p \in Peers : Proper(NewSession("live", c, p))
<1>1. ASSUME NEW c \in Code, NEW p \in Peers \cup {NoPeer},
             NEW state \in {"none", "provisional", "live"}
      PROVE  /\ NewSession(state, c, p) \in Session
             /\ NewSession(state, c, p).state = state
             /\ NewSession(state, c, p).code = c
             /\ NewSession(state, c, p).peer = p
             /\ ~NewSession(state, c, p).leaving
  <2>1. (state # "none") \in BOOLEAN /\ (state = "live") \in BOOLEAN /\ FALSE \in BOOLEAN
    OBVIOUS
  <2>2. NewSession(state, c, p) \in Session
    BY <1>1, <2>1, Zenon DEF NewSession, Session
  <2> QED
    BY <2>2 DEF NewSession
<1> QED
  BY <1>1, CodeTypes DEF Proper, NoSession

LEMMA SessionAttached ==
  ASSUME NEW x, Proper(x), NEW c \in Codes, NEW p \in Peers
  PROVE  /\ Proper(Attach(x, c, p))
         /\ Proper(Publish(Attach(x, c, p)))
<1>1. x \in Session /\ (x.leaving => x.notified /\ x.deleted) /\ c \in Code
  BY DEF Proper, Code
<1>2. /\ Attach(x, c, p) \in Session
      /\ Attach(x, c, p).code = c
      /\ Attach(x, c, p).peer = p
      /\ Attach(x, c, p).leaving = x.leaving
      /\ Attach(x, c, p).notified = x.notified
      /\ Attach(x, c, p).deleted = x.deleted
  BY <1>1, Zenon DEF Attach, Session
<1>3. ASSUME NEW y \in Session
      PROVE  /\ Publish(y) \in Session
             /\ Publish(y).code = y.code
             /\ Publish(y).peer = y.peer
             /\ Publish(y).leaving = y.leaving
             /\ Publish(y).notified = y.notified
             /\ Publish(y).deleted = y.deleted
  BY Zenon DEF Publish, Session
<1> QED
  BY <1>1, <1>2, <1>3 DEF Proper

LEMMA SessionStarted ==
  ASSUME NEW x, Proper(x), NEW b \in BOOLEAN
  PROVE  Proper(Start(x)) /\ Proper(Retry(x, b))
<1>1. x \in Session
  BY DEF Proper
<1>2. /\ Start(x) \in Session
      /\ Start(x).state = x.state /\ Start(x).code = x.code /\ Start(x).peer = x.peer
      /\ Start(x).listed = x.listed /\ Start(x).notified = x.notified
      /\ Start(x).leaving = x.leaving /\ Start(x).deleted = x.deleted
  BY <1>1, Zenon DEF Start, Session
<1>3. /\ Retry(x, b) \in Session
      /\ Retry(x, b).state = x.state /\ Retry(x, b).code = x.code /\ Retry(x, b).peer = x.peer
      /\ Retry(x, b).listed = x.listed /\ Retry(x, b).notified = x.notified
      /\ Retry(x, b).leaving = x.leaving /\ Retry(x, b).deleted = x.deleted
  BY <1>1, Zenon DEF Retry, Session
<1> QED
  BY <1>2, <1>3 DEF Proper

LEMMA SessionLeaves ==
  ASSUME NEW x, Proper(x)
  PROVE  /\ x.state = "live" /\ ~x.notified => Proper(Leave(x))
         /\ x.state = "provisional" \/ x.notified => Proper(Unlist(x))
<1>1. x \in Session
  BY DEF Proper
<1>2. /\ Leave(x) \in Session
      /\ Leave(x).code = x.code /\ Leave(x).peer = x.peer
      /\ Leave(x).notified /\ Leave(x).deleted
  BY <1>1, Zenon DEF Leave, Session
<1>3. Unlist(x) \in Session
  BY <1>1, CodeTypes, Zenon DEF Unlist, Session
<1>4. /\ Unlist(x).state = x.state /\ Unlist(x).notified = x.notified
      /\ ~Unlist(x).listed /\ ~Unlist(x).leaving
  BY <1>1, Zenon DEF Unlist, Session
<1> QED
  BY <1>2, <1>3, <1>4 DEF Proper

LEMMA SessionRecovers ==
  ASSUME NEW x, Proper(x), ~x.deleted
  PROVE  Proper(Recover(x))
<1>1. x \in Session /\ ~x.leaving
  BY DEF Proper
<1>2. Recover(x) \in Session /\ Recover(x).state = "provisional" /\ Recover(x).leaving = x.leaving
  BY <1>1, Zenon DEF Recover, Session
<1> QED
  BY <1>1, <1>2 DEF Proper

-----------------------------------------------------------------------------
(* What the page asks for *)

LEMMA RequestType ==
  ASSUME NEW s \in Secrets, NEW kind \in {"create", "restore", "provision"}, NEW c \in Code,
         NEW others, FreeSlots(s, others) # {}
  PROVE  Request(s, kind, c, others) \in Call /\ HasSeat(Request(s, kind, c, others))
<1>1. (CHOOSE n \in FreeSlots(s, others) : TRUE) \in Slots
  BY DEF FreeSlots
<1> QED
  BY <1>1 DEF Request, Call, HasSeat

LEMMA ProvisioningType ==
  ASSUME NEW sessions, NEW S \in SUBSET Secrets, \A s \in Secrets : sessions[s] \in Session,
         NEW others \in SUBSET Call, CanRequest(Wanting(S, sessions), others),
         \A k \in others : HasSeat(k)
  PROVE  /\ Provisioning(S, sessions, others) \in SUBSET Call
         /\ \A k \in Provisioning(S, sessions, others) : HasSeat(k)
<1>1. ASSUME NEW s \in Wanting(S, sessions)
      PROVE  /\ Request(s, "provision", sessions[s].code, others) \in Call
             /\ HasSeat(Request(s, "provision", sessions[s].code, others))
  <2>1. s \in Secrets /\ sessions[s].code \in Code /\ FreeSlots(s, others) # {}
    BY DEF Wanting, CanRequest, Session
  <2> QED
    BY <2>1, RequestType
<1> QED
  BY <1>1 DEF Provisioning

LEMMA AnswerType ==
  ASSUME NEW k \in Call, NEW c \in Codes
  PROVE  /\ \A p \in Peers :
              /\ [k EXCEPT !.stage = "served", !.code = c, !.peer = p] \in Call
              /\ HasSeat([k EXCEPT !.stage = "served", !.code = c, !.peer = p])
         /\ [k EXCEPT !.stage = "refused", !.code = c, !.peer = NoPeer] \in Call
         /\ HasSeat([k EXCEPT !.stage = "refused", !.code = c, !.peer = NoPeer])
<1>1. c \in Code /\ "served" # "refused"
  BY DEF Code
<1>2. ASSUME NEW p \in Peers
      PROVE  /\ [k EXCEPT !.stage = "served", !.code = c, !.peer = p] \in Call
             /\ [k EXCEPT !.stage = "served", !.code = c, !.peer = p].code = c
             /\ [k EXCEPT !.stage = "served", !.code = c, !.peer = p].peer = p
  BY <1>1, Zenon DEF Call
<1>3. /\ [k EXCEPT !.stage = "refused", !.code = c, !.peer = NoPeer] \in Call
      /\ [k EXCEPT !.stage = "refused", !.code = c, !.peer = NoPeer].stage = "refused"
  BY <1>1, Zenon DEF Call
<1> QED
  BY <1>1, <1>2, <1>3 DEF HasSeat

LEMMA AbandonedType ==
  ASSUME NEW K \in SUBSET Call
  PROVE  /\ Abandoned(K) \in SUBSET Call
         /\ \A k \in Abandoned(K) : HasSeat(k)
<1>1. ASSUME NEW k \in Call, k.stage = "sent"
      PROVE  /\ [k EXCEPT !.kind = "abandoned"] \in Call
             /\ [k EXCEPT !.kind = "abandoned"].stage = "sent"
  BY <1>1, Zenon DEF Call
<1> QED
  BY <1>1 DEF Abandoned, HasSeat

-----------------------------------------------------------------------------
(* The stream *)

Streams == [key : SUBSET Seat, open : BOOLEAN]

LEMMA SubscriptionsType ==
  ASSUME NEW sessions, \A s \in Secrets : Proper(sessions[s])
  PROVE  Subscriptions(sessions) \subseteq Seat
<1>1. ASSUME NEW s \in OnStream(sessions) PROVE SeatOf(sessions[s]) \in Seat
  BY DEF OnStream, Proper, SeatOf, Seat
<1> QED
  BY <1>1 DEF Subscriptions

LEMMA SyncedType ==
  ASSUME NEW sessions, \A s \in Secrets : Proper(sessions[s]), stream \in Streams
  PROVE  Synced(sessions) \in Streams
BY SubscriptionsType DEF Synced, Streams

-----------------------------------------------------------------------------
(* Each step keeps the types, and the seats real *)

\* What most steps leave alone.
Aside == /\ page' \in {"closed", "restoring", "open"}
         /\ faults' \in 0..MaxFaults /\ loads' \in 0..MaxLoads
         /\ importing' \in Records \cup {NoImport} /\ imports' \in 0..MaxImports

LEMMA AsideSame ==
  ASSUME Typed, UNCHANGED <<page, loads, feed>>, UNCHANGED faults \/ Fault
  PROVE  Aside
BY DEF Typed, TypeOK, Aside, feed, Fault

LEMMA SpareRandom ==
  /\ (\E p \in Peers : UnusedPeer(p)) => RandomPeer \in Peers
  /\ (\E c \in Codes : UnusedCode(c)) => RandomCode \in Codes
BY DEF RandomPeer, RandomCode

\* An import that has read the records is told from none.
LEMMA ImportIsRead ==
  ASSUME Typed, NEW s \in Secrets
  PROVE  /\ importing[s] = "not read" <=> importing = NoImport
         /\ NoImport[s] # NotStored
<1>1. "not read" \notin Code \cup {NotStored}
  BY ImportAssumption DEF Code, ImportAssumption
<1>2. importing \in Records => importing[s] \in Code \cup {NotStored}
  BY DEF Records
<1>3. NoImport[s] = "not read"
  BY DEF NoImport
<1>4. importing \in Records \/ importing = NoImport
  BY DEF Typed, TypeOK
<1> QED
  BY <1>1, <1>2, <1>3, <1>4

\* The server's answer to k.
LEMMA AnswerTyped ==
  ASSUME Typed, NEW k \in calls, NEW c \in Codes, NEW p \in Peers \cup {NoPeer},
         \/ p \in Peers /\ Answer(k, "served", c, p)
         \/ Answer(k, "refused", c, NoPeer)
  PROVE  calls' \in SUBSET Call /\ \A m \in calls' : HasSeat(m)
<1>1. k \in Call /\ calls \in SUBSET Call /\ \A m \in calls : HasSeat(m)
  BY DEF Typed, TypeOK, SeatsAreReal
<1>2. CASE p \in Peers /\ Answer(k, "served", c, p)
  <2> DEFINE a == [k EXCEPT !.stage = "served", !.code = c, !.peer = p]
  <2>1. a \in Call /\ HasSeat(a)
    BY <1>1, <1>2, AnswerType
  <2>2. calls' \subseteq calls \cup {a}
    BY <1>2 DEF Answer
  <2> HIDE DEF a
  <2> QED
    BY <1>1, <2>1, <2>2
<1>3. CASE Answer(k, "refused", c, NoPeer)
  <2> DEFINE a == [k EXCEPT !.stage = "refused", !.code = c, !.peer = NoPeer]
  <2>1. a \in Call /\ HasSeat(a)
    BY <1>1, AnswerType
  <2>2. calls' \subseteq calls \cup {a}
    BY <1>3 DEF Answer
  <2> HIDE DEF a
  <2> QED
    BY <1>1, <2>1, <2>2
<1> QED
  BY <1>2, <1>3

LEMMA ServeTyped ==
  ASSUME Typed, NEW k \in calls, Serve(k)
  PROVE  Typed'
<1>1. k.code \in Codes \/ k.code = Local
  BY DEF Typed, TypeOK, Call, Code
<1>2. calls' \in SUBSET Call /\ \A m \in calls' : HasSeat(m)
  <2>1. CASE k.code = Local
    <3>1. /\ RandomCode \in Codes /\ RandomPeer \in Peers
          /\ Answer(k, "served", RandomCode, RandomPeer)
      BY <2>1, SpareRandom DEF Serve
    <3> QED
      BY <3>1, AnswerTyped
  <2>2. CASE k.code # Local /\ room[k.code] = NoRoom
    <3>1. k.code \in Codes /\ RandomPeer \in Peers /\ Answer(k, "served", k.code, RandomPeer)
      BY <1>1, <2>2, SpareRandom DEF Serve
    <3> QED
      BY <3>1, AnswerTyped
  <2>3. CASE k.code # Local /\ room[k.code] # NoRoom
    <3>1. k.code \in Codes /\ Answer(k, "refused", k.code, NoPeer)
      BY <1>1, <2>3 DEF Serve
    <3> QED
      BY <3>1, AnswerTyped
  <2> QED
    BY <2>1, <2>2, <2>3
<1>3. room' \in [Codes -> [owner : Peers \cup {NoPeer}, guest : {"none", "quiet", "busy"}]]
  <2>1. \/ UNCHANGED room
        \/ \E c \in Codes, p \in Peers : room' = [room EXCEPT ![c] = Room(p, "none")]
    BY <1>1, SpareRandom DEF Serve
  <2> DEFINE Rooms == [owner : Peers \cup {NoPeer}, guest : {"none", "quiet", "busy"}]
  <2>2. \A p \in Peers : Room(p, "none") \in Rooms
    BY DEF Room
  <2>3. room \in [Codes -> Rooms]
    BY DEF Typed, TypeOK
  <2> HIDE DEF Rooms
  <2>4. room' \in [Codes -> Rooms]
    BY <2>1, <2>2, <2>3
  <2> QED
    BY <2>4 DEF Rooms
<1>4. Aside
  BY AsideSame DEF Serve
<1> QED
  BY <1>2, <1>3, <1>4 DEF Serve, Typed, TypeOK, SeatsAreReal, Aside

\* What recipients do.
GuestStep(c) == GuestJoins(c) \/ GuestFallsQuiet(c) \/ GuestCalls(c) \/ GuestLeaves(c)

\* The other steps of the network and of the server.
LEMMA NetworkTyped ==
  ASSUME Typed,
         \/ \E k \in calls : LoseRequest(k)
         \/ \E seat \in leaves : LeaveArrives(seat) \/ LoseLeave(seat)
         \/ \E c \in Codes : GuestStep(c) \/ Reclaim(c)
         \/ StreamOpens \/ StreamDrops
  PROVE  Typed'
<1>1. Aside
  BY AsideSame DEF LoseRequest, LeaveArrives, LoseLeave, GuestStep, GuestJoins, GuestFallsQuiet,
                   GuestCalls, GuestLeaves, Reclaim,
                   StreamOpens, StreamDrops
<1>2. \A r \in [owner : Peers \cup {NoPeer}, guest : {"none", "quiet", "busy"}] :
        \A b \in {"none", "quiet", "busy"} : [r EXCEPT !.guest = b] \in [owner : Peers \cup {NoPeer}, guest : {"none", "quiet", "busy"}]
  BY Zenon
<1>3. room' \in [Codes -> [owner : Peers \cup {NoPeer}, guest : {"none", "quiet", "busy"}]]
  <2>1. CASE \E seat \in leaves : LeaveArrives(seat)
    <3>1. PICK seat \in leaves : LeaveArrives(seat)
      BY <2>1
    <3>2. seat[1] \in Codes
      BY DEF Typed, TypeOK, Seat
    <3> QED
      BY <3>1, <3>2 DEF LeaveArrives, Typed, TypeOK, Room, NoRoom, Occupied
  <2>2. CASE \E c \in Codes : GuestStep(c)
    <3>1. PICK c \in Codes, b \in {"none", "quiet", "busy"} : room' = [room EXCEPT ![c].guest = b]
      BY <2>2 DEF GuestStep, GuestJoins, GuestFallsQuiet, GuestCalls, GuestLeaves
    <3>2. room' = [room EXCEPT ![c] = [room[c] EXCEPT !.guest = b]]
      BY <3>1, Zenon DEF Typed, TypeOK
    <3> QED
      BY <1>2, <3>2 DEF Typed, TypeOK
  <2>3. CASE \E c \in Codes : Reclaim(c)
    BY <2>3 DEF Reclaim, Typed, TypeOK, Room, NoRoom
  <2>4. CASE UNCHANGED room
    BY <2>4 DEF Typed, TypeOK
  <2> QED
    BY <2>1, <2>2, <2>3, <2>4 DEF LoseRequest, LoseLeave, StreamOpens, StreamDrops
<1>4. stream' \in Streams
  <2>1. stream \in Streams
    BY DEF Typed, TypeOK, Streams
  <2>2. \A b \in BOOLEAN : [stream EXCEPT !.open = b] \in Streams
    BY <2>1, Zenon DEF Streams
  <2> QED
    BY <2>1, <2>2 DEF LoseRequest, LeaveArrives, LoseLeave, GuestStep, GuestJoins, GuestFallsQuiet,
                   GuestCalls, GuestLeaves, Reclaim,
                      StreamOpens, StreamDrops
<1>5. /\ UNCHANGED <<toRestore, fate, sess, stored>>
      /\ calls' \subseteq calls /\ leaves' \subseteq leaves
  BY DEF LoseRequest, LeaveArrives, LoseLeave, GuestStep, GuestJoins, GuestFallsQuiet,
                   GuestCalls, GuestLeaves, Reclaim,
         StreamOpens, StreamDrops
<1> QED
  BY <1>1, <1>3, <1>4, <1>5 DEF Typed, TypeOK, SeatsAreReal, Aside, Streams

\* The sessions are properly typed.
ProperSessions(sessions) ==
  sessions \in [Secrets -> Session] /\ \A s \in Secrets : Proper(sessions[s])

LEMMA SessionsNow == ASSUME Typed PROVE ProperSessions(sess) /\ stream \in Streams
BY DEF Typed, TypeOK, SeatsAreReal, ProperSessions, Streams

LEMMA SessionsSet ==
  ASSUME NEW f, ProperSessions(f), NEW s \in Secrets, NEW x, Proper(x)
  PROVE  ProperSessions([f EXCEPT ![s] = x])
BY DEF ProperSessions, Proper

LEMMA CreateSecretTyped ==
  ASSUME Typed, NEW s \in Secrets, CreateSecret(s)
  PROVE  Typed'
<1>1. Aside
  BY AsideSame DEF CreateSecret
<1>2. /\ Request(s, "create", Local, calls) \in Call
      /\ HasSeat(Request(s, "create", Local, calls))
  BY RequestType, CodeTypes DEF CreateSecret, CanRequest
<1> QED
  BY <1>1, <1>2 DEF CreateSecret, Typed, TypeOK, SeatsAreReal, Aside

\* createSecret and restoreLocalSecrets resume.
LEMMA BornTyped ==
  ASSUME Typed, NEW k \in calls, Created(k) \/ Restored(k)
  PROVE  Typed'
<1>1. Aside
  BY AsideSame DEF Created, Restored
<1>2. k.secret \in Secrets /\ k.code \in Codes /\ k.peer \in Peers /\ k.code \in Code
  BY CodeTypes DEF Created, Restored, Typed, TypeOK, SeatsAreReal, HasSeat, Call
<1>3. ProperSessions(sess')
  <2>1. sess' = [sess EXCEPT ![k.secret] = NewSession("live", k.code, k.peer)]
    BY DEF Created, Restored
  <2> QED
    BY <1>2, <2>1, NewSessions, SessionsNow, SessionsSet
<1>4. stored' \in Records
  BY <1>2 DEF Created, Restored, PersistLocalSecret, Typed, TypeOK, Records
<1> QED
  BY <1>1, <1>3, <1>4 DEF Created, Restored, Typed, TypeOK, SeatsAreReal, Aside, ProperSessions

\* provisionOwnerSession resumes.
LEMMA ProvisionedTyped ==
  ASSUME Typed, NEW k \in calls, Provisioned(k)
  PROVE  Typed'
<1> DEFINE s == k.secret
           x == Attach(sess[s], k.code, k.peer)
<1>1. Aside
  BY AsideSame DEF Provisioned
<1>2. s \in Secrets /\ k.code \in Codes /\ k.peer \in Peers /\ k.code \in Code
  BY CodeTypes DEF Provisioned, Typed, TypeOK, SeatsAreReal, HasSeat, Call
<1>3. ProperSessions(sess) /\ stream \in Streams
  BY SessionsNow
<1>4. Proper(x) /\ Proper(Publish(x))
  BY <1>2, <1>3, SessionAttached DEF ProperSessions
<1>5. Attached(k) = [sess EXCEPT ![s] = x]
  BY <1>2, <1>3, Zenon DEF Attached, Attach, ProperSessions
<1> HIDE DEF x
<1>6. ProperSessions(Attached(k))
  <2>1. ProperSessions([sess EXCEPT ![s] = x])
    BY <1>2, <1>3, <1>4, SessionsSet
  <2> QED
    BY <1>5, <2>1, Zenon
<1>7. sess' = [Attached(k) EXCEPT ![s] = Publish(Attached(k)[s])]
  BY <1>2, <1>6, Zenon DEF Provisioned, Publish, ProperSessions
<1>8. Attached(k)[s] = x
  BY <1>2, <1>3, <1>5 DEF ProperSessions
<1>9. ProperSessions(sess')
  BY <1>2, <1>4, <1>6, <1>7, <1>8, SessionsSet
<1>10. stream' \in Streams
  BY <1>3, <1>6, SyncedType DEF Provisioned, ProperSessions
<1>11. stored' \in Records
  BY <1>2 DEF Provisioned, PersistLocalSecret, Typed, TypeOK, Records
<1> QED
  BY <1>1, <1>9, <1>10, <1>11
     DEF Provisioned, Typed, TypeOK, SeatsAreReal, Aside, ProperSessions, Streams

\* startSession resumes; provisionTimer fires.
LEMMA StartedTyped ==
  ASSUME Typed, NEW s \in Secrets, Started(s)
  PROVE  Typed'
<1>1. Aside
  BY AsideSame DEF Started
<1>2. ProperSessions(sess) /\ stream \in Streams
  BY SessionsNow
<1>3. sess' = [sess EXCEPT ![s] = Start(sess[s])]
  BY <1>2, Zenon DEF Started, Start, ProperSessions
<1>4. ProperSessions(sess')
  BY <1>2, <1>3, SessionStarted, SessionsSet DEF ProperSessions
<1>5. stream' \in Streams
  BY <1>2, <1>4, SyncedType DEF Started, ProperSessions
<1> QED
  BY <1>1, <1>4, <1>5 DEF Started, Typed, TypeOK, SeatsAreReal, Aside, ProperSessions, Streams

LEMMA RetryFiresTyped ==
  ASSUME Typed, NEW s \in Secrets, RetryFires(s)
  PROVE  Typed'
<1>1. Aside
  BY AsideSame DEF RetryFires
<1>2. ProperSessions(sess)
  BY SessionsNow
<1>3. sess' = [sess EXCEPT ![s] = Retry(sess[s], FALSE)]
  BY <1>2, Zenon DEF RetryFires, Retry, ProperSessions
<1>4. ProperSessions(sess')
  BY <1>2, <1>3, SessionStarted, SessionsSet DEF ProperSessions
<1>5. calls \in SUBSET Call /\ \A k \in calls : HasSeat(k)
  BY DEF Typed, TypeOK, SeatsAreReal
<1>6. CanRequest(Wanting({s}, sess'), calls)
  BY DEF RetryFires, CanRequest, Wanting
<1>7. calls' \in SUBSET Call /\ \A k \in calls' : HasSeat(k)
  BY <1>4, <1>5, <1>6, ProvisioningType DEF RetryFires, ProperSessions
<1> QED
  BY <1>1, <1>4, <1>7 DEF RetryFires, Typed, TypeOK, SeatsAreReal, Aside, ProperSessions

\* The catch branches.
LEMMA CallFailsTyped ==
  ASSUME Typed, NEW k \in calls, NEW others \in SUBSET Call, \A m \in others : HasSeat(m),
         CallFails(k, others)
  PROVE  /\ ProperSessions(sess')
         /\ calls' \in SUBSET Call /\ \A m \in calls' : HasSeat(m)
         /\ stored' \in Records /\ toRestore' \subseteq Secrets
<1> DEFINE s == k.secret
<1>1. s \in Secrets /\ ProperSessions(sess) /\ stored \in Records /\ toRestore \subseteq Secrets
  BY SessionsNow DEF Typed, TypeOK, Call
<1>2. ASSUME ProperSessions(sess'), calls' = Provisioning({s}, sess', others)
      PROVE  calls' \in SUBSET Call /\ \A m \in calls' : HasSeat(m)
  <2>1. CanRequest(Wanting({s}, sess'), others)
    BY DEF CallFails, CanRequest, Wanting
  <2> QED
    BY <1>1, <1>2, <2>1, ProvisioningType DEF ProperSessions
<1>3. CASE k.kind = "create"
  <2>1. ProperSessions(sess')
    BY <1>1, <1>3, NewSessions, SessionsSet, CodeTypes DEF CallFails
  <2>2. stored' \in Records /\ UNCHANGED toRestore
    BY <1>1, <1>3, CodeTypes DEF CallFails, PersistLocalSecret, Records
  <2> QED
    BY <1>1, <1>2, <1>3, <2>1, <2>2 DEF CallFails
<1>4. CASE k.kind = "restore"
  <2>1. k.code \in Code
    BY DEF Typed, TypeOK, Call
  <2>2. ProperSessions(sess')
    BY <1>1, <1>4, <2>1, NewSessions, SessionsSet DEF CallFails
  <2> QED
    BY <1>1, <1>2, <1>4, <2>2 DEF CallFails
<1>5. CASE k.kind = "provision"
  <2> DEFINE b == sess[s].retry \/ s \in Wanting({s}, sess)
  <2>1. sess' = [sess EXCEPT ![s] = Retry(sess[s], b)]
    BY <1>1, <1>5, Zenon DEF CallFails, RetryLater, Retry, ProperSessions
  <2>2. b \in BOOLEAN
    BY <1>1 DEF ProperSessions, Session
  <2> HIDE DEF b
  <2>3. Proper(Retry(sess[s], b))
    BY <1>1, <2>2, SessionStarted DEF ProperSessions
  <2>4. ProperSessions(sess')
    BY <1>1, <2>1, <2>3, SessionsSet
  <2> QED
    BY <1>1, <1>5, <2>4 DEF CallFails
<1> QED
  BY <1>3, <1>4, <1>5 DEF CallFails

LEMMA RefusedTyped ==
  ASSUME Typed, NEW k \in calls, Refused(k)
  PROVE  Typed'
<1>1. Aside
  BY AsideSame DEF Refused
<1>2. calls \in SUBSET Call /\ \A m \in calls : HasSeat(m)
  BY DEF Typed, TypeOK, SeatsAreReal
<1>3. /\ ProperSessions(sess')
      /\ calls' \in SUBSET Call /\ \A m \in calls' : HasSeat(m)
      /\ stored' \in Records /\ toRestore' \subseteq Secrets
  BY <1>2, CallFailsTyped DEF Refused
<1> QED
  BY <1>1, <1>3 DEF Refused, Typed, TypeOK, SeatsAreReal, Aside, ProperSessions

LEMMA GiveUpTyped ==
  ASSUME Typed, NEW k \in calls, GiveUp(k)
  PROVE  Typed'
<1> DEFINE others == (calls \ {k}) \cup Abandoned({k})
<1>1. Aside
  BY AsideSame DEF GiveUp
<1>2. others \in SUBSET Call /\ \A m \in others : HasSeat(m)
  <2>1. k \in Call /\ calls \in SUBSET Call /\ \A m \in calls : HasSeat(m)
    BY DEF Typed, TypeOK, SeatsAreReal
  <2> QED
    BY <2>1, AbandonedType
<1>3. CallFails(k, others)
  BY DEF GiveUp
<1>4. /\ ProperSessions(sess')
      /\ calls' \in SUBSET Call /\ \A m \in calls' : HasSeat(m)
      /\ stored' \in Records /\ toRestore' \subseteq Secrets
  BY <1>2, <1>3, CallFailsTyped
<1> QED
  BY <1>1, <1>4 DEF GiveUp, Typed, TypeOK, SeatsAreReal, Aside, ProperSessions

LEMMA OnlineTyped ==
  ASSUME Typed, Online
  PROVE  Typed'
<1>1. Aside
  BY AsideSame DEF Online
<1>2. ProperSessions(sess) /\ stream \in Streams
  BY SessionsNow
<1>3. stream' \in Streams
  BY <1>2, SyncedType DEF Online, ProperSessions
<1>4. calls' \in SUBSET Call /\ \A k \in calls' : HasSeat(k)
  <2>1. calls \in SUBSET Call /\ \A k \in calls : HasSeat(k)
    BY DEF Typed, TypeOK, SeatsAreReal
  <2> QED
    BY <1>2, <2>1, ProvisioningType DEF Online, ProperSessions
<1> QED
  BY <1>1, <1>3, <1>4 DEF Online, Typed, TypeOK, SeatsAreReal, Aside, Streams

\* onerror, and recoverOwnerSession of each session it does not spare.
LEMMA StreamRefusedTyped ==
  ASSUME Typed, StreamRefused
  PROVE  Typed'
<1>1. Aside
  BY AsideSame DEF StreamRefused
<1>2. ProperSessions(sess) /\ stream \in Streams
  BY SessionsNow
<1>3. PICK S \in SUBSET OnStream(sess) :
        CanRequest(S, calls) /\ sess' = Recovering(S) /\ calls' = Provisioning(S, sess', calls)
  BY DEF StreamRefused
<1>4. S \subseteq Secrets /\ \A s \in S : ~sess[s].deleted
  BY DEF OnStream
<1>5. ProperSessions(sess')
  <2>1. ASSUME NEW s \in Secrets
        PROVE  Proper(sess'[s])
    <3>1. CASE s \in S
      <4>1. sess'[s] = Recover(sess[s])
        BY <1>3, <3>1, Zenon DEF Recovering, Recover
      <4> QED
        BY <1>2, <1>4, <3>1, <4>1, SessionRecovers DEF ProperSessions
    <3>2. CASE s \notin S
      BY <1>2, <1>3, <3>2 DEF Recovering, ProperSessions
    <3> QED
      BY <3>1, <3>2
  <2>2. sess' = [s \in Secrets |-> sess'[s]]
    BY <1>3 DEF Recovering
  <2> QED
    BY <2>1, <2>2 DEF ProperSessions, Proper
<1>6. calls' \in SUBSET Call /\ \A k \in calls' : HasSeat(k)
  <2>1. calls \in SUBSET Call /\ \A k \in calls : HasSeat(k)
    BY DEF Typed, TypeOK, SeatsAreReal
  <2>2. CanRequest(Wanting(S, sess'), calls)
    BY <1>3 DEF CanRequest, Wanting
  <2> QED
    BY <1>3, <1>4, <1>5, <2>1, <2>2, ProvisioningType DEF ProperSessions
<1> QED
  BY <1>1, <1>5, <1>6
     DEF StreamRefused, Typed, TypeOK, SeatsAreReal, Aside, ProperSessions, NoStream

LEMMA ToggleTyped ==
  ASSUME Typed, NEW s \in Secrets, Toggle(s)
  PROVE  Typed'
<1>1. Aside
  BY AsideSame DEF Toggle
<1>2. sess[s].code \in Code
  BY SessionsNow DEF ProperSessions, Session
<1> QED
  BY <1>1, <1>2 DEF Toggle, PersistLocalSecret, Records, Typed, TypeOK, SeatsAreReal, Aside

\* leaveSession, in two halves.
LEMMA UnlistedProper ==
  ASSUME ProperSessions(sess), NEW s \in Secrets, sess[s].state = "provisional" \/ sess[s].notified
  PROVE  ProperSessions(Unlisted(s))
<1>1. Unlisted(s) = [sess EXCEPT ![s] = Unlist(sess[s])]
  BY Zenon DEF Unlisted, Unlist, ProperSessions
<1>2. Proper(Unlist(sess[s]))
  BY SessionLeaves DEF ProperSessions
<1>3. ProperSessions([sess EXCEPT ![s] = Unlist(sess[s])])
  BY <1>2, SessionsSet
<1> QED
  BY <1>1, <1>3, Zenon

LEMMA LeftTyped ==
  ASSUME Typed, NEW s \in Secrets, Left(s)
  PROVE  Typed'
<1>1. Aside
  BY AsideSame DEF Left
<1>2. ProperSessions(sess) /\ stream \in Streams /\ sess[s].notified
  BY SessionsNow DEF Left, ProperSessions, Proper
<1>3. ProperSessions(sess')
  BY <1>2, UnlistedProper DEF Left
<1>4. stream' \in Streams
  BY <1>2, <1>3, SyncedType DEF Left, ProperSessions
<1> QED
  BY <1>1, <1>3, <1>4 DEF Left, Typed, TypeOK, SeatsAreReal, Aside, ProperSessions, Streams

\* Removing a secret, and leaving.
LEMMA LeavingTyped ==
  ASSUME Typed, NEW s \in Secrets, sess[s].listed, Remove(s), LeaveSession(s)
  PROVE  Typed'
<1>1. Aside
  BY AsideSame DEF Remove
<1>2. ProperSessions(sess) /\ stream \in Streams
  BY SessionsNow
<1>3. ProperSessions(sess') /\ stream' \in Streams /\ leaves' \subseteq Seat
  <2>1. CASE sess[s].state = "live" /\ ~sess[s].notified
    <3>1. sess' = [sess EXCEPT ![s] = Leave(sess[s])]
      BY <1>2, <2>1, Zenon DEF LeaveSession, Leave, ProperSessions
    <3>2. Proper(Leave(sess[s]))
      BY <1>2, <2>1, SessionLeaves DEF ProperSessions
    <3>3. ProperSessions(sess')
      BY <1>2, <3>1, <3>2, SessionsSet
    <3>4. SeatOf(sess[s]) \in Seat
      BY <1>2, <2>1 DEF SeatOf, Seat, ProperSessions, Proper
    <3>5. leaves' = leaves \cup {SeatOf(sess[s])} /\ UNCHANGED stream
      BY <2>1 DEF LeaveSession
    <3> QED
      BY <1>2, <3>3, <3>4, <3>5 DEF Typed, TypeOK
  <2>2. CASE sess[s].state = "provisional" \/ sess[s].notified
    <3>1. sess' = Unlisted(s) /\ stream' = Synced(sess') /\ UNCHANGED leaves
      BY <1>2, <2>2 DEF LeaveSession
    <3>2. ProperSessions(sess')
      BY <1>2, <2>2, <3>1, UnlistedProper
    <3>3. stream' \in Streams
      BY <1>2, <3>1, <3>2, SyncedType DEF ProperSessions
    <3> QED
      BY <3>1, <3>2, <3>3 DEF Typed, TypeOK
  <2> QED
    BY <2>1, <2>2 DEF LeaveSession
<1> QED
  BY <1>1, <1>3
     DEF Remove, RemoveLocalSecret, Records, Typed, TypeOK, SeatsAreReal, Aside, ProperSessions,
         Streams

LEMMA RemoveTyped ==
  ASSUME Typed, NEW s \in Secrets, sess[s].listed, Remove(s)
  PROVE  Typed'
<1>1. CASE LeaveSession(s)
  BY <1>1, LeavingTyped
<1>2. CASE UNCHANGED <<sess, stream, leaves>>
  <2>1. Aside
    BY AsideSame DEF Remove
  <2> QED
    BY <1>2, <2>1 DEF Remove, RemoveLocalSecret, Records, Typed, TypeOK, SeatsAreReal, Aside
<1> QED
  BY <1>1, <1>2 DEF Remove

LEMMA BurnTyped ==
  ASSUME Typed, NEW s \in Secrets, Burn(s)
  PROVE  Typed'
<1>1. Aside
  BY AsideSame DEF Burn
<1> QED
  BY <1>1 DEF Burn, RemoveLocalSecret, Records, Typed, TypeOK, SeatsAreReal, Aside

LEMMA ClosePageTyped ==
  ASSUME Typed, ClosePage
  PROVE  Typed'
<1>1. ProperSessions(sess)
  BY SessionsNow
<1>2. PICK told \in SUBSET {s \in Secrets :
                              sess[s].listed /\ sess[s].state = "live" /\ ~sess[s].notified} :
        leaves' = leaves \cup {SeatOf(sess[s]) : s \in told}
  BY DEF ClosePage
<1>3. \A s \in told : SeatOf(sess[s]) \in Seat
  BY <1>1 DEF ProperSessions, Proper, SeatOf, Seat
<1>4. leaves' \subseteq Seat
  BY <1>2, <1>3 DEF Typed, TypeOK
<1>5. ProperSessions(sess')
  BY NewSessions DEF ClosePage, ProperSessions, Proper
<1>6. calls' \in SUBSET Call /\ \A k \in calls' : HasSeat(k)
  BY AbandonedType DEF ClosePage, Typed, TypeOK
<1> QED
  BY <1>4, <1>5, <1>6 DEF ClosePage, Typed, TypeOK, SeatsAreReal, ProperSessions, NoStream

LEMMA RestoringTyped ==
  ASSUME Typed, ToRestoreIsStored, OpenPage \/ RestoreEnds \/ \E s \in Secrets : RestoreNext(s)
  PROVE  Typed'
<1>1. ProperSessions(sess) /\ stream \in Streams
  BY SessionsNow
<1>2. CASE OpenPage
  BY <1>2 DEF OpenPage, feed, Typed, TypeOK, SeatsAreReal
<1>3. CASE RestoreEnds
  <2>1. Subscriptions(sess) \subseteq Seat
    BY <1>1, SubscriptionsType DEF ProperSessions
  <2> QED
    BY <1>3, <2>1 DEF RestoreEnds, feed, Typed, TypeOK, SeatsAreReal
<1>4. ASSUME NEW s \in Secrets, RestoreNext(s)
      PROVE  Typed'
  <2>1. Aside
    BY <1>4, AsideSame DEF RestoreNext
  <2>2. stored[s] \in Code
    BY <1>4 DEF RestoreNext, ToRestoreIsStored, Typed, TypeOK, Records
  <2>3. CanRequest({s}, calls) =>
          /\ Request(s, "restore", stored[s], calls) \in Call
          /\ HasSeat(Request(s, "restore", stored[s], calls))
    BY <2>2, RequestType DEF CanRequest
  <2> QED
    BY <1>4, <2>1, <2>3
       DEF RestoreNext, RemoveLocalSecret, Records, Typed, TypeOK, SeatsAreReal, Aside
<1> QED
  BY <1>2, <1>3, <1>4

LEMMA ImportTyped ==
  ASSUME Typed, ImportStarts \/ ImportEnds
  PROVE  Typed'
<1>1. CASE ImportStarts
  BY <1>1 DEF ImportStarts, Typed, TypeOK, SeatsAreReal
<1>2. CASE ImportEnds
  <2>1. PICK news \in SUBSET Secrets :
          /\ \E code \in [news -> ImportedCodes] : stored' = Merged(news, code)
          /\ fate' = [s \in Secrets |-> IF s \in news THEN "created" ELSE fate[s]]
    BY <1>2 DEF ImportEnds
  <2>2. importing \in Records
    BY <1>2 DEF ImportEnds, Typed, TypeOK
  <2>3. ImportedCodes \subseteq Code
    BY DEF ImportedCodes, Code
  <2>4. stored' \in Records
    BY <2>1, <2>2, <2>3 DEF Merged, Records
  <2>5. fate' \in [Secrets -> {"new", "created", "removed"}]
    BY <2>1 DEF Typed, TypeOK
  <2> QED
    BY <1>2, <2>4, <2>5 DEF ImportEnds, Typed, TypeOK, SeatsAreReal
<1> QED
  BY <1>1, <1>2

-----------------------------------------------------------------------------
(* Each step keeps the unborn nowhere, and what is to be restored stored *)

LEMMA RequestFields ==
  ASSUME NEW s, NEW kind, NEW c, NEW others
  PROVE  Request(s, kind, c, others).secret = s /\ Request(s, kind, c, others).kind = kind
BY DEF Request

LEMMA ProvisioningAdds ==
  ASSUME NEW S, NEW sessions, NEW others, NEW k \in Provisioning(S, sessions, others)
  PROVE  \/ k \in others
         \/ k.kind = "provision" /\ k.secret \in S /\ sessions[k.secret].state = "provisional"
<1>1. CASE \E s \in Wanting(S, sessions) : k = Request(s, "provision", sessions[s].code, others)
  <2>1. PICK s \in Wanting(S, sessions) : k = Request(s, "provision", sessions[s].code, others)
    BY <1>1
  <2>2. k.kind = "provision" /\ k.secret = s
    BY <2>1, RequestFields
  <2> QED
    BY <2>2 DEF Wanting
<1> QED
  BY <1>1 DEF Provisioning

LEMMA AbandonedFields ==
  ASSUME NEW K \in SUBSET Call, NEW m \in Abandoned(K)
  PROVE  m.kind = "abandoned" /\ \E k \in K : m.secret = k.secret
<1>1. ASSUME NEW k \in Call
      PROVE  [k EXCEPT !.kind = "abandoned"].kind = "abandoned"
             /\ [k EXCEPT !.kind = "abandoned"].secret = k.secret
  BY Zenon DEF Call
<1> QED
  BY <1>1 DEF Abandoned

\* Steps after which there is at most less under way.
LEMMA LessUnderWay ==
  ASSUME Whereabouts, UNCHANGED <<page, fate, sess, stored, importing>>,
         toRestore' \subseteq toRestore, calls' \subseteq calls, stream.key = {} => stream'.key = {}
  PROVE  Whereabouts'
BY DEF Whereabouts, CreatedOnce, UnbornIsNowhere, Unborn, Creating, ClosedIsEmpty, ToRestoreIsStored

\* An answer is for the secret and of the kind of the request.
LEMMA ServeWhereabouts ==
  ASSUME IInv, NEW k \in calls, Serve(k)
  PROVE  Whereabouts'
<1>1. PICK stage, c, p : Answer(k, stage, c, p)
  BY DEF Serve
<1> DEFINE a == [k EXCEPT !.stage = stage, !.code = c, !.peer = p]
<1>2. k \in Call /\ a.secret = k.secret /\ a.kind = k.kind
  <2>1. k \in Call
    BY DEF IInv, Typed, TypeOK
  <2>2. a.secret = k.secret /\ a.kind = k.kind
    BY <2>1, Zenon DEF Call
  <2> QED
    BY <2>1, <2>2
<1>3. calls' \subseteq (calls \ {k}) \cup {a}
  BY <1>1 DEF Answer
<1> HIDE DEF a
<1>4. UNCHANGED <<page, toRestore, fate, sess, stored, stream, importing>>
  BY DEF Serve, feed
<1>5. \A m \in calls' : \E j \in calls : m.secret = j.secret /\ m.kind = j.kind
  BY <1>2, <1>3
<1>6. CreatedOnce'
  BY <1>2, <1>3, <1>4 DEF IInv, Whereabouts, CreatedOnce
<1>7. UnbornIsNowhere'
  <2>1. ASSUME NEW s \in Secrets, Unborn(s)'
        PROVE  Unborn(s)
    BY <1>4, <1>5, <2>1 DEF Unborn, Creating
  <2>2. ASSUME NEW s \in Secrets, Unborn(s)', NEW m \in calls', m.secret = s
        PROVE  m.kind \in {"create", "abandoned"}
    <3>1. PICK j \in calls : m.secret = j.secret /\ m.kind = j.kind
      BY <1>5
    <3> QED
      BY <2>1, <2>2, <3>1 DEF IInv, Whereabouts, UnbornIsNowhere
  <2> QED
    BY <1>4, <2>1, <2>2 DEF IInv, Whereabouts, UnbornIsNowhere
<1>8. ClosedIsEmpty' /\ ToRestoreIsStored'
  BY <1>4, <1>5 DEF IInv, Whereabouts, ClosedIsEmpty, ToRestoreIsStored
<1> QED
  BY <1>6, <1>7, <1>8 DEF Whereabouts

LEMMA NetworkWhereabouts ==
  ASSUME IInv,
         \/ \E k \in calls : LoseRequest(k)
         \/ \E seat \in leaves : LeaveArrives(seat) \/ LoseLeave(seat)
         \/ \E c \in Codes : GuestStep(c) \/ Reclaim(c)
         \/ StreamOpens \/ StreamDrops
  PROVE  Whereabouts'
<1>1. stream'.key = stream.key
  <2>1. stream \in Streams
    BY SessionsNow DEF IInv
  <2>2. \A b \in BOOLEAN : [stream EXCEPT !.open = b].key = stream.key
    BY <2>1, Zenon DEF Streams
  <2>3. stream' = stream \/ \E b \in BOOLEAN : stream' = [stream EXCEPT !.open = b]
    BY DEF LoseRequest, LeaveArrives, LoseLeave, GuestStep, GuestJoins, GuestFallsQuiet,
                   GuestCalls, GuestLeaves, Reclaim,
           StreamOpens, StreamDrops
  <2>4. CASE \E b \in BOOLEAN : stream' = [stream EXCEPT !.open = b]
    <3>1. PICK b \in BOOLEAN : stream' = [stream EXCEPT !.open = b]
      BY <2>4
    <3> QED
      BY <2>2, <3>1, Zenon
  <2> QED
    BY <2>3, <2>4
<1>2. /\ UNCHANGED <<page, fate, sess, stored, importing>>
      /\ toRestore' \subseteq toRestore /\ calls' \subseteq calls
  BY DEF LoseRequest, LeaveArrives, LoseLeave, GuestStep, GuestJoins, GuestFallsQuiet,
                   GuestCalls, GuestLeaves, Reclaim,
         StreamOpens, StreamDrops, feed
<1> QED
  BY <1>1, <1>2, LessUnderWay DEF IInv

LEMMA CreateSecretWhereabouts ==
  ASSUME IInv, NEW s \in Secrets, CreateSecret(s)
  PROVE  Whereabouts'
<1> DEFINE r == Request(s, "create", Local, calls)
<1>1. r.secret = s /\ r.kind = "create"
  BY RequestFields
<1>2. /\ calls' = calls \cup {r} /\ fate' = [fate EXCEPT ![s] = "created"] /\ fate[s] = "new"
      /\ page # "closed" /\ UNCHANGED <<page, toRestore, sess, stored, importing>>
  BY DEF CreateSecret, feed
<1> HIDE DEF r
<1>3. \A k \in calls : k.secret # s /\ k.secret \in Secrets
  BY <1>2 DEF IInv, Typed, TypeOK, Call, Whereabouts, CreatedOnce
<1>4. /\ fate'[s] = "created" /\ Unborn(s)
      /\ \A t \in Secrets : t # s => fate'[t] = fate[t]
  BY <1>2 DEF IInv, Typed, TypeOK, Unborn
<1>5. CreatedOnce'
  BY <1>1, <1>2, <1>3, <1>4 DEF IInv, Whereabouts, CreatedOnce
<1>6. UnbornIsNowhere'
  <2>1. ASSUME NEW t \in Secrets, Unborn(t)'
        PROVE  Unborn(t)
    BY <1>1, <1>2, <1>4, <2>1 DEF Unborn, Creating
  <2> QED
    BY <1>1, <1>2, <1>3, <1>4, <2>1 DEF IInv, Whereabouts, UnbornIsNowhere
<1>7. ClosedIsEmpty' /\ ToRestoreIsStored'
  BY <1>1, <1>2, <1>4 DEF IInv, Whereabouts, ClosedIsEmpty, UnbornIsNowhere, ToRestoreIsStored
<1> QED
  BY <1>5, <1>6, <1>7 DEF Whereabouts

\* Most steps of the page touch the secrets of a set S only, none of which is
\* unborn or to be restored afterwards.
Touches(S) ==
  /\ page # "closed" /\ page' # "closed"
  /\ toRestore' \subseteq toRestore
  /\ \A m \in calls' : \/ m \in calls
                       \/ m.kind = "abandoned" /\ \E k \in calls : m.secret = k.secret
                       \/ m.kind = "provision" /\ m.secret \in S
  /\ \A s \in S : fate'[s] # "new" /\ ~Creating(s)' /\ s \notin toRestore'
  /\ \A s \in Secrets : s \notin S =>
       /\ sess'[s] = sess[s] /\ stored'[s] = stored[s]
       /\ fate'[s] = fate[s] /\ importing'[s] = importing[s]

LEMMA TouchesWhereabouts ==
  ASSUME IInv, NEW S \in SUBSET Secrets, Touches(S)
  PROVE  Whereabouts'
<1>1. \A s \in S : ~Unborn(s)' /\ s \notin toRestore'
  BY DEF Touches, Unborn
<1>2. ASSUME NEW m \in calls'
      PROVE  \/ m \in calls /\ m.secret \in Secrets
             \/ m.kind = "abandoned" /\ \E k \in calls : m.secret = k.secret /\ k.secret \in Secrets
             \/ m.kind = "provision" /\ m.secret \in S
  BY DEF Touches, IInv, Typed, TypeOK, Call
<1>3. CreatedOnce'
  BY <1>2 DEF Touches, IInv, Whereabouts, CreatedOnce
<1>4. UnbornIsNowhere'
  <2>1. ASSUME NEW s \in Secrets, Unborn(s)'
        PROVE  s \notin S /\ Unborn(s)
    BY <1>1, <1>2, <2>1 DEF Touches, Unborn, Creating
  <2>2. ASSUME NEW s \in Secrets, Unborn(s)', NEW m \in calls', m.secret = s
        PROVE  m.kind \in {"create", "abandoned"}
    BY <1>2, <2>1, <2>2 DEF IInv, Whereabouts, UnbornIsNowhere
  <2> QED
    BY <2>1, <2>2 DEF Touches, IInv, Whereabouts, UnbornIsNowhere
<1>5. ClosedIsEmpty'
  BY DEF Touches, ClosedIsEmpty
<1>6. ToRestoreIsStored'
  <2>1. ASSUME NEW s \in toRestore'
        PROVE  s \in toRestore /\ s \in Secrets /\ s \notin S
    BY <1>1 DEF Touches, IInv, Typed, TypeOK
  <2>2. ASSUME NEW s \in toRestore', NEW m \in calls', m.secret = s
        PROVE  m.kind \in {"restore", "abandoned"}
    BY <1>2, <2>1, <2>2 DEF IInv, Whereabouts, ToRestoreIsStored
  <2> QED
    BY <2>1, <2>2 DEF Touches, IInv, Whereabouts, ToRestoreIsStored
<1> QED
  BY <1>3, <1>4, <1>5, <1>6 DEF Whereabouts

LEMMA NoSessionFields ==
  /\ NoSession.state = "none" /\ ~NoSession.listed
  /\ ~NoSession.leaving /\ ~NoSession.starting /\ ~NoSession.retry
BY DEF NoSession, NewSession

\* A secret with a session is born.
LEMMA SessionIsBorn ==
  ASSUME IInv, NEW s \in Secrets, sess[s] # NoSession
  PROVE  ~Unborn(s) /\ s \notin toRestore /\ page # "closed"
BY DEF IInv, Whereabouts, UnbornIsNowhere, ToRestoreIsStored, ClosedIsEmpty

\* An answer for a secret makes it exist.
LEMMA BornWhereabouts ==
  ASSUME IInv, NEW k \in calls, Created(k) \/ Restored(k) \/ Provisioned(k)
  PROVE  Whereabouts'
<1> DEFINE s == k.secret
<1>1. s \in Secrets /\ fate[s] # "new" /\ page # "closed"
  BY DEF IInv, Typed, TypeOK, Call, Whereabouts, CreatedOnce, ClosedIsEmpty,
         Created, Restored, Provisioned
<1>2. ASSUME NEW r \in Secrets, r # s
      PROVE  sess'[r] = sess[r] /\ stored'[r] = stored[r]
  BY <1>2
     DEF Created, Restored, Provisioned, Attached, PersistLocalSecret, IInv, Typed, TypeOK, Records
<1>3. /\ UNCHANGED <<page, fate, importing>>
      /\ calls' = calls \ {k} /\ toRestore' \subseteq toRestore
      /\ k.kind = "restore" => toRestore' = toRestore \ {s}
  BY DEF Created, Restored, Provisioned, feed
<1>4. ~Creating(s)'
  BY <1>1, <1>3 DEF Created, Restored, Provisioned, IInv, Whereabouts, CreatedOnce,
                    UnbornIsNowhere, Unborn, Creating
<1>5. s \notin toRestore'
  BY <1>1, <1>3
     DEF Created, Restored, Provisioned, IInv, Whereabouts, UnbornIsNowhere, Unborn, Creating,
         ToRestoreIsStored
<1>6. Touches({s})
  BY <1>1, <1>2, <1>3, <1>4, <1>5 DEF Touches
<1> QED
  BY <1>1, <1>6, TouchesWhereabouts

\* The catch branches, with nothing under way but others.
LEMMA CallFailsWhereabouts ==
  ASSUME IInv, NEW k \in calls, NEW others, CallFails(k, others),
         \A m \in others : \/ m \in calls \ {k}
                           \/ m.kind = "abandoned" /\ m.secret = k.secret,
         UNCHANGED <<page, fate, importing>>
  PROVE  Whereabouts'
<1> DEFINE s == k.secret
<1>1. s \in Secrets /\ fate[s] # "new" /\ page # "closed"
  BY DEF IInv, Typed, TypeOK, Call, Whereabouts, CreatedOnce, ClosedIsEmpty, CallFails
<1>2. ASSUME NEW r \in Secrets, r # s
      PROVE  sess'[r] = sess[r] /\ stored'[r] = stored[r]
  BY <1>2 DEF CallFails, RetryLater, PersistLocalSecret, IInv, Typed, TypeOK, Records
<1>3. \A m \in calls' : m \in others \/ (m.kind = "provision" /\ m.secret \in {s})
  <2>1. calls' = Provisioning({s}, sess', others) \/ calls' = others
    BY DEF CallFails
  <2>2. ASSUME NEW m \in Provisioning({s}, sess', others)
        PROVE  m \in others \/ (m.kind = "provision" /\ m.secret \in {s})
    BY ProvisioningAdds
  <2> QED
    BY <2>1, <2>2
<1>4. ~Creating(s)'
  BY <1>1, <1>3 DEF CallFails, IInv, Whereabouts, CreatedOnce, UnbornIsNowhere, Unborn, Creating
<1>5. toRestore' \subseteq toRestore /\ s \notin toRestore'
  BY <1>1
     DEF CallFails, IInv, Whereabouts, UnbornIsNowhere, Unborn, Creating, ToRestoreIsStored
<1>6. Touches({s})
  BY <1>1, <1>2, <1>3, <1>4, <1>5 DEF Touches
<1> QED
  BY <1>1, <1>6, TouchesWhereabouts

LEMMA AnswersWhereabouts ==
  ASSUME IInv, NEW k \in calls, Refused(k) \/ GiveUp(k)
  PROVE  Whereabouts'
<1>1. CASE Refused(k)
  BY <1>1, CallFailsWhereabouts DEF Refused, feed
<1>2. CASE GiveUp(k)
  <2> DEFINE others == (calls \ {k}) \cup Abandoned({k})
  <2>1. ASSUME NEW m \in others
        PROVE  m \in calls \ {k} \/ (m.kind = "abandoned" /\ m.secret = k.secret)
    <3>1. {k} \in SUBSET Call
      BY DEF IInv, Typed, TypeOK
    <3>2. CASE m \in Abandoned({k})
      BY <3>1, <3>2, AbandonedFields
    <3> QED
      BY <3>2
  <2>2. CallFails(k, others) /\ UNCHANGED <<page, fate, importing>>
    BY <1>2 DEF GiveUp, feed
  <2> HIDE DEF others
  <2> QED
    BY <2>1, <2>2, CallFailsWhereabouts
<1> QED
  BY <1>1, <1>2

\* Steps on a secret that has a session.
LEMMA SessionStepWhereabouts ==
  ASSUME IInv, NEW s \in Secrets,
         \/ RetryFires(s) \/ Started(s) \/ Left(s) \/ Burn(s) \/ Toggle(s)
         \/ sess[s].listed /\ Remove(s)
  PROVE  Whereabouts'
<1>1. sess[s] # NoSession
  BY NoSessionFields DEF RetryFires, Started, Left, Burn, Live, OnStream, Toggle, Shown
<1>2. ASSUME NEW r \in Secrets, r # s
      PROVE  sess'[r] = sess[r] /\ stored'[r] = stored[r] /\ fate'[r] = fate[r]
  BY <1>2
     DEF RetryFires, Started, Left, Unlisted, Burn, Toggle, PersistLocalSecret, RemoveLocalSecret,
         Remove, LeaveSession, IInv, Typed, TypeOK, Records
<1>3. fate'[s] # "new"
  BY <1>1, SessionIsBorn
     DEF RetryFires, Started, Left, Burn, Toggle, Remove, Unborn, IInv, Typed, TypeOK
<1>4. ASSUME NEW m \in calls'
      PROVE  m \in calls \/ (m.kind = "provision" /\ m.secret \in {s})
  <2>1. calls' = Provisioning({s}, sess', calls) \/ calls' = calls
    BY DEF RetryFires, Started, Left, Burn, Toggle, Remove
  <2>2. ASSUME NEW n \in Provisioning({s}, sess', calls)
        PROVE  n \in calls \/ (n.kind = "provision" /\ n.secret \in {s})
    BY ProvisioningAdds
  <2> QED
    BY <2>1, <2>2
<1>5. UNCHANGED <<page, toRestore, importing>>
  BY DEF RetryFires, Started, Left, Burn, Toggle, Remove, feed
<1>6. ~Creating(s)'
  BY <1>1, <1>4, SessionIsBorn DEF Unborn, Creating
<1>7. Touches({s})
  BY <1>1, <1>2, <1>3, <1>4, <1>5, <1>6, SessionIsBorn DEF Touches
<1> QED
  BY <1>7, TouchesWhereabouts

\* Steps on several sessions at once.
LEMMA OnlineWhereabouts ==
  ASSUME IInv, Online \/ StreamRefused \/ RestoreEnds
  PROVE  Whereabouts'
<1>1. PICK S \in SUBSET Secrets :
        /\ \A s \in S : sess[s].listed
        /\ \A s \in Secrets : s \notin S => sess'[s] = sess[s]
        /\ calls' = calls \/ calls' = Provisioning(S, sess', calls)
  <2>1. CASE Online
    <3>1. {s \in Secrets : sess[s].listed} \in SUBSET Secrets
      OBVIOUS
    <3>2. sess' = sess /\ calls' = Provisioning({s \in Secrets : sess[s].listed}, sess', calls)
      BY <2>1 DEF Online
    <3> QED
      BY <3>1, <3>2
  <2>2. CASE StreamRefused
    <3>1. PICK S \in SUBSET OnStream(sess) :
            sess' = Recovering(S) /\ calls' = Provisioning(S, sess', calls)
      BY <2>2 DEF StreamRefused
    <3>2. S \in SUBSET Secrets /\ \A s \in S : sess[s].listed
      BY DEF OnStream
    <3>3. \A s \in Secrets : s \notin S => sess'[s] = sess[s]
      BY <3>1 DEF Recovering
    <3> QED
      BY <3>1, <3>2, <3>3
  <2>3. CASE RestoreEnds
    <3>1. {} \in SUBSET Secrets /\ sess' = sess /\ calls' = calls
      BY <2>3 DEF RestoreEnds
    <3> QED
      BY <3>1
  <2> QED
    BY <2>1, <2>2, <2>3
<1>2. \A s \in S : sess[s] # NoSession
  BY <1>1, NoSessionFields
<1>3. UNCHANGED <<toRestore, fate, stored, importing>> /\ (UNCHANGED page \/ page' = "open")
  BY DEF Online, StreamRefused, RestoreEnds, feed
<1>4. page # "closed" /\ page' # "closed"
  <2>1. CASE Online \/ RestoreEnds
    BY <2>1 DEF Online, RestoreEnds
  <2>2. CASE StreamRefused
    BY <2>2 DEF StreamRefused, IInv, Whereabouts, ClosedIsEmpty
  <2> QED
    BY <2>1, <2>2
<1>5. ASSUME NEW m \in calls'
      PROVE  m \in calls \/ (m.kind = "provision" /\ m.secret \in S)
  <2>1. ASSUME NEW n \in Provisioning(S, sess', calls)
        PROVE  n \in calls \/ (n.kind = "provision" /\ n.secret \in S)
    BY ProvisioningAdds
  <2> QED
    BY <1>1, <2>1
<1>6. \A s \in S : fate'[s] # "new" /\ ~Creating(s)' /\ s \notin toRestore'
  BY <1>2, <1>3, <1>5, SessionIsBorn DEF Unborn, Creating
<1>7. Touches(S)
  BY <1>1, <1>3, <1>4, <1>5, <1>6 DEF Touches
<1> QED
  BY <1>7, TouchesWhereabouts

LEMMA ClosePageWhereabouts ==
  ASSUME IInv, ClosePage
  PROVE  Whereabouts'
<1>1. ASSUME NEW m \in calls'
      PROVE  m.kind = "abandoned" /\ \E k \in calls : m.secret = k.secret
  BY AbandonedFields DEF ClosePage, IInv, Typed, TypeOK
<1>2. /\ UNCHANGED <<fate, stored>> /\ page' = "closed" /\ toRestore' = {}
      /\ sess' = [s \in Secrets |-> NoSession] /\ importing' = NoImport /\ stream'.key = {}
  BY DEF ClosePage, NoStream
<1>3. CreatedOnce' /\ ClosedIsEmpty' /\ ToRestoreIsStored'
  BY <1>1, <1>2 DEF IInv, Whereabouts, CreatedOnce, ClosedIsEmpty, ToRestoreIsStored
<1>4. UnbornIsNowhere'
  <2>1. ASSUME NEW s \in Secrets, Unborn(s)'
        PROVE  Unborn(s)
    BY <1>1, <1>2, <2>1 DEF Unborn, Creating
  <2> QED
    BY <1>1, <1>2, <2>1 DEF IInv, Whereabouts, UnbornIsNowhere, NoImport
<1> QED
  BY <1>3, <1>4 DEF Whereabouts

LEMMA OpenPageWhereabouts ==
  ASSUME IInv, OpenPage
  PROVE  Whereabouts'
<1>1. /\ UNCHANGED <<fate, sess, stored, calls, importing>>
      /\ toRestore' = {s \in Secrets : stored[s] # NotStored}
      /\ page = "closed" /\ page' # "closed"
  BY DEF OpenPage, feed
<1>2. CreatedOnce' /\ ClosedIsEmpty'
  BY <1>1 DEF IInv, Whereabouts, CreatedOnce, ClosedIsEmpty
<1>3. UnbornIsNowhere'
  BY <1>1 DEF IInv, Whereabouts, UnbornIsNowhere, Unborn, Creating
<1>4. ToRestoreIsStored'
  BY <1>1, ImportIsRead DEF IInv, Whereabouts, ClosedIsEmpty, ToRestoreIsStored
<1> QED
  BY <1>2, <1>3, <1>4 DEF Whereabouts

LEMMA RestoreNextWhereabouts ==
  ASSUME IInv, NEW s \in Secrets, RestoreNext(s)
  PROVE  Whereabouts'
<1>1. s \in toRestore /\ UNCHANGED <<page, sess, stream, importing>>
  BY DEF RestoreNext, feed
<1>2. /\ ~Unborn(s) /\ sess[s] = NoSession
      /\ page # "closed"
  BY <1>1 DEF IInv, Whereabouts, UnbornIsNowhere, ClosedIsEmpty, ToRestoreIsStored
<1>3. CASE /\ toRestore' = toRestore \ {s} /\ fate' = [fate EXCEPT ![s] = "removed"]
           /\ RemoveLocalSecret(s) /\ UNCHANGED calls
  <2>1. ASSUME NEW r \in Secrets, r # s
        PROVE  sess'[r] = sess[r] /\ stored'[r] = stored[r] /\ fate'[r] = fate[r]
    BY <1>1, <1>3, <2>1 DEF RemoveLocalSecret, IInv, Typed, TypeOK, Records
  <2>2. fate'[s] # "new" /\ ~Creating(s)'
    BY <1>2, <1>3 DEF IInv, Typed, TypeOK, Unborn, Creating
  <2>3. Touches({s})
    BY <1>1, <1>2, <1>3, <2>1, <2>2 DEF Touches
  <2> QED
    BY <2>3, TouchesWhereabouts
<1>4. CASE /\ calls' = calls \cup {Request(s, "restore", stored[s], calls)}
           /\ UNCHANGED <<toRestore, fate, stored>>
  <2> DEFINE q == Request(s, "restore", stored[s], calls)
  <2>1. q.secret = s /\ q.kind = "restore"
    BY RequestFields
  <2>2. calls' = calls \cup {q}
    BY <1>4
  <2> HIDE DEF q
  <2>3. fate[s] # "new"
    BY <1>2 DEF Unborn
  <2>4. CreatedOnce'
    BY <1>4, <2>1, <2>2, <2>3 DEF IInv, Whereabouts, CreatedOnce
  <2>5. UnbornIsNowhere'
    <3>1. ASSUME NEW r \in Secrets, Unborn(r)'
          PROVE  r # s /\ Unborn(r)
      BY <1>2, <1>4, <2>1, <2>2, <3>1 DEF Unborn, Creating
    <3> QED
      BY <1>1, <1>4, <2>1, <2>2, <3>1 DEF IInv, Whereabouts, UnbornIsNowhere
  <2>6. ClosedIsEmpty' /\ ToRestoreIsStored'
    BY <1>1, <1>2, <1>4, <2>1, <2>2 DEF IInv, Whereabouts, ClosedIsEmpty, ToRestoreIsStored
  <2> QED
    BY <2>4, <2>5, <2>6 DEF Whereabouts
<1> QED
  BY <1>3, <1>4 DEF RestoreNext

\* An import reads the records, and writes them back with records of new secrets.
LEMMA ImportWhereabouts ==
  ASSUME IInv, ImportStarts \/ ImportEnds
  PROVE  Whereabouts'
<1>1. CASE ImportStarts
  <2>1. /\ UNCHANGED <<page, toRestore, fate, sess, stored, stream, calls>>
        /\ page # "closed" /\ importing' = stored
    BY <1>1 DEF ImportStarts
  <2>2. CreatedOnce' /\ ClosedIsEmpty' /\ ToRestoreIsStored'
    BY <2>1 DEF IInv, Whereabouts, CreatedOnce, ClosedIsEmpty, ToRestoreIsStored
  <2>3. UnbornIsNowhere'
    BY <2>1 DEF IInv, Whereabouts, UnbornIsNowhere, Unborn, Creating
  <2> QED
    BY <2>2, <2>3 DEF Whereabouts
<1>2. CASE ImportEnds
  <2>1. PICK news \in SUBSET {s \in Secrets : fate[s] = "new"} :
          /\ \E code \in [news -> ImportedCodes] : stored' = Merged(news, code)
          /\ fate' = [s \in Secrets |-> IF s \in news THEN "created" ELSE fate[s]]
    BY <1>2 DEF ImportEnds
  <2>2. /\ UNCHANGED <<page, toRestore, sess, calls>> /\ importing' = NoImport
        /\ importing # NoImport
    BY <1>2 DEF ImportEnds
  <2>3. page # "closed"
    BY <2>2 DEF IInv, Whereabouts, ClosedIsEmpty
  <2>4. \A s \in Secrets \ news : stored'[s] = importing[s] /\ fate'[s] = fate[s]
    BY <2>1 DEF Merged
  <2>5. \A k \in calls : k.secret \in Secrets \ news
    BY <2>1 DEF IInv, Typed, TypeOK, Call, Whereabouts, CreatedOnce
  <2>6. CreatedOnce'
    BY <2>2, <2>4, <2>5 DEF IInv, Whereabouts, CreatedOnce
  <2>7. ASSUME NEW s \in Secrets, Unborn(s)'
        PROVE  Unborn(s) /\ s \notin news
    BY <2>1, <2>2, <2>4, <2>5, <2>7 DEF Unborn, Creating
  <2>8. ASSUME NEW s \in Secrets, importing[s] = "not read"
        PROVE  FALSE
    BY <2>2, <2>8, ImportIsRead DEF IInv
  <2>9. UnbornIsNowhere'
    BY <2>2, <2>4, <2>7, <2>8 DEF IInv, Whereabouts, UnbornIsNowhere, NoImport
  <2>10. \A s \in toRestore : s \in Secrets \ news
    BY <2>1 DEF IInv, Typed, TypeOK, Whereabouts, ToRestoreIsStored, UnbornIsNowhere, Unborn
  <2>11. ClosedIsEmpty' /\ ToRestoreIsStored'
    BY <2>2, <2>3, <2>4, <2>10, ImportIsRead
       DEF IInv, Typed, TypeOK, Whereabouts, ClosedIsEmpty, ToRestoreIsStored
  <2> QED
    BY <2>6, <2>9, <2>11 DEF Whereabouts
<1> QED
  BY <1>1, <1>2

-----------------------------------------------------------------------------
(* The invariant holds *)

LEMMA InitIInv == Init => IInv
<1> SUFFICES ASSUME Init PROVE IInv
  OBVIOUS
<1>1. SeatsAreReal
  BY NewSessions DEF Init, SeatsAreReal
<1>2. TypeOK
  BY NewSessions, CodeTypes DEF Init, TypeOK, NoStream, NoRoom, Room, Records, Proper
<1>3. CreatedOnce /\ ClosedIsEmpty /\ ToRestoreIsStored
  BY DEF Init, CreatedOnce, ClosedIsEmpty, ToRestoreIsStored, NoStream
<1>4. UnbornIsNowhere
  BY DEF Init, UnbornIsNowhere, NoImport
<1> QED
  BY <1>1, <1>2, <1>3, <1>4 DEF IInv, Typed, Whereabouts

LEMMA StutterIInv == IInv /\ UNCHANGED vars => IInv'
<1> SUFFICES ASSUME IInv, UNCHANGED vars PROVE IInv'
  OBVIOUS
<1>1. Typed'
  BY DEF vars, feed, IInv, Typed, TypeOK, SeatsAreReal
<1>2. CreatedOnce' /\ UnbornIsNowhere'
  BY DEF vars, feed, IInv, Whereabouts, CreatedOnce, UnbornIsNowhere, Unborn, Creating
<1>3. ClosedIsEmpty' /\ ToRestoreIsStored'
  BY DEF vars, feed, IInv, Whereabouts, ClosedIsEmpty, ToRestoreIsStored
<1> QED
  BY <1>1, <1>2, <1>3 DEF IInv, Whereabouts

LEMMA StepIInv == IInv /\ [Next]_vars => IInv'
<1> SUFFICES ASSUME IInv, [Next]_vars PROVE IInv'
  OBVIOUS
<1>1. Typed /\ ToRestoreIsStored
  BY DEF IInv, Whereabouts
<1>2. CASE \E k \in calls : Serve(k)
  BY <1>1, <1>2, ServeTyped, ServeWhereabouts DEF IInv
<1>3. CASE \/ \E k \in calls : LoseRequest(k)
           \/ \E seat \in leaves : LeaveArrives(seat) \/ LoseLeave(seat)
           \/ \E c \in Codes : GuestStep(c) \/ Reclaim(c)
           \/ StreamOpens \/ StreamDrops
  BY <1>1, <1>3, NetworkTyped, NetworkWhereabouts DEF IInv
<1>4. CASE \E k \in calls : Created(k) \/ Restored(k)
  BY <1>1, <1>4, BornTyped, BornWhereabouts DEF IInv
<1>5. CASE \E k \in calls : Provisioned(k)
  BY <1>1, <1>5, ProvisionedTyped, BornWhereabouts DEF IInv
<1>6. CASE \E k \in calls : Refused(k) \/ GiveUp(k)
  BY <1>1, <1>6, RefusedTyped, GiveUpTyped, AnswersWhereabouts DEF IInv
<1>7. CASE \E s \in Secrets : CreateSecret(s)
  BY <1>1, <1>7, CreateSecretTyped, CreateSecretWhereabouts DEF IInv
<1>8. CASE \E s \in Secrets : Started(s) \/ RetryFires(s) \/ Toggle(s) \/ Left(s) \/ Burn(s)
  BY <1>1, <1>8, StartedTyped, RetryFiresTyped, ToggleTyped, LeftTyped, BurnTyped,
     SessionStepWhereabouts DEF IInv
<1>9. CASE \E s \in Secrets : DeleteSecret(s) \/ ExpireSecret(s)
  <2>1. PICK s \in Secrets : sess[s].listed /\ Remove(s)
    BY <1>9 DEF DeleteSecret, ExpireSecret, Shown
  <2> QED
    BY <1>1, <2>1, RemoveTyped, SessionStepWhereabouts DEF IInv
<1>10. CASE \E s \in Secrets : RestoreNext(s)
  BY <1>1, <1>10, RestoringTyped, RestoreNextWhereabouts DEF IInv
<1>11. CASE OpenPage
  BY <1>1, <1>11, RestoringTyped, OpenPageWhereabouts DEF IInv
<1>12. CASE RestoreEnds
  BY <1>1, <1>12, RestoringTyped, OnlineWhereabouts DEF IInv
<1>13. CASE Online \/ StreamRefused
  BY <1>1, <1>13, OnlineTyped, StreamRefusedTyped, OnlineWhereabouts DEF IInv
<1>14. CASE ClosePage
  BY <1>1, <1>14, ClosePageTyped, ClosePageWhereabouts DEF IInv
<1>15. CASE ImportStarts \/ ImportEnds
  BY <1>1, <1>15, ImportTyped, ImportWhereabouts DEF IInv
<1>16. CASE UNCHANGED vars
  BY <1>16, StutterIInv
<1> QED
  BY <1>2, <1>3, <1>4, <1>5, <1>6, <1>7, <1>8, <1>9, <1>10, <1>11, <1>12, <1>13, <1>14, <1>15, <1>16
     DEF Next, PageResumes, GuestStep

\* In every behaviour: types, seats that are real, unborn secrets nowhere, a
\* closed page empty, and what is to be restored stored.
THEOREM Inductive == Spec => []IInv
BY InitIInv, StepIInv, PTL DEF Spec

\* The variables have the shapes of appState, the records and the requests.
THEOREM TypeCorrect == Spec => []TypeOK
<1>1. IInv => TypeOK
  BY DEF IInv, Typed
<1> QED
  BY <1>1, Inductive, PTL
=============================================================================
