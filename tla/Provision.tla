----------------------------- MODULE Provision -----------------------------
(***************************************************************************)
(* The life of a sender's secrets in internal/app/assets/app.js: a secret  *)
(* is created, published in a room of its own, republished when its room   *)
(* or the network is lost, kept in localStorage over reloads, and removed; *)
(* and the one event stream a page holds for all of its rooms.  The server *)
(* is what its handlers let a sender see of the hub (module Hub): rooms    *)
(* with the peer that owns them, and whether a recipient is seated.  The    *)
(* data channel to a recipient (module Handoff) is left out: a session     *)
(* that is published may have one.                                         *)
(*                                                                         *)
(* Handlers of the page run to their next await, and are one action up to  *)
(* there.  A request is on its way, served, and answered in three steps;   *)
(* in between the page may give up, reload, or send another one.           *)
(*                                                                         *)
(* A secret is a model value.  Its ciphertext, factors and hint are left   *)
(* out, and so is the limit of 100 stored secrets.                         *)
(***************************************************************************)
EXTENDS Naturals, FiniteSets

CONSTANTS
  Secrets,      \* the secrets that may be created
  WithTTL,      \* those of them that expire
  Codes,        \* room codes of the server's alphabet
  Peers,        \* peer ids of the server
  NoPeer,       \* no peer of the server: a "LOCAL..." id, or no owner
  Local,        \* a "LOCAL-..." code, which validLocalRoomCode rejects
  NotStored,    \* there is no record of the secret in localStorage
  Shared,       \* codes whose link recipients have
  Slots,        \* requests a secret can have under way
  MaxFaults,    \* requests, streams and leave messages that fail
  MaxLoads,     \* times the page is opened
  MaxImports    \* feeds that are imported

ASSUME ProvisionAssumption ==
  /\ WithTTL \subseteq Secrets /\ Shared \subseteq Codes
  /\ Slots \subseteq Nat
  /\ MaxFaults \in Nat /\ MaxLoads \in Nat /\ MaxImports \in Nat
  /\ NoPeer \notin Peers /\ Local \notin Codes /\ NotStored \notin Codes \cup {Local}

\* A list that was not read is told from one that was.
ASSUME ImportAssumption == "not read" \notin Codes \cup {Local, NotStored}

VARIABLES
  page,       \* "closed", "restoring" (appState.ownerStreamSuspended) or "open"
  toRestore,  \* records restoreLocalSecrets has not dealt with yet
  fate,       \* secret -> "new", "created", or "removed": deleted, expired or burned
  sess,       \* secret -> its session object
  stored,     \* secret -> the roomCode of its record in localStorage
  stream,     \* ownerEventSource: its subscriptions, and whether it is open
  calls,      \* POST /ui/rooms/create requests
  leaves,     \* POST .../leave requests and beacons under way
  room,       \* code -> the room the server has under it
  faults,     \* failures so far
  loads,      \* times the page was opened so far
  importing,  \* the stored list as importLocalFeed has read it, or NoImport
  imports     \* imports begun so far

feed == <<importing, imports>>
vars == <<page, toRestore, fate, sess, stored, stream, calls, leaves, room, faults, loads, feed>>

-----------------------------------------------------------------------------
(* Data *)

Code == Codes \cup {Local}
Seat == Codes \X Peers

\* deleted is isDeleted, notified is leaveNotified; leaving: leaveSession awaits
\* the answer to its leave; starting: startSession awaits its key pair; retry:
\* provisionTimer is set.
Session == [state : {"none", "provisional", "live"}, code : Code, peer : Peers \cup {NoPeer},
            listed : BOOLEAN, deleted : BOOLEAN, notified : BOOLEAN,
            leaving : BOOLEAN, starting : BOOLEAN, retry : BOOLEAN]

\* bootstrapSession: a session that is not provisional is started.
NewSession(state, c, p) ==
  [state |-> state, code |-> c, peer |-> p, listed |-> state # "none", deleted |-> FALSE,
   notified |-> FALSE, leaving |-> FALSE, starting |-> state = "live", retry |-> FALSE]
NoSession == NewSession("none", Local, NoPeer)

Call == [secret : Secrets, slot : Slots, kind : {"create", "restore", "provision", "abandoned"},
         stage : {"sent", "served", "refused"}, code : Code, peer : Peers \cup {NoPeer}]

\* The stored list: the record of a secret is its room code.
Records == [Secrets -> Code \cup {NotStored}]
NoImport == [s \in Secrets |-> "not read"]

\* guest is "none", or the recipient that is seated: "busy" when it has made a call
\* of the hub in the last 30 minutes, so that lastActive keeps the room, else "quiet".
Room(p, guest) == [owner |-> p, guest |-> guest]
NoRoom == Room(NoPeer, "none")
Occupied(r) == r.guest # "none"

\* ownerSessionsForStream, and what the page subscribes to for them.
OnStream(sessions) ==
  {s \in Secrets : sessions[s].listed /\ ~sessions[s].deleted /\ sessions[s].state = "live"}
Live(s) == s \in OnStream(sess)
SeatOf(session) == <<session.code, session.peer>>
Subscriptions(sessions) == {SeatOf(sessions[s]) : s \in OnStream(sessions)}
NoStream == [key |-> {}, open |-> FALSE]

\* Mutant of Synced: a stream that exists is kept.
SyncedOnce(sessions) ==
  IF page = "restoring" \/ stream.key # {} THEN stream
  ELSE [key |-> Subscriptions(sessions), open |-> FALSE]

\* syncOwnerEventStream: the stream after it, for these sessions.
Synced(sessions) ==
  IF page = "restoring" \/ Subscriptions(sessions) = stream.key THEN stream
  ELSE [key |-> Subscriptions(sessions), open |-> FALSE]

\* What the page shows and can act on: a card is in the document until its
\* session has left.
Shown(s) == sess[s].listed /\ (sess[s].deleted => sess[s].leaving)

\* hub.go: the seat's owner is a peer of the room.
Seated(seat) == room[seat[1]].owner = seat[2]
Attended(c) == stream.open /\ <<c, room[c].owner>> \in stream.key

\* randomToken and randomCodeLocked, among what nobody uses any more; which one
\* is drawn makes no difference.
UnusedPeer(p) ==
  /\ \A c \in Codes : room[c].owner # p
  /\ \A s \in Secrets : sess[s].peer # p
  /\ \A k \in calls : k.peer # p
  /\ \A seat \in leaves \cup stream.key : seat[2] # p
Nobodys(c) ==
  /\ \A s \in Secrets : sess[s].code # c /\ stored[s] # c /\ importing[s] # c
  /\ \A k \in calls : k.code # c
UnusedCode(c) ==
  /\ room[c] = NoRoom /\ Nobodys(c)
  /\ \A seat \in leaves \cup stream.key : seat[1] # c
RandomPeer == CHOOSE p \in Peers : UnusedPeer(p)
RandomCode == CHOOSE c \in Codes : UnusedCode(c)

-----------------------------------------------------------------------------
(* Requests *)

FreeSlots(s, others) == {n \in Slots : \A k \in others : k.secret = s => k.slot # n}

\* A request for secret s, asking for code c unless it is a local one.
Request(s, kind, c, others) ==
  [secret |-> s, slot |-> CHOOSE n \in FreeSlots(s, others) : TRUE, kind |-> kind,
   stage |-> "sent", code |-> c, peer |-> NoPeer]

\* provisionOwnerSession for each secret of S, up to its await: a session that
\* is deleted or not provisional is left alone.
Wanting(S, sessions) ==
  {s \in S : sessions[s].state = "provisional" /\ ~sessions[s].deleted}
Provisioning(S, sessions, others) ==
  others \cup {Request(s, "provision", sessions[s].code, others) : s \in Wanting(S, sessions)}
CanRequest(S, others) == \A s \in S : FreeSlots(s, others) # {}

\* persistLocalSecret and removeLocalSecret: the record of s.
PersistLocalSecret(s, c) == stored' = [stored EXCEPT ![s] = c]
RemoveLocalSecret(s) == stored' = [stored EXCEPT ![s] = NotStored]

\* The page stops waiting for these requests; the server may still get them.
Abandoned(K) == {[k EXCEPT !.kind = "abandoned"] : k \in {m \in K : m.stage = "sent"}}

-----------------------------------------------------------------------------
Init ==
  /\ page = "closed"
  /\ toRestore = {}
  /\ fate = [s \in Secrets |-> "new"]
  /\ sess = [s \in Secrets |-> NoSession]
  /\ stored = [s \in Secrets |-> NotStored]
  /\ stream = NoStream
  /\ calls = {}
  /\ leaves = {}
  /\ room = [c \in Codes |-> NoRoom]
  /\ faults = 0
  /\ loads = 0
  /\ importing = NoImport
  /\ imports = 0

Fault == faults < MaxFaults /\ faults' = faults + 1

-----------------------------------------------------------------------------
(* The server *)

\* handleCreateRoomCard answers k with room c owned by p; nobody hears the
\* answer to an abandoned request.
Answer(k, stage, c, p) ==
  calls' = (calls \ {k}) \cup
             (IF k.kind = "abandoned" THEN {} ELSE {[k EXCEPT !.stage = stage, !.code = c, !.peer = p]})

\* Mutant of Serve: a local code is taken for one to open the room under.
ServeAnyCode(k) ==
  /\ k.stage = "sent"
  /\ \E p \in Peers : UnusedPeer(p)
  /\ Answer(k, "served", k.code, RandomPeer)
  /\ UNCHANGED <<page, toRestore, fate, sess, stored, stream, leaves, room, faults, loads, feed>>

\* handleCreateRoomCard: without a room_code the room gets a random one; a code
\* that is in use is refused with 409.
Serve(k) ==
  /\ k.stage = "sent"
  /\ \/ /\ k.code = Local
        /\ \E c \in Codes : UnusedCode(c)
        /\ \E p \in Peers : UnusedPeer(p)
        /\ room' = [room EXCEPT ![RandomCode] = Room(RandomPeer, "none")]
        /\ Answer(k, "served", RandomCode, RandomPeer)
     \/ /\ k.code # Local /\ room[k.code] = NoRoom
        /\ \E p \in Peers : UnusedPeer(p)
        /\ room' = [room EXCEPT ![k.code] = Room(RandomPeer, "none")]
        /\ Answer(k, "served", k.code, RandomPeer)
     \/ /\ k.code # Local /\ room[k.code] # NoRoom
        /\ Answer(k, "refused", k.code, NoPeer)
        /\ UNCHANGED room
  /\ UNCHANGED <<page, toRestore, fate, sess, stored, stream, leaves, faults, loads, feed>>

\* A request the page no longer waits for never reaches the server.
LoseRequest(k) ==
  /\ k.kind = "abandoned"
  /\ calls' = calls \ {k}
  /\ UNCHANGED <<page, toRestore, fate, sess, stored, stream, leaves, room, faults, loads, feed>>

\* Mutant of LeaveArrives: the peer that leaves is not looked at.
LeaveClears(seat) ==
  /\ seat \in leaves
  /\ leaves' = leaves \ {seat}
  /\ room' = [room EXCEPT ![seat[1]] = IF Occupied(@) THEN Room(NoPeer, @.guest) ELSE NoRoom]
  /\ UNCHANGED <<page, toRestore, fate, sess, stored, stream, calls, faults, loads, feed>>

\* handleLeave: the room stays for as long as a recipient is seated in it.
LeaveArrives(seat) ==
  /\ seat \in leaves
  /\ leaves' = leaves \ {seat}
  /\ room' = IF Seated(seat)
             THEN [room EXCEPT ![seat[1]] = IF Occupied(@) THEN Room(NoPeer, @.guest) ELSE NoRoom]
             ELSE room
  /\ UNCHANGED <<page, toRestore, fate, sess, stored, stream, calls, faults, loads, feed>>

LoseLeave(seat) ==
  /\ seat \in leaves
  /\ Fault
  /\ leaves' = leaves \ {seat}
  /\ UNCHANGED <<page, toRestore, fate, sess, stored, stream, calls, room, loads, feed>>

\* A recipient that has the link of a session is seated in its room.
GuestJoins(c) ==
  /\ c \in Shared
  /\ room[c] # NoRoom /\ ~Occupied(room[c])
  /\ \E s \in Secrets : sess[s].code = c
  /\ room' = [room EXCEPT ![c].guest = "busy"]
  /\ UNCHANGED <<page, toRestore, fate, sess, stored, stream, calls, leaves, faults, loads, feed>>

\* It falls silent, posts a signal (its retry queue may do so for ever) or
\* reconnects, and leaves.
GuestFallsQuiet(c) ==
  /\ room[c].guest = "busy"
  /\ room' = [room EXCEPT ![c].guest = "quiet"]
  /\ UNCHANGED <<page, toRestore, fate, sess, stored, stream, calls, leaves, faults, loads, feed>>
GuestCalls(c) ==
  /\ room[c].guest = "quiet"
  /\ room' = [room EXCEPT ![c].guest = "busy"]
  /\ UNCHANGED <<page, toRestore, fate, sess, stored, stream, calls, leaves, faults, loads, feed>>
GuestLeaves(c) ==
  /\ Occupied(room[c])
  /\ room' = [room EXCEPT ![c].guest = "none"]
  /\ UNCHANGED <<page, toRestore, fate, sess, stored, stream, calls, leaves, faults, loads, feed>>

\* The janitor's pruneExpired, or the eviction of a stale owner by a join.  The
\* channel of the room is closed, and handleOwnerEvents goes on with the others
\* and with its keep-alives: the page notices nothing.
Reclaim(c) ==
  /\ room[c] # NoRoom
  /\ room' = [room EXCEPT ![c] = NoRoom]
  /\ UNCHANGED <<page, toRestore, fate, sess, stored, stream, calls, leaves, faults, loads, feed>>

-----------------------------------------------------------------------------
(* Creating and publishing *)

\* createSecret up to its request: the secret is in the page's memory only.
CreateSecret(s) ==
  /\ page # "closed"
  /\ fate[s] = "new"
  /\ CanRequest({s}, calls)
  /\ fate' = [fate EXCEPT ![s] = "created"]
  /\ calls' = calls \cup {Request(s, "create", Local, calls)}
  /\ UNCHANGED <<page, toRestore, sess, stored, stream, leaves, room, faults, loads, feed>>

\* Mutant of Created: the record is written only when the network failed.
CreatedUnstored(k) ==
  /\ k.kind = "create" /\ k.stage = "served"
  /\ calls' = calls \ {k}
  /\ sess' = [sess EXCEPT ![k.secret] = NewSession("live", k.code, k.peer)]
  /\ UNCHANGED <<page, toRestore, fate, stored, stream, leaves, room, faults, loads, feed>>

\* createSecret resumes with the card of its room.
Created(k) ==
  /\ k.kind = "create" /\ k.stage = "served"
  /\ calls' = calls \ {k}
  /\ sess' = [sess EXCEPT ![k.secret] = NewSession("live", k.code, k.peer)]
  /\ PersistLocalSecret(k.secret, k.code)
  /\ UNCHANGED <<page, toRestore, fate, stream, leaves, room, faults, loads, feed>>

\* restoreLocalSecrets resumes: the code goes into the session, not the record.
Restored(k) ==
  /\ k.kind = "restore" /\ k.stage = "served"
  /\ calls' = calls \ {k}
  /\ sess' = [sess EXCEPT ![k.secret] = NewSession("live", k.code, k.peer)]
  /\ toRestore' = toRestore \ {k.secret}
  /\ UNCHANGED <<page, fate, stored, stream, leaves, room, faults, loads, feed>>

\* attachProvisionedOwnerCard: the session is listed, and its record written,
\* whatever has happened to the secret since the request.  It has not left its
\* provisional state yet when it has the stream synced.
Attached(k) ==
  [sess EXCEPT ![k.secret].code = k.code, ![k.secret].peer = k.peer, ![k.secret].listed = TRUE]

\* Mutant of Provisioned: the record keeps its code.
ProvisionedUnstored(k) ==
  /\ k.kind = "provision" /\ k.stage = "served"
  /\ calls' = calls \ {k}
  /\ stream' = Synced(Attached(k))
  /\ sess' = [Attached(k) EXCEPT ![k.secret].state = "live", ![k.secret].starting = TRUE]
  /\ UNCHANGED <<page, toRestore, fate, stored, leaves, room, faults, loads, feed>>

\* provisionOwnerSession resumes, up to startSession's key pair.
Provisioned(k) ==
  /\ k.kind = "provision" /\ k.stage = "served"
  /\ calls' = calls \ {k}
  /\ PersistLocalSecret(k.secret, k.code)
  /\ stream' = Synced(Attached(k))
  /\ sess' = [Attached(k) EXCEPT ![k.secret].state = "live", ![k.secret].starting = TRUE]
  /\ UNCHANGED <<page, toRestore, fate, leaves, room, faults, loads, feed>>

\* startSession resumes with the session's key pair.
Started(s) ==
  /\ sess[s].starting
  /\ sess' = [sess EXCEPT ![s].starting = FALSE]
  /\ stream' = Synced(sess')
  /\ UNCHANGED <<page, toRestore, fate, stored, calls, leaves, room, faults, loads, feed>>

\* Mutant of RetryLater: scheduleProvisionRetry is not called.
RetryNever(s) == UNCHANGED sess

\* scheduleProvisionRetry.
RetryLater(s) == sess' = [sess EXCEPT ![s].retry = @ \/ s \in Wanting({s}, sess)]

\* Mutant of CallFails: createSecret does not store the secret that has no room.
CallFailsUnstored(k, others) ==
  LET s == k.secret IN
  /\ k.kind \in {"create", "provision"}
  /\ CanRequest({s}, others)
  /\ \/ /\ k.kind = "create"
        /\ sess' = [sess EXCEPT ![s] = NewSession("provisional", Local, NoPeer)]
        /\ calls' = Provisioning({s}, sess', others)
     \/ /\ k.kind = "provision"
        /\ RetryLater(s)
        /\ calls' = others
  /\ UNCHANGED <<toRestore, stored>>

\* The catch branches: createSecret and restoreLocalSecrets go on with a
\* provisional session and a request of its own, provisionOwnerSession waits.
CallFails(k, others) ==
  LET s == k.secret IN
  /\ CanRequest({s}, others)
  /\ \/ /\ k.kind = "create"
        /\ sess' = [sess EXCEPT ![s] = NewSession("provisional", Local, NoPeer)]
        /\ PersistLocalSecret(s, Local)
        /\ calls' = Provisioning({s}, sess', others)
        /\ UNCHANGED toRestore
     \/ /\ k.kind = "restore"
        /\ sess' = [sess EXCEPT ![s] = NewSession("provisional", k.code, NoPeer)]
        /\ toRestore' = toRestore \ {s}
        /\ calls' = Provisioning({s}, sess', others)
        /\ UNCHANGED stored
     \/ /\ k.kind = "provision"
        /\ RetryLater(s)
        /\ calls' = others
        /\ UNCHANGED <<toRestore, stored>>

\* 409 Conflict.
Refused(k) ==
  /\ k.stage = "refused"
  /\ CallFails(k, calls \ {k})
  /\ UNCHANGED <<page, fate, stream, leaves, room, faults, loads, feed>>

\* No answer before FETCH_TIMEOUT_MS, no network, or 429: the server may have
\* served the request, or may still.
GiveUp(k) ==
  /\ Fault
  /\ CallFails(k, (calls \ {k}) \cup Abandoned({k}))
  /\ UNCHANGED <<page, fate, stream, leaves, room, loads, feed>>

\* provisionTimer fires.
RetryFires(s) ==
  /\ sess[s].retry
  /\ CanRequest({s}, calls)
  /\ sess' = [sess EXCEPT ![s].retry = FALSE]
  /\ calls' = Provisioning({s}, sess', calls)
  /\ UNCHANGED <<page, toRestore, fate, stored, stream, leaves, room, faults, loads, feed>>

\* The browser is back online: every provisional session asks at once, those
\* that wait for an answer or a timer too.
Online ==
  /\ page # "closed"
  /\ Fault
  /\ LET S == {s \in Secrets : sess[s].listed} IN
       /\ CanRequest(Wanting(S, sess), calls)
       /\ calls' = Provisioning(S, sess, calls)
  /\ stream' = Synced(sess)
  /\ UNCHANGED <<page, toRestore, fate, sess, stored, leaves, room, loads, feed>>

-----------------------------------------------------------------------------
(* The owner's stream *)

\* handleOwnerEvents serves whichever subscriptions have a room.
StreamOpens ==
  /\ stream.key # {} /\ ~stream.open
  /\ \E seat \in stream.key : Seated(seat)
  /\ stream' = [stream EXCEPT !.open = TRUE]
  /\ UNCHANGED <<page, toRestore, fate, sess, stored, calls, leaves, room, faults, loads, feed>>

\* The connection is lost; the EventSource connects again by itself.
StreamDrops ==
  /\ stream.open
  /\ Fault
  /\ stream' = [stream EXCEPT !.open = FALSE]
  /\ UNCHANGED <<page, toRestore, fate, sess, stored, calls, leaves, room, loads, feed>>

\* recoverOwnerSession.
Recovering(S) ==
  [s \in Secrets |-> IF s \in S THEN [sess[s] EXCEPT !.state = "provisional", !.notified = FALSE]
                     ELSE sess[s]]

\* onerror with a closed EventSource: 404 when no subscription has a room, or
\* another answer than 200.  Sessions whose recipient is connected are spared.
StreamRefused ==
  /\ stream.key # {} /\ ~stream.open
  /\ \/ (\A seat \in stream.key : ~Seated(seat)) /\ UNCHANGED faults
     \/ Fault
  /\ stream' = NoStream
  /\ \E connected \in SUBSET OnStream(sess) :
       LET S == OnStream(sess) \ connected IN
         /\ CanRequest(S, calls)
         /\ sess' = Recovering(S)
         /\ calls' = Provisioning(S, sess', calls)
  /\ UNCHANGED <<page, toRestore, fate, stored, leaves, room, loads, feed>>

-----------------------------------------------------------------------------
(* Changing and removing a secret *)

\* toggleSecret persists the secret.
Toggle(s) ==
  /\ Shown(s)
  /\ PersistLocalSecret(s, sess[s].code)
  /\ UNCHANGED <<page, toRestore, fate, sess, stream, calls, leaves, room, faults, loads, feed>>

\* The end of leaveSession: nobody reads the seat of a session that is not listed.
Unlisted(s) ==
  [sess EXCEPT ![s].listed = FALSE, ![s].deleted = TRUE, ![s].leaving = FALSE, ![s].retry = FALSE,
               ![s].code = Local, ![s].peer = NoPeer]

\* leaveSession: the server is told, once, unless the session is provisional.
LeaveSession(s) ==
  LET gone == [sess EXCEPT ![s].deleted = TRUE, ![s].retry = FALSE] IN
  \/ /\ sess[s].state = "live" /\ ~sess[s].notified
     /\ sess' = [gone EXCEPT ![s].notified = TRUE, ![s].leaving = TRUE]
     /\ leaves' = leaves \cup {SeatOf(sess[s])}
     /\ UNCHANGED stream
  \/ /\ sess[s].state = "provisional" \/ sess[s].notified
     /\ sess' = Unlisted(s)
     /\ stream' = Synced(sess')
     /\ UNCHANGED leaves

\* Telling the recipient throws on a channel that is not open: the session and its
\* room stay.
Remove(s) ==
  /\ fate' = [fate EXCEPT ![s] = "removed"]
  /\ RemoveLocalSecret(s)
  /\ \/ LeaveSession(s)
     \/ sess[s].state = "live" /\ UNCHANGED <<sess, stream, leaves>>
  /\ UNCHANGED <<page, toRestore, calls, room, faults, loads, feed>>

\* deleteSecret, from the card.
DeleteSecret(s) == Shown(s) /\ Remove(s)

\* expireSecret, from the timer that every hydrateOwnerCard sets anew.
ExpireSecret(s) == s \in WithTTL /\ sess[s].listed /\ Remove(s)

\* leaveSession resumes: the leave was answered, or timed out.
Left(s) ==
  /\ sess[s].leaving
  /\ sess' = Unlisted(s)
  /\ stream' = Synced(sess')
  /\ UNCHANGED <<page, toRestore, fate, stored, calls, leaves, room, faults, loads, feed>>

\* markBurned at the sender: the record goes, the session and its room stay.
Burn(s) ==
  /\ Live(s)
  /\ fate' = [fate EXCEPT ![s] = "removed"]
  /\ RemoveLocalSecret(s)
  /\ UNCHANGED <<page, toRestore, sess, stream, calls, leaves, room, faults, loads, feed>>

-----------------------------------------------------------------------------
(* Closing and opening the page *)

\* beforeunload and pagehide, or a crash: each leave may not get out.
ClosePage ==
  /\ page # "closed"
  /\ page' = "closed"
  /\ \E told \in SUBSET {s \in Secrets : sess[s].listed /\ sess[s].state = "live" /\ ~sess[s].notified} :
       leaves' = leaves \cup {SeatOf(sess[s]) : s \in told}
  /\ toRestore' = {}
  /\ sess' = [s \in Secrets |-> NoSession]
  /\ stream' = NoStream
  /\ calls' = Abandoned(calls)
  /\ importing' = NoImport
  /\ UNCHANGED <<fate, stored, room, faults, loads, imports>>

\* restoreLocalSecrets starts; with an empty list it returns at once.
OpenPage ==
  /\ page = "closed"
  /\ loads < MaxLoads
  /\ loads' = loads + 1
  /\ toRestore' = {s \in Secrets : stored[s] # NotStored}
  /\ page' = IF toRestore' = {} THEN "open" ELSE "restoring"
  /\ UNCHANGED <<fate, sess, stored, stream, calls, leaves, room, faults, feed>>

Restoring == \E k \in calls : k.kind = "restore"

\* The next record: an expired one is dropped, for another the room is asked for.
RestoreNext(s) ==
  /\ s \in toRestore /\ ~Restoring
  /\ \/ /\ s \in WithTTL
        /\ toRestore' = toRestore \ {s}
        /\ RemoveLocalSecret(s)
        /\ fate' = [fate EXCEPT ![s] = "removed"]
        /\ UNCHANGED calls
     \/ /\ CanRequest({s}, calls)
        /\ calls' = calls \cup {Request(s, "restore", stored[s], calls)}
        /\ UNCHANGED <<toRestore, fate, stored>>
  /\ UNCHANGED <<page, sess, stream, leaves, room, faults, loads, feed>>

\* Mutant of RestoreEnds: the stream is not synced.
RestoreEndsUnsynced ==
  /\ page = "restoring" /\ toRestore = {}
  /\ page' = "open"
  /\ UNCHANGED <<toRestore, fate, sess, stored, stream, calls, leaves, room, faults, loads, feed>>

\* The stream is no longer suspended.
RestoreEnds ==
  /\ page = "restoring" /\ toRestore = {}
  /\ page' = "open"
  /\ stream' = IF Subscriptions(sess) = stream.key THEN stream
               ELSE [key |-> Subscriptions(sess), open |-> FALSE]
  /\ UNCHANGED <<toRestore, fate, sess, stored, calls, leaves, room, faults, loads, feed>>

-----------------------------------------------------------------------------
(* Importing a feed *)

\* importLocalFeed has decrypted the file and reads the stored list.
ImportStarts ==
  /\ page # "closed"
  /\ importing = NoImport
  /\ imports < MaxImports
  /\ imports' = imports + 1
  /\ importing' = stored
  /\ UNCHANGED <<page, toRestore, fate, sess, stored, stream, calls, leaves, room, faults, loads>>

\* buildImportedLocalRecord: a secret of the file gets an identifier of its own,
\* and keeps the code it was exported with.  The secrets that are imported have been
\* removed here, or are another browser's: no other record has their codes, but a
\* room or a late leave may.  (A second record with the code of a first would be given
\* the first's session by bootstrapSession, and such twins are left out.)  Of the codes
\* without any trace here one stands for all.
ImportedCodes == {Local} \cup {c \in Codes : Nobodys(c) /\ (UnusedCode(c) => c = RandomCode)}
Distinct(code) == \A s, t \in DOMAIN code : s # t /\ code[s] = code[t] => code[s] = Local

\* Mutant of Merged: the imported list replaces the stored one.
MergedOver(news, code) == [s \in Secrets |-> IF s \in news THEN code[s] ELSE NotStored]

\* The imported records before those of the list that was read.
Merged(news, code) == [s \in Secrets |-> IF s \in news THEN code[s] ELSE importing[s]]

\* Each imported secret has been encrypted, an await each; the list is written.
\* The page reloads within the second (ClosePage, OpenPage).
ImportEnds ==
  /\ importing # NoImport
  /\ \E news \in SUBSET {s \in Secrets : fate[s] = "new"} \ {{}} :
       /\ \E code \in [news -> ImportedCodes] : Distinct(code) /\ stored' = Merged(news, code)
       /\ fate' = [s \in Secrets |-> IF s \in news THEN "created" ELSE fate[s]]
  /\ importing' = NoImport
  /\ UNCHANGED <<page, toRestore, sess, stream, calls, leaves, room, faults, loads, imports>>

-----------------------------------------------------------------------------
PageResumes(k) == Created(k) \/ Restored(k) \/ Provisioned(k) \/ Refused(k)

Next ==
  \/ \E k \in calls : Serve(k) \/ LoseRequest(k) \/ PageResumes(k) \/ GiveUp(k)
  \/ \E seat \in leaves : LeaveArrives(seat) \/ LoseLeave(seat)
  \/ \E c \in Codes : GuestJoins(c) \/ GuestFallsQuiet(c) \/ GuestCalls(c) \/ GuestLeaves(c) \/ Reclaim(c)
  \/ \E s \in Secrets : CreateSecret(s) \/ Started(s) \/ RetryFires(s) \/ Toggle(s)
                          \/ DeleteSecret(s) \/ ExpireSecret(s) \/ Left(s) \/ Burn(s) \/ RestoreNext(s)
  \/ Online \/ StreamOpens \/ StreamDrops \/ StreamRefused
  \/ ClosePage \/ OpenPage \/ RestoreEnds \/ ImportStarts \/ ImportEnds

Spec == Init /\ [][Next]_vars

\* The server serves what reaches it, the page resumes when an answer is there
\* and when its timers fire.  The janitor reclaims a room that its owner's stream is
\* not on and that has no recipient, or one that makes no calls; one in which
\* recipients come and go, or go on calling, it need never reclaim.
\* Failures are bounded by MaxFaults: the network works in the end.
Fairness ==
  /\ \A s \in Secrets :
       /\ WF_vars(\E k \in calls : k.secret = s /\ Serve(k))
       /\ WF_vars(\E k \in calls : k.secret = s /\ PageResumes(k))
       /\ WF_vars(RetryFires(s))
       /\ WF_vars(Started(s))
  /\ \A c \in Codes :
       /\ WF_vars(~Attended(c) /\ room[c].guest = "none" /\ Reclaim(c))
       /\ WF_vars(~Attended(c) /\ room[c].guest = "quiet" /\ Reclaim(c))
       /\ WF_vars(GuestFallsQuiet(c))

FairSpec == Spec /\ Fairness

-----------------------------------------------------------------------------
(* Properties *)

\* The variables have the shapes of appState, the records and the requests.
TypeOK ==
  /\ page \in {"closed", "restoring", "open"}
  /\ toRestore \subseteq Secrets
  /\ fate \in [Secrets -> {"new", "created", "removed"}]
  /\ sess \in [Secrets -> Session]
  /\ stored \in Records
  /\ stream \in [key : SUBSET Seat, open : BOOLEAN]
  /\ calls \subseteq Call
  /\ leaves \subseteq Seat
  /\ room \in [Codes -> [owner : Peers \cup {NoPeer}, guest : {"none", "quiet", "busy"}]]
  /\ faults \in 0..MaxFaults
  /\ loads \in 0..MaxLoads
  /\ importing \in Records \cup {NoImport}
  /\ imports \in 0..MaxImports

\* The stream the page has is for the sessions it has.  Outside of a restore,
\* if there is a stream, every published session is subscribed by its present
\* seat, or is about to be when its key pair is ready; and a subscription that
\* is no session's belongs to one that is leaving or being republished.
StreamFollowsSessions ==
  page = "open" /\ stream.key # {} =>
    /\ \A s \in OnStream(sess) : sess[s].starting \/ SeatOf(sess[s]) \in stream.key
    /\ \A seat \in stream.key : \E s \in Secrets :
         /\ SeatOf(sess[s]) = seat
         /\ Live(s) \/ sess[s].leaving

\* A reload does not lose what the page shows: each session of a secret that was
\* not removed has its record in localStorage, through every order of answers,
\* failures, republications and reloads.
SessionsAreStored ==
  \A s \in Secrets : sess[s].listed /\ fate[s] # "removed" => stored[s] # NotStored

\* The link a recipient was given is the one the next page load asks for: the
\* record of a published secret has the code of its session.  The exception is a
\* secret created while the network failed and restored before it was ever
\* published: it gets a room, its record keeps the local code, and the load
\* after that gives it another link.
SharedLinkIsStored ==
  \A s \in Secrets : Live(s) /\ fate[s] # "removed" =>
    \/ stored[s] = sess[s].code
    \/ stored[s] = Local /\ loads > 1

\* What is stored follows what was removed.  A secret that is not removed keeps
\* its record, unless an import writes a list it read before the record was
\* there.  The record of a removed secret comes back in three ways only: a
\* request that publishes it was under way, it is toggled on a card that is still
\* there (burned, or deleted and about to leave), or an import writes a list
\* that still had it.
RecordsFollowFate ==
  [][\A s \in Secrets :
       /\ stored[s] # NotStored /\ stored'[s] = NotStored
            => fate'[s] = "removed" \/ (ImportEnds /\ importing[s] = NotStored)
       /\ stored[s] = NotStored /\ stored'[s] # NotStored /\ fate[s] = "removed"
            => \/ \E k \in calls : k.secret = s /\ Provisioned(k)
               \/ Toggle(s)
               \/ ImportEnds /\ importing[s] # NotStored]_vars

\* A secret that was created is nowhere any more.
Creating(s) == \E k \in calls : k.secret = s /\ k.kind = "create"
Lost(s) ==
  /\ fate[s] = "created"
  /\ stored[s] = NotStored /\ ~sess[s].listed /\ ~Creating(s)

\* The page says that a secret is created before it is stored, and with that it is
\* lost in one way only, leaving imports aside: the page is closed before the answer
\* to its first request, or the time-out, is there.  No refusal, lost answer,
\* reload or republication loses one after that.
LostOnlyBy ==
  [][\A s \in Secrets : ~Lost(s) /\ Lost(s)' =>
       (ClosePage /\ Creating(s)) \/ imports > 0]_vars

\* A published session that the page has no subscription for.
Unsubscribed(s) ==
  page = "open" /\ Live(s) /\ ~sess[s].starting /\ SeatOf(sess[s]) \notin stream.key

\* A published session that is started is subscribed, and loses its subscription in
\* one way only: the server refuses the page's stream, and the session is spared
\* because a recipient is connected to it (nothing opens a stream for it then until
\* another session, or an online event, does).  Creating, deleting, republishing and
\* restoring others, in any order, does not do it.  A subscription is not yet a room:
\* one whose room is reclaimed under an open stream stays, and hears nothing.
UnsubscribedOnlyBy ==
  [][\A s \in Secrets : ~Unsubscribed(s) /\ Unsubscribed(s)' => StreamRefused]_vars

\* A leave of an earlier session or page, however late, does not take the room
\* from the session that has it now.
LateLeaveSparesRoom ==
  [][\A s \in Secrets :
       leaves \ leaves' # {} /\ Live(s) /\ Seated(SeatOf(sess[s])) => Seated(SeatOf(sess[s]))']_vars

\* Whatever a provisional session met, a lost answer, a code its own old room
\* still holds, a recipient that waits in it, it is published in the end unless it
\* is removed or the page is closed.  Only recipients that keep calling into that
\* room, which refreshes it although its owner is gone, can hold it up for ever.
Unpublished(s) == sess[s].listed /\ sess[s].state = "provisional"
HeldByGuests(s) == sess[s].code \in Codes /\ room[sess[s].code].guest = "busy"
EventuallyPublished == \A s \in Secrets : <>[]Unpublished(s) => []<>HeldByGuests(s)

-----------------------------------------------------------------------------
(* What the documentation and the tests say, and the code does not do *)

\* README.md: "optional delete-on-read", "optional TTL auto-wipe" and "bulk owner
\* actions for toggle, email, and delete".  A secret that was removed is not
\* published again: it is given no further room.
RemovedIsNotPublished ==
  [][\A s \in Secrets :
       sess'[s].peer # sess[s].peer /\ sess'[s].peer # NoPeer => fate[s] # "removed"]_vars
=============================================================================
