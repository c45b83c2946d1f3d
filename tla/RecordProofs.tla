---------------------------- MODULE RecordProofs ----------------------------
(***************************************************************************)
(* What localStorage holds of a sender's secrets, what the page's event    *)
(* stream is subscribed to, and what a leave that arrives late does:       *)
(* proofs from the invariant of ProvisionProofs.                           *)
(***************************************************************************)
EXTENDS ProvisionProofs

USE ProvisionAssumption

-----------------------------------------------------------------------------
(* What is stored follows what was removed *)

\* For one secret and one step, what RecordsFollowFate says.
Follows(s) ==
  /\ stored[s] # NotStored /\ stored'[s] = NotStored
       => fate'[s] = "removed" \/ (ImportEnds /\ importing[s] = NotStored)
  /\ stored[s] = NotStored /\ stored'[s] # NotStored /\ fate[s] = "removed"
       => \/ \E k \in calls : k.secret = s /\ Provisioned(k)
          \/ Toggle(s)
          \/ ImportEnds /\ importing[s] # NotStored

\* The record of r becomes one, or goes.
LEMMA RecordSet ==
  ASSUME Typed, NEW r \in Secrets, NEW s \in Secrets
  PROVE  /\ \A c \in Code : PersistLocalSecret(r, c) =>
              IF s = r THEN stored'[s] # NotStored ELSE stored'[s] = stored[s]
         /\ RemoveLocalSecret(r) =>
              IF s = r THEN stored'[s] = NotStored ELSE stored'[s] = stored[s]
BY CodeTypes DEF Typed, TypeOK, Records, PersistLocalSecret, RemoveLocalSecret

LEMMA StepFollows ==
  ASSUME IInv, [Next]_vars, NEW s \in Secrets
  PROVE  Follows(s)
<1>1. Typed /\ fate \in [Secrets -> {"new", "created", "removed"}]
  BY DEF IInv, Typed, TypeOK
<1>2. CASE UNCHANGED stored
  BY <1>2 DEF Follows
<1>3. ASSUME NEW k \in calls, k.kind = "create",
             PersistLocalSecret(k.secret, k.code) \/ PersistLocalSecret(k.secret, Local)
      PROVE  Follows(s)
  <2>1. k.secret \in Secrets /\ k.code \in Code
    BY <1>1 DEF Typed, TypeOK, Call
  <2>2. fate[k.secret] # "removed"
    BY <1>3, <2>1 DEF IInv, Whereabouts, UnbornIsNowhere, Unborn, Creating
  <2>3. IF s = k.secret THEN stored'[s] # NotStored ELSE stored'[s] = stored[s]
    BY <1>1, <1>3, <2>1, RecordSet, CodeTypes
  <2> QED
    BY <2>2, <2>3 DEF Follows
<1>4. ASSUME NEW k \in calls, Provisioned(k)
      PROVE  Follows(s)
  <2>1. k.secret \in Secrets /\ k.code \in Code
    BY <1>1 DEF Typed, TypeOK, Call
  <2>2. PersistLocalSecret(k.secret, k.code)
    BY <1>4 DEF Provisioned
  <2>3. IF s = k.secret THEN stored'[s] # NotStored ELSE stored'[s] = stored[s]
    BY <1>1, <2>1, <2>2, RecordSet
  <2> QED
    BY <1>4, <2>3 DEF Follows
<1>5. ASSUME NEW r \in Secrets, Toggle(r)
      PROVE  Follows(s)
  <2>1. sess[r].code \in Code
    BY <1>1, SessionsNow DEF ProperSessions, Session
  <2>2. PersistLocalSecret(r, sess[r].code)
    BY <1>5 DEF Toggle
  <2>3. IF s = r THEN stored'[s] # NotStored ELSE stored'[s] = stored[s]
    BY <1>1, <2>1, <2>2, RecordSet
  <2> QED
    BY <1>5, <2>3 DEF Follows
<1>6. ASSUME NEW r \in Secrets, RemoveLocalSecret(r), fate' = [fate EXCEPT ![r] = "removed"]
      PROVE  Follows(s)
  <2>1. IF s = r THEN stored'[s] = NotStored ELSE stored'[s] = stored[s]
    BY <1>1, <1>6, RecordSet
  <2>2. fate'[r] = "removed"
    BY <1>1, <1>6
  <2> QED
    BY <2>1, <2>2 DEF Follows
<1>7. CASE ImportEnds
  <2>1. PICK news \in SUBSET {r \in Secrets : fate[r] = "new"} :
          \E code \in [news -> ImportedCodes] : stored' = Merged(news, code)
    BY <1>7 DEF ImportEnds
  <2>2. s \in news => stored'[s] # NotStored
    BY <2>1, CodeTypes DEF Merged, ImportedCodes
  <2>3. s \notin news => stored'[s] = importing[s]
    BY <2>1 DEF Merged
  <2>4. s \in news => fate[s] = "new"
    BY <2>1
  <2> QED
    BY <1>7, <2>2, <2>3, <2>4 DEF Follows
<1>8. \/ UNCHANGED stored
      \/ \E k \in calls :
           /\ k.kind = "create"
           /\ PersistLocalSecret(k.secret, k.code) \/ PersistLocalSecret(k.secret, Local)
      \/ \E k \in calls : Provisioned(k)
      \/ \E r \in Secrets : Toggle(r)
      \/ \E r \in Secrets : RemoveLocalSecret(r) /\ fate' = [fate EXCEPT ![r] = "removed"]
      \/ ImportEnds
  <2>1. CASE \E k \in calls : Created(k) \/ Refused(k) \/ GiveUp(k)
    BY <2>1 DEF Created, Refused, GiveUp, CallFails
  <2>2. CASE \E r \in Secrets : DeleteSecret(r) \/ ExpireSecret(r) \/ Burn(r) \/ RestoreNext(r)
    BY <2>2 DEF DeleteSecret, ExpireSecret, Remove, Burn, RestoreNext
  <2>3. CASE \/ \E k \in calls : Serve(k) \/ LoseRequest(k) \/ Restored(k)
             \/ \E seat \in leaves : LeaveArrives(seat) \/ LoseLeave(seat)
             \/ \E c \in Codes : GuestStep(c) \/ Reclaim(c)
             \/ \E r \in Secrets : CreateSecret(r) \/ Started(r) \/ RetryFires(r) \/ Left(r)
    BY <2>3 DEF Serve, LoseRequest, Restored, LeaveArrives, LoseLeave, GuestStep, GuestJoins,
       GuestFallsQuiet, GuestCalls, GuestLeaves,
                Reclaim, CreateSecret, Started, RetryFires, Left
  <2>4. CASE \/ Online \/ StreamOpens \/ StreamDrops \/ StreamRefused \/ ClosePage \/ OpenPage
             \/ RestoreEnds \/ ImportStarts
    BY <2>4 DEF Online, StreamOpens, StreamDrops, StreamRefused, ClosePage, OpenPage, RestoreEnds,
                ImportStarts
  <2>5. CASE UNCHANGED vars
    BY <2>5 DEF vars
  <2> QED
    BY <2>1, <2>2, <2>3, <2>4, <2>5 DEF GuestStep, Next, PageResumes
<1> QED
  BY <1>2, <1>3, <1>4, <1>5, <1>6, <1>7, <1>8

\* A record goes only with its secret, or with an import that read the list
\* before; and that of a removed secret comes back in three ways only.
THEOREM RecordsAreKept == Spec => RecordsFollowFate
<1>1. IInv /\ [Next]_vars => [\A s \in Secrets : Follows(s)]_vars
  BY StepFollows
<1> QED
  BY <1>1, Inductive, PTL DEF Spec, RecordsFollowFate, Follows

-----------------------------------------------------------------------------
(* Sessions have their records, and records the links that were shared, as   *)
(* long as nothing is imported                                               *)

NoImports == imports = 0 /\ importing = NoImport
PageLoaded == page # "closed" => loads >= 1

\* One record is restored at a time.
RestoresOne ==
  \A k \in calls : k.kind = "restore" =>
    /\ k.secret \in toRestore
    /\ \A j \in calls : j.kind = "restore" => j = k

\* The request that restores s asks for its link, or for one instead of a local.
RestoresLink(s) ==
  \A k \in calls : k.secret = s /\ k.kind = "restore" => k.code = stored[s] \/ stored[s] = Local

Recorded(s) ==
  /\ stored[s] # NotStored => loads >= 1
  /\ s \in toRestore => loads > 1
  /\ fate[s] # "removed" =>
       /\ sess[s].listed => stored[s] # NotStored
       /\ Live(s) => stored[s] = sess[s].code \/ (stored[s] = Local /\ loads > 1)
       /\ RestoresLink(s)

RInv == NoImports /\ PageLoaded /\ RestoresOne /\ \A s \in Secrets : Recorded(s)

\* A step that does nothing to the record of s, and at most unlists s or takes
\* it off the stream.
Untouched(s) ==
  /\ stored'[s] = stored[s] /\ loads' >= loads
  /\ fate'[s] # "removed" => fate[s] # "removed"
  /\ s \in toRestore' => s \in toRestore
  /\ sess'[s].listed => sess[s].listed
  /\ s \in OnStream(sess') => s \in OnStream(sess) /\ sess'[s].code = sess[s].code
  /\ \A k \in calls' : k.secret = s /\ k.kind = "restore" =>
       \E j \in calls : j.secret = s /\ j.kind = "restore" /\ (j.code = k.code \/ j.code = Local)

LEMMA UntouchedRecorded ==
  ASSUME IInv, NEW s \in Secrets, Recorded(s), Untouched(s), loads' \in Nat
  PROVE  Recorded(s)'
<1>1. loads \in Nat
  BY DEF IInv, Typed, TypeOK
<1>2. fate[s] # "removed" => RestoresLink(s)'
  BY <1>1 DEF Recorded, Untouched, RestoresLink
<1> QED
  BY <1>1, <1>2 DEF Recorded, Untouched, Live

\* A session that is changed keeps its place, or loses it.
Shrinks(x, y) ==
  /\ y.listed => x.listed
  /\ y.listed /\ ~y.deleted /\ y.state = "live" =>
       x.listed /\ ~x.deleted /\ x.state = "live" /\ y.code = x.code

LEMMA SessionsShrink ==
  ASSUME NEW x \in Session
  PROVE  /\ Shrinks(x, x) /\ Shrinks(x, Start(x)) /\ Shrinks(x, Retry(x, FALSE))
         /\ \A b \in BOOLEAN : Shrinks(x, Retry(x, b))
         /\ Shrinks(x, Unlist(x)) /\ Shrinks(x, Leave(x)) /\ Shrinks(x, Recover(x))
         /\ Shrinks(x, NoSession)
<1>1. /\ Start(x).listed = x.listed /\ Start(x).deleted = x.deleted
      /\ Start(x).state = x.state /\ Start(x).code = x.code
  BY Zenon DEF Start, Session
<1>2. ASSUME NEW b \in BOOLEAN
      PROVE  /\ Retry(x, b).listed = x.listed /\ Retry(x, b).deleted = x.deleted
             /\ Retry(x, b).state = x.state /\ Retry(x, b).code = x.code
  BY Zenon DEF Retry, Session
<1>3. ~Unlist(x).listed
  BY Zenon DEF Unlist, Session
<1>4. Leave(x).listed = x.listed /\ Leave(x).deleted
  BY Zenon DEF Leave, Session
<1>5. Recover(x).listed = x.listed /\ Recover(x).state = "provisional"
  BY Zenon DEF Recover, Session
<1> QED
  BY <1>1, <1>2, <1>3, <1>4, <1>5, NoSessionFields DEF Shrinks

LEMMA ShrinksOnStream ==
  ASSUME NEW s \in Secrets, Shrinks(sess[s], sess'[s])
  PROVE  /\ sess'[s].listed => sess[s].listed
         /\ s \in OnStream(sess') => s \in OnStream(sess) /\ sess'[s].code = sess[s].code
BY DEF Shrinks, OnStream

\* The sessions, in the steps that leave every record alone.
LEMMA OthersShrink ==
  ASSUME IInv, NEW s \in Secrets,
         \/ UNCHANGED sess
         \/ \E r \in Secrets : Started(r) \/ RetryFires(r) \/ Left(r)
         \/ StreamRefused \/ ClosePage
  PROVE  Shrinks(sess[s], sess'[s])
<1>1. sess \in [Secrets -> Session]
  BY DEF IInv, Typed, TypeOK
<1>2. CASE UNCHANGED sess
  BY <1>1, <1>2, SessionsShrink
<1>3. ASSUME NEW r \in Secrets, Started(r) \/ RetryFires(r) \/ Left(r)
      PROVE  Shrinks(sess[s], sess'[s])
  <2>1. \/ sess' = [sess EXCEPT ![r] = Start(sess[r])]
        \/ sess' = [sess EXCEPT ![r] = Retry(sess[r], FALSE)]
        \/ sess' = [sess EXCEPT ![r] = Unlist(sess[r])]
    BY <1>1, <1>3, Zenon DEF Started, RetryFires, Left, Unlisted, Start, Retry, Unlist
  <2> QED
    BY <1>1, <2>1, SessionsShrink
<1>4. CASE StreamRefused
  <2>1. PICK S \in SUBSET OnStream(sess) : sess' = Recovering(S)
    BY <1>4 DEF StreamRefused
  <2>2. sess'[s] = Recover(sess[s]) \/ sess'[s] = sess[s]
    BY <2>1, Zenon DEF Recovering, Recover
  <2> QED
    BY <1>1, <2>2, SessionsShrink
<1>5. CASE ClosePage
  BY <1>1, <1>5, SessionsShrink DEF ClosePage
<1> QED
  BY <1>2, <1>3, <1>4, <1>5

\* The steps that ask for rooms of provisional sessions ask for nothing else.
LEMMA OnlyProvisions ==
  ASSUME IInv, (\E r \in Secrets : RetryFires(r)) \/ Online \/ StreamRefused, NEW m \in calls'
  PROVE  m \in calls \/ m.kind = "provision"
<1>1. \E S \in SUBSET Secrets : calls' = Provisioning(S, sess', calls)
  <2>1. CASE \E r \in Secrets : RetryFires(r)
    <3>1. PICK r \in Secrets : RetryFires(r)
      BY <2>1
    <3>2. {r} \in SUBSET Secrets /\ calls' = Provisioning({r}, sess', calls)
      BY <3>1 DEF RetryFires
    <3> QED
      BY <3>2
  <2>2. CASE Online
    <3>1. {r \in Secrets : sess[r].listed} \in SUBSET Secrets
      OBVIOUS
    <3>2. sess' = sess /\ calls' = Provisioning({r \in Secrets : sess[r].listed}, sess', calls)
      BY <2>2 DEF Online
    <3> QED
      BY <3>1, <3>2
  <2>3. CASE StreamRefused
    <3>1. PICK S \in SUBSET OnStream(sess) : calls' = Provisioning(S, sess', calls)
      BY <2>3 DEF StreamRefused
    <3>2. S \in SUBSET Secrets
      BY DEF OnStream
    <3> QED
      BY <3>1, <3>2
  <2> QED
    BY <2>1, <2>2, <2>3
<1>2. PICK S \in SUBSET Secrets : calls' = Provisioning(S, sess', calls)
  BY <1>1
<1>3. ASSUME NEW n \in Provisioning(S, sess', calls)
      PROVE  n \in calls \/ n.kind = "provision"
  BY ProvisioningAdds
<1> QED
  BY <1>2, <1>3

\* A request that restores, for the same code or without one.
RestoredBefore(m) ==
  \E j \in calls : j.secret = m.secret /\ j.kind = "restore" /\ (j.code = m.code \/ j.code = Local)

\* The requests that restore, in the steps that begin and end none.
LEMMA OthersRestore ==
  ASSUME IInv, NEW m \in calls', m.kind = "restore",
         \/ calls' \subseteq calls
         \/ \E k \in calls : Serve(k)
         \/ \E r \in Secrets : CreateSecret(r) \/ RetryFires(r)
         \/ Online \/ StreamRefused \/ ClosePage
  PROVE  RestoredBefore(m)
<1> USE DEF RestoredBefore
<1>1. CASE calls' \subseteq calls
  BY <1>1
<1>2. ASSUME NEW k \in calls, Serve(k)
      PROVE  RestoredBefore(m)
  <2>1. PICK stage, c, p : Answer(k, stage, c, p) /\ (k.code = Local \/ k.code = c)
    BY <1>2 DEF Serve
  <2> DEFINE a == [k EXCEPT !.stage = stage, !.code = c, !.peer = p]
  <2>2. calls \subseteq Call
    BY DEF IInv, Typed, TypeOK
  <2>3. a.secret = k.secret /\ a.kind = k.kind /\ a.code = c
    BY <2>2, Zenon DEF Call
  <2>4. calls' \subseteq calls \cup {a}
    BY <2>1 DEF Answer
  <2> HIDE DEF a
  <2> QED
    BY <2>1, <2>3, <2>4
<1>3. CASE \E r \in Secrets : CreateSecret(r)
  <2>1. PICK r \in Secrets : calls' = calls \cup {Request(r, "create", Local, calls)}
    BY <1>3 DEF CreateSecret
  <2>2. Request(r, "create", Local, calls).kind = "create"
    BY RequestFields
  <2> HIDE DEF Request
  <2> QED
    BY <2>1, <2>2
<1>4. CASE (\E r \in Secrets : RetryFires(r)) \/ Online \/ StreamRefused
  BY <1>4, OnlyProvisions
<1>5. CASE ClosePage
  BY <1>5, AbandonedFields DEF ClosePage, IInv, Typed, TypeOK
<1> QED
  BY <1>1, <1>2, <1>3, <1>4, <1>5

LEMMA QuietRecorded ==
  ASSUME IInv, NEW s \in Secrets, Recorded(s),
         \/ \E k \in calls : Serve(k) \/ LoseRequest(k)
         \/ \E seat \in leaves : LeaveArrives(seat) \/ LoseLeave(seat)
         \/ \E c \in Codes : GuestStep(c) \/ Reclaim(c)
         \/ \E r \in Secrets : CreateSecret(r) \/ Started(r) \/ RetryFires(r) \/ Left(r)
         \/ Online \/ StreamOpens \/ StreamDrops \/ StreamRefused \/ ClosePage \/ RestoreEnds
  PROVE  Recorded(s)'
<1>1. /\ UNCHANGED <<stored, loads>> /\ toRestore' \subseteq toRestore
      /\ fate'[s] # "removed" => fate[s] # "removed"
  BY DEF IInv, Typed, TypeOK, Serve, LoseRequest, LeaveArrives, LoseLeave, GuestStep, GuestJoins,
         GuestFallsQuiet, GuestCalls, GuestLeaves,
         Reclaim, CreateSecret, Started, RetryFires, Left, Online, StreamOpens, StreamDrops,
         StreamRefused, ClosePage, RestoreEnds
<1>2. Shrinks(sess[s], sess'[s])
  BY OthersShrink
     DEF Serve, LoseRequest, LeaveArrives, LoseLeave, GuestStep, GuestJoins, GuestFallsQuiet,
         GuestCalls, GuestLeaves, Reclaim,
         CreateSecret, Online, StreamOpens, StreamDrops, RestoreEnds
<1>3. ASSUME NEW m \in calls', m.kind = "restore"
      PROVE  RestoredBefore(m)
  <2>1. \/ calls' \subseteq calls
        \/ \E k \in calls : Serve(k)
        \/ \E r \in Secrets : CreateSecret(r) \/ RetryFires(r)
        \/ Online \/ StreamRefused \/ ClosePage
    BY DEF LoseRequest, LeaveArrives, LoseLeave, GuestStep, GuestJoins, GuestFallsQuiet,
           GuestCalls, GuestLeaves, Reclaim, Started, Left,
           StreamOpens, StreamDrops, RestoreEnds
  <2> QED
    BY <1>3, <2>1, OthersRestore
<1>4. loads' \in Nat /\ loads' >= loads
  BY <1>1 DEF IInv, Typed, TypeOK
<1>5. Untouched(s)
  BY <1>1, <1>2, <1>3, <1>4, ShrinksOnStream DEF Untouched, RestoredBefore
<1> QED
  BY <1>4, <1>5, UntouchedRecorded

\* A page that acts was loaded, and a secret with a session is not to be restored.
LEMMA Acting ==
  ASSUME IInv, RInv
  PROVE  /\ \A k \in calls : k.kind # "abandoned" => loads >= 1 /\ page # "closed"
         /\ \A s \in Secrets : sess[s] # NoSession =>
              /\ loads >= 1 /\ page # "closed" /\ s \notin toRestore
              /\ \A k \in calls : k.secret = s => k.kind # "restore"
         /\ \A k \in calls : k.kind \in {"create", "provision"} =>
              /\ k.secret \notin toRestore
              /\ \A j \in calls : j.secret = k.secret => j.kind # "restore"
<1>1. ASSUME NEW k \in calls, k.kind # "abandoned"
      PROVE  loads >= 1 /\ page # "closed"
  BY <1>1 DEF IInv, Whereabouts, ClosedIsEmpty, RInv, PageLoaded
<1>2. ASSUME NEW s \in Secrets, s \notin toRestore
      PROVE  \A k \in calls : k.secret = s => k.kind # "restore"
  BY <1>2 DEF RInv, RestoresOne
<1>3. ASSUME NEW s \in Secrets, sess[s] # NoSession
      PROVE  loads >= 1 /\ page # "closed" /\ s \notin toRestore
  BY <1>3, SessionIsBorn DEF RInv, PageLoaded
<1>4. ASSUME NEW k \in calls, k.kind \in {"create", "provision"}
      PROVE  k.secret \in Secrets /\ k.secret \notin toRestore
  <2>1. k.secret \in Secrets
    <3>1. calls \subseteq Call
      BY DEF IInv, Typed, TypeOK
    <3> QED
      BY <3>1 DEF Call
  <2>2. CASE k.kind = "create"
    BY <2>1, <2>2 DEF IInv, Whereabouts, UnbornIsNowhere, Unborn, Creating
  <2>3. CASE k.kind = "provision"
    BY <2>1, <2>3 DEF IInv, Whereabouts, ToRestoreIsStored
  <2> QED
    BY <1>4, <2>1, <2>2, <2>3
<1> QED
  BY <1>1, <1>2, <1>3, <1>4

\* What does not concern s leaves it recorded.
LEMMA ElsewhereRecorded ==
  ASSUME IInv, NEW s \in Secrets, Recorded(s),
         sess'[s] = sess[s], stored'[s] = stored[s], fate'[s] = fate[s], UNCHANGED loads,
         toRestore' \subseteq toRestore,
         \A m \in calls' : m.kind = "restore" => m \in calls
  PROVE  Recorded(s)'
<1>1. loads' \in Nat /\ loads' >= loads
  BY DEF IInv, Typed, TypeOK
<1>2. Untouched(s)
  BY <1>1 DEF Untouched, OnStream
<1> QED
  BY <1>1, <1>2, UntouchedRecorded

LEMMA BornRecorded ==
  ASSUME IInv, RInv, NEW k \in calls, Created(k) \/ Restored(k) \/ Provisioned(k), NEW s \in Secrets
  PROVE  Recorded(s)'
<1>1. /\ calls' = calls \ {k} /\ toRestore' \subseteq toRestore /\ UNCHANGED <<fate, loads>>
      /\ k.secret \in Secrets /\ k.code \in Code /\ k.kind \in {"create", "restore", "provision"}
  BY DEF Created, Restored, Provisioned, IInv, Typed, TypeOK, Call
<1>2. loads >= 1 /\ loads \in Nat /\ Recorded(s) /\ s \in DOMAIN sess
  BY <1>1, Acting DEF RInv, IInv, Typed, TypeOK
<1>3. CASE s # k.secret
  <2>1. sess'[s] = sess[s] /\ stored'[s] = stored[s]
    BY <1>1, <1>3
       DEF Created, Restored, Provisioned, Attached, PersistLocalSecret,
           IInv, Typed, TypeOK, Records
  <2> QED
    BY <1>1, <1>2, <2>1, ElsewhereRecorded
<1>4. ASSUME s = k.secret, sess'[s].code = k.code
      PROVE  Recorded(s)'
  <2>1. CASE Created(k) \/ Provisioned(k)
    <3>1. /\ stored'[s] = k.code /\ s \notin toRestore
          /\ \A j \in calls : j.secret = s => j.kind # "restore"
      BY <1>1, <1>4, <2>1, Acting
         DEF Created, Provisioned, PersistLocalSecret, IInv, Typed, TypeOK, Records
    <3> QED
      BY <1>1, <1>2, <1>4, <3>1, CodeTypes DEF Recorded, RestoresLink, Live
  <2>2. CASE Restored(k)
    <3>1. s \in toRestore /\ k.kind = "restore" /\ UNCHANGED stored /\ stored[s] # NotStored
      BY <1>4, <2>2 DEF Restored, RInv, RestoresOne, IInv, Whereabouts, ToRestoreIsStored
    <3>2. s \notin toRestore' /\ \A j \in calls' : j.kind # "restore"
      BY <1>4, <2>2, <3>1 DEF Restored, RInv, RestoresOne
    <3>3. fate[s] # "removed" => k.code = stored[s] \/ stored[s] = Local
      BY <1>2, <1>4, <3>1 DEF Recorded, RestoresLink
    <3> QED
      BY <1>1, <1>2, <1>4, <3>1, <3>2, <3>3 DEF Recorded, RestoresLink, Live
  <2> QED
    BY <2>1, <2>2
<1>5. sess'[k.secret].code = k.code
  <2>1. CASE Created(k) \/ Restored(k)
    BY <1>1, <2>1 DEF Created, Restored, NewSession, IInv, Typed, TypeOK
  <2>2. CASE Provisioned(k)
    <3> DEFINE x == sess[k.secret]
    <3>1. x \in Session /\ k.peer \in Peers /\ sess \in [Secrets -> Session]
      BY <1>1, <2>2 DEF IInv, Typed, TypeOK, SeatsAreReal, HasSeat, Provisioned
    <3>2. Attach(x, k.code, k.peer) \in Session /\ Attach(x, k.code, k.peer).code = k.code
      BY <1>1, <3>1, Zenon DEF Attach, Session
    <3>3. \A y \in Session : Publish(y) \in Session /\ Publish(y).code = y.code
      BY Zenon DEF Publish, Session
    <3>4. Attached(k) = [sess EXCEPT ![k.secret] = Attach(x, k.code, k.peer)]
      BY <1>1, <3>1, Zenon DEF Attached, Attach
    <3>5. Attached(k) \in [Secrets -> Session] /\ Attached(k)[k.secret] = Attach(x, k.code, k.peer)
      BY <1>1, <3>1, <3>2, <3>4
    <3>6. sess' = [Attached(k) EXCEPT ![k.secret] = Publish(Attached(k)[k.secret])]
      BY <1>1, <2>2, <3>5, Zenon DEF Provisioned, Publish
    <3> QED
      BY <1>1, <3>2, <3>3, <3>5, <3>6
  <2> QED
    BY <2>1, <2>2
<1> QED
  BY <1>3, <1>4, <1>5

\* A request that fails is over, and no other begins to restore.
LEMMA FailedRestores ==
  ASSUME IInv, NEW k \in calls, Refused(k) \/ GiveUp(k)
  PROVE  /\ \E others : CallFails(k, others)
         /\ \A m \in calls' : m.kind = "restore" => m \in calls \ {k}
<1>1. PICK others : /\ CallFails(k, others)
                    /\ \A m \in others : m.kind = "restore" => m \in calls \ {k}
  <2>1. CASE Refused(k)
    BY <2>1 DEF Refused
  <2>2. CASE GiveUp(k)
    <3>1. CallFails(k, (calls \ {k}) \cup Abandoned({k})) /\ {k} \in SUBSET Call
      BY <2>2 DEF GiveUp, IInv, Typed, TypeOK
    <3>2. \A m \in Abandoned({k}) : m.kind # "restore"
      BY <3>1, AbandonedFields
    <3> QED
      BY <3>1, <3>2
  <2> QED
    BY <2>1, <2>2
<1>2. calls' = Provisioning({k.secret}, sess', others) \/ calls' = others
  BY <1>1 DEF CallFails
<1>3. \A n \in Provisioning({k.secret}, sess', others) : n \in others \/ n.kind = "provision"
  BY ProvisioningAdds
<1> QED
  BY <1>1, <1>2, <1>3

LEMMA FailedRecorded ==
  ASSUME IInv, RInv, NEW k \in calls, Refused(k) \/ GiveUp(k), NEW s \in Secrets
  PROVE  Recorded(s)'
<1>1. PICK others : CallFails(k, others)
  BY FailedRestores
<1>2. /\ UNCHANGED <<fate, loads>> /\ toRestore' \subseteq toRestore
      /\ k.secret \in Secrets /\ k.code \in Code /\ k.kind \in {"create", "restore", "provision"}
      /\ sess \in [Secrets -> Session]
  BY <1>1 DEF Refused, GiveUp, CallFails, feed, IInv, Typed, TypeOK, Call
<1>3. \A m \in calls' : m.kind = "restore" => m \in calls \ {k}
  BY FailedRestores
<1>4. loads >= 1 /\ loads \in Nat /\ Recorded(s)
  BY <1>2, Acting DEF RInv, IInv, Typed, TypeOK
<1>5. CASE s # k.secret
  <2>1. sess'[s] = sess[s] /\ stored'[s] = stored[s]
    BY <1>1, <1>2, <1>5
       DEF CallFails, RetryLater, PersistLocalSecret, IInv, Typed, TypeOK, Records
  <2> QED
    BY <1>2, <1>3, <1>4, <2>1, ElsewhereRecorded
<1>6. CASE s = k.secret /\ k.kind \in {"create", "restore"}
  <2>1. PICK c : sess'[s] = NewSession("provisional", c, NoPeer)
    BY <1>1, <1>2, <1>6 DEF CallFails
  <2>2. s \notin OnStream(sess')
    BY <2>1 DEF OnStream, NewSession
  <2>3. stored'[s] # NotStored
    BY <1>1, <1>2, <1>6, CodeTypes
       DEF CallFails, PersistLocalSecret, RInv, RestoresOne, IInv, Typed, TypeOK, Records,
           Whereabouts, ToRestoreIsStored
  <2>4. s \notin toRestore' /\ \A m \in calls' : m.secret = s => m.kind # "restore"
    BY <1>1, <1>2, <1>3, <1>6, Acting DEF CallFails, RInv, RestoresOne
  <2> QED
    BY <1>2, <1>4, <2>2, <2>3, <2>4 DEF Recorded, RestoresLink, Live
<1>7. CASE s = k.secret /\ k.kind = "provision"
  <2> DEFINE b == sess[s].retry \/ s \in Wanting({s}, sess)
  <2>1. sess' = [sess EXCEPT ![s] = Retry(sess[s], b)]
    BY <1>1, <1>2, <1>7, Zenon DEF CallFails, RetryLater, Retry
  <2>2. b \in BOOLEAN
    BY <1>2 DEF Session
  <2> HIDE DEF b
  <2>3. Shrinks(sess[s], sess'[s])
    BY <1>2, <2>1, <2>2, SessionsShrink
  <2>4. Untouched(s)
    BY <1>1, <1>2, <1>3, <1>4, <1>7, <2>3, ShrinksOnStream DEF Untouched, CallFails
  <2> QED
    BY <1>2, <1>4, <2>4, UntouchedRecorded
<1> QED
  BY <1>2, <1>5, <1>6, <1>7

\* Nothing else is asked of a secret that was removed on a page that was loaded.
LEMMA RemovedRecorded ==
  ASSUME NEW s \in Secrets, fate'[s] = "removed", loads' >= 1, s \notin toRestore'
  PROVE  Recorded(s)'
BY DEF Recorded

LEMMA ChangedRecorded ==
  ASSUME IInv, RInv, NEW r \in Secrets, NEW s \in Secrets,
         Toggle(r) \/ (sess[r].listed /\ Remove(r)) \/ Burn(r)
  PROVE  Recorded(s)'
<1>1. sess[r] # NoSession /\ sess \in [Secrets -> Session]
  BY NoSessionFields DEF Toggle, Shown, Burn, Live, OnStream, IInv, Typed, TypeOK
<1>2. /\ UNCHANGED <<toRestore, calls, loads>> /\ loads >= 1 /\ r \notin toRestore
      /\ Recorded(s) /\ loads \in Nat
      /\ \A k \in calls : k.secret = r => k.kind # "restore"
  BY <1>1, Acting DEF Toggle, Remove, Burn, RInv, IInv, Typed, TypeOK
<1>3. CASE s # r
  <2>1. sess'[s] = sess[s] /\ stored'[s] = stored[s] /\ fate'[s] = fate[s]
    BY <1>1, <1>3 DEF Toggle, Remove, LeaveSession, Unlisted, Burn, PersistLocalSecret,
                      RemoveLocalSecret, IInv, Typed, TypeOK, Records
  <2> QED
    BY <1>2, <2>1, ElsewhereRecorded
<1>4. CASE s = r /\ Toggle(r)
  <2>1. stored'[r] = sess[r].code /\ sess[r].code \in Code /\ UNCHANGED sess
    BY <1>1, <1>4 DEF Toggle, PersistLocalSecret, IInv, Typed, TypeOK, Records, Session
  <2> QED
    BY <1>2, <1>4, <2>1, CodeTypes DEF Recorded, RestoresLink, Live
<1>5. CASE s = r /\ ~Toggle(r)
  <2>1. fate'[r] = "removed"
    BY <1>5 DEF Remove, Burn, IInv, Typed, TypeOK
  <2> QED
    BY <1>2, <1>5, <2>1, RemovedRecorded
<1> QED
  BY <1>3, <1>4, <1>5

LEMMA RestoreNextRecorded ==
  ASSUME IInv, RInv, NEW r \in Secrets, RestoreNext(r), NEW s \in Secrets
  PROVE  Recorded(s)'
<1>1. UNCHANGED <<sess, loads>> /\ loads \in Nat /\ Recorded(s) /\ r \in toRestore /\ loads >= 1
  BY DEF RestoreNext, RInv, PageLoaded, IInv, Typed, TypeOK, Whereabouts, ClosedIsEmpty
<1>2. CASE /\ toRestore' = toRestore \ {r} /\ fate' = [fate EXCEPT ![r] = "removed"]
           /\ RemoveLocalSecret(r) /\ UNCHANGED calls
  <2>1. CASE s # r
    BY <1>1, <1>2, <2>1, ElsewhereRecorded DEF RemoveLocalSecret, IInv, Typed, TypeOK, Records
  <2>2. CASE s = r
    <3>1. fate'[s] = "removed" /\ s \notin toRestore'
      BY <1>2, <2>2 DEF IInv, Typed, TypeOK
    <3> QED
      BY <1>1, <3>1, RemovedRecorded
  <2> QED
    BY <2>1, <2>2
<1>3. CASE /\ calls' = calls \cup {Request(r, "restore", stored[r], calls)}
           /\ UNCHANGED <<toRestore, fate, stored>>
  <2> DEFINE q == Request(r, "restore", stored[r], calls)
  <2>1. q.secret = r /\ q.code = stored[r]
    BY DEF Request
  <2>2. calls' = calls \cup {q}
    BY <1>3
  <2> HIDE DEF q
  <2> QED
    BY <1>1, <1>3, <2>1, <2>2 DEF Recorded, RestoresLink, Live
<1> QED
  BY <1>2, <1>3 DEF RestoreNext

LEMMA OpenPageRecorded ==
  ASSUME IInv, RInv, OpenPage, NEW s \in Secrets
  PROVE  Recorded(s)'
<1>1. /\ UNCHANGED <<fate, sess, stored, calls>> /\ loads' = loads + 1 /\ loads \in Nat
      /\ toRestore' = {r \in Secrets : stored[r] # NotStored}
      /\ sess[s] = NoSession /\ Recorded(s)
      /\ \A k \in calls : k.kind = "abandoned"
  BY DEF OpenPage, RInv, IInv, Typed, TypeOK, Whereabouts, ClosedIsEmpty
<1>2. ~sess'[s].listed /\ ~Live(s)'
  BY <1>1, NoSessionFields DEF Live, OnStream
<1> QED
  BY <1>1, <1>2 DEF Recorded, RestoresLink

LEMMA StepRestoresOne ==
  ASSUME IInv, RestoresOne, [Next]_vars
  PROVE  RestoresOne'
<1>1. CASE UNCHANGED toRestore /\ \A m \in calls' : m.kind = "restore" => m \in calls
  BY <1>1 DEF RestoresOne
<1>2. ASSUME NEW k \in calls, Serve(k)
      PROVE  RestoresOne'
  <2>1. PICK stage, c, p : Answer(k, stage, c, p)
    BY <1>2 DEF Serve
  <2> DEFINE a == [k EXCEPT !.stage = stage, !.code = c, !.peer = p]
  <2>2. calls \subseteq Call
    BY DEF IInv, Typed, TypeOK
  <2>3. a.secret = k.secret /\ a.kind = k.kind
    BY <2>2, Zenon DEF Call
  <2>4. calls' \subseteq (calls \ {k}) \cup {a} /\ UNCHANGED toRestore
    BY <1>2, <2>1 DEF Serve, Answer
  <2> HIDE DEF a
  <2> QED
    BY <2>3, <2>4 DEF RestoresOne
<1>3. ASSUME NEW k \in calls, Created(k) \/ Restored(k) \/ Provisioned(k)
      PROVE  RestoresOne'
  BY <1>3 DEF Created, Restored, Provisioned, RestoresOne
<1>4. ASSUME NEW k \in calls, Refused(k) \/ GiveUp(k)
      PROVE  RestoresOne'
  <2>1. PICK others : CallFails(k, others)
    BY <1>4, FailedRestores
  <2>2. \A m \in calls' : m.kind = "restore" => m \in calls \ {k}
    BY <1>4, FailedRestores
  <2>3. UNCHANGED toRestore \/ (k.kind = "restore" /\ toRestore' = toRestore \ {k.secret})
    BY <2>1 DEF CallFails
  <2> QED
    BY <2>2, <2>3 DEF RestoresOne
<1>5. ASSUME NEW r \in Secrets, RestoreNext(r)
      PROVE  RestoresOne'
  <2>1. r \in toRestore /\ \A k \in calls : k.kind # "restore"
    BY <1>5 DEF RestoreNext, Restoring
  <2>2. CASE UNCHANGED calls
    BY <2>1, <2>2 DEF RestoresOne
  <2>3. CASE calls' = calls \cup {Request(r, "restore", stored[r], calls)} /\ UNCHANGED toRestore
    <3> DEFINE q == Request(r, "restore", stored[r], calls)
    <3>1. q.secret = r /\ calls' = calls \cup {q}
      BY <2>3, RequestFields
    <3> HIDE DEF q
    <3> QED
      BY <2>1, <2>3, <3>1 DEF RestoresOne
  <2> QED
    BY <1>5, <2>2, <2>3 DEF RestoreNext
<1>6. CASE ClosePage \/ OpenPage
  <2>1. \A k \in calls' : k.kind # "restore"
    BY <1>6, AbandonedFields
       DEF ClosePage, OpenPage, IInv, Typed, TypeOK, Whereabouts, ClosedIsEmpty
  <2> QED
    BY <2>1 DEF RestoresOne
<1>7. CASE \/ \E r \in Secrets : CreateSecret(r) \/ RetryFires(r)
           \/ Online \/ StreamRefused
  <2>1. UNCHANGED toRestore
    BY <1>7 DEF CreateSecret, RetryFires, Online, StreamRefused
  <2>2. ASSUME NEW m \in calls', m.kind = "restore"
        PROVE  m \in calls
    <3>1. CASE \E r \in Secrets : CreateSecret(r)
      BY <2>2, <3>1, RequestFields DEF CreateSecret
    <3>2. CASE (\E r \in Secrets : RetryFires(r)) \/ Online \/ StreamRefused
      BY <2>2, <3>2, OnlyProvisions
    <3> QED
      BY <1>7, <3>1, <3>2
  <2> QED
    BY <1>1, <2>1, <2>2
<1>8. CASE \/ \E k \in calls : LoseRequest(k)
           \/ \E seat \in leaves : LeaveArrives(seat) \/ LoseLeave(seat)
           \/ \E c \in Codes : GuestStep(c) \/ Reclaim(c)
           \/ \E r \in Secrets : Started(r) \/ Left(r) \/ Toggle(r) \/ Burn(r)
           \/ \E r \in Secrets : DeleteSecret(r) \/ ExpireSecret(r)
           \/ StreamOpens \/ StreamDrops \/ RestoreEnds \/ ImportStarts \/ ImportEnds
           \/ UNCHANGED vars
  BY <1>1, <1>8
     DEF LoseRequest, LeaveArrives, LoseLeave, GuestStep, GuestJoins, GuestFallsQuiet,
         GuestCalls, GuestLeaves, Reclaim, Started, Left,
         Toggle, Burn, DeleteSecret, ExpireSecret, Remove, StreamOpens, StreamDrops, RestoreEnds,
         ImportStarts, ImportEnds, vars
<1> QED
  BY <1>2, <1>3, <1>4, <1>5, <1>6, <1>7, <1>8 DEF GuestStep, Next, PageResumes

LEMMA StepRInv ==
  ASSUME MaxImports = 0, IInv, RInv, [Next]_vars
  PROVE  RInv'
<1>1. ~ImportStarts /\ ~ImportEnds
  BY DEF ImportStarts, ImportEnds, RInv, NoImports
<1>2. NoImports'
  BY <1>1 DEF NoImports, RInv, Next, PageResumes, feed, vars, Serve, LoseRequest, Created, Restored,
     Provisioned, Refused, GiveUp, LeaveArrives, LoseLeave, GuestStep, GuestJoins,
     GuestFallsQuiet, GuestCalls, GuestLeaves, Reclaim,
     CreateSecret, Started, RetryFires, Toggle, DeleteSecret, ExpireSecret, Remove, Left, Burn,
     RestoreNext, Online, StreamOpens, StreamDrops, StreamRefused, ClosePage, OpenPage, RestoreEnds
<1>3. PageLoaded'
  <2>1. CASE UNCHANGED <<page, loads>>
    BY <2>1 DEF RInv, PageLoaded
  <2>2. CASE ClosePage \/ OpenPage \/ RestoreEnds
    BY <2>2 DEF RInv, PageLoaded, ClosePage, OpenPage, RestoreEnds, IInv, Typed, TypeOK
  <2> QED
    BY <1>1, <2>1, <2>2 DEF Next, PageResumes, vars, Serve, LoseRequest, Created, Restored,
       Provisioned, Refused, GiveUp, LeaveArrives, LoseLeave, GuestStep, GuestJoins,
       GuestFallsQuiet, GuestCalls, GuestLeaves, Reclaim,
       CreateSecret, Started, RetryFires, Toggle, DeleteSecret, ExpireSecret, Remove, Left, Burn,
       RestoreNext, Online, StreamOpens, StreamDrops, StreamRefused
<1>4. ASSUME NEW s \in Secrets
      PROVE  Recorded(s)'
  <2>1. Recorded(s)
    BY DEF RInv
  <2>2. CASE \/ \E k \in calls : Serve(k) \/ LoseRequest(k)
             \/ \E seat \in leaves : LeaveArrives(seat) \/ LoseLeave(seat)
             \/ \E c \in Codes : GuestStep(c) \/ Reclaim(c)
             \/ \E r \in Secrets : CreateSecret(r) \/ Started(r) \/ RetryFires(r) \/ Left(r)
             \/ Online \/ StreamOpens \/ StreamDrops \/ StreamRefused \/ ClosePage \/ RestoreEnds
    BY <2>1, <2>2, QuietRecorded
  <2>3. CASE \E k \in calls : Created(k) \/ Restored(k) \/ Provisioned(k)
    BY <2>3, BornRecorded
  <2>4. CASE \E k \in calls : Refused(k) \/ GiveUp(k)
    BY <2>4, FailedRecorded
  <2>5. CASE \E r \in Secrets : Toggle(r) \/ DeleteSecret(r) \/ ExpireSecret(r) \/ Burn(r)
    BY <2>5, ChangedRecorded DEF DeleteSecret, ExpireSecret, Shown
  <2>6. CASE \E r \in Secrets : RestoreNext(r)
    BY <2>6, RestoreNextRecorded
  <2>7. CASE OpenPage
    BY <2>7, OpenPageRecorded
  <2>8. CASE UNCHANGED vars
    BY <2>1, <2>8 DEF vars, Recorded, RestoresLink, Live
  <2> QED
    BY <1>1, <2>2, <2>3, <2>4, <2>5, <2>6, <2>7, <2>8 DEF GuestStep, Next, PageResumes
<1> QED
  BY <1>2, <1>3, <1>4, StepRestoresOne DEF RInv

LEMMA AlwaysRecorded == MaxImports = 0 /\ Spec => []RInv
<1> SUFFICES ASSUME MaxImports = 0 PROVE Spec => []RInv
  OBVIOUS
<1>1. Init => RInv
  BY NoSessionFields
     DEF Init, RInv, NoImports, PageLoaded, RestoresOne, Recorded, RestoresLink, Live, OnStream
<1>2. IInv /\ RInv /\ [Next]_vars => RInv'
  BY StepRInv
<1> QED
  BY <1>1, <1>2, Inductive, PTL DEF Spec

\* Without imports, a reload does not lose what the page shows.
THEOREM StoredWithoutImports == MaxImports = 0 /\ Spec => []SessionsAreStored
<1>1. RInv => SessionsAreStored
  BY DEF RInv, Recorded, SessionsAreStored
<1> QED
  BY <1>1, AlwaysRecorded, PTL

\* Without imports, the link a recipient was given is the one that is stored, unless
\* the record still has the local code of a secret that was restored before it was
\* ever published.
THEOREM LinkStoredWithoutImports == MaxImports = 0 /\ Spec => []SharedLinkIsStored
<1>1. RInv => SharedLinkIsStored
  BY DEF RInv, Recorded, SharedLinkIsStored
<1> QED
  BY <1>1, AlwaysRecorded, PTL

-----------------------------------------------------------------------------
(* No secret is lost *)

\* The request that creates s stays until the page is closed, or the answer or
\* the time-out has s stored.
LEMMA CreatingEnds ==
  ASSUME IInv, RInv, [Next]_vars, ~ImportStarts, ~ImportEnds,
         NEW s \in Secrets, Creating(s), ~Creating(s)', stored'[s] = NotStored
  PROVE  ClosePage
<1>1. PICK k \in calls : k.secret = s /\ k.kind = "create"
  BY DEF Creating
<1>2. k \notin calls' /\ stored \in Records /\ calls \subseteq Call
  BY <1>1 DEF Creating, IInv, Typed, TypeOK
<1>3. ASSUME NEW j \in calls, Serve(j)
      PROVE  FALSE
  <2>1. PICK stage, c, p : Answer(j, stage, c, p)
    BY <1>3 DEF Serve
  <2> DEFINE a == [j EXCEPT !.stage = stage, !.code = c, !.peer = p]
  <2>2. a.secret = j.secret /\ a.kind = j.kind
    BY <1>2, Zenon DEF Call
  <2>3. j = k /\ (k.kind # "abandoned" => a \in calls')
    BY <1>2, <2>1 DEF Answer
  <2> HIDE DEF a
  <2> QED
    BY <1>1, <2>2, <2>3 DEF Creating
<1>4. ASSUME NEW j \in calls, LoseRequest(j)
      PROVE  FALSE
  BY <1>1, <1>2, <1>4 DEF LoseRequest
<1>5. ASSUME NEW j \in calls, Created(j) \/ Restored(j) \/ Provisioned(j)
      PROVE  FALSE
  <2>1. j = k /\ Created(k)
    BY <1>1, <1>2, <1>5 DEF Created, Restored, Provisioned
  <2> QED
    BY <1>1, <1>2, <2>1, CodeTypes DEF Created, PersistLocalSecret, Call, Records
<1>6. ASSUME NEW j \in calls, Refused(j) \/ GiveUp(j)
      PROVE  FALSE
  <2>1. PICK others : CallFails(j, others) /\ calls \ {j} \subseteq others
    BY <1>6 DEF Refused, GiveUp
  <2>2. others \subseteq calls'
    BY <2>1 DEF CallFails, Provisioning
  <2>3. j = k
    BY <1>2, <2>1, <2>2
  <2> QED
    BY <1>1, <1>2, <2>1, <2>3, CodeTypes DEF CallFails, PersistLocalSecret, Call, Records
<1>7. ASSUME calls \subseteq calls'
      PROVE  FALSE
  BY <1>2, <1>7
<1>8. ASSUME \/ \E r \in Secrets : CreateSecret(r) \/ RetryFires(r) \/ RestoreNext(r)
             \/ Online \/ StreamRefused
      PROVE  calls \subseteq calls'
  BY <1>8 DEF CreateSecret, RetryFires, RestoreNext, Online, StreamRefused, Provisioning
<1> QED
  BY <1>3, <1>4, <1>5, <1>6, <1>7, <1>8
     DEF Next, PageResumes, vars, LeaveArrives, LoseLeave, GuestStep, GuestJoins,
         GuestFallsQuiet, GuestCalls, GuestLeaves, Reclaim,
         Started, Toggle, DeleteSecret, ExpireSecret, Remove, Left, Burn, StreamOpens, StreamDrops,
         OpenPage, RestoreEnds

\* What is created is being created.
LEMMA CreatedNow ==
  ASSUME IInv, [Next]_vars, ~ImportStarts, ~ImportEnds,
         NEW s \in Secrets, fate[s] # "created", fate'[s] = "created"
  PROVE  Creating(s)'
<1>1. fate \in [Secrets -> {"new", "created", "removed"}]
  BY DEF IInv, Typed, TypeOK
<1>2. ASSUME NEW r \in Secrets, CreateSecret(r)
      PROVE  Creating(s)'
  <2>1. r = s
    BY <1>1, <1>2 DEF CreateSecret
  <2>2. Request(r, "create", Local, calls) \in calls'
    BY <1>2 DEF CreateSecret
  <2> QED
    BY <2>1, <2>2, RequestFields DEF Creating
<1>3. ASSUME NEW r \in Secrets, Remove(r) \/ Burn(r) \/ RestoreNext(r)
      PROVE  FALSE
  BY <1>1, <1>3 DEF Remove, Burn, RestoreNext
<1> QED
  BY <1>2, <1>3
     DEF Next, PageResumes, vars, Serve, LoseRequest, Created, Restored, Provisioned, Refused,
         GiveUp, LeaveArrives, LoseLeave, GuestStep, GuestJoins, GuestFallsQuiet, GuestCalls,
         GuestLeaves, Reclaim, Started, RetryFires,
         Toggle, DeleteSecret, ExpireSecret, Left, Online, StreamOpens, StreamDrops,
         StreamRefused, ClosePage, OpenPage, RestoreEnds

LEMMA StepLoses ==
  ASSUME MaxImports = 0, IInv, RInv, [Next]_vars, NEW s \in Secrets, ~Lost(s), Lost(s)'
  PROVE  ClosePage /\ Creating(s)
<1>1. ~ImportStarts /\ ~ImportEnds
  BY DEF ImportStarts, ImportEnds, RInv, NoImports
<1>2. fate'[s] = "created" /\ stored'[s] = NotStored /\ ~Creating(s)'
  BY DEF Lost
<1>3. fate[s] = "created"
  BY <1>1, <1>2, CreatedNow
<1>4. stored[s] = NotStored
  BY <1>1, <1>2, StepFollows DEF Follows
<1>5. ~sess[s].listed
  BY <1>3, <1>4 DEF RInv, Recorded
<1>6. Creating(s)
  BY <1>3, <1>4, <1>5 DEF Lost
<1> QED
  BY <1>1, <1>2, <1>6, CreatingEnds

\* Without imports, a secret that was created is lost only with a page that is
\* closed while its first request is under way.
THEOREM SecretsAreNotLost == MaxImports = 0 /\ Spec => LostOnlyBy
<1> SUFFICES ASSUME MaxImports = 0 PROVE Spec => LostOnlyBy
  OBVIOUS
<1>1. IInv /\ RInv /\ [Next]_vars =>
        [\A s \in Secrets : ~Lost(s) /\ Lost(s)' => (ClosePage /\ Creating(s)) \/ imports > 0]_vars
  BY StepLoses
<1> QED
  BY <1>1, AlwaysRecorded, Inductive, PTL DEF Spec, LostOnlyBy

-----------------------------------------------------------------------------
(* The stream the page has is for the sessions it has *)

\* What a handler leaves of a session's seat, and of its being on the stream.
LEMMA SeatsKept ==
  ASSUME NEW x \in Session
  PROVE  /\ \A b \in BOOLEAN : LET y == Retry(x, b) IN
              /\ y.code = x.code /\ y.peer = x.peer /\ y.listed = x.listed /\ y.deleted = x.deleted
              /\ y.state = x.state /\ y.starting = x.starting /\ y.leaving = x.leaving
         /\ LET y == Start(x) IN
              /\ y.code = x.code /\ y.peer = x.peer /\ y.listed = x.listed /\ y.deleted = x.deleted
              /\ y.state = x.state
         /\ Leave(x).code = x.code /\ Leave(x).peer = x.peer
         /\ Leave(x).leaving /\ Leave(x).deleted
         /\ Recover(x).peer = x.peer /\ Recover(x).state = "provisional"
         /\ Unlist(x).peer = NoPeer /\ ~Unlist(x).listed
<1>1. ASSUME NEW b \in BOOLEAN
      PROVE  LET y == Retry(x, b) IN
              /\ y.code = x.code /\ y.peer = x.peer /\ y.listed = x.listed /\ y.deleted = x.deleted
              /\ y.state = x.state /\ y.starting = x.starting /\ y.leaving = x.leaving
  BY Zenon DEF Retry, Session
<1>2. LET y == Start(x) IN
        /\ y.code = x.code /\ y.peer = x.peer /\ y.listed = x.listed /\ y.deleted = x.deleted
        /\ y.state = x.state
  BY Zenon DEF Start, Session
<1>3. /\ Leave(x).code = x.code /\ Leave(x).peer = x.peer
      /\ Leave(x).leaving /\ Leave(x).deleted
  BY Zenon DEF Leave, Session
<1>4. Recover(x).peer = x.peer /\ Recover(x).state = "provisional"
  BY Zenon DEF Recover, Session
<1>5. Unlist(x).peer = NoPeer /\ ~Unlist(x).listed
  BY Zenon DEF Unlist, Session
<1> QED
  BY <1>1, <1>2, <1>3, <1>4, <1>5

\* Records are restored while the stream is suspended.
RestoresOnPage == toRestore # {} => page = "restoring"

StreamInv == RestoresOne /\ RestoresOnPage /\ StreamFollowsSessions

LEMMA StepRestoresOnPage ==
  ASSUME IInv, RestoresOnPage, [Next]_vars
  PROVE  RestoresOnPage'
<1>1. CASE page' = page /\ toRestore' \subseteq toRestore
  BY <1>1 DEF RestoresOnPage
<1>2. CASE ClosePage \/ OpenPage \/ RestoreEnds
  BY <1>2 DEF ClosePage, OpenPage, RestoreEnds, RestoresOnPage
<1> QED
  BY <1>1, <1>2
     DEF Next, PageResumes, vars, Serve, LoseRequest, Created, Restored, Provisioned, Refused,
         GiveUp, CallFails, LeaveArrives, LoseLeave, GuestStep, GuestJoins, GuestFallsQuiet,
         GuestCalls, GuestLeaves, Reclaim,
         CreateSecret, Started, RetryFires, Toggle, DeleteSecret, ExpireSecret, Remove, Left, Burn,
         RestoreNext, Online, StreamOpens, StreamDrops, StreamRefused, ImportStarts, ImportEnds

\* syncOwnerEventStream, but for a page that restores.
LEMMA SyncedKey ==
  ASSUME NEW sessions, page # "restoring"
  PROVE  Synced(sessions).key = Subscriptions(sessions)
BY DEF Synced

\* The stream has just been synced: it is exactly for the sessions, but for one
\* whose key pair is still to come.
Resynced ==
  /\ \A s \in OnStream(sess') : sess'[s].starting \/ SeatOf(sess'[s]) \in stream'.key
  /\ \A seat \in stream'.key : \E s \in Secrets : SeatOf(sess'[s]) = seat /\ s \in OnStream(sess')

LEMMA FreshResynced ==
  ASSUME stream'.key = Subscriptions(sess')
  PROVE  Resynced
BY DEF Resynced, Subscriptions, OnStream

\* One session, in a step that leaves the subscriptions alone: it is on the
\* stream as before or its key pair is still to come, and if it had a
\* subscription it has it still.
Follower(x) == x.listed /\ ~x.deleted /\ x.state = "live"
StaysWith(x, y) ==
  /\ Follower(y) => y.starting \/ (Follower(x) /\ ~x.starting /\ SeatOf(y) = SeatOf(x))
  /\ Follower(x) \/ x.leaving => SeatOf(y) = SeatOf(x) /\ (Follower(y) \/ y.leaving)

\* The subscriptions are left alone.
KeepsStream ==
  /\ stream'.key = stream.key /\ page' = page
  /\ page = "open" => \A s \in Secrets : StaysWith(sess[s], sess'[s])

\* What a step can do about the stream of an open page.
Streaming == page' # "open" \/ KeepsStream \/ Resynced \/ StreamRefused

LEMMA StaysWhereItIs ==
  ASSUME NEW x \in Session
  PROVE  /\ StaysWith(x, x)
         /\ \A b \in BOOLEAN : StaysWith(x, Retry(x, b))
         /\ Follower(x) => StaysWith(x, Leave(x))
         /\ x.deleted /\ ~x.leaving => StaysWith(x, Leave(x))
BY SeatsKept DEF StaysWith, Follower, SeatOf

\* A session that is started, or has no seat yet, replaces none.
LEMMA BornStays ==
  ASSUME NEW c, NEW p
  PROVE  /\ StaysWith(NoSession, NewSession("live", c, p))
         /\ StaysWith(NoSession, NewSession("provisional", c, p))
BY NoSessionFields DEF StaysWith, Follower, NewSession

LEMMA CreatesFirst ==
  ASSUME IInv, NEW k \in calls, k.kind = "create"
  PROVE  k.secret \in Secrets /\ sess[k.secret] = NoSession
BY DEF IInv, Typed, TypeOK, Call, Whereabouts, UnbornIsNowhere, Unborn, Creating

LEMMA RestoresApart ==
  ASSUME IInv, StreamInv, NEW k \in calls, k.kind = "restore"
  PROVE  page = "restoring"
BY DEF StreamInv, RestoresOne, RestoresOnPage

LEMMA FailsStreaming ==
  ASSUME IInv, StreamInv, NEW k \in calls, Refused(k) \/ GiveUp(k)
  PROVE  Streaming
<1>1. PICK others : CallFails(k, others)
  BY FailedRestores
<1>2. UNCHANGED <<stream, page>>
  BY DEF Refused, GiveUp
<1>3. sess \in [Secrets -> Session] /\ k.secret \in Secrets
  BY DEF IInv, Typed, TypeOK, Call
<1>4. ASSUME page = "open", NEW s \in Secrets
      PROVE  StaysWith(sess[s], sess'[s])
  <2>1. CASE k.kind = "create"
    <3>1. sess' = [sess EXCEPT ![k.secret] = NewSession("provisional", Local, NoPeer)]
      BY <1>1, <2>1 DEF CallFails
    <3> QED
      BY <1>3, <2>1, <3>1, CreatesFirst, StaysWhereItIs, BornStays
  <2>2. CASE k.kind = "restore"
    BY <1>4, <2>2, RestoresApart
  <2>3. CASE k.kind = "provision"
    <3> DEFINE b == sess[k.secret].retry \/ k.secret \in Wanting({k.secret}, sess)
    <3>1. sess' = [sess EXCEPT ![k.secret] = Retry(sess[k.secret], b)]
      BY <1>1, <1>3, <2>3, Zenon DEF CallFails, RetryLater, Retry
    <3>2. b \in BOOLEAN
      BY <1>3 DEF Session
    <3> HIDE DEF b
    <3> QED
      BY <1>3, <3>1, <3>2, StaysWhereItIs
  <2> QED
    BY <1>1, <2>1, <2>2, <2>3 DEF CallFails
<1> QED
  BY <1>2, <1>4 DEF KeepsStream, Streaming

LEMMA AnswerStreaming ==
  ASSUME IInv, StreamInv, NEW k \in calls, Created(k) \/ Restored(k)
  PROVE  Streaming
<1>1. UNCHANGED <<stream, page>>
  BY DEF Created, Restored
<1>2. sess \in [Secrets -> Session]
  BY DEF IInv, Typed, TypeOK
<1>3. ASSUME page = "open", NEW s \in Secrets
      PROVE  StaysWith(sess[s], sess'[s])
  <2>1. CASE Created(k)
    <3>1. sess' = [sess EXCEPT ![k.secret] = NewSession("live", k.code, k.peer)] /\ k.kind = "create"
      BY <2>1 DEF Created
    <3> QED
      BY <1>2, <3>1, CreatesFirst, StaysWhereItIs, BornStays
  <2>2. CASE Restored(k)
    BY <1>3, <2>2, RestoresApart DEF Restored
  <2> QED
    BY <2>1, <2>2
<1> QED
  BY <1>1, <1>3 DEF KeepsStream, Streaming

\* The stream is synced before the session leaves its provisional state, and the
\* session is started after it: startSession syncs the stream again.
LEMMA ProvisionedStreaming ==
  ASSUME IInv, StreamInv, NEW k \in calls, Provisioned(k)
  PROVE  Streaming
<1> DEFINE r == k.secret
           x == Attach(sess[r], k.code, k.peer)
<1>1. /\ sess \in [Secrets -> Session] /\ r \in Secrets /\ Proper(sess[r])
      /\ k.code \in Codes /\ k.peer \in Peers
  BY DEF IInv, Typed, TypeOK, SeatsAreReal, HasSeat, Call, Provisioned
<1>2. x \in Session
  BY <1>1, SessionAttached DEF Proper
<1>3. Attached(k) = [sess EXCEPT ![r] = x]
  BY <1>1, Zenon DEF Attached, Attach
<1> HIDE DEF x
<1>4. sess' = [sess EXCEPT ![r] = Publish(x)]
  <2>1. sess' = [Attached(k) EXCEPT ![r] = Publish(Attached(k)[r])]
    BY <1>1, <1>2, <1>3, Zenon DEF Provisioned, Publish
  <2>2. Attached(k)[r] = x
    BY <1>1, <1>3
  <2> QED
    BY <1>1, <1>3, <2>1, <2>2
<1>5. /\ Publish(x).code = x.code /\ Publish(x).peer = x.peer /\ Publish(x).listed = x.listed
      /\ Publish(x).deleted = x.deleted /\ Publish(x).state = "live" /\ Publish(x).starting
  BY <1>2, Zenon DEF Publish, Session
<1>6. SUFFICES ASSUME page = "open"
               PROVE  Resynced
  BY DEF Provisioned, Streaming
<1>7. stream'.key = Subscriptions(Attached(k))
  BY <1>6, SyncedKey DEF Provisioned
<1>8. ASSUME NEW s \in Secrets
      PROVE  /\ SeatOf(sess'[s]) = SeatOf(Attached(k)[s])
             /\ s \in OnStream(Attached(k)) => s \in OnStream(sess')
             /\ s \in OnStream(sess') => s \in OnStream(Attached(k)) \/ sess'[s].starting
  <2>1. CASE s = r
    <3>1. Attached(k)[s] = x /\ sess'[s] = Publish(x)
      BY <1>1, <1>3, <1>4, <2>1
    <3> QED
      BY <1>5, <3>1 DEF SeatOf, OnStream
  <2>2. CASE s # r
    <3>1. Attached(k)[s] = sess[s] /\ sess'[s] = sess[s]
      BY <1>1, <1>3, <1>4, <2>2
    <3> QED
      BY <3>1 DEF OnStream
  <2> QED
    BY <2>1, <2>2
<1>9. \A s \in OnStream(sess') : sess'[s].starting \/ SeatOf(sess'[s]) \in stream'.key
  BY <1>7, <1>8 DEF OnStream, Subscriptions
<1>10. \A seat \in stream'.key : \E s \in Secrets : SeatOf(sess'[s]) = seat /\ s \in OnStream(sess')
  BY <1>7, <1>8 DEF OnStream, Subscriptions
<1> QED
  BY <1>9, <1>10 DEF Resynced

LEMMA SyncStreaming ==
  ASSUME UNCHANGED page, stream' = Synced(sess')
  PROVE  Streaming
<1>1. CASE page = "restoring"
  BY <1>1 DEF Streaming
<1>2. CASE page # "restoring"
  BY <1>2, SyncedKey, FreshResynced DEF Streaming
<1> QED
  BY <1>1, <1>2

LEMMA RemoveStreaming ==
  ASSUME IInv, StreamInv, NEW r \in Secrets, sess[r].listed, Remove(r)
  PROVE  Streaming
<1>1. sess \in [Secrets -> Session] /\ Proper(sess[r])
  BY DEF IInv, Typed, TypeOK, SeatsAreReal
<1>2. UNCHANGED page /\ (LeaveSession(r) \/ UNCHANGED <<sess, stream>>)
  BY DEF Remove
<1>3. CASE stream' = Synced(sess')
  BY <1>2, <1>3, SyncStreaming
<1>4. CASE /\ sess[r].state = "live" /\ ~sess[r].notified
           /\ sess' = [[sess EXCEPT ![r].deleted = TRUE, ![r].retry = FALSE]
                         EXCEPT ![r].notified = TRUE, ![r].leaving = TRUE]
           /\ UNCHANGED stream
  <2>1. sess' = [sess EXCEPT ![r] = Leave(sess[r])]
    BY <1>1, <1>4, Zenon DEF Leave
  <2>2. ~sess[r].leaving
    BY <1>1, <1>4 DEF Proper
  <2>3. Follower(sess[r]) \/ sess[r].deleted
    BY <1>1, <1>4 DEF Follower
  <2>4. StaysWith(sess[r], Leave(sess[r]))
    BY <1>1, <2>2, <2>3, StaysWhereItIs
  <2>5. \A s \in Secrets : StaysWith(sess[s], sess'[s])
    BY <1>1, <2>1, <2>4, StaysWhereItIs
  <2> QED
    BY <1>2, <1>4, <2>5 DEF KeepsStream, Streaming
<1>5. CASE UNCHANGED <<sess, stream>>
  <2>1. \A s \in Secrets : StaysWith(sess[s], sess'[s])
    BY <1>1, <1>5, StaysWhereItIs
  <2> QED
    BY <1>2, <1>5, <2>1 DEF KeepsStream, Streaming
<1> QED
  BY <1>2, <1>3, <1>4, <1>5 DEF LeaveSession

LEMMA StepStreaming ==
  ASSUME IInv, StreamInv, [Next]_vars
  PROVE  Streaming
<1>1. sess \in [Secrets -> Session]
  BY DEF IInv, Typed, TypeOK
<1>2. CASE UNCHANGED <<page, sess>> /\ stream'.key = stream.key
  <2>1. \A s \in Secrets : StaysWith(sess[s], sess'[s])
    BY <1>1, <1>2, StaysWhereItIs
  <2> QED
    BY <1>2, <2>1 DEF KeepsStream, Streaming
<1>3. CASE \E k \in calls : PageResumes(k) \/ GiveUp(k)
  BY <1>3, AnswerStreaming, ProvisionedStreaming, FailsStreaming DEF PageResumes
<1>4. CASE (\E s \in Secrets : Started(s) \/ Left(s)) \/ Online
  <2>1. UNCHANGED page /\ stream' = Synced(sess')
    BY <1>4 DEF Started, Left, Online
  <2> QED
    BY <2>1, SyncStreaming
<1>5. ASSUME NEW r \in Secrets, RetryFires(r)
      PROVE  Streaming
  <2>1. sess' = [sess EXCEPT ![r] = Retry(sess[r], FALSE)]
    BY <1>1, <1>5, Zenon DEF RetryFires, Retry
  <2>2. \A s \in Secrets : StaysWith(sess[s], sess'[s])
    BY <1>1, <2>1, StaysWhereItIs
  <2>3. UNCHANGED <<stream, page>>
    BY <1>5 DEF RetryFires
  <2> QED
    BY <2>2, <2>3 DEF KeepsStream, Streaming
<1>6. ASSUME NEW r \in Secrets, DeleteSecret(r) \/ ExpireSecret(r)
      PROVE  Streaming
  BY <1>6, RemoveStreaming DEF DeleteSecret, ExpireSecret, Shown
<1>7. CASE StreamRefused
  BY <1>7 DEF Streaming
<1>8. CASE ClosePage
  BY <1>8 DEF ClosePage, Streaming
<1>9. CASE RestoreEnds
  <2>1. stream'.key = Subscriptions(sess')
    BY <1>9 DEF RestoreEnds
  <2> QED
    BY <2>1, FreshResynced DEF Streaming
<1>10. CASE StreamOpens \/ StreamDrops
  <2>1. stream \in Streams
    BY DEF IInv, Typed, TypeOK, Streams
  <2>2. UNCHANGED <<page, sess>> /\ stream'.key = stream.key
    BY <1>10, <2>1 DEF StreamOpens, StreamDrops, Streams
  <2> QED
    BY <1>2, <2>2
<1>11. CASE \/ \E k \in calls : Serve(k) \/ LoseRequest(k)
            \/ \E seat \in leaves : LeaveArrives(seat) \/ LoseLeave(seat)
            \/ \E c \in Codes : GuestStep(c) \/ Reclaim(c)
            \/ \E s \in Secrets : CreateSecret(s) \/ Toggle(s) \/ Burn(s) \/ RestoreNext(s)
            \/ ImportStarts \/ ImportEnds \/ UNCHANGED vars
  BY <1>2, <1>11
     DEF Serve, LoseRequest, LeaveArrives, LoseLeave, GuestStep, GuestJoins, GuestFallsQuiet,
         GuestCalls, GuestLeaves, Reclaim,
         CreateSecret, Toggle, Burn, RestoreNext, ImportStarts, ImportEnds, vars
<1>12. CASE OpenPage
  <2>1. sess = [s \in Secrets |-> NoSession] /\ stream.key = {} /\ UNCHANGED <<sess, stream>>
    BY <1>12 DEF OpenPage, IInv, Whereabouts, ClosedIsEmpty
  <2>2. OnStream(sess') = {}
    BY <2>1 DEF OnStream, NoSession, NewSession
  <2> QED
    BY <2>1, <2>2 DEF Resynced, Streaming
<1> QED
  BY <1>3, <1>4, <1>5, <1>6, <1>7, <1>8, <1>9, <1>10, <1>11, <1>12 DEF GuestStep, Next

LEMMA KeptFollows ==
  ASSUME StreamFollowsSessions, KeepsStream
  PROVE  StreamFollowsSessions'
<1> SUFFICES ASSUME page = "open", stream.key # {}
             PROVE  /\ \A s \in OnStream(sess') : sess'[s].starting \/ SeatOf(sess'[s]) \in stream.key
                    /\ \A seat \in stream.key : \E s \in Secrets :
                         SeatOf(sess'[s]) = seat /\ (s \in OnStream(sess') \/ sess'[s].leaving)
  BY DEF KeepsStream, StreamFollowsSessions, Live
<1>1. \A s \in Secrets : StaysWith(sess[s], sess'[s])
  BY DEF KeepsStream
<1>2. ASSUME NEW s \in OnStream(sess'), ~sess'[s].starting
      PROVE  SeatOf(sess'[s]) \in stream.key
  <2>1. s \in Secrets /\ s \in OnStream(sess) /\ ~sess[s].starting /\ SeatOf(sess'[s]) = SeatOf(sess[s])
    BY <1>1, <1>2 DEF StaysWith, Follower, OnStream
  <2> QED
    BY <2>1 DEF StreamFollowsSessions
<1>3. ASSUME NEW seat \in stream.key
      PROVE  \E s \in Secrets :
               SeatOf(sess'[s]) = seat /\ (s \in OnStream(sess') \/ sess'[s].leaving)
  <2>1. PICK s \in Secrets : SeatOf(sess[s]) = seat /\ (s \in OnStream(sess) \/ sess[s].leaving)
    BY DEF StreamFollowsSessions, Live
  <2>2. SeatOf(sess'[s]) = seat /\ (s \in OnStream(sess') \/ sess'[s].leaving)
    BY <1>1, <2>1 DEF StaysWith, Follower, OnStream
  <2> QED
    BY <2>2
<1> QED
  BY <1>2, <1>3

LEMMA StepFollowsSessions ==
  ASSUME IInv, StreamInv, [Next]_vars
  PROVE  StreamFollowsSessions'
<1>1. CASE page' # "open"
  BY <1>1 DEF StreamFollowsSessions
<1>2. CASE KeepsStream
  BY <1>2, KeptFollows DEF StreamInv
<1>3. CASE Resynced
  BY <1>3 DEF Resynced, StreamFollowsSessions, Live
<1>4. CASE StreamRefused
  BY <1>4 DEF StreamRefused, NoStream, StreamFollowsSessions
<1> QED
  BY <1>1, <1>2, <1>3, <1>4, StepStreaming DEF Streaming

LEMMA AlwaysFollows == Spec => []StreamInv
<1>1. Init => StreamInv
  BY DEF Init, NoStream, StreamInv, RestoresOne, RestoresOnPage, StreamFollowsSessions
<1>2. IInv /\ StreamInv /\ [Next]_vars => StreamInv'
  BY StepRestoresOne, StepRestoresOnPage, StepFollowsSessions DEF StreamInv
<1> QED
  BY <1>1, <1>2, Inductive, PTL DEF Spec

\* syncOwnerEventStream is called often enough: whatever was answered late,
\* recovered, restored or removed, the stream of an open page is for its sessions.
THEOREM StreamIsForSessions == Spec => []StreamFollowsSessions
<1>1. StreamInv => StreamFollowsSessions
  BY DEF StreamInv
<1> QED
  BY <1>1, AlwaysFollows, PTL

LEMMA StepSilences ==
  ASSUME IInv, StreamInv, [Next]_vars, NEW s \in Secrets, ~Unsubscribed(s), Unsubscribed(s)'
  PROVE  StreamRefused
<1>1. page' = "open" /\ s \in OnStream(sess') /\ ~sess'[s].starting /\ SeatOf(sess'[s]) \notin stream'.key
  BY DEF Unsubscribed, Live
<1>2. ~Resynced
  BY <1>1 DEF Resynced
<1>3. ~KeepsStream
  <2>1. ASSUME KeepsStream
        PROVE  FALSE
    <3>1. StaysWith(sess[s], sess'[s]) /\ page = "open" /\ stream'.key = stream.key
      BY <1>1, <2>1 DEF KeepsStream
    <3>2. s \in OnStream(sess) /\ ~sess[s].starting /\ SeatOf(sess[s]) = SeatOf(sess'[s])
      BY <1>1, <3>1 DEF StaysWith, Follower, OnStream
    <3> QED
      BY <1>1, <3>1, <3>2 DEF Unsubscribed, Live
  <2> QED
    BY <2>1
<1> QED
  BY <1>1, <1>2, <1>3, StepStreaming DEF Streaming

\* A started session falls silent only when the server refuses the page's stream.
THEOREM OnlyRefusalsUnsubscribe == Spec => UnsubscribedOnlyBy
<1>1. IInv /\ StreamInv /\ [Next]_vars
        => [\A s \in Secrets : ~Unsubscribed(s) /\ Unsubscribed(s)' => StreamRefused]_vars
  BY StepSilences
<1> QED
  BY <1>1, Inductive, AlwaysFollows, PTL DEF Spec, UnsubscribedOnlyBy

-----------------------------------------------------------------------------
(* A late leave is of a peer that has no session any more *)

Answered(k) == k.stage = "served"

\* A peer of the server is in one answer, or is one session's.
PeersAreApart ==
  /\ \A j, k \in calls : Answered(j) /\ Answered(k) /\ j.peer = k.peer => j = k
  /\ \A k \in calls, s \in Secrets : Answered(k) => k.peer # sess[s].peer
  /\ \A s, t \in Secrets : sess[s].peer = sess[t].peer /\ sess[s].peer # NoPeer => s = t

\* A leave under way is of no published session, nor of one that is answered.
LeavesAreOld ==
  /\ \A seat \in leaves, k \in calls : Answered(k) => seat[2] # k.peer
  /\ \A seat \in leaves, s \in Secrets : Live(s) => seat[2] # sess[s].peer

LeaveInv == PeersAreApart /\ LeavesAreOld

\* A step in which no peer is new: answers and sessions keep theirs or lose it,
\* nothing is published, and whoever leaves is not published any more.
NobodyNew ==
  /\ \A k \in calls' : Answered(k) => k \in calls
  /\ \A s \in Secrets : sess'[s].peer \in {sess[s].peer, NoPeer}
  /\ \A s \in Secrets : s \in OnStream(sess') => s \in OnStream(sess) /\ sess'[s].peer = sess[s].peer
  /\ \A seat \in leaves' :
       \/ seat \in leaves
       \/ \E s \in Secrets : seat[2] = sess[s].peer /\ seat[2] # NoPeer /\ s \notin OnStream(sess')

LEMMA AnsweredPeers ==
  ASSUME IInv, NEW k \in calls, Answered(k)
  PROVE  k.secret \in Secrets /\ k.code \in Codes /\ k.peer \in Peers /\ k.peer # NoPeer
BY DEF Answered, IInv, Typed, TypeOK, Call, SeatsAreReal, HasSeat

LEMMA NobodyNewApart ==
  ASSUME IInv, LeaveInv, NobodyNew
  PROVE  LeaveInv'
<1>1. ASSUME NEW k \in calls', NEW s \in Secrets, Answered(k)
      PROVE  k \in calls /\ k.peer # sess[s].peer /\ k.peer # sess'[s].peer
  BY <1>1, AnsweredPeers DEF LeaveInv, PeersAreApart, NobodyNew
<1>2. PeersAreApart'
  <2>1. \A j, k \in calls' : Answered(j) /\ Answered(k) /\ j.peer = k.peer => j = k
    BY DEF LeaveInv, PeersAreApart, NobodyNew
  <2>2. \A s, t \in Secrets : sess'[s].peer = sess'[t].peer /\ sess'[s].peer # NoPeer => s = t
    BY DEF LeaveInv, PeersAreApart, NobodyNew
  <2> QED
    BY <1>1, <2>1, <2>2 DEF PeersAreApart
<1>3. ASSUME NEW seat \in leaves', NEW k \in calls', Answered(k)
      PROVE  seat[2] # k.peer
  BY <1>1, <1>3 DEF LeaveInv, LeavesAreOld, NobodyNew
<1>4. ASSUME NEW seat \in leaves', NEW t \in OnStream(sess')
      PROVE  seat[2] # sess'[t].peer
  <2>1. t \in Secrets /\ t \in OnStream(sess) /\ sess'[t].peer = sess[t].peer
    BY <1>4 DEF NobodyNew, OnStream
  <2>2. CASE seat \in leaves
    BY <2>1, <2>2 DEF LeaveInv, LeavesAreOld, Live
  <2>3. ASSUME NEW s \in Secrets, seat[2] = sess[s].peer, seat[2] # NoPeer, s \notin OnStream(sess')
        PROVE  seat[2] # sess'[t].peer
    BY <1>4, <2>1, <2>3 DEF LeaveInv, PeersAreApart
  <2> QED
    BY <2>2, <2>3 DEF NobodyNew
<1> QED
  BY <1>2, <1>3, <1>4 DEF LeaveInv, LeavesAreOld, Live

\* New requests, and those that are given up, are not answered.
LEMMA RequestUnanswered ==
  ASSUME NEW s, NEW kind, NEW c, NEW others
  PROVE  ~Answered(Request(s, kind, c, others))
BY DEF Request, Answered

LEMMA ProvisioningAnswered ==
  ASSUME NEW S, NEW sessions, NEW others, NEW k \in Provisioning(S, sessions, others), Answered(k)
  PROVE  k \in others
<1>1. ASSUME NEW s \in Wanting(S, sessions), k = Request(s, "provision", sessions[s].code, others)
      PROVE  FALSE
  BY <1>1, RequestUnanswered
<1> QED
  BY <1>1 DEF Provisioning

LEMMA AbandonedUnanswered ==
  ASSUME NEW K \in SUBSET Call, NEW m \in Abandoned(K)
  PROVE  ~Answered(m)
<1>1. ASSUME NEW k \in Call, k.stage = "sent"
      PROVE  [k EXCEPT !.kind = "abandoned"].stage = "sent"
  BY <1>1, Zenon DEF Call
<1> QED
  BY <1>1 DEF Abandoned, Answered

\* A session that keeps its peer or loses it, and is not published by it.
KeepsPeer(x, y) ==
  /\ y.peer \in {x.peer, NoPeer}
  /\ Follower(y) => Follower(x) /\ y.peer = x.peer

LEMMA PeersKept ==
  ASSUME NEW x \in Session
  PROVE  /\ KeepsPeer(x, x) /\ KeepsPeer(x, Start(x))
         /\ \A b \in BOOLEAN : KeepsPeer(x, Retry(x, b))
         /\ KeepsPeer(x, Leave(x)) /\ ~Follower(Leave(x))
         /\ KeepsPeer(x, Unlist(x)) /\ KeepsPeer(x, Recover(x))
         /\ KeepsPeer(x, NoSession) /\ ~Follower(NoSession)
         /\ \A c : KeepsPeer(x, NewSession("provisional", c, NoPeer))
<1>1. NoSession.peer = NoPeer /\ NoSession.state = "none"
  BY DEF NoSession, NewSession
<1>2. ASSUME NEW c
      PROVE  /\ NewSession("provisional", c, NoPeer).peer = NoPeer
             /\ NewSession("provisional", c, NoPeer).state = "provisional"
  BY DEF NewSession
<1> QED
  BY <1>1, <1>2, SeatsKept DEF KeepsPeer, Follower

LEMMA KeepsPeersIs ==
  ASSUME \A s \in Secrets : KeepsPeer(sess[s], sess'[s]),
         \A k \in calls' : Answered(k) => k \in calls,
         \A seat \in leaves' :
           \/ seat \in leaves
           \/ \E s \in Secrets : seat[2] = sess[s].peer /\ seat[2] # NoPeer /\ ~Follower(sess'[s])
  PROVE  NobodyNew
BY DEF NobodyNew, KeepsPeer, Follower, OnStream

LEMMA FailsNobodyNew ==
  ASSUME IInv, NEW k \in calls, Refused(k) \/ GiveUp(k)
  PROVE  NobodyNew
<1>1. PICK others : CallFails(k, others) /\ \A m \in others : Answered(m) => m \in calls
  <2>1. CASE Refused(k)
    BY <2>1 DEF Refused
  <2>2. CASE GiveUp(k)
    <3>1. CallFails(k, (calls \ {k}) \cup Abandoned({k})) /\ {k} \in SUBSET Call
      BY <2>2 DEF GiveUp, IInv, Typed, TypeOK
    <3>2. \A m \in Abandoned({k}) : ~Answered(m)
      BY <3>1, AbandonedUnanswered
    <3> QED
      BY <3>1, <3>2
  <2> QED
    BY <2>1, <2>2
<1>2. sess \in [Secrets -> Session] /\ k.secret \in Secrets /\ UNCHANGED leaves
  BY DEF IInv, Typed, TypeOK, Call, Refused, GiveUp
<1>3. \A m \in calls' : Answered(m) => m \in calls
  <2>1. \A m \in Provisioning({k.secret}, sess', others) : Answered(m) => m \in others
    BY ProvisioningAnswered
  <2>2. calls' = Provisioning({k.secret}, sess', others) \/ calls' = others
    BY <1>1 DEF CallFails
  <2> QED
    BY <1>1, <2>1, <2>2
<1>4. ASSUME NEW s \in Secrets
      PROVE  KeepsPeer(sess[s], sess'[s])
  <2>1. CASE k.kind \in {"create", "restore"}
    <3>1. PICK c : sess' = [sess EXCEPT ![k.secret] = NewSession("provisional", c, NoPeer)]
      BY <1>1, <2>1 DEF CallFails
    <3> QED
      BY <1>2, <3>1, PeersKept
  <2>2. CASE k.kind = "provision"
    <3> DEFINE b == sess[k.secret].retry \/ k.secret \in Wanting({k.secret}, sess)
    <3>1. sess' = [sess EXCEPT ![k.secret] = Retry(sess[k.secret], b)]
      BY <1>1, <1>2, <2>2, Zenon DEF CallFails, RetryLater, Retry
    <3>2. b \in BOOLEAN
      BY <1>2 DEF Session
    <3> HIDE DEF b
    <3> QED
      BY <1>2, <3>1, <3>2, PeersKept
  <2> QED
    BY <1>1, <2>1, <2>2 DEF CallFails
<1> QED
  BY <1>2, <1>3, <1>4, KeepsPeersIs

LEMMA RemoveNobodyNew ==
  ASSUME IInv, NEW r \in Secrets, sess[r].listed, Remove(r)
  PROVE  NobodyNew
<1>1. sess \in [Secrets -> Session] /\ Proper(sess[r]) /\ UNCHANGED calls
  BY DEF IInv, Typed, TypeOK, SeatsAreReal, Remove
<1>2. CASE /\ sess' = Unlisted(r) /\ UNCHANGED leaves
  <2>1. sess' = [sess EXCEPT ![r] = Unlist(sess[r])]
    BY <1>1, <1>2, Zenon DEF Unlisted, Unlist
  <2>2. \A s \in Secrets : KeepsPeer(sess[s], sess'[s])
    BY <1>1, <2>1, PeersKept
  <2> QED
    BY <1>1, <1>2, <2>2, KeepsPeersIs
<1>3. CASE /\ sess[r].state = "live" /\ ~sess[r].notified
           /\ sess' = [[sess EXCEPT ![r].deleted = TRUE, ![r].retry = FALSE]
                         EXCEPT ![r].notified = TRUE, ![r].leaving = TRUE]
           /\ leaves' = leaves \cup {SeatOf(sess[r])}
  <2>1. sess' = [sess EXCEPT ![r] = Leave(sess[r])]
    BY <1>1, <1>3, Zenon DEF Leave
  <2>2. \A s \in Secrets : KeepsPeer(sess[s], sess'[s])
    BY <1>1, <2>1, PeersKept
  <2>3. SeatOf(sess[r])[2] = sess[r].peer /\ sess[r].peer # NoPeer
    BY <1>1, <1>3 DEF SeatOf, Proper
  <2>4. ~Follower(sess'[r])
    BY <1>1, <2>1, PeersKept
  <2> QED
    BY <1>1, <1>3, <2>2, <2>3, <2>4, KeepsPeersIs
<1>4. CASE UNCHANGED <<sess, leaves>>
  <2>1. \A s \in Secrets : KeepsPeer(sess[s], sess'[s])
    BY <1>1, <1>4, PeersKept
  <2> QED
    BY <1>1, <1>4, <2>1, KeepsPeersIs
<1> QED
  BY <1>2, <1>3, <1>4 DEF Remove, LeaveSession

LEMMA ClosePageNobodyNew ==
  ASSUME IInv, ClosePage
  PROVE  NobodyNew
<1>1. sess \in [Secrets -> Session] /\ \A s \in Secrets : Proper(sess[s])
  BY DEF IInv, Typed, TypeOK, SeatsAreReal
<1>2. \A s \in Secrets : sess'[s] = NoSession
  BY DEF ClosePage
<1>3. \A s \in Secrets : KeepsPeer(sess[s], sess'[s]) /\ ~Follower(sess'[s])
  BY <1>1, <1>2, PeersKept
<1>4. \A k \in calls' : ~Answered(k)
  BY AbandonedUnanswered DEF ClosePage, IInv, Typed, TypeOK
<1>5. PICK told \in SUBSET {s \in Secrets :
                              sess[s].listed /\ sess[s].state = "live" /\ ~sess[s].notified} :
        leaves' = leaves \cup {SeatOf(sess[s]) : s \in told}
  BY DEF ClosePage
<1>6. \A s \in told : SeatOf(sess[s])[2] = sess[s].peer /\ sess[s].peer # NoPeer
  BY <1>1 DEF Proper, SeatOf
<1> QED
  BY <1>3, <1>4, <1>5, <1>6, KeepsPeersIs

\* Every step but an answer of the server, and the page's taking of one.
LEMMA StepNobodyNew ==
  ASSUME IInv, [Next]_vars, ~\E k \in calls : Serve(k) \/ Created(k) \/ Restored(k) \/ Provisioned(k)
  PROVE  NobodyNew
<1>1. sess \in [Secrets -> Session]
  BY DEF IInv, Typed, TypeOK
<1>2. ASSUME leaves' \subseteq leaves, \A s \in Secrets : KeepsPeer(sess[s], sess'[s]),
             \A k \in calls' : Answered(k) => k \in calls
      PROVE  NobodyNew
  BY <1>2, KeepsPeersIs
<1>3. CASE \E k \in calls : Refused(k) \/ GiveUp(k)
  BY <1>3, FailsNobodyNew
<1>4. CASE \E s \in Secrets : DeleteSecret(s) \/ ExpireSecret(s)
  BY <1>4, RemoveNobodyNew DEF DeleteSecret, ExpireSecret, Shown
<1>5. CASE ClosePage
  BY <1>5, ClosePageNobodyNew
<1>6. ASSUME NEW r \in Secrets, Started(r) \/ Left(r)
      PROVE  NobodyNew
  <2>1. \/ sess' = [sess EXCEPT ![r] = Start(sess[r])]
        \/ sess' = [sess EXCEPT ![r] = Unlist(sess[r])]
    BY <1>1, <1>6, Zenon DEF Started, Left, Unlisted, Start, Unlist
  <2>2. UNCHANGED <<calls, leaves>>
    BY <1>6 DEF Started, Left
  <2>3. \A s \in Secrets : KeepsPeer(sess[s], sess'[s])
    BY <1>1, <2>1, PeersKept
  <2> QED
    BY <1>2, <2>2, <2>3
<1>7. ASSUME NEW r \in Secrets, RetryFires(r)
      PROVE  NobodyNew
  <2>1. sess' = [sess EXCEPT ![r] = Retry(sess[r], FALSE)]
    BY <1>1, <1>7, Zenon DEF RetryFires, Retry
  <2>2. UNCHANGED leaves /\ \A k \in calls' : Answered(k) => k \in calls
    BY <1>7, ProvisioningAnswered DEF RetryFires
  <2>3. \A s \in Secrets : KeepsPeer(sess[s], sess'[s])
    BY <1>1, <2>1, PeersKept
  <2> QED
    BY <1>2, <2>2, <2>3
<1>8. CASE StreamRefused
  <2>1. PICK S \in SUBSET OnStream(sess) :
          sess' = Recovering(S) /\ calls' = Provisioning(S, sess', calls) /\ UNCHANGED leaves
    BY <1>8 DEF StreamRefused
  <2>2. ASSUME NEW s \in Secrets
        PROVE  KeepsPeer(sess[s], sess'[s])
    <3>1. sess'[s] = Recover(sess[s]) \/ sess'[s] = sess[s]
      BY <2>1, Zenon DEF Recovering, Recover
    <3> QED
      BY <1>1, <3>1, PeersKept
  <2>3. \A k \in calls' : Answered(k) => k \in calls
    BY <2>1, ProvisioningAnswered
  <2> QED
    BY <1>2, <2>1, <2>2, <2>3
<1>9. CASE Online \/ \E s \in Secrets : CreateSecret(s) \/ RestoreNext(s)
  <2>1. UNCHANGED <<sess, leaves>>
    BY <1>9 DEF Online, CreateSecret, RestoreNext
  <2>2. \A k \in calls' : Answered(k) => k \in calls
    <3>1. CASE Online
      BY <3>1, ProvisioningAnswered DEF Online
    <3>2. ASSUME NEW s \in Secrets, CreateSecret(s)
          PROVE  \A k \in calls' : Answered(k) => k \in calls
      <4>1. calls' = calls \cup {Request(s, "create", Local, calls)}
        BY <3>2 DEF CreateSecret
      <4> QED
        BY <4>1, RequestUnanswered
    <3>3. ASSUME NEW s \in Secrets, RestoreNext(s)
          PROVE  \A k \in calls' : Answered(k) => k \in calls
      <4>1. \/ UNCHANGED calls
            \/ calls' = calls \cup {Request(s, "restore", stored[s], calls)}
        BY <3>3 DEF RestoreNext
      <4> QED
        BY <4>1, RequestUnanswered
    <3> QED
      BY <1>9, <3>1, <3>2, <3>3
  <2>3. \A s \in Secrets : KeepsPeer(sess[s], sess'[s])
    BY <1>1, <2>1, PeersKept
  <2> QED
    BY <1>2, <2>1, <2>2, <2>3
<1>10. CASE \/ \E k \in calls : LoseRequest(k)
            \/ \E seat \in leaves : LeaveArrives(seat) \/ LoseLeave(seat)
            \/ \E c \in Codes : GuestStep(c) \/ Reclaim(c)
            \/ \E s \in Secrets : Toggle(s) \/ Burn(s)
            \/ StreamOpens \/ StreamDrops \/ OpenPage \/ RestoreEnds
            \/ ImportStarts \/ ImportEnds \/ UNCHANGED vars
  <2>1. UNCHANGED sess /\ calls' \subseteq calls /\ leaves' \subseteq leaves
    BY <1>10
       DEF LoseRequest, LeaveArrives, LoseLeave, GuestStep, GuestJoins, GuestFallsQuiet,
           GuestCalls, GuestLeaves, Reclaim, Toggle, Burn,
           StreamOpens, StreamDrops, OpenPage, RestoreEnds, ImportStarts, ImportEnds, vars
  <2>2. \A s \in Secrets : KeepsPeer(sess[s], sess'[s])
    BY <1>1, <2>1, PeersKept
  <2> QED
    BY <1>2, <2>1, <2>2
<1> QED
  BY <1>3, <1>4, <1>5, <1>6, <1>7, <1>8, <1>9, <1>10 DEF GuestStep, Next, PageResumes

\* The server draws a peer that is in no answer, session or leave.
LEMMA ServeLeaves ==
  ASSUME IInv, LeaveInv, NEW k \in calls, Serve(k)
  PROVE  LeaveInv'
<1>1. PICK stage, c, p :
        /\ Answer(k, stage, c, p)
        /\ stage = "refused" \/ (p = RandomPeer /\ \E q \in Peers : UnusedPeer(q))
  BY DEF Serve
<1> DEFINE a == [k EXCEPT !.stage = stage, !.code = c, !.peer = p]
<1>2. k \in Call
  BY DEF IInv, Typed, TypeOK
<1>3. a.stage = stage /\ a.peer = p
  BY <1>2, Zenon DEF Call
<1>4. calls' \subseteq (calls \ {k}) \cup {a} /\ UNCHANGED <<sess, leaves>>
  BY <1>1 DEF Serve, Answer
<1> HIDE DEF a
<1>5. CASE stage = "refused"
  <2>1. \A m \in calls' : Answered(m) => m \in calls
    BY <1>3, <1>4, <1>5 DEF Answered
  <2>2. sess \in [Secrets -> Session]
    BY DEF IInv, Typed, TypeOK
  <2>3. \A s \in Secrets : KeepsPeer(sess[s], sess'[s])
    BY <1>4, <2>2, PeersKept
  <2> QED
    BY <1>4, <2>1, <2>3, KeepsPeersIs, NobodyNewApart
<1>6. CASE p = RandomPeer /\ \E q \in Peers : UnusedPeer(q)
  <2>1. UnusedPeer(p)
    BY <1>6 DEF RandomPeer
  <2>2. /\ \A s \in Secrets : sess[s].peer # a.peer
        /\ \A m \in calls : m.peer # a.peer
        /\ \A seat \in leaves : seat[2] # a.peer
    BY <1>3, <2>1 DEF UnusedPeer
  <2>3. PeersAreApart'
    BY <1>4, <2>2 DEF LeaveInv, PeersAreApart
  <2>4. LeavesAreOld'
    BY <1>4, <2>2 DEF LeaveInv, LeavesAreOld, Live
  <2> QED
    BY <2>3, <2>4 DEF LeaveInv
<1> QED
  BY <1>1, <1>5, <1>6

\* The page takes an answer, and its peer goes to the session.
LEMMA TakenLeaves ==
  ASSUME IInv, LeaveInv, NEW k \in calls, Created(k) \/ Restored(k) \/ Provisioned(k)
  PROVE  LeaveInv'
<1>1. Answered(k) /\ calls' = calls \ {k} /\ UNCHANGED leaves
  BY DEF Answered, Created, Restored, Provisioned
<1>2. k.secret \in Secrets /\ k.peer # NoPeer /\ sess \in [Secrets -> Session]
  BY <1>1, AnsweredPeers DEF IInv, Typed, TypeOK
<1>3. sess'[k.secret].peer = k.peer /\ \A s \in Secrets \ {k.secret} : sess'[s] = sess[s]
  <2>1. CASE Created(k) \/ Restored(k)
    <3>1. sess' = [sess EXCEPT ![k.secret] = NewSession("live", k.code, k.peer)]
      BY <2>1 DEF Created, Restored
    <3>2. NewSession("live", k.code, k.peer).peer = k.peer
      BY DEF NewSession
    <3> QED
      BY <1>2, <3>1, <3>2
  <2>2. CASE Provisioned(k)
    BY <1>2, <2>2 DEF Provisioned, Attached, Session
  <2> QED
    BY <2>1, <2>2
<1>4. PeersAreApart'
  <2>1. \A i, j \in calls' : Answered(i) /\ Answered(j) /\ i.peer = j.peer => i = j
    BY <1>1 DEF LeaveInv, PeersAreApart
  <2>2. \A j \in calls', s \in Secrets : Answered(j) => j.peer # sess'[s].peer
    BY <1>1, <1>3 DEF LeaveInv, PeersAreApart
  <2>3. \A s, t \in Secrets : sess'[s].peer = sess'[t].peer /\ sess'[s].peer # NoPeer => s = t
    BY <1>1, <1>3 DEF LeaveInv, PeersAreApart
  <2> QED
    BY <2>1, <2>2, <2>3 DEF PeersAreApart
<1>5. LeavesAreOld'
  <2>1. \A seat \in leaves', j \in calls' : Answered(j) => seat[2] # j.peer
    BY <1>1 DEF LeaveInv, LeavesAreOld
  <2>2. ASSUME NEW seat \in leaves', NEW s \in Secrets, s \in OnStream(sess')
        PROVE  seat[2] # sess'[s].peer
    <3>1. CASE s = k.secret
      BY <1>1, <1>3, <2>2, <3>1 DEF LeaveInv, LeavesAreOld
    <3>2. CASE s # k.secret
      BY <1>1, <1>3, <2>2, <3>2 DEF LeaveInv, LeavesAreOld, Live, OnStream
    <3> QED
      BY <3>1, <3>2
  <2> QED
    BY <2>1, <2>2 DEF LeavesAreOld, Live
<1> QED
  BY <1>4, <1>5 DEF LeaveInv

LEMMA StepLeaveInv ==
  ASSUME IInv, LeaveInv, [Next]_vars
  PROVE  LeaveInv'
BY ServeLeaves, TakenLeaves, StepNobodyNew, NobodyNewApart

LEMMA AlwaysApart == Spec => []LeaveInv
<1>1. Init => LeaveInv
  BY NoSessionFields
     DEF Init, LeaveInv, PeersAreApart, LeavesAreOld, Answered, NoSession, NewSession
<1> QED
  BY <1>1, StepLeaveInv, Inductive, PTL DEF Spec

LEMMA StepSpares ==
  ASSUME IInv, LeaveInv, [Next]_vars, NEW s \in Secrets,
         leaves \ leaves' # {}, Live(s), Seated(SeatOf(sess[s]))
  PROVE  Seated(SeatOf(sess[s]))'
<1>1. \E seat \in leaves : LeaveArrives(seat) \/ LoseLeave(seat)
  BY DEF Next, PageResumes, vars, Serve, LoseRequest, Created, Restored, Provisioned, Refused,
     GiveUp, GuestStep, GuestJoins, GuestFallsQuiet, GuestCalls, GuestLeaves, Reclaim,
     CreateSecret, Started, RetryFires, Toggle,
     DeleteSecret, ExpireSecret, Remove, LeaveSession, Left, Burn, RestoreNext, Online,
     StreamOpens, StreamDrops, StreamRefused, ClosePage, OpenPage, RestoreEnds, ImportStarts,
     ImportEnds
<1>2. PICK seat \in leaves : LeaveArrives(seat) \/ LoseLeave(seat)
  BY <1>1
<1>3. UNCHANGED sess
  BY <1>2 DEF LeaveArrives, LoseLeave
<1>4. seat[2] # sess[s].peer
  BY <1>2 DEF LeaveInv, LeavesAreOld
<1>5. SeatOf(sess[s])[1] = sess[s].code /\ SeatOf(sess[s])[2] = sess[s].peer
  BY DEF SeatOf
<1>6. room'[sess[s].code] = room[sess[s].code]
  <2>1. CASE Seated(seat)
    <3>1. seat[1] # sess[s].code
      BY <1>4, <1>5, <2>1 DEF Seated
    <3>2. sess[s].code \in Codes
      BY DEF IInv, Typed, SeatsAreReal, Proper, Live, OnStream
    <3>3. room \in [Codes -> [owner : Peers \cup {NoPeer}, guest : {"none", "quiet", "busy"}]]
      BY DEF IInv, Typed, TypeOK
    <3>4. CASE LeaveArrives(seat)
      <4>1. room' = [room EXCEPT ![seat[1]] = IF Occupied(@) THEN Room(NoPeer, @.guest) ELSE NoRoom]
        BY <2>1, <3>4 DEF LeaveArrives
      <4> QED
        BY <3>1, <3>2, <3>3, <4>1
    <3>5. CASE LoseLeave(seat)
      BY <3>5 DEF LoseLeave
    <3> QED
      BY <1>2, <3>4, <3>5
  <2>2. CASE ~Seated(seat)
    BY <1>2, <2>2 DEF LeaveArrives, LoseLeave
  <2> QED
    BY <2>1, <2>2
<1> QED
  BY <1>3, <1>5, <1>6 DEF Seated

\* However late a leave of an earlier session or page arrives, the room it
\* names is spared if another session has it.
THEOREM LateLeavesSpare == Spec => LateLeaveSparesRoom
<1>1. IInv /\ LeaveInv /\ [Next]_vars
        => [\A s \in Secrets :
              leaves \ leaves' # {} /\ Live(s) /\ Seated(SeatOf(sess[s]))
                => Seated(SeatOf(sess[s]))']_vars
  BY StepSpares
<1> QED
  BY <1>1, Inductive, AlwaysApart, PTL DEF Spec, LateLeaveSparesRoom
=============================================================================
