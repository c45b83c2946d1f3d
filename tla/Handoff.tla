------------------------------ MODULE Handoff ------------------------------
(***************************************************************************)
(* internal/app/assets/app.js: one secret handed from its owner's page to  *)
(* the recipients that open its link, one after the other, over a WebRTC   *)
(* data channel each.  Three things have to come together before the owner *)
(* sends: the channel is connected, the ECDH key is derived, and the       *)
(* recipient's browser has answered a challenge.  They come in any order,  *)
(* each calls flushPendingSecret, and a retry timer, the recipient's       *)
(* watchdog and its acknowledgement deal with what goes wrong after that.  *)
(*                                                                         *)
(* JavaScript runs a handler up to its next await, so a step here is what  *)
(* runs between two awaits; anything may happen before the handler         *)
(* resumes, a reset of the link and a new recipient included.              *)
(*                                                                         *)
(* A guest is one link of one recipient's page.  The exchange of offer,    *)
(* answer and candidates is reduced to its outcome (MeetGuest), and so are *)
(* reconnects: a recipient's second link is another guest, and what its    *)
(* page still awaits for the first is not sent on it.  A channel is        *)
(* reliable and ordered until it closes, and after the local close() of a  *)
(* connection its handlers are not called any more.                        *)
(***************************************************************************)
EXTENDS Naturals, Sequences, FiniteSets

CONSTANTS
  Guests,         \* links the secret is offered on
  NoOne,
  BurnAfterRead,  \* pendingSecret.burnAfterRead
  MaxAttempts,    \* SECRET_RETRY_MAX_ATTEMPTS
  MaxFlights,     \* bound: calls of flushPendingSecret awaiting at the same time
  MaxQueue,       \* bound: messages on their way in one direction
  MaxToggles,     \* bound: how often the owner uses the on/off button
  MaxChallenges   \* bound: challenges the owner issues

ASSUME HandoffAssumption ==
  /\ NoOne \notin Guests /\ "started" \notin Guests
  /\ BurnAfterRead \in BOOLEAN
  /\ MaxAttempts \in Nat
  /\ MaxFlights \in Nat
  /\ MaxQueue \in Nat
  /\ MaxToggles \in Nat
  /\ MaxChallenges \in Nat

VARIABLES
  own,      \* the owner's session: its link, keys, timers and calls in flight
  secret,   \* session.pendingSecret, its stored copy and what became of it
  page,     \* guest -> the recipient's page
  await,    \* guest -> the owner's handlers of its messages that are awaiting
  toGuest,  \* guest -> messages on their way from the owner
  toOwner   \* guest -> messages on their way to the owner

vars == <<own, secret, page, await, toGuest, toOwner>>

-----------------------------------------------------------------------------
(* Data *)

Started == "started"   \* a flush that has not read the base key yet
Flight == Guests \cup {Started}

Owner == [
  link : Guests \cup {NoOne},      \* whose session.channel is
  channel : {"none", "connecting", "open", "closed"},   \* its readyState
  connected : BOOLEAN,             \* isConnected
  key : Guests \cup {NoOne},       \* whose ECDH secret baseKeyBytes is
  identity : Guests \cup {NoOne},  \* whose remoteIdentityPublicKey is
  challenge : 0..MaxChallenges,    \* validationChallenge, 0 for null
  issued : 0..MaxChallenges,       \* challenges drawn so far
  validated : BOOLEAN,             \* peerValidated
  acked : BOOLEAN,                 \* deliveryAcked
  attempts : 0..MaxAttempts,       \* secretRetryAttempts, saturating
  retry : BOOLEAN,                 \* secretRetryTimer is set
  recent : BOOLEAN,                \* lastSecretSentAt is less than 700 ms ago
  flights : [Flight -> Nat]]       \* flushes, by the key they will use

Unlinked == [
  link |-> NoOne, channel |-> "none", connected |-> FALSE, key |-> NoOne,
  identity |-> NoOne, challenge |-> 0, issued |-> 0, validated |-> FALSE,
  acked |-> FALSE, attempts |-> 0, retry |-> FALSE, recent |-> FALSE,
  flights |-> [f \in Flight |-> 0]]

Secret == [
  active : BOOLEAN, sent : BOOLEAN, kept : BOOLEAN, burned : BOOLEAN,
  wiped : {"no", "failed", "done"}, toggles : 0..MaxToggles]

Page == [
  at : {"away", "open", "gone"},
  channel : {"connecting", "open", "closed"},
  key : BOOLEAN,                                     \* baseKeyBytes is set
  card : {"waiting", "sealed", "off", "garbled", "read"},
  signing : SUBSET (1..MaxChallenges),               \* challenges it is signing
  watch : BOOLEAN,                                   \* secretWatchdogTimer is set
  asked : 0..MaxAttempts]                            \* secretWatchdogAttempts
Waiting == [at |-> "away", channel |-> "connecting", key |-> FALSE,
            card |-> "waiting", signing |-> {}, watch |-> FALSE, asked |-> 0]

Awaits == [answer : {"none", "sent", "deriving", "done"},
           hello : {"none", "hashing", "done"},
           pong : {"none", "verifying", "done"}]

Message(kind) == [kind |-> kind]
Ping(n) == [kind |-> "ping", challenge |-> n]
Pong(n) == [kind |-> "pong", challenge |-> n]

\* Mutant of SecretUnder: active is read before the awaits of the flush.
SecretUnderOfBefore(k) == [kind |-> "secret", key |-> k, active |-> TRUE]

SecretUnder(k) == [kind |-> "secret", key |-> k, active |-> secret.active]
Toggled(on) == [kind |-> "toggle", active |-> on]

MessageToGuest ==
  [kind : {"validated", "unavailable", "delete"}]
    \cup [kind : {"ping"}, challenge : 1..MaxChallenges]
    \cup [kind : {"secret"}, key : Guests \cup {NoOne}, active : BOOLEAN]
    \cup [kind : {"toggle"}, active : BOOLEAN]
MessageToOwner ==
  [kind : {"hello", "request-secret", "secret-received", "burn"}]
    \cup [kind : {"pong"}, challenge : 1..MaxChallenges]

-----------------------------------------------------------------------------
(* What the owner's handlers are made of *)

InFlight(o) == \E f \in Flight : o.flights[f] > 0

\* The bound on flushes, for any two of the things they can be awaiting.
Bounded(o) == \A e, f \in Flight : e # f => o.flights[e] + o.flights[f] <= MaxFlights

\* The owner's session becomes o.
OwnerBecomes(o) == Bounded(o) /\ own' = o

\* send() on the channel of o throws unless it is open.
CanSend(o) == o.link # NoOne /\ o.channel = "open"

\* What is sent is dropped once the other end is gone.
Queued(queue, g, messages) ==
  Len(queue[g]) + Len(messages) <= MaxQueue /\ queue' = [queue EXCEPT ![g] = @ \o messages]
Post(o, messages) ==
  IF CanSend(o) /\ page[o.link].at = "open" /\ page[o.link].channel # "closed"
  THEN Queued(toGuest, o.link, messages)
  ELSE UNCHANGED toGuest

\* flushPendingSecret up to its first await: the guards, and a call in flight.
Deliverable(o) == o.connected /\ o.key # NoOne /\ o.link # NoOne /\ o.validated

FlushPendingSecret(o, active, force) ==
  IF ~Deliverable(o) THEN o
  ELSE IF ~active \/ (o.acked /\ ~force) THEN [o EXCEPT !.retry = FALSE]
  ELSE IF o.recent /\ ~force THEN o
  ELSE [o EXCEPT !.flights[Started] = @ + 1]

\* scheduleSecretRetry.
ScheduleSecretRetry(o) ==
  IF o.acked \/ ~secret.active THEN o ELSE [o EXCEPT !.retry = o.attempts < MaxAttempts]

\* Mutant of ResetPeerLink: the last recipient's acknowledgement stays.
ResetKeepsAck(o) ==
  [Unlinked EXCEPT !.flights = o.flights, !.issued = o.issued, !.acked = o.acked]

\* resetPeerLink: everything about the peer is forgotten, but not the handlers
\* and flushes that are awaiting.
ResetPeerLink(o) == [Unlinked EXCEPT !.flights = o.flights, !.issued = o.issued]

-----------------------------------------------------------------------------
(* The link *)

Init ==
  /\ own = Unlinked
  /\ secret = [active |-> TRUE, sent |-> FALSE, kept |-> TRUE, burned |-> FALSE,
               wiped |-> "no", toggles |-> 0]
  /\ page = [g \in Guests |-> Waiting]
  /\ await = [g \in Guests |-> [answer |-> "none", hello |-> "none", pong |-> "none"]]
  /\ toGuest = [g \in Guests |-> <<>>]
  /\ toOwner = [g \in Guests |-> <<>>]

\* A recipient opened the link and its ready signal reached an owner without a
\* connection: the owner binds a channel and offers, the recipient derives the
\* key and answers.  (An owner with a connection ignores the signal.)
MeetGuest(g) ==
  /\ page[g].at = "away"
  /\ own.link = NoOne
  /\ secret.wiped # "done"
  /\ own' = [own EXCEPT !.link = g, !.channel = "connecting"]
  /\ page' = [page EXCEPT ![g].at = "open", ![g].key = TRUE]
  /\ await' = [await EXCEPT ![g].answer = "sent"]
  /\ UNCHANGED <<secret, toGuest, toOwner>>

\* handleAnswer, once the remote description is set: deriveBaseKey returns at
\* once if there is a key.  A connection closed meanwhile never gets here.
AnswerApplied(g) ==
  /\ await[g].answer = "sent"
  /\ own.link = g /\ own.channel # "closed"
  /\ \/ /\ own.key = NoOne
        /\ await' = [await EXCEPT ![g].answer = "deriving"]
        /\ UNCHANGED own
     \/ /\ own.key # NoOne
        /\ await' = [await EXCEPT ![g].answer = "done"]
        /\ OwnerBecomes(FlushPendingSecret(own, secret.active, FALSE))
  /\ UNCHANGED <<secret, page, toGuest, toOwner>>

\* Mutant of KeyDerived: handleAnswer ends without a flush.
KeyDerivedOnly(g) ==
  /\ await[g].answer = "deriving"
  /\ await' = [await EXCEPT ![g].answer = "done"]
  /\ own' = [own EXCEPT !.key = g]
  /\ UNCHANGED <<secret, page, toGuest, toOwner>>

\* The end of deriveBaseKey, and of handleAnswer.
KeyDerived(g) ==
  /\ await[g].answer = "deriving"
  /\ await' = [await EXCEPT ![g].answer = "done"]
  /\ OwnerBecomes(FlushPendingSecret([own EXCEPT !.key = g], secret.active, FALSE))
  /\ UNCHANGED <<secret, page, toGuest, toOwner>>

Negotiated(g) == await[g].answer \in {"deriving", "done"}

\* onconnectionstatechange: "connected", for the first time or again.
ConnectionUp(g) ==
  /\ own.link = g /\ own.channel \in {"connecting", "open"} /\ ~own.connected
  /\ Negotiated(g)
  /\ OwnerBecomes(FlushPendingSecret([own EXCEPT !.connected = TRUE], secret.active, FALSE))
  /\ UNCHANGED <<secret, page, await, toGuest, toOwner>>

\* onconnectionstatechange: "disconnected", which may pass.
ConnectionDown ==
  /\ own.connected /\ own.channel \in {"connecting", "open"}
  /\ own' = [own EXCEPT !.connected = FALSE]
  /\ UNCHANGED <<secret, page, await, toGuest, toOwner>>

\* bindDataChannel, onopen at the owner.
OwnerChannelOpens(g) ==
  LET opened == [own EXCEPT !.channel = "open", !.connected = TRUE]
  IN /\ own.link = g /\ own.channel = "connecting"
     /\ Negotiated(g)
     /\ \/ /\ secret.active
           /\ OwnerBecomes(FlushPendingSecret(opened, TRUE, FALSE))
           /\ UNCHANGED toGuest
        \/ /\ ~secret.active
           /\ own' = opened
           /\ Post(opened, <<Message("unavailable")>>)
     /\ UNCHANGED <<secret, page, await, toOwner>>

\* onclose at the owner, after the other end closed.
OwnerChannelCloses(g) ==
  /\ own.link = g /\ own.channel = "open"
  /\ page[g].at = "gone" \/ page[g].channel = "closed"
  /\ own' = [own EXCEPT !.channel = "closed", !.connected = FALSE, !.retry = FALSE]
  /\ toOwner' = [toOwner EXCEPT ![g] = <<>>]
  /\ UNCHANGED <<secret, page, await, toGuest>>

\* resetPeerLink on a peer-left event or by the reconnect timer.
LinkReset ==
  /\ own.link # NoOne
  /\ secret.wiped # "done"
  /\ own' = ResetPeerLink(own)
  /\ toOwner' = [toOwner EXCEPT ![own.link] = <<>>]
  /\ UNCHANGED <<secret, page, await, toGuest>>

-----------------------------------------------------------------------------
(* What the owner does with the recipient's messages *)

Take(g, kind) ==
  /\ own.link = g /\ own.channel = "open"
  /\ toOwner[g] # <<>> /\ Head(toOwner[g]).kind = kind
  /\ toOwner' = [toOwner EXCEPT ![g] = Tail(@)]

ReceiveHello(g) ==
  /\ Take(g, "hello")
  /\ await' = [await EXCEPT ![g].hello = "hashing"]
  /\ UNCHANGED <<own, secret, page, toGuest>>

\* sendValidationChallenge.
Challenge(o) ==
  IF o.link = NoOne \/ o.identity = NoOne
  THEN own' = o /\ UNCHANGED toGuest
  ELSE /\ o.issued < MaxChallenges
       /\ own' = [o EXCEPT !.issued = @ + 1, !.challenge = o.issued + 1]
       /\ Post(o, <<Ping(o.issued + 1)>>)

\* The browser id checked, the hello's key is taken and challenged.
HelloChecked(g) ==
  /\ await[g].hello = "hashing"
  /\ await' = [await EXCEPT ![g].hello = "done"]
  /\ Challenge([own EXCEPT !.identity = g])
  /\ UNCHANGED <<secret, page, toOwner>>

\* A pong that cannot be right is refused before the signature is looked at.
ReceivePong(g) ==
  /\ Take(g, "pong")
  /\ \/ /\ own.challenge = Head(toOwner[g]).challenge /\ own.identity = g
        /\ await' = [await EXCEPT ![g].pong = "verifying"]
        /\ UNCHANGED <<own, toGuest>>
     \/ /\ own.challenge # Head(toOwner[g]).challenge \/ own.identity # g
        /\ Challenge(own)
        /\ UNCHANGED await
  /\ UNCHANGED <<secret, page>>

\* The signature verified.  Telling the recipient throws on a channel that is
\* there but not open, and then nothing is flushed.
PongVerified(g) ==
  LET known == [own EXCEPT !.validated = TRUE, !.challenge = 0]
      threw == own.link # NoOne /\ own.channel # "open"
  IN /\ await[g].pong = "verifying"
     /\ await' = [await EXCEPT ![g].pong = "done"]
     /\ OwnerBecomes(IF threw THEN known ELSE FlushPendingSecret(known, secret.active, FALSE))
     /\ Post(own, <<Message("validated")>>)
     /\ UNCHANGED <<secret, page, toOwner>>

\* handleControl: secret-received, request-secret, burn (markBurned).
ReceiveAck(g) ==
  /\ Take(g, "secret-received")
  /\ own' = [own EXCEPT !.acked = TRUE, !.attempts = 0, !.retry = FALSE]
  /\ UNCHANGED <<secret, page, await, toGuest>>

ReceiveRequest(g) ==
  /\ Take(g, "request-secret")
  /\ OwnerBecomes(IF secret.active THEN FlushPendingSecret(own, TRUE, TRUE) ELSE own)
  /\ UNCHANGED <<secret, page, await, toGuest>>

ReceiveBurn(g) ==
  /\ Take(g, "burn")
  /\ secret' = [secret EXCEPT !.active = FALSE, !.kept = FALSE, !.burned = TRUE]
  /\ UNCHANGED <<own, page, await, toGuest>>

-----------------------------------------------------------------------------
(* The sending *)

\* derivePayloadKey reads the base key of the moment; without one it throws.
FlushKeyed ==
  LET going == [own EXCEPT !.flights[Started] = @ - 1]
  IN /\ own.flights[Started] > 0
     /\ OwnerBecomes(IF own.key = NoOne THEN ScheduleSecretRetry(going)
                     ELSE [going EXCEPT !.flights[own.key] = @ + 1])
     /\ UNCHANGED <<secret, page, await, toGuest, toOwner>>

Landed(k) == [own EXCEPT !.flights[k] = @ - 1]
Counted(o) == [o EXCEPT !.recent = TRUE, !.attempts = IF @ < MaxAttempts THEN @ + 1 ELSE @]

\* The payload key is that of k.  The PGP envelope inside is made after OpenPGP was
\* awaited, from the base key of that moment, which is another one, or none, if the
\* key of k has been replaced since: nobody can open that copy (NoOne).
CopyKeys(k) == {k} \cup (IF own.key = k THEN {} ELSE {NoOne})

\* The encrypted secret goes out on the channel of the moment, flagged with what
\* active is now.
FlushSends(k) ==
  /\ own.flights[k] > 0
  /\ CanSend(own)
  /\ own' = ScheduleSecretRetry(Counted(Landed(k)))
  /\ secret' = [secret EXCEPT !.sent = TRUE]
  /\ \E x \in CopyKeys(k) : Post(own, <<SecretUnder(x)>>)
  /\ UNCHANGED <<page, await, toOwner>>

\* Mutant of FlushFails: the catch block schedules nothing.
FlushGivesUp(k) ==
  /\ own.flights[k] > 0
  /\ own' = Landed(k)
  /\ UNCHANGED <<secret, page, await, toGuest, toOwner>>

\* OpenPGP does not load, or send throws: retried without counting as an attempt.
FlushFails(k) ==
  /\ own.flights[k] > 0
  /\ own' = ScheduleSecretRetry(Landed(k))
  /\ UNCHANGED <<secret, page, await, toGuest, toOwner>>

\* secretRetryTimer fires, 2200 ms after it was set: a send is not recent any more.
RetryFires ==
  /\ own.retry /\ ~own.recent
  /\ OwnerBecomes(FlushPendingSecret([own EXCEPT !.retry = FALSE], secret.active, TRUE))
  /\ UNCHANGED <<secret, page, await, toGuest, toOwner>>

\* 700 ms have passed since the last send.
SendAges ==
  /\ own.recent
  /\ own' = [own EXCEPT !.recent = FALSE]
  /\ UNCHANGED <<secret, page, await, toGuest, toOwner>>

-----------------------------------------------------------------------------
(* What the owner can do *)

\* Mutant of ToggleSecret: the recipient is not told.
ToggleUnannounced ==
  /\ secret.wiped # "done"
  /\ secret.toggles < MaxToggles
  /\ secret' = [secret EXCEPT !.active = ~@, !.kept = TRUE, !.toggles = @ + 1]
  /\ UNCHANGED <<own, page, await, toGuest, toOwner>>

\* toggleSecret: the stored copy is written again.  A channel that is not open
\* makes send throw, as the last thing the click does.
ToggleSecret ==
  LET on == ~secret.active
  IN /\ secret.wiped # "done"
     /\ secret.toggles < MaxToggles
     /\ secret' = [secret EXCEPT !.active = on, !.kept = TRUE, !.toggles = @ + 1]
     /\ OwnerBecomes(IF on /\ ~(secret.sent /\ own.link # NoOne)
                     THEN FlushPendingSecret(own, TRUE, FALSE) ELSE own)
     /\ Post(own, (IF secret.sent THEN <<Toggled(on)>> ELSE <<>>)
                    \o (IF on THEN <<>> ELSE <<Message("unavailable")>>))
     /\ UNCHANGED <<page, await, toOwner>>

\* leaveSession closes the link, and with it what the recipient still sends.
\* It is not reached when telling the recipient has thrown.
Wipe(news) ==
  LET left == [own EXCEPT !.channel = IF own.link = NoOne THEN "none" ELSE "closed",
                          !.retry = FALSE]
      threw == news # <<>> /\ own.link # NoOne /\ own.channel # "open"
  IN /\ secret' = [secret EXCEPT !.kept = FALSE, !.wiped = IF threw THEN "failed" ELSE "done"]
     /\ own' = IF threw THEN own ELSE left
     /\ toOwner' = IF threw \/ own.link = NoOne THEN toOwner ELSE [toOwner EXCEPT ![own.link] = <<>>]
     /\ Post(own, news)
     /\ UNCHANGED <<page, await>>

\* deleteSecret, the owner's click.
DeleteSecret ==
  /\ secret.wiped # "done"
  /\ Wipe(IF secret.sent THEN <<Message("delete")>> ELSE <<>>)

\* expireSecret, by the timer of the TTL, which fires once and not after a burn.
ExpireSecret ==
  /\ secret.wiped = "no" /\ ~secret.burned
  /\ Wipe(<<Message(IF secret.sent THEN "delete" ELSE "unavailable")>>)

-----------------------------------------------------------------------------
(* The recipient's page *)

Reply(g, messages) ==
  IF page[g].channel = "open" /\ own.link = g /\ own.channel \in {"connecting", "open"}
  THEN Queued(toOwner, g, messages)
  ELSE UNCHANGED toOwner

\* scheduleSecretWatchdog: asked again as long as nothing was received.
Watching(object) == [object EXCEPT !.watch = object.card = "waiting" /\ object.asked < MaxAttempts]

\* bindDataChannel, onopen at the recipient.
GuestChannelOpens(g) ==
  /\ page[g].at = "open" /\ page[g].channel = "connecting"
  /\ Negotiated(g)
  /\ page' = [page EXCEPT ![g] = Watching([@ EXCEPT !.channel = "open", !.asked = 0])]
  /\ IF own.link = g /\ own.channel # "closed"
     THEN Queued(toOwner, g, <<Message("hello")>>) ELSE UNCHANGED toOwner
  /\ UNCHANGED <<own, secret, await, toGuest>>

GuestTakes(g, kinds) ==
  /\ page[g].at = "open" /\ page[g].channel = "open"
  /\ toGuest[g] # <<>> /\ Head(toGuest[g]).kind \in kinds
  /\ toGuest' = [toGuest EXCEPT ![g] = Tail(@)]

\* handleIdentityMessage at the recipient, up to the signature and from there on.
AnswerPing(g) ==
  /\ GuestTakes(g, {"ping"})
  /\ page' = [page EXCEPT ![g].signing = @ \cup {Head(toGuest[g]).challenge}]
  /\ UNCHANGED <<own, secret, await, toOwner>>
PingSigned(g) ==
  /\ \E n \in page[g].signing :
       /\ page' = [page EXCEPT ![g].signing = @ \ {n}]
       /\ Reply(g, <<Pong(n)>>)
  /\ UNCHANGED <<own, secret, await, toGuest>>

BecomesValidated(g) ==
  /\ GuestTakes(g, {"validated"})
  /\ page' = [page EXCEPT ![g] = Watching(@)]
  /\ UNCHANGED <<own, secret, await, toOwner>>

\* renderReceivedSecret: the card starts over with every secret that arrives.
\* One encrypted under another key than this page's cannot be opened.
RenderSecret(g) ==
  LET message == Head(toGuest[g])
  IN /\ GuestTakes(g, {"secret"})
     /\ page' = [page EXCEPT ![g].watch = FALSE, ![g].asked = 0,
                   ![g].card = IF ~message.active THEN "off"
                               ELSE IF message.key = g THEN "sealed" ELSE "garbled"]
     /\ Reply(g, <<Message("secret-received")>>)
     /\ UNCHANGED <<own, secret, await>>

\* handleControl: everything but a toggle to on sends the recipient home.
StaysOn(g) ==
  /\ GuestTakes(g, {"toggle"}) /\ Head(toGuest[g]).active
  /\ UNCHANGED <<own, secret, page, await, toOwner>>

Gone(object) ==
  [object EXCEPT !.at = "gone", !.channel = "closed", !.key = FALSE, !.signing = {}, !.watch = FALSE]

RedirectHome(g) ==
  /\ page[g].at = "open" /\ page[g].channel = "open"
  /\ toGuest[g] # <<>>
  /\ \/ Head(toGuest[g]).kind \in {"unavailable", "delete"}
     \/ Head(toGuest[g]).kind = "toggle" /\ ~Head(toGuest[g]).active
  /\ page' = [page EXCEPT ![g] = Gone(@)]
  /\ toGuest' = [toGuest EXCEPT ![g] = <<>>]
  /\ UNCHANGED <<own, secret, await, toOwner>>

\* The DECRYPT button, with the right factor.  The plaintext is shown before the
\* owner is told, so it is shown on a closed channel too.  (decrypt-success and
\* decrypt-failed only make the owner's page show a toast.)
OpenSecret(g) ==
  /\ page[g].at = "open" /\ page[g].card = "sealed" /\ page[g].key
  /\ page' = [page EXCEPT ![g].card = "read"]
  /\ Reply(g, IF BurnAfterRead THEN <<Message("burn")>> ELSE <<>>)
  /\ UNCHANGED <<own, secret, await, toGuest>>

\* Mutant of WatchdogFires: the attempts are not counted.
WatchdogFiresForever(g) ==
  /\ page[g].watch
  /\ page' = [page EXCEPT ![g].asked = @ + 1]
  /\ Reply(g, <<Message("request-secret")>>)
  /\ UNCHANGED <<own, secret, await, toGuest>>

\* secretWatchdogTimer fires: the timer is cleared whenever a secret arrives or
\* the channel closes.
WatchdogFires(g) ==
  /\ page[g].watch
  /\ page' = [page EXCEPT ![g] = Watching([page[g] EXCEPT !.asked = @ + 1])]
  /\ Reply(g, <<Message("request-secret")>>)
  /\ UNCHANGED <<own, secret, await, toGuest>>

\* onclose at the recipient: its network failed, or the owner closed its end.
GuestLinkLost(g) ==
  /\ page[g].at = "open" /\ page[g].channel = "open"
  /\ page' = [page EXCEPT ![g].channel = "closed", ![g].watch = FALSE]
  /\ toGuest' = [toGuest EXCEPT ![g] = <<>>]
  /\ UNCHANGED <<own, secret, await, toOwner>>

\* The recipient's reconnect timer: resetPeerLink forgets its key.
GuestResets(g) ==
  /\ page[g].at = "open" /\ page[g].channel = "closed" /\ page[g].key
  /\ page' = [page EXCEPT ![g].key = FALSE]
  /\ UNCHANGED <<own, secret, await, toGuest, toOwner>>

\* The recipient closes the page.
GuestLeaves(g) ==
  /\ page[g].at = "open"
  /\ page' = [page EXCEPT ![g] = Gone(@)]
  /\ toGuest' = [toGuest EXCEPT ![g] = <<>>]
  /\ UNCHANGED <<own, secret, await, toOwner>>

-----------------------------------------------------------------------------
OwnerHandles(g) ==
  \/ AnswerApplied(g) \/ KeyDerived(g) \/ OwnerChannelOpens(g) \/ OwnerChannelCloses(g)
  \/ ReceiveHello(g) \/ HelloChecked(g) \/ ReceivePong(g) \/ PongVerified(g)
  \/ ReceiveAck(g) \/ ReceiveRequest(g) \/ ReceiveBurn(g)

GuestHandles(g) ==
  \/ GuestChannelOpens(g) \/ AnswerPing(g) \/ PingSigned(g) \/ BecomesValidated(g) \/ RenderSecret(g)
  \/ StaysOn(g) \/ RedirectHome(g) \/ WatchdogFires(g)

Next ==
  \/ \E g \in Guests : OwnerHandles(g) \/ GuestHandles(g) \/ ConnectionUp(g)
  \/ \E g \in Guests : MeetGuest(g) \/ OpenSecret(g) \/ GuestLeaves(g)
                         \/ GuestLinkLost(g) \/ GuestResets(g)
  \/ \E k \in Guests : FlushSends(k) \/ FlushFails(k)
  \/ FlushKeyed \/ RetryFires \/ SendAges
  \/ ConnectionDown \/ LinkReset
  \/ ToggleSecret \/ DeleteSecret \/ ExpireSecret

Spec == Init /\ [][Next]_vars

\* Handlers and flushes resume, messages are delivered, timers fire and a connection is
\* reported; OpenPGP may fail to load, but not every time.  (Flushes in flight at
\* their bound hold up a handler of the owner, which nothing does in the code: the
\* fairness of these handlers is strong.)  Nobody has to open, read, leave or click
\* anything.
Fairness ==
  /\ \A g \in Guests : SF_vars(OwnerHandles(g)) /\ WF_vars(GuestHandles(g)) /\ WF_vars(ConnectionUp(g))
  /\ \A g \in Guests : WF_vars(FlushSends(g) \/ FlushFails(g)) /\ SF_vars(FlushSends(g))
  /\ WF_vars(FlushKeyed) /\ WF_vars(RetryFires) /\ WF_vars(SendAges)

FairSpec == Spec /\ Fairness

-----------------------------------------------------------------------------
(* Properties *)

\* The variables have the shapes of the session, pendingSecret and messages;
\* no counter exceeds its limit, and no more than MaxFlights flushes are awaiting.
TypeOK ==
  /\ own \in Owner
  /\ secret \in Secret
  /\ page \in [Guests -> Page]
  /\ await \in [Guests -> Awaits]
  /\ toGuest \in [Guests -> Seq(MessageToGuest)]
  /\ toOwner \in [Guests -> Seq(MessageToOwner)]
  /\ Bounded(own)

\* The link of guest g works, as far as both ends know.
Linked(g) ==
  /\ own.link = g /\ own.channel = "open"
  /\ page[g].at = "open" /\ page[g].channel = "open"

Dismissed(g) ==
  \E i \in DOMAIN toGuest[g] : toGuest[g][i].kind \in {"unavailable", "delete"}

\* deliveryAcked speaks of the recipient that is linked now: it stops the
\* retries, so an acknowledgement left over from an earlier one would leave
\* this one without the secret.
AckMeansReceived ==
  \A g \in Guests : own.acked /\ own.link = g => page[g].card # "waiting"

\* No wake-up is lost.  Whenever everything has come together for a recipient
\* that has not acknowledged, in whatever order it came, a flush is awaiting or
\* the retry timer is set, unless the attempts are used up.
NoLostWakeup ==
  \A g \in Guests :
    /\ Linked(g) /\ ~Dismissed(g)
    /\ Deliverable(own) /\ secret.active /\ ~own.acked
    => InFlight(own) \/ own.retry \/ own.attempts = MaxAttempts

\* Turning the secret off reaches the recipient whatever is on its way: once it
\* has handled all that was sent, it is not left with a secret to open that is
\* off.  (Off by a burn is another matter: a second copy of the secret that was
\* on its way can still be opened by the recipient that read the first.)
OffReachesGuest ==
  \A g \in Guests :
    Linked(g) /\ toGuest[g] = <<>> /\ page[g].card = "sealed"
      => secret.active \/ secret.burned

\* Copies of the secret that guest g can open, or will be able to.
Copies(g) ==
  (IF page[g].card = "sealed" THEN 1 ELSE 0)
    + Cardinality({i \in DOMAIN toGuest[g] :
                     toGuest[g][i] = [kind |-> "secret", key |-> g, active |-> TRUE]})

\* From the moment the owner knows that the secret is burned, or has switched it
\* off, until it is on again, no recipient gets another copy to open: neither the
\* flushes that were awaiting, nor the retry timer, nor a request of the watchdog
\* that was on its way sends one.  What can still be opened was sent before.
OffIsNotCopied ==
  [][~secret.active /\ ~secret'.active => \A g \in Guests : Copies(g)' <= Copies(g)]_vars

\* The link of guest g stays up, as far as it goes.
Stays(g) ==
  /\ own.link = g /\ own.channel # "closed"
  /\ page[g].at = "open" /\ page[g].channel # "closed"

\* A key, or a flush that is awaiting, that another link than g's left behind.
LeftBehind(g) ==
  \/ own.key \notin {NoOne, g}
  \/ \E h \in Guests \ {g} : own.flights[h] > 0 \/ await[h].hello = "hashing"

\* A recipient whose link stays up while the secret stays on gets a copy of it that it
\* can open, unless something of an earlier link reaches into its own: a key derived late
\* is taken for the new link's (deriveBaseKey returns at once when there is one), and a
\* flush that was awaiting sends a copy under the old key; either copy is acknowledged,
\* and no other follows.  An identity checked late replaces the new recipient's, whose
\* answers are then refused.
EventuallyDelivered ==
  \A g \in Guests :
    [](own.link = g => ~LeftBehind(g)) /\ <>[](Stays(g) /\ secret.active)
      => <>(page[g].card \in {"sealed", "read"})

-----------------------------------------------------------------------------
(* What the documentation and the interface say, and the code does not do *)

\* This step sends guest g the secret, under its own key.
Delivers(g) ==
  /\ Len(toGuest'[g]) > Len(toGuest[g])
  /\ toGuest'[g][Len(toGuest'[g])] = [kind |-> "secret", key |-> g, active |-> TRUE]

\* README.md: "The sender validates the recipient browser identity before
\* delivering".
ValidatedBeforeDelivery ==
  [][\A g \in Guests : Delivers(g) => await[g].pong = "done"]_vars

\* README.md: "optional TTL auto-wipe".  Once the timer has fired, or the owner
\* has deleted the secret, it is not sent any more.
WipedIsNotSent ==
  [][\A g \in Guests : Delivers(g) => secret.wiped = "no"]_vars
=============================================================================
