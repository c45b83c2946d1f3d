--------------------------- MODULE HandoffProofs ---------------------------
(***************************************************************************)
(* Proofs about the hand-off, for any number of recipients, any number of  *)
(* attempts and whatever bounds the exploration of the model.              *)
(***************************************************************************)
EXTENDS Handoff, FiniteSetTheorems, SequenceTheorems, TLAPS

USE HandoffAssumption

-----------------------------------------------------------------------------
(* Types *)

LEMMA MessageTypes ==
  /\ \A kind \in {"validated", "unavailable", "delete"} : Message(kind) \in MessageToGuest
  /\ \A n \in 1..MaxChallenges : Ping(n) \in MessageToGuest /\ Pong(n) \in MessageToOwner
  /\ \A on \in BOOLEAN : Toggled(on) \in MessageToGuest
  /\ \A kind \in {"hello", "request-secret", "secret-received", "burn"} :
       Message(kind) \in MessageToOwner
BY DEF Message, Ping, Pong, Toggled, MessageToGuest, MessageToOwner

LEMMA SecretType ==
  ASSUME secret \in Secret, NEW k \in Guests, NEW x \in CopyKeys(k)
  PROVE  SecretUnder(x) \in MessageToGuest
<1>1. secret.active \in BOOLEAN
  BY DEF Secret
<1>2. x \in Guests \cup {NoOne}
  BY DEF CopyKeys
<1> QED
  BY <1>1, <1>2 DEF SecretUnder, MessageToGuest

\* A session with the shape of one, and no more flushes than the bound allows.
Sound(o) == o \in Owner /\ Bounded(o)

LEMMA SameFlightsSound ==
  ASSUME NEW o, NEW p \in Owner, Sound(o), p.flights = o.flights
  PROVE  Sound(p)
BY DEF Sound, Bounded

\* The handlers' assignments to the session.
LEMMA OwnerTypes ==
  ASSUME NEW o, Sound(o)
  PROVE  /\ \A g \in Guests : Sound([o EXCEPT !.link = g, !.channel = "connecting"])
         /\ \A g \in Guests : Sound([o EXCEPT !.key = g])
         /\ \A g \in Guests : Sound([o EXCEPT !.identity = g])
         /\ Sound([o EXCEPT !.connected = TRUE])
         /\ Sound([o EXCEPT !.connected = FALSE])
         /\ Sound([o EXCEPT !.channel = "open", !.connected = TRUE])
         /\ Sound([o EXCEPT !.channel = "closed", !.connected = FALSE, !.retry = FALSE])
         /\ Sound([o EXCEPT !.channel = "closed", !.retry = FALSE])
         /\ Sound([o EXCEPT !.channel = "none", !.retry = FALSE])
         /\ Sound([o EXCEPT !.validated = TRUE, !.challenge = 0])
         /\ Sound([o EXCEPT !.acked = TRUE, !.attempts = 0, !.retry = FALSE])
         /\ Sound([o EXCEPT !.retry = FALSE])
         /\ Sound([o EXCEPT !.recent = FALSE])
<1> /\ o \in Owner
    /\ 0 \in 0..MaxAttempts /\ 0 \in 0..MaxChallenges
  BY DEF Sound
<1>1. ASSUME NEW g \in Guests
      PROVE  Sound([o EXCEPT !.link = g, !.channel = "connecting"])
  <2>1. [o EXCEPT !.link = g, !.channel = "connecting"] \in Owner
    BY DEF Owner
  <2>2. [o EXCEPT !.link = g, !.channel = "connecting"].flights = o.flights
    BY DEF Owner
  <2> QED
    BY <2>1, <2>2, SameFlightsSound
<1>2. ASSUME NEW g \in Guests
      PROVE  Sound([o EXCEPT !.key = g])
  <2>1. [o EXCEPT !.key = g] \in Owner
    BY DEF Owner
  <2>2. [o EXCEPT !.key = g].flights = o.flights
    BY DEF Owner
  <2> QED
    BY <2>1, <2>2, SameFlightsSound
<1>3. ASSUME NEW g \in Guests
      PROVE  Sound([o EXCEPT !.identity = g])
  <2>1. [o EXCEPT !.identity = g] \in Owner
    BY DEF Owner
  <2>2. [o EXCEPT !.identity = g].flights = o.flights
    BY DEF Owner
  <2> QED
    BY <2>1, <2>2, SameFlightsSound
<1>4. Sound([o EXCEPT !.connected = TRUE])
  <2>1. [o EXCEPT !.connected = TRUE] \in Owner
    BY DEF Owner
  <2>2. [o EXCEPT !.connected = TRUE].flights = o.flights
    BY DEF Owner
  <2> QED
    BY <2>1, <2>2, SameFlightsSound
<1>5. Sound([o EXCEPT !.connected = FALSE])
  <2>1. [o EXCEPT !.connected = FALSE] \in Owner
    BY DEF Owner
  <2>2. [o EXCEPT !.connected = FALSE].flights = o.flights
    BY DEF Owner
  <2> QED
    BY <2>1, <2>2, SameFlightsSound
<1>6. Sound([o EXCEPT !.channel = "open", !.connected = TRUE])
  <2>1. [o EXCEPT !.channel = "open", !.connected = TRUE] \in Owner
    BY DEF Owner
  <2>2. [o EXCEPT !.channel = "open", !.connected = TRUE].flights = o.flights
    BY DEF Owner
  <2> QED
    BY <2>1, <2>2, SameFlightsSound
<1>7. Sound([o EXCEPT !.channel = "closed", !.connected = FALSE, !.retry = FALSE])
  <2>1. [o EXCEPT !.channel = "closed", !.connected = FALSE, !.retry = FALSE] \in Owner
    BY DEF Owner
  <2>2. [o EXCEPT !.channel = "closed", !.connected = FALSE, !.retry = FALSE].flights = o.flights
    BY DEF Owner
  <2> QED
    BY <2>1, <2>2, SameFlightsSound
<1>8. Sound([o EXCEPT !.channel = "closed", !.retry = FALSE])
  <2>1. [o EXCEPT !.channel = "closed", !.retry = FALSE] \in Owner
    BY DEF Owner
  <2>2. [o EXCEPT !.channel = "closed", !.retry = FALSE].flights = o.flights
    BY DEF Owner
  <2> QED
    BY <2>1, <2>2, SameFlightsSound
<1>9. Sound([o EXCEPT !.channel = "none", !.retry = FALSE])
  <2>1. [o EXCEPT !.channel = "none", !.retry = FALSE] \in Owner
    BY DEF Owner
  <2>2. [o EXCEPT !.channel = "none", !.retry = FALSE].flights = o.flights
    BY DEF Owner
  <2> QED
    BY <2>1, <2>2, SameFlightsSound
<1>10. Sound([o EXCEPT !.validated = TRUE, !.challenge = 0])
  <2>1. [o EXCEPT !.validated = TRUE, !.challenge = 0] \in Owner
    BY DEF Owner
  <2>2. [o EXCEPT !.validated = TRUE, !.challenge = 0].flights = o.flights
    BY DEF Owner
  <2> QED
    BY <2>1, <2>2, SameFlightsSound
<1>11. Sound([o EXCEPT !.acked = TRUE, !.attempts = 0, !.retry = FALSE])
  <2>1. [o EXCEPT !.acked = TRUE, !.attempts = 0, !.retry = FALSE] \in Owner
    BY DEF Owner
  <2>2. [o EXCEPT !.acked = TRUE, !.attempts = 0, !.retry = FALSE].flights = o.flights
    BY DEF Owner
  <2> QED
    BY <2>1, <2>2, SameFlightsSound
<1>12. Sound([o EXCEPT !.retry = FALSE])
  <2>1. [o EXCEPT !.retry = FALSE] \in Owner
    BY DEF Owner
  <2>2. [o EXCEPT !.retry = FALSE].flights = o.flights
    BY DEF Owner
  <2> QED
    BY <2>1, <2>2, SameFlightsSound
<1>13. Sound([o EXCEPT !.recent = FALSE])
  <2>1. [o EXCEPT !.recent = FALSE] \in Owner
    BY DEF Owner
  <2>2. [o EXCEPT !.recent = FALSE].flights = o.flights
    BY DEF Owner
  <2> QED
    BY <2>1, <2>2, SameFlightsSound
<1> QED
  BY <1>1, <1>2, <1>3, <1>4, <1>5, <1>6, <1>7, <1>8, <1>9, <1>10, <1>11, <1>12, <1>13

LEMMA UnlinkedSound == Sound(Unlinked)
BY DEF Sound, Bounded, Unlinked, Owner, Flight

LEMMA FlushType ==
  ASSUME NEW o \in Owner, NEW active, NEW force
  PROVE  FlushPendingSecret(o, active, force) \in Owner
<1>1. [o EXCEPT !.retry = FALSE] \in Owner
  BY DEF Owner
<1>2. [o EXCEPT !.flights[Started] = @ + 1] \in Owner
  BY DEF Owner, Flight
<1> QED
  BY <1>1, <1>2 DEF FlushPendingSecret

\* The bound on flushes is OwnerBecomes's.
LEMMA BecomesSound ==
  ASSUME NEW o \in Owner, NEW active, NEW force,
         OwnerBecomes(FlushPendingSecret(o, active, force)) \/ OwnerBecomes(o)
  PROVE  Sound(own')
BY FlushType DEF OwnerBecomes, Sound

LEMMA ScheduleSound ==
  ASSUME NEW o, Sound(o)
  PROVE  Sound(ScheduleSecretRetry(o))
<1>1. (o.attempts < MaxAttempts) \in BOOLEAN
  BY DEF Owner, Sound
<1>2. [o EXCEPT !.retry = o.attempts < MaxAttempts] \in Owner
  BY <1>1 DEF Owner, Sound
<1>3. [o EXCEPT !.retry = o.attempts < MaxAttempts].flights = o.flights
  BY DEF Owner, Sound
<1> QED
  BY <1>2, <1>3, SameFlightsSound DEF ScheduleSecretRetry

LEMMA ResetSound ==
  ASSUME NEW o, Sound(o)
  PROVE  Sound(ResetPeerLink(o))
<1>1. ResetPeerLink(o) \in Owner
  BY UnlinkedSound DEF ResetPeerLink, Owner, Sound
<1>2. ResetPeerLink(o).flights = o.flights
  BY DEF ResetPeerLink, Unlinked
<1> QED
  BY <1>1, <1>2, SameFlightsSound

LEMMA LandedSound ==
  ASSUME Sound(own), NEW k \in Flight, own.flights[k] > 0
  PROVE  Sound(Landed(k))
<1>1. own.flights \in [Flight -> Nat]
  BY DEF Owner, Sound
<1>2. Landed(k).flights = [own.flights EXCEPT ![k] = @ - 1]
  BY DEF Landed, Owner, Sound
<1>3. Landed(k).flights \in [Flight -> Nat]
  BY <1>1, <1>2
<1>4. Landed(k) \in Owner
  BY <1>2, <1>3 DEF Landed, Owner, Sound
<1>5. \A f \in Flight : Landed(k).flights[f] <= own.flights[f]
  BY <1>1, <1>2
<1> QED
  BY <1>1, <1>3, <1>4, <1>5 DEF Bounded, Sound

LEMMA CountedSound ==
  ASSUME NEW o, Sound(o)
  PROVE  Sound(Counted(o))
<1>1. (IF o.attempts < MaxAttempts THEN o.attempts + 1 ELSE o.attempts) \in 0..MaxAttempts
  BY DEF Owner, Sound
<1>2. Counted(o) \in Owner /\ Counted(o).flights = o.flights
  BY <1>1 DEF Counted, Owner, Sound
<1> QED
  BY <1>2, SameFlightsSound

\* What is sent to the recipient is a sequence of its messages.
LEMMA PostType ==
  ASSUME NEW o \in Owner, NEW messages \in Seq(MessageToGuest),
         toGuest \in [Guests -> Seq(MessageToGuest)], Post(o, messages)
  PROVE  toGuest' \in [Guests -> Seq(MessageToGuest)]
<1>1. CASE Queued(toGuest, o.link, messages) /\ o.link \in Guests
  <2>1. toGuest[o.link] \o messages \in Seq(MessageToGuest)
    BY <1>1
  <2> QED
    BY <1>1, <2>1 DEF Queued
<1>2. CASE UNCHANGED toGuest
  BY <1>2
<1> QED
  BY <1>1, <1>2 DEF Post, CanSend, Owner

LEMMA ReplyType ==
  ASSUME NEW g \in Guests, NEW messages \in Seq(MessageToOwner),
         toOwner \in [Guests -> Seq(MessageToOwner)],
         Queued(toOwner, g, messages) \/ UNCHANGED toOwner
  PROVE  toOwner' \in [Guests -> Seq(MessageToOwner)]
<1>1. toOwner[g] \o messages \in Seq(MessageToOwner)
  OBVIOUS
<1> QED
  BY <1>1 DEF Queued

LEMMA TakeType ==
  ASSUME NEW g \in Guests, NEW kind, toOwner \in [Guests -> Seq(MessageToOwner)], Take(g, kind)
  PROVE  /\ toOwner' \in [Guests -> Seq(MessageToOwner)]
         /\ Head(toOwner[g]) \in MessageToOwner
BY DEF Take

LEMMA GuestTakesType ==
  ASSUME NEW g \in Guests, NEW kinds, toGuest \in [Guests -> Seq(MessageToGuest)],
         GuestTakes(g, kinds)
  PROVE  /\ toGuest' \in [Guests -> Seq(MessageToGuest)]
         /\ Head(toGuest[g]) \in MessageToGuest
BY DEF GuestTakes

\* The handlers' assignments to the recipient's page, and to a handler's state.
LEMMA PageTypes ==
  ASSUME NEW object \in Page
  PROVE  /\ Watching(object) \in Page
         /\ Gone(object) \in Page
         /\ [object EXCEPT !.at = "open", !.key = TRUE] \in Page
         /\ [object EXCEPT !.channel = "open", !.asked = 0] \in Page
         /\ [object EXCEPT !.channel = "closed", !.watch = FALSE] \in Page
         /\ [object EXCEPT !.key = FALSE] \in Page
         /\ [object EXCEPT !.card = "read"] \in Page
         /\ \A card \in {"off", "sealed", "garbled"} :
              [object EXCEPT !.watch = FALSE, !.asked = 0, !.card = card] \in Page
         /\ object.asked < MaxAttempts => [object EXCEPT !.asked = @ + 1] \in Page
<1> 0 \in 0..MaxAttempts
  OBVIOUS
<1>1. Watching(object) \in Page
  <2>1. (object.card = "waiting" /\ object.asked < MaxAttempts) \in BOOLEAN
    OBVIOUS
  <2> QED
    BY <2>1 DEF Watching, Page
<1>2. Gone(object) \in Page
  BY DEF Gone, Page
<1>3. [object EXCEPT !.at = "open", !.key = TRUE] \in Page
  BY DEF Page
<1>4. [object EXCEPT !.channel = "open", !.asked = 0] \in Page
  BY DEF Page
<1>5. [object EXCEPT !.channel = "closed", !.watch = FALSE] \in Page
  BY DEF Page
<1>6. [object EXCEPT !.key = FALSE] \in Page
  BY DEF Page
<1>7. [object EXCEPT !.card = "read"] \in Page
  BY DEF Page
<1>8. ASSUME NEW card \in {"off", "sealed", "garbled"}
      PROVE  [object EXCEPT !.watch = FALSE, !.asked = 0, !.card = card] \in Page
  BY DEF Page
<1>9. ASSUME object.asked < MaxAttempts
      PROVE  [object EXCEPT !.asked = @ + 1] \in Page
  BY <1>9 DEF Page
<1> QED
  BY <1>1, <1>2, <1>3, <1>4, <1>5, <1>6, <1>7, <1>8, <1>9

LEMMA AwaitTypes ==
  ASSUME NEW a \in Awaits
  PROVE  /\ \A to \in {"sent", "deriving", "done"} : [a EXCEPT !.answer = to] \in Awaits
         /\ \A to \in {"hashing", "done"} : [a EXCEPT !.hello = to] \in Awaits
         /\ \A to \in {"verifying", "done"} : [a EXCEPT !.pong = to] \in Awaits
BY DEF Awaits

LEMMA UpdateType ==
  ASSUME NEW S, NEW T, NEW f \in [S -> T], NEW x \in S, NEW y \in T
  PROVE  [f EXCEPT ![x] = y] \in [S -> T]
OBVIOUS

LEMMA SigningType ==
  ASSUME page \in [Guests -> Page], NEW g \in Guests, NEW n \in 1..MaxChallenges
  PROVE  /\ [page EXCEPT ![g].signing = @ \cup {n}] \in [Guests -> Page]
         /\ [page EXCEPT ![g].signing = @ \ {n}] \in [Guests -> Page]
<1>1. /\ [page[g] EXCEPT !.signing = @ \cup {n}] \in Page
      /\ [page[g] EXCEPT !.signing = @ \ {n}] \in Page
  BY DEF Page
<1> QED
  BY <1>1, UpdateType

\* The rest of a page does not see what it is signing.
LEMMA SigningOnly ==
  ASSUME page \in [Guests -> Page], NEW g \in Guests, AnswerPing(g) \/ PingSigned(g),
         NEW h \in Guests
  PROVE  /\ page'[h].at = page[h].at /\ page'[h].channel = page[h].channel
         /\ page'[h].card = page[h].card /\ page'[h].watch = page[h].watch
         /\ page'[h].asked = page[h].asked
         /\ h # g => page'[h] = page[h]
<1>1. PICK S : page' = [page EXCEPT ![g].signing = S]
  BY DEF AnswerPing, PingSigned
<1> QED
  BY <1>1 DEF Page

LEMMA ChallengeType ==
  ASSUME NEW o, Sound(o), toGuest \in [Guests -> Seq(MessageToGuest)], Challenge(o)
  PROVE  Sound(own') /\ toGuest' \in [Guests -> Seq(MessageToGuest)]
<1>1. CASE own' = o /\ UNCHANGED toGuest
  BY <1>1
<1>2. CASE /\ o.issued < MaxChallenges
           /\ own' = [o EXCEPT !.issued = @ + 1, !.challenge = o.issued + 1]
           /\ Post(o, <<Ping(o.issued + 1)>>)
  <2>1. o.issued + 1 \in 1..MaxChallenges /\ o.issued + 1 \in 0..MaxChallenges
    BY <1>2 DEF Owner, Sound
  <2>2. own' = [o EXCEPT !.issued = o.issued + 1, !.challenge = o.issued + 1]
    BY <1>2
  <2>3. own' \in Owner /\ own'.flights = o.flights
    BY <2>1, <2>2 DEF Owner, Sound
  <2>4. <<Ping(o.issued + 1)>> \in Seq(MessageToGuest)
    BY <2>1, MessageTypes
  <2>5. toGuest' \in [Guests -> Seq(MessageToGuest)]
    BY <1>2, <2>4, PostType DEF Sound
  <2> QED
    BY <2>3, <2>5, SameFlightsSound
<1> QED
  BY <1>1, <1>2 DEF Challenge

\* A flush that has the key of k is awaiting with it, or is retried.
LEMMA KeyedSound ==
  ASSUME own \in Owner, FlushKeyed
  PROVE  Sound(own')
<1> DEFINE going == [own EXCEPT !.flights[Started] = @ - 1]
<1>1. Started \in Flight /\ own.flights \in [Flight -> Nat]
  BY DEF Owner, Flight
<1>2. own.flights[Started] - 1 \in Nat
  BY <1>1 DEF FlushKeyed
<1>3. going \in Owner
  BY <1>1, <1>2 DEF Owner
<1>4. CASE own.key = NoOne
  <2>1. own' = ScheduleSecretRetry(going) /\ Bounded(own')
    BY <1>4 DEF FlushKeyed, OwnerBecomes
  <2>2. ScheduleSecretRetry(going) \in Owner
    <3>1. (going.attempts < MaxAttempts) \in BOOLEAN
      OBVIOUS
    <3>2. [going EXCEPT !.retry = going.attempts < MaxAttempts] \in Owner
      BY <1>3, <3>1 DEF Owner
    <3> QED
      BY <1>3, <3>2 DEF ScheduleSecretRetry
  <2> QED
    BY <2>1, <2>2 DEF Sound
<1>5. CASE own.key # NoOne
  <2>1. own.key \in Flight
    BY <1>5 DEF Owner, Flight
  <2>2. \A o \in Owner : \A f \in Flight : [o EXCEPT !.flights[f] = @ + 1] \in Owner
    BY DEF Owner
  <2>3. [going EXCEPT !.flights[own.key] = @ + 1] \in Owner
    BY <1>3, <2>1, <2>2
  <2> QED
    BY <1>5, <2>3 DEF FlushKeyed, OwnerBecomes, Sound
<1> QED
  BY <1>4, <1>5

LEMMA WipeType ==
  ASSUME TypeOK, NEW news \in Seq(MessageToGuest), Wipe(news)
  PROVE  TypeOK'
<1> DEFINE left == [own EXCEPT !.channel = IF own.link = NoOne THEN "none" ELSE "closed",
                               !.retry = FALSE]
<1>1. Sound(own) /\ (own.link = NoOne \/ own.link \in Guests)
  BY DEF TypeOK, Sound, Owner
<1>2. Sound(left)
  <2>1. left \in Owner
    BY <1>1 DEF Sound, Owner
  <2>2. left.flights = own.flights
    BY <1>1 DEF Sound, Owner
  <2> QED
    BY <1>1, <2>1, <2>2, SameFlightsSound
<1>3. Sound(own')
  BY <1>1, <1>2 DEF Wipe
<1>4. secret' \in Secret
  BY DEF Wipe, Secret, TypeOK
<1>5. toOwner' \in [Guests -> Seq(MessageToOwner)]
  <2>1. toOwner \in [Guests -> Seq(MessageToOwner)]
    BY DEF TypeOK
  <2>2. \A g \in Guests : [toOwner EXCEPT ![g] = <<>>] \in [Guests -> Seq(MessageToOwner)]
    BY <2>1
  <2> QED
    BY <1>1, <2>1, <2>2 DEF Wipe
<1>6. toGuest' \in [Guests -> Seq(MessageToGuest)]
  BY PostType DEF Wipe, TypeOK
<1> QED
  BY <1>3, <1>4, <1>5, <1>6 DEF Wipe, TypeOK, Sound

\* The watchdog is set as long as it may still ask: what keeps its count in bounds.
WatchCounts == \A g \in Guests : page[g].watch => page[g].asked < MaxAttempts

LEMMA TypeOKInit == Init => TypeOK
<1> SUFFICES ASSUME Init
             PROVE  TypeOK
  OBVIOUS
<1>1. own \in Owner /\ Bounded(own)
  BY UnlinkedSound DEF Init, Sound
<1>2. secret \in Secret
  BY DEF Init, Secret
<1>3. page \in [Guests -> Page] /\ await \in [Guests -> Awaits]
  BY DEF Init, Waiting, Page, Awaits
<1> QED
  BY <1>1, <1>2, <1>3 DEF Init, TypeOK

LEMMA TypeOKStep == TypeOK /\ WatchCounts /\ [Next]_vars => TypeOK'
<1> SUFFICES ASSUME TypeOK, WatchCounts, [Next]_vars
             PROVE  TypeOK'
  OBVIOUS
<1>own. Sound(own)
  BY DEF TypeOK, Sound
<1>secret. secret \in Secret
  BY DEF TypeOK
<1>page. page \in [Guests -> Page]
  BY DEF TypeOK
<1>await. await \in [Guests -> Awaits]
  BY DEF TypeOK
<1>toGuest. toGuest \in [Guests -> Seq(MessageToGuest)]
  BY DEF TypeOK
<1>toOwner. toOwner \in [Guests -> Seq(MessageToOwner)]
  BY DEF TypeOK
<1>1. ASSUME NEW g \in Guests, MeetGuest(g)
      PROVE  TypeOK'
  <2>1. Sound(own')
    BY <1>1, <1>own, OwnerTypes DEF MeetGuest
  <2>2. [page[g] EXCEPT !.at = "open", !.key = TRUE] \in Page
    BY <1>page, PageTypes
  <2>3. page' = [page EXCEPT ![g] = [page[g] EXCEPT !.at = "open", !.key = TRUE]]
    BY <1>1, <1>page DEF MeetGuest
  <2>4. page' \in [Guests -> Page]
    BY <1>page, <2>2, <2>3, UpdateType
  <2>5. await' \in [Guests -> Awaits]
    BY <1>1, <1>await, AwaitTypes, UpdateType DEF MeetGuest
  <2> QED
    BY <1>1, <1>secret, <1>toGuest, <1>toOwner, <2>1, <2>2, <2>3, <2>4, <2>5
    DEF MeetGuest, TypeOK, Sound
<1>2. ASSUME NEW g \in Guests, AnswerApplied(g)
      PROVE  TypeOK'
  <2>1. Sound(own')
    <3>1. CASE UNCHANGED own
      BY <1>own, <3>1
    <3>2. CASE OwnerBecomes(FlushPendingSecret(own, secret.active, FALSE))
      BY <1>own, <3>2, BecomesSound DEF Sound
    <3> QED
      BY <1>2, <3>1, <3>2 DEF AnswerApplied
  <2>2. await' \in [Guests -> Awaits]
    <3>1. CASE await' = [await EXCEPT ![g].answer = "deriving"]
      BY <3>1, <1>await, AwaitTypes, UpdateType
    <3>2. CASE await' = [await EXCEPT ![g].answer = "done"]
      BY <3>2, <1>await, AwaitTypes, UpdateType
    <3> QED
      BY <1>2, <3>1, <3>2 DEF AnswerApplied
  <2> QED
    BY <1>2, <1>secret, <1>page, <1>toGuest, <1>toOwner, <2>1, <2>2
    DEF AnswerApplied, TypeOK, Sound
<1>3. ASSUME NEW g \in Guests, KeyDerived(g)
      PROVE  TypeOK'
  <2>1. [own EXCEPT !.key = g] \in Owner
    BY <1>own, OwnerTypes DEF Sound
  <2>2. Sound(own')
    BY <1>3, <2>1, BecomesSound DEF KeyDerived
  <2>3. await' \in [Guests -> Awaits]
    BY <1>3, <1>await, AwaitTypes, UpdateType DEF KeyDerived
  <2> QED
    BY <1>3, <1>secret, <1>page, <1>toGuest, <1>toOwner, <2>1, <2>2, <2>3
    DEF KeyDerived, TypeOK, Sound
<1>4. ASSUME NEW g \in Guests, ConnectionUp(g)
      PROVE  TypeOK'
  <2>1. [own EXCEPT !.connected = TRUE] \in Owner
    BY <1>own, OwnerTypes DEF Sound
  <2>2. Sound(own')
    BY <1>4, <2>1, BecomesSound DEF ConnectionUp
  <2> QED
    BY <1>4, <1>secret, <1>page, <1>await, <1>toGuest, <1>toOwner, <2>1, <2>2
    DEF ConnectionUp, TypeOK, Sound
<1>5. ASSUME ConnectionDown
      PROVE  TypeOK'
  <2>1. Sound(own')
    BY <1>5, <1>own, OwnerTypes DEF ConnectionDown
  <2> QED
    BY <1>5, <1>secret, <1>page, <1>await, <1>toGuest, <1>toOwner, <2>1
    DEF ConnectionDown, TypeOK, Sound
<1>6. ASSUME NEW g \in Guests, OwnerChannelOpens(g)
      PROVE  TypeOK'
  <2>1. Sound([own EXCEPT !.channel = "open", !.connected = TRUE])
    BY <1>own, OwnerTypes
  <2>2. Sound(own')
    <3>1. CASE OwnerBecomes(FlushPendingSecret(
                 [own EXCEPT !.channel = "open", !.connected = TRUE], TRUE, FALSE))
      BY <2>1, <3>1, BecomesSound DEF Sound
    <3>2. CASE own' = [own EXCEPT !.channel = "open", !.connected = TRUE]
      BY <2>1, <3>2
    <3> QED
      BY <1>6, <3>1, <3>2 DEF OwnerChannelOpens
  <2>3. <<Message("unavailable")>> \in Seq(MessageToGuest)
    BY MessageTypes
  <2>4. toGuest' \in [Guests -> Seq(MessageToGuest)]
    <3>1. CASE UNCHANGED toGuest
      BY <1>toGuest, <3>1
    <3>2. CASE Post([own EXCEPT !.channel = "open", !.connected = TRUE], <<Message("unavailable")>>)
      BY <3>2, <1>toGuest, <2>1, <2>3, PostType DEF Sound
    <3> QED
      BY <1>6, <3>1, <3>2 DEF OwnerChannelOpens
  <2> QED
    BY <1>6, <1>secret, <1>page, <1>await, <1>toOwner, <2>1, <2>2, <2>3, <2>4
    DEF OwnerChannelOpens, TypeOK, Sound
<1>7. ASSUME NEW g \in Guests, OwnerChannelCloses(g)
      PROVE  TypeOK'
  <2>1. Sound(own')
    BY <1>7, <1>own, OwnerTypes DEF OwnerChannelCloses
  <2>2. toOwner' \in [Guests -> Seq(MessageToOwner)]
    BY <1>7, <1>toOwner DEF OwnerChannelCloses
  <2> QED
    BY <1>7, <1>secret, <1>page, <1>await, <1>toGuest, <2>1, <2>2
    DEF OwnerChannelCloses, TypeOK, Sound
<1>8. ASSUME LinkReset
      PROVE  TypeOK'
  <2>1. Sound(own')
    BY <1>8, <1>own, ResetSound DEF LinkReset
  <2>2. own.link \in Guests
    BY <1>8, <1>own DEF LinkReset, Owner, Sound
  <2>3. toOwner' \in [Guests -> Seq(MessageToOwner)]
    BY <1>8, <1>toOwner, <2>2 DEF LinkReset
  <2> QED
    BY <1>8, <1>secret, <1>page, <1>await, <1>toGuest, <2>1, <2>2, <2>3
    DEF LinkReset, TypeOK, Sound
<1>9. ASSUME NEW g \in Guests, ReceiveHello(g)
      PROVE  TypeOK'
  <2>1. await' \in [Guests -> Awaits]
    BY <1>9, <1>await, AwaitTypes, UpdateType DEF ReceiveHello
  <2>2. toOwner' \in [Guests -> Seq(MessageToOwner)]
    BY <1>9, <1>toOwner, TakeType DEF ReceiveHello
  <2> QED
    BY <1>9, <1>own, <1>secret, <1>page, <1>toGuest, <2>1, <2>2 DEF ReceiveHello, TypeOK, Sound
<1>10. ASSUME NEW g \in Guests, HelloChecked(g)
       PROVE  TypeOK'
  <2>1. Sound([own EXCEPT !.identity = g])
    BY <1>own, OwnerTypes
  <2>2. Challenge([own EXCEPT !.identity = g])
    BY <1>10 DEF HelloChecked
  <2>3. Sound(own') /\ toGuest' \in [Guests -> Seq(MessageToGuest)]
    BY <1>toGuest, <2>1, <2>2, ChallengeType DEF Challenge, Post, Queued
  <2>4. await' \in [Guests -> Awaits]
    BY <1>10, <1>await, AwaitTypes, UpdateType DEF HelloChecked
  <2> QED
    BY <1>10, <1>secret, <1>page, <1>toOwner, <2>1, <2>2, <2>3, <2>4
    DEF HelloChecked, TypeOK, Sound
<1>11. ASSUME NEW g \in Guests, ReceivePong(g)
       PROVE  TypeOK'
  <2>1. Sound(own') /\ toGuest' \in [Guests -> Seq(MessageToGuest)]
    <3>1. CASE UNCHANGED <<own, toGuest>>
      BY <3>1, <1>own, <1>toGuest
    <3>2. CASE Challenge(own)
      BY <3>2, <1>own, <1>toGuest, ChallengeType DEF Challenge, Post, Queued
    <3> QED
      BY <1>11, <3>1, <3>2 DEF ReceivePong
  <2>2. await' \in [Guests -> Awaits]
    <3>1. CASE await' = [await EXCEPT ![g].pong = "verifying"]
      BY <3>1, <1>await, AwaitTypes, UpdateType
    <3>2. CASE UNCHANGED await
      BY <3>2, <1>await
    <3> QED
      BY <1>11, <3>1, <3>2 DEF ReceivePong
  <2>3. toOwner' \in [Guests -> Seq(MessageToOwner)]
    BY <1>11, <1>toOwner, TakeType DEF ReceivePong
  <2> QED
    BY <1>11, <1>secret, <1>page, <2>1, <2>2, <2>3 DEF ReceivePong, TypeOK, Sound
<1>12. ASSUME NEW g \in Guests, PongVerified(g)
       PROVE  TypeOK'
  <2>1. [own EXCEPT !.validated = TRUE, !.challenge = 0] \in Owner
    BY <1>own, OwnerTypes DEF Sound
  <2>2. Sound(own')
    BY <1>12, <2>1, BecomesSound DEF PongVerified
  <2>3. await' \in [Guests -> Awaits]
    BY <1>12, <1>await, AwaitTypes, UpdateType DEF PongVerified
  <2>4. <<Message("validated")>> \in Seq(MessageToGuest)
    BY MessageTypes
  <2>5. toGuest' \in [Guests -> Seq(MessageToGuest)]
    BY <1>12, <1>own, <1>toGuest, <2>4, PostType DEF PongVerified, Sound
  <2> QED
    BY <1>12, <1>secret, <1>page, <1>toOwner, <2>1, <2>2, <2>3, <2>4, <2>5
    DEF PongVerified, TypeOK, Sound
<1>13. ASSUME NEW g \in Guests, ReceiveAck(g)
       PROVE  TypeOK'
  <2>1. Sound(own')
    BY <1>13, <1>own, OwnerTypes DEF ReceiveAck
  <2>2. toOwner' \in [Guests -> Seq(MessageToOwner)]
    BY <1>13, <1>toOwner, TakeType DEF ReceiveAck
  <2> QED
    BY <1>13, <1>secret, <1>page, <1>await, <1>toGuest, <2>1, <2>2 DEF ReceiveAck, TypeOK, Sound
<1>14. ASSUME NEW g \in Guests, ReceiveRequest(g)
       PROVE  TypeOK'
  <2>1. Sound(own')
    BY <1>14, <1>own, BecomesSound DEF ReceiveRequest, Sound
  <2>2. toOwner' \in [Guests -> Seq(MessageToOwner)]
    BY <1>14, <1>toOwner, TakeType DEF ReceiveRequest
  <2> QED
    BY <1>14, <1>secret, <1>page, <1>await, <1>toGuest, <2>1, <2>2
    DEF ReceiveRequest, TypeOK, Sound
<1>15. ASSUME NEW g \in Guests, ReceiveBurn(g)
       PROVE  TypeOK'
  <2>1. secret' \in Secret
    BY <1>15, <1>secret DEF ReceiveBurn, Secret
  <2>2. toOwner' \in [Guests -> Seq(MessageToOwner)]
    BY <1>15, <1>toOwner, TakeType DEF ReceiveBurn
  <2> QED
    BY <1>15, <1>own, <1>page, <1>await, <1>toGuest, <2>1, <2>2 DEF ReceiveBurn, TypeOK, Sound
<1>16. ASSUME FlushKeyed
       PROVE  TypeOK'
  <2>1. Sound(own')
    BY <1>16, <1>own, KeyedSound DEF Sound
  <2> QED
    BY <1>16, <1>secret, <1>page, <1>await, <1>toGuest, <1>toOwner, <2>1
    DEF FlushKeyed, TypeOK, Sound
<1>17. ASSUME NEW k \in Guests, FlushSends(k)
       PROVE  TypeOK'
  <2>1. Sound(Landed(k))
    BY <1>17, <1>own, LandedSound DEF FlushSends, Flight
  <2>2. Sound(own')
    BY <1>17, <2>1, CountedSound, ScheduleSound DEF FlushSends
  <2>3. secret' \in Secret
    BY <1>17, <1>secret DEF FlushSends, Secret
  <2> PICK x \in CopyKeys(k) : Post(own, <<SecretUnder(x)>>)
    BY <1>17 DEF FlushSends
  <2>4. <<SecretUnder(x)>> \in Seq(MessageToGuest)
    BY <1>secret, SecretType
  <2>5. Post(own, <<SecretUnder(x)>>)
    OBVIOUS
  <2>6. toGuest' \in [Guests -> Seq(MessageToGuest)]
    BY <1>own, <1>toGuest, <2>4, <2>5, PostType DEF Sound, Post, Queued
  <2> QED
    BY <1>17, <1>page, <1>await, <1>toOwner, <2>1, <2>2, <2>3, <2>4, <2>5, <2>6
    DEF FlushSends, TypeOK, Sound
<1>18. ASSUME NEW k \in Guests, FlushFails(k)
       PROVE  TypeOK'
  <2>1. Sound(Landed(k))
    BY <1>18, <1>own, LandedSound DEF FlushFails, Flight
  <2>2. Sound(own')
    BY <1>18, <2>1, ScheduleSound DEF FlushFails
  <2> QED
    BY <1>18, <1>secret, <1>page, <1>await, <1>toGuest, <1>toOwner, <2>1, <2>2
    DEF FlushFails, TypeOK, Sound
<1>19. ASSUME RetryFires
       PROVE  TypeOK'
  <2>1. [own EXCEPT !.retry = FALSE] \in Owner
    BY <1>own DEF Owner, Sound
  <2>2. Sound(own')
    BY <1>19, <2>1, BecomesSound DEF RetryFires
  <2> QED
    BY <1>19, <1>secret, <1>page, <1>await, <1>toGuest, <1>toOwner, <2>1, <2>2
    DEF RetryFires, TypeOK, Sound
<1>20. ASSUME SendAges
       PROVE  TypeOK'
  <2>1. [own EXCEPT !.recent = FALSE] \in Owner
    BY <1>own DEF Owner, Sound
  <2>2. [own EXCEPT !.recent = FALSE].flights = own.flights
    BY <1>own DEF Owner, Sound
  <2>3. Sound(own')
    BY <1>20, <1>own, <2>1, <2>2, SameFlightsSound DEF SendAges
  <2> QED
    BY <1>20, <1>secret, <1>page, <1>await, <1>toGuest, <1>toOwner, <2>1, <2>2, <2>3
    DEF SendAges, TypeOK, Sound
<1>21. ASSUME ToggleSecret
       PROVE  TypeOK'
  <2>1. Sound(own')
    BY <1>21, <1>own, BecomesSound DEF ToggleSecret, Sound
  <2>2. secret.toggles + 1 \in 0..MaxToggles
    BY <1>21, <1>secret DEF ToggleSecret, Secret
  <2>3. secret' \in Secret
    BY <1>21, <1>secret, <2>2 DEF ToggleSecret, Secret
  <2>4. Toggled(~secret.active) \in MessageToGuest
    BY  DEF Toggled, MessageToGuest
  <2>5. Message("unavailable") \in MessageToGuest
    BY MessageTypes
  <2>6. ((IF secret.sent THEN <<Toggled(~secret.active)>> ELSE <<>>)
             \o (IF ~secret.active THEN <<>> ELSE <<Message("unavailable")>>)) \in Seq(MessageToGuest)
    BY <2>4, <2>5
  <2>7. toGuest' \in [Guests -> Seq(MessageToGuest)]
    BY <1>21, <1>own, <1>toGuest, <2>6, PostType DEF ToggleSecret, Sound, Post, Queued
  <2> QED
    BY <1>21, <1>page, <1>await, <1>toOwner, <2>1, <2>2, <2>3, <2>4, <2>5, <2>6, <2>7
    DEF ToggleSecret, TypeOK, Sound
<1>22. ASSUME DeleteSecret \/ ExpireSecret
       PROVE  TypeOK'
  <2>1. \A kind \in {"delete", "unavailable"} : <<Message(kind)>> \in Seq(MessageToGuest)
    BY MessageTypes
  <2>2. CASE DeleteSecret
    <3>1. CASE secret.sent
      BY <2>1, <2>2, <3>1, WipeType DEF DeleteSecret, Wipe, Post, Queued
    <3>2. CASE ~secret.sent
      <4>1. <<>> \in Seq(MessageToGuest)
        OBVIOUS
      <4> QED
        BY <2>2, <3>2, <4>1, WipeType DEF DeleteSecret, Wipe, Post, Queued
    <3> QED
      BY <3>1, <3>2
  <2>3. CASE ExpireSecret
    BY <2>1, <2>3, WipeType DEF ExpireSecret, Wipe, Post, Queued
  <2> QED
    BY <1>22, <2>2, <2>3
<1>23. ASSUME NEW g \in Guests, GuestChannelOpens(g)
       PROVE  TypeOK'
  <2>1. Watching([page[g] EXCEPT !.channel = "open", !.asked = 0]) \in Page
    BY <1>page, PageTypes
  <2>2. page' \in [Guests -> Page]
    BY <1>23, <1>page, <2>1, UpdateType DEF GuestChannelOpens
  <2>3. <<Message("hello")>> \in Seq(MessageToOwner)
    BY MessageTypes
  <2>4. toOwner' \in [Guests -> Seq(MessageToOwner)]
    BY <1>23, <1>toOwner, <2>3, ReplyType DEF GuestChannelOpens
  <2> QED
    BY <1>23, <1>own, <1>secret, <1>await, <1>toGuest, <2>1, <2>2, <2>3, <2>4
    DEF GuestChannelOpens, TypeOK, Sound
<1>24. ASSUME NEW g \in Guests, AnswerPing(g)
       PROVE  TypeOK'
  <2>1. Head(toGuest[g]) \in MessageToGuest /\ Head(toGuest[g]).kind = "ping"
    BY <1>24, <1>toGuest, GuestTakesType DEF AnswerPing, GuestTakes
  <2>2. Head(toGuest[g]).challenge \in 1..MaxChallenges
    BY <2>1 DEF MessageToGuest
  <2>3. page' \in [Guests -> Page]
    BY <1>24, <1>page, <2>2, SigningType DEF AnswerPing
  <2>4. toGuest' \in [Guests -> Seq(MessageToGuest)]
    BY <1>24, <1>toGuest, GuestTakesType DEF AnswerPing
  <2> QED
    BY <1>24, <1>own, <1>secret, <1>await, <1>toOwner, <2>3, <2>4 DEF AnswerPing, TypeOK, Sound
<1>37. ASSUME NEW g \in Guests, PingSigned(g)
       PROVE  TypeOK'
  <2> PICK n \in page[g].signing : /\ page' = [page EXCEPT ![g].signing = @ \ {n}]
                                   /\ Reply(g, <<Pong(n)>>)
    BY <1>37 DEF PingSigned
  <2>1. n \in 1..MaxChallenges
    BY <1>page DEF Page
  <2>2. page' \in [Guests -> Page]
    BY <1>page, <2>1, SigningType
  <2>3. <<Pong(n)>> \in Seq(MessageToOwner)
    BY <2>1, MessageTypes
  <2>4. toOwner' \in [Guests -> Seq(MessageToOwner)]
    BY <1>toOwner, <2>3, ReplyType DEF Reply
  <2> QED
    BY <1>37, <1>own, <1>secret, <1>await, <1>toGuest, <2>2, <2>4 DEF PingSigned, TypeOK, Sound
<1>25. ASSUME NEW g \in Guests, BecomesValidated(g)
       PROVE  TypeOK'
  <2>1. page' \in [Guests -> Page]
    BY <1>25, <1>page, PageTypes, UpdateType DEF BecomesValidated
  <2>2. toGuest' \in [Guests -> Seq(MessageToGuest)]
    BY <1>25, <1>toGuest, GuestTakesType DEF BecomesValidated
  <2> QED
    BY <1>25, <1>own, <1>secret, <1>await, <1>toOwner, <2>1, <2>2
    DEF BecomesValidated, TypeOK, Sound
<1>26. ASSUME NEW g \in Guests, RenderSecret(g)
       PROVE  TypeOK'
  <2>1. PICK card \in {"off", "sealed", "garbled"} :
          page' = [page EXCEPT ![g] = [page[g] EXCEPT !.watch = FALSE, !.asked = 0, !.card = card]]
    BY <1>26, <1>page DEF RenderSecret
  <2>2. [page[g] EXCEPT !.watch = FALSE, !.asked = 0, !.card = card] \in Page
    BY <1>page, PageTypes
  <2>3. page' \in [Guests -> Page]
    BY <1>page, <2>1, <2>2, UpdateType
  <2>4. <<Message("secret-received")>> \in Seq(MessageToOwner)
    BY MessageTypes
  <2>5. toOwner' \in [Guests -> Seq(MessageToOwner)]
    BY <1>26, <1>toOwner, <2>4, ReplyType DEF RenderSecret, Reply
  <2>6. toGuest' \in [Guests -> Seq(MessageToGuest)]
    BY <1>26, <1>toGuest, GuestTakesType DEF RenderSecret
  <2> QED
    BY <1>26, <1>own, <1>secret, <1>await, <2>1, <2>2, <2>3, <2>4, <2>5, <2>6
    DEF RenderSecret, TypeOK, Sound
<1>27. ASSUME NEW g \in Guests, StaysOn(g)
       PROVE  TypeOK'
  <2>1. toGuest' \in [Guests -> Seq(MessageToGuest)]
    BY <1>27, <1>toGuest, GuestTakesType DEF StaysOn
  <2> QED
    BY <1>27, <1>own, <1>secret, <1>page, <1>await, <1>toOwner, <2>1 DEF StaysOn, TypeOK, Sound
<1>28. ASSUME NEW g \in Guests, RedirectHome(g) \/ GuestLeaves(g)
       PROVE  TypeOK'
  <2>1. page' = [page EXCEPT ![g] = Gone(page[g])] /\ toGuest' = [toGuest EXCEPT ![g] = <<>>]
    BY <1>28 DEF RedirectHome, GuestLeaves
  <2>2. page' \in [Guests -> Page]
    BY <2>1, <1>page, PageTypes, UpdateType
  <2>3. toGuest' \in [Guests -> Seq(MessageToGuest)]
    BY <2>1, <1>toGuest
  <2> QED
    BY <1>28, <1>own, <1>secret, <1>await, <1>toOwner, <2>1, <2>2, <2>3
    DEF RedirectHome, GuestLeaves, TypeOK, Sound
<1>29. ASSUME NEW g \in Guests, WatchdogFires(g)
       PROVE  TypeOK'
  <2>1. page[g].asked < MaxAttempts
    BY <1>29 DEF WatchCounts, WatchdogFires
  <2>2. Watching([page[g] EXCEPT !.asked = @ + 1]) \in Page
    BY <1>page, <2>1, PageTypes
  <2>3. page' = [page EXCEPT ![g] = Watching([page[g] EXCEPT !.asked = @ + 1])]
    BY <1>29 DEF WatchdogFires
  <2>4. page' \in [Guests -> Page]
    BY <1>page, <2>2, <2>3, UpdateType
  <2>5. <<Message("request-secret")>> \in Seq(MessageToOwner)
    BY MessageTypes
  <2>6. toOwner' \in [Guests -> Seq(MessageToOwner)]
    BY <1>29, <1>toOwner, <2>5, ReplyType DEF WatchdogFires, Reply
  <2> QED
    BY <1>29, <1>own, <1>secret, <1>await, <1>toGuest, <2>1, <2>2, <2>3, <2>4, <2>5, <2>6
    DEF WatchdogFires, TypeOK, Sound
<1>30. ASSUME NEW g \in Guests, OpenSecret(g)
       PROVE  TypeOK'
  <2>1. page' \in [Guests -> Page]
    BY <1>30, <1>page, PageTypes, UpdateType DEF OpenSecret
  <2>2. (IF BurnAfterRead THEN <<Message("burn")>> ELSE <<>>) \in Seq(MessageToOwner)
    BY MessageTypes
  <2>3. toOwner' \in [Guests -> Seq(MessageToOwner)]
    BY <1>30, <1>toOwner, <2>2, ReplyType DEF OpenSecret, Reply
  <2> QED
    BY <1>30, <1>own, <1>secret, <1>await, <1>toGuest, <2>1, <2>2, <2>3
    DEF OpenSecret, TypeOK, Sound
<1>31. ASSUME NEW g \in Guests, GuestLinkLost(g)
       PROVE  TypeOK'
  <2>1. page' = [page EXCEPT ![g] = [page[g] EXCEPT !.channel = "closed", !.watch = FALSE]]
    BY <1>31, <1>page DEF GuestLinkLost
  <2>2. page' \in [Guests -> Page]
    BY <1>page, <2>1, PageTypes, UpdateType
  <2>3. toGuest' \in [Guests -> Seq(MessageToGuest)]
    BY <1>31, <1>toGuest DEF GuestLinkLost
  <2> QED
    BY <1>31, <1>own, <1>secret, <1>await, <1>toOwner, <2>1, <2>2, <2>3
    DEF GuestLinkLost, TypeOK, Sound
<1>32. ASSUME NEW g \in Guests, GuestResets(g)
       PROVE  TypeOK'
  <2>1. page' \in [Guests -> Page]
    BY <1>32, <1>page, PageTypes, UpdateType DEF GuestResets
  <2> QED
    BY <1>32, <1>own, <1>secret, <1>await, <1>toGuest, <1>toOwner, <2>1
    DEF GuestResets, TypeOK, Sound
<1>33. ASSUME UNCHANGED vars
       PROVE  TypeOK'
  BY <1>33 DEF vars, TypeOK, Bounded
<1> QED
  BY <1>1, <1>2, <1>3, <1>4, <1>5, <1>6, <1>7, <1>8, <1>9, <1>10, <1>11, <1>12, <1>13,
     <1>14, <1>15, <1>16, <1>17, <1>18, <1>19, <1>20, <1>21, <1>22, <1>23, <1>24, <1>25,
     <1>26, <1>27, <1>28, <1>29, <1>30, <1>31, <1>32, <1>33, <1>37
  DEF Next, OwnerHandles, GuestHandles

\* The steps that change a recipient's page are its own.
PageChanges(g) ==
  \/ MeetGuest(g) \/ GuestChannelOpens(g) \/ AnswerPing(g) \/ PingSigned(g)
  \/ BecomesValidated(g) \/ RenderSecret(g)
  \/ RedirectHome(g) \/ WatchdogFires(g) \/ OpenSecret(g) \/ GuestLeaves(g)
  \/ GuestLinkLost(g) \/ GuestResets(g)

LEMMA PageSteps ==
  ASSUME TypeOK, [Next]_vars, NEW g \in Guests
  PROVE  page'[g] = page[g] \/ PageChanges(g)
<1>1. ASSUME NEW h \in Guests, h # g, PageChanges(h)
      PROVE  page'[g] = page[g]
  <2>1. page \in [Guests -> Page]
    BY DEF TypeOK
  <2>2. CASE MeetGuest(h) \/ GuestChannelOpens(h) \/ BecomesValidated(h)
    BY <1>1, <2>1, <2>2 DEF MeetGuest, GuestChannelOpens, BecomesValidated
  <2>5. CASE AnswerPing(h) \/ PingSigned(h)
    BY <1>1, <2>1, <2>5 DEF AnswerPing, PingSigned
  <2>3. CASE RenderSecret(h) \/ RedirectHome(h) \/ WatchdogFires(h) \/ OpenSecret(h)
    BY <1>1, <2>1, <2>3 DEF RenderSecret, RedirectHome, WatchdogFires, OpenSecret
  <2>4. CASE GuestLeaves(h) \/ GuestLinkLost(h) \/ GuestResets(h)
    BY <1>1, <2>1, <2>4 DEF GuestLeaves, GuestLinkLost, GuestResets
  <2> QED
    BY <1>1, <2>2, <2>3, <2>4, <2>5 DEF PageChanges
<1>2. ASSUME NEW h \in Guests, OwnerHandles(h) \/ ConnectionUp(h) \/ StaysOn(h)
      PROVE  UNCHANGED page
  BY <1>2 DEF OwnerHandles, AnswerApplied, KeyDerived, OwnerChannelOpens, OwnerChannelCloses,
     ReceiveHello, HelloChecked, ReceivePong, PongVerified, ReceiveAck, ReceiveRequest,
     ReceiveBurn, ConnectionUp, StaysOn
<1>3. ASSUME \/ \E k \in Guests : FlushSends(k) \/ FlushFails(k)
             \/ FlushKeyed \/ RetryFires \/ SendAges \/ ConnectionDown \/ LinkReset
             \/ ToggleSecret \/ DeleteSecret \/ ExpireSecret
      PROVE  UNCHANGED page
  BY <1>3 DEF FlushSends, FlushFails, FlushKeyed, RetryFires, SendAges, ConnectionDown,
     LinkReset, ToggleSecret, DeleteSecret, ExpireSecret, Wipe
<1>4. CASE UNCHANGED vars
  BY <1>4 DEF vars
<1> QED
  BY <1>1, <1>2, <1>3, <1>4 DEF Next, GuestHandles, PageChanges

LEMMA WatchStep == TypeOK /\ WatchCounts /\ [Next]_vars => WatchCounts'
<1> SUFFICES ASSUME TypeOK, WatchCounts, [Next]_vars, NEW g \in Guests, page'[g].watch
             PROVE  page'[g].asked < MaxAttempts
  BY DEF WatchCounts
<1>1. page[g] \in Page /\ (page[g].watch => page[g].asked < MaxAttempts)
  BY DEF TypeOK, WatchCounts
<1>2. ASSUME NEW object \in Page, page'[g] = Watching(object)
      PROVE  page'[g].asked < MaxAttempts
  BY <1>2 DEF Watching, Page
<1>3. CASE page'[g] = page[g]
  BY <1>1, <1>3
<1>4. CASE page'[g] # page[g]
  <2>1. PageChanges(g)
    BY <1>4, PageSteps
  <2>0. page \in [Guests -> Page]
    BY DEF TypeOK
  <2>2. CASE MeetGuest(g)
    BY <1>1, <2>0, <2>2 DEF MeetGuest, Page
  <2>3. CASE GuestChannelOpens(g)
    <3>1. page'[g] = Watching([page[g] EXCEPT !.channel = "open", !.asked = 0])
      BY <2>0, <2>3 DEF GuestChannelOpens
    <3> QED
      BY <1>1, <1>2, <3>1, PageTypes
  <2>4. CASE BecomesValidated(g)
    BY <1>1, <1>2, <2>0, <2>4 DEF BecomesValidated
  <2>5. CASE RenderSecret(g)
    BY <1>1, <2>0, <2>5 DEF RenderSecret, Page
  <2>6. CASE RedirectHome(g)
    BY <1>1, <2>0, <2>6 DEF RedirectHome, Gone, Page
  <2>7. CASE WatchdogFires(g)
    <3>1. page'[g] = Watching([page[g] EXCEPT !.asked = @ + 1])
      BY <2>0, <2>7 DEF WatchdogFires
    <3> QED
      BY <1>1, <1>2, <2>7, <3>1, PageTypes DEF WatchdogFires
  <2>8. CASE OpenSecret(g)
    BY <1>1, <2>0, <2>8 DEF OpenSecret, Page
  <2>12. CASE AnswerPing(g) \/ PingSigned(g)
    BY <1>1, <2>0, <2>12, SigningOnly
  <2>9. CASE GuestLeaves(g)
    BY <1>1, <2>0, <2>9 DEF GuestLeaves, Gone, Page
  <2>10. CASE GuestLinkLost(g)
    BY <1>1, <2>0, <2>10 DEF GuestLinkLost, Page
  <2>11. CASE GuestResets(g)
    BY <1>1, <2>0, <2>11 DEF GuestResets, Page
  <2> QED
    BY <2>1, <2>2, <2>3, <2>4, <2>5, <2>6, <2>7, <2>8, <2>9, <2>10, <2>11, <2>12 DEF PageChanges
<1> QED
  BY <1>3, <1>4

LEMMA TypedStep == TypeOK /\ WatchCounts /\ [Next]_vars => (TypeOK /\ WatchCounts)'
BY TypeOKStep, WatchStep

\* The session, pendingSecret, the recipients' pages and every message keep
\* their shape, and no counter exceeds its limit.
THEOREM TypeCorrect == Spec => []TypeOK
<1>1. Init => TypeOK /\ WatchCounts
  BY TypeOKInit DEF Init, Waiting, WatchCounts
<1> QED
  BY <1>1, TypedStep, PTL DEF Spec
-----------------------------------------------------------------------------
(* Queues *)

Holds(queue, kind) == \E i \in DOMAIN queue : queue[i].kind = kind

LEMMA HoldsEmpty == \A kind : ~Holds(<<>>, kind)
BY DEF Holds

LEMMA HoldsOne ==
  ASSUME NEW m, NEW kind
  PROVE  Holds(<<m>>, kind) <=> m.kind = kind
BY DEF Holds

LEMMA Joined ==
  ASSUME NEW S, NEW q \in Seq(S), NEW r \in Seq(S)
  PROVE  /\ DOMAIN q \subseteq DOMAIN (q \o r)
         /\ \A i \in DOMAIN q : (q \o r)[i] = q[i] /\ i <= Len(q)
         /\ \A i \in DOMAIN r : Len(q) + i \in DOMAIN (q \o r) /\ (q \o r)[Len(q) + i] = r[i]
         /\ \A i \in DOMAIN (q \o r) :
              i \in DOMAIN q \/ \E j \in DOMAIN r : i = Len(q) + j
<1>1. q \o r \in Seq(S) /\ Len(q \o r) = Len(q) + Len(r)
  BY ConcatProperties
<1>2. /\ DOMAIN q = 1..Len(q) /\ DOMAIN r = 1..Len(r) /\ Len(q) \in Nat /\ Len(r) \in Nat
      /\ DOMAIN (q \o r) = 1..(Len(q) + Len(r))
  BY <1>1
<1>3. \A i \in 1..(Len(q) + Len(r)) : (q \o r)[i] = IF i <= Len(q) THEN q[i] ELSE r[i - Len(q)]
  BY ConcatProperties
<1>4. \A i \in DOMAIN r : Len(q) + i \in DOMAIN (q \o r) /\ (q \o r)[Len(q) + i] = r[i]
  <2> SUFFICES ASSUME NEW i \in DOMAIN r
               PROVE  Len(q) + i \in DOMAIN (q \o r) /\ (q \o r)[Len(q) + i] = r[i]
    OBVIOUS
  <2>1. Len(q) + i \in 1..(Len(q) + Len(r)) /\ ~(Len(q) + i <= Len(q)) /\ (Len(q) + i) - Len(q) = i
    BY <1>2
  <2> QED
    BY <1>2, <1>3, <2>1
<1>5. ASSUME NEW i \in DOMAIN (q \o r), i \notin DOMAIN q
      PROVE  \E j \in DOMAIN r : i = Len(q) + j
  <2>1. i - Len(q) \in DOMAIN r /\ i = Len(q) + (i - Len(q))
    BY <1>2, <1>5
  <2> QED
    BY <2>1
<1> QED
  BY <1>2, <1>3, <1>4, <1>5

LEMMA HoldsJoined ==
  ASSUME NEW S, NEW q \in Seq(S), NEW r \in Seq(S), NEW kind
  PROVE  Holds(q \o r, kind) <=> Holds(q, kind) \/ Holds(r, kind)
<1>1. ASSUME NEW i \in DOMAIN q, q[i].kind = kind
      PROVE  Holds(q \o r, kind)
  BY <1>1, Joined DEF Holds
<1>2. ASSUME NEW i \in DOMAIN r, r[i].kind = kind
      PROVE  Holds(q \o r, kind)
  <2>1. Len(q) + i \in DOMAIN (q \o r) /\ (q \o r)[Len(q) + i] = r[i]
    BY Joined
  <2> QED
    BY <1>2, <2>1 DEF Holds
<1>3. ASSUME NEW i \in DOMAIN (q \o r), (q \o r)[i].kind = kind
      PROVE  Holds(q, kind) \/ Holds(r, kind)
  <2>1. CASE i \in DOMAIN q
    BY <1>3, <2>1, Joined DEF Holds
  <2>2. CASE i \notin DOMAIN q
    <3>1. PICK j \in DOMAIN r : i = Len(q) + j
      BY <2>2, Joined
    <3>2. r[j].kind = kind
      BY <1>3, <3>1, Joined
    <3> QED
      BY <3>2 DEF Holds
  <2> QED
    BY <2>1, <2>2
<1> QED
  BY <1>1, <1>2, <1>3 DEF Holds

LEMMA Tailed ==
  ASSUME NEW S, NEW q \in Seq(S), q # <<>>
  PROVE  /\ DOMAIN q = 1..Len(q) /\ Len(q) \in Nat \ {0}
         /\ DOMAIN Tail(q) = 1..(Len(q) - 1)
         /\ \A i \in DOMAIN Tail(q) : Tail(q)[i] = q[i + 1]
         /\ Head(q) = q[1]
<1>1. Tail(q) \in Seq(S) /\ Len(Tail(q)) = Len(q) - 1
      /\ \A i \in 1..Len(Tail(q)) : Tail(q)[i] = q[i + 1]
  BY HeadTailProperties
<1>2. Head(q) = q[1] /\ Len(q) \in Nat \ {0}
  BY EmptySeq
<1> QED
  BY <1>1, <1>2

LEMMA HoldsTail ==
  ASSUME NEW S, NEW q \in Seq(S), q # <<>>, NEW kind
  PROVE  Holds(q, kind) <=> Head(q).kind = kind \/ Holds(Tail(q), kind)
<1>1. ASSUME NEW i \in DOMAIN q, q[i].kind = kind, i # 1
      PROVE  Holds(Tail(q), kind)
  <2>1. i - 1 \in DOMAIN Tail(q) /\ (i - 1) + 1 = i
    BY <1>1, Tailed
  <2>2. Tail(q)[i - 1] = q[i]
    BY <2>1, Tailed
  <2> QED
    BY <1>1, <2>1, <2>2 DEF Holds
<1>2. ASSUME NEW i \in DOMAIN Tail(q), Tail(q)[i].kind = kind
      PROVE  Holds(q, kind)
  <2>1. i + 1 \in DOMAIN q /\ q[i + 1].kind = kind
    BY <1>2, Tailed
  <2> QED
    BY <2>1 DEF Holds
<1>3. 1 \in DOMAIN q /\ Head(q) = q[1]
  BY Tailed
<1> QED
  BY <1>1, <1>2, <1>3 DEF Holds
\* What owner and guest g know of each other's messages: only the linked guest's
\* are on their way; an acknowledgement, received or on its way, means a secret
\* on the page; a guest with a secret has one on its way or received; a burn
\* comes after it; and a link starts without one.
Heard(g, o, object, queue) ==
  /\ object.at = "away" => object.channel = "connecting"
  /\ object.channel = "connecting" => object.card = "waiting"
  /\ queue # <<>> => o.link = g
  /\ o.link = NoOne => ~o.acked
  /\ o.acked /\ o.link = g => object.card # "waiting"
  /\ Holds(queue, "secret-received") => object.card # "waiting"
  /\ /\ o.link = g /\ o.channel \in {"connecting", "open"}
     /\ object.channel = "open" /\ object.card # "waiting"
     => o.acked \/ Holds(queue, "secret-received")
  /\ \A i \in DOMAIN queue :
       queue[i].kind = "burn" =>
         o.acked \/ \E j \in DOMAIN queue : j < i /\ queue[j].kind = "secret-received"


LEMMA HeardSame ==
  ASSUME NEW g, NEW o, NEW object, NEW queue, Heard(g, o, object, queue),
         NEW p, p.link = o.link, p.channel = o.channel, p.acked = o.acked,
         NEW other, other.at = object.at, other.channel = object.channel,
         other.card = object.card
  PROVE  Heard(g, p, other, queue)
BY DEF Heard

\* A link that is over, on the owner's side.
LEMMA HeardCleared ==
  ASSUME NEW g, NEW o, NEW object, NEW queue, Heard(g, o, object, queue), NEW p,
         \/ p.link # g /\ (p.link = NoOne => ~p.acked)
         \/ p.link = o.link /\ p.acked = o.acked /\ p.channel = "closed"
  PROVE  Heard(g, p, object, <<>>)
BY HoldsEmpty DEF Heard

\* How a recipient's page changes while its link does not: with its card, which
\* does not go back to waiting.
Advances(object, other) ==
  /\ other.at = object.at /\ other.channel = object.channel
  /\ other.card # object.card => object.channel = "open" /\ other.card # "waiting"

\* A page that nothing is sent from.
LEMMA HeardSilent ==
  ASSUME NEW g, NEW o, NEW object, NEW queue, Heard(g, o, object, queue),
         NEW other, Advances(object, other),
         \/ other.card = object.card \/ object.card # "waiting"
         \/ o.link # g \/ o.channel \notin {"connecting", "open"}
  PROVE  Heard(g, o, other, queue)
BY DEF Heard, Advances

\* A message that follows what is on its way.
LEMMA HeardSent ==
  ASSUME NEW g, NEW o, NEW object, NEW queue \in Seq(MessageToOwner),
         Heard(g, o, object, queue), o.link = g, NEW m \in MessageToOwner,
         NEW other, Advances(object, other),
         \/ other.card = object.card \/ object.card # "waiting"
         \/ m.kind = "secret-received",
         m.kind = "secret-received" => other.card # "waiting",
         m.kind = "burn" => o.acked \/ Holds(queue, "secret-received")
  PROVE  Heard(g, o, other, queue \o <<m>>)
<1> DEFINE longer == queue \o <<m>>
<1>1. <<m>> \in Seq(MessageToOwner) /\ DOMAIN <<m>> = {1} /\ <<m>>[1] = m
  OBVIOUS
<1>2. \A kind : Holds(longer, kind) <=> Holds(queue, kind) \/ m.kind = kind
  BY <1>1, HoldsJoined, HoldsOne
<1>3. ASSUME NEW i \in DOMAIN longer, longer[i].kind = "burn", ~o.acked
      PROVE  \E j \in DOMAIN longer : j < i /\ longer[j].kind = "secret-received"
  <2>1. CASE i \in DOMAIN queue
    <3>1. longer[i] = queue[i]
      BY <2>1, <1>1, Joined
    <3>2. PICK j \in DOMAIN queue : j < i /\ queue[j].kind = "secret-received"
      BY <2>1, <1>3, <3>1 DEF Heard
    <3>3. j \in DOMAIN longer /\ longer[j] = queue[j]
      BY <1>1, Joined
    <3> QED
      BY <3>2, <3>3
  <2>2. CASE i \notin DOMAIN queue
    <3>1. i = Len(queue) + 1
      BY <2>2, <1>1, Joined
    <3>2. longer[i] = m
      BY <3>1, <1>1, Joined
    <3>3. PICK j \in DOMAIN queue : queue[j].kind = "secret-received"
      BY <1>3, <3>2 DEF Holds
    <3>4. j \in DOMAIN longer /\ longer[j] = queue[j] /\ j <= Len(queue)
      BY <1>1, Joined
    <3>5. j < i
      BY <3>1, <3>4
    <3> QED
      BY <3>3, <3>4, <3>5
  <2> QED
    BY <2>1, <2>2
<1> HIDE DEF longer
<1>4. /\ longer # <<>> => o.link = g
      /\ Holds(longer, "secret-received") => other.card # "waiting"
      /\ Holds(queue, "secret-received") => Holds(longer, "secret-received")
      /\ m.kind = "secret-received" => Holds(longer, "secret-received")
  BY <1>2 DEF Heard, Advances
<1>5. Heard(g, o, other, longer)
  BY <1>3, <1>4 DEF Heard, Advances
<1> QED
  BY <1>5 DEF longer

\* The first of them taken by the owner.
LEMMA HeardTaken ==
  ASSUME NEW g \in Guests, NEW o, NEW object, NEW queue \in Seq(MessageToOwner), queue # <<>>,
         Heard(g, o, object, queue), NEW p, p.link = o.link, p.channel = o.channel,
         o.acked => p.acked,
         Head(queue).kind = "secret-received" => p.acked,
         p.acked => o.acked \/ Head(queue).kind = "secret-received"
  PROVE  Heard(g, p, object, Tail(queue))
<1> DEFINE rest == Tail(queue)
<1>1. \A kind : Holds(queue, kind) <=> Head(queue).kind = kind \/ Holds(rest, kind)
  BY HoldsTail
<1>2. ASSUME NEW i \in DOMAIN rest, rest[i].kind = "burn", ~p.acked
      PROVE  \E j \in DOMAIN rest : j < i /\ rest[j].kind = "secret-received"
  <2>1. i + 1 \in DOMAIN queue /\ queue[i + 1].kind = "burn" /\ i \in Nat
    BY <1>2, Tailed
  <2>2. PICK j \in DOMAIN queue : j < i + 1 /\ queue[j].kind = "secret-received"
    BY <1>2, <2>1 DEF Heard
  <2>3. j # 1
    BY <1>2, <2>2, Tailed
  <2>4. j - 1 \in DOMAIN rest /\ (j - 1) + 1 = j /\ j - 1 < i
    BY <2>1, <2>2, <2>3, Tailed
  <2>5. rest[j - 1] = queue[j]
    BY <2>4, Tailed
  <2> QED
    BY <2>2, <2>4, <2>5
<1> HIDE DEF rest
<1>3. /\ o.link = g
      /\ Holds(rest, "secret-received") => object.card # "waiting"
      /\ Head(queue).kind = "secret-received" => object.card # "waiting"
  BY <1>1 DEF Heard
<1>4. Heard(g, p, object, rest)
  BY <1>1, <1>2, <1>3 DEF Heard
<1> QED
  BY <1>4 DEF rest

-----------------------------------------------------------------------------
(* Who has heard what *)

\* The session is still the one of this link.
SameLink(o, p) == p.link = o.link /\ p.channel = o.channel /\ p.acked = o.acked

LEMMA FlushKeeps ==
  ASSUME NEW o \in Owner, NEW active, NEW force, NEW p,
         p = FlushPendingSecret(o, active, force)
  PROVE  /\ SameLink(o, p) /\ p.connected = o.connected /\ p.key = o.key
         /\ p.validated = o.validated /\ p.recent = o.recent /\ p.attempts = o.attempts
BY DEF FlushPendingSecret, SameLink, Owner

LEMMA ScheduleKeeps ==
  ASSUME NEW o \in Owner
  PROVE  SameLink(o, ScheduleSecretRetry(o)) /\ ScheduleSecretRetry(o).recent = o.recent
BY DEF ScheduleSecretRetry, SameLink, Owner

\* The steps of the owner that do not concern the link.
Inner ==
  \/ \E g \in Guests : AnswerApplied(g) \/ KeyDerived(g) \/ ConnectionUp(g)
  \/ \E g \in Guests : HelloChecked(g) \/ PongVerified(g) \/ FlushSends(g) \/ FlushFails(g)
  \/ ConnectionDown \/ FlushKeyed \/ RetryFires \/ SendAges \/ ToggleSecret

LEMMA InnerSteps ==
  ASSUME TypeOK, Inner
  PROVE  SameLink(own, own') /\ UNCHANGED <<page, toOwner>>
<1>own. own \in Owner
  BY DEF TypeOK
<1>1. ASSUME NEW g \in Guests, AnswerApplied(g)
      PROVE  SameLink(own, own') /\ UNCHANGED <<page, toOwner>>
  BY <1>own, <1>1 DEF FlushPendingSecret, Owner, AnswerApplied, OwnerBecomes, SameLink
<1>2. ASSUME NEW g \in Guests, KeyDerived(g)
      PROVE  SameLink(own, own') /\ UNCHANGED <<page, toOwner>>
  <2>1. [own EXCEPT !.key = g] \in Owner /\ SameLink(own, [own EXCEPT !.key = g])
    BY <1>own DEF Owner, SameLink
  <2> QED
    BY <1>2, <2>1 DEF FlushPendingSecret, Owner, KeyDerived, OwnerBecomes, SameLink
<1>3. ASSUME NEW g \in Guests, ConnectionUp(g)
      PROVE  SameLink(own, own') /\ UNCHANGED <<page, toOwner>>
  <2>1. [own EXCEPT !.connected = TRUE] \in Owner /\ SameLink(own, [own EXCEPT !.connected = TRUE])
    BY <1>own DEF Owner, SameLink
  <2> QED
    BY <1>3, <2>1 DEF FlushPendingSecret, Owner, ConnectionUp, OwnerBecomes, SameLink
<1>4. ASSUME NEW g \in Guests, HelloChecked(g)
      PROVE  SameLink(own, own') /\ UNCHANGED <<page, toOwner>>
  BY <1>own, <1>4 DEF HelloChecked, Challenge, Owner, SameLink
<1>5. ASSUME NEW g \in Guests, PongVerified(g)
      PROVE  SameLink(own, own') /\ UNCHANGED <<page, toOwner>>
  <2> DEFINE known == [own EXCEPT !.validated = TRUE, !.challenge = 0]
  <2>1. known \in Owner /\ SameLink(own, known)
    <3>1. known \in Owner
      BY OwnerTypes DEF TypeOK, Sound
    <3> QED
      BY <1>own, <3>1 DEF Owner, SameLink
  <2>2. own' = known \/ own' = FlushPendingSecret(known, secret.active, FALSE)
    BY <1>5 DEF PongVerified, OwnerBecomes
  <2> HIDE DEF known
  <2>3. SameLink(own, own')
    BY <2>1, <2>2 DEF FlushPendingSecret, Owner, SameLink
  <2> QED
    BY <1>5, <2>3 DEF PongVerified
<1>6. ASSUME NEW g \in Guests, FlushSends(g)
      PROVE  SameLink(own, own') /\ UNCHANGED <<page, toOwner>>
  <2>1. Landed(g) \in Owner /\ SameLink(own, Landed(g))
    BY <1>6, LandedSound DEF FlushSends, TypeOK, Sound, Landed, SameLink, Flight, Owner
  <2>2. Counted(Landed(g)) \in Owner /\ SameLink(Landed(g), Counted(Landed(g)))
    <3>1. \A o \in Owner : SameLink(o, Counted(o))
      BY DEF Counted, SameLink, Owner
    <3>2. Sound(Landed(g))
      BY <1>6, LandedSound DEF FlushSends, TypeOK, Sound, Flight
    <3> QED
      BY <2>1, <3>1, <3>2, CountedSound DEF Sound
  <2> QED
    BY <1>6, <2>1, <2>2, ScheduleKeeps DEF FlushSends, SameLink
<1>7. ASSUME NEW g \in Guests, FlushFails(g)
      PROVE  SameLink(own, own') /\ UNCHANGED <<page, toOwner>>
  <2>1. Landed(g) \in Owner /\ SameLink(own, Landed(g))
    BY <1>7, LandedSound DEF FlushFails, TypeOK, Sound, Landed, SameLink, Flight, Owner
  <2> QED
    BY <1>7, <2>1, ScheduleKeeps DEF FlushFails, SameLink
<1>8. ASSUME ConnectionDown \/ SendAges
      PROVE  SameLink(own, own') /\ UNCHANGED <<page, toOwner>>
  BY <1>own, <1>8 DEF ConnectionDown, SendAges, SameLink, Owner
<1>9. ASSUME FlushKeyed
      PROVE  SameLink(own, own') /\ UNCHANGED <<page, toOwner>>
  BY <1>own, <1>9 DEF FlushKeyed, OwnerBecomes, ScheduleSecretRetry, SameLink, Owner
<1>10. ASSUME RetryFires
       PROVE  SameLink(own, own') /\ UNCHANGED <<page, toOwner>>
  <2>1. [own EXCEPT !.retry = FALSE] \in Owner /\ SameLink(own, [own EXCEPT !.retry = FALSE])
    BY <1>own DEF Owner, SameLink
  <2> QED
    BY <1>10, <2>1 DEF FlushPendingSecret, Owner, RetryFires, OwnerBecomes, SameLink
<1>11. ASSUME ToggleSecret
       PROVE  SameLink(own, own') /\ UNCHANGED <<page, toOwner>>
  BY <1>own, <1>11 DEF FlushPendingSecret, Owner, ToggleSecret, OwnerBecomes, SameLink
<1> QED
  BY <1>1, <1>2, <1>3, <1>4, <1>5, <1>6, <1>7, <1>8, <1>9, <1>10, <1>11 DEF Inner

EverythingHeard == \A g \in Guests : Heard(g, own, page[g], toOwner[g])

LEMMA HeardInit == Init => EverythingHeard
BY HoldsEmpty DEF Init, EverythingHeard, Heard, Waiting, Unlinked

\* The handlers of the recipient's messages, by what they take.
LEMMA HeardTakes ==
  ASSUME TypeOK, EverythingHeard, NEW g \in Guests, UNCHANGED page,
         own.link = g, toOwner[g] # <<>>, toOwner' = [toOwner EXCEPT ![g] = Tail(@)],
         own'.link = own.link, own'.channel = own.channel,
         \/ own'.acked = own.acked /\ Head(toOwner[g]).kind # "secret-received"
         \/ own'.acked = TRUE /\ Head(toOwner[g]).kind = "secret-received"
  PROVE  EverythingHeard'
<1> SUFFICES ASSUME NEW h \in Guests
             PROVE  Heard(h, own', page[h], toOwner'[h])
  BY DEF EverythingHeard
<1>1. toOwner \in [Guests -> Seq(MessageToOwner)] /\ own.acked \in BOOLEAN
  BY DEF TypeOK, Owner
<1>2. Heard(h, own, page[h], toOwner[h])
  BY DEF EverythingHeard
<1>3. CASE h = g
  <2>1. toOwner'[h] = Tail(toOwner[h])
    BY <1>1, <1>3
  <2>2. Heard(h, own', page[h], Tail(toOwner[h]))
    BY <1>1, <1>2, <1>3, HeardTaken
  <2> QED
    BY <2>1, <2>2
<1>4. CASE h # g
  <2>1. toOwner'[h] = toOwner[h] /\ own.link # h
    BY <1>1, <1>4
  <2>2. toOwner[h] = <<>> /\ own'.link # h /\ own'.link # NoOne
    BY <1>2, <2>1 DEF Heard
  <2>3. Heard(h, own', page[h], <<>>)
    BY <1>2, <2>2, HeardCleared
  <2> QED
    BY <2>1, <2>2, <2>3
<1> QED
  BY <1>3, <1>4

\* The link of the owner ends: by a reset, or because the channel is closed.
LEMMA HeardEnds ==
  ASSUME TypeOK, EverythingHeard, UNCHANGED page, NEW g \in Guests, own.link = g,
         toOwner' = [toOwner EXCEPT ![g] = <<>>],
         \/ own'.link = NoOne /\ ~own'.acked
         \/ own'.link = own.link /\ own'.acked = own.acked /\ own'.channel = "closed"
  PROVE  EverythingHeard'
<1> SUFFICES ASSUME NEW h \in Guests
             PROVE  Heard(h, own', page[h], toOwner'[h])
  BY DEF EverythingHeard
<1>1. Heard(h, own, page[h], toOwner[h])
  BY DEF EverythingHeard
<1>2. toOwner'[h] = <<>>
  <2>1. h # g => toOwner[h] = <<>>
    BY <1>1 DEF Heard
  <2> QED
    BY <2>1 DEF TypeOK
<1>3. Heard(h, own', page[h], <<>>)
  BY <1>1, HeardCleared
<1> QED
  BY <1>2, <1>3

\* A recipient's page that changes its card, and what it replies.
LEMMA HeardReply ==
  ASSUME TypeOK, EverythingHeard, NEW g \in Guests, UNCHANGED own,
         NEW messages, Reply(g, messages),
         NEW m \in MessageToOwner, messages \in {<<>>, <<m>>},
         \A h \in Guests : h # g => page'[h] = page[h],
         Advances(page[g], page'[g]),
         \/ page'[g].card = page[g].card \/ page[g].card # "waiting"
         \/ m.kind = "secret-received" /\ messages = <<m>>,
         page[g].channel = "open",
         m.kind = "secret-received" => page'[g].card # "waiting",
         m.kind = "burn" => page[g].card # "waiting"
  PROVE  EverythingHeard'
<1> SUFFICES ASSUME NEW h \in Guests
             PROVE  Heard(h, own, page'[h], toOwner'[h])
  BY DEF EverythingHeard
<1>1. toOwner \in [Guests -> Seq(MessageToOwner)]
  BY DEF TypeOK
<1>2. Heard(h, own, page[h], toOwner[h])
  BY DEF EverythingHeard
<1>3. CASE h # g
  BY <1>1, <1>2, <1>3 DEF Reply, Queued
<1>4. CASE /\ h = g /\ UNCHANGED toOwner
           /\ messages = <<>> \/ ~(own.link = g /\ own.channel \in {"connecting", "open"})
  BY <1>2, <1>4, HeardSilent
<1>5. CASE /\ h = g /\ toOwner'[g] = toOwner[g] \o messages
           /\ own.link = g /\ own.channel \in {"connecting", "open"}
  <2>1. CASE messages = <<>>
    <3>1. toOwner[g] \o <<>> = toOwner[g]
      BY <1>1, ConcatEmptySeq
    <3> QED
      BY <1>2, <1>5, <2>1, <3>1, HeardSilent
  <2>2. CASE messages = <<m>>
    <3>1. m.kind = "burn" => own.acked \/ Holds(toOwner[g], "secret-received")
      BY <1>2, <1>5 DEF Heard
    <3>2. Heard(g, own, page'[g], toOwner[g] \o <<m>>)
      BY <1>1, <1>2, <1>5, <3>1, HeardSent
    <3> QED
      BY <1>5, <2>2, <3>2
  <2> QED
    BY <2>1, <2>2
<1> QED
  BY <1>1, <1>3, <1>4, <1>5 DEF Reply, Queued

\* The recipient's page opens, closes or loses its link.
LEMMA HeardPage ==
  ASSUME TypeOK, EverythingHeard, NEW g \in Guests, UNCHANGED <<own, toOwner>>,
         \A h \in Guests : h # g => page'[h] = page[h],
         page'[g].card = page[g].card, page'[g].at # "away",
         \/ page'[g].channel = page[g].channel
         \/ page'[g].channel = "closed"
         \/ page'[g].channel = "open" /\ page[g].channel = "connecting"
  PROVE  EverythingHeard'
BY DEF EverythingHeard, Heard

LEMMA HeardSameLink ==
  ASSUME EverythingHeard, SameLink(own, own'), UNCHANGED <<page, toOwner>>
  PROVE  EverythingHeard'
BY HeardSame DEF EverythingHeard, SameLink

LEMMA HeardWipe ==
  ASSUME TypeOK, EverythingHeard, NEW news, Wipe(news)
  PROVE  EverythingHeard'
<1>1. CASE own' = own /\ toOwner' = toOwner
  BY <1>1 DEF EverythingHeard, Wipe
<1> DEFINE left == [own EXCEPT !.channel = IF own.link = NoOne THEN "none" ELSE "closed",
                               !.retry = FALSE]
<1>2. own \in Owner
  BY DEF TypeOK
<1>3. CASE own' = left /\ own.link = NoOne /\ toOwner' = toOwner
  <2>1. own'.link = own.link /\ own'.acked = own.acked
    BY <1>2, <1>3 DEF Owner
  <2>2. ASSUME NEW g \in Guests
        PROVE  Heard(g, own', page[g], toOwner[g])
    <3>1. Heard(g, own, page[g], toOwner[g])
      BY DEF EverythingHeard
    <3>2. own'.link # g
      BY <1>3, <2>1
    <3> QED
      BY <2>1, <3>1, <3>2, <1>3 DEF Heard
  <2> QED
    BY <1>3, <2>2 DEF EverythingHeard, Wipe
<1>4. CASE own' = left /\ own.link # NoOne /\ toOwner' = [toOwner EXCEPT ![own.link] = <<>>]
  <2>1. own'.link = own.link /\ own'.acked = own.acked /\ own'.channel = "closed"
    BY <1>2, <1>4 DEF Owner
  <2>2. own.link \in Guests
    BY <1>2, <1>4 DEF Owner
  <2> QED
    BY <1>4, <2>1, <2>2, HeardEnds DEF Wipe
<1> QED
  BY <1>1, <1>3, <1>4 DEF Wipe

LEMMA HeardStep == TypeOK /\ EverythingHeard /\ [Next]_vars => EverythingHeard'
<1> SUFFICES ASSUME TypeOK, EverythingHeard, [Next]_vars
             PROVE  EverythingHeard'
  OBVIOUS
<1>own. own \in Owner
  BY DEF TypeOK
<1>page. page \in [Guests -> Page]
  BY DEF TypeOK
<1>1. CASE Inner
  BY <1>1, InnerSteps, HeardSameLink
<1>2. ASSUME NEW g \in Guests, MeetGuest(g)
      PROVE  EverythingHeard'
  <2> SUFFICES ASSUME NEW h \in Guests
               PROVE  Heard(h, own', page'[h], toOwner[h])
    BY <1>2 DEF EverythingHeard, MeetGuest
  <2>1. Heard(h, own, page[h], toOwner[h]) /\ own.link = NoOne
    BY <1>2 DEF EverythingHeard, MeetGuest
  <2>2. toOwner[h] = <<>> /\ own'.link = g /\ ~own'.acked
    BY <1>2, <1>own, <2>1 DEF MeetGuest, Heard, Owner
  <2>3. page'[h].channel = page[h].channel /\ page'[h].card = page[h].card
    BY <1>2, <1>page DEF MeetGuest, Page
  <2>4. (h # g /\ page'[h].at = page[h].at) \/ (h = g /\ page'[h].at = "open" /\ page[h].channel = "connecting")
    BY <1>2, <1>page, <2>1 DEF MeetGuest, Heard, Page
  <2> QED
    BY <2>1, <2>2, <2>3, <2>4, HoldsEmpty DEF Heard
<1>3. ASSUME NEW g \in Guests, OwnerChannelOpens(g)
      PROVE  EverythingHeard'
  <2> DEFINE opened == [own EXCEPT !.channel = "open", !.connected = TRUE]
  <2>1. own'.link = own.link /\ own'.acked = own.acked /\ own'.channel = "open"
    BY <1>3, <1>own DEF OwnerChannelOpens, OwnerBecomes, FlushPendingSecret, Owner
  <2>2. UNCHANGED <<page, toOwner>> /\ own.channel = "connecting"
    BY <1>3 DEF OwnerChannelOpens
  <2> QED
    BY <2>1, <2>2 DEF EverythingHeard, Heard
<1>4. ASSUME NEW g \in Guests, OwnerChannelCloses(g)
      PROVE  EverythingHeard'
  <2>1. own'.link = own.link /\ own'.acked = own.acked /\ own'.channel = "closed"
    BY <1>4, <1>own DEF OwnerChannelCloses, Owner
  <2> QED
    BY <1>4, <2>1, HeardEnds DEF OwnerChannelCloses
<1>5. CASE LinkReset
  <2>1. own'.link = NoOne /\ ~own'.acked
    BY <1>5 DEF LinkReset, ResetPeerLink, Unlinked
  <2>2. own.link \in Guests
    BY <1>5, <1>own DEF LinkReset, Owner
  <2> QED
    BY <1>5, <2>1, <2>2, HeardEnds DEF LinkReset
<1>6. ASSUME NEW g \in Guests, ReceiveHello(g)
      PROVE  EverythingHeard'
  BY <1>6, HeardTakes DEF ReceiveHello, Take
<1>7. ASSUME NEW g \in Guests, ReceivePong(g)
      PROVE  EverythingHeard'
  <2>1. SameLink(own, own')
    BY <1>7, <1>own DEF ReceivePong, Challenge, SameLink, Owner
  <2> QED
    BY <1>7, <2>1, HeardTakes DEF ReceivePong, Take, SameLink
<1>8. ASSUME NEW g \in Guests, ReceiveAck(g)
      PROVE  EverythingHeard'
  <2>1. own'.link = own.link /\ own'.channel = own.channel /\ own'.acked = TRUE
    BY <1>8, <1>own DEF ReceiveAck, Owner
  <2> QED
    BY <1>8, <2>1, HeardTakes DEF ReceiveAck, Take
<1>9. ASSUME NEW g \in Guests, ReceiveRequest(g)
      PROVE  EverythingHeard'
  <2>1. SameLink(own, own')
    BY <1>9, <1>own DEF ReceiveRequest, OwnerBecomes, FlushPendingSecret, SameLink, Owner
  <2> QED
    BY <1>9, <2>1, HeardTakes DEF ReceiveRequest, Take, SameLink
<1>10. ASSUME NEW g \in Guests, ReceiveBurn(g)
       PROVE  EverythingHeard'
  BY <1>10, HeardTakes DEF ReceiveBurn, Take
<1>11. CASE DeleteSecret
  BY <1>11, HeardWipe DEF DeleteSecret, Wipe, Post, Queued
<1>12. CASE ExpireSecret
  BY <1>12, HeardWipe DEF ExpireSecret, Wipe, Post, Queued
<1>13. ASSUME NEW g \in Guests, GuestChannelOpens(g)
       PROVE  EverythingHeard'
  <2> SUFFICES ASSUME NEW h \in Guests
               PROVE  Heard(h, own, page'[h], toOwner'[h])
    BY <1>13 DEF EverythingHeard, GuestChannelOpens
  <2>1. Heard(h, own, page[h], toOwner[h])
    BY DEF EverythingHeard
  <2>2. CASE h # g
    BY <1>13, <1>page, <2>1, <2>2 DEF GuestChannelOpens, Queued, TypeOK
  <2>3. CASE h = g
    <3>1. /\ page'[g].at = page[g].at /\ page'[g].channel = "open"
          /\ page'[g].card = page[g].card
      BY <1>13, <1>page DEF GuestChannelOpens, Watching, Page
    <3>2. Heard(g, own, page'[g], toOwner[g])
      BY <1>13, <2>1, <2>3, <3>1 DEF Heard, GuestChannelOpens
    <3>3. CASE UNCHANGED toOwner
      BY <2>3, <3>2, <3>3
    <3>4. CASE own.link = g /\ Queued(toOwner, g, <<Message("hello")>>)
      <4>1. Message("hello") \in MessageToOwner /\ Message("hello").kind = "hello"
        BY MessageTypes DEF Message
      <4>2. Advances(page'[g], page'[g])
        BY DEF Advances
      <4>3. toOwner'[g] = toOwner[g] \o <<Message("hello")>> /\ toOwner[g] \in Seq(MessageToOwner)
        BY <3>4 DEF Queued, TypeOK
      <4>4. Heard(g, own, page'[g], toOwner[g] \o <<Message("hello")>>)
        BY <3>2, <3>4, <4>1, <4>2, <4>3, HeardSent
      <4> QED
        BY <2>3, <4>3, <4>4
    <3> QED
      BY <1>13, <3>3, <3>4 DEF GuestChannelOpens
  <2> QED
    BY <2>2, <2>3
<1>14. ASSUME NEW g \in Guests, AnswerPing(g)
       PROVE  EverythingHeard'
  <2>1. \A h \in Guests : /\ page'[h].at = page[h].at /\ page'[h].channel = page[h].channel
                          /\ page'[h].card = page[h].card
    BY <1>14, <1>page, SigningOnly
  <2> QED
    BY <1>14, <2>1 DEF AnswerPing, EverythingHeard, Heard
<1>24. ASSUME NEW g \in Guests, PingSigned(g)
       PROVE  EverythingHeard'
  <2>1. /\ page'[g].at = page[g].at /\ page'[g].channel = page[g].channel
        /\ page'[g].card = page[g].card
        /\ \A h \in Guests : h # g => page'[h] = page[h]
    BY <1>24, <1>page, SigningOnly
  <2>2. PICK n \in 1..MaxChallenges : Reply(g, <<Pong(n)>>)
    BY <1>24, <1>page DEF PingSigned, Page
  <2>3. Pong(n) \in MessageToOwner /\ Pong(n).kind = "pong"
    BY MessageTypes DEF Pong
  <2>4. Advances(page[g], page'[g])
    BY <2>1 DEF Advances
  <2>5. UNCHANGED own
    BY <1>24 DEF PingSigned
  <2>6. CASE page[g].channel = "open"
    BY <2>1, <2>2, <2>3, <2>4, <2>5, <2>6, HeardReply
  <2>7. CASE page[g].channel # "open"
    BY <2>1, <2>2, <2>5, <2>7 DEF Reply, EverythingHeard, Heard
  <2> QED
    BY <2>6, <2>7
<1>15. ASSUME NEW g \in Guests, BecomesValidated(g) \/ StaysOn(g)
       PROVE  EverythingHeard'
  <2>1. \A h \in Guests : /\ page'[h].at = page[h].at /\ page'[h].channel = page[h].channel
                          /\ page'[h].card = page[h].card
    BY <1>15, <1>page DEF BecomesValidated, StaysOn, Watching, Page
  <2> QED
    BY <1>15, <2>1 DEF BecomesValidated, StaysOn, EverythingHeard, Heard
<1>16. ASSUME NEW g \in Guests, RenderSecret(g)
       PROVE  EverythingHeard'
  <2>1. /\ page'[g].at = page[g].at /\ page'[g].channel = page[g].channel
        /\ page'[g].card # "waiting" /\ page[g].channel = "open"
    BY <1>16, <1>page DEF RenderSecret, GuestTakes, Page
  <2>2. \A h \in Guests : h # g => page'[h] = page[h]
    BY <1>16, <1>page DEF RenderSecret
  <2>3. Message("secret-received") \in MessageToOwner
        /\ Message("secret-received").kind = "secret-received"
    BY MessageTypes DEF Message
  <2>4. Advances(page[g], page'[g])
    BY <2>1 DEF Advances
  <2> QED
    BY <1>16, <2>1, <2>2, <2>3, <2>4, HeardReply DEF RenderSecret
<1>17. ASSUME NEW g \in Guests, RedirectHome(g) \/ GuestLeaves(g)
       PROVE  EverythingHeard'
  <2>1. /\ \A h \in Guests : h # g => page'[h] = page[h]
        /\ page'[g].card = page[g].card /\ page'[g].at = "gone" /\ page'[g].channel = "closed"
    <3>1. page' = [page EXCEPT ![g] = Gone(page[g])]
      BY <1>17 DEF RedirectHome, GuestLeaves
    <3> QED
      BY <1>page, <3>1 DEF Gone, Page
  <2> QED
    BY <1>17, <2>1, HeardPage DEF RedirectHome, GuestLeaves
<1>18. ASSUME NEW g \in Guests, WatchdogFires(g)
       PROVE  EverythingHeard'
  <2>1. /\ page'[g].at = page[g].at /\ page'[g].channel = page[g].channel
        /\ page'[g].card = page[g].card
        /\ \A h \in Guests : h # g => page'[h] = page[h]
    BY <1>18, <1>page DEF WatchdogFires, Watching, Page
  <2>2. Message("request-secret") \in MessageToOwner
        /\ Message("request-secret").kind = "request-secret"
    BY MessageTypes DEF Message
  <2>3. Advances(page[g], page'[g])
    BY <2>1 DEF Advances
  <2>4. CASE page[g].channel = "open"
    BY <1>18, <2>1, <2>2, <2>3, <2>4, HeardReply DEF WatchdogFires
  <2>5. CASE page[g].channel # "open"
    BY <1>18, <2>1, <2>5 DEF WatchdogFires, Reply, EverythingHeard, Heard
  <2> QED
    BY <2>4, <2>5
<1>19. ASSUME NEW g \in Guests, OpenSecret(g)
       PROVE  EverythingHeard'
  <2>1. /\ page'[g].at = page[g].at /\ page'[g].channel = page[g].channel
        /\ page[g].card = "sealed" /\ page'[g].card = "read"
        /\ \A h \in Guests : h # g => page'[h] = page[h]
    BY <1>19, <1>page DEF OpenSecret, Page
  <2>2. Message("burn") \in MessageToOwner /\ Message("burn").kind = "burn"
    BY MessageTypes DEF Message
  <2>3. CASE page[g].channel = "open"
    <3>1. Advances(page[g], page'[g])
      BY <2>1, <2>3 DEF Advances
    <3>2. CASE BurnAfterRead
      BY <1>19, <2>1, <2>2, <2>3, <3>1, <3>2, HeardReply DEF OpenSecret
    <3>3. CASE ~BurnAfterRead
      BY <1>19, <2>1, <2>2, <2>3, <3>1, <3>3, HeardReply DEF OpenSecret
    <3> QED
      BY <3>2, <3>3
  <2>4. CASE page[g].channel # "open"
    <3> SUFFICES ASSUME NEW h \in Guests
                 PROVE  Heard(h, own, page'[h], toOwner[h])
      BY <1>19, <2>4 DEF OpenSecret, Reply, EverythingHeard
    <3>1. Heard(h, own, page[h], toOwner[h])
      BY DEF EverythingHeard
    <3>2. CASE h # g
      BY <2>1, <3>1, <3>2
    <3>3. CASE h = g
      BY <2>1, <2>4, <3>1, <3>3 DEF Heard
    <3> QED
      BY <3>2, <3>3
  <2> QED
    BY <2>3, <2>4
<1>20. ASSUME NEW g \in Guests, GuestLinkLost(g) \/ GuestResets(g)
       PROVE  EverythingHeard'
  <2>1. /\ \A h \in Guests : h # g => page'[h] = page[h]
        /\ page'[g].card = page[g].card /\ page'[g].at = "open" /\ page'[g].channel = "closed"
    BY <1>20, <1>page DEF GuestLinkLost, GuestResets, Page
  <2> QED
    BY <1>20, <2>1, HeardPage DEF GuestLinkLost, GuestResets
<1>21. CASE UNCHANGED vars
  BY <1>21 DEF vars, EverythingHeard
<1> QED
  BY <1>1, <1>2, <1>3, <1>4, <1>5, <1>6, <1>7, <1>8, <1>9, <1>10, <1>11, <1>12, <1>13, <1>14,
     <1>15, <1>16, <1>17, <1>18, <1>19, <1>20, <1>21, <1>24
  DEF Next, OwnerHandles, GuestHandles, Inner

-----------------------------------------------------------------------------
(* What the owner sends *)

Dismissing(queue) == Holds(queue, "unavailable") \/ Holds(queue, "delete")

\* What the owner sends reaches guest g.
Reaches(g, o, object) ==
  /\ o.link = g /\ o.channel = "open"
  /\ object.at = "open" /\ object.channel # "closed"

LEMMA Posted ==
  ASSUME TypeOK, NEW o \in Owner, NEW messages \in Seq(MessageToGuest), Post(o, messages),
         NEW g \in Guests
  PROVE  /\ \A kind : Holds(toGuest[g], kind) => Holds(toGuest'[g], kind)
         /\ Reaches(g, o, page[g]) =>
              \A kind : Holds(messages, kind) => Holds(toGuest'[g], kind)
<1>1. toGuest \in [Guests -> Seq(MessageToGuest)]
  BY DEF TypeOK
<1>2. CASE Reaches(g, o, page[g])
  <2>1. toGuest'[g] = toGuest[g] \o messages
    BY <1>1, <1>2 DEF Post, Queued, CanSend, Reaches
  <2> QED
    BY <1>1, <2>1, HoldsJoined
<1>3. CASE ~Reaches(g, o, page[g])
  <2>1. toGuest'[g] = toGuest[g]
    BY <1>1, <1>3 DEF Post, Queued, CanSend, Reaches
  <2> QED
    BY <1>3, <2>1
<1> QED
  BY <1>2, <1>3

LEMMA Taken ==
  ASSUME TypeOK, NEW g \in Guests, NEW kinds, GuestTakes(g, kinds),
         "unavailable" \notin kinds, "delete" \notin kinds, NEW h \in Guests
  PROVE  Dismissing(toGuest'[h]) <=> Dismissing(toGuest[h])
<1>1. toGuest \in [Guests -> Seq(MessageToGuest)]
  BY DEF TypeOK
<1>2. CASE h = g
  <2>1. toGuest'[h] = Tail(toGuest[h]) /\ toGuest[h] # <<>>
        /\ Head(toGuest[h]).kind \notin {"unavailable", "delete"}
    BY <1>1, <1>2 DEF GuestTakes
  <2>2. \A kind : Holds(toGuest[h], kind) <=>
                    Head(toGuest[h]).kind = kind \/ Holds(Tail(toGuest[h]), kind)
    BY <1>1, <2>1, HoldsTail
  <2> QED
    BY <2>1, <2>2 DEF Dismissing
<1>3. CASE h # g
  BY <1>1, <1>3 DEF GuestTakes
<1> QED
  BY <1>2, <1>3

\* The steps of the recipient's pages.
OfGuests ==
  \E g \in Guests :
    \/ GuestHandles(g) \/ OpenSecret(g) \/ GuestLeaves(g) \/ GuestLinkLost(g) \/ GuestResets(g)

\* They leave the owner alone, and a guest that hears of nothing new is not
\* reached again, nor dismissed.
LEMMA GuestSteps ==
  ASSUME TypeOK, OfGuests
  PROVE  /\ UNCHANGED <<own, secret>>
         /\ \A h \in Guests : Reaches(h, own, page'[h]) =>
              /\ Reaches(h, own, page[h])
              /\ Dismissing(toGuest'[h]) <=> Dismissing(toGuest[h])
<1> DEFINE Goal == /\ UNCHANGED <<own, secret>>
                   /\ \A h \in Guests : Reaches(h, own, page'[h]) =>
                        /\ Reaches(h, own, page[h])
                        /\ Dismissing(toGuest'[h]) <=> Dismissing(toGuest[h])
<1>page. page \in [Guests -> Page] /\ toGuest \in [Guests -> Seq(MessageToGuest)]
  BY DEF TypeOK
<1>1. ASSUME UNCHANGED <<own, secret>>,
             \A h \in Guests : Dismissing(toGuest'[h]) <=> Dismissing(toGuest[h]),
             \A h \in Guests : /\ page'[h].at = page[h].at
                               /\ page'[h].channel = "closed" \/ page[h].channel # "closed"
      PROVE  Goal
  BY <1>1 DEF Reaches
<1>2. ASSUME UNCHANGED <<own, secret>>, NEW g \in Guests,
             page'[g].at = "gone" \/ page'[g].channel = "closed",
             \A h \in Guests : h # g => page'[h] = page[h] /\ toGuest'[h] = toGuest[h]
      PROVE  Goal
  BY <1>2 DEF Reaches
<1>3. ASSUME NEW g \in Guests, GuestChannelOpens(g)
      PROVE  Goal
  <2>1. \A h \in Guests : /\ page'[h].at = page[h].at
                          /\ page'[h].channel = "closed" \/ page[h].channel # "closed"
    BY <1>page, <1>3 DEF GuestChannelOpens, Watching, Page
  <2> QED
    BY <1>1, <1>3, <2>1 DEF GuestChannelOpens
<1>4. ASSUME NEW g \in Guests, AnswerPing(g) \/ BecomesValidated(g) \/ RenderSecret(g) \/ StaysOn(g)
      PROVE  Goal
  <2>1. \A h \in Guests : Dismissing(toGuest'[h]) <=> Dismissing(toGuest[h])
    BY <1>4, Taken DEF AnswerPing, BecomesValidated, RenderSecret, StaysOn
  <2>2. CASE StaysOn(g)
    BY <1>1, <2>1, <2>2 DEF StaysOn
  <2>5. CASE AnswerPing(g)
    <3>1. \A h \in Guests : page'[h].at = page[h].at /\ page'[h].channel = page[h].channel
      BY <1>page, <2>5, SigningOnly
    <3> QED
      BY <1>1, <2>1, <2>5, <3>1 DEF AnswerPing
  <2>3. CASE BecomesValidated(g)
    <3>1. \A h \in Guests : page'[h].at = page[h].at /\ page'[h].channel = page[h].channel
      BY <1>page, <2>3 DEF BecomesValidated, Watching, Page
    <3> QED
      BY <1>1, <2>1, <2>3, <3>1 DEF BecomesValidated
  <2>4. CASE RenderSecret(g)
    <3>1. \A h \in Guests : page'[h].at = page[h].at /\ page'[h].channel = page[h].channel
      BY <1>page, <2>4 DEF RenderSecret, Page
    <3> QED
      BY <1>1, <2>1, <2>4, <3>1 DEF RenderSecret
  <2> QED
    BY <1>4, <2>2, <2>3, <2>4, <2>5
<1>5. ASSUME NEW g \in Guests, RedirectHome(g) \/ GuestLeaves(g)
      PROVE  Goal
  <2>1. /\ page' = [page EXCEPT ![g] = Gone(page[g])]
        /\ toGuest' = [toGuest EXCEPT ![g] = <<>>]
        /\ UNCHANGED <<own, secret>>
    BY <1>5 DEF RedirectHome, GuestLeaves
  <2>2. page'[g].at = "gone"
    BY <1>page, <2>1 DEF Gone, Page
  <2> QED
    BY <1>2, <1>page, <2>1, <2>2
<1>6. ASSUME NEW g \in Guests, GuestLinkLost(g)
      PROVE  Goal
  <2>1. page'[g].channel = "closed"
    BY <1>page, <1>6 DEF GuestLinkLost, Page
  <2> QED
    BY <1>2, <1>page, <1>6, <2>1 DEF GuestLinkLost
<1>7. ASSUME NEW g \in Guests, WatchdogFires(g)
      PROVE  Goal
  <2>1. \A h \in Guests : page'[h].at = page[h].at /\ page'[h].channel = page[h].channel
    BY <1>page, <1>7 DEF WatchdogFires, Watching, Page
  <2> QED
    BY <1>1, <1>7, <2>1 DEF WatchdogFires
<1>10. ASSUME NEW g \in Guests, PingSigned(g)
       PROVE  Goal
  <2>1. \A h \in Guests : page'[h].at = page[h].at /\ page'[h].channel = page[h].channel
    BY <1>page, <1>10, SigningOnly
  <2> QED
    BY <1>1, <1>10, <2>1 DEF PingSigned
<1>8. ASSUME NEW g \in Guests, OpenSecret(g)
      PROVE  Goal
  <2>1. \A h \in Guests : page'[h].at = page[h].at /\ page'[h].channel = page[h].channel
    BY <1>page, <1>8 DEF OpenSecret, Page
  <2> QED
    BY <1>1, <1>8, <2>1 DEF OpenSecret
<1>9. ASSUME NEW g \in Guests, GuestResets(g)
      PROVE  Goal
  <2>1. \A h \in Guests : page'[h].at = page[h].at /\ page'[h].channel = page[h].channel
    BY <1>page, <1>9 DEF GuestResets, Page
  <2> QED
    BY <1>1, <1>9, <2>1 DEF GuestResets
<1> QED
  BY <1>3, <1>4, <1>5, <1>6, <1>7, <1>8, <1>9, <1>10 DEF OfGuests, GuestHandles

\* The steps of the owner while a link is up: inner ones, and what it does with
\* the recipient's messages.
Receives(g) ==
  \/ ReceiveHello(g) \/ ReceivePong(g) \/ ReceiveAck(g) \/ ReceiveRequest(g) \/ ReceiveBurn(g)

LEMMA ReceiveSteps ==
  ASSUME TypeOK, NEW g \in Guests, Receives(g)
  PROVE  /\ own'.link = own.link /\ own'.channel = own.channel /\ UNCHANGED page
         /\ own'.acked = own.acked \/ (own'.acked = TRUE /\ ReceiveAck(g))
<1>own. own \in Owner
  BY DEF TypeOK
<1>1. CASE ReceiveHello(g) \/ ReceiveBurn(g)
  BY <1>1 DEF ReceiveHello, ReceiveBurn
<1>2. CASE ReceivePong(g)
  BY <1>own, <1>2 DEF ReceivePong, Challenge, Owner
<1>3. CASE ReceiveAck(g)
  BY <1>own, <1>3 DEF ReceiveAck, Owner
<1>4. CASE ReceiveRequest(g)
  BY <1>own, <1>4 DEF ReceiveRequest, OwnerBecomes, FlushPendingSecret, Owner
<1> QED
  BY <1>1, <1>2, <1>3, <1>4 DEF Receives

\* Nothing that is on its way to a recipient is taken back.
LEMMA NothingTakenBack ==
  ASSUME TypeOK, Inner \/ \E h \in Guests : Receives(h), NEW g \in Guests
  PROVE  Dismissing(toGuest[g]) => Dismissing(toGuest'[g])
<1>own. own \in Owner
  BY DEF TypeOK
<1>1. ASSUME UNCHANGED toGuest
      PROVE  Dismissing(toGuest[g]) => Dismissing(toGuest'[g])
  BY <1>1
<1>2. ASSUME NEW h \in Guests, HelloChecked(h)
      PROVE  Dismissing(toGuest[g]) => Dismissing(toGuest'[g])
  <2> DEFINE known == [own EXCEPT !.identity = h]
  <2>1. known \in Owner
    BY <1>own DEF Owner
  <2>2. CASE known.issued < MaxChallenges
    <3>1. known.issued + 1 \in 1..MaxChallenges
      BY <2>1, <2>2 DEF Owner
    <3>2. <<Ping(known.issued + 1)>> \in Seq(MessageToGuest)
      BY <3>1, MessageTypes
    <3>3. UNCHANGED toGuest \/ Post(known, <<Ping(known.issued + 1)>>)
      BY <1>2 DEF HelloChecked, Challenge
    <3> HIDE DEF known
    <3> QED
      BY <2>1, <3>2, <3>3, Posted DEF Post, Queued, Dismissing
  <2>3. CASE ~(known.issued < MaxChallenges)
    BY <1>1, <1>2, <2>1, <2>3 DEF HelloChecked, Challenge
  <2> QED
    BY <2>2, <2>3
<1>3. ASSUME NEW h \in Guests, ReceivePong(h)
      PROVE  Dismissing(toGuest[g]) => Dismissing(toGuest'[g])
  <2>1. CASE own.issued < MaxChallenges
    <3>1. own.issued + 1 \in 1..MaxChallenges
      BY <1>own, <2>1 DEF Owner
    <3>2. <<Ping(own.issued + 1)>> \in Seq(MessageToGuest)
      BY <3>1, MessageTypes
    <3>3. UNCHANGED toGuest \/ Post(own, <<Ping(own.issued + 1)>>)
      BY <1>3 DEF ReceivePong, Challenge
    <3> QED
      BY <1>own, <3>2, <3>3, Posted DEF Post, Queued, Dismissing
  <2>2. CASE ~(own.issued < MaxChallenges)
    BY <1>1, <1>3, <2>2 DEF ReceivePong, Challenge
  <2> QED
    BY <2>1, <2>2
<1>4. ASSUME NEW h \in Guests, PongVerified(h)
      PROVE  Dismissing(toGuest[g]) => Dismissing(toGuest'[g])
  <2>1. <<Message("validated")>> \in Seq(MessageToGuest)
    BY MessageTypes
  <2> QED
    BY <1>own, <1>4, <2>1, Posted DEF PongVerified, Dismissing
<1>5. ASSUME NEW h \in Guests, FlushSends(h)
      PROVE  Dismissing(toGuest[g]) => Dismissing(toGuest'[g])
  <2> PICK x \in CopyKeys(h) : Post(own, <<SecretUnder(x)>>)
    BY <1>5 DEF FlushSends
  <2>1. <<SecretUnder(x)>> \in Seq(MessageToGuest)
    BY SecretType DEF TypeOK
  <2> QED
    BY <1>own, <2>1, Posted DEF Post, Queued, Dismissing
<1>6. ASSUME ToggleSecret
      PROVE  Dismissing(toGuest[g]) => Dismissing(toGuest'[g])
  <2> DEFINE told == (IF secret.sent THEN <<Toggled(~secret.active)>> ELSE <<>>)
                       \o (IF ~secret.active THEN <<>> ELSE <<Message("unavailable")>>)
  <2>1. told \in Seq(MessageToGuest)
    <3>1. Toggled(~secret.active) \in MessageToGuest
      BY DEF Toggled, MessageToGuest
    <3> QED
      BY <3>1, MessageTypes
  <2>2. Post(own, told)
    BY <1>6 DEF ToggleSecret
  <2> HIDE DEF told
  <2> QED
    BY <1>own, <2>1, <2>2, Posted DEF Post, Queued, Dismissing
<1> QED
  BY <1>1, <1>2, <1>3, <1>4, <1>5, <1>6
  DEF Inner, Receives, AnswerApplied, KeyDerived, ConnectionUp, FlushFails, ConnectionDown,
      FlushKeyed, RetryFires, SendAges, ReceiveHello, ReceiveAck, ReceiveRequest, ReceiveBurn

-----------------------------------------------------------------------------
(* Off *)

\* A recipient of a secret that is off is on its way home, or was the one to
\* burn it.
Told(g, o, s, object, queue) ==
  Reaches(g, o, object) /\ ~s.active => Dismissing(queue) \/ (s.burned /\ o.acked)

EveryoneTold == \A g \in Guests : Told(g, own, secret, page[g], toGuest[g])

LEMMA ToldKept ==
  ASSUME EveryoneTold,
         \A g \in Guests : Reaches(g, own', page'[g]) /\ ~secret'.active =>
           /\ Reaches(g, own, page[g]) /\ ~secret.active
           /\ Dismissing(toGuest[g]) => Dismissing(toGuest'[g])
           /\ secret.burned => secret'.burned
           /\ own.acked => own'.acked
  PROVE  EveryoneTold'
BY DEF EveryoneTold, Told

LEMMA ToldInit == Init => EveryoneTold
BY DEF Init, EveryoneTold, Told

LEMMA ToldStep == TypeOK /\ EverythingHeard /\ EveryoneTold /\ [Next]_vars => EveryoneTold'
<1> SUFFICES ASSUME TypeOK, EverythingHeard, EveryoneTold, [Next]_vars
             PROVE  EveryoneTold'
  OBVIOUS
<1>own. own \in Owner
  BY DEF TypeOK
<1>secret. secret \in Secret
  BY DEF TypeOK
<1>1. CASE OfGuests
  BY <1>1, GuestSteps, ToldKept
<1>2. CASE Inner /\ ~ToggleSecret
  <2>1. secret'.active = secret.active /\ secret'.burned = secret.burned
    BY <1>2, <1>secret
    DEF Inner, AnswerApplied, KeyDerived, ConnectionUp, HelloChecked, PongVerified, FlushSends,
        FlushFails, ConnectionDown, FlushKeyed, RetryFires, SendAges, Secret
  <2>2. \A g \in Guests : Reaches(g, own', page'[g]) => Reaches(g, own, page[g])
    BY <1>2, InnerSteps DEF SameLink, Reaches
  <2>3. own'.acked = own.acked
    BY <1>2, InnerSteps DEF SameLink
  <2> QED
    BY <1>2, <2>1, <2>2, <2>3, NothingTakenBack, ToldKept
<1>3. CASE ToggleSecret
  <2> SUFFICES ASSUME NEW g \in Guests, Reaches(g, own', page'[g]), ~secret'.active
               PROVE  Dismissing(toGuest'[g])
    BY DEF EveryoneTold, Told
  <2>1. Reaches(g, own, page[g])
    BY <1>3, InnerSteps DEF Inner, SameLink, Reaches
  <2>2. secret.active
    BY <1>3, <1>secret DEF ToggleSecret, Secret
  <2> DEFINE told == IF secret.sent THEN <<Toggled(~secret.active)>> ELSE <<>>
             off == IF ~secret.active THEN <<>> ELSE <<Message("unavailable")>>
  <2>3. told \in Seq(MessageToGuest) /\ off \in Seq(MessageToGuest)
    <3>1. Toggled(~secret.active) \in MessageToGuest
      BY DEF Toggled, MessageToGuest
    <3> QED
      BY <3>1, MessageTypes
  <2>4. Holds(off, "unavailable")
    BY <2>2, HoldsOne DEF Message
  <2>5. toGuest'[g] = toGuest[g] \o (told \o off)
    <3>1. Post(own, told \o off)
      BY <1>3 DEF ToggleSecret
    <3> QED
      BY <2>1, <3>1 DEF Post, Queued, CanSend, Reaches, TypeOK
  <2> HIDE DEF told, off
  <2>6. Holds(told \o off, "unavailable") /\ told \o off \in Seq(MessageToGuest)
    BY <2>3, <2>4, HoldsJoined
  <2>7. toGuest[g] \in Seq(MessageToGuest)
    BY DEF TypeOK
  <2>8. Holds(toGuest[g] \o (told \o off), "unavailable")
    BY <2>6, <2>7, HoldsJoined
  <2> QED
    BY <2>5, <2>8 DEF Dismissing
<1>4. ASSUME NEW h \in Guests, Receives(h), ~ReceiveBurn(h)
      PROVE  EveryoneTold'
  <2>1. secret' = secret
    BY <1>4 DEF Receives, ReceiveHello, ReceivePong, ReceiveAck, ReceiveRequest
  <2>2. \A g \in Guests : Reaches(g, own', page'[g]) => Reaches(g, own, page[g])
    BY <1>4, ReceiveSteps DEF Reaches
  <2>3. own.acked => own'.acked
    BY <1>4, ReceiveSteps
  <2> QED
    BY <1>4, <2>1, <2>2, <2>3, NothingTakenBack, ToldKept
<1>5. ASSUME NEW h \in Guests, ReceiveBurn(h)
      PROVE  EveryoneTold'
  <2>1. own.acked
    <3>1. Heard(h, own, page[h], toOwner[h]) /\ toOwner[h] \in Seq(MessageToOwner)
      BY DEF EverythingHeard, TypeOK
    <3>2. 1 \in DOMAIN toOwner[h] /\ toOwner[h][1].kind = "burn"
      BY <1>5, <3>1, Tailed DEF ReceiveBurn, Take
    <3>3. \A j \in DOMAIN toOwner[h] : ~(j < 1)
      BY <3>1
    <3> QED
      BY <3>1, <3>2, <3>3 DEF Heard
  <2>2. secret'.burned /\ own' = own
    BY <1>5, <1>secret DEF ReceiveBurn, Secret
  <2> QED
    BY <2>1, <2>2 DEF EveryoneTold, Told
<1>6. ASSUME NEW h \in Guests, OwnerChannelOpens(h)
      PROVE  EveryoneTold'
  <2>1. CASE secret.active
    BY <1>6, <2>1 DEF OwnerChannelOpens, EveryoneTold, Told
  <2>2. CASE ~secret.active
    <3> SUFFICES ASSUME NEW g \in Guests, Reaches(g, own', page'[g])
                 PROVE  Dismissing(toGuest'[g])
      BY DEF EveryoneTold, Told
    <3> DEFINE opened == [own EXCEPT !.channel = "open", !.connected = TRUE]
               off == <<Message("unavailable")>>
    <3>1. opened \in Owner
      BY <1>own DEF Owner
    <3>2. off \in Seq(MessageToGuest) /\ Holds(off, "unavailable")
      BY MessageTypes, HoldsOne DEF Message
    <3>3. Post(opened, off) /\ own' = opened /\ page' = page
      BY <1>6, <2>2 DEF OwnerChannelOpens
    <3> HIDE DEF opened, off
    <3>4. Reaches(g, opened, page[g])
      BY <3>3 DEF Reaches
    <3> QED
      BY <3>1, <3>2, <3>3, <3>4, Posted DEF Post, Queued, Dismissing
  <2> QED
    BY <2>1, <2>2
<1>7. ASSUME (\E g \in Guests : MeetGuest(g) \/ OwnerChannelCloses(g)) \/ LinkReset
      PROVE  EveryoneTold'
  <2>1. own'.channel # "open"
    BY <1>7, <1>own DEF MeetGuest, OwnerChannelCloses, LinkReset, ResetPeerLink, Unlinked, Owner
  <2> QED
    BY <2>1 DEF EveryoneTold, Told, Reaches
<1>8. ASSUME DeleteSecret \/ ExpireSecret
      PROVE  EveryoneTold'
  <2>1. own'.channel # "open"
    BY <1>8, <1>own DEF DeleteSecret, ExpireSecret, Wipe, Owner
  <2> QED
    BY <2>1 DEF EveryoneTold, Told, Reaches
<1>9. CASE UNCHANGED vars
  BY <1>9 DEF vars, EveryoneTold, Told
<1> QED
  BY <1>1, <1>2, <1>3, <1>4, <1>5, <1>6, <1>7, <1>8, <1>9
  DEF Next, OwnerHandles, OfGuests, Inner, Receives

-----------------------------------------------------------------------------
(* Wake-ups *)

Woken(o) == InFlight(o) \/ o.retry \/ o.attempts = MaxAttempts

\* Everything has come together, or had when the last secret was sent: for 700 ms
\* after it a flush does nothing.
Ready(o) == Deliverable(o) \/ o.recent

Awake(g, o, s, object, queue) ==
  Reaches(g, o, object) /\ ~Dismissing(queue) /\ s.active /\ ~o.acked /\ Ready(o) => Woken(o)

\* A link on which nothing was sent.
Quiet(o) == o.link = NoOne \/ o.channel = "connecting" => ~o.recent

EveryoneAwake ==
  Quiet(own) /\ \A g \in Guests : Awake(g, own, secret, page[g], toGuest[g])

LEMMA AwakeInit == Init => EveryoneAwake
BY DEF Init, EveryoneAwake, Awake, Reaches, Quiet, Unlinked

\* What a call of flushPendingSecret does when the secret is on and not
\* acknowledged.
Flushed(o, p) ==
  \/ ~Deliverable(o) /\ p = o
  \/ Deliverable(o) /\ o.recent /\ p = o
  \/ Deliverable(o) /\ p = [o EXCEPT !.flights[Started] = @ + 1]

LEMMA FlushWakes ==
  ASSUME NEW o \in Owner, NEW p, Flushed(o, p), o.recent => Woken(o)
  PROVE  Ready(p) => Woken(p)
<1>1. CASE ~Deliverable(o) /\ p = o
  BY <1>1 DEF Ready
<1>3. CASE Deliverable(o) /\ o.recent /\ p = o
  BY <1>3
<1>2. CASE p = [o EXCEPT !.flights[Started] = @ + 1]
  <2>1. Started \in Flight /\ o.flights \in [Flight -> Nat]
    BY DEF Flight, Owner
  <2>2. p.flights[Started] = o.flights[Started] + 1
    BY <1>2, <2>1 DEF Owner
  <2>3. p.flights[Started] > 0
    BY <2>1, <2>2
  <2> QED
    BY <2>1, <2>3 DEF Woken, InFlight
<1> QED
  BY <1>1, <1>2, <1>3 DEF Flushed

LEMMA ScheduleWakes ==
  ASSUME NEW o \in Owner, secret.active, ~o.acked
  PROVE  Woken(ScheduleSecretRetry(o))
<1> DEFINE p == [o EXCEPT !.retry = o.attempts < MaxAttempts]
<1>1. p.retry = (o.attempts < MaxAttempts) /\ p.attempts = o.attempts
  BY DEF Owner
<1>2. o.attempts < MaxAttempts \/ o.attempts = MaxAttempts
  BY DEF Owner
<1>3. p.retry \/ p.attempts = MaxAttempts
  BY <1>1, <1>2
<1> QED
  BY <1>3 DEF ScheduleSecretRetry, Woken

\* What was needed of the session before a step, and what it has to show after.
LEMMA AwakeKept ==
  ASSUME EveryoneAwake, Quiet(own'),
         \A g \in Guests :
           Reaches(g, own', page'[g]) /\ ~Dismissing(toGuest'[g]) /\ secret'.active /\ ~own'.acked =>
             /\ Reaches(g, own, page[g]) /\ ~Dismissing(toGuest[g]) /\ secret.active /\ ~own.acked
             /\ (Ready(own) => Woken(own)) => (Ready(own') => Woken(own'))
  PROVE  EveryoneAwake'
BY DEF EveryoneAwake, Awake

\* A link is quiet until the secret is sent on it.
LEMMA QuietKept ==
  ASSUME Quiet(own), own'.link = own.link, own'.channel = own.channel,
         own'.recent => own.recent \/ (own.channel = "open" /\ own.link # NoOne)
  PROVE  Quiet(own')
BY DEF Quiet

LEMMA InnerQuiet ==
  ASSUME TypeOK, Inner, Quiet(own)
  PROVE  Quiet(own')
<1>own. own \in Owner
  BY DEF TypeOK
<1>1. own'.recent => own.recent \/ (own.channel = "open" /\ own.link # NoOne)
  <2>1. CASE \E g \in Guests : FlushSends(g)
    BY <2>1 DEF FlushSends, CanSend
  <2>2. ASSUME NEW g \in Guests, FlushFails(g)
        PROVE  own'.recent = own.recent
    <3>1. Landed(g) \in Owner
      BY <2>2, LandedSound DEF FlushFails, TypeOK, Sound, Flight
    <3>2. Landed(g).recent = own.recent
      BY <1>own DEF Landed, Owner
    <3> QED
      BY <2>2, <3>1, <3>2, ScheduleKeeps DEF FlushFails
  <2>3. CASE \E g \in Guests : AnswerApplied(g) \/ KeyDerived(g) \/ ConnectionUp(g)
    BY <1>own, <2>3
    DEF AnswerApplied, KeyDerived, ConnectionUp, OwnerBecomes, FlushPendingSecret, Owner
  <2>4. CASE \E g \in Guests : HelloChecked(g)
    BY <1>own, <2>4 DEF HelloChecked, Challenge, Owner
  <2>5. CASE \E g \in Guests : PongVerified(g)
    BY <1>own, <2>5 DEF PongVerified, OwnerBecomes, FlushPendingSecret, Owner
  <2>6. CASE ConnectionDown \/ SendAges
    BY <1>own, <2>6 DEF ConnectionDown, SendAges, Owner
  <2>7. CASE FlushKeyed
    BY <1>own, <2>7 DEF FlushKeyed, OwnerBecomes, ScheduleSecretRetry, Owner
  <2>8. CASE RetryFires \/ ToggleSecret
    BY <1>own, <2>8 DEF RetryFires, ToggleSecret, OwnerBecomes, FlushPendingSecret, Owner
  <2> QED
    BY <2>1, <2>2, <2>3, <2>4, <2>5, <2>6, <2>7, <2>8 DEF Inner
<1> QED
  BY <1>1, InnerSteps, QuietKept DEF SameLink

LEMMA InnerWakes ==
  ASSUME TypeOK, Inner, ~ToggleSecret, secret.active, ~own.acked,
         own.link # NoOne, own.channel = "open", Ready(own) => Woken(own)
  PROVE  Ready(own') => Woken(own')
<1>own. own \in Owner /\ Sound(own)
  BY DEF TypeOK, Sound
<1>zero. 0 \in 0..MaxChallenges
  OBVIOUS
<1>recent. own.recent => Woken(own)
  BY DEF Ready
<1> DEFINE Goal == Ready(own') => Woken(own')
<1>flush. ASSUME NEW o \in Owner, Flushed(o, own'), o.recent = own.recent,
                 o.recent => Woken(o)
          PROVE  Goal
  BY <1>flush, FlushWakes
<1>1. ASSUME NEW g \in Guests, AnswerApplied(g)
      PROVE  Goal
  <2>1. CASE UNCHANGED own
    BY <2>1
  <2>2. CASE own' = FlushPendingSecret(own, secret.active, FALSE)
    <3>1. Flushed(own, own')
      BY <2>2 DEF FlushPendingSecret, Flushed
    <3> QED
      BY <1>own, <1>recent, <1>flush, <3>1
  <2> QED
    BY <1>1, <2>1, <2>2 DEF AnswerApplied, OwnerBecomes
<1>2. ASSUME NEW g \in Guests, KeyDerived(g)
      PROVE  Goal
  <2> DEFINE o == [own EXCEPT !.key = g]
  <2>1. /\ o \in Owner /\ o.recent = own.recent /\ o.acked = own.acked
        /\ o.recent => Woken(o)
    BY <1>own, <1>recent DEF Owner, Woken, InFlight
  <2>2. own' = FlushPendingSecret(o, secret.active, FALSE)
    BY <1>2 DEF KeyDerived, OwnerBecomes
  <2> HIDE DEF o
  <2>3. Flushed(o, own')
    BY <2>1, <2>2 DEF FlushPendingSecret, Flushed
  <2> QED
    BY <1>flush, <2>1, <2>3
<1>3. ASSUME NEW g \in Guests, ConnectionUp(g)
      PROVE  Goal
  <2> DEFINE o == [own EXCEPT !.connected = TRUE]
  <2>1. /\ o \in Owner /\ o.recent = own.recent /\ o.acked = own.acked
        /\ o.recent => Woken(o)
    BY <1>own, <1>recent DEF Owner, Woken, InFlight
  <2>2. own' = FlushPendingSecret(o, secret.active, FALSE)
    BY <1>3 DEF ConnectionUp, OwnerBecomes
  <2> HIDE DEF o
  <2>3. Flushed(o, own')
    BY <2>1, <2>2 DEF FlushPendingSecret, Flushed
  <2> QED
    BY <1>flush, <2>1, <2>3
<1>4. ASSUME NEW g \in Guests, HelloChecked(g)
      PROVE  Goal
  <2>1. /\ own'.recent = own.recent /\ own'.flights = own.flights /\ own'.retry = own.retry
        /\ own'.attempts = own.attempts /\ (Deliverable(own') => Deliverable(own))
    BY <1>own, <1>4 DEF HelloChecked, Challenge, Owner, Deliverable
  <2> QED
    BY <2>1 DEF Ready, Woken, InFlight
<1>5. ASSUME NEW g \in Guests, PongVerified(g)
      PROVE  Goal
  <2> DEFINE o == [own EXCEPT !.validated = TRUE, !.challenge = 0]
  <2>1. o \in Owner
    BY <1>own, OwnerTypes DEF Sound
  <2>2. /\ o.recent = own.recent /\ o.acked = own.acked /\ o.link = own.link
        /\ o.recent => Woken(o)
    BY <1>own, <1>recent, <2>1 DEF Owner, Woken, InFlight
  <2>3. own' = FlushPendingSecret(o, secret.active, FALSE)
    BY <1>5 DEF PongVerified, OwnerBecomes
  <2> HIDE DEF o
  <2>4. Flushed(o, own')
    BY <2>2, <2>3 DEF FlushPendingSecret, Flushed
  <2> QED
    BY <1>flush, <2>1, <2>2, <2>4
<1>6. ASSUME NEW g \in Guests, FlushSends(g)
      PROVE  Goal
  <2>1. Sound(Landed(g)) /\ Landed(g).acked = own.acked
    BY <1>own, <1>6, LandedSound DEF FlushSends, Flight, Landed, Owner
  <2>2. Counted(Landed(g)) \in Owner /\ ~Counted(Landed(g)).acked
    <3>1. \A o \in Owner : Counted(o).acked = o.acked
      BY DEF Counted, Owner
    <3> QED
      BY <2>1, <3>1, CountedSound DEF Sound
  <2> QED
    BY <1>6, <2>2, ScheduleWakes DEF FlushSends
<1>7. ASSUME NEW g \in Guests, FlushFails(g)
      PROVE  Goal
  <2>1. Landed(g) \in Owner /\ ~Landed(g).acked
    BY <1>own, <1>7, LandedSound DEF FlushFails, Flight, Landed, Owner, Sound
  <2> QED
    BY <1>7, <2>1, ScheduleWakes DEF FlushFails
<1>8. CASE ConnectionDown
  BY <1>own, <1>8 DEF ConnectionDown, Ready, Deliverable, Woken, InFlight, Owner
<1>9. CASE SendAges
  BY <1>own, <1>9 DEF SendAges, Ready, Deliverable, Woken, InFlight, Owner
<1>10. CASE FlushKeyed
  <2> DEFINE going == [own EXCEPT !.flights[Started] = @ - 1]
  <2>1. Started \in Flight /\ own.flights \in [Flight -> Nat] /\ own.flights[Started] > 0
    BY <1>own, <1>10 DEF Flight, Owner, FlushKeyed
  <2>2. going \in Owner /\ ~going.acked /\ going.key = own.key
    <3>1. own.flights[Started] - 1 \in Nat
      BY <2>1
    <3> QED
      BY <1>own, <2>1, <3>1 DEF Owner
  <2>3. own' = IF own.key = NoOne THEN ScheduleSecretRetry(going)
               ELSE [going EXCEPT !.flights[own.key] = @ + 1]
    BY <1>10 DEF FlushKeyed, OwnerBecomes
  <2> HIDE DEF going
  <2>4. CASE own.key = NoOne
    BY <2>2, <2>3, <2>4, ScheduleWakes
  <2>5. CASE own.key # NoOne
    <3>1. own.key \in Flight
      BY <1>own, <2>5 DEF Owner, Flight
    <3>2. own'.flights[own.key] = going.flights[own.key] + 1 /\ going.flights[own.key] \in Nat
      BY <2>2, <2>3, <2>5, <3>1 DEF Owner
    <3>3. own'.flights[own.key] > 0
      BY <3>2
    <3> QED
      BY <3>1, <3>3 DEF Woken, InFlight
  <2> QED
    BY <2>4, <2>5
<1>11. CASE RetryFires
  <2> DEFINE o == [own EXCEPT !.retry = FALSE]
  <2>1. o \in Owner /\ o.recent = own.recent /\ o.acked = own.acked /\ ~o.recent
    BY <1>own, <1>11 DEF Owner, RetryFires
  <2>2. own' = FlushPendingSecret(o, secret.active, TRUE)
    BY <1>11 DEF RetryFires, OwnerBecomes
  <2> HIDE DEF o
  <2>3. Flushed(o, own')
    BY <2>1, <2>2 DEF FlushPendingSecret, Flushed
  <2> QED
    BY <1>flush, <2>1, <2>3
<1> QED
  BY <1>1, <1>2, <1>3, <1>4, <1>5, <1>6, <1>7, <1>8, <1>9, <1>10, <1>11 DEF Inner

LEMMA AwakeStep ==
  TypeOK /\ EveryoneTold /\ EveryoneAwake /\ [Next]_vars => EveryoneAwake'
<1> SUFFICES ASSUME TypeOK, EveryoneTold, EveryoneAwake, [Next]_vars
             PROVE  EveryoneAwake'
  OBVIOUS
<1>own. own \in Owner
  BY DEF TypeOK
<1>secret. secret \in Secret
  BY DEF TypeOK
<1>quiet. Quiet(own)
  BY DEF EveryoneAwake
<1>1. CASE OfGuests
  BY <1>1, <1>quiet, GuestSteps, AwakeKept
<1>2. CASE Inner /\ ~ToggleSecret
  <2>1. secret'.active = secret.active
    BY <1>2, <1>secret
    DEF Inner, AnswerApplied, KeyDerived, ConnectionUp, HelloChecked, PongVerified, FlushSends,
        FlushFails, ConnectionDown, FlushKeyed, RetryFires, SendAges, Secret
  <2>2. SameLink(own, own') /\ UNCHANGED page
    BY <1>2, InnerSteps
  <2>3. Quiet(own')
    BY <1>2, <1>quiet, InnerQuiet
  <2>4. ASSUME NEW g \in Guests, Reaches(g, own', page'[g]), ~Dismissing(toGuest'[g]),
               secret'.active, ~own'.acked
        PROVE  /\ Reaches(g, own, page[g]) /\ ~Dismissing(toGuest[g])
               /\ secret.active /\ ~own.acked
               /\ (Ready(own) => Woken(own)) => (Ready(own') => Woken(own'))
    <3>1. Reaches(g, own, page[g]) /\ secret.active /\ ~own.acked
      BY <2>1, <2>2, <2>4 DEF SameLink, Reaches
    <3>2. own.link # NoOne /\ own.channel = "open"
      BY <3>1 DEF Reaches
    <3> QED
      BY <1>2, <2>4, <3>1, <3>2, InnerWakes, NothingTakenBack
  <2> QED
    BY <2>3, <2>4, AwakeKept
<1>3. CASE ToggleSecret
  <2>1. SameLink(own, own') /\ UNCHANGED page
    BY <1>3, InnerSteps DEF Inner
  <2>2. Quiet(own')
    BY <1>3, <1>quiet, InnerQuiet DEF Inner
  <2>3. ASSUME NEW g \in Guests, Reaches(g, own', page'[g]), ~Dismissing(toGuest'[g]),
               secret'.active, ~own'.acked
        PROVE  FALSE
    <3>1. Reaches(g, own, page[g]) /\ ~own.acked
      BY <2>1, <2>3 DEF SameLink, Reaches
    <3>2. ~secret.active
      BY <1>3, <1>secret, <2>3 DEF ToggleSecret, Secret
    <3>3. Dismissing(toGuest[g])
      BY <3>1, <3>2 DEF EveryoneTold, Told
    <3> QED
      BY <1>3, <2>3, <3>3, NothingTakenBack DEF Inner
  <2> QED
    BY <2>2, <2>3 DEF EveryoneAwake, Awake
<1>4. ASSUME NEW h \in Guests, Receives(h), ~ReceiveBurn(h)
      PROVE  EveryoneAwake'
  <2>1. secret' = secret
    BY <1>4 DEF Receives, ReceiveHello, ReceivePong, ReceiveAck, ReceiveRequest
  <2>2. own'.link = own.link /\ own'.channel = own.channel /\ UNCHANGED page
        /\ (own.acked => own'.acked)
    BY <1>4, ReceiveSteps
  <2>3. own'.recent = own.recent
    BY <1>4, <1>own
    DEF Receives, ReceiveHello, ReceivePong, Challenge, ReceiveAck, ReceiveRequest,
      OwnerBecomes, FlushPendingSecret, Owner
  <2>4. ASSUME ~own'.acked, secret.active, Ready(own) => Woken(own)
        PROVE  Ready(own') => Woken(own')
    <3>1. CASE ReceiveHello(h)
      BY <2>4, <3>1 DEF ReceiveHello
    <3>2. CASE ReceivePong(h)
      <4>1. /\ own'.flights = own.flights /\ own'.retry = own.retry
            /\ own'.attempts = own.attempts /\ (Deliverable(own') => Deliverable(own))
        BY <1>own, <3>2 DEF ReceivePong, Challenge, Owner, Deliverable
      <4> QED
        BY <2>3, <2>4, <4>1 DEF Ready, Woken, InFlight
    <3>3. CASE ReceiveAck(h)
      BY <1>own, <2>4, <3>3 DEF ReceiveAck, Owner
    <3>4. CASE ReceiveRequest(h)
      <4>1. Flushed(own, own')
        BY <2>2, <2>4, <3>4
        DEF ReceiveRequest, OwnerBecomes, FlushPendingSecret, Flushed
      <4>2. own.recent => Woken(own)
        BY <2>4 DEF Ready
      <4> QED
        BY <1>own, <4>1, <4>2, FlushWakes
    <3> QED
      BY <1>4, <3>1, <3>2, <3>3, <3>4 DEF Receives
  <2>5. Quiet(own')
    BY <1>quiet, <2>2, <2>3, QuietKept
  <2>6. \A g \in Guests : Reaches(g, own', page'[g]) => Reaches(g, own, page[g])
    BY <2>2 DEF Reaches
  <2> QED
    BY <1>4, <2>1, <2>2, <2>4, <2>5, <2>6, NothingTakenBack, AwakeKept
<1>5. ASSUME NEW h \in Guests, ReceiveBurn(h)
      PROVE  EveryoneAwake'
  <2>1. ~secret'.active /\ own' = own
    BY <1>5, <1>secret DEF ReceiveBurn, Secret
  <2> QED
    BY <1>quiet, <2>1 DEF EveryoneAwake, Awake
<1>6. ASSUME NEW h \in Guests, OwnerChannelOpens(h)
      PROVE  EveryoneAwake'
  <2> DEFINE opened == [own EXCEPT !.channel = "open", !.connected = TRUE]
  <2>1. opened \in Owner /\ ~opened.recent /\ opened.acked = own.acked
        /\ opened.link # NoOne /\ opened.channel = "open"
    BY <1>6, <1>own, <1>quiet DEF OwnerChannelOpens, Quiet, Owner
  <2>2. CASE ~secret.active
    <3>1. own' = opened /\ ~secret'.active
      BY <1>6, <2>2 DEF OwnerChannelOpens
    <3> QED
      BY <2>1, <3>1 DEF EveryoneAwake, Awake, Quiet
  <2>3. CASE secret.active
    <3>1. own' = FlushPendingSecret(opened, TRUE, FALSE)
      BY <1>6, <2>3 DEF OwnerChannelOpens, OwnerBecomes
    <3> HIDE DEF opened
    <3>2. own'.recent = opened.recent /\ own'.acked = opened.acked
      BY <2>1, <3>1 DEF FlushPendingSecret, Owner
    <3>3. ~own'.acked => Flushed(opened, own')
      BY <2>1, <3>1, <3>2 DEF FlushPendingSecret, Flushed
    <3>4. ~own'.acked => (Ready(own') => Woken(own'))
      BY <2>1, <3>3, FlushWakes
    <3> QED
      BY <2>1, <3>2, <3>4 DEF EveryoneAwake, Awake, Quiet
  <2> QED
    BY <2>2, <2>3
<1>7. ASSUME (\E g \in Guests : MeetGuest(g) \/ OwnerChannelCloses(g)) \/ LinkReset
      PROVE  EveryoneAwake'
  <2>1. own'.channel # "open"
    BY <1>7, <1>own DEF MeetGuest, OwnerChannelCloses, LinkReset, ResetPeerLink, Unlinked, Owner
  <2>2. Quiet(own')
    <3>1. CASE \E g \in Guests : MeetGuest(g)
      BY <1>own, <1>quiet, <3>1 DEF MeetGuest, Owner, Quiet
    <3>2. CASE \E g \in Guests : OwnerChannelCloses(g)
      BY <1>own, <1>quiet, <3>2 DEF OwnerChannelCloses, Owner, Quiet
    <3>3. CASE LinkReset
      BY <3>3 DEF LinkReset, ResetPeerLink, Unlinked, Quiet
    <3> QED
      BY <1>7, <3>1, <3>2, <3>3
  <2> QED
    BY <2>1, <2>2 DEF EveryoneAwake, Awake, Reaches
<1>8. ASSUME DeleteSecret \/ ExpireSecret
      PROVE  EveryoneAwake'
  <2>1. own'.channel # "open"
    BY <1>8, <1>own DEF DeleteSecret, ExpireSecret, Wipe, Owner
  <2>2. Quiet(own')
    <3>1. own'.link = own.link /\ own'.recent = own.recent
      BY <1>8, <1>own DEF DeleteSecret, ExpireSecret, Wipe, Owner
    <3>2. own'.channel = own.channel \/ own'.channel # "connecting"
      BY <1>8, <1>own DEF DeleteSecret, ExpireSecret, Wipe, Owner
    <3> QED
      BY <1>quiet, <3>1, <3>2 DEF Quiet
  <2> QED
    BY <2>1, <2>2 DEF EveryoneAwake, Awake, Reaches
<1>9. CASE UNCHANGED vars
  BY <1>9 DEF vars, EveryoneAwake, Awake, Quiet
<1> QED
  BY <1>1, <1>2, <1>3, <1>4, <1>5, <1>6, <1>7, <1>8, <1>9
  DEF Next, OwnerHandles, OfGuests, Inner, Receives

-----------------------------------------------------------------------------
(* The invariant *)

\* What the handlers rely on without saying so: who has heard what, that a
\* recipient knows of a secret that is off, and that a link that is ready has
\* something that will send.
IInv == TypeOK /\ WatchCounts /\ EverythingHeard /\ EveryoneTold /\ EveryoneAwake

LEMMA IInvInit == Init => IInv
BY TypeOKInit, HeardInit, ToldInit, AwakeInit DEF Init, Waiting, WatchCounts, IInv

LEMMA IInvStep == IInv /\ [Next]_vars => IInv'
BY TypedStep, HeardStep, ToldStep, AwakeStep DEF IInv

LEMMA Invariance == Spec => []IInv
BY IInvInit, IInvStep, PTL DEF Spec

LEMMA DismissedIs == \A g \in Guests : Dismissed(g) <=> Dismissing(toGuest[g])
BY DEF Dismissed, Dismissing, Holds

\* deliveryAcked, which stops the retries, speaks of the recipient that is
\* linked: no reset, reconnect or message that was on its way leaves it set for
\* one that has received nothing.
THEOREM AckIsTheGuests == Spec => []AckMeansReceived
<1>1. IInv => AckMeansReceived
  BY DEF IInv, EverythingHeard, Heard, AckMeansReceived
<1> QED
  BY <1>1, Invariance, PTL

\* In whatever order connection, key and proof of identity come together, some
\* flush or timer is left that sends the secret, unless the attempts of
\* scheduleSecretRetry are used up.
THEOREM WakeUpIsKept == Spec => []NoLostWakeup
<1>1. IInv => NoLostWakeup
  BY DismissedIs
  DEF IInv, EveryoneAwake, Awake, Ready, Woken, NoLostWakeup, Linked, Reaches
<1> QED
  BY <1>1, Invariance, PTL

\* toggleSecret and the recipient's handler agree: a recipient that has handled
\* all that was sent has no sealed secret that is off, but for a burned one.
THEOREM OffIsKnown == Spec => []OffReachesGuest
<1>1. IInv => OffReachesGuest
  BY HoldsEmpty DEF IInv, EveryoneTold, Told, OffReachesGuest, Linked, Reaches, Dismissing
<1> QED
  BY <1>1, Invariance, PTL

-----------------------------------------------------------------------------
(* Copies *)

Copy(g) == [kind |-> "secret", key |-> g, active |-> TRUE]
Places(queue, m) == {i \in DOMAIN queue : queue[i] = m}

LEMMA PlacesFinite ==
  ASSUME NEW S, NEW q \in Seq(S), NEW m
  PROVE  IsFiniteSet(Places(q, m)) /\ Cardinality(Places(q, m)) \in Nat
<1>1. Len(q) \in Nat /\ DOMAIN q = 1..Len(q)
  OBVIOUS
<1>2. IsFiniteSet(1..Len(q)) /\ Places(q, m) \in SUBSET (1..Len(q))
  BY <1>1, FS_Interval DEF Places
<1> QED
  BY <1>2, FS_Subset, FS_CardinalityType

LEMMA PlacesJoined ==
  ASSUME NEW S, NEW q \in Seq(S), NEW r \in Seq(S), NEW m, \A i \in DOMAIN r : r[i] # m
  PROVE  Places(q \o r, m) = Places(q, m)
<1>1. ASSUME NEW i \in DOMAIN (q \o r), (q \o r)[i] = m
      PROVE  i \in DOMAIN q
  <2>1. ASSUME NEW j \in DOMAIN r, i = Len(q) + j
        PROVE  FALSE
    BY <1>1, <2>1, Joined
  <2> QED
    BY <2>1, Joined
<1>2. DOMAIN q \subseteq DOMAIN (q \o r) /\ \A i \in DOMAIN q : (q \o r)[i] = q[i]
  BY Joined
<1> QED
  BY <1>1, <1>2 DEF Places

LEMMA PlacesTail ==
  ASSUME NEW S, NEW q \in Seq(S), q # <<>>, NEW m
  PROVE  /\ Cardinality(Places(Tail(q), m)) <= Cardinality(Places(q, m))
         /\ Head(q) = m => Cardinality(Places(Tail(q), m)) + 1 <= Cardinality(Places(q, m))
<1> DEFINE before == Places(Tail(q), m)
           after == Places(q, m) \ {1}
           up == [i \in before |-> i + 1]
<1>1. Tail(q) \in Seq(S)
  BY HeadTailProperties
<1>2. /\ IsFiniteSet(before) /\ IsFiniteSet(Places(q, m)) /\ IsFiniteSet(after)
      /\ Cardinality(before) \in Nat /\ Cardinality(Places(q, m)) \in Nat
      /\ Cardinality(after) \in Nat
      /\ Cardinality(after) = IF 1 \in Places(q, m) THEN Cardinality(Places(q, m)) - 1
                              ELSE Cardinality(Places(q, m))
  BY <1>1, PlacesFinite, FS_RemoveElement, FS_CardinalityType
<1>3. \A i \in before : i \in Nat \ {0} /\ i + 1 \in after
  BY Tailed DEF Places
<1>4. up \in Injection(before, after)
  <2>1. up \in [before -> after]
    BY <1>3
  <2>2. \A i, j \in before : up[i] = up[j] => i = j
    BY <1>3
  <2> QED
    BY <2>1, <2>2 DEF Injection, IsInjective
<1>5. Cardinality(before) <= Cardinality(after)
  BY <1>2, <1>4, FS_Injection
<1>6. Head(q) = m => 1 \in Places(q, m)
  BY Tailed DEF Places
<1> QED
  BY <1>2, <1>5, <1>6

LEMMA CopiesAre ==
  ASSUME NEW g \in Guests
  PROVE  /\ Copies(g) = (IF page[g].card = "sealed" THEN 1 ELSE 0)
                          + Cardinality(Places(toGuest[g], Copy(g)))
         /\ Copies(g)' = (IF page'[g].card = "sealed" THEN 1 ELSE 0)
                          + Cardinality(Places(toGuest'[g], Copy(g)))
BY DEF Copies, Places, Copy

\* The secret is off, and the recipients' pages and queues do not gain by the step.
LEMMA CopiesPosted ==
  ASSUME TypeOK, NEW o \in Owner, NEW messages \in Seq(MessageToGuest), Post(o, messages),
         NEW g \in Guests, page'[g].card = page[g].card,
         \A i \in DOMAIN messages : messages[i] # Copy(g)
  PROVE  Copies(g)' <= Copies(g)
<1>1. toGuest \in [Guests -> Seq(MessageToGuest)]
  BY DEF TypeOK
<1>2. toGuest'[g] = toGuest[g] \/ toGuest'[g] = toGuest[g] \o messages
  BY <1>1 DEF Post, Queued
<1>3. Places(toGuest'[g], Copy(g)) = Places(toGuest[g], Copy(g))
  <2>1. Places(toGuest[g] \o messages, Copy(g)) = Places(toGuest[g], Copy(g))
    <3>1. toGuest[g] \in Seq(MessageToGuest)
      BY <1>1
    <3> QED
      BY <3>1, PlacesJoined
  <2> QED
    BY <1>2, <2>1
<1>4. Cardinality(Places(toGuest[g], Copy(g))) \in Nat
  BY <1>1, PlacesFinite
<1> QED
  BY <1>3, <1>4, CopiesAre

LEMMA CopiesTaken ==
  ASSUME TypeOK, NEW g \in Guests, NEW kinds, GuestTakes(g, kinds), NEW h \in Guests,
         \/ page'[h].card = "sealed" => page[h].card = "sealed"
         \/ h = g /\ Head(toGuest[g]) = Copy(g)
  PROVE  Copies(h)' <= Copies(h)
<1>1. toGuest \in [Guests -> Seq(MessageToGuest)]
  BY DEF TypeOK
<1>2. Cardinality(Places(toGuest[h], Copy(h))) \in Nat
      /\ Cardinality(Places(toGuest'[h], Copy(h))) \in Nat
  <2>1. toGuest'[h] \in Seq(MessageToGuest)
    BY <1>1, GuestTakesType
  <2> QED
    BY <1>1, <2>1, PlacesFinite
<1>3. CASE h = g
  <2>1. toGuest'[h] = Tail(toGuest[h]) /\ toGuest[h] # <<>>
    BY <1>1, <1>3 DEF GuestTakes
  <2>2. /\ Cardinality(Places(toGuest'[h], Copy(h))) <= Cardinality(Places(toGuest[h], Copy(h)))
        /\ Head(toGuest[h]) = Copy(h) =>
             Cardinality(Places(toGuest'[h], Copy(h))) + 1 <= Cardinality(Places(toGuest[h], Copy(h)))
    BY <1>1, <2>1, PlacesTail
  <2> QED
    BY <1>2, <1>3, <2>2, CopiesAre
<1>4. CASE h # g
  <2>1. toGuest'[h] = toGuest[h]
    BY <1>1, <1>4 DEF GuestTakes
  <2> QED
    BY <1>2, <1>4, <2>1, CopiesAre
<1> QED
  BY <1>3, <1>4

\* A page that is not sealed by the step, and a queue that stays or is emptied.
LEMMA CopiesDropped ==
  ASSUME TypeOK, NEW h \in Guests, page'[h].card = "sealed" => page[h].card = "sealed",
         toGuest'[h] \in {toGuest[h], <<>>}
  PROVE  Copies(h)' <= Copies(h)
<1>1. toGuest[h] \in Seq(MessageToGuest) /\ <<>> \in Seq(MessageToGuest)
  BY DEF TypeOK
<1>2. Cardinality(Places(toGuest[h], Copy(h))) \in Nat
      /\ Cardinality(Places(<<>>, Copy(h))) = 0
  <2>1. Places(<<>>, Copy(h)) = {}
    BY DEF Places
  <2> QED
    BY <1>1, <2>1, PlacesFinite, FS_EmptySet
<1> QED
  BY <1>2, CopiesAre

LEMMA OthersAreNoCopies ==
  ASSUME NEW g
  PROVE  /\ \A kind \in {"validated", "unavailable", "delete"} : Message(kind) # Copy(g)
         /\ \A n : Ping(n) # Copy(g)
         /\ \A k : ~secret.active => SecretUnder(k) # Copy(g)
<1>1. \A kind \in {"validated", "unavailable", "delete"} : Message(kind).kind # Copy(g).kind
  BY DEF Message, Copy
<1>2. \A n : Ping(n).kind # Copy(g).kind
  BY DEF Ping, Copy
<1>3. \A k : ~secret.active => SecretUnder(k).active # Copy(g).active
  BY DEF SecretUnder, Copy
<1> QED
  BY <1>1, <1>2, <1>3

LEMMA CopiesStep ==
  ASSUME TypeOK, [Next]_vars, ~secret.active, ~secret'.active, NEW h \in Guests
  PROVE  Copies(h)' <= Copies(h)
<1>own. own \in Owner
  BY DEF TypeOK
<1>page. page \in [Guests -> Page] /\ toGuest \in [Guests -> Seq(MessageToGuest)]
  BY DEF TypeOK
<1>secret. secret \in Secret
  BY DEF TypeOK
<1>same. ASSUME UNCHANGED toGuest, page'[h].card = page[h].card
         PROVE  Copies(h)' <= Copies(h)
  BY <1>same, CopiesDropped
<1>1. ASSUME NEW g \in Guests, GuestChannelOpens(g) \/ WatchdogFires(g) \/ GuestResets(g)
      PROVE  Copies(h)' <= Copies(h)
  <2>1. page'[h].card = page[h].card
    <3>1. CASE GuestChannelOpens(g)
      BY <1>page, <3>1 DEF GuestChannelOpens, Watching, Page
    <3>2. CASE WatchdogFires(g)
      BY <1>page, <3>2 DEF WatchdogFires, Watching, Page
    <3>3. CASE GuestResets(g)
      BY <1>page, <3>3 DEF GuestResets, Page
    <3> QED
      BY <1>1, <3>1, <3>2, <3>3
  <2> QED
    BY <1>1, <1>same, <2>1 DEF GuestChannelOpens, WatchdogFires, GuestResets
<1>2. ASSUME NEW g \in Guests, AnswerPing(g) \/ BecomesValidated(g) \/ StaysOn(g)
      PROVE  Copies(h)' <= Copies(h)
  <2>1. page'[h].card = page[h].card
    <3>1. CASE StaysOn(g)
      BY <3>1 DEF StaysOn
    <3>3. CASE AnswerPing(g)
      BY <1>page, <3>3, SigningOnly
    <3>2. CASE BecomesValidated(g)
      BY <1>page, <3>2 DEF BecomesValidated, Watching, Page
    <3> QED
      BY <1>2, <3>1, <3>2, <3>3
  <2> QED
    BY <1>2, <2>1, CopiesTaken DEF AnswerPing, BecomesValidated, StaysOn
<1>20. ASSUME NEW g \in Guests, PingSigned(g)
       PROVE  Copies(h)' <= Copies(h)
  BY <1>20, <1>page, <1>same, SigningOnly DEF PingSigned
<1>3. ASSUME NEW g \in Guests, RenderSecret(g)
      PROVE  Copies(h)' <= Copies(h)
  <2>1. GuestTakes(g, {"secret"})
    BY <1>3 DEF RenderSecret
  <2>2. CASE h # g
    <3>1. page'[h] = page[h]
      BY <1>3, <1>page, <2>2 DEF RenderSecret
    <3> QED
      BY <2>1, <3>1, CopiesTaken
  <2>3. CASE h = g /\ page'[h].card # "sealed"
    BY <2>1, <2>3, CopiesTaken
  <2>4. CASE h = g /\ page'[h].card = "sealed"
    <3> DEFINE m == Head(toGuest[g])
    <3>1. m.active /\ m.key = g
      BY <1>3, <1>page, <2>4 DEF RenderSecret, Page
    <3>2. m \in MessageToGuest /\ m.kind = "secret"
      BY <1>page, <2>1, GuestTakesType DEF GuestTakes
    <3>3. m \in [kind : {"secret"}, key : Guests \cup {NoOne}, active : BOOLEAN]
      BY <3>2 DEF MessageToGuest
    <3>4. m = Copy(g)
      BY <3>1, <3>3 DEF Copy
    <3> QED
      BY <2>1, <2>4, <3>4, CopiesTaken
  <2> QED
    BY <2>2, <2>3, <2>4
<1>4. ASSUME NEW g \in Guests, RedirectHome(g) \/ GuestLeaves(g)
      PROVE  Copies(h)' <= Copies(h)
  <2>1. page' = [page EXCEPT ![g] = Gone(page[g])] /\ toGuest' = [toGuest EXCEPT ![g] = <<>>]
    BY <1>4 DEF RedirectHome, GuestLeaves
  <2>2. page'[h].card = page[h].card /\ toGuest'[h] \in {toGuest[h], <<>>}
    BY <1>page, <2>1 DEF Gone, Page
  <2> QED
    BY <2>2, CopiesDropped
<1>5. ASSUME NEW g \in Guests, GuestLinkLost(g)
      PROVE  Copies(h)' <= Copies(h)
  <2>1. page'[h].card = page[h].card /\ toGuest'[h] \in {toGuest[h], <<>>}
    BY <1>5, <1>page DEF GuestLinkLost, Page
  <2> QED
    BY <2>1, CopiesDropped
<1>6. ASSUME NEW g \in Guests, OpenSecret(g)
      PROVE  Copies(h)' <= Copies(h)
  <2>1. /\ page'[h].card = "sealed" => page[h].card = "sealed"
        /\ toGuest'[h] \in {toGuest[h], <<>>}
    BY <1>6, <1>page DEF OpenSecret, Page
  <2> QED
    BY <2>1, CopiesDropped
<1>7. ASSUME NEW g \in Guests, MeetGuest(g)
      PROVE  Copies(h)' <= Copies(h)
  <2>1. page'[h].card = page[h].card
    BY <1>7, <1>page DEF MeetGuest, Page
  <2> QED
    BY <1>7, <1>same, <2>1 DEF MeetGuest
<1>8. ASSUME NEW o \in Owner, NEW m \in MessageToGuest, m # Copy(h), UNCHANGED page,
             Post(o, <<m>>) \/ Post(o, <<>>)
      PROVE  Copies(h)' <= Copies(h)
  <2>1. <<m>> \in Seq(MessageToGuest) /\ <<>> \in Seq(MessageToGuest)
        /\ (\A i \in DOMAIN <<m>> : <<m>>[i] = m) /\ DOMAIN <<>> = {}
    OBVIOUS
  <2>2. m \in MessageToGuest /\ page'[h].card = page[h].card
    BY <1>8
  <2>3. CASE Post(o, <<m>>)
    BY <1>8, <2>1, <2>2, <2>3, CopiesPosted
  <2>4. CASE Post(o, <<>>)
    BY <2>1, <2>2, <2>4, CopiesPosted
  <2> QED
    BY <1>8, <2>3, <2>4
<1>9. ASSUME NEW g \in Guests, HelloChecked(g) \/ ReceivePong(g)
      PROVE  Copies(h)' <= Copies(h)
  <2> DEFINE known == [own EXCEPT !.identity = g]
  <2>1. known \in Owner /\ known.issued = own.issued
    BY <1>own DEF Owner
  <2>2. CASE own.issued < MaxChallenges
    <3>1. own.issued + 1 \in 1..MaxChallenges
      BY <1>own, <2>2 DEF Owner
    <3>2. Ping(own.issued + 1) \in MessageToGuest /\ Ping(own.issued + 1) # Copy(h)
      BY <3>1, MessageTypes, OthersAreNoCopies
    <3>3. CASE HelloChecked(g)
      <4>1. UNCHANGED toGuest \/ Post(known, <<Ping(known.issued + 1)>>)
        BY <3>3 DEF HelloChecked, Challenge
      <4>2. UNCHANGED page
        BY <3>3 DEF HelloChecked
      <4> HIDE DEF known
      <4> QED
        BY <1>8, <1>same, <2>1, <3>2, <4>1, <4>2 DEF Post, Queued
    <3>4. CASE ReceivePong(g)
      <4>1. UNCHANGED toGuest \/ Post(own, <<Ping(own.issued + 1)>>)
        BY <3>4 DEF ReceivePong, Challenge
      <4>2. UNCHANGED page
        BY <3>4 DEF ReceivePong
      <4> QED
        BY <1>8, <1>own, <1>same, <3>2, <4>1, <4>2 DEF Post, Queued
    <3> QED
      BY <1>9, <3>3, <3>4
  <2>3. CASE ~(own.issued < MaxChallenges)
    BY <1>9, <1>same, <2>1, <2>3 DEF HelloChecked, ReceivePong, Challenge
  <2> QED
    BY <2>2, <2>3
<1>10. ASSUME NEW g \in Guests, PongVerified(g)
       PROVE  Copies(h)' <= Copies(h)
  BY <1>8, <1>10, <1>own, MessageTypes, OthersAreNoCopies DEF PongVerified
<1>11. ASSUME NEW g \in Guests, FlushSends(g)
       PROVE  Copies(h)' <= Copies(h)
  <2> PICK x \in CopyKeys(g) : Post(own, <<SecretUnder(x)>>)
    BY <1>11 DEF FlushSends
  <2>1. SecretUnder(x) \in MessageToGuest /\ SecretUnder(x) # Copy(h)
    BY <1>secret, SecretType, OthersAreNoCopies
  <2>2. UNCHANGED page
    BY <1>11 DEF FlushSends
  <2> QED
    BY <1>8, <1>own, <2>1, <2>2 DEF Post, Queued
<1>12. ASSUME NEW g \in Guests, OwnerChannelOpens(g)
       PROVE  Copies(h)' <= Copies(h)
  <2> DEFINE opened == [own EXCEPT !.channel = "open", !.connected = TRUE]
  <2>1. opened \in Owner
    BY <1>own DEF Owner
  <2>2. Post(opened, <<Message("unavailable")>>) /\ UNCHANGED page
    BY <1>12 DEF OwnerChannelOpens
  <2> HIDE DEF opened
  <2> QED
    BY <1>8, <2>1, <2>2, MessageTypes, OthersAreNoCopies DEF Post, Queued
<1>13. CASE DeleteSecret
  <2>1. UNCHANGED page /\ (Post(own, <<Message("delete")>>) \/ Post(own, <<>>))
    <3>1. CASE secret.sent
      BY <1>13, <3>1 DEF DeleteSecret, Wipe, Post, Queued
    <3>2. CASE ~secret.sent
      BY <1>13, <3>2 DEF DeleteSecret, Wipe, Post, Queued
    <3> QED
      BY <3>1, <3>2
  <2> QED
    BY <1>8, <1>own, <2>1, MessageTypes, OthersAreNoCopies
<1>14. CASE ExpireSecret
  <2>1. /\ UNCHANGED page
        /\ Post(own, <<Message("delete")>>) \/ Post(own, <<Message("unavailable")>>)
    <3>1. CASE secret.sent
      BY <1>14, <3>1 DEF ExpireSecret, Wipe, Post, Queued
    <3>2. CASE ~secret.sent
      BY <1>14, <3>2 DEF ExpireSecret, Wipe, Post, Queued
    <3> QED
      BY <3>1, <3>2
  <2> QED
    BY <1>8, <1>own, <2>1, MessageTypes, OthersAreNoCopies
<1>15. ASSUME NEW g \in Guests, AnswerApplied(g) \/ KeyDerived(g) \/ ConnectionUp(g) \/ FlushFails(g)
       PROVE  Copies(h)' <= Copies(h)
  BY <1>15, <1>same DEF AnswerApplied, KeyDerived, ConnectionUp, FlushFails
<1>16. ASSUME NEW g \in Guests,
              \/ OwnerChannelCloses(g) \/ ReceiveHello(g) \/ ReceiveAck(g) \/ ReceiveRequest(g)
              \/ ReceiveBurn(g)
       PROVE  Copies(h)' <= Copies(h)
  BY <1>16, <1>same
  DEF OwnerChannelCloses, ReceiveHello, ReceiveAck, ReceiveRequest, ReceiveBurn
<1>17. CASE ConnectionDown \/ LinkReset \/ FlushKeyed \/ RetryFires \/ SendAges
  BY <1>17, <1>same DEF ConnectionDown, LinkReset, FlushKeyed, RetryFires, SendAges
<1>18. CASE ToggleSecret
  BY <1>18, <1>secret DEF ToggleSecret, Secret
<1>19. CASE UNCHANGED vars
  BY <1>19, <1>same DEF vars
<1> QED
  BY <1>1, <1>2, <1>3, <1>4, <1>5, <1>6, <1>7, <1>9, <1>10, <1>11, <1>12, <1>13, <1>14,
     <1>15, <1>16, <1>17, <1>18, <1>19, <1>20 DEF Next, OwnerHandles, GuestHandles

\* While the secret stays off, no flush, timer or request that was under way adds
\* to the copies a recipient can open.  (A flush that is awaiting still sends one,
\* flagged off, which the recipient's page does not offer to open.)
THEOREM OffAddsNoCopyToOpen == Spec => OffIsNotCopied
<1>1. TypeOK /\ [Next]_vars
        => [~secret.active /\ ~secret'.active => \A g \in Guests : Copies(g)' <= Copies(g)]_vars
  BY CopiesStep
<1> QED
  BY <1>1, TypeCorrect, PTL DEF Spec, OffIsNotCopied
=============================================================================
