----------------------------- MODULE StallProofs -----------------------------
(***************************************************************************)
(* How a recipient of PeerLink comes to wait for an offer that nobody is   *)
(* going to make: in the ways that StallsOnlyBy names and in no other, for *)
(* every number of recipients, queue limit, number of loops and failures.  *)
(*                                                                         *)
(* First what a step does to each part of the state (signals on their way, *)
(* sessions, queues, streams, connections), then what the two seated pages *)
(* know of each other, then the signals that a waiting recipient needs.    *)
(***************************************************************************)
EXTENDS PeerLinkProofs

-----------------------------------------------------------------------------
(* Sequences *)

LEMMA Ranges ==
  ASSUME NEW S, NEW q \in Seq(S)
  PROVE  /\ \A x \in S : Range(Append(q, x)) = Range(q) \cup {x}
         /\ q # <<>> => Range(q) = Range(Tail(q)) \cup {Head(q)} /\ Head(q) \in S
         /\ Tail(q) \in Seq(S) \/ q = <<>>
         /\ Range(q) \subseteq S
<1>1. ASSUME NEW x \in S
      PROVE  Range(Append(q, x)) = Range(q) \cup {x}
  <2>1. DOMAIN Append(q, x) = 1..(Len(q) + 1) /\ DOMAIN q = 1..Len(q)
    OBVIOUS
  <2>2. \A i \in DOMAIN q : Append(q, x)[i] = q[i]
    OBVIOUS
  <2>3. Append(q, x)[Len(q) + 1] = x
    OBVIOUS
  <2> QED
    BY <2>1, <2>2, <2>3 DEF Range
<1>2. ASSUME q # <<>>
      PROVE  Range(q) = Range(Tail(q)) \cup {Head(q)} /\ Head(q) \in S
  <2>1. DOMAIN Tail(q) = 1..(Len(q) - 1) /\ DOMAIN q = 1..Len(q) /\ Len(q) \in Nat \ {0}
    BY <1>2
  <2>2. \A i \in DOMAIN Tail(q) : Tail(q)[i] = q[i + 1]
    BY <1>2
  <2>3. Head(q) = q[1] /\ Head(q) \in S
    BY <1>2
  <2>4. ASSUME NEW x \in Range(q), x # Head(q)
        PROVE  x \in Range(Tail(q))
    <3>1. PICK i \in DOMAIN q : q[i] = x
      BY DEF Range
    <3>2. i - 1 \in DOMAIN Tail(q) /\ Tail(q)[i - 1] = x
      BY <2>1, <2>2, <2>3, <2>4, <3>1
    <3> QED
      BY <3>2 DEF Range
  <2>5. ASSUME NEW x \in Range(Tail(q))
        PROVE  x \in Range(q)
    <3>1. PICK i \in DOMAIN Tail(q) : Tail(q)[i] = x
      BY DEF Range
    <3>2. i + 1 \in DOMAIN q /\ q[i + 1] = x
      BY <2>1, <2>2, <3>1
    <3> QED
      BY <3>2 DEF Range
  <2>6. Head(q) \in Range(q)
    BY <2>1, <2>3 DEF Range
  <2>7. Range(q) \subseteq Range(Tail(q)) \cup {Head(q)}
    BY <2>4
  <2>8. Range(Tail(q)) \cup {Head(q)} \subseteq Range(q)
    BY <2>5, <2>6
  <2> QED
    BY <2>3, <2>7, <2>8
<1>3. Tail(q) \in Seq(S) \/ q = <<>>
  OBVIOUS
<1>4. Range(q) \subseteq S
  BY DEF Range
<1> QED
  BY <1>1, <1>2, <1>3, <1>4

LEMMA RangeEmpty == Range(<<>>) = {}
BY DEF Range

Subject(e) == IF e.type = "signal" THEN e.signal.from ELSE e.peer

\* An event and a signal look the same whatever connection is renamed.
LEMMA PastLooks ==
  ASSUME NEW p \in Pages
  PROVE  /\ \A s \in Signal : LET z == PastSignal(s, p) IN
              z.kind = s.kind /\ z.from = s.from /\ z.to = s.to
              /\ (z.body = NoDescription <=> s.body = NoDescription)
         /\ \A q \in Pages : \A e \in EventsFor(q) : LET z == PastEvent(e, p) IN
              /\ z.type = e.type /\ Subject(z) = Subject(e) /\ z \in EventsFor(q)
              /\ e.type = "signal" => z.signal = PastSignal(e.signal, p) /\ e.signal \in Signal
<1>1. ASSUME NEW s \in Signal
      PROVE  LET z == PastSignal(s, p) IN
             z.kind = s.kind /\ z.from = s.from /\ z.to = s.to
             /\ (z.body = NoDescription <=> s.body = NoDescription)
  <2>1. s.body \in Description
    BY DEF Signal
  <2> QED
    BY <2>1, PastSignals, PastDescriptions
<1>2. ASSUME NEW q \in Pages, NEW e \in EventsFor(q)
      PROVE  LET z == PastEvent(e, p) IN
             /\ z.type = e.type /\ Subject(z) = Subject(e) /\ z \in EventsFor(q)
             /\ e.type = "signal" => z.signal = PastSignal(e.signal, p) /\ e.signal \in Signal
  <2>1. PastEvent(e, p) \in EventsFor(q)
    BY PastFrom
  <2>2. CASE e.type = "signal"
    <3>1. e.signal \in Signal
      BY <2>2 DEF EventsFor, Event
    <3>2. PastEvent(e, p) = Carrying(PastSignal(e.signal, p))
      BY <2>2 DEF PastEvent
    <3>3. PastEvent(e, p).type = "signal" /\ PastEvent(e, p).signal = PastSignal(e.signal, p)
      BY <3>2 DEF Carrying
    <3> QED
      BY <1>1, <2>1, <2>2, <3>1, <3>3 DEF Subject
  <2>3. CASE e.type # "signal"
    BY <2>1, <2>3 DEF PastEvent
  <2> QED
    BY <2>2, <2>3
<1> QED
  BY <1>1, <1>2

LEMMA PastRanges ==
  ASSUME NEW p
  PROVE  /\ \A events : Range(PastInbox(events, p)) = {PastEvent(e, p) : e \in Range(events)}
         /\ \A events : DOMAIN PastInbox(events, p) = DOMAIN events
         /\ \A events : \A i \in DOMAIN events : PastInbox(events, p)[i] = PastEvent(events[i], p)
BY DEF Range, PastInbox

-----------------------------------------------------------------------------
(* What the steps do to the signals on their way *)

\* The same but for the connections that the bodies name.
SameLook(s, t) ==
  /\ s.kind = t.kind /\ s.from = t.from /\ s.to = t.to
  /\ s.body = NoDescription <=> t.body = NoDescription

LEMMA SameLookSelf == \A s : SameLook(s, s)
BY DEF SameLook

LEMMA PastSameLook ==
  ASSUME NEW p \in Pages, NEW s \in Signal
  PROVE  SameLook(PastSignal(s, p), s)
BY PastLooks DEF SameLook

\* Where a post of the next state comes from.
Repeats(m) == \E n \in posts : SameLook(m.signal, n.signal) /\ m.by \in {n.by, Abandoned}
Retried(m) == \E p \in Pages : m.signal \in Range(page[p].retries) /\ m.by \in Loops
OfReady(m) == \E g \in Guests : page'[g].remote # NoOne /\ m = Posted(Ready(g, page'[g].remote))
OfCandidate(m) ==
  \E p \in Pages : (OfferMade(p) \/ AnswerMade(p)) /\ m = Posted(Candidate(p, page[p].remote, p))
OfDescription(m) ==
  \E p \in Pages : \E t \in tasks[p] :
    /\ PostDescription(p, t) /\ m.by = Direct
    /\ m.signal.kind = t.signal.kind /\ m.signal.from = p
    /\ m.signal.to = IF t.signal.kind = "offer" THEN page[p].remote ELSE t.signal.to
Made(m) == OfReady(m) \/ OfCandidate(m) \/ OfDescription(m)

LEMMA PostKept == \A m \in posts : Repeats(m)
BY SameLookSelf DEF Repeats

LEMMA PastPostsRepeat ==
  ASSUME IInv, NEW p \in Pages
  PROVE  \A m \in PastPosts(p) : Repeats(m)
<1> SUFFICES ASSUME NEW n \in posts
             PROVE  Repeats(PastPost(n, p))
  BY DEF PastPosts
<1>1. n \in GenuinePost /\ n.signal \in Signal
  BY PostTypes DEF GenuinePost, Post
<1>2. PastPost(n, p).signal = PastSignal(n.signal, p) /\ PastPost(n, p).by = n.by
  BY <1>1 DEF PastPost, GenuinePost, Post
<1> QED
  BY <1>1, <1>2, PastSameLook DEF Repeats

LEMMA FlushedRetried ==
  ASSUME NEW p \in Pages, NEW s, NEW loop \in Loops, NEW S, s.retries \in Seq(S),
         Range(s.retries) \subseteq Range(page[p].retries)
  PROVE  \A m \in Flushed(s, loop) : Retried(m)
<1> SUFFICES ASSUME NEW m \in Flushed(s, loop)
             PROVE  Retried(m)
  OBVIOUS
<1>1. s.retries # <<>> /\ m.signal = Head(s.retries) /\ m.by = loop
  BY DEF Flushed
<1>2. Head(s.retries) \in Range(s.retries)
  BY <1>1, Ranges
<1> QED
  BY <1>1, <1>2 DEF Retried

LEMMA ServePosts ==
  ASSUME IInv, NEW n \in posts, NEW ok, AfterPost(n.signal.from, n, ok), NEW m \in posts'
  PROVE  Repeats(m) \/ Retried(m)
<1> DEFINE p == n.signal.from
           s == page[p]
           t == [s EXCEPT !.retries = IF s.retries = <<>> THEN <<>> ELSE Tail(@)]
<1>1. p \in Pages /\ SoundPage(p, s)
  BY PostTypes, Now
<1>2. s.retries \in Seq(SignalsFrom(p)) /\ s \in Page
  BY <1>1 DEF SoundPage
<1>3. t.retries = IF s.retries = <<>> THEN <<>> ELSE Tail(s.retries)
  BY <1>2 DEF Page
<1>4. t.retries \in Seq(SignalsFrom(p)) /\ Range(t.retries) \subseteq Range(s.retries)
  <2>1. CASE s.retries = <<>>
    BY <1>2, <1>3, <2>1
  <2>2. CASE s.retries # <<>>
    <3> HIDE DEF s, t
    <3>1. Range(s.retries) = Range(Tail(s.retries)) \cup {Head(s.retries)}
      BY <1>2, <2>2, Ranges
    <3>2. t.retries = Tail(s.retries)
      BY <1>3, <2>2
    <3>3. Tail(s.retries) \in Seq(SignalsFrom(p))
      BY <1>2, <2>2, Ranges
    <3> QED
      BY <3>1, <3>2, <3>3
  <2> QED
    BY <2>1, <2>2
<1>5. m \in posts \/ (n.by \in Loops /\ m \in Flushed(t, n.by))
  BY DEF AfterPost
<1>6. CASE m \in posts
  BY <1>6, PostKept
<1>7. CASE n.by \in Loops /\ m \in Flushed(t, n.by)
  <2> HIDE DEF t
  <2> QED
    BY <1>1, <1>4, <1>7, FlushedRetried
<1> QED
  BY <1>5, <1>6, <1>7

LEMMA GiveUpPosts ==
  ASSUME IInv, NEW n \in posts, GiveUp(n), NEW m \in posts'
  PROVE  Repeats(m)
<1>1. n \in Post
  BY PostTypes DEF GenuinePost
<1>2. m \in posts \/ m = [n EXCEPT !.by = Abandoned]
  BY DEF GiveUp
<1>3. [n EXCEPT !.by = Abandoned].signal = n.signal /\ [n EXCEPT !.by = Abandoned].by = Abandoned
  BY <1>1 DEF Post
<1> QED
  BY <1>2, <1>3, PostKept, SameLookSelf DEF Repeats

LEMMA FlushPosts ==
  ASSUME IInv, NEW p \in Pages, NEW s, SoundPage(p, s), s.retries = page[p].retries,
         NEW loop \in FreeLoops(p)
  PROVE  \A m \in posts \cup Flushed(s, loop) : Repeats(m) \/ Retried(m)
<1>1. s.retries \in Seq(SignalsFrom(p)) /\ loop \in Loops
  BY LoopTypes DEF SoundPage
<1> QED
  BY <1>1, PostKept, FlushedRetried

LEMMA AnnouncementPosts ==
  ASSUME NEW p \in Pages, NEW s, page'[p].remote = s.remote
  PROVE  \A m \in Announcement(p, s) : OfReady(m)
BY Distinct DEF Announcement, Announces, OfReady

LEMMA SubscribePosts ==
  ASSUME IInv, NEW p \in Pages, Subscribe(p), NEW m \in posts'
  PROVE  Repeats(m) \/ Retried(m) \/ Made(m)
<1> DEFINE s == Flushing(page[p])
           t == IF p = Owner THEN Revived(p, s) ELSE Announced(p, s)
<1>1. SoundPage(p, s) /\ s \in Page /\ s.retries = page[p].retries
  BY FlushingNow
<1>2. PICK loop \in FreeLoops(p) : posts' = posts \cup Flushed(s, loop) \cup Announcement(p, s)
  BY DEF Subscribe
<1>3. CASE m \in posts \cup Flushed(s, loop)
  BY <1>1, <1>3, FlushPosts
<1>4. CASE m \in Announcement(p, s)
  <2>1. p # Owner
    BY <1>4 DEF Announcement, Announces
  <2>2. page'[p] = Announced(p, s)
    <3>1. page' = [page EXCEPT ![p] = Announced(p, s)]
      BY <2>1 DEF Subscribe
    <3> QED
      BY <3>1, Updated DEF IInv, Sound, SoundPages
  <2>3. Announced(p, s).remote = s.remote
    BY <1>1 DEF Announced, Page
  <2> QED
    BY <1>4, <2>2, <2>3, AnnouncementPosts DEF Made
<1> QED
  BY <1>2, <1>3, <1>4

LEMMA RetryPosts ==
  ASSUME IInv, NEW p \in Pages, SignalRetryFires(p) \/ Online(p), NEW m \in posts'
  PROVE  Repeats(m) \/ Retried(m)
<1>1. CASE SignalRetryFires(p)
  <2> DEFINE u == [page[p] EXCEPT !.retry = FALSE]
             s == Flushing(u)
  <2>1. SoundPage(p, u) /\ u.retries = page[p].retries
    BY Now, TimerSound
  <2>2. SoundPage(p, s) /\ s.retries = u.retries
    <3> HIDE DEF u
    <3> QED
      BY <2>1, TimerSound
  <2>3. PICK loop \in FreeLoops(p) : posts' = posts \cup Flushed(s, loop)
    BY <1>1 DEF SignalRetryFires
  <2> HIDE DEF s
  <2> QED
    BY <2>1, <2>2, <2>3, FlushPosts
<1>2. CASE Online(p)
  <2>1. PICK loop \in FreeLoops(p) : posts' = posts \cup Flushed(Flushing(page[p]), loop)
    BY <1>2 DEF Online
  <2> QED
    BY <2>1, FlushingNow, FlushPosts
<1> QED
  BY <1>1, <1>2

LEMMA HandledPosts ==
  ASSUME IInv, NEW p \in Pages, EventHandled(p), NEW m \in posts'
  PROVE  Repeats(m) \/ Made(m)
<1>1. CASE RoomState(p)
  <2> DEFINE q == First(p).peer
             s == [page[p] EXCEPT !.remote = q, !.reconnect = IF q = NoOne THEN FALSE ELSE @]
  <2>1. page' = [page EXCEPT ![p] = Announced(p, s)] /\ posts' = posts \cup Announcement(p, s)
    BY <1>1 DEF RoomState, Becomes
  <2>2. page'[p] = Announced(p, s)
    <3> HIDE DEF s
    <3> QED
      BY <2>1, Updated DEF IInv, Sound, SoundPages
  <2>3. page[p] \in Page
    BY Now
  <2>4. Announced(p, s).remote = s.remote
    BY <2>3 DEF Announced, Page
  <2> HIDE DEF s
  <2> QED
    BY <2>1, <2>2, <2>4, PostKept, AnnouncementPosts DEF Made
<1>2. CASE PeerLeft(p)
  BY <1>2, PastPostsRepeat DEF PeerLeft
<1>3. CASE PeerJoined(p) \/ ReceiveReady(p) \/ ReceiveOffer(p) \/ ReceiveAnswer(p) \/ ReceiveCandidate(p)
  <2>1. posts' = posts
    BY <1>3 DEF PeerJoined, ReceiveReady, ReceiveOffer, ReceiveAnswer, ReceiveCandidate, Becomes
  <2> QED
    BY <2>1, PostKept
<1> QED
  BY <1>1, <1>2, <1>3 DEF EventHandled

LEMMA ResumedPosts ==
  ASSUME IInv, NEW p \in Pages, Resumed(p), NEW m \in posts'
  PROVE  Repeats(m) \/ Made(m)
<1>1. CASE OfferMade(p)
  <2>1. posts' = posts \cup Gathered(p)
    BY <1>1 DEF OfferMade, GoesOn
  <2> QED
    BY <1>1, <2>1, PostKept DEF Gathered, OfCandidate, Made
<1>2. CASE RemoteDescribed(p)
  <2>1. posts' = posts
    BY <1>2 DEF RemoteDescribed, Apply, GoesOn
  <2> QED
    BY <2>1, PostKept
<1>3. CASE AnswerMade(p)
  <2>1. posts' = posts \/ posts' = posts \cup Gathered(p)
    BY <1>3 DEF AnswerMade, GoesOn
  <2> QED
    BY <1>3, <2>1, PostKept DEF Gathered, OfCandidate, Made
<1>4. ASSUME NEW t \in tasks[p], KeyDerived(p, t)
      PROVE  Repeats(m)
  <2>1. posts' = posts
    BY <1>4 DEF KeyDerived, GoesOn
  <2> QED
    BY <2>1, PostKept
<1>5. ASSUME NEW t \in tasks[p], PostDescription(p, t)
      PROVE  Repeats(m) \/ Made(m)
  <2> DEFINE to == IF t.signal.kind = "offer" THEN page[p].remote ELSE t.signal.to
             signal == Described(t.signal.kind, p, to, conn[p].local)
  <2>1. m \in posts \/ m = Posted(signal)
    BY <1>5 DEF PostDescription
  <2>2. CASE m \in posts
    BY <2>2, PostKept
  <2>3. CASE m = Posted(signal)
    <3>1. m.by = Direct /\ m.signal.kind = t.signal.kind /\ m.signal.from = p /\ m.signal.to = to
      BY <2>3 DEF Posted, Described
    <3> QED
      BY <1>5, <3>1 DEF OfDescription, Made
  <2> QED
    BY <2>1, <2>2, <2>3
<1> QED
  BY <1>1, <1>2, <1>3, <1>4, <1>5 DEF Resumed

LEMMA ReconnectPosts ==
  ASSUME IInv, NEW p \in Pages, PeerReconnectFires(p), NEW m \in posts'
  PROVE  Repeats(m) \/ Made(m)
<1> DEFINE s == [page[p] EXCEPT !.reconnect = FALSE]
           t == AnnouncesAgain(ResetSession(s))
<1>1. page[p] \in Page
  BY Now
<1>2. s \in Page /\ s.remote = page[p].remote
  BY <1>1, FieldsKept
<1>3. ResetSession(s) \in Page
  <2> HIDE DEF s
  <2> QED
    BY <1>2, ResetSound DEF SoundPage
<1>4. t \in Page
  <2> HIDE DEF s
  <2> QED
    BY <1>3, SessionKept
<1>5. CASE s.remote = NoOne
  <2>1. posts' = posts
    BY <1>5 DEF PeerReconnectFires, Becomes
  <2> QED
    BY <2>1, PostKept
<1>6. CASE s.remote # NoOne
  <2>1. PICK reported \in CloseReported(p) :
          Replaces(p, [Announced(p, t) EXCEPT !.reconnect = reported], NewConnection(p))
    BY <1>6 DEF PeerReconnectFires
  <2>2. posts' = PastPosts(p) \cup Announcement(p, t)
    BY <1>6 DEF PeerReconnectFires
  <2> HIDE DEF t
  <2>3. page'[p] = [Announced(p, t) EXCEPT !.reconnect = reported]
    BY <2>1 DEF Replaces
  <2>4. Announced(p, t) \in Page /\ Announced(p, t).remote = t.remote
    BY <1>4, SessionKept DEF Announced, Page
  <2>5. page'[p].remote = t.remote
    BY <2>3, <2>4 DEF Page
  <2> QED
    BY <2>2, <2>5, PastPostsRepeat, AnnouncementPosts DEF Made
<1> QED
  BY <1>5, <1>6

LEMMA ClosePosts ==
  ASSUME IInv, NEW p \in Pages, ClosePage(p), NEW m \in posts'
  PROVE  Repeats(m) /\ (m.signal.from = p => m.by = Abandoned)
<1>1. PICK n \in PastPosts(p) : m = IF n.signal.from = p THEN [n EXCEPT !.by = Abandoned] ELSE n
  BY DEF ClosePage
<1>2. n \in Post
  BY PastPostsSound DEF GenuinePost
<1>3. m.signal = n.signal /\ m.by \in {n.by, Abandoned} /\ (m.signal.from = p => m.by = Abandoned)
  BY <1>1, <1>2 DEF Post
<1>4. Repeats(n)
  BY PastPostsRepeat
<1> QED
  BY <1>3, <1>4 DEF Repeats

\* Every post is one that was there, the head of a retry queue, or made by its page.
LEMMA PostsCome ==
  ASSUME IInv, [Next]_vars, NEW m \in posts'
  PROVE  Repeats(m) \/ Retried(m) \/ Made(m)
<1>1. CASE UNCHANGED posts
  BY <1>1, PostKept
<1>2. ASSUME NEW g \in Guests, Join(g)
      PROVE  UNCHANGED posts
  BY <1>2 DEF Join
<1>3. CASE StreamLost
  BY <1>1, <1>3 DEF StreamLost
<1>4. ASSUME NEW p \in Pages, LinkUp(p) \/ PeerGone(p) \/ LinkBreaks(p)
      PROVE  UNCHANGED posts
  BY <1>4 DEF LinkUp, PeerGone, LinkBreaks, LinkDown
<1>5. ASSUME NEW n \in posts, Serve(n)
      PROVE  Repeats(m) \/ Retried(m)
  BY <1>5, ServePosts DEF Serve
<1>6. ASSUME NEW p \in Pages, ClosePage(p)
      PROVE  Repeats(m)
  BY <1>6, ClosePosts
<1>7. CASE UNCHANGED vars
  BY <1>1, <1>7 DEF vars
<1> QED
  BY <1>1, <1>2, <1>3, <1>4, <1>5, <1>6, <1>7, GiveUpPosts, SubscribePosts, RetryPosts, HandledPosts,
     ResumedPosts, ReconnectPosts DEF Next, Works

-----------------------------------------------------------------------------
(* What the steps do to the sessions *)

PageActs(p) ==
  \/ Works(p) \/ SignalRetryFires(p) \/ Online(p) \/ ClosePage(p) \/ LinkBreaks(p)
  \/ \E m \in posts : m.signal.from = p /\ (Serve(m) \/ GiveUp(m))

Closes(p) == ClosePage(p) \/ PeerLeft(p) \/ PeerReconnectFires(p)

PastOf(p, q) ==
  /\ page'[p] = PastPage(page[p], q) /\ conn'[p] = PastConnection(conn[p], q)
  /\ tasks'[p] = {PastTask(t, q) : t \in tasks[p]}

SamePage(p) == page'[p] = page[p] /\ conn'[p] = conn[p] /\ tasks'[p] = tasks[p]

\* What a page acts on is its own, and what others do is to close a connection.
LEMMA ElsewhereOf ==
  ASSUME IInv, NEW p \in Pages, NEW q \in Pages \ {p},
         Works(q) \/ SignalRetryFires(q) \/ Online(q) \/ ClosePage(q) \/ LinkBreaks(q)
  PROVE  SamePage(p) \/ (Closes(q) /\ PastOf(p, q))
<1>1. OnPages(page) /\ OnPages(conn) /\ OnPages(tasks)
  BY DEF IInv, Sound, SoundPages, SoundConnections, SoundTasks
<1>2. CASE Subscribe(q) \/ SignalRetryFires(q) \/ Online(q)
  <2>1. UNCHANGED <<conn, tasks>> /\ \E s : page' = [page EXCEPT ![q] = s]
    BY <1>2 DEF Subscribe, SignalRetryFires, Online
  <2> QED
    BY <1>1, <2>1, Updated DEF SamePage
<1>3. CASE RoomState(q) \/ PeerJoined(q) \/ ReceiveReady(q) \/ ReceiveOffer(q) \/ ReceiveAnswer(q)
             \/ ReceiveCandidate(q)
  <2>1. \E s, c, P : Becomes(q, s, c, P)
    BY <1>3 DEF RoomState, PeerJoined, ReceiveReady, ReceiveOffer, ReceiveAnswer, ReceiveCandidate
  <2>2. PICK s, c, P : Becomes(q, s, c, P)
    BY <2>1
  <2>3. page' = [page EXCEPT ![q] = s] /\ conn' = [conn EXCEPT ![q] = c] /\ UNCHANGED tasks
    BY <2>2 DEF Becomes
  <2> QED
    BY <1>1, <2>3, Updated DEF SamePage
<1>4. CASE Resumed(q)
  <2>1. CASE \E s, c, T, P : GoesOn(q, s, c, T, P)
    <3>1. PICK s, c, T, P : GoesOn(q, s, c, T, P)
      BY <2>1
    <3>2. page' = [page EXCEPT ![q] = s] /\ conn' = [conn EXCEPT ![q] = c]
          /\ tasks' = [tasks EXCEPT ![q] = T]
      BY <3>1 DEF GoesOn
    <3> QED
      BY <1>1, <3>2, Updated DEF SamePage
  <2>2. ASSUME NEW t \in tasks[q], PostDescription(q, t)
        PROVE  SamePage(p)
    BY <1>1, <2>2, Updated DEF PostDescription, SamePage
  <2>3. ASSUME NEW c, NEW signal, Apply(q, page[q], c, signal)
        PROVE  \E s, d, T, P : GoesOn(q, s, d, T, P)
    BY <2>3 DEF Apply
  <2>4. OfferMade(q) => \E s, c, T, P : GoesOn(q, s, c, T, P)
    BY DEF OfferMade
  <2>5. AnswerMade(q) => \E s, c, T, P : GoesOn(q, s, c, T, P)
    BY DEF AnswerMade
  <2>6. ASSUME NEW t \in tasks[q], KeyDerived(q, t)
        PROVE  \E s, c, T, P : GoesOn(q, s, c, T, P)
    BY <2>6 DEF KeyDerived
  <2>7. RemoteDescribed(q) => \E s, c, T, P : GoesOn(q, s, c, T, P)
    BY <2>3 DEF RemoteDescribed
  <2> QED
    BY <1>4, <2>1, <2>2, <2>4, <2>5, <2>6, <2>7 DEF Resumed
<1>5. CASE LinkUp(q) \/ PeerGone(q) \/ LinkBreaks(q)
  <2>1. UNCHANGED tasks /\ \E s, c : page' = [page EXCEPT ![q] = s] /\ conn' = [conn EXCEPT ![q] = c]
    BY <1>5 DEF LinkUp, PeerGone, LinkBreaks, LinkDown
  <2> QED
    BY <1>1, <2>1, Updated DEF SamePage
<1>6. ASSUME NEW s, NEW c, Replaces(q, s, c)
      PROVE  page'[p] = PastPage(page[p], q) /\ conn'[p] = PastConnection(conn[p], q)
  BY <1>6 DEF Replaces
<1>7. CASE ClosePage(q)
  <2>1. tasks'[p] = {PastTask(t, q) : t \in tasks[p]}
    BY <1>7 DEF ClosePage
  <2> QED
    BY <1>6, <1>7, <2>1 DEF ClosePage, Closes, PastOf
<1>8. CASE PeerLeft(q)
  <2>1. tasks'[p] = {PastTask(t, q) : t \in tasks[p]}
    BY <1>8 DEF PeerLeft
  <2> QED
    BY <1>6, <1>8, <2>1 DEF PeerLeft, Closes, PastOf
<1>9. CASE PeerReconnectFires(q)
  <2>1. CASE page[q].remote # NoOne
    <3>0. [page[q] EXCEPT !.reconnect = FALSE].remote # NoOne
      BY <2>1, Now, FieldsKept
    <3>1. tasks'[p] = {PastTask(t, q) : t \in tasks[p]}
      <4>1. tasks' = [r \in Pages |-> {PastTask(t, q) : t \in tasks[r]}]
        BY <1>9, <3>0 DEF PeerReconnectFires
      <4> QED
        BY <4>1
    <3>2. \E s, c : Replaces(q, s, c)
      BY <1>9, <3>0 DEF PeerReconnectFires
    <3> QED
      BY <1>6, <1>9, <3>1, <3>2 DEF Closes, PastOf
  <2>2. CASE page[q].remote = NoOne
    <3>1. \E s : Becomes(q, s, conn[q], {})
      BY <1>9, <2>2, Now, FieldsKept DEF PeerReconnectFires
    <3>2. UNCHANGED tasks /\ \E s : page' = [page EXCEPT ![q] = s] /\ conn' = [conn EXCEPT ![q] = conn[q]]
      BY <3>1 DEF Becomes
    <3> QED
      BY <1>1, <3>2, Updated DEF SamePage
  <2> QED
    BY <2>1, <2>2
<1> QED
  BY <1>2, <1>3, <1>4, <1>5, <1>7, <1>8, <1>9 DEF Works, EventHandled

LEMMA Elsewhere ==
  ASSUME IInv, [Next]_vars, NEW p \in Pages
  PROVE  \/ PageActs(p)
         \/ SamePage(p)
         \/ \E q \in Pages \ {p} : Closes(q) /\ PastOf(p, q)
<1>1. OnPages(page)
  BY DEF IInv, Sound, SoundPages
<1>2. ASSUME NEW m \in posts, Serve(m), m.signal.from # p
      PROVE  SamePage(p)
  <2>1. UNCHANGED <<conn, tasks>> /\ \E s : page' = [page EXCEPT ![m.signal.from] = s]
    BY <1>2 DEF Serve, AfterPost
  <2> QED
    BY <1>1, <1>2, <2>1, PostTypes, Updated DEF SamePage
<1>3. ASSUME NEW m \in posts, GiveUp(m), m.signal.from # p
      PROVE  SamePage(p)
  <2>1. UNCHANGED <<conn, tasks>> /\ \E s : page' = [page EXCEPT ![m.signal.from] = s]
    BY <1>3 DEF GiveUp
  <2> QED
    BY <1>1, <1>3, <2>1, PostTypes, Updated DEF SamePage
<1>4. ASSUME NEW g \in Guests, Join(g)
      PROVE  SamePage(p)
  BY <1>4 DEF Join, SamePage
<1>5. CASE StreamLost \/ UNCHANGED vars
  BY <1>5 DEF StreamLost, vars, SamePage
<1> QED
  BY <1>2, <1>3, <1>4, <1>5, ElsewhereOf DEF Next, PageActs

\* The fields that say whom a page knows, and what it has told or is about to.
Steady(s, t) ==
  /\ t.remote = s.remote /\ t.readySent = s.readySent /\ t.reconnect = s.reconnect
  /\ t.retries = s.retries

LEMMA SteadySelf == \A s : Steady(s, s)
BY DEF Steady

LEMMA Fields ==
  ASSUME NEW s \in Page
  PROVE  /\ \A b : Steady(s, [s EXCEPT !.retry = b])
         /\ \A n : Steady(s, [s EXCEPT !.pending = n])
         /\ \A b : LET t == [s EXCEPT !.reconnect = b] IN
              t.remote = s.remote /\ t.readySent = s.readySent /\ t.retries = s.retries
              /\ t.reconnect = b
         /\ \A b : LET t == [s EXCEPT !.readySent = b] IN
              t.remote = s.remote /\ t.reconnect = s.reconnect /\ t.retries = s.retries
              /\ t.readySent = b
         /\ \A q : LET t == [s EXCEPT !.remote = q] IN
              t.readySent = s.readySent /\ t.reconnect = s.reconnect /\ t.retries = s.retries
              /\ t.remote = q
         /\ \A q, b : LET t == [s EXCEPT !.remote = q, !.reconnect = b] IN
              t.readySent = s.readySent /\ t.retries = s.retries
              /\ t.remote = q /\ t.reconnect = b
         /\ \A q, b : LET t == [s EXCEPT !.remote = q, !.offerReady = b] IN
              t.readySent = s.readySent /\ t.reconnect = s.reconnect /\ t.retries = s.retries
              /\ t.remote = q /\ t.offerReady = b
         /\ \A r : LET t == [s EXCEPT !.retries = r] IN
              t.remote = s.remote /\ t.readySent = s.readySent /\ t.reconnect = s.reconnect
              /\ t.retries = r
         /\ \A k, l : Steady(s, [s EXCEPT !.key = k, !.late = l])
BY DEF Page, Steady

LEMMA SessionFields ==
  ASSUME NEW p, NEW s \in Page
  PROVE  /\ Steady(s, Flushing(s)) /\ Steady(s, Rescheduled(s))
         /\ LET t == Scheduled(s) IN
              t.remote = s.remote /\ t.readySent = s.readySent /\ t.retries = s.retries
              /\ (t.reconnect <=> s.remote # NoOne \/ s.reconnect)
         /\ LET t == Announced(p, s) IN
              t.remote = s.remote /\ t.reconnect = s.reconnect /\ t.retries = s.retries
              /\ (t.readySent <=> Announces(p, s) \/ s.readySent)
<1>1. Steady(s, Flushing(s)) /\ Steady(s, Rescheduled(s))
  BY Fields, SteadySelf DEF Flushing, Rescheduled
<1>2. s.reconnect \in BOOLEAN /\ s.readySent \in BOOLEAN
  BY DEF Page
<1>3. LET t == Scheduled(s) IN
        t.remote = s.remote /\ t.readySent = s.readySent /\ t.retries = s.retries
        /\ (t.reconnect <=> s.remote # NoOne \/ s.reconnect)
  <2>1. CASE s.remote = NoOne
    BY <1>2, <2>1 DEF Scheduled
  <2>2. CASE s.remote # NoOne
    BY <2>2, Fields DEF Scheduled
  <2> QED
    BY <2>1, <2>2
<1>4. LET t == Announced(p, s) IN
        t.remote = s.remote /\ t.reconnect = s.reconnect /\ t.retries = s.retries
        /\ (t.readySent <=> Announces(p, s) \/ s.readySent)
  <2>1. CASE Announces(p, s)
    BY <2>1, Fields DEF Announced
  <2>2. CASE ~Announces(p, s)
    BY <1>2, <2>2 DEF Announced
  <2> QED
    BY <2>1, <2>2
<1> QED
  BY <1>1, <1>3, <1>4

\* Posts that end change the queue and its timer only.
LEMMA PostingKeeps ==
  ASSUME IInv, NEW p \in Pages, NEW m \in posts, m.signal.from = p, Serve(m) \/ GiveUp(m)
  PROVE  LET s == page[p] IN
         LET t == page'[p] IN
         t.remote = s.remote /\ t.readySent = s.readySent /\ t.reconnect = s.reconnect
<1> DEFINE s == page[p]
           tail == [s EXCEPT !.retries = IF s.retries = <<>> THEN <<>> ELSE Tail(@)]
<1>1. s \in Page /\ SoundPage(p, s)
  BY Now
<1>2. tail \in Page
  BY <1>1, TailSound DEF SoundPage
<1>3. tail.remote = s.remote /\ tail.readySent = s.readySent /\ tail.reconnect = s.reconnect
  <2> DEFINE r == IF s.retries = <<>> THEN <<>> ELSE Tail(s.retries)
  <2>1. tail = [s EXCEPT !.retries = r]
    OBVIOUS
  <2> HIDE DEF r, s
  <2>2. LET t == [s EXCEPT !.retries = r] IN
        t.remote = s.remote /\ t.readySent = s.readySent /\ t.reconnect = s.reconnect
    BY <1>1, Fields
  <2> QED
    BY <2>1, <2>2
<1>4. page'[p] \in {s, Enqueued(s, m.signal), Flushing(tail), Rescheduled(s)}
  <2>1. CASE Serve(m)
    <3>1. PICK ok : AfterPost(p, m, ok)
      BY <2>1 DEF Serve
    <3>2. \E x \in {s, Enqueued(s, m.signal), Flushing(tail), Rescheduled(s)} :
            page' = [page EXCEPT ![p] = x]
      <4>1. m.by = Abandoned \/ m.by = Direct \/ m.by \in Loops
        BY PostTypes
      <4> QED
        BY <3>1, <4>1, ByDistinct DEF AfterPost
    <3> QED
      BY <3>2, Updated DEF IInv, Sound, SoundPages
  <2>2. CASE GiveUp(m)
    <3>1. \E x \in {s, Enqueued(s, m.signal), Flushing(tail), Rescheduled(s)} :
            page' = [page EXCEPT ![p] = x]
      BY <2>2 DEF GiveUp
    <3> QED
      BY <3>1, Updated DEF IInv, Sound, SoundPages
  <2> QED
    BY <2>1, <2>2
<1>5. LET t == Enqueued(s, m.signal) IN
        t.remote = s.remote /\ t.readySent = s.readySent /\ t.reconnect = s.reconnect
  <2> DEFINE queue == Append(s.retries, m.signal)
             r == IF Len(queue) > QueueLimit THEN Tail(queue) ELSE queue
  <2>1. Enqueued(s, m.signal) = Queueing(s, r, TRUE)
    BY DEF Enqueued, Queueing
  <2> HIDE DEF r, s
  <2>2. LET t == Queueing(s, r, TRUE) IN
        t.remote = s.remote /\ t.readySent = s.readySent /\ t.reconnect = s.reconnect
    BY <1>1 DEF Queueing, Page
  <2> QED
    BY <2>1, <2>2
<1>6. Steady(tail, Flushing(tail)) /\ Steady(s, Rescheduled(s))
  BY <1>1, <1>2, SessionFields
<1> QED
  BY <1>3, <1>4, <1>5, <1>6 DEF Steady

\* An event tells p of its peer.
Meets(p) == Handles(p) /\ First(p).type # "peer-left" /\ page'[p].remote = Subject(First(p))

\* A recipient announces itself to the peer it knows.
TellsReady(p) ==
  p # Owner /\ page'[p].remote # NoOne /\ Posted(Ready(p, page'[p].remote)) \in posts'

SessionStep(p, s, t) ==
  /\ t.remote = s.remote \/ Meets(p) \/ (t.remote = NoOne /\ (PeerLeft(p) \/ ClosePage(p)))
  /\ t.readySent => s.readySent \/ TellsReady(p)
  /\ t.reconnect => s.reconnect \/ t.remote # NoOne
  /\ ~t.reconnect => ~s.reconnect \/ t.remote = NoOne \/ LinkUp(p) \/ TellsReady(p) \/ p = Owner

LEMMA PageIs ==
  ASSUME IInv, NEW p \in Pages, NEW s, page' = [page EXCEPT ![p] = s]
  PROVE  page'[p] = s
BY Updated DEF IInv, Sound, SoundPages

LEMMA SteadySession ==
  ASSUME NEW p, NEW s, NEW t,
         t.remote = s.remote, t.readySent = s.readySent, t.reconnect = s.reconnect
  PROVE  SessionStep(p, s, t)
BY DEF SessionStep

LEMMA TellsAnnouncement ==
  ASSUME NEW p \in Pages, NEW s, page'[p].remote = s.remote, Announces(p, s),
         Announcement(p, s) \subseteq posts'
  PROVE  TellsReady(p)
BY DEF Announces, Announcement, TellsReady

LEMMA FlushSession ==
  ASSUME IInv, NEW p \in Pages, Subscribe(p) \/ SignalRetryFires(p) \/ Online(p)
  PROVE  SessionStep(p, page[p], page'[p])
<1> DEFINE s == Flushing(page[p])
<1>1. page[p] \in Page /\ s \in Page /\ Steady(page[p], s)
  BY Now, FlushingNow, SessionFields
<1>2. SessionStep(p, page[p], Revived(p, s))
  <2>1. CASE conn[p].state = "up"
    BY <1>1, <2>1, SteadySession DEF Revived, Steady
  <2>2. CASE conn[p].state # "up"
    <3> HIDE DEF s
    <3>1. LET t == Scheduled(s) IN
            t.remote = s.remote /\ t.readySent = s.readySent
            /\ (t.reconnect <=> s.remote # NoOne \/ s.reconnect)
      BY <1>1, SessionFields
    <3> QED
      BY <1>1, <2>2, <3>1 DEF Revived, Steady, SessionStep
  <2> QED
    BY <2>1, <2>2
<1>3. CASE Online(p)
  <2>1. page'[p] = Revived(p, s)
    BY <1>3, PageIs DEF Online
  <2> QED
    BY <1>2, <2>1
<1>4. CASE SignalRetryFires(p)
  <2> DEFINE u == [page[p] EXCEPT !.retry = FALSE]
  <2>1. u \in Page /\ Steady(page[p], u)
    BY <1>1, Now, TimerSound, Fields DEF SoundPage
  <2>2. page'[p] = Flushing(u)
    BY <1>4, PageIs DEF SignalRetryFires
  <2> HIDE DEF u
  <2>3. Steady(u, Flushing(u))
    BY <2>1, SessionFields
  <2> QED
    BY <2>1, <2>2, <2>3, SteadySession DEF Steady
<1>5. CASE Subscribe(p) /\ p = Owner
  <2>1. page' = [page EXCEPT ![p] = Revived(p, s)]
    BY <1>5 DEF Subscribe
  <2>2. page'[p] = Revived(p, s)
    <3> HIDE DEF s
    <3> QED
      BY <2>1, PageIs
  <2> QED
    BY <1>2, <2>2
<1>6. CASE Subscribe(p) /\ p # Owner
  <2>1. page' = [page EXCEPT ![p] = Announced(p, s)]
    BY <1>6 DEF Subscribe
  <2>2. page'[p] = Announced(p, s) /\ Announcement(p, s) \subseteq posts'
    <3>1. Announcement(p, s) \subseteq posts'
      BY <1>6 DEF Subscribe
    <3> HIDE DEF s
    <3> QED
      BY <2>1, <3>1, PageIs
  <2> HIDE DEF s
  <2>3. LET t == Announced(p, s) IN
          t.remote = s.remote /\ t.reconnect = s.reconnect
          /\ (t.readySent <=> Announces(p, s) \/ s.readySent)
    BY <1>1, SessionFields
  <2>4. page'[p].remote = s.remote
    BY <2>2, <2>3
  <2>5. Announces(p, s) => TellsReady(p)
    BY <2>2, <2>4, TellsAnnouncement
  <2> QED
    BY <1>1, <2>2, <2>3, <2>5 DEF Steady, SessionStep
<1> QED
  BY <1>3, <1>4, <1>5, <1>6

LEMMA EventSession ==
  ASSUME IInv, NEW p \in Pages, EventHandled(p)
  PROVE  SessionStep(p, page[p], page'[p])
<1>1. page[p] \in Page
  BY Now
<1>2. CASE RoomState(p)
  <2> DEFINE q == First(p).peer
             s == [page[p] EXCEPT !.remote = q, !.reconnect = IF q = NoOne THEN FALSE ELSE @]
  <2>1. page' = [page EXCEPT ![p] = Announced(p, s)] /\ Announcement(p, s) \subseteq posts'
    BY <1>2 DEF RoomState, Becomes
  <2>2. s.remote = q /\ s.readySent = page[p].readySent
        /\ s.reconnect = IF q = NoOne THEN FALSE ELSE page[p].reconnect
    <3> HIDE DEF q
    <3> QED
      BY <1>1 DEF Page
  <2>3. s \in Page
    <3>1. q \in Pages \cup {NoOne}
      BY <1>2, FirstSound DEF IInv, Sound, RoomState, Handles
    <3>2. (IF q = NoOne THEN FALSE ELSE page[p].reconnect) \in BOOLEAN
      BY <1>1 DEF Page
    <3> QED
      BY <1>1, <3>1, <3>2, FieldsKept
  <2>4. Handles(p) /\ First(p).type # "peer-left" /\ Subject(First(p)) = q
    BY <1>2 DEF RoomState, Subject
  <2> HIDE DEF s, q
  <2>5. page'[p] = Announced(p, s)
    BY <2>1, PageIs
  <2>6. LET t == Announced(p, s) IN
          t.remote = s.remote /\ t.reconnect = s.reconnect
          /\ (t.readySent <=> Announces(p, s) \/ s.readySent)
    BY <2>3, SessionFields
  <2>7. page'[p].remote = s.remote
    BY <2>5, <2>6
  <2>8. Announces(p, s) => TellsReady(p)
    BY <2>1, <2>7, TellsAnnouncement
  <2> QED
    BY <2>2, <2>4, <2>5, <2>6, <2>8 DEF Meets, SessionStep
<1>3. CASE PeerLeft(p)
  <2> DEFINE s == [page[p] EXCEPT !.remote = NoOne, !.reconnect = FALSE]
  <2>1. page'[p] = ResetSession(s)
    BY <1>3 DEF PeerLeft, Replaces
  <2>2. s \in Page /\ s.remote = NoOne /\ s.reconnect = FALSE /\ s.readySent = page[p].readySent
    BY <1>1, Distinct DEF Page
  <2> HIDE DEF s
  <2>3. LET t == ResetSession(s) IN
          t.remote = s.remote /\ t.readySent = s.readySent /\ t.reconnect = s.reconnect
    BY <2>2 DEF ResetSession, Page
  <2> QED
    BY <1>3, <2>1, <2>2, <2>3 DEF SessionStep
<1>4. CASE ReceiveReady(p) \/ ReceiveOffer(p) \/ PeerJoined(p)
  <2>1. Handles(p) /\ First(p).type # "peer-left"
    BY <1>4 DEF ReceiveReady, ReceiveOffer, PeerJoined, Receives
  <2>2. \E s : /\ page' = [page EXCEPT ![p] = s]
               /\ s.remote = Subject(First(p)) /\ s.readySent = page[p].readySent
               /\ s.reconnect = page[p].reconnect
    <3>1. CASE ReceiveReady(p)
      <4> DEFINE q == First(p).signal.from
                 s == [page[p] EXCEPT !.remote = q, !.offerReady = TRUE]
      <4>1. page' = [page EXCEPT ![p] = s] /\ Subject(First(p)) = q
        BY <3>1 DEF ReceiveReady, Receives, Becomes, Subject
      <4>2. s.remote = q /\ s.readySent = page[p].readySent /\ s.reconnect = page[p].reconnect
        <5> HIDE DEF q
        <5> QED
          BY <1>1 DEF Page
      <4> HIDE DEF q, s
      <4> QED
        BY <4>1, <4>2
    <3>2. CASE ReceiveOffer(p) \/ PeerJoined(p)
      <4> DEFINE q == Subject(First(p))
                 s == [page[p] EXCEPT !.remote = q]
      <4>1. page' = [page EXCEPT ![p] = s]
        BY <3>2 DEF ReceiveOffer, PeerJoined, Receives, Becomes, Subject
      <4>2. s.remote = q /\ s.readySent = page[p].readySent /\ s.reconnect = page[p].reconnect
        <5> HIDE DEF q
        <5> QED
          BY <1>1 DEF Page
      <4> HIDE DEF s
      <4> QED
        BY <4>1, <4>2
    <3> QED
      BY <1>4, <3>1, <3>2
  <2> QED
    BY <2>1, <2>2, PageIs DEF Meets, SessionStep
<1>5. CASE ReceiveAnswer(p) \/ ReceiveCandidate(p)
  <2>1. \E s : page' = [page EXCEPT ![p] = s] /\ Steady(page[p], s)
    <3>1. page' = [page EXCEPT ![p] = page[p]]
          \/ \E n : page' = [page EXCEPT ![p] = [page[p] EXCEPT !.pending = n]]
      BY <1>5 DEF ReceiveAnswer, ReceiveCandidate, Becomes
    <3>2. \A n : Steady(page[p], [page[p] EXCEPT !.pending = n])
      BY <1>1, Fields
    <3> QED
      BY <3>1, <3>2, SteadySelf
  <2> QED
    BY <2>1, PageIs, SteadySession DEF Steady
<1> QED
  BY <1>2, <1>3, <1>4, <1>5 DEF EventHandled


LEMMA ResumedSteady ==
  ASSUME IInv, NEW p \in Pages, Resumed(p)
  PROVE  \E s : page' = [page EXCEPT ![p] = s] /\ Steady(page[p], s)
<1>1. CASE OfferMade(p) \/ AnswerMade(p)
  <2>1. page' = [page EXCEPT ![p] = page[p]]
    BY <1>1 DEF OfferMade, AnswerMade, GoesOn
  <2> QED
    BY <2>1, SteadySelf
<1>2. CASE RemoteDescribed(p)
  <2>1. page' = [page EXCEPT ![p] = page[p]]
        \/ \E n : page' = [page EXCEPT ![p] = [page[p] EXCEPT !.pending = n]]
    BY <1>2 DEF RemoteDescribed, Apply, GoesOn
  <2>2. \A n : Steady(page[p], [page[p] EXCEPT !.pending = n])
    BY Now, Fields
  <2> QED
    BY <2>1, <2>2, SteadySelf
<1>3. ASSUME NEW t \in tasks[p], KeyDerived(p, t)
      PROVE  \E s : page' = [page EXCEPT ![p] = s] /\ Steady(page[p], s)
  <2>1. \E k, l : page' = [page EXCEPT ![p] = [page[p] EXCEPT !.key = k, !.late = l]]
    BY <1>3 DEF KeyDerived, GoesOn
  <2>2. \A k, l : Steady(page[p], [page[p] EXCEPT !.key = k, !.late = l])
    BY Now, Fields
  <2> QED
    BY <2>1, <2>2
<1>4. ASSUME NEW t \in tasks[p], PostDescription(p, t)
      PROVE  \E s : page' = [page EXCEPT ![p] = s] /\ Steady(page[p], s)
  <2>1. page' = [page EXCEPT ![p] = page[p]]
    BY <1>4 DEF PostDescription, IInv, Sound, SoundPages, OnPages
  <2> QED
    BY <2>1, SteadySelf
<1> QED
  BY <1>1, <1>2, <1>3, <1>4 DEF Resumed

LEMMA ResumedSession ==
  ASSUME IInv, NEW p \in Pages, Resumed(p)
  PROVE  SessionStep(p, page[p], page'[p])
BY ResumedSteady, PageIs, SteadySession DEF Steady

LEMMA LinkSession ==
  ASSUME IInv, NEW p \in Pages, LinkUp(p) \/ PeerGone(p) \/ LinkBreaks(p)
  PROVE  SessionStep(p, page[p], page'[p])
<1>1. page[p] \in Page
  BY Now
<1>2. CASE LinkUp(p)
  <2> DEFINE s == [page[p] EXCEPT !.reconnect = FALSE]
  <2>1. page' = [page EXCEPT ![p] = s]
    BY <1>2 DEF LinkUp
  <2>2. s.remote = page[p].remote /\ s.readySent = page[p].readySent /\ s.reconnect = FALSE
    BY <1>1 DEF Page
  <2> HIDE DEF s
  <2>3. page'[p] = s
    BY <2>1, PageIs
  <2> QED
    BY <1>2, <2>2, <2>3 DEF SessionStep
<1>3. CASE PeerGone(p) \/ LinkBreaks(p)
  <2>1. page' = [page EXCEPT ![p] = Scheduled(page[p])]
    BY <1>3 DEF PeerGone, LinkBreaks, LinkDown
  <2>2. page'[p] = Scheduled(page[p])
    BY <2>1, PageIs
  <2>3. LET t == Scheduled(page[p]) IN
          t.remote = page[p].remote /\ t.readySent = page[p].readySent
          /\ (t.reconnect <=> page[p].remote # NoOne \/ page[p].reconnect)
    BY <1>1, SessionFields
  <2> QED
    BY <2>2, <2>3 DEF SessionStep
<1> QED
  BY <1>2, <1>3

LEMMA ReconnectSession ==
  ASSUME IInv, NEW p \in Pages, PeerReconnectFires(p)
  PROVE  /\ SessionStep(p, page[p], page'[p])
         /\ page[p].remote # NoOne /\ page'[p].readySent => TellsReady(p)
<1> DEFINE s == [page[p] EXCEPT !.reconnect = FALSE]
           t == AnnouncesAgain(ResetSession(s))
<1>1. page[p] \in Page
  BY Now
<1>2. s \in Page /\ s.remote = page[p].remote /\ s.readySent = page[p].readySent /\ s.reconnect = FALSE
  BY <1>1, FieldsKept DEF Page
<1>3. ResetSession(s) \in Page /\ ResetSession(s).remote = s.remote
  <2> HIDE DEF s
  <2> QED
    BY <1>2, ResetSound DEF SoundPage
<1>4. t \in Page /\ t.remote = page[p].remote /\ t.readySent = FALSE
  <2> HIDE DEF s
  <2>1. t \in Page /\ t.remote = s.remote
    BY <1>3, SessionKept
  <2>2. \A u \in Page : AnnouncesAgain(u).readySent = FALSE
    BY DEF AnnouncesAgain, Page
  <2> QED
    BY <1>2, <1>3, <2>1, <2>2
<1>5. CASE s.remote = NoOne
  <2>1. page' = [page EXCEPT ![p] = s]
    BY <1>5 DEF PeerReconnectFires, Becomes
  <2> HIDE DEF s
  <2>2. page'[p] = s
    BY <2>1, PageIs
  <2> QED
    BY <1>2, <1>5, <2>2 DEF SessionStep
<1>6. CASE s.remote # NoOne
  <2>1. PICK reported \in CloseReported(p) :
          Replaces(p, [Announced(p, t) EXCEPT !.reconnect = reported], NewConnection(p))
    BY <1>6 DEF PeerReconnectFires
  <2>2. Announcement(p, t) \subseteq posts'
    BY <1>6 DEF PeerReconnectFires
  <2> HIDE DEF t
  <2>3. page'[p] = [Announced(p, t) EXCEPT !.reconnect = reported]
    BY <2>1 DEF Replaces
  <2>4. Announced(p, t) \in Page /\ Announced(p, t).remote = t.remote
        /\ (Announced(p, t).readySent <=> Announces(p, t) \/ t.readySent)
    BY <1>4, SessionKept, SessionFields
  <2>5. page'[p].remote = t.remote /\ page'[p].readySent = Announced(p, t).readySent
    <3> DEFINE u == Announced(p, t)
    <3> HIDE DEF u
    <3>1. u \in Page /\ page'[p] = [u EXCEPT !.reconnect = reported] /\ u.remote = t.remote
      BY <2>3, <2>4 DEF u
    <3>2. page'[p].remote = t.remote /\ page'[p].readySent = u.readySent
      BY <3>1 DEF Page
    <3> QED
      BY <3>2 DEF u
  <2>6. Announces(p, t) => TellsReady(p)
    BY <2>2, <2>5, TellsAnnouncement
  <2>7. p = Owner \/ Announces(p, t)
    BY <1>2, <1>4, <1>6 DEF Announces
  <2>8. page'[p].remote # NoOne /\ page'[p].remote = page[p].remote
    BY <1>2, <1>4, <1>6, <2>5
  <2>9. page'[p].readySent => TellsReady(p)
    BY <1>4, <2>4, <2>5, <2>6
  <2>10. SessionStep(p, page[p], page'[p])
    BY <2>6, <2>7, <2>8, <2>9 DEF SessionStep
  <2> QED
    BY <2>9, <2>10
<1> QED
  BY <1>5, <1>6

LEMMA CloseSession ==
  ASSUME IInv, NEW p \in Pages, ClosePage(p)
  PROVE  page'[p] = NewPage /\ SessionStep(p, page[p], page'[p])
<1>1. page'[p] = NewPage
  BY DEF ClosePage, Replaces
<1> QED
  BY <1>1 DEF NewPage, SessionStep

LEMMA PastSession ==
  ASSUME NEW s \in Page, NEW q
  PROVE  LET t == PastPage(s, q) IN
         t.remote = s.remote /\ t.readySent = s.readySent /\ t.reconnect = s.reconnect
BY Zenon DEF PastPage, Page

\* What a step does to a session.
LEMMA SessionSteps ==
  ASSUME IInv, [Next]_vars, NEW p \in Pages
  PROVE  SessionStep(p, page[p], page'[p])
<1>1. CASE PageActs(p)
  <2>1. ASSUME NEW m \in posts, m.signal.from = p, Serve(m) \/ GiveUp(m)
        PROVE  SessionStep(p, page[p], page'[p])
    <3>1. page'[p].remote = page[p].remote /\ page'[p].readySent = page[p].readySent
          /\ page'[p].reconnect = page[p].reconnect
      BY <2>1, PostingKeeps
    <3> QED
      BY <3>1, SteadySession
  <2> QED
    BY <1>1, <2>1, FlushSession, EventSession, ResumedSession, LinkSession, ReconnectSession, CloseSession
       DEF PageActs, Works
<1>2. CASE SamePage(p)
  BY <1>2, SteadySession DEF SamePage
<1>3. ASSUME NEW q \in Pages \ {p}, PastOf(p, q)
      PROVE  SessionStep(p, page[p], page'[p])
  <2>1. page[p] \in Page
    BY Now
  <2>2. LET t == PastPage(page[p], q) IN
        t.remote = page[p].remote /\ t.readySent = page[p].readySent /\ t.reconnect = page[p].reconnect
    BY <2>1, PastSession
  <2> QED
    BY <1>3, <2>2, SteadySession DEF PastOf
<1> QED
  BY <1>1, <1>2, <1>3, Elsewhere

-----------------------------------------------------------------------------
(* What the steps do to the retry queues *)

LEMMA PastQueue ==
  ASSUME NEW s \in Page, NEW q
  PROVE  Range(PastPage(s, q).retries) = {PastSignal(x, q) : x \in Range(s.retries)}
<1> DEFINE R == [i \in DOMAIN s.retries |-> PastSignal(s.retries[i], q)]
<1>1. PastPage(s, q).retries = R
  BY Zenon DEF PastPage, Page
<1>2. Range(R) = {PastSignal(x, q) : x \in Range(s.retries)}
  BY DEF Range
<1> QED
  BY <1>1, <1>2

LEMMA FlushQueue ==
  ASSUME IInv, NEW p \in Pages, Subscribe(p) \/ SignalRetryFires(p) \/ Online(p)
  PROVE  page'[p].retries = page[p].retries
<1> DEFINE s == Flushing(page[p])
<1>1. page[p] \in Page /\ s \in Page /\ Steady(page[p], s)
  BY Now, FlushingNow, SessionFields
<1>2. Kept(s, Revived(p, s)) /\ Kept(s, Announced(p, s))
  <2> HIDE DEF s
  <2> QED
    BY <1>1, SessionKept
<1>3. CASE Subscribe(p) \/ Online(p)
  <2>1. page' = [page EXCEPT ![p] = Revived(p, s)] \/ page' = [page EXCEPT ![p] = Announced(p, s)]
    BY <1>3 DEF Subscribe, Online
  <2> HIDE DEF s
  <2>2. page'[p] \in {Revived(p, s), Announced(p, s)}
    BY <2>1, PageIs
  <2> QED
    BY <1>1, <1>2, <2>2 DEF Kept, Steady
<1>4. CASE SignalRetryFires(p)
  <2> DEFINE u == [page[p] EXCEPT !.retry = FALSE]
  <2>1. u \in Page /\ Steady(page[p], u)
    BY <1>1, Now, TimerSound, Fields DEF SoundPage
  <2>2. page'[p] = Flushing(u)
    BY <1>4, PageIs DEF SignalRetryFires
  <2> HIDE DEF u
  <2>3. Steady(u, Flushing(u))
    BY <2>1, SessionFields
  <2> QED
    BY <2>1, <2>2, <2>3 DEF Steady
<1> QED
  BY <1>3, <1>4

LEMMA EventQueue ==
  ASSUME IInv, NEW p \in Pages, EventHandled(p)
  PROVE  page'[p].retries = page[p].retries \/ (PeerLeft(p) /\ page'[p].retries = <<>>)
<1>1. page[p] \in Page
  BY Now
<1>2. CASE RoomState(p)
  <2> DEFINE q == First(p).peer
             s == [page[p] EXCEPT !.remote = q, !.reconnect = IF q = NoOne THEN FALSE ELSE @]
  <2>1. page' = [page EXCEPT ![p] = Announced(p, s)]
    BY <1>2 DEF RoomState, Becomes
  <2>2. s.retries = page[p].retries
    <3> HIDE DEF q
    <3> QED
      BY <1>1 DEF Page
  <2>3. s \in Page
    <3>1. q \in Pages \cup {NoOne}
      BY <1>2, FirstSound DEF IInv, Sound, RoomState, Handles
    <3>2. (IF q = NoOne THEN FALSE ELSE page[p].reconnect) \in BOOLEAN
      BY <1>1 DEF Page
    <3> QED
      BY <1>1, <3>1, <3>2, FieldsKept
  <2> HIDE DEF s, q
  <2>4. page'[p] = Announced(p, s)
    BY <2>1, PageIs
  <2>5. Kept(s, Announced(p, s))
    BY <2>3, SessionKept
  <2> QED
    BY <2>2, <2>4, <2>5 DEF Kept
<1>3. CASE PeerLeft(p)
  <2> DEFINE s == [page[p] EXCEPT !.remote = NoOne, !.reconnect = FALSE]
  <2>1. page'[p] = ResetSession(s)
    BY <1>3 DEF PeerLeft, Replaces
  <2>2. s \in Page
    BY <1>1, FieldsKept
  <2> HIDE DEF s
  <2> QED
    BY <1>3, <2>1, <2>2, ResetSound
<1>4. CASE ReceiveReady(p) \/ ReceiveOffer(p) \/ PeerJoined(p)
  <2>1. \E q : \/ page' = [page EXCEPT ![p] = [page[p] EXCEPT !.remote = q, !.offerReady = TRUE]]
               \/ page' = [page EXCEPT ![p] = [page[p] EXCEPT !.remote = q]]
    BY <1>4 DEF ReceiveReady, ReceiveOffer, PeerJoined, Becomes
  <2>2. PICK q : \/ page' = [page EXCEPT ![p] = [page[p] EXCEPT !.remote = q, !.offerReady = TRUE]]
                 \/ page' = [page EXCEPT ![p] = [page[p] EXCEPT !.remote = q]]
    BY <2>1
  <2>3. /\ [page[p] EXCEPT !.remote = q, !.offerReady = TRUE].retries = page[p].retries
        /\ [page[p] EXCEPT !.remote = q].retries = page[p].retries
    BY <1>1 DEF Page
  <2>4. \/ page'[p] = [page[p] EXCEPT !.remote = q, !.offerReady = TRUE]
        \/ page'[p] = [page[p] EXCEPT !.remote = q]
    BY <2>2, PageIs
  <2> QED
    BY <2>3, <2>4
<1>5. CASE ReceiveAnswer(p) \/ ReceiveCandidate(p)
  <2>1. page' = [page EXCEPT ![p] = page[p]]
        \/ \E n : page' = [page EXCEPT ![p] = [page[p] EXCEPT !.pending = n]]
    BY <1>5 DEF ReceiveAnswer, ReceiveCandidate, Becomes
  <2>2. \A n : Steady(page[p], [page[p] EXCEPT !.pending = n])
    BY <1>1, Fields
  <2>3. \E s : page' = [page EXCEPT ![p] = s] /\ Steady(page[p], s)
    BY <2>1, <2>2, SteadySelf
  <2> QED
    BY <2>3, PageIs DEF Steady
<1> QED
  BY <1>2, <1>3, <1>4, <1>5 DEF EventHandled

LEMMA OtherQueue ==
  ASSUME IInv, NEW p \in Pages,
         Resumed(p) \/ LinkUp(p) \/ PeerGone(p) \/ LinkBreaks(p) \/ ClosePage(p) \/ PeerReconnectFires(p)
  PROVE  \/ page'[p].retries = page[p].retries
         \/ (ClosePage(p) \/ PeerReconnectFires(p)) /\ page'[p].retries = <<>>
<1>1. page[p] \in Page
  BY Now
<1>2. CASE Resumed(p)
  <2>1. \E s : page' = [page EXCEPT ![p] = s] /\ Steady(page[p], s)
    BY <1>2, ResumedSteady
  <2> QED
    BY <2>1, PageIs DEF Steady
<1>3. CASE LinkUp(p)
  <2> DEFINE s == [page[p] EXCEPT !.reconnect = FALSE]
  <2>1. page' = [page EXCEPT ![p] = s]
    BY <1>3 DEF LinkUp
  <2>2. s.retries = page[p].retries
    BY <1>1 DEF Page
  <2> HIDE DEF s
  <2> QED
    BY <2>1, <2>2, PageIs
<1>4. CASE PeerGone(p) \/ LinkBreaks(p)
  <2>1. page' = [page EXCEPT ![p] = Scheduled(page[p])]
    BY <1>4 DEF PeerGone, LinkBreaks, LinkDown
  <2>2. Kept(page[p], Scheduled(page[p]))
    BY <1>1, SessionKept
  <2> QED
    BY <2>1, <2>2, PageIs DEF Kept
<1>5. CASE ClosePage(p)
  BY <1>5, CloseSession DEF NewPage
<1>6. CASE PeerReconnectFires(p)
  <2> DEFINE s == [page[p] EXCEPT !.reconnect = FALSE]
             t == AnnouncesAgain(ResetSession(s))
  <2>1. s \in Page /\ s.retries = page[p].retries
    <3>1. s \in Page
      BY <1>1, FieldsKept
    <3>2. s.retries = page[p].retries
      BY <1>1 DEF Page
    <3> QED
      BY <3>1, <3>2
  <2>2. CASE s.remote = NoOne
    <3>1. page' = [page EXCEPT ![p] = s]
      BY <1>6, <2>2 DEF PeerReconnectFires, Becomes
    <3> HIDE DEF s
    <3> QED
      BY <2>1, <3>1, PageIs
  <2>3. CASE s.remote # NoOne
    <3>1. PICK reported \in CloseReported(p) :
            page'[p] = [Announced(p, t) EXCEPT !.reconnect = reported]
      BY <1>6, <2>3 DEF PeerReconnectFires, Replaces
    <3>2. t \in Page /\ t.retries = <<>>
      <4> HIDE DEF s
      <4>1. ResetSession(s) \in Page /\ ResetSession(s).retries = <<>>
        BY <2>1, ResetSound DEF SoundPage
      <4> QED
        BY <4>1, SessionKept DEF Kept
    <3> HIDE DEF t
    <3> DEFINE u == Announced(p, t)
    <3>3. u \in Page /\ u.retries = <<>>
      BY <3>2, SessionKept DEF Kept
    <3> HIDE DEF u
    <3>4. page'[p] = [u EXCEPT !.reconnect = reported]
      BY <3>1 DEF u
    <3> QED
      BY <1>6, <3>3, <3>4 DEF Page
  <2> QED
    BY <2>2, <2>3
<1> QED
  BY <1>2, <1>3, <1>4, <1>5, <1>6

\* What the end of the post n does to the queue of its page.
LEMMA PostingQueue ==
  ASSUME IInv, NEW n \in posts, Serve(n) \/ GiveUp(n)
  PROVE  LET p == n.signal.from IN
         /\ \A s \in Range(page'[p].retries) :
              s \in Range(page[p].retries) \/ (n.by = Direct /\ s = n.signal)
         /\ n.by = Direct /\ GiveUp(n) => n.signal \in Range(page'[p].retries)
         /\ \/ Range(page[p].retries) \subseteq Range(page'[p].retries)
            \/ n.by = Direct /\ n.signal \in Range(page'[p].retries)
            \/ n.by \in Loops /\ Serve(n) /\ Seated(p) /\ n.signal.to \in Members \cup {NoOne}
<1> DEFINE p == n.signal.from
           s == page[p]
           tail == [s EXCEPT !.retries = IF s.retries = <<>> THEN <<>> ELSE Tail(@)]
           queue == Append(s.retries, n.signal)
           shorter == IF Len(queue) > QueueLimit THEN Tail(queue) ELSE queue
           ok == Seated(p) /\ (n.signal.to = NoOne \/ Seated(n.signal.to))
<1>1. p \in Pages /\ n.signal \in SignalsFrom(p) /\ n.by \in {Direct, Abandoned} \cup Loops
  BY PostTypes
<1>2. SoundPage(p, s) /\ s \in Page /\ s.retries \in Seq(SignalsFrom(p))
  BY <1>1, Now DEF SoundPage
<1>3. Range(queue) = Range(s.retries) \cup {n.signal}
  BY <1>1, <1>2, Ranges
<1>4. Range(shorter) \subseteq Range(queue) /\ n.signal \in Range(shorter)
  <2>1. queue \in Seq(SignalsFrom(p)) /\ queue # <<>> /\ Len(queue) = Len(s.retries) + 1
        /\ queue[Len(queue)] = n.signal
    BY <1>1, <1>2, AppendProperties
  <2>2. CASE Len(queue) > QueueLimit
    <3> HIDE DEF queue
    <3>1. Range(queue) = Range(Tail(queue)) \cup {Head(queue)}
      BY <2>1, Ranges
    <3>2. Len(queue) > 1
      BY <2>1, <2>2, PeerLinkAssumption
    <3>3. Len(queue) - 1 \in DOMAIN Tail(queue) /\ Tail(queue)[Len(queue) - 1] = queue[Len(queue)]
      BY <2>1, <3>2
    <3>4. n.signal \in Range(Tail(queue))
      BY <2>1, <3>3 DEF Range
    <3> QED
      BY <2>2, <3>1, <3>4
  <2>3. CASE ~(Len(queue) > QueueLimit)
    BY <1>3, <2>3
  <2> QED
    BY <2>2, <2>3
<1>5. Enqueued(s, n.signal).retries = shorter
  <2>1. Enqueued(s, n.signal) = Queueing(s, shorter, TRUE)
    BY DEF Enqueued, Queueing
  <2> HIDE DEF shorter, s
  <2> QED
    BY <1>2, <2>1 DEF Queueing, Page
<1>6. Rescheduled(s).retries = s.retries
  BY <1>2, SessionFields DEF Steady
<1>7. Flushing(tail).retries = IF s.retries = <<>> THEN <<>> ELSE Tail(s.retries)
  <2>1. tail \in Page
    BY <1>1, <1>2, TailSound DEF SoundPage
  <2>2. tail.retries = IF s.retries = <<>> THEN <<>> ELSE Tail(s.retries)
    BY <1>2 DEF Page
  <2> HIDE DEF tail
  <2> QED
    BY <2>1, <2>2, SessionFields DEF Steady
<1>8. Range(Flushing(tail).retries) \subseteq Range(s.retries)
  <2>1. CASE s.retries = <<>>
    BY <1>7, <2>1
  <2>2. CASE s.retries # <<>>
    <3>1. Range(s.retries) = Range(Tail(s.retries)) \cup {Head(s.retries)}
      BY <1>2, <2>2, Ranges
    <3> QED
      BY <1>7, <2>2, <3>1
  <2> QED
    BY <2>1, <2>2
<1> HIDE DEF shorter, tail, s
<1>9. ASSUME Serve(n)
      PROVE  /\ \A x \in Range(page'[p].retries) :
                  x \in Range(s.retries) \/ (n.by = Direct /\ x = n.signal)
             /\ \/ Range(s.retries) \subseteq Range(page'[p].retries)
                \/ n.by = Direct /\ n.signal \in Range(page'[p].retries)
                \/ n.by \in Loops /\ Serve(n) /\ Seated(p) /\ n.signal.to \in Members \cup {NoOne}
  <2>1. AfterPost(p, n, ok)
    BY <1>9 DEF Serve
  <2>2. page'[p] = CASE n.by = Abandoned -> s
                      [] n.by = Direct -> IF ok THEN s ELSE Enqueued(s, n.signal)
                      [] n.by \in Loops -> IF ok THEN Flushing(tail) ELSE Rescheduled(s)
    <3>1. page' = [page EXCEPT ![p] = CASE n.by = Abandoned -> s
                      [] n.by = Direct -> IF ok THEN s ELSE Enqueued(s, n.signal)
                      [] n.by \in Loops -> IF ok THEN Flushing(tail) ELSE Rescheduled(s)]
      BY <2>1 DEF AfterPost, s, tail
    <3> QED
      BY <1>1, <3>1, PageIs
  <2>3. ok => Seated(p) /\ n.signal.to \in Members \cup {NoOne}
    <3>1. n.signal.to \in Pages \cup {NoOne}
      BY <1>1 DEF SignalsFrom, GenuineSignal, Signal
    <3> QED
      BY <3>1 DEF Members
  <2> HIDE DEF ok
  <2>5. CASE n.by = Abandoned
    BY <2>2, <2>5, ByDistinct
  <2>6. CASE n.by = Direct
    BY <1>3, <1>4, <1>5, <2>2, <2>6, ByDistinct
  <2>7. CASE n.by \in Loops
    BY <1>6, <1>8, <1>9, <2>2, <2>3, <2>7, ByDistinct
  <2> QED
    BY <1>1, <2>5, <2>6, <2>7
<1>10. ASSUME GiveUp(n)
       PROVE  /\ \A x \in Range(page'[p].retries) :
                   x \in Range(s.retries) \/ (n.by = Direct /\ x = n.signal)
              /\ n.by = Direct => n.signal \in Range(page'[p].retries)
              /\ \/ Range(s.retries) \subseteq Range(page'[p].retries)
                 \/ n.by = Direct /\ n.signal \in Range(page'[p].retries)
  <2>1. page' = [page EXCEPT ![p] = IF n.by = Direct THEN Enqueued(s, n.signal) ELSE Rescheduled(s)]
        /\ n.by # Abandoned
    BY <1>10 DEF GiveUp, s
  <2>2. page'[p] = IF n.by = Direct THEN Enqueued(s, n.signal) ELSE Rescheduled(s)
    BY <1>1, <2>1, PageIs
  <2> QED
    BY <1>3, <1>4, <1>5, <1>6, <2>2
<1> QED
  BY <1>9, <1>10 DEF s

PostEnds(p) == \E n \in posts : n.signal.from = p /\ (Serve(n) \/ GiveUp(n))

LEMMA OwnQueue ==
  ASSUME IInv, NEW p \in Pages, PageActs(p)
  PROVE  \/ page'[p].retries = page[p].retries
         \/ PostEnds(p)
         \/ Closes(p) /\ page'[p].retries = <<>>
<1>1. Subscribe(p) \/ SignalRetryFires(p) \/ Online(p) => page'[p].retries = page[p].retries
  BY FlushQueue
<1>2. EventHandled(p) => page'[p].retries = page[p].retries \/ (Closes(p) /\ page'[p].retries = <<>>)
  BY EventQueue DEF Closes
<1>3. Resumed(p) \/ LinkUp(p) \/ PeerGone(p) \/ LinkBreaks(p) \/ ClosePage(p) \/ PeerReconnectFires(p) =>
        page'[p].retries = page[p].retries \/ (Closes(p) /\ page'[p].retries = <<>>)
  BY OtherQueue DEF Closes
<1> QED
  BY <1>1, <1>2, <1>3 DEF PageActs, Works, PostEnds

\* What is in a queue was there, or is a post that ended.
LEMMA QueueComes ==
  ASSUME IInv, [Next]_vars, NEW p \in Pages, NEW s \in Range(page'[p].retries)
  PROVE  \/ \E x \in Range(page[p].retries) : SameLook(s, x)
         \/ \E n \in posts : n.signal.from = p /\ n.by = Direct /\ s = n.signal
<1>1. CASE page'[p].retries = page[p].retries
  BY <1>1, SameLookSelf
<1>2. CASE page'[p].retries = <<>>
  BY <1>2, RangeEmpty
<1>3. ASSUME NEW n \in posts, n.signal.from = p, Serve(n) \/ GiveUp(n)
      PROVE  \/ \E x \in Range(page[p].retries) : SameLook(s, x)
             \/ n.by = Direct /\ s = n.signal
  BY <1>3, PostingQueue, SameLookSelf
<1>4. ASSUME NEW q \in Pages, PastOf(p, q)
      PROVE  \E x \in Range(page[p].retries) : SameLook(s, x)
  <2>1. page[p] \in Page /\ page[p].retries \in Seq(SignalsFrom(p))
    BY Now DEF SoundPage
  <2>2. Range(page[p].retries) \subseteq Signal
    BY <2>1, Ranges DEF SignalsFrom, GenuineSignal
  <2>3. PICK x \in Range(page[p].retries) : s = PastSignal(x, q)
    BY <1>4, <2>1, PastQueue DEF PastOf
  <2> QED
    BY <2>2, <2>3, PastSameLook
<1> QED
  BY <1>1, <1>2, <1>3, <1>4, Elsewhere, OwnQueue DEF SamePage, PostEnds

\* What is in a queue stays there, unless a post of that page ends or it is reset.
LEMMA QueueStays ==
  ASSUME IInv, [Next]_vars, NEW p \in Pages, NEW s \in Range(page[p].retries)
  PROVE  (\E x \in Range(page'[p].retries) : SameLook(x, s)) \/ PostEnds(p) \/ Closes(p)
<1>1. CASE page'[p].retries = page[p].retries
  BY <1>1, SameLookSelf
<1>2. ASSUME NEW q \in Pages, PastOf(p, q)
      PROVE  \E x \in Range(page'[p].retries) : SameLook(x, s)
  <2>1. page[p] \in Page /\ page[p].retries \in Seq(SignalsFrom(p))
    BY Now DEF SoundPage
  <2>2. Range(page[p].retries) \subseteq Signal
    BY <2>1, Ranges DEF SignalsFrom, GenuineSignal
  <2>3. PastSignal(s, q) \in Range(page'[p].retries)
    <3>1. Range(page'[p].retries) = {PastSignal(x, q) : x \in Range(page[p].retries)}
      BY <1>2, <2>1, PastQueue DEF PastOf
    <3> QED
      BY <3>1
  <2> QED
    BY <2>2, <2>3, PastSameLook
<1> QED
  BY <1>1, <1>2, Elsewhere, OwnQueue DEF SamePage

\* A post stays until it is served or given up.
LEMMA PostsStay ==
  ASSUME IInv, [Next]_vars, NEW m \in posts
  PROVE  \/ Serve(m) \/ GiveUp(m)
         \/ \E x \in posts' : SameLook(x.signal, m.signal) /\ x.by \in {m.by, Abandoned}
<1>1. CASE m \in posts'
  BY <1>1, SameLookSelf
<1>2. m \in GenuinePost /\ m \in Post /\ m.signal \in Signal
  BY PostTypes DEF GenuinePost, Post
<1>3. ASSUME NEW p \in Pages, PastPosts(p) \subseteq posts'
      PROVE  \E x \in posts' : SameLook(x.signal, m.signal) /\ x.by \in {m.by, Abandoned}
  <2>1. PastPost(m, p) \in posts' /\ PastPost(m, p).signal = PastSignal(m.signal, p)
        /\ PastPost(m, p).by = m.by
    BY <1>2, <1>3 DEF PastPosts, PastPost, Post
  <2> QED
    BY <1>2, <2>1, PastSameLook
<1>4. ASSUME NEW p \in Pages, ClosePage(p)
      PROVE  \E x \in posts' : SameLook(x.signal, m.signal) /\ x.by \in {m.by, Abandoned}
  <2> DEFINE n == PastPost(m, p)
             x == IF n.signal.from = p THEN [n EXCEPT !.by = Abandoned] ELSE n
  <2>1. n \in PastPosts(p) /\ n.signal = PastSignal(m.signal, p) /\ n.by = m.by
    BY <1>2 DEF PastPosts, PastPost, Post
  <2>2. x \in posts'
    BY <1>4, <2>1 DEF ClosePage
  <2>3. n \in Post
    BY <2>1, PastPostsSound DEF GenuinePost
  <2>4. x.signal = n.signal /\ x.by \in {n.by, Abandoned}
    <3> HIDE DEF n
    <3> QED
      BY <2>3 DEF Post
  <2> QED
    BY <1>2, <2>1, <2>2, <2>4, PastSameLook
<1>5. ASSUME NEW p \in Pages, PeerReconnectFires(p)
      PROVE  m \in posts' \/ PastPosts(p) \subseteq posts'
  <2> DEFINE s == [page[p] EXCEPT !.reconnect = FALSE]
  <2>1. s.remote = NoOne => posts' = posts \cup {}
    BY <1>5 DEF PeerReconnectFires, Becomes
  <2>2. s.remote # NoOne => posts' = PastPosts(p) \cup Announcement(p, AnnouncesAgain(ResetSession(s)))
    BY <1>5 DEF PeerReconnectFires
  <2> QED
    BY <2>1, <2>2
<1>6. ASSUME NEW p \in Pages, EventHandled(p)
      PROVE  m \in posts' \/ PastPosts(p) \subseteq posts'
  <2>1. CASE PeerLeft(p)
    BY <2>1 DEF PeerLeft
  <2>2. CASE ~PeerLeft(p)
    <3>1. \E s, c, P : Becomes(p, s, c, P)
      BY <1>6, <2>2 DEF EventHandled, RoomState, PeerJoined, ReceiveReady, ReceiveOffer, ReceiveAnswer,
           ReceiveCandidate
    <3> QED
      BY <3>1 DEF Becomes
  <2> QED
    BY <2>1, <2>2
<1>7. ASSUME NEW p \in Pages, Subscribe(p) \/ SignalRetryFires(p) \/ Online(p)
      PROVE  m \in posts'
  BY <1>7 DEF Subscribe, SignalRetryFires, Online
<1>8. ASSUME NEW p \in Pages, LinkUp(p) \/ PeerGone(p) \/ LinkBreaks(p)
      PROVE  m \in posts'
  BY <1>8 DEF LinkUp, PeerGone, LinkBreaks, LinkDown
<1>9. ASSUME NEW p \in Pages, OfferMade(p) \/ RemoteDescribed(p) \/ AnswerMade(p)
      PROVE  m \in posts'
  BY <1>9 DEF OfferMade, RemoteDescribed, AnswerMade, Apply, GoesOn
<1>10. ASSUME NEW p \in Pages, NEW t \in tasks[p], KeyDerived(p, t) \/ PostDescription(p, t)
       PROVE  m \in posts'
  BY <1>10 DEF KeyDerived, PostDescription, GoesOn
<1>11. ASSUME NEW n \in posts, n # m, Serve(n) \/ GiveUp(n)
       PROVE  m \in posts'
  BY <1>11 DEF Serve, AfterPost, GiveUp
<1>12. CASE StreamLost \/ \E g \in Guests : Join(g)
  BY <1>1, <1>12 DEF StreamLost, Join
<1>13. CASE UNCHANGED vars
  BY <1>1, <1>13 DEF vars
<1> QED
  BY <1>1, <1>3, <1>4, <1>5, <1>6, <1>7, <1>8, <1>9, <1>10, <1>11, <1>12, <1>13
     DEF Next, Works, Resumed

-----------------------------------------------------------------------------
(* What the steps do to the streams *)

Look(x, e) ==
  /\ x.type = e.type /\ Subject(x) = Subject(e)
  /\ e.type = "signal" => SameLook(x.signal, e.signal)
Similar(a, b) == DOMAIN a = DOMAIN b /\ \A i \in DOMAIN a : Look(a[i], b[i])

\* The event e of the step for the stream of q.
News(q, e) ==
  \/ q = Owner /\ \E g \in Guests : Join(g) /\ e = About("peer-joined", g)
  \/ \E m \in posts : /\ Serve(m) /\ Seated(m.signal.from) /\ m.signal.from # q
                      /\ m.signal.to \in {NoOne, q} /\ e = Carrying(m.signal)
  \/ \E p \in Pages \ {q} : ClosePage(p) /\ Seated(p) /\ e = About("peer-left", p)

StreamStep(q) ==
  \/ Similar(inbox'[q], inbox[q])
  \/ EventHandled(q) /\ inbox[q] # <<>> /\ Similar(inbox'[q], Tail(inbox[q]))
  \/ \E e : News(q, e) /\ life[q] = "streaming" /\ Similar(inbox'[q], Append(inbox[q], e))
  \/ Subscribe(q) /\ life[q] = "joined" /\ inbox'[q] = <<About("room-state", Other(q))>>
  \/ ((q = Owner /\ StreamLost) \/ ClosePage(q)) /\ inbox'[q] = <<>>

LEMMA LookSelf == \A e : Look(e, e)
BY SameLookSelf DEF Look

LEMMA SimilarSelf == \A a : Similar(a, a)
BY LookSelf DEF Similar

LEMMA SimilarPast ==
  ASSUME NEW q \in Pages, NEW p \in Pages, NEW events \in Seq(EventsFor(q))
  PROVE  Similar(PastInbox(events, p), events)
<1>1. ASSUME NEW e \in EventsFor(q)
      PROVE  Look(PastEvent(e, p), e)
  BY <1>1, PastLooks, PastSameLook DEF Look
<1>2. \A i \in DOMAIN events : events[i] \in EventsFor(q)
  BY ElementOfSeq, LenProperties
<1> QED
  BY <1>1, <1>2, PastRanges DEF Similar

LEMMA HandledStream ==
  ASSUME IInv, NEW p \in Pages, EventHandled(p), NEW q \in Pages
  PROVE  StreamStep(q) /\ (q = p => inbox[p] # <<>> /\ Similar(inbox'[p], Tail(inbox[p])))
<1>1. inbox[p] # <<>> /\ inbox[q] \in Seq(EventsFor(q))
  BY Now DEF EventHandled, RoomState, PeerJoined, PeerLeft, ReceiveReady, ReceiveOffer, ReceiveAnswer,
     ReceiveCandidate, Receives, Handles
<1>2. Tail(inbox[p]) \in Seq(EventsFor(p))
  BY <1>1, FirstSound DEF IInv, Sound
<1>3. CASE PeerLeft(p)
  <2>1. inbox'[q] = PastInbox(IF q = p THEN Tail(inbox[q]) ELSE inbox[q], p)
    BY <1>3 DEF PeerLeft
  <2> QED
    BY <1>1, <1>2, <2>1, SimilarPast DEF StreamStep
<1>4. CASE ~PeerLeft(p)
  <2>1. Handles(p)
    BY <1>4 DEF EventHandled, RoomState, PeerJoined, ReceiveReady, ReceiveOffer, ReceiveAnswer,
         ReceiveCandidate, Receives
  <2>2. inbox'[q] = IF q = p THEN Tail(inbox[q]) ELSE inbox[q]
    <3>1. inbox' = [inbox EXCEPT ![p] = Tail(inbox[p])] /\ OnPages(inbox)
      BY <2>1 DEF Handles, IInv, Sound, SoundInboxes
    <3> QED
      BY <3>1, Updated
  <2> QED
    BY <1>1, <2>2, SimilarSelf DEF StreamStep
<1> QED
  BY <1>3, <1>4

LEMMA ToldStream ==
  ASSUME NEW q \in Pages, NEW P, NEW e
  PROVE  Told(e, P)[q] = IF q \in P /\ life[q] = "streaming" THEN Append(inbox[q], e) ELSE inbox[q]
BY DEF Told

LEMMA ServedStream ==
  ASSUME IInv, NEW m \in posts, Serve(m), NEW q \in Pages
  PROVE  /\ StreamStep(q)
         /\ Seated(m.signal.from) /\ (m.signal.to = NoOne \/ Seated(m.signal.to))
            /\ life[q] = "streaming" /\ q # m.signal.from /\ m.signal.to \in {NoOne, q} =>
              Carrying(m.signal) \in Range(inbox'[q])
<1> DEFINE to == m.signal.to
           ok == Seated(m.signal.from) /\ (to = NoOne \/ Seated(to))
           addressees == {r \in Others(m.signal.from) : to \in {NoOne, r}}
<1>1. inbox' = IF ok THEN Told(Carrying(m.signal), addressees) ELSE inbox
  BY DEF Serve
<1>2. q \in addressees <=> Seated(q) /\ q # m.signal.from /\ to \in {NoOne, q}
  BY DEF Others, Members
<1>3. inbox'[q] = IF ok /\ q \in addressees /\ life[q] = "streaming"
                  THEN Append(inbox[q], Carrying(m.signal)) ELSE inbox[q]
  <2> HIDE DEF ok, addressees
  <2> QED
    BY <1>1, ToldStream
<1>4. CASE ok /\ q \in addressees /\ life[q] = "streaming"
  <2>1. News(q, Carrying(m.signal))
    BY <1>2, <1>4 DEF News
  <2>2. Carrying(m.signal) \in Range(Append(inbox[q], Carrying(m.signal)))
    <3> DEFINE S == EventsFor(q) \cup {Carrying(m.signal)}
    <3>1. inbox[q] \in Seq(S)
      BY Now, SeqSubset
    <3> QED
      BY <3>1, Ranges
  <2> QED
    BY <1>3, <1>4, <2>1, <2>2, SimilarSelf DEF StreamStep
<1>5. CASE ~(ok /\ q \in addressees /\ life[q] = "streaming")
  BY <1>2, <1>3, <1>5, SimilarSelf DEF StreamStep, Seated
<1> QED
  BY <1>4, <1>5

LEMMA ClosedStream ==
  ASSUME IInv, NEW p \in Pages, ClosePage(p), NEW q \in Pages
  PROVE  StreamStep(q)
<1>1. CASE q = p
  <2>1. inbox'[q] = <<>>
    BY <1>1 DEF ClosePage
  <2> QED
    BY <1>1, <2>1 DEF StreamStep
<1>2. CASE q # p
  <2> DEFINE e == About("peer-left", p)
             told == IF Seated(p) THEN Told(e, Pages \ {p}) ELSE inbox
  <2>1. inbox'[q] = PastInbox(told[q], p)
    BY <1>2 DEF ClosePage
  <2>2. e \in EventsFor(q) /\ inbox[q] \in Seq(EventsFor(q))
    BY AboutSound, Now
  <2>3. told[q] = IF Seated(p) /\ life[q] = "streaming" THEN Append(inbox[q], e) ELSE inbox[q]
    <3> HIDE DEF e
    <3> QED
      BY <1>2, ToldStream
  <2> HIDE DEF told
  <2>4. CASE Seated(p) /\ life[q] = "streaming"
    <3>1. Append(inbox[q], e) \in Seq(EventsFor(q))
      BY <2>2, AppendProperties
    <3>2. Similar(inbox'[q], Append(inbox[q], e))
      BY <2>1, <2>3, <2>4, <3>1, SimilarPast
    <3>3. News(q, e)
      BY <1>2, <2>4 DEF News
    <3> QED
      BY <2>4, <3>2, <3>3 DEF StreamStep
  <2>5. CASE ~(Seated(p) /\ life[q] = "streaming")
    BY <2>1, <2>2, <2>3, <2>5, SimilarPast DEF StreamStep
  <2> QED
    BY <2>4, <2>5
<1> QED
  BY <1>1, <1>2

LEMMA ReconnectStream ==
  ASSUME IInv, NEW p \in Pages, PeerReconnectFires(p), NEW q \in Pages
  PROVE  StreamStep(q)
<1>1. inbox'[q] = inbox[q] \/ inbox'[q] = PastInbox(inbox[q], p)
  <2> DEFINE s == [page[p] EXCEPT !.reconnect = FALSE]
  <2>1. s.remote = NoOne => UNCHANGED inbox
    BY DEF PeerReconnectFires
  <2>2. s.remote # NoOne => inbox' = [r \in Pages |-> PastInbox(inbox[r], p)]
    BY DEF PeerReconnectFires
  <2> HIDE DEF s
  <2> QED
    BY <2>1, <2>2
<1>2. inbox[q] \in Seq(EventsFor(q))
  BY Now
<1> QED
  BY <1>1, <1>2, SimilarPast, SimilarSelf DEF StreamStep

\* What a step does to the stream of a page.
LEMMA StreamSteps ==
  ASSUME IInv, [Next]_vars, NEW q \in Pages
  PROVE  StreamStep(q)
<1>1. UNCHANGED inbox => StreamStep(q)
  BY SimilarSelf DEF StreamStep
<1>2. OnPages(inbox)
  BY DEF IInv, Sound, SoundInboxes
<1>3. ASSUME NEW g \in Guests, Join(g)
      PROVE  StreamStep(q)
  <2>1. inbox'[q] = IF q = Owner /\ life[q] = "streaming" THEN Append(inbox[q], About("peer-joined", g))
                    ELSE inbox[q]
    BY <1>3, ToldStream DEF Join
  <2>2. q = Owner => News(q, About("peer-joined", g))
    BY <1>3 DEF News
  <2> QED
    BY <2>1, <2>2, SimilarSelf DEF StreamStep
<1>4. CASE StreamLost
  <2>1. inbox'[q] = IF q = Owner THEN <<>> ELSE inbox[q]
    <3>1. inbox' = [inbox EXCEPT ![Owner] = <<>>]
      BY <1>4 DEF StreamLost
    <3> QED
      BY <1>2, <3>1, Updated, Distinct
  <2> QED
    BY <1>4, <2>1, SimilarSelf DEF StreamStep
<1>5. ASSUME NEW p \in Pages, Subscribe(p)
      PROVE  StreamStep(q)
  <2>1. inbox'[q] = IF q = p THEN <<About("room-state", Other(p))>> ELSE inbox[q]
    BY <1>2, <1>5, Updated DEF Subscribe
  <2>2. life[p] = "joined"
    BY <1>5 DEF Subscribe
  <2> QED
    BY <1>5, <2>1, <2>2, SimilarSelf DEF StreamStep
<1>6. ASSUME NEW p \in Pages,
             SignalRetryFires(p) \/ Online(p) \/ LinkUp(p) \/ PeerGone(p) \/ LinkBreaks(p)
             \/ OfferMade(p) \/ RemoteDescribed(p) \/ AnswerMade(p)
      PROVE  UNCHANGED inbox
  BY <1>6 DEF SignalRetryFires, Online, LinkUp, PeerGone, LinkBreaks, LinkDown, OfferMade, RemoteDescribed,
     AnswerMade, Apply, GoesOn
<1>7. ASSUME NEW p \in Pages, NEW t \in tasks[p], KeyDerived(p, t) \/ PostDescription(p, t)
      PROVE  UNCHANGED inbox
  BY <1>7 DEF KeyDerived, PostDescription, GoesOn
<1>8. ASSUME NEW m \in posts, GiveUp(m)
      PROVE  UNCHANGED inbox
  BY <1>8 DEF GiveUp
<1>9. CASE UNCHANGED vars
  BY <1>1, <1>9 DEF vars
<1> QED
  BY <1>1, <1>3, <1>4, <1>5, <1>6, <1>7, <1>8, <1>9, HandledStream, ServedStream, ClosedStream,
     ReconnectStream DEF Next, Works, Resumed

\* Where an event of the next state comes from.
LEMMA EventsCome ==
  ASSUME IInv, [Next]_vars, NEW q \in Pages, NEW e \in Range(inbox'[q])
  PROVE  \/ \E x \in Range(inbox[q]) : Look(e, x)
         \/ \E n : News(q, n) /\ life[q] = "streaming" /\ Look(e, n)
         \/ Subscribe(q) /\ life[q] = "joined" /\ e = About("room-state", Other(q))
<1>1. inbox[q] \in Seq(EventsFor(q))
  BY Now
<1>2. ASSUME NEW a, Similar(inbox'[q], a)
      PROVE  \E x \in Range(a) : Look(e, x)
  BY <1>2 DEF Similar, Range
<1>3. ASSUME inbox[q] # <<>>
      PROVE  Range(Tail(inbox[q])) \subseteq Range(inbox[q])
  BY <1>1, <1>3, Ranges
<1>4. ASSUME NEW n
      PROVE  Range(Append(inbox[q], n)) = Range(inbox[q]) \cup {n}
  <2> DEFINE S == EventsFor(q) \cup {n}
  <2>1. inbox[q] \in Seq(S)
    BY <1>1, SeqSubset
  <2> QED
    BY <2>1, Ranges
<1>5. Range(<<About("room-state", Other(q))>>) = {About("room-state", Other(q))}
  BY DEF Range
<1> QED
  BY <1>2, <1>3, <1>4, <1>5, StreamSteps, RangeEmpty DEF StreamStep

\* What is in a stream stays there until it is handled.
LEMMA EventsStay ==
  ASSUME IInv, [Next]_vars, NEW q \in Pages, NEW e \in Range(inbox[q])
  PROVE  \/ \E x \in Range(inbox'[q]) : Look(x, e)
         \/ EventHandled(q) /\ e = First(q)
         \/ Subscribe(q) /\ life[q] = "joined"
         \/ q = Owner /\ StreamLost
         \/ ClosePage(q)
<1>1. inbox[q] \in Seq(EventsFor(q))
  BY Now
<1>2. ASSUME NEW a, Similar(inbox'[q], a), e \in Range(a)
      PROVE  \E x \in Range(inbox'[q]) : Look(x, e)
  BY <1>2 DEF Similar, Range
<1>3. ASSUME inbox[q] # <<>>
      PROVE  e \in Range(Tail(inbox[q])) \/ e = First(q)
  BY <1>1, <1>3, Ranges DEF First
<1>4. ASSUME NEW n
      PROVE  e \in Range(Append(inbox[q], n))
  <2> DEFINE S == EventsFor(q) \cup {n}
  <2>1. inbox[q] \in Seq(S)
    BY <1>1, SeqSubset
  <2> QED
    BY <2>1, Ranges
<1> QED
  BY <1>2, <1>3, <1>4, StreamSteps DEF StreamStep

\* Two events of a stream were there in the same order, or the second is new.
LEMMA EventsInTurn ==
  ASSUME IInv, [Next]_vars, NEW q \in Pages,
         NEW i \in DOMAIN inbox'[q], NEW j \in DOMAIN inbox'[q], i < j
  PROVE  \/ \E k, l \in DOMAIN inbox[q] :
              k < l /\ Look(inbox'[q][i], inbox[q][k]) /\ Look(inbox'[q][j], inbox[q][l])
         \/ \E n : News(q, n) /\ life[q] = "streaming" /\ Look(inbox'[q][j], n)
<1>1. inbox[q] \in Seq(EventsFor(q)) /\ DOMAIN inbox[q] = 1..Len(inbox[q]) /\ Len(inbox[q]) \in Nat
  BY Now, LenProperties
<1>2. CASE Similar(inbox'[q], inbox[q])
  BY <1>2 DEF Similar
<1>3. CASE inbox[q] # <<>> /\ Similar(inbox'[q], Tail(inbox[q]))
  <2>1. DOMAIN Tail(inbox[q]) = 1..(Len(inbox[q]) - 1)
        /\ \A k \in DOMAIN Tail(inbox[q]) : Tail(inbox[q])[k] = inbox[q][k + 1]
    BY <1>1, <1>3
  <2>2. i \in 1..(Len(inbox[q]) - 1) /\ j \in 1..(Len(inbox[q]) - 1)
    BY <1>3, <2>1 DEF Similar
  <2>3. i + 1 \in DOMAIN inbox[q] /\ j + 1 \in DOMAIN inbox[q] /\ i + 1 < j + 1
    BY <1>1, <2>2
  <2>4. Look(inbox'[q][i], inbox[q][i + 1]) /\ Look(inbox'[q][j], inbox[q][j + 1])
    BY <1>3, <2>1, <2>2 DEF Similar
  <2> QED
    BY <2>3, <2>4
<1>4. ASSUME NEW n, News(q, n), life[q] = "streaming", Similar(inbox'[q], Append(inbox[q], n))
      PROVE  \/ \E k, l \in DOMAIN inbox[q] :
                  k < l /\ Look(inbox'[q][i], inbox[q][k]) /\ Look(inbox'[q][j], inbox[q][l])
             \/ Look(inbox'[q][j], n)
  <2>1. DOMAIN Append(inbox[q], n) = 1..(Len(inbox[q]) + 1)
        /\ (\A k \in DOMAIN inbox[q] : Append(inbox[q], n)[k] = inbox[q][k])
        /\ Append(inbox[q], n)[Len(inbox[q]) + 1] = n
    <3> DEFINE S == EventsFor(q) \cup {n}
    <3>1. inbox[q] \in Seq(S)
      BY <1>1, SeqSubset
    <3> QED
      BY <1>1, <3>1
  <2>2. i \in 1..(Len(inbox[q]) + 1) /\ j \in 1..(Len(inbox[q]) + 1)
    BY <1>4, <2>1 DEF Similar
  <2>3. i \in DOMAIN inbox[q] /\ (j \in DOMAIN inbox[q] \/ j = Len(inbox[q]) + 1)
    BY <1>1, <2>2
  <2>4. Look(inbox'[q][i], inbox[q][i])
    BY <1>4, <2>1, <2>3 DEF Similar
  <2>5. j \in DOMAIN inbox[q] => Look(inbox'[q][j], inbox[q][j])
    BY <1>4, <2>1 DEF Similar
  <2>6. j = Len(inbox[q]) + 1 => Look(inbox'[q][j], n)
    BY <1>4, <2>1 DEF Similar
  <2> QED
    BY <2>3, <2>4, <2>5, <2>6
<1>5. CASE inbox'[q] = <<About("room-state", Other(q))>> \/ inbox'[q] = <<>>
  <2>1. DOMAIN inbox'[q] \subseteq {1}
    BY <1>5
  <2> QED
    BY <2>1
<1> QED
  BY <1>2, <1>3, <1>4, <1>5, StreamSteps DEF StreamStep

\* What a step does to the life of a page.
LifeStep(p) ==
  \/ life'[p] = life[p]
  \/ p \in Guests /\ Join(p) /\ life[p] = "new" /\ life'[p] = "joined"
  \/ Subscribe(p) /\ life[p] = "joined" /\ life'[p] = "streaming"
  \/ StreamLost /\ p = Owner /\ life[p] = "streaming" /\ life'[p] = "joined"
  \/ ClosePage(p) /\ life[p] # "new" /\ life'[p] = "gone"

LEMMA LifeSteps ==
  ASSUME IInv, [Next]_vars, NEW p \in Pages
  PROVE  LifeStep(p)
<1>1. UNCHANGED life => LifeStep(p)
  BY DEF LifeStep
<1>2. OnPages(life)
  BY DEF IInv, Sound, SoundLives, OnPages
<1>3. ASSUME NEW g \in Guests, Join(g)
      PROVE  LifeStep(p)
  <2>1. life' = [life EXCEPT ![g] = "joined"] /\ life[g] = "new"
    BY <1>3 DEF Join
  <2>2. life'[p] = IF p = g THEN "joined" ELSE life[p]
    BY <1>2, <2>1, Updated, Distinct
  <2> QED
    BY <1>3, <2>1, <2>2 DEF LifeStep
<1>4. CASE StreamLost
  <2>1. life' = [life EXCEPT ![Owner] = "joined"] /\ life[Owner] = "streaming"
    BY <1>4 DEF StreamLost
  <2>2. life'[p] = IF p = Owner THEN "joined" ELSE life[p]
    BY <1>2, <2>1, Updated, Distinct
  <2> QED
    BY <1>4, <2>1, <2>2 DEF LifeStep
<1>5. ASSUME NEW q \in Pages, Subscribe(q)
      PROVE  LifeStep(p)
  <2>1. life' = [life EXCEPT ![q] = "streaming"] /\ life[q] = "joined"
    BY <1>5 DEF Subscribe
  <2>2. life'[p] = IF p = q THEN "streaming" ELSE life[p]
    BY <1>2, <2>1, Updated
  <2> QED
    BY <1>5, <2>1, <2>2 DEF LifeStep
<1>6. ASSUME NEW q \in Pages, ClosePage(q)
      PROVE  LifeStep(p)
  <2>1. life' = [life EXCEPT ![q] = "gone"] /\ life[q] # "new"
    BY <1>6 DEF ClosePage
  <2>2. life'[p] = IF p = q THEN "gone" ELSE life[p]
    BY <1>2, <2>1, Updated
  <2> QED
    BY <1>6, <2>1, <2>2 DEF LifeStep
<1>7. ASSUME NEW q \in Pages, EventHandled(q) \/ PeerReconnectFires(q)
      PROVE  UNCHANGED life
  BY <1>7 DEF EventHandled, RoomState, PeerJoined, PeerLeft, ReceiveReady, ReceiveOffer, ReceiveAnswer,
     ReceiveCandidate, Becomes, PeerReconnectFires
<1>8. ASSUME NEW q \in Pages,
             SignalRetryFires(q) \/ Online(q) \/ LinkUp(q) \/ PeerGone(q) \/ LinkBreaks(q)
             \/ OfferMade(q) \/ RemoteDescribed(q) \/ AnswerMade(q)
      PROVE  UNCHANGED life
  BY <1>8 DEF SignalRetryFires, Online, LinkUp, PeerGone, LinkBreaks, LinkDown, OfferMade, RemoteDescribed,
     AnswerMade, Apply, GoesOn
<1>9. ASSUME NEW q \in Pages, NEW t \in tasks[q], KeyDerived(q, t) \/ PostDescription(q, t)
      PROVE  UNCHANGED life
  BY <1>9 DEF KeyDerived, PostDescription, GoesOn
<1>10. ASSUME NEW m \in posts, Serve(m) \/ GiveUp(m)
       PROVE  UNCHANGED life
  BY <1>10 DEF Serve, GiveUp
<1>11. UNCHANGED vars => UNCHANGED life
  BY DEF vars
<1> QED
  BY <1>1, <1>3, <1>4, <1>5, <1>6, <1>7, <1>8, <1>9, <1>10, <1>11 DEF Next, Works, Resumed

\* The sender is never seated again, a recipient by its join only.
LEMMA Seats ==
  ASSUME IInv, [Next]_vars
  PROVE  /\ Seated(Owner)' => Seated(Owner)
         /\ \A g \in Guests : Seated(g)' => Seated(g) \/ (Join(g) /\ \A h \in Guests : ~Seated(h))
         /\ \A g \in Guests : Stays(g)' => Stays(g) \/ (Subscribe(g) /\ life[g] = "joined" /\ Seated(Owner))
<1>1. Seated(Owner)' => Seated(Owner)
  <2>1. LifeStep(Owner) /\ Owner \notin Guests
    BY LifeSteps, Distinct
  <2> QED
    BY <2>1 DEF LifeStep, Seated
<1>2. ASSUME NEW g \in Guests
      PROVE  /\ Seated(g)' => Seated(g) \/ (Join(g) /\ \A h \in Guests : ~Seated(h))
             /\ Stays(g)' => Stays(g) \/ (Subscribe(g) /\ life[g] = "joined" /\ Seated(Owner))
  <2>1. LifeStep(g) /\ g \in Pages /\ g # Owner
    BY LifeSteps, Distinct
  <2>2. Join(g) => \A h \in Guests : ~Seated(h)
    BY DEF Join
  <2>3. Seated(g)' => Seated(g) \/ Join(g)
    BY <2>1 DEF LifeStep, Seated
  <2>4. Stays(g)' => Stays(g) \/ (Subscribe(g) /\ life[g] = "joined" /\ Seated(Owner))
    BY <1>1, <2>1 DEF LifeStep, Stays
  <2> QED
    BY <2>2, <2>3, <2>4
<1> QED
  BY <1>1, <1>2

LEMMA OtherIs ==
  ASSUME NEW p
  PROVE  /\ Other(p) = NoOne \/ (Seated(Other(p)) /\ Other(p) # p /\ Other(p) \in Pages)
         /\ \A q \in Pages \ {p} : Seated(q) => Other(p) # NoOne
<1>1. CASE Others(p) = {}
  BY <1>1 DEF Other, Others, Members
<1>2. CASE Others(p) # {}
  <2>1. Other(p) \in Others(p)
    BY <1>2 DEF Other
  <2> QED
    BY <2>1, Distinct DEF Others, Members
<1> QED
  BY <1>1, <1>2

-----------------------------------------------------------------------------
(* What the steps do to the connections and to what the pages await *)

\* The page replaces its connection.
Resets(p) == ClosePage(p) \/ PeerLeft(p) \/ (PeerReconnectFires(p) /\ page[p].remote # NoOne)

\* An operation is added at the end, or none, and the descriptions stay.
Grown(p, c, d) ==
  /\ d.local = c.local /\ d.remote = c.remote
  /\ d.ops = c.ops \/ \E o : /\ o.op = "remote" \/ (p = Owner /\ o.op = "offer")
                             /\ d.ops = Append(c.ops, o)

LEMMA GrownSelf == \A p, c : Grown(p, c, c)
BY DEF Grown

LEMMA EnsuredSame ==
  ASSUME NEW p \in Pages, NEW s, NEW c
  PROVE  LET d == Ensured(p, s, c) IN
         /\ d.local = c.local /\ d.remote = c.remote /\ d.ops = c.ops
         /\ s.remote # NoOne => d # NoConnection
BY Distinct DEF Ensured, NoConnection, NewConnection

LEMMA OpsAppended ==
  ASSUME NEW c \in Connection, NEW o
  PROVE  LET d == [c EXCEPT !.ops = Append(c.ops, o)] IN
         d.local = c.local /\ d.remote = c.remote /\ d.ops = Append(c.ops, o) /\ d.id = c.id
BY Zenon DEF Connection

LEMMA OfferingGrown ==
  ASSUME NEW p \in Pages, NEW s, NEW c \in Connection
  PROVE  /\ Grown(p, c, Offering(p, s, c))
         /\ p = Owner /\ s.offerReady /\ c # NoConnection /\ c.local = NoDescription =>
              Offering(p, s, c).ops = Append(c.ops, [op |-> "offer", signal |-> Ready(p, s.remote)])
<1> DEFINE o == [op |-> "offer", signal |-> Ready(p, s.remote)]
           d == [c EXCEPT !.ops = Append(c.ops, o)]
<1>1. o.op = "offer"
  OBVIOUS
<1>2. Offering(p, s, c) = IF /\ p = Owner /\ s.offerReady
                             /\ c # NoConnection /\ c.local = NoDescription
                          THEN d ELSE c
  BY DEF Offering
<1> HIDE DEF o
<1>3. d.local = c.local /\ d.remote = c.remote /\ d.ops = Append(c.ops, o)
  BY OpsAppended
<1> HIDE DEF d
<1>4. p = Owner => Grown(p, c, d)
  BY <1>1, <1>3 DEF Grown
<1> QED
  BY <1>2, <1>3, <1>4, GrownSelf DEF o

LEMMA ApplyingGrown ==
  ASSUME NEW p \in Pages, NEW signal, NEW c \in Connection
  PROVE  /\ Grown(p, c, Applying(c, signal))
         /\ c # NoConnection /\ signal.body # NoDescription =>
              Applying(c, signal).ops = Append(c.ops, [op |-> "remote", signal |-> signal])
<1> DEFINE o == [op |-> "remote", signal |-> signal]
           d == [c EXCEPT !.ops = Append(c.ops, o)]
<1>1. o.op = "remote"
  OBVIOUS
<1>2. Applying(c, signal) = IF c = NoConnection \/ signal.body = NoDescription THEN c ELSE d
  BY DEF Applying
<1> HIDE DEF o
<1>3. d.local = c.local /\ d.remote = c.remote /\ d.ops = Append(c.ops, o)
  BY OpsAppended
<1> HIDE DEF d
<1>4. Grown(p, c, d)
  BY <1>1, <1>3 DEF Grown
<1> QED
  BY <1>2, <1>3, <1>4, GrownSelf DEF o

LEMMA ConnectionIs ==
  ASSUME IInv, NEW p \in Pages, NEW c, conn' = [conn EXCEPT ![p] = c]
  PROVE  conn'[p] = c
BY Updated DEF IInv, Sound, SoundConnections

LEMMA EventConnection ==
  ASSUME IInv, NEW p \in Pages, EventHandled(p), ~PeerLeft(p)
  PROVE  Grown(p, conn[p], conn'[p]) /\ tasks'[p] = tasks[p]
<1> DEFINE c == conn[p]
<1>1. SoundConnection(p, c) /\ c \in Connection
  BY Now DEF SoundConnection
<1>2. ASSUME NEW s
      PROVE  LET e == Ensured(p, s, c) IN
             /\ e \in Connection
             /\ \A d : Grown(p, e, d) => Grown(p, c, d)
  <2>1. Ensured(p, s, c) \in Connection
    BY <1>1, EnsuredSound DEF SoundConnection
  <2> QED
    BY <2>1, EnsuredSame DEF Grown
<1>3. ASSUME NEW s, NEW t, NEW P, Becomes(p, t, Offering(p, s, Ensured(p, s, c)), P)
      PROVE  Grown(p, c, conn'[p])
  <2>1. conn'[p] = Offering(p, s, Ensured(p, s, c))
    BY <1>3, ConnectionIs DEF Becomes
  <2>2. Grown(p, Ensured(p, s, c), Offering(p, s, Ensured(p, s, c)))
    BY <1>2, OfferingGrown
  <2> QED
    BY <1>2, <2>1, <2>2
<1>4. CASE RoomState(p) \/ PeerJoined(p) \/ ReceiveReady(p)
  <2>1. \E s, t, P : Becomes(p, t, Offering(p, s, Ensured(p, s, c)), P)
    BY <1>4 DEF RoomState, PeerJoined, ReceiveReady
  <2> QED
    BY <1>3, <2>1 DEF Becomes
<1>5. CASE ReceiveOffer(p)
  <2>1. PICK s, t, signal : Becomes(p, t, Applying(Ensured(p, s, c), signal), {})
    BY <1>5 DEF ReceiveOffer
  <2>2. conn'[p] = Applying(Ensured(p, s, c), signal)
    BY <2>1, ConnectionIs DEF Becomes
  <2>3. Grown(p, Ensured(p, s, c), Applying(Ensured(p, s, c), signal))
    BY <1>2, ApplyingGrown
  <2>4. UNCHANGED tasks
    BY <2>1 DEF Becomes
  <2> QED
    BY <1>2, <2>2, <2>3, <2>4
<1>6. CASE ReceiveAnswer(p)
  <2>1. PICK t, signal : Becomes(p, t, Applying(c, signal), {})
    BY <1>6 DEF ReceiveAnswer
  <2>2. conn'[p] = Applying(c, signal) /\ UNCHANGED tasks
    BY <2>1, ConnectionIs DEF Becomes
  <2> QED
    BY <1>1, <2>2, ApplyingGrown
<1>7. CASE ReceiveCandidate(p)
  <2>1. \E t : Becomes(p, t, c, {}) \/ Becomes(p, t, [c EXCEPT !.reachable = TRUE], {})
    BY <1>7 DEF ReceiveCandidate
  <2>2. UNCHANGED tasks /\ (conn'[p] = c \/ conn'[p] = [c EXCEPT !.reachable = TRUE])
    BY <2>1, ConnectionIs DEF Becomes
  <2>3. Grown(p, c, [c EXCEPT !.reachable = TRUE])
    <3>1. LET d == [c EXCEPT !.reachable = TRUE] IN
          d.local = c.local /\ d.remote = c.remote /\ d.ops = c.ops
      BY <1>1, Zenon DEF Connection
    <3> QED
      BY <3>1 DEF Grown
  <2> QED
    BY <2>2, <2>3, GrownSelf
<1> QED
  BY <1>4, <1>5, <1>6, <1>7 DEF EventHandled

\* The sender, told that a recipient is ready, begins an offer unless it has one.
LEMMA ReadyAnswered ==
  ASSUME IInv, ReceiveReady(Owner), conn[Owner].local = NoDescription
  PROVE  /\ page'[Owner].remote = First(Owner).signal.from
         /\ \E o \in Range(conn'[Owner].ops) : o.op = "offer"
<1> DEFINE q == First(Owner).signal.from
           s == [page[Owner] EXCEPT !.remote = q, !.offerReady = TRUE]
           c == Ensured(Owner, s, conn[Owner])
           o == [op |-> "offer", signal |-> Ready(Owner, s.remote)]
<1>1. Owner \in Pages /\ page[Owner] \in Page
  BY Now, Distinct
<1>2. q \in Pages /\ q # NoOne
  <2>1. inbox[Owner] # <<>> /\ First(Owner).type = "signal"
    BY DEF ReceiveReady, Receives, Handles
  <2>2. First(Owner).signal \in Signal
    BY <1>1, <2>1, FirstSound DEF IInv, Sound
  <2> QED
    BY <2>2, Distinct DEF Signal
<1>3. s.remote = q /\ s.offerReady = TRUE
  <2> HIDE DEF q
  <2> QED
    BY <1>1 DEF Page
<1>4. page' = [page EXCEPT ![Owner] = s] /\ conn' = [conn EXCEPT ![Owner] = Offering(Owner, s, c)]
  BY DEF ReceiveReady, Becomes
<1>5. c \in Connection /\ c # NoConnection /\ c.local = NoDescription
  <2> HIDE DEF s
  <2>1. SoundConnection(Owner, conn[Owner])
    BY <1>1, Now
  <2>2. c \in Connection
    BY <1>1, <2>1, EnsuredSound DEF SoundConnection
  <2> QED
    BY <1>1, <1>2, <1>3, <2>2, EnsuredSame
<1> HIDE DEF s, c
<1>6. page'[Owner] = s /\ conn'[Owner] = Offering(Owner, s, c)
  BY <1>1, <1>4, PageIs, ConnectionIs
<1>7. conn'[Owner].ops = Append(c.ops, o)
  BY <1>1, <1>3, <1>5, <1>6, OfferingGrown
<1>8. o \in Range(Append(c.ops, o))
  <2> DEFINE S == Op \cup {o}
  <2>1. c.ops \in Seq(Op)
    BY <1>5, Zenon DEF Connection, Op
  <2>2. c.ops \in Seq(S)
    BY <2>1, SeqSubset
  <2> HIDE DEF o
  <2> QED
    BY <2>2, Ranges
<1> QED
  BY <1>3, <1>6, <1>7, <1>8

\* A recipient works on every offer that describes a connection.
LEMMA OfferTaken ==
  ASSUME IInv, NEW p \in Pages, ReceiveOffer(p), First(p).signal.body # NoDescription
  PROVE  conn'[p].ops # <<>>
<1> DEFINE signal == First(p).signal
           s == [page[p] EXCEPT !.remote = signal.from]
           c == Ensured(p, s, conn[p])
           o == [op |-> "remote", signal |-> signal]
<1>1. page[p] \in Page /\ SoundConnection(p, conn[p])
  BY Now
<1>2. signal.from # NoOne
  <2>1. inbox[p] # <<>> /\ First(p).type = "signal"
    BY DEF ReceiveOffer, Receives, Handles
  <2>2. signal \in Signal
    BY <2>1, FirstSound DEF IInv, Sound
  <2> QED
    BY <2>2, Distinct DEF Signal
<1>3. s.remote # NoOne
  <2> HIDE DEF signal
  <2> QED
    BY <1>1, <1>2 DEF Page
<1>4. conn' = [conn EXCEPT ![p] = Applying(c, signal)]
  BY DEF ReceiveOffer, Becomes
<1> HIDE DEF s
<1>5. c \in Connection /\ c # NoConnection
  BY <1>1, <1>3, EnsuredSound, EnsuredSame DEF SoundConnection
<1> HIDE DEF c, signal
<1>6. conn'[p].ops = Append(c.ops, o)
  BY <1>4, <1>5, ConnectionIs, ApplyingGrown DEF signal
<1>7. c.ops \in Seq(Op)
  BY <1>5, Zenon DEF Connection, Op
<1>8. Append(c.ops, o) # <<>>
  <2> DEFINE S == Op \cup {o}
  <2>1. c.ops \in Seq(S)
    BY <1>7, SeqSubset
  <2> HIDE DEF o
  <2> QED
    BY <2>1
<1> QED
  BY <1>6, <1>8

LEMMA PlainConnection ==
  ASSUME IInv, NEW p \in Pages,
         Subscribe(p) \/ SignalRetryFires(p) \/ Online(p) \/ LinkUp(p) \/ PeerGone(p) \/ LinkBreaks(p)
         \/ PostEnds(p)
  PROVE  Grown(p, conn[p], conn'[p]) /\ tasks'[p] = tasks[p]
<1>1. UNCHANGED tasks
  BY DEF Subscribe, SignalRetryFires, Online, LinkUp, PeerGone, LinkBreaks, LinkDown, PostEnds, Serve, GiveUp
<1>2. CASE Subscribe(p) \/ SignalRetryFires(p) \/ Online(p) \/ PostEnds(p)
  <2>1. UNCHANGED conn
    BY <1>2 DEF Subscribe, SignalRetryFires, Online, PostEnds, Serve, GiveUp
  <2> QED
    BY <1>1, <2>1, GrownSelf
<1>3. CASE LinkUp(p) \/ PeerGone(p) \/ LinkBreaks(p)
  <2>1. \E x : conn' = [conn EXCEPT ![p].state = x]
    BY <1>3 DEF LinkUp, PeerGone, LinkBreaks, LinkDown
  <2>2. PICK x : conn' = [conn EXCEPT ![p].state = x]
    BY <2>1
  <2> DEFINE c == [conn[p] EXCEPT !.state = x]
  <2>3. conn' = [conn EXCEPT ![p] = c]
    BY <2>2
  <2>4. conn[p] \in Connection
    BY Now DEF SoundConnection
  <2>5. c.local = conn[p].local /\ c.remote = conn[p].remote /\ c.ops = conn[p].ops
    BY <2>4, Zenon DEF Connection
  <2> HIDE DEF c
  <2> QED
    BY <1>1, <2>3, <2>5, ConnectionIs DEF Grown
<1> QED
  BY <1>2, <1>3

LEMMA OpsTaken ==
  ASSUME NEW c \in Connection
  PROVE  /\ LET d == [c EXCEPT !.ops = Tail(@)] IN
              d.local = c.local /\ d.remote = c.remote /\ d.ops = Tail(c.ops) /\ d.id = c.id
         /\ \A e : LET d == [c EXCEPT !.ops = Tail(@), !.local = e] IN
              d.local = e /\ d.remote = c.remote /\ d.ops = Tail(c.ops) /\ d.id = c.id
BY Zenon DEF Connection

LEMMA OfferMadeIs ==
  ASSUME IInv, NEW p \in Pages, OfferMade(p)
  PROVE  /\ p = Owner /\ conn'[p].remote = conn[p].remote /\ conn'[p].local # NoDescription
         /\ \E t : t.step = "export" /\ t.id = Owner /\ tasks'[p] = tasks[p] \cup {t}
<1> DEFINE e == Offer(conn[p].id)
           c == [conn[p] EXCEPT !.ops = Tail(@), !.local = e]
           t == Task("export", c, Described("offer", p, NoOne, c.local))
<1>1. p = Owner /\ conn[p].id = p
  BY ResumesSound DEF OfferMade
<1>2. conn' = [conn EXCEPT ![p] = c] /\ tasks' = [tasks EXCEPT ![p] = tasks[p] \cup {t}]
  BY DEF OfferMade, GoesOn
<1>3. conn[p] \in Connection
  BY Now DEF SoundConnection
<1>4. e # NoDescription
  BY <1>1, Distinct DEF Offer, NoDescription
<1>5. c.local = e /\ c.remote = conn[p].remote /\ c.id = Owner
  <2> HIDE DEF e
  <2> QED
    BY <1>1, <1>3, OpsTaken
<1>6. t.step = "export" /\ t.id = c.id
  BY DEF Task
<1> HIDE DEF c, t
<1>7. conn'[p] = c
  BY <1>2, ConnectionIs
<1>8. tasks'[p] = tasks[p] \cup {t}
  BY <1>2, Updated DEF IInv, Sound, SoundTasks
<1> QED
  BY <1>1, <1>4, <1>5, <1>6, <1>7, <1>8

LEMMA RemoteDescribedIs ==
  ASSUME IInv, NEW p \in Pages, RemoteDescribed(p)
  PROVE  /\ conn'[p].local = conn[p].local
         /\ conn'[p].remote # NoDescription \/ (p = Owner /\ conn'[p].remote = conn[p].remote)
         /\ p = Owner => conn'[p].ops = Tail(conn[p].ops)
         /\ conn[p].ops # <<>> /\ Head(conn[p].ops).op = "remote"
         /\ tasks'[p] = tasks[p] \/ \E t : t.step = "derive" /\ tasks'[p] = tasks[p] \cup {t}
<1> DEFINE c == [conn[p] EXCEPT !.ops = Tail(@)]
           signal == Head(conn[p].ops).signal
           author == Author(signal.body)
           reachable == author \notin Trickle \/ Reached(page[p].pending, author)
           d == [c EXCEPT !.remote = signal.body, !.reachable = reachable]
           answer == [op |-> "answer", signal |-> signal]
           e == [d EXCEPT !.ops = Append(@, answer)]
<1>1. Resumes(p, "remote") /\ conn[p].ops # <<>> /\ Head(conn[p].ops).op = "remote"
  BY DEF RemoteDescribed, Resumes
<1>2. Incoming(p, signal) /\ SoundConnection(p, c)
  BY <1>1, ResumesSound
<1>3. conn[p] \in Connection /\ c \in Connection
  BY <1>2, Now DEF SoundConnection
<1>4. c.local = conn[p].local /\ c.remote = conn[p].remote /\ c.ops = Tail(conn[p].ops)
  BY <1>3, OpsTaken
<1>5. signal.body # NoDescription
  BY <1>2 DEF Incoming
<1>6. IF Refuses(p, c) THEN GoesOn(p, page[p], c, tasks[p], {})
      ELSE Apply(p, page[p], c, signal)
  BY DEF RemoteDescribed
<1>7. OnPages(tasks)
  BY DEF IInv, Sound, SoundTasks
<1> HIDE DEF c, signal
<1>8. CASE Refuses(p, c)
  <2>1. conn' = [conn EXCEPT ![p] = c] /\ tasks' = [tasks EXCEPT ![p] = tasks[p]]
    BY <1>6, <1>8 DEF GoesOn
  <2>2. conn'[p] = c
    BY <2>1, ConnectionIs
  <2>3. tasks'[p] = tasks[p]
    BY <1>7, <2>1, Updated
  <2> QED
    BY <1>1, <1>4, <1>8, <2>2, <2>3 DEF Refuses
<1>9. CASE ~Refuses(p, c)
  <2>1. Apply(p, page[p], c, signal)
    BY <1>6, <1>9
  <2>2. d.local = c.local /\ d.remote = signal.body /\ d.ops = c.ops
    <3> HIDE DEF reachable
    <3> QED
      BY <1>3, Zenon DEF Connection
  <2>3. e.local = c.local /\ e.remote = signal.body
    <3> HIDE DEF reachable, answer
    <3> QED
      BY <1>3, Zenon DEF Connection
  <2> DEFINE derive == Task("derive", c, signal)
  <2>4. \/ conn' = [conn EXCEPT ![p] = d] /\ tasks' = [tasks EXCEPT ![p] = tasks[p] \cup {derive}]
        \/ conn' = [conn EXCEPT ![p] = d] /\ tasks' = [tasks EXCEPT ![p] = tasks[p]]
        \/ p # Owner /\ conn' = [conn EXCEPT ![p] = e] /\ tasks' = [tasks EXCEPT ![p] = tasks[p]]
    BY <2>1 DEF Apply, GoesOn
  <2>5. derive.step = "derive"
    BY DEF Task
  <2> HIDE DEF d, e, derive
  <2>6. conn'[p] = d \/ (p # Owner /\ conn'[p] = e)
    BY <2>4, ConnectionIs
  <2>7. tasks'[p] = tasks[p] \/ tasks'[p] = tasks[p] \cup {derive}
    BY <1>7, <2>4, Updated
  <2> QED
    BY <1>1, <1>4, <1>5, <2>2, <2>3, <2>5, <2>6, <2>7
<1> QED
  BY <1>8, <1>9

LEMMA AnswerMadeIs ==
  ASSUME IInv, NEW p \in Pages, AnswerMade(p)
  PROVE  /\ p # Owner /\ conn'[p].remote = conn[p].remote
         /\ conn[p].ops # <<>> /\ Head(conn[p].ops).op = "answer"
<1> DEFINE c == [conn[p] EXCEPT !.ops = Tail(@)]
           answer == Answer(c.remote.offer, c.id)
           d == [c EXCEPT !.local = answer]
<1>1. p # Owner /\ conn[p].ops # <<>> /\ Head(conn[p].ops).op = "answer" /\ SoundConnection(p, c)
  BY ResumesSound DEF AnswerMade, Resumes
<1>2. conn[p] \in Connection /\ c \in Connection
  BY <1>1, Now DEF SoundConnection
<1>3. c.remote = conn[p].remote
  BY <1>2, OpsTaken
<1>4. conn' = [conn EXCEPT ![p] = c] \/ conn' = [conn EXCEPT ![p] = d]
  BY DEF AnswerMade, GoesOn
<1> HIDE DEF c
<1>5. d.remote = c.remote
  <2> HIDE DEF answer
  <2> QED
    BY <1>2, Zenon DEF Connection
<1> HIDE DEF d
<1> QED
  BY <1>1, <1>3, <1>4, <1>5, ConnectionIs

LEMMA KeyDerivedIs ==
  ASSUME IInv, NEW p \in Pages, NEW t \in tasks[p], KeyDerived(p, t)
  PROVE  /\ t.step = "derive" /\ tasks'[p] = tasks[p] \ {t}
         /\ conn'[p].remote = conn[p].remote
         /\ p = Owner => conn'[p] = conn[p]
<1> DEFINE answer == [op |-> "answer", signal |-> t.signal]
           d == [conn[p] EXCEPT !.ops = Append(@, answer)]
<1>1. t.step = "derive" /\ tasks' = [tasks EXCEPT ![p] = tasks[p] \ {t}]
  BY DEF KeyDerived, GoesOn
<1>2. conn' = [conn EXCEPT ![p] = conn[p]] \/ (p # Owner /\ conn' = [conn EXCEPT ![p] = d])
  BY DEF KeyDerived, GoesOn
<1>3. conn[p] \in Connection
  BY Now DEF SoundConnection
<1>4. d.remote = conn[p].remote
  <2> HIDE DEF answer
  <2> QED
    BY <1>3, OpsAppended
<1> HIDE DEF d
<1>5. conn'[p] = conn[p] \/ (p # Owner /\ conn'[p] = d)
  BY <1>2, ConnectionIs
<1>6. tasks'[p] = tasks[p] \ {t}
  BY <1>1, Updated DEF IInv, Sound, SoundTasks
<1> QED
  BY <1>1, <1>4, <1>5, <1>6

LEMMA PostDescriptionIs ==
  ASSUME IInv, NEW p \in Pages, NEW t \in tasks[p], PostDescription(p, t)
  PROVE  t.step = "export" /\ tasks'[p] = tasks[p] \ {t} /\ conn'[p] = conn[p]
BY Updated DEF PostDescription, IInv, Sound, SoundTasks

\* What a page has on its connection is renamed when another one is closed.
LEMMA PastConnectionLooks ==
  ASSUME NEW q \in Pages, NEW p \in Pages, q # p, NEW c, SoundConnection(q, c)
  PROVE  LET d == PastConnection(c, p) IN
         /\ d.remote = NoDescription <=> c.remote = NoDescription
         /\ d.local = NoDescription <=> c.local = NoDescription
         /\ \A o \in Range(d.ops) : \E x \in Range(c.ops) : o.op = x.op
         /\ \A x \in Range(c.ops) : \E o \in Range(d.ops) : o.op = x.op
         /\ d.ops = <<>> <=> c.ops = <<>>
<1> DEFINE O == [i \in DOMAIN c.ops |-> PastOp(c.ops[i], p)]
           d == PastConnection(c, p)
<1>1. c \in Connection /\ c.ops \in Seq(OpsOf(q)) /\ c.local \in Description /\ c.remote \in Description
  BY DEF SoundConnection, Connection
<1>2. PastConnection(c, p) =
        [c EXCEPT !.local = PastDescription(c.local, p), !.remote = PastDescription(c.remote, p),
                  !.ops = O]
  BY DEF PastConnection
<1>3. \A i \in DOMAIN c.ops : c.ops[i] \in OpsOf(q)
  BY <1>1, ElementOfSeq, LenProperties
<1>4. \A o \in OpsOf(q) : PastOp(o, p).op = o.op
  <2>1. OpsOf(q) \subseteq Op
    BY DEF OpsOf
  <2> QED
    BY <2>1 DEF PastOp, Op
<1>5. DOMAIN O = DOMAIN c.ops /\ \A i \in DOMAIN c.ops : O[i].op = c.ops[i].op
  BY <1>3, <1>4
<1>6. Len(O) = Len(c.ops) /\ O \in Seq(OpsOf(q))
  <2> HIDE DEF O
  <2>1. O = [i \in DOMAIN c.ops |-> O[i]] /\ \A i \in DOMAIN c.ops : O[i] \in OpsOf(q)
    BY <1>3, PastFrom DEF O
  <2>2. O \in Seq(OpsOf(q))
    BY <1>1, <2>1, SeqMapped
  <2>3. Len(O) = Len(c.ops)
    BY <1>1, <2>1, SeqMapped
  <2> QED
    BY <2>2, <2>3
<1> HIDE DEF O
<1>7. /\ d.ops = O
      /\ d.local = PastDescription(c.local, p)
      /\ d.remote = PastDescription(c.remote, p)
  BY <1>1, <1>2, Zenon DEF Connection
<1>8. (d.remote = NoDescription <=> c.remote = NoDescription)
      /\ (d.local = NoDescription <=> c.local = NoDescription)
  BY <1>1, <1>7, PastDescriptions
<1>9. d.ops = <<>> <=> c.ops = <<>>
  BY <1>1, <1>6, <1>7, EmptySeq
<1> HIDE DEF d
<1> QED
  BY <1>5, <1>7, <1>8, <1>9 DEF Range, d

LEMMA ResetConnection ==
  ASSUME IInv, NEW p \in Pages, Resets(p)
  PROVE  /\ conn'[p].ops = <<>> /\ conn'[p].local = NoDescription /\ conn'[p].remote = NoDescription
         /\ ~PeerLeft(p) => tasks'[p] = {}
         /\ \A t \in tasks'[p] : t.id # p
<1>1. \A k : NewConnection(k).ops = <<>> /\ NewConnection(k).local = NoDescription
             /\ NewConnection(k).remote = NoDescription
  BY DEF NewConnection
<1>2. CASE ClosePage(p)
  <2>1. conn'[p] = NoConnection /\ tasks'[p] = {}
    BY <1>2 DEF ClosePage, Replaces
  <2> QED
    BY <1>1, <2>1 DEF NoConnection
<1>3. CASE PeerLeft(p)
  <2>1. conn'[p] = NoConnection /\ tasks'[p] = {PastTask(t, p) : t \in tasks[p]}
    BY <1>3 DEF PeerLeft, Replaces
  <2>2. \A t \in tasks[p] : PastTask(t, p).id = Past(t.id, p)
    BY Now, PastFrom
  <2> QED
    BY <1>1, <1>3, <2>1, <2>2, Distinct DEF NoConnection, Past
<1>4. CASE PeerReconnectFires(p) /\ page[p].remote # NoOne
  <2>1. page[p] \in Page
    BY Now
  <2>2. [page[p] EXCEPT !.reconnect = FALSE].remote # NoOne
    BY <1>4, <2>1, FieldsKept
  <2>3. conn'[p] = NewConnection(p)
    BY <1>4, <2>2 DEF PeerReconnectFires, Replaces
  <2>4. tasks' = [q \in Pages |-> {PastTask(u, p) : u \in tasks[q]}]
    BY <1>4, <2>2 DEF PeerReconnectFires
  <2>5. tasks[p] = {}
    BY <1>4 DEF PeerReconnectFires, Settled
  <2>6. tasks'[p] = {}
    BY <2>4, <2>5
  <2> QED
    BY <1>1, <2>3, <2>6
<1> QED
  BY <1>2, <1>3, <1>4 DEF Resets

LEMMA StrangerReconnects ==
  ASSUME IInv, NEW p \in Pages, PeerReconnectFires(p), page[p].remote = NoOne
  PROVE  conn'[p] = conn[p] /\ tasks'[p] = tasks[p]
<1>1. page[p] \in Page
  BY Now
<1>2. [page[p] EXCEPT !.reconnect = FALSE].remote = NoOne
  BY <1>1, FieldsKept
<1>3. conn' = [conn EXCEPT ![p] = conn[p]] /\ UNCHANGED tasks
  BY <1>2 DEF PeerReconnectFires, Becomes
<1> QED
  BY <1>3, ConnectionIs

\* What a page does to its connection: an event or a timer adds to its operations at
\* most, it goes on after an await, or it replaces it.
LEMMA ConnectionSteps ==
  ASSUME IInv, [Next]_vars, NEW p \in Pages
  PROVE  \/ Grown(p, conn[p], conn'[p]) /\ tasks'[p] = tasks[p]
         \/ Resumed(p)
         \/ Resets(p)
         \/ \E q \in Pages \ {p} : PastOf(p, q)
<1>1. CASE PageActs(p)
  <2>1. CASE EventHandled(p)
    BY <2>1, EventConnection DEF Resets
  <2>2. CASE PeerReconnectFires(p)
    BY <2>2, StrangerReconnects, GrownSelf DEF Resets
  <2> QED
    BY <1>1, <2>1, <2>2, PlainConnection DEF PageActs, Works, PostEnds, Resets
<1>2. CASE SamePage(p)
  BY <1>2, GrownSelf DEF SamePage
<1> QED
  BY <1>1, <1>2, Elsewhere

LEMMA GuestRemoteStep ==
  ASSUME IInv, [Next]_vars, NEW g \in Guests, conn[g].remote # NoDescription
  PROVE  conn'[g].remote # NoDescription \/ Resets(g)
<1>1. g \in Pages /\ g # Owner
  BY Distinct
<1>2. CASE Resumed(g)
  <2>1. OfferMade(g) => conn'[g].remote = conn[g].remote
    BY <1>1, OfferMadeIs
  <2>2. RemoteDescribed(g) => conn'[g].remote # NoDescription
    BY <1>1, RemoteDescribedIs
  <2>3. AnswerMade(g) => conn'[g].remote = conn[g].remote
    BY <1>1, AnswerMadeIs
  <2>4. ASSUME NEW t \in tasks[g], KeyDerived(g, t) \/ PostDescription(g, t)
        PROVE  conn'[g].remote = conn[g].remote
    BY <1>1, <2>4, KeyDerivedIs, PostDescriptionIs
  <2> QED
    BY <1>2, <2>1, <2>2, <2>3, <2>4 DEF Resumed
<1>3. ASSUME NEW q \in Pages \ {g}, PastOf(g, q)
      PROVE  conn'[g].remote # NoDescription
  <2>1. SoundConnection(g, conn[g])
    BY <1>1, Now
  <2> QED
    BY <1>1, <1>3, <2>1, PastConnectionLooks DEF PastOf
<1> QED
  BY <1>1, <1>2, <1>3, ConnectionSteps DEF Grown

\* A recipient that has no offer yet: nothing of the kind is under way.
NoOffer(g) ==
  /\ conn[g].remote = NoDescription
  /\ tasks[g] = {}
  /\ \A o \in Range(conn[g].ops) : o.op = "remote"

LEMMA NoOfferStep ==
  ASSUME IInv, [Next]_vars, NEW g \in Guests, NoOffer(g)
  PROVE  \/ conn'[g].remote # NoDescription
         \/ Resets(g)
         \/ /\ tasks'[g] = {}
            /\ \A o \in Range(conn'[g].ops) : o.op = "remote"
            /\ conn[g].ops # <<>> => conn'[g].ops # <<>>
            /\ ~Resumed(g)
<1>1. g \in Pages /\ g # Owner
  BY Distinct
<1>2. SoundConnection(g, conn[g]) /\ conn[g].ops \in Seq(OpsOf(g))
  BY <1>1, Now
<1>3. CASE Resumed(g)
  <2>1. conn[g].ops # <<>> => Head(conn[g].ops).op = "remote"
    BY <1>2, Ranges DEF NoOffer
  <2>2. ~AnswerMade(g) /\ ~OfferMade(g)
    BY <1>1, <2>1, AnswerMadeIs, OfferMadeIs
  <2>3. RemoteDescribed(g)
    BY <1>3, <2>2 DEF Resumed, NoOffer
  <2> QED
    BY <1>1, <2>3, RemoteDescribedIs
<1>4. CASE Grown(g, conn[g], conn'[g]) /\ tasks'[g] = tasks[g] /\ ~Resumed(g)
  <2>1. CASE conn'[g].ops = conn[g].ops
    BY <1>4, <2>1 DEF NoOffer
  <2>2. ASSUME NEW o, o.op = "remote", conn'[g].ops = Append(conn[g].ops, o)
        PROVE  conn'[g].ops # <<>> /\ \A x \in Range(conn'[g].ops) : x.op = "remote"
    <3> DEFINE S == OpsOf(g) \cup {o}
    <3>1. conn[g].ops \in Seq(S)
      BY <1>2, SeqSubset
    <3>2. Append(conn[g].ops, o) # <<>>
      BY <3>1
    <3>3. Range(Append(conn[g].ops, o)) = Range(conn[g].ops) \cup {o}
      BY <3>1, Ranges
    <3> QED
      BY <2>2, <3>2, <3>3 DEF NoOffer
  <2> QED
    BY <1>1, <1>4, <2>1, <2>2 DEF Grown, NoOffer
<1>5. ASSUME NEW q \in Pages \ {g}, PastOf(g, q), ~Resumed(g)
      PROVE  /\ tasks'[g] = {}
             /\ \A o \in Range(conn'[g].ops) : o.op = "remote"
             /\ conn[g].ops # <<>> => conn'[g].ops # <<>>
  <2>1. tasks'[g] = {}
    BY <1>5 DEF PastOf, NoOffer
  <2>2. conn'[g] = PastConnection(conn[g], q)
    BY <1>5 DEF PastOf
  <2>3. /\ \A o \in Range(conn'[g].ops) : \E x \in Range(conn[g].ops) : o.op = x.op
        /\ conn'[g].ops = <<>> <=> conn[g].ops = <<>>
    BY <1>1, <1>2, <2>2, PastConnectionLooks
  <2> QED
    BY <2>1, <2>3 DEF NoOffer
<1> QED
  BY <1>1, <1>3, <1>4, <1>5, ConnectionSteps

Offers(p) == \E o \in Range(conn[p].ops) : o.op = "offer"
Exports(T) == \E t \in T : t.step = "export" /\ t.id = Owner

\* An offer that the sender has begun goes on, or the connection is replaced.
LEMMA OffersStep ==
  ASSUME IInv, [Next]_vars, Offers(Owner)
  PROVE  Offers(Owner)' \/ Exports(tasks'[Owner]) \/ Resets(Owner)
<1>1. Owner \in Pages
  BY Distinct
<1>2. SoundConnection(Owner, conn[Owner]) /\ conn[Owner].ops \in Seq(OpsOf(Owner))
  BY <1>1, Now
<1>3. CASE Resumed(Owner)
  <2>1. CASE OfferMade(Owner)
    BY <1>1, <2>1, OfferMadeIs DEF Exports
  <2>2. CASE RemoteDescribed(Owner)
    <3>1. conn'[Owner].ops = Tail(conn[Owner].ops) /\ conn[Owner].ops # <<>>
          /\ Head(conn[Owner].ops).op = "remote"
      BY <1>1, <2>2, RemoteDescribedIs
    <3>2. Range(conn[Owner].ops) = Range(Tail(conn[Owner].ops)) \cup {Head(conn[Owner].ops)}
      BY <1>2, <3>1, Ranges
    <3> QED
      BY <3>1, <3>2 DEF Offers
  <2>3. ~AnswerMade(Owner)
    BY <1>1, AnswerMadeIs
  <2>4. ASSUME NEW t \in tasks[Owner], KeyDerived(Owner, t) \/ PostDescription(Owner, t)
        PROVE  Offers(Owner)'
    <3>1. conn'[Owner] = conn[Owner]
      BY <1>1, <2>4, KeyDerivedIs, PostDescriptionIs
    <3> QED
      BY <3>1 DEF Offers
  <2> QED
    BY <1>3, <2>1, <2>2, <2>3, <2>4 DEF Resumed
<1>4. CASE Grown(Owner, conn[Owner], conn'[Owner])
  <2>1. CASE conn'[Owner].ops = conn[Owner].ops
    BY <2>1 DEF Offers
  <2>2. ASSUME NEW o, conn'[Owner].ops = Append(conn[Owner].ops, o)
        PROVE  Offers(Owner)'
    <3> DEFINE S == OpsOf(Owner) \cup {o}
    <3>1. conn[Owner].ops \in Seq(S)
      BY <1>2, SeqSubset
    <3>2. Range(Append(conn[Owner].ops, o)) = Range(conn[Owner].ops) \cup {o}
      BY <3>1, Ranges
    <3> QED
      BY <2>2, <3>2 DEF Offers
  <2> QED
    BY <1>4, <2>1, <2>2 DEF Grown
<1>5. ASSUME NEW q \in Pages \ {Owner}, PastOf(Owner, q)
      PROVE  Offers(Owner)'
  <2>1. conn'[Owner] = PastConnection(conn[Owner], q)
    BY <1>5 DEF PastOf
  <2>2. \A x \in Range(conn[Owner].ops) : \E o \in Range(conn'[Owner].ops) : o.op = x.op
    BY <1>1, <1>2, <2>1, PastConnectionLooks
  <2> QED
    BY <2>2 DEF Offers
<1> QED
  BY <1>1, <1>3, <1>4, <1>5, ConnectionSteps

\* A task of the sender for the connection it has goes on, is renamed with nothing
\* of its own, or is posted.
LEMMA ExportsStep ==
  ASSUME IInv, [Next]_vars, NEW t \in tasks[Owner], t.step = "export", t.id = Owner
  PROVE  Exports(tasks'[Owner]) \/ PostDescription(Owner, t) \/ Resets(Owner)
<1>1. Owner \in Pages
  BY Distinct
<1>2. CASE Resumed(Owner)
  <2>1. CASE OfferMade(Owner)
    BY <1>1, <2>1, OfferMadeIs DEF Exports
  <2>2. CASE RemoteDescribed(Owner)
    <3>1. tasks'[Owner] = tasks[Owner] \/ \E u : tasks'[Owner] = tasks[Owner] \cup {u}
      BY <1>1, <2>2, RemoteDescribedIs
    <3> QED
      BY <3>1 DEF Exports
  <2>3. ~AnswerMade(Owner)
    BY <1>1, AnswerMadeIs
  <2>4. ASSUME NEW u \in tasks[Owner], KeyDerived(Owner, u) \/ PostDescription(Owner, u)
        PROVE  Exports(tasks'[Owner]) \/ PostDescription(Owner, t)
    <3>1. CASE u = t
      BY <1>1, <2>4, <3>1, KeyDerivedIs
    <3>2. CASE u # t
      <4>1. tasks'[Owner] = tasks[Owner] \ {u}
        BY <1>1, <2>4, KeyDerivedIs, PostDescriptionIs
      <4> QED
        BY <3>2, <4>1 DEF Exports
    <3> QED
      BY <3>1, <3>2
  <2> QED
    BY <1>2, <2>1, <2>2, <2>3, <2>4 DEF Resumed
<1>3. CASE tasks'[Owner] = tasks[Owner]
  BY <1>3 DEF Exports
<1>4. ASSUME NEW q \in Pages \ {Owner}, PastOf(Owner, q)
      PROVE  Exports(tasks'[Owner])
  <2>1. PastTask(t, q) \in tasks'[Owner]
    BY <1>4 DEF PastOf
  <2>2. PastTask(t, q).step = "export" /\ PastTask(t, q).id = Past(Owner, q)
    BY <1>1, Now, PastFrom
  <2> QED
    BY <1>4, <2>1, <2>2 DEF Past, Exports
<1> QED
  BY <1>1, <1>2, <1>3, <1>4, ConnectionSteps

\* An export of the sender is of a connection that has a local description, or of
\* one that is closed.
OffersAreMade ==
  \A t \in tasks[Owner] : t.step = "export" =>
    t.id # NoOne /\ (t.id = Owner => conn[Owner].local # NoDescription)

LEMMA OffersMadeStep ==
  ASSUME IInv, [Next]_vars, OffersAreMade
  PROVE  OffersAreMade'
<1> SUFFICES ASSUME NEW t \in tasks'[Owner], t.step = "export"
             PROVE  t.id # NoOne /\ (t.id = Owner => conn'[Owner].local # NoDescription)
  BY DEF OffersAreMade
<1>1. Owner \in Pages
  BY Distinct
<1>2. CASE Resumed(Owner)
  <2>1. CASE OfferMade(Owner)
    BY <1>1, <2>1, OfferMadeIs, Distinct DEF OffersAreMade
  <2>2. CASE RemoteDescribed(Owner)
    <3>1. conn'[Owner].local = conn[Owner].local
          /\ (tasks'[Owner] = tasks[Owner] \/ \E u : u.step = "derive" /\ tasks'[Owner] = tasks[Owner] \cup {u})
      BY <1>1, <2>2, RemoteDescribedIs
    <3>2. t \in tasks[Owner]
      BY <3>1
    <3> QED
      BY <3>1, <3>2 DEF OffersAreMade
  <2>3. ~AnswerMade(Owner)
    BY <1>1, AnswerMadeIs
  <2>4. ASSUME NEW u \in tasks[Owner], KeyDerived(Owner, u) \/ PostDescription(Owner, u)
        PROVE  t.id # NoOne /\ (t.id = Owner => conn'[Owner].local # NoDescription)
    <3>1. tasks'[Owner] = tasks[Owner] \ {u} /\ conn'[Owner] = conn[Owner]
      BY <1>1, <2>4, KeyDerivedIs, PostDescriptionIs
    <3> QED
      BY <3>1 DEF OffersAreMade
  <2> QED
    BY <1>2, <2>1, <2>2, <2>3, <2>4 DEF Resumed
<1>3. CASE Grown(Owner, conn[Owner], conn'[Owner]) /\ tasks'[Owner] = tasks[Owner]
  BY <1>3 DEF Grown, OffersAreMade
<1>4. CASE Resets(Owner)
  <2>1. t.id # Owner
    BY <1>1, <1>4, ResetConnection
  <2>2. tasks[Owner] \subseteq TasksOf(Owner)
    BY <1>1, Now
  <2>3. PeerLeft(Owner)
    BY <1>1, <1>4, ResetConnection
  <2>4. PICK v \in tasks[Owner] : t = PastTask(v, Owner)
    BY <1>1, <2>3 DEF PeerLeft
  <2>5. v.step = "export" /\ t.id = Past(v.id, Owner)
    BY <1>1, <2>2, <2>4, PastFrom
  <2> QED
    BY <2>1, <2>5, Distinct DEF OffersAreMade, Past
<1>5. ASSUME NEW q \in Pages \ {Owner}, PastOf(Owner, q)
      PROVE  t.id # NoOne /\ (t.id = Owner => conn'[Owner].local # NoDescription)
  <2>1. PICK v \in tasks[Owner] : t = PastTask(v, q)
    BY <1>5 DEF PastOf
  <2>2. v.step = "export" /\ t.id = Past(v.id, q)
    BY <1>1, <2>1, Now, PastFrom
  <2>3. conn'[Owner].local = NoDescription <=> conn[Owner].local = NoDescription
    <3>1. SoundConnection(Owner, conn[Owner])
      BY <1>1, Now
    <3> QED
      BY <1>1, <1>5, <3>1, PastConnectionLooks DEF PastOf
  <2> QED
    BY <1>5, <2>2, <2>3, Distinct DEF OffersAreMade, Past
<1> QED
  BY <1>1, <1>2, <1>3, <1>4, <1>5, ConnectionSteps

-----------------------------------------------------------------------------
(* Who knows whom *)

\* One recipient is in the room at a time, and only a page that streams has events.
OneGuest == \A g, h \in Guests : Seated(g) /\ Seated(h) => g = h
InStreams == \A p \in Pages : inbox[p] # <<>> => life[p] = "streaming"

\* Before its stream a recipient knows nobody, and before its join the sender has
\* not heard of it.
Unmet(g) ==
  /\ life[g] \in {"new", "joined"} => page[g].remote = NoOne /\ ~page[g].readySent
  /\ life[g] = "new" => /\ page[Owner].remote # g
                        /\ \A e \in Range(inbox[Owner]) : Subject(e) # g
Strangers == \A g \in Guests : Unmet(g)

\* A recipient hears of the sender only, knows nobody else and writes to nobody else.
Hears(g) == \A e \in Range(inbox[g]) : Subject(e) = Owner /\ e.type \in {"room-state", "signal"}
Knows(g) ==
  /\ page[g].remote \in {NoOne, Owner}
  /\ page[g].readySent \/ page[g].reconnect => page[g].remote = Owner
Writes(g) ==
  /\ \A s \in Range(page[g].retries) : s.to \in {NoOne, Owner}
  /\ \A m \in posts : m.signal.from = g => m.signal.to \in {NoOne, Owner}

\* Until it works on an offer it has nothing to say but that it is ready.
BeforeOffer(g) ==
  conn[g].remote = NoDescription =>
    /\ NoOffer(g)
    /\ \A s \in Range(page[g].retries) : s.kind = "ready"
    /\ \A m \in posts : m.signal.from = g /\ m.by # Abandoned => m.signal.kind = "ready"
KnowsTheSender ==
  Seated(Owner) => \A g \in Guests : Hears(g) /\ Knows(g) /\ Writes(g) /\ BeforeOffer(g)

\* The sender knows of the recipient in the room, or will hear of it after what it
\* still has to hear of others.
InOrder(g) ==
  /\ page[Owner].remote = g => \A e \in Range(inbox[Owner]) : Subject(e) = g
  /\ \A i, j \in DOMAIN inbox[Owner] :
       i < j /\ Subject(inbox[Owner][i]) = g => Subject(inbox[Owner][j]) = g
  /\ \A e \in Range(inbox[Owner]) : Subject(e) = g => e.type # "peer-left"
EventsInOrder == \A g \in Guests : Seated(g) => InOrder(g)

Meeting == OneGuest /\ InStreams /\ Strangers /\ KnowsTheSender /\ EventsInOrder

LEMMA LivesOf ==
  ASSUME IInv
  PROVE  /\ \A g \in Guests : Join(g) =>
              life'[g] = "joined" /\ \A p \in Pages \ {g} : life'[p] = life[p]
         /\ \A p \in Pages : Subscribe(p) => life'[p] = "streaming"
         /\ \A p \in Pages : ClosePage(p) => life'[p] = "gone" /\ inbox'[p] = <<>>
         /\ StreamLost => life'[Owner] = "joined" /\ inbox'[Owner] = <<>>
<1>1. OnPages(life) /\ OnPages(inbox)
  BY DEF IInv, Sound, SoundLives, SoundInboxes, OnPages
<1>2. ASSUME NEW g \in Guests, Join(g)
      PROVE  life'[g] = "joined" /\ \A p \in Pages \ {g} : life'[p] = life[p]
  <2>1. life' = [life EXCEPT ![g] = "joined"]
    BY <1>2 DEF Join
  <2> QED
    BY <1>1, <2>1, Updated, Distinct
<1>3. ASSUME NEW p \in Pages, Subscribe(p)
      PROVE  life'[p] = "streaming"
  <2>1. life' = [life EXCEPT ![p] = "streaming"]
    BY <1>3 DEF Subscribe
  <2> QED
    BY <1>1, <2>1, Updated
<1>4. ASSUME NEW p \in Pages, ClosePage(p)
      PROVE  life'[p] = "gone" /\ inbox'[p] = <<>>
  <2>1. life' = [life EXCEPT ![p] = "gone"] /\ inbox'[p] = <<>>
    BY <1>4 DEF ClosePage
  <2> QED
    BY <1>1, <2>1, Updated
<1>5. ASSUME StreamLost
      PROVE  life'[Owner] = "joined" /\ inbox'[Owner] = <<>>
  <2>1. life' = [life EXCEPT ![Owner] = "joined"] /\ inbox' = [inbox EXCEPT ![Owner] = <<>>]
    BY <1>5 DEF StreamLost
  <2>2. life'[Owner] = "joined"
    BY <1>1, <2>1, Updated, Distinct
  <2>3. inbox'[Owner] = <<>>
    BY <1>1, <2>1, Updated, Distinct
  <2> QED
    BY <2>2, <2>3
<1> QED
  BY <1>2, <1>3, <1>4, <1>5

LEMMA SubjectOf ==
  /\ \A s : Subject(Carrying(s)) = s.from /\ Carrying(s).type = "signal" /\ Carrying(s).signal = s
  /\ \A type \in {"room-state", "peer-joined", "peer-left"} : \A q :
       Subject(About(type, q)) = q /\ About(type, q).type = type
BY DEF Subject, Carrying, About

LEMMA OneGuestStep ==
  ASSUME IInv, [Next]_vars, OneGuest
  PROVE  OneGuest'
<1> SUFFICES ASSUME NEW g \in Guests, NEW h \in Guests, Seated(g)', Seated(h)', g # h
             PROVE  FALSE
  BY DEF OneGuest
<1>1. g \in Pages /\ h \in Pages
  BY Distinct
<1>2. Seated(g) \/ (Join(g) /\ ~Seated(h))
  BY Seats
<1>3. Seated(h) \/ (Join(h) /\ ~Seated(g))
  BY Seats
<1>4. CASE Seated(g) /\ Seated(h)
  BY <1>4 DEF OneGuest
<1>5. CASE Join(g) /\ ~Seated(h)
  <2>1. life'[h] = life[h]
    BY <1>1, <1>5, LivesOf
  <2> QED
    BY <1>5, <2>1 DEF Seated
<1>6. CASE Join(h) /\ ~Seated(g)
  <2>1. life'[g] = life[g]
    BY <1>1, <1>6, LivesOf
  <2> QED
    BY <1>6, <2>1 DEF Seated
<1> QED
  BY <1>2, <1>3, <1>4, <1>5, <1>6

LEMMA HasEvents ==
  ASSUME NEW S, NEW q \in Seq(S), q # <<>>
  PROVE  Head(q) \in Range(q)
BY Ranges

LEMMA InStreamsStep ==
  ASSUME IInv, [Next]_vars, InStreams
  PROVE  InStreams'
<1> SUFFICES ASSUME NEW p \in Pages, inbox'[p] # <<>>
             PROVE  life'[p] = "streaming"
  BY DEF InStreams
<1>1. inbox'[p] \in Seq(EventsFor(p))
  BY StepInv DEF IInv, Sound, SoundInboxes
<1>2. PICK e \in Range(inbox'[p]) : TRUE
  BY <1>1, HasEvents
<1>3. CASE \E x \in Range(inbox[p]) : TRUE
  <2>1. inbox[p] # <<>>
    BY <1>3, RangeEmpty
  <2>2. life[p] = "streaming"
    BY <2>1 DEF InStreams
  <2> QED
    BY <2>2, LifeSteps, LivesOf DEF LifeStep
<1>4. CASE life[p] = "streaming"
  BY <1>4, LifeSteps, LivesOf DEF LifeStep
<1>5. CASE Subscribe(p)
  BY <1>5, LivesOf
<1> QED
  BY <1>2, <1>3, <1>4, <1>5, EventsCome

LEMMA StrangersStep ==
  ASSUME IInv, [Next]_vars, InStreams, Strangers
  PROVE  Strangers'
<1> SUFFICES ASSUME NEW g \in Guests
             PROVE  Unmet(g)'
  BY DEF Strangers
<1>1. g \in Pages /\ g # Owner /\ Owner \in Pages /\ g # NoOne /\ LifeStep(g) /\ Unmet(g)
  BY Distinct, LifeSteps DEF Strangers
<1>2. ASSUME life'[g] \in {"new", "joined"}
      PROVE  page'[g].remote = NoOne /\ ~page'[g].readySent
  <2>1. life[g] \in {"new", "joined"}
    BY <1>1, <1>2 DEF LifeStep
  <2>2. ~Meets(g)
    BY <1>1, <2>1 DEF InStreams, Meets, Handles
  <2>3. SessionStep(g, page[g], page'[g])
    BY <1>1, SessionSteps
  <2> QED
    BY <1>1, <2>1, <2>2, <2>3 DEF SessionStep, TellsReady, Unmet
<1>3. ASSUME life'[g] = "new"
      PROVE  page'[Owner].remote # g /\ \A e \in Range(inbox'[Owner]) : Subject(e) # g
  <2>1. life[g] = "new" /\ ~Seated(g)
    BY <1>1, <1>3 DEF LifeStep, Seated
  <2>2. page'[Owner].remote # g
    <3>1. SessionStep(Owner, page[Owner], page'[Owner])
      BY <1>1, SessionSteps
    <3>2. Meets(Owner) => First(Owner) \in Range(inbox[Owner])
      <4>1. inbox[Owner] \in Seq(EventsFor(Owner))
        BY <1>1, Now
      <4> QED
        BY <4>1, HasEvents DEF Meets, Handles, First
    <3> QED
      BY <1>1, <2>1, <3>1, <3>2 DEF SessionStep, Meets, Unmet
  <2>3. ASSUME NEW e \in Range(inbox'[Owner])
        PROVE  Subject(e) # g
    <3>1. CASE \E x \in Range(inbox[Owner]) : Look(e, x)
      BY <1>1, <2>1, <3>1 DEF Look, Unmet
    <3>2. ASSUME NEW n, News(Owner, n), Look(e, n)
          PROVE  Subject(e) # g
      <4>1. CASE \E h \in Guests : Join(h) /\ n = About("peer-joined", h)
        <5>1. PICK h \in Guests : Join(h) /\ n = About("peer-joined", h)
          BY <4>1
        <5>2. h # g
          BY <1>3, <5>1, LivesOf
        <5> QED
          BY <3>2, <5>1, <5>2, SubjectOf DEF Look
      <4>2. ASSUME NEW m \in posts, Seated(m.signal.from), n = Carrying(m.signal)
            PROVE  Subject(e) # g
        BY <2>1, <3>2, <4>2, SubjectOf DEF Look
      <4>3. ASSUME NEW p \in Pages, Seated(p), n = About("peer-left", p)
            PROVE  Subject(e) # g
        BY <2>1, <3>2, <4>3, SubjectOf DEF Look
      <4> QED
        BY <3>2, <4>1, <4>2, <4>3 DEF News
    <3>3. CASE e = About("room-state", Other(Owner))
      <4>1. Other(Owner) # g
        BY <1>1, <2>1, OtherIs
      <4> QED
        BY <3>3, <4>1, SubjectOf
    <3> QED
      BY <1>1, <3>1, <3>2, <3>3, EventsCome
  <2> QED
    BY <2>2, <2>3
<1> QED
  BY <1>2, <1>3 DEF Unmet

\* With the sender seated before and after a step, what a recipient knew holds.
LEMMA SenderStays ==
  ASSUME IInv, [Next]_vars, Seated(Owner)', KnowsTheSender, NEW g \in Guests
  PROVE  /\ Seated(Owner) /\ ~ClosePage(Owner)
         /\ Hears(g) /\ Knows(g) /\ Writes(g) /\ BeforeOffer(g)
         /\ ~PeerLeft(g)
         /\ g \in Pages /\ g # Owner /\ Owner \in Pages
         /\ inbox[g] # <<>> => First(g) \in Range(inbox[g])
<1>1. g \in Pages /\ g # Owner /\ Owner \in Pages
  BY Distinct
<1>2. Seated(Owner)
  BY Seats
<1>3. ~ClosePage(Owner)
  BY <1>1, LivesOf DEF Seated
<1>4. Hears(g) /\ Knows(g) /\ Writes(g) /\ BeforeOffer(g)
  BY <1>2 DEF KnowsTheSender
<1>5. inbox[g] # <<>> => First(g) \in Range(inbox[g])
  <2>1. inbox[g] \in Seq(EventsFor(g))
    BY <1>1, Now
  <2> QED
    BY <2>1, HasEvents DEF First
<1>6. ~PeerLeft(g)
  BY <1>4, <1>5 DEF PeerLeft, Hears
<1> QED
  BY <1>1, <1>2, <1>3, <1>4, <1>5, <1>6

LEMMA HearsStep ==
  ASSUME IInv, [Next]_vars, OneGuest, Seated(Owner)', KnowsTheSender, NEW g \in Guests
  PROVE  Hears(g)'
<1> SUFFICES ASSUME NEW e \in Range(inbox'[g])
             PROVE  Subject(e) = Owner /\ e.type \in {"room-state", "signal"}
  BY DEF Hears
<1>1. Seated(Owner) /\ ~ClosePage(Owner) /\ Hears(g) /\ g \in Pages /\ g # Owner /\ Owner \in Pages
  BY SenderStays
<1>2. \A q \in Pages \ {g} : Seated(g) /\ Seated(q) => q = Owner
  BY Distinct DEF OneGuest
<1>3. CASE \E x \in Range(inbox[g]) : Look(e, x)
  BY <1>1, <1>3 DEF Hears, Look
<1>4. ASSUME NEW n, News(g, n), life[g] = "streaming", Look(e, n)
      PROVE  Subject(e) = Owner /\ e.type \in {"room-state", "signal"}
  <2>1. Seated(g)
    BY <1>4 DEF Seated
  <2>2. PICK m \in posts : Seated(m.signal.from) /\ m.signal.from # g /\ n = Carrying(m.signal)
    BY <1>1, <1>2, <1>4, <2>1 DEF News
  <2>3. m.signal.from = Owner
    BY <1>2, <2>1, <2>2, PostTypes
  <2> QED
    BY <1>4, <2>2, <2>3, SubjectOf DEF Look
<1>5. CASE life[g] = "joined" /\ e = About("room-state", Other(g))
  <2>1. Seated(g)
    BY <1>5 DEF Seated
  <2>2. Other(g) = Owner
    BY <1>1, <1>2, <2>1, OtherIs
  <2> QED
    BY <1>5, <2>2, SubjectOf
<1> QED
  BY <1>1, <1>3, <1>4, <1>5, EventsCome

LEMMA KnowsStep ==
  ASSUME IInv, [Next]_vars, Seated(Owner)', KnowsTheSender, NEW g \in Guests
  PROVE  Knows(g)'
<1>1. /\ Hears(g) /\ Knows(g) /\ ~PeerLeft(g) /\ g \in Pages /\ g # Owner
      /\ inbox[g] # <<>> => First(g) \in Range(inbox[g])
  BY SenderStays
<1>2. CASE ClosePage(g)
  <2>1. page'[g] = NewPage
    BY <1>1, <1>2, CloseSession
  <2> QED
    BY <2>1 DEF NewPage, Knows
<1>3. CASE ~ClosePage(g)
  <2>1. SessionStep(g, page[g], page'[g])
    BY <1>1, SessionSteps
  <2>2. Meets(g) => page'[g].remote = Owner
    BY <1>1 DEF Meets, Handles, Hears
  <2>3. page'[g].remote = page[g].remote \/ page'[g].remote = Owner
    BY <1>1, <1>3, <2>1, <2>2 DEF SessionStep
  <2>4. page'[g].remote \in {NoOne, Owner} /\ (page[g].remote = Owner => page'[g].remote = Owner)
    BY <1>1, <2>3 DEF Knows
  <2>5. page'[g].readySent => page[g].readySent \/ page'[g].remote # NoOne
    BY <2>1 DEF SessionStep, TellsReady
  <2>6. page'[g].reconnect => page[g].reconnect \/ page'[g].remote # NoOne
    BY <2>1 DEF SessionStep
  <2> QED
    BY <1>1, <2>4, <2>5, <2>6 DEF Knows
<1> QED
  BY <1>2, <1>3

LEMMA ReadyLooks == \A p, q : Posted(Ready(p, q)).signal.kind = "ready" /\ Posted(Ready(p, q)).signal.from = p
                              /\ Posted(Ready(p, q)).signal.to = q /\ Posted(Ready(p, q)).by = Direct
BY DEF Posted, Ready

LEMMA CandidateLooks == \A p, q, k : Posted(Candidate(p, q, k)).signal.kind = "candidate"
                              /\ Posted(Candidate(p, q, k)).signal.from = p
                              /\ Posted(Candidate(p, q, k)).signal.to = q
BY DEF Posted, Candidate

\* A retried signal is one of its page's queue.
LEMMA RetriedFrom ==
  ASSUME IInv, NEW m, Retried(m), NEW p, m.signal.from = p
  PROVE  p \in Pages /\ m.signal \in Range(page[p].retries)
<1>1. PICK q \in Pages : m.signal \in Range(page[q].retries)
  BY DEF Retried
<1>2. page[q].retries \in Seq(SignalsFrom(q))
  BY Now DEF SoundPage
<1>3. m.signal \in SignalsFrom(q)
  BY <1>1, <1>2, Ranges
<1> QED
  BY <1>1, <1>3 DEF SignalsFrom

LEMMA WritesStep ==
  ASSUME IInv, [Next]_vars, Seated(Owner)', KnowsTheSender, NEW g \in Guests
  PROVE  Writes(g)'
<1>1. Writes(g) /\ Knows(g) /\ g \in Pages /\ g # Owner
  BY SenderStays
<1>2. page'[g].remote \in {NoOne, Owner}
  BY KnowsStep DEF Knows
<1>3. ASSUME NEW s \in Range(page'[g].retries)
      PROVE  s.to \in {NoOne, Owner}
  BY <1>1, QueueComes DEF Writes, SameLook
<1>4. ASSUME NEW m \in posts', m.signal.from = g
      PROVE  m.signal.to \in {NoOne, Owner}
  <2>1. CASE Repeats(m)
    BY <1>1, <1>4, <2>1 DEF Repeats, SameLook, Writes
  <2>2. CASE Retried(m)
    BY <1>1, <1>4, <2>2, RetriedFrom DEF Writes
  <2>3. CASE OfReady(m)
    BY <1>2, <1>4, <2>3, ReadyLooks DEF OfReady
  <2>4. CASE OfCandidate(m)
    BY <1>1, <1>4, <2>4, CandidateLooks DEF OfCandidate, Knows
  <2>5. CASE OfDescription(m)
    <3>1. PICK t \in tasks[g] : /\ PostDescription(g, t)
                                /\ m.signal.to = IF t.signal.kind = "offer" THEN page[g].remote ELSE t.signal.to
      BY <1>4, <2>5 DEF OfDescription
    <3>2. t \in TasksOf(g) /\ t.step = "export"
      BY <1>1, <3>1, Now, PostDescriptionIs
    <3> QED
      BY <1>1, <3>1, <3>2 DEF TasksOf
  <2> QED
    BY <2>1, <2>2, <2>3, <2>4, <2>5, PostsCome DEF Made
<1> QED
  BY <1>3, <1>4 DEF Writes

LEMMA ReconnectQueue ==
  ASSUME IInv, NEW p \in Pages, PeerReconnectFires(p), page[p].remote # NoOne
  PROVE  page'[p].retries = <<>>
<1> DEFINE s == [page[p] EXCEPT !.reconnect = FALSE]
           t == AnnouncesAgain(ResetSession(s))
           u == Announced(p, t)
<1>1. s \in Page /\ s.remote # NoOne
  BY Now, FieldsKept
<1>2. PICK reported : page'[p] = [u EXCEPT !.reconnect = reported]
  BY <1>1 DEF PeerReconnectFires, Replaces
<1>3. u \in Page /\ u.retries = <<>>
  <2> HIDE DEF s
  <2>1. ResetSession(s) \in Page /\ ResetSession(s).retries = <<>>
    BY <1>1, ResetSound DEF SoundPage
  <2>2. t \in Page /\ t.retries = <<>>
    BY <2>1, SessionKept DEF Kept
  <2> HIDE DEF t
  <2> QED
    BY <2>2, SessionKept DEF Kept
<1> HIDE DEF u
<1> QED
  BY <1>2, <1>3 DEF Page

\* The page has given up its link: what it had in its queue and on its way is gone,
\* and of its posts only a ready signal is new.
LEMMA ResetWrites ==
  ASSUME IInv, [Next]_vars, NEW g \in Guests, Resets(g), ~PeerLeft(g), ~AnswerMade(g)
  PROVE  /\ page'[g].retries = <<>>
         /\ \A m \in posts' : m.signal.from = g /\ m.by # Abandoned => m.signal.kind = "ready"
<1>1. g \in Pages /\ g # Owner
  BY Distinct
<1>2. CASE ClosePage(g)
  <2>1. page'[g] = NewPage
    BY <1>1, <1>2, CloseSession
  <2>2. \A m \in posts' : m.signal.from = g => m.by = Abandoned
    BY <1>1, <1>2, ClosePosts
  <2> QED
    BY <2>1, <2>2 DEF NewPage
<1>3. CASE PeerReconnectFires(g) /\ page[g].remote # NoOne
  <2>1. tasks[g] = {} /\ \A m \in posts : m.signal.from = g => m.by = Abandoned
    BY <1>3 DEF PeerReconnectFires, Settled
  <2>2. conn'[g].ops = <<>>
    BY <1>1, ResetConnection
  <2>3. ASSUME NEW m \in posts', m.signal.from = g, m.by # Abandoned
        PROVE  m.signal.kind = "ready"
    <3>1. CASE Repeats(m)
      BY <2>1, <2>3, <3>1 DEF Repeats, SameLook
    <3>2. CASE OfReady(m)
      BY <3>2, ReadyLooks DEF OfReady
    <3>3. ~OfDescription(m)
      BY <2>1, <2>3 DEF OfDescription
    <3>4. ~OfCandidate(m)
      <4>1. OfCandidate(m) => OfferMade(g) \/ AnswerMade(g)
        BY <2>3, CandidateLooks DEF OfCandidate
      <4>2. ~OfferMade(g)
        BY <1>1, OfferMadeIs
      <4> QED
        BY <4>1, <4>2
    <3> QED
      BY <1>1, <1>3, <3>1, <3>2, <3>3, <3>4, <2>3, ReconnectPosts DEF Made
  <2> QED
    BY <1>1, <1>3, <2>3, ReconnectQueue
<1> QED
  BY <1>2, <1>3 DEF Resets

LEMMA BeforeOfferStep ==
  ASSUME IInv, [Next]_vars, Seated(Owner)', KnowsTheSender, NEW g \in Guests
  PROVE  BeforeOffer(g)'
<1> SUFFICES ASSUME conn'[g].remote = NoDescription
             PROVE  /\ NoOffer(g)'
                    /\ \A s \in Range(page'[g].retries) : s.kind = "ready"
                    /\ \A m \in posts' : m.signal.from = g /\ m.by # Abandoned => m.signal.kind = "ready"
  BY DEF BeforeOffer
<1>1. BeforeOffer(g) /\ ~PeerLeft(g) /\ g \in Pages /\ g # Owner
  BY SenderStays
<1>2. CASE Resets(g)
  <2>1. conn'[g].ops = <<>> /\ tasks'[g] = {}
    BY <1>1, <1>2, ResetConnection
  <2>2. NoOffer(g)'
    BY <2>1, RangeEmpty DEF NoOffer
  <2>3. ~AnswerMade(g)
    <3> SUFFICES ASSUME AnswerMade(g)
                 PROVE  FALSE
      OBVIOUS
    <3>1. conn[g].ops # <<>> /\ Head(conn[g].ops).op = "answer" /\ conn'[g].remote = conn[g].remote
      BY <1>1, AnswerMadeIs
    <3>2. \A o \in Range(conn[g].ops) : o.op = "remote"
      BY <1>1, <3>1 DEF BeforeOffer, NoOffer
    <3>3. conn[g].ops \in Seq(OpsOf(g))
      BY <1>1, Now DEF SoundConnection
    <3>4. Head(conn[g].ops) \in Range(conn[g].ops)
      BY <3>1, <3>3, Ranges
    <3> QED
      BY <3>1, <3>2, <3>4
  <2> QED
    BY <1>1, <1>2, <2>2, <2>3, ResetWrites, RangeEmpty
<1>3. CASE ~Resets(g)
  <2>1. conn[g].remote = NoDescription
    BY <1>3, GuestRemoteStep
  <2>2. NoOffer(g) /\ (\A s \in Range(page[g].retries) : s.kind = "ready")
        /\ \A m \in posts : m.signal.from = g /\ m.by # Abandoned => m.signal.kind = "ready"
    BY <1>1, <2>1 DEF BeforeOffer
  <2>3. tasks'[g] = {} /\ (\A o \in Range(conn'[g].ops) : o.op = "remote") /\ ~Resumed(g)
    BY <1>3, <2>2, NoOfferStep
  <2>4. NoOffer(g)'
    BY <2>3 DEF NoOffer
  <2>5. ASSUME NEW s \in Range(page'[g].retries)
        PROVE  s.kind = "ready"
    BY <1>1, <2>2, QueueComes, ByDistinct DEF SameLook
  <2>6. ASSUME NEW m \in posts', m.signal.from = g, m.by # Abandoned
        PROVE  m.signal.kind = "ready"
    <3>1. CASE Repeats(m)
      BY <2>2, <2>6, <3>1 DEF Repeats, SameLook
    <3>2. CASE Retried(m)
      BY <2>2, <2>6, <3>2, RetriedFrom
    <3>3. CASE OfReady(m)
      BY <3>3, ReadyLooks DEF OfReady
    <3>4. ~OfCandidate(m)
      BY <2>3, <2>6, CandidateLooks DEF OfCandidate, Resumed
    <3>5. ~OfDescription(m)
      BY <2>3, <2>6 DEF OfDescription, Resumed
    <3> QED
      BY <3>1, <3>2, <3>3, <3>4, <3>5, PostsCome DEF Made
  <2> QED
    BY <2>4, <2>5, <2>6
<1> QED
  BY <1>2, <1>3

LEMMA KnowsTheSenderStep ==
  ASSUME IInv, [Next]_vars, OneGuest, KnowsTheSender
  PROVE  KnowsTheSender'
BY HearsStep, KnowsStep, WritesStep, BeforeOfferStep DEF KnowsTheSender

\* What is new on the sender's stream is about the recipient that is seated.
LEMMA NewsOfSeated ==
  ASSUME IInv, [Next]_vars, OneGuest, NEW g \in Guests, Seated(g)'
  PROVE  /\ \A n : News(Owner, n) => Subject(n) = g /\ n.type # "peer-left"
         /\ Subscribe(Owner) /\ life[Owner] = "joined" => Other(Owner) = g
<1>1. g \in Pages /\ g # Owner /\ Owner \in Pages /\ Guests = Pages \ {Owner}
  BY Distinct
<1>2. Seated(g) \/ (Join(g) /\ \A h \in Guests : ~Seated(h))
  BY Seats
<1>3. \A h \in Guests : Seated(h) => h = g
  BY <1>2 DEF OneGuest
<1>4. ASSUME NEW n, News(Owner, n)
      PROVE  Subject(n) = g /\ n.type # "peer-left"
  <2>1. ASSUME NEW h \in Guests, Join(h), n = About("peer-joined", h)
        PROVE  h = g
    <3>1. ~Seated(g)
      BY <2>1 DEF Join
    <3>2. Join(g) /\ \A x \in Guests : ~Seated(x)
      BY <1>2, <3>1
    <3>3. life'[h] = "joined" /\ (h # g => life'[h] = life[h])
      BY <1>1, <2>1, <3>2, LivesOf
    <3> QED
      BY <3>2, <3>3 DEF Seated
  <2>2. ASSUME NEW m \in posts, Seated(m.signal.from), m.signal.from # Owner, n = Carrying(m.signal)
        PROVE  Subject(n) = g /\ n.type # "peer-left"
    <3>1. m.signal.from = g
      BY <1>1, <1>3, <2>2, PostTypes
    <3> QED
      BY <2>2, <3>1, SubjectOf
  <2>3. ASSUME NEW p \in Pages \ {Owner}, ClosePage(p), Seated(p)
        PROVE  FALSE
    <3>1. p = g
      BY <1>1, <1>3, <2>3
    <3>2. life'[g] = "gone"
      BY <1>1, <2>3, <3>1, LivesOf
    <3> QED
      BY <3>2 DEF Seated
  <2> QED
    BY <1>4, <2>1, <2>2, <2>3, SubjectOf DEF News
<1>5. ASSUME Subscribe(Owner), life[Owner] = "joined"
      PROVE  Other(Owner) = g
  <2>1. life'[Owner] # life[Owner]
    BY <1>1, <1>5, LivesOf
  <2>2. Seated(g)
    BY <1>1, <1>2, <2>1, LivesOf
  <2>3. Other(Owner) # NoOne
    BY <1>1, <2>2, OtherIs
  <2>4. Other(Owner) \in Guests /\ Seated(Other(Owner))
    BY <1>1, <2>3, OtherIs
  <2> QED
    BY <1>3, <2>4
<1> QED
  BY <1>4, <1>5

\* Behind an event about the recipient that is seated there are others about it only.
LEMMA FirstOfMany ==
  ASSUME IInv, NEW g \in Guests, InOrder(g), inbox[Owner] # <<>>, Subject(First(Owner)) = g
  PROVE  \A e \in Range(inbox[Owner]) : Subject(e) = g
<1>1. inbox[Owner] \in Seq(EventsFor(Owner))
  BY Now, Distinct
<1>2. DOMAIN inbox[Owner] = 1..Len(inbox[Owner]) /\ Len(inbox[Owner]) \in Nat \ {0}
      /\ First(Owner) = inbox[Owner][1]
  BY <1>1, LenProperties, EmptySeq DEF First
<1>3. ASSUME NEW j \in DOMAIN inbox[Owner]
      PROVE  Subject(inbox[Owner][j]) = g
  <2>1. j = 1 \/ (1 \in DOMAIN inbox[Owner] /\ 1 < j)
    BY <1>2
  <2> QED
    BY <1>2, <2>1 DEF InOrder
<1> QED
  BY <1>3 DEF Range

LEMMA EventsInOrderStep ==
  ASSUME IInv, [Next]_vars, OneGuest, Strangers, EventsInOrder
  PROVE  EventsInOrder'
<1> SUFFICES ASSUME NEW g \in Guests, Seated(g)'
             PROVE  InOrder(g)'
  BY DEF EventsInOrder
<1>1. g \in Pages /\ g # Owner /\ Owner \in Pages /\ g # NoOne
  BY Distinct
<1>2. Seated(g) \/ (Join(g) /\ life[g] = "new")
  BY Seats DEF Join
<1>3. /\ \A n : News(Owner, n) => Subject(n) = g /\ n.type # "peer-left"
      /\ Subscribe(Owner) /\ life[Owner] = "joined" => Other(Owner) = g
  BY NewsOfSeated
<1>4. \/ InOrder(g)
      \/ page[Owner].remote # g /\ \A e \in Range(inbox[Owner]) : Subject(e) # g
  BY <1>2 DEF EventsInOrder, Strangers, Unmet
<1>5. About("room-state", Other(Owner)).type = "room-state"
      /\ Subject(About("room-state", Other(Owner))) = Other(Owner)
  BY SubjectOf
<1>6. ASSUME NEW e \in Range(inbox'[Owner]), Subject(e) = g
      PROVE  e.type # "peer-left"
  <2>1. CASE \E x \in Range(inbox[Owner]) : Look(e, x)
    BY <1>4, <1>6, <2>1 DEF Look, InOrder
  <2>2. CASE \E n : News(Owner, n) /\ life[Owner] = "streaming" /\ Look(e, n)
    BY <1>3, <2>2 DEF Look
  <2>3. CASE Subscribe(Owner) /\ life[Owner] = "joined" /\ e = About("room-state", Other(Owner))
    BY <1>5, <2>3
  <2> QED
    BY <1>1, <2>1, <2>2, <2>3, EventsCome
<1>7. ASSUME NEW i \in DOMAIN inbox'[Owner], NEW j \in DOMAIN inbox'[Owner], i < j,
             Subject(inbox'[Owner][i]) = g
      PROVE  Subject(inbox'[Owner][j]) = g
  <2>1. ASSUME NEW k \in DOMAIN inbox[Owner], NEW l \in DOMAIN inbox[Owner],
               k < l, Look(inbox'[Owner][i], inbox[Owner][k]), Look(inbox'[Owner][j], inbox[Owner][l])
        PROVE  Subject(inbox'[Owner][j]) = g
    <3>1. Subject(inbox[Owner][k]) = g /\ Subject(inbox'[Owner][j]) = Subject(inbox[Owner][l])
      BY <1>7, <2>1 DEF Look
    <3>2. inbox[Owner][k] \in Range(inbox[Owner])
      BY DEF Range
    <3> QED
      BY <1>4, <2>1, <3>1, <3>2 DEF InOrder
  <2>2. ASSUME NEW n, News(Owner, n), Look(inbox'[Owner][j], n)
        PROVE  Subject(inbox'[Owner][j]) = g
    BY <1>3, <2>2 DEF Look
  <2> QED
    BY <1>1, <1>7, <2>1, <2>2, EventsInTurn
<1>8. ASSUME page'[Owner].remote = g, NEW e \in Range(inbox'[Owner])
      PROVE  Subject(e) = g
  <2>1. page[Owner].remote = g \/ Meets(Owner)
    BY <1>1, <1>8, SessionSteps DEF SessionStep
  <2>2. \A x \in Range(inbox[Owner]) : Subject(x) = g
    <3>1. CASE page[Owner].remote = g
      BY <1>4, <3>1 DEF InOrder
    <3>2. CASE Meets(Owner)
      <4>1. inbox[Owner] # <<>> /\ Subject(First(Owner)) = g
        BY <1>8, <3>2 DEF Meets, Handles
      <4>2. inbox[Owner] \in Seq(EventsFor(Owner))
        BY <1>1, Now
      <4>3. First(Owner) \in Range(inbox[Owner])
        BY <4>1, <4>2, HasEvents DEF First
      <4>4. InOrder(g)
        BY <1>4, <4>1, <4>3
      <4> QED
        BY <4>1, <4>4, FirstOfMany
    <3> QED
      BY <2>1, <3>1, <3>2
  <2>3. CASE \E x \in Range(inbox[Owner]) : Look(e, x)
    BY <2>2, <2>3 DEF Look
  <2>4. CASE \E n : News(Owner, n) /\ life[Owner] = "streaming" /\ Look(e, n)
    BY <1>3, <2>4 DEF Look
  <2>5. CASE Subscribe(Owner) /\ life[Owner] = "joined" /\ e = About("room-state", Other(Owner))
    BY <1>3, <1>5, <2>5
  <2> QED
    BY <1>1, <2>3, <2>4, <2>5, EventsCome
<1> QED
  BY <1>6, <1>7, <1>8 DEF InOrder

-----------------------------------------------------------------------------
(* A recipient that waits for its offer *)

Waits(g) ==
  /\ Stays(g) /\ page[g].readySent /\ ~page[g].reconnect
  /\ conn[g].remote = NoDescription /\ conn[g].ops = <<>>

\* A recipient that seats itself next to the sender and waits knows the sender.
LEMMA WaitingKnows ==
  ASSUME IInv, KnowsTheSender, NEW g \in Guests, Waits(g)
  PROVE  page[g].remote = Owner /\ Seated(Owner) /\ Seated(g) /\ life[g] = "streaming"
         /\ Hears(g) /\ Writes(g) /\ BeforeOffer(g)
<1>1. Seated(Owner) /\ life[g] = "streaming"
  BY DEF Waits, Stays
<1> QED
  BY <1>1 DEF Waits, KnowsTheSender, Knows, Seated

\* A recipient begins to wait with a ready signal for the sender.
LEMMA WaitsStep ==
  ASSUME IInv, [Next]_vars, Strangers, KnowsTheSender, NEW g \in Guests, ~Waits(g), Waits(g)'
  PROVE  TellsReady(g)
<1>1. g \in Pages /\ g # Owner /\ Owner \in Pages
  BY Distinct
<1>2. /\ Stays(g)' /\ page'[g].readySent /\ ~page'[g].reconnect
      /\ conn'[g].remote = NoDescription /\ conn'[g].ops = <<>>
  BY DEF Waits
<1>3. Seated(Owner)'
  BY <1>2 DEF Stays
<1>4. SessionStep(g, page[g], page'[g])
  BY <1>1, SessionSteps
<1>5. page[g].readySent \/ TellsReady(g)
  BY <1>2, <1>4 DEF SessionStep
<1>6. CASE ~Stays(g)
  <2>1. life[g] = "joined"
    BY <1>2, <1>6, Seats
  <2> QED
    BY <1>5, <2>1 DEF Strangers, Unmet
<1>7. CASE page[g].reconnect
  <2>1. page'[g].remote # NoOne
    BY <1>1, <1>2, <1>3, KnowsStep, Distinct DEF Knows
  <2>2. LinkUp(g) \/ TellsReady(g)
    BY <1>1, <1>2, <1>4, <1>7, <2>1 DEF SessionStep
  <2>3. ~LinkUp(g)
    <3> SUFFICES ASSUME LinkUp(g)
                 PROVE  FALSE
      OBVIOUS
    <3>1. Paired(g)
      BY <1>1 DEF LinkUp, Connectable
    <3>2. Grown(g, conn[g], conn'[g])
      BY <1>1, PlainConnection
    <3> QED
      BY <1>2, <3>1, <3>2 DEF Paired, Grown
  <2> QED
    BY <2>2, <2>3
<1>8. CASE Resets(g)
  <2>1. ~ClosePage(g)
    BY <1>1, <1>2, LivesOf DEF Stays
  <2>2. ~PeerLeft(g)
    BY <1>3, SenderStays
  <2> QED
    BY <1>1, <1>2, <1>8, <2>1, <2>2, ReconnectSession DEF Resets
<1>9. CASE ~Resets(g) /\ ~(conn[g].remote = NoDescription /\ conn[g].ops = <<>>)
  <2>1. conn[g].remote = NoDescription
    BY <1>2, <1>9, GuestRemoteStep
  <2>2. NoOffer(g)
    BY <1>3, <2>1, SenderStays DEF BeforeOffer
  <2> QED
    BY <1>2, <1>9, <2>1, <2>2, NoOfferStep
<1> QED
  BY <1>5, <1>6, <1>7, <1>8, <1>9 DEF Waits

-----------------------------------------------------------------------------
(* The ready signal of a recipient that waits *)

IsReady(g, s) == s.kind = "ready" /\ s.from = g /\ s.to \in {Owner, NoOne}

\* It is on its way to the sender, or in the queue, however blocked.
Announcing(g) ==
  \/ \E e \in Range(inbox[Owner]) : e.type = "signal" /\ IsReady(g, e.signal)
  \/ \E s \in Range(page[g].retries) : IsReady(g, s)
  \/ \E m \in posts : m.by \notin Loops /\ IsReady(g, m.signal)

\* The sender has yet to handle that somebody left.
LeftBehind == \E e \in Range(inbox[Owner]) : e.type = "peer-left"

ReadyIsKept == \A g \in Guests : Waits(g) /\ LeftBehind => Announcing(g)

LEMMA ReadyLike ==
  ASSUME NEW g, NEW s, NEW t, SameLook(s, t), IsReady(g, t)
  PROVE  IsReady(g, s)
BY DEF SameLook, IsReady

\* What the server gets to of a seated recipient is on the sender's stream.
LEMMA ReadyServed ==
  ASSUME IInv, NEW g \in Guests, Seated(g), life[Owner] = "streaming",
         NEW m \in posts, Serve(m), IsReady(g, m.signal)
  PROVE  Announcing(g)'
<1>1. Owner \in Pages /\ Owner # g /\ Seated(Owner)
  BY Distinct DEF Seated
<1>2. Carrying(m.signal) \in Range(inbox'[Owner])
  BY <1>1, ServedStream DEF IsReady
<1>3. Carrying(m.signal).type = "signal" /\ Carrying(m.signal).signal = m.signal
  BY SubjectOf
<1> QED
  BY <1>2, <1>3 DEF Announcing

\* Until it has an offer a recipient writes ready signals to the sender only.
LEMMA WaitingWrites ==
  ASSUME IInv, KnowsTheSender, NEW g \in Guests, Waits(g),
         NEW m \in posts, m.signal.from = g, m.by # Abandoned
  PROVE  IsReady(g, m.signal)
<1>1. Writes(g) /\ BeforeOffer(g) /\ conn[g].remote = NoDescription
  BY WaitingKnows DEF Waits
<1> QED
  BY <1>1 DEF Writes, BeforeOffer, IsReady

LEMMA WaitingStays ==
  ASSUME IInv, [Next]_vars, KnowsTheSender, NEW g \in Guests, Waits(g), Waits(g)'
  PROVE  ~Closes(g)
<1>1. g \in Pages /\ Seated(Owner)' /\ Stays(g)'
  BY Distinct DEF Waits, Stays
<1>2. ~ClosePage(g)
  BY <1>1, LivesOf DEF Stays
<1>3. ~PeerLeft(g)
  BY <1>1, SenderStays
<1>4. ~PeerReconnectFires(g)
  BY DEF Waits, PeerReconnectFires
<1> QED
  BY <1>2, <1>3, <1>4 DEF Closes

LEMMA ReadyIsKeptStep ==
  ASSUME IInv, [Next]_vars, Meeting, ReadyIsKept
  PROVE  ReadyIsKept'
<1> SUFFICES ASSUME NEW g \in Guests, Waits(g)', LeftBehind'
             PROVE  Announcing(g)'
  BY DEF ReadyIsKept
<1>1. g \in Pages /\ g # Owner /\ Owner \in Pages
  BY Distinct
<1>2. OneGuest /\ InStreams /\ Strangers /\ KnowsTheSender /\ EventsInOrder
  BY DEF Meeting
<1>3. Seated(g)' /\ Seated(Owner)' /\ inbox'[Owner] # <<>>
  BY RangeEmpty DEF Waits, Stays, Seated, LeftBehind
<1>4. CASE ~Waits(g)
  <2>1. TellsReady(g)
    BY <1>2, <1>4, WaitsStep
  <2>2. page'[g].remote = Owner
    BY <1>2, <1>3, <2>1, KnowsStep DEF Knows, TellsReady
  <2>3. Posted(Ready(g, Owner)) \in posts'
    BY <2>1, <2>2 DEF TellsReady
  <2> QED
    BY <2>3, ReadyLooks, ByDistinct DEF Announcing, IsReady
<1>5. CASE Waits(g)
  <2>1. LeftBehind
    <3>1. PICK e \in Range(inbox'[Owner]) : e.type = "peer-left"
      BY DEF LeftBehind
    <3>2. \A n : News(Owner, n) => n.type # "peer-left"
      BY <1>2, <1>3, NewsOfSeated
    <3>3. e # About("room-state", Other(Owner))
      BY <3>1, SubjectOf
    <3>4. PICK x \in Range(inbox[Owner]) : Look(e, x)
      BY <1>1, <3>1, <3>2, <3>3, EventsCome DEF Look
    <3> QED
      BY <3>1, <3>4 DEF LeftBehind, Look
  <2>2. Announcing(g) /\ inbox[Owner] # <<>> /\ life[Owner] = "streaming"
    BY <1>1, <1>2, <1>5, <2>1, RangeEmpty DEF ReadyIsKept, LeftBehind, InStreams
  <2>3. Seated(g) /\ ~Closes(g)
    BY <1>2, <1>5, WaitingKnows, WaitingStays
  <2>4. ASSUME NEW e \in Range(inbox[Owner]), e.type = "signal", IsReady(g, e.signal)
        PROVE  Announcing(g)'
    <3>1. ~(EventHandled(Owner) /\ e = First(Owner))
      <4> SUFFICES ASSUME e = First(Owner)
                   PROVE  FALSE
        OBVIOUS
      <4>1. Subject(First(Owner)) = g
        BY <2>4 DEF Subject, IsReady
      <4>2. InOrder(g)
        BY <1>2, <2>3 DEF EventsInOrder
      <4>3. \A x \in Range(inbox[Owner]) : Subject(x) = g
        BY <2>2, <4>1, <4>2, FirstOfMany
      <4> QED
        BY <2>1, <4>2, <4>3 DEF LeftBehind, InOrder
    <3>2. ~StreamLost /\ ~ClosePage(Owner) /\ life[Owner] # "joined"
      BY <1>1, <1>3, <2>2, LivesOf
    <3>3. PICK x \in Range(inbox'[Owner]) : Look(x, e)
      BY <1>1, <3>1, <3>2, EventsStay
    <3>4. x.type = "signal" /\ IsReady(g, x.signal)
      BY <2>4, <3>3, ReadyLike DEF Look
    <3> QED
      BY <3>4 DEF Announcing
  <2>5. ASSUME NEW s \in Range(page[g].retries), IsReady(g, s)
        PROVE  Announcing(g)'
    <3>1. CASE \E x \in Range(page'[g].retries) : SameLook(x, s)
      BY <2>5, <3>1, ReadyLike DEF Announcing
    <3>2. CASE PostEnds(g)
      <4>1. PICK n \in posts : n.signal.from = g /\ (Serve(n) \/ GiveUp(n))
        BY <3>2 DEF PostEnds
      <4>2. n.by # Abandoned => IsReady(g, n.signal)
        BY <1>2, <1>5, <4>1, WaitingWrites
      <4>3. CASE Range(page[g].retries) \subseteq Range(page'[g].retries)
        BY <2>5, <4>3 DEF Announcing
      <4>4. CASE n.by = Direct /\ n.signal \in Range(page'[g].retries)
        BY <4>2, <4>4, ByDistinct DEF Announcing
      <4>5. CASE n.by \in Loops /\ Serve(n)
        <5>1. IsReady(g, n.signal)
          BY <4>2, <4>5, ByDistinct
        <5> QED
          BY <2>2, <2>3, <4>5, <5>1, ReadyServed
      <4> QED
        BY <4>1, <4>3, <4>4, <4>5, PostingQueue
    <3> QED
      BY <1>1, <2>3, <3>1, <3>2, QueueStays
  <2>6. ASSUME NEW m \in posts, m.by \notin Loops, IsReady(g, m.signal)
        PROVE  Announcing(g)'
    <3>1. CASE Serve(m)
      BY <2>2, <2>3, <2>6, <3>1, ReadyServed
    <3>2. CASE GiveUp(m)
      <4>1. m.by = Direct
        BY <2>6, <3>2, PostTypes DEF GiveUp
      <4>2. m.signal \in Range(page'[g].retries)
        BY <2>6, <3>2, <4>1, PostingQueue DEF IsReady
      <4> QED
        BY <2>6, <4>2 DEF Announcing
    <3>3. CASE \E x \in posts' : SameLook(x.signal, m.signal) /\ x.by \in {m.by, Abandoned}
      <4>1. PICK x \in posts' : SameLook(x.signal, m.signal) /\ x.by \in {m.by, Abandoned}
        BY <3>3
      <4>2. x.by \notin Loops /\ IsReady(g, x.signal)
        BY <2>6, <4>1, ByDistinct, ReadyLike
      <4> QED
        BY <4>2 DEF Announcing
    <3> QED
      BY <3>1, <3>2, <3>3, PostsStay
  <2> QED
    BY <2>2, <2>4, <2>5, <2>6 DEF Announcing
<1> QED
  BY <1>4, <1>5

-----------------------------------------------------------------------------
(* A recipient stalls in the named ways only *)

StallInv == Meeting /\ OffersAreMade /\ ReadyIsKept

LEMMA StallInvInit == Init => StallInv
<1> SUFFICES ASSUME Init
             PROVE  StallInv
  OBVIOUS
<1>1. \A p \in Pages : /\ inbox[p] = <<>> /\ Range(inbox[p]) = {}
                       /\ page[p] = NewPage /\ conn[p] = NoConnection /\ tasks[p] = {}
                       /\ life[p] = IF p = Owner THEN "streaming" ELSE "new"
  BY RangeEmpty DEF Init
<1>2. posts = {}
  BY DEF Init
<1>3. NewPage.remote = NoOne /\ ~NewPage.readySent /\ ~NewPage.reconnect /\ NewPage.retries = <<>>
  BY DEF NewPage
<1>4. NoConnection.ops = <<>> /\ NoConnection.remote = NoDescription
  BY DEF NoConnection, NewConnection
<1>5. \A g \in Guests : ~Seated(g) /\ ~Waits(g) /\ g \in Pages /\ g # NoOne
  BY <1>1, Distinct DEF Seated, Waits, Stays
<1>6. OneGuest /\ InStreams /\ EventsInOrder /\ ReadyIsKept
  BY <1>1, <1>5 DEF OneGuest, InStreams, EventsInOrder, ReadyIsKept
<1>7. Strangers
  BY <1>1, <1>3, <1>5, Distinct DEF Strangers, Unmet
<1>8. ASSUME NEW g \in Guests
      PROVE  Hears(g) /\ Knows(g) /\ Writes(g) /\ BeforeOffer(g)
  <2>1. Hears(g) /\ Knows(g)
    BY <1>1, <1>3, <1>5 DEF Hears, Knows
  <2>2. Writes(g)
    BY <1>1, <1>2, <1>3, <1>5, RangeEmpty DEF Writes
  <2>3. NoOffer(g)
    BY <1>1, <1>4, <1>5, RangeEmpty DEF NoOffer
  <2>4. BeforeOffer(g)
    BY <1>1, <1>2, <1>3, <1>5, <2>3, RangeEmpty DEF BeforeOffer
  <2> QED
    BY <2>1, <2>2, <2>4
<1>9. OffersAreMade
  BY <1>1, Distinct DEF OffersAreMade
<1> QED
  BY <1>6, <1>7, <1>8, <1>9 DEF StallInv, Meeting, KnowsTheSender

LEMMA StallInvStep ==
  ASSUME IInv, [Next]_vars, StallInv
  PROVE  StallInv'
<1>1. Meeting /\ OneGuest /\ InStreams /\ Strangers /\ KnowsTheSender /\ EventsInOrder
      /\ OffersAreMade /\ ReadyIsKept
  BY DEF StallInv, Meeting
<1>2. OneGuest' /\ InStreams' /\ Strangers'
  BY <1>1, OneGuestStep, InStreamsStep, StrangersStep
<1>3. KnowsTheSender' /\ EventsInOrder'
  BY <1>1, KnowsTheSenderStep, EventsInOrderStep
<1>4. OffersAreMade' /\ ReadyIsKept'
  BY <1>1, OffersMadeStep, ReadyIsKeptStep
<1> QED
  BY <1>2, <1>3, <1>4 DEF StallInv, Meeting

\* The two kinds of signal that a waiting recipient needs, wherever they are.
ReadyComes(g) == Announcing(g) \/ \E m \in posts : IsReady(g, m.signal)

IsOffer(g, s) ==
  s.kind = "offer" /\ s.from = Owner /\ s.to \in {g, NoOne} /\ s.body # NoDescription
OfferComes(g) ==
  \/ \E m \in posts : IsOffer(g, m.signal)
  \/ \E e \in Range(inbox[g]) : e.type = "signal" /\ IsOffer(g, e.signal)
  \/ \E s \in Range(page[Owner].retries) : IsOffer(g, s)

LEMMA OfferLike ==
  ASSUME NEW g, NEW s, NEW t, SameLook(s, t), IsOffer(g, t)
  PROVE  IsOffer(g, s)
BY DEF SameLook, IsOffer

\* Before the step the recipient waits for what is coming.
LEMMA ComesNow ==
  ASSUME NEW g \in Guests
  PROVE  /\ Comes("ready", g, Owner) => ReadyComes(g)
         /\ Comes("offer", Owner, g) => OfferComes(g)
BY DEF Comes, ReadyComes, Announcing, OfferComes, IsReady, IsOffer

\* After it nothing is coming, and the sender's queue is not blocked.
LEMMA ComesNext ==
  ASSUME NEW g \in Guests, Writes(g)', Seated(Owner)', ~Blocked(Owner)'
  PROVE  /\ ReadyComes(g)' => Comes("ready", g, Owner)'
         /\ OfferComes(g)' => Comes("offer", Owner, g)'
<1>1. ~Blocked(g)'
  BY Distinct DEF Blocked, Writes, Members
<1>2. ReadyComes(g)' => Comes("ready", g, Owner)'
  BY <1>1 DEF Comes, ReadyComes, Announcing, IsReady
<1>3. OfferComes(g)' => Comes("offer", Owner, g)'
  BY DEF Comes, OfferComes, IsOffer
<1> QED
  BY <1>2, <1>3

\* A signal of page p to the other of the two seated pages that is neither queued,
\* posted nor on the other's stream when a post of p has ended is lost.
LEMMA UnsentIsLost ==
  ASSUME IInv', OneGuest', InStreams', NEW g \in Guests, Seated(g)',
         NEW p \in {Owner, g}, NEW q \in {Owner, g}, p # q, PostEnds(p),
         NEW s \in Unsent(p), s.from = p, s \notin Range(page'[p].retries),
         \A m \in posts' : m.signal # s, Carrying(s) \notin Range(inbox'[q])
  PROVE  Loses(p)
<1>1. g \in Pages /\ Owner \in Pages /\ Guests = Pages \ {Owner}
  BY Distinct
<1>2. s \notin Unsent(p)'
  BY DEF Unsent
<1>3. ASSUME NEW r \in Pages
      PROVE  Carrying(s) \notin Range(inbox'[r])
  <2>1. CASE r = p
    <3>1. inbox'[p] \in Seq(EventsFor(p))
      BY <1>1 DEF IInv, Sound, SoundInboxes
    <3>2. Range(inbox'[p]) \subseteq EventsFor(p)
      BY <3>1, Ranges
    <3> QED
      BY <2>1, <3>2, SubjectOf DEF EventsFor
  <2>2. CASE r \notin {p, q}
    <3>1. r \in Guests /\ r # g
      BY <1>1, <2>2
    <3>2. ~Seated(r)'
      BY <3>1 DEF OneGuest
    <3>3. inbox'[r] = <<>>
      BY <3>2 DEF InStreams, Seated
    <3> QED
      BY <3>3, RangeEmpty
  <2> QED
    BY <2>1, <2>2
<1>4. \E m \in posts : m.signal.from = p /\ (Serve(m) \/ GiveUp(m))
  BY DEF PostEnds
<1> QED
  BY <1>2, <1>3, <1>4 DEF Loses

\* The ready signal of a recipient that goes on waiting does not get lost silently.
LEMMA ReadyEnds ==
  ASSUME IInv, IInv', [Next]_vars, StallInv, StallInv', NEW g \in Guests,
         Waits(g), Waits(g)', ReadyComes(g), ~ReadyComes(g)', ~OfferInTheMaking(g)',
         ~(ReceiveReady(Owner) /\ conn[Owner].local # NoDescription), ~StreamLost,
         life[Owner] # "joined"
  PROVE  Loses(g)
<1>1. g \in Pages /\ g # Owner /\ Owner \in Pages
  BY Distinct
<1>2. OneGuest' /\ InStreams' /\ KnowsTheSender /\ KnowsTheSender'
  BY DEF StallInv, Meeting
<1>3. Seated(g)' /\ Seated(Owner)' /\ Seated(g) /\ life[Owner] = "streaming" /\ ~Closes(g)
  BY <1>2, WaitingKnows, WaitingStays DEF Waits, Stays, Seated
<1>4. /\ \A m \in posts' : ~IsReady(g, m.signal)
      /\ \A e \in Range(inbox'[Owner]) : e.type = "signal" => ~IsReady(g, e.signal)
      /\ \A s \in Range(page'[g].retries) : ~IsReady(g, s)
      /\ ~Announcing(g)'
  BY DEF ReadyComes, Announcing
<1>5. ASSUME NEW s \in Unsent(g), IsReady(g, s), PostEnds(g)
      PROVE  Loses(g)
  <2>1. Carrying(s) \notin Range(inbox'[Owner])
    BY <1>4, <1>5, SubjectOf
  <2>2. s.from = g /\ s \notin Range(page'[g].retries) /\ \A m \in posts' : m.signal # s
    BY <1>4, <1>5 DEF IsReady
  <2> QED
    BY <1>1, <1>2, <1>3, <1>5, <2>1, <2>2, UnsentIsLost
<1>6. ASSUME NEW m \in posts, IsReady(g, m.signal)
      PROVE  Loses(g)
  <2>1. ~Serve(m)
    BY <1>3, <1>4, <1>6, ReadyServed
  <2>2. ~\E x \in posts' : SameLook(x.signal, m.signal) /\ x.by \in {m.by, Abandoned}
    BY <1>4, <1>6, ReadyLike
  <2>3. GiveUp(m)
    BY <2>1, <2>2, PostsStay
  <2>4. m.signal.from = g
    BY <1>6 DEF IsReady
  <2>5. PostEnds(g) /\ m.signal \in Unsent(g)
    BY <2>3, <2>4 DEF PostEnds, Unsent
  <2> QED
    BY <1>5, <1>6, <2>5
<1>7. ASSUME NEW e \in Range(inbox[Owner]), e.type = "signal", IsReady(g, e.signal)
      PROVE  FALSE
  <2>1. ~\E x \in Range(inbox'[Owner]) : Look(x, e)
    BY <1>4, <1>7, ReadyLike DEF Look
  <2>2. ~ClosePage(Owner)
    BY <1>1, <1>3, LivesOf DEF Seated
  <2>3. EventHandled(Owner) /\ e = First(Owner)
    BY <1>1, <1>3, <2>1, <2>2, EventsStay
  <2>4. ReceiveReady(Owner)
    BY <1>7, <2>3 DEF EventHandled, RoomState, PeerJoined, PeerLeft, ReceiveOffer, ReceiveAnswer,
                      ReceiveCandidate, Receives, IsReady
  <2>5. page'[Owner].remote = g /\ \E o \in Range(conn'[Owner].ops) : o.op = "offer"
    BY <1>7, <2>3, <2>4, ReadyAnswered DEF IsReady
  <2> QED
    BY <2>5 DEF OfferInTheMaking
<1>8. ASSUME NEW s \in Range(page[g].retries), IsReady(g, s)
      PROVE  Loses(g)
  <2>1. ~\E x \in Range(page'[g].retries) : SameLook(x, s)
    BY <1>4, <1>8, ReadyLike
  <2>2. PostEnds(g)
    BY <1>1, <1>3, <2>1, QueueStays
  <2>3. s \in Unsent(g)
    BY DEF Unsent
  <2> QED
    BY <1>5, <1>8, <2>2, <2>3
<1> QED
  BY <1>6, <1>7, <1>8 DEF ReadyComes, Announcing

\* The sender gives up its link with a recipient that stays by its timer only.
LEMMA SenderResets ==
  ASSUME IInv, [Next]_vars, NEW g \in Guests, Stays(g)', InOrder(g),
         page[Owner].remote = g
  PROVE  /\ Resets(Owner) => PeerReconnectFires(Owner)
         /\ page'[Owner].remote = g
<1>1. Owner \in Pages /\ g # NoOne
  BY Distinct
<1>2. ~ClosePage(Owner)
  BY <1>1, LivesOf DEF Stays, Seated
<1>3. inbox[Owner] # <<>> => Subject(First(Owner)) = g /\ First(Owner).type # "peer-left"
  <2>1. inbox[Owner] \in Seq(EventsFor(Owner))
    BY <1>1, Now
  <2>2. inbox[Owner] # <<>> => First(Owner) \in Range(inbox[Owner])
    BY <2>1, HasEvents DEF First
  <2> QED
    BY <2>2 DEF InOrder
<1>4. ~PeerLeft(Owner)
  BY <1>3 DEF PeerLeft
<1>5. SessionStep(Owner, page[Owner], page'[Owner])
  BY <1>1, SessionSteps
<1>6. page'[Owner].remote = g
  BY <1>2, <1>3, <1>4, <1>5 DEF SessionStep, Meets, Handles
<1> QED
  BY <1>2, <1>4, <1>6 DEF Resets

LEMMA OfferPosted ==
  ASSUME IInv, NEW t \in tasks[Owner], PostDescription(Owner, t), conn[Owner] # NoConnection,
         conn[Owner].local # NoDescription, NEW g \in Guests, page[Owner].remote = g
  PROVE  \E m \in posts' : IsOffer(g, m.signal)
<1>1. t.step = "export" /\ t \in TasksOf(Owner)
  BY Now, Distinct, PostDescriptionIs
<1>2. t.signal.kind = "offer"
  BY <1>1 DEF TasksOf
<1> DEFINE s == Described("offer", Owner, g, conn[Owner].local)
<1>3. Posted(s) \in posts'
  BY <1>2 DEF PostDescription
<1>4. IsOffer(g, Posted(s).signal)
  BY DEF IsOffer, Posted, Described
<1> QED
  BY <1>3, <1>4

\* An offer that is being made is made, and posted.
LEMMA MakingEnds ==
  ASSUME IInv, IInv', [Next]_vars, StallInv, StallInv', NEW g \in Guests,
         Waits(g), Waits(g)', OfferInTheMaking(g), ~PeerReconnectFires(Owner)
  PROVE  OfferInTheMaking(g)' \/ OfferComes(g)'
<1>1. Owner \in Pages /\ Owner # NoOne
  BY Distinct
<1>2. KnowsTheSender /\ EventsInOrder /\ OffersAreMade /\ OffersAreMade'
  BY DEF StallInv, Meeting
<1>3. InOrder(g) /\ Stays(g)' /\ page[Owner].remote = g
  BY <1>2, WaitingKnows DEF EventsInOrder, Waits, OfferInTheMaking
<1>4. ~Resets(Owner) /\ page'[Owner].remote = g
  BY <1>3, SenderResets
<1>5. /\ conn[Owner].local # NoDescription \/ conn[Owner].id # NoOne =>
           conn[Owner].id = Owner /\ conn[Owner] # NoConnection
      /\ (conn[Owner].local # NoDescription => conn[Owner].id = Owner)'
  <2>1. NoConnection.local = NoDescription /\ NoConnection.id = NoOne
    BY DEF NoConnection, NewConnection
  <2>2. SoundConnection(Owner, conn[Owner]) /\ SoundConnection(Owner, conn'[Owner])
    BY <1>1 DEF IInv, Sound, SoundConnections
  <2> QED
    BY <2>1, <2>2 DEF SoundConnection
<1>6. Exports(tasks'[Owner]) => OfferInTheMaking(g)'
  BY <1>2, <1>4, <1>5 DEF Exports, OffersAreMade, OfferInTheMaking
<1>7. CASE Offers(Owner)
  <2>1. Offers(Owner)' => OfferInTheMaking(g)'
    BY <1>4 DEF Offers, OfferInTheMaking
  <2> QED
    BY <1>4, <1>6, <1>7, <2>1, OffersStep
<1>8. ASSUME NEW t \in tasks[Owner], t.step = "export", t.id = conn[Owner].id
      PROVE  OfferInTheMaking(g)' \/ OfferComes(g)'
  <2>1. t.id # NoOne
    BY <1>2, <1>8 DEF OffersAreMade
  <2>2. t.id = Owner /\ conn[Owner] # NoConnection
    BY <1>5, <1>8, <2>1
  <2>3. conn[Owner].local # NoDescription
    BY <1>2, <1>8, <2>2 DEF OffersAreMade
  <2>4. PostDescription(Owner, t) => OfferComes(g)'
    BY <1>3, <2>2, <2>3, OfferPosted DEF OfferComes
  <2> QED
    BY <1>4, <1>6, <1>8, <2>2, <2>4, ExportsStep
<1> QED
  BY <1>7, <1>8 DEF OfferInTheMaking, Offers

\* Nor does an offer on its way to it.
LEMMA OfferEnds ==
  ASSUME IInv, IInv', [Next]_vars, StallInv, StallInv', NEW g \in Guests,
         Waits(g), Waits(g)', OfferComes(g), ~OfferComes(g)', ~ReadyComes(g),
         ~PeerReconnectFires(Owner)
  PROVE  Loses(Owner)
<1>1. g \in Pages /\ g # Owner /\ Owner \in Pages
  BY Distinct
<1>2. OneGuest' /\ InStreams' /\ KnowsTheSender /\ ReadyIsKept
  BY DEF StallInv, Meeting
<1>3. Seated(g)' /\ Seated(Owner)' /\ Seated(g) /\ Seated(Owner) /\ life[g] = "streaming" /\ ~Closes(g)
  BY <1>2, WaitingKnows, WaitingStays DEF Waits, Stays, Seated
<1>4. /\ \A m \in posts' : ~IsOffer(g, m.signal)
      /\ \A e \in Range(inbox'[g]) : e.type = "signal" => ~IsOffer(g, e.signal)
      /\ \A s \in Range(page'[Owner].retries) : ~IsOffer(g, s)
  BY DEF OfferComes
<1>5. ASSUME NEW s \in Unsent(Owner), IsOffer(g, s), PostEnds(Owner)
      PROVE  Loses(Owner)
  <2>1. Carrying(s) \notin Range(inbox'[g])
    BY <1>4, <1>5, SubjectOf
  <2>2. s.from = Owner /\ s \notin Range(page'[Owner].retries) /\ \A m \in posts' : m.signal # s
    BY <1>4, <1>5 DEF IsOffer
  <2> QED
    BY <1>1, <1>2, <1>3, <1>5, <2>1, <2>2, UnsentIsLost
<1>6. ASSUME NEW m \in posts, IsOffer(g, m.signal)
      PROVE  Loses(Owner)
  <2>1. ~Serve(m)
    <3>1. Serve(m) => Carrying(m.signal) \in Range(inbox'[g])
      BY <1>1, <1>3, <1>6, ServedStream DEF IsOffer
    <3> QED
      BY <1>4, <1>6, <3>1, SubjectOf
  <2>2. ~\E x \in posts' : SameLook(x.signal, m.signal) /\ x.by \in {m.by, Abandoned}
    BY <1>4, <1>6, OfferLike
  <2>3. GiveUp(m)
    BY <2>1, <2>2, PostsStay
  <2>4. m.signal.from = Owner
    BY <1>6 DEF IsOffer
  <2>5. PostEnds(Owner) /\ m.signal \in Unsent(Owner)
    BY <2>3, <2>4 DEF PostEnds, Unsent
  <2> QED
    BY <1>5, <1>6, <2>5
<1>7. ASSUME NEW e \in Range(inbox[g]), e.type = "signal", IsOffer(g, e.signal)
      PROVE  FALSE
  <2>1. ~\E x \in Range(inbox'[g]) : Look(x, e)
    BY <1>4, <1>7, OfferLike DEF Look
  <2>2. EventHandled(g) /\ e = First(g)
    BY <1>1, <1>3, <2>1, EventsStay DEF Closes
  <2>3. ReceiveOffer(g) /\ First(g).signal.body # NoDescription
    BY <1>7, <2>2 DEF EventHandled, RoomState, PeerJoined, PeerLeft, ReceiveReady, ReceiveAnswer,
                      ReceiveCandidate, Receives, IsOffer
  <2>4. conn'[g].ops # <<>>
    BY <1>1, <2>3, OfferTaken
  <2> QED
    BY <2>4 DEF Waits
<1>8. ASSUME NEW s \in Range(page[Owner].retries), IsOffer(g, s)
      PROVE  Loses(Owner)
  <2>1. ~\E x \in Range(page'[Owner].retries) : SameLook(x, s)
    BY <1>4, <1>8, OfferLike
  <2>2. ~ClosePage(Owner)
    BY <1>1, <1>3, LivesOf DEF Seated
  <2>3. ~PeerLeft(Owner)
    <3> SUFFICES ASSUME PeerLeft(Owner)
                 PROVE  FALSE
      OBVIOUS
    <3>1. inbox[Owner] # <<>> /\ First(Owner).type = "peer-left"
      BY DEF PeerLeft
    <3>2. inbox[Owner] \in Seq(EventsFor(Owner))
      BY <1>1, Now
    <3>3. First(Owner) \in Range(inbox[Owner])
      BY <3>1, <3>2, HasEvents DEF First
    <3>4. Announcing(g)
      BY <1>2, <3>1, <3>3 DEF ReadyIsKept, LeftBehind
    <3> QED
      BY <3>4 DEF ReadyComes
  <2>4. PostEnds(Owner)
    BY <1>1, <2>1, <2>2, <2>3, QueueStays DEF Closes
  <2>5. s \in Unsent(Owner)
    BY DEF Unsent
  <2> QED
    BY <1>5, <1>8, <2>4, <2>5
<1> QED
  BY <1>6, <1>7, <1>8 DEF OfferComes

LEMMA StallsStep ==
  ASSUME IInv, IInv', [Next]_vars, StallInv, StallInv', NEW g \in Guests,
         ~Stalled(g), Stalled(g)',
         ~(ReceiveReady(Owner) /\ conn[Owner].local # NoDescription), ~PeerReconnectFires(Owner),
         life[Owner] # "joined", ~StreamLost, ~Blocked(Owner)'
  PROVE  Loses(Owner) \/ Loses(g)
<1>1. /\ Waits(g)' /\ ~OfferInTheMaking(g)'
      /\ ~Comes("ready", g, Owner)' /\ ~Comes("offer", Owner, g)'
  BY DEF Stalled, Waits
<1>2. Strangers /\ KnowsTheSender /\ KnowsTheSender' /\ g \in Pages
  BY Distinct DEF StallInv, Meeting
<1>3. Seated(Owner)' /\ Knows(g)' /\ Writes(g)'
  BY <1>1, <1>2 DEF Waits, Stays, KnowsTheSender
<1>4. ~ReadyComes(g)' /\ ~OfferComes(g)'
  BY <1>1, <1>3, ComesNext
<1>5. Waits(g)
  <2> SUFFICES ASSUME ~Waits(g)
               PROVE  FALSE
    OBVIOUS
  <2>1. TellsReady(g)
    BY <1>1, <1>2, WaitsStep
  <2>2. page'[g].remote = Owner
    BY <1>3, <2>1 DEF Knows, TellsReady
  <2>3. Posted(Ready(g, Owner)) \in posts'
    BY <2>1, <2>2 DEF TellsReady
  <2>4. IsReady(g, Posted(Ready(g, Owner)).signal)
    BY ReadyLooks DEF IsReady
  <2> QED
    BY <1>4, <2>3, <2>4 DEF ReadyComes
<1>6. ReadyComes(g) \/ OfferComes(g) \/ OfferInTheMaking(g)
  BY <1>5, ComesNow DEF Stalled, Waits
<1>7. ReadyComes(g) => Loses(g)
  BY <1>1, <1>4, <1>5, ReadyEnds
<1>8. OfferComes(g) /\ ~ReadyComes(g) => Loses(Owner)
  BY <1>1, <1>4, <1>5, OfferEnds
<1>9. ~OfferInTheMaking(g)
  BY <1>1, <1>4, <1>5, MakingEnds
<1> QED
  BY <1>6, <1>7, <1>8, <1>9

\* Whatever the two pages' timers, retries, resets and awaits do, a recipient stalls
\* in the ways that StallsOnlyBy names and in no other.
THEOREM StallsAreNamed == Spec => StallsOnlyBy
<1>1. ASSUME IInv, IInv', StallInv, StallInv', [Next]_vars
      PROVE  [\A g \in Guests : ~Stalled(g) /\ Stalled(g)' =>
                \/ ReceiveReady(Owner) /\ conn[Owner].local # NoDescription
                \/ PeerReconnectFires(Owner)
                \/ life[Owner] = "joined" \/ StreamLost
                \/ Blocked(Owner)'
                \/ Loses(Owner) \/ Loses(g)]_vars
  BY <1>1, StallsStep
<1>2. IInv /\ StallInv /\ [Next]_vars => StallInv'
  BY StallInvStep
<1>3. Init => StallInv
  BY StallInvInit
<1>4. Spec => []IInv
  BY Inductive
<1> QED
  BY <1>1, <1>2, <1>3, <1>4, PTL DEF Spec, StallsOnlyBy
=============================================================================
