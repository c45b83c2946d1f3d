--------------------------- MODULE PeerLinkProofs ---------------------------
(***************************************************************************)
(* What PeerLink promises of the two pages' signals, for every number of   *)
(* recipients, queue limit, number of retry loops and failures: no retry   *)
(* queue with a signal in it is left without a timer or a loop, and two    *)
(* linked pages have one key.                                              *)
(***************************************************************************)
EXTENDS PeerLink, SequenceTheorems, WellFoundedInduction, TLAPS

-----------------------------------------------------------------------------
(* The inductive invariant *)

Op == [op : {"offer", "remote", "answer"}, signal : Signal]
Await == [step : {"derive", "export"}, id : Names, signal : Signal]

\* Offers are the sender's.  An answer is a recipient's, for the sender, and what
\* it describes is a connection of that recipient, or none.
Genuine(s) ==
  /\ s.kind = "offer" => s.from = Owner
  /\ s.kind = "answer" =>
       /\ s.from \in Guests /\ s.to = Owner
       /\ s.body # NoDescription => s.body.answer \in {s.from, Stale}
GenuineSignal == {s \in Signal : Genuine(s)}
SignalsFrom(p) == {s \in GenuineSignal : s.from = p}
GenuinePost == {m \in Post : Genuine(m.signal)}

\* Nobody is told its own signals, and only the sender is told an answer.
EventsFor(p) ==
  {e \in Event : e.type = "signal" =>
                   /\ Genuine(e.signal) /\ e.signal.from # p
                   /\ e.signal.kind = "answer" => p = Owner}

\* A description that page p works on: the sender on an answer, a recipient on an
\* offer.
Incoming(p, s) ==
  /\ Genuine(s)
  /\ s.body # NoDescription
  /\ s.kind = IF p = Owner THEN "answer" ELSE "offer"

\* What a page awaits of its connection and of crypto.subtle is about such signals,
\* or about its own.
OpsOf(p) ==
  {o \in Op : /\ o.op = "offer" => p = Owner
              /\ o.op # "offer" => Incoming(p, o.signal)
              /\ o.op = "answer" => p # Owner}
TasksOf(p) ==
  {t \in Await :
     /\ t.step = "derive" => Incoming(p, t.signal) /\ t.id # NoOne
     /\ t.step = "export" =>
          /\ t.signal.from = p
          /\ IF p = Owner THEN t.signal.kind = "offer"
             ELSE t.signal.kind = "answer" /\ t.signal.to = Owner}

\* A page's queue has its own signals; the key of a recipient is the one it has
\* with the sender; a connection is its page's, and a recipient answers with its own.
SoundPage(p, s) ==
  /\ s \in Page
  /\ s.retries \in Seq(SignalsFrom(p)) /\ Len(s.retries) <= QueueLimit
  /\ p # Owner => s.key \in {{}, {p, Owner}}
SoundConnection(p, c) ==
  /\ c \in Connection
  /\ c.ops \in Seq(OpsOf(p))
  /\ IF c.id = NoOne THEN c = NoConnection ELSE c.id = p
  /\ p # Owner /\ c.local # NoDescription => c.local.answer = p

OnPages(f) == f = [p \in Pages |-> f[p]]
SoundInboxes == OnPages(inbox) /\ \A p \in Pages : inbox[p] \in Seq(EventsFor(p))
SoundPages == OnPages(page) /\ \A p \in Pages : SoundPage(p, page[p])
SoundConnections == OnPages(conn) /\ \A p \in Pages : SoundConnection(p, conn[p])
SoundTasks == OnPages(tasks) /\ \A p \in Pages : tasks[p] \subseteq TasksOf(p)
SoundLives == life \in [Pages -> {"new", "joined", "streaming", "gone"}]
Sound ==
  /\ SoundLives /\ posts \subseteq GenuinePost
  /\ SoundInboxes /\ SoundPages /\ SoundConnections /\ SoundTasks

\* What the sender derives for the connection it has is from the answer that
\* connection was given, and so is the key it has, unless a derivation was late.
DerivesFrom(s, c, T) ==
  /\ \A t \in T : t.step = "derive" /\ t.id = Owner => c.remote = t.signal.body
  /\ s.key # {} /\ ~s.late =>
       \E g \in Guests :
         /\ s.key = {Owner, g}
         /\ c.remote # NoDescription
         /\ c.remote.answer \in {g, Stale}
DerivesItsAnswer == DerivesFrom(page[Owner], conn[Owner], tasks[Owner])

IInv == Sound /\ QueueIsWatched /\ DerivesItsAnswer

-----------------------------------------------------------------------------
(* The constants, and functions of the pages *)

LEMMA Distinct ==
  /\ Owner \in Pages /\ Guests = Pages \ {Owner}
  /\ NoOne \notin Pages /\ Stale \notin Pages /\ Stale # NoOne
  /\ Pages \subseteq Names /\ Stale \in Names /\ NoOne \in Names
BY PeerLinkAssumption DEF Pages, Owner, NoOne, Stale, Names

LEMMA ByDistinct ==
  /\ Direct \notin Loops /\ Abandoned \notin Loops /\ Direct # Abandoned
BY PeerLinkAssumption DEF Direct, Abandoned

LEMMA Updated ==
  ASSUME NEW f, OnPages(f), NEW p \in Pages, NEW x
  PROVE  /\ OnPages([f EXCEPT ![p] = x])
         /\ [f EXCEPT ![p] = x][p] = x
         /\ \A q \in Pages : q # p => [f EXCEPT ![p] = x][q] = f[q]
BY DEF OnPages

LEMMA Mapped ==
  ASSUME NEW F(_)
  PROVE  /\ OnPages([p \in Pages |-> F(p)])
         /\ \A q \in Pages : [p \in Pages |-> F(p)][q] = F(q)
BY DEF OnPages

LEMMA SeqSubset ==
  ASSUME NEW S, NEW T, S \subseteq T
  PROVE  Seq(S) \subseteq Seq(T)
<1> SUFFICES ASSUME NEW q \in Seq(S)
             PROVE  q \in Seq(T)
  OBVIOUS
<1>1. q \in [1..Len(q) -> S] /\ Len(q) \in Nat
  BY LenProperties
<1> QED
  BY <1>1, SeqDef

\* A sequence of which each element is replaced by one of T.
LEMMA SeqMapped ==
  ASSUME NEW S, NEW T, NEW q \in Seq(S), NEW r,
         r = [i \in DOMAIN q |-> r[i]], \A i \in DOMAIN q : r[i] \in T
  PROVE  r \in Seq(T) /\ Len(r) = Len(q) /\ DOMAIN r = DOMAIN q
<1>1. DOMAIN q = 1..Len(q) /\ Len(q) \in Nat
  BY LenProperties
<1>2. r \in [1..Len(q) -> T]
  BY <1>1
<1>3. r \in Seq(T)
  BY <1>1, <1>2, SeqDef
<1> QED
  BY <1>1, <1>2, <1>3, LenProperties

-----------------------------------------------------------------------------
(* A connection is closed: what mentions it *)

LEMMA PastDescriptions ==
  ASSUME NEW d \in Description, NEW p \in Pages
  PROVE  /\ PastDescription(d, p) \in Description
         /\ PastDescription(d, p).answer = Past(d.answer, p)
         /\ PastDescription(d, p) = NoDescription <=> d = NoDescription
<1>1. NoDescription = [offer |-> NoOne, answer |-> NoOne]
  BY DEF NoDescription, Offer
<1>2. PastDescription(d, p) = [offer |-> Past(d.offer, p), answer |-> Past(d.answer, p)]
  BY DEF PastDescription
<1>3. d = [offer |-> d.offer, answer |-> d.answer] /\ d.offer \in Names /\ d.answer \in Names
  BY DEF Description
<1>4. \A n \in Names : Past(n, p) \in Names /\ (Past(n, p) = NoOne <=> n = NoOne)
  BY Distinct DEF Past
<1> QED
  BY <1>1, <1>2, <1>3, <1>4 DEF Description

LEMMA PastSignals ==
  ASSUME NEW s \in Signal, NEW p \in Pages
  PROVE  /\ PastSignal(s, p) \in Signal
         /\ PastSignal(s, p).kind = s.kind
         /\ PastSignal(s, p).from = s.from
         /\ PastSignal(s, p).to = s.to
         /\ PastSignal(s, p).body = PastDescription(s.body, p)
<1>1. s.body \in Description /\ PastDescription(s.body, p) \in Description
  BY PastDescriptions DEF Signal
<1> QED
  BY <1>1 DEF Signal, PastSignal

LEMMA PastGenuine ==
  ASSUME NEW s \in Signal, NEW p \in Pages
  PROVE  /\ Genuine(s) => Genuine(PastSignal(s, p))
         /\ \A q : Incoming(q, s) => Incoming(q, PastSignal(s, p))
<1>1. s.body \in Description
  BY DEF Signal
<1>2. PastDescription(s.body, p) # NoDescription <=> s.body # NoDescription
  BY <1>1, PastDescriptions
<1>3. PastDescription(s.body, p).answer \in {s.body.answer, Stale}
  BY <1>1, PastDescriptions DEF Past
<1>4. Genuine(s) => Genuine(PastSignal(s, p))
  BY <1>2, <1>3, PastSignals DEF Genuine
<1> QED
  BY <1>2, <1>4, PastSignals DEF Incoming

LEMMA PastFrom ==
  ASSUME NEW q \in Pages, NEW p \in Pages
  PROVE  /\ \A s \in SignalsFrom(q) : PastSignal(s, p) \in SignalsFrom(q)
         /\ \A e \in EventsFor(q) : PastEvent(e, p) \in EventsFor(q)
         /\ \A o \in OpsOf(q) : PastOp(o, p) \in OpsOf(q)
         /\ \A t \in TasksOf(q) : /\ PastTask(t, p) \in TasksOf(q)
                                  /\ PastTask(t, p).step = t.step
                                  /\ PastTask(t, p).id = Past(t.id, p)
                                  /\ PastTask(t, p).signal = PastSignal(t.signal, p)
<1>1. ASSUME NEW s \in SignalsFrom(q)
      PROVE  PastSignal(s, p) \in SignalsFrom(q)
  BY <1>1, PastSignals, PastGenuine DEF SignalsFrom, GenuineSignal
<1>2. ASSUME NEW e \in EventsFor(q)
      PROVE  PastEvent(e, p) \in EventsFor(q)
  <2>1. CASE e.type # "signal"
    BY <2>1 DEF PastEvent
  <2>2. CASE e.type = "signal"
    <3>1. e.signal \in Signal
      BY <2>2 DEF EventsFor, Event
    <3>2. PastEvent(e, p) = [type |-> "signal", signal |-> PastSignal(e.signal, p)]
      BY <2>2 DEF PastEvent, Carrying
    <3>3. /\ PastSignal(e.signal, p) \in Signal
          /\ Genuine(PastSignal(e.signal, p))
          /\ PastSignal(e.signal, p).from # q
          /\ PastSignal(e.signal, p).kind = "answer" => q = Owner
      BY <2>2, <3>1, PastSignals, PastGenuine DEF EventsFor
    <3>4. PastEvent(e, p) \in Event
      BY <3>2, <3>3 DEF Event
    <3>5. PastEvent(e, p).signal = PastSignal(e.signal, p)
      BY <3>2
    <3> QED
      BY <3>3, <3>4, <3>5 DEF EventsFor
  <2> QED
    BY <2>1, <2>2
<1>3. ASSUME NEW o \in OpsOf(q)
      PROVE  PastOp(o, p) \in OpsOf(q)
  <2>1. o.signal \in Signal /\ PastSignal(o.signal, p) \in Signal
    BY PastSignals DEF OpsOf, Op
  <2>2. PastOp(o, p) \in Op /\ PastOp(o, p).op = o.op /\ PastOp(o, p).signal = PastSignal(o.signal, p)
    BY <2>1, Zenon DEF PastOp, OpsOf, Op
  <2> QED
    BY <2>1, <2>2, PastGenuine DEF OpsOf
<1>4. ASSUME NEW t \in TasksOf(q)
      PROVE  /\ PastTask(t, p) \in TasksOf(q)
             /\ PastTask(t, p).step = t.step
             /\ PastTask(t, p).id = Past(t.id, p)
             /\ PastTask(t, p).signal = PastSignal(t.signal, p)
  <2>1. t \in Await /\ t.signal \in Signal /\ PastSignal(t.signal, p) \in Signal
    BY PastSignals DEF TasksOf, Await
  <2>2. t.id \in Names /\ Past(t.id, p) \in Names /\ (t.id # NoOne => Past(t.id, p) # NoOne)
    BY Distinct DEF TasksOf, Await, Past
  <2>3. /\ PastTask(t, p) \in Await /\ PastTask(t, p).step = t.step
        /\ PastTask(t, p).id = Past(t.id, p)
        /\ PastTask(t, p).signal = PastSignal(t.signal, p)
    BY <2>1, <2>2, Zenon DEF PastTask, Await
  <2>4. PastTask(t, p) \in TasksOf(q)
    BY <2>1, <2>2, <2>3, PastGenuine, PastSignals DEF TasksOf
  <2> QED
    BY <2>3, <2>4
<1> QED
  BY <1>1, <1>2, <1>3, <1>4

LEMMA PastInboxes ==
  ASSUME NEW q \in Pages, NEW p \in Pages, NEW events \in Seq(EventsFor(q))
  PROVE  PastInbox(events, p) \in Seq(EventsFor(q))
<1>1. \A i \in DOMAIN events : events[i] \in EventsFor(q)
  BY ElementOfSeq, LenProperties
<1>2. \A i \in DOMAIN events : PastInbox(events, p)[i] = PastEvent(events[i], p)
  BY DEF PastInbox
<1>3. PastInbox(events, p) = [i \in DOMAIN events |-> PastInbox(events, p)[i]]
  BY DEF PastInbox
<1> QED
  BY <1>1, <1>2, <1>3, PastFrom, SeqMapped

LEMMA PastGenuinePosts ==
  ASSUME NEW m \in GenuinePost, NEW p \in Pages
  PROVE  /\ PastPost(m, p) \in GenuinePost
         /\ PastPost(m, p).by = m.by
         /\ PastPost(m, p).signal.from = m.signal.from
<1>1. m.signal \in Signal /\ PastSignal(m.signal, p) \in Signal
  BY PastSignals DEF GenuinePost, Post
<1>2. /\ PastPost(m, p) \in Post /\ PastPost(m, p).by = m.by
      /\ PastPost(m, p).signal = PastSignal(m.signal, p)
  BY <1>1, Zenon DEF PastPost, GenuinePost, Post
<1> QED
  BY <1>1, <1>2, PastGenuine, PastSignals DEF GenuinePost

LEMMA PastPages ==
  ASSUME NEW q \in Pages, NEW p \in Pages, NEW s, SoundPage(q, s)
  PROVE  /\ SoundPage(q, PastPage(s, p))
         /\ PastPage(s, p).key = s.key /\ PastPage(s, p).late = s.late
         /\ PastPage(s, p).retry = s.retry
         /\ PastPage(s, p).retries = <<>> <=> s.retries = <<>>
<1> DEFINE R == [i \in DOMAIN s.retries |-> PastSignal(s.retries[i], p)]
           N == [i \in DOMAIN s.pending |-> Past(s.pending[i], p)]
<1>1. s \in Page /\ s.retries \in Seq(SignalsFrom(q)) /\ s.pending \in Seq(Names)
  BY DEF SoundPage, Page
<1>2. R \in Seq(SignalsFrom(q)) /\ Len(R) = Len(s.retries)
  <2>1. \A i \in DOMAIN s.retries : s.retries[i] \in SignalsFrom(q)
    BY <1>1, ElementOfSeq, LenProperties
  <2> HIDE DEF R
  <2>2. R = [i \in DOMAIN s.retries |-> R[i]] /\ \A i \in DOMAIN s.retries : R[i] \in SignalsFrom(q)
    BY <2>1, PastFrom DEF R
  <2>3. R \in Seq(SignalsFrom(q))
    BY <1>1, <2>2, SeqMapped
  <2>4. Len(R) = Len(s.retries)
    BY <1>1, <2>2, SeqMapped
  <2> QED
    BY <2>3, <2>4
<1>3. N \in Seq(Names)
  <2>1. \A i \in DOMAIN s.pending : s.pending[i] \in Names
    BY <1>1, ElementOfSeq, LenProperties
  <2>2. \A n \in Names : Past(n, p) \in Names
    BY Distinct DEF Past
  <2> HIDE DEF N
  <2>3. N = [i \in DOMAIN s.pending |-> N[i]] /\ \A i \in DOMAIN s.pending : N[i] \in Names
    BY <2>1, <2>2 DEF N
  <2> QED
    BY <1>1, <2>3, SeqMapped
<1>4. PastPage(s, p) = [s EXCEPT !.retries = R, !.pending = N]
  BY DEF PastPage
<1> HIDE DEF R, N
<1>5. SignalsFrom(q) \subseteq Signal
  BY DEF SignalsFrom, GenuineSignal
<1>6. R \in Seq(Signal)
  BY <1>2, <1>5, SeqSubset
<1>7. PastPage(s, p) \in Page
  BY <1>1, <1>3, <1>4, <1>6 DEF Page
<1>8. /\ PastPage(s, p).retries = R /\ PastPage(s, p).key = s.key
      /\ PastPage(s, p).late = s.late /\ PastPage(s, p).retry = s.retry
  BY <1>1, <1>4 DEF Page
<1>9. R = <<>> <=> s.retries = <<>>
  BY <1>1, <1>2, EmptySeq
<1> QED
  BY <1>2, <1>7, <1>8, <1>9 DEF SoundPage

LEMMA PastConnections ==
  ASSUME NEW q \in Pages, NEW p \in Pages, q # p, NEW c, SoundConnection(q, c)
  PROVE  /\ SoundConnection(q, PastConnection(c, p))
         /\ PastConnection(c, p).remote = PastDescription(c.remote, p)
<1> DEFINE O == [i \in DOMAIN c.ops |-> PastOp(c.ops[i], p)]
<1>1. c \in Connection /\ c.ops \in Seq(OpsOf(q)) /\ c.local \in Description /\ c.remote \in Description
  BY DEF SoundConnection, Connection
<1>2. O \in Seq(OpsOf(q)) /\ Len(O) = Len(c.ops)
  <2>1. \A i \in DOMAIN c.ops : c.ops[i] \in OpsOf(q)
    BY <1>1, ElementOfSeq, LenProperties
  <2> HIDE DEF O
  <2>2. O = [i \in DOMAIN c.ops |-> O[i]] /\ \A i \in DOMAIN c.ops : O[i] \in OpsOf(q)
    BY <2>1, PastFrom DEF O
  <2>3. O \in Seq(OpsOf(q))
    BY <1>1, <2>2, SeqMapped
  <2>4. Len(O) = Len(c.ops)
    BY <1>1, <2>2, SeqMapped
  <2> QED
    BY <2>3, <2>4
<1>3. PastConnection(c, p) =
        [c EXCEPT !.local = PastDescription(c.local, p), !.remote = PastDescription(c.remote, p),
                  !.ops = O]
  BY DEF PastConnection
<1> HIDE DEF O
<1>4. O \in Seq(Op)
  <2>1. OpsOf(q) \subseteq Op
    BY DEF OpsOf
  <2> QED
    BY <1>2, <2>1, SeqSubset
<1>5. PastDescription(c.local, p) \in Description /\ PastDescription(c.remote, p) \in Description
  BY <1>1, PastDescriptions
<1>6. PastConnection(c, p) \in Connection
  BY <1>1, <1>3, <1>4, <1>5, Zenon DEF Connection, Op
<1>7. /\ PastConnection(c, p).id = c.id /\ PastConnection(c, p).ops = O
      /\ PastConnection(c, p).local = PastDescription(c.local, p)
      /\ PastConnection(c, p).remote = PastDescription(c.remote, p)
  BY <1>1, <1>3, Zenon DEF Connection
<1>8. q # Owner /\ PastConnection(c, p).local # NoDescription => PastConnection(c, p).local.answer = q
  BY <1>1, <1>7, PastDescriptions DEF SoundConnection, Past
<1>9. CASE c.id = NoOne
  <2>1. c = NoConnection
    BY <1>9 DEF SoundConnection
  <2>2. c.ops = <<>> /\ c.local = NoDescription /\ c.remote = NoDescription
    BY <2>1 DEF NoConnection, NewConnection
  <2>3. O = <<>>
    BY <1>2, <2>2, EmptySeq
  <2>4. PastDescription(NoDescription, p) = NoDescription
    BY <1>1, <2>2, PastDescriptions
  <2>5. PastConnection(c, p) = c
    BY <1>3, <2>1, <2>2, <2>3, <2>4 DEF NoConnection, NewConnection
  <2> QED
    BY <1>7, <2>5
<1>10. CASE c.id # NoOne
  BY <1>2, <1>6, <1>7, <1>8, <1>10 DEF SoundConnection
<1> QED
  BY <1>9, <1>10

-----------------------------------------------------------------------------
(* What the handlers make of a session *)

\* The two differ in nothing that the invariant is about.
Kept(s, t) ==
  t.key = s.key /\ t.late = s.late /\ t.retries = s.retries /\ t.retry = s.retry

LEMMA KeptSound ==
  ASSUME NEW p, NEW s, SoundPage(p, s), NEW t \in Page, Kept(s, t)
  PROVE  SoundPage(p, t)
BY DEF Kept, SoundPage

LEMMA KeptTrans ==
  ASSUME NEW s, NEW t, NEW u, Kept(s, t), Kept(t, u)
  PROVE  Kept(s, u)
BY DEF Kept

LEMMA NewPageSound == ASSUME NEW p PROVE SoundPage(p, NewPage) /\ NewPage.retries = <<>> /\ NewPage.key = {}
<1>1. \A S : <<>> \in Seq(S) /\ Len(<<>>) = 0
  BY EmptySeq
<1>2. {} \in Keys
  BY DEF Keys
<1>3. NewPage \in Page
  BY <1>1, <1>2 DEF NewPage, Page
<1> QED
  BY <1>1, <1>3, PeerLinkAssumption DEF NewPage, SoundPage

LEMMA FieldsKept ==
  ASSUME NEW s \in Page
  PROVE  /\ \A b \in BOOLEAN : LET t == [s EXCEPT !.reconnect = b] IN
              t \in Page /\ Kept(s, t) /\ t.remote = s.remote
         /\ \A b \in BOOLEAN : LET t == [s EXCEPT !.readySent = b] IN
              t \in Page /\ Kept(s, t) /\ t.remote = s.remote
         /\ \A q \in Pages \cup {NoOne} : LET t == [s EXCEPT !.remote = q] IN
              t \in Page /\ Kept(s, t) /\ t.remote = q
         /\ \A q \in Pages \cup {NoOne}, b \in BOOLEAN :
              LET t == [s EXCEPT !.remote = q, !.reconnect = b] IN
              t \in Page /\ Kept(s, t) /\ t.remote = q
         /\ \A q \in Pages \cup {NoOne}, b \in BOOLEAN :
              LET t == [s EXCEPT !.remote = q, !.offerReady = b] IN
              t \in Page /\ Kept(s, t) /\ t.remote = q
         /\ \A n \in Seq(Names) : LET t == [s EXCEPT !.pending = n] IN
              t \in Page /\ Kept(s, t) /\ t.remote = s.remote
<1>1. ASSUME NEW b \in BOOLEAN
      PROVE  LET t == [s EXCEPT !.reconnect = b] IN t \in Page /\ Kept(s, t) /\ t.remote = s.remote
  BY DEF Page, Kept
<1>2. ASSUME NEW b \in BOOLEAN
      PROVE  LET t == [s EXCEPT !.readySent = b] IN t \in Page /\ Kept(s, t) /\ t.remote = s.remote
  BY DEF Page, Kept
<1>3. ASSUME NEW q \in Pages \cup {NoOne}
      PROVE  LET t == [s EXCEPT !.remote = q] IN t \in Page /\ Kept(s, t) /\ t.remote = q
  BY DEF Page, Kept
<1>4. ASSUME NEW q \in Pages \cup {NoOne}, NEW b \in BOOLEAN
      PROVE  LET t == [s EXCEPT !.remote = q, !.reconnect = b] IN
             t \in Page /\ Kept(s, t) /\ t.remote = q
  BY DEF Page, Kept
<1>5. ASSUME NEW q \in Pages \cup {NoOne}, NEW b \in BOOLEAN
      PROVE  LET t == [s EXCEPT !.remote = q, !.offerReady = b] IN
             t \in Page /\ Kept(s, t) /\ t.remote = q
  BY DEF Page, Kept
<1>6. ASSUME NEW n \in Seq(Names)
      PROVE  LET t == [s EXCEPT !.pending = n] IN t \in Page /\ Kept(s, t) /\ t.remote = s.remote
  BY DEF Page, Kept
<1> QED
  BY <1>1, <1>2, <1>3, <1>4, <1>5, <1>6

LEMMA SessionKept ==
  ASSUME NEW p \in Pages, NEW s \in Page
  PROVE  /\ Scheduled(s) \in Page /\ Kept(s, Scheduled(s))
         /\ Revived(p, s) \in Page /\ Kept(s, Revived(p, s))
         /\ Announced(p, s) \in Page /\ Kept(s, Announced(p, s))
         /\ AnnouncesAgain(s) \in Page /\ Kept(s, AnnouncesAgain(s))
         /\ AnnouncesAgain(s).remote = s.remote
<1>1. Kept(s, s)
  BY DEF Kept
<1>2. Scheduled(s) \in Page /\ Kept(s, Scheduled(s))
  BY <1>1, FieldsKept DEF Scheduled
<1> QED
  BY <1>1, <1>2, FieldsKept DEF Revived, Announced, AnnouncesAgain

LEMMA ResetSound ==
  ASSUME NEW p \in Pages, NEW s \in Page
  PROVE  LET t == ResetSession(s) IN
         /\ SoundPage(p, t) /\ t.retries = <<>> /\ t.key = {} /\ t.remote = s.remote
<1>1. \A S : <<>> \in Seq(S) /\ Len(<<>>) = 0
  BY EmptySeq
<1>2. {} \in Keys
  BY DEF Keys
<1>3. ResetSession(s) \in Page
  BY <1>1, <1>2 DEF ResetSession, Page
<1>4. LET t == ResetSession(s) IN t.retries = <<>> /\ t.key = {} /\ t.remote = s.remote
  BY DEF ResetSession, Page
<1> QED
  BY <1>1, <1>3, <1>4, PeerLinkAssumption DEF SoundPage

\* The queue of a session, and its timer, are set.
Queueing(s, r, b) == [s EXCEPT !.retries = r, !.retry = b]

LEMMA QueueSet ==
  ASSUME NEW p \in Pages, NEW s, SoundPage(p, s), NEW r \in Seq(SignalsFrom(p)),
         Len(r) <= QueueLimit, NEW b \in BOOLEAN
  PROVE  LET t == Queueing(s, r, b) IN
         /\ SoundPage(p, t) /\ t.retries = r /\ t.retry = b /\ t.key = s.key /\ t.late = s.late
<1>1. SignalsFrom(p) \subseteq Signal
  BY DEF SignalsFrom, GenuineSignal
<1>2. r \in Seq(Signal)
  BY <1>1, SeqSubset
<1>3. s \in Page
  BY DEF SoundPage
<1>4. Queueing(s, r, b) \in Page
  BY <1>2, <1>3 DEF Page, Queueing
<1>5. LET t == Queueing(s, r, b) IN
      t.retries = r /\ t.retry = b /\ t.key = s.key /\ t.late = s.late
  BY <1>3 DEF Page, Queueing
<1> QED
  BY <1>4, <1>5 DEF SoundPage

LEMMA EnqueuedSound ==
  ASSUME NEW p \in Pages, NEW s, SoundPage(p, s), NEW signal \in SignalsFrom(p)
  PROVE  LET t == Enqueued(s, signal) IN
         /\ SoundPage(p, t) /\ t.retry /\ t.key = s.key /\ t.late = s.late
<1> DEFINE queue == Append(s.retries, signal)
           r == IF Len(queue) > QueueLimit THEN Tail(queue) ELSE queue
<1>1. s.retries \in Seq(SignalsFrom(p)) /\ Len(s.retries) \in Nat /\ Len(s.retries) <= QueueLimit
  BY LenProperties DEF SoundPage
<1>2. queue \in Seq(SignalsFrom(p)) /\ Len(queue) = Len(s.retries) + 1 /\ queue # <<>>
  BY <1>1, AppendProperties
<1>3. Tail(queue) \in Seq(SignalsFrom(p)) /\ Len(Tail(queue)) = Len(queue) - 1
  BY <1>2, HeadTailProperties
<1> HIDE DEF queue
<1>4. r \in Seq(SignalsFrom(p)) /\ Len(r) <= QueueLimit
  BY <1>1, <1>2, <1>3, PeerLinkAssumption
<1>5. Enqueued(s, signal) = Queueing(s, r, TRUE)
  BY DEF Enqueued, Queueing, queue
<1> HIDE DEF r
<1>6. TRUE \in BOOLEAN
  OBVIOUS
<1>7. SoundPage(p, Queueing(s, r, TRUE))
  BY <1>4, <1>6, QueueSet, Zenon
<1>8. Queueing(s, r, TRUE).retry = TRUE
  BY <1>4, <1>6, QueueSet, Zenon
<1>9. s \in Page
  BY DEF SoundPage
<1>10. Queueing(s, r, TRUE).key = s.key /\ Queueing(s, r, TRUE).late = s.late
  BY <1>9 DEF Queueing, Page
<1> QED
  BY <1>5, <1>7, <1>8, <1>10, Zenon

LEMMA TimerSound ==
  ASSUME NEW p \in Pages, NEW s, SoundPage(p, s)
  PROVE  /\ \A b \in BOOLEAN : LET t == [s EXCEPT !.retry = b] IN
              SoundPage(p, t) /\ t.retries = s.retries /\ t.key = s.key /\ t.late = s.late
         /\ LET t == Rescheduled(s) IN
              /\ SoundPage(p, t) /\ t.key = s.key /\ t.late = s.late
              /\ t.retries # <<>> => t.retry
         /\ LET t == Flushing(s) IN
              /\ SoundPage(p, t) /\ t.key = s.key /\ t.late = s.late
              /\ t.retries = s.retries
<1>1. ASSUME NEW b \in BOOLEAN
      PROVE  LET t == [s EXCEPT !.retry = b] IN
             /\ SoundPage(p, t) /\ t.retries = s.retries /\ t.key = s.key /\ t.late = s.late
             /\ t.retry = b
  <2>1. s \in Page
    BY DEF SoundPage
  <2>2. LET t == [s EXCEPT !.retry = b] IN
        /\ t \in Page /\ t.retries = s.retries /\ t.key = s.key /\ t.late = s.late /\ t.retry = b
    BY <2>1 DEF Page
  <2> QED
    BY <2>2 DEF SoundPage
<1> QED
  BY <1>1 DEF Rescheduled, Flushing

\* The signal at the head of the queue goes, if there is one.
LEMMA TailSound ==
  ASSUME NEW p \in Pages, NEW s, SoundPage(p, s)
  PROVE  LET t == [s EXCEPT !.retries = IF s.retries = <<>> THEN <<>> ELSE Tail(@)] IN
         /\ SoundPage(p, t) /\ t.key = s.key /\ t.late = s.late
<1> DEFINE r == IF s.retries = <<>> THEN <<>> ELSE Tail(s.retries)
<1>1. s \in Page /\ s.retries \in Seq(SignalsFrom(p)) /\ Len(s.retries) <= QueueLimit
  BY DEF SoundPage
<1>2. r \in Seq(SignalsFrom(p)) /\ Len(r) <= QueueLimit
  <2>1. CASE s.retries = <<>>
    BY <2>1, EmptySeq, PeerLinkAssumption
  <2>2. CASE s.retries # <<>>
    BY <1>1, <2>2, HeadTailProperties, LenProperties, PeerLinkAssumption
  <2> QED
    BY <2>1, <2>2
<1> HIDE DEF r
<1>3. SignalsFrom(p) \subseteq Signal
  BY DEF SignalsFrom, GenuineSignal
<1>4. r \in Seq(Signal)
  BY <1>2, <1>3, SeqSubset
<1>5. LET t == [s EXCEPT !.retries = r] IN
      t \in Page /\ t.retries = r /\ t.key = s.key /\ t.late = s.late
  BY <1>1, <1>4 DEF Page
<1>6. SoundPage(p, [s EXCEPT !.retries = r])
  BY <1>2, <1>5 DEF SoundPage
<1> QED
  BY <1>5, <1>6 DEF r

-----------------------------------------------------------------------------
(* What the handlers make of a connection *)

LEMMA NewConnections ==
  /\ \A p \in Pages : SoundConnection(p, NewConnection(p)) /\ NewConnection(p).remote = NoDescription
  /\ \A p \in Pages : SoundConnection(p, NoConnection)
  /\ NoConnection.remote = NoDescription
<1>1. \A S : <<>> \in Seq(S)
  BY EmptySeq
<1>2. NoDescription \in Description
  BY Distinct DEF NoDescription, Offer, Description
<1>3. \A k \in Pages \cup {NoOne} : NewConnection(k) \in Connection
  BY <1>1, <1>2 DEF NewConnection, Connection
<1> QED
  BY <1>1, <1>3, Distinct DEF SoundConnection, NoConnection, NewConnection

LEMMA ConnectionUpdates ==
  ASSUME NEW p \in Pages, NEW c, SoundConnection(p, c), c.id # NoOne
  PROVE  /\ \A o \in OpsOf(p) : LET d == [c EXCEPT !.ops = Append(@, o)] IN
              SoundConnection(p, d) /\ d.remote = c.remote /\ d.id = c.id
         /\ c.ops # <<>> => LET d == [c EXCEPT !.ops = Tail(@)] IN
              SoundConnection(p, d) /\ d.remote = c.remote /\ d.id = c.id
         /\ \A b \in BOOLEAN : LET d == [c EXCEPT !.reachable = b] IN
              SoundConnection(p, d) /\ d.remote = c.remote /\ d.id = c.id
         /\ \A x \in {"new", "up", "failed", "lost"} : LET d == [c EXCEPT !.state = x] IN
              SoundConnection(p, d) /\ d.remote = c.remote /\ d.id = c.id
         /\ \A e \in Description : p = Owner \/ e.answer = p =>
              LET d == [c EXCEPT !.local = e] IN
              SoundConnection(p, d) /\ d.remote = c.remote /\ d.id = c.id
<1>1. c \in Connection /\ c.ops \in Seq(OpsOf(p)) /\ c.id = p
  BY DEF SoundConnection
<1>2. OpsOf(p) \subseteq Op
  BY DEF OpsOf
<1>3. ASSUME NEW q \in Seq(OpsOf(p))
      PROVE  LET d == [c EXCEPT !.ops = q] IN
             SoundConnection(p, d) /\ d.remote = c.remote /\ d.id = c.id
  <2>1. q \in Seq(Op)
    BY <1>2, SeqSubset
  <2>2. LET d == [c EXCEPT !.ops = q] IN
        /\ d \in Connection /\ d.ops = q /\ d.remote = c.remote /\ d.id = c.id /\ d.local = c.local
    BY <1>1, <2>1, Zenon DEF Connection, Op
  <2> QED
    BY <1>1, <2>2, Distinct DEF SoundConnection
<1>4. ASSUME NEW o \in OpsOf(p)
      PROVE  Append(c.ops, o) \in Seq(OpsOf(p))
  BY <1>1, AppendProperties
<1>5. c.ops # <<>> => Tail(c.ops) \in Seq(OpsOf(p))
  BY <1>1, HeadTailProperties
<1>6. ASSUME NEW b \in BOOLEAN
      PROVE  LET d == [c EXCEPT !.reachable = b] IN
             SoundConnection(p, d) /\ d.remote = c.remote /\ d.id = c.id
  <2>1. LET d == [c EXCEPT !.reachable = b] IN
        /\ d \in Connection /\ d.ops = c.ops /\ d.remote = c.remote /\ d.id = c.id /\ d.local = c.local
    BY <1>1, Zenon DEF Connection
  <2> QED
    BY <1>1, <2>1, Distinct DEF SoundConnection
<1>7. ASSUME NEW x \in {"new", "up", "failed", "lost"}
      PROVE  LET d == [c EXCEPT !.state = x] IN
             SoundConnection(p, d) /\ d.remote = c.remote /\ d.id = c.id
  <2>1. LET d == [c EXCEPT !.state = x] IN
        /\ d \in Connection /\ d.ops = c.ops /\ d.remote = c.remote /\ d.id = c.id /\ d.local = c.local
    BY <1>1, Zenon DEF Connection
  <2> QED
    BY <1>1, <2>1, Distinct DEF SoundConnection
<1>8. ASSUME NEW e \in Description, p = Owner \/ e.answer = p
      PROVE  LET d == [c EXCEPT !.local = e] IN
             SoundConnection(p, d) /\ d.remote = c.remote /\ d.id = c.id
  <2>1. LET d == [c EXCEPT !.local = e] IN
        /\ d \in Connection /\ d.ops = c.ops /\ d.remote = c.remote /\ d.id = c.id /\ d.local = e
    BY <1>1, Zenon DEF Connection
  <2> QED
    BY <1>1, <1>8, <2>1, Distinct DEF SoundConnection
<1> QED
  BY <1>3, <1>4, <1>5, <1>6, <1>7, <1>8

\* The connection is given a remote description.
GivenRemote(c, e, b) == [c EXCEPT !.remote = e, !.reachable = b]

LEMMA RemoteSet ==
  ASSUME NEW p \in Pages, NEW c, SoundConnection(p, c), c.id # NoOne,
         NEW e \in Description, NEW b \in BOOLEAN
  PROVE  LET d == GivenRemote(c, e, b) IN
         SoundConnection(p, d) /\ d.remote = e /\ d.id = c.id
<1>1. c \in Connection /\ c.ops \in Seq(OpsOf(p)) /\ c.id = p
  BY DEF SoundConnection
<1>2. LET d == GivenRemote(c, e, b) IN
      /\ d \in Connection /\ d.ops = c.ops /\ d.remote = e /\ d.id = c.id /\ d.local = c.local
  BY <1>1, Zenon DEF GivenRemote, Connection
<1> QED
  BY <1>1, <1>2, Distinct DEF SoundConnection

LEMMA Connected ==
  ASSUME NEW p \in Pages, NEW c, SoundConnection(p, c)
  PROVE  c = NoConnection <=> c.id = NoOne
BY Distinct DEF SoundConnection, NoConnection, NewConnection

LEMMA EnsuredSound ==
  ASSUME NEW p \in Pages, NEW s, NEW c, SoundConnection(p, c)
  PROVE  LET d == Ensured(p, s, c) IN
         SoundConnection(p, d) /\ d.remote = c.remote
BY NewConnections DEF Ensured

LEMMA ReadySound ==
  ASSUME NEW p \in Pages, NEW q \in Pages \cup {NoOne}
  PROVE  /\ Ready(p, q) \in Signal /\ Genuine(Ready(p, q)) /\ Ready(p, q).from = p
         /\ Ready(p, q).kind = "ready"
<1>1. NoDescription \in Description
  BY Distinct DEF NoDescription, Offer, Description
<1> QED
  BY <1>1 DEF Ready, Signal, Genuine

LEMMA OfferingSound ==
  ASSUME NEW p \in Pages, NEW s \in Page, NEW c, SoundConnection(p, c)
  PROVE  LET d == Offering(p, s, c) IN
         SoundConnection(p, d) /\ d.remote = c.remote
<1>1. CASE Offering(p, s, c) = c
  BY <1>1
<1>2. CASE /\ p = Owner /\ c # NoConnection
           /\ Offering(p, s, c) = [c EXCEPT !.ops = Append(@, [op |-> "offer", signal |-> Ready(p, s.remote)])]
  <2> DEFINE o == [op |-> "offer", signal |-> Ready(p, s.remote)]
  <2>1. s.remote \in Pages \cup {NoOne}
    BY DEF Page
  <2>2. o \in OpsOf(p)
    BY <1>2, <2>1, ReadySound DEF OpsOf, Op
  <2>3. c.id # NoOne
    BY <1>2, Connected
  <2> HIDE DEF o
  <2>4. LET d == [c EXCEPT !.ops = Append(@, o)] IN SoundConnection(p, d) /\ d.remote = c.remote
    BY <2>2, <2>3, ConnectionUpdates, Zenon
  <2> QED
    BY <1>2, <2>4 DEF o
<1> QED
  BY <1>1, <1>2 DEF Offering

LEMMA ApplyingSound ==
  ASSUME NEW p \in Pages, NEW c, SoundConnection(p, c),
         NEW signal \in Signal, Genuine(signal), signal.kind = IF p = Owner THEN "answer" ELSE "offer"
  PROVE  LET d == Applying(c, signal) IN
         SoundConnection(p, d) /\ d.remote = c.remote
<1>1. CASE c = NoConnection \/ signal.body = NoDescription
  BY <1>1 DEF Applying
<1>2. CASE c # NoConnection /\ signal.body # NoDescription
  <2> DEFINE o == [op |-> "remote", signal |-> signal]
  <2>1. o \in OpsOf(p)
    BY <1>2 DEF OpsOf, Op, Incoming
  <2>2. c.id # NoOne
    BY <1>2, Connected
  <2> HIDE DEF o
  <2>3. LET d == [c EXCEPT !.ops = Append(@, o)] IN SoundConnection(p, d) /\ d.remote = c.remote
    BY <2>1, <2>2, ConnectionUpdates, Zenon
  <2> QED
    BY <1>2, <2>3 DEF o, Applying
<1> QED
  BY <1>1, <1>2

-----------------------------------------------------------------------------
(* Posts and events *)

LEMMA PostedSound ==
  ASSUME NEW signal \in Signal, Genuine(signal)
  PROVE  Posted(signal) \in GenuinePost /\ Posted(signal).signal = signal
BY DEF Posted, GenuinePost, Post

LEMMA AnnouncementSound ==
  ASSUME NEW p \in Pages, NEW s \in Page
  PROVE  Announcement(p, s) \subseteq GenuinePost
<1>1. s.remote \in Pages \cup {NoOne}
  BY DEF Page
<1> QED
  BY <1>1, ReadySound, PostedSound DEF Announcement

LEMMA FlushedSound ==
  ASSUME NEW p \in Pages, NEW s, SoundPage(p, s), NEW loop \in Loops
  PROVE  /\ Flushed(s, loop) \subseteq GenuinePost
         /\ s.retries # <<>> => \E m \in Flushed(s, loop) : m.signal.from = p /\ m.by \in Loops
<1>1. CASE s.retries = <<>>
  BY <1>1 DEF Flushed
<1>2. CASE s.retries # <<>>
  <2>1. Head(s.retries) \in SignalsFrom(p)
    BY <1>2, HeadTailProperties DEF SoundPage
  <2> DEFINE m == [signal |-> Head(s.retries), by |-> loop]
  <2>2. m \in GenuinePost /\ m.signal.from = p /\ m.by \in Loops
    BY <2>1 DEF SignalsFrom, GenuineSignal, GenuinePost, Post
  <2>3. Flushed(s, loop) = {m}
    BY <1>2 DEF Flushed
  <2> QED
    BY <2>2, <2>3
<1> QED
  BY <1>1, <1>2

LEMMA ToldSound ==
  ASSUME SoundInboxes, NEW P \in SUBSET Pages, NEW event, \A p \in P : event \in EventsFor(p)
  PROVE  /\ OnPages(Told(event, P))
         /\ \A p \in Pages : Told(event, P)[p] \in Seq(EventsFor(p))
<1>1. OnPages(Told(event, P))
  BY DEF Told, OnPages
<1>2. ASSUME NEW p \in Pages
      PROVE  Told(event, P)[p] \in Seq(EventsFor(p))
  <2>1. inbox[p] \in Seq(EventsFor(p))
    BY DEF SoundInboxes
  <2>2. CASE p \in P /\ life[p] = "streaming"
    <3>1. Append(inbox[p], event) \in Seq(EventsFor(p))
      BY <2>1, <2>2, AppendProperties
    <3> QED
      BY <2>2, <3>1 DEF Told
  <2>3. CASE ~(p \in P /\ life[p] = "streaming")
    BY <2>1, <2>3 DEF Told
  <2> QED
    BY <2>2, <2>3
<1> QED
  BY <1>1, <1>2

LEMMA AboutSound ==
  ASSUME NEW type \in {"room-state", "peer-joined", "peer-left"}, NEW q \in Pages \cup {NoOne}, NEW p
  PROVE  About(type, q) \in EventsFor(p)
BY DEF About, EventsFor, Event

\* The first event of an inbox, and what is behind it.
LEMMA FirstSound ==
  ASSUME SoundInboxes, NEW p \in Pages, inbox[p] # <<>>
  PROVE  /\ First(p) \in EventsFor(p)
         /\ First(p).type # "signal" => First(p).peer \in Pages \cup {NoOne}
         /\ First(p).type = "signal" => First(p).signal \in Signal
         /\ Tail(inbox[p]) \in Seq(EventsFor(p))
<1>1. inbox[p] \in Seq(EventsFor(p))
  BY DEF SoundInboxes
<1>2. First(p) \in EventsFor(p) /\ Tail(inbox[p]) \in Seq(EventsFor(p))
  BY <1>1, HeadTailProperties DEF First
<1>3. First(p) \in Event
  BY <1>2 DEF EventsFor
<1>4. /\ First(p).type # "signal" => First(p).peer \in Pages \cup {NoOne}
      /\ First(p).type = "signal" => First(p).signal \in Signal
  BY <1>3 DEF Event
<1> QED
  BY <1>2, <1>4

-----------------------------------------------------------------------------
(* The parts of the invariant under a step *)

LEMMA InboxSet ==
  ASSUME SoundInboxes, NEW p \in Pages, NEW events, events \in Seq(EventsFor(p)),
         inbox' = [inbox EXCEPT ![p] = events]
  PROVE  SoundInboxes'
<1>1. OnPages(inbox)
  BY DEF SoundInboxes
<1>2. OnPages(inbox')
  BY <1>1, Updated
<1>3. inbox'[p] = events
  BY <1>1, Updated
<1>4. \A r \in Pages : r # p => inbox'[r] = inbox[r]
  BY <1>1, Updated
<1> QED
  BY <1>2, <1>3, <1>4 DEF SoundInboxes

LEMMA PageSet ==
  ASSUME SoundPages, NEW p \in Pages, NEW s, SoundPage(p, s), page' = [page EXCEPT ![p] = s]
  PROVE  /\ SoundPages' /\ page'[p] = s
         /\ \A q \in Pages : q # p => page'[q] = page[q]
<1>1. OnPages(page)
  BY DEF SoundPages
<1>2. OnPages(page')
  BY <1>1, Updated
<1>3. page'[p] = s /\ \A r \in Pages : r # p => page'[r] = page[r]
  BY <1>1, Updated
<1> QED
  BY <1>2, <1>3 DEF SoundPages

LEMMA ConnectionSet ==
  ASSUME SoundConnections, NEW p \in Pages, NEW c, SoundConnection(p, c),
         conn' = [conn EXCEPT ![p] = c]
  PROVE  /\ SoundConnections' /\ conn'[p] = c
         /\ \A q \in Pages : q # p => conn'[q] = conn[q]
<1>1. OnPages(conn)
  BY DEF SoundConnections
<1>2. OnPages(conn')
  BY <1>1, Updated
<1>3. conn'[p] = c /\ \A r \in Pages : r # p => conn'[r] = conn[r]
  BY <1>1, Updated
<1> QED
  BY <1>2, <1>3 DEF SoundConnections

LEMMA TasksSet ==
  ASSUME SoundTasks, NEW p \in Pages, NEW T \in SUBSET TasksOf(p), tasks' = [tasks EXCEPT ![p] = T]
  PROVE  /\ SoundTasks' /\ tasks'[p] = T
         /\ \A q \in Pages : q # p => tasks'[q] = tasks[q]
<1>1. OnPages(tasks)
  BY DEF SoundTasks
<1>2. OnPages(tasks')
  BY <1>1, Updated
<1>3. tasks'[p] = T /\ \A r \in Pages : r # p => tasks'[r] = tasks[r]
  BY <1>1, Updated
<1> QED
  BY <1>2, <1>3 DEF SoundTasks

\* Queues are watched as long as theirs are the same timers and loops.
LEMMA StillWatched ==
  ASSUME QueueIsWatched,
         \A p \in Pages : \/ page'[p].retries = <<>>
                          \/ page'[p].retry
                          \/ \E m \in posts' : m.signal.from = p /\ m.by \in Loops
                          \/ /\ page'[p].retries = page[p].retries
                             /\ page'[p].retry = page[p].retry
                             /\ \A m \in posts : m.signal.from = p /\ m.by \in Loops =>
                                  \E n \in posts' : n.signal.from = p /\ n.by \in Loops
  PROVE  QueueIsWatched'
BY DEF QueueIsWatched

LEMMA DerivesKept ==
  ASSUME DerivesItsAnswer,
         page'[Owner].key = page[Owner].key, page'[Owner].late = page[Owner].late,
         conn'[Owner].remote = conn[Owner].remote,
         \A t \in tasks'[Owner] : t.step = "derive" => t \in tasks[Owner]
  PROVE  DerivesItsAnswer'
BY DEF DerivesItsAnswer, DerivesFrom

\* Page p changes its session and connection in nothing that the invariant is about.
LEMMA ChangesInv ==
  ASSUME IInv, NEW p \in Pages, NEW s \in Page, Kept(page[p], s),
         NEW c, SoundConnection(p, c), c.remote = conn[p].remote, NEW P \in SUBSET GenuinePost,
         page' = [page EXCEPT ![p] = s], conn' = [conn EXCEPT ![p] = c], posts' = posts \cup P,
         UNCHANGED <<life, tasks>>, SoundInboxes'
  PROVE  IInv'
<1>1. SoundPage(p, s)
  BY KeptSound DEF IInv, Sound, SoundPages
<1>4. SoundPages' /\ page'[p] = s /\ \A q \in Pages : q # p => page'[q] = page[q]
  BY <1>1, PageSet DEF IInv, Sound
<1>5. SoundConnections' /\ conn'[p] = c /\ \A q \in Pages : q # p => conn'[q] = conn[q]
  BY ConnectionSet DEF IInv, Sound
<1>6. Sound'
  BY <1>4, <1>5 DEF IInv, Sound, SoundLives, SoundTasks
<1>7. \A q \in Pages : /\ Kept(page[q], page'[q])
                       /\ conn'[q].remote = conn[q].remote
  BY <1>4, <1>5 DEF Kept
<1>8. QueueIsWatched'
  BY <1>7, StillWatched DEF IInv, Kept
<1>9. DerivesItsAnswer'
  BY <1>7, DerivesKept, Distinct DEF IInv, Kept
<1> QED
  BY <1>6, <1>8, <1>9 DEF IInv

LEMMA BecomesInv ==
  ASSUME IInv, NEW p \in Pages, NEW s \in Page, Kept(page[p], s),
         NEW c, SoundConnection(p, c), c.remote = conn[p].remote,
         NEW P \in SUBSET GenuinePost, Becomes(p, s, c, P), SoundInboxes'
  PROVE  IInv'
BY ChangesInv DEF Becomes

\* A handler goes on: all but what the sender derives.
LEMMA GoesOnSound ==
  ASSUME IInv, NEW p \in Pages, NEW s, SoundPage(p, s),
         s.retries = page[p].retries, s.retry = page[p].retry,
         NEW c, SoundConnection(p, c), NEW T \in SUBSET TasksOf(p), NEW P \in SUBSET GenuinePost,
         GoesOn(p, s, c, T, P)
  PROVE  /\ Sound' /\ QueueIsWatched'
         /\ page'[p] = s /\ conn'[p] = c /\ tasks'[p] = T
         /\ \A q \in Pages : q # p => page'[q] = page[q] /\ conn'[q] = conn[q] /\ tasks'[q] = tasks[q]
<1>2. /\ page' = [page EXCEPT ![p] = s] /\ conn' = [conn EXCEPT ![p] = c]
      /\ tasks' = [tasks EXCEPT ![p] = T] /\ posts' = posts \cup P
  BY DEF GoesOn
<1>3. UNCHANGED <<life, inbox>>
  BY DEF GoesOn
<1>4. SoundPages' /\ page'[p] = s /\ \A q \in Pages : q # p => page'[q] = page[q]
  BY <1>2, PageSet DEF IInv, Sound
<1>5. SoundConnections' /\ conn'[p] = c /\ \A q \in Pages : q # p => conn'[q] = conn[q]
  BY <1>2, ConnectionSet DEF IInv, Sound
<1>6. SoundTasks' /\ tasks'[p] = T /\ \A q \in Pages : q # p => tasks'[q] = tasks[q]
  BY <1>2, TasksSet DEF IInv, Sound
<1>7. Sound'
  BY <1>2, <1>3, <1>4, <1>5, <1>6 DEF IInv, Sound, SoundLives, SoundInboxes
<1>8. \A q \in Pages : page'[q].retries = page[q].retries /\ page'[q].retry = page[q].retry
  BY <1>4
<1>9. QueueIsWatched'
  BY <1>2, <1>8, StillWatched DEF IInv
<1> QED
  BY <1>4, <1>5, <1>6, <1>7, <1>9

LEMMA GoesOnInv ==
  ASSUME IInv, NEW p \in Pages, NEW s \in Page, Kept(page[p], s),
         NEW c, SoundConnection(p, c), c.remote = conn[p].remote,
         NEW T \in SUBSET TasksOf(p), \A t \in T : t.step = "derive" => t \in tasks[p],
         NEW P \in SUBSET GenuinePost, GoesOn(p, s, c, T, P)
  PROVE  IInv'
<1>1. SoundPage(p, s) /\ s.retries = page[p].retries /\ s.retry = page[p].retry
  BY KeptSound DEF IInv, Sound, SoundPages, Kept
<1>2. /\ Sound' /\ QueueIsWatched'
      /\ page'[p] = s /\ conn'[p] = c /\ tasks'[p] = T
      /\ \A q \in Pages : q # p => page'[q] = page[q] /\ conn'[q] = conn[q] /\ tasks'[q] = tasks[q]
  BY <1>1, GoesOnSound
<1>3. \A q \in Pages : /\ page'[q].key = page[q].key /\ page'[q].late = page[q].late
                       /\ conn'[q].remote = conn[q].remote
                       /\ \A t \in tasks'[q] : t.step = "derive" => t \in tasks[q]
  BY <1>2 DEF Kept
<1>4. DerivesItsAnswer'
  BY <1>3, DerivesKept, Distinct DEF IInv
<1> QED
  BY <1>2, <1>4 DEF IInv

LEMMA Now ==
  ASSUME IInv, NEW p \in Pages
  PROVE  /\ SoundPage(p, page[p]) /\ page[p] \in Page /\ Kept(page[p], page[p])
         /\ page[p].remote \in Pages \cup {NoOne} /\ page[p].reconnect \in BOOLEAN
         /\ SoundConnection(p, conn[p]) /\ tasks[p] \subseteq TasksOf(p)
         /\ conn[p].ops \in Seq(OpsOf(p))
         /\ inbox[p] \in Seq(EventsFor(p))
<1>1. /\ SoundPage(p, page[p]) /\ SoundConnection(p, conn[p]) /\ tasks[p] \subseteq TasksOf(p)
      /\ inbox[p] \in Seq(EventsFor(p))
  BY DEF IInv, Sound, SoundPages, SoundConnections, SoundTasks, SoundInboxes
<1>2. page[p] \in Page
  BY <1>1 DEF SoundPage
<1> QED
  BY <1>1, <1>2 DEF Page, Kept, SoundConnection

-----------------------------------------------------------------------------
(* The events of the stream *)

LEMMA HandlesSound ==
  ASSUME IInv, NEW p \in Pages, Handles(p)
  PROVE  SoundInboxes' /\ inbox[p] # <<>>
<1>1. SoundInboxes /\ inbox[p] # <<>> /\ inbox' = [inbox EXCEPT ![p] = Tail(inbox[p])]
  BY DEF IInv, Sound, Handles
<1>2. Tail(inbox[p]) \in Seq(EventsFor(p))
  BY <1>1, FirstSound
<1> QED
  BY <1>1, <1>2, InboxSet

\* The peer is set, an offer is begun if there is one to make.
LEMMA PeerSetInv ==
  ASSUME IInv, NEW p \in Pages, SoundInboxes', NEW s \in Page, Kept(page[p], s),
         \/ /\ Becomes(p, Announced(p, s), Offering(p, s, Ensured(p, s, conn[p])), Announcement(p, s))
         \/ /\ Becomes(p, s, Offering(p, s, Ensured(p, s, conn[p])), {})
  PROVE  IInv'
<1> DEFINE c == Offering(p, s, Ensured(p, s, conn[p]))
<1>1. SoundConnection(p, c) /\ c.remote = conn[p].remote
  BY Now, EnsuredSound, OfferingSound
<1>2. Announced(p, s) \in Page /\ Kept(page[p], Announced(p, s))
  BY SessionKept, KeptTrans
<1>3. Announcement(p, s) \in SUBSET GenuinePost /\ {} \in SUBSET GenuinePost
  BY AnnouncementSound
<1> HIDE DEF c
<1>4. CASE Becomes(p, Announced(p, s), c, Announcement(p, s))
  BY <1>1, <1>2, <1>3, <1>4, BecomesInv
<1>5. CASE Becomes(p, s, c, {})
  BY <1>1, <1>3, <1>5, BecomesInv
<1> QED
  BY <1>4, <1>5 DEF c

LEMMA RoomStateInv ==
  ASSUME IInv, NEW p \in Pages, RoomState(p)
  PROVE  IInv'
<1> DEFINE q == First(p).peer
           b == IF q = NoOne THEN FALSE ELSE page[p].reconnect
           s == [page[p] EXCEPT !.remote = q, !.reconnect = b]
<1>1. SoundInboxes' /\ q \in Pages \cup {NoOne}
  BY HandlesSound, FirstSound DEF RoomState, IInv, Sound
<1>2. b \in BOOLEAN
  BY Now
<1> HIDE DEF q, b
<1>3. s \in Page /\ Kept(page[p], s)
  BY <1>1, <1>2, Now, FieldsKept
<1>4. Becomes(p, Announced(p, s), Offering(p, s, Ensured(p, s, conn[p])), Announcement(p, s))
  BY DEF RoomState, q, b
<1> HIDE DEF s
<1> QED
  BY <1>1, <1>3, <1>4, PeerSetInv

LEMMA PeerJoinedInv ==
  ASSUME IInv, NEW p \in Pages, PeerJoined(p)
  PROVE  IInv'
<1> DEFINE s == [page[p] EXCEPT !.remote = First(p).peer]
<1>1. SoundInboxes' /\ First(p).peer \in Pages \cup {NoOne}
  BY HandlesSound, FirstSound DEF PeerJoined, IInv, Sound
<1>2. s \in Page /\ Kept(page[p], s)
  BY <1>1, Now, FieldsKept
<1>3. Becomes(p, s, Offering(p, s, Ensured(p, s, conn[p])), {})
  BY DEF PeerJoined
<1> HIDE DEF s
<1> QED
  BY <1>1, <1>2, <1>3, PeerSetInv

\* What page p knows of a signal it receives.
LEMMA ReceivedSound ==
  ASSUME IInv, NEW p \in Pages, NEW kind, Receives(p, kind)
  PROVE  LET signal == First(p).signal IN
         /\ SoundInboxes'
         /\ signal \in Signal /\ signal.from \in Pages /\ signal.body \in Description
         /\ Genuine(signal) /\ signal.kind = kind
         /\ kind = "answer" => p = Owner
         /\ kind = "offer" => p # Owner
<1>1. SoundInboxes' /\ inbox[p] # <<>> /\ First(p).type = "signal" /\ First(p).signal.kind = kind
  BY HandlesSound DEF Receives
<1>2. First(p) \in EventsFor(p) /\ First(p).signal \in Signal
  BY <1>1, FirstSound DEF IInv, Sound
<1>3. /\ Genuine(First(p).signal) /\ First(p).signal.from # p
      /\ First(p).signal.kind = "answer" => p = Owner
  BY <1>1, <1>2 DEF EventsFor
<1>4. First(p).signal.from \in Pages /\ First(p).signal.body \in Description
  BY <1>2 DEF Signal
<1> QED
  BY <1>1, <1>2, <1>3, <1>4 DEF Genuine

LEMMA ReceiveReadyInv ==
  ASSUME IInv, NEW p \in Pages, ReceiveReady(p)
  PROVE  IInv'
<1> DEFINE s == [page[p] EXCEPT !.remote = First(p).signal.from, !.offerReady = TRUE]
<1>1. SoundInboxes' /\ First(p).signal.from \in Pages
  BY ReceivedSound DEF ReceiveReady
<1>2. s \in Page /\ Kept(page[p], s)
  BY <1>1, Now DEF Page, Kept
<1>3. Becomes(p, s, Offering(p, s, Ensured(p, s, conn[p])), {})
  BY DEF ReceiveReady
<1> HIDE DEF s
<1> QED
  BY <1>1, <1>2, <1>3, PeerSetInv

LEMMA ReceiveOfferInv ==
  ASSUME IInv, NEW p \in Pages, ReceiveOffer(p)
  PROVE  IInv'
<1> DEFINE s == [page[p] EXCEPT !.remote = First(p).signal.from]
           e == Ensured(p, s, conn[p])
           c == Applying(e, First(p).signal)
<1>1. /\ SoundInboxes' /\ First(p).signal.from \in Pages
      /\ First(p).signal \in Signal /\ Genuine(First(p).signal)
      /\ First(p).signal.kind = "offer" /\ p # Owner
  BY ReceivedSound DEF ReceiveOffer
<1>2. s \in Page /\ Kept(page[p], s)
  BY <1>1, Now, FieldsKept
<1> HIDE DEF s
<1>3. SoundConnection(p, e) /\ e.remote = conn[p].remote
  BY Now, EnsuredSound
<1> HIDE DEF e
<1>4. SoundConnection(p, c) /\ c.remote = conn[p].remote
  BY <1>1, <1>3, ApplyingSound
<1>5. Becomes(p, s, c, {})
  BY DEF ReceiveOffer, c, e, s
<1> HIDE DEF c
<1> QED
  BY <1>1, <1>2, <1>4, <1>5, BecomesInv

LEMMA ReceiveAnswerInv ==
  ASSUME IInv, NEW p \in Pages, ReceiveAnswer(p)
  PROVE  IInv'
<1> DEFINE c == Applying(conn[p], First(p).signal)
<1>1. /\ SoundInboxes' /\ First(p).signal \in Signal /\ Genuine(First(p).signal)
      /\ First(p).signal.kind = "answer" /\ p = Owner
  BY ReceivedSound DEF ReceiveAnswer
<1>2. SoundConnection(p, c) /\ c.remote = conn[p].remote
  BY <1>1, Now, ApplyingSound
<1>3. Becomes(p, page[p], c, {})
  BY DEF ReceiveAnswer
<1> HIDE DEF c
<1> QED
  BY <1>1, <1>2, <1>3, Now, BecomesInv

LEMMA ReceiveCandidateInv ==
  ASSUME IInv, NEW p \in Pages, ReceiveCandidate(p)
  PROVE  IInv'
<1> DEFINE k == First(p).signal.body.offer
           described == conn[p].remote # NoDescription
           s == IF described THEN page[p] ELSE [page[p] EXCEPT !.pending = Append(@, k)]
           c == IF described /\ Author(conn[p].remote) = k THEN [conn[p] EXCEPT !.reachable = TRUE]
                ELSE conn[p]
<1>1. SoundInboxes' /\ First(p).signal.body \in Description
  BY ReceivedSound DEF ReceiveCandidate
<1>2. k \in Names
  BY <1>1 DEF Description
<1>3. Becomes(p, s, c, {})
  BY DEF ReceiveCandidate
<1> HIDE DEF k
<1>4. s \in Page /\ Kept(page[p], s)
  <2>1. page[p].pending \in Seq(Names)
    BY Now DEF Page
  <2>2. Append(page[p].pending, k) \in Seq(Names)
    BY <1>2, <2>1, AppendProperties
  <2> QED
    BY <2>2, Now, FieldsKept
<1>5. SoundConnection(p, c) /\ c.remote = conn[p].remote
  <2>1. CASE c = conn[p]
    BY <2>1, Now
  <2>2. CASE described /\ c = [conn[p] EXCEPT !.reachable = TRUE]
    <3>1. conn[p].id # NoOne
      BY <2>2, Now, Connected, NewConnections
    <3>2. LET d == [conn[p] EXCEPT !.reachable = TRUE] IN
          SoundConnection(p, d) /\ d.remote = conn[p].remote
      BY <3>1, Now, ConnectionUpdates, Zenon
    <3> QED
      BY <2>2, <3>2
  <2> QED
    BY <2>1, <2>2
<1> HIDE DEF s, c
<1> QED
  BY <1>1, <1>3, <1>4, <1>5, BecomesInv

-----------------------------------------------------------------------------
(* What the handlers do after their awaits *)

LEMMA ResumesSound ==
  ASSUME IInv, NEW p \in Pages, NEW op, Resumes(p, op)
  PROVE  LET o == Head(conn[p].ops)
             c == [conn[p] EXCEPT !.ops = Tail(@)] IN
         /\ o \in OpsOf(p) /\ o.op = op /\ o.signal \in Signal
         /\ op = "offer" => p = Owner
         /\ op # "offer" => Incoming(p, o.signal)
         /\ op = "answer" => p # Owner
         /\ SoundConnection(p, c) /\ c.remote = conn[p].remote /\ c.id = p
         /\ conn[p].id = p
<1>1. conn[p].ops # <<>> /\ Head(conn[p].ops).op = op
  BY DEF Resumes
<1>2. SoundConnection(p, conn[p]) /\ conn[p].ops \in Seq(OpsOf(p))
  BY Now
<1>3. Head(conn[p].ops) \in OpsOf(p)
  BY <1>1, <1>2, HeadTailProperties
<1>4. conn[p].id # NoOne
  BY <1>1, <1>2, Connected DEF NoConnection, NewConnection
<1>5. conn[p].id = p
  BY <1>2, <1>4 DEF SoundConnection
<1>6. LET c == [conn[p] EXCEPT !.ops = Tail(@)] IN
      SoundConnection(p, c) /\ c.remote = conn[p].remote /\ c.id = conn[p].id
  BY <1>1, <1>2, <1>4, ConnectionUpdates, Zenon
<1> QED
  BY <1>1, <1>3, <1>5, <1>6 DEF OpsOf, Op

LEMMA GatheredSound ==
  ASSUME IInv, NEW p \in Pages
  PROVE  Gathered(p) \in SUBSET GenuinePost
<1>1. page[p].remote \in Pages \cup {NoOne}
  BY Now
<1>2. Offer(p) \in Description
  BY Distinct DEF Offer, Description
<1>3. Candidate(p, page[p].remote, p) \in Signal /\ Genuine(Candidate(p, page[p].remote, p))
  BY <1>1, <1>2 DEF Candidate, Signal, Genuine
<1> QED
  BY <1>3, PostedSound DEF Gathered

LEMMA ExportSound ==
  ASSUME NEW p \in Pages, NEW c, c.id = p, NEW kind, NEW to \in Pages \cup {NoOne},
         NEW body \in Description,
         IF p = Owner THEN kind = "offer" ELSE kind = "answer" /\ to = Owner
  PROVE  LET t == Task("export", c, Described(kind, p, to, body)) IN
         t \in TasksOf(p) /\ t.step = "export"
<1>1. Described(kind, p, to, body) \in Signal
  BY DEF Described, Signal
<1>2. Task("export", c, Described(kind, p, to, body)) \in Await
  BY <1>1, Distinct DEF Task, Await
<1> QED
  BY <1>2 DEF Task, TasksOf, Described

LEMMA OfferMadeInv ==
  ASSUME IInv, NEW p \in Pages, OfferMade(p)
  PROVE  IInv'
<1> DEFINE b == [conn[p] EXCEPT !.ops = Tail(@)]
           e == Offer(conn[p].id)
           c == [b EXCEPT !.local = e]
           t == Task("export", c, Described("offer", p, NoOne, e))
<1>1. p = Owner /\ SoundConnection(p, b) /\ b.remote = conn[p].remote /\ b.id = p /\ conn[p].id = p
  BY ResumesSound DEF OfferMade
<1>2. e \in Description
  BY <1>1, Distinct DEF Offer, Description
<1>3. GoesOn(p, page[p], [conn[p] EXCEPT !.ops = Tail(@), !.local = e],
             tasks[p] \cup {Task("export", [conn[p] EXCEPT !.ops = Tail(@), !.local = e],
                  Described("offer", p, NoOne, [conn[p] EXCEPT !.ops = Tail(@), !.local = e].local))},
             Gathered(p))
  BY DEF OfferMade
<1>4. c = [conn[p] EXCEPT !.ops = Tail(@), !.local = e]
  BY Zenon
<1>5. b.id # NoOne
  BY <1>1, Distinct
<1> HIDE DEF b, e
<1>6. SoundConnection(p, c) /\ c.remote = b.remote /\ c.id = b.id
  BY <1>1, <1>2, <1>5, ConnectionUpdates, Zenon
<1>7. c.local = e
  BY <1>1, Zenon DEF SoundConnection, Connection
<1> HIDE DEF c
<1>8. t \in TasksOf(p) /\ t.step = "export"
  BY <1>1, <1>2, <1>6, ExportSound
<1>9. GoesOn(p, page[p], c, tasks[p] \cup {t}, Gathered(p))
  BY <1>3, <1>4, <1>7
<1> HIDE DEF t
<1>10. tasks[p] \cup {t} \in SUBSET TasksOf(p) /\ \A u \in tasks[p] \cup {t} : u.step = "derive" => u \in tasks[p]
  BY <1>8, Now
<1> QED
  BY <1>1, <1>6, <1>9, <1>10, Now, GatheredSound, GoesOnInv

LEMMA AnswerMadeInv ==
  ASSUME IInv, NEW p \in Pages, AnswerMade(p)
  PROVE  IInv'
<1> DEFINE c == [conn[p] EXCEPT !.ops = Tail(@)]
           answer == Answer(c.remote.offer, c.id)
           signal == Head(conn[p].ops).signal
           d == [c EXCEPT !.local = answer]
           t == Task("export", c, Described("answer", p, signal.from, answer))
<1>1. /\ p # Owner /\ SoundConnection(p, c) /\ c.remote = conn[p].remote /\ c.id = p
      /\ Incoming(p, signal)
  BY ResumesSound DEF AnswerMade
<1>2. \/ GoesOn(p, page[p], c, tasks[p], {})
      \/ GoesOn(p, page[p], d, tasks[p] \cup {t}, Gathered(p))
  BY DEF AnswerMade
<1>3. signal.from = Owner
  BY <1>1 DEF Incoming, Genuine
<1>4. c.remote \in Description
  BY <1>1 DEF SoundConnection, Connection
<1> HIDE DEF c, signal
<1>5. answer \in Description /\ answer.answer = p
  BY <1>1, <1>4, Distinct DEF Answer, Description
<1>6. c.id # NoOne
  BY <1>1, Distinct
<1> HIDE DEF answer
<1>7. SoundConnection(p, d) /\ d.remote = c.remote
  BY <1>1, <1>5, <1>6, ConnectionUpdates, Zenon
<1>8. t \in TasksOf(p) /\ t.step = "export"
  BY <1>1, <1>3, <1>5, Distinct, ExportSound
<1> HIDE DEF t, d
<1>9. tasks[p] \cup {t} \in SUBSET TasksOf(p) /\ \A u \in tasks[p] \cup {t} : u.step = "derive" => u \in tasks[p]
  BY <1>8, Now
<1>10. CASE GoesOn(p, page[p], c, tasks[p], {})
  BY <1>1, <1>10, Now, GoesOnInv
<1>11. CASE GoesOn(p, page[p], d, tasks[p] \cup {t}, Gathered(p))
  BY <1>1, <1>7, <1>9, <1>11, Now, GatheredSound, GoesOnInv
<1> QED
  BY <1>2, <1>10, <1>11

LEMMA PostDescriptionInv ==
  ASSUME IInv, NEW p \in Pages, NEW t \in tasks[p], PostDescription(p, t)
  PROVE  IInv'
<1> DEFINE to == IF t.signal.kind = "offer" THEN page[p].remote ELSE t.signal.to
           signal == Described(t.signal.kind, p, to, conn[p].local)
           P == IF conn[p] = NoConnection THEN {} ELSE {Posted(signal)}
<1>1. t \in TasksOf(p) /\ t.step = "export"
  BY Now DEF PostDescription
<1>2. /\ IF p = Owner THEN t.signal.kind = "offer" ELSE t.signal.kind = "answer" /\ t.signal.to = Owner
      /\ t.signal.kind \in {"offer", "answer"}
  BY <1>1 DEF TasksOf
<1>3. to \in Pages \cup {NoOne} /\ conn[p].local \in Description
  BY <1>2, Now, Distinct DEF SoundConnection, Connection
<1>4. signal \in Signal
  BY <1>2, <1>3 DEF Described, Signal
<1>5. p # Owner /\ conn[p].local # NoDescription => conn[p].local.answer = p
  BY Now DEF SoundConnection
<1>6. Genuine(signal)
  BY <1>2, <1>5, Distinct DEF Genuine, Described
<1>7. posts' = posts \cup P
  BY DEF PostDescription
<1> HIDE DEF signal
<1>8. P \in SUBSET GenuinePost
  BY <1>4, <1>6, PostedSound
<1> HIDE DEF P
<1>9. page' = [page EXCEPT ![p] = page[p]] /\ conn' = [conn EXCEPT ![p] = conn[p]]
  BY DEF PostDescription, IInv, Sound, SoundPages, SoundConnections, OnPages
<1>10. GoesOn(p, page[p], conn[p], tasks[p] \ {t}, P)
  BY <1>7, <1>9 DEF PostDescription, GoesOn
<1>11. tasks[p] \ {t} \in SUBSET TasksOf(p) /\ \A u \in tasks[p] \ {t} : u.step = "derive" => u \in tasks[p]
  BY Now
<1> QED
  BY <1>8, <1>10, <1>11, Now, GoesOnInv

-----------------------------------------------------------------------------
(* Descriptions and keys *)

LEMMA LeastOf ==
  ASSUME NEW S \in SUBSET Nat, S # {}
  PROVE  Min(S) \in S
<1> DEFINE R == OpToRel(<, Nat)
<1>1. PICK x \in S : \A y \in S : ~ (<<y, x>> \in R)
  BY NatLessThanWellFounded, WFMin, Zenon
<1>2. ASSUME NEW m \in Nat, NEW n \in Nat, m < n
      PROVE  <<m, n>> \in R
  BY <1>2, Zenon DEF OpToRel
<1> HIDE DEF R
<1>3. ASSUME NEW y \in S
      PROVE  x <= y
  <2>1. ~(<<y, x>> \in R)
    BY <1>1
  <2>2. ~(y < x)
    BY <1>2, <2>1, Zenon
  <2> QED
    BY <2>2
<1> QED
  BY <1>3 DEF Min

LEMMA UnreachedSound ==
  ASSUME NEW candidates \in Seq(Names), NEW author
  PROVE  Unreached(candidates, author) \in Seq(Names)
<1> DEFINE refused == Refused(candidates, author)
<1>1. CASE refused = {}
  BY <1>1, EmptySeq DEF Unreached
<1>2. CASE refused # {}
  <2>1. refused \in SUBSET Nat /\ refused \subseteq DOMAIN candidates
    BY LenProperties DEF Refused
  <2>2. Min(refused) \in DOMAIN candidates
    BY <1>2, <2>1, LeastOf
  <2>3. candidates[Min(refused)] \in Names
    BY <2>2, ElementOfSeq, LenProperties
  <2> QED
    BY <1>2, <2>3 DEF Unreached
<1> QED
  BY <1>1, <1>2

\* Page p, with session s and connection d that has been given the description of
\* signal, goes on.
LEMMA ApplyInv ==
  ASSUME IInv, NEW p \in Pages, NEW c, SoundConnection(p, c), c.remote = conn[p].remote, c.id = p,
         NEW signal \in Signal, Incoming(p, signal), ~Refuses(p, c),
         Apply(p, page[p], c, signal)
  PROVE  IInv'
<1> DEFINE author == Author(signal.body)
           reachable == author \notin Trickle \/ Reached(page[p].pending, author)
           d == [c EXCEPT !.remote = signal.body, !.reachable = reachable]
           t == [page[p] EXCEPT !.pending = Unreached(@, author)]
           answer == [op |-> "answer", signal |-> signal]
           task == Task("derive", c, signal)
           f == [d EXCEPT !.ops = Append(@, answer)]
<1>1. IF page[p].key = {} THEN GoesOn(p, t, d, tasks[p] \cup {task}, {})
      ELSE GoesOn(p, t, IF p = Owner THEN d ELSE f, tasks[p], {})
  BY DEF Apply
<1>2. signal.body \in Description /\ signal.body # NoDescription
  BY DEF Signal, Incoming
<1>3. t \in Page /\ Kept(page[p], t)
  <2>1. page[p].pending \in Seq(Names)
    BY Now DEF Page
  <2>2. Unreached(page[p].pending, author) \in Seq(Names)
    BY <2>1, UnreachedSound
  <2> HIDE DEF author
  <2> QED
    BY <2>2, Now, FieldsKept
<1>4. reachable \in BOOLEAN
  OBVIOUS
<1>5. c.id # NoOne
  BY Distinct
<1> HIDE DEF reachable, author
<1>6. SoundConnection(p, d) /\ d.remote = signal.body /\ d.id = c.id
  <2>1. d = GivenRemote(c, signal.body, reachable)
    BY DEF GivenRemote
  <2> HIDE DEF d
  <2> QED
    BY <1>2, <1>4, <1>5, <2>1, RemoteSet
<1>7. task \in TasksOf(p) /\ task.step = "derive" /\ task.id = p /\ task.signal = signal
  BY Distinct DEF Task, TasksOf, Await
<1>8. p # Owner => answer \in OpsOf(p)
  BY DEF OpsOf, Op
<1> HIDE DEF answer, d, task, t
<1>9. p # Owner => SoundConnection(p, f)
  BY <1>5, <1>6, <1>8, ConnectionUpdates, Zenon
<1> DEFINE e == IF page[p].key = {} \/ p = Owner THEN d ELSE f
           T == IF page[p].key = {} THEN tasks[p] \cup {task} ELSE tasks[p]
<1>10. GoesOn(p, t, e, T, {})
  BY <1>1
<1>11. SoundConnection(p, e) /\ (p = Owner => e.remote = signal.body)
  BY <1>6, <1>9
<1>12. T \in SUBSET TasksOf(p) /\ \A u \in T : u \in tasks[p] \/ u = task
  BY <1>7, Now
<1>13. SoundPage(p, t) /\ t.retries = page[p].retries /\ t.retry = page[p].retry
  BY <1>3, Now, KeptSound DEF Kept
<1>14. page[p].key = {} => task \in T
  OBVIOUS
<1> HIDE DEF e, T, f
<1>15. /\ Sound' /\ QueueIsWatched'
       /\ page'[p] = t /\ conn'[p] = e /\ tasks'[p] = T
       /\ \A q \in Pages : q # p => page'[q] = page[q] /\ conn'[q] = conn[q] /\ tasks'[q] = tasks[q]
  BY <1>10, <1>11, <1>12, <1>13, GoesOnSound
<1>16. CASE p # Owner
  BY <1>15, <1>16, Distinct DEF IInv, DerivesItsAnswer
<1>17. CASE p = Owner
  <2>1. conn[Owner].remote = NoDescription
    BY <1>17 DEF Refuses
  <2>2. ASSUME NEW u \in tasks[Owner], u.step = "derive", u.id = Owner
        PROVE  FALSE
    <3>1. u.signal.body # NoDescription
      BY <2>2, Now, Distinct DEF TasksOf, Incoming
    <3> QED
      BY <2>1, <2>2, <3>1 DEF IInv, DerivesItsAnswer, DerivesFrom
  <2>3. t.key = {} \/ t.late
    BY <1>3, <1>17, <2>1 DEF IInv, DerivesItsAnswer, DerivesFrom, Kept
  <2>4. \A u \in T : u.step = "derive" /\ u.id = Owner => signal.body = u.signal.body
    BY <1>7, <1>12, <1>17, <2>2
  <2>5. DerivesFrom(t, e, T)
    BY <1>11, <1>17, <2>3, <2>4 DEF DerivesFrom
  <2> QED
    BY <1>15, <1>17, <2>5 DEF IInv, DerivesItsAnswer
<1> QED
  BY <1>16, <1>17

LEMMA RemoteDescribedInv ==
  ASSUME IInv, NEW p \in Pages, RemoteDescribed(p)
  PROVE  IInv'
<1> DEFINE c == [conn[p] EXCEPT !.ops = Tail(@)]
           signal == Head(conn[p].ops).signal
<1>1. /\ SoundConnection(p, c) /\ c.remote = conn[p].remote /\ c.id = p
      /\ signal \in Signal /\ Incoming(p, signal)
  BY ResumesSound DEF RemoteDescribed
<1>2. IF Refuses(p, c) THEN GoesOn(p, page[p], c, tasks[p], {})
      ELSE Apply(p, page[p], c, signal)
  BY DEF RemoteDescribed
<1> HIDE DEF c, signal
<1>3. CASE Refuses(p, c)
  BY <1>1, <1>2, <1>3, Now, GoesOnInv
<1>4. CASE ~Refuses(p, c)
  BY <1>1, <1>2, <1>4, ApplyInv
<1> QED
  BY <1>3, <1>4

LEMMA KeyDerivedInv ==
  ASSUME IInv, NEW p \in Pages, NEW t \in tasks[p], KeyDerived(p, t)
  PROVE  IInv'
<1> DEFINE late == page[p].late \/ t.id # conn[p].id
           key == {p, t.signal.from}
           s == [page[p] EXCEPT !.key = key, !.late = late]
           answer == [op |-> "answer", signal |-> t.signal]
           c == IF p = Owner \/ conn[p] = NoConnection THEN conn[p]
                ELSE [conn[p] EXCEPT !.ops = Append(@, answer)]
<1>1. t \in TasksOf(p) /\ t.step = "derive"
  BY Now DEF KeyDerived
<1>2. Incoming(p, t.signal) /\ t.id # NoOne /\ t.signal \in Signal /\ t.signal.from \in Pages
  BY <1>1 DEF TasksOf, Await, Signal
<1>3. GoesOn(p, s, c, tasks[p] \ {t}, {})
  BY DEF KeyDerived
<1>4. late \in BOOLEAN /\ key \in Keys
  BY <1>2 DEF Keys
<1>5. p # Owner => key = {p, Owner}
  BY <1>2 DEF Incoming, Genuine
<1>6. p = Owner => t.signal.from \in Guests /\ t.signal.body.answer \in {t.signal.from, Stale}
  BY <1>2 DEF Incoming, Genuine
<1>7. ~late => ~page[p].late /\ t.id = conn[p].id
  OBVIOUS
<1> HIDE DEF late
<1>8. SoundPage(p, s) /\ s.retries = page[p].retries /\ s.retry = page[p].retry /\ s.key = key /\ s.late = late
  <2> HIDE DEF key
  <2>1. /\ s \in Page /\ s.retries = page[p].retries /\ s.retry = page[p].retry
        /\ s.key = key /\ s.late = late
    BY <1>4, Now DEF Page
  <2> QED
    BY <1>5, <2>1, Now DEF SoundPage
<1>9. SoundConnection(p, c) /\ (p = Owner => c = conn[p])
  <2>1. CASE p = Owner \/ conn[p] = NoConnection
    BY <2>1, Now
  <2>2. CASE ~(p = Owner \/ conn[p] = NoConnection)
    <3>1. answer \in OpsOf(p)
      BY <1>2, <2>2 DEF OpsOf, Op
    <3>2. conn[p].id # NoOne
      BY <2>2, Now, Connected
    <3> HIDE DEF answer
    <3>3. SoundConnection(p, [conn[p] EXCEPT !.ops = Append(@, answer)])
      BY <3>1, <3>2, Now, ConnectionUpdates, Zenon
    <3> QED
      BY <2>2, <3>3
  <2> QED
    BY <2>1, <2>2
<1> HIDE DEF s, c, key
<1>10. tasks[p] \ {t} \in SUBSET TasksOf(p)
  BY Now
<1>11. /\ Sound' /\ QueueIsWatched'
       /\ page'[p] = s /\ conn'[p] = c /\ tasks'[p] = tasks[p] \ {t}
       /\ \A q \in Pages : q # p => page'[q] = page[q] /\ conn'[q] = conn[q] /\ tasks'[q] = tasks[q]
  BY <1>3, <1>8, <1>9, <1>10, GoesOnSound
<1>12. CASE p # Owner
  BY <1>11, <1>12, Distinct DEF IInv, DerivesItsAnswer
<1>13. CASE p = Owner
  <2>1. \A u \in tasks[p] \ {t} : u.step = "derive" /\ u.id = Owner => c.remote = u.signal.body
    BY <1>9, <1>13 DEF IInv, DerivesItsAnswer, DerivesFrom
  <2>2. ASSUME ~late
        PROVE  /\ key = {Owner, t.signal.from} /\ t.signal.from \in Guests
               /\ c.remote # NoDescription /\ c.remote.answer \in {t.signal.from, Stale}
    <3>1. t.id = Owner
      BY <1>2, <1>7, <1>13, <2>2, Now DEF SoundConnection
    <3>2. conn[Owner].remote = t.signal.body
      BY <1>1, <1>13, <3>1 DEF IInv, DerivesItsAnswer, DerivesFrom
    <3> QED
      BY <1>2, <1>6, <1>9, <1>13, <3>2 DEF Incoming, key
  <2>3. DerivesFrom(s, c, tasks[p] \ {t})
    BY <1>8, <2>1, <2>2 DEF DerivesFrom
  <2> QED
    BY <1>11, <1>13, <2>3 DEF IInv, DerivesItsAnswer
<1> QED
  BY <1>12, <1>13

-----------------------------------------------------------------------------
(* Posts, streams and timers *)

\* Page p's session becomes s; connections and what is awaited stay.
LEMMA SessionInv ==
  ASSUME IInv, NEW p \in Pages, NEW s, SoundPage(p, s),
         s.key = page[p].key, s.late = page[p].late,
         page' = [page EXCEPT ![p] = s], UNCHANGED <<conn, tasks>>,
         posts' \subseteq GenuinePost, SoundInboxes', SoundLives',
         \/ s.retries = <<>> \/ s.retry
         \/ \E m \in posts' : m.signal.from = p /\ m.by \in Loops
         \/ /\ s.retries = page[p].retries /\ s.retry = page[p].retry
            /\ \A m \in posts : m.signal.from = p /\ m.by \in Loops => m \in posts',
         \A m \in posts : m.signal.from # p => m \in posts'
  PROVE  IInv'
<1>1. SoundPages' /\ page'[p] = s /\ \A q \in Pages : q # p => page'[q] = page[q]
  BY PageSet DEF IInv, Sound
<1>2. Sound'
  BY <1>1 DEF IInv, Sound, SoundConnections, SoundTasks
<1>3. \A q \in Pages : page'[q].key = page[q].key /\ page'[q].late = page[q].late
  BY <1>1
<1>4. DerivesItsAnswer'
  BY <1>3, DerivesKept, Distinct DEF IInv
<1>5. ASSUME NEW q \in Pages, q # p
      PROVE  /\ page'[q].retries = page[q].retries
             /\ page'[q].retry = page[q].retry
             /\ \A m \in posts : m.signal.from = q /\ m.by \in Loops =>
                  \E n \in posts' : n.signal.from = q /\ n.by \in Loops
  BY <1>1, <1>5
<1>6. \/ page'[p].retries = <<>>
      \/ page'[p].retry
      \/ \E m \in posts' : m.signal.from = p /\ m.by \in Loops
      \/ /\ page'[p].retries = page[p].retries
         /\ page'[p].retry = page[p].retry
         /\ \A m \in posts : m.signal.from = p /\ m.by \in Loops =>
              \E n \in posts' : n.signal.from = p /\ n.by \in Loops
  BY <1>1
<1>7. QueueIsWatched'
  BY <1>5, <1>6, StillWatched DEF IInv
<1> QED
  BY <1>2, <1>4, <1>7 DEF IInv

LEMMA LoopTypes == ASSUME NEW p, NEW loop \in FreeLoops(p) PROVE loop \in Loops
BY DEF FreeLoops

\* A loop starts with the queue that session f has.
LEMMA FlushInv ==
  ASSUME IInv, NEW p \in Pages, NEW f, SoundPage(p, f), f.retries = page[p].retries,
         NEW s, SoundPage(p, s), s.retries = page[p].retries,
         s.key = page[p].key, s.late = page[p].late,
         page' = [page EXCEPT ![p] = s], UNCHANGED <<conn, tasks>>,
         NEW loop \in Loops, NEW P \in SUBSET GenuinePost, posts' = posts \cup Flushed(f, loop) \cup P,
         SoundInboxes', SoundLives'
  PROVE  IInv'
<1>1. Flushed(f, loop) \subseteq GenuinePost
  BY FlushedSound
<1>2. s.retries = <<>> \/ \E m \in posts' : m.signal.from = p /\ m.by \in Loops
  BY FlushedSound
<1>3. posts' \subseteq GenuinePost
  BY <1>1 DEF IInv, Sound
<1> QED
  BY <1>2, <1>3, SessionInv

LEMMA FlushingNow ==
  ASSUME IInv, NEW p \in Pages
  PROVE  LET s == Flushing(page[p]) IN
         /\ SoundPage(p, s) /\ s \in Page /\ s.retries = page[p].retries
         /\ s.key = page[p].key /\ s.late = page[p].late
<1>1. SoundPage(p, page[p])
  BY Now
<1>2. LET s == Flushing(page[p]) IN
      SoundPage(p, s) /\ s.retries = page[p].retries /\ s.key = page[p].key /\ s.late = page[p].late
  BY <1>1, TimerSound
<1> QED
  BY <1>2 DEF SoundPage

LEMMA SubscribeInv ==
  ASSUME IInv, NEW p \in Pages, Subscribe(p)
  PROVE  IInv'
<1> DEFINE f == Flushing(page[p])
           s == IF p = Owner THEN Revived(p, f) ELSE Announced(p, f)
<1>1. /\ SoundPage(p, f) /\ f \in Page /\ f.retries = page[p].retries
      /\ f.key = page[p].key /\ f.late = page[p].late
  BY FlushingNow
<1>2. PICK loop \in FreeLoops(p) : posts' = posts \cup Flushed(f, loop) \cup Announcement(p, f)
  BY DEF Subscribe
<1>3. page' = [page EXCEPT ![p] = s] /\ UNCHANGED <<conn, tasks>>
  BY DEF Subscribe
<1> HIDE DEF f
<1>4. s \in Page /\ Kept(f, s)
  BY <1>1, SessionKept
<1>5. SoundPage(p, s)
  BY <1>1, <1>4, KeptSound
<1>6. s.retries = page[p].retries /\ s.key = page[p].key /\ s.late = page[p].late
  BY <1>1, <1>4 DEF Kept
<1> HIDE DEF s
<1>7. Announcement(p, f) \in SUBSET GenuinePost
  BY <1>1, AnnouncementSound
<1>8. SoundInboxes'
  <2>1. Other(p) \in Pages \cup {NoOne}
    BY DEF Other, Others, Members
  <2>2. About("room-state", Other(p)) \in EventsFor(p)
    BY <2>1, AboutSound
  <2>3. <<About("room-state", Other(p))>> \in Seq(EventsFor(p))
    BY <2>2
  <2>4. inbox' = [inbox EXCEPT ![p] = <<About("room-state", Other(p))>>]
    BY DEF Subscribe
  <2> QED
    BY <2>3, <2>4, InboxSet DEF IInv, Sound
<1>9. SoundLives'
  BY DEF Subscribe, IInv, Sound, SoundLives
<1>10. loop \in Loops
  BY LoopTypes
<1> QED
  BY <1>1, <1>2, <1>3, <1>5, <1>6, <1>7, <1>8, <1>9, <1>10, FlushInv

LEMMA SignalRetryFiresInv ==
  ASSUME IInv, NEW p \in Pages, SignalRetryFires(p)
  PROVE  IInv'
<1> DEFINE e == [page[p] EXCEPT !.retry = FALSE]
           s == Flushing(e)
<1>1. PICK loop \in FreeLoops(p) : posts' = posts \cup Flushed(s, loop)
  BY DEF SignalRetryFires
<1>2. page' = [page EXCEPT ![p] = s] /\ UNCHANGED <<conn, tasks, inbox, life>>
  BY DEF SignalRetryFires
<1>3. SoundPage(p, e) /\ e.retries = page[p].retries /\ e.key = page[p].key /\ e.late = page[p].late
  BY Now, TimerSound, Zenon
<1> HIDE DEF e
<1>4. SoundPage(p, s) /\ s.retries = e.retries /\ s.key = e.key /\ s.late = e.late
  BY <1>3, TimerSound
<1> HIDE DEF s
<1>5. SoundInboxes' /\ SoundLives'
  BY <1>2 DEF IInv, Sound, SoundInboxes, SoundLives
<1>6. loop \in Loops
  BY LoopTypes
<1>7. posts' = posts \cup Flushed(s, loop) \cup {} /\ {} \in SUBSET GenuinePost
  BY <1>1
<1> QED
  BY <1>2, <1>3, <1>4, <1>5, <1>6, <1>7, FlushInv

LEMMA OnlineInv ==
  ASSUME IInv, NEW p \in Pages, Online(p)
  PROVE  IInv'
<1> DEFINE f == Flushing(page[p])
           s == Revived(p, f)
<1>1. /\ SoundPage(p, f) /\ f \in Page /\ f.retries = page[p].retries
      /\ f.key = page[p].key /\ f.late = page[p].late
  BY FlushingNow
<1>2. PICK loop \in FreeLoops(p) : posts' = posts \cup Flushed(f, loop)
  BY DEF Online
<1>3. page' = [page EXCEPT ![p] = s] /\ UNCHANGED <<conn, tasks, inbox, life>>
  BY DEF Online
<1> HIDE DEF f
<1>4. s \in Page /\ Kept(f, s)
  BY <1>1, SessionKept
<1>5. SoundPage(p, s)
  BY <1>1, <1>4, KeptSound
<1>6. s.retries = page[p].retries /\ s.key = page[p].key /\ s.late = page[p].late
  BY <1>1, <1>4 DEF Kept
<1> HIDE DEF s
<1>7. SoundInboxes' /\ SoundLives'
  BY <1>3 DEF IInv, Sound, SoundInboxes, SoundLives
<1>8. loop \in Loops
  BY LoopTypes
<1>9. posts' = posts \cup Flushed(f, loop) \cup {} /\ {} \in SUBSET GenuinePost
  BY <1>2
<1> QED
  BY <1>1, <1>3, <1>5, <1>6, <1>7, <1>8, <1>9, FlushInv

LEMMA PostTypes ==
  ASSUME IInv, NEW m \in posts
  PROVE  /\ m \in GenuinePost /\ m.signal.from \in Pages
         /\ m.signal \in SignalsFrom(m.signal.from)
         /\ m.by \in {Direct, Abandoned} \cup Loops
<1>1. m \in GenuinePost /\ m.signal \in Signal
  BY DEF IInv, Sound, GenuinePost, Post
<1> QED
  BY <1>1 DEF GenuinePost, SignalsFrom, GenuineSignal, Signal, Post

LEMMA AfterPostInv ==
  ASSUME IInv, NEW m \in posts, NEW ok \in BOOLEAN, AfterPost(m.signal.from, m, ok),
         UNCHANGED <<life, conn, tasks>>, SoundInboxes'
  PROVE  IInv'
<1> DEFINE p == m.signal.from
           s == page[p]
           t == [s EXCEPT !.retries = IF s.retries = <<>> THEN <<>> ELSE Tail(@)]
           u == CASE m.by = Abandoned -> s
                  [] m.by = Direct -> IF ok THEN s ELSE Enqueued(s, m.signal)
                  [] m.by \in Loops -> IF ok THEN Flushing(t) ELSE Rescheduled(s)
<1>1. p \in Pages /\ m.signal \in SignalsFrom(p) /\ m.by \in {Direct, Abandoned} \cup Loops
  BY PostTypes
<1>2. SoundPage(p, s)
  BY <1>1, Now
<1>3. /\ posts' = (posts \ {m}) \cup IF m.by \in Loops /\ ok THEN Flushed(t, m.by) ELSE {}
      /\ page' = [page EXCEPT ![p] = u]
  BY DEF AfterPost
<1>4. SoundLives'
  BY DEF IInv, Sound, SoundLives
<1>5. \A n \in posts : n.signal.from # p => n \in posts'
  BY <1>3
<1>6. SoundPage(p, t) /\ t.key = s.key /\ t.late = s.late
  BY <1>1, <1>2, TailSound
<1> HIDE DEF p, t, s
<1>7. posts' \subseteq GenuinePost
  BY <1>1, <1>3, <1>6, FlushedSound DEF IInv, Sound
<1>8. CASE m.by = Abandoned \/ (m.by = Direct /\ ok)
  <2>1. u = s
    BY <1>8, ByDistinct
  <2>2. \A n \in posts : n.by \in Loops => n \in posts'
    BY <1>3, <1>8, ByDistinct
  <2> QED
    BY <1>1, <1>2, <1>3, <1>4, <1>5, <1>7, <2>1, <2>2, SessionInv DEF s
<1>9. CASE m.by = Direct /\ ~ok
  <2>1. u = Enqueued(s, m.signal)
    BY <1>9, ByDistinct
  <2>2. SoundPage(p, u) /\ u.retry /\ u.key = s.key /\ u.late = s.late
    BY <1>1, <1>2, <2>1, EnqueuedSound
  <2> HIDE DEF u
  <2> QED
    BY <1>1, <1>3, <1>4, <1>5, <1>7, <2>2, SessionInv DEF s
<1>10. CASE m.by \in Loops /\ ok
  <2>1. u = Flushing(t)
    BY <1>10, ByDistinct
  <2>2. SoundPage(p, u) /\ u.retries = t.retries /\ u.key = s.key /\ u.late = s.late
    BY <1>1, <1>6, <2>1, TimerSound
  <2>3. u.retries = <<>> \/ \E n \in posts' : n.signal.from = p /\ n.by \in Loops
    BY <1>1, <1>3, <1>6, <1>10, <2>2, FlushedSound
  <2> HIDE DEF u
  <2> QED
    BY <1>1, <1>3, <1>4, <1>5, <1>7, <2>2, <2>3, SessionInv DEF s
<1>11. CASE m.by \in Loops /\ ~ok
  <2>1. u = Rescheduled(s)
    BY <1>11, ByDistinct
  <2>2. SoundPage(p, u) /\ (u.retries # <<>> => u.retry) /\ u.key = s.key /\ u.late = s.late
    BY <1>1, <1>2, <2>1, TimerSound
  <2> HIDE DEF u
  <2> QED
    BY <1>1, <1>3, <1>4, <1>5, <1>7, <2>2, SessionInv DEF s
<1> QED
  BY <1>1, <1>8, <1>9, <1>10, <1>11

LEMMA ServeInv ==
  ASSUME IInv, NEW m \in posts, Serve(m)
  PROVE  IInv'
<1> DEFINE to == m.signal.to
           ok == Seated(m.signal.from) /\ (to = NoOne \/ Seated(to))
           addressees == {q \in Others(m.signal.from) : to \in {NoOne, q}}
<1>1. /\ inbox' = IF ok THEN Told(Carrying(m.signal), addressees) ELSE inbox
      /\ AfterPost(m.signal.from, m, ok)
      /\ UNCHANGED <<life, conn, tasks>>
  BY DEF Serve
<1>2. m.signal \in Signal /\ Genuine(m.signal)
  BY PostTypes DEF GenuinePost, Post
<1>3. addressees \in SUBSET Pages
  BY DEF Others, Members
<1>4. ASSUME NEW q \in addressees
      PROVE  Carrying(m.signal) \in EventsFor(q)
  <2>1. q # m.signal.from /\ to \in {NoOne, q}
    BY <1>4 DEF Others
  <2>2. m.signal.kind = "answer" => q = Owner
    BY <1>2, <2>1, Distinct DEF Genuine
  <2>3. Carrying(m.signal) \in Event
    BY <1>2 DEF Carrying, Event
  <2> QED
    BY <1>2, <2>1, <2>2, <2>3 DEF Carrying, EventsFor
<1>5. ok \in BOOLEAN
  OBVIOUS
<1> HIDE DEF ok, addressees
<1>6. SoundInboxes'
  <2>1. /\ OnPages(Told(Carrying(m.signal), addressees))
        /\ \A p \in Pages : Told(Carrying(m.signal), addressees)[p] \in Seq(EventsFor(p))
    BY <1>3, <1>4, ToldSound DEF IInv, Sound
  <2> QED
    BY <1>1, <2>1 DEF IInv, Sound, SoundInboxes
<1> QED
  BY <1>1, <1>5, <1>6, AfterPostInv

LEMMA GiveUpInv ==
  ASSUME IInv, NEW m \in posts, GiveUp(m)
  PROVE  IInv'
<1> DEFINE p == m.signal.from
           s == page[p]
           u == IF m.by = Direct THEN Enqueued(s, m.signal) ELSE Rescheduled(s)
           a == [m EXCEPT !.by = Abandoned]
<1>1. p \in Pages /\ m.signal \in SignalsFrom(p) /\ m \in GenuinePost
  BY PostTypes
<1>2. SoundPage(p, s)
  BY <1>1, Now
<1>3. page' = [page EXCEPT ![p] = u] /\ UNCHANGED <<life, inbox, conn, tasks>>
  BY DEF GiveUp
<1>4. posts' = posts \ {m} \/ posts' = (posts \ {m}) \cup {a}
  BY DEF GiveUp
<1>5. a \in GenuinePost
  BY <1>1 DEF GenuinePost, Post
<1>6. \A n \in posts : n.signal.from # p => n \in posts'
  BY <1>4
<1>7. SoundLives' /\ SoundInboxes'
  BY <1>3 DEF IInv, Sound, SoundLives, SoundInboxes
<1> HIDE DEF a, p, s
<1>8. posts' \subseteq GenuinePost
  BY <1>4, <1>5 DEF IInv, Sound
<1>9. SoundPage(p, u) /\ (u.retries = <<>> \/ u.retry) /\ u.key = s.key /\ u.late = s.late
  BY <1>1, <1>2, EnqueuedSound, TimerSound
<1> HIDE DEF u
<1> QED
  BY <1>1, <1>3, <1>6, <1>7, <1>8, <1>9, SessionInv DEF s

\* Only streams are opened and lost, and events told.
LEMMA StreamsInv ==
  ASSUME IInv, UNCHANGED <<page, conn, tasks, posts>>, SoundInboxes', SoundLives'
  PROVE  IInv'
<1>1. Sound'
  BY DEF IInv, Sound, SoundPages, SoundConnections, SoundTasks
<1>2. QueueIsWatched' /\ DerivesItsAnswer'
  BY DEF IInv, QueueIsWatched, DerivesItsAnswer
<1> QED
  BY <1>1, <1>2 DEF IInv

LEMMA JoinInv ==
  ASSUME IInv, NEW g \in Guests, Join(g)
  PROVE  IInv'
<1>1. g \in Pages /\ {Owner} \in SUBSET Pages
  BY Distinct
<1>2. \A p \in {Owner} : About("peer-joined", g) \in EventsFor(p)
  BY <1>1, AboutSound
<1>3. inbox' = Told(About("peer-joined", g), {Owner}) /\ UNCHANGED <<page, conn, tasks, posts>>
  BY DEF Join
<1>4. SoundInboxes'
  <2>1. /\ OnPages(Told(About("peer-joined", g), {Owner}))
        /\ \A p \in Pages : Told(About("peer-joined", g), {Owner})[p] \in Seq(EventsFor(p))
    BY <1>1, <1>2, ToldSound DEF IInv, Sound
  <2> QED
    BY <1>3, <2>1 DEF SoundInboxes
<1>5. SoundLives'
  BY DEF Join, IInv, Sound, SoundLives
<1> QED
  BY <1>3, <1>4, <1>5, StreamsInv

LEMMA StreamLostInv ==
  ASSUME IInv, StreamLost
  PROVE  IInv'
<1>1. <<>> \in Seq(EventsFor(Owner))
  BY EmptySeq
<1>2. SoundInboxes'
  BY <1>1, InboxSet, Distinct DEF StreamLost, IInv, Sound
<1>3. SoundLives'
  BY DEF StreamLost, IInv, Sound, SoundLives
<1> QED
  BY <1>2, <1>3, StreamsInv DEF StreamLost

-----------------------------------------------------------------------------
(* The link *)

\* The state of p's connection becomes x.
LEMMA LinkInv ==
  ASSUME IInv, NEW p \in Pages, conn[p] # NoConnection,
         NEW x \in {"new", "up", "failed", "lost"}, NEW s \in Page, Kept(page[p], s),
         page' = [page EXCEPT ![p] = s], conn' = [conn EXCEPT ![p].state = x],
         UNCHANGED <<life, inbox, posts, tasks>>
  PROVE  IInv'
<1> DEFINE c == [conn[p] EXCEPT !.state = x]
<1>1. conn[p].id # NoOne
  BY Now, Connected
<1>2. SoundConnection(p, c) /\ c.remote = conn[p].remote
  BY <1>1, Now, ConnectionUpdates, Zenon
<1>3. conn' = [conn EXCEPT ![p] = c]
  OBVIOUS
<1> HIDE DEF c
<1>4. SoundInboxes'
  BY DEF IInv, Sound, SoundInboxes
<1>5. posts' = posts \cup {} /\ {} \in SUBSET GenuinePost
  OBVIOUS
<1> QED
  BY <1>2, <1>3, <1>4, <1>5, ChangesInv

LEMMA LinkUpInv ==
  ASSUME IInv, NEW p \in Pages, LinkUp(p)
  PROVE  IInv'
<1>1. PICK g \in Guests : p \in {Owner, g} /\ Paired(g)
  BY DEF LinkUp, Connectable
<1>2. conn[p].remote # NoDescription
  BY <1>1 DEF Paired
<1>3. conn[p] # NoConnection
  BY <1>2, NewConnections
<1>4. LET s == [page[p] EXCEPT !.reconnect = FALSE] IN s \in Page /\ Kept(page[p], s)
  BY Now, FieldsKept, Zenon
<1>5. /\ page' = [page EXCEPT ![p] = [page[p] EXCEPT !.reconnect = FALSE]]
      /\ conn' = [conn EXCEPT ![p].state = "up"]
      /\ UNCHANGED <<life, inbox, posts, tasks>>
  BY DEF LinkUp
<1> QED
  BY <1>3, <1>4, <1>5, LinkInv, Zenon

LEMMA LinkDownInv ==
  ASSUME IInv, NEW p \in Pages, LinkDown(p), conn[p].local # NoDescription
  PROVE  IInv'
<1> DEFINE x == IF conn[p].state = "up" THEN "lost" ELSE "failed"
<1>1. conn[p] # NoConnection
  BY DEF NoConnection, NewConnection
<1>2. Scheduled(page[p]) \in Page /\ Kept(page[p], Scheduled(page[p]))
  BY Now, SessionKept
<1>3. /\ page' = [page EXCEPT ![p] = Scheduled(page[p])]
      /\ conn' = [conn EXCEPT ![p].state = x]
      /\ UNCHANGED <<life, inbox, posts, tasks>>
  BY DEF LinkDown
<1>4. x \in {"new", "up", "failed", "lost"}
  OBVIOUS
<1> HIDE DEF x
<1> QED
  BY <1>1, <1>2, <1>3, <1>4, LinkInv

\* Page p forgets its connection, its queue and its key.
LEMMA ReplacesInv ==
  ASSUME IInv, NEW p \in Pages, NEW s, SoundPage(p, s), s.retries = <<>>, s.key = {},
         NEW c, SoundConnection(p, c), Replaces(p, s, c),
         posts' \subseteq GenuinePost,
         \A m \in posts : m.signal.from # p =>
           \E n \in posts' : n.signal.from = m.signal.from /\ n.by = m.by,
         OnPages(tasks'), \A q \in Pages : tasks'[q] \subseteq {PastTask(t, p) : t \in tasks[q]},
         SoundInboxes', SoundLives'
  PROVE  IInv'
<1>1. /\ OnPages(page') /\ OnPages(conn') /\ page'[p] = s /\ conn'[p] = c
      /\ \A q \in Pages : q # p => /\ page'[q] = PastPage(page[q], p)
                                   /\ conn'[q] = PastConnection(conn[q], p)
  BY DEF Replaces, OnPages
<1>2. ASSUME NEW q \in Pages, q # p
      PROVE  /\ SoundPage(q, page'[q]) /\ SoundConnection(q, conn'[q])
             /\ page'[q].key = page[q].key /\ page'[q].late = page[q].late
             /\ page'[q].retry = page[q].retry
             /\ page'[q].retries = <<>> <=> page[q].retries = <<>>
             /\ conn'[q].remote = PastDescription(conn[q].remote, p)
  BY <1>1, <1>2, Now, PastPages, PastConnections
<1>3. SoundPages' /\ SoundConnections'
  BY <1>1, <1>2 DEF SoundPages, SoundConnections
<1>4. ASSUME NEW q \in Pages, NEW u \in tasks'[q]
      PROVE  \E t \in tasks[q] :
               /\ u \in TasksOf(q) /\ t \in TasksOf(q)
               /\ u.step = t.step /\ u.id = Past(t.id, p)
               /\ u.signal = PastSignal(t.signal, p)
  <2>1. PICK t \in tasks[q] : u = PastTask(t, p)
    BY <1>4
  <2>2. t \in TasksOf(q)
    BY Now
  <2> QED
    BY <2>1, <2>2, PastFrom
<1>5. SoundTasks'
  BY <1>4 DEF SoundTasks
<1>6. QueueIsWatched'
  <2> SUFFICES ASSUME NEW q \in Pages, page'[q].retries # <<>>
               PROVE  page'[q].retry \/ \E m \in posts' : m.signal.from = q /\ m.by \in Loops
    BY DEF QueueIsWatched
  <2>1. q # p
    BY <1>1
  <2>2. page[q].retries # <<>> /\ page'[q].retry = page[q].retry
    BY <1>2, <2>1
  <2>3. page[q].retry \/ \E m \in posts : m.signal.from = q /\ m.by \in Loops
    BY <2>2 DEF IInv, QueueIsWatched
  <2> QED
    BY <2>1, <2>2, <2>3
<1>7. CASE p = Owner
  <2>1. ASSUME NEW u \in tasks'[Owner], u.id = Owner
        PROVE  FALSE
    BY <1>4, <1>7, <2>1, Distinct DEF Past
  <2>2. DerivesItsAnswer'
    BY <1>1, <1>7, <2>1 DEF DerivesItsAnswer, DerivesFrom
  <2> QED
    BY <1>3, <1>5, <1>6, <2>2 DEF IInv, Sound
<1>8. CASE p # Owner
  <2>1. /\ page'[Owner].key = page[Owner].key /\ page'[Owner].late = page[Owner].late
        /\ conn'[Owner].remote = PastDescription(conn[Owner].remote, p)
    BY <1>2, <1>8, Distinct
  <2>2. ASSUME NEW u \in tasks'[Owner], u.step = "derive", u.id = Owner
        PROVE  conn'[Owner].remote = u.signal.body
    <3>1. PICK t \in tasks[Owner] : /\ t \in TasksOf(Owner) /\ t.step = "derive"
                                    /\ u.id = Past(t.id, p)
                                    /\ u.signal = PastSignal(t.signal, p)
      BY <1>4, <2>2, Distinct
    <3>2. t.id = Owner
      BY <2>2, <3>1, Distinct DEF Past
    <3>3. conn[Owner].remote = t.signal.body
      BY <3>1, <3>2 DEF IInv, DerivesItsAnswer, DerivesFrom
    <3>4. t.signal \in Signal
      BY <3>1 DEF TasksOf, Await
    <3>5. u.signal.body = PastDescription(t.signal.body, p)
      BY <3>1, <3>4, PastSignals
    <3> QED
      BY <2>1, <3>3, <3>5
  <2>3. ASSUME page'[Owner].key # {}, ~page'[Owner].late
        PROVE  \E g \in Guests :
                 /\ page'[Owner].key = {Owner, g}
                 /\ conn'[Owner].remote # NoDescription
                 /\ conn'[Owner].remote.answer \in {g, Stale}
    <3>1. PICK g \in Guests : /\ page[Owner].key = {Owner, g}
                              /\ conn[Owner].remote # NoDescription
                              /\ conn[Owner].remote.answer \in {g, Stale}
      BY <2>1, <2>3 DEF IInv, DerivesItsAnswer, DerivesFrom
    <3>2. conn[Owner].remote \in Description
      BY Now, Distinct DEF SoundConnection, Connection
    <3>3. /\ PastDescription(conn[Owner].remote, p) # NoDescription
          /\ PastDescription(conn[Owner].remote, p).answer \in {g, Stale}
      BY <3>1, <3>2, PastDescriptions DEF Past
    <3> QED
      BY <2>1, <3>1, <3>3
  <2>4. DerivesItsAnswer'
    BY <2>2, <2>3 DEF DerivesItsAnswer, DerivesFrom
  <2> QED
    BY <1>3, <1>5, <1>6, <2>4 DEF IInv, Sound
<1> QED
  BY <1>7, <1>8

LEMMA PastPostsSound ==
  ASSUME IInv, NEW p \in Pages
  PROVE  /\ PastPosts(p) \subseteq GenuinePost
         /\ \A m \in posts : \E n \in PastPosts(p) :
              n.signal.from = m.signal.from /\ n.by = m.by
BY PastGenuinePosts DEF PastPosts, IInv, Sound

\* The stream of each page has forgotten the connection of p.
LEMMA PastInboxesSound ==
  ASSUME NEW p \in Pages, NEW f, \A q \in Pages : f[q] \in Seq(EventsFor(q)),
         inbox' = [q \in Pages |-> PastInbox(f[q], p)]
  PROVE  SoundInboxes'
<1>1. OnPages(inbox') /\ \A q \in Pages : inbox'[q] = PastInbox(f[q], p)
  BY DEF OnPages
<1> QED
  BY <1>1, PastInboxes DEF SoundInboxes

LEMMA PeerLeftInv ==
  ASSUME IInv, NEW p \in Pages, PeerLeft(p)
  PROVE  IInv'
<1> DEFINE s == [page[p] EXCEPT !.remote = NoOne, !.reconnect = FALSE]
           f == [q \in Pages |-> IF q = p THEN Tail(inbox[q]) ELSE inbox[q]]
<1>1. s \in Page
  BY Now DEF Page
<1>2. Replaces(p, ResetSession(s), NoConnection) /\ posts' = PastPosts(p) /\ UNCHANGED life
  BY DEF PeerLeft
<1> HIDE DEF s
<1>3. LET t == ResetSession(s) IN SoundPage(p, t) /\ t.retries = <<>> /\ t.key = {}
  BY <1>1, ResetSound
<1>4. OnPages(tasks') /\ \A q \in Pages : tasks'[q] \subseteq {PastTask(t, p) : t \in tasks[q]}
  BY DEF PeerLeft, OnPages
<1>5. SoundInboxes'
  <2>1. Tail(inbox[p]) \in Seq(EventsFor(p))
    BY FirstSound DEF PeerLeft, IInv, Sound
  <2>2. \A q \in Pages : f[q] \in Seq(EventsFor(q))
    BY <2>1, Now
  <2>3. inbox' = [q \in Pages |-> PastInbox(f[q], p)]
    BY DEF PeerLeft
  <2> HIDE DEF f
  <2> QED
    BY <2>2, <2>3, PastInboxesSound
<1>6. SoundLives'
  BY <1>2 DEF IInv, Sound, SoundLives
<1>7. SoundConnection(p, NoConnection)
  BY NewConnections
<1> QED
  BY <1>2, <1>3, <1>4, <1>5, <1>6, <1>7, PastPostsSound, ReplacesInv

LEMMA PeerReconnectFiresInv ==
  ASSUME IInv, NEW p \in Pages, PeerReconnectFires(p)
  PROVE  IInv'
<1> DEFINE s == [page[p] EXCEPT !.reconnect = FALSE]
           r == ResetSession(s)
           t == AnnouncesAgain(r)
           u == Announced(p, t)
<1>1. s \in Page /\ Kept(page[p], s) /\ s.remote = page[p].remote
  BY Now, FieldsKept, Zenon
<1>2. CASE s.remote = NoOne
  <2>1. Becomes(p, s, conn[p], {}) /\ UNCHANGED inbox
    BY <1>2 DEF PeerReconnectFires
  <2>2. SoundInboxes' /\ {} \in SUBSET GenuinePost
    BY <2>1 DEF IInv, Sound, SoundInboxes
  <2> HIDE DEF s
  <2> QED
    BY <1>1, <2>1, <2>2, Now, BecomesInv
<1>3. CASE s.remote # NoOne
  <2>1. PICK reported \in CloseReported(p) :
          Replaces(p, [u EXCEPT !.reconnect = reported], NewConnection(p))
    BY <1>3 DEF PeerReconnectFires
  <2>2. /\ posts' = PastPosts(p) \cup Announcement(p, t)
        /\ inbox' = [q \in Pages |-> PastInbox(inbox[q], p)]
        /\ tasks' = [q \in Pages |-> {PastTask(v, p) : v \in tasks[q]}]
        /\ UNCHANGED life
    BY <1>3 DEF PeerReconnectFires
  <2>3. reported \in BOOLEAN
    BY DEF CloseReported
  <2> HIDE DEF s
  <2>4. SoundPage(p, r) /\ r \in Page /\ r.retries = <<>> /\ r.key = {}
    BY <1>1, ResetSound DEF SoundPage
  <2> HIDE DEF r
  <2>5. t \in Page /\ Kept(r, t)
    BY <2>4, SessionKept
  <2> HIDE DEF t
  <2>6. u \in Page /\ Kept(r, u)
    BY <2>5, SessionKept, KeptTrans
  <2> HIDE DEF u
  <2> DEFINE v == [u EXCEPT !.reconnect = reported]
  <2>7. v \in Page /\ Kept(u, v)
    BY <2>3, <2>6, FieldsKept
  <2> HIDE DEF v
  <2>8. SoundPage(p, v) /\ v.retries = <<>> /\ v.key = {}
    BY <2>4, <2>6, <2>7, KeptTrans, KeptSound DEF Kept
  <2>9. Announcement(p, t) \subseteq GenuinePost
    BY <2>5, AnnouncementSound
  <2>10. OnPages(tasks') /\ \A q \in Pages : tasks'[q] \subseteq {PastTask(x, p) : x \in tasks[q]}
    BY <2>2 DEF OnPages
  <2>11. SoundInboxes'
    BY <2>2, Now, PastInboxesSound
  <2>12. SoundLives'
    BY <2>2 DEF IInv, Sound, SoundLives
  <2>13. /\ posts' \subseteq GenuinePost
         /\ \A m \in posts : \E n \in posts' : n.signal.from = m.signal.from /\ n.by = m.by
    BY <2>2, <2>9, PastPostsSound
  <2>14. SoundConnection(p, NewConnection(p))
    BY NewConnections
  <2>15. Replaces(p, v, NewConnection(p))
    BY <2>1 DEF v
  <2> QED
    BY <2>8, <2>10, <2>11, <2>12, <2>13, <2>14, <2>15, ReplacesInv
<1> QED
  BY <1>2, <1>3

LEMMA ClosePageInv ==
  ASSUME IInv, NEW p \in Pages, ClosePage(p)
  PROVE  IInv'
<1> DEFINE told == IF Seated(p) THEN Told(About("peer-left", p), Pages \ {p}) ELSE inbox
           f == [q \in Pages |-> told[q]]
           left(m) == IF m.signal.from = p THEN [m EXCEPT !.by = Abandoned] ELSE m
<1>1. /\ inbox' = [q \in Pages |-> IF q = p THEN <<>> ELSE PastInbox(told[q], p)]
      /\ posts' = {left(m) : m \in PastPosts(p)}
      /\ Replaces(p, NewPage, NoConnection)
  BY DEF ClosePage
<1>2. \A q \in Pages : told[q] \in Seq(EventsFor(q))
  <2>1. \A q \in Pages \ {p} : About("peer-left", p) \in EventsFor(q)
    BY AboutSound
  <2>2. \A q \in Pages : Told(About("peer-left", p), Pages \ {p})[q] \in Seq(EventsFor(q))
    BY <2>1, ToldSound DEF IInv, Sound
  <2> QED
    BY <2>2, Now
<1> HIDE DEF told
<1>3. SoundInboxes'
  <2>1. OnPages(inbox') /\ inbox'[p] = <<>> /\ \A q \in Pages : q # p => inbox'[q] = PastInbox(told[q], p)
    BY <1>1 DEF OnPages
  <2>2. <<>> \in Seq(EventsFor(p))
    BY EmptySeq
  <2> QED
    BY <1>2, <2>1, <2>2, PastInboxes DEF SoundInboxes
<1>4. ASSUME NEW m \in GenuinePost
      PROVE  left(m) \in GenuinePost /\ (m.signal.from # p => left(m) = m)
  BY DEF GenuinePost, Post
<1>5. /\ posts' \subseteq GenuinePost
      /\ \A m \in posts : m.signal.from # p =>
           \E n \in posts' : n.signal.from = m.signal.from /\ n.by = m.by
  <2>1. posts' \subseteq GenuinePost
    BY <1>1, <1>4, PastPostsSound
  <2>2. ASSUME NEW m \in posts, m.signal.from # p
        PROVE  \E n \in posts' : n.signal.from = m.signal.from /\ n.by = m.by
    <3>1. PICK n \in PastPosts(p) : n.signal.from = m.signal.from /\ n.by = m.by
      BY PastPostsSound
    <3>2. left(n) = n
      BY <1>4, <2>2, <3>1, PastPostsSound
    <3> QED
      BY <1>1, <3>1, <3>2
  <2> QED
    BY <2>1, <2>2
<1>6. OnPages(tasks') /\ \A q \in Pages : tasks'[q] \subseteq {PastTask(t, p) : t \in tasks[q]}
  BY DEF ClosePage, OnPages
<1>7. SoundLives'
  BY DEF ClosePage, IInv, Sound, SoundLives
<1>8. SoundConnection(p, NoConnection)
  BY NewConnections
<1> QED
  BY <1>1, <1>3, <1>5, <1>6, <1>7, <1>8, NewPageSound, ReplacesInv

-----------------------------------------------------------------------------
(* The theorems *)

LEMMA InitInv == Init => IInv
<1> SUFFICES ASSUME Init
             PROVE  IInv
  OBVIOUS
<1>1. \A S : <<>> \in Seq(S)
  BY EmptySeq
<1>2. /\ OnPages(inbox) /\ OnPages(page) /\ OnPages(conn) /\ OnPages(tasks)
      /\ \A p \in Pages : /\ inbox[p] = <<>> /\ page[p] = NewPage
                          /\ conn[p] = NoConnection /\ tasks[p] = {}
  BY DEF Init, OnPages
<1>3. Sound
  BY <1>1, <1>2, NewPageSound, NewConnections
     DEF Init, Sound, SoundLives, SoundInboxes, SoundPages, SoundConnections, SoundTasks
<1>4. QueueIsWatched
  BY <1>2, NewPageSound DEF QueueIsWatched
<1>5. DerivesItsAnswer
  BY <1>2, NewPageSound, Distinct DEF DerivesItsAnswer, DerivesFrom
<1> QED
  BY <1>3, <1>4, <1>5 DEF IInv

LEMMA StepInv ==
  ASSUME IInv, [Next]_vars
  PROVE  IInv'
<1>1. CASE \E g \in Guests : Join(g)
  BY <1>1, JoinInv
<1>2. CASE StreamLost
  BY <1>2, StreamLostInv
<1>3. ASSUME NEW p \in Pages, EventHandled(p)
      PROVE  IInv'
  BY <1>3, RoomStateInv, PeerJoinedInv, PeerLeftInv, ReceiveReadyInv, ReceiveOfferInv,
     ReceiveAnswerInv, ReceiveCandidateInv DEF EventHandled
<1>4. ASSUME NEW p \in Pages, Resumed(p)
      PROVE  IInv'
  BY <1>4, OfferMadeInv, RemoteDescribedInv, AnswerMadeInv, KeyDerivedInv, PostDescriptionInv
     DEF Resumed
<1>5. ASSUME NEW p \in Pages, LinkUp(p) \/ PeerGone(p) \/ LinkBreaks(p)
      PROVE  IInv'
  BY <1>5, LinkUpInv, LinkDownInv DEF PeerGone, LinkBreaks, Orphaned
<1>6. ASSUME NEW p \in Pages,
             \/ Subscribe(p) \/ PeerReconnectFires(p) \/ SignalRetryFires(p)
             \/ Online(p) \/ ClosePage(p)
      PROVE  IInv'
  BY <1>6, SubscribeInv, PeerReconnectFiresInv, SignalRetryFiresInv, OnlineInv, ClosePageInv
<1>7. CASE \E m \in posts : Serve(m) \/ GiveUp(m)
  BY <1>7, ServeInv, GiveUpInv
<1>8. CASE UNCHANGED vars
  <2>1. SoundInboxes' /\ SoundLives'
    BY <1>8 DEF vars, IInv, Sound, SoundInboxes, SoundLives
  <2> QED
    BY <1>8, <2>1, StreamsInv DEF vars
<1> QED
  BY <1>1, <1>2, <1>3, <1>4, <1>5, <1>6, <1>7, <1>8 DEF Next, Works

\* The invariant the other theorems rest on.
THEOREM Inductive == Spec => []IInv
<1> QED
  BY InitInv, StepInv, PTL DEF Spec

LEMMA SoundTypes == Sound => TypeOK
<1> SUFFICES ASSUME Sound
             PROVE  TypeOK
  OBVIOUS
<1>1. \A p \in Pages : EventsFor(p) \subseteq Event /\ TasksOf(p) \subseteq Await
  BY DEF EventsFor, TasksOf
<1>2. \A p \in Pages : inbox[p] \in Seq(Event)
  BY <1>1, SeqSubset DEF Sound, SoundInboxes
<1>3. posts \subseteq Post
  BY DEF Sound, GenuinePost
<1>4. page \in [Pages -> Page] /\ \A p \in Pages : Len(page[p].retries) <= QueueLimit
  BY DEF Sound, SoundPages, SoundPage, OnPages
<1>5. conn \in [Pages -> Connection]
  BY DEF Sound, SoundConnections, SoundConnection, OnPages
<1>6. \A p \in Pages : tasks[p] \subseteq Await
  BY <1>1 DEF Sound, SoundTasks
<1> QED
  BY <1>2, <1>3, <1>4, <1>5, <1>6 DEF Sound, SoundLives, TypeOK, Await

\* Whatever is posted, retried, received out of order or resumed late, every
\* page's state has its shape and no retry queue exceeds its limit.
THEOREM TypeCorrect == Spec => []TypeOK
<1>1. IInv => TypeOK
  BY SoundTypes DEF IInv
<1> QED
  BY <1>1, Inductive, PTL

\* A signal in a retry queue has a timer or a loop.
THEOREM QueuesAreWatched == Spec => []QueueIsWatched
<1>1. IInv => QueueIsWatched
  BY DEF IInv
<1> QED
  BY <1>1, Inductive, PTL

LEMMA KeysAgreeNow == IInv => KeysAgree
<1> SUFFICES ASSUME IInv, NEW g \in Guests, Paired(g), page[Owner].key # {}, page[g].key # {},
                    ~page[Owner].late
             PROVE  page[Owner].key = page[g].key
  BY DEF KeysAgree
<1>1. g \in Pages /\ g # Owner /\ g # Stale
  BY Distinct
<1>2. page[g].key = {g, Owner}
  BY <1>1, Now DEF SoundPage
<1>3. PICK h \in Guests : page[Owner].key = {Owner, h} /\ conn[Owner].remote.answer \in {h, Stale}
  BY DEF IInv, DerivesItsAnswer, DerivesFrom
<1>4. conn[g].local = conn[Owner].remote /\ conn[g].local # NoDescription
  BY DEF Paired
<1>5. conn[g].local.answer = g
  BY <1>1, <1>4, Now DEF SoundConnection
<1>6. h = g
  BY <1>1, <1>3, <1>4, <1>5
<1> QED
  BY <1>2, <1>3, <1>6

\* Two pages whose connections answer each other have one key, unless a
\* derivation of the sender outlived its link.
THEOREM LinkedPagesAgree == Spec => []KeysAgree
<1> QED
  BY KeysAgreeNow, Inductive, PTL
=============================================================================
