------------------------------ MODULE PeerLink ------------------------------
(***************************************************************************)
(* internal/app/assets/app.js: how two pages get a link.  The recipient    *)
(* announces itself with a ready signal, the sender answers with an offer, *)
(* the recipient with an answer, candidates travel beside them.  Signals   *)
(* are POST requests, concurrent and therefore unordered, that the hub     *)
(* turns into events on the addressee's stream.  A post that fails goes to *)
(* a retry queue, a link that breaks is replaced by each end on its own.   *)
(*                                                                         *)
(* A step is what a page runs between two awaits.  What a handler awaits   *)
(* of its RTCPeerConnection waits in ops of that connection and never      *)
(* resumes once it is closed; what it awaits of crypto.subtle is in tasks  *)
(* and resumes whatever has happened since.                                *)
(*                                                                         *)
(* Sessions stay neither deleted nor provisional here (see Provision), and *)
(* what goes over the link is the business of Handoff.                     *)
(***************************************************************************)
EXTENDS Integers, Sequences, FiniteSets, Functions, FiniteSetsExt

CONSTANTS
  Guests,       \* recipients: a page and its peer id each
  Trickle,      \* pages whose candidates are not part of their descriptions
  QueueLimit,   \* SIGNAL_RETRY_QUEUE_LIMIT
  Loops,        \* calls of flushSignalRetryQueue that can be under way at a time
  MaxFaults     \* posts given up, streams lost, links broken and interruptions, in all

Owner == "owner"
Pages == {Owner} \cup Guests
NoOne == "no one"

ASSUME PeerLinkAssumption ==
  /\ Owner \notin Guests /\ NoOne \notin Guests /\ "stale" \notin Guests
  /\ Trickle \subseteq Pages
  /\ QueueLimit \in Nat \ {0}
  /\ Loops \subseteq Nat \ {0}

VARIABLES
  life,    \* page -> "new", "joined" (seated, no stream), "streaming", "gone"
  inbox,   \* page -> events of its stream it has not handled yet
  posts,   \* requests to /signal that are under way
  page,    \* page -> the session of the link
  conn,    \* page -> session.rtc, NoConnection for null
  tasks,   \* page -> handlers awaiting crypto.subtle
  faults   \* faults so far

vars == <<life, inbox, posts, page, conn, tasks, faults>>

-----------------------------------------------------------------------------
(* Data *)

\* A connection is named after its page; once it is closed every mention of it
\* becomes Stale, for no connection will be that one again.
Stale == "stale"
Names == Pages \cup {Stale, NoOne}

\* A description: the connection that offers and the one that answers.
Offer(k) == [offer |-> k, answer |-> NoOne]
Answer(k, j) == [offer |-> k, answer |-> j]
NoDescription == Offer(NoOne)
Description == [offer : Names, answer : Names]

\* Whose ICE credentials a description carries.
Author(description) ==
  IF description.answer = NoOne THEN description.offer ELSE description.answer

Signal == [kind : {"ready", "offer", "answer", "candidate"},
           from : Pages, to : Pages \cup {NoOne}, body : Description]
Ready(p, to) == [kind |-> "ready", from |-> p, to |-> to, body |-> NoDescription]
Described(kind, p, to, body) == [kind |-> kind, from |-> p, to |-> to, body |-> body]
Candidate(p, to, k) == [kind |-> "candidate", from |-> p, to |-> to, body |-> Offer(k)]

\* Events that name a peer, and the signals.
Event == [type : {"room-state", "peer-joined", "peer-left"}, peer : Pages \cup {NoOne}]
           \cup [type : {"signal"}, signal : Signal]
About(type, q) == [type |-> type, peer |-> q]
Carrying(signal) == [type |-> "signal", signal |-> signal]

\* Who awaits a post: its handler, one of the retry loops, or nobody any more.
Direct == 0
Abandoned == -1
Post == [signal : Signal, by : {Direct, Abandoned} \cup Loops]
Posted(signal) == [signal |-> signal, by |-> Direct]

NewConnection(k) ==
  [id |-> k, local |-> NoDescription, remote |-> NoDescription, state |-> "new",
   ops |-> <<>>, reachable |-> FALSE]
NoConnection == NewConnection(NoOne)

NewPage ==
  [remote |-> NoOne, offerReady |-> FALSE, readySent |-> FALSE, key |-> {},
   reconnect |-> FALSE, retries |-> <<>>, retry |-> FALSE, pending |-> <<>>,
   late |-> FALSE]

SignalsOf(p) ==
  {e.signal : e \in {f \in Range(inbox[p]) : f.type = "signal"}}
    \cup Range(page[p].retries) \cup {t.signal : t \in tasks[p]}
    \cup {o.signal : o \in Range(conn[p].ops)}

\* The connection of p is closed: what mentions it, wherever it is.
Past(name, p) == IF name = p THEN Stale ELSE name
PastDescription(d, p) == [offer |-> Past(d.offer, p), answer |-> Past(d.answer, p)]
PastSignal(s, p) == [s EXCEPT !.body = PastDescription(@, p)]
PastEvent(e, p) == IF e.type = "signal" THEN Carrying(PastSignal(e.signal, p)) ELSE e
PastInbox(events, p) == [i \in DOMAIN events |-> PastEvent(events[i], p)]
PastPost(m, p) == [m EXCEPT !.signal = PastSignal(@, p)]
PastTask(t, p) == [t EXCEPT !.id = Past(@, p), !.signal = PastSignal(@, p)]
PastPage(s, p) ==
  [s EXCEPT !.retries = [i \in DOMAIN @ |-> PastSignal(@[i], p)],
            !.pending = [i \in DOMAIN @ |-> Past(@[i], p)]]
PastOp(o, p) == [o EXCEPT !.signal = PastSignal(@, p)]
PastConnection(c, p) ==
  [c EXCEPT !.local = PastDescription(@, p), !.remote = PastDescription(@, p),
            !.ops = [i \in DOMAIN @ |-> PastOp(@[i], p)]]
PastPosts(p) == {PastPost(m, p) : m \in posts}

\* Page p, whose session becomes s, replaces its connection by c.
Replaces(p, s, c) ==
  /\ page' = [q \in Pages |-> IF q = p THEN s ELSE PastPage(page[q], p)]
  /\ conn' = [q \in Pages |-> IF q = p THEN c ELSE PastConnection(conn[q], p)]

-----------------------------------------------------------------------------
(* The hub, as far as these handlers see it (see Hub) *)

Seated(p) == life[p] \in {"joined", "streaming"}
Members == {p \in Pages : Seated(p)}
Told(event, P) ==
  [p \in Pages |-> IF p \in P /\ life[p] = "streaming" THEN Append(inbox[p], event) ELSE inbox[p]]

-----------------------------------------------------------------------------
(* What the handlers are made of: operators from a page's session s and its
   connection c to their next values. *)

Scheduled(s) == IF s.remote = NoOne THEN s ELSE [s EXCEPT !.reconnect = TRUE]

\* Mutant of ResetSession: baseKeyBytes survives.
ResetKeepsKey(s) ==
  [s EXCEPT !.offerReady = FALSE, !.retries = <<>>, !.pending = <<>>, !.late = FALSE]

\* resetPeerLink; the connection is closed and forgotten with it.
ResetSession(s) ==
  [s EXCEPT !.offerReady = FALSE, !.retries = <<>>, !.pending = <<>>, !.key = {}, !.late = FALSE]

\* ensurePeerConnection
Ensured(p, s, c) == IF s.remote = NoOne \/ c # NoConnection THEN c ELSE NewConnection(p)

\* maybeCreateOffer, to its first await.
Offering(p, s, c) ==
  IF /\ p = Owner /\ s.offerReady
     /\ c # NoConnection /\ c.local = NoDescription
  THEN [c EXCEPT !.ops = Append(@, [op |-> "offer", signal |-> Ready(p, s.remote)])]
  ELSE c

\* notifyReady: the session and the posts it makes.
Announces(p, s) == p # Owner /\ s.remote # NoOne /\ ~s.readySent
Announced(p, s) == IF Announces(p, s) THEN [s EXCEPT !.readySent = TRUE] ELSE s
Announcement(p, s) == IF Announces(p, s) THEN {Posted(Ready(p, s.remote))} ELSE {}

\* Mutant of AnnouncesAgain: the recipient takes its first ready for enough.
AnnouncedOnce(s) == s

\* What a recipient does about its ready signal when it replaces its connection.
AnnouncesAgain(s) == [s EXCEPT !.readySent = FALSE]

\* Mutant of Enqueued: the queue has no limit.
EnqueuedUnbounded(s, signal) == [s EXCEPT !.retries = Append(@, signal), !.retry = TRUE]

\* enqueueSignalRetry
Enqueued(s, signal) ==
  LET queue == Append(s.retries, signal)
  IN [s EXCEPT !.retries = IF Len(queue) > QueueLimit THEN Tail(queue) ELSE queue,
               !.retry = TRUE]

\* Mutant of Rescheduled: the loop ends without a timer.
RescheduledNever(s) == s

\* scheduleSignalRetry
Rescheduled(s) == IF s.retries = <<>> THEN s ELSE [s EXCEPT !.retry = TRUE]

\* flushSignalRetryQueue from its start, or from the end of an await, to its next
\* post; without a signal left it clears the timer.
Flushing(s) == IF s.retries = <<>> THEN [s EXCEPT !.retry = FALSE] ELSE s
Flushed(s, loop) ==
  IF s.retries = <<>> THEN {} ELSE {[signal |-> Head(s.retries), by |-> loop]}
FreeLoops(p) == Loops \ {m.by : m \in {n \in posts : n.signal.from = p}}

\* flushPendingCandidates: up to the first that the connection refuses, which is
\* of another author and goes back to the list; those behind it are lost.
Refused(candidates, author) == {i \in DOMAIN candidates : candidates[i] # author}
Unreached(candidates, author) ==
  LET refused == Refused(candidates, author)
  IN IF refused = {} THEN <<>> ELSE <<candidates[Min(refused)]>>
Reached(candidates, author) ==
  \E i \in DOMAIN candidates :
    candidates[i] = author /\ \A j \in Refused(candidates, author) : i < j

-----------------------------------------------------------------------------
(* Joining, streaming, leaving *)

Init ==
  /\ life = [p \in Pages |-> IF p = Owner THEN "streaming" ELSE "new"]
  /\ inbox = [p \in Pages |-> <<>>]
  /\ posts = {}
  /\ page = [p \in Pages |-> NewPage]
  /\ conn = [p \in Pages |-> NoConnection]
  /\ tasks = [p \in Pages |-> {}]
  /\ faults = 0

\* joinSharedLink and the card it returns.
Join(g) ==
  /\ life[g] = "new"
  /\ \A h \in Guests : ~Seated(h)
  /\ life' = [life EXCEPT ![g] = "joined"]
  /\ inbox' = Told(About("peer-joined", g), {Owner})
  /\ UNCHANGED <<posts, page, conn, tasks, faults>>

Others(p) == Members \ {p}
Other(p) == IF Others(p) = {} THEN NoOne ELSE CHOOSE q \in Others(p) : TRUE

\* A link that is not up is to be replaced.
Revived(p, s) == IF conn[p].state = "up" THEN s ELSE Scheduled(s)

\* The EventSource connects and onopen runs; the room-state event is the first.
\* The sender's stream, opened again, first replaces a link that is not up.
Subscribe(p) ==
  /\ life[p] = "joined"
  /\ life' = [life EXCEPT ![p] = "streaming"]
  /\ inbox' = [inbox EXCEPT ![p] = <<About("room-state", Other(p))>>]
  /\ LET s == Flushing(page[p])
         t == IF p = Owner THEN Revived(p, s) ELSE Announced(p, s)
     IN /\ page' = [page EXCEPT ![p] = t]
        /\ \E loop \in FreeLoops(p) :
             posts' = posts \cup Flushed(s, loop) \cup Announcement(p, s)
  /\ UNCHANGED <<conn, tasks, faults>>

\* The sender's stream is lost, with what is buffered on it, and opens again.
StreamLost ==
  /\ life[Owner] = "streaming"
  /\ faults < MaxFaults
  /\ faults' = faults + 1
  /\ life' = [life EXCEPT ![Owner] = "joined"]
  /\ inbox' = [inbox EXCEPT ![Owner] = <<>>]
  /\ UNCHANGED <<posts, page, conn, tasks>>

\* A page is closed: its leave reaches the hub, nobody awaits its posts any more.
ClosePage(p) ==
  /\ life[p] \notin {"new", "gone"}
  /\ life' = [life EXCEPT ![p] = "gone"]
  /\ LET told == IF Seated(p) THEN Told(About("peer-left", p), Pages \ {p}) ELSE inbox
     IN inbox' = [q \in Pages |-> IF q = p THEN <<>> ELSE PastInbox(told[q], p)]
  /\ posts' = {IF m.signal.from = p THEN [m EXCEPT !.by = Abandoned] ELSE m : m \in PastPosts(p)}
  /\ Replaces(p, NewPage, NoConnection)
  /\ tasks' = [q \in Pages |-> IF q = p THEN {} ELSE {PastTask(t, p) : t \in tasks[q]}]
  /\ UNCHANGED faults

-----------------------------------------------------------------------------
(* Posting signals *)

\* The page p whose post m has ended well or badly goes on.
AfterPost(p, m, ok) ==
  LET s == page[p]
      t == [s EXCEPT !.retries = IF s.retries = <<>> THEN <<>> ELSE Tail(@)]
  IN /\ posts' = (posts \ {m}) \cup IF m.by \in Loops /\ ok THEN Flushed(t, m.by) ELSE {}
     /\ page' = [page EXCEPT ![p] =
                    CASE m.by = Abandoned -> s
                      [] m.by = Direct -> IF ok THEN s ELSE Enqueued(s, m.signal)
                      [] m.by \in Loops -> IF ok THEN Flushing(t) ELSE Rescheduled(s)]

\* The server gets to m: Hub!Send, and its answer.
Serve(m) ==
  LET to == m.signal.to
      ok == Seated(m.signal.from) /\ (to = NoOne \/ Seated(to))
      addressees == {q \in Others(m.signal.from) : to \in {NoOne, q}}
  IN /\ inbox' = IF ok THEN Told(Carrying(m.signal), addressees) ELSE inbox
     /\ AfterPost(m.signal.from, m, ok)
     /\ UNCHANGED <<life, conn, tasks, faults>>

\* The request, or its answer, is lost or takes too long: the page counts it as
\* failed, and the server may still serve it.
GiveUp(m) ==
  /\ m.by # Abandoned
  /\ faults < MaxFaults
  /\ faults' = faults + 1
  /\ \E p \in {m.signal.from} :
       LET s == page[p]
       IN page' = [page EXCEPT ![p] =
                     IF m.by = Direct THEN Enqueued(s, m.signal) ELSE Rescheduled(s)]
  /\ posts' \in {posts \ {m}, (posts \ {m}) \cup {[m EXCEPT !.by = Abandoned]}}
  /\ UNCHANGED <<life, inbox, conn, tasks>>

\* The timer of scheduleSignalRetry
SignalRetryFires(p) ==
  /\ page[p].retry
  /\ LET s == Flushing([page[p] EXCEPT !.retry = FALSE])
     IN /\ page' = [page EXCEPT ![p] = s]
        /\ \E loop \in FreeLoops(p) : posts' = posts \cup Flushed(s, loop)
  /\ UNCHANGED <<life, inbox, conn, tasks, faults>>

\* The online event of setupConnectivityRecovery, after an interruption.
Online(p) ==
  /\ Seated(p)
  /\ faults < MaxFaults
  /\ faults' = faults + 1
  /\ LET s == Flushing(page[p])
     IN /\ page' = [page EXCEPT ![p] = Revived(p, s)]
        /\ \E loop \in FreeLoops(p) : posts' = posts \cup Flushed(s, loop)
  /\ UNCHANGED <<life, inbox, conn, tasks>>

-----------------------------------------------------------------------------
(* handleServerEvent *)

\* Page p handles the first event of its stream.
Handles(p) == inbox[p] # <<>> /\ inbox' = [inbox EXCEPT ![p] = Tail(@)]
First(p) == Head(inbox[p])

\* Its session and connection become s and c, and it makes the posts P.
Becomes(p, s, c, P) ==
  /\ page' = [page EXCEPT ![p] = s]
  /\ conn' = [conn EXCEPT ![p] = c]
  /\ posts' = posts \cup P
  /\ UNCHANGED <<life, tasks, faults>>

RoomState(p) ==
  /\ Handles(p)
  /\ First(p).type = "room-state"
  /\ LET q == First(p).peer
         s == [page[p] EXCEPT !.remote = q, !.reconnect = IF q = NoOne THEN FALSE ELSE @]
     IN Becomes(p, Announced(p, s), Offering(p, s, Ensured(p, s, conn[p])), Announcement(p, s))

PeerJoined(p) ==
  /\ Handles(p)
  /\ First(p).type = "peer-joined"
  /\ LET s == [page[p] EXCEPT !.remote = First(p).peer]
     IN Becomes(p, s, Offering(p, s, Ensured(p, s, conn[p])), {})

PeerLeft(p) ==
  /\ inbox[p] # <<>>
  /\ First(p).type = "peer-left"
  /\ inbox' = [q \in Pages |-> PastInbox(IF q = p THEN Tail(inbox[q]) ELSE inbox[q], p)]
  /\ Replaces(p, ResetSession([page[p] EXCEPT !.remote = NoOne, !.reconnect = FALSE]), NoConnection)
  /\ posts' = PastPosts(p)
  /\ tasks' = [q \in Pages |-> {PastTask(t, p) : t \in tasks[q]}]
  /\ UNCHANGED <<life, faults>>

\* handleSignal: the signal at the head of p's stream, unless it is for another.
Receives(p, kind) ==
  /\ Handles(p)
  /\ First(p).type = "signal"
  /\ First(p).signal.kind = kind

ReceiveReady(p) ==
  /\ Receives(p, "ready")
  /\ LET s == [page[p] EXCEPT !.remote = First(p).signal.from, !.offerReady = TRUE]
     IN Becomes(p, s, Offering(p, s, Ensured(p, s, conn[p])), {})

\* A description goes to the connection, which the sender may have lost: an
\* answer without a connection, or without a description, throws.
Applying(c, signal) ==
  IF c = NoConnection \/ signal.body = NoDescription THEN c
  ELSE [c EXCEPT !.ops = Append(@, [op |-> "remote", signal |-> signal])]

ReceiveOffer(p) ==
  /\ Receives(p, "offer")
  /\ LET s == [page[p] EXCEPT !.remote = First(p).signal.from]
     IN Becomes(p, s, Applying(Ensured(p, s, conn[p]), First(p).signal), {})

ReceiveAnswer(p) ==
  /\ Receives(p, "answer")
  /\ Becomes(p, page[p], Applying(conn[p], First(p).signal), {})

ReceiveCandidate(p) ==
  /\ Receives(p, "candidate")
  /\ LET k == First(p).signal.body.offer
         described == conn[p].remote # NoDescription
     IN Becomes(p,
          IF described THEN page[p] ELSE [page[p] EXCEPT !.pending = Append(@, k)],
          IF described /\ Author(conn[p].remote) = k THEN [conn[p] EXCEPT !.reachable = TRUE]
          ELSE conn[p],
          {})

-----------------------------------------------------------------------------
(* What the handlers do after their awaits *)

\* The connection has done the first of its operations o; c is what is left of it.
Resumes(p, op) == conn[p].ops # <<>> /\ Head(conn[p].ops).op = op
Task(step, c, signal) == [step |-> step, id |-> c.id, signal |-> signal]

GoesOn(p, s, c, T, P) ==
  /\ page' = [page EXCEPT ![p] = s]
  /\ conn' = [conn EXCEPT ![p] = c]
  /\ tasks' = [tasks EXCEPT ![p] = T]
  /\ posts' = posts \cup P
  /\ UNCHANGED <<life, inbox, faults>>

\* onicecandidate, as soon as there is a local description: one candidate stands
\* for all of a connection.
Gathered(p) == IF p \in Trickle THEN {Posted(Candidate(p, page[p].remote, p))} ELSE {}

\* maybeCreateOffer, from the end of setLocalDescription to exportKey.
OfferMade(p) ==
  /\ Resumes(p, "offer")
  /\ LET c == [conn[p] EXCEPT !.ops = Tail(@), !.local = Offer(conn[p].id)]
         task == Task("export", c, Described("offer", p, NoOne, c.local))
     IN GoesOn(p, page[p], c, tasks[p] \cup {task}, Gathered(p))

\* setRemoteDescription refuses an answer unless the connection waits for one.
Refuses(p, c) == p = Owner /\ (c.local = NoDescription \/ c.remote # NoDescription)

\* handleOffer and handleAnswer, from the end of setRemoteDescription to the next
\* await: candidates, and the key unless there is one already.
Apply(p, s, c, signal) ==
  LET author == Author(signal.body)
      reachable == author \notin Trickle \/ Reached(s.pending, author)
      d == [c EXCEPT !.remote = signal.body, !.reachable = reachable]
      t == [s EXCEPT !.pending = Unreached(s.pending, author)]
      answer == [op |-> "answer", signal |-> signal]
  IN IF s.key = {} THEN GoesOn(p, t, d, tasks[p] \cup {Task("derive", c, signal)}, {})
     ELSE GoesOn(p, t, IF p = Owner THEN d ELSE [d EXCEPT !.ops = Append(@, answer)], tasks[p], {})

RemoteDescribed(p) ==
  /\ Resumes(p, "remote")
  /\ LET c == [conn[p] EXCEPT !.ops = Tail(@)]
     IN IF Refuses(p, c) THEN GoesOn(p, page[p], c, tasks[p], {})
        ELSE Apply(p, page[p], c, Head(conn[p].ops).signal)

\* deriveBaseKey has the key; a recipient then asks whatever connection it has by
\* now for an answer.
KeyDerived(p, t) ==
  /\ t \in tasks[p] /\ t.step = "derive"
  /\ LET s == [page[p] EXCEPT !.key = {p, t.signal.from}, !.late = @ \/ t.id # conn[p].id]
         answer == [op |-> "answer", signal |-> t.signal]
     IN GoesOn(p, s,
          IF p = Owner \/ conn[p] = NoConnection THEN conn[p]
          ELSE [conn[p] EXCEPT !.ops = Append(@, answer)],
          tasks[p] \ {t}, {})

\* createAnswer and setLocalDescription: refused unless an offer waits for it.
AnswerMade(p) ==
  /\ Resumes(p, "answer")
  /\ LET c == [conn[p] EXCEPT !.ops = Tail(@)]
         answer == Answer(c.remote.offer, c.id)
         signal == Head(conn[p].ops).signal
         task == Task("export", c, Described("answer", p, signal.from, answer))
     IN IF c.remote = NoDescription \/ c.local = answer THEN GoesOn(p, page[p], c, tasks[p], {})
        ELSE GoesOn(p, page[p], [c EXCEPT !.local = answer], tasks[p] \cup {task}, Gathered(p))

\* exportKey is done and the description of the connection there is now is posted;
\* without a connection the handler throws.
PostDescription(p, t) ==
  /\ t \in tasks[p] /\ t.step = "export"
  /\ tasks' = [tasks EXCEPT ![p] = @ \ {t}]
  /\ LET to == IF t.signal.kind = "offer" THEN page[p].remote ELSE t.signal.to
         signal == Described(t.signal.kind, p, to, conn[p].local)
     IN posts' = IF conn[p] = NoConnection THEN posts ELSE posts \cup {Posted(signal)}
  /\ UNCHANGED <<life, inbox, page, conn, faults>>

-----------------------------------------------------------------------------
(* The link *)

\* The connections of the sender and of g answer each other.
Paired(g) ==
  /\ conn[g].remote # NoDescription /\ conn[g].remote = conn[Owner].local
  /\ conn[g].local # NoDescription /\ conn[g].local = conn[Owner].remote
Connectable(g) == Paired(g) /\ conn[g].reachable /\ conn[Owner].reachable

\* connectionState becomes connected and the channel opens.
LinkUp(p) ==
  /\ conn[p].state # "up"
  /\ \E g \in Guests : p \in {Owner, g} /\ Connectable(g)
  /\ conn' = [conn EXCEPT ![p].state = "up"]
  /\ page' = [page EXCEPT ![p].reconnect = FALSE]
  /\ UNCHANGED <<life, inbox, posts, tasks, faults>>

\* An end that has both descriptions and no way to the other: the other has closed
\* its connection, holds another pair, or misses the candidates of its peer, and no
\* signal on its way changes that.
OnTheWay(description) ==
  \/ \E m \in posts : m.signal.body = description
  \/ \E p \in Pages : \E s \in SignalsOf(p) : s.body = description
CutOff(g) == \/ ~conn[g].reachable /\ ~OnTheWay(Offer(Owner))
             \/ ~conn[Owner].reachable /\ ~OnTheWay(Offer(g))
Orphaned(p) ==
  /\ conn[p].local # NoDescription /\ conn[p].remote # NoDescription
  /\ \A g \in Guests : p \in {Owner, g} /\ Paired(g) => CutOff(g)
  /\ p # Owner => ~(conn[Owner].local = conn[p].remote /\ OnTheWay(conn[p].local))

\* Mutant of LinkDown: nothing is scheduled.
LinkDownUnnoticed(p) ==
  /\ conn[p].state \notin {"failed", "lost"}
  /\ conn' = [conn EXCEPT ![p].state = IF @ = "up" THEN "lost" ELSE "failed"]
  /\ UNCHANGED <<life, inbox, posts, page, tasks>>

\* connectionState becomes disconnected, failed or closed, or the channel closes.
LinkDown(p) ==
  /\ conn[p].state \notin {"failed", "lost"}
  /\ conn' = [conn EXCEPT ![p].state = IF @ = "up" THEN "lost" ELSE "failed"]
  /\ page' = [page EXCEPT ![p] = Scheduled(@)]
  /\ UNCHANGED <<life, inbox, posts, tasks>>

PeerGone(p) == Orphaned(p) /\ LinkDown(p) /\ UNCHANGED faults

LinkBreaks(p) ==
  /\ conn[p].local # NoDescription /\ conn[p].remote # NoDescription
  /\ faults < MaxFaults
  /\ faults' = faults + 1
  /\ LinkDown(p)

\* What p awaits, and what it has posted, takes less than PEER_RECONNECT_DELAY_MS,
\* unless it is a post that was given up.
Settled(p) ==
  /\ tasks[p] = {}
  /\ \A m \in posts : m.signal.from = p => m.by = Abandoned
  /\ \A q \in Pages : \A e \in Range(inbox[q]) : e.type = "signal" => e.signal.from # p

\* Whether the open channel that p closes itself still reports its end, and schedules
\* another reconnect: browsers differ.
CloseReported(p) == IF conn[p].state = "lost" THEN BOOLEAN ELSE {FALSE}

\* The timer of schedulePeerReconnect: reset, a new connection, a new ready.
PeerReconnectFires(p) ==
  /\ page[p].reconnect
  /\ Settled(p)
  /\ LET s == [page[p] EXCEPT !.reconnect = FALSE]
         t == AnnouncesAgain(ResetSession(s))
     IN IF s.remote = NoOne THEN Becomes(p, s, conn[p], {}) /\ UNCHANGED inbox
        ELSE /\ \E reported \in CloseReported(p) :
                  Replaces(p, [Announced(p, t) EXCEPT !.reconnect = reported], NewConnection(p))
             /\ posts' = PastPosts(p) \cup Announcement(p, t)
             /\ inbox' = [q \in Pages |-> PastInbox(inbox[q], p)]
             /\ tasks' = [q \in Pages |-> {PastTask(u, p) : u \in tasks[q]}]
             /\ UNCHANGED <<life, faults>>

-----------------------------------------------------------------------------
EventHandled(p) ==
  \/ RoomState(p) \/ PeerJoined(p) \/ PeerLeft(p)
  \/ ReceiveReady(p) \/ ReceiveOffer(p) \/ ReceiveAnswer(p) \/ ReceiveCandidate(p)

Resumed(p) ==
  \/ OfferMade(p) \/ RemoteDescribed(p) \/ AnswerMade(p)
  \/ \E t \in tasks[p] : KeyDerived(p, t) \/ PostDescription(p, t)

\* What page p does, or its browser, without waiting for a request.
Works(p) ==
  \/ Subscribe(p) \/ EventHandled(p) \/ Resumed(p)
  \/ LinkUp(p) \/ PeerGone(p) \/ PeerReconnectFires(p)

\* The server gets to what p has posted, which may be posted again.
ServeOf(p, by) == \E m \in posts : m.signal.from = p /\ m.by \in by /\ Serve(m)
Retries(p) == SignalRetryFires(p) \/ ServeOf(p, Loops)

Next ==
  \/ \E g \in Guests : Join(g)
  \/ StreamLost
  \/ \E p \in Pages :
       Works(p) \/ SignalRetryFires(p) \/ Online(p) \/ ClosePage(p) \/ LinkBreaks(p)
  \/ \E m \in posts : Serve(m) \/ GiveUp(m)

Spec == Init /\ [][Next]_vars

FairSpec ==
  /\ Spec
  /\ \A p \in Pages : /\ WF_vars(Works(p))
                       /\ WF_vars(Retries(p))
                       /\ WF_vars(ServeOf(p, {Direct, Abandoned}))

-----------------------------------------------------------------------------
(* Properties *)

Keys == {{}} \cup {{p, q} : p, q \in Pages}
Page ==
  [remote : Pages \cup {NoOne}, offerReady : BOOLEAN, readySent : BOOLEAN,
   key : Keys, reconnect : BOOLEAN, retries : Seq(Signal),
   retry : BOOLEAN, pending : Seq(Names), late : BOOLEAN]

Connection ==
  [id : Pages \cup {NoOne}, local : Description, remote : Description,
   state : {"new", "up", "failed", "lost"}, reachable : BOOLEAN,
   ops : Seq([op : {"offer", "remote", "answer"}, signal : Signal])]

\* Every variable has its shape, a page sends and handles signals of that shape
\* only, and no retry queue exceeds its limit.
TypeOK ==
  /\ life \in [Pages -> {"new", "joined", "streaming", "gone"}]
  /\ \A p \in Pages : inbox[p] \in Seq(Event)
  /\ posts \subseteq Post
  /\ page \in [Pages -> Page] /\ conn \in [Pages -> Connection]
  /\ \A p \in Pages : tasks[p] \subseteq
       [step : {"derive", "export"}, id : Names, signal : Signal]
  /\ \A p \in Pages : Len(page[p].retries) <= QueueLimit

\* A signal waiting in a retry queue is never forgotten: a timer is set for it, or
\* a loop is posting.  Streams that open again start loops of their own, resets
\* empty the queue under a loop, and posts fail meanwhile.
QueueIsWatched ==
  \A p \in Pages : page[p].retries # <<>> =>
    page[p].retry \/ \E m \in posts : m.signal.from = p /\ m.by \in Loops

\* Two pages whose connections answer each other, and which both have a key, have
\* the same key, unless a derivation of the sender outlived its link (late): it
\* installs the key of the recipient that left, and the next one cannot be read.
KeysAgree ==
  \A g \in Guests :
    Paired(g) /\ page[Owner].key # {} /\ page[g].key # {} /\ ~page[Owner].late
      => page[Owner].key = page[g].key

Linked(g) == Paired(g) /\ conn[Owner].state = "up" /\ conn[g].state = "up"
Stays(g) == life[g] = "streaming" /\ Seated(Owner)

\* The retry queue of p holds a signal for somebody who has left: it fails again and
\* again, and those behind it are not tried.
Blocked(p) == \E s \in Range(page[p].retries) : s.to \notin Members \cup {NoOne}

\* A signal of that kind is on its way; an offer without a description is none.
Comes(kind, from, to) ==
  LET real(s) == /\ s.kind = kind /\ s.from = from /\ s.to \in {to, NoOne}
                 /\ kind = "offer" => s.body # NoDescription
  IN \/ \E m \in posts : real(m.signal)
     \/ \E e \in Range(inbox[to]) : e.type = "signal" /\ real(e.signal)
     \/ ~Blocked(from) /\ \E s \in Range(page[from].retries) : real(s)

OfferInTheMaking(g) ==
  /\ page[Owner].remote = g
  /\ \/ \E o \in Range(conn[Owner].ops) : o.op = "offer"
     \/ \E t \in tasks[Owner] : t.step = "export" /\ t.id = conn[Owner].id

\* Recipient g has announced itself and waits for an offer that nobody is about to
\* make, and no timer of its own is set.
Stalled(g) ==
  /\ Stays(g) /\ page[g].readySent /\ ~page[g].reconnect
  /\ conn[g].remote = NoDescription /\ conn[g].ops = <<>>
  /\ ~Comes("ready", g, Owner)
  /\ ~Comes("offer", Owner, g) /\ ~OfferInTheMaking(g)

\* A post of p ends and a signal of p is neither waiting nor delivered any more: a
\* full queue dropped it, or a loop took it off for another one that it had posted.
Unsent(p) == Range(page[p].retries) \cup {m.signal : m \in {n \in posts : n.signal.from = p}}
Loses(p) ==
  /\ \E m \in posts : m.signal.from = p /\ (Serve(m) \/ GiveUp(m))
  /\ \E s \in Unsent(p) \ Unsent(p)' :
       \A q \in Pages : Carrying(s) \notin Range(inbox'[q])

\* A recipient stalls in one of these ways only: its ready signal reaches a sender
\* that has an offer out already (maybeCreateOffer ignores it) or is about to
\* replace its link (resetPeerLink forgets it), or it is served, or was waiting,
\* while the sender has no stream; or the offer waits behind a signal for a
\* recipient that left; or one of the two is lost from a retry queue.  No other
\* order of the two pages' timers, retries, resets and awaits leaves it waiting.
StallsOnlyBy ==
  [][\A g \in Guests : ~Stalled(g) /\ Stalled(g)' =>
       \/ ReceiveReady(Owner) /\ conn[Owner].local # NoDescription
       \/ PeerReconnectFires(Owner)
       \/ life[Owner] = "joined" \/ StreamLost
       \/ Blocked(Owner)'
       \/ Loses(Owner) \/ Loses(g)]_vars

\* A recipient that stays gets its link, or has stalled, or both ends go on
\* replacing their connections (each answers an offer the other has just dropped).
EventuallyLinked ==
  \A g \in Guests : <>[]Stays(g) =>
    \/ <>[]Linked(g) \/ <>[]Stalled(g)
    \/ \A p \in {Owner, g} : []<>page[p].reconnect
=============================================================================
