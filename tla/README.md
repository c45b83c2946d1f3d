# A TLA+ model of shhx

shhx hands a secret from one browser to another.  A Go server serves the page
and relays signals between the two browsers; the secret itself goes over a
WebRTC data channel.  This directory holds TLA+ modules of the parts whose
order of events matters, the TLC configurations that check them, and proofs of
every safety property that the passing runs check.

Every run needs `tlc -config X.cfg M`; the proofs need `tlapm M.tla` for
`HubProofs`, `DirectoryProofs`, `HubViewsProofs`, `HandoffProofs`,
`PeerLinkProofs`, `StallProofs`, `ProvisionProofs` and `RecordProofs`.

## 1. The system

| Component | Source | State it keeps | Operations |
|---|---|---|---|
| Signalling hub | `internal/room/hub.go` | rooms by code, peers by token, subscriptions with a 128-event buffer, `lastActive`, `lastSeen` | CreateRoom, CreateRoomWithCode, JoinRoom, Subscribe and its cleanup, Send, Leave, pruneExpired |
| HTTP and SSE handlers | `internal/app/server.go` | none of their own but the streams being served | create and join cards, events, owner/events (several rooms merged into one stream), signal, leave |
| Request guards | `internal/app/security.go` | rate-limit windows by client and route class | allow, prune, same-origin and input checks |
| Sender life cycle | `app.js` | sessions, stored secrets, provisioning timers | create, provision, restore, recover, delete, leave |
| Links between browsers | `app.js` | `RTCPeerConnection`, `offerReady`, `readySent`, signal retry queue, reconnect timer | ready, offer, answer, candidates, reset, reconnect |
| Secret hand-off | `app.js` | base key, validation challenge, retry and watchdog timers, acknowledgement, active and burned flags | validate, flush, retry, request, acknowledge, open, burn, toggle, delete, expire |
| Feed export and import | `app.js` | the stored list | export, import (over the list as it was read before its awaits) |
| Factors and identity | `app.js` | key pairs, TOTP secret | derive, sign, verify, TOTP |
| User interface, assets, start-up, minifier | `app.js`, `static.go`, `main.go`, `tools/` | presentation | not modelled |

How they interact:

- The browsers call the hub through HTTP handlers.  Each hub method holds one
  mutex from its first to its last line, so a method is one step; handlers
  interleave in any order.
- The hub pushes events into subscription channels without blocking and drops
  what does not fit.  An SSE handler reads the channel until the client goes,
  then runs the cleanup closure that `Subscribe` handed out.  That closure can
  run long after its peer or room is gone.
- A browser keeps `session.remotePeerId` from the stream, and addresses its
  signals to it.  When a link comes up the two browsers talk directly.
- JavaScript runs one handler at a time, but only up to its next `await`.

What is hard, and the property that answers it, is listed as `hazards` in
`PROJECT.json`.  In short: cleanup closures against evictions and teardown;
grace periods against slow clients; dropped events; the conditions for sending
a secret coming together in any order; requests, leaves and reloads of a sender
overtaking each other; handlers that resume after the link they
belong to was reset; retries against acknowledgements and burns; steps that are
skipped because a `send` threw; two ends that replace their connections each on
its own timer; a list read before an import's awaits and written after them.

## 2. The modules

### Hub (`Hub.tla`, `MCHub.tla`)

| Model | Code |
|---|---|
| `live`, `members`, `idle` | `Hub.rooms`, `roomState.peers`, age of `roomState.lastActive` |
| `peer[p]` (`role`, `age`, `engaged`, `streams`) | `peerState`: role, age of `lastSeen`, engaged, subscriptions |
| `chan`, `home`, `queue` | the channel of a subscription, what its cleanup closure captured, its buffer |
| `CreateRoom`, `JoinRoom` / `JoinAbandonedRoom`, `Subscribe`, `Cleanup`, `Send`, `Leave`, `PruneExpired` | the methods of the same name; `JoinRoom` is split by whether the owner is stale |
| `Receive`, `Tick` | the SSE handler taking an event; the clock |

Time is kept as ages: `Tick` makes everything a second older, up to
`RoomTTL + 1`, above which no comparison in the code tells ages apart.  This
keeps the model finite without bounding the length of a run.  The closed flag
of a subscription and a send or close that would panic are modelled, so the
absence of panics is something that is checked, not assumed.  Map iteration
order is a nondeterministic choice where it can be observed (the order of
evictions).

Three abstractions to know of.  A join that evicts two guests and announces a
third sends several events in one locked section; the model appends them in one
step, so a reader never takes an event in the middle.  A signal a peer addresses
to itself is left out: the page never sends one.  Tokens are fresh: a token is
not drawn again while any room or stream still refers to it.

### Directory (`Directory.tla`), which Hub implements

What the hub promises about who is in which room: an owner opens a room, a
newcomer takes a free seat or that of a guest who is not at work, a guest that
goes offline leaves and an owner stays, whole rooms are retired.  It has no
channels, events, clocks or grace periods.  `Hub!RefinesDirectory` is
`Directory!Spec` with this mapping:

| Directory | Hub |
|---|---|
| `members` | `members` |
| `role[p]` | `peer[p].role`, "none" of a peer object that is garbage |
| `online` | the peers with a subscription (`Attached`) |
| `spoke` | the peers whose `engaged` flag is set |

The admission of a newcomer says what the grace periods are for: nobody loses a
seat for a newcomer who is then refused, the owner is never displaced, and a
guest with a stream that has signalled is not displaced however old its last
signal is.  `Tick`, `Receive` and everything about buffers are stuttering.

### HubViews (`HubViews.tla`, `MCHubViews.tla`)

Adds to every stream of the hub the `remotePeerId` of the browser that reads
it, updated by `handleServerEvent` for each event taken.  A signal assigns it only
if it is a `ready` or an `offer`; the hub does not look, so the model lets each
signal assign it or not.  The module composes the two ends of a subscription, and
asks whether they agree.

### Handoff (`Handoff.tla`, `MCHandoff.tla`)

| Model | Code |
|---|---|
| `own` | the owner's `session`: channel, `isConnected`, `baseKeyBytes`, `peerValidated`, `deliveryAcked`, retry timer, and `flights`, the calls of `flushPendingSecret` that are awaiting |
| `secret` | `pendingSecret`: `active`, `sent`, whether it is stored, burned, wiped |
| `page[g]` | a recipient's page: its channel, whether it has a key, its card, its watchdog |
| `await[g]` | the owner's handlers of the answer, the hello and the pong that are between two awaits |
| `toGuest`, `toOwner` | the data channel, one queue per direction |

A step is what runs between two awaits.  `flushPendingSecret` is three steps:
its guards (`FlushPendingSecret`), the reading of the base key (`FlushKeyed`)
and the send (`FlushSends`, `FlushFails`), because everything it read before
may have changed by then.  The base key is read once more for the envelope inside, and
a copy made under two keys can be opened by nobody (`CopyKeys`).  `resetPeerLink` forgets the link but not the calls
that are awaiting.  A recipient's page has one link: a reconnect of the same
page appears as another guest, and what the page awaits for the first is not sent on
the second.  The negotiation is reduced to its outcome; how it
goes is `PeerLink`.  The browser's part is modelled as WebRTC specifies it:
reliable ordered delivery until the channel closes, `send` throws unless it is
open, and no events after the local `close()`.

Validation of keys and signatures is symbolic: a pong is good if it answers the
challenge and comes from the guest whose key is known; a secret can be opened
if it was encrypted under the key of the page that received it.

### PeerLink (`PeerLink.tla`, `MCPeerLink.tla`)

How a sender and its recipients, one after the other, get a link.

| Model | Code |
|---|---|
| `page[p]` | the `session` of page p: `remotePeerId`, `offerReady`, `readySent`, the two members of `baseKeyBytes`' exchange, whether `peerReconnectTimer` and `signalRetryTimer` are set, `signalRetryQueue`, `pendingCandidates` |
| `conn[p]` | `session.rtc`: both descriptions, `connectionState`, the chain of operations the connection serialises, whether it has the candidates of its peer |
| `tasks[p]` | handlers that await `crypto.subtle` (`deriveBaseKey`, `exportKey`), which resume whatever happened since |
| `posts` | `POST .../signal` requests, each awaited by its handler, by one call of `flushSignalRetryQueue`, or by nobody any more |
| `inbox[p]`, `life[p]` | the events of p's stream that are not handled yet; whether p has joined, streams, is gone |

Descriptions are pairs of connections: an offer names the one that made it, an
answer both.  A connection that is closed is renamed `Stale` wherever it is
mentioned, which keeps the model finite while pages reconnect for ever.  What a
closed connection would still have to do is dropped, as browsers do; what awaits
`crypto.subtle` is not.  `setRemoteDescription` fails in the states WebRTC says,
and the handler ends there.  A candidate before its description waits in
`pendingCandidates`; `flushPendingCandidates` gives back the first that is refused
and loses those behind it, as the code does.

The hub is reduced to seats, broadcasts and refusals, with streams that do not
overflow.  `ClosePage` of a recipient covers the loss of its stream too, for the
hub then takes its seat.  A refused stream of the owner, deleted and provisional
sessions belong to `Provision`; the four further tries of `joinSharedLink` on a
409, and the delays between retries, are left out.  What the page does not
control: whether the closing of an open channel is still reported to the page that
closed it is chosen freely (`CloseReported`).  One assumption is about time: the
1.2 s of `PEER_RECONNECT_DELAY_MS` end only after what the page awaits of its own
crypto and posts is done, unless it is a post that is given up (`Settled`).

### Provision (`Provision.tla`, `MCProvision.tla`)

The life of a sender's secrets.  `sess` is the session object of a secret (whether
it is listed in `appState.sessions`, deleted, provisional, leaving, waiting for
its key pair or for its retry timer), `stored` the room code of its record in
`localStorage`, `stream` the one `ownerEventSource` of the page with its
subscriptions, `calls` the `POST /ui/rooms/create` requests, `leaves` the leaves
and beacons under way.  The server is reduced to what these handlers see of the
hub: which peer owns the room under a code, and whether a recipient is seated, for
the room then outlives its owner and keeps the code in use; one that calls now and
then (`GuestCalls`) keeps the janitor away, one that has fallen quiet does not.
Recipients come to the codes in `Shared`.

Handlers run to their next `await`: `CreateSecret`, `RetryFires` and `Online` end
with a request under way, `Serve` answers it, `Created`, `Restored`,
`Provisioned` and `Refused` resume.  `GiveUp` is the time-out or a lost answer, after
which the server may still serve the request.  `LeaveSession` and `Left` are the
two halves of `leaveSession`, `Started` the end of `startSession`.  `ClosePage`
covers a reload and a crash (any of the beacons may not get out), `OpenPage`,
`RestoreNext` and `RestoreEnds` are `restoreLocalSecrets`, which suspends the
stream meanwhile, unless nothing is stored.  A delete or an expiry whose message to
the recipient throws removes the record and leaves the session where it is (`Remove`).  `StreamRefused` and `Recovering` are the `onerror` handler and
`recoverOwnerSession`; whether a recipient is connected is chosen freely there.

A local code stands for every `LOCAL-...` code, which is never sent to the server;
codes and peer ids of the server are drawn from those nobody uses any more.

`ImportStarts` and `ImportEnds` are the two ends of `importLocalFeed`: the list is
read before the awaits of its decryption and the merged list is written after
them, so `importing` is the list as it was read.  What is imported becomes records of
its own, with the code they were exported with (`ImportedCodes`): what is imported was
removed here or comes from another browser, so no other record has that code, but a
room or a late leave may.

Left out: two records with one code, of which the second restored would take over the
first's session; the limit of 100 secrets, several tabs, records that cannot be decrypted,
the second decryption that `restoreLocalSecrets` awaits, a bulk delete that stops at
a throw, and pages that come back from the back/forward cache.

### The proof modules

`HubProofs` (the hub's inductive invariant), `DirectoryProofs` (the hub implements
the directory, and who can lose a seat), `HubViewsProofs` (both ends of a stream
agree), `HandoffProofs` and `PeerLinkProofs` (the inductive invariants of the
hand-off and of the links, and what follows), `StallProofs` (how a recipient comes to
wait for ever), `ProvisionProofs` (the inductive invariant of the life cycle) and
`RecordProofs` (what is stored, on the stream and spared by late leaves); see
section 5.

## 3. The runs

| Run | Module, bounds | Question and answer |
|---|---|---|
| `hub_rooms` | two rooms, 3 peers, 2 streams, buffers of 1 | types, no panic, streams wired, room shape; whoever loses a room without leaving it has the channels of its streams closed (the sender's merged stream goes on all the same, hazard at `server.go:585`); the hub implements the directory: hold |
| `hub_clock` | one room, 3 peers, 2 streams, the three time-outs all different, fairness | a sender that is attached, or back within the grace, keeps its room, an active recipient its seat, and a room that is not used is reclaimed: hold |
| `hub_views` | one room, 3 peers, 2 streams, buffers of 4 | the browsers agree with the hub on who is there: holds on streams that never overflowed |
| `handoff_recipient` | one recipient after another that has gone, 1 retry, 2 concurrent flushes, 2 toggles, fairness | a recipient is not left with a readable secret that is off; nobody gets another copy to open of a secret that is burned or off, whatever was awaiting or set; one that stays gets a copy it can open of a secret that stays on: hold |
| `handoff_two_recipients` | two recipients, 1 retry | no stale acknowledgement, no lost wake-up: hold |
| `peer_link` | two recipients, a queue of 2, two flush loops, 1 failure, candidates trickling from one recipient, fairness | a retry is never forgotten; two linked pages have the same key; a recipient that stays is linked, or has stalled in one of the ways named, or both ends go on replacing their connections: hold |
| `provision_one` | one secret, 2 failures, 2 page loads, 2 requests at a time, recipients at one code, fairness | what the page shows has its record, and the record the code that is shared; a created secret is lost only with a page closed before its first answer; a late leave spares the newer room; a session that is not published is published in the end, or recipients go on calling into its old room: hold |
| `provision_two` | two secrets, no failures, 2 page loads, 1 import | the stream subscribes exactly the published sessions, and a session loses its subscription in one way only; a record is lost, or comes back, only in the ways named: hold |
| `hub_online_sender` | as `hub_clock` | *violated*: a room is pruned under an attached sender after 30 quiet minutes |
| `handoff_validated_first` | two recipients | *violated*: a verification that resumes after a reset validates the next recipient |
| `handoff_wiped` | one recipient | *violated*: a TTL that ends while a channel connects does not wipe |
| `provision_removed` | one secret, 1 failure | *violated*: the answer to a request brings back the secret that was deleted while it was under way |

The violated runs compare the code with what its documentation says; `findings`
in `PROJECT.json` quotes the lines.  Three more things the hub and the hand-off models do, because
the code does, are listed as hazards: a room whose owner left admits further
recipients; a second copy of a delete-on-read secret that was on its way can be
opened after the first; the on/off button brings a burned secret back.  Of the
sender's life cycle, the hazards list: two rooms for one secret after an `online`
event; an imported twin that takes over the session of the record with its code; a
page whose stream goes on with keep-alives after its last room was pruned.

Some properties hold only because they name what the code does.  Reading them is
the quickest way to what a reviewer would argue about:

- `SharedLinkIsStored`: a restored secret without a stored code is published under a
  new one that is not stored, so after the next reload the shared link is dead.
- `RecordsFollowFate`: a removed secret comes back into the store by a request that
  was under way, by the on/off button of a card that is still shown (burned, or
  deleted while its leave is awaited), or by an import that read the list before it
  was removed; and an import loses a record stored while it was reading.
- `LostOnlyBy`: the page announces a secret as created before it is stored, so closing
  it before the answer, or the time-out of 10 s, loses the secret.
- `UnsubscribedOnlyBy`: a refused stream is not opened again for the sessions whose
  recipients are connected, and their sender hears of no newcomer until another
  session or an `online` event opens one.  The property is about subscriptions: a
  session whose room is pruned under an open stream keeps its subscription to a room
  that is gone, and its sender is not told either.
- `EventuallyPublished`: recipients that go on joining and calling refresh a room
  whose owner is gone, and as long as they do its code is refused to the owner.
- `EventuallyDelivered`: what an earlier link left behind can reach into a recipient's.
  A key derived late, or a flush that was awaiting, gives it a copy it cannot open,
  which its page acknowledges all the same; an identity checked late replaces its own,
  and its answers are refused from then on.
- `KeysAgree`: a derivation of the sender that outlives its link installs the key
  of the recipient that left.
- `StallsOnlyBy`: `ready` is announced once per connection.  It is lost for good if
  the sender has no stream, has an offer out, or is about to reset; an offer
  can wait for ever behind a signal to a recipient that left, which the hub refuses
  each time; and a retry queue can lose a signal: it drops its oldest when it is full,
  and a loop whose post was served takes off the head of the queue as it is then,
  which need not be what it posted.
- `EventuallyLinked`: both ends reconnect on a timer of their own, and can go on
  answering offers of connections the other has just dropped.

Why the bounds are enough.  A room holds two peers, so three peers give an
owner, a guest and the newcomer that evicts or is refused; two streams let a
peer have two, which is what a reconnect looks like, or both peers one.
The time-outs only need to be told apart, so each is a small number with the
order of the code's 3 s, 5 s and 30 min.  Buffers of 1 or 2 overflow early; 4
holds the longest burst one join can send, and more.  In the hand-off, two
flushes in flight are what it takes for two copies of a secret, and two
recipients are what it takes for something to be left over from the first.  In
`handoff_two_recipients` it comes about step by step; `handoff_recipient` starts
where the first has gone (`AfterOneSpec`), with nothing left or with one flush
awaiting, before or after it read the first one's key, because fairness over two
whole links is too much for TLC.
`MaxFlights`, `MaxQueue`, `MaxToggles` and `MaxChallenges` are bounds of the
model: they disable a step, never shorten one.  `attempts` saturates at its
limit, which is all the code compares it with.

For the life cycle, two failures and two loads are what it takes for an old
request, leave or room to meet a new page, and two requests at a time for one
answer to overtake another.  `MaxFaults`, `MaxLoads` and `Slots` bound these.  In
`provision_one` codes and peers are enough never to run out, and recipients come to
the code that is drawn first only (`Shared`); in `provision_two`, which claims no
liveness, two codes and three peers are all there are, so a request waits until one
is free again.  There the second load restores what the first, or an import, stored,
one record after the other.  `MaxImports` is 0 where fairness or failures already
fill the run, and 1 in `provision_two`.

For the links, the second recipient meets what the first left behind in the queue,
in handlers and in timers; a queue of 2 overflows on an offer and two candidates;
two loops remove each other's head.  Smaller and larger instances (a queue of 1
with 2 faults, one recipient with 3 faults) were explored for `StallsOnlyBy` too,
and it is there that signals are lost from the queue.  One fault (`MaxFaults`: a post given up, the
stream lost, a link broken or an `online` event) is enough to set one end's timer
without the other's; from then on the pages reconnect without bound.  Only one
recipient trickles its candidates (`Trickle`); the others' travel in their
descriptions, as when gathering is done in time.

Deadlock is checked for the hub.  A hand-off really ends, once everybody has
left and the secret is deleted, and so does a life cycle when the page is closed,
so their runs, and that of the links, say `CHECK_DEADLOCK FALSE`.

## 4. Fairness

- `Hub!FairSpec`: the clock advances and the janitor's ticker keeps running.
  No client has to do anything.
- `Handoff!FairSpec`: a handler that can resume does, a message on an open
  channel is delivered, a timer that is set fires, a connection that can be
  reported is.  A flush goes on, to its send or to its failure, and `FlushSends` is
  strongly fair: loading OpenPGP may fail, but not every time.  The owner's handlers
  are strongly fair because the bounds on flushes and messages can hold one up again
  and again, which nothing in the code does.  Nobody has to open the link, read, leave or click, and connections
  may drop again and again.  Liveness is claimed of a recipient whose channel
  stays; that a channel comes up at all is the network's business.

- `Provision!FairSpec`: the server serves a request that reaches it, the page
  resumes on an answer and when its timers fire, and the janitor, or a join,
  reclaims a room whose owner has no stream on it (30 minutes after its last use in
  the code), if it stays without a recipient or with one that makes no calls.  A
  recipient that makes none falls quiet in the end; one that goes on calling, or
  recipients that come and go, keep the room for as long as they like.  Nobody has to reload, leave, create or join, and each of these may
  go on for ever; failures are bounded by `MaxFaults`, so the network works in the
  end.  A stream need not open.

- `PeerLink!FairSpec`: each page goes on handling its events, awaits and timers, and
  the server gets to its posts, those of the retry loops separately: a page that
  retries for ever does not keep the others from being served.  No particular
  handler of a page is promised, nobody has to join or stay, and what is claimed is
  claimed of a recipient that stays with a sender that stays seated.

## 5. The proofs

`HubProofs.tla` proves, for every number of rooms, peers and streams, every
buffer size and every setting of the time-outs that satisfies `HubAssumption`:

- `TypeCorrect`: `Spec => []TypeOK`.
- `Inductive`: `Spec => []IInv`, with `IInv` the conjunction of `TypeOK`,
  `NoPanic`, `StreamsWired` and `RoomShape`.
- `NeverPanics`, `AlwaysWired`, `AlwaysInShape`: its parts, as theorems.

`NoPanic` is not inductive by itself.  A send panics if a stream listed by a
peer has a channel that is not open, so one needs `StreamsWired`: a stream that
a seated peer lists is open, and its cleanup closure points back to that peer in
that room.  For a `Cleanup` to keep that, no other peer may list the same
stream, which follows from the closure pointing to one peer only; and for
`JoinAbandonedRoom` and `PruneExpired` to close exactly the streams of the rooms
they delete, no peer may be in two rooms, which is part of `RoomShape`.  That
invariant is checked by TLC in `hub_rooms` and proved step by step, one lemma per
operation.  The only assumptions are the named ones on the constants.

`DirectoryProofs.tla` proves `HubImplementsDirectory`: `Spec => RefinesDirectory`.
Each operation of the hub has a lemma saying which step of the directory it is
seen as.  The harder ones are `JoinRoom`, where the order of evictions disappears
and an admission must be shown to need only a seat and guests not at work, and
`Cleanup`, which is a `Depart`, a `Disconnect` or nothing, depending on what became
of the peer its closure captured.

It also proves the three action properties of the hub that say who can lose a seat: `SendersKeepRooms` (`ActiveSenderKeepsRoom`), `RecipientsKeepSeats`
(`RecipientKeepsSeat`) and `TeardownsClose` (`TeardownClosesChannels`).  All three
rest on one lemma, `WaysOut`: whoever is no longer in its room left, lost its last
stream as a guest, was displaced by a join, or its room was abandoned or pruned.

`ProvisionProofs.tla` proves `TypeCorrect` (`Spec => []TypeOK`) of the life cycle
from `IInv`.  Types alone are not inductive: a stream subscribes the code and peer
of every published session, so these must be seats of the server and never a local
code (`SeatsAreReal`), which holds because a session is published only by an answer
that was served.  The rest of `IInv` says where a secret is: of one that is not
created yet there is no session, record or other request (`UnbornIsNowhere`); a
closed page has nothing under way but abandoned requests (`ClosedIsEmpty`); what is
still to be restored is stored and has no session (`ToRestoreIsStored`).

`RecordProofs.tla` proves `RecordsAreKept` (`RecordsFollowFate`) from it for every
step, imports included.  `StoredWithoutImports` (`SessionsAreStored`),
`LinkStoredWithoutImports` (`SharedLinkIsStored`) and `SecretsAreNotLost`
(`LostOnlyBy`) assume `MaxImports = 0`, and the first two need to (and the second
has the exception of its property: a record that was restored before its secret was
ever published keeps the local code):
an import that read the list before a secret was stored writes it back without it,
so with imports both are false.  Their invariant adds to `IInv` that an open page
has been loaded, that one record is restored at a time, and that a session's record
is there from its first moment.

`StreamIsForSessions` (`StreamFollowsSessions`) and `OnlyRefusalsUnsubscribe`
(`UnsubscribedOnlyBy`) rest on `StreamInv`: while records are being restored the page
says so, one at a time, so the stream that is suspended meanwhile is the one the
end of it opens again.  `LateLeavesSpare` (`LateLeaveSparesRoom`) rests on
`LeaveInv`: a peer of the server is named by one answer or one session
(`PeersAreApart`), and a leave under way names none that is published or is
in an answer (`LeavesAreOld`).  A code alone would not do, for a newer
room can have the code of the one that is being left.

`HubViewsProofs.tla` proves `ViewsAgree`: `ViewSpec => []RemoteAgrees`, for any
number of rooms, peers and streams and any buffer size.  A step of `HubViews` is a
step of the hub, so the hub's `IInv` holds, and no more than it and `RemoteAgrees`
itself is needed: what counts is what a stream's browser may believe once it has
read what is buffered (`Outcomes`), which the last event that is no signal decides,
or a signal behind it.  Each operation either leaves a room's members and their
streams' buffers as they were, or appends to every stream of whoever stays an event
that takes that belief to the new membership whatever it was, or relays a signal of
a member, which can only confirm it; a browser that takes the head of its buffer
adds no outcome.  The
premise is a stream that never overflowed: a full buffer drops events, and the
property is false without it.

`HandoffProofs.tla` proves five properties of the hand-off for any number of
recipients and whatever bounds the exploration: `TypeCorrect`, `AckIsTheGuests`
(`AckMeansReceived`), `WakeUpIsKept` (`NoLostWakeup`), `OffIsKnown`
(`OffReachesGuest`) and `OffAddsNoCopyToOpen` (`OffIsNotCopied`).  Its `IInv` is

- `TypeOK` with `WatchCounts`: a watchdog is set only while it may still ask.
  Without this the count of requests could leave its range, so types alone are not
  inductive.
- `EverythingHeard`: only the linked recipient's messages are on their way; an
  acknowledgement, on its way or received, means a secret on that page; a secret on
  the page of a live link has its acknowledgement on its way or received; a burn
  comes after it; and a new link starts without one.
- `EveryoneTold`: a recipient within reach of a secret that is off has a dismissal
  on its way, or has burned the secret itself and been heard.
- `EveryoneAwake`: when everything needed to deliver has come together, or a secret
  was sent within the 700 ms in which a flush does nothing, and it has not been
  acknowledged, a flush is in flight, the retry timer is set, or the attempts are
  used up.  This is stronger than `NoLostWakeup`, which speaks of the first case
  only: when the 700 ms end, something must have been left to try again.

`OffIsNotCopied` is about a step: the copies a recipient can open are counted, on its
page and in its channel, before and after it, and lemmas on cardinality say that
taking the head, appending another message or emptying the channel adds none.  A
flush that was awaiting when the secret went off still sends the ciphertext; it is
flagged off, the page does not offer to open it, and so it is not counted.

`PeerLinkProofs.tla` proves `TypeCorrect`, `QueuesAreWatched` (`QueueIsWatched`) and
`LinkedPagesAgree` (`KeysAgree`) of the links for any number of recipients, queue
limit, loops and faults, from `Inductive`, `Spec => []IInv`:

- `Sound`: every signal, wherever it is (a post, a queue, an inbox, the operations
  of a connection, an awaiting handler), is one its sender makes.  Offers are the
  sender's; an answer is a recipient's, for the sender, and about that recipient's
  connection or one that is closed; nobody is told its own signals.  `TypeOK`
  alone cannot bound what a handler that resumes late will install.
- `QueueIsWatched`, which is inductive with it.  A loop that ends removes its post in
  the step in which it sets the timer, or finds the queue empty.
- `DerivesItsAnswer`: what the sender derives for the connection it has is from the
  answer that connection was given, and so is the key it has, unless `late`.

`KeysAgree` follows: if the connections answer each other, the answer the sender's
connection was given names the recipient's present connection, not a closed one,
so the sender's key is the one it has with that recipient, and a recipient has
no other.  A connection that is replaced turns `Stale` everywhere at once, so
most of the proof is that this renaming keeps each part of `IInv`.

`StallProofs.tla` proves `StallsAreNamed` (`StallsOnlyBy`), the claim that needs most
of the state at once.  A recipient that waits needs its ready signal, or the offer, to
be somewhere: in a post, a stream, a queue, an operation of the sender's connection,
or a task that exports its key.  The proof follows both from each of these places to
the next.  It first says, once, what any step does to each part of the state, up to
the renaming of closed connections (`PostsCome` and `PostsStay`, `EventsCome` and
`EventsStay`, `QueueComes` and `QueueStays`, `SessionSteps`, `ConnectionSteps`,
`LifeSteps`), and so the case split over all actions is made once per variable.
The invariant added to `IInv` is `StallInv`:

- `Meeting`: one recipient is seated at a time; a page that has no stream has no
  events and knows nobody; a recipient hears of, knows and writes to the sender only,
  and writes nothing but ready signals before it has an offer (`BeforeOffer`); and the
  sender's events are in order (`EventsInOrder`): behind the first event about the
  seated recipient there is none about another, and no departure of it.
- `OffersAreMade`: a key is exported for a connection that has its description.
- `ReadyIsKept`: while the sender has yet to handle that somebody left, and will
  reset its link and queue when it does, the next recipient's ready signal is still
  to come.  Without this a reset by `peer-left` would be a further way to stall.
  It does not hold of the sender's own reconnect timer, which is why that one is named.

The assumptions are the named ones on the constants: names do not coincide, limits
are positive.  For the hand-off, `Bounded` says of `MaxFlights` that any two kinds of
flushes together stay within it, which is what the guards of the model ensure.

Model-checked only: liveness (`UnusedRoomReclaimed`, `EventuallyDelivered`,
`EventuallyPublished`, `EventuallyLinked`), for TLAPS does not reason about fairness
here.  The four violated runs are TLC's.

## 6. What is not modelled, and the plan

Not modelled because nothing in it depends on an order of events: HTML and CSS,
search, focus and other presentation, static files and their compression, the
minifier, configuration, HTTP server start and shutdown.  The ciphers belong to
the browser.

Planned, in this order:

1. `EventStreams`: `handleOwnerEvents` and its forwarders, several rooms merged into
   one stream, against teardown: a page whose rooms are all gone keeps a silent
   stream.
2. `Provision` over `Hub`: that the reduced server of `Provision` and of `PeerLink` is
   what the hub does (refinement); then the links of a sender that is restored.
3. `RateLimiter`: windows, pruning and boundaries against a reference counter, and
   what a refused signal does to the retry queue.
4. The limit of 100 stored secrets and what is dropped at it, and imported twins:
   two records with one code, which share a session once both are restored.
5. `TOTP` and base32 as pure functions.

Theorems planned: the limiter's bound; and, once the reduced server of `Provision` is
related to `Hub`, each step of that refinement.
