# Aiwa_platform in TLA+

Specifications of the parts of Aiwa_platform that run concurrently, checked with
TLC on small instances, and proofs of their main properties checked with TLAPS.
Paths are relative to the repository (`src/replicator.js` is the file of that
name under its `src/`); line numbers are those of the modelled commit.

## 1. The system

Aiwa_platform carries the event log of `aiwa-core` (a grow-only DAG of
content-addressed, signed events) from device to device, and puts a few
services on top of it.

| Component | Source | State it keeps | Operations |
|---|---|---|---|
| Replicator | `src/replicator.js` | promise queue; `_syncInFlight`, `_pendingChunks`, `_lastSentChunkIds` per peer; writes the log | `start`, `stop`, `publish`; handlers of onPeerJoin, HELLO, HELLO_ACK, EVENTS, ACK |
| `topologicalOrder` | `src/replicator.js` | local to a call | two nested loops, then the slicing of `_sendChunked` |
| LoopbackTransport | `src/transport.js` | a registry of peers | `connect`, `disconnect`, `send`, `broadcast` |
| WebrtcTransport | `src/webrtc-transport.js` | `_links`, `_openPeers` | `createOfferFor`, `acceptOffer`, `completeConnection`, `disconnect`, channel events |
| Introducer | `src/introducer.js` | `_requests`, `_roles`, `_mediating`, `_bufferedRelays` | `requestIntroduction`, `start`, `stop`; handlers of INTRO_REQUEST, ASSIGN, RELAY, FAILED |
| Archive node | `src/archive-server.js` | one file per wallet, `domains`, `writes` | PUT, GET, status |
| Archive client | `src/archive.js` | none between calls | `pushBackup`, `fetchBackup`, `pushToNodes`, `fetchFromNodes` |
| Bundles | `src/bundle.js` | events of the log | `publishBundle`, `readBundle`, `latestBundle`, `listBundlesByAuthor` |
| Service worker | `src/serve-worker.js` | none | `resolveFromBundle`, `createFetchHandler` |
| Capabilities, guarded stores | `src/capability*.js`, `src/guarded-data-store.js` | the list of grants | `issue`, `verify`, `grant`, `can`, `_commit` |
| GraphStore | `src/graph-store.js`, `src/graph-materializer.js` | a fold of the log | `put`, `unset`, `get` |
| Signaling codec, node CLI, index | the rest | none | conversion, process start, re-exports |

How they interact. The transport calls the handlers that a Replicator and an
Introducer registered; each Replicator chains them on one promise queue, so its
handlers never overlap, though the application may append to the log while a
handler awaits. Replicators exchange messages only. The Introducer drives
`WebrtcTransport` to open new connections, which makes `onPeerJoin` fire in the
Replicator. Bundles write and read the log that the Replicator syncs; the
service worker reads bundles. The archive is separate: HTTP requests from
wallets to nodes, served concurrently between awaits.

What is hard in it: heads and missing sets that are computed, then used after
awaits and round trips; acknowledgements that are recognised by content; state
that outlives the connection it belongs to; callbacks that throw in the middle
of a handler; two peers that offer to each other at once; PUTs of one wallet that overlap, time out or outlive a crash;
signalling messages over several connections without a common order.
`PROJECT.json` lists each hazard at its line.

What makes each component correct:

- Replicator: a log never holds an event without its parents, nor one that
  nobody made; peers that stay connected end up with the same log; a chunk
  is released only when the one before it was stored; the exchange ends.
- `topologicalOrder`: ends, loses nothing, parents before children.
- Archive node and client: as long as its files can be read, a wallet's file
  only gets newer, what was acknowledged stays and a recovery finds it; the
  limits hold whether they can be read or not.
- WebrtcTransport and Introducer: at most one link per peer, table and open
  set agree, a session is settled at most once and, when nobody leaves, is.
- Bundles: a manifest is never visible without its files once synced; the
  latest manifest of a domain is found; forks are reported and never resolved
  silently.
- Stores: every write passes the guard; a projection is a fold of its log.

## 2. The modules

| Module | What it is |
|---|---|
| `EventGraph` | what the code relies on from `aiwa-core`: heads, reachability, `since`, `appendMany` over sets of events (external code) |
| `EventLog` | the events as constants: parents fixed by content ids, no cycles |
| `Chunking` | the result of `topologicalOrder` and slicing, as the set of all sequences of chunks it may give |
| `TopologicalOrder` | the loops themselves, step by step, and the slices |
| `CausalGossip` | abstract specification of replication: logs only |
| `Replication` | the Replicator class of every peer over a transport whose connections come and go |
| `Archive` | archive nodes, wallets that push to all of them and recover from them |
| `Introduction` | abstract specification of an introduction: what is promised to the peer that asks |
| `WebrtcTransport` | the link tables of all peers and the browsers' connections between them |
| `Introducer` | mediators and participants; EXTENDS `WebrtcTransport`, which it drives |
| `Bundles` | publishers over logs that sync, and what readers and the service worker find; uses `EventGraph` with parents that are a variable |
| `MCReplication`, `MCTopologicalOrder`, `MCArchive`, `MCIntroducer`, `MCBundles` | instances for TLC |
| `ReplicationProofs`, `ExchangeProofs`, `TopologicalOrderProofs`, `ArchiveProofs`, `IntroducerProofs`, `IntroductionProofs`, `RelayProofs`, `BundlesProofs` | theorems and proofs |

### Replication

Each peer has its log, the three sync maps, an inbox of queue tasks per other
peer, and the handler it is in the middle of.

| Code | Action |
|---|---|
| `_sayHello` 99-102 | `HandleJoin`, then `SendHeads` |
| HELLO 167-177 | `HandleHello` (since), `SendChunked`, `ReadHeads`, `SendHeads` |
| HELLO_ACK 179-183 | `HandleHello`, `SendChunked` |
| EVENTS 185-190 | `HandleEvents` |
| ACK 192-195, `_advanceChunkQueue` 145-161 | `HandleAck` with `AdvanceChunkQueue` |
| `_sendChunked`, `_sendChunk` 118-136 | `SendChunked` |
| `publish` 198-201, the application's append | `Publish`, `AppendOwn` |
| `start`, `stop` 79-97 | `Start`, `Stop` |
| a channel opens, breaks, loses what is in flight | `Connect`, `Disconnect`, `Lose` |

The choices made:

- A handler is split where it awaits between reading the log and acting on
  what it read, for there the application can append. The awaits of `send` and
  `broadcast` are not split: both transports hand the bytes over synchronously.
  `appendMany` is one step too, though it appends event by event: the peer's
  own handlers cannot see the log half way, and what the application adds at
  that moment commutes with it.
- `Sent` puts a message into the receiver's inbox at once. A channel keeps its
  order, so what is in flight and what is on the queue need not be told
  apart until the channel breaks: `Lose` then drops messages from the newest,
  any number of them, down to the last JOIN.
- `Connect` opens both ends at once. Anything one end does before the other end
  opens would only be sent into a channel that buffers it.
- A channel opens whether the replicators at its ends run or not:
  `WebrtcTransport.connect()` does nothing (webrtc-transport.js:84) and `onopen`
  (107-110) asks nobody. Only a running replicator hears of it (JOIN), and
  `start()` (79-88) greets nobody who is connected already. The history variable
  `unattended` holds the links that opened while an end was stopped.
- A message to a stopped replicator finds no handler and is gone: `Sent` drops it.
  It is taken to arrive at once; one that is still in flight when the replicator
  starts again is left out (section 7).
- `Thrown` lets an application callback throw in the peers of `Throwing`. After
  a throw the rest of the handler is skipped and the queue goes on (line 82).
- All peers replicate one domain: a message of another domain changes nothing
  (line 165).
- `Own[p]` are the events that p's application has. It may append them
  (`AppendOwn`), pass any set of them to `publish` (`Publish`), or both in either
  order: `publish` does not ask whether they are in the log, and
  test/replicator.test.mjs:135-140 publishes one that is not. Each event is
  published once at most, which is a bound.
- `Start` after `Stop` waits until the old promise queue is empty. The code does
  not wait, and would run two queues at a time; see section 7.
- An onSync callback that throws after the ACK is sent (line 189) skips nothing
  and is left out.

### TopologicalOrder

A state machine with the variables of the function: `Take` and `Skip` are the
two outcomes of the inner loop's body, `Return` the concatenation at the end.
The initial states are all subsets of the events in all orders, since
`since()` promises none. `SlicesAreChunking` ties it to `Chunking`, so that
`Replication` may take the result in one step.

### Archive

A PUT is `Receive` (clock and rate limiter, lines 87-88), a wait for body and
verification, and `Store` (98-109, no await) or `Refuse`; anything may
happen in between. `Store` compares with what it could read: `Known` is the file,
or nothing, when there is none or when reading or parsing it fails (line 102). Of a
wallet of which nothing was read, any backup is new (103), takes the `Room` of one
more wallet (104), and is counted (108). The history variable `blind` holds the
PUTs that replaced a file without having read it. The file is replaced by a
rename, so a crash leaves the old or the new one. `Crash` drops running requests, the count and the limiter;
`Restart` counts the files. `PushToNodes` sends one PUT to each node; an answer
may come (`Answer`) or the call gives up (`GiveUp`), whatever the PUT still does.
`FetchFromNodes` asks every node, `AnswerFetch` takes the file at that moment or
fails, `FetchDone` returns `Best`. A GET of a file that is there and cannot be read
ends the process (`FetchCrashes`): line 83 has sent the head of the answer, so the
500 of line 113 throws outside of any handler. A backup is its wallet and the signed time of
its checkpoint; a backup that does not verify is `Refuse`. Nodes share one
clock; a wallet's own clock may be ahead of it by more than the allowance.

### WebrtcTransport and Introducer

An attempt is one offer and what comes of it: at most one `RTCPeerConnection`
at each of its two ends, whose stage `pc` records. A session of the Introducer
is one call of `requestIntroduction`; the attempt it makes has its name.

| Code | Action or operator |
|---|---|
| `createOfferFor` 129-138 | `CreateOffer`, `Offered` |
| `acceptOffer` 146-158 | `AcceptOffer`, `Answered` |
| `completeConnection` 161-167 | `CompleteConnection` |
| `_wireChannel` 105-116, `ondatachannel` | `OnDataChannel`, `OnOpen`, `OnClose` |
| `_closeLink` 118-126, `disconnect` 85-87 | `CloseLinks`, `Disconnect` |
| `send` 93-96 | `Sent` |
| people who copy the two blobs | `Carry` |
| `requestIntroduction` 67-72 | `RequestIntroduction` |
| INTRO_REQUEST 78-89 | `HandleRequest`, `AssignAnswerer` |
| INTRO_ASSIGN 91-110 | `HandleAssign`, `OfferReady` |
| INTRO_RELAY 112-129, `_processRelay` 146-163 | `HandleRelay`, `ProcessRelay`, `AnswerReady` |
| INTRO_FAILED 131-143, `_fail` 165-169 | `HandleFailed`, `Fail` |
| `start`, `stop` 52-58 | `Start`, `Stop`, `Unheard` |

The choices made:

- Introducer handlers are not queued. One is split where it waits for
  candidates, for then any other handler and any channel event may run. Other
  awaits are of functions that hand bytes over at once, and end in the same
  turn of the event loop. The mediator's two sends are still two steps: a
  transport that delivers inside `send`, like the one of `introducer.test.mjs`,
  lets the first one be answered before the second is made.
- The wait for candidates ends by a timer at the latest, so `OfferReady` and
  `AnswerReady` need nothing from outside.
- `completeConnection` finds a pending link also while candidates are still gathered,
  once `setLocalDescription` has returned (135), and throws before that: in that stage
  it may do either (`CompletionThrows`).
- What browsers do is external: a connection opens when both descriptions are
  set, or never; a channel closes at one end when the other is closed, early or
  late; `close()` may still be followed by a close event (`lateClose`).
- A blob is "an offer" or "an answer" of its session. `completeConnection` takes
  the link that is in the table; with the answer of another attempt that
  connection is `crossed` and never opens.
- The candidate is any open peer that is not excluded, though the code takes the
  first of the set.
- A second `start()` without a `stop()` is left out, for it would subscribe the
  handler twice.

### Bundles

| Code | Action or operator |
|---|---|
| `publishBundle` 37-54 | `StoreFile`, `ReadHeads`, `StoreManifest`; `Crash` between any two |
| `readBundle`, `latestBundle`, `listBundlesByAuthor` 60-104 | `ReadBundle`, `LatestBundle`, `BundlesByAuthor` |
| `resolveFromBundle`, `createFetchHandler` 44-82 | `Lookup`, `ResolveFromBundle`, `Response`, `UrlPath` |
| the Replicator below | `Sync`, which does what `CausalGossip` promises |

A file's event is named by domain, author and content, for it is signed with no
parents and no time: publishing the same file again gives the same event. The
parents of a manifest are known when it is signed, so `parents` is a variable.
`known` is a history variable: the publisher's log when it read the heads.
Calls of one author run at once, as the code lets them.

A path is the number of its leading slashes and a name. A request comes as the
path of a parsed URL (`UrlPath`, serve-worker.js:73-75), whose name is `Encoded`
and stays so, with a slash more when the scope ends without one. `Lookup` (49)
makes the empty path and `/` into `index.html` and else strips one slash;
`ResolveFromBundle` then looks for a file of exactly that path. A file that a URL
can name by its own path is `Plain`. The paths of one bundle are distinct: of a
path given twice the code keeps the last. Left out are names that every object
inherits (`constructor`, `__proto__`), of which `bundle.files[relPath]` finds something
that is no file, and requests outside of the scope.

## 3. The runs

| Run | Instance | What it shows |
|---|---|---|
| `sync_static` | 2 peers, 4 events in a diamond, every pair of parent-closed logs | `Settles`, `Converges`, `ReleasedOnlyWhenHandled`, `OutstandingChunkAppendable`: without breaks the exchange ends and both logs are equal |
| `sync_drops` | 2 peers that diverged, or one new; 1 break, 1 stop, after which links may open before the start; callbacks of B may throw | `SyncStateConsistent`, `SettledSyncedOrStuck`, `ReleasedOnlyWhenStored`, `OutstandingChunkAppendable`, `TypeOK` |
| `sync_live` | 2 peers, both append and publish events of their own, in either order or only one of both, while they sync; 1 break | `MessagesTrue`, `ImplementsCausalGossip`, `ReleasedOnlyWhenStored`, `OutstandingChunkAppendable` |
| `sync_three` | 3 peers with different logs | `SyncStateConsistent`, `ReleasedOnlyWhenHandled`: the syncs of one replicator do not mix |
| `sync_reconnect` | 2 peers, 1 break | expected violation of `ReconnectedCatchesUp` (section 5) |
| `sync_publish` | 2 peers, one has events of its own | expected violation of `ReleasedOnlyWhenHandled` (section 5) |
| `topological_order` | every subset of 5 events in every order, chunks of 2 | `OrderedParentsFirst`, `NothingUnresolvable`, `SlicesAreChunking`, `Terminates` |
| `archive_server` | 1 node that keeps 1 wallet, 2 wallets behind one address, 3 pushes, 3 times, 1 crash; a file may fail to be read at any time | `NoRollback`, `AckedIsHeld`, `CountIsRight`, `NotFromTheFuture`, `RateIsBounded` |
| `archive_recovery` | 2 nodes, 1 wallet, 2 pushes with one of three dates, 1 recovery, 1 crash, also by a GET of an unreadable file | `RecoversWhatWasAcked`, `TypeOK` |
| `introductions` | a star of 3 peers: A and B ask M for each other at once; A may leave or stop once and reconnect by hand; the browser may refuse one session a description | `OpenPeersAreLinked`, `ConnectedIsLinked`, `AtMostOneConnection`, `BufferedIsAwaited`, `ImplementsIntroduction`, `RequestsSettle`, `TypeOK` |
| `bundles` | 2 peers; one author publishes two versions that share a file and another application, the other a competing version with its own `index.html`; one file has a name that a URL encodes; one call may crash | `VisibleIsComplete`, `OverAllKnown`, `ServedUntilReplaced`, `NeverPicksSilently`, `HistoryHasNoGaps`, `TypeOK` |
| `bundles_hidden` | the same | expected violation of `NullOnlyIfUnpublished` (section 5) |

Bounds, and why they are enough:

- `ChunkSize = 1` in the replication runs makes every sync of two events a
  sync of two chunks: first chunk, queued chunk and end of queue all occur.
  Chunks of 2, with a last chunk that is full or not, are in
  `topological_order`.
- `MaxDrops`, `MaxRestarts`: one break at any point, with its reconnection,
  reaches each stale piece of state (flag, queued chunks, late ACK, late HELLO);
  a second one adds no new kind of state. The theorems need no bound.
- Diamonds and forks: the smallest DAGs in which a set of events has several
  orders, and in which two ends lack something of each other.
- Archive: three PUTs, since a rollback needs an old and a new one and the
  limiter (two per minute) a third; one place for two wallets, so that the
  limit of wallets is met; dates up to one past what a node accepts. Any
  read of a file may fail, so several in a row occur as well. `archive_recovery`
  has no ticks: a PUT's date is free of the clock, and what a date does against the
  clock is in `archive_server`.
  `Push`, `MaxTime`, `MaxCrashes` are bounds of the model only. The nodes and
  the pushes are interchangeable, so these runs use symmetry; they check no
  liveness.
- Introductions: three peers are the least that an introduction takes. That both
  ask makes the two offers cross; `MayFail` makes one of them end in a failure
  that the mediator passes on. `Leavers`, `MaxLeaves` bound the calls of
  `disconnect()` and `stop()`, `ByHand`, `Carriers` who reconnects afterwards: one
  departure at any point, with a reconnection while closings of the old
  channel are still to come, reaches every stale table entry.
- Bundles: two authors for a fork, a second version for a replacement, a second
  domain for what hides a version, a shared file for one event in two
  manifests; two texts of `index.html`, so that an answer can be of the wrong
  version, and a file that is not `Plain`. `Crashing` names the call that may stop half
  way. The theorems need none of these bounds.

`CHECK_DEADLOCK FALSE` throughout: two peers that have synced, a sort that has
returned, wallets that have made all their calls, requests that are settled and
bundles that every peer has really stop.

## 4. Fairness and liveness

`FairSpec` assumes weak fairness of each peer's promise queue: as long as a task
is on it, or a handler is half done, it goes on. That is what the event loop
gives; no message in an open channel stays undelivered for ever. Nothing is
assumed of the application (it may never publish) or of connections (they may
never open, break or come back). `Settles` and `Converges` hold under that
alone. `TopologicalOrder` assumes that a running function goes on. `Archive`
claims no liveness: `GiveUp` may or may not happen, a crashed node need not
restart. `Bundles` claims none either: a publisher may stop, a log need not sync.

`Introducer` assumes that some handler goes on as long as one can: bytes in an
open channel arrive, and the wait for candidates ends by its timer
(webrtc-transport.js:56). That a connection ever opens is not assumed, nor
anything about who leaves or comes back. `RequestsSettle` says nothing once
somebody has left or stopped: there is no timeout, and a promise whose mediator is
gone stays pending.

## 5. Where code and documentation disagree

- `sync_reconnect`: README.md:417-418 says that a momentarily disconnected peer
  gets no next chunk "until it catches up". When the connection breaks while
  a chunk or its ACK is in flight, it never does: `_syncInFlight` (line 124)
  still holds the peer, the ACK that would clear it is lost, and every later
  HELLO is answered with nothing. Only `stop()` clears it. There is a second way to
  stay behind: a link that opens while a replicator is stopped, such as an
  accepted offer that survives `disconnect()` (below), gets no HELLO from that
  replicator, then or when it starts, and the HELLO of the other end is not
  heard. `SettledSyncedOrStuck` shows that, without publishing, there is no third.
- `sync_publish`: the comment at lines 139-144 and the test at
  `test/replicator.test.mjs:120` say that the ACK of a published event never
  advances a chunk queue. ACKs are told apart by ids alone: when an
  application publishes an event that a HELLO handled meanwhile has found
  missing too, the same ids travel twice, and the first ACK ends the sync
  or releases the next chunk while the second copy is in flight. What holds,
  and is proved, is `ReleasedOnlyWhenStored`: the events of the chunk are
  stored by then. A restart has the same effect: a chunk sent before `stop()`
  may be in transit when the new sync sends it again. With neither, the claim
  of the comment is proved (`OneChunkAtATime`).
- `bundles_hidden`: bundle.js:79 says that `latestBundle` gives null "if none has
  been published yet". Parents of a manifest are the heads of the whole log
  (line 45), not only "the domain's own prior heads" (lines 22-24): a manifest of
  another domain published on top takes the version from the heads,
  `latestBundle` gives null and the service worker 404. `NeverPicksSilently` and
  `ServedUntilReplaced` say what holds all the same.

Met while modelling, and not made into runs:

- archive-server.js:9 says that a node "keeps the most recent one per domain", and
  archive.test.mjs:87 that an old backup "does not roll the wallet back". When the
  file cannot be read or parsed (line 102), any backup replaces it; the wallet is
  counted a second time (108), so that the node takes fewer than `maxDomains`
  until it restarts; and at the limit a wallet that is held gets a 507 (104). A
  GET of such a file ends the process (83-84, 113). `NoRollback`, `AckedIsHeld` and
  `RecoversWhatWasAcked` say what holds of files that are read, `CountIsRight` how far
  the count drifts.
- serve-worker.js:49 and 73-75 look a file up by the path of the parsed URL, which is
  percent-encoded, less one slash. A published file with a space or a letter
  outside ASCII in its path, or with a leading slash, is answered 404, the answer
  for a file "not published (yet)" (line 42). `ServedUntilReplaced` is about `Plain` paths.
- introducer.js:62-63 says that `requestIntroduction` resolves "once a genuinely
  direct connection is established"; it resolves when the answer is set (line 155),
  before the channel opens, and `send` to that peer does nothing until then.
  `Introduction` states what a resolved promise does mean: the other peer
  accepted the offer.
- `test/webrtc-transport.test.mjs:198` is titled "disconnect() closes every real link,
  pending and open, and clears all state". An accepted offer whose channel is not announced
  yet is in no table, so it survives the call and joins later; a pending offer
  that `ondatachannel` replaces (line 152) is never closed.

## 6. The proofs

All are checked by `tlapm`, for every value of the constants that satisfies the
named assumptions: events are finitely many (`EventAssumption`), parents are
events and acyclic (`ParentsAssumption`, `AcyclicAssumption`: ids are hashes over
parents), chunks are not empty (`ChunkSizeAssumption`), and replicators start
from parent-closed logs (`InitLogsAssumption`).

`ReplicationProofs`, about `Spec`, so without fairness:

- `TypeCorrect` is inductive by itself, with `ChunkingsType` for the one
  action that cuts chunks.
- `MessagesStayTrue`, `ChunksStayAppendable`, `SyncStateStaysConsistent` follow
  from the invariant `IInv`. `OutstandingChunkAppendable` is not inductive: a
  chunk is cut from a missing set that was computed from announced heads, so
  the heads in a message must be events of its sender (`MessagesTrue`, and
  `WorkTrue` for those not sent yet), logs must be closed under parents
  (`LogsClosed`), and the missing set a handler carries must be one whose
  outside parents the peer holds (`MissingSendable`; lemma `SinceParents`: the
  parent of an event that `since` lists is listed, or reachable from the
  heads that the peer announced). Of an EVENTS message `MessagesTrue` can say only
  that its events are in the sender's log or its application's own, since
  `publish` sends any (`UnpublishedOwn`). ACKs need `OutstandingTrue`.
- `Backpressure`: a step that leaves a chunk behind handles an ACK with the
  same ids, and by `MessagesTrue` the acknowledging peer has stored them.
- `Implementation`: every step maps to `CausalGossip`'s `AppendOwn` or `Gossip` or
  leaves the logs alone. `HandleEvents` is `Gossip`, because the events are
  the sender's or its application's (`MessagesTrue`) and `appendMany` keeps logs closed
  (`AppendableClosed`).

`ExchangeProofs`, about replicators whose applications have no events to append or
publish (`Silent`: every `Own[p]` is empty):

- `NothingIsForgotten`, for two peers (`AtMostTwo`) and whatever connections break,
  callbacks throw and replicators restart. Where events are still made, or a
  third peer brings them, being behind until the next HELLO is what the code
  does: it passes nothing on. The invariant (`ExchangeInv`) follows how p finds out
  what q lacks: JOIN at q, q's heads about to be sent, the HELLO on its way to p,
  the missing set computed of it (`FoundOut`: as long as q lacks something, p has
  one of these or a sync). The set covers what q lacks when it is computed
  (`SinceCovers`: what `since` leaves out is below heads that q announced, and
  q's log is closed under parents), and still does after the awaits, because
  with two silent peers p's log has gained only what q has (`MissingCovers`). All this is
  about links that opened with both replicators running (`Attended`), and at the
  ends of these both still run, because `stop()` closes its links (`AttendedRun`); of
  the others nothing is claimed. Chunks in flight or
  queued cover it until they are acknowledged (`SyncCovers`, with
  `MessagesTrue` for the acknowledged one). A broken connection takes the first link
  away, and its return brings it back.
- `OneChunkAtATime`, for any number of peers and breaks, without restarts
  (`MaxRestarts = 0`). The hypotheses are needed: TLC violates
  the property with publishing (`sync_publish`) and with a restart. The invariant (`OneChunkInv`):
  between two peers there is one chunk in transit at most, or its ACK and no chunk,
  and it is the awaited one. A sync starts only when there is none
  (`_syncInFlight`), a broken connection only takes messages away, and
  nothing but `stop()` would make a replicator forget what it awaits.

`TopologicalOrderProofs`:

- `OutputParentsFirst` and `NoCycleBranch`, the latter with a loop invariant
  (`LoopInv`: in a pass without progress, whatever was looked at is not ready) and
  acyclicity for the event that must be ready.
- `SlicingIsChunking`: the slices are the chunks that `Replication` takes them to be.
  Output and rest are together as long as the batch has events (`CountInv`), and at
  the end nothing is left over, so the output names each event once. What
  remains is arithmetic: the bounds of the slices (`SliceBounds`) partition the
  positions, and each slice has as many events as positions (`SliceCardinality`).

`ArchiveProofs`, about any nodes, wallets, calls and limits
(`ArchiveAssumption`: finitely many wallets, at least one; limits are numbers):

- `TypeCorrect` is inductive by itself.
- `RateStaysBounded`: of the PUTs of an address that a node let through, any minute
  holds at most `WritesPerMinute`. By induction over the steps: when a PUT is let
  through, all PUTs of the minute before it are still in the limiter's memory
  (`NothingForgotten`: what the memory drops is older than a minute, and the clock
  never goes back), each with an entry of its own, so they are no more than
  the entries counted (`AdmittedAreRecent`, an injection). `TimedOnArrival` says that
  no PUT was let through in the future. The memory is a set of calls with
  their times: two writes at one time are two entries, as in the array.
- `NeverRollsBack`: the only step that writes a file is `Store`, which compares with
  what it read in the same step. A file that gets older was not read, and then the
  PUT is new to `blind`: a PUT is stored once (`PutInv`, lemma `FilesGrow`).
- `CountStaysRight` needs `ServedWhenUp` (only a running server is reading a
  body), or a file could be added that nobody counts. The count is at least the
  number of files, and ahead of it by the PUTs in `blind` at most: each of them
  adds one to both.
- `AcknowledgedIsKept` follows from `OkMeansHeld`: each answer 200, delivered or
  not, stands for a file at least as new, unless a PUT of that wallet is in
  `blind`. `RecoveryIsUpToDate` adds
  `FetchSound`: nodes still to answer hold what they acknowledged, and
  those that answered have said so.
- `NeverFromTheFuture` needs `ArrivedBefore`: the time a PUT took on arrival is not
  ahead of the clock.

`IntroducerProofs`, about any peers, attempts and sessions (`AttemptAssumption`:
at first a pair of peers has one connection or none; `SessionAssumption`: a
session is no attempt by hand, and nobody asks itself for an introduction):

- `NoConnectionIsLost` is the heart: `ondatachannel` puts its channel into the table
  whatever is there, so what it replaces must not be connected. It needs
  `AnswererIsFree`: while an offer is in its maker's table and the other end has
  accepted it, the other end's table has nothing for the maker, or an offer that
  the maker has not accepted and cannot accept as long as its own is there.
  With it go the stages that each end can be in (`EndsHold`) and what a table
  can hold (`TableTrue`, `LateCloseTrue`).
- `OpenIsLinked` is part of the same invariant; `OneConnection` follows, because
  two open connections would both have to be in one place of a table.
- `completeConnection` sets an answer on whatever is in the table, so it must be
  known that the answer of a session was made by the peer that its offer was made
  for. That is the part about sessions (`SessionInv`): there is a choice of one
  peer per session with which all roles, assignments, blobs and offers agree.
  The choice is made once, because the request of a session is in transit at most
  once (`OneRequest`).
- The choice is a bound variable of the invariant and not a variable of the
  model: the mediator forgets whom it picked when a failure passes.

`IntroductionProofs`: `Implementation`, the Introducers implement `Introduction`. A
step that accepts an offer must find its promise pending, and nothing at
the answering end can know: the promise is at another peer, and a
failure may be on its way to it. The invariant (`OffersInv`) follows what can still lead to an
accepted offer, the tokens of a session: its request, the offerer's assignment,
the call of `createOfferFor`, the offer on its way to the mediator, then to the
other peer, then in its buffer. There is one token at most, each is where the
next one is made of it (`TokenTrue`: the mediator still knows whom the offer is for,
or it would take the offer for its own and buffer it), and as long as
there is one the promise is pending, the offer not accepted and no failure
on its way. So whoever reports a failure has taken the token first
(`FailOffer`), or there is none any more (`DeadOffer`). The steps for one session leave the
others alone (`OthersStep`), and lost messages only take tokens away (`ApartStep`).

`RelayProofs`: `BufferedAwaitsRole`, a relay that overtook its assignment is processed
once. It is about the time in which nobody leaves or stops, as the property is:
afterwards an assignment may be lost, and a buffered relay stays. The invariant
(`CalmInv`) is on top of `OffersInv`:

- As long as nobody leaves, no channel closes and everybody listens (`Calm`), so
  nothing in transit is lost. This holds of connections by hand too: there is no
  close event without a `disconnect` (`NoClose`).
- `DueTrue`: as long as an offer may be accepted, the peer that the mediator
  picked has its assignment due, or its role; the offerer has its role.
- What could break this is a message that takes a role away too early, or is
  buffered at a peer that will get no assignment. A failure comes only when no token is
  left (from `OffersInv`). An answer is made once, after the token is gone
  (`AnswerInv`), and while it is on its way the mediator still mediates and the offerer
  still has its role; so it is forwarded and completed, and never buffered.
- `RestTrue`: the peer picked is one the mediator can send to when it makes the
  second send, and whatever is buffered is an offer.

`BundlesProofs`, about any peers, authors, domains and files and finitely many
calls (`CallAssumption`, which also says that calls and files have different names and
that the paths of one bundle are distinct; `PathAssumption` types paths and
`Encoded`, about which nothing else is assumed):

- The inductive invariant `IInv`: logs are closed under parents (`LogsClosed`),
  files have none (`FilesAreBare`), a manifest that is not stored yet is named
  by nobody (`UnpublishedIsUnseen`), a call's files and heads are in its author's
  log (`FilesAreStored`, `HeadsAreThoseRead`), a stored manifest names both
  (`ManifestsNameAll`), and `Acyclic`: every set of events has one that none
  of them names. The last is kept because a new manifest is named by nobody,
  so it needs no induction over the graph.
- `BundlesAreWhole` follows from `LogsClosed` and `ManifestsNameAll`.
  `ReplacesAllKnown` and `HistoryIsComplete` rest on the lemma `KnownIsBelow`: a
  parent-closed set with the manifest in it holds all that the log held when
  the heads were read. Of the events it lacked, one would be named by none of the
  others (`Acyclic`); it is no head, so an event that the set holds names it,
  and the set is not closed.
- `ServedMeanwhile` and `NothingIsPickedSilently` add what `LatestBundle` makes of the
  manifests among the heads. For the former, a version that no manifest names is
  the one head of its domain, or there is a competing one (lemma `CurrentOrForked`),
  and of a bundle that is found, each request for a `Plain` file finds that file and
  no other (lemma `PlainIsFound`). The latter uses `Acyclic` again, for a head of the log
  above the competing version.

Only model-checked: everything with fairness (`Settles`, `Converges`,
`Terminates`, `RequestsSettle`), which the prover does not reach. Every other
property of a passing run is a theorem; `SettledSyncedOrStuck` and
`ReleasedOnlyWhenHandled` under the hypotheses above, which the runs that check them
satisfy, and `BufferedIsAwaited` under its own.

## 7. Not modelled

- A second `start()` while the old queue still runs (line 80).
- A message that was sent to a stopped replicator and is still in flight when it
  starts again: the model loses it at once, the code would handle it.
- The loss of a published event whose parent is still queued for that peer: the
  model does it (the receiver refuses the event, and only the next HELLO brings
  it), and no property says otherwise, since the code promises nothing.
- Signatures, hashing, JSON and text: an event is a model value, a checkpoint
  verifies or not. HTTP headers, CORS, status texts, `normalizeNodeUrl`.
- The timer of `request` covers headers only (archive.js:31): a call that waits
  for a body for ever is a call without `Answer` or `GiveUp`.
- Two archive processes on one directory.
- Capabilities and the guarded stores: a list of grants and a membership test
  before each commit, without a wait. The `DataStore` below them and the moment it
  applies an event belong to `aiwa-core`. The same holds of `GraphStore`, a pure
  fold over events whose order `DataStore` decides.
- A second `start()` of an Introducer that is running.
- The page served from two versions, when one arrives between two of its requests
  (serve-worker.js:47): the code promises nothing of a page.
- Signaling codec, CLI and index: conversions, process I/O and re-exports.

## 8. Plan

Built, in this order: `EventLog`, `Chunking`, `Replication` with `CausalGossip`;
`ReplicationProofs` and `ExchangeProofs`; `TopologicalOrder` with its proofs; `Archive` with its
proofs; `WebrtcTransport` and `Introducer` with `Introduction` and their proofs;
`Bundles` over `EventGraph`, with its proofs.

Next:

1. A variant of `Start` with two promise queues, and of the Introducer's.
2. The guard and the graph fold, should `DataStore` become part of the repository.

## 9. Running it

    tlc -config SyncDrops.cfg MCReplication.tla      (each run: its cfg and module)
    tlapm ReplicationProofs.tla
    tlapm ExchangeProofs.tla
    tlapm TopologicalOrderProofs.tla
    tlapm ArchiveProofs.tla
    tlapm IntroducerProofs.tla
    tlapm IntroductionProofs.tla
    tlapm RelayProofs.tla
    tlapm BundlesProofs.tla
