----------------------------- MODULE Replication -----------------------------
(***************************************************************************)
(* The Replicator class (replicator.js) of every peer, over a transport    *)
(* that delivers in order per connection and loses what is in flight when  *)
(* the connection goes (the contract of transport.js:7-12, which both      *)
(* LoopbackTransport and WebrtcTransport implement).                       *)
(*                                                                         *)
(* Every replicator runs its handlers one at a time on a promise queue     *)
(* (lines 79-86).  inbox[p][q] holds the tasks that q's messages and q's   *)
(* joining put on p's queue, those still in flight included; tasks of      *)
(* different peers reach the queue in any order.  A handler is split       *)
(* where it awaits between reading its log and acting on what it read:     *)
(* work[p] is the handler that is half done at p.                          *)
(***************************************************************************)
EXTENDS Chunking, Functions

CONSTANTS
  Peer,
  InitLogs,      \* the families of logs the peers may start from
  Throwing,      \* the peers whose onEvent/onSync callbacks may throw
  Own,           \* Own[p]: the events that p's application has, to append or to publish
  MaxDrops,      \* bound: how many times a connection may break
  MaxRestarts    \* bound: how many times a replicator may be stopped

ASSUME PeerAssumption == Throwing \subseteq Peer /\ Own \in [Peer -> SUBSET Event]
ASSUME BoundAssumption == MaxDrops \in Nat /\ MaxRestarts \in Nat
ASSUME InitLogsAssumption ==
  \A f \in InitLogs : /\ f \in [Peer -> SUBSET Event]
                      /\ \A p \in Peer : ParentClosed(f[p])

VARIABLES
  log,              \* log[p]: the events in p's EventLog
  unpublished,      \* unpublished[p]: those of Own[p] not passed to publish() yet (a bound)
  links,            \* the connections that are open, as two-element sets of peers
  inbox,            \* inbox[p][q]: tasks for p from q, oldest first
  work,             \* work[p]: what is left of the handler that p is running
  syncInFlight,     \* _syncInFlight of p, a set of peers
  pendingChunks,    \* _pendingChunks of p: the chunks queued for each peer (<<>>: no entry)
  lastSentChunkIds, \* _lastSentChunkIds of p: the chunk each peer should ACK ({}: no entry)
  running,          \* running[p]: p's replicator is started
  unattended,       \* the links that opened while an end was stopped (history)
  drops, restarts   \* how many broken connections and stops there were

syncVars == <<syncInFlight, pendingChunks, lastSentChunkIds>>
envVars  == <<links, running, unattended, drops, restarts>>
vars == <<log, unpublished, inbox, work, syncVars, envVars>>

MsgType == {"JOIN", "HELLO", "HELLO_ACK", "EVENTS", "ACK"}

\* JOIN is the onPeerJoin task; the rest are messages.  ids are the announced
\* heads, the events sent or the ids acknowledged.
Message == [type : MsgType, ids : SUBSET Event]

Inboxes == [Peer -> [Peer -> Seq(Message)]]

\* at = "sync": `missing` is computed, _sendChunked is next; "heads": the HELLO
\* handler has still to read its own heads; "send": the heads in ids were read
\* and wait to be sent in a message of this type.
Work == [at : {"idle", "sync", "heads", "send"}, peer : Peer, type : MsgType,
         ids : SUBSET Event]

Idle(p) == [at |-> "idle", peer |-> p, type |-> "JOIN", ids |-> {}]

Chunk == (SUBSET Event) \ {{}}

TypeOK ==
  /\ log \in [Peer -> SUBSET Event]
  /\ unpublished \in [Peer -> SUBSET Event]
  /\ links \in SUBSET (SUBSET Peer)
  /\ inbox \in Inboxes
  /\ work \in [Peer -> Work]
  /\ syncInFlight \in [Peer -> SUBSET Peer]
  /\ pendingChunks \in [Peer -> [Peer -> Seq(Chunk)]]
  /\ lastSentChunkIds \in [Peer -> [Peer -> SUBSET Event]]
  /\ running \in [Peer -> BOOLEAN]
  /\ unattended \in SUBSET links
  /\ drops \in 0..MaxDrops
  /\ restarts \in 0..MaxRestarts

Init ==
  /\ log \in InitLogs
  /\ unpublished = Own
  /\ links = {}
  /\ inbox = [p \in Peer |-> [q \in Peer |-> <<>>]]
  /\ work = [p \in Peer |-> Idle(p)]
  /\ syncInFlight = [p \in Peer |-> {}]
  /\ pendingChunks = [p \in Peer |-> [q \in Peer |-> <<>>]]
  /\ lastSentChunkIds = [p \in Peer |-> [q \in Peer |-> {}]]
  /\ running = [p \in Peer |-> TRUE]
  /\ unattended = {}
  /\ drops = 0
  /\ restarts = 0
-----------------------------------------------------------------------------
(* Sending and receiving.  To a peer it has no open channel with, a        *)
(* transport sends nothing and says nothing; at a peer whose replicator is *)
(* stopped, a message finds no handler (lines 81, 84 and 91-92).           *)

Linked(p, q) == {p, q} \in links

\* The inboxes after the task at the head of inbox[p][q] is taken off.
Taken(p, q) == [inbox EXCEPT ![p][q] = Tail(@)]

Hears(p, q) == Linked(p, q) /\ running[q]

\* box after p sends m to q.
Sent(box, p, q, m) ==
  IF Hears(p, q) THEN [box EXCEPT ![q][p] = Append(@, m)] ELSE box

\* p's queue runs the next task of q, which is of this type.
NextTask(p, q, type) ==
  /\ work[p].at = "idle"
  /\ inbox[p][q] # <<>>
  /\ Head(inbox[p][q]).type = type
-----------------------------------------------------------------------------
(* The handlers.                                                           *)

\* _sayHello: reads the heads; sending them is SendHeads.
HandleJoin(p, q) ==
  /\ NextTask(p, q, "JOIN")
  /\ inbox' = Taken(p, q)
  /\ work' = [work EXCEPT ![p] = [at |-> "send", peer |-> q, type |-> "HELLO",
                                  ids |-> Heads(log[p])]]
  /\ UNCHANGED <<log, unpublished, syncVars, envVars>>

\* HELLO and HELLO_ACK: collects what is missing at q; _sendChunked follows.
HandleHello(p, q) == \E type \in {"HELLO", "HELLO_ACK"} :
  /\ NextTask(p, q, type)
  /\ inbox' = Taken(p, q)
  /\ work' = [work EXCEPT ![p] = [at |-> "sync", peer |-> q, type |-> type,
                                  ids |-> Since(log[p], Head(inbox[p][q]).ids)]]
  /\ UNCHANGED <<log, unpublished, syncVars, envVars>>

\* Mutant: a HELLO_ACK is answered like a HELLO.
AlwaysAnswer(p) == [at |-> "heads", peer |-> work[p].peer, type |-> "HELLO", ids |-> {}]

\* What the handler does after _sendChunked: a HELLO is still to be answered.
AfterSync(p) ==
  IF work[p].type = "HELLO"
    THEN [at |-> "heads", peer |-> work[p].peer, type |-> "HELLO", ids |-> {}]
    ELSE Idle(p)

\* Mutant: _sendChunked without the _syncInFlight check.
SendChunkedAlways(p) ==
  LET q == work[p].peer IN
  /\ work[p].at = "sync"
  /\ work' = [work EXCEPT ![p] = AfterSync(p)]
  /\ IF work[p].ids = {}
       THEN UNCHANGED <<inbox, syncVars>>
       ELSE \E cs \in Chunkings(work[p].ids) :
              /\ syncInFlight' = [syncInFlight EXCEPT ![p] = @ \cup {q}]
              /\ pendingChunks' = [pendingChunks EXCEPT ![p][q] = Tail(cs)]
              /\ lastSentChunkIds' = [lastSentChunkIds EXCEPT ![p][q] = cs[1]]
              /\ inbox' = Sent(inbox, p, q, [type |-> "EVENTS", ids |-> cs[1]])
  /\ UNCHANGED <<log, unpublished, envVars>>

\* _sendChunked: nothing when nothing is missing or a sync with q is under
\* way, else sorts, slices, and sends the first chunk.
SendChunked(p) ==
  LET q == work[p].peer IN
  /\ work[p].at = "sync"
  /\ work' = [work EXCEPT ![p] = AfterSync(p)]
  /\ IF work[p].ids = {} \/ q \in syncInFlight[p]
       THEN UNCHANGED <<inbox, syncVars>>
       ELSE \E cs \in Chunkings(work[p].ids) :
              /\ syncInFlight' = [syncInFlight EXCEPT ![p] = @ \cup {q}]
              /\ pendingChunks' = [pendingChunks EXCEPT ![p][q] = Tail(cs)]
              /\ lastSentChunkIds' = [lastSentChunkIds EXCEPT ![p][q] = cs[1]]
              /\ inbox' = Sent(inbox, p, q, [type |-> "EVENTS", ids |-> cs[1]])
  /\ UNCHANGED <<log, unpublished, envVars>>

\* The HELLO handler reads its own heads, after the await on _sendChunked.
ReadHeads(p) ==
  /\ work[p].at = "heads"
  /\ work' = [work EXCEPT ![p] = [at |-> "send", peer |-> work[p].peer,
                                  type |-> "HELLO_ACK", ids |-> Heads(log[p])]]
  /\ UNCHANGED <<log, unpublished, inbox, syncVars, envVars>>

\* The heads that were read are sent, in a HELLO or a HELLO_ACK.
SendHeads(p) ==
  /\ work[p].at = "send"
  /\ inbox' = Sent(inbox, p, work[p].peer,
                   [type |-> work[p].type, ids |-> work[p].ids])
  /\ work' = [work EXCEPT ![p] = Idle(p)]
  /\ UNCHANGED <<log, unpublished, syncVars, envVars>>

\* A callback of the application may throw, and then the rest of the handler
\* is skipped (the queue logs the error and goes on with the next task).
Thrown(p) == IF p \in Throwing THEN BOOLEAN ELSE {FALSE}

\* Mutant: acknowledges the message even though appendMany threw.
HandleEventsAlwaysAck(p, q) ==
  LET ids == Head(inbox[p][q]).ids IN
  /\ NextTask(p, q, "EVENTS")
  /\ log' = [log EXCEPT ![p] = @ \cup Appendable(log[p], ids)]
  /\ inbox' = Sent(Taken(p, q), p, q, [type |-> "ACK", ids |-> ids])
  /\ UNCHANGED <<unpublished, work, syncVars, envVars>>

\* Mutant: stores the events without asking for their parents.
HandleEventsUnchecked(p, q) ==
  LET ids == Head(inbox[p][q]).ids IN
  /\ NextTask(p, q, "EVENTS")
  /\ log' = [log EXCEPT ![p] = @ \cup ids]
  /\ inbox' = Sent(Taken(p, q), p, q, [type |-> "ACK", ids |-> ids])
  /\ UNCHANGED <<unpublished, work, syncVars, envVars>>

\* EVENTS: appendMany stores what it can and throws if that was not all; the
\* ACK goes out only if neither it nor an onEvent callback threw.
HandleEvents(p, q) ==
  LET ids   == Head(inbox[p][q]).ids
      fresh == Appendable(log[p], ids) IN
  /\ NextTask(p, q, "EVENTS")
  /\ log' = [log EXCEPT ![p] = @ \cup fresh]
  /\ \E thrown \in Thrown(p) :
       inbox' = IF ids \subseteq fresh /\ ~thrown
                  THEN Sent(Taken(p, q), p, q, [type |-> "ACK", ids |-> ids])
                  ELSE Taken(p, q)
  /\ UNCHANGED <<unpublished, work, syncVars, envVars>>

\* Mutant: any ACK of the peer counts as progress of the sync.
AdvanceOnAnyAck(p, q, ackedIds) ==
  IF lastSentChunkIds[p][q] = {}
    THEN UNCHANGED <<inbox, syncVars>>
    ELSE IF pendingChunks[p][q] = <<>>
      THEN /\ syncInFlight' = [syncInFlight EXCEPT ![p] = @ \ {q}]
           /\ lastSentChunkIds' = [lastSentChunkIds EXCEPT ![p][q] = {}]
           /\ UNCHANGED pendingChunks
           /\ inbox' = Taken(p, q)
      ELSE LET next == Head(pendingChunks[p][q]) IN
           /\ pendingChunks' = [pendingChunks EXCEPT ![p][q] = Tail(@)]
           /\ lastSentChunkIds' = [lastSentChunkIds EXCEPT ![p][q] = next]
           /\ inbox' = Sent(Taken(p, q), p, q, [type |-> "EVENTS", ids |-> next])
           /\ UNCHANGED syncInFlight

\* Mutant: the end of one peer's sync clears the whole _syncInFlight.
AdvanceClearingAll(p, q, ackedIds) ==
  IF lastSentChunkIds[p][q] = {} \/ ackedIds # lastSentChunkIds[p][q]
    THEN inbox' = Taken(p, q) /\ UNCHANGED syncVars
    ELSE IF pendingChunks[p][q] = <<>>
      THEN /\ syncInFlight' = [syncInFlight EXCEPT ![p] = {}]
           /\ lastSentChunkIds' = [lastSentChunkIds EXCEPT ![p][q] = {}]
           /\ inbox' = Taken(p, q)
           /\ UNCHANGED pendingChunks
      ELSE LET next == Head(pendingChunks[p][q]) IN
           /\ pendingChunks' = [pendingChunks EXCEPT ![p][q] = Tail(@)]
           /\ lastSentChunkIds' = [lastSentChunkIds EXCEPT ![p][q] = next]
           /\ inbox' = Sent(Taken(p, q), p, q, [type |-> "EVENTS", ids |-> next])
           /\ UNCHANGED syncInFlight

\* _advanceChunkQueue: only the ACK of exactly the awaited chunk releases the
\* next one, or ends the sync.
AdvanceChunkQueue(p, q, ackedIds) ==
  IF lastSentChunkIds[p][q] = {} \/ ackedIds # lastSentChunkIds[p][q]
    THEN inbox' = Taken(p, q) /\ UNCHANGED syncVars
    ELSE IF pendingChunks[p][q] = <<>>
      THEN /\ syncInFlight' = [syncInFlight EXCEPT ![p] = @ \ {q}]
           /\ lastSentChunkIds' = [lastSentChunkIds EXCEPT ![p][q] = {}]
           /\ inbox' = Taken(p, q)
           /\ UNCHANGED pendingChunks
      ELSE LET next == Head(pendingChunks[p][q]) IN
           /\ pendingChunks' = [pendingChunks EXCEPT ![p][q] = Tail(@)]
           /\ lastSentChunkIds' = [lastSentChunkIds EXCEPT ![p][q] = next]
           /\ inbox' = Sent(Taken(p, q), p, q, [type |-> "EVENTS", ids |-> next])
           /\ UNCHANGED syncInFlight

\* ACK: unless an onSync callback throws first, the chunk queue advances.
HandleAck(p, q) ==
  /\ NextTask(p, q, "ACK")
  /\ \E thrown \in Thrown(p) :
       IF thrown THEN inbox' = Taken(p, q) /\ UNCHANGED syncVars
                 ELSE AdvanceChunkQueue(p, q, Head(inbox[p][q]).ids)
  /\ UNCHANGED <<log, unpublished, work, envVars>>
-----------------------------------------------------------------------------
(* The application.                                                        *)

\* The application appends one of its events to the log.
AppendOwn(p, e) ==
  /\ e \in Own[p] \ log[p]
  /\ Parents[e] \subseteq log[p]
  /\ log' = [log EXCEPT ![p] = @ \cup {e}]
  /\ UNCHANGED <<unpublished, inbox, work, syncVars, envVars>>

\* publish(S): one EVENTS message to every connected peer, whether the events
\* are in the log of the publisher or not.
Publish(p, S) ==
  /\ S # {}
  /\ unpublished' = [unpublished EXCEPT ![p] = @ \ S]
  /\ inbox' = [q \in Peer |->
       IF Hears(p, q)
         THEN [inbox[q] EXCEPT ![p] = Append(@, [type |-> "EVENTS", ids |-> S])]
         ELSE inbox[q]]
  /\ UNCHANGED <<log, work, syncVars, envVars>>
-----------------------------------------------------------------------------
(* Connections and stopping.                                               *)

\* A channel opens, and onPeerJoin fires at both ends; an end whose replicator is
\* stopped does not hear of it, and start() greets nobody (lines 79-88).  Whatever
\* p does between its own end opening and q's could as well happen before or after.
Connect(p, q) ==
  LET joined(a, b) == IF running[a] THEN Append(inbox[a][b], [type |-> "JOIN", ids |-> {}])
                                    ELSE inbox[a][b] IN
  /\ p # q /\ ~Linked(p, q)
  /\ links' = links \cup {{p, q}}
  /\ unattended' = IF running[p] /\ running[q] THEN unattended
                                              ELSE unattended \cup {{p, q}}
  /\ inbox' = [inbox EXCEPT ![p][q] = joined(p, q), ![q][p] = joined(q, p)]
  /\ UNCHANGED <<log, unpublished, work, syncVars, running, drops, restarts>>

\* The channel breaks.  Nobody tells the replicator: it registers for no
\* onPeerLeave, so its state for that peer stays.
Disconnect(p, q) ==
  /\ p # q /\ Linked(p, q)
  /\ drops < MaxDrops
  /\ drops' = drops + 1
  /\ links' = links \ {{p, q}}
  /\ unattended' = unattended \ {{p, q}}
  /\ UNCHANGED <<log, unpublished, inbox, work, syncVars, running, restarts>>

\* What was still in flight when the channel broke is gone, newest first: a
\* JOIN and the messages before it were on p's queue already.
Lose(p, q) ==
  LET box == inbox[p][q] IN
  /\ ~Linked(p, q)
  /\ box # <<>> /\ box[Len(box)].type # "JOIN"
  /\ inbox' = [inbox EXCEPT ![p][q] = SubSeq(@, 1, Len(@) - 1)]
  /\ UNCHANGED <<log, unpublished, work, syncVars, envVars>>

\* Mutant: stop() leaves _syncInFlight as it is.
StopKeepingFlags(p) ==
  /\ running[p]
  /\ restarts < MaxRestarts
  /\ restarts' = restarts + 1
  /\ running' = [running EXCEPT ![p] = FALSE]
  /\ links' = {l \in links : p \notin l}
  /\ unattended' = {l \in unattended : p \notin l}
  /\ pendingChunks' = [pendingChunks EXCEPT ![p] = [q \in Peer |-> <<>>]]
  /\ lastSentChunkIds' = [lastSentChunkIds EXCEPT ![p] = [q \in Peer |-> {}]]
  /\ UNCHANGED <<log, unpublished, inbox, work, syncInFlight, drops>>

\* stop(): unsubscribes, closes every connection, forgets every sync.  The
\* tasks on the queue still run, and may put sync state back.
Stop(p) ==
  /\ running[p]
  /\ restarts < MaxRestarts
  /\ restarts' = restarts + 1
  /\ running' = [running EXCEPT ![p] = FALSE]
  /\ links' = {l \in links : p \notin l}
  /\ unattended' = {l \in unattended : p \notin l}
  /\ syncInFlight' = [syncInFlight EXCEPT ![p] = {}]
  /\ pendingChunks' = [pendingChunks EXCEPT ![p] = [q \in Peer |-> <<>>]]
  /\ lastSentChunkIds' = [lastSentChunkIds EXCEPT ![p] = [q \in Peer |-> {}]]
  /\ UNCHANGED <<log, unpublished, inbox, work, drops>>

\* start() again, once the old queue has drained (start() makes a new queue
\* and would otherwise run two handlers at a time, which is not modelled).
Start(p) ==
  /\ ~running[p]
  /\ work[p].at = "idle"
  /\ \A q \in Peer : inbox[p][q] = <<>>
  /\ running' = [running EXCEPT ![p] = TRUE]
  /\ UNCHANGED <<log, unpublished, links, unattended, inbox, work, syncVars, drops, restarts>>
-----------------------------------------------------------------------------
\* A step of p's promise queue.
Handler(p) ==
  \/ \E q \in Peer :
       \/ HandleJoin(p, q)
       \/ HandleHello(p, q)
       \/ HandleEvents(p, q)
       \/ HandleAck(p, q)
  \/ SendChunked(p)
  \/ ReadHeads(p)
  \/ SendHeads(p)

Application(p) ==
  \/ \E e \in Event : AppendOwn(p, e)
  \/ \E S \in SUBSET unpublished[p] : Publish(p, S)

Environment(p) ==
  \/ \E q \in Peer : Connect(p, q) \/ Disconnect(p, q) \/ Lose(p, q)
  \/ Stop(p)
  \/ Start(p)

Next == \E p \in Peer : Handler(p) \/ Application(p) \/ Environment(p)

Spec == Init /\ [][Next]_vars

\* A promise queue goes on as long as it holds a task.
Fairness == \A p \in Peer : WF_vars(Handler(p))

FairSpec == Spec /\ Fairness
-----------------------------------------------------------------------------
(* Properties.                                                             *)

\* A peer may count on what another tells it: announced heads and acknowledged
\* ids are all in the sender's log, and so are the events of a message, but for
\* those its application publishes, whatever order the message is handled in and
\* however late.  It fails when ACK is sent for events that appendMany refused
\* (replicator.js:186-188).
MessagesTrue ==
  \A p, q \in Peer : \A m \in Range(inbox[p][q]) :
    m.ids \subseteq log[q] \cup IF m.type = "EVENTS" THEN Own[q] ELSE {}

\* The chunks of a sync that q has not acknowledged, in the order of sending.
Outstanding(p, q) == <<lastSentChunkIds[p][q]>> \o pendingChunks[p][q]

\* The chunk that p awaits the ACK of, and every chunk queued behind it, can
\* be appended at q once the chunks before it are: the receiving appendMany
\* never refuses a chunk (the bug that topologicalOrder was written against,
\* replicator.js:16-22), although p computed the missing set from heads that
\* q announced long ago, and however often the connection broke since.
OutstandingChunkAppendable ==
  \A p, q \in Peer : LET cs == Outstanding(p, q) IN
    \A i \in DOMAIN cs : \A e \in cs[i] :
      Parents[e] \subseteq log[q] \cup Upto(cs, i)

\* The three maps of a replicator agree on which peers it is syncing to
\* (replicator.js:128-134, 151-159 and 94-96 write them apart): a chunk is
\* awaited exactly from the peers in _syncInFlight, and chunks are queued for
\* no other, so no sync is under way that no ACK can end.
SyncStateConsistent ==
  \A p, q \in Peer :
    /\ q \in syncInFlight[p] <=> lastSentChunkIds[p][q] # {}
    /\ pendingChunks[p][q] # <<>> => q \in syncInFlight[p]

\* A step of p that moves on from the chunk awaited from q, without stopping,
\* finds all of that chunk in q's log (replicator.js:110-117).
MovesOnOnlyWhenStored(p, q) ==
  LET c == lastSentChunkIds[p][q] IN
  c # lastSentChunkIds'[p][q] /\ running'[p] = running[p] => c \subseteq log[q]

\* The next chunk is released, or the sync ended, only when the peer has
\* stored the awaited chunk: real backpressure.
ReleasedOnlyWhenStored ==
  [][\A p, q \in Peer : MovesOnOnlyWhenStored(p, q)]_vars

\* An ACK never makes the queue advance early (replicator.js:139-144): when p
\* moves on from a chunk, no copy of it still waits to be handled at q.
ReleasedOnlyWhenHandled ==
  [][\A p, q \in Peer :
       LET c == lastSentChunkIds[p][q] IN
       c # lastSentChunkIds'[p][q] /\ running'[p] = running[p]
         => \A m \in Range(inbox'[q][p]) : m.type = "EVENTS" => m.ids # c]_vars

\* No handler is running and no task is waiting anywhere.
Quiet ==
  \A p \in Peer : /\ work[p].at = "idle"
                  /\ \A q \in Peer : inbox[p][q] = <<>>

\* With two peers whose applications have no events: when everything has settled
\* and they are connected, a peer has all that the other has, unless that other
\* still waits for an ACK of its sync, which nothing will ever bring, or the
\* connection opened while a replicator was stopped.  Nothing is forgotten in any
\* other way: not by the _syncInFlight check that drops the second missing set
\* (replicator.js:124), not by heads that went stale while a handler awaited, not
\* by a connection that broke and came back.
SettledSyncedOrStuck ==
  Quiet => \A p, q \in Peer :
             Linked(p, q) /\ {p, q} \notin unattended
               => log[p] \subseteq log[q] \/ q \in syncInFlight[p]

\* With two peers whose applications have no events and connections that do not break:
\* once connected, the peers end up with the same log (README "Chunked
\* replication").
Converges == \A p, q \in Peer : Linked(p, q) ~> log[p] = log[q]

\* The exchange always ends: HELLO, HELLO_ACK, EVENTS and ACK never keep
\* answering one another (replicator.js:163-196).
Settles == []<>Quiet

\* A peer whose connection comes back and stays catches up (README.md:417-418:
\* "a slow or momentarily disconnected peer simply never gets the next chunk
\* until it catches up").  The code does not do this: see SyncReconnect.cfg.
ReconnectedCatchesUp ==
  \A p, q \in Peer : Linked(p, q) ~> (~Linked(p, q) \/ log[p] = log[q])

\* Every log is what causal gossip allows: see CausalGossip.
Gossip == INSTANCE CausalGossip
ImplementsCausalGossip == Gossip!Spec
=============================================================================
