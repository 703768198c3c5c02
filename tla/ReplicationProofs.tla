-------------------------- MODULE ReplicationProofs --------------------------
(***************************************************************************)
(* Proofs about Replication, for any peers, any finite set of events with  *)
(* any parents, any chunk size, any number of broken connections and       *)
(* restarts.                                                               *)
(***************************************************************************)
EXTENDS Replication, FiniteSetTheorems, TLAPS
-----------------------------------------------------------------------------
(* The operators of EventLog.                                              *)

\* What since(hs) leaves out, a log that holds hs has: so the parents of a
\* missing event are missing too, or at the peer that announced hs.
LEMMA SinceParents ==
  ASSUME NEW L \in SUBSET Event, NEW M \in SUBSET Event, NEW hs,
         ParentClosed(L), ParentClosed(M), hs \subseteq M
  PROVE  \A e \in Since(L, hs) : Parents[e] \subseteq Since(L, hs) \cup M
<1>1. L \cap M \in SUBSET L /\ hs \cap L \subseteq L \cap M /\ ParentClosed(L \cap M)
  BY DEF ParentClosed
<1>2. Reachable(L, hs) \subseteq M
  BY <1>1 DEF Reachable
<1> QED
  BY <1>2 DEF Since, ParentClosed

\* appendMany stores part of the batch and leaves the log closed under parents.
LEMMA AppendableClosed ==
  ASSUME NEW L, NEW B, ParentClosed(L)
  PROVE  Appendable(L, B) \subseteq B /\ ParentClosed(L \cup Appendable(L, B))
BY DEF Appendable, ParentClosed
-----------------------------------------------------------------------------
(* Sequences.                                                              *)

LEMMA AppendRange ==
  ASSUME NEW T, NEW s \in Seq(T), NEW m \in T
  PROVE  Append(s, m) \in Seq(T) /\ Range(Append(s, m)) = Range(s) \cup {m}
<1>1. /\ Append(s, m) \in Seq(T)
      /\ DOMAIN Append(s, m) = 1..(Len(s) + 1) /\ DOMAIN s = 1..Len(s)
      /\ \A i \in 1..Len(s) : Append(s, m)[i] = s[i]
      /\ Append(s, m)[Len(s) + 1] = m /\ Len(s) \in Nat
  OBVIOUS
<1>2. ASSUME NEW x \in Range(s) \cup {m} PROVE x \in Range(Append(s, m))
  BY <1>1, <1>2 DEF Range
<1>3. ASSUME NEW x \in Range(Append(s, m)) PROVE x \in Range(s) \cup {m}
  BY <1>1, <1>3 DEF Range
<1> QED
  BY <1>1, <1>2, <1>3

\* The messages in an inbox that gets one more.
LEMMA AppendMessage ==
  ASSUME NEW s \in Seq(Message), NEW m \in Message
  PROVE  Range(Append(s, m)) = Range(s) \cup {m}
BY AppendRange

LEMMA TailRange ==
  ASSUME NEW T, NEW s \in Seq(T), s # <<>>
  PROVE  /\ Head(s) \in T /\ Tail(s) \in Seq(T)
         /\ Head(s) \in Range(s) /\ Range(Tail(s)) \subseteq Range(s)
BY DEF Range

LEMMA FrontRange ==
  ASSUME NEW T, NEW s \in Seq(T), s # <<>>
  PROVE  /\ SubSeq(s, 1, Len(s) - 1) \in Seq(T)
         /\ Range(SubSeq(s, 1, Len(s) - 1)) \subseteq Range(s)
BY DEF Range

LEMMA ConsHeadTail ==
  ASSUME NEW T, NEW s \in Seq(T), s # <<>>
  PROVE  <<Head(s)>> \o Tail(s) = s
OBVIOUS

\* A member of Chunkings is a non-empty sequence of non-empty chunks of S.
LEMMA ChunkingsType ==
  ASSUME NEW S \in SUBSET Event, S # {}, NEW cs \in Chunkings(S)
  PROVE  /\ cs \in Seq(Chunk) /\ cs # <<>>
         /\ \A i \in DOMAIN cs : cs[i] \subseteq S
         /\ ParentsFirst(cs, S)
<1> DEFINE n == NumChunks(S)
<1>1. Cardinality(S) \in Nat
  BY EventAssumption, FS_Subset, FS_CardinalityType
<1>2. n \in Int
  BY <1>1, ChunkSizeAssumption DEF NumChunks
<1>3. cs \in [1..n -> Chunks(S)] /\ Upto(cs, n) = S /\ ParentsFirst(cs, S)
  BY DEF Chunkings
<1>4. n > 0
  <2>1. PICK e : e \in S
    OBVIOUS
  <2>2. PICK j \in 1..n : e \in cs[j]
    BY <1>3, <2>1 DEF Upto
  <2> QED
    BY <1>2, <2>2
<1>5. Chunks(S) \subseteq Chunk /\ \A T \in Chunks(S) : T \subseteq S
  BY DEF Chunks, Chunk
<1> QED
  BY <1>2, <1>3, <1>4, <1>5
-----------------------------------------------------------------------------
(* Inboxes.                                                                *)

\* Sending adds at most the message, to the one inbox.
LEMMA SentInbox ==
  ASSUME NEW box \in Inboxes, NEW p \in Peer, NEW q \in Peer, NEW m \in Message
  PROVE  /\ Sent(box, p, q, m) \in Inboxes
         /\ \A a, b \in Peer : Range(Sent(box, p, q, m)[a][b]) \subseteq
              Range(box[a][b]) \cup (IF a = q /\ b = p THEN {m} ELSE {})
<1>1. /\ Append(box[q][p], m) \in Seq(Message)
      /\ Range(Append(box[q][p], m)) = Range(box[q][p]) \cup {m}
  BY AppendRange DEF Inboxes
<1> QED
  BY <1>1 DEF Sent, Inboxes

\* Taking a task off adds nothing to any inbox.
LEMMA TakenInbox ==
  ASSUME inbox \in Inboxes, NEW p \in Peer, NEW q \in Peer, inbox[p][q] # <<>>
  PROVE  /\ Taken(p, q) \in Inboxes
         /\ Head(inbox[p][q]) \in Message
         /\ Head(inbox[p][q]) \in Range(inbox[p][q])
         /\ \A a, b \in Peer : Range(Taken(p, q)[a][b]) \subseteq Range(inbox[a][b])
<1>1. /\ Head(inbox[p][q]) \in Message /\ Tail(inbox[p][q]) \in Seq(Message)
      /\ Head(inbox[p][q]) \in Range(inbox[p][q])
      /\ Range(Tail(inbox[p][q])) \subseteq Range(inbox[p][q])
  BY TailRange DEF Inboxes
<1> QED
  BY <1>1 DEF Taken, Inboxes
-----------------------------------------------------------------------------
(* The inductive invariant.                                                *)

LogsClosed == \A p \in Peer : ParentClosed(log[p])

UnpublishedOwn == \A p \in Peer : unpublished[p] \subseteq Own[p]

\* What a handler read from its log, and what a sync is still to send, is in
\* the log: nothing is ever removed from it.
WorkTrue == \A p \in Peer : work[p].ids \subseteq log[p]

OutstandingTrue ==
  \A p, q \in Peer :
    /\ lastSentChunkIds[p][q] \subseteq log[p]
    /\ \A i \in DOMAIN pendingChunks[p][q] : pendingChunks[p][q][i] \subseteq log[p]

\* Between computing the missing set and chunking it: every parent of a
\* missing event is missing too or at the peer already.
MissingSendable ==
  \A p \in Peer : work[p].at = "sync" =>
    \A e \in work[p].ids :
      Parents[e] \subseteq work[p].ids \cup log[work[p].peer]

IInv ==
  /\ TypeOK
  /\ LogsClosed
  /\ UnpublishedOwn
  /\ MessagesTrue
  /\ WorkTrue
  /\ OutstandingTrue
  /\ MissingSendable
  /\ OutstandingChunkAppendable

LEMMA InitIInv == Init => IInv
<1> SUFFICES ASSUME Init PROVE IInv
  OBVIOUS
<1>1. log \in [Peer -> SUBSET Event] /\ LogsClosed
  BY InitLogsAssumption DEF Init, LogsClosed
<1>2. TypeOK
  BY <1>1, BoundAssumption, PeerAssumption DEF Init, TypeOK, Inboxes, Idle, Work, MsgType
<1>3. MessagesTrue
  BY DEF Init, MessagesTrue, Range
<1>4. UnpublishedOwn /\ WorkTrue /\ OutstandingTrue /\ MissingSendable
  BY DEF Init, UnpublishedOwn, WorkTrue, OutstandingTrue, MissingSendable, Idle
<1>5. OutstandingChunkAppendable
  <2> SUFFICES ASSUME NEW p \in Peer, NEW q \in Peer,
                      NEW i \in DOMAIN Outstanding(p, q)
               PROVE  Outstanding(p, q)[i] = {}
    BY DEF OutstandingChunkAppendable
  <2> QED
    BY DEF Init, Outstanding
<1> QED
  BY <1>1, <1>2, <1>3, <1>4, <1>5 DEF IInv
-----------------------------------------------------------------------------
(* Type correctness.                                                       *)

LEMMA TypeStep == TypeOK /\ [Next]_vars => TypeOK'
<1> SUFFICES ASSUME TypeOK, [Next]_vars PROVE TypeOK'
  OBVIOUS
<1> USE DEF TypeOK
<1>1. ASSUME NEW p \in Peer, NEW q \in Peer, HandleJoin(p, q) PROVE TypeOK'
  <2>1. inbox' \in Inboxes
    BY <1>1, TakenInbox DEF HandleJoin, NextTask
  <2>2. Heads(log[p]) \in SUBSET Event
    BY DEF Heads
  <2>3. work' \in [Peer -> Work]
    BY <1>1, <2>2 DEF HandleJoin, Work, MsgType
  <2> QED
    BY <1>1, <2>1, <2>3 DEF HandleJoin, syncVars, envVars
<1>2. ASSUME NEW p \in Peer, NEW q \in Peer, HandleHello(p, q) PROVE TypeOK'
  <2>1. inbox' \in Inboxes
    BY <1>2, TakenInbox DEF HandleHello, NextTask
  <2>2. Since(log[p], Head(inbox[p][q]).ids) \in SUBSET Event
    BY DEF Since
  <2>3. work' \in [Peer -> Work]
    BY <1>2, <2>2 DEF HandleHello, Work, MsgType
  <2> QED
    BY <1>2, <2>1, <2>3 DEF HandleHello, syncVars, envVars
<1>3. ASSUME NEW p \in Peer, SendChunked(p) PROVE TypeOK'
  <2> DEFINE q == work[p].peer
  <2>1. q \in Peer /\ work[p].ids \in SUBSET Event
    BY DEF Work
  <2>2. work' \in [Peer -> Work]
    BY <1>3, <2>1 DEF SendChunked, AfterSync, Idle, Work, MsgType
  <2>3. CASE UNCHANGED <<inbox, syncVars>>
    BY <1>3, <2>2, <2>3 DEF SendChunked, syncVars, envVars
  <2>4. CASE ~UNCHANGED <<inbox, syncVars>>
    <3>1. PICK cs \in Chunkings(work[p].ids) :
            /\ syncInFlight' = [syncInFlight EXCEPT ![p] = @ \cup {q}]
            /\ pendingChunks' = [pendingChunks EXCEPT ![p][q] = Tail(cs)]
            /\ lastSentChunkIds' = [lastSentChunkIds EXCEPT ![p][q] = cs[1]]
            /\ inbox' = Sent(inbox, p, q, [type |-> "EVENTS", ids |-> cs[1]])
      BY <1>3, <2>4 DEF SendChunked
    <3>2. work[p].ids # {}
      BY <1>3, <2>4 DEF SendChunked
    <3>3. cs[1] \in Chunk /\ Tail(cs) \in Seq(Chunk)
      <4>1. cs \in Seq(Chunk) /\ cs # <<>>
        BY <2>1, <3>2, ChunkingsType
      <4> QED
        BY <4>1
    <3>4. [type |-> "EVENTS", ids |-> cs[1]] \in Message
      BY <3>3 DEF Message, MsgType, Chunk
    <3>5. inbox' \in Inboxes
      BY <2>1, <3>1, <3>4, SentInbox
    <3>6. lastSentChunkIds' \in [Peer -> [Peer -> SUBSET Event]]
      BY <2>1, <3>1, <3>3 DEF Chunk
    <3>7. pendingChunks' \in [Peer -> [Peer -> Seq(Chunk)]]
      BY <2>1, <3>1, <3>3
    <3>8. syncInFlight' \in [Peer -> SUBSET Peer]
      BY <2>1, <3>1
    <3> QED
      BY <1>3, <2>2, <3>5, <3>6, <3>7, <3>8 DEF SendChunked, envVars
  <2> QED
    BY <2>3, <2>4
<1>4. ASSUME NEW p \in Peer, ReadHeads(p) PROVE TypeOK'
  BY <1>4 DEF ReadHeads, syncVars, envVars, Work, MsgType, Heads
<1>5. ASSUME NEW p \in Peer, SendHeads(p) PROVE TypeOK'
  <2>1. /\ [type |-> work[p].type, ids |-> work[p].ids] \in Message
        /\ work[p].peer \in Peer
    BY DEF Work, Message
  <2>2. inbox' \in Inboxes
    BY <1>5, <2>1, SentInbox DEF SendHeads
  <2>3. work' \in [Peer -> Work]
    BY <1>5 DEF SendHeads, Idle, Work, MsgType
  <2> QED
    BY <1>5, <2>2, <2>3 DEF SendHeads, syncVars, envVars
<1>6. ASSUME NEW p \in Peer, NEW q \in Peer, HandleEvents(p, q) PROVE TypeOK'
  <2> DEFINE ids == Head(inbox[p][q]).ids
  <2>1. Taken(p, q) \in Inboxes /\ ids \in SUBSET Event
    BY <1>6, TakenInbox DEF HandleEvents, NextTask, Message
  <2>2. [type |-> "ACK", ids |-> ids] \in Message
    BY <2>1 DEF Message, MsgType
  <2>3. inbox' \in Inboxes
    <3>1. Sent(Taken(p, q), p, q, [type |-> "ACK", ids |-> ids]) \in Inboxes
      BY <2>1, <2>2, SentInbox
    <3> QED
      BY <1>6, <2>1, <3>1 DEF HandleEvents
  <2>4. Appendable(log[p], ids) \subseteq Event
    BY <2>1 DEF Appendable
  <2> QED
    BY <1>6, <2>3, <2>4 DEF HandleEvents, syncVars, envVars
<1>7. ASSUME NEW p \in Peer, NEW q \in Peer, HandleAck(p, q) PROVE TypeOK'
  <2>1. Taken(p, q) \in Inboxes
    BY <1>7, TakenInbox DEF HandleAck, NextTask
  <2>2. CASE inbox' = Taken(p, q) /\ UNCHANGED syncVars
    BY <1>7, <2>1, <2>2 DEF HandleAck, syncVars, envVars
  <2>3. CASE /\ pendingChunks[p][q] = <<>>
             /\ syncInFlight' = [syncInFlight EXCEPT ![p] = @ \ {q}]
             /\ lastSentChunkIds' = [lastSentChunkIds EXCEPT ![p][q] = {}]
             /\ inbox' = Taken(p, q)
             /\ UNCHANGED pendingChunks
    BY <1>7, <2>1, <2>3 DEF HandleAck, envVars
  <2>4. CASE LET next == Head(pendingChunks[p][q]) IN
             /\ pendingChunks[p][q] # <<>>
             /\ pendingChunks' = [pendingChunks EXCEPT ![p][q] = Tail(@)]
             /\ lastSentChunkIds' = [lastSentChunkIds EXCEPT ![p][q] = next]
             /\ inbox' = Sent(Taken(p, q), p, q, [type |-> "EVENTS", ids |-> next])
             /\ UNCHANGED syncInFlight
    <3>1. /\ Head(pendingChunks[p][q]) \in Chunk
          /\ Tail(pendingChunks[p][q]) \in Seq(Chunk)
      BY <2>4, TailRange
    <3>2. Head(pendingChunks[p][q]) \in SUBSET Event
      BY <3>1 DEF Chunk
    <3>3. [type |-> "EVENTS", ids |-> Head(pendingChunks[p][q])] \in Message
      BY <3>2 DEF Message, MsgType
    <3>4. inbox' \in Inboxes
      BY <2>1, <2>4, <3>3, SentInbox
    <3> QED
      BY <1>7, <2>4, <3>1, <3>2, <3>4 DEF HandleAck, envVars
  <2> QED
    BY <1>7, <2>2, <2>3, <2>4 DEF HandleAck, AdvanceChunkQueue
<1>8. ASSUME NEW p \in Peer, NEW e \in Event, AppendOwn(p, e) PROVE TypeOK'
  BY <1>8 DEF AppendOwn, syncVars, envVars
<1>9. ASSUME NEW p \in Peer, NEW S \in SUBSET unpublished[p], Publish(p, S)
      PROVE TypeOK'
  <2>1. [type |-> "EVENTS", ids |-> S] \in Message
    BY DEF Message, MsgType
  <2>2. inbox' \in Inboxes
    BY <1>9, <2>1, AppendRange DEF Publish, Inboxes
  <2> QED
    BY <1>9, <2>2 DEF Publish, syncVars, envVars
<1>10. ASSUME NEW p \in Peer, NEW q \in Peer, Connect(p, q) PROVE TypeOK'
  <2>1. [type |-> "JOIN", ids |-> {}] \in Message
    BY DEF Message, MsgType
  <2>2. \A a, b \in Peer :
          Append(inbox[a][b], [type |-> "JOIN", ids |-> {}]) \in Seq(Message)
    BY <2>1, AppendRange DEF Inboxes
  <2>3. inbox' \in Inboxes
    <3>1. PICK f \in Seq(Message), g \in Seq(Message) :
            inbox' = [inbox EXCEPT ![p][q] = f, ![q][p] = g]
      <4>1. \A a, b \in Peer : inbox[a][b] \in Seq(Message)
        BY DEF Inboxes
      <4> QED
        BY <1>10, <2>2, <4>1 DEF Connect
    <3> QED
      BY <3>1 DEF Inboxes
  <2>4. links' \in SUBSET (SUBSET Peer) /\ unattended' \in SUBSET links'
    BY <1>10 DEF Connect
  <2> QED
    BY <1>10, <2>3, <2>4 DEF Connect, syncVars
<1>11. ASSUME NEW p \in Peer, NEW q \in Peer, Disconnect(p, q) PROVE TypeOK'
  BY <1>11, BoundAssumption DEF Disconnect, syncVars
<1>12. ASSUME NEW p \in Peer, NEW q \in Peer, Lose(p, q) PROVE TypeOK'
  <2>1. SubSeq(inbox[p][q], 1, Len(inbox[p][q]) - 1) \in Seq(Message)
    BY <1>12, FrontRange DEF Lose, Inboxes
  <2>2. inbox' \in Inboxes
    BY <1>12, <2>1 DEF Lose, Inboxes
  <2> QED
    BY <1>12, <2>2 DEF Lose, syncVars, envVars
<1>13. ASSUME NEW p \in Peer, Stop(p) PROVE TypeOK'
  BY <1>13, BoundAssumption DEF Stop
<1>14. ASSUME NEW p \in Peer, Start(p) PROVE TypeOK'
  BY <1>14 DEF Start, syncVars
<1>15. CASE UNCHANGED vars
  BY <1>15 DEF vars, syncVars, envVars
<1> QED
  BY <1>1, <1>2, <1>3, <1>4, <1>5, <1>6, <1>7, <1>8, <1>9, <1>10, <1>11, <1>12,
     <1>13, <1>14, <1>15
  DEF Next, Handler, Application, Environment

\* Every variable keeps its type (the state of replicator.js:53-80).
THEOREM TypeCorrect == Spec => []TypeOK
<1>1. Init => TypeOK
  BY InitIInv DEF IInv
<1> QED
  BY <1>1, TypeStep, PTL DEF Spec
-----------------------------------------------------------------------------
(* Who writes what.                                                        *)

LEMMA LogStep ==
  [Next]_vars => \/ UNCHANGED log
                 \/ \E p, q \in Peer : HandleEvents(p, q)
                 \/ \E p \in Peer, e \in Event : AppendOwn(p, e)
<1>1. ASSUME NEW p \in Peer, Handler(p)
      PROVE  UNCHANGED log \/ \E q \in Peer : HandleEvents(p, q)
  BY <1>1 DEF Handler, HandleJoin, HandleHello, HandleAck, SendChunked, ReadHeads, SendHeads
<1>2. ASSUME NEW p \in Peer, Application(p)
      PROVE  UNCHANGED log \/ \E e \in Event : AppendOwn(p, e)
  BY <1>2 DEF Application, Publish
<1>3. ASSUME NEW p \in Peer, Environment(p) PROVE UNCHANGED log
  BY <1>3 DEF Environment, Connect, Disconnect, Lose, Stop, Start
<1> QED
  BY <1>1, <1>2, <1>3 DEF Next, vars

LEMMA WorkStep ==
  [Next]_vars => \/ UNCHANGED work
                 \/ \E p, q \in Peer : HandleJoin(p, q) \/ HandleHello(p, q)
                 \/ \E p \in Peer : SendChunked(p) \/ ReadHeads(p) \/ SendHeads(p)
<1>1. ASSUME NEW p \in Peer, Handler(p)
      PROVE  \/ UNCHANGED work
             \/ \E q \in Peer : HandleJoin(p, q) \/ HandleHello(p, q)
             \/ SendChunked(p) \/ ReadHeads(p) \/ SendHeads(p)
  BY <1>1 DEF Handler, HandleEvents, HandleAck
<1>2. ASSUME NEW p \in Peer, Application(p) PROVE UNCHANGED work
  BY <1>2 DEF Application, AppendOwn, Publish
<1>3. ASSUME NEW p \in Peer, Environment(p) PROVE UNCHANGED work
  BY <1>3 DEF Environment, Connect, Disconnect, Lose, Stop, Start
<1> QED
  BY <1>1, <1>2, <1>3 DEF Next, vars

LEMMA SyncStep ==
  [Next]_vars => \/ UNCHANGED syncVars
                 \/ \E p \in Peer : SendChunked(p) \/ Stop(p)
                 \/ \E p, q \in Peer : HandleAck(p, q)
<1>1. ASSUME NEW p \in Peer, Handler(p)
      PROVE  UNCHANGED syncVars \/ SendChunked(p) \/ \E q \in Peer : HandleAck(p, q)
  BY <1>1 DEF Handler, HandleJoin, HandleHello, HandleEvents, ReadHeads, SendHeads
<1>2. ASSUME NEW p \in Peer, Application(p) PROVE UNCHANGED syncVars
  BY <1>2 DEF Application, AppendOwn, Publish
<1>3. ASSUME NEW p \in Peer, Environment(p) PROVE UNCHANGED syncVars \/ Stop(p)
  BY <1>3 DEF Environment, Connect, Disconnect, Lose, Start
<1> QED
  BY <1>1, <1>2, <1>3 DEF Next, vars, syncVars

\* No log ever loses an event.
LEMMA LogsGrow ==
  TypeOK /\ [Next]_vars => \A p \in Peer : log[p] \subseteq log'[p]
<1> SUFFICES ASSUME TypeOK, [Next]_vars
             PROVE  \A p \in Peer : log[p] \subseteq log'[p]
  OBVIOUS
<1>1. ASSUME NEW p \in Peer, NEW q \in Peer, HandleEvents(p, q)
      PROVE  \A a \in Peer : log[a] \subseteq log'[a]
  BY <1>1 DEF HandleEvents, TypeOK
<1>2. ASSUME NEW p \in Peer, NEW e \in Event, AppendOwn(p, e)
      PROVE  \A a \in Peer : log[a] \subseteq log'[a]
  BY <1>2 DEF AppendOwn, TypeOK
<1> QED
  BY <1>1, <1>2, LogStep
-----------------------------------------------------------------------------
(* The conjuncts of the inductive invariant, one by one.                   *)

LEMMA LogsClosedStep == TypeOK /\ LogsClosed /\ [Next]_vars => LogsClosed'
<1> SUFFICES ASSUME TypeOK, LogsClosed, [Next]_vars PROVE LogsClosed'
  OBVIOUS
<1>1. ASSUME NEW p \in Peer, NEW q \in Peer, HandleEvents(p, q) PROVE LogsClosed'
  <2>1. ParentClosed(log[p] \cup Appendable(log[p], Head(inbox[p][q]).ids))
    BY AppendableClosed DEF LogsClosed
  <2> QED
    BY <1>1, <2>1 DEF HandleEvents, LogsClosed, TypeOK
<1>2. ASSUME NEW p \in Peer, NEW e \in Event, AppendOwn(p, e) PROVE LogsClosed'
  <2>1. ParentClosed(log[p] \cup {e})
    BY <1>2 DEF AppendOwn, LogsClosed, ParentClosed
  <2> QED
    BY <1>2, <2>1 DEF AppendOwn, LogsClosed, TypeOK
<1>3. CASE UNCHANGED log
  BY <1>3 DEF LogsClosed
<1> QED
  BY <1>1, <1>2, <1>3, LogStep

LEMMA UnpublishedStep == TypeOK /\ UnpublishedOwn /\ [Next]_vars => UnpublishedOwn'
<1> SUFFICES ASSUME TypeOK, UnpublishedOwn, [Next]_vars PROVE UnpublishedOwn'
  OBVIOUS
<1>2. CASE UNCHANGED unpublished
  BY <1>2 DEF UnpublishedOwn
<1>3. ASSUME NEW p \in Peer, NEW e \in Event, AppendOwn(p, e) PROVE UNCHANGED unpublished
  BY <1>3 DEF AppendOwn
<1>4. ASSUME NEW p \in Peer, NEW S \in SUBSET unpublished[p], Publish(p, S)
      PROVE  UnpublishedOwn'
  BY <1>4 DEF Publish, UnpublishedOwn, TypeOK
<1>5. ASSUME NEW p \in Peer, Handler(p) PROVE UNCHANGED unpublished
  BY <1>5 DEF Handler, HandleJoin, HandleHello, HandleEvents, HandleAck, SendChunked,
     ReadHeads, SendHeads
<1>6. ASSUME NEW p \in Peer, Environment(p) PROVE UNCHANGED unpublished
  BY <1>6 DEF Environment, Connect, Disconnect, Lose, Stop, Start
<1>7. CASE UNCHANGED vars
  BY <1>2, <1>7 DEF vars
<1>8. CASE Next
  BY <1>2, <1>3, <1>4, <1>5, <1>6, <1>8 DEF Next, Application
<1> QED
  BY <1>7, <1>8

LEMMA WorkTrueStep == TypeOK /\ WorkTrue /\ [Next]_vars => WorkTrue'
<1> SUFFICES ASSUME TypeOK, WorkTrue, [Next]_vars PROVE WorkTrue'
  OBVIOUS
<1> USE DEF WorkTrue, TypeOK
<1>1. \A p \in Peer : log[p] \subseteq log'[p]
  BY LogsGrow
<1>2. CASE UNCHANGED work
  BY <1>1, <1>2
<1>3. ASSUME NEW p \in Peer, NEW q \in Peer, HandleJoin(p, q) PROVE WorkTrue'
  BY <1>3 DEF HandleJoin, Heads
<1>4. ASSUME NEW p \in Peer, NEW q \in Peer, HandleHello(p, q) PROVE WorkTrue'
  BY <1>4 DEF HandleHello, Since
<1>5. ASSUME NEW p \in Peer, SendChunked(p) PROVE WorkTrue'
  BY <1>5 DEF SendChunked, AfterSync, Idle
<1>6. ASSUME NEW p \in Peer, ReadHeads(p) PROVE WorkTrue'
  BY <1>6 DEF ReadHeads, Heads
<1>7. ASSUME NEW p \in Peer, SendHeads(p) PROVE WorkTrue'
  BY <1>7 DEF SendHeads, Idle
<1> QED
  BY <1>2, <1>3, <1>4, <1>5, <1>6, <1>7, WorkStep

LEMMA MissingSendableStep ==
  TypeOK /\ LogsClosed /\ MessagesTrue /\ MissingSendable /\ [Next]_vars
    => MissingSendable'
<1> SUFFICES ASSUME TypeOK, LogsClosed, MessagesTrue, MissingSendable, [Next]_vars
             PROVE  MissingSendable'
  OBVIOUS
<1>1. \A p \in Peer : log[p] \subseteq log'[p]
  BY LogsGrow
<1>2. CASE UNCHANGED work
  BY <1>1, <1>2 DEF MissingSendable, TypeOK, Work
<1>3. ASSUME NEW p \in Peer, NEW q \in Peer, HandleHello(p, q) PROVE MissingSendable'
  <2> DEFINE hs == Head(inbox[p][q]).ids
  <2>1. hs \subseteq log[q]
    <3>1. inbox[p][q] # <<>> /\ Head(inbox[p][q]).type # "EVENTS"
      BY <1>3 DEF HandleHello, NextTask
    <3>2. Head(inbox[p][q]) \in Range(inbox[p][q])
      BY <3>1, TakenInbox DEF TypeOK
    <3> QED
      BY <3>1, <3>2 DEF MessagesTrue
  <2>2. \A e \in Since(log[p], hs) : Parents[e] \subseteq Since(log[p], hs) \cup log[q]
    BY <2>1, SinceParents DEF LogsClosed, TypeOK
  <2>3. work' = [work EXCEPT ![p] = work'[p]]
    BY <1>3 DEF HandleHello, TypeOK
  <2>4. log' = log /\ \A a \in Peer \ {p} : work'[a] = work[a]
    BY <1>3, <2>3 DEF HandleHello
  <2>5. work'[p].at = "sync" =>
          work'[p].peer = q /\ work'[p].ids = Since(log[p], hs)
    BY <1>3 DEF HandleHello, TypeOK
  <2> QED
    BY <2>2, <2>4, <2>5 DEF MissingSendable
<1>4. ASSUME NEW p \in Peer, work'[p].at # "sync",
             \A a \in Peer \ {p} : work'[a] = work[a]
      PROVE  MissingSendable'
  BY <1>1, <1>4 DEF MissingSendable, TypeOK, Work
<1>5. ASSUME NEW p \in Peer, NEW q \in Peer, HandleJoin(p, q) PROVE MissingSendable'
  BY <1>4, <1>5 DEF HandleJoin, TypeOK
<1>6. ASSUME NEW p \in Peer, SendChunked(p) PROVE MissingSendable'
  BY <1>4, <1>6 DEF SendChunked, AfterSync, Idle, TypeOK
<1>7. ASSUME NEW p \in Peer, ReadHeads(p) PROVE MissingSendable'
  BY <1>4, <1>7 DEF ReadHeads, TypeOK
<1>8. ASSUME NEW p \in Peer, SendHeads(p) PROVE MissingSendable'
  BY <1>4, <1>8 DEF SendHeads, Idle, TypeOK
<1> QED
  BY <1>2, <1>3, <1>5, <1>6, <1>7, <1>8, WorkStep

LEMMA OutstandingTrueStep ==
  TypeOK /\ WorkTrue /\ OutstandingTrue /\ [Next]_vars => OutstandingTrue'
<1> SUFFICES ASSUME TypeOK, WorkTrue, OutstandingTrue, [Next]_vars
             PROVE  OutstandingTrue'
  OBVIOUS
<1>1. \A p \in Peer : log[p] \subseteq log'[p]
  BY LogsGrow
<1>2. CASE UNCHANGED syncVars
  BY <1>1, <1>2 DEF OutstandingTrue, syncVars
<1>3. ASSUME NEW p \in Peer, SendChunked(p) PROVE OutstandingTrue'
  <2> DEFINE q == work[p].peer
  <2>1. q \in Peer /\ work[p].ids \in SUBSET Event
    BY DEF TypeOK, Work
  <2>2. CASE UNCHANGED syncVars
    BY <2>2, <1>2
  <2>3. CASE ~UNCHANGED syncVars
    <3>1. PICK cs \in Chunkings(work[p].ids) :
            /\ pendingChunks' = [pendingChunks EXCEPT ![p][q] = Tail(cs)]
            /\ lastSentChunkIds' = [lastSentChunkIds EXCEPT ![p][q] = cs[1]]
      BY <1>3, <2>3 DEF SendChunked
    <3>2. work[p].ids # {}
      BY <1>3, <2>3 DEF SendChunked
    <3>3. cs \in Seq(Chunk) /\ cs # <<>> /\ \A i \in DOMAIN cs : cs[i] \subseteq log[p]
      BY <2>1, <3>2, ChunkingsType DEF WorkTrue
    <3>4. cs[1] \subseteq log[p] /\ \A i \in DOMAIN Tail(cs) : Tail(cs)[i] \subseteq log[p]
      BY <3>3
    <3> DEFINE lasts == lastSentChunkIds'
               pending == pendingChunks'
    <3>5. /\ lasts[p][q] = cs[1] /\ pending[p][q] = Tail(cs)
          /\ \A a, b \in Peer : <<a, b>> # <<p, q>> =>
               /\ lasts[a][b] = lastSentChunkIds[a][b]
               /\ pending[a][b] = pendingChunks[a][b]
      BY <2>1, <3>1 DEF TypeOK
    <3> HIDE DEF lasts, pending
    <3>6. ASSUME NEW a \in Peer, NEW b \in Peer
          PROVE  /\ lasts[a][b] \subseteq log'[a]
                 /\ \A i \in DOMAIN pending[a][b] : pending[a][b][i] \subseteq log'[a]
      <4>1. CASE <<a, b>> = <<p, q>>
        BY <1>1, <3>4, <3>5, <4>1
      <4>2. CASE <<a, b>> # <<p, q>>
        BY <1>1, <3>5, <4>2 DEF OutstandingTrue
      <4> QED
        BY <4>1, <4>2
    <3> QED
      BY <3>6 DEF OutstandingTrue, lasts, pending
  <2> QED
    BY <2>2, <2>3
<1>4. ASSUME NEW p \in Peer, NEW q \in Peer, HandleAck(p, q) PROVE OutstandingTrue'
  <2>1. CASE UNCHANGED syncVars
    BY <2>1, <1>2
  <2>2. CASE /\ lastSentChunkIds' = [lastSentChunkIds EXCEPT ![p][q] = {}]
             /\ UNCHANGED pendingChunks
    <3>1. \A a, b \in Peer : lastSentChunkIds'[a][b] \subseteq lastSentChunkIds[a][b]
      BY <2>2 DEF TypeOK
    <3> QED
      BY <1>1, <2>2, <3>1 DEF OutstandingTrue
  <2>3. CASE /\ pendingChunks[p][q] # <<>>
             /\ pendingChunks' = [pendingChunks EXCEPT ![p][q] = Tail(@)]
             /\ lastSentChunkIds' =
                  [lastSentChunkIds EXCEPT ![p][q] = Head(pendingChunks[p][q])]
    <3> DEFINE cs == pendingChunks[p][q]
    <3>1. cs \in Seq(Chunk) /\ cs # <<>> /\ \A i \in DOMAIN cs : cs[i] \subseteq log[p]
      BY <2>3 DEF OutstandingTrue, TypeOK
    <3>2. Head(cs) \subseteq log[p] /\ \A i \in DOMAIN Tail(cs) : Tail(cs)[i] \subseteq log[p]
      BY <3>1
    <3>3. \A a, b \in Peer : lastSentChunkIds'[a][b] \subseteq log[a]
      BY <2>3, <3>2 DEF OutstandingTrue, TypeOK
    <3>4. \A a, b \in Peer : \A i \in DOMAIN pendingChunks'[a][b] :
            pendingChunks'[a][b][i] \subseteq log[a]
      <4>1. \A a, b \in Peer :
              pendingChunks'[a][b] = IF <<a, b>> = <<p, q>> THEN Tail(cs) ELSE pendingChunks[a][b]
        BY <2>3 DEF TypeOK
      <4>2. \A i \in DOMAIN pendingChunks'[p][q] : pendingChunks'[p][q][i] \subseteq log[p]
        BY <3>2, <4>1
      <4>3. \A a, b \in Peer : <<a, b>> # <<p, q>> =>
              \A i \in DOMAIN pendingChunks'[a][b] : pendingChunks'[a][b][i] \subseteq log[a]
        BY <4>1 DEF OutstandingTrue
      <4> QED
        BY <4>2, <4>3
    <3> QED
      BY <1>1, <3>3, <3>4 DEF OutstandingTrue
  <2> QED
    BY <1>4, <2>1, <2>2, <2>3 DEF HandleAck, AdvanceChunkQueue
<1>5. ASSUME NEW p \in Peer, Stop(p) PROVE OutstandingTrue'
  BY <1>1, <1>5 DEF Stop, OutstandingTrue, TypeOK
<1> QED
  BY <1>2, <1>3, <1>4, <1>5, SyncStep

LEMMA MessagesTrueStep ==
  TypeOK /\ UnpublishedOwn /\ WorkTrue /\ OutstandingTrue /\ MessagesTrue /\ [Next]_vars
    => MessagesTrue'
<1> SUFFICES ASSUME TypeOK, UnpublishedOwn, WorkTrue, OutstandingTrue, MessagesTrue,
                    [Next]_vars
             PROVE  MessagesTrue'
  OBVIOUS
<1> USE DEF TypeOK
<1>1. \A p \in Peer : log[p] \subseteq log'[p]
  BY LogsGrow
<1>2. ASSUME \A a, b \in Peer : \A m \in Range(inbox'[a][b]) :
               \/ m \in Range(inbox[a][b]) \/ m.ids \subseteq log'[b]
               \/ m.type = "EVENTS" /\ m.ids \subseteq Own[b]
      PROVE  MessagesTrue'
  BY <1>1, <1>2 DEF MessagesTrue
<1>3. CASE UNCHANGED inbox
  BY <1>2, <1>3
<1>4. ASSUME NEW p \in Peer, NEW q \in Peer, inbox[p][q] # <<>>, inbox' = Taken(p, q)
      PROVE  MessagesTrue'
  BY <1>2, <1>4, TakenInbox
<1>5. ASSUME NEW p \in Peer, NEW q \in Peer, inbox[p][q] # <<>>,
             NEW m \in Message, m.ids \subseteq log'[p],
             inbox' = Sent(Taken(p, q), p, q, m)
      PROVE  MessagesTrue'
  <2>1. /\ Taken(p, q) \in Inboxes
        /\ \A a, b \in Peer : Range(Taken(p, q)[a][b]) \subseteq Range(inbox[a][b])
    BY <1>5, TakenInbox
  <2>2. \A a, b \in Peer : Range(inbox'[a][b]) \subseteq
          Range(Taken(p, q)[a][b]) \cup (IF a = q /\ b = p THEN {m} ELSE {})
    BY <1>5, <2>1, SentInbox
  <2> QED
    BY <1>2, <1>5, <2>1, <2>2
<1>6. ASSUME NEW p \in Peer, NEW q \in Peer, NEW m \in Message, m.ids \subseteq log'[p],
             inbox' = Sent(inbox, p, q, m)
      PROVE  MessagesTrue'
  <2>1. \A a, b \in Peer : Range(inbox'[a][b]) \subseteq
          Range(inbox[a][b]) \cup (IF a = q /\ b = p THEN {m} ELSE {})
    BY <1>6, SentInbox
  <2> QED
    BY <1>2, <1>6, <2>1
<1>7. ASSUME NEW p \in Peer, NEW q \in Peer, HandleJoin(p, q) \/ HandleHello(p, q)
      PROVE  MessagesTrue'
  BY <1>4, <1>7 DEF HandleJoin, HandleHello, NextTask
<1>8. ASSUME NEW p \in Peer, SendChunked(p) PROVE MessagesTrue'
  <2> DEFINE q == work[p].peer
  <2>1. q \in Peer /\ work[p].ids \in SUBSET Event
    BY DEF Work
  <2>2. CASE ~UNCHANGED inbox
    <3>1. PICK cs \in Chunkings(work[p].ids) :
            inbox' = Sent(inbox, p, q, [type |-> "EVENTS", ids |-> cs[1]])
      BY <1>8, <2>2 DEF SendChunked
    <3>2. work[p].ids # {}
      BY <1>8, <2>2 DEF SendChunked
    <3>3. cs \in Seq(Chunk) /\ cs # <<>> /\ \A i \in DOMAIN cs : cs[i] \subseteq log[p]
      BY <2>1, <3>2, ChunkingsType DEF WorkTrue
    <3>4. cs[1] \subseteq log'[p]
      BY <1>1, <3>3
    <3>5. cs[1] \in SUBSET Event
      BY <3>3 DEF Chunk
    <3>6. [type |-> "EVENTS", ids |-> cs[1]] \in Message
      BY <3>5 DEF Message, MsgType
    <3> QED
      BY <1>6, <2>1, <3>1, <3>4, <3>6
  <2> QED
    BY <2>2, <1>3
<1>9. ASSUME NEW p \in Peer, SendHeads(p) PROVE MessagesTrue'
  <2>1. /\ [type |-> work[p].type, ids |-> work[p].ids] \in Message
        /\ work[p].ids \subseteq log'[p] /\ work[p].peer \in Peer
    BY <1>1 DEF Work, Message, WorkTrue
  <2> QED
    BY <1>6, <1>9, <2>1 DEF SendHeads
<1>10. ASSUME NEW p \in Peer, NEW q \in Peer, HandleEvents(p, q) PROVE MessagesTrue'
  <2> DEFINE ids == Head(inbox[p][q]).ids
             ack == [type |-> "ACK", ids |-> ids]
  <2>1. inbox[p][q] # <<>> /\ ids \in SUBSET Event
    BY <1>10, TakenInbox DEF HandleEvents, NextTask, Message
  <2>2. CASE inbox' = Taken(p, q)
    BY <1>4, <2>1, <2>2
  <2>3. CASE inbox' # Taken(p, q)
    <3>1. inbox' = Sent(Taken(p, q), p, q, ack) /\ ids \subseteq Appendable(log[p], ids)
      BY <1>10, <2>3 DEF HandleEvents
    <3>2. ids \subseteq log'[p]
      BY <1>10, <3>1 DEF HandleEvents
    <3>3. ack \in Message /\ ack.ids = ids
      BY <2>1 DEF Message, MsgType
    <3> QED
      BY <1>5, <2>1, <3>1, <3>2, <3>3
  <2> QED
    BY <2>2, <2>3
<1>11. ASSUME NEW p \in Peer, NEW q \in Peer, HandleAck(p, q) PROVE MessagesTrue'
  <2>1. inbox[p][q] # <<>>
    BY <1>11 DEF HandleAck, NextTask
  <2>2. CASE inbox' = Taken(p, q)
    BY <1>4, <2>1, <2>2
  <2>3. CASE inbox' # Taken(p, q)
    <3> DEFINE next == Head(pendingChunks[p][q])
               msg == [type |-> "EVENTS", ids |-> next]
    <3>1. pendingChunks[p][q] # <<>> /\ inbox' = Sent(Taken(p, q), p, q, msg)
      BY <1>11, <2>3 DEF HandleAck, AdvanceChunkQueue
    <3>2. next \in Chunk
      BY <3>1, TailRange
    <3>3. next = pendingChunks[p][q][1] /\ 1 \in DOMAIN pendingChunks[p][q]
      BY <3>1
    <3>4. next \subseteq log'[p]
      BY <1>1, <3>3 DEF OutstandingTrue
    <3>5. msg \in Message /\ msg.ids = next
      BY <3>2 DEF Message, MsgType, Chunk
    <3> QED
      BY <1>5, <2>1, <3>1, <3>4, <3>5
  <2> QED
    BY <2>2, <2>3
<1>12. ASSUME NEW p \in Peer, NEW S \in SUBSET unpublished[p], Publish(p, S)
       PROVE  MessagesTrue'
  <2> DEFINE msg == [type |-> "EVENTS", ids |-> S]
  <2>1. S \in SUBSET Event /\ msg \in Message /\ msg.ids = S
    BY DEF Message, MsgType
  <2>2. S \subseteq Own[p] /\ msg.type = "EVENTS"
    BY DEF UnpublishedOwn
  <2>3. \A a, b \in Peer : \/ inbox'[a][b] = inbox[a][b]
                           \/ b = p /\ inbox'[a][b] = Append(inbox[a][b], msg)
    BY <1>12 DEF Publish, Inboxes
  <2>4. ASSUME NEW a \in Peer, NEW b \in Peer
        PROVE  Range(Append(inbox[a][b], msg)) = Range(inbox[a][b]) \cup {msg}
    <3>1. inbox[a][b] \in Seq(Message)
      BY DEF TypeOK, Inboxes
    <3>2. QED
      BY <2>1, <3>1, AppendMessage
  <2>5. \A a, b \in Peer : \A m \in Range(inbox'[a][b]) :
               m \in Range(inbox[a][b]) \/ (m.type = "EVENTS" /\ m.ids \subseteq Own[b])
    <3> SUFFICES ASSUME NEW a \in Peer, NEW b \in Peer, NEW m \in Range(inbox'[a][b])
                 PROVE  m \in Range(inbox[a][b]) \/ (m.type = "EVENTS" /\ m.ids \subseteq Own[b])
      OBVIOUS
    <3>1. CASE inbox'[a][b] = inbox[a][b]
      BY <3>1
    <3>2. CASE b = p /\ inbox'[a][b] = Append(inbox[a][b], msg)
      <4>1. m \in Range(inbox[a][b]) \/ m = msg
        BY <2>4, <3>2
      <4> QED
        BY <2>1, <2>2, <3>2, <4>1
    <3> QED
      BY <2>3, <3>1, <3>2
  <2> QED
    BY <1>2, <2>5
<1>13. ASSUME NEW p \in Peer, NEW q \in Peer, Connect(p, q) PROVE MessagesTrue'
  <2> DEFINE msg == [type |-> "JOIN", ids |-> {}]
  <2>1. msg \in Message /\ msg.ids = {}
    BY DEF Message, MsgType
  <2>2. \A a, b \in Peer : \/ inbox'[a][b] = inbox[a][b]
                           \/ inbox'[a][b] = Append(inbox[a][b], msg)
    BY <1>13 DEF Connect, Inboxes
  <2>3. \A a, b \in Peer :
          Range(Append(inbox[a][b], msg)) = Range(inbox[a][b]) \cup {msg}
    <3> SUFFICES ASSUME NEW a \in Peer, NEW b \in Peer
                 PROVE  Range(Append(inbox[a][b], msg)) = Range(inbox[a][b]) \cup {msg}
      OBVIOUS
    <3>1. inbox[a][b] \in Seq(Message)
      BY DEF Inboxes
    <3> HIDE DEF msg
    <3> QED
      BY <2>1, <3>1, AppendMessage
  <2>4. \A a, b \in Peer : \A m \in Range(inbox'[a][b]) :
               m \in Range(inbox[a][b]) \/ m.ids \subseteq log'[b]
    <3> SUFFICES ASSUME NEW a \in Peer, NEW b \in Peer, NEW m \in Range(inbox'[a][b])
                 PROVE  m \in Range(inbox[a][b]) \/ m.ids \subseteq log'[b]
      OBVIOUS
    <3>1. m \in Range(inbox[a][b]) \/ m = msg
      <4> HIDE DEF msg
      <4>1. CASE inbox'[a][b] = inbox[a][b]
        BY <4>1
      <4>2. CASE inbox'[a][b] = Append(inbox[a][b], msg)
        <5>1. Range(inbox'[a][b]) = Range(inbox[a][b]) \cup {msg}
          BY <2>3, <4>2
        <5> QED
          BY <5>1
      <4> QED
        BY <2>2, <4>1, <4>2
    <3> QED
      BY <2>1, <3>1
  <2> QED
    BY <1>2, <2>4
<1>14. ASSUME NEW p \in Peer, NEW q \in Peer, Lose(p, q) PROVE MessagesTrue'
  <2>1. \A a, b \in Peer : Range(inbox'[a][b]) \subseteq Range(inbox[a][b])
    <3> DEFINE front == SubSeq(inbox[p][q], 1, Len(inbox[p][q]) - 1)
    <3>1. inbox[p][q] \in Seq(Message) /\ inbox[p][q] # <<>>
      BY <1>14 DEF Lose, Inboxes
    <3>2. Range(front) \subseteq Range(inbox[p][q])
      BY <3>1, FrontRange
    <3>3. inbox' = [inbox EXCEPT ![p][q] = front]
      BY <1>14 DEF Lose
    <3> QED
      BY <3>2, <3>3 DEF Inboxes
  <2> QED
    BY <1>2, <2>1
<1>15. CASE \/ \E p \in Peer : ReadHeads(p) \/ Stop(p) \/ Start(p)
            \/ \E p \in Peer, e \in Event : AppendOwn(p, e)
            \/ \E p, q \in Peer : Disconnect(p, q)
            \/ UNCHANGED vars
  BY <1>3, <1>15 DEF ReadHeads, Stop, Start, AppendOwn, Disconnect, vars
<1> QED
  BY <1>7, <1>8, <1>9, <1>10, <1>11, <1>12, <1>13, <1>14, <1>15
  DEF Next, Handler, Application, Environment

\* The heart of the matter.  A sync starts from a missing set whose parents are
\* missing too or at the peer, cut up parents first; and it moves on to the
\* next chunk only over an ACK of the awaited one, which the peer sent after
\* storing it.  Whatever else happens, the peer's log only grows.
LEMMA OutstandingStep ==
  TypeOK /\ MessagesTrue /\ MissingSendable /\ OutstandingChunkAppendable /\ [Next]_vars
    => OutstandingChunkAppendable'
<1> SUFFICES ASSUME TypeOK, MessagesTrue, MissingSendable, OutstandingChunkAppendable,
                    [Next]_vars
             PROVE  OutstandingChunkAppendable'
  OBVIOUS
<1> DEFINE Good(cs, L) ==
             \A i \in DOMAIN cs : \A e \in cs[i] : Parents[e] \subseteq L \cup Upto(cs, i)
<1>1. \A p \in Peer : log[p] \subseteq log'[p]
  BY LogsGrow
<1>2. \A p, q \in Peer : Good(Outstanding(p, q), log'[q])
  BY <1>1 DEF OutstandingChunkAppendable
<1>3. ASSUME NEW p \in Peer, NEW q \in Peer,
             Good(Outstanding(p, q)', log'[q]),
             \A a, b \in Peer : <<a, b>> # <<p, q>> =>
               /\ lastSentChunkIds'[a][b] = lastSentChunkIds[a][b]
               /\ pendingChunks'[a][b] = pendingChunks[a][b]
      PROVE  OutstandingChunkAppendable'
  <2> SUFFICES ASSUME NEW a \in Peer, NEW b \in Peer
               PROVE  Good(Outstanding(a, b)', log'[b])
    BY DEF OutstandingChunkAppendable
  <2>1. CASE <<a, b>> = <<p, q>>
    BY <1>3, <2>1
  <2>2. CASE <<a, b>> # <<p, q>>
    <3>1. Outstanding(a, b)' = Outstanding(a, b)
      BY <1>3, <2>2 DEF Outstanding
    <3> QED
      BY <1>2, <3>1
  <2> QED
    BY <2>1, <2>2
<1>4. CASE UNCHANGED syncVars
  <2>1. \A p, q \in Peer : Outstanding(p, q)' = Outstanding(p, q)
    BY <1>4 DEF syncVars, Outstanding
  <2> QED
    BY <1>2, <2>1 DEF OutstandingChunkAppendable
<1>5. ASSUME NEW p \in Peer, SendChunked(p) PROVE OutstandingChunkAppendable'
  <2> DEFINE S == work[p].ids
  <2>1. S \in SUBSET Event
    BY DEF TypeOK, Work
  <2>2. PICK q \in Peer : q = work[p].peer
    BY DEF TypeOK, Work
  <2>3. CASE ~UNCHANGED syncVars
    <3>1. PICK cs \in Chunkings(S) :
            /\ pendingChunks' = [pendingChunks EXCEPT ![p][q] = Tail(cs)]
            /\ lastSentChunkIds' = [lastSentChunkIds EXCEPT ![p][q] = cs[1]]
      BY <1>5, <2>2, <2>3 DEF SendChunked
    <3>2. S # {}
      BY <1>5, <2>3 DEF SendChunked
    <3>3. /\ cs \in Seq(Chunk) /\ cs # <<>>
          /\ \A i \in DOMAIN cs : cs[i] \subseteq S
          /\ ParentsFirst(cs, S)
      BY <2>1, <3>2, ChunkingsType
    <3>4. /\ lastSentChunkIds'[p][q] = Head(cs)
          /\ pendingChunks'[p][q] = Tail(cs)
          /\ \A a, b \in Peer : <<a, b>> # <<p, q>> =>
               /\ lastSentChunkIds'[a][b] = lastSentChunkIds[a][b]
               /\ pendingChunks'[a][b] = pendingChunks[a][b]
      <4>1. /\ lastSentChunkIds \in [Peer -> [Peer -> SUBSET Event]]
            /\ pendingChunks \in [Peer -> [Peer -> Seq(Chunk)]]
        BY DEF TypeOK
      <4>2. Head(cs) = cs[1]
        BY <3>3
      <4>3. /\ lastSentChunkIds'[p][q] = cs[1]
            /\ \A a, b \in Peer : <<a, b>> # <<p, q>> =>
                 lastSentChunkIds'[a][b] = lastSentChunkIds[a][b]
        BY <3>1, <4>1
      <4>4. /\ pendingChunks'[p][q] = Tail(cs)
            /\ \A a, b \in Peer : <<a, b>> # <<p, q>> =>
                 pendingChunks'[a][b] = pendingChunks[a][b]
        BY <3>1, <4>1
      <4> QED
        BY <4>2, <4>3, <4>4
    <3>5. Outstanding(p, q)' = cs
      <4>1. <<Head(cs)>> \o Tail(cs) = cs
        BY <3>3, ConsHeadTail
      <4> QED
        BY <3>4, <4>1 DEF Outstanding
    <3>6. \A e \in S : Parents[e] \subseteq S \cup log'[q]
      BY <1>1, <1>5, <2>2 DEF SendChunked, MissingSendable
    <3>7. Good(cs, log'[q])
      BY <3>3, <3>6 DEF ParentsFirst
    <3>8. Good(Outstanding(p, q)', log'[q])
      BY <3>5, <3>7
    <3> QED
      BY <1>3, <3>4, <3>8
  <2> QED
    BY <1>4, <2>3
<1>6. ASSUME NEW p \in Peer, NEW q \in Peer, HandleAck(p, q)
      PROVE  OutstandingChunkAppendable'
  <2> DEFINE cs == pendingChunks[p][q]
  <2>1. CASE UNCHANGED syncVars
    BY <1>4, <2>1
  <2>2. CASE /\ cs = <<>>
             /\ lastSentChunkIds' = [lastSentChunkIds EXCEPT ![p][q] = {}]
             /\ UNCHANGED pendingChunks
    <3>1. /\ lastSentChunkIds'[p][q] = {}
          /\ pendingChunks'[p][q] = <<>>
          /\ \A a, b \in Peer : <<a, b>> # <<p, q>> =>
               /\ lastSentChunkIds'[a][b] = lastSentChunkIds[a][b]
               /\ pendingChunks'[a][b] = pendingChunks[a][b]
      BY <2>2 DEF TypeOK
    <3>2. Outstanding(p, q)' = <<{}>>
      BY <3>1 DEF Outstanding
    <3>3. Good(<<{}>>, log'[q])
      OBVIOUS
    <3> QED
      BY <1>3, <3>1, <3>2, <3>3
  <2>3. CASE /\ ~UNCHANGED syncVars /\ cs # <<>>
             /\ pendingChunks' = [pendingChunks EXCEPT ![p][q] = Tail(@)]
             /\ lastSentChunkIds' = [lastSentChunkIds EXCEPT ![p][q] = Head(cs)]
    <3>1. /\ lastSentChunkIds'[p][q] = Head(cs)
          /\ pendingChunks'[p][q] = Tail(cs)
          /\ \A a, b \in Peer : <<a, b>> # <<p, q>> =>
               /\ lastSentChunkIds'[a][b] = lastSentChunkIds[a][b]
               /\ pendingChunks'[a][b] = pendingChunks[a][b]
      BY <2>3 DEF TypeOK
    <3>2. cs \in Seq(Chunk)
      BY DEF TypeOK
    <3>3. Outstanding(p, q)' = cs
      BY <2>3, <3>1, <3>2, ConsHeadTail DEF Outstanding
    <3>4. lastSentChunkIds[p][q] \subseteq log'[q]
      <4>1. /\ inbox[p][q] # <<>> /\ Head(inbox[p][q]).type = "ACK"
            /\ Head(inbox[p][q]).ids = lastSentChunkIds[p][q]
        BY <1>6, <2>3 DEF HandleAck, NextTask, AdvanceChunkQueue
      <4>2. Head(inbox[p][q]) \in Range(inbox[p][q])
        BY <4>1, TakenInbox DEF TypeOK
      <4> QED
        BY <1>1, <4>1, <4>2 DEF MessagesTrue
    <3>5. Good(cs, log'[q])
      <4> SUFFICES ASSUME NEW i \in DOMAIN cs, NEW e \in cs[i]
                   PROVE  Parents[e] \subseteq log'[q] \cup Upto(cs, i)
        OBVIOUS
      <4> DEFINE all == Outstanding(p, q)
      <4>1. /\ i \in 1..Len(cs) /\ Len(cs) \in Nat
            /\ i + 1 \in DOMAIN all /\ all[1] = lastSentChunkIds[p][q]
            /\ \A j \in 1..Len(cs) : all[j + 1] = cs[j]
        BY <3>2 DEF Outstanding
      <4>2. Parents[e] \subseteq log'[q] \cup Upto(all, i + 1)
        BY <1>2, <4>1
      <4>3. Upto(all, i + 1) \subseteq all[1] \cup Upto(cs, i)
        <5> SUFFICES ASSUME NEW j \in 1..(i + 1), j # 1
                     PROVE  all[j] \subseteq Upto(cs, i)
          BY DEF Upto
        <5>1. j - 1 \in 1..i /\ j - 1 \in 1..Len(cs) /\ (j - 1) + 1 = j
          BY <4>1
        <5>2. all[j] = cs[j - 1]
          BY <4>1, <5>1
        <5> QED
          BY <5>1, <5>2 DEF Upto
      <4> QED
        BY <3>4, <4>1, <4>2, <4>3
    <3> QED
      BY <1>3, <3>1, <3>3, <3>5
  <2> QED
    BY <1>6, <2>1, <2>2, <2>3 DEF HandleAck, AdvanceChunkQueue
<1>7. ASSUME NEW p \in Peer, Stop(p) PROVE OutstandingChunkAppendable'
  <2> SUFFICES ASSUME NEW a \in Peer, NEW b \in Peer
               PROVE  Good(Outstanding(a, b)', log'[b])
    BY DEF OutstandingChunkAppendable
  <2>1. CASE a = p
    <3>1. Outstanding(a, b)' = <<{}>>
      BY <1>7, <2>1 DEF Stop, Outstanding, TypeOK
    <3> QED
      BY <3>1
  <2>2. CASE a # p
    <3>1. Outstanding(a, b)' = Outstanding(a, b)
      BY <1>7, <2>2 DEF Stop, Outstanding, TypeOK
    <3> QED
      BY <1>2, <3>1
  <2> QED
    BY <2>1, <2>2
<1> QED
  BY <1>4, <1>5, <1>6, <1>7, SyncStep

LEMMA IInvStep == IInv /\ [Next]_vars => IInv'
BY TypeStep, LogsClosedStep, UnpublishedStep, MessagesTrueStep, WorkTrueStep,
   OutstandingTrueStep, MissingSendableStep, OutstandingStep DEF IInv

LEMMA IInvAlways == Spec => []IInv
BY InitIInv, IInvStep, PTL DEF Spec
-----------------------------------------------------------------------------
(* What follows.                                                           *)

\* Heads and acknowledgements tell the truth about their sender's log, however
\* late they are read, and so do events that were not just published.
THEOREM MessagesStayTrue == Spec => []MessagesTrue
BY IInvAlways, PTL DEF IInv

\* No receiver ever refuses a chunk of a sync for want of a parent, whatever
\* connections broke, callbacks threw or replicators restarted meanwhile.
THEOREM ChunksStayAppendable == Spec => []OutstandingChunkAppendable
BY IInvAlways, PTL DEF IInv

\* The maps of every replicator agree on which peers it is syncing to.
THEOREM SyncStateStaysConsistent == Spec => []SyncStateConsistent
<1>1. Init => SyncStateConsistent
  BY DEF Init, SyncStateConsistent
<1>2. TypeOK /\ SyncStateConsistent /\ [Next]_vars => SyncStateConsistent'
  <2> SUFFICES ASSUME TypeOK, SyncStateConsistent, [Next]_vars
               PROVE  SyncStateConsistent'
    OBVIOUS
  <2> USE DEF SyncStateConsistent
  <2>1. CASE UNCHANGED syncVars
    BY <2>1 DEF syncVars
  <2>2. ASSUME NEW p \in Peer, Stop(p) PROVE SyncStateConsistent'
    BY <2>2 DEF Stop, TypeOK
  <2>3. ASSUME NEW p \in Peer, SendChunked(p) PROVE SyncStateConsistent'
    <3> DEFINE q == work[p].peer
    <3>1. q \in Peer /\ work[p].ids \in SUBSET Event
      BY DEF TypeOK, Work
    <3>2. CASE ~UNCHANGED syncVars
      <4>1. PICK cs \in Chunkings(work[p].ids) :
              /\ syncInFlight' = [syncInFlight EXCEPT ![p] = @ \cup {q}]
              /\ pendingChunks' = [pendingChunks EXCEPT ![p][q] = Tail(cs)]
              /\ lastSentChunkIds' = [lastSentChunkIds EXCEPT ![p][q] = cs[1]]
        BY <2>3, <3>2 DEF SendChunked
      <4>2. work[p].ids # {}
        BY <2>3, <3>2 DEF SendChunked
      <4>3. cs \in Seq(Chunk) /\ cs # <<>>
        BY <3>1, <4>2, ChunkingsType
      <4>4. cs[1] # {}
        BY <4>3 DEF Chunk
      <4> QED
        BY <3>1, <4>1, <4>4 DEF TypeOK
    <3> QED
      BY <3>2, <2>1
  <2>4. ASSUME NEW p \in Peer, NEW q \in Peer, HandleAck(p, q)
        PROVE  SyncStateConsistent'
    <3>1. CASE UNCHANGED syncVars
      BY <2>1, <3>1
    <3>2. CASE /\ pendingChunks[p][q] = <<>>
               /\ syncInFlight' = [syncInFlight EXCEPT ![p] = @ \ {q}]
               /\ lastSentChunkIds' = [lastSentChunkIds EXCEPT ![p][q] = {}]
               /\ UNCHANGED pendingChunks
      BY <3>2 DEF TypeOK
    <3>3. CASE /\ pendingChunks[p][q] # <<>>
               /\ pendingChunks' = [pendingChunks EXCEPT ![p][q] = Tail(@)]
               /\ lastSentChunkIds' =
                    [lastSentChunkIds EXCEPT ![p][q] = Head(pendingChunks[p][q])]
               /\ UNCHANGED syncInFlight
      <4>1. Head(pendingChunks[p][q]) # {}
        BY <3>3, TailRange DEF TypeOK, Chunk
      <4> QED
        BY <3>3, <4>1 DEF TypeOK
    <3> QED
      BY <2>4, <3>1, <3>2, <3>3 DEF HandleAck, AdvanceChunkQueue
  <2> QED
    BY <2>1, <2>2, <2>3, <2>4, SyncStep
<1> QED
  BY <1>1, <1>2, TypeCorrect, PTL DEF Spec

\* Backpressure: a chunk is released, and a sync ends, only when the peer has
\* stored the chunk before.
THEOREM Backpressure == Spec => ReleasedOnlyWhenStored
<1>1. IInv /\ SyncStateConsistent /\ [Next]_vars
        => [\A p, q \in Peer : MovesOnOnlyWhenStored(p, q)]_vars
  <2> SUFFICES ASSUME IInv, SyncStateConsistent, [Next]_vars, NEW p \in Peer, NEW q \in Peer
               PROVE  MovesOnOnlyWhenStored(p, q)
    OBVIOUS
  <2> USE DEF MovesOnOnlyWhenStored, IInv
  <2>1. CASE UNCHANGED syncVars
    BY <2>1 DEF syncVars
  <2>2. ASSUME NEW a \in Peer, Stop(a) PROVE MovesOnOnlyWhenStored(p, q)
    BY <2>2 DEF Stop, TypeOK
  <2>3. ASSUME NEW a \in Peer, SendChunked(a) PROVE MovesOnOnlyWhenStored(p, q)
    <3> DEFINE b == work[a].peer
    <3>1. b \in Peer
      BY DEF TypeOK, Work
    <3>2. CASE b \notin syncInFlight[a]
      <4>1. lastSentChunkIds[a][b] = {}
        BY <3>1, <3>2 DEF SyncStateConsistent
      <4>2. \/ UNCHANGED lastSentChunkIds
            \/ \E c : lastSentChunkIds' = [lastSentChunkIds EXCEPT ![a][b] = c]
        BY <2>3 DEF SendChunked, syncVars
      <4>3. \A x, y \in Peer : <<x, y>> # <<a, b>> =>
              lastSentChunkIds'[x][y] = lastSentChunkIds[x][y]
        <5> HIDE DEF b
        <5>1. CASE UNCHANGED lastSentChunkIds
          BY <5>1
        <5>2. ASSUME NEW c, lastSentChunkIds' = [lastSentChunkIds EXCEPT ![a][b] = c]
              PROVE  \A x, y \in Peer : <<x, y>> # <<a, b>> =>
                       lastSentChunkIds'[x][y] = lastSentChunkIds[x][y]
          BY <3>1, <5>2 DEF TypeOK
        <5> QED
          BY <4>2, <5>1, <5>2
      <4> HIDE DEF b
      <4> QED
        BY <4>1, <4>3
    <3>3. CASE b \in syncInFlight[a]
      BY <2>3, <3>3 DEF SendChunked, syncVars
    <3> QED
      BY <3>2, <3>3
  <2>4. ASSUME NEW a \in Peer, NEW b \in Peer, HandleAck(a, b)
        PROVE  MovesOnOnlyWhenStored(p, q)
    <3>1. inbox[a][b] # <<>> /\ Head(inbox[a][b]).type = "ACK"
      BY <2>4 DEF HandleAck, NextTask
    <3>2. Head(inbox[a][b]).ids \subseteq log[b]
      <4>1. Head(inbox[a][b]) \in Range(inbox[a][b])
        BY <3>1, TakenInbox DEF TypeOK
      <4> QED
        BY <3>1, <4>1 DEF MessagesTrue
    <3> QED
      <4>1. CASE UNCHANGED lastSentChunkIds
        BY <4>1
      <4>2. CASE ~UNCHANGED lastSentChunkIds
        <5>1. /\ Head(inbox[a][b]).ids = lastSentChunkIds[a][b]
              /\ \E c : lastSentChunkIds' = [lastSentChunkIds EXCEPT ![a][b] = c]
          BY <2>4, <4>2 DEF HandleAck, AdvanceChunkQueue, syncVars
        <5>2. \A x, y \in Peer : <<x, y>> # <<a, b>> =>
                lastSentChunkIds'[x][y] = lastSentChunkIds[x][y]
          BY <5>1 DEF TypeOK
        <5> QED
          BY <3>2, <5>1, <5>2
      <4> QED
        BY <4>1, <4>2
  <2> QED
    BY <2>1, <2>2, <2>3, <2>4, SyncStep
<1> QED
  BY <1>1, IInvAlways, SyncStateStaysConsistent, PTL DEF Spec, ReleasedOnlyWhenStored

\* Replication implements CausalGossip: every log stays closed under parents,
\* never loses an event and takes one only from a peer that has it.
THEOREM Implementation == Spec => ImplementsCausalGossip
<1>1. Init => Gossip!Init
  BY DEF Init, Gossip!Init
<1>2. IInv /\ [Next]_vars => [Gossip!Next]_log
  <2> SUFFICES ASSUME IInv, [Next]_vars, ~UNCHANGED log PROVE Gossip!Next
    OBVIOUS
  <2>1. ASSUME NEW p \in Peer, NEW e \in Event, AppendOwn(p, e) PROVE Gossip!Next
    BY <2>1 DEF AppendOwn, Gossip!Next, Gossip!AppendOwn
  <2>2. ASSUME NEW p \in Peer, NEW q \in Peer, HandleEvents(p, q) PROVE Gossip!Next
    <3> DEFINE ids == Head(inbox[p][q]).ids
               D == Appendable(log[p], ids)
    <3>1. inbox[p][q] # <<>>
      BY <2>2 DEF HandleEvents, NextTask
    <3>2. ids \subseteq log[q] \cup Own[q]
      <4>1. Head(inbox[p][q]) \in Range(inbox[p][q])
        BY <3>1, TakenInbox DEF IInv, TypeOK
      <4> QED
        BY <4>1 DEF IInv, MessagesTrue
    <3>3. D \in SUBSET (log[q] \cup Own[q]) /\ ParentClosed(log[p] \cup D)
      BY <3>2, AppendableClosed DEF IInv, LogsClosed
    <3>4. Gossip!Gossip(p, q)
      BY <2>2, <3>3 DEF HandleEvents, Gossip!Gossip, Gossip!ParentClosed, ParentClosed
    <3> QED
      BY <3>4 DEF Gossip!Next
  <2> QED
    BY <2>1, <2>2, LogStep
<1> QED
  BY <1>1, <1>2, IInvAlways, PTL DEF Spec, ImplementsCausalGossip, Gossip!Spec
=============================================================================
