---------------------------- MODULE ExchangeProofs ----------------------------
(***************************************************************************)
(* Whole exchanges between replicators whose applications make no events:  *)
(* two peers that are connected find out what they lack, and no chunk is   *)
(* in transit twice.                                                       *)
(***************************************************************************)
EXTENDS ReplicationProofs

\* No application has events to append or to publish.
Silent == \A p \in Peer : Own[p] = {}

\* There are two peers at most.
AtMostTwo == \A p, q, r \in Peer : p = q \/ q = r \/ p = r
-----------------------------------------------------------------------------
(* The inductive invariants.                                               *)

\* Nobody is connected to itself, and the heads that a handler is about to
\* send are those of a HELLO or of a HELLO_ACK.
PeersApart ==
  \A p \in Peer :
    /\ {p} \notin links /\ inbox[p][p] = <<>> /\ unpublished[p] = {}
    /\ work[p].at # "idle" => work[p].peer # p
    /\ work[p].at \in {"sync", "send"} => work[p].type \in {"HELLO", "HELLO_ACK"}

\* What p has and q has not is in the missing set that p has computed for q.
MissingCovers(p, q) ==
  work[p].at = "sync" /\ work[p].peer = q => log[p] \subseteq log[q] \cup work[p].ids

\* The events of the chunks that q has not acknowledged.
Unacked(p, q) == lastSentChunkIds[p][q] \cup UNION Range(pendingChunks[p][q])

\* What p has and q has not is in the chunks of the sync from p to q.
SyncCovers(p, q) == q \in syncInFlight[p] => log[p] \subseteq log[q] \cup Unacked(p, q)

\* p will hear of q's heads, or has computed what q lacks.
Asked(p, q) ==
  \/ \E m \in Range(inbox[q][p]) : m.type = "JOIN"
  \/ work[q].at = "send" /\ work[q].peer = p
  \/ \E m \in Range(inbox[p][q]) : m.type \in {"HELLO", "HELLO_ACK"}
  \/ work[p].at = "sync" /\ work[p].peer = q

\* p and q are connected, and both heard of it.
Attended(p, q) == Linked(p, q) /\ {p, q} \notin unattended

\* At both ends of such a connection the replicator still runs.
AttendedRun == \A p, q \in Peer : Attended(p, q) => running[p] /\ running[q]

\* A connected peer has what p has, or is being sent it, or p will find out.
FoundOut(p, q) ==
  Attended(p, q) => log[p] \subseteq log[q] \/ q \in syncInFlight[p] \/ Asked(p, q)

ExchangeInv ==
  \A p, q \in Peer : p # q => MissingCovers(p, q) /\ SyncCovers(p, q) /\ FoundOut(p, q)

\* The positions of the messages of one type in an inbox.
Of(s, type) == {i \in DOMAIN s : s[i].type = type}

\* Of the chunks sent and the ACKs received there is one message at most, and it
\* is about the chunk c.
OneMessage(sent, received, c) ==
  /\ \A i, j \in Of(sent, "EVENTS") : i = j
  /\ \A i, j \in Of(received, "ACK") : i = j
  /\ Of(sent, "EVENTS") = {} \/ Of(received, "ACK") = {}
  /\ \A i \in Of(sent, "EVENTS") : sent[i].ids = c
  /\ \A i \in Of(received, "ACK") : received[i].ids = c
  /\ c = {} => Of(sent, "EVENTS") = {} /\ Of(received, "ACK") = {}

\* The chunk that p awaits the ACK of is on its way to q, or its ACK is on its
\* way back, once, and no other chunk or ACK is.
OneChunk(p, q) == OneMessage(inbox[q][p], inbox[p][q], lastSentChunkIds[p][q])

OneChunkInv == \A p, q \in Peer : p # q => OneChunk(p, q)
-----------------------------------------------------------------------------
(* Inboxes, one by one.                                                    *)

LEMMA SentAt ==
  ASSUME NEW box \in Inboxes, NEW p \in Peer, NEW q \in Peer, NEW m, NEW a \in Peer, NEW b \in Peer
  PROVE  Sent(box, p, q, m)[a][b] =
           IF a = q /\ b = p /\ Hears(p, q) THEN Append(box[a][b], m) ELSE box[a][b]
BY DEF Sent, Inboxes

LEMMA TakenAt ==
  ASSUME inbox \in Inboxes, NEW p \in Peer, NEW q \in Peer, NEW a \in Peer, NEW b \in Peer
  PROVE  Taken(p, q)[a][b] = IF a = p /\ b = q THEN Tail(inbox[a][b]) ELSE inbox[a][b]
BY DEF Taken, Inboxes

\* Which steps change an inbox.
LEMMA InboxStep ==
  [Next]_vars => \/ UNCHANGED inbox
                 \/ \E p, q \in Peer : \/ HandleJoin(p, q) \/ HandleHello(p, q)
                                       \/ HandleEvents(p, q) \/ HandleAck(p, q)
                                       \/ Connect(p, q) \/ Lose(p, q)
                 \/ \E p \in Peer : SendChunked(p) \/ SendHeads(p)
                 \/ \E p \in Peer : Application(p)
<1>1. ASSUME NEW p \in Peer, Handler(p)
      PROVE  \/ UNCHANGED inbox \/ SendChunked(p) \/ SendHeads(p)
             \/ \E q \in Peer : \/ HandleJoin(p, q) \/ HandleHello(p, q)
                                \/ HandleEvents(p, q) \/ HandleAck(p, q)
  BY <1>1 DEF Handler, ReadHeads
<1>2. ASSUME NEW p \in Peer, Environment(p)
      PROVE  UNCHANGED inbox \/ \E q \in Peer : Connect(p, q) \/ Lose(p, q)
  BY <1>2 DEF Environment, Disconnect, Stop, Start
<1>3. QED
  BY <1>1, <1>2 DEF Next, vars

\* What a handler makes of the inbox its task is taken from, and of the one it
\* sends to.
LEMMA HandlerInbox ==
  ASSUME TypeOK, NEW p \in Peer, NEW q \in Peer, p # q, NEW a \in Peer, NEW b \in Peer,
         \/ HandleJoin(p, q) \/ HandleHello(p, q) \/ HandleEvents(p, q) \/ HandleAck(p, q)
  PROVE  /\ inbox[p][q] # <<>>
         /\ a = p /\ b = q => inbox'[a][b] = Tail(inbox[a][b])
         /\ a = q /\ b = p => \/ inbox'[a][b] = inbox[a][b]
                              \/ \E m : /\ m.type \in {"EVENTS", "ACK"}
                                        /\ inbox'[a][b] = Append(inbox[a][b], m)
         /\ <<a, b>> \notin {<<p, q>>, <<q, p>>} => inbox'[a][b] = inbox[a][b]
<1>1. inbox[p][q] # <<>>
  BY DEF HandleJoin, HandleHello, HandleEvents, HandleAck, NextTask
<1>2. \/ inbox' = Taken(p, q)
      \/ \E m : m.type \in {"EVENTS", "ACK"} /\ inbox' = Sent(Taken(p, q), p, q, m)
  <2>1. CASE HandleJoin(p, q) \/ HandleHello(p, q)
    BY <2>1 DEF HandleJoin, HandleHello
  <2>2. CASE HandleEvents(p, q)
    <3>1. PICK m : m = [type |-> "ACK", ids |-> Head(inbox[p][q]).ids]
      OBVIOUS
    <3>2. inbox' = Taken(p, q) \/ inbox' = Sent(Taken(p, q), p, q, m)
      BY <2>2, <3>1 DEF HandleEvents
    <3>3. m.type = "ACK"
      BY <3>1
    <3>4. QED
      BY <3>2, <3>3
  <2>3. CASE HandleAck(p, q)
    <3>1. PICK m : m = [type |-> "EVENTS", ids |-> Head(pendingChunks[p][q])]
      OBVIOUS
    <3>2. inbox' = Taken(p, q) \/ inbox' = Sent(Taken(p, q), p, q, m)
      BY <2>3, <3>1 DEF HandleAck, AdvanceChunkQueue
    <3>3. m.type = "EVENTS"
      BY <3>1
    <3>4. QED
      BY <3>2, <3>3
  <2>4. QED
    BY <2>1, <2>2, <2>3
<1>3. PICK box : box = Taken(p, q)
  OBVIOUS
<1>4. box \in Inboxes /\ box[a][b] = IF a = p /\ b = q THEN Tail(inbox[a][b]) ELSE inbox[a][b]
  <2>1. inbox \in Inboxes
    BY DEF TypeOK
  <2>2. Taken(p, q) \in Inboxes
    BY <1>1, <2>1, TakenInbox
  <2>3. Taken(p, q)[a][b] = IF a = p /\ b = q THEN Tail(inbox[a][b]) ELSE inbox[a][b]
    BY <2>1, TakenAt
  <2>4. QED
    BY <1>3, <2>2, <2>3
<1>5. CASE inbox' = box
  BY <1>1, <1>4, <1>5
<1>6. ASSUME NEW m, m.type \in {"EVENTS", "ACK"}, inbox' = Sent(box, p, q, m)
      PROVE  /\ a = p /\ b = q => inbox'[a][b] = Tail(inbox[a][b])
             /\ a = q /\ b = p => \/ inbox'[a][b] = inbox[a][b]
                                  \/ inbox'[a][b] = Append(inbox[a][b], m)
             /\ <<a, b>> \notin {<<p, q>>, <<q, p>>} => inbox'[a][b] = inbox[a][b]
  <2>1. Sent(box, p, q, m)[a][b] =
          IF a = q /\ b = p /\ Hears(p, q) THEN Append(box[a][b], m) ELSE box[a][b]
    BY <1>4, SentAt
  <2>2. inbox'[a][b] = IF a = q /\ b = p /\ Hears(p, q) THEN Append(box[a][b], m) ELSE box[a][b]
    BY <1>6, <2>1
  <2>3. QED
    BY <1>4, <2>2
<1>7. QED
  BY <1>1, <1>2, <1>3, <1>5, <1>6

\* What a connection does to the inboxes.
LEMMA EnvironmentInbox ==
  ASSUME TypeOK, NEW p \in Peer, NEW q \in Peer, NEW a \in Peer, NEW b \in Peer
  PROVE  /\ Connect(p, q) =>
              inbox'[a][b] = IF <<a, b>> \in {<<p, q>>, <<q, p>>} /\ running[a]
                               THEN Append(inbox[a][b], [type |-> "JOIN", ids |-> {}])
                               ELSE inbox[a][b]
         /\ Lose(p, q) =>
              inbox'[a][b] = IF <<a, b>> = <<p, q>>
                               THEN SubSeq(inbox[a][b], 1, Len(inbox[a][b]) - 1)
                               ELSE inbox[a][b]
<1>1. ASSUME Connect(p, q)
      PROVE  inbox'[a][b] = IF <<a, b>> \in {<<p, q>>, <<q, p>>} /\ running[a]
                               THEN Append(inbox[a][b], [type |-> "JOIN", ids |-> {}])
                               ELSE inbox[a][b]
  <2>1. PICK join : join = [type |-> "JOIN", ids |-> {}]
    OBVIOUS
  <2>2. /\ p # q
        /\ inbox' = [inbox EXCEPT
                        ![p][q] = IF running[p] THEN Append(inbox[p][q], join) ELSE inbox[p][q],
                        ![q][p] = IF running[q] THEN Append(inbox[q][p], join) ELSE inbox[q][p]]
    BY <1>1, <2>1 DEF Connect
  <2>3. inbox'[a][b] = IF <<a, b>> \in {<<p, q>>, <<q, p>>} /\ running[a]
                         THEN Append(inbox[a][b], join) ELSE inbox[a][b]
    BY <2>2 DEF TypeOK, Inboxes
  <2>4. QED
    BY <2>1, <2>3
<1>2. ASSUME Lose(p, q)
      PROVE  inbox'[a][b] = IF <<a, b>> = <<p, q>>
                               THEN SubSeq(inbox[a][b], 1, Len(inbox[a][b]) - 1)
                               ELSE inbox[a][b]
  BY <1>2 DEF Lose, TypeOK, Inboxes
<1>3. QED
  BY <1>1, <1>2
-----------------------------------------------------------------------------
(* Nobody is connected to itself.                                          *)

LEMMA InitApart == Silent /\ Init => PeersApart
BY DEF Init, PeersApart, Idle, Silent

LEMMA ApartStep == Silent /\ TypeOK /\ PeersApart /\ [Next]_vars => PeersApart'
<1> SUFFICES ASSUME Silent, TypeOK, PeersApart, [Next]_vars PROVE PeersApart'
  OBVIOUS
<1>1. ASSUME NEW p \in Peer
      PROVE  {p} \notin links /\ inbox[p][p] = <<>> /\ unpublished[p] = {}
  BY DEF PeersApart
<1>2. \A p \in Peer : {p} \notin links'
  <2>1. ASSUME NEW p \in Peer, Handler(p) PROVE links' = links
    BY <2>1 DEF Handler, HandleJoin, HandleHello, HandleEvents, HandleAck, SendChunked,
                ReadHeads, SendHeads, envVars
  <2>2. ASSUME NEW p \in Peer, Application(p) PROVE links' = links
    BY <2>2 DEF Application, AppendOwn, Publish, envVars
  <2>3. ASSUME NEW p \in Peer, NEW q \in Peer, Connect(p, q) PROVE \A r \in Peer : {r} \notin links'
    <3>1. p # q /\ links' = links \cup {{p, q}}
      BY <2>3 DEF Connect
    <3>2. \A r \in Peer : {r} # {p, q}
      BY <3>1
    <3>3. QED
      BY <1>1, <3>1, <3>2
  <2>4. ASSUME NEW p \in Peer, Environment(p) PROVE \A r \in Peer : {r} \notin links'
    BY <1>1, <2>3, <2>4 DEF Environment, Disconnect, Lose, Stop, Start, envVars
  <2>5. QED
    BY <1>1, <2>1, <2>2, <2>4 DEF Next, vars, envVars
<1>3. \A p \in Peer : unpublished'[p] = {}
  <2>1. ASSUME NEW p \in Peer, Handler(p) PROVE unpublished' = unpublished
    BY <2>1 DEF Handler, HandleJoin, HandleHello, HandleEvents, HandleAck, SendChunked,
                ReadHeads, SendHeads
  <2>2. ASSUME NEW p \in Peer, Application(p) PROVE FALSE
    BY <1>1, <2>2 DEF Application, AppendOwn, Publish, Silent
  <2>3. ASSUME NEW p \in Peer, Environment(p) PROVE unpublished' = unpublished
    BY <2>3 DEF Environment, Connect, Disconnect, Lose, Stop, Start
  <2>4. QED
    BY <1>1, <2>1, <2>2, <2>3 DEF Next, vars
<1>4. \A p \in Peer : inbox'[p][p] = <<>>
  <2> SUFFICES ASSUME NEW r \in Peer PROVE inbox'[r][r] = <<>>
    OBVIOUS
  <2>1. ASSUME NEW p \in Peer, NEW q \in Peer,
               \/ HandleJoin(p, q) \/ HandleHello(p, q) \/ HandleEvents(p, q) \/ HandleAck(p, q)
        PROVE  inbox'[r][r] = <<>>
    <3>1. p # q
      BY <1>1, <2>1 DEF HandleJoin, HandleHello, HandleEvents, HandleAck, NextTask
    <3>2. QED
      <4>1. <<r, r>> \notin {<<p, q>>, <<q, p>>}
        BY <3>1
      <4>2. inbox'[r][r] = inbox[r][r]
        BY <2>1, <3>1, <4>1, HandlerInbox
      <4>3. QED
        BY <1>1, <4>2
  <2>2. ASSUME NEW p \in Peer, NEW q \in Peer, Connect(p, q) \/ Lose(p, q)
        PROVE  inbox'[r][r] = <<>>
    <3>1. p # q
      BY <1>1, <2>2 DEF Connect, Lose
    <3>2. QED
      <4>1. <<r, r>> \notin {<<p, q>>, <<q, p>>}
        BY <3>1
      <4>2. inbox'[r][r] = inbox[r][r]
        BY <2>2, <4>1, EnvironmentInbox
      <4>3. QED
        BY <1>1, <4>2
  <2>3. ASSUME NEW p \in Peer, SendChunked(p) \/ SendHeads(p) PROVE inbox'[r][r] = <<>>
    <3>1. work[p].peer \in Peer /\ work[p].peer # p
      BY <2>3 DEF SendChunked, SendHeads, TypeOK, Work, PeersApart
    <3>2. inbox' = inbox \/ \E m : inbox' = Sent(inbox, p, work[p].peer, m)
      BY <2>3 DEF SendChunked, SendHeads
    <3>3. ASSUME NEW q \in Peer, q # p, NEW m, inbox' = Sent(inbox, p, q, m)
          PROVE  inbox'[r][r] = <<>>
      <4>1. Sent(inbox, p, q, m)[r][r] = inbox[r][r]
        BY <3>3, SentAt DEF TypeOK
      <4>2. QED
        BY <1>1, <3>3, <4>1
    <3>4. QED
      BY <1>1, <3>1, <3>2, <3>3
  <2>4. ASSUME NEW p \in Peer, Application(p) PROVE FALSE
    BY <1>1, <2>4 DEF Application, AppendOwn, Publish, Silent
  <2>5. QED
    BY <1>1, <2>1, <2>2, <2>3, <2>4, InboxStep
<1>5. ASSUME NEW p \in Peer
      PROVE  /\ work'[p].at # "idle" => work'[p].peer # p
             /\ work'[p].at \in {"sync", "send"} => work'[p].type \in {"HELLO", "HELLO_ACK"}
  <2>1. CASE work'[p] = work[p]
    BY <2>1 DEF PeersApart
  <2>2. ASSUME NEW q \in Peer, HandleJoin(p, q) \/ HandleHello(p, q)
        PROVE  /\ work'[p].peer = q /\ q # p /\ work'[p].type \in {"HELLO", "HELLO_ACK"}
    <3>1. q # p /\ work[p] \in Work
      BY <1>1, <2>2 DEF HandleJoin, HandleHello, NextTask, TypeOK
    <3>2. PICK w : w.peer = q /\ w.type \in {"HELLO", "HELLO_ACK"} /\ work' = [work EXCEPT ![p] = w]
      <4>1. CASE HandleJoin(p, q)
        <5>1. PICK w : w = [at |-> "send", peer |-> q, type |-> "HELLO", ids |-> Heads(log[p])]
          OBVIOUS
        <5>2. QED
          BY <4>1, <5>1 DEF HandleJoin
      <4>2. CASE HandleHello(p, q)
        <5>1. PICK type \in {"HELLO", "HELLO_ACK"} :
                work' = [work EXCEPT ![p] = [at |-> "sync", peer |-> q, type |-> type,
                                             ids |-> Since(log[p], Head(inbox[p][q]).ids)]]
          BY <4>2 DEF HandleHello
        <5>2. PICK w : w = [at |-> "sync", peer |-> q, type |-> type,
                            ids |-> Since(log[p], Head(inbox[p][q]).ids)]
          OBVIOUS
        <5>3. QED
          BY <5>1, <5>2
      <4>3. QED
        BY <2>2, <4>1, <4>2
    <3>3. work'[p] = w
      BY <3>2 DEF TypeOK
    <3>4. QED
      BY <3>1, <3>2, <3>3
  <2>3. ASSUME SendChunked(p) \/ ReadHeads(p) \/ SendHeads(p)
        PROVE  \/ work'[p].at = "idle"
               \/ work'[p].peer = work[p].peer /\ work[p].at # "idle"
                    /\ (work'[p].at \in {"sync", "send"} => work'[p].type \in {"HELLO", "HELLO_ACK"})
    BY <2>3 DEF SendChunked, ReadHeads, SendHeads, AfterSync, Idle, TypeOK
  <2>4. ASSUME NEW a \in Peer, a # p, NEW q \in Peer,
               \/ HandleJoin(a, q) \/ HandleHello(a, q)
               \/ SendChunked(a) \/ ReadHeads(a) \/ SendHeads(a)
        PROVE  work'[p] = work[p]
    BY <2>4 DEF HandleJoin, HandleHello, SendChunked, ReadHeads, SendHeads, TypeOK
  <2>5. QED
    <3>1. CASE \E a, q \in Peer : HandleJoin(a, q) \/ HandleHello(a, q)
      BY <2>1, <2>2, <2>4, <3>1
    <3>2. CASE \E a \in Peer : SendChunked(a) \/ ReadHeads(a) \/ SendHeads(a)
      BY <2>1, <2>3, <2>4, <3>2 DEF PeersApart
    <3>3. QED
      BY <2>1, <3>1, <3>2, WorkStep
<1>6. QED
  BY <1>2, <1>3, <1>4, <1>5 DEF PeersApart
-----------------------------------------------------------------------------
(* Nothing is forgotten.                                                   *)

\* What since(hs) leaves out, the log that hs is read from has.
LEMMA SinceCovers ==
  ASSUME NEW L \in SUBSET Event, NEW M \in SUBSET Event, NEW hs,
         ParentClosed(L), ParentClosed(M), hs \subseteq M
  PROVE  L \subseteq M \cup Since(L, hs)
<1>1. L \cap M \in SUBSET L /\ hs \cap L \subseteq L \cap M /\ ParentClosed(L \cap M)
  BY DEF ParentClosed
<1>2. Reachable(L, hs) \subseteq M
  BY <1>1 DEF Reachable
<1>3. QED
  BY <1>2 DEF Since

\* The chunks of a missing set leave nothing of it out.
LEMMA ChunksCover ==
  ASSUME NEW S \in SUBSET Event, S # {}, NEW cs \in Chunkings(S)
  PROVE  S \subseteq cs[1] \cup UNION Range(Tail(cs))
<1> SUFFICES ASSUME NEW e \in S PROVE e \in cs[1] \cup UNION Range(Tail(cs))
  OBVIOUS
<1>1. cs \in Seq(Chunk) /\ cs # <<>>
  BY ChunkingsType
<1>2. PICK j \in DOMAIN cs : e \in cs[j]
  BY DEF Chunkings, Upto
<1>3. CASE j # 1
  <2>1. j - 1 \in DOMAIN Tail(cs) /\ Tail(cs)[j - 1] = cs[j]
    BY <1>1, <1>2, <1>3
  <2>2. cs[j] \in Range(Tail(cs))
    BY <2>1 DEF Range
  <2>3. QED
    BY <1>2, <2>2
<1>4. QED
  BY <1>2, <1>3

\* With two peers, one gets only what the other has.
LEMMA LogKept ==
  ASSUME Silent, AtMostTwo, IInv, PeersApart, [Next]_vars, NEW p \in Peer, NEW q \in Peer, p # q,
         NEW X, log[p] \subseteq log[q] \cup X
  PROVE  log'[p] \subseteq log'[q] \cup X
<1>1. log[q] \subseteq log'[q]
  BY LogsGrow DEF IInv
<1>2. ASSUME NEW a \in Peer, NEW b \in Peer, HandleEvents(a, b)
      PROVE  log'[p] \subseteq log[p] \cup log[q]
  <2>1. inbox[a][b] # <<>> /\ log \in [Peer -> SUBSET Event]
    BY <1>2 DEF HandleEvents, NextTask, IInv, TypeOK
  <2>2. CASE a = p
    <3>1. b = q
      <4>1. b # p
        BY <2>1, <2>2 DEF PeersApart
      <4>2. QED
        BY <4>1 DEF AtMostTwo
    <3>2. Head(inbox[a][b]).ids \subseteq log[b]
      <4>1. Head(inbox[a][b]) \in Range(inbox[a][b])
        BY <2>1, TakenInbox DEF IInv, TypeOK
      <4>2. Own[b] = {}
        BY DEF Silent
      <4>3. QED
        BY <4>1, <4>2 DEF IInv, MessagesTrue
    <3>3. Appendable(log[a], Head(inbox[a][b]).ids) \subseteq log[b]
      BY <3>2 DEF Appendable
    <3>4. QED
      BY <1>2, <2>1, <2>2, <3>1, <3>3 DEF HandleEvents
  <2>3. CASE a # p
    BY <1>2, <2>1, <2>3 DEF HandleEvents
  <2>4. QED
    BY <2>2, <2>3
<1>3. ASSUME NEW a \in Peer, NEW e \in Event, AppendOwn(a, e) PROVE FALSE
  BY <1>3 DEF AppendOwn, Silent
<1>4. log'[p] \subseteq log[p] \cup log[q]
  BY <1>2, <1>3, LogStep
<1>5. QED
  BY <1>1, <1>4

\* A missing set stays one that covers what the peer lacks.
LEMMA MissingCoversStep ==
  ASSUME Silent, AtMostTwo, IInv, PeersApart, [Next]_vars, NEW p \in Peer, NEW q \in Peer, p # q,
         MissingCovers(p, q)
  PROVE  MissingCovers(p, q)'
<1>1. TypeOK
  BY DEF IInv
<1>2. CASE work'[p] = work[p]
  BY <1>2, LogKept DEF MissingCovers
<1>3. ASSUME NEW b \in Peer, HandleHello(p, b) PROVE MissingCovers(p, q)'
  <2>1. PICK missing : missing = Since(log[p], Head(inbox[p][b]).ids)
    OBVIOUS
  <2>2. log' = log /\ work'[p].peer = b /\ work'[p].ids = missing
    BY <1>1, <1>3, <2>1 DEF HandleHello, TypeOK
  <2>3. Head(inbox[p][b]).ids \subseteq log[b]
    BY <1>1, <1>3, TakenInbox DEF HandleHello, NextTask, MessagesTrue, IInv, TypeOK
  <2>4. log[p] \subseteq log[b] \cup missing
    BY <1>1, <2>1, <2>3, SinceCovers DEF IInv, LogsClosed, TypeOK
  <2>5. QED
    BY <2>2, <2>4 DEF MissingCovers
<1>4. ASSUME work'[p].at # "sync" PROVE MissingCovers(p, q)'
  BY <1>4 DEF MissingCovers
<1>5. ASSUME \/ \E b \in Peer : HandleJoin(p, b)
             \/ SendChunked(p) \/ ReadHeads(p) \/ SendHeads(p)
      PROVE  work'[p].at # "sync"
  BY <1>1, <1>5 DEF HandleJoin, SendChunked, ReadHeads, SendHeads, AfterSync, Idle, TypeOK
<1>6. ASSUME NEW a \in Peer, a # p, NEW b \in Peer,
             \/ HandleJoin(a, b) \/ HandleHello(a, b)
             \/ SendChunked(a) \/ ReadHeads(a) \/ SendHeads(a)
      PROVE  work'[p] = work[p]
  BY <1>1, <1>6 DEF HandleJoin, HandleHello, SendChunked, ReadHeads, SendHeads, TypeOK
<1>7. CASE \E a, b \in Peer : HandleJoin(a, b) \/ HandleHello(a, b)
  BY <1>2, <1>3, <1>4, <1>5, <1>6, <1>7
<1>8. CASE \E a \in Peer : SendChunked(a) \/ ReadHeads(a) \/ SendHeads(a)
  BY <1>2, <1>4, <1>5, <1>6, <1>8
<1>9. QED
  BY <1>2, <1>7, <1>8, WorkStep

\* A step leaves all syncs but that from p to q as they are.
OthersKept(p, q) ==
  \A a, b \in Peer : <<a, b>> # <<p, q>> =>
    /\ b \in syncInFlight'[a] <=> b \in syncInFlight[a]
    /\ pendingChunks'[a][b] = pendingChunks[a][b]
    /\ lastSentChunkIds'[a][b] = lastSentChunkIds[a][b]

\* A step begins the sync, with this first chunk and this rest.
SyncBegins(p, q, c, rest) ==
  /\ q \notin syncInFlight[p] /\ q \in syncInFlight'[p]
  /\ pendingChunks'[p][q] = rest /\ lastSentChunkIds'[p][q] = c
  /\ inbox' = Sent(inbox, p, q, [type |-> "EVENTS", ids |-> c])

\* A step goes on to the next chunk.
SyncAdvances(p, q) ==
  /\ pendingChunks[p][q] # <<>>
  /\ pendingChunks'[p][q] = Tail(pendingChunks[p][q])
  /\ lastSentChunkIds'[p][q] = Head(pendingChunks[p][q])
  /\ q \in syncInFlight'[p] <=> q \in syncInFlight[p]
  /\ inbox' = Sent(Taken(p, q), p, q, [type |-> "EVENTS", ids |-> Head(pendingChunks[p][q])])

\* A step ends it.
SyncEnds(p, q) ==
  /\ pendingChunks[p][q] = <<>> /\ pendingChunks'[p][q] = <<>>
  /\ q \notin syncInFlight'[p] /\ lastSentChunkIds'[p][q] = {}
  /\ inbox' = Taken(p, q)

\* What an ACK does to the sync it belongs to.
LEMMA AckStep ==
  ASSUME TypeOK, NEW p \in Peer, NEW q \in Peer, HandleAck(p, q)
  PROVE  \/ UNCHANGED syncVars /\ inbox' = Taken(p, q)
         \/ /\ Head(inbox[p][q]).ids = lastSentChunkIds[p][q]
            /\ OthersKept(p, q)
            /\ SyncEnds(p, q) \/ SyncAdvances(p, q)
<1> USE DEF TypeOK, OthersKept, SyncEnds, SyncAdvances
<1>1. CASE UNCHANGED syncVars /\ inbox' = Taken(p, q)
  BY <1>1
<1>2. CASE /\ Head(inbox[p][q]).ids = lastSentChunkIds[p][q]
           /\ pendingChunks[p][q] = <<>>
           /\ syncInFlight' = [syncInFlight EXCEPT ![p] = @ \ {q}]
           /\ lastSentChunkIds' = [lastSentChunkIds EXCEPT ![p][q] = {}]
           /\ inbox' = Taken(p, q)
           /\ UNCHANGED pendingChunks
  <2>1. \A a, b \in Peer :
          /\ b \in syncInFlight'[a] <=> b \in syncInFlight[a] /\ <<a, b>> # <<p, q>>
          /\ lastSentChunkIds'[a][b] = IF a = p /\ b = q THEN {} ELSE lastSentChunkIds[a][b]
    BY <1>2
  <2>2. OthersKept(p, q)
    <3>1. \A a, b \in Peer : <<a, b>> # <<p, q>> =>
            lastSentChunkIds'[a][b] = lastSentChunkIds[a][b]
      BY <2>1
    <3>2. \A a, b \in Peer : <<a, b>> # <<p, q>> =>
            (b \in syncInFlight'[a] <=> b \in syncInFlight[a])
      BY <2>1
    <3>3. \A a, b \in Peer : pendingChunks'[a][b] = pendingChunks[a][b]
      BY <1>2
    <3>4. QED
      BY <3>1, <3>2, <3>3
  <2>3. SyncEnds(p, q)
    BY <1>2, <2>1
  <2>4. QED
    BY <1>2, <2>2, <2>3
<1>3. CASE LET next == Head(pendingChunks[p][q]) IN
           /\ Head(inbox[p][q]).ids = lastSentChunkIds[p][q]
           /\ pendingChunks[p][q] # <<>>
           /\ pendingChunks' = [pendingChunks EXCEPT ![p][q] = Tail(@)]
           /\ lastSentChunkIds' = [lastSentChunkIds EXCEPT ![p][q] = next]
           /\ inbox' = Sent(Taken(p, q), p, q, [type |-> "EVENTS", ids |-> next])
           /\ UNCHANGED syncInFlight
  <2>1. PICK next, rest : next = Head(pendingChunks[p][q]) /\ rest = Tail(pendingChunks[p][q])
    OBVIOUS
  <2>2. \A a, b \in Peer :
          /\ pendingChunks'[a][b] = IF a = p /\ b = q THEN rest ELSE pendingChunks[a][b]
          /\ lastSentChunkIds'[a][b] = IF a = p /\ b = q THEN next ELSE lastSentChunkIds[a][b]
    BY <1>3, <2>1
  <2>3. QED
    BY <1>3, <2>1, <2>2
<1>4. QED
  BY <1>1, <1>2, <1>3 DEF HandleAck, AdvanceChunkQueue

\* What _sendChunked does to the sync it belongs to.
LEMMA SendStep ==
  ASSUME TypeOK, NEW p \in Peer, SendChunked(p), NEW q, q = work[p].peer
  PROVE  /\ work[p].at = "sync" /\ q \in Peer
         /\ \/ UNCHANGED <<inbox, syncVars>> /\ (work[p].ids = {} \/ q \in syncInFlight[p])
            \/ \E c \in Chunk, rest \in Seq(Chunk) :
                 /\ work[p].ids \subseteq c \cup UNION Range(rest)
                 /\ SyncBegins(p, q, c, rest)
                 /\ OthersKept(p, q)
<1>1. q \in Peer /\ work[p].ids \in SUBSET Event /\ work[p].at = "sync"
  BY DEF SendChunked, TypeOK, Work
<1>2. CASE work[p].ids = {} \/ q \in syncInFlight[p]
  BY <1>1, <1>2 DEF SendChunked
<1>3. CASE ~(work[p].ids = {} \/ q \in syncInFlight[p])
  <2>1. PICK cs \in Chunkings(work[p].ids) :
          /\ syncInFlight' = [syncInFlight EXCEPT ![p] = @ \cup {q}]
          /\ pendingChunks' = [pendingChunks EXCEPT ![p][q] = Tail(cs)]
          /\ lastSentChunkIds' = [lastSentChunkIds EXCEPT ![p][q] = cs[1]]
          /\ inbox' = Sent(inbox, p, q, [type |-> "EVENTS", ids |-> cs[1]])
    BY <1>3 DEF SendChunked
  <2>2. cs \in Seq(Chunk) /\ cs # <<>>
    BY <1>1, <1>3, ChunkingsType
  <2>3. PICK c \in Chunk, rest \in Seq(Chunk) : c = cs[1] /\ rest = Tail(cs)
    <3>1. cs[1] \in Chunk /\ Tail(cs) \in Seq(Chunk)
      BY <2>2
    <3>2. QED
      BY <3>1
  <2>4. work[p].ids \subseteq c \cup UNION Range(rest)
    BY <1>1, <1>3, <2>3, ChunksCover
  <2>5. \A a, b \in Peer :
          /\ b \in syncInFlight'[a] <=> b \in syncInFlight[a] \/ <<a, b>> = <<p, q>>
          /\ pendingChunks'[a][b] = IF a = p /\ b = q THEN rest ELSE pendingChunks[a][b]
          /\ lastSentChunkIds'[a][b] = IF a = p /\ b = q THEN c ELSE lastSentChunkIds[a][b]
    BY <1>1, <2>1, <2>3 DEF TypeOK
  <2>6. SyncBegins(p, q, c, rest) /\ OthersKept(p, q)
    <3>1. q \notin syncInFlight[p]
      BY <1>3
    <3>2. q \in syncInFlight'[p] /\ pendingChunks'[p][q] = rest /\ lastSentChunkIds'[p][q] = c
      BY <1>1, <2>5
    <3>3. OthersKept(p, q)
      BY <2>5 DEF OthersKept
    <3>4. inbox' = Sent(inbox, p, q, [type |-> "EVENTS", ids |-> c])
      BY <2>1, <2>3
    <3>5. QED
      BY <3>1, <3>2, <3>3, <3>4 DEF SyncBegins
  <2>7. QED
    BY <1>1, <2>4, <2>6
<1>4. QED
  BY <1>2, <1>3

\* What p lacked of an acknowledged chunk it lacks no more.
LEMMA AckIsStored ==
  ASSUME IInv, NEW p \in Peer, NEW q \in Peer, HandleAck(p, q)
  PROVE  Head(inbox[p][q]).ids \subseteq log[q]
<1>1. Head(inbox[p][q]).type = "ACK" /\ Head(inbox[p][q]) \in Range(inbox[p][q])
  BY TakenInbox DEF HandleAck, NextTask, IInv, TypeOK
<1>2. QED
  BY <1>1 DEF IInv, MessagesTrue

\* The chunks of a sync stay those that the peer lacks.
LEMMA SyncCoversStep ==
  ASSUME Silent, AtMostTwo, IInv, PeersApart, [Next]_vars, NEW p \in Peer, NEW q \in Peer, p # q,
         MissingCovers(p, q), SyncCovers(p, q)
  PROVE  SyncCovers(p, q)'
<1>1. TypeOK
  BY DEF IInv
<1>2. CASE /\ q \in syncInFlight'[p] => q \in syncInFlight[p]
           /\ pendingChunks'[p][q] = pendingChunks[p][q]
           /\ lastSentChunkIds'[p][q] = lastSentChunkIds[p][q]
  <2>1. PICK X : X = Unacked(p, q)
    OBVIOUS
  <2>2. Unacked(p, q)' = X
    BY <1>2, <2>1 DEF Unacked
  <2>3. ASSUME q \in syncInFlight'[p] PROVE log'[p] \subseteq log'[q] \cup X
    <3>1. log[p] \subseteq log[q] \cup X
      BY <1>2, <2>1, <2>3 DEF SyncCovers
    <3>2. QED
      BY <3>1, LogKept
  <2>4. QED
    BY <2>2, <2>3 DEF SyncCovers
<1>3. CASE UNCHANGED syncVars
  BY <1>2, <1>3 DEF syncVars
<1>4. ASSUME NEW a \in Peer, SendChunked(a) PROVE SyncCovers(p, q)'
  <2>1. PICK b : b = work[a].peer
    OBVIOUS
  <2>2. CASE UNCHANGED <<inbox, syncVars>>
    BY <1>3, <2>2
  <2>3. CASE ~UNCHANGED <<inbox, syncVars>>
    <3>1. PICK c \in Chunk, rest \in Seq(Chunk) :
            /\ work[a].ids \subseteq c \cup UNION Range(rest)
            /\ SyncBegins(a, b, c, rest) /\ OthersKept(a, b)
      BY <1>1, <1>4, <2>1, <2>3, SendStep
    <3>2. CASE <<p, q>> # <<a, b>>
      BY <1>2, <3>1, <3>2 DEF OthersKept
    <3>3. CASE <<p, q>> = <<a, b>>
      <4>1. log[p] \subseteq log[q] \cup work[p].ids
        BY <1>1, <1>4, <2>1, <3>3, SendStep DEF MissingCovers
      <4>2. Unacked(p, q)' = c \cup UNION Range(rest)
        BY <3>1, <3>3 DEF Unacked, SyncBegins
      <4>3. log' = log
        BY <1>4 DEF SendChunked
      <4>4. log'[p] \subseteq log'[q] \cup (c \cup UNION Range(rest))
        BY <3>1, <3>3, <4>1, <4>3
      <4>5. QED
        BY <4>2, <4>4 DEF SyncCovers
    <3>4. QED
      BY <3>2, <3>3
  <2>4. QED
    BY <2>2, <2>3
<1>5. ASSUME NEW a \in Peer, NEW b \in Peer, HandleAck(a, b) PROVE SyncCovers(p, q)'
  <2>1. inbox[a][b] # <<>> /\ log' = log
    BY <1>5 DEF HandleAck, NextTask
  <2>2. CASE UNCHANGED syncVars
    BY <1>3, <2>2
  <2>3. CASE <<p, q>> # <<a, b>>
    BY <1>1, <1>2, <1>5, <2>2, <2>3, AckStep DEF OthersKept
  <2>4. CASE ~UNCHANGED syncVars /\ <<p, q>> = <<a, b>>
    <3>1. Head(inbox[p][q]).ids = lastSentChunkIds[p][q]
      BY <1>1, <1>5, <2>4, AckStep
    <3>2. lastSentChunkIds[p][q] \subseteq log[q]
      BY <1>5, <2>4, <3>1, AckIsStored
    <3>3. ASSUME q \in syncInFlight'[p] PROVE log[p] \subseteq log[q] \cup Unacked(p, q)'
      <4>1. /\ pendingChunks[p][q] # <<>>
            /\ pendingChunks'[p][q] = Tail(pendingChunks[p][q])
            /\ lastSentChunkIds'[p][q] = Head(pendingChunks[p][q])
            /\ q \in syncInFlight[p]
        BY <1>1, <1>5, <2>4, <3>3, AckStep DEF SyncEnds, SyncAdvances
      <4>2. PICK cs \in Seq(Chunk) : cs = pendingChunks[p][q]
        BY <1>1 DEF TypeOK
      <4>3. UNION Range(cs) \subseteq Head(cs) \cup UNION Range(Tail(cs))
        <5>1. ASSUME NEW i \in DOMAIN cs, i # 1 PROVE cs[i] \in Range(Tail(cs))
          <6>1. i - 1 \in DOMAIN Tail(cs) /\ Tail(cs)[i - 1] = cs[i]
            <7>1. cs # <<>> /\ cs \in Seq(Chunk)
              BY <4>1, <4>2
            <7>2. QED
              BY <5>1, <7>1
          <6>2. QED
            BY <6>1 DEF Range
        <5>2. Head(cs) = cs[1]
          BY <4>1, <4>2
        <5>3. QED
          BY <5>1, <5>2 DEF Range
      <4>4. Unacked(p, q)' = Head(cs) \cup UNION Range(Tail(cs))
        BY <4>1, <4>2 DEF Unacked
      <4>5. log[p] \subseteq log[q] \cup (lastSentChunkIds[p][q] \cup UNION Range(cs))
        BY <4>1, <4>2 DEF SyncCovers, Unacked
      <4>6. QED
        BY <3>2, <4>3, <4>4, <4>5
    <3>4. QED
      BY <2>1, <3>3 DEF SyncCovers
  <2>5. QED
    BY <2>2, <2>3, <2>4
<1>6. ASSUME NEW a \in Peer, Stop(a) PROVE SyncCovers(p, q)'
  <2>1. CASE a = p
    BY <1>1, <1>6, <2>1 DEF Stop, SyncCovers, TypeOK
  <2>2. CASE a # p
    BY <1>1, <1>2, <1>6, <2>2 DEF Stop, TypeOK
  <2>3. QED
    BY <2>1, <2>2
<1>7. QED
  BY <1>3, <1>4, <1>5, <1>6, SyncStep

\* A JOIN or a HELLO waits until it is handled, or its connection goes.
LEMMA WaitsToBeHandled ==
  ASSUME TypeOK, Silent, PeersApart, [Next]_vars, NEW a \in Peer, NEW b \in Peer, Linked(a, b)',
         Linked(a, b), NEW m \in Range(inbox[a][b]), m.type \in {"JOIN", "HELLO", "HELLO_ACK"}
  PROVE  \/ m \in Range(inbox'[a][b])
         \/ m.type = "JOIN" /\ HandleJoin(a, b)
         \/ m.type \in {"HELLO", "HELLO_ACK"} /\ HandleHello(a, b)
<1>1. inbox \in Inboxes /\ inbox[a][b] \in Seq(Message) /\ inbox[a][b] # <<>>
  BY DEF TypeOK, Inboxes, Range
<1>2. ASSUME NEW x, inbox'[a][b] = Append(inbox[a][b], x) PROVE m \in Range(inbox'[a][b])
  <2>1. PICK s : s = inbox[a][b]
    OBVIOUS
  <2>2. PICK i \in DOMAIN s : s[i] = m
    BY <2>1 DEF Range
  <2>3. i \in DOMAIN Append(s, x) /\ Append(s, x)[i] = m
    BY <1>1, <2>1, <2>2
  <2>4. m \in Range(Append(s, x))
    BY <2>3 DEF Range
  <2>5. QED
    BY <1>2, <2>1, <2>4
<1>3. CASE inbox'[a][b] = inbox[a][b]
  BY <1>3
<1>4. ASSUME inbox'[a][b] = Tail(inbox[a][b]), m # Head(inbox[a][b])
      PROVE  m \in Range(inbox'[a][b])
  <2>1. PICK s : s = inbox[a][b]
    OBVIOUS
  <2>2. PICK i \in DOMAIN s : s[i] = m
    BY <2>1 DEF Range
  <2>3. i - 1 \in DOMAIN Tail(s) /\ Tail(s)[i - 1] = m
    <3>1. s \in Seq(Message) /\ s # <<>> /\ m # s[1]
      BY <1>1, <1>4, <2>1
    <3>2. QED
      BY <2>2, <3>1
  <2>4. m \in Range(Tail(s))
    BY <2>3 DEF Range
  <2>5. QED
    BY <1>4, <2>1, <2>4
<1>5. ASSUME NEW p \in Peer, NEW q \in Peer,
             \/ HandleJoin(p, q) \/ HandleHello(p, q) \/ HandleEvents(p, q) \/ HandleAck(p, q)
      PROVE  \/ m \in Range(inbox'[a][b])
             \/ m.type = "JOIN" /\ HandleJoin(a, b)
             \/ m.type \in {"HELLO", "HELLO_ACK"} /\ HandleHello(a, b)
  <2>1. p # q
    BY <1>5 DEF PeersApart, HandleJoin, HandleHello, HandleEvents, HandleAck, NextTask
  <2>2. CASE a = p /\ b = q
    <3>1. inbox'[a][b] = Tail(inbox[a][b])
      BY <1>5, <2>1, <2>2, HandlerInbox
    <3>2. CASE m # Head(inbox[a][b])
      BY <1>4, <3>1, <3>2
    <3>3. CASE m = Head(inbox[a][b])
      BY <1>5, <2>2, <3>3 DEF HandleJoin, HandleHello, HandleEvents, HandleAck, NextTask
    <3>4. QED
      BY <3>2, <3>3
  <2>3. CASE a = q /\ b = p
    <3>1. \/ inbox'[a][b] = inbox[a][b]
          \/ \E x : x.type \in {"EVENTS", "ACK"} /\ inbox'[a][b] = Append(inbox[a][b], x)
      BY <1>5, <2>1, <2>3, HandlerInbox
    <3>2. QED
      BY <1>2, <1>3, <3>1
  <2>4. CASE <<a, b>> \notin {<<p, q>>, <<q, p>>}
    BY <1>3, <1>5, <2>1, <2>4, HandlerInbox
  <2>5. QED
    BY <2>2, <2>3, <2>4
<1>6. ASSUME NEW p \in Peer, NEW q \in Peer, Connect(p, q) PROVE m \in Range(inbox'[a][b])
  <2>1. PICK join : join = [type |-> "JOIN", ids |-> {}]
    OBVIOUS
  <2>2. inbox'[a][b] = IF <<a, b>> \in {<<p, q>>, <<q, p>>} /\ running[a]
                         THEN Append(inbox[a][b], join) ELSE inbox[a][b]
    BY <1>6, <2>1, EnvironmentInbox
  <2>3. QED
    BY <1>2, <1>3, <2>2
<1>7. ASSUME NEW p \in Peer, NEW q \in Peer, Lose(p, q) PROVE m \in Range(inbox'[a][b])
  <2>1. <<a, b>> # <<p, q>>
    BY <1>7 DEF Lose
  <2>2. QED
    BY <1>3, <1>7, <2>1, EnvironmentInbox
<1>8. ASSUME NEW p \in Peer, SendChunked(p) \/ SendHeads(p) PROVE m \in Range(inbox'[a][b])
  <2>1. PICK q : q = work[p].peer
    OBVIOUS
  <2>2. q \in Peer /\ (inbox' = inbox \/ \E x : inbox' = Sent(inbox, p, q, x))
    BY <1>8, <2>1 DEF SendChunked, SendHeads, TypeOK, Work
  <2>3. \/ inbox'[a][b] = inbox[a][b] \/ \E x : inbox'[a][b] = Append(inbox[a][b], x)
    <3>1. ASSUME NEW x, inbox' = Sent(inbox, p, q, x)
          PROVE  inbox'[a][b] = inbox[a][b] \/ inbox'[a][b] = Append(inbox[a][b], x)
      <4>1. Sent(inbox, p, q, x)[a][b] =
              IF a = q /\ b = p /\ Hears(p, q) THEN Append(inbox[a][b], x) ELSE inbox[a][b]
        BY <1>1, <2>2, SentAt
      <4>2. QED
        BY <3>1, <4>1
    <3>2. QED
      BY <2>2, <3>1
  <2>4. QED
    BY <1>2, <1>3, <2>3
<1>9. ASSUME NEW p \in Peer, Application(p) PROVE FALSE
  BY <1>9 DEF Application, AppendOwn, Publish, Silent, PeersApart
<1>10. QED
  BY <1>3, <1>5, <1>6, <1>7, <1>8, <1>9, InboxStep

\* A replicator that stops closes its connections, and starts with none attended.
LEMMA AttendedStep == TypeOK /\ AttendedRun /\ [Next]_vars => AttendedRun'
<1> SUFFICES ASSUME TypeOK, AttendedRun, [Next]_vars PROVE AttendedRun'
  OBVIOUS
<1>1. ASSUME NEW a \in Peer, Handler(a) PROVE UNCHANGED envVars
  BY <1>1 DEF Handler, HandleJoin, HandleHello, HandleEvents, HandleAck, SendChunked,
              ReadHeads, SendHeads
<1>2. ASSUME NEW a \in Peer, Application(a) PROVE UNCHANGED envVars
  BY <1>2 DEF Application, AppendOwn, Publish
<1>3. ASSUME NEW a \in Peer, Environment(a) PROVE AttendedRun'
  <2>1. ASSUME NEW b \in Peer, Connect(a, b) PROVE AttendedRun'
    <3> SUFFICES ASSUME NEW p \in Peer, NEW q \in Peer, Attended(p, q)'
                 PROVE  running'[p] /\ running'[q]
      BY DEF AttendedRun
    <3>1. running' = running
      BY <2>1 DEF Connect
    <3>2. CASE {p, q} = {a, b}
      <4>1. running[a] /\ running[b]
        BY <2>1, <3>2 DEF Connect, Attended
      <4>2. QED
        BY <3>1, <3>2, <4>1
    <3>3. CASE {p, q} # {a, b}
      BY <2>1, <3>1, <3>3 DEF Connect, Attended, AttendedRun, Linked
    <3>4. QED
      BY <3>2, <3>3
  <2>2. ASSUME NEW b \in Peer, Disconnect(a, b) PROVE AttendedRun'
    BY <2>2 DEF Disconnect, AttendedRun, Attended, Linked
  <2>3. ASSUME NEW b \in Peer, Lose(a, b) PROVE AttendedRun'
    BY <2>3 DEF Lose, AttendedRun, Attended, Linked, envVars
  <2>4. ASSUME Stop(a) PROVE AttendedRun'
    BY <2>4 DEF Stop, AttendedRun, Attended, Linked, TypeOK
  <2>5. ASSUME Start(a) PROVE AttendedRun'
    BY <2>5 DEF Start, AttendedRun, Attended, Linked, TypeOK
  <2>6. QED
    BY <1>3, <2>1, <2>2, <2>3, <2>4, <2>5 DEF Environment
<1>4. QED
  BY <1>1, <1>2, <1>3 DEF Next, vars, envVars, AttendedRun, Attended, Linked

\* Whoever is connected gets what it lacks, or will be found to lack it.
LEMMA FoundOutStep ==
  ASSUME Silent, AtMostTwo, IInv, SyncStateConsistent, PeersApart, AttendedRun, [Next]_vars,
         NEW p \in Peer, NEW q \in Peer, p # q,
         MissingCovers(p, q), SyncCovers(p, q), FoundOut(p, q)
  PROVE  FoundOut(p, q)'
<1> SUFFICES ASSUME Attended(p, q)'
             PROVE  log'[p] \subseteq log'[q] \/ q \in syncInFlight'[p] \/ Asked(p, q)'
  BY DEF FoundOut
<1>1. TypeOK
  BY DEF IInv
<1>2. CASE log[p] \subseteq log[q]
  <2>1. log[p] \subseteq log[q] \cup {}
    BY <1>2
  <2>2. log'[p] \subseteq log'[q] \cup {}
    BY <2>1, LogKept
  <2>3. QED
    BY <2>2
<1>3. CASE ~Attended(p, q)
  <2>1. links' # links \/ unattended' # unattended
    BY <1>3 DEF Attended, Linked
  <2>2. ASSUME NEW a \in Peer, Handler(a) PROVE UNCHANGED <<links, unattended>>
    BY <2>2 DEF Handler, HandleJoin, HandleHello, HandleEvents, HandleAck, SendChunked,
                ReadHeads, SendHeads, envVars
  <2>3. ASSUME NEW a \in Peer, Application(a) PROVE UNCHANGED <<links, unattended>>
    BY <2>3 DEF Application, AppendOwn, Publish, envVars
  <2>4. ASSUME NEW a \in Peer, Environment(a) PROVE \E b \in Peer : Connect(a, b)
    <3>1. ASSUME NEW b \in Peer, Disconnect(a, b) PROVE FALSE
      BY <1>3, <3>1 DEF Disconnect, Attended, Linked
    <3>2. ASSUME Stop(a) PROVE FALSE
      BY <1>3, <3>2 DEF Stop, Attended, Linked
    <3>3. ASSUME (\E b \in Peer : Lose(a, b)) \/ Start(a) PROVE FALSE
      BY <2>1, <3>3 DEF Lose, Start, envVars
    <3>4. QED
      BY <2>4, <3>1, <3>2, <3>3 DEF Environment
  <2>5. PICK a \in Peer, b \in Peer : Connect(a, b)
    BY <2>1, <2>2, <2>3, <2>4 DEF Next, vars, envVars
  <2>6. {a, b} = {p, q} /\ running[q]
    <3>1. {a, b} = {p, q}
      BY <1>3, <2>5 DEF Connect, Attended, Linked
    <3>2. running[a] /\ running[b]
      BY <2>5, <3>1 DEF Connect, Attended
    <3>3. QED
      BY <3>1, <3>2
  <2>7. <<q, p>> \in {<<a, b>>, <<b, a>>}
    BY <2>6
  <2>8. PICK join : join = [type |-> "JOIN", ids |-> {}]
    OBVIOUS
  <2>9. inbox'[q][p] = Append(inbox[q][p], join)
    <3>1. inbox'[q][p] = IF <<q, p>> \in {<<a, b>>, <<b, a>>} /\ running[q]
                           THEN Append(inbox[q][p], join) ELSE inbox[q][p]
      BY <1>1, <2>5, <2>8, EnvironmentInbox
    <3>2. QED
      BY <2>6, <2>7, <3>1
  <2>10. join \in Range(inbox'[q][p])
    <3>1. inbox[q][p] \in Seq(Message) /\ join \in Message
      <4>1. join \in Message
        BY <2>8 DEF Message, MsgType
      <4>2. QED
        BY <1>1, <4>1 DEF TypeOK, Inboxes
    <3>2. join \in Range(Append(inbox[q][p], join))
      BY <3>1, AppendMessage
    <3>3. QED
      BY <2>9, <3>2
  <2>11. QED
    BY <2>8, <2>10 DEF Asked
<1>4. CASE Attended(p, q) /\ q \in syncInFlight[p] /\ ~(log[p] \subseteq log[q])
  <2>1. CASE UNCHANGED syncVars
    BY <1>4, <2>1 DEF syncVars
  <2>2. ASSUME NEW a \in Peer, SendChunked(a) PROVE q \in syncInFlight'[p]
    <3>1. UNCHANGED syncInFlight \/ \E b : syncInFlight' = [syncInFlight EXCEPT ![a] = @ \cup {b}]
      BY <2>2 DEF SendChunked, syncVars
    <3>2. QED
      <4>1. ASSUME NEW b, syncInFlight' = [syncInFlight EXCEPT ![a] = @ \cup {b}]
            PROVE  q \in syncInFlight'[p]
        <5>1. syncInFlight'[p] = IF p = a THEN syncInFlight[p] \cup {b} ELSE syncInFlight[p]
          BY <1>1, <4>1 DEF TypeOK
        <5>2. QED
          BY <1>4, <5>1
      <4>2. QED
        BY <1>4, <3>1, <4>1
  <2>3. ASSUME NEW a \in Peer, NEW b \in Peer, HandleAck(a, b) PROVE q \in syncInFlight'[p]
    <3>1. CASE <<p, q>> # <<a, b>>
      BY <1>1, <1>4, <2>3, <3>1, AckStep DEF OthersKept, syncVars
    <3>2. CASE <<p, q>> = <<a, b>> /\ SyncEnds(p, q) /\ Head(inbox[p][q]).ids = lastSentChunkIds[p][q]
      <4>1. lastSentChunkIds[p][q] \subseteq log[q]
        BY <2>3, <3>2, AckIsStored
      <4>2. Unacked(p, q) = lastSentChunkIds[p][q]
        BY <3>2 DEF Unacked, SyncEnds, Range
      <4>3. QED
        BY <1>4, <4>1, <4>2 DEF SyncCovers
    <3>3. CASE <<p, q>> = <<a, b>> /\ SyncAdvances(p, q)
      BY <1>4, <3>3 DEF SyncAdvances
    <3>4. CASE UNCHANGED syncVars
      BY <1>4, <3>4 DEF syncVars
    <3>5. QED
      BY <1>1, <2>3, <3>1, <3>2, <3>3, <3>4, AckStep
  <2>4. ASSUME NEW a \in Peer, Stop(a) PROVE q \in syncInFlight'[p]
    <3>1. a # p
      BY <2>4 DEF Stop, Attended, Linked
    <3>2. QED
      BY <1>1, <1>4, <2>4, <3>1 DEF Stop, TypeOK
  <2>5. QED
    BY <1>4, <2>1, <2>2, <2>3, <2>4, SyncStep DEF syncVars
<1>5. ASSUME Attended(p, q), NEW m \in Range(inbox[q][p]), m.type = "JOIN" PROVE Asked(p, q)'
  <2>1. Linked(q, p) /\ Linked(q, p)'
    <3>1. {p, q} = {q, p}
      OBVIOUS
    <3>2. QED
      BY <1>5, <3>1 DEF Attended, Linked
  <2>2. CASE m \in Range(inbox'[q][p])
    BY <1>5, <2>2 DEF Asked
  <2>3. CASE HandleJoin(q, p)
    BY <1>1, <2>3 DEF HandleJoin, TypeOK, Asked
  <2>4. QED
    BY <1>1, <1>5, <2>1, <2>2, <2>3, WaitsToBeHandled
<1>6. ASSUME Attended(p, q), NEW m \in Range(inbox[p][q]), m.type \in {"HELLO", "HELLO_ACK"}
      PROVE  Asked(p, q)'
  <2>1. CASE m \in Range(inbox'[p][q])
    BY <1>6, <2>1 DEF Asked
  <2>2. CASE HandleHello(p, q)
    BY <1>1, <2>2 DEF HandleHello, TypeOK, Asked
  <2>3. QED
    BY <1>1, <1>6, <2>1, <2>2, WaitsToBeHandled DEF Attended
<1>7. ASSUME Attended(p, q), work[q].at = "send", work[q].peer = p PROVE Asked(p, q)'
  <2>1. CASE work'[q] = work[q]
    BY <1>7, <2>1 DEF Asked
  <2>2. CASE SendHeads(q)
    <3>1. PICK m : m = [type |-> work[q].type, ids |-> work[q].ids]
      OBVIOUS
    <3>2. m \in Message /\ m.type \in {"HELLO", "HELLO_ACK"}
      BY <1>1, <1>7, <3>1 DEF TypeOK, Work, Message, PeersApart
    <3>3. Hears(q, p)
      <4>1. {p, q} = {q, p}
        OBVIOUS
      <4>2. QED
        BY <1>7, <4>1 DEF Hears, Attended, AttendedRun, Linked
    <3>4. inbox' = Sent(inbox, q, p, m)
      BY <1>7, <2>2, <3>1 DEF SendHeads
    <3>5. inbox'[p][q] = Append(inbox[p][q], m)
      <4>1. inbox \in Inboxes
        BY <1>1 DEF TypeOK
      <4>2. Sent(inbox, q, p, m)[p][q] = IF Hears(q, p) THEN Append(inbox[p][q], m) ELSE inbox[p][q]
        BY <4>1, SentAt
      <4>3. QED
        BY <3>3, <3>4, <4>2
    <3>6. m \in Range(inbox'[p][q])
      <4>1. m \in Range(Append(inbox[p][q], m))
        BY <1>1, <3>2, AppendMessage DEF TypeOK, Inboxes
      <4>2. QED
        BY <3>5, <4>1
    <3>7. QED
      BY <3>2, <3>6 DEF Asked
  <2>3. ASSUME NEW a \in Peer, NEW b \in Peer, HandleJoin(a, b) \/ HandleHello(a, b)
        PROVE  work'[q] = work[q]
    BY <1>1, <1>7, <2>3 DEF HandleJoin, HandleHello, NextTask, TypeOK
  <2>4. ASSUME NEW a \in Peer, SendChunked(a) \/ ReadHeads(a) \/ (a # q /\ SendHeads(a))
        PROVE  work'[q] = work[q]
    BY <1>1, <1>7, <2>4 DEF SendChunked, ReadHeads, SendHeads, TypeOK
  <2>5. QED
    BY <2>1, <2>2, <2>3, <2>4, WorkStep
<1>8. ASSUME Attended(p, q), work[p].at = "sync", work[p].peer = q,
             ~(log[p] \subseteq log[q]), q \notin syncInFlight[p]
      PROVE  q \in syncInFlight'[p] \/ Asked(p, q)'
  <2>1. CASE work'[p] = work[p]
    BY <1>8, <2>1 DEF Asked
  <2>2. CASE SendChunked(p)
    <3>1. work[p].ids # {}
      BY <1>8 DEF MissingCovers
    <3>2. \E c, rest : SyncBegins(p, q, c, rest)
      BY <1>1, <1>8, <2>2, <3>1, SendStep
    <3>3. QED
      BY <3>2 DEF SyncBegins
  <2>3. ASSUME NEW a \in Peer, NEW b \in Peer, HandleJoin(a, b) \/ HandleHello(a, b)
        PROVE  work'[p] = work[p]
    BY <1>1, <1>8, <2>3 DEF HandleJoin, HandleHello, NextTask, TypeOK
  <2>4. ASSUME NEW a \in Peer, SendHeads(a) \/ ReadHeads(a) \/ (a # p /\ SendChunked(a))
        PROVE  work'[p] = work[p]
    BY <1>1, <1>8, <2>4 DEF SendChunked, ReadHeads, SendHeads, TypeOK
  <2>5. QED
    BY <2>1, <2>2, <2>3, <2>4, WorkStep
<1>9. QED
  BY <1>2, <1>3, <1>4, <1>5, <1>6, <1>7, <1>8 DEF FoundOut, Asked

\* The invariant of whole exchanges.
LEMMA ExchangeStep ==
  /\ Silent /\ AtMostTwo /\ IInv /\ SyncStateConsistent /\ PeersApart /\ AttendedRun
  /\ ExchangeInv /\ [Next]_vars
  => ExchangeInv'
<1> SUFFICES ASSUME Silent, AtMostTwo, IInv, SyncStateConsistent, PeersApart, AttendedRun,
                    ExchangeInv, [Next]_vars, NEW p \in Peer, NEW q \in Peer, p # q
             PROVE  MissingCovers(p, q)' /\ SyncCovers(p, q)' /\ FoundOut(p, q)'
  BY DEF ExchangeInv
<1>1. MissingCovers(p, q) /\ SyncCovers(p, q) /\ FoundOut(p, q)
  BY DEF ExchangeInv
<1>2. QED
  BY <1>1, MissingCoversStep, SyncCoversStep, FoundOutStep

LEMMA InitExchange == Init => ExchangeInv
BY DEF Init, ExchangeInv, MissingCovers, SyncCovers, FoundOut, Attended, Linked, Idle

LEMMA AttendedAlways == Spec => []AttendedRun
<1>1. Init => AttendedRun
  BY DEF Init, AttendedRun, Attended, Linked
<1>2. QED
  BY <1>1, AttendedStep, TypeCorrect, PTL DEF Spec

LEMMA ApartAlways ==
  ASSUME Silent
  PROVE  Spec => []PeersApart
BY Silent, InitApart, ApartStep, TypeCorrect, PTL DEF Spec

\* Two replicators whose applications have no events forget nothing on a connection
\* that both heard of: at rest, each has all that the other has, unless the other
\* waits for an ACK that was lost, or that a callback kept from being sent
\* (replicator.js:123-135 and 163-183), whatever connections broke and whatever
\* replicators restarted before.  On a connection that opened while one of them was
\* stopped nothing is promised: start() greets nobody (replicator.js:79-88).
THEOREM NothingIsForgotten ==
  ASSUME Silent, AtMostTwo
  PROVE  Spec => []SettledSyncedOrStuck
<1>1. ExchangeInv => SettledSyncedOrStuck
  <2> SUFFICES ASSUME ExchangeInv, Quiet, NEW p \in Peer, NEW q \in Peer, Attended(p, q)
               PROVE  log[p] \subseteq log[q] \/ q \in syncInFlight[p]
    BY DEF SettledSyncedOrStuck, Attended
  <2>1. CASE p # q
    <3>1. ~Asked(p, q)
      BY DEF Asked, Quiet, Range
    <3>2. QED
      BY <2>1, <3>1 DEF ExchangeInv, FoundOut
  <2>2. QED
    BY <2>1
<1>2. QED
  BY Silent, AtMostTwo, <1>1, InitExchange, ExchangeStep, IInvAlways, SyncStateStaysConsistent,
     ApartAlways, AttendedAlways, PTL DEF Spec
-----------------------------------------------------------------------------
(* One chunk at a time.                                                    *)

\* Positions in an inbox that gets one more, loses its first or loses its last.
LEMMA OfAppend ==
  ASSUME NEW s \in Seq(Message), NEW m \in Message, NEW type
  PROVE  /\ \A i \in Of(Append(s, m), type) :
              \/ i \in Of(s, type) /\ Append(s, m)[i] = s[i]
              \/ i = Len(s) + 1 /\ Append(s, m)[i] = m /\ m.type = type
         /\ Len(s) + 1 \notin Of(s, type)
BY DEF Of

LEMMA OfTail ==
  ASSUME NEW s \in Seq(Message), s # <<>>, NEW type
  PROVE  /\ \A i \in Of(Tail(s), type) : i \in Nat \ {0} /\ i + 1 \in Of(s, type) /\ Tail(s)[i] = s[i + 1]
         /\ Head(s).type = type => 1 \in Of(s, type) /\ s[1] = Head(s)
BY DEF Of

LEMMA OfFront ==
  ASSUME NEW s \in Seq(Message), s # <<>>, NEW type
  PROVE  \A i \in Of(SubSeq(s, 1, Len(s) - 1), type) :
           i \in Of(s, type) /\ SubSeq(s, 1, Len(s) - 1)[i] = s[i]
BY DEF Of

\* Messages that arrive are gone.
LEMMA OneOfFewer ==
  ASSUME NEW sent \in Seq(Message), NEW received \in Seq(Message), NEW c, OneMessage(sent, received, c)
  PROVE  /\ sent # <<>> => /\ OneMessage(Tail(sent), received, c)
                           /\ OneMessage(SubSeq(sent, 1, Len(sent) - 1), received, c)
         /\ received # <<>> => /\ OneMessage(sent, Tail(received), c)
                               /\ OneMessage(sent, SubSeq(received, 1, Len(received) - 1), c)
<1>1. ASSUME sent # <<>> PROVE OneMessage(Tail(sent), received, c)
  <2>1. PICK s : s = Tail(sent)
    OBVIOUS
  <2>2. \A i \in Of(s, "EVENTS") :
          i \in Nat \ {0} /\ i + 1 \in Of(sent, "EVENTS") /\ s[i] = sent[i + 1]
    BY <1>1, <2>1, OfTail
  <2>3. \A i, j \in Of(s, "EVENTS") : i = j
    <3>1. ASSUME NEW i \in Of(s, "EVENTS"), NEW j \in Of(s, "EVENTS") PROVE i = j
      <4>1. i + 1 = j + 1
        BY <2>2 DEF OneMessage
      <4>2. QED
        BY <2>2, <4>1
    <3>2. QED
      BY <3>1
  <2>4. /\ \A i \in Of(s, "EVENTS") : s[i].ids = c
        /\ Of(sent, "EVENTS") = {} => Of(s, "EVENTS") = {}
    BY <2>2 DEF OneMessage
  <2>5. OneMessage(s, received, c)
    BY <2>3, <2>4 DEF OneMessage
  <2>6. QED
    BY <2>1, <2>5
<1>2. ASSUME sent # <<>> PROVE OneMessage(SubSeq(sent, 1, Len(sent) - 1), received, c)
  <2>1. PICK s : s = SubSeq(sent, 1, Len(sent) - 1)
    OBVIOUS
  <2>2. \A i \in Of(s, "EVENTS") : i \in Of(sent, "EVENTS") /\ s[i] = sent[i]
    <3>1. \A i \in Of(SubSeq(sent, 1, Len(sent) - 1), "EVENTS") :
            i \in Of(sent, "EVENTS") /\ SubSeq(sent, 1, Len(sent) - 1)[i] = sent[i]
      BY <1>2, OfFront
    <3>2. QED
      BY <2>1, <3>1
  <2>3. OneMessage(s, received, c)
    BY <2>2 DEF OneMessage
  <2>4. QED
    BY <2>1, <2>3
<1>3. ASSUME received # <<>> PROVE OneMessage(sent, Tail(received), c)
  <2>1. PICK s : s = Tail(received)
    OBVIOUS
  <2>2. \A i \in Of(s, "ACK") :
          i \in Nat \ {0} /\ i + 1 \in Of(received, "ACK") /\ s[i] = received[i + 1]
    BY <1>3, <2>1, OfTail
  <2>3. \A i, j \in Of(s, "ACK") : i = j
    <3>1. ASSUME NEW i \in Of(s, "ACK"), NEW j \in Of(s, "ACK") PROVE i = j
      <4>1. i + 1 = j + 1
        BY <2>2 DEF OneMessage
      <4>2. QED
        BY <2>2, <4>1
    <3>2. QED
      BY <3>1
  <2>4. /\ \A i \in Of(s, "ACK") : s[i].ids = c
        /\ Of(received, "ACK") = {} => Of(s, "ACK") = {}
    BY <2>2 DEF OneMessage
  <2>5. OneMessage(sent, s, c)
    BY <2>3, <2>4 DEF OneMessage
  <2>6. QED
    BY <2>1, <2>5
<1>4. ASSUME received # <<>> PROVE OneMessage(sent, SubSeq(received, 1, Len(received) - 1), c)
  <2>1. PICK s : s = SubSeq(received, 1, Len(received) - 1)
    OBVIOUS
  <2>2. \A i \in Of(s, "ACK") : i \in Of(received, "ACK") /\ s[i] = received[i]
    <3>1. \A i \in Of(SubSeq(received, 1, Len(received) - 1), "ACK") :
            i \in Of(received, "ACK") /\ SubSeq(received, 1, Len(received) - 1)[i] = received[i]
      BY <1>4, OfFront
    <3>2. QED
      BY <2>1, <3>1
  <2>3. OneMessage(sent, s, c)
    BY <2>2 DEF OneMessage
  <2>4. QED
    BY <2>1, <2>3
<1>5. QED
  BY <1>1, <1>2, <1>3, <1>4

\* Other messages do not count.
LEMMA OneOfOthers ==
  ASSUME NEW sent \in Seq(Message), NEW received \in Seq(Message), NEW c, NEW m \in Message,
         OneMessage(sent, received, c)
  PROVE  /\ m.type # "EVENTS" => OneMessage(Append(sent, m), received, c)
         /\ m.type # "ACK" => OneMessage(sent, Append(received, m), c)
<1>1. ASSUME m.type # "EVENTS" PROVE OneMessage(Append(sent, m), received, c)
  <2>1. PICK s : s = Append(sent, m)
    OBVIOUS
  <2>2. \A i \in Of(s, "EVENTS") : i \in Of(sent, "EVENTS") /\ s[i] = sent[i]
    <3>1. \A i \in Of(Append(sent, m), "EVENTS") :
            \/ i \in Of(sent, "EVENTS") /\ Append(sent, m)[i] = sent[i]
            \/ m.type = "EVENTS"
      BY OfAppend
    <3>2. QED
      BY <1>1, <2>1, <3>1
  <2>3. OneMessage(s, received, c)
    BY <2>2 DEF OneMessage
  <2>4. QED
    BY <2>1, <2>3
<1>2. ASSUME m.type # "ACK" PROVE OneMessage(sent, Append(received, m), c)
  <2>1. PICK s : s = Append(received, m)
    OBVIOUS
  <2>2. \A i \in Of(s, "ACK") : i \in Of(received, "ACK") /\ s[i] = received[i]
    <3>1. \A i \in Of(Append(received, m), "ACK") :
            \/ i \in Of(received, "ACK") /\ Append(received, m)[i] = received[i]
            \/ m.type = "ACK"
      BY OfAppend
    <3>2. QED
      BY <1>2, <2>1, <3>1
  <2>3. OneMessage(sent, s, c)
    BY <2>2 DEF OneMessage
  <2>4. QED
    BY <2>1, <2>3
<1>3. QED
  BY <1>1, <1>2

\* Where there is no message, one may be sent.
LEMMA OneOfNone ==
  ASSUME NEW sent \in Seq(Message), NEW received, NEW c, NEW d, NEW m \in Message,
         Of(sent, "EVENTS") = {}, Of(received, "ACK") = {}
  PROVE  /\ OneMessage(sent, received, d)
         /\ m.type = "EVENTS" /\ m.ids = c /\ c # {} => OneMessage(Append(sent, m), received, c)
<1>1. PICK s : s = Append(sent, m)
  OBVIOUS
<1>2. \A i \in Of(s, "EVENTS") : i = Len(sent) + 1 /\ s[i] = m
  BY <1>1, OfAppend
<1>3. m.ids = c /\ c # {} => OneMessage(s, received, c)
  BY <1>2 DEF OneMessage
<1>4. OneMessage(sent, received, d)
  BY DEF OneMessage
<1>5. QED
  BY <1>1, <1>3, <1>4

\* The chunk arrives, and its ACK is sent.
LEMMA OneOfAnswered ==
  ASSUME NEW sent \in Seq(Message), NEW received \in Seq(Message), NEW c, OneMessage(sent, received, c),
         sent # <<>>, Head(sent).type = "EVENTS", NEW m \in Message, m.ids = Head(sent).ids
  PROVE  OneMessage(Tail(sent), Append(received, m), c)
<1>1. 1 \in Of(sent, "EVENTS") /\ sent[1] = Head(sent)
  BY OfTail
<1>2. m.ids = c /\ c # {} /\ Of(received, "ACK") = {}
  BY <1>1 DEF OneMessage
<1>3. Of(Tail(sent), "EVENTS") = {}
  <2>1. ASSUME NEW i \in Of(Tail(sent), "EVENTS") PROVE FALSE
    <3>1. i \in Nat \ {0} /\ i + 1 \in Of(sent, "EVENTS")
      BY OfTail
    <3>2. i + 1 = 1
      BY <1>1, <3>1 DEF OneMessage
    <3>3. QED
      BY <3>1, <3>2
  <2>2. QED
    BY <2>1
<1>4. PICK s : s = Append(received, m)
  OBVIOUS
<1>5. \A i \in Of(s, "ACK") : i = Len(received) + 1 /\ s[i] = m
  BY <1>2, <1>4, OfAppend
<1>6. OneMessage(Tail(sent), s, c)
  BY <1>2, <1>3, <1>5 DEF OneMessage
<1>7. QED
  BY <1>4, <1>6

\* Once its ACK arrives there is none.
LEMMA NoneAfterAck ==
  ASSUME NEW sent \in Seq(Message), NEW received \in Seq(Message), NEW c, OneMessage(sent, received, c),
         received # <<>>, Head(received).type = "ACK"
  PROVE  Of(sent, "EVENTS") = {} /\ Of(Tail(received), "ACK") = {}
<1>1. 1 \in Of(received, "ACK")
  BY OfTail
<1>2. ASSUME NEW i \in Of(Tail(received), "ACK") PROVE FALSE
  <2>1. i \in Nat \ {0} /\ i + 1 \in Of(received, "ACK")
    BY OfTail
  <2>2. i + 1 = 1
    BY <1>1, <2>1 DEF OneMessage
  <2>3. QED
    BY <2>1, <2>2
<1>3. QED
  BY <1>1, <1>2 DEF OneMessage

\* A task is taken, and perhaps answered with m.
LEMMA ReplyAt ==
  ASSUME TypeOK, NEW a \in Peer, NEW b \in Peer, a # b, inbox[a][b] # <<>>, NEW m,
         inbox' = Taken(a, b) \/ inbox' = Sent(Taken(a, b), a, b, m)
  PROVE  /\ inbox'[a][b] = Tail(inbox[a][b])
         /\ inbox'[b][a] = inbox[b][a] \/ inbox'[b][a] = Append(inbox[b][a], m)
         /\ \A x, y \in Peer : <<x, y>> \notin {<<a, b>>, <<b, a>>} => inbox'[x][y] = inbox[x][y]
<1>1. PICK box : box = Taken(a, b)
  OBVIOUS
<1>2. /\ box \in Inboxes
      /\ \A x, y \in Peer : box[x][y] = IF x = a /\ y = b THEN Tail(inbox[x][y]) ELSE inbox[x][y]
  <2>1. Taken(a, b) \in Inboxes
    BY TakenInbox DEF TypeOK
  <2>2. ASSUME NEW x \in Peer, NEW y \in Peer
        PROVE  Taken(a, b)[x][y] = IF x = a /\ y = b THEN Tail(inbox[x][y]) ELSE inbox[x][y]
    BY TakenAt DEF TypeOK
  <2>3. QED
    BY <1>1, <2>1, <2>2
<1>3. CASE inbox' = box
  BY <1>2, <1>3
<1>4. CASE inbox' = Sent(box, a, b, m)
  <2>1. ASSUME NEW x \in Peer, NEW y \in Peer
        PROVE  inbox'[x][y] =
                 IF x = b /\ y = a /\ Hears(a, b) THEN Append(box[x][y], m) ELSE box[x][y]
    <3>1. Sent(box, a, b, m)[x][y] =
            IF x = b /\ y = a /\ Hears(a, b) THEN Append(box[x][y], m) ELSE box[x][y]
      BY <1>2, SentAt
    <3>2. QED
      BY <1>4, <3>1
  <2>2. inbox'[a][b] = Tail(inbox[a][b])
    BY <1>2, <2>1
  <2>3. inbox'[b][a] = inbox[b][a] \/ inbox'[b][a] = Append(inbox[b][a], m)
    <3>1. box[b][a] = inbox[b][a]
      BY <1>2
    <3>2. QED
      BY <2>1, <3>1
  <2>4. ASSUME NEW x \in Peer, NEW y \in Peer, <<x, y>> \notin {<<a, b>>, <<b, a>>}
        PROVE  inbox'[x][y] = inbox[x][y]
    <3>1. inbox'[x][y] = box[x][y]
      BY <2>1, <2>4
    <3>2. QED
      BY <1>2, <2>4, <3>1
  <2>5. QED
    BY <2>2, <2>3, <2>4
<1>5. QED
  BY <1>1, <1>3, <1>4

\* A chunk is not sent again before it is acknowledged, and nothing is lost but
\* what it was sent for.
LEMMA OneChunkStep ==
  ASSUME Silent, MaxRestarts = 0, TypeOK, SyncStateConsistent, PeersApart, [Next]_vars,
         NEW p \in Peer, NEW q \in Peer, p # q, OneChunk(p, q)
  PROVE  OneChunk(p, q)'
<1>1. PICK sent, received, c :
        sent = inbox[q][p] /\ received = inbox[p][q] /\ c = lastSentChunkIds[p][q]
  OBVIOUS
<1> inbox \in Inboxes
  BY DEF TypeOK
<1>2. /\ sent \in Seq(Message) /\ received \in Seq(Message) /\ OneMessage(sent, received, c)
      /\ \A a, b \in Peer : inbox[a][b] # <<>> => a # b /\ Head(inbox[a][b]) \in Message
  <2>1. sent \in Seq(Message) /\ received \in Seq(Message)
    BY <1>1 DEF Inboxes
  <2>2. OneMessage(sent, received, c)
    BY <1>1 DEF OneChunk
  <2>3. ASSUME NEW a \in Peer, NEW b \in Peer, inbox[a][b] # <<>>
        PROVE  a # b /\ Head(inbox[a][b]) \in Message
    <3>1. a # b
      BY <2>3 DEF PeersApart
    <3>2. Head(inbox[a][b]) \in Message
      BY <2>3, TakenInbox
    <3>3. QED
      BY <3>1, <3>2
  <2>4. QED
    BY <2>1, <2>2, <2>3
<1>3. ASSUME NEW es, NEW as, NEW d, inbox'[q][p] = es, inbox'[p][q] = as,
             lastSentChunkIds'[p][q] = d, OneMessage(es, as, d)
      PROVE  OneChunk(p, q)'
  BY <1>3 DEF OneChunk
<1>4. ASSUME NEW a \in Peer, NEW b \in Peer, HandleJoin(a, b) \/ HandleHello(a, b)
      PROVE  OneChunk(p, q)'
  <2>1. /\ inbox[a][b] # <<>> /\ inbox' = Taken(a, b)
        /\ lastSentChunkIds' = lastSentChunkIds
    BY <1>4 DEF HandleJoin, HandleHello, NextTask, syncVars
  <2>2. ASSUME NEW x \in Peer, NEW y \in Peer
        PROVE  inbox'[x][y] = IF x = a /\ y = b THEN Tail(inbox[x][y]) ELSE inbox[x][y]
    BY <2>1, TakenAt
  <2>3. CASE a = q /\ b = p
    BY <1>1, <1>2, <1>3, <2>1, <2>2, <2>3, OneOfFewer
  <2>4. CASE a = p /\ b = q
    BY <1>1, <1>2, <1>3, <2>1, <2>2, <2>4, OneOfFewer
  <2>5. CASE <<a, b>> \notin {<<p, q>>, <<q, p>>}
    BY <1>1, <1>2, <1>3, <2>1, <2>2, <2>5
  <2>6. QED
    BY <2>3, <2>4, <2>5
<1>5. ASSUME NEW a \in Peer, NEW b \in Peer, HandleEvents(a, b)
      PROVE  OneChunk(p, q)'
  <2>1. PICK m : m = [type |-> "ACK", ids |-> Head(inbox[a][b]).ids]
    OBVIOUS
  <2>2. /\ inbox[a][b] # <<>> /\ a # b /\ Head(inbox[a][b]).type = "EVENTS"
        /\ inbox' = Taken(a, b) \/ inbox' = Sent(Taken(a, b), a, b, m)
        /\ lastSentChunkIds' = lastSentChunkIds
    BY <1>2, <1>5, <2>1 DEF HandleEvents, NextTask, syncVars
  <2>3. m \in Message /\ m.type = "ACK" /\ m.ids = Head(inbox[a][b]).ids
    BY <1>2, <2>1, <2>2 DEF Message, MsgType
  <2>4. /\ inbox'[a][b] = Tail(inbox[a][b])
        /\ inbox'[b][a] = inbox[b][a] \/ inbox'[b][a] = Append(inbox[b][a], m)
        /\ \A x, y \in Peer : <<x, y>> \notin {<<a, b>>, <<b, a>>} => inbox'[x][y] = inbox[x][y]
    <3>1. CASE inbox' = Taken(a, b)
      <4>1. ASSUME NEW x \in Peer, NEW y \in Peer
            PROVE  inbox'[x][y] = IF x = a /\ y = b THEN Tail(inbox[x][y]) ELSE inbox[x][y]
        BY <3>1, TakenAt
      <4>2. QED
        BY <2>2, <4>1
    <3>2. CASE inbox' = Sent(Taken(a, b), a, b, m)
      BY <2>2, <3>2, ReplyAt
    <3>3. QED
      BY <2>2, <3>1, <3>2
  <2>5. CASE a = q /\ b = p
    <3>1. OneMessage(Tail(sent), received, c)
      BY <1>1, <1>2, <2>2, <2>5, OneOfFewer
    <3>2. OneMessage(Tail(sent), Append(received, m), c)
      BY <1>1, <1>2, <2>2, <2>3, <2>5, OneOfAnswered
    <3>3. QED
      BY <1>1, <1>3, <2>2, <2>4, <2>5, <3>1, <3>2
  <2>6. CASE a = p /\ b = q
    <3>1. OneMessage(sent, Tail(received), c) /\ Tail(received) \in Seq(Message)
      BY <1>1, <1>2, <2>2, <2>6, OneOfFewer
    <3>2. OneMessage(Append(sent, m), Tail(received), c)
      BY <1>2, <2>3, <3>1, OneOfOthers
    <3>3. QED
      BY <1>1, <1>3, <2>2, <2>4, <2>6, <3>1, <3>2
  <2>7. CASE <<a, b>> \notin {<<p, q>>, <<q, p>>}
    <3>1. <<p, q>> \notin {<<a, b>>, <<b, a>>} /\ <<q, p>> \notin {<<a, b>>, <<b, a>>}
      BY <2>7
    <3>2. QED
      BY <1>1, <1>2, <1>3, <2>2, <2>4, <3>1
  <2>8. QED
    BY <2>5, <2>6, <2>7
<1>6. ASSUME NEW a \in Peer, NEW b \in Peer, HandleAck(a, b)
      PROVE  OneChunk(p, q)'
  <2>1. PICK next, m : next = Head(pendingChunks[a][b]) /\ m = [type |-> "EVENTS", ids |-> next]
    OBVIOUS
  <2>2. /\ inbox[a][b] # <<>> /\ a # b /\ Head(inbox[a][b]).type = "ACK"
        /\ \/ UNCHANGED syncVars /\ inbox' = Taken(a, b)
           \/ OthersKept(a, b) /\ (SyncEnds(a, b) \/ SyncAdvances(a, b))
    BY <1>2, <1>6, AckStep DEF HandleAck, NextTask
  <2>3. pendingChunks[a][b] # <<>> => /\ m \in Message /\ m.type = "EVENTS" /\ m.ids = next
                                      /\ next # {}
    <3>1. pendingChunks[a][b] # <<>> => next \in Chunk
      <4>1. pendingChunks[a][b] \in Seq(Chunk)
        BY DEF TypeOK
      <4>2. QED
        BY <2>1, <4>1, TailRange
    <3>2. QED
      BY <2>1, <3>1 DEF Chunk, Message, MsgType
  <2>4. \/ inbox' = Taken(a, b)
        \/ inbox' = Sent(Taken(a, b), a, b, m) /\ pendingChunks[a][b] # <<>>
    BY <2>1, <2>2 DEF SyncEnds, SyncAdvances
  <2>5. /\ inbox'[a][b] = Tail(inbox[a][b])
        /\ \/ inbox'[b][a] = inbox[b][a]
           \/ inbox'[b][a] = Append(inbox[b][a], m) /\ pendingChunks[a][b] # <<>>
        /\ \A x, y \in Peer : <<x, y>> \notin {<<a, b>>, <<b, a>>} => inbox'[x][y] = inbox[x][y]
    <3>1. CASE inbox' = Taken(a, b)
      <4>1. ASSUME NEW x \in Peer, NEW y \in Peer
            PROVE  inbox'[x][y] = IF x = a /\ y = b THEN Tail(inbox[x][y]) ELSE inbox[x][y]
        BY <3>1, TakenAt
      <4>2. QED
        BY <2>2, <4>1
    <3>2. CASE inbox' = Sent(Taken(a, b), a, b, m) /\ pendingChunks[a][b] # <<>>
      BY <2>2, <3>2, ReplyAt
    <3>3. QED
      BY <2>4, <3>1, <3>2
  <2>6. <<a, b>> # <<p, q>> => lastSentChunkIds'[p][q] = c
    BY <1>1, <2>2 DEF OthersKept, syncVars
  <2>7. CASE a = q /\ b = p
    <3>1. OneMessage(Tail(sent), received, c) /\ Tail(sent) \in Seq(Message)
      BY <1>1, <1>2, <2>2, <2>7, OneOfFewer
    <3>2. pendingChunks[a][b] # <<>> => OneMessage(Tail(sent), Append(received, m), c)
      BY <1>2, <2>3, <3>1, OneOfOthers
    <3>3. QED
      BY <1>1, <1>3, <2>5, <2>6, <2>7, <3>1, <3>2
  <2>8. CASE a = p /\ b = q
    <3>1. Of(sent, "EVENTS") = {} /\ Of(Tail(received), "ACK") = {}
      BY <1>1, <1>2, <2>2, <2>8, NoneAfterAck
    <3>2. CASE inbox'[q][p] = sent
      <4>1. PICK d : d = lastSentChunkIds'[p][q]
        OBVIOUS
      <4>2. OneMessage(sent, Tail(received), d)
        BY <3>1 DEF OneMessage
      <4>3. QED
        BY <1>1, <1>3, <2>5, <2>8, <3>2, <4>1, <4>2
    <3>3. CASE inbox'[q][p] = Append(sent, m) /\ pendingChunks[a][b] # <<>> /\ SyncAdvances(a, b)
      <4>1. OneMessage(Append(sent, m), Tail(received), next)
        BY <1>2, <2>3, <3>1, <3>3, OneOfNone
      <4>2. lastSentChunkIds'[p][q] = next
        BY <2>1, <2>8, <3>3 DEF SyncAdvances
      <4>3. QED
        BY <1>1, <1>3, <2>5, <2>8, <3>3, <4>1, <4>2
    <3>4. CASE UNCHANGED syncVars /\ inbox' = Taken(a, b)
      <4>1. inbox'[q][p] = inbox[q][p]
        BY <2>2, <2>8, <3>4, TakenAt
      <4>2. QED
        BY <1>1, <3>2, <4>1
    <3>5. CASE SyncEnds(a, b)
      <4>1. inbox'[q][p] = inbox[q][p]
        BY <2>2, <2>8, <3>5, TakenAt DEF SyncEnds
      <4>2. QED
        BY <1>1, <3>2, <4>1
    <3>6. CASE SyncAdvances(a, b)
      BY <1>1, <2>5, <2>8, <3>2, <3>3, <3>6
    <3>7. QED
      BY <2>2, <3>4, <3>5, <3>6
  <2>9. CASE <<a, b>> \notin {<<p, q>>, <<q, p>>}
    <3>1. <<p, q>> \notin {<<a, b>>, <<b, a>>} /\ <<q, p>> \notin {<<a, b>>, <<b, a>>}
      BY <2>9
    <3>2. QED
      BY <1>1, <1>2, <1>3, <2>5, <2>6, <2>9, <3>1
  <2>10. QED
    BY <2>7, <2>8, <2>9
<1>7. ASSUME NEW a \in Peer, SendChunked(a) PROVE OneChunk(p, q)'
  <2>1. PICK b : b = work[a].peer
    OBVIOUS
  <2>2. CASE UNCHANGED <<inbox, syncVars>>
    BY <1>1, <1>2, <1>3, <2>2 DEF syncVars
  <2>3. CASE ~UNCHANGED <<inbox, syncVars>>
    <3>1. PICK d \in Chunk, rest \in Seq(Chunk) : SyncBegins(a, b, d, rest) /\ OthersKept(a, b)
      BY <1>7, <2>1, <2>3, SendStep
    <3>2. b \in Peer
      BY <1>7, <2>1, SendStep
    <3>3. PICK m : m = [type |-> "EVENTS", ids |-> d]
      OBVIOUS
    <3>4. m \in Message /\ m.type = "EVENTS" /\ m.ids = d /\ d # {}
      BY <3>3 DEF Message, MsgType, Chunk
    <3>5. ASSUME NEW x \in Peer, NEW y \in Peer
          PROVE  inbox'[x][y] =
                   IF x = b /\ y = a /\ Hears(a, b) THEN Append(inbox[x][y], m) ELSE inbox[x][y]
      <4>1. Sent(inbox, a, b, m)[x][y] =
              IF x = b /\ y = a /\ Hears(a, b) THEN Append(inbox[x][y], m) ELSE inbox[x][y]
        BY <3>2, SentAt
      <4>2. QED
        BY <3>1, <3>3, <4>1 DEF SyncBegins
    <3>6. CASE a = p /\ b = q
      <4>1. c = {}
        BY <1>1, <3>1, <3>6 DEF SyncBegins, SyncStateConsistent
      <4>2. Of(sent, "EVENTS") = {} /\ Of(received, "ACK") = {}
        BY <1>2, <4>1 DEF OneMessage
      <4>3. OneMessage(sent, received, d) /\ OneMessage(Append(sent, m), received, d)
        BY <1>2, <3>4, <4>2, OneOfNone
      <4>4. lastSentChunkIds'[p][q] = d
        BY <3>1, <3>6 DEF SyncBegins
      <4>5. inbox'[p][q] = received /\ (inbox'[q][p] = sent \/ inbox'[q][p] = Append(sent, m))
        BY <1>1, <3>5, <3>6
      <4>6. QED
        BY <1>3, <4>3, <4>4, <4>5
    <3>7. CASE ~(a = p /\ b = q)
      <4>1. lastSentChunkIds'[p][q] = c
        BY <1>1, <3>1, <3>7 DEF OthersKept
      <4>2. OneMessage(sent, Append(received, m), c)
        BY <1>2, <3>4, OneOfOthers
      <4>3. inbox'[q][p] = sent /\ (inbox'[p][q] = received \/ inbox'[p][q] = Append(received, m))
        BY <1>1, <3>5, <3>7
      <4>4. QED
        BY <1>2, <1>3, <4>1, <4>2, <4>3
    <3>8. QED
      BY <3>6, <3>7
  <2>4. QED
    BY <2>2, <2>3
<1>8. ASSUME NEW m \in Message, m.type \notin {"EVENTS", "ACK"},
             inbox'[q][p] = sent \/ inbox'[q][p] = Append(sent, m),
             inbox'[p][q] = received \/ inbox'[p][q] = Append(received, m),
             lastSentChunkIds' = lastSentChunkIds
      PROVE  OneChunk(p, q)'
  <2>1. Append(sent, m) \in Seq(Message)
    BY <1>2
  <2>2. OneMessage(Append(sent, m), received, c) /\ OneMessage(sent, Append(received, m), c)
    BY <1>2, <1>8, OneOfOthers
  <2>3. OneMessage(Append(sent, m), Append(received, m), c)
    BY <1>2, <1>8, <2>1, <2>2, OneOfOthers
  <2>4. QED
    BY <1>1, <1>2, <1>3, <1>8, <2>2, <2>3
<1>9. ASSUME NEW a \in Peer, SendHeads(a) PROVE OneChunk(p, q)'
  <2>1. PICK b, m : b = work[a].peer /\ m = [type |-> work[a].type, ids |-> work[a].ids]
    OBVIOUS
  <2>2. b \in Peer /\ m \in Message /\ m.type \in {"HELLO", "HELLO_ACK"}
    BY <1>9, <2>1 DEF SendHeads, TypeOK, Work, Message, PeersApart
  <2>3. inbox' = Sent(inbox, a, b, m) /\ lastSentChunkIds' = lastSentChunkIds
    BY <1>9, <2>1 DEF SendHeads, syncVars
  <2>4. ASSUME NEW x \in Peer, NEW y \in Peer
        PROVE  inbox'[x][y] = inbox[x][y] \/ inbox'[x][y] = Append(inbox[x][y], m)
    <3>1. Sent(inbox, a, b, m)[x][y] =
            IF x = b /\ y = a /\ Hears(a, b) THEN Append(inbox[x][y], m) ELSE inbox[x][y]
      BY <2>2, SentAt
    <3>2. QED
      BY <2>3, <3>1
  <2>5. QED
    BY <1>1, <1>8, <2>2, <2>3, <2>4
<1>10. ASSUME NEW a \in Peer, NEW b \in Peer, Connect(a, b) PROVE OneChunk(p, q)'
  <2>1. PICK m : m = [type |-> "JOIN", ids |-> {}]
    OBVIOUS
  <2>2. m \in Message /\ m.type = "JOIN"
    BY <2>1 DEF Message, MsgType
  <2>3. lastSentChunkIds' = lastSentChunkIds
    BY <1>10 DEF Connect, syncVars
  <2>4. ASSUME NEW x \in Peer, NEW y \in Peer
        PROVE  inbox'[x][y] = inbox[x][y] \/ inbox'[x][y] = Append(inbox[x][y], m)
    <3>1. inbox'[x][y] = IF <<x, y>> \in {<<a, b>>, <<b, a>>} /\ running[x]
                           THEN Append(inbox[x][y], m) ELSE inbox[x][y]
      BY <1>10, <2>1, EnvironmentInbox
    <3>2. QED
      BY <3>1
  <2>5. QED
    BY <1>1, <1>8, <2>2, <2>3, <2>4
<1>11. ASSUME NEW a \in Peer, NEW b \in Peer, Lose(a, b) PROVE OneChunk(p, q)'
  <2>1. /\ inbox[a][b] # <<>> /\ a # b
        /\ lastSentChunkIds' = lastSentChunkIds
    BY <1>2, <1>11 DEF Lose, syncVars
  <2>2. \A x, y \in Peer : inbox'[x][y] = IF <<x, y>> = <<a, b>>
                                            THEN SubSeq(inbox[x][y], 1, Len(inbox[x][y]) - 1)
                                            ELSE inbox[x][y]
    BY <1>11, EnvironmentInbox
  <2>3. CASE a = q /\ b = p
    <3>1. inbox'[q][p] = SubSeq(sent, 1, Len(sent) - 1) /\ inbox'[p][q] = received
      BY <1>1, <2>1, <2>2, <2>3
    <3>2. QED
      <4>1. sent # <<>>
        BY <1>1, <2>1, <2>3
      <4>2. OneMessage(SubSeq(sent, 1, Len(sent) - 1), received, c)
        BY <1>2, <4>1, OneOfFewer
      <4>3. QED
        BY <1>1, <1>3, <2>1, <3>1, <4>2
  <2>4. CASE a = p /\ b = q
    <3>1. inbox'[p][q] = SubSeq(received, 1, Len(received) - 1) /\ inbox'[q][p] = sent
      BY <1>1, <2>1, <2>2, <2>4
    <3>2. QED
      <4>1. received # <<>>
        BY <1>1, <2>1, <2>4
      <4>2. OneMessage(sent, SubSeq(received, 1, Len(received) - 1), c)
        BY <1>2, <4>1, OneOfFewer
      <4>3. QED
        BY <1>1, <1>3, <2>1, <3>1, <4>2
  <2>5. CASE <<a, b>> \notin {<<p, q>>, <<q, p>>}
    BY <1>1, <1>2, <1>3, <2>1, <2>2, <2>5
  <2>6. QED
    BY <2>3, <2>4, <2>5
<1>12. CASE UNCHANGED inbox /\ UNCHANGED syncVars
  BY <1>1, <1>2, <1>3, <1>12 DEF syncVars
<1>13. ASSUME NEW a \in Peer, Stop(a) PROVE FALSE
  BY <1>13 DEF Stop, TypeOK
<1>14. ASSUME NEW a \in Peer, Application(a) PROVE FALSE
  BY <1>14 DEF Application, AppendOwn, Publish, Silent, PeersApart
<1>15. QED
  BY <1>4, <1>5, <1>6, <1>7, <1>9, <1>10, <1>11, <1>12, <1>13, <1>14, InboxStep, SyncStep

\* A chunk is released, or the sync ended, only when no copy of the last one is
\* still to be handled (replicator.js:139-144), as long as nobody publishes and
\* no replicator restarts, between any number of peers and whatever connections
\* break.  With publishing it is not so (SyncPublish.cfg), nor after a restart,
\* when an old copy of a chunk may still be in transit.
THEOREM OneChunkAtATime ==
  ASSUME Silent, MaxRestarts = 0
  PROVE  Spec => ReleasedOnlyWhenHandled
<1>1. Init => OneChunkInv
  BY DEF Init, OneChunkInv, OneChunk, OneMessage, Of
<1>2. TypeOK /\ SyncStateConsistent /\ PeersApart /\ OneChunkInv /\ [Next]_vars => OneChunkInv'
  BY Silent, MaxRestarts = 0, OneChunkStep DEF OneChunkInv
<1>3. OneChunkInv' /\ PeersApart' =>
        [\A p, q \in Peer :
           LET c == lastSentChunkIds[p][q] IN
           c # lastSentChunkIds'[p][q] /\ running'[p] = running[p]
             => \A m \in Range(inbox'[q][p]) : m.type = "EVENTS" => m.ids # c]_vars
  <2> SUFFICES ASSUME OneChunkInv', PeersApart', NEW p \in Peer, NEW q \in Peer,
                      lastSentChunkIds[p][q] # lastSentChunkIds'[p][q],
                      NEW m \in Range(inbox'[q][p]), m.type = "EVENTS"
               PROVE  m.ids # lastSentChunkIds[p][q]
    OBVIOUS
  <2>1. PICK s, d : s = inbox'[q][p] /\ d = lastSentChunkIds'[p][q]
    OBVIOUS
  <2>2. PICK i \in DOMAIN s : s[i] = m
    BY <2>1 DEF Range
  <2>3. p # q
    <3>1. s # <<>>
      BY <2>2
    <3>2. QED
      BY <2>1, <3>1 DEF PeersApart
  <2>4. PICK r : OneMessage(s, r, d)
    BY <2>1, <2>3 DEF OneChunkInv, OneChunk
  <2>5. m.ids = d
    BY <2>2, <2>4 DEF OneMessage, Of
  <2>6. QED
    BY <2>1, <2>5
<1>4. QED
  BY Silent, <1>1, <1>2, <1>3, TypeCorrect, SyncStateStaysConsistent, ApartAlways, PTL
     DEF Spec, ReleasedOnlyWhenHandled
=============================================================================
