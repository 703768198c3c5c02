-------------------------- MODULE IntroductionProofs --------------------------
(***************************************************************************)
(* Introducer implements Introduction, for any peers, attempts and         *)
(* sessions: an offer is accepted only while its promise is pending.       *)
(***************************************************************************)
EXTENDS IntroducerProofs

-----------------------------------------------------------------------------
(* Messages of a kind.                                                     *)

\* The messages that may still lead to an accepted offer of s: each is sent by
\* the handler of the one before.
Tokens(s) ==
  {m \in Message :
     /\ m.session = s
     /\ \/ m.type = "REQUEST"
        \/ m.type = "ASSIGN" /\ m.body = "offerer"
        \/ m.type = "RELAY" /\ m.body = "offer"}

Failures(s) == {m \in Message : m.session = s /\ m.type = "FAILED"}

OneOf(w, M) ==
  \A p, q \in Peer, j, k \in Attempt : \A i \in DOMAIN w[p][j], n \in DOMAIN w[q][k] :
    w[p][j][i] \in M /\ w[q][k][n] \in M => p = q /\ j = k /\ i = n

NoneOf(w, M) == \A q \in Peer, k \in Attempt : \A i \in DOMAIN w[q][k] : w[q][k][i] \notin M

\* w has no message of M that v has not, in the same order.
FewerOf(w, v, M) ==
  \A q \in Peer, k \in Attempt : \E d \in {0, 1} : \A i \in DOMAIN w[q][k] :
    w[q][k][i] \in M => i + d \in DOMAIN v[q][k] /\ w[q][k][i] = v[q][k][i + d]

\* Where there are fewer, there is still one at most.
LEMMA FewerHaveOne ==
  ASSUME NEW v \in Wires, NEW w \in Wires, NEW M, FewerOf(w, v, M)
  PROVE  /\ OneOf(v, M) => OneOf(w, M)
         /\ NoneOf(v, M) => NoneOf(w, M)
<1>1. ASSUME OneOf(v, M) PROVE OneOf(w, M)
  <2> SUFFICES ASSUME NEW p \in Peer, NEW q \in Peer, NEW j \in Attempt, NEW k \in Attempt,
                      NEW i \in DOMAIN w[p][j], NEW n \in DOMAIN w[q][k],
                      w[p][j][i] \in M, w[q][k][n] \in M
               PROVE  p = q /\ j = k /\ i = n
    BY DEF OneOf
  <2>1. PICK d \in {0, 1} : \A x \in DOMAIN w[p][j] :
          w[p][j][x] \in M => x + d \in DOMAIN v[p][j] /\ w[p][j][x] = v[p][j][x + d]
    BY DEF FewerOf
  <2>2. PICK e \in {0, 1} : \A x \in DOMAIN w[q][k] :
          w[q][k][x] \in M => x + e \in DOMAIN v[q][k] /\ w[q][k][x] = v[q][k][x + e]
    BY DEF FewerOf
  <2>3. p = q /\ j = k /\ i + d = n + e
    BY <1>1, <2>1, <2>2 DEF OneOf
  <2>4. i \in Nat /\ n \in Nat
    BY DEF Wires
  <2>5. CASE d = e
    BY <2>3, <2>4, <2>5
  <2>6. CASE d # e
    \* The places of one channel are all shifted alike.
    <3>1. /\ i + d \in DOMAIN v[p][j] /\ i + e \in DOMAIN v[p][j]
          /\ v[p][j][i + d] \in M /\ v[p][j][i + e] \in M
      BY <2>1, <2>2, <2>3
    <3>2. ASSUME NEW x \in DOMAIN v[p][j], NEW y \in DOMAIN v[p][j],
                 v[p][j][x] \in M, v[p][j][y] \in M
          PROVE  x = y
      BY <1>1, <3>2 DEF OneOf
    <3>3. i + d = i + e
      BY <3>1, <3>2
    <3>4. QED
      BY <2>4, <2>6, <3>3
  <2>7. QED
    BY <2>5, <2>6
<1>2. ASSUME NoneOf(v, M) PROVE NoneOf(w, M)
  BY <1>2 DEF FewerOf, NoneOf
<1>3. QED
  BY <1>1, <1>2

\* Dropping messages leaves fewer of each kind.
LEMMA DroppedFewer ==
  ASSUME NEW v, NEW w, Dropped(w, v), NEW M
  PROVE  FewerOf(w, v, M)
BY DEF Dropped, FewerOf

\* So does sending one of another kind.
LEMMA SentFewer ==
  ASSUME TransportTyped, NEW v \in Wires, NEW u \in Wires, Dropped(u, v),
         NEW p \in Peer, NEW q \in Peer, NEW m \in Message, NEW M, m \notin M,
         NEW w, w = Sent(u, p, q, m)
  PROVE  FewerOf(w, v, M)
<1> SUFFICES ASSUME NEW a \in Peer, NEW j \in Attempt
             PROVE  \E d \in {0, 1} : \A i \in DOMAIN w[a][j] :
                      w[a][j][i] \in M => i + d \in DOMAIN v[a][j] /\ w[a][j][i] = v[a][j][i + d]
  BY DEF FewerOf
<1>1. PICK d \in {0, 1} : \A i \in DOMAIN u[a][j] :
        i + d \in DOMAIN v[a][j] /\ u[a][j][i] = v[a][j][i + d]
  BY DEF Dropped
<1>2. ASSUME NEW i \in DOMAIN w[a][j], w[a][j][i] \in M
      PROVE  i \in DOMAIN u[a][j] /\ w[a][j][i] = u[a][j][i]
  BY <1>2, SentAt
<1>3. QED
  BY <1>1, <1>2

\* Who takes the only message of a kind leaves none.
LEMMA TakenNone ==
  ASSUME wire \in Wires, NEW p \in Peer, NEW k \in Attempt, wire[p][k] # <<>>,
         NEW M, OneOf(wire, M), Head(wire[p][k]) \in M
  PROVE  NoneOf(Taken(p, k), M)
<1> SUFFICES ASSUME NEW q \in Peer, NEW j \in Attempt, NEW i \in DOMAIN Taken(p, k)[q][j],
                    Taken(p, k)[q][j][i] \in M
             PROVE  FALSE
  BY DEF NoneOf
<1>1. 1 \in DOMAIN wire[p][k] /\ wire[p][k][1] \in M
  BY TakenWire
<1>2. CASE q = p /\ j = k
  <2>1. Taken(p, k)[q][j] = Tail(wire[p][k]) /\ wire[p][k] \in Seq(Message)
    BY <1>2 DEF Taken, Wires
  <2>2. /\ i \in Nat /\ i # 0 /\ i + 1 \in DOMAIN wire[p][k]
        /\ wire[p][k][i + 1] \in M
    BY <2>1
  <2>3. i + 1 = 1
    BY <1>1, <2>2 DEF OneOf
  <2>4. QED
    BY <2>2, <2>3
<1>3. CASE ~(q = p /\ j = k)
  <2>1. Taken(p, k)[q][j] = wire[q][j]
    BY <1>3 DEF Taken, Wires
  <2>2. QED
    BY <1>1, <1>3, <2>1 DEF OneOf
<1>4. QED
  BY <1>2, <1>3

\* Where there was none, a message sent is the only one.
LEMMA SentOne ==
  ASSUME TransportTyped, NEW u \in Wires, NEW p \in Peer, NEW q \in Peer, NEW m \in Message,
         NEW M, NoneOf(u, M), NEW w, w = Sent(u, p, q, m)
  PROVE  /\ OneOf(w, M)
         /\ \A a \in Peer, j \in Attempt : \A i \in DOMAIN w[a][j] :
              w[a][j][i] \in M =>
                links[p][q] # None /\ a = q /\ j = links[p][q] /\ w[a][j][i] = m
<1>1. ASSUME NEW a \in Peer, NEW j \in Attempt, NEW i \in DOMAIN w[a][j], w[a][j][i] \in M
      PROVE  /\ links[p][q] # None /\ a = q /\ j = links[p][q]
             /\ i = Len(u[a][j]) + 1 /\ w[a][j][i] = m
  BY <1>1, SentAt DEF NoneOf
<1>2. QED
  BY <1>1 DEF OneOf
-----------------------------------------------------------------------------
(* The invariant of the tokens.                                            *)

NoneBuffered(s) == \A p \in Peer : buffered[p][s] # "offer"

\* The offer of s may still be accepted: a token is in transit, createOfferFor
\* has not returned, or the offer waits for its assignment.
Alive(s) == ~NoneOf(wire, Tokens(s)) \/ s \in awaiting[By[s]] \/ ~NoneBuffered(s)

\* The mediator knows whom the offer is for.
Routed(s) == ends[s] # <<>> /\ mediating[s] = ends[s][2] /\ ends[s][2] # Via[s]

\* A token is on its way to whoever hands it on.
TokenTrue(s, q, k, m) ==
  /\ m.type = "REQUEST" => q = Via[s]
  /\ m.type = "ASSIGN" => mediating[s] = m.peer /\ m.peer # Via[s]
  /\ m.type = "RELAY" =>
       /\ Routed(s)
       /\ \/ q = Via[s] /\ ends[k] # <<>> /\ Other(k, q) = By[s]
          \/ q = ends[s][2]

TokensTrue(s) ==
  \A q \in Peer, k \in Attempt : \A i \in DOMAIN wire[q][k] :
    wire[q][k][i] \in Tokens(s) => TokenTrue(s, q, k, wire[q][k][i])

\* There is one token at most, and none once the promise is settled, the offer is
\* accepted or a failure is reported.
OfferInv(s) ==
  /\ OneOf(wire, Tokens(s)) /\ TokensTrue(s)
  /\ Alive(s) => request[s] = "pending" /\ ~Accepted(s) /\ NoneOf(wire, Failures(s))
  /\ ~NoneOf(wire, Failures(s)) => request[s] # "none"
  /\ ~NoneOf(wire, Tokens(s)) => s \notin awaiting[By[s]] /\ NoneBuffered(s)
  /\ s \in awaiting[By[s]] => Routed(s) /\ NoneBuffered(s)
  /\ \A p \in Peer : buffered[p][s] = "offer" => Routed(s) /\ p = ends[s][2]

OffersInv == \A s \in Session : OfferInv(s)

\* A step of the promises, or none.
PromiseStep == [Promise!Next]_<<request, [s \in Session |-> Accepted(s)]>>

AcceptedSame == \A s \in Session : Accepted(s)' = Accepted(s)

\* What the steps for other sessions do to s.
Apart(s) ==
  /\ request'[s] = request[s] /\ mediating'[s] = mediating[s] /\ ends'[s] = ends[s]
  /\ Accepted(s)' => Accepted(s)
  /\ s \in awaiting'[By[s]] => s \in awaiting[By[s]]
  /\ \A p \in Peer : buffered'[p][s] = "offer" => buffered[p][s] = "offer"
  /\ FewerOf(wire', wire, Tokens(s)) /\ FewerOf(wire', wire, Failures(s))

\* They keep its invariant.
LEMMA ApartStep ==
  ASSUME wire \in Wires, wire' \in Wires, Kept, NEW s \in Session, OfferInv(s), Apart(s)
  PROVE  OfferInv(s)'
<1>1. /\ OneOf(wire', Tokens(s))
      /\ NoneOf(wire, Tokens(s)) => NoneOf(wire', Tokens(s))
      /\ NoneOf(wire, Failures(s)) => NoneOf(wire', Failures(s))
  BY FewerHaveOne DEF OfferInv, Apart
<1>2. Routed(s) => Routed(s)'
  BY DEF Apart, Routed
<1>3. Alive(s)' => Alive(s)
  BY <1>1 DEF Alive, Apart, NoneOf, NoneBuffered
<1>4. TokensTrue(s)'
  <2> SUFFICES ASSUME NEW q \in Peer, NEW k \in Attempt, NEW i \in DOMAIN wire'[q][k],
                      NEW m \in Tokens(s), m = wire'[q][k][i]
               PROVE  TokenTrue(s, q, k, m)'
    BY DEF TokensTrue, Tokens
  <2>1. PICK n \in DOMAIN wire[q][k] : m = wire[q][k][n]
    BY DEF Apart, FewerOf
  <2>2. TokenTrue(s, q, k, m)
    BY <2>1 DEF OfferInv, TokensTrue
  <2>3. ends[k] # <<>> => ends'[k] = ends[k]
    BY DEF Kept
  <2>4. QED
    BY <1>2, <2>2, <2>3 DEF TokenTrue, Apart, Other
<1>5. QED
  BY <1>1, <1>2, <1>3, <1>4 DEF OfferInv, Apart, NoneBuffered, OneOf, NoneOf, Tokens, Failures

\* When the token is gone, the invariant of its session says little.
LEMMA GoneStep ==
  ASSUME NEW s \in Session, NoneOf(wire', Tokens(s)), s \notin awaiting'[By[s]],
         \A p \in Peer : buffered'[p][s] # "offer", request'[s] # "none"
  PROVE  OfferInv(s)'
<1>1. ~Alive(s)' /\ NoneBuffered(s)'
  BY DEF Alive, NoneBuffered, NoneOf, Tokens
<1>2. NoneOf(wire, Tokens(s))'
  BY DEF NoneOf, Tokens
<1>3. OneOf(wire, Tokens(s))'
  BY DEF NoneOf, OneOf, Tokens
<1>4. TokensTrue(s)'
  BY DEF NoneOf, TokensTrue, Tokens
<1>5. QED
  BY <1>1, <1>2, <1>3, <1>4 DEF OfferInv

\* Settling a promise is a step of the promises.
LEMMA SettledPromise ==
  ASSUME AcceptedSame, NEW p \in Peer, NEW s \in Session, NEW outcome,
         request' = Settled(p, s, outcome),
         outcome = "rejected" \/ (outcome = "resolved" /\ Accepted(s))
  PROVE  PromiseStep
<1> DEFINE accepted == [r \in Session |-> Accepted(r)]
<1>1. accepted' = accepted
  BY DEF AcceptedSame
<1>2. accepted[s] = Accepted(s)
  OBVIOUS
<1> HIDE DEF accepted
<1>3. CASE request' = request
  BY <1>1, <1>3 DEF PromiseStep, accepted
<1>4. CASE request[s] = "pending" /\ request' = [request EXCEPT ![s] = "rejected"]
  BY <1>1, <1>4 DEF PromiseStep, Promise!Next, Promise!Reject, accepted
<1>5. CASE /\ request[s] = "pending" /\ request' = [request EXCEPT ![s] = "resolved"]
           /\ Accepted(s)
  BY <1>1, <1>2, <1>5 DEF PromiseStep, Promise!Next, Promise!Resolve, accepted
<1>6. QED
  BY <1>3, <1>4, <1>5 DEF Settled

\* So is nothing.
LEMMA QuietPromise ==
  ASSUME AcceptedSame, request' = request
  PROVE  PromiseStep
<1>1. [r \in Session |-> Accepted(r)]' = [r \in Session |-> Accepted(r)]
  BY DEF AcceptedSame
<1>2. QED
  BY <1>1 DEF PromiseStep

\* A message of no token leaves none.
LEMMA SentNone ==
  ASSUME TransportTyped, NEW u \in Wires, NEW p \in Peer, NEW q \in Peer, NEW m \in Message,
         NEW M, NoneOf(u, M), m \notin M, NEW w, w = Sent(u, p, q, m)
  PROVE  w \in Wires /\ NoneOf(w, M)
<1>1. w \in Wires
  BY SentWire
<1>2. FewerOf(w, u, M)
  BY Unchanged, SentFewer
<1>3. QED
  BY <1>1, <1>2, FewerHaveOne

\* The offer of a session is of the peer that asked.
LEMMA OfferEnds ==
  ASSUME IInv, NEW s \in Session, ends[s] # <<>>
  PROVE  /\ s \in Attempt /\ ends[s][1] = By[s] /\ ends[s][2] \in Peer /\ ends[s][2] # By[s]
         /\ ends[s] = <<By[s], ends[s][2]>> /\ request[s] # "none"
<1>1. PICK ch \in Choice : SessionInv(ch)
  BY DEF IInv
<1>2. /\ ch[s] # By[s] /\ ch[s] # None /\ request[s] # "none" /\ ends[s] = <<By[s], ch[s]>>
  BY <1>1 DEF SessionInv, SessionTrue
<1>3. QED
  BY <1>2, SessionConstants DEF Choice

\* A step for s: what it leaves as it is, of the other sessions.
LEMMA OthersStep ==
  ASSUME TransportInv, Kept, OffersInv, wire \in Wires,
         NEW s \in Session, NEW u \in Wires, Dropped(u, wire),
         \/ wire' = u
         \/ \E p, q \in Peer, m \in Message : m.session = s /\ wire' = Sent(u, p, q, m),
         \A r \in Session : r # s =>
           /\ request'[r] = request[r] /\ mediating'[r] = mediating[r] /\ ends'[r] = ends[r]
           /\ Accepted(r)' => Accepted(r)
           /\ r \in awaiting'[By[r]] => r \in awaiting[By[r]]
           /\ \A p \in Peer : buffered'[p][r] = "offer" => buffered[p][r] = "offer",
         OfferInv(s)'
  PROVE  OffersInv'
<1>1. TransportTyped
  BY DEF TransportInv
<1>2. wire' \in Wires
  BY <1>1, SentWire
<1>3. ASSUME NEW r \in Session, r # s PROVE OfferInv(r)'
  <2>1. ASSUME NEW M, \A m \in M : m.session = r
        PROVE  FewerOf(wire', wire, M)
    <3>1. CASE wire' = u
      BY <3>1, DroppedFewer
    <3>2. ASSUME NEW p \in Peer, NEW q \in Peer, NEW m \in Message, m.session = s,
                 wire' = Sent(u, p, q, m)
          PROVE  FewerOf(wire', wire, M)
      <4>1. m \notin M
        BY <1>3, <2>1, <3>2
      <4>2. PICK w : w = wire'
        OBVIOUS
      <4>3. FewerOf(w, wire, M)
        BY <1>1, <3>2, <4>1, <4>2, SentFewer
      <4>4. QED
        BY <4>2, <4>3
    <3>3. QED
      BY <3>1, <3>2
  <2>2. FewerOf(wire', wire, Tokens(r)) /\ FewerOf(wire', wire, Failures(r))
    BY <2>1 DEF Tokens, Failures
  <2>3. Apart(r)
    BY <1>3, <2>2 DEF Apart
  <2>4. QED
    BY <1>2, <2>3, ApartStep DEF OffersInv
<1>4. QED
  BY <1>3 DEF OffersInv

\* A failure is reported once the token is gone.
LEMMA FailOffer ==
  ASSUME IInv, OffersInv, NEW p \in Peer, NEW s \in Session, NEW w \in Wires, Dropped(w, wire),
         NoneOf(w, Tokens(s)), request[s] # "none", Fail(w, p, s),
         UNCHANGED <<ends, pc, tables, lateClose, mediating>>,
         s \notin awaiting'[By[s]], \A a \in Peer : buffered'[a][s] # "offer",
         \A r \in Session : r # s =>
           /\ r \in awaiting'[By[r]] => r \in awaiting[By[r]]
           /\ \A a \in Peer : buffered'[a][r] = "offer" => buffered[a][r] = "offer"
  PROVE  OffersInv' /\ PromiseStep
<1>1. TypeOK /\ TransportInv /\ TransportTyped /\ wire \in Wires
  BY DEF IInv, TypeOK, Wires, TransportInv
<1>2. TransportInv' /\ Kept
  BY <1>1, TransportSame
<1>3. PICK q \in Peer, m \in Message : q = Via[s] /\ m = Msg("FAILED", s, "none", None)
  BY SessionConstants, MsgType
<1>4. m.session = s /\ m \notin Tokens(s)
  BY <1>3 DEF Msg, Tokens
<1>5. wire' = Sent(w, p, q, m) /\ request' = Settled(p, s, "rejected")
  BY <1>3 DEF Fail
<1>6. NoneOf(wire', Tokens(s))
  <2>1. PICK x : x = wire'
    OBVIOUS
  <2>2. NoneOf(x, Tokens(s))
    BY <1>1, <1>4, <1>5, <2>1, SentNone
  <2>3. QED
    BY <2>1, <2>2
<1>7. \A r \in Session : request[r] # "none" => request'[r] # "none"
  BY <1>1, <1>5, SettledType
<1>8. \A r \in Session : r # s => request'[r] = request[r]
  BY <1>1, <1>5 DEF Settled, TypeOK
<1>9. AcceptedSame
  BY DEF AcceptedSame, Accepted
<1>10. OfferInv(s)'
  BY <1>6, <1>7, GoneStep
<1>11. OffersInv'
  BY <1>1, <1>2, <1>4, <1>5, <1>8, <1>9, <1>10, OthersStep DEF AcceptedSame
<1>12. PromiseStep
  BY <1>5, <1>9, SettledPromise
<1>13. QED
  BY <1>11, <1>12

\* A blob is processed: an offer while the promise is pending, an answer when the
\* offer has been accepted.
LEMMA ProcessOffer ==
  ASSUME IInv, OffersInv, NEW p \in Peer, NEW s \in Session, NEW r, NEW blob,
         NEW w \in Wires, Dropped(w, wire), NoneOf(w, Tokens(s)), ends[s] # <<>>,
         r.role = "answerer" /\ blob = "offer" =>
           p = ends[s][2] /\ request[s] = "pending" /\ ~Accepted(s),
         blob = "answer" => Accepted(s),
         r.role = "offerer" => ends[s] = <<p, r.peer>>,
         ProcessRelay(p, s, r, blob, w),
         UNCHANGED <<ends, tables, lateClose, mediating>>,
         s \notin awaiting[By[s]], \A a \in Peer : buffered'[a][s] # "offer",
         \A t \in Session : t # s =>
           \A a \in Peer : buffered'[a][t] = "offer" => buffered[a][t] = "offer"
  PROVE  OffersInv' /\ PromiseStep
<1>1. TypeOK /\ TransportInv /\ wire \in Wires
  BY DEF IInv, TypeOK, Wires
<1>2. /\ s \in Attempt /\ ends[s][1] = By[s] /\ ends[s][2] \in Peer /\ ends[s][2] # By[s]
      /\ request[s] # "none"
  BY OfferEnds
<1>3. CASE Fail(w, p, s) /\ UNCHANGED <<pc, awaiting>>
  BY <1>2, <1>3, FailOffer
<1>4. CASE /\ r.role = "answerer" /\ blob = "offer" /\ AcceptOffer(p, s)
           /\ awaiting' = [awaiting EXCEPT ![p] = @ \cup {s}]
           /\ wire' = w /\ UNCHANGED request
  <2>1. p = ends[s][2] /\ request[s] = "pending" /\ ~Accepted(s)
    BY <1>4
  <2>2. Kept /\ pc'[p][s] = "answering"
    BY <1>1, <1>2, <1>4, <2>1, AcceptOfferStep
  <2>3. pc' = [pc EXCEPT ![p][s] = "answering"]
    BY <1>4 DEF AcceptOffer
  <2>4. \A t \in Session : t # s => Accepted(t)' = Accepted(t)
    BY <1>1, <2>3, TwoEnds, SessionIsAttempt DEF Accepted, TypeOK
  <2>5. Accepted(s)'
    BY <2>1, <2>2 DEF Accepted
  <2>6. \A t \in Session : t \in awaiting'[By[t]] => t \in awaiting[By[t]]
    BY <1>1, <1>2, <1>4, <2>1, SessionConstants DEF TypeOK
  <2>7. OfferInv(s)'
    BY <1>2, <1>4, <2>6, GoneStep
  <2>8. OffersInv'
    BY <1>1, <1>4, <2>2, <2>4, <2>6, <2>7, OthersStep
  <2>9. PromiseStep
    <3> DEFINE accepted == [t \in Session |-> Accepted(t)]
    <3>1. accepted' = [accepted EXCEPT ![s] = TRUE]
      BY <2>4, <2>5
    <3>2. ~accepted[s]
      BY <2>1
    <3> HIDE DEF accepted
    <3>3. QED
      BY <1>4, <2>1, <3>1, <3>2 DEF PromiseStep, Promise!Next, Promise!Accept, accepted
  <2>10. QED
    BY <2>8, <2>9
<1>5. CASE /\ r.role = "offerer" /\ blob = "answer" /\ CompleteConnection(p, r.peer, s)
           /\ request' = Settled(p, s, "resolved")
           /\ wire' = w /\ UNCHANGED awaiting
  <2>1. PICK q \in Peer : q = r.peer /\ ends[s] = <<p, q>>
    BY <1>2, <1>5
  <2>2. Accepted(s) /\ CompleteConnection(p, q, s)
    BY <1>5, <2>1
  <2>3. Kept
    BY <1>1, <1>2, <2>1, <2>2, CompleteConnectionStep
  <2>4. AcceptedSame
    <3>1. PICK j \in Attempt, stage \in {"complete", "crossed"} :
            pc[p][j] \in {"gathering", "offered"} /\ pc' = [pc EXCEPT ![p][j] = stage]
      BY <1>1, <2>2, TableOther DEF CompleteConnection
    <3>2. \A a \in Peer, t \in Attempt : pc'[a][t] = IF a = p /\ t = j THEN stage ELSE pc[a][t]
      BY <1>1, <3>1 DEF TypeOK
    <3>3. \A a \in Peer, t \in Session : pc'[a][t] = "none" <=> pc[a][t] = "none"
      BY <3>1, <3>2, SessionIsAttempt
    <3>4. \A t \in Session : ends[t] # <<>> => ends[t][2] \in Peer
      BY OfferEnds
    <3>5. QED
      BY <3>3, <3>4 DEF AcceptedSame, Accepted
  <2>5. \A t \in Session : /\ request[t] # "none" => request'[t] # "none"
                           /\ t # s => request'[t] = request[t]
    BY <1>1, <1>5, SettledType DEF Settled, TypeOK
  <2>6. OfferInv(s)'
    BY <1>2, <1>5, <2>5, GoneStep
  <2>7. OffersInv'
    BY <1>1, <1>5, <2>3, <2>4, <2>5, <2>6, OthersStep DEF AcceptedSame
  <2>8. PromiseStep
    BY <1>5, <2>2, <2>4, SettledPromise
  <2>9. QED
    BY <2>7, <2>8
<1>6. QED
  BY <1>3, <1>4, <1>5 DEF ProcessRelay
-----------------------------------------------------------------------------
(* Every step keeps the invariant, and is one of the promises' or none.    *)

\* The token of a session is taken: it is true, and it was the only one.
LEMMA TakenToken ==
  ASSUME IInv, OffersInv, NEW p \in Peer, NEW k \in Attempt, NEW type, Receive(p, k, type),
         NEW s \in Session, NEW m \in Tokens(s), m = Head(wire[p][k])
  PROVE  /\ TokenTrue(s, p, k, m) /\ NoneOf(Taken(p, k), Tokens(s))
         /\ request[s] = "pending" /\ ~Accepted(s) /\ NoneOf(wire, Failures(s))
         /\ s \notin awaiting[By[s]] /\ NoneBuffered(s)
<1>1. wire \in Wires /\ wire[p][k] # <<>>
  BY DEF IInv, TypeOK, Wires, Receive
<1>2. 1 \in DOMAIN wire[p][k] /\ m = wire[p][k][1]
  BY <1>1, TakenWire
<1>3. OfferInv(s)
  BY DEF OffersInv
<1>4. TokenTrue(s, p, k, m)
  BY <1>2, <1>3 DEF OfferInv, TokensTrue
<1>5. NoneOf(Taken(p, k), Tokens(s))
  BY <1>1, <1>3, TakenNone DEF OfferInv
<1>6. ~NoneOf(wire, Tokens(s))
  BY <1>2 DEF NoneOf
<1>7. QED
  BY <1>3, <1>4, <1>5, <1>6 DEF OfferInv, Alive

\* The next token is sent.
LEMMA SentToken ==
  ASSUME TransportTyped, NEW s \in Session, NEW u \in Wires,
         NoneOf(u, Tokens(s)), NoneOf(u, Failures(s)),
         NEW p \in Peer, NEW q \in Peer, NEW m \in Message, m.type # "FAILED",
         wire' = Sent(u, p, q, m),
         \A k \in Attempt : links[p][q] = k => TokenTrue(s, q, k, m)',
         request'[s] = "pending", ~Accepted(s)',
         s \notin awaiting'[By[s]], \A a \in Peer : buffered'[a][s] # "offer"
  PROVE  OfferInv(s)'
<1>1. PICK w : w = wire'
  OBVIOUS
<1>2. /\ OneOf(w, Tokens(s))
      /\ \A a \in Peer, j \in Attempt : \A i \in DOMAIN w[a][j] :
           w[a][j][i] \in Tokens(s) =>
             links[p][q] # None /\ a = q /\ j = links[p][q] /\ w[a][j][i] = m
  BY <1>1, SentOne
<1>3. NoneOf(w, Failures(s))
  BY <1>1, SentNone DEF Failures
<1>4. TokensTrue(s)'
  <2> SUFFICES ASSUME NEW a \in Peer, NEW j \in Attempt, NEW i \in DOMAIN w[a][j],
                      NEW n \in Tokens(s), n = w[a][j][i]
               PROVE  TokenTrue(s, a, j, n)'
    BY <1>1 DEF TokensTrue, Tokens
  <2>1. links[p][q] = j /\ a = q /\ n = m
    BY <1>2
  <2>2. QED
    BY <2>1
<1>5. OneOf(wire, Tokens(s))' /\ NoneOf(wire, Failures(s))'
  BY <1>1, <1>2, <1>3 DEF OneOf, NoneOf, Tokens, Failures
<1>6. NoneBuffered(s)'
  BY DEF NoneBuffered
<1>7. QED
  BY <1>4, <1>5, <1>6 DEF OfferInv, NoneBuffered

\* A step that only loses messages, or sends one that is no token and no failure.
LEMMA QuietOffers ==
  ASSUME TransportInv, Kept, OffersInv, wire \in Wires, NEW u \in Wires, Dropped(u, wire),
         \/ wire' = u
         \/ \E p, q \in Peer, m \in Message :
              /\ m \notin Tokens(m.session) /\ m.type # "FAILED"
              /\ wire' = Sent(u, p, q, m),
         UNCHANGED <<request, mediating, buffered>>, AcceptedSame,
         \A s \in Session : /\ ends'[s] = ends[s]
                            /\ s \in awaiting'[By[s]] => s \in awaiting[By[s]]
  PROVE  OffersInv' /\ PromiseStep
<1>1. TransportTyped
  BY DEF TransportInv
<1>2. wire' \in Wires
  BY <1>1, SentWire
<1>3. ASSUME NEW s \in Session PROVE OfferInv(s)'
  <2>1. ASSUME NEW M, M = Tokens(s) \/ M = Failures(s) PROVE FewerOf(wire', wire, M)
    <3>1. CASE wire' = u
      BY <3>1, DroppedFewer
    <3>2. ASSUME NEW p \in Peer, NEW q \in Peer, NEW m \in Message,
                 m \notin Tokens(m.session), m.type # "FAILED", wire' = Sent(u, p, q, m)
          PROVE  FewerOf(wire', wire, M)
      <4>1. m \notin M
        BY <2>1, <3>2 DEF Tokens, Failures
      <4>2. PICK w : w = wire'
        OBVIOUS
      <4>3. FewerOf(w, wire, M)
        BY <1>1, <3>2, <4>1, <4>2, SentFewer
      <4>4. QED
        BY <4>2, <4>3
    <3>3. QED
      BY <3>1, <3>2
  <2>2. Apart(s)
    BY <2>1 DEF Apart, AcceptedSame
  <2>3. QED
    BY <1>2, <2>2, ApartStep DEF OffersInv
<1>4. OffersInv'
  BY <1>3 DEF OffersInv
<1>5. QED
  BY <1>4, QuietPromise

\* A step for a session whose token is gone, which leaves the promises alone.
LEMMA DeadOffer ==
  ASSUME IInv, OffersInv, UNCHANGED <<ends, pc, tables, lateClose, request>>,
         NEW s \in Session, request[s] # "none", s \notin awaiting'[By[s]],
         \A a \in Peer : buffered'[a][s] # "offer",
         NEW u \in Wires, Dropped(u, wire), NoneOf(u, Tokens(s)),
         \/ wire' = u
         \/ \E p, q \in Peer, m \in Message :
              m.session = s /\ m \notin Tokens(s) /\ wire' = Sent(u, p, q, m),
         \A r \in Session : r # s =>
           /\ mediating'[r] = mediating[r]
           /\ r \in awaiting'[By[r]] => r \in awaiting[By[r]]
           /\ \A p \in Peer : buffered'[p][r] = "offer" => buffered[p][r] = "offer"
  PROVE  OffersInv' /\ PromiseStep
<1>1. TypeOK /\ TransportInv /\ TransportTyped /\ wire \in Wires
  BY DEF IInv, TypeOK, Wires, TransportInv
<1>2. Kept
  BY <1>1, TransportSame
<1>3. AcceptedSame
  BY DEF AcceptedSame, Accepted
<1>4. NoneOf(wire', Tokens(s))
  <2>1. PICK w : w = wire'
    OBVIOUS
  <2>2. ASSUME NEW p \in Peer, NEW q \in Peer, NEW m \in Message, m \notin Tokens(s),
               w = Sent(u, p, q, m)
        PROVE  NoneOf(w, Tokens(s))
    BY <1>1, <2>2, SentNone
  <2>3. QED
    BY <2>1, <2>2
<1>5. OfferInv(s)'
  BY <1>4, GoneStep
<1>6. \/ wire' = u
      \/ \E p, q \in Peer, m \in Message : m.session = s /\ wire' = Sent(u, p, q, m)
  OBVIOUS
<1>7. OffersInv'
  BY <1>1, <1>2, <1>3, <1>5, <1>6, OthersStep DEF AcceptedSame
<1>8. QED
  BY <1>3, <1>7, QuietPromise

\* A session whose offer has been accepted, or of which a failure is reported, has
\* no token.
LEMMA Dead ==
  ASSUME OffersInv, NEW s \in Session, Accepted(s) \/ ~NoneOf(wire, Failures(s))
  PROVE  NoneOf(wire, Tokens(s)) /\ s \notin awaiting[By[s]] /\ NoneBuffered(s)
BY DEF OffersInv, OfferInv, Alive

\* requestIntroduction.
LEMMA RequestOffer ==
  ASSUME IInv, OffersInv, NEW s \in Session, RequestIntroduction(s)
  PROVE  OffersInv' /\ PromiseStep
<1>1. /\ request[s] = "none" /\ request' = [request EXCEPT ![s] = "pending"]
      /\ wire' = Sent(wire, By[s], Via[s], Msg("REQUEST", s, "none", None))
      /\ UNCHANGED <<ends, pc, tables, lateClose, mediating, buffered, awaiting>>
  BY DEF RequestIntroduction
<1>2. TypeOK /\ TransportInv /\ TransportTyped /\ wire \in Wires /\ Dropped(wire, wire)
  BY Unchanged DEF IInv, TypeOK, Wires, TransportInv
<1>3. Kept /\ AcceptedSame
  BY <1>1, <1>2, TransportSame DEF AcceptedSame, Accepted
<1>4. PICK p \in Peer, q \in Peer, m \in Message :
        p = By[s] /\ q = Via[s] /\ m = Msg("REQUEST", s, "none", None)
  BY SessionConstants, MsgType
<1>5. m.type = "REQUEST" /\ m.session = s /\ wire' = Sent(wire, p, q, m)
  BY <1>1, <1>4 DEF Msg
<1>6. OfferInv(s)
  BY DEF OffersInv
<1>7. /\ NoneOf(wire, Tokens(s)) /\ NoneOf(wire, Failures(s))
      /\ s \notin awaiting[By[s]] /\ NoneBuffered(s)
  BY <1>1, <1>6 DEF OfferInv, Alive
<1>8. ~Accepted(s)
  BY <1>1, OfferEnds DEF Accepted
<1>9. \A k \in Attempt : TokenTrue(s, q, k, m)'
  BY <1>4, <1>5 DEF TokenTrue
<1>10. request'[s] = "pending" /\ \A r \in Session : r # s => request'[r] = request[r]
  BY <1>1, <1>2 DEF TypeOK
<1>11. OfferInv(s)'
  BY <1>1, <1>2, <1>3, <1>5, <1>7, <1>8, <1>9, <1>10, SentToken DEF AcceptedSame, NoneBuffered
<1>12. OffersInv'
  BY <1>1, <1>2, <1>3, <1>5, <1>10, <1>11, OthersStep DEF AcceptedSame
<1>13. PromiseStep
  <2> DEFINE accepted == [r \in Session |-> Accepted(r)]
  <2>1. accepted' = accepted
    BY <1>3 DEF AcceptedSame
  <2> HIDE DEF accepted
  <2>2. QED
    BY <1>1, <2>1 DEF PromiseStep, Promise!Next, Promise!Ask, accepted
<1>14. QED
  BY <1>12, <1>13

\* INTRO_REQUEST: the token goes back to the asker as an assignment, or ends.
LEMMA RequestTaken ==
  ASSUME IInv, OffersInv, NEW p \in Peer, NEW k \in Attempt, HandleRequest(p, k)
  PROVE  OffersInv' /\ PromiseStep
<1>1. PICK ch \in Choice : SessionInv(ch)
  BY DEF IInv
<1>2. TypeOK /\ TransportInv /\ TransportTyped /\ wire \in Wires /\ MessagesTrue(ch)
  BY <1>1 DEF IInv, TypeOK, Wires, TransportInv, SessionInv
<1>3. /\ Receive(p, k, "REQUEST")
      /\ UNCHANGED <<ends, pc, tables, lateClose, request, buffered, awaiting>>
  BY DEF HandleRequest
<1>4. PICK m \in Message, s \in Session, w \in Wires :
        m = Head(wire[p][k]) /\ s = m.session /\ w = Taken(p, k)
  BY <1>2, <1>3, HeadTrue
<1>5. m.type = "REQUEST" /\ Dropped(w, wire) /\ MessageTrue(ch, p, k, m)
  BY <1>2, <1>3, <1>4, HeadTrue
<1>6. m \in Tokens(s)
  BY <1>4, <1>5 DEF Tokens
<1>7. /\ TokenTrue(s, p, k, m) /\ NoneOf(w, Tokens(s))
      /\ request[s] = "pending" /\ ~Accepted(s) /\ NoneOf(wire, Failures(s))
      /\ s \notin awaiting[By[s]] /\ NoneBuffered(s)
  BY <1>3, <1>4, <1>6, TakenToken
<1>8. PICK asker \in Peer : asker = By[s] /\ asker = Other(k, p)
  BY <1>4, <1>5, SessionConstants DEF MessageTrue
<1>9. p = Via[s]
  BY <1>5, <1>7 DEF TokenTrue
<1>10. CASE /\ wire' = Sent(Taken(p, k), p, asker, Msg("FAILED", s, "none", None))
            /\ UNCHANGED mediating
  <2>1. PICK n \in Message : n = Msg("FAILED", s, "none", None)
    BY MsgType
  <2>2. n.session = s /\ n \notin Tokens(s) /\ wire' = Sent(w, p, asker, n)
    BY <1>4, <1>10, <2>1 DEF Msg, Tokens
  <2>3. QED
    BY <1>3, <1>5, <1>7, <1>10, <2>2, DeadOffer DEF NoneBuffered
<1>11. ASSUME NEW c \in Peer, c # p, mediating' = [mediating EXCEPT ![s] = c],
              wire' = Sent(Taken(p, k), p, asker, Msg("ASSIGN", s, "offerer", c))
       PROVE  OffersInv' /\ PromiseStep
  <2>1. PICK n \in Message : n = Msg("ASSIGN", s, "offerer", c)
    BY MsgType
  <2>2. /\ n.type = "ASSIGN" /\ n.session = s /\ n.peer = c /\ wire' = Sent(w, p, asker, n)
    BY <1>4, <1>11, <2>1 DEF Msg
  <2>3. Kept /\ AcceptedSame
    BY <1>2, <1>3, TransportSame DEF AcceptedSame, Accepted
  <2>4. mediating'[s] = c /\ \A r \in Session : r # s => mediating'[r] = mediating[r]
    BY <1>2, <1>11 DEF TypeOK
  <2>5. \A j \in Attempt : TokenTrue(s, asker, j, n)'
    BY <1>9, <1>11, <2>2, <2>4 DEF TokenTrue
  <2>6. NoneOf(w, Failures(s))
    BY <1>2, <1>5, <1>7, DroppedFewer, FewerHaveOne
  <2>7. OfferInv(s)'
    BY <1>2, <1>3, <1>7, <2>2, <2>3, <2>5, <2>6, SentToken DEF AcceptedSame, NoneBuffered
  <2>8. OffersInv'
    BY <1>2, <1>3, <1>5, <2>2, <2>3, <2>4, <2>7, OthersStep DEF AcceptedSame
  <2>9. PromiseStep
    BY <1>3, <2>3, QuietPromise
  <2>10. QED
    BY <2>8, <2>9
<1>12. QED
  <2>1. openPeers[p] \in SUBSET Peer
    BY <1>2 DEF TypeOK
  <2>2. QED
    BY <1>4, <1>8, <1>10, <1>11, <2>1 DEF HandleRequest

\* The second send of its handler.
LEMMA AnswererAssigned ==
  ASSUME IInv, OffersInv, NEW p \in Peer, NEW s \in Session, AssignAnswerer(p, s)
  PROVE  OffersInv' /\ PromiseStep
<1>1. /\ assigning[s] # None
      /\ wire' = Sent(wire, p, assigning[s], Msg("ASSIGN", s, "answerer", By[s]))
      /\ UNCHANGED <<ends, pc, tables, lateClose, request, mediating, buffered, awaiting>>
  BY DEF AssignAnswerer
<1>2. TypeOK /\ TransportInv /\ wire \in Wires /\ Dropped(wire, wire)
  BY Unchanged DEF IInv, TypeOK, Wires
<1>3. Kept /\ AcceptedSame
  BY <1>1, <1>2, TransportSame DEF AcceptedSame, Accepted
<1>4. PICK q \in Peer, m \in Message :
        q = assigning[s] /\ m = Msg("ASSIGN", s, "answerer", By[s])
  BY <1>1, <1>2, SessionConstants, MsgType DEF TypeOK
<1>5. /\ m \notin Tokens(m.session) /\ m.type # "FAILED" /\ wire' = Sent(wire, p, q, m)
  BY <1>1, <1>4 DEF Msg, Tokens
<1>6. QED
  BY <1>1, <1>2, <1>3, <1>5, QuietOffers

\* A message that nobody hears, stop() and start().
LEMMA QuietHandlers ==
  ASSUME IInv, OffersInv, NEW p \in Peer,
         (\E k \in Attempt : Unheard(p, k)) \/ Stop(p) \/ Start(p)
  PROVE  OffersInv' /\ PromiseStep
<1>1. UNCHANGED <<ends, pc, tables, lateClose, request, mediating, buffered, awaiting>>
  BY DEF Unheard, Stop, Start, transportVars, sessionVars
<1>2. TypeOK /\ TransportInv /\ wire \in Wires
  BY DEF IInv, TypeOK, Wires
<1>3. Kept /\ AcceptedSame
  BY <1>1, <1>2, TransportSame DEF AcceptedSame, Accepted
<1>4. wire' \in Wires /\ Dropped(wire', wire)
  <2>1. ASSUME NEW k \in Attempt, Unheard(p, k) PROVE wire' \in Wires /\ Dropped(wire', wire)
    BY <1>2, <2>1, TakenWire DEF Unheard
  <2>2. CASE Stop(p) \/ Start(p)
    BY <1>2, <2>2, Unchanged DEF Stop, Start, transportVars
  <2>3. QED
    BY <2>1, <2>2
<1>5. QED
  BY <1>1, <1>2, <1>3, <1>4, QuietOffers

\* INTRO_ASSIGN: the offerer makes the offer; the answerer may have it already.
LEMMA AssignTaken ==
  ASSUME IInv, OffersInv, NEW p \in Peer, NEW k \in Attempt, HandleAssign(p, k)
  PROVE  OffersInv' /\ PromiseStep
<1>1. PICK ch \in Choice : SessionInv(ch)
  BY DEF IInv
<1>2. /\ TypeOK /\ TransportInv /\ TransportTyped /\ wire \in Wires
      /\ MessagesTrue(ch) /\ BufferedTrue
  BY <1>1 DEF IInv, TypeOK, Wires, TransportInv, SessionInv
<1>3. Receive(p, k, "ASSIGN") /\ UNCHANGED mediating
  BY DEF HandleAssign
<1>4. PICK m \in Message, s \in Session, w \in Wires :
        m = Head(wire[p][k]) /\ s = m.session /\ w = Taken(p, k)
  BY <1>2, <1>3, HeadTrue
<1>5. m.type = "ASSIGN" /\ Dropped(w, wire) /\ MessageTrue(ch, p, k, m)
  BY <1>2, <1>3, <1>4, HeadTrue
<1>6. /\ ch[s] # None
      /\ \/ p = By[s] /\ m.body = "offerer" /\ m.peer = ch[s]
         \/ p = ch[s] /\ m.body = "answerer" /\ m.peer = By[s]
  BY <1>4, <1>5 DEF MessageTrue
<1>7. ch[s] \in Peer /\ ch[s] # By[s] /\ s \in Attempt /\ request[s] # "none"
  BY <1>1, <1>6, SessionConstants DEF Choice, SessionInv, SessionTrue
<1> DEFINE r == [role |-> m.body, peer |-> m.peer]
<1>8. CASE m.body = "offerer" /\ UNCHANGED buffered
  <2>1. m \in Tokens(s) /\ p = By[s]
    BY <1>4, <1>5, <1>6, <1>8 DEF Tokens
  <2>2. /\ TokenTrue(s, p, k, m) /\ NoneOf(w, Tokens(s))
        /\ request[s] = "pending" /\ ~Accepted(s) /\ NoneOf(wire, Failures(s))
        /\ s \notin awaiting[By[s]] /\ NoneBuffered(s)
    BY <1>3, <1>4, <2>1, TakenToken
  <2>3. CASE Fail(w, p, s) /\ UNCHANGED <<ends, pc, tables, lateClose, awaiting>>
    BY <1>3, <1>5, <1>8, <2>2, <2>3, FailOffer DEF NoneBuffered
  <2>4. CASE /\ CreateOffer(p, m.peer, s) /\ wire' = w /\ UNCHANGED request
             /\ awaiting' = [awaiting EXCEPT ![p] = @ \cup {s}]
    <3>1. PICK q \in Peer : q = m.peer /\ q = ch[s]
      BY <1>6, <1>7, <2>1, <1>8
    <3>2. /\ ends[s] = <<>> /\ ends' = [ends EXCEPT ![s] = <<p, q>>]
          /\ pc' = [pc EXCEPT ![p][s] = "gathering"] /\ CreateOffer(p, q, s)
      BY <2>4, <3>1 DEF CreateOffer
    <3>3. Kept
      BY <1>2, <1>7, <3>2, CreateOfferStep
    <3>4. ends'[s] = <<p, q>> /\ \A t \in Session : t # s => ends'[t] = ends[t]
      BY <1>2, <1>7, <3>2, SessionIsAttempt DEF TypeOK
    <3>5. \A a \in Peer, t \in Attempt :
            pc'[a][t] = IF a = p /\ t = s THEN "gathering" ELSE pc[a][t]
      BY <1>2, <3>2 DEF TypeOK
    <3>6. ~Accepted(s)'
      <4>1. pc[q][s] = "none" /\ q # p
        BY <1>2, <1>7, <2>1, <3>1, <3>2 DEF TransportInv, EndsHold
      <4>2. QED
        BY <1>7, <3>4, <3>5, <4>1 DEF Accepted
    <3>7. \A t \in Session : t # s => Accepted(t)' = Accepted(t)
      BY <3>4, <3>5, OfferEnds DEF Accepted
    <3>8. AcceptedSame
      <4>1. Accepted(s)' = Accepted(s)
        BY <2>2, <3>6 DEF Accepted
      <4>2. QED
        BY <3>7, <4>1 DEF AcceptedSame
    <3>9. Routed(s)'
      BY <1>3, <1>5, <2>2, <3>1, <3>4 DEF TokenTrue, Routed
    <3>10. NoneOf(wire', Tokens(s)) /\ NoneOf(wire', Failures(s))
      BY <1>2, <1>5, <2>2, <2>4, DroppedFewer, FewerHaveOne
    <3>11. OfferInv(s)'
      <4>1. NoneOf(wire, Tokens(s))' /\ NoneOf(wire, Failures(s))'
        BY <3>10 DEF NoneOf, Tokens, Failures
      <4>2. OneOf(wire, Tokens(s))' /\ TokensTrue(s)'
        BY <4>1 DEF NoneOf, OneOf, TokensTrue, Tokens
      <4>3. NoneBuffered(s)'
        BY <1>8, <2>2 DEF NoneBuffered
      <4>4. QED
        BY <2>2, <2>4, <3>6, <3>9, <4>1, <4>2, <4>3 DEF OfferInv, NoneBuffered
    <3>12. \A t \in Session : t # s => (t \in awaiting'[By[t]] => t \in awaiting[By[t]])
      BY <1>2, <2>4, SessionConstants DEF TypeOK
    <3>13. OffersInv'
      BY <1>2, <1>3, <1>5, <1>8, <2>4, <3>3, <3>4, <3>7, <3>11, <3>12, OthersStep
    <3>14. QED
      BY <2>4, <3>8, <3>13, QuietPromise
  <2>5. QED
    BY <1>4, <1>8, <2>3, <2>4 DEF HandleAssign
<1>9. CASE /\ m.body = "answerer" /\ wire' = w
           /\ UNCHANGED <<ends, pc, tables, lateClose, request, buffered, awaiting>>
  <2>1. Kept /\ AcceptedSame
    BY <1>2, <1>9, TransportSame DEF AcceptedSame, Accepted
  <2>2. QED
    BY <1>2, <1>3, <1>5, <1>9, <2>1, QuietOffers
<1>10. CASE /\ m.body = "answerer" /\ buffered[p][s] # "none"
            /\ buffered' = [buffered EXCEPT ![p][s] = "none"]
            /\ ProcessRelay(p, s, r, buffered[p][s], w)
            /\ UNCHANGED <<ends, tables, lateClose>>
  <2>1. PICK blob : blob = buffered[p][s]
    OBVIOUS
  <2>2. ends[s] # <<>> /\ (blob = "answer" => Accepted(s)) /\ blob \in {"offer", "answer"}
    BY <1>2, <1>10, <2>1 DEF BufferedTrue, TypeOK
  <2>3. OfferInv(s)
    BY DEF OffersInv
  <2>4. /\ NoneOf(wire, Tokens(s)) /\ s \notin awaiting[By[s]]
        /\ blob = "offer" => p = ends[s][2] /\ request[s] = "pending" /\ ~Accepted(s)
        /\ \A a \in Peer : buffered[a][s] = "offer" => a = p
    <3>1. CASE blob = "offer"
      BY <2>1, <2>3, <3>1 DEF OfferInv, Alive, NoneBuffered
    <3>2. CASE blob = "answer"
      BY <2>2, <3>2, Dead DEF NoneBuffered
    <3>3. QED
      BY <2>2, <3>1, <3>2
  <2>5. NoneOf(w, Tokens(s))
    BY <1>2, <1>5, <2>4, DroppedFewer, FewerHaveOne
  <2>6. \A a \in Peer, t \in Session :
          buffered'[a][t] = IF a = p /\ t = s THEN "none" ELSE buffered[a][t]
    BY <1>2, <1>10 DEF TypeOK
  <2>7. PICK x : x = r
    OBVIOUS
  <2>8. ProcessRelay(p, s, x, blob, w) /\ x.role = "answerer"
    BY <1>10, <2>1, <2>7
  <2> HIDE DEF r
  <2>9. \A a \in Peer : buffered'[a][s] # "offer"
    BY <2>4, <2>6
  <2>10. \A t \in Session : t # s =>
           \A a \in Peer : buffered'[a][t] = "offer" => buffered[a][t] = "offer"
    BY <2>6
  <2>11. QED
    BY <1>3, <1>5, <1>10, <2>2, <2>4, <2>5, <2>8, <2>9, <2>10, ProcessOffer
<1>11. QED
  BY <1>4, <1>8, <1>9, <1>10 DEF HandleAssign

\* createOfferFor returns: the offer goes to the mediator, or the token ends.
LEMMA OfferHandedOut ==
  ASSUME IInv, OffersInv, NEW p \in Peer, NEW s \in Session, OfferReady(p, s)
  PROVE  OffersInv' /\ PromiseStep
<1>1. /\ s \in awaiting[p] /\ p = By[s] /\ awaiting' = [awaiting EXCEPT ![p] = @ \ {s}]
      /\ UNCHANGED <<ends, tables, lateClose, mediating, buffered>>
  BY DEF OfferReady
<1>2. TypeOK /\ TransportInv /\ TransportTyped /\ wire \in Wires /\ Dropped(wire, wire)
  BY Unchanged DEF IInv, TypeOK, Wires, TransportInv
<1>3. OfferInv(s)
  BY DEF OffersInv
<1>4. /\ request[s] = "pending" /\ ~Accepted(s) /\ Routed(s) /\ NoneBuffered(s)
      /\ NoneOf(wire, Tokens(s)) /\ NoneOf(wire, Failures(s))
  BY <1>1, <1>3 DEF OfferInv, Alive
<1>5. \A t \in Session : /\ t \in awaiting'[By[t]] => t \in awaiting[By[t]]
                         /\ s \notin awaiting'[By[s]]
  BY <1>1, <1>2, SessionConstants DEF TypeOK
<1>6. CASE Fail(wire, p, s) /\ UNCHANGED pc
  BY <1>1, <1>2, <1>4, <1>5, <1>6, FailOffer DEF NoneBuffered
<1>7. CASE /\ Offered(p, s) /\ UNCHANGED request
           /\ wire' = Sent(wire, p, Via[s], Msg("RELAY", s, "offer", None))
  <2>1. PICK q \in Peer, m \in Message : q = Via[s] /\ m = Msg("RELAY", s, "offer", None)
    BY SessionConstants, MsgType
  <2>2. /\ m.type = "RELAY" /\ m.session = s /\ wire' = Sent(wire, p, q, m) /\ q # p
    BY <1>1, <1>7, <2>1, SessionAssumption DEF Msg
  <2>3. /\ ends[s][1] = p /\ ends[s][2] # p /\ ends[s][2] \in Peer /\ s \in Attempt
    BY <1>1, <1>4, OfferEnds DEF Routed
  <2>4. PICK stage : /\ pc' = [pc EXCEPT ![p][s] = stage]
                     /\ \/ pc[p][s] = "gathering" /\ stage = "offered"
                        \/ stage = pc[p][s]
    <3>1. pc' = [pc EXCEPT ![p][s] = IF pc[p][s] = "gathering" THEN "offered" ELSE pc[p][s]]
      BY <1>7 DEF Offered
    <3>2. QED
      BY <3>1
  <2>5. \A a \in Peer, t \in Attempt :
          pc'[a][t] = IF a = p /\ t = s THEN stage ELSE pc[a][t]
    BY <1>2, <2>4 DEF TypeOK
  <2>6. Kept
    BY <1>1, <2>4, <2>5 DEF Kept
  <2>7. AcceptedSame
    <3>1. \A t \in Session : ends[t] # <<>> => pc'[ends[t][2]][t] = pc[ends[t][2]][t]
      BY <2>3, <2>5, OfferEnds
    <3>2. QED
      BY <1>1, <3>1 DEF AcceptedSame, Accepted
  <2>8. ASSUME NEW k \in Attempt, links[p][q] = k PROVE TokenTrue(s, q, k, m)'
    <3>1. ends[k] # <<>> /\ Other(k, p) = q
      BY <1>2, <2>8, TableOther, AttemptAssumption
    <3>2. Other(k, q) = p
      BY <1>2, <2>2, <3>1, TwoEnds, <2>8, AttemptAssumption DEF Other, TransportInv, TableTrue
    <3>3. QED
      BY <1>1, <1>4, <2>1, <2>2, <3>1, <3>2 DEF TokenTrue, Routed, Other
  <2>9. OfferInv(s)'
    BY <1>1, <1>2, <1>4, <1>5, <1>7, <2>2, <2>7, <2>8, SentToken DEF AcceptedSame, NoneBuffered
  <2>10. OffersInv'
    BY <1>1, <1>2, <1>5, <1>7, <2>2, <2>6, <2>7, <2>9, OthersStep DEF AcceptedSame
  <2>11. QED
    BY <1>7, <2>7, <2>10, QuietPromise
<1>8. QED
  BY <1>6, <1>7 DEF OfferReady

\* acceptOffer returns: the offer had been accepted before, so no token is left.
LEMMA AnswerHandedOut ==
  ASSUME IInv, OffersInv, NEW p \in Peer, NEW s \in Session, AnswerReady(p, s)
  PROVE  OffersInv' /\ PromiseStep
<1>1. /\ s \in awaiting[p] /\ p # By[s] /\ awaiting' = [awaiting EXCEPT ![p] = @ \ {s}]
      /\ UNCHANGED <<ends, tables, lateClose, mediating, buffered>>
  BY DEF AnswerReady
<1>2. TypeOK /\ TransportInv /\ TransportTyped /\ wire \in Wires /\ Dropped(wire, wire)
  BY Unchanged DEF IInv, TypeOK, Wires, TransportInv
<1>3. ends[s] # <<>> /\ pc[p][s] = "answering"
  BY <1>1 DEF IInv, SessionInv, AwaitingTrue
<1>4. s \in Attempt /\ request[s] # "none" /\ p = ends[s][2]
  BY <1>2, <1>3, OfferEnds DEF TransportInv, EndsHold
<1>5. NoneOf(wire, Tokens(s)) /\ s \notin awaiting[By[s]] /\ NoneBuffered(s)
  BY <1>3, <1>4, Dead DEF Accepted
<1>6. \A t \in Session : t \in awaiting'[By[t]] => t \in awaiting[By[t]]
  BY <1>1, <1>2, SessionConstants DEF TypeOK
<1>7. CASE Fail(wire, p, s) /\ UNCHANGED pc
  BY <1>1, <1>2, <1>4, <1>5, <1>6, <1>7, FailOffer DEF NoneBuffered
<1>8. CASE /\ Answered(p, s) /\ UNCHANGED request
           /\ wire' = Sent(wire, p, Via[s], Msg("RELAY", s, "answer", None))
  <2>1. PICK q \in Peer, m \in Message : q = Via[s] /\ m = Msg("RELAY", s, "answer", None)
    BY SessionConstants, MsgType
  <2>2. /\ m \notin Tokens(m.session) /\ m.type # "FAILED" /\ wire' = Sent(wire, p, q, m)
    BY <1>8, <2>1 DEF Msg, Tokens
  <2>3. \A a \in Peer, t \in Attempt :
          pc'[a][t] = IF a = p /\ t = s THEN "answered" ELSE pc[a][t]
    BY <1>2, <1>8 DEF TypeOK, Answered
  <2>4. Kept
    BY <1>1, <2>3 DEF Kept
  <2>5. AcceptedSame
    <3>1. \A a \in Peer, t \in Session : pc'[a][t] = "none" <=> pc[a][t] = "none"
      BY <1>3, <2>3, SessionIsAttempt
    <3>2. QED
      BY <1>1, <3>1, OfferEnds DEF AcceptedSame, Accepted
  <2>6. QED
    BY <1>1, <1>2, <1>6, <1>8, <2>2, <2>4, <2>5, QuietOffers
<1>9. QED
  BY <1>7, <1>8 DEF AnswerReady

\* INTRO_RELAY: the mediator hands the offer on, its peer buffers or accepts it.
LEMMA RelayTaken ==
  ASSUME IInv, OffersInv, NEW p \in Peer, NEW k \in Attempt, HandleRelay(p, k)
  PROVE  OffersInv' /\ PromiseStep
<1>1. PICK ch \in Choice : SessionInv(ch)
  BY DEF IInv
<1>2. /\ TypeOK /\ TransportInv /\ TransportTyped /\ wire \in Wires
      /\ MessagesTrue(ch) /\ RolesTrue(ch)
  BY <1>1 DEF IInv, TypeOK, Wires, TransportInv, SessionInv
<1>3. Receive(p, k, "RELAY") /\ UNCHANGED <<ends, tables, lateClose, mediating>>
  BY DEF HandleRelay
<1>4. PICK m \in Message, s \in Session, w \in Wires :
        m = Head(wire[p][k]) /\ s = m.session /\ w = Taken(p, k)
  BY <1>2, <1>3, HeadTrue
<1>5. m.type = "RELAY" /\ Dropped(w, wire) /\ MessageTrue(ch, p, k, m)
  BY <1>2, <1>3, <1>4, HeadTrue
<1>6. /\ ends[s] # <<>> /\ m.body \in {"offer", "answer"}
      /\ m.body = "answer" => Accepted(s)
  BY <1>4, <1>5 DEF MessageTrue
<1>7. /\ s \in Attempt /\ ends[s][2] \in Peer /\ ends[s][2] # By[s] /\ request[s] # "none"
      /\ ends[s] = <<By[s], ends[s][2]>> /\ By[s] \in Peer
  BY <1>6, OfferEnds, SessionConstants
<1>8. m.body = "offer" => m \in Tokens(s)
  BY <1>4, <1>5 DEF Tokens
<1>9. m.body = "offer" =>
        /\ Routed(s) /\ request[s] = "pending" /\ ~Accepted(s) /\ NoneOf(wire, Failures(s))
        /\ p = ends[s][2] \/ (p = Via[s] /\ Other(k, p) = By[s])
  BY <1>3, <1>4, <1>5, <1>8, TakenToken DEF TokenTrue
<1>10. NoneOf(w, Tokens(s)) /\ s \notin awaiting[By[s]] /\ NoneBuffered(s)
  <2>1. CASE m.body = "offer"
    BY <1>3, <1>4, <1>8, <2>1, TakenToken
  <2>2. CASE m.body = "answer"
    BY <1>2, <1>5, <1>6, <2>2, Dead, DroppedFewer, FewerHaveOne
  <2>3. QED
    BY <1>6, <2>1, <2>2
<1>11. CASE /\ Mediates(p, s)
            /\ wire' = Sent(w, p, OtherSide(s, Other(k, p)), m)
            /\ UNCHANGED <<pc, request, buffered, awaiting>>
  <2>1. PICK q \in Peer : q = OtherSide(s, Other(k, p))
    BY <1>2, <1>7, <1>11 DEF OtherSide, Mediates, TypeOK
  <2>2. wire' = Sent(w, p, q, m)
    BY <1>11, <2>1
  <2>3. CASE m.body = "answer"
    <3>1. m \notin Tokens(s)
      BY <1>5, <2>3 DEF Tokens
    <3>2. QED
      BY <1>3, <1>4, <1>5, <1>7, <1>10, <1>11, <2>2, <3>1, DeadOffer DEF NoneBuffered
  <2>4. CASE m.body = "offer"
    <3>1. q = ends[s][2]
      BY <1>9, <1>11, <2>1, <2>4 DEF Mediates, OtherSide, Routed
    <3>2. Kept /\ AcceptedSame
      BY <1>2, <1>3, <1>11, TransportSame DEF AcceptedSame, Accepted
    <3>3. \A j \in Attempt : TokenTrue(s, q, j, m)'
      BY <1>3, <1>5, <1>9, <2>4, <3>1 DEF TokenTrue, Routed
    <3>4. NoneOf(w, Failures(s))
      BY <1>2, <1>5, <1>9, <2>4, DroppedFewer, FewerHaveOne
    <3>5. OfferInv(s)'
      BY <1>2, <1>5, <1>9, <1>10, <1>11, <2>2, <2>4, <3>2, <3>3, <3>4, SentToken
         DEF AcceptedSame, NoneBuffered
    <3>6. OffersInv'
      BY <1>2, <1>3, <1>4, <1>5, <1>11, <2>2, <3>2, <3>5, OthersStep DEF AcceptedSame
    <3>7. QED
      BY <1>11, <3>2, <3>6, QuietPromise
  <2>5. QED
    BY <1>6, <2>3, <2>4
<1>12. CASE /\ ~Mediates(p, s)
            /\ buffered' = [buffered EXCEPT ![p][s] = m.body]
            /\ wire' = w
            /\ UNCHANGED <<pc, request, awaiting>>
  <2>1. \A a \in Peer, t \in Session :
          buffered'[a][t] = IF a = p /\ t = s THEN m.body ELSE buffered[a][t]
    BY <1>2, <1>6, <1>12 DEF TypeOK
  <2>2. CASE m.body = "answer"
    BY <1>3, <1>5, <1>7, <1>10, <1>12, <2>1, <2>2, DeadOffer DEF NoneBuffered
  <2>3. CASE m.body = "offer"
    <3>1. p = ends[s][2]
      BY <1>7, <1>9, <1>12, <2>3, SessionConstants DEF Mediates, Routed
    <3>2. Kept /\ AcceptedSame
      BY <1>2, <1>3, <1>12, TransportSame DEF AcceptedSame, Accepted
    <3>3. NoneOf(wire', Tokens(s)) /\ NoneOf(wire', Failures(s))
      BY <1>2, <1>5, <1>9, <1>10, <1>12, <2>3, DroppedFewer, FewerHaveOne
    <3>4. OfferInv(s)'
      <4>1. NoneOf(wire, Tokens(s))' /\ NoneOf(wire, Failures(s))'
        BY <3>3 DEF NoneOf, Tokens, Failures
      <4>2. OneOf(wire, Tokens(s))' /\ TokensTrue(s)'
        BY <4>1 DEF NoneOf, OneOf, TokensTrue, Tokens
      <4>3. request'[s] = "pending" /\ ~Accepted(s)' /\ s \notin awaiting'[By[s]]
        BY <1>9, <1>10, <1>12, <2>3, <3>2 DEF AcceptedSame
      <4>4. \A a \in Peer : buffered'[a][s] = "offer" => a = p
        BY <1>10, <2>1 DEF NoneBuffered
      <4>5. Routed(s)' /\ ends'[s] = ends[s]
        BY <1>3, <1>9, <2>3 DEF Routed
      <4>6. QED
        BY <3>1, <4>1, <4>2, <4>3, <4>4, <4>5 DEF OfferInv
    <3>5. OffersInv'
      BY <1>2, <1>3, <1>5, <1>12, <2>1, <3>2, <3>4, OthersStep DEF AcceptedSame
    <3>6. QED
      BY <1>12, <3>2, <3>5, QuietPromise
  <2>4. QED
    BY <1>6, <2>2, <2>3
<1>13. CASE /\ ~Mediates(p, s) /\ roles[p][s] # NoRole
            /\ ProcessRelay(p, s, roles[p][s], m.body, w)
            /\ UNCHANGED buffered
  <2>1. PICK r, blob : r = roles[p][s] /\ blob = m.body
    OBVIOUS
  <2>2. ProcessRelay(p, s, r, blob, w) /\ (blob = "answer" => Accepted(s))
    BY <1>6, <1>13, <2>1
  <2>3. \/ p = By[s] /\ r = [role |-> "offerer", peer |-> ch[s]]
        \/ p = ch[s] /\ r = [role |-> "answerer", peer |-> By[s]]
    BY <1>2, <1>13, <2>1 DEF RolesTrue, RoleTrue
  <2>4. ends[s] = <<By[s], ch[s]>>
    BY <1>1, <1>6 DEF SessionInv, SessionTrue
  <2>5. r.role = "offerer" => ends[s] = <<p, r.peer>>
    BY <2>3, <2>4
  <2>6. r.role = "answerer" => p = ends[s][2]
    BY <2>3, <2>4
  <2>7. blob = "offer" => request[s] = "pending" /\ ~Accepted(s)
    BY <1>9, <2>1
  <2>8. QED
    BY <1>3, <1>5, <1>6, <1>10, <1>13, <2>2, <2>5, <2>6, <2>7, ProcessOffer DEF NoneBuffered
<1>14. QED
  BY <1>4, <1>11, <1>12, <1>13 DEF HandleRelay

\* INTRO_FAILED: where a failure is reported no token is left.
LEMMA FailedTaken ==
  ASSUME IInv, OffersInv, NEW p \in Peer, NEW k \in Attempt, HandleFailed(p, k)
  PROVE  OffersInv' /\ PromiseStep
<1>1. PICK ch \in Choice : SessionInv(ch)
  BY DEF IInv
<1>2. /\ TypeOK /\ TransportInv /\ TransportTyped /\ wire \in Wires /\ MessagesTrue(ch)
  BY <1>1 DEF IInv, TypeOK, Wires, TransportInv, SessionInv
<1>3. /\ Receive(p, k, "FAILED")
      /\ UNCHANGED <<ends, pc, tables, lateClose, buffered, awaiting>>
  BY DEF HandleFailed
<1>4. PICK m \in Message, s \in Session, w \in Wires :
        m = Head(wire[p][k]) /\ s = m.session /\ w = Taken(p, k)
  BY <1>2, <1>3, HeadTrue
<1>5. m.type = "FAILED" /\ Dropped(w, wire) /\ m \in Failures(s) /\ m \notin Tokens(s)
  BY <1>2, <1>3, <1>4, HeadTrue DEF Failures, Tokens
<1>6. ~NoneOf(wire, Failures(s))
  <2>1. 1 \in DOMAIN wire[p][k] /\ m = wire[p][k][1]
    BY <1>2, <1>3, <1>4, TakenWire DEF Receive
  <2>2. QED
    BY <1>5, <2>1 DEF NoneOf
<1>7. /\ NoneOf(wire, Tokens(s)) /\ s \notin awaiting[By[s]] /\ NoneBuffered(s)
      /\ request[s] # "none"
  BY <1>6, Dead DEF OffersInv, OfferInv
<1>8. NoneOf(w, Tokens(s))
  BY <1>2, <1>5, <1>7, DroppedFewer, FewerHaveOne
<1>9. CASE /\ Mediates(p, s)
           /\ wire' = Sent(w, p, OtherSide(s, Other(k, p)), m)
           /\ mediating' = [mediating EXCEPT ![s] = None]
           /\ UNCHANGED request
  <2>1. PICK q \in Peer : q = OtherSide(s, Other(k, p))
    BY <1>2, <1>9, SessionConstants DEF OtherSide, Mediates, TypeOK
  <2>2. wire' = Sent(w, p, q, m) /\ \A r \in Session : r # s => mediating'[r] = mediating[r]
    BY <1>2, <1>9, <2>1 DEF TypeOK
  <2>3. /\ UNCHANGED <<ends, pc, tables, lateClose, request, buffered, awaiting>>
        /\ s \notin awaiting'[By[s]] /\ \A a \in Peer : buffered'[a][s] # "offer"
    BY <1>3, <1>7, <1>9 DEF NoneBuffered
  <2>4. \E a, b \in Peer, n \in Message :
          n.session = s /\ n \notin Tokens(s) /\ wire' = Sent(w, a, b, n)
    BY <1>4, <1>5, <2>2
  <2>5. QED
    BY <1>5, <1>7, <1>8, <2>2, <2>3, <2>4, DeadOffer
<1>10. CASE request' = Settled(p, s, "rejected") /\ wire' = w /\ UNCHANGED mediating
  <2>1. Kept /\ AcceptedSame
    BY <1>2, <1>3, TransportSame DEF AcceptedSame, Accepted
  <2>2. \A r \in Session : /\ request[r] # "none" => request'[r] # "none"
                           /\ r # s => request'[r] = request[r]
    BY <1>2, <1>10, SettledType DEF Settled, TypeOK
  <2>3. OfferInv(s)'
    BY <1>3, <1>7, <1>8, <1>10, <2>2, GoneStep DEF NoneBuffered
  <2>4. OffersInv'
    BY <1>2, <1>3, <1>5, <1>10, <2>1, <2>2, <2>3, OthersStep DEF AcceptedSame
  <2>5. QED
    BY <1>10, <2>1, <2>4, SettledPromise
<1>11. QED
  BY <1>4, <1>9, <1>10 DEF HandleFailed

\* The transport accepts no offer of a session by itself.
LEMMA TransportQuiet ==
  ASSUME IInv, OffersInv, Kept, UNCHANGED sessionVars, wire' \in Wires, Dropped(wire', wire),
         \A s \in Session : ends'[s] = ends[s],
         \A p \in Peer, s \in Session : pc'[p][s] = "none" <=> pc[p][s] = "none"
  PROVE  OffersInv' /\ PromiseStep
<1>1. TransportInv /\ wire \in Wires
  BY DEF IInv, TypeOK, Wires
<1>2. UNCHANGED <<request, mediating, buffered, awaiting>>
  BY DEF sessionVars
<1>3. AcceptedSame
  BY OfferEnds DEF AcceptedSame, Accepted
<1>4. QED
  BY <1>1, <1>2, <1>3, QuietOffers

\* One connection changes its stage, from another than none.
LEMMA StageQuiet ==
  ASSUME IInv, OffersInv, UNCHANGED sessionVars, UNCHANGED <<ends, wire>>,
         NEW p \in Peer, NEW k \in Attempt, NEW stage, stage # "none", k \in Session => pc[p][k] # "none",
         pc' = [pc EXCEPT ![p][k] = stage]
  PROVE  OffersInv' /\ PromiseStep
<1>1. TypeOK /\ wire' \in Wires /\ Dropped(wire', wire)
  BY Unchanged DEF IInv, TypeOK, Wires
<1>2. \A a \in Peer, t \in Attempt : pc'[a][t] = IF a = p /\ t = k THEN stage ELSE pc[a][t]
  BY <1>1 DEF TypeOK
<1>3. Kept
  BY <1>2 DEF Kept
<1>4. \A a \in Peer, s \in Session : pc'[a][s] = "none" <=> pc[a][s] = "none"
  BY <1>2, SessionIsAttempt
<1>5. QED
  BY <1>1, <1>3, <1>4, TransportQuiet

\* Links close.
LEMMA ClosingQuiet ==
  ASSUME IInv, OffersInv, NEW p \in Peer, NEW Q \in SUBSET Peer, NEW gone \in SUBSET Attempt,
         \A k \in gone : /\ pc[p][k] \in {"complete", "wired", "open", "closed"}
                         /\ Other(k, p) \in Q,
         CloseLinks(p, Q, gone), UNCHANGED ends, UNCHANGED sessionVars
  PROVE  OffersInv' /\ PromiseStep
<1>1. TransportInv /\ wire \in Wires
  BY DEF IInv, TypeOK, Wires
<1>2. Kept
  BY <1>1, CloseLinksStep
<1>3. wire' \in Wires /\ Dropped(wire', wire)
  BY <1>1, ClosedWire
<1> DEFINE closing == {links[p][q] : q \in {r \in Q : links[p][r] # None}}
<1>4. pc' = [pc EXCEPT ![p] = [k \in Attempt |-> IF k \in closing \cup gone THEN "closed" ELSE @[k]]]
  BY DEF CloseLinks
<1>5. \A k \in closing \cup gone : pc[p][k] # "none"
  BY <1>1 DEF TransportInv, TableTrue
<1> HIDE DEF closing
<1>6. \A a \in Peer, s \in Session : pc'[a][s] = "none" <=> pc[a][s] = "none"
  BY <1>1, <1>4, <1>5, SessionIsAttempt DEF TransportInv, TransportTyped
<1>7. QED
  BY <1>2, <1>3, <1>6, TransportQuiet

\* What the browser calls, disconnect() and blobs carried by hand.
LEMMA TransportOffers ==
  ASSUME IInv, OffersInv, NEW p \in Peer, TransportNext(p), UNCHANGED sessionVars
  PROVE  OffersInv' /\ PromiseStep
<1>1. TransportInv /\ TypeOK
  BY DEF IInv
<1>2. ASSUME NEW k \in Attempt, OnDataChannel(p, k) \/ OnOpen(p, k)
      PROVE  OffersInv' /\ PromiseStep
  <2>1. PICK stage \in {"wired", "open"} :
          /\ pc[p][k] # "none" /\ pc' = [pc EXCEPT ![p][k] = stage]
          /\ UNCHANGED <<ends, wire>>
    BY <1>2 DEF OnDataChannel, OnOpen
  <2>2. QED
    BY <2>1, StageQuiet
<1>3. ASSUME NEW k \in Attempt, OnClose(p, k) PROVE OffersInv' /\ PromiseStep
  <2>1. pc[p][k] \in {"complete", "wired", "open", "closed"}
    BY <1>1, <1>3 DEF OnClose, TransportInv, LateCloseTrue
  <2>2. ends[k] # <<>>
    BY <1>1, <2>1 DEF TransportInv, EndsHold
  <2>3. PICK q \in Peer : q = Other(k, p)
    BY <1>1, <2>2, TwoEnds DEF Other
  <2>4. CloseLinks(p, {q}, {k}) /\ UNCHANGED ends
    BY <1>3, <2>3 DEF OnClose
  <2>5. \A j \in {k} : pc[p][j] \in {"complete", "wired", "open", "closed"} /\ Other(j, p) \in {q}
    BY <2>1, <2>3
  <2>6. QED
    BY <2>4, <2>5, ClosingQuiet
<1>4. ASSUME Disconnect(p) PROVE OffersInv' /\ PromiseStep
  <2>1. CloseLinks(p, Peer, {}) /\ UNCHANGED ends
    BY <1>4 DEF Disconnect
  <2>2. QED
    BY <2>1, ClosingQuiet
<1>5. ASSUME NEW k \in ByHand, Carry(p, k) PROVE OffersInv' /\ PromiseStep
  <2>1. k \in Attempt /\ k \notin Session
    BY AttemptAssumption, SessionAssumption
  <2>2. CASE \E q \in Peer : CreateOffer(p, q, k) /\ UNCHANGED wire
    <3>1. PICK q \in Peer : CreateOffer(p, q, k)
      BY <2>2
    <3>2. Kept /\ ends' = [ends EXCEPT ![k] = <<p, q>>] /\ pc' = [pc EXCEPT ![p][k] = "gathering"]
      BY <1>1, <2>1, <3>1, CreateOfferStep DEF CreateOffer
    <3>3. /\ \A s \in Session : ends'[s] = ends[s]
          /\ \A a \in Peer, s \in Session : pc'[a][s] = pc[a][s]
      BY <1>1, <2>1, <3>2, SessionIsAttempt DEF TypeOK
    <3>4. wire' \in Wires /\ Dropped(wire', wire)
      BY <1>1, <2>2, Unchanged DEF TypeOK, Wires
    <3>5. QED
      BY <3>2, <3>3, <3>4, TransportQuiet
  <2>3. CASE pc[p][k] = "gathering" /\ Offered(p, k) /\ UNCHANGED <<ends, wire>>
    <3>1. pc' = [pc EXCEPT ![p][k] = "offered"]
      BY <2>3 DEF Offered
    <3>2. QED
      BY <2>1, <2>3, <3>1, StageQuiet
  <2>4. CASE AcceptOffer(p, k) /\ UNCHANGED <<ends, wire>>
    BY <2>1, <2>4, StageQuiet DEF AcceptOffer
  <2>5. CASE Answered(p, k) /\ UNCHANGED <<ends, wire>>
    BY <2>1, <2>5, StageQuiet DEF Answered
  <2>6. CASE /\ ends[k] # <<>> /\ CompleteConnection(p, ends[k][2], k)
             /\ UNCHANGED <<ends, wire>>
    <3>1. PICK q \in Peer : q = ends[k][2]
      BY <1>1, <2>1, <2>6, TwoEnds
    <3>2. PICK j \in Attempt : j = links[p][q] /\ pc[p][j] \in {"gathering", "offered"}
      BY <1>1, <2>6, <3>1, TableOther DEF CompleteConnection
    <3>3. PICK stage \in {"complete", "crossed"} : pc' = [pc EXCEPT ![p][j] = stage]
      BY <2>6, <3>1, <3>2 DEF CompleteConnection
    <3>4. QED
      BY <2>6, <3>2, <3>3, StageQuiet
  <2>7. QED
    BY <1>5, <2>2, <2>3, <2>4, <2>5, <2>6 DEF Carry
<1>6. QED
  BY <1>2, <1>3, <1>4, <1>5 DEF TransportNext
-----------------------------------------------------------------------------
(* The theorems.                                                           *)

\* At first there are no tokens.
LEMMA InitOffers == Init => OffersInv
<1> SUFFICES ASSUME Init, NEW s \in Session PROVE OfferInv(s)
  BY DEF OffersInv
<1>1. \A q \in Peer, k \in Attempt : wire[q][k] = <<>>
  BY DEF Init, TransportInit
<1>2. NoneOf(wire, Tokens(s)) /\ NoneOf(wire, Failures(s))
  BY <1>1 DEF NoneOf
<1>3. OneOf(wire, Tokens(s)) /\ TokensTrue(s)
  BY <1>2 DEF NoneOf, OneOf, TokensTrue
<1>4. s \notin awaiting[By[s]] /\ \A p \in Peer : buffered[p][s] # "offer"
  BY SessionConstants DEF Init
<1>5. QED
  BY <1>2, <1>3, <1>4 DEF OfferInv, Alive, NoneBuffered

\* Every step keeps the invariant, and is one of the promises' or none.
LEMMA NextOffers == IInv /\ OffersInv /\ [Next]_vars => OffersInv' /\ PromiseStep
<1> SUFFICES ASSUME IInv, OffersInv, [Next]_vars PROVE OffersInv' /\ PromiseStep
  OBVIOUS
<1>1. ASSUME NEW p \in Peer, Handler(p) PROVE OffersInv' /\ PromiseStep
  BY <1>1, RequestTaken, AssignTaken, RelayTaken, FailedTaken, QuietHandlers,
     AnswererAssigned, OfferHandedOut, AnswerHandedOut DEF Handler
<1>2. ASSUME NEW p \in Peer, TransportNext(p), UNCHANGED sessionVars
      PROVE  OffersInv' /\ PromiseStep
  BY <1>2, TransportOffers
<1>3. ASSUME NEW p \in Peer, Stop(p) \/ Start(p) PROVE OffersInv' /\ PromiseStep
  BY <1>3, QuietHandlers
<1>4. ASSUME NEW s \in Session, RequestIntroduction(s) PROVE OffersInv' /\ PromiseStep
  BY <1>4, RequestOffer
<1>5. CASE UNCHANGED vars
  <2>1. /\ UNCHANGED <<ends, pc, wire>> /\ UNCHANGED sessionVars
    BY <1>5 DEF vars, transportVars
  <2>2. wire' \in Wires /\ Dropped(wire', wire) /\ Kept
    BY <2>1, Unchanged DEF IInv, TypeOK, Wires, Kept
  <2>3. QED
    BY <2>1, <2>2, TransportQuiet
<1>6. QED
  BY <1>1, <1>2, <1>3, <1>4, <1>5 DEF Next

\* There is one token of a session at most, and none once its promise is settled,
\* its offer accepted or a failure reported.
THEOREM OneChance == Spec => []OffersInv
BY InitOffers, NextOffers, InitIInv, NextIInv, PTL DEF Spec

\* The Introducers keep what an introduction promises (introducer.js:67-72): a
\* promise is settled once, it resolves only after the offer was accepted, and no
\* offer is accepted after its promise was rejected, whatever is lost or overtaken.
THEOREM Implementation == Spec => ImplementsIntroduction
<1>1. Init => Promise!Init
  <2> SUFFICES ASSUME Init PROVE Promise!Init
    OBVIOUS
  <2>1. \A s \in Session : ends[s] = <<>>
    BY SessionAssumption DEF Init, TransportInit
  <2>2. [s \in Session |-> Accepted(s)] = [s \in Session |-> FALSE]
    BY <2>1 DEF Accepted
  <2>3. QED
    BY <2>2 DEF Init, Promise!Init
<1>2. IInv /\ OffersInv /\ [Next]_vars =>
        [Promise!Next]_<<request, [s \in Session |-> Accepted(s)]>>
  BY NextOffers DEF PromiseStep
<1>3. QED
  BY <1>1, <1>2, Invariance, OneChance, PTL DEF Spec, ImplementsIntroduction, Promise!Spec
=============================================================================
