------------------------------ MODULE RelayProofs ------------------------------
(***************************************************************************)
(* As long as nobody leaves, a relay that overtook its assignment is       *)
(* processed once, for any peers, attempts and sessions.                   *)
(***************************************************************************)
EXTENDS IntroductionProofs

-----------------------------------------------------------------------------
(* The invariant of the relays.                                            *)

Answers(s) ==
  {m \in Message : m.session = s /\ m.type = "RELAY" /\ m.body = "answer"}

\* The answerer awaits acceptOffer.
Accepting(s) == \E p \in Peer : p # By[s] /\ s \in awaiting[p]

\* An answer is being made, or on its way.
Answering(s) == Accepting(s) \/ ~NoneOf(wire, Answers(s))

\* The assignment of s is on its way to p in w.
Assigned(w, p, s) ==
  \E k \in Attempt : \E i \in DOMAIN w[p][k] :
    w[p][k][i].type = "ASSIGN" /\ w[p][k][i].session = s

\* As long as the offer may be accepted, whoever it is for has its role or will
\* get it, and whoever made it has one.
DueTrue(s) ==
  Alive(s) =>
    /\ mediating[s] # None =>
         \/ assigning[s] = mediating[s] \/ Assigned(wire, mediating[s], s)
         \/ roles[mediating[s]][s] # NoRole
    /\ ends[s] # <<>> => roles[By[s]][s] # NoRole

\* An answer is on its way from the answerer to the mediator, or to the offerer.
AnswersTrue(s) ==
  \A q \in Peer, k \in Attempt : \A i \in DOMAIN wire[q][k] :
    wire[q][k][i] \in Answers(s) =>
      q = By[s] \/ (q = Via[s] /\ ends[k] # <<>> /\ Other(k, q) = ends[s][2])

\* There is one answer at most, and whoever it reaches knows what it is for.
AnswerInv(s) ==
  Answering(s) =>
    /\ Routed(s) /\ roles[By[s]][s] # NoRole /\ NoneOf(wire, Failures(s))
    /\ OneOf(wire, Answers(s)) /\ AnswersTrue(s)
    /\ Accepting(s) => NoneOf(wire, Answers(s))

\* What is buffered is an offer; the peer picked can be sent its assignment.
RestTrue(s) ==
  /\ \A p \in Peer : buffered[p][s] # "none" => buffered[p][s] = "offer" /\ roles[p][s] = NoRole
  /\ assigning[s] # None => assigning[s] \in openPeers[Via[s]]
  /\ request[s] = "none" => mediating[s] = None

RelayInv(s) == DueTrue(s) /\ AnswerInv(s) /\ RestTrue(s)

RelaysInv == \A s \in Session : RelayInv(s)

\* Nobody has closed anything, and everybody listens.
Calm ==
  /\ \A p \in Peer, k \in Attempt : pc[p][k] # "closed"
  /\ \A p \in Peer : lateClose[p] = {} /\ listening[p]

CalmInv == leaves = 0 => Calm /\ RelaysInv

\* No step makes an offer again.
EndsKept == \A k \in Attempt : ends[k] # <<>> => ends'[k] = ends[k]
-----------------------------------------------------------------------------
(* Assignments in transit.                                                 *)

\* An assignment in transit is due.
LEMMA DueAssigned ==
  ASSUME NEW p \in Peer, NEW s \in Session
  PROVE  AssignmentDue(p, s) <=> assigning[s] = p \/ Assigned(wire, p, s)
BY DEF AssignmentDue, Assigned, Range

\* Sending keeps it in transit.
LEMMA AssignedSent ==
  ASSUME TransportTyped, NEW w \in Wires, NEW a \in Peer, NEW b \in Peer, NEW m \in Message,
         NEW p \in Peer, NEW s \in Session, Assigned(w, p, s)
  PROVE  Assigned(Sent(w, a, b, m), p, s)
<1>1. PICK x : x = Sent(w, a, b, m)
  OBVIOUS
<1>2. PICK k \in Attempt : \E i \in DOMAIN w[p][k] :
        w[p][k][i].type = "ASSIGN" /\ w[p][k][i].session = s
  BY DEF Assigned
<1>3. PICK i \in DOMAIN w[p][k] : w[p][k][i].type = "ASSIGN" /\ w[p][k][i].session = s
  BY <1>2
<1>4. x[p][k] = w[p][k] \/ x[p][k] = Append(w[p][k], m)
  <2>1. \/ Sent(w, a, b, m)[p][k] = w[p][k]
        \/ Sent(w, a, b, m)[p][k] = Append(w[p][k], m)
    BY SentWire
  <2>2. QED
    BY <1>1, <2>1
<1>5. w[p][k] \in Seq(Message)
  BY DEF Wires
<1>6. i \in DOMAIN x[p][k] /\ x[p][k][i] = w[p][k][i]
  BY <1>4, <1>5
<1>7. Assigned(x, p, s)
  BY <1>3, <1>6 DEF Assigned
<1>8. QED
  BY <1>1, <1>7

\* So does taking another message.
LEMMA AssignedTaken ==
  ASSUME wire \in Wires, NEW q \in Peer, NEW k \in Attempt, wire[q][k] # <<>>,
         NEW p \in Peer, NEW s \in Session, Assigned(wire, p, s),
         p = q => ~(Head(wire[q][k]).type = "ASSIGN" /\ Head(wire[q][k]).session = s)
  PROVE  Assigned(Taken(q, k), p, s)
<1>1. PICK j \in Attempt : \E i \in DOMAIN wire[p][j] :
        wire[p][j][i].type = "ASSIGN" /\ wire[p][j][i].session = s
  BY DEF Assigned
<1>2. PICK i \in DOMAIN wire[p][j] : wire[p][j][i].type = "ASSIGN" /\ wire[p][j][i].session = s
  BY <1>1
<1>3. wire[q][k] \in Seq(Message) /\ Head(wire[q][k]) = wire[q][k][1]
  BY DEF Wires
<1>4. CASE p = q /\ j = k
  <2>1. Taken(q, k)[p][j] = Tail(wire[q][k])
    BY <1>4 DEF Taken, Wires
  <2>2. i # 1
    BY <1>2, <1>3, <1>4
  <2>3. i - 1 \in DOMAIN Tail(wire[q][k]) /\ Tail(wire[q][k])[i - 1] = wire[q][k][i]
    BY <1>3, <1>4, <2>2
  <2>4. QED
    BY <1>2, <1>4, <2>1, <2>3 DEF Assigned
<1>5. CASE ~(p = q /\ j = k)
  <2>1. Taken(q, k)[p][j] = wire[p][j]
    BY <1>5 DEF Taken, Wires
  <2>2. QED
    BY <1>2, <2>1 DEF Assigned
<1>6. QED
  BY <1>4, <1>5

\* What is sent to an open peer is in transit, while nothing closes.
LEMMA AssignmentSent ==
  ASSUME TransportInv, Calm, NEW w \in Wires, NEW p \in Peer, NEW q \in openPeers[p],
         NEW s \in Session, NEW m \in Message, m.type = "ASSIGN", m.session = s
  PROVE  Assigned(Sent(w, p, q, m), q, s)
<1>1. q \in Peer /\ links[p][q] \in Attempt /\ pc[p][links[p][q]] = "open"
      /\ links[p][q] # None
  BY DEF TransportInv, TransportTyped, OpenPeersAreLinked
<1>2. PICK k \in Attempt : k = links[p][q]
  BY <1>1
<1>3. pc[q][k] # "closed"
  BY <1>1 DEF Calm
<1>4. PICK x : x = Sent(w, p, q, m)
  OBVIOUS
<1>5. x = [w EXCEPT ![q][k] = Append(@, m)]
  BY <1>1, <1>2, <1>3, <1>4 DEF Sent
<1>6. x[q][k] = Append(w[q][k], m) /\ w[q][k] \in Seq(Message)
  BY <1>1, <1>5 DEF Wires
<1>7. Len(w[q][k]) + 1 \in DOMAIN x[q][k] /\ x[q][k][Len(w[q][k]) + 1] = m
  BY <1>6
<1>8. Assigned(x, q, s)
  BY <1>7 DEF Assigned
<1>9. QED
  BY <1>4, <1>8
-----------------------------------------------------------------------------
(* What a step has to show of a session.                                   *)

\* While an answer is being made or on its way the offer has been accepted, and
\* nothing else of the session is under way.
LEMMA AnswerAccepted ==
  ASSUME IInv, OffersInv, NEW s \in Session, Answering(s)
  PROVE  Accepted(s) /\ ~Alive(s)
<1>1. PICK ch \in Choice : SessionInv(ch)
  BY DEF IInv
<1>2. TypeOK /\ TransportInv /\ wire \in Wires /\ AwaitingTrue /\ MessagesTrue(ch) /\ s \in Attempt
  BY <1>1, SessionIsAttempt DEF IInv, TypeOK, Wires, SessionInv
<1>3. ASSUME NEW p \in Peer, p # By[s], s \in awaiting[p] PROVE Accepted(s)
  <2>1. ends[s] # <<>> /\ pc[p][s] = "answering"
    BY <1>2, <1>3 DEF AwaitingTrue
  <2>2. p = ends[s][2]
    BY <1>2, <2>1 DEF TransportInv, EndsHold
  <2>3. QED
    BY <2>1, <2>2 DEF Accepted
<1>4. ASSUME NEW q \in Peer, NEW k \in Attempt, NEW i \in DOMAIN wire[q][k],
             wire[q][k][i] \in Answers(s)
      PROVE  Accepted(s)
  <2>1. PICK m \in Message : m = wire[q][k][i]
    BY <1>4 DEF Answers
  <2>2. InTransit(wire, q, k, m)
    BY <2>1 DEF InTransit
  <2>3. MessageTrue(ch, q, k, m) /\ m.type = "RELAY" /\ m.body = "answer" /\ m.session = s
    BY <1>2, <1>4, <2>1, <2>2 DEF MessagesTrue, Answers
  <2>4. QED
    BY <2>3 DEF MessageTrue
<1>5. Accepted(s)
  BY <1>3, <1>4 DEF Answering, Accepting, NoneOf
<1>6. QED
  BY <1>5 DEF OffersInv, OfferInv

\* The answer may have been lost, and stays true.
LEMMA AnswerApart ==
  ASSUME wire \in Wires, wire' \in Wires, EndsKept, NEW s \in Session, AnswerInv(s),
         ends'[s] = ends[s], mediating'[s] = mediating[s],
         roles[By[s]][s] # NoRole => roles'[By[s]][s] # NoRole,
         \A p \in Peer : p # By[s] /\ s \in awaiting'[p] => s \in awaiting[p],
         FewerOf(wire', wire, Answers(s)), FewerOf(wire', wire, Failures(s))
  PROVE  AnswerInv(s)'
<1>1. /\ OneOf(wire, Answers(s)) => OneOf(wire', Answers(s))
      /\ NoneOf(wire, Answers(s)) => NoneOf(wire', Answers(s))
      /\ NoneOf(wire, Failures(s)) => NoneOf(wire', Failures(s))
  BY FewerHaveOne
<1>2. Accepting(s)' => Accepting(s)
  BY DEF Accepting
<1>3. NoneOf(wire', Answers(s)) <=> NoneOf(wire, Answers(s))'
  BY DEF NoneOf, Answers
<1>4. SUFFICES ASSUME Answering(s)'
               PROVE  /\ Routed(s)' /\ roles'[By[s]][s] # NoRole /\ NoneOf(wire, Failures(s))'
                      /\ OneOf(wire, Answers(s))' /\ AnswersTrue(s)'
                      /\ Accepting(s)' => NoneOf(wire, Answers(s))'
  BY DEF AnswerInv
<1>5. Answering(s)
  BY <1>1, <1>2, <1>3, <1>4 DEF Answering
<1>6. /\ Routed(s) /\ roles[By[s]][s] # NoRole /\ NoneOf(wire, Failures(s))
      /\ OneOf(wire, Answers(s)) /\ AnswersTrue(s)
      /\ Accepting(s) => NoneOf(wire, Answers(s))
  BY <1>5 DEF AnswerInv
<1>7. Routed(s)'
  BY <1>6 DEF Routed
<1>8. NoneOf(wire, Failures(s))' /\ OneOf(wire, Answers(s))'
  BY <1>1, <1>6 DEF NoneOf, OneOf, Failures, Answers
<1>9. AnswersTrue(s)'
  <2> SUFFICES ASSUME NEW q \in Peer, NEW k \in Attempt, NEW i \in DOMAIN wire'[q][k],
                      wire'[q][k][i] \in Answers(s)
               PROVE  q = By[s] \/ (q = Via[s] /\ ends'[k] # <<>> /\ Other(k, q)' = ends'[s][2])
    BY DEF AnswersTrue, Answers
  <2>1. PICK n \in DOMAIN wire[q][k] : wire[q][k][n] \in Answers(s)
    BY DEF FewerOf
  <2>2. q = By[s] \/ (q = Via[s] /\ ends[k] # <<>> /\ Other(k, q) = ends[s][2])
    BY <1>6, <2>1 DEF AnswersTrue
  <2>3. QED
    BY <2>2 DEF EndsKept, Other
<1>10. QED
  BY <1>1, <1>2, <1>3, <1>6, <1>7, <1>8, <1>9

\* There is no answer.
LEMMA NoAnswer ==
  ASSUME NEW s \in Session, NoneOf(wire', Answers(s)),
         \A p \in Peer : p # By[s] => s \notin awaiting'[p]
  PROVE  AnswerInv(s)'
<1>1. NoneOf(wire, Answers(s))' /\ ~Accepting(s)'
  BY DEF NoneOf, Answers, Accepting
<1>2. QED
  BY <1>1 DEF AnswerInv, Answering

\* There is no offer that may be accepted.
LEMMA NoOffer ==
  ASSUME NEW s \in Session, NoneOf(wire', Tokens(s)), s \notin awaiting'[By[s]],
         \A p \in Peer : buffered'[p][s] # "offer"
  PROVE  DueTrue(s)'
<1>1. NoneOf(wire, Tokens(s))' /\ NoneBuffered(s)'
  BY DEF NoneOf, Tokens, NoneBuffered
<1>2. QED
  BY <1>1 DEF DueTrue, Alive

\* The assignment is still due, or its role is known.
LEMMA DueApart ==
  ASSUME NEW s \in Session, Alive(s)' => Alive(s), DueTrue(s), mediating[s] \in Peer \cup {None},
         ends'[s] = ends[s], mediating'[s] = mediating[s],
         \A p \in Peer :
           /\ assigning[s] = p \/ Assigned(wire, p, s) \/ roles[p][s] # NoRole =>
                assigning'[s] = p \/ Assigned(wire', p, s) \/ roles'[p][s] # NoRole
           /\ roles[p][s] # NoRole => roles'[p][s] # NoRole
  PROVE  DueTrue(s)'
<1> SUFFICES ASSUME Alive(s)'
             PROVE  /\ mediating'[s] # None =>
                         \/ assigning'[s] = mediating'[s] \/ Assigned(wire', mediating'[s], s)
                         \/ roles'[mediating'[s]][s] # NoRole
                    /\ ends'[s] # <<>> => roles'[By[s]][s] # NoRole
  BY DEF DueTrue, Assigned
<1>1. By[s] \in Peer
  BY SessionConstants
<1>2. /\ mediating[s] # None =>
           \/ assigning[s] = mediating[s] \/ Assigned(wire, mediating[s], s)
           \/ roles[mediating[s]][s] # NoRole
      /\ ends[s] # <<>> => roles[By[s]][s] # NoRole
  BY DEF DueTrue
<1>3. PICK c : c = mediating[s]
  OBVIOUS
<1>4. c # None => c \in Peer
  BY <1>3
<1>5. c # None => assigning[s] = c \/ Assigned(wire, c, s) \/ roles[c][s] # NoRole
  BY <1>2, <1>3
<1>6. c # None => assigning'[s] = c \/ Assigned(wire', c, s) \/ roles'[c][s] # NoRole
  BY <1>4, <1>5
<1>7. mediating'[s] = c
  BY <1>3
<1>8. QED
  BY <1>1, <1>2, <1>6, <1>7

\* Fewer tokens, fewer waits.
LEMMA AliveBefore ==
  ASSUME wire \in Wires, wire' \in Wires, NEW s \in Session, FewerOf(wire', wire, Tokens(s)),
         s \in awaiting'[By[s]] => s \in awaiting[By[s]],
         \A p \in Peer : buffered'[p][s] = "offer" => buffered[p][s] = "offer"
  PROVE  Alive(s)' => Alive(s)
<1>1. NoneOf(wire, Tokens(s)) => NoneOf(wire', Tokens(s))
  BY FewerHaveOne
<1>2. QED
  BY <1>1 DEF Alive, NoneOf, Tokens, NoneBuffered

\* A step for another session.
LEMMA OtherRelay ==
  ASSUME TypeOK, TransportTyped, EndsKept, wire \in Wires, NEW r \in Session, RelayInv(r),
         NEW u \in Wires, Dropped(u, wire),
         \A p \in Peer : Assigned(wire, p, r) => Assigned(u, p, r),
         \/ wire' = u
         \/ \E p, q \in Peer, m \in Message : m.session # r /\ wire' = Sent(u, p, q, m),
         \A p \in Peer : openPeers[p] \subseteq openPeers'[p],
         request'[r] = request[r], mediating'[r] = mediating[r],
         assigning'[r] = assigning[r], ends'[r] = ends[r],
         \A p \in Peer : /\ roles'[p][r] = roles[p][r] /\ buffered'[p][r] = buffered[p][r]
                         /\ r \in awaiting'[p] => r \in awaiting[p]
  PROVE  RelayInv(r)'
<1>1. wire' \in Wires
  BY SentWire
<1>2. ASSUME NEW M, \A m \in M : m.session = r
      PROVE  FewerOf(wire', wire, M)
  <2>1. CASE wire' = u
    BY <2>1, DroppedFewer
  <2>2. ASSUME NEW p \in Peer, NEW q \in Peer, NEW m \in Message, m.session # r,
               wire' = Sent(u, p, q, m)
        PROVE  FewerOf(wire', wire, M)
    <3>1. m \notin M
      BY <1>2, <2>2
    <3>2. PICK w : w = wire'
      OBVIOUS
    <3>3. FewerOf(w, wire, M)
      BY <2>2, <3>1, <3>2, SentFewer
    <3>4. QED
      BY <3>2, <3>3
  <2>3. QED
    BY <2>1, <2>2
<1>3. /\ FewerOf(wire', wire, Tokens(r)) /\ FewerOf(wire', wire, Failures(r))
      /\ FewerOf(wire', wire, Answers(r))
  BY <1>2 DEF Tokens, Failures, Answers
<1>4. ASSUME NEW a \in Peer, Assigned(wire, a, r) PROVE Assigned(wire', a, r)
  <2>1. Assigned(u, a, r)
    BY <1>4
  <2>2. ASSUME NEW p \in Peer, NEW q \in Peer, NEW m \in Message, wire' = Sent(u, p, q, m)
        PROVE  Assigned(wire', a, r)
    <3>1. Assigned(Sent(u, p, q, m), a, r)
      BY <2>1, AssignedSent
    <3>2. QED
      BY <2>2, <3>1
  <2>3. QED
    BY <2>1, <2>2
<1>5. By[r] \in Peer /\ Via[r] \in Peer
  BY SessionConstants
<1>6. Alive(r)' => Alive(r)
  BY <1>1, <1>3, <1>5, AliveBefore
<1>7. DueTrue(r)'
  BY <1>4, <1>6, DueApart DEF RelayInv, TypeOK
<1>8. AnswerInv(r)'
  BY <1>1, <1>3, <1>5, AnswerApart DEF RelayInv
<1>9. RestTrue(r)'
  BY <1>5 DEF RelayInv, RestTrue
<1>10. QED
  BY <1>7, <1>8, <1>9 DEF RelayInv

\* A step for s: what it leaves as it is, of the other sessions.
LEMMA OthersRelays ==
  ASSUME TypeOK, TransportTyped, EndsKept, wire \in Wires, RelaysInv,
         NEW s \in Session, NEW u \in Wires, Dropped(u, wire),
         \A r \in Session, p \in Peer : r # s /\ Assigned(wire, p, r) => Assigned(u, p, r),
         \/ wire' = u
         \/ \E p, q \in Peer, m \in Message : m.session = s /\ wire' = Sent(u, p, q, m),
         openPeers' = openPeers,
         \A r \in Session : r # s =>
           /\ request'[r] = request[r] /\ mediating'[r] = mediating[r]
           /\ assigning'[r] = assigning[r] /\ ends'[r] = ends[r]
           /\ \A p \in Peer : /\ roles'[p][r] = roles[p][r] /\ buffered'[p][r] = buffered[p][r]
                              /\ r \in awaiting'[p] => r \in awaiting[p],
         RelayInv(s)'
  PROVE  RelaysInv'
<1>1. ASSUME NEW r \in Session, r # s PROVE RelayInv(r)'
  <2>1. \/ wire' = u
        \/ \E p, q \in Peer, m \in Message : m.session # r /\ wire' = Sent(u, p, q, m)
    BY <1>1
  <2>2. RelayInv(r)
    BY DEF RelaysInv
  <2>3. /\ \A p \in Peer : Assigned(wire, p, r) => Assigned(u, p, r)
        /\ \A p \in Peer : openPeers[p] \subseteq openPeers'[p]
        /\ request'[r] = request[r] /\ mediating'[r] = mediating[r]
        /\ assigning'[r] = assigning[r] /\ ends'[r] = ends[r]
        /\ \A p \in Peer : /\ roles'[p][r] = roles[p][r] /\ buffered'[p][r] = buffered[p][r]
                           /\ r \in awaiting'[p] => r \in awaiting[p]
    BY <1>1
  <2>4. QED
    BY <2>1, <2>2, <2>3, OtherRelay
<1>2. QED
  BY <1>1 DEF RelaysInv

\* What every handler may take for granted.
LEMMA RelayFacts ==
  ASSUME IInv, OffersInv, RelaysInv, NEW s \in Session
  PROVE  /\ TypeOK /\ TransportInv /\ TransportTyped /\ wire \in Wires /\ Dropped(wire, wire)
         /\ OfferInv(s) /\ RelayInv(s) /\ DueTrue(s) /\ AnswerInv(s) /\ RestTrue(s)
         /\ By[s] \in Peer /\ Via[s] \in Peer /\ By[s] # Via[s] /\ s \in Attempt /\ None \notin Peer
         /\ Alive(s) => /\ request[s] = "pending" /\ NoneOf(wire, Failures(s)) /\ ~Answering(s)
         /\ Answering(s) => ~Alive(s)
BY Unchanged, SessionConstants, SessionAssumption, AnswerAccepted
   DEF IInv, TypeOK, Wires, TransportInv, OffersInv, OfferInv, RelaysInv, RelayInv

\* Taking a message of s takes no assignment of another session.
LEMMA TakenAssigned ==
  ASSUME wire \in Wires, NEW p \in Peer, NEW k \in Attempt, wire[p][k] # <<>>,
         NEW s \in Session, s = Head(wire[p][k]).session
  PROVE  /\ \A r \in Session, q \in Peer : r # s /\ Assigned(wire, q, r) => Assigned(Taken(p, k), q, r)
         /\ \A q \in Peer : q # p /\ Assigned(wire, q, s) => Assigned(Taken(p, k), q, s)
         /\ Head(wire[p][k]).type # "ASSIGN" =>
              \A q \in Peer : Assigned(wire, q, s) => Assigned(Taken(p, k), q, s)
BY AssignedTaken

\* A message of no kind M sent: fewer of M than before.
LEMMA FewerSent ==
  ASSUME TransportTyped, wire \in Wires, NEW u \in Wires, Dropped(u, wire), NEW M,
         \/ wire' = u
         \/ \E p, q \in Peer, m \in Message : m \notin M /\ wire' = Sent(u, p, q, m)
  PROVE  /\ FewerOf(wire', wire, M) /\ wire' \in Wires
         /\ NoneOf(wire, M) => NoneOf(wire', M)
         /\ NoneOf(u, M) => NoneOf(wire', M)
<1>1. PICK w : w = wire'
  OBVIOUS
<1>2. w \in Wires
  BY <1>1, SentWire
<1>3. CASE w = u
  BY <1>1, <1>2, <1>3, DroppedFewer, FewerHaveOne
<1>4. ASSUME NEW p \in Peer, NEW q \in Peer, NEW m \in Message, m \notin M, w = Sent(u, p, q, m)
      PROVE  FewerOf(w, wire, M) /\ (NoneOf(u, M) => NoneOf(w, M))
  BY <1>4, SentFewer, SentNone
<1>5. FewerOf(w, wire, M) /\ (NoneOf(u, M) => NoneOf(w, M))
  BY <1>1, <1>3, <1>4
<1>6. NoneOf(wire, M) => NoneOf(w, M)
  BY <1>2, <1>5, FewerHaveOne
<1>7. QED
  BY <1>1, <1>2, <1>5, <1>6

\* Nor is an assignment lost by sending.
LEMMA AssignedKept ==
  ASSUME TransportTyped, NEW u \in Wires, NEW s \in Session, NEW a \in Peer, Assigned(u, a, s),
         \/ wire' = u
         \/ \E p, q \in Peer, m \in Message : wire' = Sent(u, p, q, m)
  PROVE  Assigned(wire', a, s)
<1>1. ASSUME NEW p \in Peer, NEW q \in Peer, NEW m \in Message, wire' = Sent(u, p, q, m)
      PROVE  Assigned(wire', a, s)
  <2>1. Assigned(Sent(u, p, q, m), a, s)
    BY AssignedSent
  <2>2. QED
    BY <1>1, <2>1
<1>2. QED
  BY <1>1
-----------------------------------------------------------------------------
(* Every step keeps the invariant.                                         *)

\* requestIntroduction.
LEMMA RequestRelays ==
  ASSUME IInv, OffersInv, RelaysInv, NEW s \in Session, RequestIntroduction(s)
  PROVE  RelaysInv'
<1>1. /\ request[s] = "none" /\ request' = [request EXCEPT ![s] = "pending"]
      /\ wire' = Sent(wire, By[s], Via[s], Msg("REQUEST", s, "none", None))
      /\ UNCHANGED <<ends, pc, tables, lateClose, mediating, assigning, roles, buffered, awaiting>>
  BY DEF RequestIntroduction
<1>2. /\ TypeOK /\ TransportTyped /\ wire \in Wires /\ Dropped(wire, wire)
      /\ AnswerInv(s) /\ RestTrue(s) /\ By[s] \in Peer /\ Via[s] \in Peer
  BY RelayFacts
<1>3. PICK m \in Message : m = Msg("REQUEST", s, "none", None)
  BY MsgType
<1>4. m.session = s /\ m \notin Answers(s) /\ m \notin Failures(s) /\ wire' = Sent(wire, By[s], Via[s], m)
  BY <1>1, <1>3 DEF Msg, Answers, Failures
<1>5. /\ FewerOf(wire', wire, Answers(s)) /\ FewerOf(wire', wire, Failures(s)) /\ wire' \in Wires
  BY <1>2, <1>4, FewerSent
<1>6. EndsKept /\ openPeers' = openPeers
  BY <1>1 DEF EndsKept, tables
<1>7. AnswerInv(s)'
  BY <1>1, <1>2, <1>5, <1>6, AnswerApart
<1>8. request'[s] = "pending" /\ \A r \in Session : r # s => request'[r] = request[r]
  BY <1>1, <1>2 DEF TypeOK
<1>9. DueTrue(s)'
  <2>1. mediating'[s] = None /\ ends'[s] = <<>>
    BY <1>1, <1>2, OfferEnds DEF RestTrue
  <2>2. QED
    BY <2>1 DEF DueTrue
<1>10. RestTrue(s)'
  BY <1>1, <1>2, <1>6, <1>8 DEF RestTrue
<1>11. RelayInv(s)'
  BY <1>7, <1>9, <1>10 DEF RelayInv
<1>12. QED
  BY <1>1, <1>2, <1>4, <1>6, <1>8, <1>11, OthersRelays

\* INTRO_REQUEST: the peer picked is an open one, and its assignment is due.
LEMMA RequestTakenRelays ==
  ASSUME IInv, OffersInv, RelaysInv, NEW p \in Peer, NEW k \in Attempt, HandleRequest(p, k)
  PROVE  RelaysInv'
<1>1. /\ Receive(p, k, "REQUEST")
      /\ UNCHANGED <<ends, pc, tables, lateClose, request, roles, buffered, awaiting>>
  BY DEF HandleRequest
<1>2. TypeOK /\ wire \in Wires /\ wire[p][k] # <<>>
  BY <1>1 DEF IInv, TypeOK, Wires, Receive
<1>3. PICK m \in Message, s \in Session, w \in Wires :
        /\ m = Head(wire[p][k]) /\ s = m.session /\ w = Taken(p, k)
        /\ m.type = "REQUEST" /\ Dropped(w, wire)
  BY <1>1, <1>2, TakenWire DEF Receive, Message
<1>4. /\ TransportInv /\ TransportTyped /\ OfferInv(s) /\ DueTrue(s) /\ RestTrue(s)
      /\ By[s] \in Peer /\ Via[s] \in Peer /\ None \notin Peer
  BY RelayFacts
<1>5. m \in Tokens(s)
  BY <1>3 DEF Tokens
<1>6. /\ TokenTrue(s, p, k, m) /\ NoneOf(w, Tokens(s)) /\ request[s] = "pending"
      /\ s \notin awaiting[By[s]] /\ NoneBuffered(s)
  BY <1>1, <1>3, <1>5, TakenToken
<1>7. Alive(s)
  <2>1. 1 \in DOMAIN wire[p][k] /\ m = wire[p][k][1]
    BY <1>2, <1>3, TakenWire
  <2>2. QED
    BY <1>5, <2>1 DEF Alive, NoneOf
<1>8. ~Answering(s)
  BY <1>7, RelayFacts
<1>9. PICK asker \in Peer : asker = Other(k, p)
  <2>1. PICK ch \in Choice : SessionInv(ch)
    BY DEF IInv
  <2>2. MessageTrue(ch, p, k, m)
    BY <1>1, <1>2, <1>3, <2>1, HeadTrue DEF SessionInv
  <2>3. QED
    BY <1>3, <1>4, <2>2 DEF MessageTrue
<1>10. EndsKept /\ openPeers' = openPeers
  BY <1>1 DEF EndsKept, tables
<1>11. ASSUME NEW n \in Message, n.session = s, n \notin Answers(s), wire' = Sent(w, p, asker, n)
       PROVE  AnswerInv(s)'
  <2>1. NoneOf(wire, Answers(s))
    BY <1>8 DEF Answering
  <2>2. NoneOf(wire', Answers(s))
    BY <1>2, <1>3, <1>4, <1>11, <2>1, FewerSent
  <2>3. QED
    BY <1>1, <1>8, <2>2, NoAnswer DEF Answering, Accepting
<1>12. \A r \in Session, a \in Peer : r # s /\ Assigned(wire, a, r) => Assigned(w, a, r)
  BY <1>2, <1>3, TakenAssigned
<1>13. \A a \in Peer : Assigned(wire, a, s) => Assigned(w, a, s)
  BY <1>2, <1>3, TakenAssigned
<1>14. CASE /\ wire' = Sent(w, p, asker, Msg("FAILED", s, "none", None))
            /\ UNCHANGED <<mediating, assigning>>
  <2>1. PICK n \in Message : n = Msg("FAILED", s, "none", None)
    BY MsgType
  <2>2. n.session = s /\ n \notin Answers(s) /\ wire' = Sent(w, p, asker, n)
    BY <1>14, <2>1 DEF Msg, Answers
  <2>3. AnswerInv(s)'
    BY <1>11, <2>2
  <2>4. \A a \in Peer : Assigned(wire, a, s) => Assigned(wire', a, s)
    BY <1>4, <1>13, <2>2, AssignedKept
  <2>5. DueTrue(s)'
    BY <1>1, <1>2, <1>4, <1>7, <1>14, <2>4, DueApart DEF TypeOK
  <2>6. RestTrue(s)'
    BY <1>1, <1>4, <1>10, <1>14 DEF RestTrue
  <2>7. RelayInv(s)'
    BY <2>3, <2>5, <2>6 DEF RelayInv
  <2>8. QED
    BY <1>1, <1>2, <1>3, <1>4, <1>10, <1>12, <1>14, <2>2, <2>7, OthersRelays
<1>15. ASSUME NEW c \in openPeers[p], c \in Peer, mediating' = [mediating EXCEPT ![s] = c],
              assigning' = [assigning EXCEPT ![s] = c],
              wire' = Sent(w, p, asker, Msg("ASSIGN", s, "offerer", c))
       PROVE  RelaysInv'
  <2>1. PICK n \in Message : n = Msg("ASSIGN", s, "offerer", c)
    BY <1>15, MsgType
  <2>2. n.session = s /\ n \notin Answers(s) /\ wire' = Sent(w, p, asker, n)
    BY <1>15, <2>1 DEF Msg, Answers
  <2>3. AnswerInv(s)'
    BY <1>11, <2>2
  <2>4. /\ mediating'[s] = c /\ assigning'[s] = c
        /\ \A r \in Session : r # s => /\ mediating'[r] = mediating[r]
                                       /\ assigning'[r] = assigning[r]
    BY <1>2, <1>15 DEF TypeOK
  <2>5. DueTrue(s)'
    BY <1>1, <1>4, <1>7, <2>4 DEF DueTrue
  <2>6. RestTrue(s)'
    BY <1>1, <1>3, <1>4, <1>6, <1>10, <1>15, <2>4 DEF RestTrue, TokenTrue
  <2>7. RelayInv(s)'
    BY <2>3, <2>5, <2>6 DEF RelayInv
  <2>8. QED
    BY <1>1, <1>2, <1>3, <1>4, <1>10, <1>12, <2>2, <2>4, <2>7, OthersRelays
<1>16. QED
  <2>1. openPeers[p] \in SUBSET Peer
    BY <1>2 DEF TypeOK
  <2>2. QED
    BY <1>3, <1>9, <1>14, <1>15, <2>1 DEF HandleRequest

\* The second send of its handler: the assignment is in transit, not lost.
LEMMA AssignRelays ==
  ASSUME IInv, OffersInv, RelaysInv, Calm, NEW p \in Peer, NEW s \in Session, AssignAnswerer(p, s)
  PROVE  RelaysInv'
<1>1. /\ p = Via[s] /\ assigning[s] # None /\ assigning' = [assigning EXCEPT ![s] = None]
      /\ wire' = Sent(wire, p, assigning[s], Msg("ASSIGN", s, "answerer", By[s]))
      /\ UNCHANGED <<ends, pc, tables, lateClose, request, mediating, roles, buffered, awaiting>>
  BY DEF AssignAnswerer
<1>2. /\ TypeOK /\ TransportInv /\ TransportTyped /\ wire \in Wires /\ Dropped(wire, wire)
      /\ DueTrue(s) /\ AnswerInv(s) /\ RestTrue(s) /\ By[s] \in Peer /\ Via[s] \in Peer
  BY RelayFacts
<1>3. PICK q \in Peer, m \in Message :
        q = assigning[s] /\ m = Msg("ASSIGN", s, "answerer", By[s]) /\ q \in openPeers[p]
  BY <1>1, <1>2, MsgType DEF RestTrue, TypeOK
<1>4. /\ m.type = "ASSIGN" /\ m.session = s /\ wire' = Sent(wire, p, q, m)
      /\ m \notin Answers(s) /\ m \notin Failures(s) /\ m \notin Tokens(s)
  BY <1>1, <1>3 DEF Msg, Answers, Failures, Tokens
<1>5. /\ FewerOf(wire', wire, Answers(s)) /\ FewerOf(wire', wire, Failures(s)) /\ wire' \in Wires
      /\ FewerOf(wire', wire, Tokens(s))
  BY <1>2, <1>4, FewerSent
<1>6. EndsKept /\ openPeers' = openPeers
  BY <1>1 DEF EndsKept, tables
<1>7. AnswerInv(s)'
  BY <1>1, <1>2, <1>5, <1>6, AnswerApart
<1>8. Assigned(wire', q, s) /\ \A a \in Peer : Assigned(wire, a, s) => Assigned(wire', a, s)
  <2>1. Assigned(Sent(wire, p, q, m), q, s)
    BY <1>2, <1>3, <1>4, AssignmentSent
  <2>2. QED
    BY <1>2, <1>4, <2>1, AssignedKept
<1>9. Alive(s)' => Alive(s)
  BY <1>1, <1>2, <1>5, AliveBefore
<1>10. DueTrue(s)'
  BY <1>1, <1>2, <1>3, <1>8, <1>9, DueApart DEF TypeOK
<1>11. assigning'[s] = None /\ \A r \in Session : r # s => assigning'[r] = assigning[r]
  BY <1>1, <1>2 DEF TypeOK
<1>12. RestTrue(s)'
  BY <1>1, <1>2, <1>6, <1>11 DEF RestTrue
<1>13. RelayInv(s)'
  BY <1>7, <1>10, <1>12 DEF RelayInv
<1>14. QED
  BY <1>1, <1>2, <1>3, <1>4, <1>6, <1>11, <1>13, OthersRelays

\* A blob is processed: the answer is made of the only offer, or nothing is left.
LEMMA ProcessRelays ==
  ASSUME IInv, OffersInv, RelaysInv, NEW p \in Peer, NEW s \in Session, NEW r, NEW blob,
         NEW w \in Wires, Dropped(w, wire),
         \A t \in Session, a \in Peer : t # s /\ Assigned(wire, a, t) => Assigned(w, a, t),
         NoneOf(w, Tokens(s)), NoneOf(w, Answers(s)), s \notin awaiting[By[s]], ~Accepting(s),
         r.role = "answerer" /\ blob = "offer" =>
           /\ p = ends[s][2] /\ Routed(s)
           /\ roles[By[s]][s] # NoRole /\ NoneOf(wire, Failures(s)),
         \A a \in Peer, t \in Session : buffered'[a][t] = IF t = s THEN "none" ELSE buffered[a][t],
         ProcessRelay(p, s, r, blob, w),
         UNCHANGED <<ends, tables, lateClose, mediating, assigning>>
  PROVE  RelaysInv'
<1>1. /\ TypeOK /\ TransportInv /\ TransportTyped /\ wire \in Wires /\ RestTrue(s)
      /\ By[s] \in Peer /\ Via[s] \in Peer
  BY RelayFacts
<1>2. EndsKept /\ openPeers' = openPeers
  BY DEF EndsKept, tables
<1>3. PICK role : roles' = [roles EXCEPT ![p][s] = role]
  BY DEF ProcessRelay, Forget
<1>4. \A a \in Peer, t \in Session : roles'[a][t] = IF a = p /\ t = s THEN role ELSE roles[a][t]
  BY <1>1, <1>3 DEF TypeOK
<1>5. /\ request' = request \/ \E o \in {"resolved", "rejected"} : request' = Settled(p, s, o)
      /\ \/ wire' = w
         \/ \E m \in Message : /\ m.session = s /\ m \notin Tokens(s) /\ m \notin Answers(s)
                               /\ wire' = Sent(w, p, Via[s], m)
  <2>1. PICK m \in Message : m = Msg("FAILED", s, "none", None)
    BY MsgType
  <2>2. m.session = s /\ m \notin Tokens(s) /\ m \notin Answers(s)
    BY <2>1 DEF Msg, Tokens, Answers
  <2>3. CASE Fail(w, p, s)
    BY <2>1, <2>2, <2>3 DEF Fail
  <2>4. CASE /\ wire' = w
             /\ UNCHANGED request \/ request' = Settled(p, s, "resolved")
    BY <2>4
  <2>5. QED
    BY <2>3, <2>4 DEF ProcessRelay
<1>6. \A t \in Session : /\ request'[t] = "none" => request[t] = "none"
                         /\ t # s => request'[t] = request[t]
  BY <1>1, <1>5, SettledType DEF Settled, TypeOK
<1>7. NoneOf(wire', Tokens(s)) /\ NoneOf(wire', Answers(s)) /\ wire' \in Wires
  BY <1>1, <1>5, FewerSent
<1>8. RestTrue(s)'
  BY <1>1, <1>2, <1>6 DEF RestTrue
<1>9. CASE /\ r.role = "answerer" /\ blob = "offer" /\ wire' = w /\ role = r
           /\ awaiting' = [awaiting EXCEPT ![p] = @ \cup {s}]
  <2>1. /\ p = ends[s][2] /\ Routed(s) /\ roles[By[s]][s] # NoRole /\ NoneOf(wire, Failures(s))
    BY <1>9
  <2>2. p # By[s]
    BY <2>1, OfferEnds DEF Routed
  <2>3. \A a \in Peer, t \in Session : a # p \/ t # s => (t \in awaiting'[a] <=> t \in awaiting[a])
    BY <1>1, <1>9 DEF TypeOK
  <2>4. DueTrue(s)'
    BY <1>1, <1>7, <2>2, <2>3, NoOffer
  <2>5. NoneOf(wire', Failures(s))
    BY <1>1, <1>9, <2>1, FewerSent
  <2>6. NoneOf(wire, Failures(s))' /\ NoneOf(wire, Answers(s))'
    BY <1>7, <2>5 DEF NoneOf, Failures, Answers
  <2>7. OneOf(wire, Answers(s))' /\ AnswersTrue(s)'
    BY <2>6 DEF NoneOf, OneOf, AnswersTrue, Answers
  <2>8. Routed(s)' /\ roles'[By[s]][s] # NoRole
    BY <1>1, <1>4, <2>1, <2>2 DEF Routed
  <2>9. AnswerInv(s)'
    BY <2>6, <2>7, <2>8 DEF AnswerInv
  <2>10. RelayInv(s)'
    BY <1>8, <2>4, <2>9 DEF RelayInv
  <2>11. QED
    BY <1>1, <1>2, <1>4, <1>6, <1>9, <2>3, <2>10, OthersRelays
<1>10. CASE UNCHANGED awaiting
  <2>1. DueTrue(s)'
    BY <1>7, <1>10, NoOffer
  <2>2. AnswerInv(s)'
    BY <1>7, <1>10, NoAnswer DEF Accepting
  <2>3. RelayInv(s)'
    BY <1>8, <2>1, <2>2 DEF RelayInv
  <2>4. QED
    BY <1>1, <1>2, <1>4, <1>5, <1>6, <1>10, <2>3, OthersRelays
<1>11. CASE /\ r.role = "answerer" /\ blob = "offer" /\ wire' = w
            /\ roles' = [roles EXCEPT ![p][s] = r]
            /\ awaiting' = [awaiting EXCEPT ![p] = @ \cup {s}]
  <2>1. r = role
    <3>1. roles'[p][s] = r
      BY <1>1, <1>11 DEF TypeOK
    <3>2. QED
      BY <1>4, <3>1
  <2>2. QED
    BY <1>9, <1>11, <2>1
<1>12. QED
  BY <1>10, <1>11 DEF ProcessRelay

\* INTRO_ASSIGN: the role is known from now on, or the offer is processed.
LEMMA AssignTakenRelays ==
  ASSUME IInv, OffersInv, RelaysInv, NEW p \in Peer, NEW k \in Attempt, HandleAssign(p, k)
  PROVE  RelaysInv'
<1>1. PICK ch \in Choice : SessionInv(ch)
  BY DEF IInv
<1>2. TypeOK /\ wire \in Wires /\ MessagesTrue(ch)
  BY <1>1 DEF IInv, TypeOK, Wires, SessionInv
<1>3. Receive(p, k, "ASSIGN") /\ UNCHANGED <<mediating, assigning>>
  BY DEF HandleAssign
<1>4. PICK m \in Message, s \in Session, w \in Wires :
        m = Head(wire[p][k]) /\ s = m.session /\ w = Taken(p, k)
  BY <1>2, <1>3, HeadTrue
<1>5. m.type = "ASSIGN" /\ Dropped(w, wire) /\ MessageTrue(ch, p, k, m) /\ wire[p][k] # <<>>
  BY <1>2, <1>3, <1>4, HeadTrue
<1>6. /\ TransportInv /\ TransportTyped /\ OfferInv(s) /\ DueTrue(s) /\ AnswerInv(s) /\ RestTrue(s)
      /\ By[s] \in Peer /\ Via[s] \in Peer /\ None \notin Peer /\ s \in Attempt
  BY RelayFacts
<1>7. /\ ch[s] # None /\ ch[s] # By[s]
      /\ \/ p = By[s] /\ m.body = "offerer" /\ m.peer = ch[s]
         \/ p = ch[s] /\ m.body = "answerer" /\ m.peer = By[s]
  BY <1>1, <1>4, <1>5 DEF MessageTrue, SessionInv, SessionTrue
<1>8. /\ \A t \in Session, a \in Peer : t # s /\ Assigned(wire, a, t) => Assigned(w, a, t)
      /\ \A a \in Peer : a # p /\ Assigned(wire, a, s) => Assigned(w, a, s)
  BY <1>2, <1>4, <1>5, TakenAssigned
<1> DEFINE r == [role |-> m.body, peer |-> m.peer]
<1>9. r.role = m.body /\ NoRole.role = "none"
  BY DEF NoRole
<1>10. CASE m.body = "offerer" /\ UNCHANGED buffered
  <2>1. m \in Tokens(s) /\ p = By[s]
    BY <1>4, <1>5, <1>7, <1>10 DEF Tokens
  <2>2. /\ TokenTrue(s, p, k, m) /\ s \notin awaiting[By[s]] /\ NoneBuffered(s)
        /\ request[s] = "pending"
    BY <1>3, <1>4, <2>1, TakenToken
  <2>3. Alive(s) /\ ~Answering(s)
    <3>1. 1 \in DOMAIN wire[p][k] /\ m = wire[p][k][1]
      BY <1>2, <1>4, <1>5, TakenWire
    <3>2. Alive(s)
      BY <2>1, <3>1 DEF Alive, NoneOf
    <3>3. QED
      BY <3>2, RelayFacts
  <2>4. roles' = [roles EXCEPT ![p][s] = r]
    BY <1>4, <1>10 DEF HandleAssign
  <2>5. \A a \in Peer, t \in Session : roles'[a][t] = IF a = p /\ t = s THEN r ELSE roles[a][t]
    BY <1>2, <2>4 DEF TypeOK
  <2>6. r # NoRole
    BY <1>9, <1>10
  <2> HIDE DEF r
  <2>7. \/ /\ CreateOffer(p, m.peer, s) /\ wire' = w /\ UNCHANGED request
           /\ awaiting' = [awaiting EXCEPT ![p] = @ \cup {s}]
        \/ Fail(w, p, s) /\ UNCHANGED <<ends, pc, tables, lateClose, awaiting>>
    BY <1>4, <1>10 DEF HandleAssign
  <2>8. /\ EndsKept /\ openPeers' = openPeers
        /\ \A t \in Session : t # s => ends'[t] = ends[t]
    BY <1>2, <2>7, SessionIsAttempt DEF EndsKept, tables, CreateOffer, TypeOK
  <2>9. /\ request' = request \/ request' = Settled(p, s, "rejected")
        /\ \/ wire' = w
           \/ \E n \in Message : /\ n.session = s /\ n \notin Answers(s)
                                 /\ wire' = Sent(w, p, Via[s], n)
    <3>1. PICK n \in Message : n = Msg("FAILED", s, "none", None)
      BY MsgType
    <3>2. n.session = s /\ n \notin Answers(s)
      BY <3>1 DEF Msg, Answers
    <3>3. QED
      BY <2>7, <3>1, <3>2 DEF Fail
  <2>10. \A t \in Session : /\ request'[t] = "none" => request[t] = "none"
                            /\ t # s => request'[t] = request[t]
    BY <1>2, <2>9, SettledType DEF Settled, TypeOK
  <2>11. NoneOf(wire', Answers(s))
    BY <1>2, <1>5, <1>6, <2>3, <2>9, FewerSent DEF Answering
  <2>12. \A a \in Peer, t \in Session : a # By[s] \/ t # s => (t \in awaiting'[a] <=> t \in awaiting[a])
    BY <1>2, <2>1, <2>7 DEF TypeOK
  <2>13. AnswerInv(s)'
    BY <2>3, <2>11, <2>12, NoAnswer DEF Answering, Accepting
  <2>14. DueTrue(s)'
    <3>1. mediating[s] = m.peer /\ m.peer = ch[s] /\ ch[s] \in Peer
      BY <1>5, <1>7, <1>10, <2>2, <2>1 DEF TokenTrue, Choice
    <3>2. \/ assigning[s] = ch[s] \/ Assigned(wire, ch[s], s)
          \/ roles[ch[s]][s] # NoRole
      BY <1>7, <2>3, <3>1, <1>6 DEF DueTrue
    <3>3. Assigned(wire, ch[s], s) => Assigned(wire', ch[s], s)
      <4>1. Assigned(wire, ch[s], s) => Assigned(w, ch[s], s)
        BY <1>7, <1>8, <2>1, <3>1
      <4>2. QED
        BY <1>6, <2>9, <3>1, <4>1, AssignedKept
    <3>4. \/ assigning'[s] = ch[s] \/ Assigned(wire', ch[s], s)
          \/ roles'[ch[s]][s] # NoRole
      BY <1>3, <1>7, <2>1, <2>5, <3>1, <3>2, <3>3
    <3>5. roles'[By[s]][s] # NoRole /\ mediating'[s] = ch[s]
      BY <1>3, <1>6, <2>1, <2>5, <2>6, <3>1
    <3>6. QED
      BY <3>4, <3>5 DEF DueTrue, Assigned
  <2>15. RestTrue(s)'
    <3>1. \A a \in Peer : buffered'[a][s] = "none"
      BY <1>6, <1>10, <2>2 DEF RestTrue, NoneBuffered
    <3>2. QED
      BY <1>3, <1>6, <2>8, <2>10, <3>1 DEF RestTrue
  <2>16. RelayInv(s)'
    BY <2>13, <2>14, <2>15 DEF RelayInv
  <2>17. \A t \in Session : t # s =>
           /\ request'[t] = request[t] /\ mediating'[t] = mediating[t]
           /\ assigning'[t] = assigning[t] /\ ends'[t] = ends[t]
           /\ \A a \in Peer : /\ roles'[a][t] = roles[a][t] /\ buffered'[a][t] = buffered[a][t]
                              /\ t \in awaiting'[a] => t \in awaiting[a]
    BY <1>3, <1>10, <2>5, <2>8, <2>10, <2>12
  <2>18. \/ wire' = w
         \/ \E a, b \in Peer, n \in Message : n.session = s /\ wire' = Sent(w, a, b, n)
    BY <1>6, <2>9
  <2>19. QED
    BY <1>2, <1>5, <1>6, <1>8, <2>8, <2>16, <2>17, <2>18, OthersRelays
<1>11. CASE /\ m.body = "answerer" /\ buffered[p][s] = "none" /\ wire' = w
            /\ roles' = [roles EXCEPT ![p][s] = r]
            /\ UNCHANGED <<ends, pc, tables, lateClose, request, buffered, awaiting>>
  <2>1. \A a \in Peer, t \in Session : roles'[a][t] = IF a = p /\ t = s THEN r ELSE roles[a][t]
    BY <1>2, <1>11 DEF TypeOK
  <2>2. r # NoRole
    BY <1>9, <1>11
  <2> HIDE DEF r
  <2>3. EndsKept /\ openPeers' = openPeers
    BY <1>11 DEF EndsKept, tables
  <2>4. /\ FewerOf(wire', wire, Answers(s)) /\ FewerOf(wire', wire, Failures(s))
        /\ FewerOf(wire', wire, Tokens(s)) /\ wire' \in Wires
    BY <1>2, <1>5, <1>6, <1>11, FewerSent
  <2>5. AnswerInv(s)'
    BY <1>2, <1>3, <1>6, <1>11, <2>1, <2>2, <2>3, <2>4, AnswerApart
  <2>6. Alive(s)' => Alive(s)
    BY <1>2, <1>11, <2>4, AliveBefore
  <2>7. DueTrue(s)'
    <3>1. \A a \in Peer :
            /\ assigning[s] = a \/ Assigned(wire, a, s) \/ roles[a][s] # NoRole =>
                 assigning'[s] = a \/ Assigned(wire', a, s) \/ roles'[a][s] # NoRole
            /\ roles[a][s] # NoRole => roles'[a][s] # NoRole
      BY <1>3, <1>8, <1>11, <2>1, <2>2
    <3>2. QED
      BY <1>2, <1>3, <1>6, <1>11, <2>6, <3>1, DueApart DEF TypeOK
  <2>8. RestTrue(s)'
    BY <1>3, <1>6, <1>11, <2>1, <2>3 DEF RestTrue
  <2>9. RelayInv(s)'
    BY <2>5, <2>7, <2>8 DEF RelayInv
  <2>10. QED
    BY <1>2, <1>3, <1>5, <1>6, <1>8, <1>11, <2>1, <2>3, <2>9, OthersRelays
<1>12. CASE /\ m.body = "answerer" /\ buffered[p][s] # "none"
            /\ buffered' = [buffered EXCEPT ![p][s] = "none"]
            /\ ProcessRelay(p, s, r, buffered[p][s], w)
            /\ UNCHANGED <<ends, tables, lateClose>>
  <2>1. buffered[p][s] = "offer"
    BY <1>6, <1>12 DEF RestTrue
  <2>2. Routed(s) /\ p = ends[s][2] /\ Alive(s) /\ NoneOf(wire, Tokens(s)) /\ s \notin awaiting[By[s]]
    BY <1>6, <2>1 DEF OfferInv, Alive, NoneBuffered
  <2>3. /\ ~Answering(s) /\ NoneOf(wire, Failures(s)) /\ roles[By[s]][s] # NoRole
    BY <1>6, <2>2, RelayFacts DEF DueTrue, Routed
  <2>4. NoneOf(w, Tokens(s)) /\ NoneOf(w, Answers(s)) /\ ~Accepting(s)
    BY <1>2, <1>5, <2>2, <2>3, DroppedFewer, FewerHaveOne DEF Answering
  <2>5. \A a \in Peer : buffered[a][s] # "none" => a = p
    BY <1>6, <2>2 DEF RestTrue, OfferInv
  <2>6. \A a \in Peer, t \in Session : buffered'[a][t] = IF t = s THEN "none" ELSE buffered[a][t]
    BY <1>2, <1>12, <2>5 DEF TypeOK
  <2>7. PICK x, blob : x = r /\ blob = buffered[p][s]
    OBVIOUS
  <2>8. ProcessRelay(p, s, x, blob, w)
    BY <1>12, <2>7
  <2> HIDE DEF r
  <2>9. QED
    BY <1>3, <1>5, <1>8, <1>12, <2>2, <2>3, <2>4, <2>6, <2>8, ProcessRelays
<1>13. QED
  BY <1>4, <1>10, <1>11, <1>12 DEF HandleAssign

\* createOfferFor returns: the roles and the assignment are as they were.
LEMMA OfferReadyRelays ==
  ASSUME IInv, OffersInv, RelaysInv, NEW p \in Peer, NEW s \in Session, OfferReady(p, s)
  PROVE  RelaysInv'
<1>1. /\ s \in awaiting[p] /\ p = By[s] /\ awaiting' = [awaiting EXCEPT ![p] = @ \ {s}]
      /\ UNCHANGED <<ends, tables, mediating, assigning, roles, buffered>>
  BY DEF OfferReady
<1>2. /\ TypeOK /\ TransportTyped /\ wire \in Wires /\ Dropped(wire, wire)
      /\ DueTrue(s) /\ RestTrue(s) /\ Via[s] \in Peer /\ By[s] \in Peer
  BY RelayFacts
<1>3. Alive(s) /\ ~Answering(s)
  BY <1>1, RelayFacts DEF Alive
<1>4. \/ request' = request \/ request' = Settled(p, s, "rejected")
  BY DEF OfferReady, Fail
<1>5. \E m \in Message : /\ m.session = s /\ m \notin Answers(s)
                         /\ wire' = Sent(wire, p, Via[s], m)
  <2>1. PICK m \in Message, n \in Message :
          m = Msg("FAILED", s, "none", None) /\ n = Msg("RELAY", s, "offer", None)
    BY MsgType
  <2>2. m.session = s /\ m \notin Answers(s) /\ n.session = s /\ n \notin Answers(s)
    BY <2>1 DEF Msg, Answers
  <2>3. wire' = Sent(wire, p, Via[s], m) \/ wire' = Sent(wire, p, Via[s], n)
    BY <2>1 DEF OfferReady, Fail
  <2>4. QED
    BY <2>2, <2>3
<1>6. \A t \in Session : /\ request'[t] = "none" => request[t] = "none"
                         /\ t # s => request'[t] = request[t]
  BY <1>2, <1>4, SettledType DEF Settled, TypeOK
<1>7. \A a \in Peer : awaiting'[a] \subseteq awaiting[a]
  BY <1>1, <1>2 DEF TypeOK
<1>8. EndsKept /\ openPeers' = openPeers
  BY <1>1 DEF EndsKept, tables
<1>9. NoneOf(wire', Answers(s))
  BY <1>2, <1>3, <1>5, FewerSent DEF Answering
<1>10. AnswerInv(s)'
  BY <1>3, <1>7, <1>9, NoAnswer DEF Answering, Accepting
<1>11. \A a \in Peer : Assigned(wire, a, s) => Assigned(wire', a, s)
  BY <1>1, <1>2, <1>5, AssignedKept
<1>12. DueTrue(s)'
  BY <1>1, <1>2, <1>3, <1>11, DueApart DEF TypeOK
<1>13. RestTrue(s)'
  BY <1>1, <1>2, <1>6, <1>8 DEF RestTrue
<1>14. RelayInv(s)'
  BY <1>10, <1>12, <1>13 DEF RelayInv
<1>15. QED
  BY <1>1, <1>2, <1>5, <1>6, <1>7, <1>8, <1>14, OthersRelays

\* acceptOffer returns: the only answer is sent to the mediator, or none is.
LEMMA AnswerReadyRelays ==
  ASSUME IInv, OffersInv, RelaysInv, NEW p \in Peer, NEW s \in Session, AnswerReady(p, s)
  PROVE  RelaysInv'
<1>1. /\ s \in awaiting[p] /\ p # By[s] /\ awaiting' = [awaiting EXCEPT ![p] = @ \ {s}]
      /\ roles' = [roles EXCEPT ![p][s] = NoRole]
      /\ UNCHANGED <<ends, tables, mediating, assigning, buffered>>
  BY DEF AnswerReady, Forget
<1>2. /\ TypeOK /\ TransportInv /\ TransportTyped /\ wire \in Wires /\ Dropped(wire, wire)
      /\ OfferInv(s) /\ AnswerInv(s) /\ RestTrue(s) /\ Via[s] \in Peer /\ By[s] \in Peer
      /\ s \in Attempt /\ None \notin Peer
  BY RelayFacts
<1>3. Accepting(s) /\ Answering(s) /\ ~Alive(s)
  BY <1>1, RelayFacts DEF Accepting, Answering
<1>4. /\ Routed(s) /\ roles[By[s]][s] # NoRole
      /\ NoneOf(wire, Failures(s)) /\ NoneOf(wire, Answers(s))
  BY <1>2, <1>3 DEF AnswerInv
<1>5. \A a \in Peer : a # By[s] /\ s \in awaiting[a] => a = ends[s][2]
  BY <1>2 DEF IInv, SessionInv, AwaitingTrue, TransportInv, EndsHold
<1>6. /\ \A a \in Peer : awaiting'[a] \subseteq awaiting[a]
      /\ \A a \in Peer : a # By[s] => s \notin awaiting'[a]
  BY <1>1, <1>2, <1>5 DEF TypeOK
<1>7. \A a \in Peer, t \in Session : roles'[a][t] = IF a = p /\ t = s THEN NoRole ELSE roles[a][t]
  BY <1>1, <1>2 DEF TypeOK
<1>8. EndsKept /\ openPeers' = openPeers
  BY <1>1 DEF EndsKept, tables
<1>9. PICK m \in Message : /\ m.session = s /\ m \notin Tokens(s)
                           /\ wire' = Sent(wire, p, Via[s], m)
                           /\ m.type = "FAILED" \/ m.type = "RELAY"
                           /\ m.type = "RELAY" => request' = request
                           /\ request' = request \/ request' = Settled(p, s, "rejected")
  <2>1. PICK m \in Message, n \in Message :
          m = Msg("FAILED", s, "none", None) /\ n = Msg("RELAY", s, "answer", None)
    BY MsgType
  <2>2. /\ m.session = s /\ m \notin Tokens(s) /\ n.session = s /\ n \notin Tokens(s)
        /\ m.type = "FAILED" /\ n.type = "RELAY"
    BY <2>1 DEF Msg, Tokens
  <2>3. \/ wire' = Sent(wire, p, Via[s], m) /\ request' = Settled(p, s, "rejected")
        \/ wire' = Sent(wire, p, Via[s], n) /\ request' = request
    BY <2>1 DEF AnswerReady, Fail
  <2>4. QED
    BY <2>2, <2>3
<1>10. \A t \in Session : /\ request'[t] = "none" => request[t] = "none"
                          /\ t # s => request'[t] = request[t]
  BY <1>2, <1>9, SettledType DEF Settled, TypeOK
<1>11. DueTrue(s)'
  <2>1. NoneOf(wire', Tokens(s))
    BY <1>2, <1>3, <1>9, FewerSent DEF Alive
  <2>2. QED
    BY <1>1, <1>2, <1>3, <1>6, <2>1, NoOffer DEF Alive, NoneBuffered
<1>12. AnswerInv(s)'
  <2>1. CASE m.type = "FAILED"
    <3>1. m \notin Answers(s)
      BY <2>1 DEF Answers
    <3>2. NoneOf(wire', Answers(s))
      BY <1>2, <1>4, <1>9, <3>1, FewerSent
    <3>3. QED
      BY <1>6, <3>2, NoAnswer
  <2>2. CASE m.type = "RELAY"
    <3>1. m \notin Failures(s)
      BY <2>2 DEF Failures
    <3>2. PICK q, x : q \in Peer /\ q = Via[s] /\ x = wire' /\ x = Sent(wire, p, q, m)
      BY <1>2, <1>9
    <3>3. NoneOf(x, Failures(s))
      BY <1>2, <1>4, <3>1, <3>2, SentNone
    <3>4. /\ OneOf(x, Answers(s))
          /\ \A a \in Peer, j \in Attempt : \A i \in DOMAIN x[a][j] :
               x[a][j][i] \in Answers(s) => links[p][q] # None /\ a = q /\ j = links[p][q]
      BY <1>2, <1>4, <3>2, SentOne
    <3>5. NoneOf(wire, Failures(s))' /\ OneOf(wire, Answers(s))'
      BY <3>2, <3>3, <3>4 DEF NoneOf, OneOf, Failures, Answers
    <3>6. Routed(s)' /\ roles'[By[s]][s] # NoRole
      BY <1>1, <1>2, <1>4, <1>7 DEF Routed
    <3>7. ASSUME links[p][q] # None PROVE ends[links[p][q]] # <<>> /\ Other(links[p][q], q) = p
      <4>1. PICK k : k = links[p][q]
        OBVIOUS
      <4>2. k \in Attempt /\ ends[k] # <<>> /\ p # q /\ Other(k, p) = q
        BY <1>2, <3>7, <3>2, <4>1, TableOther
      <4>3. ends[k] \in {<<p, q>>, <<q, p>>}
        BY <1>2, <3>7, <3>2, <4>1 DEF TransportInv, TableTrue
      <4>4. QED
        BY <4>1, <4>2, <4>3 DEF Other
    <3>8. p = ends[s][2]
      BY <1>1, <1>5
    <3>9. AnswersTrue(s)'
      <4> SUFFICES ASSUME NEW a \in Peer, NEW j \in Attempt, NEW i \in DOMAIN x[a][j],
                          x[a][j][i] \in Answers(s)
                   PROVE  a = Via[s] /\ ends'[j] # <<>> /\ Other(j, a)' = ends'[s][2]
        BY <3>2 DEF AnswersTrue, Answers
      <4>1. links[p][q] # None /\ a = q /\ j = links[p][q]
        BY <3>4
      <4>2. ends[j] # <<>> /\ Other(j, a) = p
        BY <3>7, <4>1
      <4>3. QED
        BY <1>1, <3>2, <3>8, <4>1, <4>2 DEF Other
    <3>10. ~Accepting(s)'
      BY <1>6 DEF Accepting
    <3>11. QED
      BY <3>5, <3>6, <3>9, <3>10 DEF AnswerInv
  <2>3. QED
    BY <1>9, <2>1, <2>2
<1>13. RestTrue(s)'
  BY <1>1, <1>2, <1>7, <1>8, <1>10 DEF RestTrue
<1>14. RelayInv(s)'
  BY <1>11, <1>12, <1>13 DEF RelayInv
<1>15. QED
  BY <1>1, <1>2, <1>6, <1>7, <1>8, <1>9, <1>10, <1>14, OthersRelays

\* INTRO_FAILED: where a failure is reported, nothing else is under way.
LEMMA FailedRelays ==
  ASSUME IInv, OffersInv, RelaysInv, NEW p \in Peer, NEW k \in Attempt, HandleFailed(p, k)
  PROVE  RelaysInv'
<1>1. /\ Receive(p, k, "FAILED")
      /\ UNCHANGED <<ends, pc, tables, lateClose, assigning, buffered, awaiting>>
  BY DEF HandleFailed
<1>2. TypeOK /\ wire \in Wires /\ wire[p][k] # <<>>
  BY <1>1 DEF IInv, TypeOK, Wires, Receive
<1>3. PICK m \in Message, s \in Session, w \in Wires :
        /\ m = Head(wire[p][k]) /\ s = m.session /\ w = Taken(p, k)
        /\ m.type = "FAILED" /\ Dropped(w, wire)
        /\ 1 \in DOMAIN wire[p][k] /\ m = wire[p][k][1]
  BY <1>1, <1>2, TakenWire DEF Receive, Message
<1>4. /\ TransportTyped /\ AnswerInv(s) /\ RestTrue(s) /\ By[s] \in Peer
      /\ None \notin Peer
  BY RelayFacts
<1>5. ~NoneOf(wire, Failures(s)) /\ m \notin Tokens(s) /\ m \notin Answers(s)
  BY <1>3 DEF NoneOf, Failures, Tokens, Answers
<1>6. ~Answering(s) /\ ~Alive(s)
  BY <1>4, <1>5, RelayFacts DEF AnswerInv
<1>7. EndsKept /\ openPeers' = openPeers
  BY <1>1 DEF EndsKept, tables
<1>8. /\ \/ wire' = w
         \/ \E q \in Peer : wire' = Sent(w, p, q, m)
      /\ UNCHANGED request \/ request' = Settled(p, s, "rejected")
      /\ UNCHANGED roles \/ roles' = [roles EXCEPT ![p][s] = NoRole]
      /\ UNCHANGED mediating \/ mediating' = [mediating EXCEPT ![s] = None]
  <2>1. CASE /\ Mediates(p, s) /\ wire' = Sent(w, p, OtherSide(s, Other(k, p)), m)
             /\ mediating' = [mediating EXCEPT ![s] = None] /\ UNCHANGED <<request, roles>>
    <3>1. PICK q \in Peer : q = OtherSide(s, Other(k, p))
      BY <1>2, <1>4, <2>1 DEF OtherSide, Mediates, TypeOK
    <3>2. QED
      BY <2>1, <3>1
  <2>2. CASE /\ request' = Settled(p, s, "rejected") /\ Forget(p, s) /\ wire' = w
             /\ UNCHANGED mediating
    BY <2>2 DEF Forget
  <2>3. QED
    BY <1>3, <2>1, <2>2 DEF HandleFailed
<1>9. /\ NoneOf(wire', Tokens(s)) /\ NoneOf(wire', Answers(s))
  BY <1>2, <1>3, <1>4, <1>5, <1>6, <1>8, FewerSent DEF Alive, Answering
<1>10. DueTrue(s)'
  BY <1>1, <1>6, <1>9, NoOffer DEF Alive, NoneBuffered
<1>11. AnswerInv(s)'
  BY <1>1, <1>6, <1>9, NoAnswer DEF Answering, Accepting
<1>12. \A t \in Session : /\ request'[t] = "none" => request[t] = "none"
                          /\ t # s => request'[t] = request[t] /\ mediating'[t] = mediating[t]
  BY <1>2, <1>8, SettledType DEF Settled, TypeOK
<1>13. mediating'[s] \in {None, mediating[s]}
  BY <1>2, <1>8 DEF TypeOK
<1>14. \A a \in Peer, t \in Session : /\ t # s => roles'[a][t] = roles[a][t]
                                      /\ roles[a][t] = NoRole => roles'[a][t] = NoRole
  <2>1. CASE roles' = [roles EXCEPT ![p][s] = NoRole]
    <3>1. \A a \in Peer, t \in Session :
            roles'[a][t] = IF a = p /\ t = s THEN NoRole ELSE roles[a][t]
      BY <1>2, <2>1 DEF TypeOK
    <3>2. QED
      BY <3>1
  <2>2. QED
    BY <1>8, <2>1
<1>15. RestTrue(s)'
  BY <1>1, <1>4, <1>7, <1>12, <1>13, <1>14 DEF RestTrue
<1>16. RelayInv(s)'
  BY <1>10, <1>11, <1>15 DEF RelayInv
<1>17. \A t \in Session, a \in Peer : t # s /\ Assigned(wire, a, t) => Assigned(w, a, t)
  BY <1>2, <1>3, TakenAssigned
<1>18. \/ wire' = w
       \/ \E a, b \in Peer, n \in Message : n.session = s /\ wire' = Sent(w, a, b, n)
  BY <1>3, <1>8
<1>19. QED
  BY <1>1, <1>2, <1>3, <1>4, <1>7, <1>12, <1>14, <1>16, <1>17, <1>18, OthersRelays

\* INTRO_RELAY: an offer is buffered at most, an answer never.
LEMMA RelayTakenRelays ==
  ASSUME IInv, OffersInv, RelaysInv, NEW p \in Peer, NEW k \in Attempt, HandleRelay(p, k)
  PROVE  RelaysInv'
<1>1. PICK ch \in Choice : SessionInv(ch)
  BY DEF IInv
<1>2. TypeOK /\ wire \in Wires /\ MessagesTrue(ch) /\ RolesTrue(ch)
  BY <1>1 DEF IInv, TypeOK, Wires, SessionInv
<1>3. Receive(p, k, "RELAY") /\ UNCHANGED <<ends, tables, lateClose, mediating, assigning>>
  BY DEF HandleRelay
<1>4. PICK m \in Message, s \in Session, w \in Wires :
        m = Head(wire[p][k]) /\ s = m.session /\ w = Taken(p, k)
  BY <1>2, <1>3, HeadTrue
<1>5. m.type = "RELAY" /\ Dropped(w, wire) /\ MessageTrue(ch, p, k, m) /\ wire[p][k] # <<>>
  BY <1>2, <1>3, <1>4, HeadTrue
<1>6. 1 \in DOMAIN wire[p][k] /\ m = wire[p][k][1]
  BY <1>2, <1>4, <1>5, TakenWire
<1>7. ends[s] # <<>> /\ m.body \in {"offer", "answer"} /\ m \notin Failures(s)
  BY <1>4, <1>5 DEF MessageTrue, Failures
<1>8. /\ TransportInv /\ TransportTyped /\ OfferInv(s) /\ DueTrue(s) /\ AnswerInv(s) /\ RestTrue(s)
      /\ By[s] \in Peer /\ Via[s] \in Peer /\ By[s] # Via[s] /\ None \notin Peer /\ s \in Attempt
  BY RelayFacts
<1>9. /\ ends[s][2] \in Peer /\ ends[s][2] # By[s] /\ ends[s] = <<By[s], ends[s][2]>>
  BY <1>7, OfferEnds
<1>10. m.body = "offer" => m \in Tokens(s) /\ m \notin Answers(s) /\ Alive(s)
  BY <1>4, <1>5, <1>6 DEF Tokens, Answers, Alive, NoneOf
<1>11. m.body = "offer" =>
         /\ TokenTrue(s, p, k, m) /\ NoneOf(w, Tokens(s)) /\ s \notin awaiting[By[s]]
         /\ NoneBuffered(s) /\ NoneOf(wire, Failures(s)) /\ ~Answering(s)
         /\ roles[By[s]][s] # NoRole
  BY <1>3, <1>4, <1>7, <1>8, <1>10, TakenToken, RelayFacts DEF DueTrue
<1>12. m.body = "answer" => m \in Answers(s) /\ m \notin Tokens(s) /\ Answering(s) /\ ~Alive(s)
  <2>1. m.body = "answer" => m \in Answers(s) /\ m \notin Tokens(s)
    BY <1>4, <1>5 DEF Answers, Tokens
  <2>2. m.body = "answer" => Answering(s)
    BY <1>6, <2>1 DEF Answering, NoneOf
  <2>3. QED
    BY <2>1, <2>2, RelayFacts
<1>13. m.body = "answer" =>
         /\ Routed(s) /\ roles[By[s]][s] # NoRole /\ NoneOf(wire, Failures(s)) /\ ~Accepting(s)
         /\ NoneOf(w, Answers(s))
         /\ p = By[s] \/ (p = Via[s] /\ Other(k, p) = ends[s][2])
  <2> SUFFICES ASSUME m.body = "answer"
               PROVE  /\ Routed(s) /\ roles[By[s]][s] # NoRole /\ NoneOf(wire, Failures(s))
                      /\ ~Accepting(s) /\ NoneOf(w, Answers(s))
                      /\ p = By[s] \/ (p = Via[s] /\ Other(k, p) = ends[s][2])
    OBVIOUS
  <2>1. /\ Routed(s) /\ roles[By[s]][s] # NoRole /\ NoneOf(wire, Failures(s))
        /\ OneOf(wire, Answers(s)) /\ AnswersTrue(s)
        /\ Accepting(s) => NoneOf(wire, Answers(s))
    BY <1>8, <1>12 DEF AnswerInv
  <2>2. ~NoneOf(wire, Answers(s))
    BY <1>6, <1>12 DEF NoneOf
  <2>3. NoneOf(w, Answers(s))
    BY <1>2, <1>4, <1>5, <1>12, <2>1, TakenNone
  <2>4. p = By[s] \/ (p = Via[s] /\ Other(k, p) = ends[s][2])
    BY <1>6, <1>12, <2>1 DEF AnswersTrue
  <2>5. QED
    BY <2>1, <2>2, <2>3, <2>4
<1>14. EndsKept /\ openPeers' = openPeers
  BY <1>3 DEF EndsKept, tables
<1>15. /\ \A t \in Session, a \in Peer : t # s /\ Assigned(wire, a, t) => Assigned(w, a, t)
       /\ \A a \in Peer : Assigned(wire, a, s) => Assigned(w, a, s)
  BY <1>2, <1>4, <1>5, TakenAssigned
<1>16. Routed(s)
  BY <1>5, <1>7, <1>11, <1>13 DEF TokenTrue
<1>17. CASE /\ Mediates(p, s)
            /\ wire' = Sent(w, p, OtherSide(s, Other(k, p)), m)
            /\ UNCHANGED <<pc, request, roles, buffered, awaiting>>
  <2>1. PICK q \in Peer : q = OtherSide(s, Other(k, p)) /\ wire' = Sent(w, p, q, m)
    BY <1>2, <1>8, <1>17 DEF OtherSide, Mediates, TypeOK
  <2>2. \A a \in Peer : Assigned(wire, a, s) => Assigned(wire', a, s)
    BY <1>8, <1>15, <2>1, AssignedKept
  <2>3. DueTrue(s)' /\ AnswerInv(s)'
    <3>1. CASE m.body = "offer"
      <4>1. NoneOf(wire', Answers(s))
        BY <1>2, <1>5, <1>8, <1>10, <1>11, <2>1, <3>1, FewerSent DEF Answering
      <4>2. AnswerInv(s)'
        BY <1>11, <1>17, <3>1, <4>1, NoAnswer DEF Answering, Accepting
      <4>3. DueTrue(s)'
        BY <1>2, <1>3, <1>8, <1>10, <1>17, <2>2, <3>1, DueApart DEF TypeOK
      <4>4. QED
        BY <4>2, <4>3
    <3>2. CASE m.body = "answer"
      <4>1. q = By[s]
        BY <1>8, <1>9, <1>13, <1>17, <2>1, <3>2 DEF Mediates, OtherSide
      <4>2. PICK x : x = wire' /\ x = Sent(w, p, q, m)
        BY <2>1
      <4>3. NoneOf(w, Tokens(s)) /\ NoneOf(w, Failures(s))
        BY <1>2, <1>5, <1>12, <1>13, <3>2, DroppedFewer, FewerHaveOne DEF Alive
      <4>4. NoneOf(x, Tokens(s)) /\ NoneOf(x, Failures(s))
        BY <1>7, <1>8, <1>12, <3>2, <4>2, <4>3, SentNone
      <4>5. DueTrue(s)'
        BY <1>12, <1>17, <3>2, <4>2, <4>4, NoOffer DEF Alive, NoneBuffered
      <4>6. /\ OneOf(x, Answers(s))
            /\ \A a \in Peer, j \in Attempt : \A i \in DOMAIN x[a][j] :
                 x[a][j][i] \in Answers(s) => a = q
        BY <1>8, <1>13, <3>2, <4>2, SentOne
      <4>7. /\ NoneOf(wire, Failures(s))' /\ OneOf(wire, Answers(s))' /\ AnswersTrue(s)'
        BY <4>1, <4>2, <4>4, <4>6 DEF NoneOf, OneOf, AnswersTrue, Failures, Answers
      <4>8. Routed(s)' /\ roles'[By[s]][s] # NoRole /\ ~Accepting(s)'
        BY <1>3, <1>13, <1>16, <1>17, <3>2 DEF Routed, Accepting
      <4>9. AnswerInv(s)'
        BY <4>7, <4>8 DEF AnswerInv
      <4>10. QED
        BY <4>5, <4>9
    <3>3. QED
      BY <1>7, <3>1, <3>2
  <2>4. RestTrue(s)'
    BY <1>3, <1>8, <1>14, <1>17 DEF RestTrue
  <2>5. RelayInv(s)'
    BY <2>3, <2>4 DEF RelayInv
  <2>6. QED
    BY <1>2, <1>3, <1>4, <1>5, <1>8, <1>14, <1>15, <1>17, <2>1, <2>5, OthersRelays
<1>18. CASE /\ ~Mediates(p, s) /\ roles[p][s] = NoRole
            /\ buffered' = [buffered EXCEPT ![p][s] = m.body]
            /\ wire' = w
            /\ UNCHANGED <<pc, request, roles, awaiting>>
  <2>1. m.body = "offer"
    <3>1. m.body # "answer"
      BY <1>8, <1>9, <1>13, <1>16, <1>18 DEF Mediates, Routed
    <3>2. QED
      BY <1>7, <3>1
  <2>2. \A a \in Peer, t \in Session :
          buffered'[a][t] = IF a = p /\ t = s THEN m.body ELSE buffered[a][t]
    BY <1>2, <1>7, <1>18 DEF TypeOK
  <2>3. NoneOf(wire', Answers(s))
    BY <1>2, <1>5, <1>8, <1>11, <1>18, <2>1, FewerSent DEF Answering
  <2>4. AnswerInv(s)'
    BY <1>11, <1>18, <2>1, <2>3, NoAnswer DEF Answering, Accepting
  <2>5. DueTrue(s)'
    BY <1>2, <1>3, <1>8, <1>10, <1>15, <1>18, <2>1, DueApart DEF TypeOK
  <2>6. RestTrue(s)'
    BY <1>3, <1>8, <1>14, <1>18, <2>1, <2>2 DEF RestTrue
  <2>7. RelayInv(s)'
    BY <2>4, <2>5, <2>6 DEF RelayInv
  <2>8. QED
    BY <1>2, <1>3, <1>5, <1>8, <1>14, <1>15, <1>18, <2>2, <2>7, OthersRelays
<1>19. CASE /\ ~Mediates(p, s) /\ roles[p][s] # NoRole
            /\ ProcessRelay(p, s, roles[p][s], m.body, w)
            /\ UNCHANGED buffered
  <2>1. PICK r, blob : r = roles[p][s] /\ blob = m.body
    OBVIOUS
  <2>2. ProcessRelay(p, s, r, blob, w)
    BY <1>19, <2>1
  <2>3. NoneOf(w, Tokens(s)) /\ NoneOf(w, Answers(s)) /\ s \notin awaiting[By[s]] /\ ~Accepting(s)
    <3>1. CASE m.body = "offer"
      BY <1>2, <1>5, <1>11, <3>1, DroppedFewer, FewerHaveOne DEF Answering
    <3>2. CASE m.body = "answer"
      BY <1>2, <1>5, <1>12, <1>13, <3>2, DroppedFewer, FewerHaveOne DEF Alive
    <3>3. QED
      BY <1>7, <3>1, <3>2
  <2>4. r.role = "answerer" => p = ends[s][2]
    <3>1. RoleTrue(ch, p, s)
      BY <1>2 DEF RolesTrue
    <3>2. \/ p = By[s] /\ r = [role |-> "offerer", peer |-> ch[s]]
          \/ p = ch[s] /\ r = [role |-> "answerer", peer |-> By[s]]
      BY <1>19, <2>1, <3>1 DEF RoleTrue
    <3>3. ends[s] = <<By[s], ch[s]>>
      BY <1>1, <1>7 DEF SessionInv, SessionTrue
    <3>4. QED
      BY <3>2, <3>3
  <2>5. \A a \in Peer : buffered[a][s] = "none"
    <3>1. NoneBuffered(s)
      BY <1>7, <1>11, <1>12 DEF Alive
    <3>2. QED
      BY <1>8, <3>1 DEF RestTrue, NoneBuffered
  <2>6. \A a \in Peer, t \in Session : buffered'[a][t] = IF t = s THEN "none" ELSE buffered[a][t]
    BY <1>19, <2>5
  <2>7. r.role = "answerer" /\ blob = "offer" =>
          /\ p = ends[s][2] /\ Routed(s)
          /\ roles[By[s]][s] # NoRole /\ NoneOf(wire, Failures(s))
    BY <1>11, <1>16, <2>1, <2>4
  <2>8. QED
    BY <1>3, <1>5, <1>15, <2>2, <2>3, <2>6, <2>7, ProcessRelays
<1>20. QED
  BY <1>4, <1>17, <1>18, <1>19 DEF HandleRelay

\* Nothing has closed, so no close event comes.
LEMMA NoClose ==
  ASSUME IInv, Calm, NEW p \in Peer, NEW k \in Attempt
  PROVE  ~OnClose(p, k)
<1>1. TransportInv
  BY DEF IInv
<1>2. ASSUME pc[p][k] \in {"complete", "wired", "open"} PROVE pc[Other(k, p)][k] # "closed"
  <2>1. Other(k, p) \in Peer
    BY <1>1, <1>2, TwoEnds DEF Other, TransportInv, EndsHold
  <2>2. QED
    BY <2>1 DEF Calm
<1>3. QED
  BY <1>2 DEF OnClose, Calm

\* What the browser calls, and blobs carried by hand.
LEMMA TransportRelays ==
  ASSUME IInv, OffersInv, RelaysInv, Calm, NEW p \in Peer, TransportNext(p), ~Disconnect(p),
         UNCHANGED sessionVars
  PROVE  RelaysInv'
<1>1. TypeOK /\ TransportTyped /\ wire \in Wires /\ Dropped(wire, wire)
  BY Unchanged DEF IInv, TypeOK, Wires, TransportInv
<1>2. UNCHANGED <<request, mediating, assigning, roles, buffered, awaiting>>
  BY DEF sessionVars
<1>3. /\ wire' = wire /\ EndsKept
      /\ \A s \in Session : ends'[s] = ends[s]
      /\ \A a \in Peer : openPeers[a] \subseteq openPeers'[a]
  <2>1. ASSUME NEW k \in Attempt, OnDataChannel(p, k) \/ OnOpen(p, k)
        PROVE  /\ wire' = wire /\ ends' = ends
               /\ \A a \in Peer : openPeers[a] \subseteq openPeers'[a]
    <3>1. wire' = wire /\ ends' = ends
      BY <2>1 DEF OnDataChannel, OnOpen
    <3>2. CASE openPeers' = openPeers
      BY <3>1, <3>2
    <3>3. CASE OnOpen(p, k)
      <4>1. PICK q : q = Other(k, p)
        OBVIOUS
      <4>2. openPeers' = [openPeers EXCEPT ![p] = @ \cup {q}]
        BY <3>3, <4>1 DEF OnOpen
      <4>3. \A a \in Peer : openPeers'[a] = IF a = p THEN openPeers[p] \cup {q} ELSE openPeers[a]
        BY <1>1, <4>2 DEF TypeOK
      <4>4. QED
        BY <3>1, <4>3
    <3>4. QED
      BY <2>1, <3>2, <3>3 DEF OnDataChannel
  <2>2. ASSUME NEW k \in ByHand, Carry(p, k)
        PROVE  /\ wire' = wire /\ openPeers' = openPeers
               /\ ends' = ends \/ \E e : ends[k] = <<>> /\ ends' = [ends EXCEPT ![k] = e]
    BY <2>2 DEF Carry, CreateOffer, tables
  <2>3. ASSUME NEW k \in ByHand, NEW e, ends[k] = <<>>, ends' = [ends EXCEPT ![k] = e]
        PROVE  EndsKept /\ \A s \in Session : ends'[s] = ends[s]
    BY <1>1, <2>3, SessionAssumption DEF EndsKept, TypeOK
  <2>4. ends' = ends => EndsKept
    BY DEF EndsKept
  <2>5. QED
    BY <2>1, <2>2, <2>3, <2>4, NoClose DEF TransportNext
<1>4. ASSUME NEW r \in Session PROVE RelayInv(r)'
  <2>1. RelayInv(r)
    BY DEF RelaysInv
  <2>2. QED
    BY <1>1, <1>2, <1>3, <2>1, OtherRelay
<1>5. QED
  BY <1>4 DEF RelaysInv

\* A step that closes nothing.
LEMMA StageCalm ==
  ASSUME Calm, UNCHANGED <<lateClose, listening>>,
         \A a \in Peer, j \in Attempt : pc'[a][j] = "closed" => pc[a][j] = "closed"
  PROVE  Calm'
BY DEF Calm

\* Stages of one connection.
LEMMA OneStage ==
  ASSUME TypeOK, NEW p \in Peer, NEW k, NEW stage, stage = "closed" => pc[p][k] = "closed",
         pc' = [pc EXCEPT ![p][k] = stage]
  PROVE  \A a \in Peer, j \in Attempt : pc'[a][j] = "closed" => pc[a][j] = "closed"
<1>1. \A a \in Peer, j \in Attempt : pc'[a][j] = IF a = p /\ j = k THEN stage ELSE pc[a][j]
  BY DEF TypeOK
<1>2. QED
  BY <1>1

\* As long as nobody leaves, nothing closes.
LEMMA NextCalm ==
  ASSUME IInv, Calm, [Next]_vars, leaves = 0, leaves' = 0
  PROVE  Calm'
<1> DEFINE Stays == \A a \in Peer, j \in Attempt : pc'[a][j] = "closed" => pc[a][j] = "closed"
<1>1. TypeOK /\ leaves \in Nat
  BY AttemptAssumption DEF IInv, TypeOK
<1>2. pc' = pc => Stays
  OBVIOUS
<1>3. ASSUME NEW p \in Peer, NEW q, NEW k,
             \/ CreateOffer(p, q, k) \/ AcceptOffer(p, k) \/ CompleteConnection(p, q, k)
             \/ Offered(p, k) \/ Answered(p, k) \/ OnDataChannel(p, k) \/ OnOpen(p, k)
      PROVE  Stays
  <2>1. ASSUME NEW j, NEW stage, stage = "closed" => pc[p][j] = "closed",
               pc' = [pc EXCEPT ![p][j] = stage]
        PROVE  Stays
    BY <1>1, <2>1, OneStage
  <2> HIDE DEF Stays
  <2>2. CASE Offered(p, k)
    <3>1. PICK stage : stage = IF pc[p][k] = "gathering" THEN "offered" ELSE pc[p][k]
      OBVIOUS
    <3>2. pc' = [pc EXCEPT ![p][k] = stage]
      BY <2>2, <3>1 DEF Offered
    <3>3. stage = "closed" => pc[p][k] = "closed"
      BY <3>1
    <3>4. QED
      BY <2>1, <3>2, <3>3
  <2>3. CASE CompleteConnection(p, q, k)
    <3>1. PICK j, stage : /\ j = links[p][q]
                          /\ stage = IF k = links[p][q] THEN "complete" ELSE "crossed"
      OBVIOUS
    <3>2. pc' = [pc EXCEPT ![p][j] = stage]
      BY <2>3, <3>1 DEF CompleteConnection
    <3>3. stage # "closed"
      BY <3>1
    <3>4. QED
      BY <2>1, <3>2, <3>3
  <2>4. CASE CreateOffer(p, q, k)
    BY <2>1, <2>4 DEF CreateOffer
  <2>5. CASE AcceptOffer(p, k)
    BY <2>1, <2>5 DEF AcceptOffer
  <2>6. CASE Answered(p, k)
    BY <2>1, <2>6 DEF Answered
  <2>7. CASE OnDataChannel(p, k)
    BY <2>1, <2>7 DEF OnDataChannel
  <2>8. CASE OnOpen(p, k)
    BY <2>1, <2>8 DEF OnOpen
  <2>9. QED
    BY <1>3, <2>2, <2>3, <2>4, <2>5, <2>6, <2>7, <2>8
<1>4. ASSUME NEW p \in Peer, Handler(p) PROVE Calm'
  <2>1. UNCHANGED <<lateClose, listening>>
    BY <1>4 DEF Handler, HandleRequest, HandleAssign, HandleRelay, HandleFailed, Unheard,
                AssignAnswerer, OfferReady, AnswerReady, CreateOffer, sessionVars
  <2>2. ASSUME NEW s, NEW r, NEW blob, NEW w, ProcessRelay(p, s, r, blob, w) PROVE Stays
    <3>1. \/ pc' = pc \/ AcceptOffer(p, s) \/ CompleteConnection(p, r.peer, s)
      BY <2>2 DEF ProcessRelay
    <3>2. QED
      BY <1>2, <1>3, <3>1
  <2>3. ASSUME NEW k \in Attempt, HandleAssign(p, k) PROVE Stays
    <3>1. PICK m, s, r : m = Head(wire[p][k]) /\ s = m.session
                         /\ r = [role |-> m.body, peer |-> m.peer]
      OBVIOUS
    <3>2. \/ pc' = pc \/ CreateOffer(p, r.peer, s)
          \/ ProcessRelay(p, s, r, buffered[p][s], Taken(p, k))
      BY <2>3, <3>1 DEF HandleAssign
    <3>3. QED
      BY <1>2, <1>3, <2>2, <3>2
  <2>4. ASSUME NEW k \in Attempt, HandleRelay(p, k) PROVE Stays
    <3>1. PICK m, s : m = Head(wire[p][k]) /\ s = m.session
      OBVIOUS
    <3>2. pc' = pc \/ ProcessRelay(p, s, roles[p][s], m.body, Taken(p, k))
      BY <2>4, <3>1 DEF HandleRelay
    <3>3. QED
      BY <1>2, <2>2, <3>2
  <2>5. ASSUME NEW s \in Session, OfferReady(p, s) \/ AnswerReady(p, s) PROVE Stays
    BY <1>2, <1>3, <2>5 DEF OfferReady, AnswerReady
  <2>6. CASE pc' = pc
    BY <1>2, <2>1, <2>6, StageCalm
  <2> HIDE DEF Stays
  <2>7. pc' = pc \/ Stays
    BY <1>4, <2>3, <2>4, <2>5
       DEF Handler, HandleRequest, HandleFailed, Unheard, AssignAnswerer
  <2>8. QED
    BY <2>1, <2>6, <2>7, StageCalm DEF Stays
<1>5. ASSUME NEW p \in Peer, TransportNext(p), UNCHANGED sessionVars PROVE Calm'
  <2>1. UNCHANGED listening
    BY <1>5 DEF sessionVars
  <2>2. ~Disconnect(p)
    BY <1>1 DEF Disconnect
  <2>3. ASSUME NEW k \in Attempt, OnDataChannel(p, k) \/ OnOpen(p, k)
        PROVE  Stays /\ UNCHANGED lateClose
    BY <1>3, <2>3 DEF OnDataChannel, OnOpen
  <2>4. ASSUME NEW k \in ByHand, Carry(p, k) PROVE Stays /\ UNCHANGED lateClose
    BY <1>3, <2>4 DEF Carry, CreateOffer
  <2>5. Stays /\ UNCHANGED lateClose
    BY <1>5, <2>2, <2>3, <2>4, NoClose DEF TransportNext
  <2>6. QED
    BY <2>1, <2>5, StageCalm
<1>6. ASSUME NEW p \in Peer, Stop(p) \/ Start(p) PROVE Calm'
  BY <1>1, <1>6 DEF Stop, Start, Calm
<1>7. ASSUME NEW s \in Session, RequestIntroduction(s) PROVE Calm'
  BY <1>2, <1>7, StageCalm DEF RequestIntroduction
<1>8. CASE UNCHANGED vars
  BY <1>2, <1>8, StageCalm DEF vars, transportVars, sessionVars
<1>9. QED
  BY <1>4, <1>5, <1>6, <1>7, <1>8 DEF Next
-----------------------------------------------------------------------------
(* The theorems.                                                           *)

\* At first nothing is under way.
LEMMA InitRelays == Init => CalmInv
<1> SUFFICES ASSUME Init PROVE Calm /\ RelaysInv
  BY DEF CalmInv
<1>1. Calm
  <2>1. \A p \in Peer, k \in Attempt : pc[p][k] # "closed"
    BY DEF Init, TransportInit
  <2>2. QED
    BY <2>1 DEF Calm, Init, TransportInit
<1>2. ASSUME NEW s \in Session PROVE RelayInv(s)
  <2>1. \A q \in Peer, k \in Attempt : wire[q][k] = <<>>
    BY DEF Init, TransportInit
  <2>2. NoneOf(wire, Tokens(s)) /\ NoneOf(wire, Answers(s))
    BY <2>1 DEF NoneOf
  <2>3. ~Alive(s) /\ ~Answering(s)
    BY <2>2, SessionConstants DEF Alive, Answering, Accepting, NoneBuffered, Init
  <2>4. RestTrue(s)
    BY DEF RestTrue, Init
  <2>5. QED
    BY <2>3, <2>4 DEF RelayInv, DueTrue, AnswerInv
<1>3. QED
  BY <1>1, <1>2 DEF RelaysInv

\* Every step keeps the invariant.
LEMMA NextRelays == IInv /\ OffersInv /\ CalmInv /\ [Next]_vars => CalmInv'
<1> SUFFICES ASSUME IInv, OffersInv, CalmInv, [Next]_vars, leaves' = 0
             PROVE  Calm' /\ RelaysInv'
  BY DEF CalmInv
<1>1. TypeOK /\ leaves \in Nat
  BY AttemptAssumption DEF IInv, TypeOK
<1>2. ASSUME NEW p \in Peer, Disconnect(p) \/ Stop(p) PROVE FALSE
  BY <1>1, <1>2 DEF Disconnect, Stop
<1>3. leaves = 0
  <2>1. ASSUME NEW p \in Peer, Handler(p) PROVE leaves' = leaves
    BY <2>1 DEF Handler, HandleRequest, HandleAssign, HandleRelay, HandleFailed, Unheard,
                AssignAnswerer, OfferReady, AnswerReady
  <2>2. ASSUME NEW p \in Peer, TransportNext(p) PROVE leaves' = leaves
    <3>1. ASSUME NEW k \in Attempt, OnDataChannel(p, k) \/ OnOpen(p, k) \/ OnClose(p, k)
          PROVE  leaves' = leaves
      BY <3>1 DEF OnDataChannel, OnOpen, OnClose
    <3>2. ASSUME NEW k \in ByHand, Carry(p, k) PROVE leaves' = leaves
      BY <3>2 DEF Carry
    <3>3. QED
      BY <1>2, <2>2, <3>1, <3>2 DEF TransportNext
  <2>3. ASSUME NEW p \in Peer, Start(p) PROVE leaves' = leaves
    BY <2>3 DEF Start, transportVars
  <2>4. ASSUME NEW s \in Session, RequestIntroduction(s) PROVE leaves' = leaves
    BY <2>4 DEF RequestIntroduction
  <2>5. CASE UNCHANGED vars
    BY <2>5 DEF vars, transportVars
  <2>6. leaves' = leaves
    BY <1>2, <2>1, <2>2, <2>3, <2>4, <2>5 DEF Next
  <2>7. QED
    BY <2>6
<1>4. Calm /\ RelaysInv
  BY <1>3 DEF CalmInv
<1>5. Calm'
  BY <1>3, <1>4, NextCalm
<1>6. ASSUME NEW p \in Peer, Handler(p) PROVE RelaysInv'
  <2>1. \A k \in Attempt : ~Unheard(p, k)
    BY <1>4 DEF Unheard, Calm
  <2>2. QED
    BY <1>4, <1>6, <2>1, RequestTakenRelays, AssignTakenRelays, RelayTakenRelays, FailedRelays,
       AssignRelays, OfferReadyRelays, AnswerReadyRelays DEF Handler
<1>7. ASSUME NEW p \in Peer, TransportNext(p), UNCHANGED sessionVars PROVE RelaysInv'
  BY <1>2, <1>4, <1>7, TransportRelays
<1>8. ASSUME NEW p \in Peer, Start(p) PROVE FALSE
  BY <1>4, <1>8 DEF Start, Calm
<1>9. ASSUME NEW s \in Session, RequestIntroduction(s) PROVE RelaysInv'
  BY <1>4, <1>9, RequestRelays
<1>10. ASSUME UNCHANGED vars PROVE RelaysInv'
  <2>1. /\ UNCHANGED <<ends, wire, openPeers>>
        /\ UNCHANGED <<request, mediating, assigning, roles, buffered, awaiting>>
    BY <1>10 DEF vars, transportVars, sessionVars, tables
  <2>2. TransportTyped /\ wire \in Wires /\ Dropped(wire, wire) /\ EndsKept
    BY <1>1, <2>1, Unchanged DEF TypeOK, TransportTyped, Wires, EndsKept
  <2>3. ASSUME NEW r \in Session PROVE RelayInv(r)'
    <3>1. RelayInv(r)
      BY <1>4 DEF RelaysInv
    <3>2. /\ wire' = wire /\ ends'[r] = ends[r] /\ request'[r] = request[r]
          /\ mediating'[r] = mediating[r] /\ assigning'[r] = assigning[r]
          /\ \A p \in Peer : /\ openPeers[p] \subseteq openPeers'[p]
                            /\ roles'[p][r] = roles[p][r] /\ buffered'[p][r] = buffered[p][r]
                            /\ awaiting'[p] = awaiting[p]
      BY <2>1
    <3>3. QED
      BY <1>1, <2>2, <3>1, <3>2, OtherRelay
  <2>4. QED
    BY <2>3 DEF RelaysInv
<1>11. RelaysInv'
  BY <1>2, <1>6, <1>7, <1>8, <1>9, <1>10 DEF Next
<1>12. QED
  BY <1>5, <1>11

\* As long as nobody leaves, there is one answer of a session at most, and whoever
\* an offer or an answer reaches knows its role, or will.
THEOREM RelaysFindRoles == Spec => []CalmInv
BY InitRelays, NextRelays, Invariance, OneChance, PTL DEF Spec

\* A relay that overtook its assignment is processed exactly once
\* (introducer.js:44-48): what is buffered is an offer, its role is not known yet
\* and the assignment is due.
THEOREM BufferedAwaitsRole == Spec => []BufferedIsAwaited
<1>1. ASSUME OffersInv, CalmInv PROVE BufferedIsAwaited
  <2> SUFFICES ASSUME leaves = 0, NEW p \in Peer, NEW s \in Session, buffered[p][s] # "none"
               PROVE  roles[p][s] = NoRole /\ AssignmentDue(p, s)
    BY DEF BufferedIsAwaited
  <2>1. RelayInv(s) /\ OfferInv(s)
    BY <1>1 DEF CalmInv, RelaysInv, OffersInv
  <2>2. buffered[p][s] = "offer" /\ roles[p][s] = NoRole
    BY <2>1 DEF RelayInv, RestTrue
  <2>3. Alive(s) /\ mediating[s] = p
    BY <2>1, <2>2 DEF OfferInv, Alive, NoneBuffered, Routed
  <2>4. assigning[s] = p \/ Assigned(wire, p, s)
    BY <2>1, <2>2, <2>3, AttemptAssumption DEF RelayInv, DueTrue
  <2>5. QED
    BY <2>2, <2>4, DueAssigned
<1>2. QED
  BY <1>1, OneChance, RelaysFindRoles, PTL
=============================================================================
