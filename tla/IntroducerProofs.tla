--------------------------- MODULE IntroducerProofs ---------------------------
(***************************************************************************)
(* Theorems about Introducer and the WebrtcTransports below it, for any    *)
(* peers, attempts and sessions.                                           *)
(***************************************************************************)
EXTENDS Introducer, TLAPS

-----------------------------------------------------------------------------
(* The invariant of the transport.                                         *)

TransportTyped ==
  /\ ends \in [Attempt -> {<<>>} \cup (Peer \X Peer)]
  /\ pc \in [Peer -> [Attempt -> PcState]]
  /\ links \in [Peer -> [Peer -> Attempt \cup {None}]]
  /\ openPeers \in [Peer -> SUBSET Peer]
  /\ lateClose \in [Peer -> SUBSET Attempt]

\* An attempt has two different ends, and each goes through the stages of its
\* side.
EndsHold ==
  /\ \A k \in Attempt : ends[k] # <<>> => ends[k][1] # ends[k][2]
  /\ \A p \in Peer, k \in Attempt : pc[p][k] # "none" =>
       /\ ends[k] # <<>>
       /\ \/ /\ p = ends[k][1]
             /\ pc[p][k] \notin {"answering", "answered", "wired"}
          \/ /\ p = ends[k][2]
             /\ pc[p][k] \in {"answering", "answered", "wired", "open", "closed"}

\* What is in a table under a peer is an attempt with that peer, not closed.
TableTrue ==
  \A p, q \in Peer : links[p][q] # None =>
    /\ ends[links[p][q]] \in {<<p, q>>, <<q, p>>}
    /\ pc[p][links[p][q]] \notin {"none", "answering", "answered", "closed"}

\* Close events that are still to come are of closed channels.
LateCloseTrue == \A p \in Peer : \A k \in lateClose[p] : pc[p][k] = "closed"

\* While p's offer k is in p's table and q has accepted it, q's table has nothing
\* for p, or an offer that p has not accepted: p does not accept any as long as k
\* is there.  So ondatachannel replaces a pending offer at most.
Unaccepted(q, p, j) ==
  /\ ends[j] = <<q, p>> /\ pc[p][j] = "none"
  /\ pc[q][j] \in {"gathering", "offered", "crossed"}

BeingAccepted(p, q, k) ==
  ends[k] = <<p, q>> /\ pc[q][k] \in {"answering", "answered"}

AnswererIsFree ==
  \A p, q \in Peer : \A k, j \in Attempt :
    links[p][q] = k /\ BeingAccepted(p, q, k) /\ links[q][p] = j => Unaccepted(q, p, j)

TransportInv ==
  /\ TransportTyped /\ EndsHold /\ TableTrue /\ LateCloseTrue
  /\ OpenPeersAreLinked /\ ConnectedIsLinked /\ AnswererIsFree

\* What no step takes back.
Kept ==
  /\ \A k \in Attempt : ends[k] # <<>> => ends'[k] = ends[k]
  /\ \A p \in Peer, k \in Attempt : pc[p][k] # "none" => pc'[p][k] # "none"

\* The two ends of an attempt.
LEMMA TwoEnds ==
  ASSUME TransportInv, NEW k \in Attempt, ends[k] # <<>>
  PROVE  /\ ends[k][1] \in Peer /\ ends[k][2] \in Peer /\ ends[k][1] # ends[k][2]
         /\ ends[k] = <<ends[k][1], ends[k][2]>>
         /\ Other(k, ends[k][1]) = ends[k][2]
         /\ Other(k, ends[k][2]) = ends[k][1]
<1>1. ends[k] \in Peer \X Peer
  BY DEF TransportInv, TransportTyped
<1>2. ends[k][1] # ends[k][2]
  BY DEF TransportInv, EndsHold
<1>3. QED
  BY <1>1, <1>2 DEF Other

\* The other end of what is in a table.
LEMMA TableOther ==
  ASSUME TransportInv, NEW p \in Peer, NEW q \in Peer, links[p][q] # None
  PROVE  /\ links[p][q] \in Attempt
         /\ ends[links[p][q]] # <<>>
         /\ p # q
         /\ Other(links[p][q], p) = q
<1> DEFINE k == links[p][q]
<1>1. k \in Attempt
  BY DEF TransportInv, TransportTyped
<1>2. ends[k] = <<p, q>> \/ ends[k] = <<q, p>>
  BY DEF TransportInv, TableTrue
<1>3. ends[k] # <<>>
  BY <1>1, <1>2, pc[p][k] # "none" DEF TransportInv, EndsHold, TableTrue
<1>4. ends[k][1] # ends[k][2]
  BY <1>1, <1>3 DEF TransportInv, EndsHold
<1>5. QED
  BY <1>1, <1>2, <1>3, <1>4 DEF Other

\* createOfferFor up to its first await.
LEMMA CreateOfferStep ==
  ASSUME TransportInv, NEW p \in Peer, NEW q \in Peer, NEW k \in Attempt, CreateOffer(p, q, k)
  PROVE  TransportInv' /\ Kept
<1>1. /\ p # q /\ ends[k] = <<>> /\ links[p][q] = None
      /\ openPeers' = openPeers /\ lateClose' = lateClose
  BY DEF CreateOffer
<1>2. ASSUME NEW j \in Attempt
      PROVE  ends'[j] = IF j = k THEN <<p, q>> ELSE ends[j]
  BY DEF CreateOffer, TransportInv, TransportTyped
<1>3. ASSUME NEW a \in Peer, NEW j \in Attempt
      PROVE  pc'[a][j] = IF a = p /\ j = k THEN "gathering" ELSE pc[a][j]
  BY DEF CreateOffer, TransportInv, TransportTyped
<1>4. ASSUME NEW a \in Peer, NEW b \in Peer
      PROVE  links'[a][b] = IF a = p /\ b = q THEN k ELSE links[a][b]
  BY DEF CreateOffer, TransportInv, TransportTyped
<1>5. \A a \in Peer : pc[a][k] = "none"
  BY <1>1 DEF TransportInv, EndsHold
<1>6. <<p, q>> # <<>>
  OBVIOUS
<1>7. ASSUME NEW a \in Peer, NEW b \in Peer
      PROVE  links[a][b] # k
  <2>1. k # None
    BY AttemptAssumption
  <2>2. QED
    BY <1>5, <2>1 DEF TransportInv, TableTrue
<1>8. Kept
  BY <1>1, <1>2, <1>3 DEF Kept
<1>9. TransportTyped'
  BY DEF CreateOffer, TransportInv, TransportTyped, PcState
<1>10. EndsHold'
  <2>1. ASSUME NEW j \in Attempt, ends'[j] # <<>> PROVE ends'[j][1] # ends'[j][2]
    BY <1>1, <1>2, <2>1 DEF TransportInv, EndsHold
  <2>2. ASSUME NEW a \in Peer, NEW j \in Attempt, pc'[a][j] # "none"
        PROVE  /\ ends'[j] # <<>>
               /\ \/ a = ends'[j][1] /\ pc'[a][j] \notin {"answering", "answered", "wired"}
                  \/ /\ a = ends'[j][2]
                     /\ pc'[a][j] \in {"answering", "answered", "wired", "open", "closed"}
    <3>1. CASE j = k
      BY <1>2, <1>3, <1>5, <1>6, <2>2, <3>1
    <3>2. CASE j # k
      BY <1>2, <1>3, <2>2, <3>2 DEF TransportInv, EndsHold
    <3>3. QED
      BY <3>1, <3>2
  <2>3. QED
    BY <2>1, <2>2 DEF EndsHold
<1>11. TableTrue'
  <2> SUFFICES ASSUME NEW a \in Peer, NEW b \in Peer, links'[a][b] # None
               PROVE  /\ ends'[links'[a][b]] \in {<<a, b>>, <<b, a>>}
                      /\ pc'[a][links'[a][b]] \notin {"none", "answering", "answered", "closed"}
    BY DEF TableTrue
  <2>1. CASE a = p /\ b = q
    BY <1>2, <1>3, <1>4, <2>1
  <2>2. CASE ~(a = p /\ b = q)
    <3>1. links'[a][b] = links[a][b] /\ links[a][b] \in Attempt /\ links[a][b] # k
      BY <1>4, <1>7, <2>2 DEF TransportInv, TransportTyped
    <3>2. QED
      BY <1>2, <1>3, <3>1 DEF TransportInv, TableTrue
  <2>3. QED
    BY <2>1, <2>2
<1>12. LateCloseTrue'
  BY <1>1, <1>3, <1>5 DEF TransportInv, TransportTyped, LateCloseTrue
<1>13. OpenPeersAreLinked'
  <2> SUFFICES ASSUME NEW a \in Peer, NEW b \in Peer, b \in openPeers[a]
               PROVE  links'[a][b] # None /\ pc'[a][links'[a][b]] = "open"
    BY <1>1 DEF OpenPeersAreLinked
  <2>1. links[a][b] # None /\ pc[a][links[a][b]] = "open" /\ links[a][b] \in Attempt
    BY DEF TransportInv, TransportTyped, OpenPeersAreLinked
  <2>2. QED
    BY <1>1, <1>3, <1>4, <1>7, <2>1
<1>14. ConnectedIsLinked'
  <2> SUFFICES ASSUME NEW a \in Peer, NEW j \in Attempt, pc'[a][j] \in {"complete", "wired", "open"}
               PROVE  links'[a][Other(j, a)'] = j
    BY DEF ConnectedIsLinked
  <2>1. j # k /\ pc[a][j] \in {"complete", "wired", "open"}
    BY <1>3, <1>5
  <2>2. Other(j, a)' = Other(j, a) /\ links[a][Other(j, a)] = j
    BY <1>2, <2>1 DEF Other, TransportInv, ConnectedIsLinked
  <2>3. Other(j, a) \in Peer
    BY <2>1, TwoEnds DEF Other, TransportInv, EndsHold
  <2>4. ~(a = p /\ Other(j, a) = q)
    BY <1>1, <2>2, AttemptAssumption
  <2>5. QED
    BY <1>4, <2>2, <2>3, <2>4
<1>15. AnswererIsFree'
  <2> SUFFICES ASSUME NEW a \in Peer, NEW b \in Peer, NEW i \in Attempt, NEW j \in Attempt,
                      links'[a][b] = i, BeingAccepted(a, b, i)', links'[b][a] = j
               PROVE  Unaccepted(b, a, j)'
    BY DEF AnswererIsFree
  <2>1. i # k
    BY <1>3, <1>5 DEF BeingAccepted
  <2>2. i = links[a][b] /\ BeingAccepted(a, b, i)
    BY <1>2, <1>3, <1>4, <1>7, <2>1 DEF BeingAccepted
  <2>3. CASE b = p /\ a = q
    BY <1>1, <1>2, <1>3, <1>4, <1>5, <2>3 DEF Unaccepted
  <2>4. CASE ~(b = p /\ a = q)
    <3>1. j = links[b][a] /\ j # k
      BY <1>4, <1>7, <2>4
    <3>2. Unaccepted(b, a, j)
      BY <2>2, <3>1 DEF TransportInv, AnswererIsFree
    <3>3. QED
      BY <1>2, <1>3, <3>1, <3>2 DEF Unaccepted
  <2>5. QED
    BY <2>3, <2>4
<1>16. QED
  BY <1>8, <1>9, <1>10, <1>11, <1>12, <1>13, <1>14, <1>15 DEF TransportInv

\* A step that changes only one stage at one end, and that to a stage of the same
\* standing, keeps the invariant.
LEMMA StageStep ==
  ASSUME TransportInv, NEW p \in Peer, NEW k \in Attempt, NEW stage \in PcState,
         pc' = [pc EXCEPT ![p][k] = stage],
         UNCHANGED <<ends, tables, lateClose>>,
         \/ pc[p][k] = "gathering" /\ stage = "offered"
         \/ pc[p][k] = "answering" /\ stage = "answered"
         \/ pc[p][k] = "none" /\ stage = "answering"
            /\ ends[k] # <<>> /\ p = ends[k][2] /\ links[p][ends[k][1]] = None
         \/ pc[p][k] \in {"gathering", "offered"} /\ stage = "crossed"
         \/ pc[p][k] \in {"gathering", "offered"} /\ stage = "complete" /\ Accepted(k)
            /\ links[p][Other(k, p)] = k
  PROVE  TransportInv' /\ Kept
<1>1. UNCHANGED <<ends, links, openPeers, lateClose>>
  BY DEF tables
<1>2. ASSUME NEW a \in Peer, NEW j \in Attempt
      PROVE  pc'[a][j] = IF a = p /\ j = k THEN stage ELSE pc[a][j]
  BY DEF TransportInv, TransportTyped
<1>3. stage # "none" /\ stage \notin {"wired", "open", "closed"} /\ pc[p][k] \notin {"wired", "open", "closed"}
  OBVIOUS
<1>4. ASSUME NEW a \in Peer, NEW j \in Attempt
      PROVE  Other(j, a)' = Other(j, a)
  BY <1>1 DEF Other
<1>5. Kept
  BY <1>1, <1>2, <1>3 DEF Kept
<1>6. TransportTyped'
  BY <1>1 DEF TransportInv, TransportTyped
<1>7. EndsHold'
  <2>1. ASSUME NEW j \in Attempt, ends'[j] # <<>> PROVE ends'[j][1] # ends'[j][2]
    BY <1>1, <2>1 DEF TransportInv, EndsHold
  <2>2. ASSUME NEW a \in Peer, NEW j \in Attempt, pc'[a][j] # "none"
        PROVE  /\ ends'[j] # <<>>
               /\ \/ a = ends'[j][1] /\ pc'[a][j] \notin {"answering", "answered", "wired"}
                  \/ /\ a = ends'[j][2]
                     /\ pc'[a][j] \in {"answering", "answered", "wired", "open", "closed"}
    <3>1. CASE a = p /\ j = k
      BY <1>1, <1>2, <3>1 DEF TransportInv, EndsHold
    <3>2. CASE ~(a = p /\ j = k)
      BY <1>1, <1>2, <2>2, <3>2 DEF TransportInv, EndsHold
    <3>3. QED
      BY <3>1, <3>2
  <2>3. QED
    BY <2>1, <2>2 DEF EndsHold
<1>8. TableTrue'
  <2> SUFFICES ASSUME NEW a \in Peer, NEW b \in Peer, links[a][b] # None
               PROVE  /\ ends[links[a][b]] \in {<<a, b>>, <<b, a>>}
                      /\ pc'[a][links[a][b]] \notin {"none", "answering", "answered", "closed"}
    BY <1>1 DEF TableTrue
  <2>1. /\ ends[links[a][b]] \in {<<a, b>>, <<b, a>>} /\ links[a][b] \in Attempt
        /\ pc[a][links[a][b]] \notin {"none", "answering", "answered", "closed"}
    BY DEF TransportInv, TransportTyped, TableTrue
  <2>2. QED
    BY <1>2, <2>1
<1>9. LateCloseTrue'
  BY <1>1, <1>2, <1>3 DEF TransportInv, TransportTyped, LateCloseTrue
<1>10. OpenPeersAreLinked'
  <2> SUFFICES ASSUME NEW a \in Peer, NEW b \in Peer, b \in openPeers[a]
               PROVE  links[a][b] # None /\ pc'[a][links[a][b]] = "open"
    BY <1>1 DEF OpenPeersAreLinked
  <2>1. links[a][b] # None /\ pc[a][links[a][b]] = "open" /\ links[a][b] \in Attempt
    BY DEF TransportInv, TransportTyped, OpenPeersAreLinked
  <2>2. QED
    BY <1>2, <1>3, <2>1
<1>11. ConnectedIsLinked'
  <2> SUFFICES ASSUME NEW a \in Peer, NEW j \in Attempt, pc'[a][j] \in {"complete", "wired", "open"}
               PROVE  links[a][Other(j, a)] = j
    BY <1>1, <1>4 DEF ConnectedIsLinked
  <2>1. CASE a = p /\ j = k
    BY <1>2, <2>1
  <2>2. CASE ~(a = p /\ j = k)
    BY <1>2, <2>2 DEF TransportInv, ConnectedIsLinked
  <2>3. QED
    BY <2>1, <2>2
<1>12. AnswererIsFree'
  <2> SUFFICES ASSUME NEW a \in Peer, NEW b \in Peer, NEW i \in Attempt, NEW j \in Attempt,
                      links[a][b] = i, BeingAccepted(a, b, i)', links[b][a] = j
               PROVE  Unaccepted(b, a, j)'
    BY <1>1 DEF AnswererIsFree
  <2>1. ends[i] = <<a, b>> /\ pc'[b][i] \in {"answering", "answered"}
    BY <1>1 DEF BeingAccepted
  <2>2. CASE b = p /\ i = k /\ pc[p][k] = "none"
    <3>1. links[p][ends[k][1]] = None
      BY <2>2, <1>3
    <3>2. ends[k][1] = a
      BY <2>1, <2>2
    <3>3. QED
      BY <2>2, <3>1, <3>2, AttemptAssumption
  <2>3. CASE ~(b = p /\ i = k /\ pc[p][k] = "none")
    <3>1. BeingAccepted(a, b, i)
      BY <1>2, <2>1, <2>3 DEF BeingAccepted
    <3>2. Unaccepted(b, a, j)
      BY <3>1 DEF TransportInv, AnswererIsFree
    <3>3. ends'[j] = <<b, a>> /\ pc[a][j] = "none" /\ pc[b][j] \in {"gathering", "offered", "crossed"}
      BY <1>1, <3>2 DEF Unaccepted
    <3>4. pc'[a][j] = "none"
      <4> SUFFICES ASSUME a = p /\ j = k PROVE FALSE
        BY <1>2, <3>3
      <4>1. links[a][b] = None
        BY <1>1, <3>3
      <4>2. QED
        BY <4>1, AttemptAssumption
    <3>5. pc'[b][j] \in {"gathering", "offered", "crossed"}
      <4>1. CASE ~(b = p /\ j = k)
        BY <1>2, <3>3, <4>1
      <4>2. CASE b = p /\ j = k
        <5>1. ends[k] = <<b, a>>
          BY <1>1, <3>3, <4>2
        <5>2. ~Accepted(k)
          BY <3>3, <4>2, <5>1 DEF Accepted
        <5>3. QED
          BY <1>2, <3>3, <4>2, <5>2
      <4>3. QED
        BY <4>1, <4>2
    <3>6. QED
      BY <3>3, <3>4, <3>5 DEF Unaccepted
  <2>4. QED
    BY <2>2, <2>3
<1>13. QED
  BY <1>5, <1>6, <1>7, <1>8, <1>9, <1>10, <1>11, <1>12 DEF TransportInv

\* ondatachannel.
LEMMA OnDataChannelStep ==
  ASSUME TransportInv, NEW p \in Peer, NEW k \in Attempt, OnDataChannel(p, k)
  PROVE  TransportInv' /\ Kept
<1> DEFINE o == ends[k][1]
<1>1. /\ pc[p][k] = "answered" /\ UNCHANGED <<ends, openPeers, lateClose>>
      /\ pc' = [pc EXCEPT ![p][k] = "wired"]
  BY DEF OnDataChannel
<1>2. ends[k] # <<>> /\ p = ends[k][2] /\ ends[k] = <<o, p>>
      /\ o \in Peer /\ o # p /\ Other(k, p) = o /\ Other(k, o) = p
  BY <1>1, TwoEnds DEF TransportInv, EndsHold
<1> HIDE DEF o
<1>3. pc[o][k] \in {"complete", "open"} /\ links' = [links EXCEPT ![p][o] = k]
  BY <1>2 DEF OnDataChannel
<1>4. links[o][p] = k
  BY <1>2, <1>3 DEF TransportInv, ConnectedIsLinked
<1>5. BeingAccepted(o, p, k)
  BY <1>1, <1>2 DEF BeingAccepted
<1>6. ASSUME NEW j \in Attempt, links[p][o] = j PROVE Unaccepted(p, o, j)
  BY <1>2, <1>4, <1>5, <1>6 DEF TransportInv, AnswererIsFree
<1>7. ASSUME NEW a \in Peer, NEW j \in Attempt
      PROVE  pc'[a][j] = IF a = p /\ j = k THEN "wired" ELSE pc[a][j]
  BY <1>1 DEF TransportInv, TransportTyped
<1>8. ASSUME NEW a \in Peer, NEW b \in Peer
      PROVE  links'[a][b] = IF a = p /\ b = o THEN k ELSE links[a][b]
  BY <1>2, <1>3 DEF TransportInv, TransportTyped
<1>9. ASSUME NEW a \in Peer, NEW j \in Attempt
      PROVE  Other(j, a)' = Other(j, a)
  BY <1>1 DEF Other
<1>10. Kept
  BY <1>1, <1>7 DEF Kept
<1>11. TransportTyped'
  BY <1>1, <1>2, <1>3 DEF TransportInv, TransportTyped, PcState
<1>12. EndsHold'
  <2>1. ASSUME NEW j \in Attempt, ends'[j] # <<>> PROVE ends'[j][1] # ends'[j][2]
    BY <1>1, <2>1 DEF TransportInv, EndsHold
  <2>2. ASSUME NEW a \in Peer, NEW j \in Attempt, pc'[a][j] # "none"
        PROVE  /\ ends'[j] # <<>>
               /\ \/ a = ends'[j][1] /\ pc'[a][j] \notin {"answering", "answered", "wired"}
                  \/ /\ a = ends'[j][2]
                     /\ pc'[a][j] \in {"answering", "answered", "wired", "open", "closed"}
    <3>1. CASE a = p /\ j = k
      BY <1>1, <1>2, <1>7, <3>1
    <3>2. CASE ~(a = p /\ j = k)
      BY <1>1, <1>7, <2>2, <3>2 DEF TransportInv, EndsHold
    <3>3. QED
      BY <3>1, <3>2
  <2>3. QED
    BY <2>1, <2>2 DEF EndsHold
<1>13. TableTrue'
  <2> SUFFICES ASSUME NEW a \in Peer, NEW b \in Peer, links'[a][b] # None
               PROVE  /\ ends[links'[a][b]] \in {<<a, b>>, <<b, a>>}
                      /\ pc'[a][links'[a][b]] \notin {"none", "answering", "answered", "closed"}
    BY <1>1 DEF TableTrue
  <2>1. CASE a = p /\ b = o
    BY <1>2, <1>7, <1>8, <2>1
  <2>2. CASE ~(a = p /\ b = o)
    <3>1. /\ links'[a][b] = links[a][b] /\ links[a][b] \in Attempt
          /\ ends[links[a][b]] \in {<<a, b>>, <<b, a>>}
          /\ pc[a][links[a][b]] \notin {"none", "answering", "answered", "closed"}
      BY <1>8, <2>2 DEF TransportInv, TransportTyped, TableTrue
    <3>2. QED
      BY <1>7, <3>1
  <2>3. QED
    BY <2>1, <2>2
<1>14. LateCloseTrue'
  BY <1>1, <1>7 DEF TransportInv, TransportTyped, LateCloseTrue
<1>15. OpenPeersAreLinked'
  <2> SUFFICES ASSUME NEW a \in Peer, NEW b \in Peer, b \in openPeers[a]
               PROVE  links'[a][b] # None /\ pc'[a][links'[a][b]] = "open"
    BY <1>1 DEF OpenPeersAreLinked
  <2>1. links[a][b] # None /\ pc[a][links[a][b]] = "open" /\ links[a][b] \in Attempt
    BY DEF TransportInv, TransportTyped, OpenPeersAreLinked
  <2>2. ~(a = p /\ b = o)
    BY <1>6, <2>1 DEF Unaccepted
  <2>3. QED
    BY <1>1, <1>7, <1>8, <2>1, <2>2
<1>16. ConnectedIsLinked'
  <2> SUFFICES ASSUME NEW a \in Peer, NEW j \in Attempt, pc'[a][j] \in {"complete", "wired", "open"}
               PROVE  links'[a][Other(j, a)] = j
    BY <1>9 DEF ConnectedIsLinked
  <2>1. CASE a = p /\ j = k
    BY <1>2, <1>8, <2>1
  <2>2. CASE ~(a = p /\ j = k)
    <3>1. pc[a][j] \in {"complete", "wired", "open"} /\ links[a][Other(j, a)] = j
      BY <1>7, <2>2 DEF TransportInv, ConnectedIsLinked
    <3>2. Other(j, a) \in Peer
      BY <3>1, TwoEnds DEF Other, TransportInv, EndsHold
    <3>3. ~(a = p /\ Other(j, a) = o)
      BY <1>6, <3>1 DEF Unaccepted
    <3>4. QED
      BY <1>8, <3>1, <3>2, <3>3
  <2>3. QED
    BY <2>1, <2>2
<1>17. AnswererIsFree'
  <2> SUFFICES ASSUME NEW a \in Peer, NEW b \in Peer, NEW i \in Attempt, NEW j \in Attempt,
                      links'[a][b] = i, BeingAccepted(a, b, i)', links'[b][a] = j
               PROVE  Unaccepted(b, a, j)'
    BY DEF AnswererIsFree
  <2>1. BeingAccepted(a, b, i) /\ ~(b = p /\ i = k)
    BY <1>1, <1>7 DEF BeingAccepted
  <2>2. ~(a = p /\ b = o)
    \* The offer in p's table would be k, which p has not made.
    BY <1>2, <1>8, <2>1 DEF BeingAccepted
  <2>3. links[a][b] = i
    BY <1>8, <2>2
  <2>4. ~(b = p /\ a = o)
    BY <1>4, <2>1, <2>3
  <2>5. links[b][a] = j
    BY <1>8, <2>4
  <2>6. Unaccepted(b, a, j)
    BY <2>1, <2>3, <2>5 DEF TransportInv, AnswererIsFree
  <2>7. QED
    BY <1>1, <1>7, <2>6 DEF Unaccepted
<1>18. QED
  BY <1>10, <1>11, <1>12, <1>13, <1>14, <1>15, <1>16, <1>17 DEF TransportInv

\* onopen.
LEMMA OnOpenStep ==
  ASSUME TransportInv, NEW p \in Peer, NEW k \in Attempt, OnOpen(p, k)
  PROVE  TransportInv' /\ Kept
<1> DEFINE o == Other(k, p)
<1>1. /\ pc[p][k] \in {"complete", "wired"} /\ UNCHANGED <<ends, links, lateClose>>
      /\ pc' = [pc EXCEPT ![p][k] = "open"]
      /\ openPeers' = [openPeers EXCEPT ![p] = @ \cup {o}]
  BY DEF OnOpen
<1>2. ends[k] # <<>> /\ o \in Peer /\ p \in {ends[k][1], ends[k][2]}
      /\ o \in {ends[k][1], ends[k][2]} /\ links[p][o] = k
  BY <1>1, TwoEnds DEF Other, TransportInv, EndsHold, ConnectedIsLinked
<1> HIDE DEF o
<1>3. ASSUME NEW a \in Peer, NEW j \in Attempt
      PROVE  pc'[a][j] = IF a = p /\ j = k THEN "open" ELSE pc[a][j]
  BY <1>1 DEF TransportInv, TransportTyped
<1>4. ASSUME NEW a \in Peer, NEW b \in Peer, b \in openPeers'[a]
      PROVE  b \in openPeers[a] \/ (a = p /\ b = o)
  BY <1>1, <1>4 DEF TransportInv, TransportTyped
<1>5. Kept
  BY <1>1, <1>3 DEF Kept
<1>6. TransportTyped'
  BY <1>1, <1>2 DEF TransportInv, TransportTyped, PcState
<1>7. EndsHold'
  <2>1. ASSUME NEW j \in Attempt, ends'[j] # <<>> PROVE ends'[j][1] # ends'[j][2]
    BY <1>1, <2>1 DEF TransportInv, EndsHold
  <2>2. ASSUME NEW a \in Peer, NEW j \in Attempt, pc'[a][j] # "none"
        PROVE  /\ ends'[j] # <<>>
               /\ \/ a = ends'[j][1] /\ pc'[a][j] \notin {"answering", "answered", "wired"}
                  \/ /\ a = ends'[j][2]
                     /\ pc'[a][j] \in {"answering", "answered", "wired", "open", "closed"}
    <3>1. CASE a = p /\ j = k
      BY <1>1, <1>2, <1>3, <3>1
    <3>2. CASE ~(a = p /\ j = k)
      BY <1>1, <1>3, <2>2, <3>2 DEF TransportInv, EndsHold
    <3>3. QED
      BY <3>1, <3>2
  <2>3. QED
    BY <2>1, <2>2 DEF EndsHold
<1>8. TableTrue'
  <2> SUFFICES ASSUME NEW a \in Peer, NEW b \in Peer, links[a][b] # None
               PROVE  /\ ends[links[a][b]] \in {<<a, b>>, <<b, a>>}
                      /\ pc'[a][links[a][b]] \notin {"none", "answering", "answered", "closed"}
    BY <1>1 DEF TableTrue
  <2>1. /\ ends[links[a][b]] \in {<<a, b>>, <<b, a>>} /\ links[a][b] \in Attempt
        /\ pc[a][links[a][b]] \notin {"none", "answering", "answered", "closed"}
    BY DEF TransportInv, TransportTyped, TableTrue
  <2>2. QED
    BY <1>3, <2>1
<1>9. LateCloseTrue'
  BY <1>1, <1>3 DEF TransportInv, TransportTyped, LateCloseTrue
<1>10. OpenPeersAreLinked'
  <2> SUFFICES ASSUME NEW a \in Peer, NEW b \in Peer, b \in openPeers'[a]
               PROVE  links[a][b] # None /\ pc'[a][links[a][b]] = "open"
    BY <1>1 DEF OpenPeersAreLinked
  <2>1. CASE b \in openPeers[a]
    <3>1. links[a][b] # None /\ pc[a][links[a][b]] = "open" /\ links[a][b] \in Attempt
      BY <2>1 DEF TransportInv, TransportTyped, OpenPeersAreLinked
    <3>2. QED
      BY <1>3, <3>1
  <2>2. CASE a = p /\ b = o
    BY <1>2, <1>3, <2>2, AttemptAssumption
  <2>3. QED
    BY <1>4, <2>1, <2>2
<1>11. ConnectedIsLinked'
  BY <1>1, <1>3 DEF TransportInv, ConnectedIsLinked, Other
<1>12. AnswererIsFree'
  <2> SUFFICES ASSUME NEW a \in Peer, NEW b \in Peer, NEW i \in Attempt, NEW j \in Attempt,
                      links[a][b] = i, BeingAccepted(a, b, i)', links[b][a] = j
               PROVE  Unaccepted(b, a, j)'
    BY <1>1 DEF AnswererIsFree
  <2>1. BeingAccepted(a, b, i)
    BY <1>1, <1>3 DEF BeingAccepted
  <2>2. Unaccepted(b, a, j)
    BY <2>1 DEF TransportInv, AnswererIsFree
  <2>3. QED
    BY <1>1, <1>3, <2>2 DEF Unaccepted
<1>13. QED
  BY <1>5, <1>6, <1>7, <1>8, <1>9, <1>10, <1>11, <1>12 DEF TransportInv

\* Closing the links to the peers of Q, when the channels of gone have closed.
LEMMA CloseLinksStep ==
  ASSUME TransportInv, NEW p \in Peer, NEW Q \in SUBSET Peer, NEW gone \in SUBSET Attempt,
         \A k \in gone : /\ pc[p][k] \in {"complete", "wired", "open", "closed"}
                         /\ Other(k, p) \in Q,
         CloseLinks(p, Q, gone), UNCHANGED ends
  PROVE  TransportInv' /\ Kept
<1> DEFINE linked  == {q \in Q : links[p][q] # None}
           closing == {links[p][q] : q \in linked}
           ended   == closing \cup gone
<1>1. /\ links' = [links EXCEPT ![p] = [q \in Peer |-> IF q \in linked THEN None ELSE @[q]]]
      /\ openPeers' = [openPeers EXCEPT ![p] = @ \ linked]
      /\ pc' = [pc EXCEPT ![p] = [k \in Attempt |-> IF k \in ended THEN "closed" ELSE @[k]]]
      /\ lateClose' = [lateClose EXCEPT ![p] = (@ \cup closing) \ gone]
  BY DEF CloseLinks
<1>2. ASSUME NEW a \in Peer, NEW b \in Peer
      PROVE  links'[a][b] = IF a = p /\ b \in Q THEN None ELSE links[a][b]
  BY <1>1 DEF TransportInv, TransportTyped
<1>3. ASSUME NEW a \in Peer, NEW j \in Attempt
      PROVE  pc'[a][j] = IF a = p /\ j \in ended THEN "closed" ELSE pc[a][j]
  BY <1>1 DEF TransportInv, TransportTyped
<1>4. ASSUME NEW a \in Peer
      PROVE  /\ openPeers'[a] \subseteq openPeers[a]
             /\ lateClose'[a] \subseteq lateClose[a] \cup (IF a = p THEN closing ELSE {})
             /\ a = p => openPeers'[a] \cap linked = {}
  BY <1>1 DEF TransportInv, TransportTyped
<1>5. linked \subseteq Peer /\ closing \subseteq Attempt
  BY DEF TransportInv, TransportTyped
<1>6. ASSUME NEW k \in ended
      PROVE  /\ k \in Attempt /\ Other(k, p) \in Q
             /\ pc[p][k] \notin {"none", "answering", "answered"}
  <2>1. CASE k \in gone
    BY <2>1
  <2>2. CASE k \in closing
    <3>1. PICK q \in linked : k = links[p][q]
      BY <2>2
    <3>2. Other(k, p) = q
      BY <1>5, <3>1, TableOther
    <3>3. pc[p][k] \notin {"none", "answering", "answered"}
      BY <1>5, <3>1 DEF TransportInv, TableTrue
    <3>4. QED
      BY <1>5, <2>2, <3>2, <3>3
  <2>3. QED
    BY <2>1, <2>2
<1>7. ASSUME NEW b \in Peer, links[p][b] # None, b \notin Q
      PROVE  links[p][b] \notin ended
  BY <1>6, <1>7, TableOther
<1>8. \A b \in Q : links[p][b] # None => links[p][b] \in ended
  OBVIOUS
<1> HIDE DEF ended
<1>9. ASSUME NEW a \in Peer, NEW j \in Attempt
      PROVE  Other(j, a)' = Other(j, a)
  BY DEF Other
<1>10. Kept
  BY <1>3 DEF Kept
<1>11. TransportTyped'
  <2>1. links' \in [Peer -> [Peer -> Attempt \cup {None}]]
    BY <1>1 DEF TransportInv, TransportTyped
  <2>2. pc' \in [Peer -> [Attempt -> PcState]]
    BY <1>1 DEF TransportInv, TransportTyped, PcState
  <2>3. openPeers' \in [Peer -> SUBSET Peer] /\ lateClose' \in [Peer -> SUBSET Attempt]
    BY <1>1, <1>5 DEF TransportInv, TransportTyped
  <2>4. QED
    BY <2>1, <2>2, <2>3 DEF TransportInv, TransportTyped
<1>12. EndsHold'
  <2>1. ASSUME NEW j \in Attempt, ends'[j] # <<>> PROVE ends'[j][1] # ends'[j][2]
    BY <2>1 DEF TransportInv, EndsHold
  <2>2. ASSUME NEW a \in Peer, NEW j \in Attempt, pc'[a][j] # "none"
        PROVE  /\ ends'[j] # <<>>
               /\ \/ a = ends'[j][1] /\ pc'[a][j] \notin {"answering", "answered", "wired"}
                  \/ /\ a = ends'[j][2]
                     /\ pc'[a][j] \in {"answering", "answered", "wired", "open", "closed"}
    <3>1. CASE a = p /\ j \in ended
      BY <1>3, <1>6, <3>1 DEF TransportInv, EndsHold
    <3>2. CASE ~(a = p /\ j \in ended)
      BY <1>3, <2>2, <3>2 DEF TransportInv, EndsHold
    <3>3. QED
      BY <3>1, <3>2
  <2>3. QED
    BY <2>1, <2>2 DEF EndsHold
<1>13. TableTrue'
  <2> SUFFICES ASSUME NEW a \in Peer, NEW b \in Peer, links'[a][b] # None
               PROVE  /\ ends[links'[a][b]] \in {<<a, b>>, <<b, a>>}
                      /\ pc'[a][links'[a][b]] \notin {"none", "answering", "answered", "closed"}
    BY DEF TableTrue
  <2>1. /\ links'[a][b] = links[a][b] /\ links[a][b] \in Attempt
        /\ ~(a = p /\ b \in Q)
        /\ ends[links[a][b]] \in {<<a, b>>, <<b, a>>}
        /\ pc[a][links[a][b]] \notin {"none", "answering", "answered", "closed"}
    BY <1>2 DEF TransportInv, TransportTyped, TableTrue
  <2>2. pc'[a][links[a][b]] = pc[a][links[a][b]]
    BY <1>2, <1>3, <1>7, <2>1
  <2>3. QED
    BY <2>1, <2>2
<1>14. LateCloseTrue'
  <2>1. closing \subseteq ended
    BY DEF ended
  <2>2. QED
    <3> SUFFICES ASSUME NEW a \in Peer, NEW k \in lateClose'[a] PROVE pc'[a][k] = "closed"
      BY DEF LateCloseTrue
    <3>1. CASE k \in lateClose[a]
      <4>1. k \in Attempt /\ pc[a][k] = "closed"
        BY <3>1 DEF TransportInv, TransportTyped, LateCloseTrue
      <4>2. QED
        BY <1>3, <4>1
    <3>2. CASE k \notin lateClose[a]
      <4>1. a = p /\ k \in closing
        BY <1>4, <3>2
      <4>2. k \in ended /\ k \in Attempt
        BY <1>5, <2>1, <4>1
      <4>3. QED
        BY <1>3, <4>1, <4>2
    <3>3. QED
      BY <3>1, <3>2
<1>15. OpenPeersAreLinked'
  <2> SUFFICES ASSUME NEW a \in Peer, NEW b \in Peer, b \in openPeers'[a]
               PROVE  links'[a][b] # None /\ pc'[a][links'[a][b]] = "open"
    BY DEF OpenPeersAreLinked
  <2>1. links[a][b] # None /\ pc[a][links[a][b]] = "open" /\ links[a][b] \in Attempt
    BY <1>4 DEF TransportInv, TransportTyped, OpenPeersAreLinked
  <2>2. ~(a = p /\ b \in Q)
    BY <1>4, <2>1
  <2>3. QED
    BY <1>2, <1>3, <1>7, <2>1, <2>2
<1>16. ConnectedIsLinked'
  <2> SUFFICES ASSUME NEW a \in Peer, NEW j \in Attempt, pc'[a][j] \in {"complete", "wired", "open"}
               PROVE  links'[a][Other(j, a)] = j
    BY <1>9 DEF ConnectedIsLinked
  <2>1. /\ ~(a = p /\ j \in ended) /\ pc[a][j] \in {"complete", "wired", "open"}
        /\ links[a][Other(j, a)] = j
    BY <1>3 DEF TransportInv, ConnectedIsLinked
  <2>2. Other(j, a) \in Peer
    BY <2>1, TwoEnds DEF Other, TransportInv, EndsHold
  <2>3. ~(a = p /\ Other(j, a) \in Q)
    BY <1>8, <2>1, AttemptAssumption
  <2>4. QED
    BY <1>2, <2>1, <2>2, <2>3
<1>17. AnswererIsFree'
  <2> SUFFICES ASSUME NEW a \in Peer, NEW b \in Peer, NEW i \in Attempt, NEW j \in Attempt,
                      links'[a][b] = i, BeingAccepted(a, b, i)', links'[b][a] = j
               PROVE  Unaccepted(b, a, j)'
    BY DEF AnswererIsFree
  <2>1. links[a][b] = i /\ links[b][a] = j /\ ~(b = p /\ a \in Q)
    BY <1>2, AttemptAssumption
  <2>2. BeingAccepted(a, b, i)
    BY <1>3 DEF BeingAccepted
  <2>3. Unaccepted(b, a, j)
    BY <2>1, <2>2 DEF TransportInv, AnswererIsFree
  <2>4. pc'[a][j] = pc[a][j]
    BY <1>3, <1>6, <2>3 DEF Unaccepted
  <2>5. pc'[b][j] = pc[b][j]
    BY <1>3, <1>7, <2>1, AttemptAssumption
  <2>6. QED
    BY <2>3, <2>4, <2>5 DEF Unaccepted
<1>18. QED
  BY <1>10, <1>11, <1>12, <1>13, <1>14, <1>15, <1>16, <1>17 DEF TransportInv

\* The range of a pair.
LEMMA PairRange ==
  ASSUME NEW S, NEW e \in S \X S
  PROVE  Range(e) = {e[1], e[2]}
<1>1. DOMAIN e = {1, 2}
  <2>1. PICK a, b \in S : e = <<a, b>>
    OBVIOUS
  <2>2. QED
    BY <2>1
<1>2. QED
  BY <1>1 DEF Range

\* At first a pair of peers has one connection or none.
LEMMA TransportInitInv ==
  ASSUME TransportInit
  PROVE  TransportInv
<1> DEFINE between(p, q) == {k \in DOMAIN Established : p # q /\ Range(Established[k]) = {p, q}}
<1>1. ASSUME NEW k \in DOMAIN Established
      PROVE  /\ k \in Attempt /\ ends[k] = Established[k]
             /\ Established[k] \in Peer \X Peer /\ Established[k] # <<>>
             /\ Established[k][1] # Established[k][2]
             /\ Range(Established[k]) = {Established[k][1], Established[k][2]}
  BY AttemptAssumption, PairRange DEF TransportInit
<1>2. ASSUME NEW k \in Attempt, k \notin DOMAIN Established
      PROVE  ends[k] = <<>> /\ \A p \in Peer : pc[p][k] = "none"
  BY <1>2 DEF TransportInit
<1>3. ASSUME NEW p \in Peer, NEW k \in DOMAIN Established
      PROVE  pc[p][k] = IF p \in Range(Established[k]) THEN "open" ELSE "none"
  BY AttemptAssumption DEF TransportInit
<1>4. ASSUME NEW p \in Peer, NEW q \in Peer
      PROVE  links[p][q] = IF between(p, q) = {} THEN None ELSE CHOOSE k \in between(p, q) : TRUE
  BY DEF TransportInit
<1>5. ASSUME NEW p \in Peer, NEW q \in Peer, links[p][q] # None
      PROVE  links[p][q] \in between(p, q)
  <2>1. between(p, q) # {}
    BY <1>4, <1>5
  <2>2. (CHOOSE j \in between(p, q) : TRUE) \in between(p, q)
    BY <2>1
  <2>3. QED
    BY <1>4, <2>1, <2>2
<1>6. ASSUME NEW p \in Peer, NEW q \in Peer, NEW k \in between(p, q)
      PROVE  links[p][q] = k
  <2>1. (CHOOSE j \in between(p, q) : TRUE) \in between(p, q)
    OBVIOUS
  <2>2. QED
    BY <1>4, <2>1, AttemptAssumption
<1>7. ASSUME NEW p \in Peer, NEW q \in Peer
      PROVE  q \in openPeers[p] <=> links[p][q] # None
  BY DEF TransportInit
<1>8. ASSUME NEW p \in Peer, NEW q \in Peer, links[p][q] # None
      PROVE  /\ links[p][q] \in DOMAIN Established
             /\ pc[p][links[p][q]] = "open"
             /\ ends[links[p][q]] \in {<<p, q>>, <<q, p>>}
  <2> DEFINE k == links[p][q]
  <2>1. k \in DOMAIN Established /\ p # q /\ Range(Established[k]) = {p, q}
    BY <1>5, <1>8
  <2> HIDE DEF k
  <2>2. pc[p][k] = "open"
    BY <1>3, <2>1
  <2>3. \/ Established[k][1] = p /\ Established[k][2] = q
        \/ Established[k][1] = q /\ Established[k][2] = p
    BY <1>1, <2>1
  <2>4. Established[k] = <<Established[k][1], Established[k][2]>>
    BY <1>1, <2>1
  <2>5. QED
    BY <1>1, <2>1, <2>2, <2>3, <2>4 DEF k
<1> HIDE DEF between
<1>9. TransportTyped
  <2>1. ends \in [Attempt -> {<<>>} \cup (Peer \X Peer)]
    BY <1>1, <1>2 DEF TransportInit
  <2>2. pc \in [Peer -> [Attempt -> PcState]]
    BY DEF TransportInit, PcState
  <2>3. links \in [Peer -> [Peer -> Attempt \cup {None}]]
    <3> DEFINE first(p, q) ==
                 IF between(p, q) = {} THEN None ELSE CHOOSE k \in between(p, q) : TRUE
    <3>1. links = [p \in Peer |-> [q \in Peer |-> first(p, q)]]
      BY DEF TransportInit, between
    <3>2. \A p, q \in Peer : first(p, q) \in Attempt \cup {None}
      BY <1>1, <1>4, <1>8
    <3> HIDE DEF first
    <3>3. QED
      BY <3>1, <3>2
  <2>4. openPeers \in [Peer -> SUBSET Peer] /\ lateClose \in [Peer -> SUBSET Attempt]
    BY DEF TransportInit
  <2>5. QED
    BY <2>1, <2>2, <2>3, <2>4 DEF TransportTyped
<1>10. EndsHold
  <2>1. ASSUME NEW k \in Attempt, ends[k] # <<>> PROVE ends[k][1] # ends[k][2]
    BY <1>1, <1>2, <2>1
  <2>2. ASSUME NEW p \in Peer, NEW k \in Attempt, pc[p][k] # "none"
        PROVE  /\ ends[k] # <<>> /\ pc[p][k] = "open"
               /\ p = ends[k][1] \/ p = ends[k][2]
    BY <1>1, <1>2, <1>3, <2>2
  <2>3. QED
    BY <2>1, <2>2 DEF EndsHold
<1>11. TableTrue
  BY <1>8 DEF TableTrue
<1>12. LateCloseTrue
  BY DEF TransportInit, LateCloseTrue
<1>13. OpenPeersAreLinked
  BY <1>7, <1>8 DEF OpenPeersAreLinked
<1>14. ConnectedIsLinked
  <2> SUFFICES ASSUME NEW p \in Peer, NEW k \in Attempt, pc[p][k] \in {"complete", "wired", "open"}
               PROVE  links[p][Other(k, p)] = k
    BY DEF ConnectedIsLinked
  <2>1. k \in DOMAIN Established /\ p \in Range(Established[k])
    BY <1>2, <1>3
  <2>2. /\ Other(k, p) \in Peer /\ Other(k, p) # p
        /\ Range(Established[k]) = {p, Other(k, p)}
    BY <1>1, <2>1 DEF Other
  <2>3. k \in between(p, Other(k, p))
    BY <2>1, <2>2 DEF between
  <2>4. QED
    BY <1>6, <2>2, <2>3
<1>15. AnswererIsFree
  BY <1>2, <1>3 DEF AnswererIsFree, BeingAccepted
<1>16. QED
  BY <1>9, <1>10, <1>11, <1>12, <1>13, <1>14, <1>15 DEF TransportInv
-----------------------------------------------------------------------------
(* The messages in transit.                                                *)

Wires == [Peer -> [Attempt -> Seq(Message)]]

\* w has no message that v has not, in the same order: at each end some of the
\* oldest is gone, or everything.
Dropped(w, v) ==
  \A q \in Peer, k \in Attempt : \E d \in {0, 1} : \A i \in DOMAIN w[q][k] :
    i + d \in DOMAIN v[q][k] /\ w[q][k][i] = v[q][k][i + d]

IsRequest(m, s) == m.type = "REQUEST" /\ m.session = s

\* The request of a session is in transit once at most.
OneRequest(w) ==
  \A s \in Session, p, q \in Peer, j, k \in Attempt :
    \A i \in DOMAIN w[p][j], n \in DOMAIN w[q][k] :
      IsRequest(w[p][j][i], s) /\ IsRequest(w[q][k][n], s) => p = q /\ j = k /\ i = n

NoRequest(w, s) ==
  \A q \in Peer, k \in Attempt : \A i \in DOMAIN w[q][k] : ~IsRequest(w[q][k][i], s)

\* Nothing is dropped from what stays the same.
LEMMA Unchanged ==
  ASSUME NEW w \in Wires
  PROVE  Dropped(w, w)
<1> SUFFICES ASSUME NEW q \in Peer, NEW k \in Attempt
             PROVE  \E d \in {0, 1} : \A i \in DOMAIN w[q][k] :
                      i + d \in DOMAIN w[q][k] /\ w[q][k][i] = w[q][k][i + d]
  BY DEF Dropped
<1>1. \A i \in DOMAIN w[q][k] : i + 0 = i
  BY DEF Wires
<1>2. QED
  BY <1>1

\* Taking the head of a channel drops one message.
LEMMA TakenWire ==
  ASSUME wire \in Wires, NEW p \in Peer, NEW k \in Attempt, wire[p][k] # <<>>
  PROVE  /\ Taken(p, k) \in Wires /\ Dropped(Taken(p, k), wire)
         /\ Head(wire[p][k]) \in Message /\ 1 \in DOMAIN wire[p][k]
         /\ Head(wire[p][k]) = wire[p][k][1]
<1> DEFINE t == Taken(p, k)
<1>1. /\ wire[p][k] \in Seq(Message) /\ Tail(wire[p][k]) \in Seq(Message)
      /\ Head(wire[p][k]) \in Message /\ 1 \in DOMAIN wire[p][k]
      /\ Head(wire[p][k]) = wire[p][k][1]
  BY DEF Wires
<1>2. ASSUME NEW q \in Peer, NEW j \in Attempt
      PROVE  t[q][j] = IF q = p /\ j = k THEN Tail(wire[p][k]) ELSE wire[q][j]
  BY DEF Taken, Wires
<1>3. t \in Wires
  BY <1>1 DEF Taken, Wires
<1> HIDE DEF t
<1>4. ASSUME NEW q \in Peer, NEW j \in Attempt
      PROVE  \E d \in {0, 1} : \A i \in DOMAIN t[q][j] :
               i + d \in DOMAIN wire[q][j] /\ t[q][j][i] = wire[q][j][i + d]
  <2>1. CASE q = p /\ j = k
    <3>1. \A i \in DOMAIN Tail(wire[p][k]) :
            i + 1 \in DOMAIN wire[p][k] /\ Tail(wire[p][k])[i] = wire[p][k][i + 1]
      BY <1>1
    <3>2. QED
      BY <1>2, <2>1, <3>1
  <2>2. CASE ~(q = p /\ j = k)
    BY <1>2, <2>2, Unchanged DEF Dropped
  <2>3. QED
    BY <2>1, <2>2
<1>5. Dropped(t, wire)
  BY <1>4 DEF Dropped
<1>6. QED
  BY <1>1, <1>3, <1>5 DEF t

\* Closing a link drops what is in transit on it.
LEMMA ClosedWire ==
  ASSUME wire \in Wires, NEW p \in Peer, NEW Q, NEW gone, CloseLinks(p, Q, gone)
  PROVE  wire' \in Wires /\ Dropped(wire', wire)
<1>1. PICK E : wire' = [wire EXCEPT ![p] = [k \in Attempt |-> IF k \in E THEN <<>> ELSE @[k]]]
  <2> DEFINE E == {links[p][q] : q \in {r \in Q : links[p][r] # None}} \cup gone
  <2>1. wire' = [wire EXCEPT ![p] = [k \in Attempt |-> IF k \in E THEN <<>> ELSE @[k]]]
    BY DEF CloseLinks
  <2>2. QED
    BY <2>1
<1>2. <<>> \in Seq(Message) /\ DOMAIN <<>> = {}
  OBVIOUS
<1>3. ASSUME NEW q \in Peer, NEW k \in Attempt
      PROVE  wire'[q][k] = IF q = p /\ k \in E THEN <<>> ELSE wire[q][k]
  BY <1>1 DEF Wires
<1>4. wire' \in Wires
  BY <1>1, <1>2 DEF Wires
<1>5. Dropped(wire', wire)
  <2> SUFFICES ASSUME NEW q \in Peer, NEW k \in Attempt
               PROVE  \E d \in {0, 1} : \A i \in DOMAIN wire'[q][k] :
                        i + d \in DOMAIN wire[q][k] /\ wire'[q][k][i] = wire[q][k][i + d]
    BY DEF Dropped
  <2>1. CASE q = p /\ k \in E
    BY <1>2, <1>3, <2>1
  <2>2. CASE ~(q = p /\ k \in E)
    BY <1>3, <2>2, Unchanged DEF Dropped
  <2>3. QED
    BY <2>1, <2>2
<1>6. QED
  BY <1>4, <1>5

\* A message is sent to the end of one channel, or not at all.
LEMMA SentWire ==
  ASSUME TransportTyped, NEW w \in Wires, NEW p \in Peer, NEW q \in Peer, NEW m \in Message
  PROVE  LET sent == Sent(w, p, q, m)
             k == links[p][q]
         IN  /\ sent \in Wires
             /\ \A a \in Peer, j \in Attempt :
                  \/ sent[a][j] = w[a][j]
                  \/ k # None /\ a = q /\ j = k /\ sent[a][j] = Append(w[a][j], m)
<1> DEFINE sent == Sent(w, p, q, m)
           k == links[p][q]
<1>1. k \in Attempt \cup {None}
  BY DEF TransportTyped
<1>2. CASE sent = w
  BY <1>2
<1>3. CASE k # None /\ sent = [w EXCEPT ![q][k] = Append(@, m)]
  <2>1. w[q][k] \in Seq(Message) /\ Append(w[q][k], m) \in Seq(Message)
    BY <1>1, <1>3 DEF Wires
  <2> DEFINE l == Append(w[q][k], m)
  <2>2. sent = [w EXCEPT ![q][k] = l]
    BY <1>3
  <2>3. l \in Seq(Message)
    BY <2>1
  <2> HIDE DEF l, sent, k
  <2>4. sent \in Wires
    BY <1>1, <1>3, <2>2, <2>3 DEF Wires
  <2>5. ASSUME NEW a \in Peer, NEW j \in Attempt
        PROVE  sent[a][j] = IF a = q /\ j = k THEN l ELSE w[a][j]
    <3>1. w \in [Peer -> [Attempt -> Seq(Message)]]
      BY DEF Wires
    <3>2. CASE a = q
      <4>1. sent[q] = [w[q] EXCEPT ![k] = l]
        BY <2>2, <3>1
      <4>2. w[q] \in [Attempt -> Seq(Message)]
        BY <3>1
      <4>3. QED
        BY <3>2, <4>1, <4>2
    <3>3. CASE a # q
      BY <2>2, <3>1, <3>3
    <3>4. QED
      BY <3>2, <3>3
  <2>6. QED
    BY <1>3, <2>4, <2>5 DEF l, sent, k
<1>4. QED
  BY <1>2, <1>3 DEF Sent

\* At each place of w with m sent there is a message of w, or m.
LEMMA SentAt ==
  ASSUME TransportTyped, NEW w \in Wires, NEW p \in Peer, NEW q \in Peer, NEW m \in Message,
         NEW a \in Peer, NEW j \in Attempt, NEW i \in DOMAIN Sent(w, p, q, m)[a][j]
  PROVE  \/ i \in DOMAIN w[a][j] /\ Sent(w, p, q, m)[a][j][i] = w[a][j][i]
         \/ /\ links[p][q] # None /\ a = q /\ j = links[p][q]
            /\ i = Len(w[a][j]) + 1 /\ Sent(w, p, q, m)[a][j][i] = m
<1> DEFINE sent == Sent(w, p, q, m)
           k == links[p][q]
<1>1. \/ sent[a][j] = w[a][j]
      \/ k # None /\ a = q /\ j = k /\ sent[a][j] = Append(w[a][j], m)
  BY SentWire
<1>2. w[a][j] \in Seq(Message)
  BY DEF Wires
<1>3. i \in DOMAIN sent[a][j]
  OBVIOUS
<1> HIDE DEF sent, k
<1>4. CASE sent[a][j] = w[a][j]
  BY <1>3, <1>4 DEF sent
<1>5. CASE k # None /\ a = q /\ j = k /\ sent[a][j] = Append(w[a][j], m)
  <2>1. i \in 1..(Len(w[a][j]) + 1)
    BY <1>2, <1>3, <1>5
  <2>2. CASE i = Len(w[a][j]) + 1
    <3>1. Append(w[a][j], m)[Len(w[a][j]) + 1] = m
      BY <1>2
    <3>2. sent[a][j][i] = m
      BY <1>5, <2>2, <3>1
    <3>3. QED
      BY <1>5, <2>2, <3>2 DEF sent, k
  <2>3. CASE i \in 1..Len(w[a][j])
    BY <1>2, <1>5, <2>3 DEF sent
  <2>4. QED
    BY <1>2, <2>1, <2>2, <2>3
<1>6. QED
  BY <1>1, <1>4, <1>5

\* Dropping messages adds no request.
LEMMA DroppedRequests ==
  ASSUME NEW v \in Wires, NEW w \in Wires, Dropped(w, v)
  PROVE  /\ OneRequest(v) => OneRequest(w)
         /\ \A s \in Session : NoRequest(v, s) => NoRequest(w, s)
<1>1. ASSUME OneRequest(v) PROVE OneRequest(w)
  <2> SUFFICES ASSUME NEW s \in Session, NEW p \in Peer, NEW q \in Peer,
                      NEW j \in Attempt, NEW k \in Attempt,
                      NEW i \in DOMAIN w[p][j], NEW n \in DOMAIN w[q][k],
                      IsRequest(w[p][j][i], s), IsRequest(w[q][k][n], s)
               PROVE  p = q /\ j = k /\ i = n
    BY DEF OneRequest
  <2>1. PICK d \in {0, 1} : \A x \in DOMAIN w[p][j] :
                              x + d \in DOMAIN v[p][j] /\ w[p][j][x] = v[p][j][x + d]
    BY DEF Dropped
  <2>2. PICK e \in {0, 1} : \A x \in DOMAIN w[q][k] :
                              x + e \in DOMAIN v[q][k] /\ w[q][k][x] = v[q][k][x + e]
    BY DEF Dropped
  <2>3. p = q /\ j = k /\ i + d = n + e
    BY <1>1, <2>1, <2>2 DEF OneRequest
  <2>4. i \in Nat /\ n \in Nat
    BY DEF Wires
  <2>5. CASE d = e
    BY <2>3, <2>4, <2>5
  <2>6. CASE d # e
    \* The places of one channel are all shifted alike.
    <3>1. /\ i + d \in DOMAIN v[p][j] /\ i + e \in DOMAIN v[p][j]
          /\ w[p][j][i] = v[p][j][i + d] /\ w[p][j][i] = v[p][j][i + e]
      BY <2>1, <2>2, <2>3
    <3>2. i + d = i + e
      <4>1. IsRequest(v[p][j][i + d], s) /\ IsRequest(v[p][j][i + e], s)
        BY <3>1
      <4>2. ASSUME NEW x \in DOMAIN v[p][j], NEW y \in DOMAIN v[p][j],
                   IsRequest(v[p][j][x], s), IsRequest(v[p][j][y], s)
            PROVE  x = y
        BY <1>1, <4>2 DEF OneRequest
      <4>3. QED
        BY <3>1, <4>1, <4>2
    <3>3. QED
      BY <2>4, <2>6, <3>2
  <2>7. QED
    BY <2>5, <2>6
<1>2. ASSUME NEW s \in Session, NoRequest(v, s) PROVE NoRequest(w, s)
  BY <1>2 DEF Dropped, NoRequest
<1>3. QED
  BY <1>1, <1>2

\* A message that is not a request leaves the requests as they are.
LEMMA SentRequests ==
  ASSUME TransportTyped, NEW w \in Wires, NEW p \in Peer, NEW q \in Peer, NEW m \in Message
  PROVE  LET sent == Sent(w, p, q, m) IN
         /\ OneRequest(w) /\ (m.type = "REQUEST" => NoRequest(w, m.session)) => OneRequest(sent)
         /\ \A s \in Session : NoRequest(w, s) /\ ~IsRequest(m, s) => NoRequest(sent, s)
<1> DEFINE sent == Sent(w, p, q, m)
<1>1. ASSUME NEW a \in Peer, NEW j \in Attempt, NEW i \in DOMAIN sent[a][j]
      PROVE  \/ i \in DOMAIN w[a][j] /\ sent[a][j][i] = w[a][j][i]
             \/ /\ a = q /\ j = links[p][q] /\ i = Len(w[a][j]) + 1 /\ sent[a][j][i] = m
  BY SentAt
<1> HIDE DEF sent
<1>2. ASSUME OneRequest(w), m.type = "REQUEST" => NoRequest(w, m.session)
      PROVE  OneRequest(sent)
  <2> SUFFICES ASSUME NEW s \in Session, NEW a \in Peer, NEW b \in Peer,
                      NEW j \in Attempt, NEW k \in Attempt,
                      NEW i \in DOMAIN sent[a][j], NEW n \in DOMAIN sent[b][k],
                      IsRequest(sent[a][j][i], s), IsRequest(sent[b][k][n], s)
               PROVE  a = b /\ j = k /\ i = n
    BY DEF OneRequest
  <2>1. \/ i \in DOMAIN w[a][j] /\ sent[a][j][i] = w[a][j][i]
        \/ /\ a = q /\ j = links[p][q] /\ i = Len(w[a][j]) + 1 /\ IsRequest(m, s)
    BY <1>1
  <2>2. \/ n \in DOMAIN w[b][k] /\ sent[b][k][n] = w[b][k][n]
        \/ /\ b = q /\ k = links[p][q] /\ n = Len(w[b][k]) + 1 /\ IsRequest(m, s)
    BY <1>1
  <2>3. CASE IsRequest(m, s)
    <3>1. NoRequest(w, s)
      BY <1>2, <2>3 DEF IsRequest
    <3>2. QED
      BY <2>1, <2>2, <3>1 DEF NoRequest
  <2>4. CASE ~IsRequest(m, s)
    BY <1>2, <2>1, <2>2, <2>4 DEF OneRequest
  <2>5. QED
    BY <2>3, <2>4
<1>3. ASSUME NEW s \in Session, NoRequest(w, s), ~IsRequest(m, s) PROVE NoRequest(sent, s)
  BY <1>1, <1>3 DEF NoRequest
<1>4. QED
  BY <1>2, <1>3 DEF sent
-----------------------------------------------------------------------------
(* The invariant of the sessions.  ch[s] is the peer that the mediator has *)
(* picked for s, None before.                                              *)

\* A request comes from its peer, before anybody is picked; an assignment tells
\* each of the two who the other is; a blob is relayed when it has been made.
MessageTrue(ch, q, k, m) ==
  /\ m.type = "REQUEST" =>
       /\ ch[m.session] = None /\ request[m.session] # "none"
       /\ ends[k] # <<>> /\ Other(k, q) = By[m.session]
  /\ m.type = "ASSIGN" =>
       /\ ch[m.session] # None
       /\ \/ q = By[m.session] /\ m.body = "offerer" /\ m.peer = ch[m.session]
          \/ q = ch[m.session] /\ m.body = "answerer" /\ m.peer = By[m.session]
  /\ m.type = "RELAY" =>
       /\ ends[m.session] # <<>> /\ m.body \in {"offer", "answer"}
       /\ m.body = "answer" => Accepted(m.session)

InTransit(w, q, k, m) == \E i \in DOMAIN w[q][k] : w[q][k][i] = m

MessagesTrue(ch) ==
  \A q \in Peer, k \in Attempt, m \in Message :
    InTransit(wire, q, k, m) => MessageTrue(ch, q, k, m)

\* The offer of a session is made by the peer that asked, to the one picked.
SessionTrue(ch, s) ==
  /\ ch[s] # By[s]
  /\ request[s] = "none" => ch[s] = None
  /\ assigning[s] \in {None, ch[s]}
  /\ ends[s] # <<>> => ch[s] # None /\ ends[s] = <<By[s], ch[s]>>

RoleTrue(ch, p, s) ==
  \/ roles[p][s] = NoRole
  \/ ch[s] # None /\ p = By[s] /\ roles[p][s] = [role |-> "offerer", peer |-> ch[s]]
  \/ ch[s] # None /\ p = ch[s] /\ roles[p][s] = [role |-> "answerer", peer |-> By[s]]

RolesTrue(ch) == \A p \in Peer, s \in Session : RoleTrue(ch, p, s)

AwaitingTrue ==
  \A p \in Peer, s \in Session : s \in awaiting[p] =>
    ends[s] # <<>> /\ (p # By[s] => pc[p][s] = "answering")

BufferedTrue ==
  \A p \in Peer, s \in Session : buffered[p][s] # "none" =>
    ends[s] # <<>> /\ (buffered[p][s] = "answer" => Accepted(s))

SessionInv(ch) ==
  /\ \A s \in Session : SessionTrue(ch, s)
  /\ RolesTrue(ch) /\ AwaitingTrue /\ BufferedTrue /\ MessagesTrue(ch)

Choice == [Session -> Peer \cup {None}]

IInv ==
  /\ TypeOK /\ TransportInv /\ OneRequest(wire)
  /\ \E ch \in Choice : SessionInv(ch)

RequestKept == \A s \in Session : request[s] # "none" => request'[s] # "none"

\* The offer of a session is the attempt of its name.
LEMMA SessionIsAttempt == Session \subseteq Attempt
BY SessionAssumption

\* At first no peer is picked for any session.
LEMMA InitIInv == Init => IInv
<1> SUFFICES ASSUME Init PROVE IInv
  OBVIOUS
<1>1. TransportInv
  BY TransportInitInv DEF Init
<1>2. \A q \in Peer, k \in Attempt : wire[q][k] = <<>>
  BY DEF Init, TransportInit
<1>3. TypeOK
  <2>1. wire \in [Peer -> [Attempt -> Seq(Message)]]
    BY DEF Init, TransportInit
  <2>2. leaves \in 0..MaxLeaves
    BY AttemptAssumption DEF Init, TransportInit
  <2>3. /\ request \in [Session -> {"none", "pending", "resolved", "rejected"}]
        /\ mediating \in [Session -> Peer \cup {None}]
        /\ assigning \in [Session -> Peer \cup {None}]
        /\ buffered \in [Peer -> [Session -> {"none", "offer", "answer"}]]
        /\ awaiting \in [Peer -> SUBSET Session]
        /\ listening \in [Peer -> BOOLEAN]
    BY DEF Init
  <2>4. roles \in [Peer -> [Session -> Role]]
    BY DEF Init, Role, NoRole
  <2>5. QED
    BY <1>1, <2>1, <2>2, <2>3, <2>4 DEF TypeOK, TransportInv, TransportTyped
<1>4. OneRequest(wire)
  BY <1>2 DEF OneRequest
<1>5. SessionInv([s \in Session |-> None])
  <2>1. \A s \in Session : ends[s] = <<>>
    BY SessionAssumption DEF Init, TransportInit
  <2>2. \A s \in Session : SessionTrue([r \in Session |-> None], s)
    BY <2>1, AttemptAssumption, SessionAssumption DEF SessionTrue, Init
  <2>3. RolesTrue([s \in Session |-> None])
    BY DEF RolesTrue, RoleTrue, Init
  <2>4. AwaitingTrue /\ BufferedTrue
    BY DEF AwaitingTrue, BufferedTrue, Init
  <2>5. MessagesTrue([s \in Session |-> None])
    BY <1>2 DEF MessagesTrue, InTransit
  <2>6. QED
    BY <2>2, <2>3, <2>4, <2>5 DEF SessionInv
<1>6. [s \in Session |-> None] \in Choice
  BY DEF Choice
<1>7. QED
  BY <1>1, <1>3, <1>4, <1>5, <1>6 DEF IInv

\* A message in transit after a send was there before, or it is the one sent.
LEMMA SentTransit ==
  ASSUME TransportTyped, NEW w \in Wires, NEW p \in Peer, NEW q \in Peer, NEW m \in Message,
         NEW v, v = Sent(w, p, q, m)
  PROVE  \A a \in Peer, j \in Attempt, n \in Message :
           InTransit(v, a, j, n) => InTransit(w, a, j, n) \/ (a = q /\ n = m)
<1> SUFFICES ASSUME NEW a \in Peer, NEW j \in Attempt, NEW n \in Message, InTransit(v, a, j, n)
             PROVE  InTransit(w, a, j, n) \/ (a = q /\ n = m)
  OBVIOUS
<1>1. PICK i \in DOMAIN v[a][j] : v[a][j][i] = n
  BY DEF InTransit
<1>2. (i \in DOMAIN w[a][j] /\ w[a][j][i] = n) \/ (a = q /\ n = m)
  BY <1>1, SentAt
<1>3. QED
  BY <1>2 DEF InTransit

\* An accepted offer stays accepted.
LEMMA AcceptedStays ==
  ASSUME TransportInv, Kept, NEW s \in Attempt, Accepted(s)
  PROVE  Accepted(s)'
<1>1. ends[s] # <<>> /\ ends[s][2] \in Peer /\ pc[ends[s][2]][s] # "none"
  BY TwoEnds DEF Accepted
<1>2. ends'[s] = ends[s] /\ pc'[ends[s][2]][s] # "none"
  BY <1>1 DEF Kept
<1>3. QED
  BY <1>1, <1>2 DEF Accepted

\* What a message says stays true.
LEMMA MessageStays ==
  ASSUME TransportInv, Kept, RequestKept, NEW ch, NEW q \in Peer, NEW k \in Attempt,
         NEW m \in Message, MessageTrue(ch, q, k, m)
  PROVE  MessageTrue(ch, q, k, m)'
<1>1. m.session \in Session /\ m.session \in Attempt
  BY SessionIsAttempt DEF Message
<1>2. ends[m.session] # <<>> => ends'[m.session] # <<>>
  BY <1>1 DEF Kept
<1>3. Accepted(m.session) => Accepted(m.session)'
  BY <1>1, AcceptedStays
<1>4. ends[k] # <<>> => ends'[k] # <<>> /\ Other(k, q)' = Other(k, q)
  BY DEF Kept, Other
<1>5. request[m.session] # "none" => request'[m.session] # "none"
  BY <1>1 DEF RequestKept
<1>6. QED
  BY <1>2, <1>3, <1>4, <1>5 DEF MessageTrue

\* Messages are lost or taken.
LEMMA DropStep ==
  ASSUME TransportInv, Kept, RequestKept, NEW ch, MessagesTrue(ch), OneRequest(wire),
         wire \in Wires, wire' \in Wires, Dropped(wire', wire)
  PROVE  MessagesTrue(ch)' /\ OneRequest(wire)'
<1>1. OneRequest(wire)'
  <2>1. OneRequest(wire')
    BY DroppedRequests
  <2>2. QED
    BY <2>1 DEF OneRequest
<1>2. ASSUME NEW q \in Peer, NEW k \in Attempt, NEW m \in Message, InTransit(wire', q, k, m)
      PROVE  MessageTrue(ch, q, k, m)'
  <2>1. InTransit(wire, q, k, m)
    BY <1>2 DEF InTransit, Dropped
  <2>2. QED
    BY <2>1, MessageStays DEF MessagesTrue
<1>3. QED
  BY <1>1, <1>2 DEF MessagesTrue, InTransit

\* One message is sent, after some are dropped.
LEMMA SendStep ==
  ASSUME TransportInv, Kept, RequestKept, NEW ch, MessagesTrue(ch), OneRequest(wire),
         wire \in Wires, NEW w \in Wires, Dropped(w, wire),
         NEW p \in Peer, NEW q \in Peer, NEW m \in Message, wire' = Sent(w, p, q, m),
         \A k \in Attempt : links[p][q] = k => MessageTrue(ch, q, k, m)',
         m.type = "REQUEST" => NoRequest(w, m.session)
  PROVE  wire' \in Wires /\ MessagesTrue(ch)' /\ OneRequest(wire)'
<1>1. TransportTyped
  BY DEF TransportInv
<1>2. wire' \in Wires
  BY <1>1, SentWire
<1>3. OneRequest(wire)'
  <2>1. OneRequest(w)
    BY DroppedRequests
  <2>2. OneRequest(wire')
    BY <1>1, <2>1, SentRequests
  <2>3. QED
    BY <2>2 DEF OneRequest
<1>4. ASSUME NEW a \in Peer, NEW j \in Attempt, NEW n \in Message, InTransit(wire', a, j, n)
      PROVE  MessageTrue(ch, a, j, n)'
  <2>1. PICK i \in DOMAIN wire'[a][j] : wire'[a][j][i] = n
    BY <1>4 DEF InTransit
  <2>2. \/ i \in DOMAIN w[a][j] /\ n = w[a][j][i]
        \/ links[p][q] # None /\ a = q /\ j = links[p][q] /\ n = m
    BY <1>1, <2>1, SentAt
  <2>3. CASE i \in DOMAIN w[a][j] /\ n = w[a][j][i]
    <3>1. InTransit(wire, a, j, n)
      BY <2>3 DEF InTransit, Dropped
    <3>2. QED
      BY <3>1, MessageStays DEF MessagesTrue
  <2>4. CASE links[p][q] # None /\ a = q /\ j = links[p][q] /\ n = m
    BY <2>4
  <2>5. QED
    BY <2>2, <2>3, <2>4
<1>5. QED
  BY <1>2, <1>3, <1>4 DEF MessagesTrue, InTransit

\* What the head of a channel says is true.
LEMMA HeadTrue ==
  ASSUME TypeOK, NEW ch, MessagesTrue(ch), NEW p \in Peer, NEW k \in Attempt, NEW type,
         Receive(p, k, type)
  PROVE  /\ wire \in Wires /\ wire[p][k] # <<>> /\ Taken(p, k) \in Wires
         /\ Dropped(Taken(p, k), wire)
         /\ Head(wire[p][k]) \in Message /\ Head(wire[p][k]).type = type
         /\ Head(wire[p][k]).session \in Session
         /\ MessageTrue(ch, p, k, Head(wire[p][k]))
<1>1. wire \in Wires
  BY DEF TypeOK, Wires
<1>2. wire[p][k] # <<>> /\ Head(wire[p][k]).type = type
  BY DEF Receive
<1>3. /\ Taken(p, k) \in Wires /\ Dropped(Taken(p, k), wire)
      /\ Head(wire[p][k]) \in Message /\ 1 \in DOMAIN wire[p][k]
      /\ Head(wire[p][k]) = wire[p][k][1]
  BY <1>1, <1>2, TakenWire
<1>4. InTransit(wire, p, k, Head(wire[p][k]))
  BY <1>3 DEF InTransit
<1>5. QED
  BY <1>1, <1>2, <1>3, <1>4 DEF MessagesTrue, Message
-----------------------------------------------------------------------------
(* Every step keeps the invariant.                                         *)

\* What a step has to show when the picked peers stay the same.
LEMMA SameChoice ==
  ASSUME IInv, NEW ch \in Choice, SessionInv(ch), TypeOK', TransportInv', RequestKept,
         MessagesTrue(ch)' /\ OneRequest(wire)',
         \A s \in Session : assigning'[s] \in {None, ch[s]},
         \A s \in Session : \/ ends'[s] = ends[s]
                            \/ ch[s] # None /\ ends'[s] = <<By[s], ch[s]>>,
         RolesTrue(ch)', AwaitingTrue', BufferedTrue'
  PROVE  IInv'
<1>1. ASSUME NEW s \in Session PROVE SessionTrue(ch, s)'
  <2>1. SessionTrue(ch, s)
    BY DEF SessionInv
  <2>2. QED
    BY <2>1 DEF SessionTrue, RequestKept
<1>2. SessionInv(ch)'
  BY <1>1 DEF SessionInv
<1>3. QED
  BY <1>2 DEF IInv

\* A step that leaves the transport's tables and stages as they are.
LEMMA TransportSame ==
  ASSUME TypeOK, TransportInv, UNCHANGED <<ends, pc, tables, lateClose>>
  PROVE  TransportInv' /\ Kept
<1>1. UNCHANGED <<ends, pc, links, openPeers, lateClose>>
  BY DEF tables
<1>2. TransportTyped' /\ EndsHold' /\ TableTrue' /\ LateCloseTrue'
  BY <1>1 DEF TransportInv, TransportTyped, EndsHold, TableTrue, LateCloseTrue
<1>3. OpenPeersAreLinked'
  BY <1>1 DEF TransportInv, OpenPeersAreLinked
<1>6. ConnectedIsLinked'
  BY <1>1 DEF TransportInv, ConnectedIsLinked, Other
<1>7. AnswererIsFree'
  <2> SUFFICES ASSUME NEW a \in Peer, NEW b \in Peer, NEW i \in Attempt, NEW j \in Attempt,
                      links'[a][b] = i, BeingAccepted(a, b, i)', links'[b][a] = j
               PROVE  Unaccepted(b, a, j)'
    BY DEF AnswererIsFree
  <2>1. links[a][b] = i /\ BeingAccepted(a, b, i) /\ links[b][a] = j
    BY <1>1 DEF BeingAccepted
  <2>2. Unaccepted(b, a, j)
    BY <2>1 DEF TransportInv, AnswererIsFree
  <2>3. QED
    BY <1>1, <2>2 DEF Unaccepted
<1>4. Kept
  BY <1>1 DEF Kept
<1>5. QED
  BY <1>2, <1>3, <1>4, <1>6, <1>7 DEF TransportInv

\* Answers that wait go on waiting, and what is buffered stays true.
LEMMA BlobsStay ==
  ASSUME TransportInv, Kept, AwaitingTrue, BufferedTrue,
         \A p \in Peer, s \in Session :
           pc[p][s] = "answering" /\ s \in awaiting'[p] => pc'[p][s] = "answering",
         awaiting' = awaiting \/ \A p \in Peer : awaiting'[p] \subseteq awaiting[p],
         buffered' = buffered \/ \A p \in Peer, s \in Session : buffered'[p][s] \in {"none", buffered[p][s]}
  PROVE  AwaitingTrue' /\ BufferedTrue'
<1>1. ASSUME NEW p \in Peer, NEW s \in Session, s \in awaiting'[p]
      PROVE  ends'[s] # <<>> /\ (p # By[s] => pc'[p][s] = "answering")
  <2>1. s \in awaiting[p] /\ s \in Attempt
    BY <1>1, SessionIsAttempt
  <2>2. ends[s] # <<>> /\ (p # By[s] => pc[p][s] = "answering")
    BY <2>1 DEF AwaitingTrue
  <2>3. QED
    BY <1>1, <2>1, <2>2 DEF Kept
<1>2. ASSUME NEW p \in Peer, NEW s \in Session, buffered'[p][s] # "none"
      PROVE  ends'[s] # <<>> /\ (buffered'[p][s] = "answer" => Accepted(s)')
  <2>1. buffered'[p][s] = buffered[p][s] /\ s \in Attempt
    BY <1>2, SessionIsAttempt
  <2>2. ends[s] # <<>> /\ (buffered'[p][s] = "answer" => Accepted(s))
    BY <1>2, <2>1 DEF BufferedTrue
  <2>3. QED
    BY <2>1, <2>2, AcceptedStays DEF Kept
<1>3. QED
  BY <1>1, <1>2 DEF AwaitingTrue, BufferedTrue

\* Settling keeps promises that were made.
LEMMA SettledType ==
  ASSUME TypeOK, NEW p \in Peer, NEW s \in Session, NEW outcome \in {"resolved", "rejected"}
  PROVE  /\ Settled(p, s, outcome) \in [Session -> {"none", "pending", "resolved", "rejected"}]
         /\ \A r \in Session : request[r] # "none" => Settled(p, s, outcome)[r] # "none"
BY DEF Settled, TypeOK

\* The messages that peers send.
LEMMA MsgType ==
  ASSUME NEW s \in Session
  PROVE  /\ Msg("REQUEST", s, "none", None) \in Message
         /\ Msg("FAILED", s, "none", None) \in Message
         /\ Msg("RELAY", s, "offer", None) \in Message
         /\ Msg("RELAY", s, "answer", None) \in Message
         /\ \A c \in Peer : /\ Msg("ASSIGN", s, "offerer", c) \in Message
                            /\ Msg("ASSIGN", s, "answerer", c) \in Message
BY DEF Msg, Message

\* The two peers that a request names.
LEMMA SessionConstants ==
  ASSUME NEW s \in Session
  PROVE  By[s] \in Peer /\ Via[s] \in Peer /\ s \in Attempt /\ None \notin Peer
BY SessionAssumption, AttemptAssumption

\* A failure is reported.
LEMMA FailStep ==
  ASSUME TypeOK, TransportInv, Kept, NEW ch, MessagesTrue(ch), OneRequest(wire),
         NEW w \in Wires, Dropped(w, wire), NEW p \in Peer, NEW s \in Session, Fail(w, p, s)
  PROVE  /\ request' \in [Session -> {"none", "pending", "resolved", "rejected"}]
         /\ RequestKept /\ wire' \in Wires /\ MessagesTrue(ch)' /\ OneRequest(wire)'
<1>1. request' = Settled(p, s, "rejected")
      /\ wire' = Sent(w, p, Via[s], Msg("FAILED", s, "none", None))
  BY DEF Fail
<1>2. request' \in [Session -> {"none", "pending", "resolved", "rejected"}] /\ RequestKept
  BY <1>1, SettledType DEF RequestKept
<1>3. Via[s] \in Peer /\ Msg("FAILED", s, "none", None) \in Message
  BY SessionConstants, MsgType
<1>4. PICK m \in Message : m = Msg("FAILED", s, "none", None)
  BY <1>3
<1>5. m.type = "FAILED"
  BY <1>4 DEF Msg
<1>6. wire \in Wires
  BY DEF TypeOK, Wires
<1>7. \A k \in Attempt : MessageTrue(ch, Via[s], k, m)'
  BY <1>5 DEF MessageTrue
<1>8. QED
  BY <1>1, <1>2, <1>3, <1>4, <1>5, <1>6, <1>7, SendStep

\* requestIntroduction.
LEMMA RequestIntroductionStep ==
  ASSUME IInv, NEW s \in Session, RequestIntroduction(s)
  PROVE  IInv'
<1>1. PICK ch \in Choice : SessionInv(ch)
  BY DEF IInv
<1>2. /\ request[s] = "none" /\ request' = [request EXCEPT ![s] = "pending"]
      /\ wire' = Sent(wire, By[s], Via[s], Msg("REQUEST", s, "none", None))
      /\ UNCHANGED <<ends, pc, tables, lateClose, leaves, mediating, assigning, roles,
                     buffered, awaiting, listening>>
  BY DEF RequestIntroduction
<1>3. TransportInv' /\ Kept
  BY <1>2, TransportSame DEF IInv
<1>4. RequestKept
  BY <1>2 DEF RequestKept, IInv, TypeOK
<1>5. By[s] \in Peer /\ Via[s] \in Peer /\ Msg("REQUEST", s, "none", None) \in Message
  BY SessionConstants, MsgType
<1>6. PICK m \in Message : m = Msg("REQUEST", s, "none", None)
  BY <1>5
<1>7. m.type = "REQUEST" /\ m.session = s
  BY <1>6 DEF Msg
<1>8. wire \in Wires /\ Dropped(wire, wire)
  BY Unchanged DEF IInv, TypeOK, Wires
<1>9. NoRequest(wire, s)
  <2> SUFFICES ASSUME NEW q \in Peer, NEW k \in Attempt, NEW i \in DOMAIN wire[q][k],
                      IsRequest(wire[q][k][i], s)
               PROVE  FALSE
    BY DEF NoRequest
  <2>1. wire[q][k][i] \in Message /\ InTransit(wire, q, k, wire[q][k][i])
    BY <1>8 DEF Wires, InTransit
  <2>2. MessageTrue(ch, q, k, wire[q][k][i])
    BY <1>1, <2>1 DEF SessionInv, MessagesTrue
  <2>3. QED
    BY <1>2, <2>2 DEF MessageTrue, IsRequest
<1>10. ASSUME NEW k \in Attempt, links[By[s]][Via[s]] = k
       PROVE  MessageTrue(ch, Via[s], k, m)'
  <2>1. /\ ends[k] # <<>> /\ Other(k, By[s]) = Via[s] /\ By[s] # Via[s]
    BY <1>5, <1>10, TableOther, AttemptAssumption DEF IInv
  <2>2. Other(k, Via[s]) = By[s]
    BY <1>5, <1>10, <2>1, TwoEnds, AttemptAssumption DEF Other, IInv, TransportInv, TableTrue
  <2>3. ends' = ends /\ request'[s] # "none" /\ ch[s] = None
    BY <1>1, <1>2 DEF SessionInv, SessionTrue, IInv, TypeOK
  <2>4. QED
    BY <1>7, <2>1, <2>2, <2>3 DEF MessageTrue, Other
<1>11. wire' \in Wires /\ MessagesTrue(ch)' /\ OneRequest(wire)'
  BY <1>1, <1>2, <1>3, <1>4, <1>5, <1>6, <1>7, <1>8, <1>9, <1>10, SendStep DEF IInv, SessionInv
<1>12. TypeOK'
  BY <1>2, <1>3, <1>11 DEF IInv, TypeOK, TransportInv, TransportTyped, Wires
<1>13. RolesTrue(ch)' /\ AwaitingTrue' /\ BufferedTrue'
  BY <1>1, <1>2 DEF SessionInv, RolesTrue, RoleTrue, AwaitingTrue, BufferedTrue, Accepted
<1>14. \A r \in Session : assigning'[r] \in {None, ch[r]} /\ ends'[r] = ends[r]
  BY <1>1, <1>2 DEF SessionInv, SessionTrue
<1>15. QED
  BY <1>1, <1>3, <1>4, <1>11, <1>12, <1>13, <1>14, SameChoice

\* A request is taken and its mediator picks a peer.
LEMMA PickStep ==
  ASSUME IInv, NEW p \in Peer, NEW k \in Attempt, Receive(p, k, "REQUEST"),
         NEW s \in Session, s = Head(wire[p][k]).session, NEW c \in Peer, c # Other(k, p),
         assigning' = [assigning EXCEPT ![s] = c],
         wire' = Sent(Taken(p, k), p, Other(k, p), Msg("ASSIGN", s, "offerer", c)),
         UNCHANGED <<ends, pc, tables, lateClose, request, roles, buffered, awaiting>>
  PROVE  /\ TransportInv' /\ OneRequest(wire)' /\ wire' \in Wires
         /\ \E ch \in Choice : SessionInv(ch)'
<1>1. PICK ch \in Choice : SessionInv(ch)
  BY DEF IInv
<1>2. /\ wire \in Wires /\ wire[p][k] # <<>> /\ Taken(p, k) \in Wires
      /\ Dropped(Taken(p, k), wire)
      /\ Head(wire[p][k]) \in Message /\ Head(wire[p][k]).type = "REQUEST"
      /\ MessageTrue(ch, p, k, Head(wire[p][k]))
  BY <1>1, HeadTrue DEF IInv, SessionInv
<1>3. /\ ch[s] = None /\ request[s] # "none" /\ Other(k, p) = By[s]
  BY <1>2 DEF MessageTrue
<1>4. TransportInv' /\ Kept
  BY TransportSame DEF IInv
<1>5. By[s] \in Peer /\ s \in Attempt /\ None \notin Peer
  BY SessionConstants
<1>6. PICK m \in Message : m = Msg("ASSIGN", s, "offerer", c)
  BY MsgType
<1>7. m.type = "ASSIGN" /\ m.session = s /\ m.body = "offerer" /\ m.peer = c
  BY <1>6 DEF Msg
<1>8. NoRequest(Taken(p, k), s)
  <2> SUFFICES ASSUME NEW q \in Peer, NEW j \in Attempt, NEW i \in DOMAIN Taken(p, k)[q][j],
                      IsRequest(Taken(p, k)[q][j][i], s)
               PROVE  FALSE
    BY DEF NoRequest
  <2>1. Head(wire[p][k]) = wire[p][k][1] /\ 1 \in DOMAIN wire[p][k]
    BY <1>2, TakenWire
  <2>2. IsRequest(wire[p][k][1], s)
    BY <1>2, <2>1 DEF IsRequest
  <2>3. CASE q = p /\ j = k
    <3>1. Taken(p, k)[q][j] = Tail(wire[p][k])
      BY <1>2, <2>3 DEF Taken, Wires
    <3>2. wire[p][k] \in Seq(Message)
      BY <1>2 DEF Wires
    <3>3. /\ i \in Nat /\ i # 0 /\ i + 1 \in DOMAIN wire[p][k]
          /\ Tail(wire[p][k])[i] = wire[p][k][i + 1]
      BY <1>2, <3>1, <3>2
    <3>4. IsRequest(wire[p][k][i + 1], s)
      BY <3>1, <3>3
    <3>5. i + 1 = 1
      BY <2>1, <2>2, <3>3, <3>4 DEF IInv, OneRequest
    <3>6. QED
      BY <3>3, <3>5
  <2>4. CASE ~(q = p /\ j = k)
    <3>1. Taken(p, k)[q][j] = wire[q][j]
      BY <1>2, <2>4 DEF Taken, Wires
    <3>2. QED
      BY <2>1, <2>2, <2>4, <3>1 DEF IInv, OneRequest
  <2>5. QED
    BY <2>3, <2>4
<1>9. OneRequest(wire)'
  <2>1. OneRequest(Taken(p, k))
    BY <1>2, DroppedRequests DEF IInv
  <2>2. OneRequest(wire')
    BY <1>2, <1>3, <1>5, <1>6, <1>7, <2>1, SentRequests DEF IInv, TransportInv
  <2>3. QED
    BY <2>2 DEF OneRequest
<1>10. wire' \in Wires
  <2>1. PICK w \in Wires, o \in Peer : w = Taken(p, k) /\ o = By[s]
    BY <1>2, <1>5
  <2>2. wire' = Sent(w, p, o, m) /\ TransportTyped
    BY <1>3, <1>6, <2>1 DEF IInv, TransportInv
  <2>3. QED
    BY <2>2, SentWire
<1> DEFINE picked == [ch EXCEPT ![s] = c]
<1>11. picked \in Choice /\ picked[s] = c /\ \A r \in Session : r # s => picked[r] = ch[r]
  BY <1>1 DEF Choice
<1> HIDE DEF picked
<1>12. MessagesTrue(picked)'
  <2> SUFFICES ASSUME NEW a \in Peer, NEW j \in Attempt, NEW n \in Message,
                      InTransit(wire', a, j, n)
               PROVE  MessageTrue(picked, a, j, n)'
    BY DEF MessagesTrue, InTransit
  <2>2. InTransit(Taken(p, k), a, j, n) \/ (a = By[s] /\ n = m)
    <3>1. PICK w \in Wires, o \in Peer : w = Taken(p, k) /\ o = By[s]
      BY <1>2, <1>5
    <3>2. wire' = Sent(w, p, o, m) /\ TransportTyped
      BY <1>3, <1>6, <3>1 DEF IInv, TransportInv
    <3>3. InTransit(w, a, j, n) \/ (a = o /\ n = m)
      BY <3>2, SentTransit
    <3>4. QED
      BY <3>1, <3>3
  <2>3. CASE n = m /\ a = By[s]
    BY <1>5, <1>7, <1>11, <2>3 DEF MessageTrue
  <2>4. CASE InTransit(Taken(p, k), a, j, n)
    <3>1. InTransit(wire, a, j, n) /\ ~IsRequest(n, s)
      BY <1>2, <1>8, <2>4 DEF InTransit, Dropped, NoRequest
    <3>2. MessageTrue(ch, a, j, n)'
      BY <1>1, <1>4, <3>1, MessageStays DEF MessagesTrue, SessionInv, IInv, RequestKept
    <3>3. MessageTrue(ch, a, j, n)
      BY <1>1, <3>1 DEF MessagesTrue, SessionInv
    <3>4. n.session \in Session
      BY DEF Message
    <3>5. CASE n.session = s
      <4>1. n.type # "REQUEST" /\ n.type # "ASSIGN"
        BY <1>3, <3>1, <3>3, <3>5 DEF IsRequest, MessageTrue
      <4>2. QED
        BY <3>2, <4>1 DEF MessageTrue
    <3>6. CASE n.session # s
      <4>1. picked[n.session] = ch[n.session]
        BY <1>11, <3>4, <3>6
      <4>2. QED
        BY <3>2, <4>1 DEF MessageTrue
    <3>7. QED
      BY <3>5, <3>6
  <2>5. QED
    BY <2>2, <2>3, <2>4
<1>13. ASSUME NEW r \in Session PROVE SessionTrue(picked, r)'
  <2>1. SessionTrue(ch, r)
    BY <1>1 DEF SessionInv
  <2>2. assigning'[r] = IF r = s THEN c ELSE assigning[r]
    BY DEF IInv, TypeOK
  <2>3. CASE r = s
    BY <1>3, <1>5, <1>11, <2>1, <2>2, <2>3 DEF SessionTrue
  <2>4. CASE r # s
    BY <1>11, <2>1, <2>2, <2>4 DEF SessionTrue
  <2>5. QED
    BY <2>3, <2>4
<1>14. RolesTrue(picked)'
  <2> SUFFICES ASSUME NEW a \in Peer, NEW r \in Session PROVE RoleTrue(picked, a, r)'
    BY DEF RolesTrue
  <2>1. RoleTrue(ch, a, r)
    BY <1>1 DEF SessionInv, RolesTrue
  <2>2. QED
    BY <1>3, <1>11, <2>1 DEF RoleTrue
<1>15. AwaitingTrue' /\ BufferedTrue'
  BY <1>1 DEF SessionInv, AwaitingTrue, BufferedTrue, Accepted
<1>16. SessionInv(picked)'
  BY <1>12, <1>13, <1>14, <1>15 DEF SessionInv
<1>17. QED
  BY <1>4, <1>9, <1>10, <1>11, <1>16

\* A message is taken and another sent in answer, nothing else changes.
LEMMA HandleRequestStep ==
  ASSUME IInv, NEW p \in Peer, NEW k \in Attempt, HandleRequest(p, k)
  PROVE  IInv'
<1> DEFINE s == Head(wire[p][k]).session
           asker == Other(k, p)
           candidates == openPeers[p] \ (Exclude[s] \cup {asker, p})
<1>1. PICK ch \in Choice : SessionInv(ch)
  BY DEF IInv
<1>2. /\ Receive(p, k, "REQUEST")
      /\ UNCHANGED <<ends, pc, tables, lateClose, leaves, request, roles, buffered,
                     awaiting, listening>>
  BY DEF HandleRequest
<1>3. /\ wire \in Wires /\ Taken(p, k) \in Wires /\ Dropped(Taken(p, k), wire)
      /\ Head(wire[p][k]).type = "REQUEST" /\ s \in Session
      /\ MessageTrue(ch, p, k, Head(wire[p][k]))
  BY <1>1, <1>2, HeadTrue DEF IInv, SessionInv
<1>4. asker = By[s] /\ asker \in Peer
  BY <1>3, SessionConstants DEF MessageTrue
<1>5. TransportInv' /\ Kept
  BY <1>2, TransportSame DEF IInv
<1>6. CASE /\ wire' = Sent(Taken(p, k), p, asker, Msg("FAILED", s, "none", None))
           /\ UNCHANGED <<mediating, assigning>>
  <2>1. PICK m \in Message : m = Msg("FAILED", s, "none", None)
    BY <1>3, MsgType
  <2>2. m.type = "FAILED"
    BY <2>1 DEF Msg
  <2>3. \A j \in Attempt : MessageTrue(ch, asker, j, m)'
    BY <2>2 DEF MessageTrue
  <2>4. RequestKept
    BY <1>2 DEF RequestKept
  <2>5. wire' \in Wires /\ MessagesTrue(ch)' /\ OneRequest(wire)'
    <3>1. wire' = Sent(Taken(p, k), p, asker, m)
      BY <1>6, <2>1
    <3>2. TransportInv /\ OneRequest(wire) /\ MessagesTrue(ch)
      BY <1>1 DEF IInv, SessionInv
    <3> HIDE DEF asker
    <3>3. QED
      <4>1. PICK w \in Wires, o \in Peer : w = Taken(p, k) /\ o = asker
        BY <1>3, <1>4
      <4>2. wire' = Sent(w, p, o, m) /\ Dropped(w, wire)
        BY <1>3, <3>1, <4>1
      <4>3. \A j \in Attempt : links[p][o] = j => MessageTrue(ch, o, j, m)'
        BY <2>2 DEF MessageTrue
      <4>4. QED
        BY <1>3, <1>5, <2>2, <2>4, <3>2, <4>2, <4>3, SendStep
  <2>6. TypeOK'
    BY <1>2, <1>5, <1>6, <2>5 DEF IInv, TypeOK, TransportInv, TransportTyped, Wires
  <2>7. RolesTrue(ch)' /\ AwaitingTrue' /\ BufferedTrue'
    BY <1>1, <1>2 DEF SessionInv, RolesTrue, RoleTrue, AwaitingTrue, BufferedTrue, Accepted
  <2>8. \A r \in Session : assigning'[r] \in {None, ch[r]} /\ ends'[r] = ends[r]
    BY <1>1, <1>2, <1>6 DEF SessionInv, SessionTrue
  <2>9. QED
    BY <1>1, <1>5, <2>4, <2>5, <2>6, <2>7, <2>8, SameChoice
<1>7. CASE \E c \in candidates :
             /\ mediating' = [mediating EXCEPT ![s] = c]
             /\ assigning' = [assigning EXCEPT ![s] = c]
             /\ wire' = Sent(Taken(p, k), p, asker, Msg("ASSIGN", s, "offerer", c))
  <2>1. PICK c \in candidates :
             /\ mediating' = [mediating EXCEPT ![s] = c]
             /\ assigning' = [assigning EXCEPT ![s] = c]
             /\ wire' = Sent(Taken(p, k), p, asker, Msg("ASSIGN", s, "offerer", c))
    BY <1>7
  <2>2. c \in Peer /\ c # asker
    BY DEF IInv, TypeOK
  <2>3. /\ OneRequest(wire)' /\ wire' \in Wires /\ \E h \in Choice : SessionInv(h)'
    BY <1>2, <1>3, <2>1, <2>2, PickStep
  <2>4. TypeOK'
    BY <1>2, <1>3, <1>5, <2>1, <2>2, <2>3 DEF IInv, TypeOK, TransportInv, TransportTyped, Wires
  <2>5. QED
    BY <1>5, <2>3, <2>4 DEF IInv
<1>8. QED
  BY <1>6, <1>7 DEF HandleRequest

\* A role is assigned or forgotten.
LEMMA RoleSet ==
  ASSUME TypeOK, NEW ch \in Choice, RolesTrue(ch), NEW p \in Peer, NEW s \in Session, NEW r,
         \/ r = NoRole
         \/ ch[s] # None /\ p = By[s] /\ r = [role |-> "offerer", peer |-> ch[s]]
         \/ ch[s] # None /\ p = ch[s] /\ r = [role |-> "answerer", peer |-> By[s]],
         roles' = [roles EXCEPT ![p][s] = r]
  PROVE  RolesTrue(ch)' /\ roles' \in [Peer -> [Session -> Role]]
<1>1. ASSUME NEW q \in Peer, NEW t \in Session
      PROVE  roles'[q][t] = IF q = p /\ t = s THEN r ELSE roles[q][t]
  BY DEF TypeOK
<1>2. ASSUME NEW q \in Peer, NEW t \in Session PROVE RoleTrue(ch, q, t)'
  BY <1>1 DEF RolesTrue, RoleTrue
<1>3. r \in Role
  BY SessionConstants DEF Role, NoRole, Choice
<1>4. QED
  BY <1>2, <1>3 DEF RolesTrue, TypeOK

\* The second send of a request's handler.
LEMMA AssignAnswererStep ==
  ASSUME IInv, NEW p \in Peer, NEW s \in Session, AssignAnswerer(p, s)
  PROVE  IInv'
<1>1. PICK ch \in Choice : SessionInv(ch)
  BY DEF IInv
<1>2. /\ assigning[s] # None /\ assigning' = [assigning EXCEPT ![s] = None]
      /\ wire' = Sent(wire, p, assigning[s], Msg("ASSIGN", s, "answerer", By[s]))
      /\ UNCHANGED <<ends, pc, tables, lateClose, leaves, request, mediating, roles,
                     buffered, awaiting, listening>>
  BY DEF AssignAnswerer
<1>3. TransportInv' /\ Kept /\ RequestKept
  BY <1>2, TransportSame DEF IInv, RequestKept
<1>4. assigning[s] = ch[s] /\ ch[s] \in Peer
  BY <1>1, <1>2 DEF SessionInv, SessionTrue, Choice
<1>5. PICK c \in Peer, m \in Message : c = ch[s] /\ m = Msg("ASSIGN", s, "answerer", By[s])
  BY <1>4, MsgType, SessionConstants
<1>6. /\ m.type = "ASSIGN" /\ m.session = s /\ m.body = "answerer" /\ m.peer = By[s]
      /\ wire' = Sent(wire, p, c, m)
  BY <1>2, <1>4, <1>5 DEF Msg
<1>7. \A k \in Attempt : MessageTrue(ch, c, k, m)'
  BY <1>2, <1>4, <1>5, <1>6 DEF MessageTrue
<1>8. wire \in Wires /\ Dropped(wire, wire)
  BY Unchanged DEF IInv, TypeOK, Wires
<1>9. wire' \in Wires /\ MessagesTrue(ch)' /\ OneRequest(wire)'
  BY <1>1, <1>3, <1>6, <1>7, <1>8, SendStep DEF IInv, SessionInv
<1>10. TypeOK'
  BY <1>2, <1>3, <1>9 DEF IInv, TypeOK, TransportInv, TransportTyped, Wires
<1>11. RolesTrue(ch)' /\ AwaitingTrue' /\ BufferedTrue'
  BY <1>1, <1>2 DEF SessionInv, RolesTrue, RoleTrue, AwaitingTrue, BufferedTrue, Accepted
<1>12. \A r \in Session : assigning'[r] \in {None, ch[r]} /\ ends'[r] = ends[r]
  BY <1>1, <1>2 DEF SessionInv, SessionTrue, IInv, TypeOK
<1>13. QED
  BY <1>1, <1>3, <1>9, <1>10, <1>11, <1>12, SameChoice

\* What AcceptOffer and CompleteConnection do to the transport, for a blob of k.
LEMMA AcceptOfferStep ==
  ASSUME TransportInv, NEW p \in Peer, NEW k \in Attempt, ends[k] # <<>>, p = ends[k][2],
         AcceptOffer(p, k), UNCHANGED <<ends, tables, lateClose>>
  PROVE  /\ TransportInv' /\ Kept /\ pc'[p][k] = "answering"
         /\ \A a \in Peer, j \in Attempt : pc[a][j] = "answering" => pc'[a][j] = "answering"
<1>1. /\ links[p][ends[k][1]] = None /\ pc[p][k] = "none"
      /\ pc' = [pc EXCEPT ![p][k] = "answering"]
  BY DEF AcceptOffer
<1>2. "answering" \in PcState
  BY DEF PcState
<1>3. TransportInv' /\ Kept
  BY <1>1, <1>2, StageStep
<1>4. QED
  BY <1>1, <1>3 DEF TransportInv, TransportTyped

\* completeConnection sets the answer, or spoils another attempt.
LEMMA CompleteConnectionStep ==
  ASSUME TransportInv, NEW p \in Peer, NEW q \in Peer, NEW k \in Attempt,
         ends[k] = <<p, q>>, Accepted(k), CompleteConnection(p, q, k),
         UNCHANGED <<ends, tables, lateClose>>
  PROVE  /\ TransportInv' /\ Kept
         /\ \A a \in Peer, j \in Attempt : pc[a][j] = "answering" => pc'[a][j] = "answering"
<1>1. /\ links[p][q] # None /\ pc[p][links[p][q]] \in {"gathering", "offered"}
      /\ pc' = [pc EXCEPT ![p][links[p][q]] = IF k = links[p][q] THEN "complete" ELSE "crossed"]
  BY DEF CompleteConnection
<1>2. PICK j \in Attempt : j = links[p][q]
  BY <1>1, TableOther
<1>3. Other(k, p) = q
  BY DEF Other
<1>4. "complete" \in PcState /\ "crossed" \in PcState
  BY DEF PcState
<1>5. TransportInv' /\ Kept
  <2>1. CASE k = j
    <3>1. /\ pc' = [pc EXCEPT ![p][k] = "complete"] /\ pc[p][k] \in {"gathering", "offered"}
          /\ links[p][Other(k, p)] = k
      BY <1>1, <1>2, <1>3, <2>1
    <3>2. QED
      BY <1>4, <3>1, StageStep
  <2>2. CASE k # j
    <3>1. pc' = [pc EXCEPT ![p][j] = "crossed"] /\ pc[p][j] \in {"gathering", "offered"}
      BY <1>1, <1>2, <2>2
    <3>2. QED
      BY <1>4, <3>1, StageStep
  <2>3. QED
    BY <2>1, <2>2
<1>6. QED
  BY <1>1, <1>2, <1>5 DEF TransportInv, TransportTyped

\* A message is taken and none is sent.
LEMMA TakeStep ==
  ASSUME IInv, Kept, RequestKept, NEW ch, SessionInv(ch),
         NEW w \in Wires, Dropped(w, wire), wire' = w
  PROVE  wire' \in Wires /\ MessagesTrue(ch)' /\ OneRequest(wire)'
<1>1. /\ TransportInv /\ MessagesTrue(ch) /\ OneRequest(wire) /\ wire \in Wires
      /\ wire' \in Wires /\ Dropped(wire', wire)
  BY DEF IInv, SessionInv, TypeOK, Wires
<1>2. QED
  BY <1>1, DropStep

\* A blob is processed at a participant in its role.
LEMMA ProcessRelayStep ==
  ASSUME IInv, NEW ch \in Choice, SessionInv(ch), NEW p \in Peer, NEW s \in Session,
         NEW r, NEW blob, NEW w \in Wires, Dropped(w, wire),
         ch[s] # None, ends[s] # <<>>, blob = "answer" => Accepted(s),
         \/ p = By[s] /\ r = [role |-> "offerer", peer |-> ch[s]]
         \/ p = ch[s] /\ r = [role |-> "answerer", peer |-> By[s]],
         ProcessRelay(p, s, r, blob, w),
         UNCHANGED <<ends, tables, lateClose, leaves, mediating, assigning, listening>>,
         buffered' \in [Peer -> [Session -> {"none", "offer", "answer"}]],
         \A a \in Peer, t \in Session : buffered'[a][t] \in {"none", buffered[a][t]}
  PROVE  IInv'
<1>1. /\ TypeOK /\ TransportInv /\ OneRequest(wire) /\ wire \in Wires
      /\ MessagesTrue(ch) /\ RolesTrue(ch) /\ AwaitingTrue /\ BufferedTrue
  BY DEF IInv, SessionInv, TypeOK, Wires
<1>2. /\ By[s] \in Peer /\ ch[s] \in Peer /\ s \in Attempt /\ ends[s] = <<By[s], ch[s]>>
  BY SessionConstants DEF SessionInv, SessionTrue, Choice
<1>3. \A t \in Session : assigning'[t] \in {None, ch[t]} /\ ends'[t] = ends[t]
  BY DEF SessionInv, SessionTrue
<1>4. ASSUME TransportInv', Kept, RequestKept,
             request' \in [Session -> {"none", "pending", "resolved", "rejected"}],
             wire' \in Wires, MessagesTrue(ch)', OneRequest(wire)',
             RolesTrue(ch)', roles' \in [Peer -> [Session -> Role]],
             awaiting' \in [Peer -> SUBSET Session], AwaitingTrue', BufferedTrue'
      PROVE  IInv'
  <2>1. TypeOK'
    BY <1>1, <1>4 DEF TypeOK, TransportInv, TransportTyped, Wires
  <2>2. QED
    BY <1>3, <1>4, <2>1, SameChoice
<1>5. CASE Fail(w, p, s) /\ Forget(p, s) /\ UNCHANGED <<pc, awaiting>>
  <2>1. TransportInv' /\ Kept
    BY <1>1, <1>5, TransportSame
  <2>2. /\ request' \in [Session -> {"none", "pending", "resolved", "rejected"}]
        /\ RequestKept /\ wire' \in Wires /\ MessagesTrue(ch)' /\ OneRequest(wire)'
    BY <1>1, <1>5, <2>1, FailStep
  <2>3. RolesTrue(ch)' /\ roles' \in [Peer -> [Session -> Role]]
    BY <1>1, <1>5, RoleSet DEF Forget
  <2>4. AwaitingTrue' /\ BufferedTrue'
    BY <1>1, <1>5, <2>1, BlobsStay
  <2>5. QED
    BY <1>1, <1>4, <1>5, <2>1, <2>2, <2>3, <2>4 DEF TypeOK
<1>6. CASE /\ r.role = "answerer" /\ blob = "offer"
           /\ AcceptOffer(p, s)
           /\ awaiting' = [awaiting EXCEPT ![p] = @ \cup {s}]
           /\ roles' = [roles EXCEPT ![p][s] = r]
           /\ wire' = w
           /\ UNCHANGED request
  <2>1. p = ends[s][2]
    BY <1>2, <1>6
  <2>2. /\ TransportInv' /\ Kept /\ pc'[p][s] = "answering"
        /\ \A a \in Peer, j \in Attempt : pc[a][j] = "answering" => pc'[a][j] = "answering"
    BY <1>1, <1>2, <1>6, <2>1, AcceptOfferStep
  <2>3. RequestKept
    BY <1>6 DEF RequestKept
  <2>4. wire' \in Wires /\ MessagesTrue(ch)' /\ OneRequest(wire)'
    BY <1>6, <2>2, <2>3, TakeStep
  <2>5. RolesTrue(ch)' /\ roles' \in [Peer -> [Session -> Role]]
    BY <1>1, <1>6, RoleSet
  <2>6. awaiting' \in [Peer -> SUBSET Session]
    BY <1>1, <1>6 DEF TypeOK
  <2>7. AwaitingTrue'
    <3> SUFFICES ASSUME NEW a \in Peer, NEW t \in Session, t \in awaiting'[a]
                 PROVE  ends'[t] # <<>> /\ (a # By[t] => pc'[a][t] = "answering")
      BY DEF AwaitingTrue
    <3>1. CASE a = p /\ t = s
      BY <2>2, <3>1
    <3>2. CASE ~(a = p /\ t = s)
      <4>1. t \in awaiting[a] /\ t \in Attempt
        BY <1>1, <1>6, <3>2, SessionIsAttempt DEF TypeOK
      <4>2. QED
        BY <1>1, <1>3, <2>2, <4>1 DEF AwaitingTrue
    <3>3. QED
      BY <3>1, <3>2
  <2>8. BufferedTrue'
    <3> SUFFICES ASSUME NEW a \in Peer, NEW t \in Session, buffered'[a][t] # "none"
                 PROVE  ends'[t] # <<>> /\ (buffered'[a][t] = "answer" => Accepted(t)')
      BY DEF BufferedTrue
    <3>1. buffered'[a][t] = buffered[a][t] /\ t \in Attempt
      BY SessionIsAttempt
    <3>2. ends[t] # <<>> /\ (buffered[a][t] = "answer" => Accepted(t))
      BY <1>1, <3>1 DEF BufferedTrue
    <3>3. QED
      BY <1>1, <1>3, <2>2, <3>1, <3>2, AcceptedStays
  <2>9. QED
    BY <1>1, <1>4, <1>6, <2>2, <2>3, <2>4, <2>5, <2>6, <2>7, <2>8 DEF TypeOK
<1>7. CASE /\ r.role = "offerer" /\ blob = "answer"
           /\ CompleteConnection(p, r.peer, s)
           /\ request' = Settled(p, s, "resolved")
           /\ Forget(p, s)
           /\ wire' = w
           /\ UNCHANGED awaiting
  <2>1. p = By[s] /\ r.peer = ch[s] /\ ends[s] = <<p, ch[s]>> /\ Accepted(s)
    BY <1>2, <1>7
  <2>2. /\ TransportInv' /\ Kept
        /\ \A a \in Peer, j \in Attempt : pc[a][j] = "answering" => pc'[a][j] = "answering"
    BY <1>1, <1>2, <1>7, <2>1, CompleteConnectionStep
  <2>3. /\ request' \in [Session -> {"none", "pending", "resolved", "rejected"}]
        /\ RequestKept
    BY <1>1, <1>7, SettledType DEF RequestKept
  <2>4. wire' \in Wires /\ MessagesTrue(ch)' /\ OneRequest(wire)'
    BY <1>7, <2>2, <2>3, TakeStep
  <2>5. RolesTrue(ch)' /\ roles' \in [Peer -> [Session -> Role]]
    BY <1>1, <1>7, RoleSet DEF Forget
  <2>6. AwaitingTrue' /\ BufferedTrue'
    BY <1>1, <1>7, <2>2, BlobsStay, SessionIsAttempt
  <2>7. QED
    BY <1>1, <1>4, <1>7, <2>2, <2>3, <2>4, <2>5, <2>6 DEF TypeOK
<1>8. QED
  BY <1>5, <1>6, <1>7 DEF ProcessRelay

\* INTRO_ASSIGN.
LEMMA HandleAssignStep ==
  ASSUME IInv, NEW p \in Peer, NEW k \in Attempt, HandleAssign(p, k)
  PROVE  IInv'
<1>1. PICK ch \in Choice : SessionInv(ch)
  BY DEF IInv
<1>2. PICK m \in Message : m = Head(wire[p][k])
  BY <1>1, HeadTrue DEF HandleAssign, IInv, SessionInv
<1>3. PICK s \in Session, w \in Wires : s = m.session /\ w = Taken(p, k)
  BY <1>1, <1>2, HeadTrue DEF HandleAssign, IInv, SessionInv
<1>4. /\ m.type = "ASSIGN" /\ MessageTrue(ch, p, k, m) /\ Dropped(w, wire)
      /\ UNCHANGED <<leaves, mediating, assigning, listening>>
  BY <1>1, <1>2, <1>3, HeadTrue DEF HandleAssign, IInv, SessionInv
<1> DEFINE r == [role |-> m.body, peer |-> m.peer]
<1>5. /\ ch[s] # None
      /\ \/ p = By[s] /\ r = [role |-> "offerer", peer |-> ch[s]]
         \/ p = ch[s] /\ r = [role |-> "answerer", peer |-> By[s]]
  BY <1>3, <1>4 DEF MessageTrue
<1>6. /\ TypeOK /\ TransportInv /\ OneRequest(wire) /\ wire \in Wires
      /\ MessagesTrue(ch) /\ RolesTrue(ch) /\ AwaitingTrue /\ BufferedTrue
  BY <1>1 DEF IInv, SessionInv, TypeOK, Wires
<1>7. By[s] \in Peer /\ ch[s] \in Peer /\ s \in Attempt
  BY <1>5, SessionConstants DEF Choice
<1>8. \A t \in Session : assigning'[t] \in {None, ch[t]}
  BY <1>1, <1>4 DEF SessionInv, SessionTrue
<1>9. ASSUME TransportInv', Kept, RequestKept,
             request' \in [Session -> {"none", "pending", "resolved", "rejected"}],
             wire' \in Wires, MessagesTrue(ch)', OneRequest(wire)',
             roles' = [roles EXCEPT ![p][s] = r], UNCHANGED buffered,
             awaiting' \in [Peer -> SUBSET Session], AwaitingTrue',
             \A t \in Session : ends'[t] = ends[t] \/ (t = s /\ ends'[s] = <<By[s], ch[s]>>)
      PROVE  IInv'
  <2>1. RolesTrue(ch)' /\ roles' \in [Peer -> [Session -> Role]]
    BY <1>5, <1>6, <1>9, RoleSet
  <2>2. TypeOK'
    BY <1>4, <1>6, <1>9, <2>1 DEF TypeOK, TransportInv, TransportTyped, Wires
  <2>3. BufferedTrue'
    <3> SUFFICES ASSUME NEW a \in Peer, NEW t \in Session, buffered[a][t] # "none"
                 PROVE  ends'[t] # <<>> /\ (buffered[a][t] = "answer" => Accepted(t)')
      BY <1>9 DEF BufferedTrue
    <3>1. t \in Attempt /\ ends[t] # <<>> /\ (buffered[a][t] = "answer" => Accepted(t))
      BY <1>6, SessionIsAttempt DEF BufferedTrue
    <3>2. QED
      BY <1>6, <1>9, <3>1, AcceptedStays DEF Kept
  <2>4. QED
    BY <1>1, <1>5, <1>8, <1>9, <2>1, <2>2, <2>3, SameChoice
<1>10. CASE /\ CreateOffer(p, r.peer, s) /\ r.role = "offerer"
            /\ roles' = [roles EXCEPT ![p][s] = r]
            /\ awaiting' = [awaiting EXCEPT ![p] = @ \cup {s}]
            /\ wire' = w
            /\ UNCHANGED <<request, buffered>>
  <2>1. p = By[s] /\ r.peer = ch[s]
    BY <1>5, <1>10
  <2>2. CreateOffer(p, ch[s], s)
    BY <1>10, <2>1
  <2>3. TransportInv' /\ Kept
    BY <1>6, <1>7, <2>2, CreateOfferStep
  <2>4. RequestKept
    BY <1>10 DEF RequestKept
  <2>5. wire' \in Wires /\ MessagesTrue(ch)' /\ OneRequest(wire)'
    BY <1>1, <1>4, <1>10, <2>3, <2>4, TakeStep
  <2>6. /\ ends' = [ends EXCEPT ![s] = <<p, ch[s]>>] /\ ends[s] = <<>>
        /\ pc' = [pc EXCEPT ![p][s] = "gathering"]
    BY <2>2 DEF CreateOffer
  <2>7. ends'[s] = <<By[s], ch[s]>> /\ \A t \in Session : t # s => ends'[t] = ends[t]
    BY <1>6, <1>7, <2>1, <2>6, SessionIsAttempt DEF TypeOK
  <2>8. AwaitingTrue'
    <3> SUFFICES ASSUME NEW a \in Peer, NEW t \in Session, t \in awaiting'[a]
                 PROVE  ends'[t] # <<>> /\ (a # By[t] => pc'[a][t] = "answering")
      BY DEF AwaitingTrue
    <3>1. t # s => t \in awaiting[a]
      BY <1>6, <1>10 DEF TypeOK
    <3>2. CASE t = s
      <4>1. a # p => t \in awaiting[a]
        BY <1>6, <1>10, <3>2 DEF TypeOK
      <4>2. a = p
        BY <1>6, <2>6, <3>2, <4>1 DEF AwaitingTrue
      <4>3. QED
        BY <2>1, <2>7, <3>2, <4>2, <<By[s], ch[s]>> # <<>>
    <3>3. CASE t # s
      <4>1. pc'[a][t] = pc[a][t]
        BY <1>6, <2>6, <3>3, SessionIsAttempt DEF TypeOK
      <4>2. QED
        BY <1>6, <2>7, <3>1, <3>3, <4>1 DEF AwaitingTrue
    <3>4. QED
      BY <3>2, <3>3
  <2>9. awaiting' \in [Peer -> SUBSET Session]
    BY <1>6, <1>10 DEF TypeOK
  <2>10. QED
    BY <1>6, <1>9, <1>10, <2>3, <2>4, <2>5, <2>7, <2>8, <2>9 DEF TypeOK
<1>11. CASE /\ Fail(w, p, s) /\ roles' = [roles EXCEPT ![p][s] = r]
            /\ UNCHANGED <<ends, pc, tables, lateClose, awaiting, buffered>>
  <2>1. TransportInv' /\ Kept
    BY <1>6, <1>11, TransportSame
  <2>2. /\ request' \in [Session -> {"none", "pending", "resolved", "rejected"}]
        /\ RequestKept /\ wire' \in Wires /\ MessagesTrue(ch)' /\ OneRequest(wire)'
    BY <1>4, <1>6, <1>11, <2>1, FailStep
  <2>3. AwaitingTrue'
    BY <1>6, <1>11 DEF AwaitingTrue
  <2>4. /\ request' \in [Session -> {"none", "pending", "resolved", "rejected"}]
        /\ awaiting' \in [Peer -> SUBSET Session] /\ UNCHANGED buffered
        /\ roles' = [roles EXCEPT ![p][s] = r] /\ \A t \in Session : ends'[t] = ends[t]
    BY <1>6, <1>11, <2>2 DEF TypeOK
  <2> HIDE DEF r
  <2>5. \A t \in Session : ends'[t] = ends[t] \/ (t = s /\ ends'[s] = <<By[s], ch[s]>>)
    BY <2>4
  <2>6. QED
    BY <1>9, <2>1, <2>2, <2>3, <2>4, <2>5
<1>12. CASE /\ roles' = [roles EXCEPT ![p][s] = r] /\ wire' = w
            /\ UNCHANGED <<ends, pc, tables, lateClose, request, buffered, awaiting>>
  <2>1. TransportInv' /\ Kept /\ RequestKept
    BY <1>6, <1>12, TransportSame DEF RequestKept
  <2>2. wire' \in Wires /\ MessagesTrue(ch)' /\ OneRequest(wire)'
    BY <1>1, <1>4, <1>12, <2>1, TakeStep
  <2>3. AwaitingTrue'
    BY <1>6, <1>12 DEF AwaitingTrue
  <2>4. /\ request' \in [Session -> {"none", "pending", "resolved", "rejected"}]
        /\ awaiting' \in [Peer -> SUBSET Session] /\ UNCHANGED buffered
        /\ roles' = [roles EXCEPT ![p][s] = r] /\ \A t \in Session : ends'[t] = ends[t]
    BY <1>6, <1>12, <2>2 DEF TypeOK
  <2> HIDE DEF r
  <2>5. \A t \in Session : ends'[t] = ends[t] \/ (t = s /\ ends'[s] = <<By[s], ch[s]>>)
    BY <2>4
  <2>6. QED
    BY <1>9, <2>1, <2>2, <2>3, <2>4, <2>5
<1>13. CASE /\ buffered[p][s] # "none" /\ buffered' = [buffered EXCEPT ![p][s] = "none"]
            /\ ProcessRelay(p, s, r, buffered[p][s], w)
            /\ UNCHANGED <<ends, tables, lateClose>>
  <2>1. ends[s] # <<>> /\ (buffered[p][s] = "answer" => Accepted(s))
    BY <1>6, <1>13 DEF BufferedTrue
  <2>2. /\ buffered' \in [Peer -> [Session -> {"none", "offer", "answer"}]]
        /\ \A a \in Peer, t \in Session : buffered'[a][t] \in {"none", buffered[a][t]}
    BY <1>6, <1>13 DEF TypeOK
  <2>3. PICK blob : blob = buffered[p][s]
    OBVIOUS
  <2>4. PICK x : x = r
    OBVIOUS
  <2>5. ProcessRelay(p, s, x, blob, w) /\ (blob = "answer" => Accepted(s))
    BY <1>13, <2>1, <2>3, <2>4
  <2> HIDE DEF r
  <2>6. QED
    BY <1>1, <1>4, <1>5, <1>13, <2>1, <2>2, <2>4, <2>5, ProcessRelayStep
<1>14. QED
  BY <1>2, <1>3, <1>10, <1>11, <1>12, <1>13 DEF HandleAssign

\* createOfferFor returns or throws.
LEMMA OfferReadyStep ==
  ASSUME IInv, NEW p \in Peer, NEW s \in Session, OfferReady(p, s)
  PROVE  IInv'
<1>1. PICK ch \in Choice : SessionInv(ch)
  BY DEF IInv
<1>2. /\ TypeOK /\ TransportInv /\ OneRequest(wire) /\ wire \in Wires
      /\ MessagesTrue(ch) /\ RolesTrue(ch) /\ AwaitingTrue /\ BufferedTrue
  BY <1>1 DEF IInv, SessionInv, TypeOK, Wires
<1>3. /\ s \in awaiting[p] /\ awaiting' = [awaiting EXCEPT ![p] = @ \ {s}]
      /\ UNCHANGED <<ends, tables, lateClose, leaves, mediating, assigning, roles, buffered,
                     listening>>
  BY DEF OfferReady
<1>4. ends[s] # <<>> /\ s \in Attempt /\ Via[s] \in Peer
  BY <1>2, <1>3, SessionConstants DEF AwaitingTrue
<1>5. Dropped(wire, wire)
  BY <1>2, Unchanged
<1>6. /\ TransportInv' /\ Kept /\ RequestKept /\ wire' \in Wires
      /\ MessagesTrue(ch)' /\ OneRequest(wire)'
      /\ request' \in [Session -> {"none", "pending", "resolved", "rejected"}]
      /\ \A a \in Peer, j \in Attempt : pc[a][j] = "answering" => pc'[a][j] = "answering"
  <2>1. CASE /\ Offered(p, s)
             /\ wire' = Sent(wire, p, Via[s], Msg("RELAY", s, "offer", None))
             /\ UNCHANGED request
    <3>1. pc' = [pc EXCEPT ![p][s] = IF @ = "gathering" THEN "offered" ELSE @]
      BY <2>1 DEF Offered
    <3>2. TransportInv' /\ Kept
      <4>1. CASE pc[p][s] = "gathering"
        <5>1. pc' = [pc EXCEPT ![p][s] = "offered"] /\ "offered" \in PcState
          BY <3>1, <4>1 DEF PcState
        <5>2. QED
          BY <1>2, <1>3, <1>4, <4>1, <5>1, StageStep
      <4>2. CASE pc[p][s] # "gathering"
        <5>1. pc' = pc
          BY <1>2, <3>1, <4>2 DEF TypeOK
        <5>2. QED
          BY <1>2, <1>3, <5>1, TransportSame
      <4>3. QED
        BY <4>1, <4>2
    <3>3. \A a \in Peer, j \in Attempt : pc[a][j] = "answering" => pc'[a][j] = "answering"
      BY <1>2, <3>1 DEF TypeOK
    <3>4. RequestKept
      BY <2>1 DEF RequestKept
    <3>5. PICK q \in Peer, m \in Message : q = Via[s] /\ m = Msg("RELAY", s, "offer", None)
      BY <1>4, MsgType
    <3>6. /\ m.type = "RELAY" /\ m.session = s /\ m.body = "offer"
          /\ wire' = Sent(wire, p, q, m)
      BY <2>1, <3>5 DEF Msg
    <3>7. \A k \in Attempt : MessageTrue(ch, q, k, m)'
      BY <1>3, <1>4, <3>6 DEF MessageTrue
    <3>8. wire' \in Wires /\ MessagesTrue(ch)' /\ OneRequest(wire)'
      BY <1>2, <1>5, <3>2, <3>4, <3>6, <3>7, SendStep
    <3>9. QED
      BY <1>2, <2>1, <3>2, <3>3, <3>4, <3>8 DEF TypeOK
  <2>2. CASE Fail(wire, p, s) /\ UNCHANGED pc
    <3>1. TransportInv' /\ Kept
      BY <1>2, <1>3, <2>2, TransportSame
    <3>2. QED
      BY <1>2, <1>5, <2>2, <3>1, FailStep
  <2>3. QED
    BY <2>1, <2>2 DEF OfferReady
<1>7. AwaitingTrue' /\ BufferedTrue'
  <2>1. \A a \in Peer : awaiting'[a] \subseteq awaiting[a]
    BY <1>2, <1>3 DEF TypeOK
  <2>2. QED
    BY <1>2, <1>3, <1>6, <2>1, BlobsStay, SessionIsAttempt
<1>8. TypeOK'
  BY <1>2, <1>3, <1>6 DEF TypeOK, TransportInv, TransportTyped, Wires
<1>9. RolesTrue(ch)' /\ \A t \in Session : assigning'[t] \in {None, ch[t]} /\ ends'[t] = ends[t]
  BY <1>1, <1>2, <1>3 DEF SessionInv, SessionTrue, RolesTrue, RoleTrue
<1>10. QED
  BY <1>1, <1>6, <1>7, <1>8, <1>9, SameChoice

\* acceptOffer returns or throws.
LEMMA AnswerReadyStep ==
  ASSUME IInv, NEW p \in Peer, NEW s \in Session, AnswerReady(p, s)
  PROVE  IInv'
<1>1. PICK ch \in Choice : SessionInv(ch)
  BY DEF IInv
<1>2. /\ TypeOK /\ TransportInv /\ OneRequest(wire) /\ wire \in Wires
      /\ MessagesTrue(ch) /\ RolesTrue(ch) /\ AwaitingTrue /\ BufferedTrue
  BY <1>1 DEF IInv, SessionInv, TypeOK, Wires
<1>3. /\ s \in awaiting[p] /\ p # By[s]
      /\ awaiting' = [awaiting EXCEPT ![p] = @ \ {s}] /\ Forget(p, s)
      /\ UNCHANGED <<ends, tables, lateClose, leaves, mediating, assigning, buffered, listening>>
  BY DEF AnswerReady
<1>4. ends[s] # <<>> /\ s \in Attempt /\ Via[s] \in Peer /\ pc[p][s] = "answering"
  BY <1>2, <1>3, SessionConstants DEF AwaitingTrue
<1>5. Dropped(wire, wire)
  BY <1>2, Unchanged
<1>6. p = ends[s][2]
  BY <1>2, <1>4 DEF TransportInv, EndsHold
<1>7. /\ TransportInv' /\ Kept /\ RequestKept /\ wire' \in Wires
      /\ MessagesTrue(ch)' /\ OneRequest(wire)'
      /\ request' \in [Session -> {"none", "pending", "resolved", "rejected"}]
      /\ \A a \in Peer, j \in Attempt :
           pc[a][j] = "answering" /\ ~(a = p /\ j = s) => pc'[a][j] = "answering"
  <2>1. CASE /\ Answered(p, s)
             /\ wire' = Sent(wire, p, Via[s], Msg("RELAY", s, "answer", None))
             /\ UNCHANGED request
    <3>1. pc' = [pc EXCEPT ![p][s] = "answered"] /\ "answered" \in PcState
      BY <2>1 DEF Answered, PcState
    <3>2. TransportInv' /\ Kept
      BY <1>2, <1>3, <1>4, <3>1, StageStep
    <3>3. \A a \in Peer, j \in Attempt :
            pc[a][j] = "answering" /\ ~(a = p /\ j = s) => pc'[a][j] = "answering"
      BY <1>2, <3>1 DEF TypeOK
    <3>4. RequestKept
      BY <2>1 DEF RequestKept
    <3>5. PICK q \in Peer, m \in Message : q = Via[s] /\ m = Msg("RELAY", s, "answer", None)
      BY <1>4, MsgType
    <3>6. /\ m.type = "RELAY" /\ m.session = s /\ m.body = "answer"
          /\ wire' = Sent(wire, p, q, m)
      BY <2>1, <3>5 DEF Msg
    <3>7. Accepted(s)'
      <4>1. Accepted(s)
        BY <1>4, <1>6 DEF Accepted
      <4>2. QED
        BY <1>2, <1>4, <3>2, <4>1, AcceptedStays
    <3>8. \A k \in Attempt : MessageTrue(ch, q, k, m)'
      BY <1>3, <1>4, <3>6, <3>7 DEF MessageTrue
    <3>9. wire' \in Wires /\ MessagesTrue(ch)' /\ OneRequest(wire)'
      BY <1>2, <1>5, <3>2, <3>4, <3>6, <3>8, SendStep
    <3>10. QED
      BY <1>2, <2>1, <3>2, <3>3, <3>4, <3>9 DEF TypeOK
  <2>2. CASE Fail(wire, p, s) /\ UNCHANGED pc
    <3>1. TransportInv' /\ Kept
      BY <1>2, <1>3, <2>2, TransportSame
    <3>2. QED
      BY <1>2, <1>5, <2>2, <3>1, FailStep
  <2>3. QED
    BY <2>1, <2>2 DEF AnswerReady
<1>8. AwaitingTrue' /\ BufferedTrue'
  <2>1. /\ \A a \in Peer : awaiting'[a] \subseteq awaiting[a]
        /\ s \notin awaiting'[p]
    BY <1>2, <1>3 DEF TypeOK
  <2>2. QED
    BY <1>2, <1>3, <1>7, <2>1, BlobsStay, SessionIsAttempt
<1>9. RolesTrue(ch)' /\ roles' \in [Peer -> [Session -> Role]]
  BY <1>1, <1>2, <1>3, RoleSet DEF Forget
<1>10. TypeOK'
  BY <1>2, <1>3, <1>7, <1>9 DEF TypeOK, TransportInv, TransportTyped, Wires
<1>11. \A t \in Session : assigning'[t] \in {None, ch[t]} /\ ends'[t] = ends[t]
  BY <1>1, <1>3 DEF SessionInv, SessionTrue
<1>12. QED
  BY <1>1, <1>7, <1>8, <1>9, <1>10, <1>11, SameChoice

\* INTRO_RELAY.
LEMMA HandleRelayStep ==
  ASSUME IInv, NEW p \in Peer, NEW k \in Attempt, HandleRelay(p, k)
  PROVE  IInv'
<1>1. PICK ch \in Choice : SessionInv(ch)
  BY DEF IInv
<1>2. PICK m \in Message : m = Head(wire[p][k])
  BY <1>1, HeadTrue DEF HandleRelay, IInv, SessionInv
<1>3. PICK s \in Session, w \in Wires : s = m.session /\ w = Taken(p, k)
  BY <1>1, <1>2, HeadTrue DEF HandleRelay, IInv, SessionInv
<1>4. /\ m.type = "RELAY" /\ MessageTrue(ch, p, k, m) /\ Dropped(w, wire)
      /\ UNCHANGED <<ends, tables, lateClose, leaves, mediating, assigning, listening>>
  BY <1>1, <1>2, <1>3, HeadTrue DEF HandleRelay, IInv, SessionInv
<1>5. /\ ends[s] # <<>> /\ m.body \in {"offer", "answer"}
      /\ m.body = "answer" => Accepted(s)
  BY <1>3, <1>4 DEF MessageTrue
<1>6. /\ TypeOK /\ TransportInv /\ OneRequest(wire) /\ wire \in Wires
      /\ MessagesTrue(ch) /\ RolesTrue(ch) /\ AwaitingTrue /\ BufferedTrue
  BY <1>1 DEF IInv, SessionInv, TypeOK, Wires
<1>7. \A t \in Session : assigning'[t] \in {None, ch[t]} /\ ends'[t] = ends[t]
  BY <1>1, <1>4 DEF SessionInv, SessionTrue
<1>8. CASE /\ Mediates(p, s)
           /\ wire' = Sent(w, p, OtherSide(s, Other(k, p)), m)
           /\ UNCHANGED <<pc, request, roles, buffered, awaiting>>
  <2>1. TransportInv' /\ Kept /\ RequestKept
    BY <1>4, <1>6, <1>8, TransportSame DEF RequestKept
  <2>2. OtherSide(s, Other(k, p)) \in Peer
    BY <1>6, <1>8, SessionConstants DEF OtherSide, Mediates, TypeOK
  <2>3. PICK q \in Peer : q = OtherSide(s, Other(k, p))
    BY <2>2
  <2>4. wire' = Sent(w, p, q, m)
    BY <1>8, <2>3
  <2>5. \A j \in Attempt : MessageTrue(ch, q, j, m)'
    <3>1. Accepted(s) => Accepted(s)'
      BY <1>4, <1>8 DEF Accepted
    <3>2. QED
      BY <1>3, <1>4, <1>5, <3>1 DEF MessageTrue
  <2>6. wire' \in Wires /\ MessagesTrue(ch)' /\ OneRequest(wire)'
    BY <1>4, <1>6, <2>1, <2>4, <2>5, SendStep
  <2>7. TypeOK'
    BY <1>4, <1>6, <1>8, <2>1, <2>6 DEF TypeOK, TransportInv, TransportTyped, Wires
  <2>8. RolesTrue(ch)' /\ AwaitingTrue' /\ BufferedTrue'
    BY <1>4, <1>6, <1>8 DEF RolesTrue, RoleTrue, AwaitingTrue, BufferedTrue, Accepted
  <2>9. QED
    BY <1>1, <1>7, <2>1, <2>6, <2>7, <2>8, SameChoice
<1>9. CASE /\ buffered' = [buffered EXCEPT ![p][s] = m.body]
           /\ wire' = w
           /\ UNCHANGED <<pc, request, roles, awaiting>>
  <2>1. TransportInv' /\ Kept /\ RequestKept
    BY <1>4, <1>6, <1>9, TransportSame DEF RequestKept
  <2>2. wire' \in Wires /\ MessagesTrue(ch)' /\ OneRequest(wire)'
    BY <1>1, <1>4, <1>9, <2>1, TakeStep
  <2>3. buffered' \in [Peer -> [Session -> {"none", "offer", "answer"}]]
    BY <1>5, <1>6, <1>9 DEF TypeOK
  <2>4. TypeOK'
    BY <1>4, <1>6, <1>9, <2>1, <2>2, <2>3 DEF TypeOK, TransportInv, TransportTyped, Wires
  <2>5. RolesTrue(ch)' /\ AwaitingTrue'
    BY <1>4, <1>6, <1>9 DEF RolesTrue, RoleTrue, AwaitingTrue
  <2>6. BufferedTrue'
    <3> SUFFICES ASSUME NEW a \in Peer, NEW t \in Session, buffered'[a][t] # "none"
                 PROVE  ends'[t] # <<>> /\ (buffered'[a][t] = "answer" => Accepted(t)')
      BY DEF BufferedTrue
    <3>1. Accepted(t)' = Accepted(t)
      BY <1>4, <1>9 DEF Accepted
    <3>2. buffered'[a][t] = IF a = p /\ t = s THEN m.body ELSE buffered[a][t]
      BY <1>6, <1>9 DEF TypeOK
    <3>3. QED
      BY <1>5, <1>6, <1>7, <3>1, <3>2 DEF BufferedTrue
  <2>7. QED
    BY <1>1, <1>7, <2>1, <2>2, <2>4, <2>5, <2>6, SameChoice
<1>10. CASE /\ roles[p][s] # NoRole
            /\ ProcessRelay(p, s, roles[p][s], m.body, w)
            /\ UNCHANGED buffered
  <2>1. PICK r, blob : r = roles[p][s] /\ blob = m.body
    OBVIOUS
  <2>2. ProcessRelay(p, s, r, blob, w) /\ (blob = "answer" => Accepted(s))
    BY <1>5, <1>10, <2>1
  <2>3. /\ ch[s] # None
        /\ \/ p = By[s] /\ r = [role |-> "offerer", peer |-> ch[s]]
           \/ p = ch[s] /\ r = [role |-> "answerer", peer |-> By[s]]
    BY <1>6, <1>10, <2>1 DEF RolesTrue, RoleTrue
  <2>4. /\ buffered' \in [Peer -> [Session -> {"none", "offer", "answer"}]]
        /\ \A a \in Peer, t \in Session : buffered'[a][t] \in {"none", buffered[a][t]}
    BY <1>6, <1>10 DEF TypeOK
  <2>5. QED
    BY <1>1, <1>4, <1>5, <2>2, <2>3, <2>4, ProcessRelayStep
<1>11. QED
  BY <1>2, <1>3, <1>8, <1>9, <1>10 DEF HandleRelay

\* INTRO_FAILED.
LEMMA HandleFailedStep ==
  ASSUME IInv, NEW p \in Peer, NEW k \in Attempt, HandleFailed(p, k)
  PROVE  IInv'
<1>1. PICK ch \in Choice : SessionInv(ch)
  BY DEF IInv
<1>2. PICK m \in Message : m = Head(wire[p][k])
  BY <1>1, HeadTrue DEF HandleFailed, IInv, SessionInv
<1>3. PICK s \in Session, w \in Wires : s = m.session /\ w = Taken(p, k)
  BY <1>1, <1>2, HeadTrue DEF HandleFailed, IInv, SessionInv
<1>4. /\ m.type = "FAILED" /\ Dropped(w, wire)
      /\ UNCHANGED <<ends, pc, tables, lateClose, leaves, assigning, buffered, awaiting,
                     listening>>
  BY <1>1, <1>2, <1>3, HeadTrue DEF HandleFailed, IInv, SessionInv
<1>5. /\ TypeOK /\ TransportInv /\ OneRequest(wire) /\ wire \in Wires
      /\ MessagesTrue(ch) /\ RolesTrue(ch) /\ AwaitingTrue /\ BufferedTrue
  BY <1>1 DEF IInv, SessionInv, TypeOK, Wires
<1>6. TransportInv' /\ Kept
  BY <1>4, <1>5, TransportSame
<1>7. AwaitingTrue' /\ BufferedTrue'
  BY <1>4, <1>5 DEF AwaitingTrue, BufferedTrue, Accepted
<1>8. \A t \in Session : assigning'[t] \in {None, ch[t]} /\ ends'[t] = ends[t]
  BY <1>1, <1>4 DEF SessionInv, SessionTrue
<1>9. CASE /\ Mediates(p, s)
           /\ wire' = Sent(w, p, OtherSide(s, Other(k, p)), m)
           /\ mediating' = [mediating EXCEPT ![s] = None]
           /\ UNCHANGED <<request, roles>>
  <2>1. OtherSide(s, Other(k, p)) \in Peer
    BY <1>5, <1>9, SessionConstants DEF OtherSide, Mediates, TypeOK
  <2>2. PICK q \in Peer : q = OtherSide(s, Other(k, p))
    BY <2>1
  <2>3. wire' = Sent(w, p, q, m) /\ RequestKept
    BY <1>9, <2>2 DEF RequestKept
  <2>4. \A j \in Attempt : MessageTrue(ch, q, j, m)'
    BY <1>4 DEF MessageTrue
  <2>5. wire' \in Wires /\ MessagesTrue(ch)' /\ OneRequest(wire)'
    BY <1>4, <1>5, <1>6, <2>3, <2>4, SendStep
  <2>6. TypeOK'
    BY <1>4, <1>5, <1>6, <1>9, <2>5 DEF TypeOK, TransportInv, TransportTyped, Wires
  <2>7. RolesTrue(ch)'
    BY <1>5, <1>9 DEF RolesTrue, RoleTrue
  <2>8. QED
    BY <1>1, <1>6, <1>7, <1>8, <2>3, <2>5, <2>6, <2>7, SameChoice
<1>10. CASE /\ request' = Settled(p, s, "rejected")
            /\ Forget(p, s)
            /\ wire' = w
            /\ UNCHANGED mediating
  <2>1. /\ request' \in [Session -> {"none", "pending", "resolved", "rejected"}]
        /\ RequestKept
    BY <1>5, <1>10, SettledType DEF RequestKept
  <2>2. wire' \in Wires /\ MessagesTrue(ch)' /\ OneRequest(wire)'
    BY <1>1, <1>4, <1>6, <1>10, <2>1, TakeStep
  <2>3. RolesTrue(ch)' /\ roles' \in [Peer -> [Session -> Role]]
    BY <1>5, <1>10, RoleSet DEF Forget
  <2>4. TypeOK'
    BY <1>4, <1>5, <1>6, <1>10, <2>1, <2>2, <2>3 DEF TypeOK, TransportInv, TransportTyped, Wires
  <2>5. QED
    BY <1>1, <1>6, <1>7, <1>8, <2>1, <2>2, <2>3, <2>4, SameChoice
<1>11. QED
  BY <1>2, <1>3, <1>9, <1>10 DEF HandleFailed

\* A message that nobody hears, stop() and start().
LEMMA QuietStep ==
  ASSUME IInv, UNCHANGED <<ends, pc, tables, lateClose, request, mediating, assigning, roles,
                           buffered, awaiting>>,
         wire' \in Wires, Dropped(wire', wire), leaves' \in 0..MaxLeaves,
         listening' \in [Peer -> BOOLEAN]
  PROVE  IInv'
<1>1. PICK ch \in Choice : SessionInv(ch)
  BY DEF IInv
<1>2. /\ TypeOK /\ TransportInv /\ OneRequest(wire) /\ wire \in Wires
      /\ MessagesTrue(ch) /\ RolesTrue(ch) /\ AwaitingTrue /\ BufferedTrue
  BY <1>1 DEF IInv, SessionInv, TypeOK, Wires
<1>3. TransportInv' /\ Kept /\ RequestKept
  BY <1>2, TransportSame DEF RequestKept
<1>4. MessagesTrue(ch)' /\ OneRequest(wire)'
  BY <1>2, <1>3, DropStep
<1>5. TypeOK'
  BY <1>2, <1>3 DEF TypeOK, TransportInv, TransportTyped, Wires
<1>6. RolesTrue(ch)' /\ AwaitingTrue' /\ BufferedTrue'
  BY <1>2 DEF RolesTrue, RoleTrue, AwaitingTrue, BufferedTrue, Accepted
<1>7. \A t \in Session : assigning'[t] \in {None, ch[t]} /\ ends'[t] = ends[t]
  BY <1>1 DEF SessionInv, SessionTrue
<1>8. QED
  BY <1>1, <1>3, <1>4, <1>5, <1>6, <1>7, SameChoice

\* A message that arrives after stop().
LEMMA UnheardStep ==
  ASSUME IInv, NEW p \in Peer, NEW k \in Attempt, Unheard(p, k)
  PROVE  IInv'
<1>1. wire[p][k] # <<>> /\ wire' = Taken(p, k) /\ wire \in Wires
  BY DEF Unheard, IInv, TypeOK, Wires
<1>2. wire' \in Wires /\ Dropped(wire', wire)
  BY <1>1, TakenWire
<1>3. leaves' \in 0..MaxLeaves /\ listening' \in [Peer -> BOOLEAN]
  BY DEF Unheard, IInv, TypeOK, sessionVars
<1>4. QED
  BY <1>2, <1>3, QuietStep DEF Unheard, sessionVars

\* stop() and start().
LEMMA StopStep ==
  ASSUME IInv, NEW p \in Peer, Stop(p) \/ Start(p)
  PROVE  IInv'
<1>1. wire' = wire /\ wire \in Wires
  BY DEF Stop, Start, transportVars, IInv, TypeOK, Wires
<1>2. wire' \in Wires /\ Dropped(wire', wire)
  BY <1>1, Unchanged
<1>3. leaves' \in 0..MaxLeaves
  BY AttemptAssumption DEF Stop, Start, transportVars, IInv, TypeOK
<1>4. listening' \in [Peer -> BOOLEAN]
  BY DEF Stop, Start, IInv, TypeOK
<1>5. UNCHANGED <<ends, pc, tables, lateClose, request, mediating, assigning, roles,
                  buffered, awaiting>>
  BY DEF Stop, Start, transportVars
<1>6. QED
  BY <1>2, <1>3, <1>4, <1>5, QuietStep

\* A step of a transport that leaves the sessions' offers and waits as they are.
LEMMA TransportStep ==
  ASSUME IInv, TransportInv', Kept, UNCHANGED sessionVars,
         wire' \in Wires, Dropped(wire', wire), leaves' \in 0..MaxLeaves,
         \A s \in Session : ends'[s] = ends[s],
         \A p \in Peer, s \in Session : pc[p][s] = "answering" => pc'[p][s] = "answering"
  PROVE  IInv'
<1>1. PICK ch \in Choice : SessionInv(ch)
  BY DEF IInv
<1>2. /\ TypeOK /\ TransportInv /\ OneRequest(wire) /\ wire \in Wires
      /\ MessagesTrue(ch) /\ RolesTrue(ch) /\ AwaitingTrue /\ BufferedTrue
  BY <1>1 DEF IInv, SessionInv, TypeOK, Wires
<1>3. UNCHANGED <<request, mediating, assigning, roles, buffered, awaiting, listening>>
  BY DEF sessionVars
<1>4. RequestKept
  BY <1>3 DEF RequestKept
<1>5. MessagesTrue(ch)' /\ OneRequest(wire)'
  BY <1>2, <1>4, DropStep
<1>6. TypeOK'
  BY <1>2, <1>3 DEF TypeOK, TransportInv, TransportTyped, Wires
<1>7. RolesTrue(ch)'
  BY <1>2, <1>3 DEF RolesTrue, RoleTrue
<1>8. AwaitingTrue' /\ BufferedTrue'
  BY <1>2, <1>3, BlobsStay
<1>9. \A t \in Session : assigning'[t] \in {None, ch[t]}
  BY <1>1, <1>3 DEF SessionInv, SessionTrue
<1>10. QED
  BY <1>1, <1>4, <1>5, <1>6, <1>7, <1>8, <1>9, SameChoice

\* What closes is not an answer in the making.
LEMMA ClosingStep ==
  ASSUME IInv, NEW p \in Peer, NEW Q \in SUBSET Peer, NEW gone \in SUBSET Attempt,
         \A k \in gone : /\ pc[p][k] \in {"complete", "wired", "open", "closed"}
                         /\ Other(k, p) \in Q,
         CloseLinks(p, Q, gone), leaves' \in 0..MaxLeaves, UNCHANGED ends, UNCHANGED sessionVars
  PROVE  IInv'
<1>1. TransportInv /\ wire \in Wires
  BY DEF IInv, TypeOK, Wires
<1>2. TransportInv' /\ Kept
  BY <1>1, CloseLinksStep
<1>3. wire' \in Wires /\ Dropped(wire', wire)
  BY <1>1, ClosedWire
<1> DEFINE closing == {links[p][q] : q \in {r \in Q : links[p][r] # None}}
<1>4. pc' = [pc EXCEPT ![p] = [k \in Attempt |-> IF k \in closing \cup gone THEN "closed" ELSE @[k]]]
  BY DEF CloseLinks
<1>5. \A k \in closing \cup gone : pc[p][k] # "answering"
  BY <1>1 DEF TransportInv, TableTrue
<1> HIDE DEF closing
<1>6. \A a \in Peer, s \in Session : pc[a][s] = "answering" => pc'[a][s] = "answering"
  BY <1>1, <1>4, <1>5, SessionIsAttempt DEF TransportInv, TransportTyped
<1>7. QED
  BY <1>2, <1>3, <1>6, TransportStep

\* People carry a blob of an attempt that is no session.
LEMMA CarryStep ==
  ASSUME IInv, NEW p \in Peer, NEW k \in ByHand, Carry(p, k), UNCHANGED sessionVars
  PROVE  IInv'
<1>1. /\ TransportInv /\ TypeOK /\ wire \in Wires /\ k \in Attempt /\ k \notin Session
  BY AttemptAssumption, SessionAssumption DEF IInv, TypeOK, Wires
<1>2. /\ wire' = wire /\ leaves' = leaves
  BY DEF Carry
<1>3. wire' \in Wires /\ Dropped(wire', wire) /\ leaves' \in 0..MaxLeaves
  BY <1>1, <1>2, Unchanged DEF TypeOK
<1>4. CASE \E q \in Peer : <<p, q>> \in Carriers /\ CreateOffer(p, q, k)
  <2>1. PICK q \in Peer : CreateOffer(p, q, k)
    BY <1>4
  <2>2. TransportInv' /\ Kept
    BY <1>1, <2>1, CreateOfferStep
  <2>3. ends' = [ends EXCEPT ![k] = <<p, q>>] /\ pc' = [pc EXCEPT ![p][k] = "gathering"]
    BY <2>1 DEF CreateOffer
  <2>4. /\ \A s \in Session : ends'[s] = ends[s]
        /\ \A a \in Peer, s \in Session : pc'[a][s] = pc[a][s]
    BY <1>1, <2>3, SessionIsAttempt DEF TypeOK
  <2>5. QED
    BY <1>3, <2>2, <2>4, TransportStep
<1>5. CASE /\ \/ pc[p][k] = "gathering" /\ Offered(p, k)
              \/ pc[p][k] = "answering" /\ Answered(p, k)
           /\ UNCHANGED <<ends, tables, lateClose>>
  <2>1. PICK stage \in {"offered", "answered"} :
          /\ pc' = [pc EXCEPT ![p][k] = stage]
          /\ \/ pc[p][k] = "gathering" /\ stage = "offered"
             \/ pc[p][k] = "answering" /\ stage = "answered"
    BY <1>1, <1>5 DEF Offered, Answered, TypeOK
  <2>2. stage \in PcState
    BY DEF PcState
  <2>3. TransportInv' /\ Kept
    BY <1>1, <1>5, <2>1, <2>2, StageStep
  <2>4. \A a \in Peer, s \in Session : pc'[a][s] = pc[a][s]
    BY <1>1, <2>1, SessionIsAttempt DEF TypeOK
  <2>5. QED
    BY <1>3, <1>5, <2>3, <2>4, TransportStep
<1>6. CASE /\ ends[k] # <<>> /\ p = ends[k][2] /\ AcceptOffer(p, k)
           /\ UNCHANGED <<ends, tables, lateClose>>
  <2>1. /\ TransportInv' /\ Kept
        /\ \A a \in Peer, j \in Attempt : pc[a][j] = "answering" => pc'[a][j] = "answering"
    BY <1>1, <1>6, AcceptOfferStep
  <2>2. QED
    BY <1>3, <1>6, <2>1, TransportStep, SessionIsAttempt
<1>7. CASE /\ ends[k] # <<>> /\ p = ends[k][1] /\ pc[ends[k][2]][k] \notin {"none", "answering"}
           /\ CompleteConnection(p, ends[k][2], k)
           /\ UNCHANGED <<ends, tables, lateClose>>
  <2>1. PICK q \in Peer : q = ends[k][2] /\ ends[k] = <<p, q>>
    BY <1>1, <1>7, TwoEnds
  <2>2. CompleteConnection(p, q, k) /\ Accepted(k)
    BY <1>7, <2>1 DEF Accepted
  <2>3. /\ TransportInv' /\ Kept
        /\ \A a \in Peer, j \in Attempt : pc[a][j] = "answering" => pc'[a][j] = "answering"
    BY <1>1, <1>7, <2>1, <2>2, CompleteConnectionStep
  <2>4. QED
    BY <1>3, <1>7, <2>3, TransportStep, SessionIsAttempt
<1>8. QED
  BY <1>4, <1>5, <1>6, <1>7 DEF Carry

\* What the browser calls, disconnect() and blobs carried by hand.
LEMMA TransportNextStep ==
  ASSUME IInv, NEW p \in Peer, TransportNext(p), UNCHANGED sessionVars
  PROVE  IInv'
<1>1. /\ TransportInv /\ TypeOK /\ wire \in Wires
  BY DEF IInv, TypeOK, Wires
<1>2. ASSUME NEW k \in Attempt, OnDataChannel(p, k) PROVE IInv'
  <2>1. TransportInv' /\ Kept
    BY <1>1, <1>2, OnDataChannelStep
  <2>2. /\ pc[p][k] = "answered" /\ pc' = [pc EXCEPT ![p][k] = "wired"]
        /\ ends' = ends /\ wire' = wire /\ leaves' = leaves
    BY <1>2 DEF OnDataChannel
  <2>3. wire' \in Wires /\ Dropped(wire', wire) /\ leaves' \in 0..MaxLeaves
    BY <1>1, <2>2, Unchanged DEF TypeOK
  <2>4. \A a \in Peer, s \in Session : pc[a][s] = "answering" => pc'[a][s] = "answering"
    BY <1>1, <2>2, SessionIsAttempt DEF TypeOK
  <2>5. QED
    BY <2>1, <2>2, <2>3, <2>4, TransportStep
<1>3. ASSUME NEW k \in Attempt, OnOpen(p, k) PROVE IInv'
  <2>1. TransportInv' /\ Kept
    BY <1>1, <1>3, OnOpenStep
  <2>2. /\ pc[p][k] \in {"complete", "wired"} /\ pc' = [pc EXCEPT ![p][k] = "open"]
        /\ ends' = ends /\ wire' = wire /\ leaves' = leaves
    BY <1>3 DEF OnOpen
  <2>3. wire' \in Wires /\ Dropped(wire', wire) /\ leaves' \in 0..MaxLeaves
    BY <1>1, <2>2, Unchanged DEF TypeOK
  <2>4. \A a \in Peer, s \in Session : pc[a][s] = "answering" => pc'[a][s] = "answering"
    BY <1>1, <2>2, SessionIsAttempt DEF TypeOK
  <2>5. QED
    BY <2>1, <2>2, <2>3, <2>4, TransportStep
<1>4. ASSUME NEW k \in Attempt, OnClose(p, k) PROVE IInv'
  <2>1. pc[p][k] \in {"complete", "wired", "open", "closed"}
    BY <1>1, <1>4 DEF OnClose, TransportInv, LateCloseTrue
  <2>2. ends[k] # <<>>
    BY <1>1, <2>1 DEF TransportInv, EndsHold
  <2>3. PICK q \in Peer : q = Other(k, p)
    BY <1>1, <2>2, TwoEnds DEF Other
  <2>4. CloseLinks(p, {q}, {k}) /\ UNCHANGED ends /\ leaves' \in 0..MaxLeaves
    BY <1>1, <1>4, <2>3 DEF OnClose, TypeOK
  <2>5. {q} \in SUBSET Peer /\ {k} \in SUBSET Attempt
    OBVIOUS
  <2>6. \A j \in {k} : pc[p][j] \in {"complete", "wired", "open", "closed"} /\ Other(j, p) \in {q}
    BY <2>1, <2>3
  <2>7. QED
    BY <2>4, <2>5, <2>6, ClosingStep
<1>5. ASSUME Disconnect(p) PROVE IInv'
  <2>1. CloseLinks(p, Peer, {}) /\ UNCHANGED ends
    BY <1>5 DEF Disconnect
  <2>2. leaves' \in 0..MaxLeaves
    BY <1>1, <1>5, AttemptAssumption DEF Disconnect, TypeOK
  <2>3. QED
    BY <2>1, <2>2, ClosingStep
<1>6. QED
  BY <1>2, <1>3, <1>4, <1>5, CarryStep DEF TransportNext
-----------------------------------------------------------------------------
(* The theorems.                                                           *)

\* Every step keeps the invariant.
LEMMA NextIInv == IInv /\ [Next]_vars => IInv'
<1> SUFFICES ASSUME IInv, [Next]_vars PROVE IInv'
  OBVIOUS
<1>1. ASSUME NEW p \in Peer, Handler(p) PROVE IInv'
  BY <1>1, HandleRequestStep, HandleAssignStep, HandleRelayStep, HandleFailedStep, UnheardStep,
     AssignAnswererStep, OfferReadyStep, AnswerReadyStep DEF Handler
<1>2. ASSUME NEW p \in Peer, TransportNext(p), UNCHANGED sessionVars PROVE IInv'
  BY <1>2, TransportNextStep
<1>3. ASSUME NEW p \in Peer, Stop(p) \/ Start(p) PROVE IInv'
  BY <1>3, StopStep
<1>4. ASSUME NEW s \in Session, RequestIntroduction(s) PROVE IInv'
  BY <1>4, RequestIntroductionStep
<1>5. CASE UNCHANGED vars
  <2>1. /\ UNCHANGED <<ends, pc, tables, lateClose, request, mediating, assigning, roles,
                       buffered, awaiting>>
        /\ wire' = wire /\ leaves' = leaves /\ listening' = listening
    BY <1>5 DEF vars, transportVars, sessionVars
  <2>2. wire' \in Wires /\ Dropped(wire', wire) /\ leaves' \in 0..MaxLeaves
        /\ listening' \in [Peer -> BOOLEAN]
    BY <2>1, Unchanged DEF IInv, TypeOK, Wires
  <2>3. QED
    BY <2>1, <2>2, QuietStep
<1>6. QED
  BY <1>1, <1>2, <1>3, <1>4, <1>5 DEF Next

\* The inductive invariant, of the tables, the sessions and the messages.
THEOREM Invariance == Spec => []IInv
BY InitIInv, NextIInv, PTL DEF Spec

\* Every variable keeps its type: a message is one of the four types, and what is
\* buffered is a blob.
THEOREM TypeCorrect == Spec => []TypeOK
<1>1. IInv => TypeOK
  BY DEF IInv
<1>2. QED
  BY <1>1, Invariance, PTL

\* Whoever peers() names can be sent to, whatever channels come and go late.
THEOREM OpenIsLinked == Spec => []OpenPeersAreLinked
<1>1. IInv => OpenPeersAreLinked
  BY DEF IInv, TransportInv
<1>2. QED
  BY <1>1, Invariance, PTL

\* A connection whose answer is set or whose channel is announced is in the
\* table, so that disconnect() and send() find it.
THEOREM NoConnectionIsLost == Spec => []ConnectedIsLinked
<1>1. IInv => ConnectedIsLinked
  BY DEF IInv, TransportInv
<1>2. QED
  BY <1>1, Invariance, PTL

\* However many attempts there are between two peers, by hand or introduced, one
\* at most is open at both ends.
THEOREM OneConnection == Spec => []AtMostOneConnection
<1>1. ASSUME TransportInv PROVE AtMostOneConnection
  <2> SUFFICES ASSUME NEW j \in Attempt, NEW k \in Attempt, ends[j] # <<>>, ends[k] # <<>>,
                      Range(ends[j]) = Range(ends[k]),
                      \A p \in Range(ends[j]) : pc[p][j] = "open" /\ pc[p][k] = "open"
               PROVE  j = k
    BY DEF AtMostOneConnection
  <2>1. /\ ends[j][1] \in Peer /\ ends[j][1] # ends[j][2] /\ ends[j] \in Peer \X Peer
        /\ Other(j, ends[j][1]) = ends[j][2]
        /\ ends[k] \in Peer \X Peer /\ ends[k][1] # ends[k][2]
    BY <1>1, TwoEnds DEF TransportInv, TransportTyped
  <2>2. Range(ends[j]) = {ends[j][1], ends[j][2]} /\ Range(ends[k]) = {ends[k][1], ends[k][2]}
    BY <2>1, PairRange
  <2>3. PICK p \in Peer : p = ends[j][1]
    BY <2>1
  <2>4. Other(k, p) = Other(j, p)
    BY <2>1, <2>2, <2>3 DEF Other
  <2>5. pc[p][j] = "open" /\ pc[p][k] = "open"
    BY <2>2, <2>3
  <2>6. links[p][Other(j, p)] = j /\ links[p][Other(k, p)] = k
    BY <1>1, <2>5 DEF TransportInv, ConnectedIsLinked
  <2>7. QED
    BY <2>4, <2>6
<1>2. IInv => AtMostOneConnection
  BY <1>1 DEF IInv
<1>3. QED
  BY <1>2, Invariance, PTL
=============================================================================
