---------------------------- MODULE ArchiveProofs ----------------------------
(***************************************************************************)
(* Proofs about Archive, for any nodes, wallets, calls and limits, any     *)
(* number of crashes and any length of time.                               *)
(***************************************************************************)
EXTENDS Archive, FiniteSetTheorems, NaturalsInduction, WellFoundedInduction, TLAPS
-----------------------------------------------------------------------------
(* The maximum of a bounded set of natural numbers.                        *)

LEMMA MaxOfBounded ==
  ASSUME NEW B \in Nat, NEW S \in SUBSET (0..B), S # {}
  PROVE  Max(S) \in S /\ \A x \in S : x <= Max(S)
<1> DEFINE R == {ss \in Nat \X Nat : ss[1] < ss[2]}
           D == {B - x : x \in S}
<1>1. D \subseteq Nat
  OBVIOUS
<1>2. D # {}
  OBVIOUS
<1>3. IsWellFoundedOn(R, Nat)
  <2>1. R = OpToRel(<, Nat)
    BY DEF OpToRel
  <2> QED
    BY <2>1, NatLessThanWellFounded
<1>4. PICK m \in D : \A y \in D : <<y, m>> \notin R
  <2> HIDE DEF D, R
  <2> QED
    BY <1>1, <1>2, <1>3, WFMin
<1>5. ASSUME NEW y \in D PROVE m <= y
  <2>1. y \in Nat /\ m \in Nat /\ <<y, m>> \notin R
    BY <1>1, <1>4
  <2> QED
    BY <2>1
<1>6. PICK x \in S : m = B - x
  OBVIOUS
<1>7. \A y \in S : x >= y
  BY <1>5, <1>6
<1> QED
  BY <1>7 DEF Max
-----------------------------------------------------------------------------
(* Types.                                                                  *)

\* TypeOK without the bound on the count, which the types alone do not keep.
TypeInv == Types(Nat)

LEMMA TypeInit == Init => TypeInv
BY ArchiveAssumption
   DEF Init, TypeInv, Types, Stamp, PutRecord, PutState, GotState, NoBackup, Pending, Failed

\* The backups that n acknowledged for d, and what Acked makes of them.
AckedSet(n, d) ==
  {push[k].createdAt : k \in {j \in Push : push[j].domain = d /\ got[j][n] = "ok"}}

LEMMA AckedIsMax ==
  ASSUME TypeInv, NEW n \in Node, NEW d \in Domain
  PROVE  /\ Acked(n, d) \in {NoBackup} \cup AckedSet(n, d)
         /\ \A x \in {NoBackup} \cup AckedSet(n, d) : x <= Acked(n, d)
<1> DEFINE S == {NoBackup} \cup AckedSet(n, d)
           B == MaxTime + FutureSkew + 1
<1>1. B \in Nat
  BY ArchiveAssumption
<1>2. \A k \in Push : push[k].createdAt \in 1..B
  BY DEF TypeInv, Types, Stamp
<1>3. AckedSet(n, d) \subseteq 1..B
  BY <1>2 DEF AckedSet
<1>4. S \in SUBSET (0..B) /\ S # {}
  BY <1>1, <1>3 DEF NoBackup
<1>5. Acked(n, d) = Max(S)
  BY DEF Acked, AckedSet
<1> QED
  <2> HIDE DEF S, B
  <2>1. Max(S) \in S /\ \A x \in S : x <= Max(S)
    BY <1>1, <1>4, MaxOfBounded
  <2> QED
    BY <1>5, <2>1 DEF S

LEMMA AckedType ==
  ASSUME TypeInv, NEW n \in Node, NEW d \in Domain
  PROVE  Acked(n, d) \in Stamp \cup {NoBackup}
BY AckedIsMax DEF TypeInv, Types, AckedSet

\* Either nothing is written, or a backup newer than what was read of the file.
LEMMA StoreCases ==
  ASSUME NEW k \in Push, NEW n \in Node, Store(k, n)
  PROVE  \/ UNCHANGED <<file, domains, blind>>
         \/ \E known \in Known(n, push[k].domain) :
              LET d == push[k].domain IN
              /\ NotFuture(k, n) /\ Newer(k, known) /\ Room(n, known)
              /\ file' = [file EXCEPT ![n][d] = push[k].createdAt]
              /\ domains' = [domains EXCEPT ![n] = IF known = NoBackup THEN @ + 1 ELSE @]
              /\ blind' = [blind EXCEPT ![n] = IF known = file[n][d] THEN @ ELSE @ \cup {k}]
BY DEF Store

LEMMA TypeStep == TypeInv /\ [Next]_vars => TypeInv'
<1> SUFFICES ASSUME TypeInv, [Next]_vars PROVE TypeInv'
  OBVIOUS
<1> USE DEF TypeInv, Types
<1>1. ASSUME NEW k \in Push, NEW n \in Node, Receive(k, n) PROVE TypeInv'
  <2>1. writes' \in [Node -> [Address -> SUBSET Write]]
    <3>1. /\ AddressOf[push[k].domain] \in Address
          /\ Recent(n, AddressOf[push[k].domain], clock) \subseteq Write
      BY ArchiveAssumption DEF Recent
    <3>2. [call |-> k, time |-> clock] \in Write
      BY DEF Write
    <3> QED
      BY <1>1, <3>1, <3>2 DEF Receive
  <2>2. put' \in [Push -> [Node -> PutRecord]]
    BY <1>1, ArchiveAssumption DEF Receive, Finished, PutRecord, PutState
  <2> QED
    BY <1>1, <2>1, <2>2 DEF Receive
<1>2. ASSUME NEW k \in Push, NEW n \in Node, Refuse(k, n) PROVE TypeInv'
  BY <1>2 DEF Refuse, serverVars, Finished, PutRecord, PutState
<1>3. ASSUME NEW k \in Push, NEW n \in Node, Store(k, n) PROVE TypeInv'
  <2>1. push[k].domain \in Domain /\ push[k].createdAt \in Stamp
    OBVIOUS
  <2>2. put' \in [Push -> [Node -> PutRecord]]
    BY <1>3 DEF Store, Finished, PutRecord, PutState
  <2>3. /\ file' \in [Node -> [Domain -> Stamp \cup {NoBackup}]]
        /\ domains' \in [Node -> Nat]
        /\ blind' \in [Node -> SUBSET Push]
    <3>1. CASE UNCHANGED <<file, domains, blind>>
      BY <3>1
    <3>2. CASE ~UNCHANGED <<file, domains, blind>>
      <4>1. PICK known \in Known(n, push[k].domain) :
              /\ file' = [file EXCEPT ![n][push[k].domain] = push[k].createdAt]
              /\ domains' = [domains EXCEPT ![n] = IF known = NoBackup THEN @ + 1 ELSE @]
              /\ blind' = [blind EXCEPT ![n] =
                             IF known = file[n][push[k].domain] THEN @ ELSE @ \cup {k}]
        BY <1>3, <3>2, StoreCases
      <4>2. file' \in [Node -> [Domain -> Stamp \cup {NoBackup}]]
        BY <2>1, <4>1
      <4>3. domains' \in [Node -> Nat]
        BY <4>1
      <4>4. blind' \in [Node -> SUBSET Push]
        BY <4>1
      <4> QED
        BY <4>2, <4>3, <4>4
    <3> QED
      BY <3>1, <3>2
  <2> QED
    BY <1>3, <2>2, <2>3 DEF Store
<1>4. ASSUME NEW n \in Node, Crash(n) \/ FetchCrashes(n) PROVE TypeInv'
  <2>1. Exit(n)
    BY <1>4 DEF Crash, FetchCrashes
  <2>2. crashes' \in 0..MaxCrashes
    BY <2>1, ArchiveAssumption DEF Exit
  <2>3. put' \in [Push -> [Node -> PutRecord]]
    BY <2>1 DEF Exit, Finished, PutRecord, PutState
  <2>4. fetch' \in [at : {"none", "asking", "done"}, domain : Domain,
                    answer : [Node -> Stamp \cup {NoBackup, Failed, Pending}],
                    floor : [Node -> Stamp \cup {NoBackup}]]
    <3>1. CASE Crash(n)
      BY <3>1 DEF Crash
    <3>2. CASE FetchCrashes(n)
      BY <3>2 DEF FetchCrashes, Asked
    <3> QED
      BY <1>4, <3>1, <3>2
  <2> QED
    BY <2>1, <2>2, <2>3, <2>4 DEF Exit
<1>5. ASSUME NEW n \in Node, Restart(n) PROVE TypeInv'
  <2>1. IsFiniteSet(Held(n))
    BY ArchiveAssumption, FS_Subset DEF Held
  <2>2. Cardinality(Held(n)) \in Nat
    BY <2>1, FS_CardinalityType
  <2>3. writes' \in [Node -> [Address -> SUBSET Write]]
    BY <1>5 DEF Restart
  <2> QED
    BY <1>5, <2>2, <2>3 DEF Restart, pushVars
<1>6. ASSUME NEW k \in Push, NEW d \in Domain, NEW t \in Stamp, PushToNodes(k, d, t)
      PROVE  TypeInv'
  BY <1>6, ArchiveAssumption
     DEF PushToNodes, serverVars, PutRecord, PutState, GotState
<1>7. ASSUME NEW k \in Push, NEW n \in Node, Answer(k, n) PROVE TypeInv'
  BY <1>7 DEF Answer, serverVars, PutRecord, PutState, GotState
<1>8. ASSUME NEW k \in Push, NEW n \in Node, GiveUp(k, n) PROVE TypeInv'
  BY <1>8 DEF GiveUp, serverVars, PutRecord, PutState, GotState
<1>9. ASSUME Tick PROVE TypeInv'
  BY <1>9, ArchiveAssumption DEF Tick, pushVars, serverVars
<1>10. ASSUME NEW d \in Domain, FetchFromNodes(d) PROVE TypeInv'
  BY <1>10, AckedType DEF FetchFromNodes, pushVars, serverVars
<1>11. ASSUME NEW n \in Node, AnswerFetch(n) PROVE TypeInv'
  BY <1>11 DEF AnswerFetch, Asked, pushVars, serverVars
<1>12. CASE FetchDone
  BY <1>12 DEF FetchDone, Asked, pushVars, serverVars
<1>13. CASE UNCHANGED vars
  BY <1>13 DEF vars
<1> QED
  BY <1>1, <1>2, <1>3, <1>4, <1>5, <1>6, <1>7, <1>8, <1>9, <1>10, <1>11, <1>12, <1>13,
     ArchiveAssumption
     DEF Next, Server, Client

-----------------------------------------------------------------------------
(* Where a PUT is.                                                         *)

\* A PUT that has not arrived has no time, and neither has one not sent.
TimedOnArrival == \A k \in Push, n \in Node :
  /\ got[k][n] = "none" => put[k][n].at = "none"
  /\ put[k][n].at \in {"none", "sent"} => put[k][n].now = 0

LEMMA TimedOnArrivalStep ==
  ASSUME TypeInv, TimedOnArrival, [Next]_vars
  PROVE  TimedOnArrival'
<1> USE DEF TypeInv, Types
<1>1. ASSUME NEW k \in Push, NEW n \in Node,
             Receive(k, n) \/ Refuse(k, n) \/ Store(k, n) \/ Answer(k, n) \/ GiveUp(k, n)
      PROVE  TimedOnArrival'
  <2>1. ASSUME NEW j \in Push, NEW m \in Node, j # k \/ m # n
        PROVE  put'[j][m] = put[j][m] /\ got'[j][m] = got[j][m]
    BY <1>1, <2>1 DEF Receive, Refuse, Store, Answer, GiveUp
  <2>2. /\ got'[k][n] = "none" => put'[k][n].at = "none"
        /\ put'[k][n].at \in {"none", "sent"} => put'[k][n].now = 0
    BY <1>1 DEF Receive, Refuse, Store, Answer, GiveUp, Finished, TimedOnArrival, PutRecord
  <2> HIDE DEF TypeInv, Types
  <2> QED
    BY <2>1, <2>2 DEF TimedOnArrival
<1>2. ASSUME NEW n \in Node, Exit(n) PROVE TimedOnArrival'
  BY <1>2 DEF Exit, Finished, TimedOnArrival
<1>3. ASSUME NEW k \in Push, NEW d \in Domain, NEW t \in Stamp, PushToNodes(k, d, t)
      PROVE  TimedOnArrival'
  BY <1>3 DEF PushToNodes, TimedOnArrival
<1>4. CASE UNCHANGED <<put, got>>
  BY <1>4 DEF TimedOnArrival
<1> QED
  BY <1>1, <1>2, <1>3, <1>4
     DEF Next, Server, Client, Crash, Restart, FetchFromNodes, AnswerFetch, FetchCrashes,
         FetchDone, Tick, vars, pushVars

\* What a PUT wrote over an unread file it wrote at the end, and the call it is of
\* is not made again.
BlindInv ==
  \A k \in Push, n \in Node : k \in blind[n] =>
    put[k][n].at \in {"200", "error", "over"} /\ got[k][n] # "none"

BlindFinite == \A n \in Node : IsFiniteSet(blind[n])

PutInv == TimedOnArrival /\ BlindInv /\ BlindFinite

LEMMA BlindStep ==
  ASSUME TypeInv, PutInv, [Next]_vars
  PROVE  /\ BlindInv' /\ BlindFinite'
         /\ \A n \in Node, d \in Domain : BlindFor(n, d) \subseteq BlindFor(n, d)'
<1> USE DEF TypeInv, Types, PutInv
<1>1. ASSUME \A k \in Push, n \in Node :
               k \in blind[n] => k \in blind'[n] /\ push'[k] = push[k]
      PROVE  \A n \in Node, d \in Domain : BlindFor(n, d) \subseteq BlindFor(n, d)'
  <2> HIDE DEF TypeInv, Types, PutInv
  <2> SUFFICES ASSUME NEW n \in Node, NEW d \in Domain, NEW k \in BlindFor(n, d)
               PROVE  k \in BlindFor(n, d)'
    OBVIOUS
  <2> QED
    BY <1>1 DEF BlindFor, TypeInv, Types
<1>2. ASSUME NEW k \in Push, NEW n \in Node, Store(k, n)
      PROVE  /\ BlindInv' /\ BlindFinite'
             /\ \A m \in Node, d \in Domain : BlindFor(m, d) \subseteq BlindFor(m, d)'
  <2>1. \A m \in Node : blind'[m] = blind[m] \/ (m = n /\ blind'[m] = blind[m] \cup {k})
    <3>1. CASE UNCHANGED blind
      BY <3>1
    <3>2. CASE blind' = [blind EXCEPT ![n] = @ \cup {k}]
      BY <3>2
    <3> QED
      BY <1>2, <3>1, <3>2 DEF Store
  <2>2. /\ \A j \in Push, m \in Node : j # k \/ m # n => put'[j][m] = put[j][m]
        /\ put'[k][n].at \in {"200", "error", "over"} /\ put[k][n].at = "reading"
        /\ UNCHANGED <<push, got>>
    BY <1>2 DEF Store, Finished
  <2>3. got[k][n] # "none"
    BY <2>2 DEF TimedOnArrival
  <2>4. BlindFinite'
    <3>1. \A m \in Node : IsFiniteSet(blind[m]) /\ IsFiniteSet(blind[m] \cup {k})
      BY FS_AddElement DEF BlindFinite
    <3> HIDE DEF TypeInv, Types
    <3> QED
      BY <2>1, <3>1 DEF BlindFinite
  <2>5. BlindInv'
    <3> HIDE DEF TypeInv, Types
    <3> QED
      BY <2>1, <2>2, <2>3 DEF BlindInv
  <2> QED
    BY <1>1, <2>1, <2>2, <2>4, <2>5
<1>3. ASSUME NEW k \in Push, NEW d \in Domain, NEW t \in Stamp, PushToNodes(k, d, t)
      PROVE  /\ BlindInv' /\ UNCHANGED blind
             /\ \A j \in Push : push'[j] = push[j] \/ \A n \in Node : j \notin blind[n]
  <2>1. \A n \in Node : k \notin blind[n]
    BY <1>3 DEF PushToNodes, BlindInv
  <2>2. /\ UNCHANGED blind
        /\ \A j \in Push : j # k => /\ push'[j] = push[j]
                                    /\ put'[j] = put[j] /\ got'[j] = got[j]
    BY <1>3 DEF PushToNodes, serverVars
  <2> HIDE DEF TypeInv, Types
  <2> QED
    BY <2>1, <2>2 DEF BlindInv
<1>4. ASSUME NEW k \in Push, NEW n \in Node,
             Receive(k, n) \/ Refuse(k, n) \/ Answer(k, n) \/ GiveUp(k, n)
      PROVE  BlindInv' /\ UNCHANGED <<blind, push>>
  <2>1. \A j \in Push, m \in Node :
          j # k \/ m # n => put'[j][m] = put[j][m] /\ got'[j][m] = got[j][m]
    BY <1>4 DEF Receive, Refuse, Answer, GiveUp
  <2>2. /\ put[k][n].at \in {"sent", "reading"} \/ put'[k][n].at \in {put[k][n].at, "over"}
        /\ got[k][n] # "none" => got'[k][n] # "none"
    BY <1>4 DEF Receive, Refuse, Answer, GiveUp
  <2>3. UNCHANGED <<blind, push>>
    BY <1>4 DEF Receive, Refuse, Answer, GiveUp, serverVars
  <2> HIDE DEF TypeInv, Types
  <2> QED
    BY <2>1, <2>2, <2>3 DEF BlindInv
<1>5. ASSUME NEW n \in Node, Exit(n) PROVE BlindInv' /\ UNCHANGED <<blind, push>>
  BY <1>5 DEF Exit, Finished, BlindInv
<1>6. ASSUME UNCHANGED <<blind, put, got, push>>
      PROVE  BlindInv' /\ UNCHANGED <<blind, push>>
  <2> HIDE DEF TypeInv, Types
  <2> QED
    BY <1>6 DEF BlindInv
<1>7. UNCHANGED blind => BlindFinite'
  BY DEF BlindFinite
<1> QED
  BY <1>1, <1>2, <1>3, <1>4, <1>5, <1>6, <1>7
     DEF Next, Server, Client, Crash, FetchCrashes, Restart, FetchFromNodes, AnswerFetch,
         FetchDone, Tick, vars, pushVars, serverVars

LEMMA PutInit == Init => PutInv
BY FS_EmptySet DEF Init, PutInv, TimedOnArrival, BlindInv, BlindFinite

LEMMA PutStep ==
  ASSUME TypeInv, PutInv, [Next]_vars
  PROVE  PutInv'
BY TimedOnArrivalStep, BlindStep DEF PutInv
-----------------------------------------------------------------------------
(* Files only get newer.                                                   *)

\* A newer backup is written, or the PUT is one of those that read nothing.
LEMMA FilesGrow ==
  ASSUME TypeInv, PutInv, [Next]_vars
  PROVE  \A n \in Node, d \in Domain :
           file[n][d] <= file'[n][d] \/ BlindFor(n, d)' # BlindFor(n, d)
<1> USE DEF TypeInv, Types
<1>1. \A n \in Node, d \in Domain : file[n][d] \in Nat
  BY ArchiveAssumption DEF Stamp, NoBackup
<1>2. CASE UNCHANGED file
  BY <1>1, <1>2
<1>3. ASSUME NEW k \in Push, NEW n \in Node, Store(k, n)
      PROVE  \A m \in Node, d \in Domain :
               file[m][d] <= file'[m][d] \/ BlindFor(m, d)' # BlindFor(m, d)
  <2> DEFINE e == push[k].domain
  <2>1. e \in Domain /\ push[k].createdAt \in Nat /\ UNCHANGED push
    BY <1>3, ArchiveAssumption DEF Stamp, Store
  <2>2. SUFFICES ASSUME ~UNCHANGED <<file, domains, blind>>
                 PROVE  \A m \in Node, d \in Domain :
                          file[m][d] <= file'[m][d] \/ BlindFor(m, d)' # BlindFor(m, d)
    BY <1>2
  <2>3. PICK known \in Known(n, e) :
           /\ Newer(k, known)
           /\ file' = [file EXCEPT ![n][e] = push[k].createdAt]
           /\ blind' = [blind EXCEPT ![n] = IF known = file[n][e] THEN @ ELSE @ \cup {k}]
    BY <1>3, <2>2, StoreCases
  <2>4. CASE known = file[n][e]
    BY <1>1, <2>1, <2>3, <2>4 DEF Newer
  <2>5. CASE known # file[n][e]
    <3>1. k \notin blind[n]
      BY <1>3 DEF Store, PutInv, BlindInv
    <3>2. \A d \in Domain : d = e => k \in BlindFor(n, d)' /\ k \notin BlindFor(n, d)
      BY <2>1, <2>3, <2>5, <3>1 DEF BlindFor
    <3>3. \A m \in Node, d \in Domain : m # n \/ d # e => file'[m][d] = file[m][d]
      BY <2>1, <2>3
    <3> HIDE DEF TypeInv, Types, e
    <3>4. \A m \in Node, d \in Domain : m = n /\ d = e => BlindFor(m, d)' # BlindFor(m, d)
      <4>1. ASSUME NEW d \in Domain, d = e PROVE BlindFor(n, d)' # BlindFor(n, d)
        BY <3>2, <4>1
      <4> QED
        BY <4>1 DEF BlindFor
    <3>5. ASSUME NEW m \in Node, NEW d \in Domain
          PROVE  file[m][d] <= file'[m][d] \/ BlindFor(m, d)' # BlindFor(m, d)
      <4>1. CASE m = n /\ d = e
        BY <3>4, <4>1
      <4>2. CASE m # n \/ d # e
        BY <1>1, <3>3, <4>2
      <4> QED
        BY <4>1, <4>2
    <3> QED
      BY <3>5
  <2> QED
    BY <2>4, <2>5
<1> QED
  BY <1>2, <1>3
     DEF Next, Server, Client, Receive, Refuse, Crash, Exit, FetchCrashes, Restart,
         PushToNodes, Answer, GiveUp, FetchFromNodes, AnswerFetch, FetchDone, Tick, vars

\* What a node holds of a wallet gets older only by a PUT that could not read the
\* file, whatever PUTs overlap, time out or outlive a crash.
THEOREM NeverRollsBack == Spec => NoRollback
<1>1. TypeInv /\ PutInv /\ [Next]_vars
        => [\A n \in Node, d \in Domain :
              file'[n][d] < file[n][d] => BlindFor(n, d)' # BlindFor(n, d)]_vars
  <2> SUFFICES ASSUME TypeInv, PutInv, [Next]_vars, NEW n \in Node, NEW d \in Domain,
                      file'[n][d] < file[n][d]
               PROVE  BlindFor(n, d)' # BlindFor(n, d)
    OBVIOUS
  <2>1. file[n][d] \in Nat /\ file'[n][d] \in Nat
    BY TypeStep, ArchiveAssumption DEF TypeInv, Types, Stamp, NoBackup
  <2> QED
    BY <2>1, FilesGrow
<1> QED
  BY <1>1, TypeInit, TypeStep, PutInit, PutStep, PTL DEF Spec, NoRollback
-----------------------------------------------------------------------------
(* Counting the files.                                                     *)

\* Only a running server reads a body: what it stores, it counts.
ServedWhenUp == \A k \in Push, n \in Node : put[k][n].at = "reading" => up[n]

LEMMA ServedWhenUpStep ==
  ASSUME TypeInv, ServedWhenUp, [Next]_vars
  PROVE  ServedWhenUp'
<1> USE DEF TypeInv, Types, ServedWhenUp
<1>1. ASSUME NEW k \in Push, NEW n \in Node, Receive(k, n) PROVE ServedWhenUp'
  BY <1>1 DEF Receive, Finished
<1>2. ASSUME NEW k \in Push, NEW n \in Node, Refuse(k, n) \/ Store(k, n)
      PROVE  ServedWhenUp'
  <2>1. put'[k][n].at # "reading"
    BY <1>2 DEF Refuse, Store, Finished
  <2>2. ASSUME NEW j \in Push, NEW m \in Node, j # k \/ m # n
        PROVE  put'[j][m] = put[j][m]
    BY <1>2, <2>2 DEF Refuse, Store
  <2>3. UNCHANGED up
    BY <1>2 DEF Refuse, Store, serverVars
  <2> HIDE DEF TypeInv, Types
  <2> QED
    BY <2>1, <2>2, <2>3
<1>3. ASSUME NEW n \in Node, Exit(n) PROVE ServedWhenUp'
  BY <1>3 DEF Exit, Finished
<1>4. ASSUME NEW n \in Node, Restart(n) PROVE ServedWhenUp'
  BY <1>4 DEF Restart, pushVars
<1>5. ASSUME NEW k \in Push, NEW d \in Domain, NEW t \in Stamp, PushToNodes(k, d, t)
      PROVE  ServedWhenUp'
  BY <1>5 DEF PushToNodes, serverVars
<1>6. ASSUME NEW k \in Push, NEW n \in Node, Answer(k, n) \/ GiveUp(k, n)
      PROVE  ServedWhenUp'
  <2>1. \A j \in Push, m \in Node : put'[j][m].at \in {put[j][m].at, "over"}
    <3>1. ASSUME NEW j \in Push, NEW m \in Node, j # k \/ m # n
          PROVE  put'[j][m] = put[j][m]
      BY <1>6, <3>1 DEF Answer, GiveUp
    <3>2. put'[k][n].at \in {put[k][n].at, "over"}
      BY <1>6 DEF Answer, GiveUp
    <3> QED
      BY <3>1, <3>2
  <2>2. UNCHANGED up
    BY <1>6 DEF Answer, GiveUp, serverVars
  <2> QED
    BY <2>1, <2>2
<1>7. CASE UNCHANGED <<put, up>>
  BY <1>7
<1> QED
  BY <1>1, <1>2, <1>3, <1>4, <1>5, <1>6, <1>7
     DEF Next, Server, Client, Crash, FetchFromNodes, AnswerFetch, FetchCrashes, FetchDone,
         Tick, vars, pushVars, serverVars

\* A stored file adds its wallet to those that the node holds, and no other.
LEMMA HeldAfterStore ==
  ASSUME TypeInv, NEW n \in Node, NEW d \in Domain, NEW t \in Stamp,
         file' = [file EXCEPT ![n][d] = t]
  PROVE  /\ Held(n)' = Held(n) \cup {d}
         /\ \A m \in Node : m # n => Held(m)' = Held(m)
<1>1. t # NoBackup
  BY ArchiveAssumption DEF Stamp, NoBackup
<1> QED
  BY <1>1 DEF TypeInv, Types, Held

\* The inductive form of CountIsRight, with the bound on the count.
CountInv ==
  /\ CountIsRight
  /\ \A n \in Node : domains[n] <= MaxDomains

LEMMA CountStep ==
  ASSUME TypeInv, PutInv, ServedWhenUp, CountInv, [Next]_vars
  PROVE  CountInv'
<1> USE DEF TypeInv, Types
<1>1. /\ \A n \in Node : IsFiniteSet(Held(n)) /\ Cardinality(Held(n)) \in Nat
      /\ \A n \in Node : IsFiniteSet(blind[n]) /\ Cardinality(blind[n]) \in Nat
  <2>1. \A n \in Node : IsFiniteSet(Held(n)) /\ IsFiniteSet(blind[n])
    BY ArchiveAssumption, FS_Subset DEF Held, PutInv, BlindFinite
  <2> QED
    BY <2>1, FS_CardinalityType
<1>2. CASE UNCHANGED <<file, domains, up, blind>>
  BY <1>2 DEF CountInv, CountIsRight, Held
<1>3. ASSUME NEW k \in Push, NEW n \in Node, Store(k, n) PROVE CountInv'
  <2> DEFINE d == push[k].domain
             files == Cardinality(Held(n))
             misses == Cardinality(blind[n])
  <2>1. d \in Domain /\ push[k].createdAt \in Stamp /\ file[n][d] \in Nat
    BY ArchiveAssumption DEF Stamp, NoBackup
  <2>2. up[n] /\ UNCHANGED up
    BY <1>3 DEF Store, ServedWhenUp
  <2>3. SUFFICES ASSUME ~UNCHANGED <<file, domains, blind>> PROVE CountInv'
    BY <1>2, <2>2
  <2>4. PICK known \in Known(n, d) :
          /\ Room(n, known)
          /\ file' = [file EXCEPT ![n][d] = push[k].createdAt]
          /\ domains' = [domains EXCEPT ![n] = IF known = NoBackup THEN @ + 1 ELSE @]
          /\ blind' = [blind EXCEPT ![n] = IF known = file[n][d] THEN @ ELSE @ \cup {k}]
    BY <1>3, <2>3, StoreCases
  <2>5. /\ Held(n)' = Held(n) \cup {d}
        /\ \A m \in Node : m # n => Held(m)' = Held(m)
    BY <2>1, <2>4, HeldAfterStore
  <2>6. Cardinality(Held(n)') = IF file[n][d] = NoBackup THEN files + 1 ELSE files
    <3>1. d \in Held(n) <=> file[n][d] # NoBackup
      BY <2>1 DEF Held
    <3>2. Cardinality(Held(n) \cup {d}) = IF d \in Held(n) THEN files ELSE files + 1
      BY <1>1, FS_AddElement
    <3> QED
      BY <2>5, <3>1, <3>2
  <2>7. Cardinality(blind'[n]) = IF known = file[n][d] THEN misses ELSE misses + 1
    <3>1. k \notin blind[n]
      BY <1>3 DEF Store, PutInv, BlindInv
    <3>2. Cardinality(blind[n] \cup {k}) = misses + 1
      BY <1>1, <3>1, FS_AddElement
    <3>3. blind'[n] = IF known = file[n][d] THEN blind[n] ELSE blind[n] \cup {k}
      BY <2>4
    <3> QED
      BY <3>2, <3>3
  <2>8. /\ domains[n] \in Nat /\ files \in Nat /\ misses \in Nat /\ MaxDomains \in Nat
        /\ files <= domains[n] /\ domains[n] <= files + misses /\ domains[n] <= MaxDomains
    BY <1>1, <2>2, ArchiveAssumption DEF CountInv, CountIsRight
  <2>9. known = file[n][d] \/ (known = NoBackup /\ file[n][d] # NoBackup)
    BY DEF Known
  <2>10. /\ domains'[n] = IF known = NoBackup THEN domains[n] + 1 ELSE domains[n]
         /\ known = NoBackup => domains[n] < MaxDomains
    BY <2>4 DEF Room
  <2>11. /\ domains'[n] \in Cardinality(Held(n)')..(Cardinality(Held(n)') + Cardinality(blind'[n]))
         /\ Cardinality(Held(n)') <= MaxDomains
         /\ domains'[n] <= MaxDomains
    <3> HIDE DEF files, misses, d
    <3>1. CASE known = NoBackup /\ file[n][d] = NoBackup
      BY <2>6, <2>7, <2>8, <2>10, <3>1
    <3>2. CASE known = NoBackup /\ file[n][d] # NoBackup
      BY <2>6, <2>7, <2>8, <2>10, <3>2
    <3>3. CASE known # NoBackup /\ known = file[n][d]
      BY <2>6, <2>7, <2>8, <2>10, <3>3
    <3> QED
      BY <2>9, <3>1, <3>2, <3>3
  <2>12. ASSUME NEW m \in Node, m # n
         PROVE  /\ Held(m)' = Held(m) /\ domains'[m] = domains[m]
                /\ blind'[m] = blind[m] /\ up'[m] = up[m]
    BY <2>2, <2>4, <2>5, <2>12
  <2> HIDE DEF d, files, misses, TypeInv, Types
  <2> QED
    BY <2>11, <2>12 DEF CountInv, CountIsRight
<1>4. ASSUME NEW n \in Node, Exit(n) PROVE CountInv'
  BY <1>4 DEF Exit, CountInv, CountIsRight, Held
<1>5. ASSUME NEW n \in Node, Restart(n) PROVE CountInv'
  <2>1. \A m \in Node : Held(m)' = Held(m)
    BY <1>5 DEF Restart, Held
  <2>2. /\ up' = [up EXCEPT ![n] = TRUE] /\ UNCHANGED blind
        /\ domains' = [domains EXCEPT ![n] = Cardinality(Held(n))]
    BY <1>5 DEF Restart
  <2> QED
    BY <1>1, <2>1, <2>2 DEF CountInv, CountIsRight
<1> QED
  BY <1>2, <1>3, <1>4, <1>5
     DEF Next, Server, Client, Crash, FetchCrashes, Receive, Refuse, PushToNodes, Answer,
         GiveUp, FetchFromNodes, AnswerFetch, FetchDone, Tick, vars, pushVars, serverVars

LEMMA CountAlways == Spec => [](TypeInv /\ PutInv /\ CountInv)
<1>1. Init => ServedWhenUp /\ CountInv
  <2> SUFFICES ASSUME Init PROVE ServedWhenUp /\ CountInv
    OBVIOUS
  <2>1. \A n \in Node : Held(n) = {}
    BY DEF Init, Held
  <2>2. \A n \in Node : Cardinality(Held(n)) = 0 /\ Cardinality(blind[n]) = 0
    BY <2>1, FS_EmptySet DEF Init
  <2>3. CountInv
    BY <2>2, ArchiveAssumption DEF Init, CountInv, CountIsRight
  <2> QED
    BY <2>3 DEF Init, ServedWhenUp
<1>2. TypeInv /\ PutInv /\ ServedWhenUp /\ CountInv /\ [Next]_vars
        => ServedWhenUp' /\ CountInv'
  BY ServedWhenUpStep, CountStep
<1> QED
  BY <1>1, <1>2, TypeInit, TypeStep, PutInit, PutStep, PTL DEF Spec

\* A node's count stays within the limit, never falls behind the files and runs
\* ahead by no more than the files it replaced unread.
THEOREM CountStaysRight == Spec => []CountIsRight
<1>1. CountInv => CountIsRight
  BY DEF CountInv
<1> QED
  BY <1>1, CountAlways, PTL

\* Every variable of the nodes, of their limiters and of the calls keeps its type,
\* and the count its bound.
THEOREM TypeCorrect == Spec => []TypeOK
<1>1. TypeInv /\ CountInv => TypeOK
  BY ArchiveAssumption DEF TypeInv, TypeOK, Types, CountInv
<1> QED
  BY <1>1, CountAlways, PTL
-----------------------------------------------------------------------------
(* What was acknowledged.                                                  *)

\* Every 200, whether it reached its call or not, stands for a file that is at
\* least as new as the backup that was pushed, unless one was replaced unread.
OkMeansHeld ==
  \A k \in Push, n \in Node, d \in Domain :
    /\ put[k][n].at = "200" \/ got[k][n] = "ok"
    /\ push[k].domain = d /\ BlindFor(n, d) = {}
    => push[k].createdAt <= file[n][d]

LEMMA OkMeansHeldStep ==
  ASSUME TypeInv, PutInv, OkMeansHeld, [Next]_vars
  PROVE  OkMeansHeld'
<1> USE DEF TypeInv, Types
<1>1. ASSUME NEW n \in Node, NEW d \in Domain, BlindFor(n, d)' = {}
      PROVE  BlindFor(n, d) = {} /\ file[n][d] <= file'[n][d]
  <2> HIDE DEF TypeInv, Types
  <2> QED
    BY <1>1, FilesGrow, BlindStep
<1>2. /\ \A n \in Node, d \in Domain : file[n][d] \in Nat /\ file'[n][d] \in Nat
      /\ \A k \in Push : push[k].domain \in Domain /\ push[k].createdAt \in Nat
  <2>1. TypeInv'
    BY TypeStep
  <2> QED
    BY <2>1, ArchiveAssumption DEF Stamp, NoBackup
<1>3. ASSUME UNCHANGED push,
             \A k \in Push, n \in Node : put'[k][n].at = "200" \/ got'[k][n] = "ok" =>
               \/ put[k][n].at = "200" \/ got[k][n] = "ok"
               \/ push[k].createdAt <= file'[n][push[k].domain]
      PROVE  OkMeansHeld'
  <2> HIDE DEF TypeInv, Types
  <2> SUFFICES ASSUME NEW k \in Push, NEW n \in Node, NEW d \in Domain, push[k].domain = d,
                      put'[k][n].at = "200" \/ got'[k][n] = "ok", BlindFor(n, d)' = {}
               PROVE  push[k].createdAt <= file'[n][d]
    BY <1>3 DEF OkMeansHeld
  <2>1. BlindFor(n, d) = {} /\ file[n][d] <= file'[n][d]
    BY <1>1
  <2>2. CASE push[k].createdAt <= file[n][d]
    BY <1>2, <2>1, <2>2
  <2> QED
    BY <1>3, <2>1, <2>2 DEF OkMeansHeld
<1>4. ASSUME NEW k \in Push, NEW n \in Node, Receive(k, n) PROVE OkMeansHeld'
  BY <1>3, <1>4 DEF Receive, Finished
<1>5. ASSUME NEW k \in Push, NEW n \in Node, Refuse(k, n) PROVE OkMeansHeld'
  BY <1>3, <1>5 DEF Refuse, Finished
<1>6. ASSUME NEW k \in Push, NEW n \in Node, Store(k, n) PROVE OkMeansHeld'
  <2> DEFINE d == push[k].domain
  <2>1. UNCHANGED <<push, got>>
    BY <1>6 DEF Store
  <2>2. ASSUME NEW j \in Push, NEW m \in Node, j # k \/ m # n
        PROVE  put'[j][m] = put[j][m]
    BY <1>6, <2>2 DEF Store
  <2>3. put'[k][n].at = "200" => push[k].createdAt <= file'[n][d]
    <3>1. CASE file' = [file EXCEPT ![n][d] = push[k].createdAt]
      BY <1>2, <3>1
    <3>2. CASE file' # [file EXCEPT ![n][d] = push[k].createdAt]
      <4>1. PICK known \in Known(n, d) :
              ~(NotFuture(k, n) /\ Newer(k, known) /\ Room(n, known)) /\
              put'[k][n] = Finished(k, n, IF NotFuture(k, n) /\ ~Newer(k, known)
                                            THEN "200" ELSE "error")
        <5> HIDE DEF TypeInv, Types
        <5>1. put \in [Push -> [Node -> PutRecord]]
          BY DEF TypeInv, Types
        <5> QED
          BY <1>6, <3>2, <5>1 DEF Store
      <4>3. file' = file
        BY <1>6, <3>2 DEF Store
      <4>4. put'[k][n].at = "200" => ~Newer(k, known)
        BY <4>1 DEF Finished
      <4>2. ~Newer(k, known) => push[k].createdAt <= file[n][d]
        BY <1>2 DEF Newer, Known, NoBackup
      <4> QED
        BY <4>2, <4>3, <4>4
    <3> QED
      BY <3>1, <3>2
  <2> QED
    BY <1>3, <2>1, <2>2, <2>3
<1>7. ASSUME NEW n \in Node, Exit(n) PROVE OkMeansHeld'
  BY <1>3, <1>7 DEF Exit, Finished
<1>8. ASSUME NEW k \in Push, NEW d \in Domain, NEW t \in Stamp, PushToNodes(k, d, t)
      PROVE  OkMeansHeld'
  <2>1. ASSUME NEW j \in Push, NEW n \in Node, j # k
        PROVE  put'[j][n] = put[j][n] /\ got'[j][n] = got[j][n] /\ push'[j] = push[j]
    BY <1>8, <2>1 DEF PushToNodes
  <2>2. \A n \in Node : put'[k][n].at = "sent" /\ got'[k][n] = "waiting"
    BY <1>8 DEF PushToNodes
  <2>3. UNCHANGED file
    BY <1>8 DEF PushToNodes
  <2> SUFFICES ASSUME NEW j \in Push, NEW n \in Node, NEW e \in Domain, push'[j].domain = e,
                      put'[j][n].at = "200" \/ got'[j][n] = "ok", BlindFor(n, e)' = {}
               PROVE  push'[j].createdAt <= file'[n][e]
    BY DEF OkMeansHeld
  <2>4. j # k
    BY <2>2
  <2>5. BlindFor(n, e) = {}
    BY <1>1
  <2> HIDE DEF TypeInv, Types
  <2> QED
    BY <2>1, <2>3, <2>4, <2>5 DEF OkMeansHeld
<1>9. ASSUME NEW k \in Push, NEW n \in Node, Answer(k, n) PROVE OkMeansHeld'
  BY <1>3, <1>9 DEF Answer
<1>10. ASSUME NEW k \in Push, NEW n \in Node, GiveUp(k, n) PROVE OkMeansHeld'
  BY <1>3, <1>10 DEF GiveUp
<1>11. CASE UNCHANGED pushVars
  BY <1>3, <1>11 DEF pushVars
<1> QED
  BY <1>4, <1>5, <1>6, <1>7, <1>8, <1>9, <1>10, <1>11
     DEF Next, Server, Client, Crash, Restart, FetchFromNodes, AnswerFetch, FetchCrashes,
         FetchDone, Tick, vars, pushVars

LEMMA OkMeansHeldAlways == Spec => [](TypeInv /\ PutInv /\ OkMeansHeld)
<1>1. Init => OkMeansHeld
  BY DEF Init, OkMeansHeld
<1>2. TypeInv /\ PutInv /\ OkMeansHeld /\ [Next]_vars => OkMeansHeld'
  BY OkMeansHeldStep
<1> QED
  BY <1>1, <1>2, TypeInit, TypeStep, PutInit, PutStep, PTL DEF Spec

LEMMA HeldOfAcked ==
  ASSUME TypeInv, OkMeansHeld
  PROVE  AckedIsHeld
<1> SUFFICES ASSUME NEW n \in Node, NEW d \in Domain, BlindFor(n, d) = {}
             PROVE  file[n][d] >= Acked(n, d)
  BY DEF AckedIsHeld
<1>1. file[n][d] \in Nat
  BY ArchiveAssumption DEF TypeInv, Types, Stamp, NoBackup
<1>2. CASE Acked(n, d) = NoBackup
  BY <1>1, <1>2 DEF NoBackup
<1>3. CASE Acked(n, d) \in AckedSet(n, d)
  <2>1. PICK k \in Push : /\ push[k].domain = d /\ got[k][n] = "ok"
                           /\ Acked(n, d) = push[k].createdAt
    BY <1>3 DEF AckedSet
  <2>2. push[k].createdAt \in Nat
    BY ArchiveAssumption DEF TypeInv, Types, Stamp
  <2>3. push[k].createdAt <= file[n][d]
    BY <2>1 DEF OkMeansHeld
  <2> QED
    BY <1>1, <2>1, <2>2, <2>3
<1> QED
  BY <1>2, <1>3, AckedIsMax

\* What a node acknowledged it holds, or something newer, from then on, unless a
\* later PUT could not read it.
THEOREM AcknowledgedIsKept == Spec => []AckedIsHeld
BY OkMeansHeldAlways, HeldOfAcked, PTL
-----------------------------------------------------------------------------
(* Recovery.                                                               *)

\* While a wallet asks for its backup, what it could count on is still held by
\* the nodes that have not answered, and is in the answers of the others.
FetchSound ==
  fetch.at # "none" => \A n \in Node, d \in Domain :
    /\ fetch.answer[n] = Pending => fetch.at = "asking"
    /\ d = fetch.domain /\ BlindFor(n, d) = {} =>
         /\ fetch.answer[n] = Pending => fetch.floor[n] <= file[n][d]
         /\ fetch.answer[n] \notin {Pending, Failed} => fetch.floor[n] <= fetch.answer[n]

LEMMA FetchSoundStep ==
  ASSUME TypeInv, PutInv, OkMeansHeld, FetchSound, [Next]_vars
  PROVE  FetchSound'
<1> USE DEF TypeInv, Types
<1>1. ASSUME NEW n \in Node, NEW d \in Domain, BlindFor(n, d)' = {}
      PROVE  BlindFor(n, d) = {} /\ file[n][d] <= file'[n][d]
  <2> HIDE DEF TypeInv, Types
  <2> QED
    BY <1>1, FilesGrow, BlindStep
<1>2. TypeInv'
  BY TypeStep
<1>3. /\ \A n \in Node, d \in Domain : file[n][d] \in Nat /\ file'[n][d] \in Nat
      /\ \A n \in Node : fetch.floor[n] \in Nat
      /\ fetch.domain \in Domain
  <2>1. \A n \in Node, d \in Domain : file[n][d] \in Nat
    BY ArchiveAssumption DEF Stamp, NoBackup
  <2>2. \A n \in Node, d \in Domain : file'[n][d] \in Nat
    BY <1>2, ArchiveAssumption DEF Stamp, NoBackup
  <2>3. \A n \in Node : fetch.floor[n] \in Nat
    BY ArchiveAssumption DEF Stamp, NoBackup
  <2> QED
    BY <2>1, <2>2, <2>3
<1>4. CASE UNCHANGED fetch
  <2> SUFFICES ASSUME NEW n \in Node, NEW d \in Domain, d = fetch.domain,
                      fetch.at # "none", BlindFor(n, d)' = {}
               PROVE  /\ fetch.answer[n] = Pending => fetch.floor[n] <= file'[n][d]
                      /\ fetch.answer[n] \notin {Pending, Failed} => fetch.floor[n] <= fetch.answer[n]
    BY <1>4 DEF FetchSound
  <2>1. BlindFor(n, d) = {} /\ file[n][d] <= file'[n][d]
    BY <1>1
  <2>2. fetch.answer[n] = Pending => fetch.floor[n] <= file[n][d]
    BY <2>1 DEF FetchSound
  <2>3. fetch.answer[n] \notin {Pending, Failed} => fetch.floor[n] <= fetch.answer[n]
    BY <2>1 DEF FetchSound
  <2> QED
    BY <1>3, <2>1, <2>2, <2>3
<1>5. ASSUME NEW d \in Domain, FetchFromNodes(d) PROVE FetchSound'
  <2>1. AckedIsHeld
    BY HeldOfAcked
  <2>2. \A n \in Node : BlindFor(n, d) = {} => Acked(n, d) <= file[n][d]
    BY <1>3, <2>1, AckedType, ArchiveAssumption DEF AckedIsHeld, Stamp, NoBackup
  <2>3. /\ fetch' = [at |-> "asking", domain |-> d, answer |-> [n \in Node |-> Pending],
                     floor |-> [n \in Node |-> Acked(n, d)]]
        /\ UNCHANGED file
    BY <1>5 DEF FetchFromNodes
  <2>4. \A n \in Node : BlindFor(n, d)' = {} => BlindFor(n, d) = {}
    BY <1>1
  <2> HIDE DEF TypeInv, Types
  <2> QED
    BY <2>2, <2>3, <2>4 DEF FetchSound
<1>6. ASSUME NEW n \in Node, AnswerFetch(n) \/ FetchCrashes(n) PROVE FetchSound'
  <2>1. PICK reply \in {Failed, file[n][fetch.domain]} :
          fetch' = Asked("asking", [fetch.answer EXCEPT ![n] = reply])
    BY <1>6 DEF AnswerFetch, FetchCrashes
  <2>2. fetch.at = "asking" /\ fetch.answer[n] = Pending /\ UNCHANGED file
    BY <1>6 DEF AnswerFetch, FetchCrashes, Exit
  <2>3. /\ fetch'.at = "asking" /\ fetch'.domain = fetch.domain
        /\ fetch'.floor = fetch.floor /\ fetch'.answer[n] = reply
        /\ \A m \in Node : m # n => fetch'.answer[m] = fetch.answer[m]
    BY <2>1 DEF Asked
  <2>4. \A d \in Domain : d = fetch.domain /\ BlindFor(n, d) = {} => fetch.floor[n] <= file[n][d]
    BY <2>2 DEF FetchSound
  <2>5. reply # Pending
    BY <1>3 DEF Failed, Pending
  <2>6. \A m \in Node, d \in Domain : BlindFor(m, d)' = {} => BlindFor(m, d) = {}
    BY <1>1
  <2> HIDE DEF TypeInv, Types
  <2> SUFFICES ASSUME NEW m \in Node, NEW d \in Domain
               PROVE  /\ fetch'.answer[m] = Pending => fetch'.at = "asking"
                      /\ d = fetch.domain /\ BlindFor(m, d)' = {} =>
                           /\ fetch'.answer[m] = Pending => fetch.floor[m] <= file[m][d]
                           /\ fetch'.answer[m] \notin {Pending, Failed}
                                => fetch.floor[m] <= fetch'.answer[m]
    BY <2>2, <2>3 DEF FetchSound
  <2>7. CASE m = n
    BY <2>1, <2>3, <2>4, <2>5, <2>6, <2>7
  <2>8. CASE m # n
    BY <2>2, <2>3, <2>6, <2>8 DEF FetchSound
  <2> QED
    BY <2>7, <2>8
<1>7. CASE FetchDone
  <2>1. /\ \A n \in Node : fetch.answer[n] # Pending
        /\ fetch.at = "asking" /\ fetch'.answer = fetch.answer
        /\ fetch'.floor = fetch.floor /\ fetch'.domain = fetch.domain
    BY <1>7 DEF FetchDone, Asked
  <2>2. \A n \in Node, d \in Domain : BlindFor(n, d)' = {} => BlindFor(n, d) = {}
    BY <1>1
  <2> HIDE DEF TypeInv, Types
  <2> QED
    BY <2>1, <2>2 DEF FetchSound
<1>8. ASSUME NEW n \in Node, Server(n) PROVE UNCHANGED fetch
  BY <1>8 DEF Server, Receive, Refuse, Store, Crash, Restart
<1>9. ASSUME NEW k \in Push, NEW d \in Domain, NEW t \in Stamp, PushToNodes(k, d, t)
      PROVE  UNCHANGED fetch
  BY <1>9 DEF PushToNodes
<1>10. ASSUME NEW k \in Push, NEW n \in Node, Answer(k, n) \/ GiveUp(k, n)
       PROVE  UNCHANGED fetch
  BY <1>10 DEF Answer, GiveUp
<1>11. CASE Client
  <2> HIDE DEF TypeInv, Types
  <2> QED
    BY <1>4, <1>5, <1>6, <1>7, <1>9, <1>10, <1>11, ArchiveAssumption DEF Client
<1>12. Tick \/ UNCHANGED vars => UNCHANGED fetch
  BY DEF Tick, vars
<1> HIDE DEF TypeInv, Types
<1> QED
  BY <1>4, <1>8, <1>11, <1>12 DEF Next

\* Best is at least the answer of every node that did answer.
LEMMA BestOfAnswers ==
  ASSUME TypeInv, \A n \in Node : fetch.answer[n] # Pending
  PROVE  Best \in Nat /\ \A n \in Node : fetch.answer[n] <= Best
<1> DEFINE S == {fetch.answer[n] : n \in Node} \ {Failed, NoBackup}
           B == MaxTime + FutureSkew + 1
<1>1. B \in Nat
  BY ArchiveAssumption
<1>2. \A n \in Node : fetch.answer[n] \in 1..B \cup {NoBackup, Failed}
  BY DEF TypeInv, Types, Stamp
<1>3. S \in SUBSET (1..B)
  BY <1>2
<1>4. CASE S = {}
  <2>1. Best = 0
    BY <1>4 DEF Best, NoBackup
  <2>2. \A n \in Node : fetch.answer[n] \in {Failed, NoBackup}
    BY <1>4
  <2> QED
    BY <2>1, <2>2 DEF Failed, NoBackup
<1>5. CASE S # {}
  <2>1. Best = Max(S)
    BY <1>5 DEF Best
  <2>2. Max(S) \in S /\ \A x \in S : x <= Max(S)
    <3>1. S \in SUBSET (0..B)
      <4> HIDE DEF S
      <4> QED
        BY <1>1, <1>3
    <3> HIDE DEF S, B
    <3> QED
      BY <1>1, <1>5, <3>1, MaxOfBounded
  <2>3. Best \in 1..B /\ \A x \in S : x <= Best
    BY <1>3, <2>1, <2>2
  <2>4. ASSUME NEW n \in Node PROVE fetch.answer[n] <= Best
    <3>1. CASE fetch.answer[n] \in {Failed, NoBackup}
      BY <1>1, <2>3, <3>1 DEF Failed, NoBackup
    <3>2. CASE fetch.answer[n] \notin {Failed, NoBackup}
      BY <2>3, <3>2
    <3> QED
      BY <3>1, <3>2
  <2> QED
    BY <1>1, <2>3, <2>4
<1> QED
  BY <1>4, <1>5

LEMMA RecoversWhenSound ==
  ASSUME TypeInv, FetchSound
  PROVE  RecoversWhatWasAcked
<1> SUFFICES ASSUME fetch.at = "done", NEW n \in Node, fetch.answer[n] # Failed,
                    BlindFor(n, fetch.domain) = {}
             PROVE  Best >= fetch.floor[n]
  BY DEF RecoversWhatWasAcked
<1> DEFINE d == fetch.domain
<1>0. d \in Domain
  BY DEF TypeInv, Types
<1>1. \A m \in Node : fetch.answer[m] # Pending
  BY <1>0 DEF FetchSound
<1>2. Best \in Nat /\ fetch.answer[n] <= Best
  BY <1>1, BestOfAnswers
<1>3. fetch.floor[n] <= fetch.answer[n]
  BY <1>0, <1>1 DEF FetchSound
<1>4. fetch.floor[n] \in Nat /\ fetch.answer[n] \in Nat
  BY <1>1, ArchiveAssumption DEF TypeInv, Types, Stamp, NoBackup
<1> QED
  BY <1>2, <1>3, <1>4

\* A recovery returns nothing older than what a node that answered it had
\* acknowledged when it began, unless that node replaced the file unread.
THEOREM RecoveryIsUpToDate == Spec => []RecoversWhatWasAcked
<1>1. Init => FetchSound
  BY DEF Init, FetchSound
<1>2. TypeInv /\ PutInv /\ OkMeansHeld /\ FetchSound /\ [Next]_vars => FetchSound'
  BY FetchSoundStep
<1> QED
  BY <1>1, <1>2, OkMeansHeldAlways, RecoversWhenSound, PTL DEF Spec
-----------------------------------------------------------------------------
(* Dates.                                                                  *)

\* A PUT that is being served arrived no later than now.
ArrivedBefore == \A k \in Push, n \in Node : put[k][n].now <= clock

LEMMA ArrivedBeforeStep ==
  ASSUME TypeInv, ArrivedBefore, [Next]_vars
  PROVE  clock <= clock' /\ ArrivedBefore'
<1> USE DEF TypeInv, Types
<1>1. clock <= clock'
  <2>1. CASE Tick
    BY <2>1, ArchiveAssumption DEF Tick
  <2>2. CASE UNCHANGED clock
    BY <2>2, ArchiveAssumption
  <2> HIDE DEF TypeInv, Types
  <2>3. ASSUME NEW n \in Node, Server(n) PROVE UNCHANGED clock
    BY <2>3 DEF Server, Receive, Refuse, Store, Crash, Exit, Restart
  <2>4. ASSUME Client PROVE UNCHANGED clock
    BY <2>4 DEF Client, PushToNodes, Answer, GiveUp, FetchFromNodes, AnswerFetch, FetchCrashes, Exit,
           FetchDone
  <2>5. ASSUME UNCHANGED vars PROVE UNCHANGED clock
    BY <2>5 DEF vars
  <2> QED
    BY <2>1, <2>2, <2>3, <2>4, <2>5 DEF Next
<1>2. clock' \in Nat /\ clock \in Nat
  BY TypeStep
<1>3. ASSUME \A k \in Push, n \in Node : put'[k][n].now \in {put[k][n].now, clock, 0}
      PROVE  ArrivedBefore'
  <2> SUFFICES ASSUME NEW k \in Push, NEW n \in Node PROVE put'[k][n].now <= clock'
    BY DEF ArrivedBefore
  <2>1. put[k][n].now \in Nat /\ put[k][n].now <= clock
    BY DEF ArrivedBefore, PutRecord
  <2>2. put'[k][n].now \in {put[k][n].now, clock, 0}
    BY <1>3
  <2> QED
    BY <1>1, <1>2, <2>1, <2>2
<1>4. ASSUME NEW k \in Push, NEW n \in Node,
             Receive(k, n) \/ Refuse(k, n) \/ Store(k, n) \/ Answer(k, n) \/ GiveUp(k, n)
      PROVE  ArrivedBefore'
  <2>1. ASSUME NEW j \in Push, NEW m \in Node, j # k \/ m # n
        PROVE  put'[j][m] = put[j][m]
    BY <1>4, <2>1 DEF Receive, Refuse, Store, Answer, GiveUp
  <2>2. put'[k][n].now \in {put[k][n].now, clock, 0}
    BY <1>4 DEF Receive, Refuse, Store, Answer, GiveUp, Finished
  <2> QED
    BY <1>3, <2>1, <2>2
<1>5. ASSUME NEW n \in Node, Exit(n) PROVE ArrivedBefore'
  BY <1>3, <1>5 DEF Exit, Finished
<1>6. ASSUME NEW k \in Push, NEW d \in Domain, NEW t \in Stamp, PushToNodes(k, d, t)
      PROVE  ArrivedBefore'
  BY <1>3, <1>6 DEF PushToNodes
<1>7. CASE UNCHANGED put
  <2>1. \A k \in Push, n \in Node : put[k][n].now \in Nat /\ put[k][n].now <= clock
    BY DEF ArrivedBefore, PutRecord
  <2> QED
    BY <1>1, <1>2, <1>7, <2>1 DEF ArrivedBefore
<1> QED
  BY <1>1, <1>4, <1>5, <1>6, <1>7
     DEF Next, Server, Client, Crash, Restart, FetchFromNodes, AnswerFetch, FetchCrashes,
         FetchDone, Tick, vars, pushVars

LEMMA DatedStep ==
  ASSUME TypeInv, ArrivedBefore, NotFromTheFuture, [Next]_vars
  PROVE  NotFromTheFuture'
<1> USE DEF TypeInv, Types
<1>1. clock <= clock' /\ clock \in Nat /\ clock' \in Nat /\ FutureSkew \in Nat
  BY ArrivedBeforeStep, TypeStep, ArchiveAssumption
<1>2. \A n \in Node, d \in Domain : file[n][d] \in Nat
  BY ArchiveAssumption DEF Stamp, NoBackup
<1>3. CASE UNCHANGED file
  BY <1>1, <1>2, <1>3 DEF NotFromTheFuture
<1>4. ASSUME NEW k \in Push, NEW n \in Node, Store(k, n) PROVE NotFromTheFuture'
  <2>1. CASE ~UNCHANGED <<file, domains, blind>>
    <3>1. /\ NotFuture(k, n)
          /\ file' = [file EXCEPT ![n][push[k].domain] = push[k].createdAt]
      BY <1>4, <2>1, StoreCases
    <3>2. /\ push[k].domain \in Domain /\ push[k].createdAt \in Nat
          /\ put[k][n].now \in Nat /\ put[k][n].now <= clock
      BY ArchiveAssumption DEF Stamp, PutRecord, ArrivedBefore
    <3>3. push[k].createdAt <= clock' + FutureSkew
      BY <1>1, <3>1, <3>2 DEF NotFuture
    <3>4. \A m \in Node, d \in Domain : file[m][d] <= clock' + FutureSkew
      BY <1>1, <1>2 DEF NotFromTheFuture
    <3> QED
      BY <3>1, <3>2, <3>3, <3>4 DEF NotFromTheFuture
  <2> QED
    BY <1>3, <2>1
<1> QED
  BY <1>3, <1>4
     DEF Next, Server, Client, Receive, Refuse, Crash, Exit, FetchCrashes, Restart,
         PushToNodes, Answer, GiveUp, FetchFromNodes, AnswerFetch, FetchDone, Tick, vars

\* No file is dated further ahead than allowed.
THEOREM NeverFromTheFuture == Spec => []NotFromTheFuture
<1>1. Init => ArrivedBefore /\ NotFromTheFuture
  BY ArchiveAssumption DEF Init, ArrivedBefore, NotFromTheFuture, NoBackup
<1>2. TypeInv /\ ArrivedBefore /\ NotFromTheFuture /\ [Next]_vars
        => ArrivedBefore' /\ NotFromTheFuture'
  BY ArrivedBeforeStep, DatedStep
<1> QED
  BY <1>1, <1>2, TypeInit, TypeStep, PTL DEF Spec
-----------------------------------------------------------------------------
(* The rate limiter.                                                       *)

\* Until a node crashes every node runs.
AllUp == crashes = 0 => \A n \in Node : up[n]

WritesFinite == \A n \in Node, a \in Address : IsFiniteSet(writes[n][a])

\* The limiter remembers every write that it admitted within the last minute.
NothingForgotten ==
  crashes = 0 => \A k \in Push, n \in Node :
    put[k][n].now # 0 /\ clock - put[k][n].now < Minute
      => [call |-> k, time |-> put[k][n].now] \in writes[n][AddressOf[push[k].domain]]

AdmittedFinite ==
  crashes = 0 => \A n \in Node, a \in Address, t \in 1..MaxTime : IsFiniteSet(Admitted(n, a, t))

RateInv == /\ AllUp /\ TimedOnArrival /\ WritesFinite /\ NothingForgotten
           /\ AdmittedFinite /\ RateIsBounded

LEMMA CrashesGrow ==
  ASSUME TypeInv, [Next]_vars, crashes' = 0
  PROVE  crashes = 0
<1>1. \A n \in Node : ~Exit(n)
  BY ArchiveAssumption DEF TypeInv, Types, Exit
<1>2. UNCHANGED crashes
  <2>1. ASSUME NEW n \in Node, Server(n) PROVE UNCHANGED crashes
    BY <1>1, <2>1 DEF Server, Receive, Refuse, Store, Crash, Restart, serverVars
  <2>2. ASSUME Client PROVE UNCHANGED crashes
    BY <1>1, <2>2 DEF Client, PushToNodes, Answer, GiveUp, FetchFromNodes, AnswerFetch,
       FetchCrashes, FetchDone, serverVars
  <2> QED
    BY <2>1, <2>2 DEF Next, Tick, vars, serverVars
<1> QED
  BY <1>2

LEMMA AllUpStep ==
  ASSUME TypeInv, AllUp, [Next]_vars
  PROVE  AllUp'
<1> SUFFICES ASSUME crashes' = 0 PROVE \A n \in Node : up'[n]
  BY DEF AllUp
<1>1. crashes = 0 /\ \A n \in Node : up[n]
  BY CrashesGrow DEF AllUp
<1>2. \A n \in Node : ~Exit(n) /\ ~Restart(n)
  <2>1. UNCHANGED crashes
    BY <1>1
  <2> QED
    BY <1>1, <2>1 DEF Exit, Restart, TypeInv, Types
<1>3. UNCHANGED up
  <2>1. ASSUME NEW n \in Node, Server(n) PROVE UNCHANGED up
    BY <1>2, <2>1 DEF Server, Receive, Refuse, Store, Crash, serverVars
  <2>2. ASSUME Client PROVE UNCHANGED up
    BY <1>2, <2>2 DEF Client, PushToNodes, Answer, GiveUp, FetchFromNodes, AnswerFetch,
       FetchCrashes, FetchDone, serverVars
  <2> QED
    BY <2>1, <2>2 DEF Next, Tick, vars, serverVars
<1> QED
  BY <1>1, <1>3

\* Only an admission gives a PUT its time, and no call changes its wallet once
\* one of its PUTs has a time.
LEMMA TimesKept ==
  ASSUME TypeInv, TimedOnArrival, [Next]_vars, NEW k \in Push, NEW n \in Node,
         ~Receive(k, n)
  PROVE  /\ put'[k][n].now = put[k][n].now
         /\ put[k][n].now # 0 => push'[k].domain = push[k].domain
<1> USE DEF TypeInv, Types
<1>1. ASSUME NEW j \in Push, NEW m \in Node, Receive(j, m) PROVE put'[k][n] = put[k][n] /\ push' = push
  BY <1>1 DEF Receive
<1>2. ASSUME NEW j \in Push, NEW m \in Node,
             Refuse(j, m) \/ Store(j, m) \/ Answer(j, m) \/ GiveUp(j, m)
      PROVE  put'[k][n].now = put[k][n].now /\ push' = push
  <2>1. CASE j = k /\ m = n
    BY <1>2, <2>1 DEF Refuse, Store, Answer, GiveUp, Finished, PutRecord
  <2>2. CASE j # k \/ m # n
    BY <1>2, <2>2 DEF Refuse, Store, Answer, GiveUp
  <2> QED
    BY <2>1, <2>2
<1>3. ASSUME NEW m \in Node, Exit(m) PROVE put'[k][n].now = put[k][n].now /\ push' = push
  BY <1>3 DEF Exit, Finished, PutRecord
<1>4. ASSUME NEW j \in Push, NEW d \in Domain, NEW t \in Stamp, PushToNodes(j, d, t)
      PROVE  /\ put'[k][n].now = put[k][n].now
             /\ put[k][n].now # 0 => push'[k] = push[k]
  <2>1. CASE j = k
    BY <1>4, <2>1 DEF PushToNodes, TimedOnArrival
  <2>2. CASE j # k
    BY <1>4, <2>2 DEF PushToNodes
  <2> QED
    BY <2>1, <2>2
<1>5. CASE UNCHANGED <<put, push>>
  BY <1>5
<1> QED
  BY <1>1, <1>2, <1>3, <1>4, <1>5
     DEF Next, Server, Client, Crash, Restart, FetchFromNodes, AnswerFetch, FetchCrashes,
         FetchDone, Tick, vars, pushVars

\* A limited PUT gets no time either.
LEMMA LimitedUntimed ==
  ASSUME TypeInv, TimedOnArrival, NEW k \in Push, NEW n \in Node, Receive(k, n),
         Cardinality(Recent(n, AddressOf[push[k].domain], clock)) >= WritesPerMinute
  PROVE  put'[k][n].now = put[k][n].now /\ push' = push
BY DEF Receive, Finished, TimedOnArrival, TypeInv, Types

LEMMA WritesFiniteStep ==
  ASSUME TypeInv, WritesFinite, [Next]_vars
  PROVE  WritesFinite'
<1> USE DEF TypeInv, Types
<1>1. ASSUME NEW k \in Push, NEW n \in Node, Receive(k, n) PROVE WritesFinite'
  <2> DEFINE a == AddressOf[push[k].domain]
             recent == Recent(n, a, clock)
  <2>1. a \in Address
    BY ArchiveAssumption
  <2>2. IsFiniteSet(recent)
    <3>1. IsFiniteSet(writes[n][a]) /\ recent \in SUBSET writes[n][a]
      BY <2>1 DEF WritesFinite, Recent
    <3> QED
      BY <3>1, FS_Subset
  <2>3. IsFiniteSet(recent \cup {[call |-> k, time |-> clock]})
    BY <2>2, FS_AddElement
  <2>4. writes'[n][a] \in {recent, recent \cup {[call |-> k, time |-> clock]}}
    BY <1>1, <2>1 DEF Receive
  <2>5. \A m \in Node, b \in Address : m # n \/ b # a => writes'[m][b] = writes[m][b]
    BY <1>1, <2>1 DEF Receive
  <2> HIDE DEF TypeInv, Types, a, recent
  <2> QED
    BY <2>2, <2>3, <2>4, <2>5 DEF WritesFinite
<1>2. ASSUME NEW n \in Node, Restart(n) PROVE WritesFinite'
  <2>1. \A m \in Node, b \in Address : writes'[m][b] \in {writes[m][b], {}}
    BY <1>2 DEF Restart
  <2> QED
    BY <2>1, FS_EmptySet DEF WritesFinite
<1>3. CASE UNCHANGED writes
  BY <1>3 DEF WritesFinite
<1> QED
  BY <1>1, <1>2, <1>3
     DEF Next, Server, Client, Refuse, Store, Crash, Exit, FetchCrashes, PushToNodes, Answer,
         GiveUp, FetchFromNodes, AnswerFetch, FetchDone, Tick, vars, pushVars, serverVars

\* What the limiter remembered it still remembers, unless it is a minute old.
LEMMA RememberedStep ==
  ASSUME TypeInv, AllUp, [Next]_vars, crashes = 0,
         NEW n \in Node, NEW a \in Address, NEW w \in writes[n][a], clock - w.time < Minute
  PROVE  w \in writes'[n][a]
<1> USE DEF TypeInv, Types
<1>1. ASSUME NEW k \in Push, NEW m \in Node, Receive(k, m) PROVE w \in writes'[n][a]
  <2>1. w \in Recent(n, a, clock)
    BY DEF Recent
  <2>2. CASE m = n /\ a = AddressOf[push[k].domain]
    BY <1>1, <2>1, <2>2 DEF Receive
  <2>3. CASE m # n \/ a # AddressOf[push[k].domain]
    BY <1>1, <2>3 DEF Receive
  <2> QED
    BY <2>2, <2>3
<1>2. \A m \in Node : ~Restart(m)
  BY DEF Restart, AllUp
<1>3. CASE UNCHANGED writes
  BY <1>3
<1> QED
  BY <1>1, <1>2, <1>3
     DEF Next, Server, Client, Refuse, Store, Crash, Exit, FetchCrashes, PushToNodes, Answer,
         GiveUp, FetchFromNodes, AnswerFetch, FetchDone, Tick, vars, pushVars, serverVars

LEMMA NothingForgottenStep ==
  ASSUME TypeInv, AllUp, TimedOnArrival, ArrivedBefore, NothingForgotten, [Next]_vars
  PROVE  NothingForgotten'
<1> SUFFICES ASSUME crashes' = 0, NEW k \in Push, NEW n \in Node,
                    put'[k][n].now # 0, clock' - put'[k][n].now < Minute
             PROVE  [call |-> k, time |-> put'[k][n].now]
                      \in writes'[n][AddressOf[push'[k].domain]]
  BY DEF NothingForgotten
<1>1. crashes = 0
  BY CrashesGrow
<1>2. CASE put'[k][n].now = put[k][n].now /\ push'[k].domain = push[k].domain
  <2> DEFINE w == [call |-> k, time |-> put[k][n].now]
             a == AddressOf[push[k].domain]
  <2>1. clock <= clock' /\ clock \in Int /\ clock' \in Int /\ put[k][n].now \in Int /\ Minute \in Int
    BY ArrivedBeforeStep, TypeStep, ArchiveAssumption DEF TypeInv, Types, PutRecord
  <2>2. clock - put[k][n].now < Minute
    BY <1>2, <2>1
  <2>3. w \in writes[n][a]
    BY <1>1, <1>2, <2>2 DEF NothingForgotten
  <2>4. a \in Address /\ w.time = put[k][n].now
    BY ArchiveAssumption DEF TypeInv, Types
  <2>5. w \in writes'[n][a]
    <3> HIDE DEF w, a
    <3> QED
      BY <1>1, <2>2, <2>3, <2>4, RememberedStep
  <2> QED
    BY <1>2, <2>5
<1>3. CASE Receive(k, n)
  <2>1. CASE Cardinality(Recent(n, AddressOf[push[k].domain], clock)) >= WritesPerMinute
    BY <1>2, <1>3, <2>1, LimitedUntimed
  <2>2. CASE ~(Cardinality(Recent(n, AddressOf[push[k].domain], clock)) >= WritesPerMinute)
    <3>1. put'[k][n].now = clock /\ push' = push
      BY <1>3, <2>2 DEF Receive, TypeInv, Types
    <3>2. AddressOf[push[k].domain] \in Address
      BY ArchiveAssumption DEF TypeInv, Types
    <3>3. [call |-> k, time |-> clock] \in writes'[n][AddressOf[push[k].domain]]
      BY <1>3, <2>2, <3>2 DEF Receive, TypeInv, Types
    <3> QED
      BY <3>1, <3>3
  <2> QED
    BY <2>1, <2>2
<1> QED
  BY <1>2, <1>3, TimesKept

\* The writes of a window are among the recent ones when the window ends now or
\* later and another one is asked for.
LEMMA AdmittedAreRecent ==
  ASSUME TypeInv, crashes = 0, WritesFinite, ArrivedBefore, NothingForgotten,
         NEW n \in Node, NEW a \in Address, NEW t \in 1..MaxTime, clock <= t
  PROVE  Cardinality(Admitted(n, a, t)) <= Cardinality(Recent(n, a, clock))
<1> DEFINE A == Admitted(n, a, t)
           Q == Recent(n, a, clock)
           f == [k \in A |-> [call |-> k, time |-> put[k][n].now]]
<1>1. IsFiniteSet(Q)
  <2>1. IsFiniteSet(writes[n][a]) /\ Q \in SUBSET writes[n][a]
    BY DEF WritesFinite, Recent
  <2> QED
    BY <2>1, FS_Subset
<1>2. ASSUME NEW k \in A PROVE f[k] \in Q
  <2>1. /\ k \in Push /\ AddressOf[push[k].domain] = a
        /\ put[k][n].now >= t - Minute + 1 /\ put[k][n].now # 0
    BY ArchiveAssumption DEF Admitted, TypeInv, Types, PutRecord
  <2>2. put[k][n].now \in Int /\ clock \in Int /\ Minute \in Int
    BY <2>1, ArchiveAssumption DEF TypeInv, Types, PutRecord
  <2>3. clock - put[k][n].now < Minute
    BY <2>1, <2>2
  <2>4. f[k] \in writes[n][a]
    BY <2>1, <2>3 DEF NothingForgotten
  <2> QED
    BY <2>3, <2>4 DEF Recent
<1>3. f \in Injection(A, Q)
  <2>1. f \in [A -> Q]
    <3> HIDE DEF A, Q
    <3> QED
      BY <1>2
  <2>2. \A j, k \in A : f[j] = f[k] => j = k
    <3> HIDE DEF A
    <3> QED
      OBVIOUS
  <2> HIDE DEF A, Q, f
  <2> QED
    BY <2>1, <2>2 DEF Injection, IsInjective
<1> HIDE DEF A, Q, f
<1> QED
  <2>1. Cardinality(A) <= Cardinality(Q)
    BY <1>1, <1>3, FS_Injection
  <2> QED
    BY <2>1 DEF A, Q

LEMMA RateStep ==
  ASSUME TypeInv, TypeInv', RateInv, ArrivedBefore, ArrivedBefore', [Next]_vars, crashes' = 0,
         NEW n \in Node, NEW a \in Address, NEW t \in 1..MaxTime
  PROVE  /\ IsFiniteSet(Admitted(n, a, t)')
         /\ Cardinality(Admitted(n, a, t)') <= WritesPerMinute
<1> DEFINE A == Admitted(n, a, t)
           B == Admitted(n, a, t)'
<1>1. crashes = 0
  BY CrashesGrow
<1>2. /\ AllUp /\ TimedOnArrival /\ WritesFinite /\ NothingForgotten
      /\ IsFiniteSet(A) /\ Cardinality(A) <= WritesPerMinute
  BY <1>1 DEF RateInv, AdmittedFinite, RateIsBounded
<1>3. WritesPerMinute \in Nat /\ Cardinality(A) \in Nat
  BY <1>2, FS_CardinalityType, ArchiveAssumption
<1>4. \A k \in Push : put[k][n].now = 0 => k \notin A
  BY DEF Admitted
<1>5. ASSUME NEW k \in Push, put'[k][n].now = put[k][n].now,
             put[k][n].now # 0 => push'[k].domain = push[k].domain
      PROVE  k \in B <=> k \in A
  BY <1>5 DEF Admitted
<1>6. CASE \A k \in Push : k \in B => k \in A
  <2>1. B \in SUBSET A
    BY <1>6 DEF Admitted
  <2>2. IsFiniteSet(B) /\ Cardinality(B) <= Cardinality(A)
    <3> HIDE DEF A, B
    <3> QED
      BY <1>2, <2>1, FS_Subset
  <2>3. Cardinality(B) \in Nat
    BY <2>2, FS_CardinalityType
  <2> QED
    BY <1>2, <1>3, <2>2, <2>3
<1>7. ASSUME NEW k \in Push, k \in B, k \notin A
      PROVE  IsFiniteSet(B) /\ Cardinality(B) <= WritesPerMinute
  <2>1. Receive(k, n)
    BY <1>2, <1>5, <1>7, TimesKept
  <2> DEFINE recent == Recent(n, AddressOf[push[k].domain], clock)
  <2>2. ~(Cardinality(recent) >= WritesPerMinute)
    <3>1. SUFFICES ASSUME Cardinality(recent) >= WritesPerMinute PROVE FALSE
      OBVIOUS
    <3>2. put'[k][n].now = put[k][n].now /\ push' = push
      BY <1>2, <2>1, <3>1, LimitedUntimed
    <3> QED
      BY <1>5, <1>7, <3>2
  <2>3. put'[k][n].now = clock /\ push' = push
    BY <2>1, <2>2 DEF Receive, TypeInv, Types
  <2>4. AddressOf[push[k].domain] = a /\ clock <= t
    BY <1>7, <2>3 DEF Admitted, TypeInv, Types
  <2>5. a \in Address
    OBVIOUS
  <2>6. Cardinality(A) <= Cardinality(recent)
    BY <1>1, <1>2, <2>4, AdmittedAreRecent
  <2>7. Cardinality(recent) \in Nat
    <3>1. IsFiniteSet(writes[n][a]) /\ recent \in SUBSET writes[n][a]
      BY <1>2, <2>4 DEF WritesFinite, Recent
    <3>2. IsFiniteSet(recent)
      BY <3>1, FS_Subset
    <3> QED
      BY <3>2, FS_CardinalityType
  <2>8. \A j \in Push : j # k => (j \in B <=> j \in A)
    <3> SUFFICES ASSUME NEW j \in Push, j # k PROVE j \in B <=> j \in A
      OBVIOUS
    <3>1. put'[j][n] = put[j][n]
      BY <2>1 DEF Receive, TypeInv, Types
    <3> QED
      BY <1>5, <2>3, <3>1
  <2>9. B = A \cup {k}
    <3>1. A \subseteq Push /\ B \subseteq Push
      BY DEF Admitted
    <3> HIDE DEF A, B
    <3> QED
      BY <1>7, <2>8, <3>1
  <2> HIDE DEF A, B, recent
  <2>10. IsFiniteSet(A \cup {k}) /\ Cardinality(A \cup {k}) = Cardinality(A) + 1
    BY <1>2, <1>7, FS_AddElement
  <2>11. Cardinality(A) < WritesPerMinute
    BY <1>3, <2>2, <2>6, <2>7
  <2> QED
    BY <1>3, <2>9, <2>10, <2>11
<1> QED
  BY <1>6, <1>7

LEMMA RateInvInit == Init => RateInv
<1> SUFFICES ASSUME Init PROVE RateInv
  OBVIOUS
<1>1. AllUp /\ TimedOnArrival /\ NothingForgotten
  BY DEF Init, AllUp, TimedOnArrival, NothingForgotten
<1>2. WritesFinite
  BY FS_EmptySet DEF Init, WritesFinite
<1>3. \A n \in Node, a \in Address, t \in 1..MaxTime : Admitted(n, a, t) = {}
  BY DEF Init, Admitted
<1>4. AdmittedFinite /\ RateIsBounded
  <2>1. \A n \in Node, a \in Address, t \in 1..MaxTime :
          IsFiniteSet(Admitted(n, a, t)) /\ Cardinality(Admitted(n, a, t)) = 0
    BY <1>3, FS_EmptySet
  <2>2. 0 <= WritesPerMinute
    BY ArchiveAssumption
  <2> QED
    BY <2>1, <2>2 DEF AdmittedFinite, RateIsBounded
<1> QED
  BY <1>1, <1>2, <1>4 DEF RateInv

LEMMA RateInvStep ==
  ASSUME TypeInv, RateInv, ArrivedBefore, [Next]_vars
  PROVE  RateInv'
<1>1. TypeInv' /\ ArrivedBefore'
  BY TypeStep, ArrivedBeforeStep
<1>2. AllUp' /\ TimedOnArrival' /\ WritesFinite' /\ NothingForgotten'
  BY AllUpStep, TimedOnArrivalStep, WritesFiniteStep, NothingForgottenStep DEF RateInv
<1>3. AdmittedFinite' /\ RateIsBounded'
  BY <1>1, RateStep DEF AdmittedFinite, RateIsBounded
<1> QED
  BY <1>2, <1>3 DEF RateInv

\* In no minute does a node admit more than writesPerMinute writes of one
\* address, as long as no crash empties the limiter.
THEOREM RateStaysBounded == Spec => []RateIsBounded
<1>1. Init => ArrivedBefore
  BY DEF Init, ArrivedBefore
<1>2. TypeInv /\ ArrivedBefore /\ [Next]_vars => ArrivedBefore'
  BY ArrivedBeforeStep
<1>3. TypeInv /\ ArrivedBefore /\ RateInv /\ [Next]_vars => RateInv'
  BY RateInvStep
<1>4. RateInv => RateIsBounded
  BY DEF RateInv
<1> QED
  BY <1>1, <1>2, <1>3, <1>4, TypeInit, TypeStep, RateInvInit, PTL DEF Spec
=============================================================================
