----------------------- MODULE TopologicalOrderProofs -----------------------
(***************************************************************************)
(* TopologicalOrder: in the output no event comes before a parent of the   *)
(* batch, for every batch, in every order of it, over any parents.         *)
(***************************************************************************)
EXTENDS TopologicalOrder, FiniteSetTheorems, SequenceTheorems, TLAPS

\* What the loops maintain: the output is what `resolved` says it is, nothing
\* of the batch is lost, and a pass that has made no progress yet has left only
\* events behind it that are not ready.
LoopInv ==
  /\ pending \in Seq(Event)
  /\ ordered \in Seq(Event)
  /\ i \in Nat
  /\ at \in {"while", "for", "done"}
  /\ at = "for" => i <= Len(pending)
  /\ at # "done" => resolved = Range(ordered)
  /\ at # "done" => batch = resolved \cup Range(pending)
  /\ at = "for" /\ ~progressed => \A k \in 1..Len(pending) : k > i => ~Ready(pending[k])
  /\ at = "while" /\ ~progressed => \A k \in 1..Len(pending) : ~Ready(pending[k])
  /\ OrderedParentsFirst

LEMMA RemoveAtType ==
  ASSUME NEW T, NEW s \in Seq(T), NEW k \in 1..Len(s)
  PROVE  /\ RemoveAt(s, k) \in Seq(T) /\ Len(RemoveAt(s, k)) = Len(s) - 1
         /\ Range(s) = Range(RemoveAt(s, k)) \cup {s[k]}
<1> DEFINE a == SubSeq(s, 1, k - 1)
           b == SubSeq(s, k + 1, Len(s))
           r == RemoveAt(s, k)
<1>1. /\ a \in Seq(T) /\ Len(a) = k - 1
      /\ \A j \in 1..(k - 1) : a[j] = s[j]
  OBVIOUS
<1>2. /\ b \in Seq(T) /\ Len(b) = Len(s) - k
      /\ \A j \in 1..(Len(s) - k) : b[j] = s[j + k]
  OBVIOUS
<1>3. r = a \o b
  BY DEF RemoveAt
<1> HIDE DEF a, b, r
<1>4. /\ r \in Seq(T) /\ Len(r) = Len(s) - 1
      /\ \A j \in 1..(k - 1) : r[j] = s[j]
      /\ \A j \in k..(Len(s) - 1) : r[j] = s[j + 1]
  <2>1. Len(s) \in Nat /\ k \in Nat /\ k >= 1 /\ k <= Len(s)
    OBVIOUS
  <2>2. r \in Seq(T) /\ Len(r) = Len(s) - 1
    <3>1. r \in Seq(T) /\ Len(r) = Len(a) + Len(b)
      BY <1>1, <1>2, <1>3, ConcatProperties
    <3> QED
      BY <1>1, <1>2, <2>1, <3>1
  <2>3. ASSUME NEW j \in 1..(k - 1) PROVE r[j] = s[j]
    <3>1. r[j] = a[j]
      BY <1>1, <1>2, <1>3, <2>1
    <3> QED
      BY <1>1, <3>1
  <2>4. ASSUME NEW j \in k..(Len(s) - 1) PROVE r[j] = s[j + 1]
    <3>1. j - (k - 1) \in 1..(Len(s) - k) /\ (j - (k - 1)) + k = j + 1
      BY <2>1
    <3>2. r[j] = b[j - (k - 1)]
      BY <1>1, <1>2, <1>3, <2>1
    <3>3. b[j - (k - 1)] = s[(j - (k - 1)) + k]
      BY <1>2, <3>1
    <3> QED
      BY <3>1, <3>2, <3>3
  <2> QED
    BY <2>2, <2>3, <2>4
<1>5. ASSUME NEW x \in Range(s) PROVE x \in Range(r) \cup {s[k]}
  <2>1. PICK j \in 1..Len(s) : x = s[j]
    BY <1>5 DEF Range
  <2>2. CASE j < k
    <3>1. j \in 1..(k - 1) /\ j \in 1..(Len(s) - 1)
      BY <2>2
    <3>2. r[j] = x /\ j \in DOMAIN r
      BY <1>4, <2>1, <3>1
    <3> QED
      BY <3>2 DEF Range
  <2>3. CASE j > k
    <3>1. j - 1 \in k..(Len(s) - 1) /\ (j - 1) + 1 = j
      BY <2>3
    <3>2. r[j - 1] = x /\ j - 1 \in DOMAIN r
      BY <1>4, <2>1, <3>1
    <3> QED
      BY <3>2 DEF Range
  <2> QED
    BY <2>1, <2>2, <2>3
<1>6. ASSUME NEW x \in Range(r) PROVE x \in Range(s)
  <2>1. PICK j \in 1..(Len(s) - 1) : x = r[j]
    BY <1>4, <1>6 DEF Range
  <2>2. PICK n \in 1..Len(s) : r[j] = s[n]
    <3>1. CASE j < k
      BY <1>4, <3>1
    <3>2. CASE ~(j < k)
      <4>1. j \in k..(Len(s) - 1) /\ j + 1 \in 1..Len(s)
        BY <3>2
      <4> QED
        BY <1>4, <4>1
    <3> QED
      BY <3>1, <3>2
  <2> QED
    BY <2>1, <2>2 DEF Range
<1>7. s[k] \in Range(s)
  BY DEF Range
<1> QED
  BY <1>4, <1>5, <1>6, <1>7 DEF r

\* A pass that leaves every pending event behind found none pending: among them
\* one has no pending parent, and that one was ready.
LEMMA OneIsReady ==
  ASSUME pending \in Seq(Event), batch = resolved \cup Range(pending),
         \A k \in 1..Len(pending) : ~Ready(pending[k])
  PROVE  pending = <<>>
<1> SUFFICES ASSUME pending # <<>> PROVE FALSE
  OBVIOUS
<1>1. Range(pending) \in SUBSET Event /\ Range(pending) # {}
  BY DEF Range
<1>2. PICK e \in Range(pending) : Parents[e] \cap Range(pending) = {}
  BY <1>1, AcyclicAssumption
<1>3. Ready(e)
  BY <1>2 DEF Ready
<1> QED
  BY <1>2, <1>3 DEF Range

LEMMA LoopInit == Init => LoopInv
<1> SUFFICES ASSUME Init PROVE LoopInv
  OBVIOUS
<1>1. Cardinality(batch) \in Nat
  BY EventAssumption, FS_Subset, FS_CardinalityType DEF Init
<1>2. pending \in Seq(Event)
  BY <1>1 DEF Init, SetToSeqs
<1>3. Range(pending) = batch
  <2>1. IsFiniteSet(batch)
    BY EventAssumption, FS_Subset DEF Init
  <2> DEFINE n == Cardinality(batch)
  <2>2. pending \in [1..n -> batch] /\ \A j, k \in 1..n : j # k => pending[j] # pending[k]
    BY DEF Init, SetToSeqs
  <2>3. IsFiniteSet(1..n) /\ Cardinality(1..n) = n
    BY <1>1, FS_Interval
  <2>4. pending \in Injection(1..n, batch)
    BY <2>2 DEF Injection, IsInjective
  <2>5. pending \in Surjection(1..n, batch)
    BY <2>1, <2>3, <2>4, FS_Injection, FS_CountingElements
  <2> QED
    BY <2>2, <2>5 DEF Surjection, Range
<1> QED
  BY <1>2, <1>3 DEF Init, LoopInv, OrderedParentsFirst, Range

LEMMA LoopStep == LoopInv /\ [Next]_vars => LoopInv'
<1> SUFFICES ASSUME LoopInv, [Next]_vars PROVE LoopInv'
  OBVIOUS
<1> USE DEF LoopInv
<1>1. CASE NextPass
  <2>1. i' = Len(pending) /\ Len(pending) \in Nat /\ pending' = pending
    BY <1>1 DEF NextPass
  <2> QED
    BY <1>1, <2>1 DEF NextPass, OrderedParentsFirst
<1>2. CASE Take
  <2> DEFINE e == pending[i]
             n == Len(ordered) + 1
  <2>1. i \in 1..Len(pending) /\ e \in Event /\ Ready(e) /\ at = "for"
    BY <1>2 DEF Take
  <2>2. /\ pending' \in Seq(Event) /\ i' \in Nat /\ i' <= Len(pending')
        /\ Range(pending) = Range(pending') \cup {e}
    <3>1. pending' = RemoveAt(pending, i) /\ i' = i - 1
      BY <1>2 DEF Take
    <3>2. /\ pending' \in Seq(Event) /\ Len(pending') = Len(pending) - 1
          /\ Range(pending) = Range(pending') \cup {e}
      BY <2>1, <3>1, RemoveAtType
    <3> QED
      BY <2>1, <3>1, <3>2
  <2>3. /\ ordered' = Append(ordered, e) /\ ordered' \in Seq(Event)
        /\ Len(ordered') = n /\ n \in Nat /\ ordered'[n] = e
        /\ \A k \in 1..Len(ordered) : ordered'[k] = ordered[k]
        /\ DOMAIN ordered = 1..Len(ordered) /\ DOMAIN ordered' = 1..n
    BY <1>2, <2>1 DEF Take
  <2>4. resolved' = Range(ordered') /\ resolved' = resolved \cup {e}
    <3>1. Range(ordered') = Range(ordered) \cup {e}
      <4>1. ASSUME NEW x \in Range(ordered) PROVE x \in Range(ordered')
        BY <2>3, <4>1 DEF Range
      <4>2. ASSUME NEW x \in Range(ordered') PROVE x \in Range(ordered) \cup {e}
        BY <2>3, <4>2 DEF Range
      <4>3. e \in Range(ordered')
        BY <2>3 DEF Range
      <4> QED
        BY <4>1, <4>2, <4>3
    <3> QED
      BY <1>2, <2>1, <3>1 DEF Take
  <2>5. batch' = resolved' \cup Range(pending') /\ progressed' /\ at' = at
    BY <1>2, <2>1, <2>2, <2>4 DEF Take
  <2>6. \A p \in Parents[e] \cap batch : \E m \in 1..Len(ordered) : ordered[m] = p
    BY <2>1, <2>3 DEF Ready, Range
  <2>7. OrderedParentsFirst'
    <3>1. batch' = batch
      BY <1>2 DEF Take
    <3> SUFFICES ASSUME NEW k \in 1..n, NEW p \in Parents[ordered'[k]] \cap batch
                 PROVE  \E m \in 1..(k - 1) : ordered'[m] = p
      BY <2>3, <3>1 DEF OrderedParentsFirst
    <3>2. CASE k = n
      BY <2>3, <2>6, <3>2
    <3>3. CASE k # n
      <4>1. k \in 1..Len(ordered) /\ ordered'[k] = ordered[k]
        BY <2>3, <3>3
      <4>2. PICK m \in 1..(k - 1) : ordered[m] = p
        BY <4>1 DEF OrderedParentsFirst
      <4> QED
        BY <2>3, <4>1, <4>2
    <3> QED
      BY <3>2, <3>3
  <2> QED
    BY <2>1, <2>2, <2>3, <2>4, <2>5, <2>7
<1>3. CASE Skip
  <2>1. /\ i \in Nat /\ i >= 1 /\ i' = i - 1 /\ i' \in Nat /\ at = "for" /\ at' = at
        /\ ~Ready(pending[i])
        /\ UNCHANGED <<batch, pending, ordered, resolved, progressed>>
    BY <1>3 DEF Skip
  <2>2. \A k \in 1..Len(pending) : k > i' => k = i \/ k > i
    BY <2>1
  <2>3. OrderedParentsFirst'
    BY <2>1 DEF OrderedParentsFirst
  <2> QED
    BY <2>1, <2>2, <2>3 DEF Ready
<1>4. CASE EndPass
  <2>1. /\ i = 0 /\ at = "for" /\ at' = "while"
        /\ UNCHANGED <<batch, pending, ordered, resolved, i, progressed>>
    BY <1>4 DEF EndPass
  <2>2. \A k \in 1..Len(pending) : k > i
    BY <2>1
  <2> QED
    BY <2>1, <2>2 DEF Ready, OrderedParentsFirst
<1>5. CASE Return
  <2>1. pending = <<>>
    BY <1>5, OneIsReady DEF Return
  <2>2. at' = "done" /\ ordered' = ordered /\ pending' = <<>>
    BY <1>5, <2>1 DEF Return
  <2> QED
    BY <1>5, <2>2 DEF Return, OrderedParentsFirst
<1>6. CASE UNCHANGED vars
  BY <1>6 DEF vars, OrderedParentsFirst, Ready
<1> QED
  BY <1>1, <1>2, <1>3, <1>4, <1>5, <1>6 DEF Next

LEMMA LoopAlways == Spec => []LoopInv
BY LoopInit, LoopStep, PTL DEF Spec

\* No event of the output comes before a parent of the batch.
THEOREM OutputParentsFirst == Spec => []OrderedParentsFirst
BY LoopAlways, PTL DEF LoopInv

\* The branch for an unresolvable cycle is dead code: parents never lead in a
\* circle, so a pass that makes no progress has nothing left to order.
THEOREM NoCycleBranch == Spec => []NothingUnresolvable
<1>1. LoopInv => NothingUnresolvable
  BY OneIsReady DEF LoopInv, NothingUnresolvable
<1> QED
  BY <1>1, LoopAlways, PTL
-----------------------------------------------------------------------------
(* The slices.                                                             *)

LEMMA Quotient ==
  ASSUME NEW a \in Nat, NEW c \in Nat \ {0}
  PROVE  /\ a \div c \in Nat
         /\ c * (a \div c) <= a
         /\ a < c * (a \div c) + c
OBVIOUS

LEMMA Multiples ==
  ASSUME NEW c \in Nat, NEW a \in Int
  PROVE  a * c \in Int /\ (a - 1) * c = a * c - c /\ (a + 1) * c = a * c + c /\ a * c = c * a
OBVIOUS

LEMMA MultiplesGrow ==
  ASSUME NEW c \in Nat, NEW a \in Int, NEW b \in Int, a <= b
  PROVE  a * c <= b * c
OBVIOUS

\* How far NumChunks slices of length c reach over n events: to the end, and no
\* slice before the last reaches it.
LEMMA SliceBounds ==
  ASSUME NEW n \in Nat, NEW c \in Nat \ {0}, NEW q, q = (n + c - 1) \div c
  PROVE  /\ q \in Nat
         /\ \A k \in 1..q : 0 <= (k - 1) * c /\ (k - 1) * c < n
         /\ \A k \in 1..(q - 1) : k * c < n
         /\ \A j \in 1..n : \E k \in 1..q : (k - 1) * c < j /\ j <= k * c
<1>1. /\ q \in Nat /\ c * q <= n + c - 1 /\ n + c - 1 < c * q + c
      /\ q * c \in Int /\ q * c = c * q
  BY Quotient, Multiples
<1>2. ASSUME NEW k \in Int, 0 <= k, k <= q - 1 PROVE 0 <= k * c /\ k * c < n
  <2>1. k * c \in Int /\ (q - 1) * c = q * c - c /\ (q - 1) * c \in Int
    BY <1>1, Multiples
  <2>2. k * c <= (q - 1) * c
    BY <1>1, <1>2, MultiplesGrow
  <2>3. 0 * c <= k * c /\ 0 * c = 0
    BY <1>2, MultiplesGrow
  <2> QED
    BY <1>1, <2>1, <2>2, <2>3
<1>3. ASSUME NEW k \in 1..q PROVE 0 <= (k - 1) * c /\ (k - 1) * c < n
  <2>1. k - 1 \in Int /\ 0 <= k - 1 /\ k - 1 <= q - 1
    BY <1>1
  <2> QED
    BY <1>2, <2>1
<1>4. ASSUME NEW k \in 1..(q - 1) PROVE k * c < n
  <2>1. k \in Int /\ 0 <= k /\ k <= q - 1
    BY <1>1
  <2> QED
    BY <1>2, <2>1
<1>5. ASSUME NEW j \in 1..n PROVE \E k \in 1..q : (k - 1) * c < j /\ j <= k * c
  <2> DEFINE r == (j - 1) \div c
             k == r + 1
  <2>1. r \in Nat /\ c * r <= j - 1 /\ j - 1 < c * r + c
    BY Quotient
  <2>2. k * c = r * c + c /\ r * c = c * r /\ r * c \in Int
    BY <2>1, Multiples
  <2>3. k - 1 = r
    BY <2>1
  <2>4. r * c < j /\ j <= k * c
    BY <2>1, <2>2
  <2>5. k <= q
    <3>1. SUFFICES ASSUME q <= r PROVE FALSE
      BY <1>1, <2>1
    <3>2. q * c <= r * c
      BY <1>1, <2>1, <3>1, MultiplesGrow
    <3> QED
      BY <1>1, <2>2, <2>4, <3>2
  <2>6. k \in 1..q
    BY <1>1, <2>1, <2>5
  <2> HIDE DEF r, k
  <2> QED
    BY <2>3, <2>4, <2>6
<1> QED
  BY <1>1, <1>3, <1>4, <1>5

\* Slices come in the order of what is in them.
LEMMA SlicesInOrder ==
  ASSUME NEW c \in Nat, NEW k \in Nat, NEW l \in Nat, NEW m \in Nat, NEW n \in Nat,
         (k - 1) * c < m, n <= l * c, m <= n
  PROVE  k <= l
<1>1. SUFFICES ASSUME l <= k - 1 PROVE FALSE
  OBVIOUS
<1>2. l * c <= (k - 1) * c
  BY <1>1, MultiplesGrow
<1>3. l * c \in Int /\ (k - 1) * c \in Int
  BY Multiples
<1> QED
  BY <1>2, <1>3

LEMMA IntervalCount ==
  ASSUME NEW a \in Int, NEW b \in Int, a <= b + 1
  PROVE  IsFiniteSet(a..b) /\ Cardinality(a..b) = b - a + 1
<1>1. IsFiniteSet(a..b) /\ Cardinality(a..b) = IF a > b THEN 0 ELSE b - a + 1
  BY FS_Interval
<1> QED
  BY <1>1

\* What a slice holds, by the indices in it.
Slice(I) == {ordered[j] : j \in I}

LEMMA SliceCardinality ==
  ASSUME NEW n \in Nat, NEW I \in SUBSET (1..n), IsFiniteSet(I),
         \A j, k \in 1..n : ordered[j] = ordered[k] => j = k
  PROVE  IsFiniteSet(Slice(I)) /\ Cardinality(Slice(I)) = Cardinality(I)
<1> DEFINE f == [j \in I |-> ordered[j]]
<1>1. f \in Bijection(I, Slice(I))
  <2>1. f \in [I -> Slice(I)]
    BY DEF Slice
  <2>2. \A j, k \in I : f[j] = f[k] => j = k
    OBVIOUS
  <2>3. \A x \in Slice(I) : \E j \in I : f[j] = x
    BY DEF Slice
  <2> HIDE DEF f
  <2> QED
    BY <2>1, <2>2, <2>3 DEF Bijection, Injection, IsInjective, Surjection
<1>2. ExistsBijection(I, Slice(I))
  BY <1>1 DEF ExistsBijection
<1> QED
  BY <1>2, FS_Bijection

\* An output that holds the batch once and parents first is sliced into chunks.
LEMMA SlicesOfOrder ==
  ASSUME ordered \in Seq(Event), batch \in SUBSET Event, IsFiniteSet(batch),
         Range(ordered) = batch, Cardinality(batch) = Len(ordered), OrderedParentsFirst
  PROVE  Slices \in Chunkings(batch)
<1> DEFINE c == ChunkSize
           n == Len(ordered)
           q == NumChunks(batch)
           I(k) == {j \in 1..n : (k - 1) * c < j /\ j <= k * c}
<1>1. n \in Nat /\ c \in Nat \ {0} /\ q = (n + c - 1) \div c
  BY ChunkSizeAssumption DEF NumChunks
<1>2. /\ \A j \in 1..n : ordered[j] \in batch
      /\ \A x \in batch : \E j \in 1..n : ordered[j] = x
  BY DEF Range
<1>3. \A j, k \in 1..n : ordered[j] = ordered[k] => j = k
  <2>1. IsFiniteSet(1..n) /\ Cardinality(1..n) = n
    <3> HIDE DEF n
    <3>1. 1 \in Int /\ n \in Int /\ 1 <= n + 1 /\ n - 1 + 1 = n
      BY <1>1
    <3> QED
      BY <3>1, IntervalCount
  <2>2. ordered \in [1..n -> batch]
    BY <1>1, <1>2
  <2>3. ordered \in Surjection(1..n, batch)
    BY <1>2, <2>2 DEF Surjection
  <2>4. ordered \in Injection(1..n, batch)
    <3> HIDE DEF n
    <3>1. Cardinality(1..n) = Cardinality(batch)
      BY <2>1 DEF n
    <3> QED
      BY <2>1, <2>3, <3>1, FS_SurjSameCardinalityImpliesInj
  <2> HIDE DEF n
  <2> QED
    BY <2>4 DEF Injection, IsInjective
<1>4. /\ Slices = [k \in 1..q |-> Slice(I(k))]
  BY DEF Slices, Slice
<1> HIDE DEF q, n
<1>5. /\ q \in Nat
      /\ \A k \in 1..q : 0 <= (k - 1) * c /\ (k - 1) * c < n
      /\ \A k \in 1..(q - 1) : k * c < n
      /\ \A j \in 1..n : \E k \in 1..q : (k - 1) * c < j /\ j <= k * c
  BY <1>1, SliceBounds
<1>6. ASSUME NEW k \in 1..q
      PROVE  /\ Slice(I(k)) \in Chunks(batch)
             /\ k < q => Cardinality(Slice(I(k))) = c
  <2> DEFINE lo == (k - 1) * c
             hi == k * c
  <2>1. lo \in Int /\ hi \in Int /\ hi = lo + c /\ 0 <= lo /\ lo < n
    <3>1. lo \in Int /\ hi \in Int /\ lo = hi - c
      BY <1>1, <1>5, Multiples
    <3>2. 0 <= lo /\ lo < n
      BY <1>5
    <3> HIDE DEF lo, hi
    <3> QED
      BY <1>1, <3>1, <3>2
  <2>2. k < q => hi < n
    BY <1>5
  <2>3. I(k) = {j \in 1..n : lo < j /\ j <= hi}
    OBVIOUS
  <2> HIDE DEF lo, hi, I
  <2>4. I(k) \in SUBSET ((lo + 1)..hi) /\ I(k) \in SUBSET (1..n) /\ lo + 1 \in I(k)
    BY <1>1, <2>1, <2>3
  <2>5. IsFiniteSet((lo + 1)..hi) /\ Cardinality((lo + 1)..hi) = c
    <3>1. lo + 1 \in Int /\ hi \in Int /\ lo + 1 <= hi + 1 /\ hi - (lo + 1) + 1 = c
      BY <1>1, <2>1
    <3> QED
      BY <3>1, IntervalCount
  <2>6. IsFiniteSet(I(k)) /\ Cardinality(I(k)) <= c
    BY <2>4, <2>5, FS_Subset
  <2>7. k < q => Cardinality(I(k)) = c
    <3>1. SUFFICES ASSUME k < q PROVE Cardinality(I(k)) = c
      OBVIOUS
    <3>2. I(k) = (lo + 1)..hi
      BY <1>1, <2>1, <2>2, <2>3, <3>1
    <3> QED
      BY <2>5, <3>2
  <2>8. IsFiniteSet(Slice(I(k))) /\ Cardinality(Slice(I(k))) = Cardinality(I(k))
    BY <1>1, <1>3, <2>4, <2>6, SliceCardinality
  <2>9. Slice(I(k)) \in SUBSET batch /\ Slice(I(k)) # {}
    BY <1>2, <2>4 DEF Slice
  <2> QED
    BY <2>6, <2>7, <2>8, <2>9 DEF Chunks
<1>7. Slices \in [1..q -> Chunks(batch)]
  <2>1. \A k \in 1..q : Slice(I(k)) \in Chunks(batch)
    BY <1>6
  <2> HIDE DEF I
  <2> QED
    BY <1>4, <2>1
<1>8. \A k \in 1..(q - 1) : Cardinality(Slices[k]) = ChunkSize
  <2> SUFFICES ASSUME NEW k \in 1..(q - 1) PROVE Cardinality(Slices[k]) = c
    OBVIOUS
  <2>1. k \in 1..q /\ k < q
    BY <1>5
  <2>2. Cardinality(Slice(I(k))) = c
    BY <1>6, <2>1
  <2> HIDE DEF I
  <2> QED
    BY <1>4, <2>1, <2>2
<1>9. ASSUME NEW x \in batch
      PROVE  \E k \in 1..q : x \in Slices[k]
  <2>1. PICK j \in 1..n : ordered[j] = x
    BY <1>2
  <2>2. PICK k \in 1..q : (k - 1) * c < j /\ j <= k * c
    BY <1>5
  <2>3. j \in I(k)
    BY <2>2
  <2> HIDE DEF I
  <2> QED
    BY <1>4, <2>1, <2>3 DEF Slice
<1>10. ASSUME NEW k \in 1..q, NEW x \in Slices[k]
       PROVE  \E j \in 1..n : ordered[j] = x /\ (k - 1) * c < j /\ j <= k * c
  <2>1. x \in Slice(I(k))
    <3> HIDE DEF I
    <3> QED
      BY <1>4, <1>10
  <2> QED
    BY <2>1 DEF Slice
<1> HIDE DEF I
<1>11. Upto(Slices, q) = batch
  <2>1. \A k \in 1..q : Slices[k] \subseteq batch
    BY <1>7 DEF Chunks
  <2> QED
    BY <1>9, <2>1 DEF Upto
<1>12. ASSUME NEW k \in 1..q, NEW l \in 1..q, NEW x \in Slices[k], x \in Slices[l]
       PROVE  k = l
  <2>1. PICK j \in 1..n : ordered[j] = x /\ (k - 1) * c < j /\ j <= k * c
    BY <1>10
  <2>2. PICK m \in 1..n : ordered[m] = x /\ (l - 1) * c < m /\ m <= l * c
    BY <1>10, <1>12
  <2>3. j = m /\ j \in Nat /\ k \in Nat /\ l \in Nat /\ c \in Nat
    BY <1>1, <1>3, <1>5, <2>1, <2>2
  <2>4. k <= l /\ l <= k
    BY <2>1, <2>2, <2>3, SlicesInOrder
  <2> QED
    BY <2>3, <2>4
<1>13. ParentsFirst(Slices, batch)
  <2>1. DOMAIN Slices = 1..q
    BY <1>4
  <2> SUFFICES ASSUME NEW k \in 1..q, NEW x \in Slices[k], NEW p \in Parents[x] \cap batch
               PROVE  p \in Upto(Slices, k)
    BY <2>1 DEF ParentsFirst
  <2>2. PICK j \in 1..n : ordered[j] = x /\ (k - 1) * c < j /\ j <= k * c
    BY <1>10
  <2>3. PICK m \in 1..(j - 1) : ordered[m] = p
    BY <2>2 DEF OrderedParentsFirst, n
  <2>4. PICK l \in 1..q : p \in Slices[l]
    BY <1>9
  <2>5. PICK h \in 1..n : ordered[h] = p /\ (l - 1) * c < h /\ h <= l * c
    BY <1>10, <2>4
  <2>6. h = m
    <3>1. m \in 1..n
      BY <1>1
    <3> QED
      BY <1>3, <2>3, <2>5, <3>1
  <2>7. /\ c \in Nat /\ l \in Nat /\ k \in Nat /\ h \in Nat /\ j \in Nat /\ h <= j
    BY <1>1, <1>5, <2>6
  <2>8. l <= k
    BY <2>2, <2>5, <2>7, SlicesInOrder
  <2>9. l \in 1..k
    BY <2>7, <2>8
  <2> QED
    BY <2>4, <2>9 DEF Upto
<1> QED
  BY <1>7, <1>8, <1>11, <1>12, <1>13 DEF Chunkings, q

\* The loops lose and repeat nothing.
CountInv ==
  /\ batch \in SUBSET Event /\ IsFiniteSet(batch)
  /\ Len(ordered) + Len(pending) = Cardinality(batch)
  /\ at = "done" => Range(ordered) = batch /\ pending = <<>>

LEMMA CountInit == Init => CountInv
<1> SUFFICES ASSUME Init PROVE CountInv
  OBVIOUS
<1>1. batch \in SUBSET Event /\ IsFiniteSet(batch) /\ Cardinality(batch) \in Nat
  BY EventAssumption, FS_Subset, FS_CardinalityType DEF Init
<1>2. Len(pending) = Cardinality(batch)
  <2>1. pending \in [1..Cardinality(batch) -> batch]
    BY DEF Init, SetToSeqs
  <2> QED
    BY <1>1, <2>1
<1> QED
  BY <1>1, <1>2 DEF Init, CountInv

LEMMA CountStep ==
  ASSUME LoopInv, CountInv, [Next]_vars
  PROVE  CountInv'
<1> USE DEF CountInv
<1>1. CASE Take
  <2>1. i \in 1..Len(pending) /\ pending \in Seq(Event) /\ ordered \in Seq(Event)
    BY <1>1 DEF Take, LoopInv
  <2>2. pending' = RemoveAt(pending, i) /\ ordered' = Append(ordered, pending[i])
    BY <1>1 DEF Take
  <2>3. Len(pending') = Len(pending) - 1
    BY <2>1, <2>2, RemoveAtType
  <2>4. Len(ordered') = Len(ordered) + 1
    BY <2>1, <2>2
  <2>5. Len(ordered) \in Nat /\ Len(pending) \in Nat
    BY <2>1
  <2> QED
    BY <1>1, <2>3, <2>4, <2>5 DEF Take
<1>2. CASE Return
  <2>1. pending = <<>> /\ ordered \in Seq(Event)
    BY <1>2, OneIsReady DEF Return, LoopInv
  <2>2. ordered' = ordered /\ pending' = <<>>
    BY <1>2, <2>1 DEF Return
  <2>3. Range(ordered) = batch
    BY <1>2, <2>1 DEF Return, LoopInv, Range
  <2> QED
    BY <1>2, <2>1, <2>2, <2>3 DEF Return
<1>3. CASE NextPass \/ Skip \/ EndPass \/ UNCHANGED vars
  BY <1>3 DEF NextPass, Skip, EndPass, vars
<1> QED
  BY <1>1, <1>2, <1>3 DEF Next

\* What _sendChunked slices from the output is one of the ways to cut the batch
\* that Chunkings lists: Replication may take any of those.
THEOREM SlicingIsChunking == Spec => []SlicesAreChunking
<1>1. LoopInv /\ CountInv => SlicesAreChunking
  <2> SUFFICES ASSUME LoopInv, CountInv, at = "done" PROVE Slices \in Chunkings(batch)
    BY DEF SlicesAreChunking
  <2>1. ordered \in Seq(Event) /\ OrderedParentsFirst /\ Len(ordered) \in Nat
    BY DEF LoopInv
  <2>2. Range(ordered) = batch /\ Cardinality(batch) = Len(ordered)
    BY <2>1 DEF CountInv
  <2> QED
    BY <2>1, <2>2, SlicesOfOrder DEF CountInv
<1>2. LoopInv /\ CountInv /\ [Next]_vars => CountInv'
  BY CountStep
<1> QED
  BY <1>1, <1>2, CountInit, LoopAlways, PTL DEF Spec
=============================================================================
