------------------------------ MODULE Chunking ------------------------------
(***************************************************************************)
(* What topologicalOrder followed by slicing gives (replicator.js:23-50    *)
(* and 125-127).  since() yields the missing events in whatever order the  *)
(* backend lists its ids, so any order that puts parents first may come    *)
(* out, and appendMany does not care about the order inside one message:   *)
(* the result is a sequence of sets.  TopologicalOrder.tla models the      *)
(* loops themselves and shows that they implement this definition.         *)
(***************************************************************************)
EXTENDS EventLog, Sequences

CONSTANT ChunkSize                 \* the constructor's chunkSize option
ASSUME ChunkSizeAssumption == ChunkSize \in Nat \ {0}

NumChunks(S) == (Cardinality(S) + ChunkSize - 1) \div ChunkSize

\* The events of the first i chunks.
Upto(cs, i) == UNION {cs[j] : j \in 1..i}

\* No event comes in an earlier chunk than a parent of the same batch.
ParentsFirst(cs, S) ==
  \A i \in DOMAIN cs : \A e \in cs[i] : Parents[e] \cap S \subseteq Upto(cs, i)

Chunks(S) == {T \in SUBSET S : T # {} /\ Cardinality(T) <= ChunkSize}

\* Mutant: the backend's own order, sliced without sorting.
UnsortedChunkings(S) ==
  {cs \in [1..NumChunks(S) -> Chunks(S)] : Upto(cs, NumChunks(S)) = S}

\* Mutant: the last slice is not taken (i + chunkSize < ordered.length).
TruncatedChunkings(S) ==
  IF NumChunks(S) <= 1
    THEN {cs \in [1..NumChunks(S) -> Chunks(S)] : Upto(cs, NumChunks(S)) = S}
    ELSE {cs \in [1..(NumChunks(S) - 1) -> Chunks(S)] : ParentsFirst(cs, S)}

\* Mutant: one slice too many (i <= ordered.length), which is empty.
PaddedChunkings(S) ==
  LET n == NumChunks(S) IN
  {cs \in [1..(n + 1) -> SUBSET S] :
     Upto(cs, n) = S /\ ParentsFirst(cs, S) /\ cs[n + 1] = {}}

\* Every way to cut the missing set S into chunks: each chunk but the last is
\* full, no two overlap, together they are S, and parents come first.
Chunkings(S) ==
  {cs \in [1..NumChunks(S) -> Chunks(S)] :
     /\ Upto(cs, NumChunks(S)) = S
     /\ \A i \in 1..(NumChunks(S) - 1) : Cardinality(cs[i]) = ChunkSize
     /\ \A i, j \in 1..NumChunks(S) : i # j => cs[i] \cap cs[j] = {}
     /\ ParentsFirst(cs, S)}
=============================================================================
