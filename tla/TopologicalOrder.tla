-------------------------- MODULE TopologicalOrder --------------------------
(***************************************************************************)
(* The loops of topologicalOrder (replicator.js:23-50) and the slicing in  *)
(* _sendChunked (125-127), one step per round of a loop.  Replication      *)
(* takes their result from Chunking!Chunkings; here the loops are shown to *)
(* deliver just that, for every order in which the backend may list the    *)
(* batch.                                                                  *)
(***************************************************************************)
EXTENDS Chunking, SequencesExt

VARIABLES
  batch,       \* byId: the events of the batch
  pending,     \* what is still to be ordered
  ordered,     \* the output so far
  resolved,    \* the events of the output, as a set
  i,           \* the index of the inner loop (from 1)
  progressed,
  at           \* "while": at the outer loop's test; "for": in the inner loop

vars == <<batch, pending, ordered, resolved, i, progressed, at>>

\* The batch in any order, without repetition.
Init ==
  /\ batch \in SUBSET Event
  /\ pending \in SetToSeqs(batch)
  /\ ordered = <<>>
  /\ resolved = {}
  /\ i = 0
  /\ progressed = TRUE
  /\ at = "while"

\* while (pending.length > 0 && progressed): a new pass, from the back.
NextPass ==
  /\ at = "while"
  /\ pending # <<>> /\ progressed
  /\ progressed' = FALSE
  /\ i' = Len(pending)
  /\ at' = "for"
  /\ UNCHANGED <<batch, pending, ordered, resolved>>

\* Mutant: a parent that is not in the batch holds the event back.
ReadyInBatchOnly(e) == \A p \in Parents[e] : p \in resolved

\* Mutant: one resolved parent is enough (some instead of every).
ReadyIfSome(e) == Parents[e] = {} \/ \E p \in Parents[e] : p \in resolved \/ p \notin batch

\* Every parent is in the output already or not in the batch.
Ready(e) == \A p \in Parents[e] : p \in resolved \/ p \notin batch

\* Mutant: forgets to record that the pass made progress.
TakeSilently ==
  /\ at = "for" /\ i >= 1 /\ Ready(pending[i])
  /\ ordered' = Append(ordered, pending[i])
  /\ resolved' = resolved \cup {pending[i]}
  /\ pending' = RemoveAt(pending, i)
  /\ i' = i - 1
  /\ UNCHANGED <<batch, progressed, at>>

\* The event at i is ready: it moves from pending to the output.
Take ==
  /\ at = "for" /\ i >= 1 /\ Ready(pending[i])
  /\ ordered' = Append(ordered, pending[i])
  /\ resolved' = resolved \cup {pending[i]}
  /\ pending' = RemoveAt(pending, i)
  /\ progressed' = TRUE
  /\ i' = i - 1
  /\ UNCHANGED <<batch, at>>

\* Mutant: the index moves only when an event is taken.
SkipStaying ==
  /\ at = "for" /\ i >= 1 /\ ~Ready(pending[i])
  /\ UNCHANGED vars

\* It is not: the loop goes on.
Skip ==
  /\ at = "for" /\ i >= 1 /\ ~Ready(pending[i])
  /\ i' = i - 1
  /\ UNCHANGED <<batch, pending, ordered, resolved, progressed, at>>

EndPass ==
  /\ at = "for" /\ i = 0
  /\ at' = "while"
  /\ UNCHANGED <<batch, pending, ordered, resolved, i, progressed>>

\* The loop is over: what could not be ordered is appended as it is.
Return ==
  /\ at = "while"
  /\ pending = <<>> \/ ~progressed
  /\ ordered' = ordered \o pending
  /\ pending' = <<>>
  /\ at' = "done"
  /\ UNCHANGED <<batch, resolved, i, progressed>>

Next == NextPass \/ Take \/ Skip \/ EndPass \/ Return

Spec == Init /\ [][Next]_vars /\ WF_vars(Next)

\* The slices of the output, as sets.
Slices ==
  [k \in 1..NumChunks(batch) |->
     {ordered[j] : j \in {n \in 1..Len(ordered) :
                            (k - 1) * ChunkSize < n /\ n <= k * ChunkSize}}]
-----------------------------------------------------------------------------
\* No event of the output comes before a parent of the batch.
OrderedParentsFirst ==
  \A n \in 1..Len(ordered) : \A p \in Parents[ordered[n]] \cap batch :
    \E m \in 1..(n - 1) : ordered[m] = p

\* The loops never give up with events left: what is appended "as-is" at the
\* end (replicator.js:45-49: "should never happen") is nothing.
NothingUnresolvable == at = "while" /\ ~progressed => pending = <<>>

\* What is sliced is what Replication takes it to be: the whole batch, in full
\* chunks but for the last, every event once and after its parents
\* (replicator.js:16-22).
SlicesAreChunking == at = "done" => Slices \in Chunkings(batch)

\* The passes come to an end (replicator.js:29).
Terminates == <>(at = "done")
=============================================================================
