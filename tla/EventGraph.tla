----------------------------- MODULE EventGraph -----------------------------
(***************************************************************************)
(* What Aiwa_platform relies on from the operations of aiwa-core's         *)
(* EventLog, over the parents that events name.  A log is modelled by the  *)
(* set of the events it holds.  aiwa-core is not in this repository: the   *)
(* operators below state what its callers under src/src (replicator.js,    *)
(* bundle.js) use of append(), head(), since() and appendMany().           *)
(***************************************************************************)
CONSTANT Parents    \* Parents[e]: the events that e.parents names

\* append() refuses an event with a parent the log does not hold.
ParentClosed(L) == \A e \in L : Parents[e] \subseteq L

\* head(): the events of the log that no event of the log names as a parent.
Heads(L) == {e \in L : \A c \in L : e \notin Parents[c]}

\* What a walk from hs along parents finds in the log: the least
\* parent-closed part of L that holds those of hs that L has.
Reachable(L, hs) ==
  {e \in L : \A S \in SUBSET L : hs \cap L \subseteq S /\ ParentClosed(S) => e \in S}

\* since(hs): the events of the log that are not reachable from hs.
Since(L, hs) == L \ Reachable(L, hs)

\* appendMany(B) retries until no event of B becomes resolvable any more; what
\* it stored stays stored even when it then throws over the rest.
Appendable(L, B) == UNION {T \in SUBSET B : ParentClosed(L \cup T)}
=============================================================================
