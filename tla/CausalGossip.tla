---------------------------- MODULE CausalGossip ----------------------------
(***************************************************************************)
(* What the replicator promises: every log is closed under parents at all  *)
(* times, never loses an event, and gains one only because its peer's      *)
(* application has it, or because another peer or its application does.    *)
(* Nothing here speaks of messages, chunks or connections.                 *)
(***************************************************************************)
EXTENDS EventLog

CONSTANTS
  Peer,
  Own,        \* Own[p]: the events that p's application has
  InitLogs    \* the families of logs the peers may start from
VARIABLE log

Init == log \in InitLogs

\* A peer's application appends one of its events, onto parents the log holds.
AppendOwn(p, e) ==
  /\ e \in Own[p]
  /\ Parents[e] \subseteq log[p]
  /\ log' = [log EXCEPT ![p] = @ \cup {e}]

\* A peer takes over events of another, never one before its parents.
Gossip(p, q) == \E D \in SUBSET (log[q] \cup Own[q]) :
  /\ ParentClosed(log[p] \cup D)
  /\ log' = [log EXCEPT ![p] = @ \cup D]

Next ==
  \E p \in Peer :
    \/ \E e \in Event : AppendOwn(p, e)
    \/ \E q \in Peer : Gossip(p, q)

Spec == Init /\ [][Next]_log
=============================================================================
