------------------------------ MODULE EventLog ------------------------------
(***************************************************************************)
(* A grow-only set of content-addressed events, each naming its parents by *)
(* id, so that the parents of an event never change.                       *)
(***************************************************************************)
EXTENDS EventGraph, Integers, FiniteSets

CONSTANT Event      \* every event any peer ever holds, one per content id

ASSUME EventAssumption == IsFiniteSet(Event)
ASSUME ParentsAssumption == Parents \in [Event -> SUBSET Event]

\* An event's id is a hash over its parents' ids, so following parents always
\* ends: every non-empty set of events has one with no parent in the set.
ASSUME AcyclicAssumption ==
  \A S \in SUBSET Event : S # {} => \E e \in S : Parents[e] \cap S = {}
=============================================================================
