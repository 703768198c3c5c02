------------------------------ MODULE MCArchive ------------------------------
(***************************************************************************)
(* One or two archive nodes and wallets; see the two configurations.        *)
(***************************************************************************)
EXTENDS Archive, TLC

CONSTANTS n1, n2, d1, d2, p1, p2, p3, a1

\* Both wallets are behind one address.
OneAddress == [d \in Domain |-> a1]

\* Nodes and calls are interchangeable: no property names one of them.
Symmetry == Permutations(Node) \cup Permutations(Push)
=============================================================================
