------------------------- MODULE MCTopologicalOrder -------------------------
(***************************************************************************)
(* TopologicalOrder on every subset of five events, in every order.        *)
(***************************************************************************)
EXTENDS TopologicalOrder

CONSTANTS e1, e2, e3, e4, e5

\* Two branches over e1 that e4 merges, and e5 on one of them.
Branches == (e1 :> {}) @@ (e2 :> {e1}) @@ (e3 :> {e1}) @@ (e4 :> {e2, e3})
              @@ (e5 :> {e3})
=============================================================================
