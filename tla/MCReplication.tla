---------------------------- MODULE MCReplication ----------------------------
(***************************************************************************)
(* Instances of Replication for TLC.                                       *)
(***************************************************************************)
EXTENDS Replication, TLC

CONSTANTS A, B, C                  \* peers
CONSTANTS e1, e2, e3, e4           \* events

\* A diamond whose top is e4: e1 <- e2, e3 <- e4.
Diamond == (e1 :> {}) @@ (e2 :> {e1}) @@ (e3 :> {e1}) @@ (e4 :> {e2, e3})

\* One event on another.
Pair == (e1 :> {}) @@ (e2 :> {e1})

\* Two events on one parent: what two peers make while apart.
Fork == (e1 :> {}) @@ (e2 :> {e1}) @@ (e3 :> {e1})

\* The families of parent-closed logs that give every peer of S one of Ls.
Logs(S, Ls) == {f \in [S -> Ls] : \A p \in S : ParentClosed(f[p])}

\* Every such family.
AllLogs == Logs(Peer, SUBSET Event)
\* The two ends diverged while apart, or one is new.
Ends == {(A :> {e1, e2}) @@ (B :> {e1, e3}), (A :> {e1, e2}) @@ (B :> {})}

\* One end is two events ahead, and more can be made at both.
Behind == {(A :> {e1, e2}) @@ (B :> {})}

\* Three peers, each with something another lacks.
Spread == {(A :> {e1, e2}) @@ (B :> {e1}) @@ (C :> {})}

\* Both applications have an event; B's is the top of the diamond.
BothOwn == (A :> {e3}) @@ (B :> {e4})

\* Only A's application has events.
AOwns == (A :> {e1, e2}) @@ (B :> {})

\* No application has any.
NoneOwn == [p \in Peer |-> {}]

\* Nothing yet.
EmptyLogs == {[p \in Peer |-> {}]}
=============================================================================
