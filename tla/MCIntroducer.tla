---------------------------- MODULE MCIntroducer ----------------------------
(***************************************************************************)
(* Instances of Introducer for TLC.                                        *)
(***************************************************************************)
EXTENDS Introducer, TLC

CONSTANTS M, A, B                  \* peers
CONSTANTS ma, mb, s1, s2, h        \* attempts

\* M is connected to A and to B, who do not know each other.
Star == (ma :> <<M, A>>) @@ (mb :> <<M, B>>)

\* Each of the two asks M for the other.
BothAsk == (s1 :> A) @@ (s2 :> B)

\* A connects to M by hand, when it has lost its connection.
BackToM == {<<A, M>>}

ViaM == [s \in Session |-> M]
ExcludeNobody == [s \in Session |-> {}]
=============================================================================
