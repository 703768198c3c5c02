------------------------------ MODULE MCBundles ------------------------------
(***************************************************************************)
(* Instances of Bundles for TLC.                                           *)
(***************************************************************************)
EXTENDS Bundles, TLC

CONSTANTS P, Q                     \* peers
CONSTANTS f, g, h                  \* files
CONSTANTS c1, c2, c3, c4           \* calls
CONSTANTS index, odd, coded, empty \* names

\* P publishes two versions that share f, Q a third; P another application, with
\* no files.
TwoAuthors == (c1 :> P) @@ (c2 :> P) @@ (c3 :> Q) @@ (c4 :> P)
TwoApps == (c1 :> "app") @@ (c2 :> "app") @@ (c3 :> "app") @@ (c4 :> "other")
Versions == (c1 :> {f}) @@ (c2 :> {f, g}) @@ (c3 :> {h}) @@ (c4 :> {})

\* f and h are two texts of index.html; g has a name that a URL encodes.
Paths == (f :> <<0, index>>) @@ (g :> <<0, odd>>) @@ (h :> <<0, index>>)
Percent == (index :> index) @@ (odd :> coded) @@ (coded :> coded) @@ (empty :> empty)
=============================================================================
