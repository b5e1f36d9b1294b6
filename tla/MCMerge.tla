------------------------------ MODULE MCMerge ------------------------------
(***************************************************************************)
(* Instances of Merge for TLC: three relative paths, as a chain d, d/s,    *)
(* d/s/x (directories inside directories), as a directory d with two       *)
(* entries d/s and d/x (siblings), or as d, d/x and another entry t next   *)
(* to d (forest).                                                          *)
(***************************************************************************)
EXTENDS Merge, TLC

CONSTANTS d, ds, dx, t, f1, f2, m1, m2, l1, l2

MCChain == {d, ds, dx}
MCChainAnc == (d :> {}) @@ (ds :> {d}) @@ (dx :> {d, ds})

MCPair == {d, dx}
MCPairAnc == (d :> {}) @@ (dx :> {d})

MCSiblings == {d, ds, dx}
MCSiblingsAnc == (d :> {}) @@ (ds :> {d}) @@ (dx :> {d})

MCForest == {d, dx, t}
MCForestAnc == (d :> {}) @@ (dx :> {d}) @@ (t :> {})

\* File bodies are only compared.
FileSymmetry == Permutations({f1, f2})
=============================================================================
