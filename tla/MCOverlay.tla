------------------------------ MODULE MCOverlay ------------------------------
(***************************************************************************)
(* Instances of Overlay for TLC: a directory d with an entry d/x and a     *)
(* directory or file d/s, with d/s/y in it.                                *)
(***************************************************************************)
EXTENDS Overlay, TLC

CONSTANTS d, dx, ds, dsy, f1, f2

MCChain == {d, ds, dsy}
MCPair == {d, dx, ds}
MCPath == {d, dx, ds, dsy}
MCAnc == [p \in Path |-> CASE p = d -> {} [] p = dsy -> {d, ds} [] OTHER -> {d}]

\* File bodies are only compared.
FileSymmetry == Permutations(Files)
=============================================================================
