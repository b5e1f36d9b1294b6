----------------------------- MODULE MCStateStore -----------------------------
(***************************************************************************)
(* Instances of StateStore for TLC.                                        *)
(***************************************************************************)
EXTENDS StateStore, TLC

CONSTANTS f1, f2, f3, a1, a2, n1, n2, p1, p2, p3

MCSymmetry == Permutations(Fork) \cup Permutations(Apply) \cup Permutations(Pid)
=============================================================================
