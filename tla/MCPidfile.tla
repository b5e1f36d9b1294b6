----------------------------- MODULE MCPidfile -----------------------------
(***************************************************************************)
(* Instances of Pidfile for TLC. Pids and runs are interchangeable.        *)
(***************************************************************************)
EXTENDS Pidfile, TLC

Symmetry == Permutations(Pid) \cup Permutations(Runner)
=============================================================================
