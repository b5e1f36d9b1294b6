------------------------------- MODULE Branch -------------------------------
(***************************************************************************)
(* What a worktree is to its user: a set of pending files next to the      *)
(* host directory. A command that is run adds to it, an apply moves files  *)
(* of it to the host one by one, and drop discards what is left. Nothing   *)
(* else changes the host, and nothing pending disappears otherwise.        *)
(***************************************************************************)
CONSTANT File

VARIABLES host, pending, open

Init == host = {} /\ pending = {} /\ open = TRUE

Work(f) ==
  /\ open
  /\ f \notin host \cup pending
  /\ pending' = pending \cup {f}
  /\ UNCHANGED <<host, open>>

Commit(f) ==
  /\ open
  /\ f \in pending
  /\ host' = host \cup {f}
  /\ pending' = pending \ {f}
  /\ open' = open

Discard ==
  /\ open
  /\ open' = FALSE
  /\ pending' = {}
  /\ host' = host

Next == Discard \/ \E f \in File : Work(f) \/ Commit(f)

Spec == Init /\ [][Next]_<<host, pending, open>>
=============================================================================
