----------------------------- MODULE MCWorktree -----------------------------
(***************************************************************************)
(* Instances of Worktree for TLC.                                          *)
(***************************************************************************)
EXTENDS Worktree, TLC

CONSTANTS r1, r2, r3, a1, a2, d1, d2, x1, x2

\* Every label of a command that is under way, and those outside the window
\* between spawn and the pidfile.
AllLabels ==
  {"recover", "unmount", "mkdirs", "mount", "spawn", "claim", "lost", "guard", "running",
   "down", "clear", "scan", "fold", "gate", "commit", "post", "rescan", "last", "meta",
   "manifest", "reset", "mkupper", "status", "first", "loop", "take", "again", "retake",
   "recheck", "rename"}
SafeLabels == AllLabels \ {"claim"}

MCSymmetry == Permutations(Run) \cup Permutations(Apply) \cup Permutations(Drop)
=============================================================================
