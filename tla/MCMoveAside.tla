----------------------------- MODULE MCMoveAside -----------------------------
(***************************************************************************)
(* Instances of MoveAside for TLC.                                         *)
(***************************************************************************)
EXTENDS MoveAside, TLC

CONSTANTS r1, r2, d1, d2, x1, x2, a, b

MCRank == (a :> 2) @@ (b :> 4) @@ (d1 :> 3) @@ (d2 :> 1)

On(os, of, patient, n) ==
  [on |-> os, of |-> of, patient |-> patient, crashes |-> n]

\* A user who gives one command after another: two runs, drop --force, diff again and again.
Solo(os) == On(os, (r1 :> a) @@ (r2 :> a) @@ (x1 :> a) @@ (d1 :> a), TRUE, 2)
\* The same with two worktrees of the target.
Twins(os, n) == On(os, (r1 :> a) @@ (r2 :> b) @@ (x1 :> a) @@ (x2 :> b), TRUE, n)
\* All commands at once, on one worktree.
Race(os, n) == On(os, (r1 :> a) @@ (r2 :> a) @@ (d1 :> a), FALSE, n)
Drops(os, n) == On(os, (r1 :> a) @@ (d1 :> a) @@ (d2 :> a), FALSE, n)
Pair(os) == On(os, (r1 :> a) @@ (d1 :> a), FALSE, 1)

Oses == {"mac", "win"}
User == {Solo(os) : os \in Oses} \cup {Twins("win", 1)}
Everything == User \cup {Pair(os) : os \in Oses} \cup {Drops("win", 0)}
Racing == {Race(os, 1) : os \in Oses} \cup {Drops(os, 1) : os \in Oses}
MacTwins == {Twins("mac", 1)}

\* Every label of a command under way, and those outside the window between spawn and
\* the pidfile.
AllLabels == Labels \ (Ended \cup {"idle"})
SafeLabels == AllLabels \ {"claim", "lost"}
=============================================================================
