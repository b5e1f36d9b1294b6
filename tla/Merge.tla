------------------------------- MODULE Merge -------------------------------
(***************************************************************************)
(* The three-way merge of cowt-core/src/merge.rs: the planner, which       *)
(* compares the fork-time snapshot (base), the host directory (current)    *)
(* and the worktree (work), and the executor, which commits the plan to    *)
(* the host one filesystem operation at a time while the host's own users  *)
(* keep editing, and which may be interrupted and run again.               *)
(*                                                                         *)
(* A tree is a function from the finite set of relative paths to entries.  *)
(* An entry is abstracted to what Entry::content_eq compares: a file is    *)
(* its (size, hash, mode), a directory its mode, a symlink its target.     *)
(***************************************************************************)
EXTENDS FiniteSets, Naturals

CONSTANTS
  Path,         \* relative paths below the target root
  Anc,          \* Anc[p]: the strict ancestors of p (Path::starts_with)
  Files,        \* signatures of regular files
  Dirs,         \* signatures of directories (permission bits)
  Links,        \* signatures of symlinks (targets; none resolves to a directory)
  UmaskDir,     \* the directory create_dir_all makes, mode left to the umask
  Nil,          \* no entry at this path
  MaxEdits,     \* bound: paths the host's users edit after the first scan
  MaxAttempts   \* bound: invocations of `cowt apply`

Entry == Files \cup Dirs \cup Links

ASSUME PathAssumption ==
  /\ Anc \in [Path -> SUBSET Path]
  /\ \A p \in Path : p \notin Anc[p]
  /\ \A p \in Path : \A q \in Anc[p] : Anc[q] \subseteq Anc[p]
  \* The ancestors of a path form a chain.
  /\ \A p \in Path : \A q, r \in Anc[p] : q = r \/ q \in Anc[r] \/ r \in Anc[q]

ASSUME EntryAssumption ==
  /\ Files \cap Dirs = {} /\ Files \cap Links = {} /\ Dirs \cap Links = {}
  /\ Nil \notin Entry
  /\ UmaskDir \in Dirs

ASSUME BoundAssumption == MaxEdits \in Nat /\ MaxAttempts \in Nat

VARIABLES
  base,     \* manifest.json: the snapshot taken by fork
  work,     \* the effective worktree state (base with the upper layer on it)
  host,     \* the host directory
  seen,     \* the host as the running apply scanned it: `current`
  origin,   \* the host as the first apply scanned it (history)
  edited,   \* paths the host's users edited after that first scan (history)
  attempt,  \* how many times apply has been started
  pc,       \* the phase of execute_inner the running apply is in
  left,     \* the operations of this phase that are still to do
  mid       \* the operation under way, when it takes several system calls

vars == <<base, work, host, seen, origin, edited, attempt, pc, left, mid>>

-----------------------------------------------------------------------------
(* Trees                                                                   *)

Tree == [Path -> Entry \cup {Nil}]

\* Whatever exists lies in directories.
IsTree(t) == \A p \in Path : t[p] # Nil => \A q \in Anc[p] : t[q] \in Dirs

Below(d) == {p \in Path : d \in Anc[p]}

IsParent(d, p) == d \in Anc[p] /\ Anc[p] = Anc[d] \cup {d}

HasChild(t, d) == \E p \in Below(d) : t[p] # Nil

\* The kinds of two entries differ (EntryKind).
KindDiffers(e, f) ==
  \E K \in {Files, Dirs, Links} : (e \in K) # (f \in K)

\* Mutant: nothing that is in the way of a parent directory is noticed.
CanMakeDirsMutant(t, D) == TRUE

\* fs::create_dir_all on every path of D: it makes what is missing and fails
\* on anything that is there and is not a directory.
CanMakeDirs(t, D) == \A q \in D : t[q] \in Dirs \cup {Nil}
MakeDirs(t, D) ==
  [p \in Path |-> IF p \in D /\ t[p] = Nil THEN UmaskDir ELSE t[p]]

-----------------------------------------------------------------------------
(* The planner: merge::plan on base b, current c, work w.                  *)

\* The worktree changed p and the host did not.
Candidates(b, c, w) == {p \in Path : w[p] # b[p] /\ c[p] = b[p]}

\* Host entries strictly below d that base never had.
HostOnly(b, c, d) == {p \in Below(d) : c[p] # Nil /\ b[p] = Nil}

\* Mutant: what the host put into a removed directory is not looked for.
BlockedMutant(b, c, w) == {}

\* The change takes a directory away, and the host put something inside it.
Blocked(b, c, w) ==
  {p \in Candidates(b, c, w) :
     b[p] \in Dirs /\ w[p] \notin Dirs /\ HostOnly(b, c, p) # {}}

ConflictPaths(b, c, w) ==
  {p \in Path : w[p] # b[p] /\ c[p] # b[p] /\ c[p] # w[p]}
    \cup UNION {HostOnly(b, c, d) : d \in Blocked(b, c, w)}

Clean(b, c, w) == ConflictPaths(b, c, w) = {}

Planned(b, c, w) == Candidates(b, c, w) \ Blocked(b, c, w)

Mkdirs(b, c, w) == {p \in Planned(b, c, w) : w[p] \in Dirs}
Writes(b, c, w) == {p \in Planned(b, c, w) : w[p] \in Files}
Symlinks(b, c, w) == {p \in Planned(b, c, w) : w[p] \in Links}
Removals(b, c, w) == {p \in Planned(b, c, w) : w[p] = Nil}

\* Delete operations that clear the way for an entry of another kind.
Migrations(b, c, w) ==
  {p \in Planned(b, c, w) : b[p] # Nil /\ w[p] # Nil /\ KindDiffers(b[p], w[p])}

Deletes(b, c, w) == Removals(b, c, w) \cup Migrations(b, c, w)

\* Mutant: directories that the worktree kept are pruned too.
EmptyParentsMutant(b, c, w) ==
  {d \in Path : b[d] # Nil /\ \E p \in Deletes(b, c, w) : IsParent(d, p)}

\* Directories gone from the worktree that had something deleted in them.
EmptyParents(b, c, w) ==
  {d \in Path : /\ b[d] # Nil /\ w[d] = Nil
                /\ \E p \in Deletes(b, c, w) : IsParent(d, p)}

-----------------------------------------------------------------------------
(* The executor: merge::execute_inner. The plan it works from is the one   *)
(* computed from base, seen and work.                                      *)

\* An apply that ended early; the user may start another one.
Halted == {"failed", "interrupted"}

\* The executor's steps; a host edit leaves all three alone.
exec == <<pc, left, mid>>

Phases == {"mkdir", "delete", "write", "link", "prune"}

PhaseOps(phase) ==
  {p \in Path :
     \/ phase = "mkdir"  /\ p \in Mkdirs(base, seen, work)
     \/ phase = "delete" /\ p \in Deletes(base, seen, work)
     \/ phase = "write"  /\ p \in Writes(base, seen, work)
     \/ phase = "link"   /\ p \in Symlinks(base, seen, work)
     \/ phase = "prune"  /\ p \in EmptyParents(base, seen, work)}

NextPhase == [mkdir |-> "delete", delete |-> "write", write |-> "link",
              link |-> "prune", prune |-> "done"]

NoOp == [path |-> Nil, at |-> "none"]
Stages == {"create", "chmod", "clear", "place"}

\* op_sort_key: parents first, except that plain deletes go children first
\* and after the migration deletes. Ties may be taken in any order.
MayTake(p) ==
  LET first == left \cap Migrations(base, seen, work)
  IN /\ pc \in Phases
     /\ mid = NoOp
     /\ p \in left
     /\ pc \in {"mkdir", "write", "link"} => Anc[p] \cap left = {}
     /\ pc = "prune" => Below(p) \cap left = {}
     /\ pc = "delete" => IF first # {} THEN p \in first /\ Anc[p] \cap first = {}
                                      ELSE Below(p) \cap left = {}

\* Mutant: the kind of the entry is checked and not its content.
VerifiedMutant(p) ==
  \/ seen[p] = Nil /\ host[p] = Nil
  \/ seen[p] # Nil /\ host[p] = Nil /\ p \in Migrations(base, seen, work)
  \/ seen[p] # Nil /\ host[p] # Nil /\ ~KindDiffers(seen[p], host[p])

\* verify_unchanged: the host path is still what the planner saw. The mode of
\* a directory is not compared. A path may be missing when a migration delete
\* of this very plan took it away.
Verified(p) ==
  \/ seen[p] = Nil /\ host[p] = Nil
  \/ seen[p] # Nil /\ host[p] = Nil /\ p \in Migrations(base, seen, work)
  \/ seen[p] \in Dirs /\ host[p] \in Dirs
  \/ seen[p] \in Files \cup Links /\ host[p] = seen[p]

Frame == UNCHANGED <<base, work, seen, origin, edited, attempt>>

\* Some `?` of execute_inner returns the error: the staging directory is
\* removed and what was committed stays.
Stop(how) == pc' = how /\ left' = {} /\ mid' = NoOp /\ host' = host

Fail == Stop("failed")

Finish(p) == pc' = pc /\ left' = left \ {p} /\ mid' = NoOp

-----------------------------------------------------------------------------
(* Actions                                                                 *)

\* apply.rs: scan the host, plan, stop when there are conflicts.
Start ==
  /\ pc \in {"idle"} \cup Halted
  /\ attempt < MaxAttempts
  /\ attempt' = attempt + 1
  /\ seen' = host
  /\ origin' = IF attempt = 0 THEN host ELSE origin
  /\ edited' = IF attempt = 0 THEN {} ELSE edited
  /\ pc' = IF Clean(base, host, work) THEN "stage" ELSE "conflicts"
  /\ left' = {}
  /\ mid' = NoOp
  /\ UNCHANGED <<base, work, host>>

\* Phase 1: every file body is copied next to the target and synced.
Stage ==
  /\ pc = "stage"
  /\ pc' = "mkdir"
  /\ left' = PhaseOps("mkdir")
  /\ mid' = mid
  /\ host' = host
  /\ Frame

\* One of the loops of phase 2 has run through its operations.
Advance ==
  /\ pc \in Phases
  /\ left = {}
  /\ mid = NoOp
  /\ pc' = NextPhase[pc]
  /\ left' = IF pc = "prune" THEN {} ELSE PhaseOps(NextPhase[pc])
  /\ UNCHANGED <<host, mid>>
  /\ Frame

\* The operation's check finds that the host moved on after planning.
Refuse(p) ==
  /\ pc # "prune"
  /\ MayTake(p)
  /\ ~Verified(p)
  \* A directory under a migration delete and a path that is already gone
  \* are not checked in the delete phase.
  /\ pc = "delete" => /\ host[p] # Nil
                      /\ ~(host[p] \in Dirs /\ p \in Migrations(base, seen, work))
  /\ Fail
  /\ Frame

\* Mkdir over an old file or symlink: remove it first.
MkdirClear(p) ==
  /\ pc = "mkdir"
  /\ MayTake(p)
  /\ Verified(p)
  /\ host[p] \in Files \cup Links
  /\ host' = [host EXCEPT ![p] = Nil]
  /\ mid' = [path |-> p, at |-> "create"]
  /\ UNCHANGED <<pc, left>>
  /\ Frame

\* create_dir_all, which also makes missing parents.
MkdirCreate(p) ==
  /\ pc = "mkdir"
  /\ \/ MayTake(p) /\ Verified(p) /\ host[p] \in Dirs \cup {Nil}
     \/ mid = [path |-> p, at |-> "create"]
  /\ \/ /\ CanMakeDirs(host, Anc[p])
        /\ host' = MakeDirs(host, Anc[p] \cup {p})
        /\ mid' = [path |-> p, at |-> "chmod"]
        /\ UNCHANGED <<pc, left>>
     \/ ~CanMakeDirs(host, Anc[p]) /\ Fail
  /\ Frame

\* Give the directory the worktree's permission bits.
MkdirChmod(p) ==
  /\ mid = [path |-> p, at |-> "chmod"]
  /\ host' = [host EXCEPT ![p] = work[p]]
  /\ Finish(p)
  /\ Frame

\* A directory under a migration delete stays until its successor is
\* committed; a path that is gone needs nothing.
DeleteSkip(p) ==
  /\ pc = "delete"
  /\ MayTake(p)
  /\ \/ host[p] = Nil
     \/ host[p] \in Dirs /\ p \in Migrations(base, seen, work)
  /\ Finish(p)
  /\ host' = host
  /\ Frame

\* remove_file or remove_dir; a directory the host put something into fails.
Delete(p) ==
  /\ pc = "delete"
  /\ MayTake(p)
  /\ Verified(p)
  /\ host[p] # Nil
  /\ ~(host[p] \in Dirs /\ p \in Migrations(base, seen, work))
  /\ \/ ~HasChild(host, p) /\ host' = [host EXCEPT ![p] = Nil] /\ Finish(p)
     \/ HasChild(host, p) /\ Fail
  /\ Frame

\* A staged file or a symlink is about to be put in place: make its parents.
PlaceParents(p) ==
  /\ pc \in {"write", "link"}
  /\ MayTake(p)
  /\ Verified(p)
  /\ \/ /\ CanMakeDirs(host, Anc[p])
        /\ host' = MakeDirs(host, Anc[p])
        /\ mid' = [path |-> p, at |-> "clear"]
        /\ UNCHANGED <<pc, left>>
     \/ ~CanMakeDirs(host, Anc[p]) /\ Fail
  /\ Frame

\* Mutant: the old file is removed before the new one is renamed into place.
InTheWayMutant(p) == host[p] \in Entry

\* rename(2) replaces a file; a directory, and for a symlink anything, has to
\* be taken away first.
InTheWay(p) == host[p] \in IF pc = "write" THEN Dirs ELSE Entry

PlaceClear(p) ==
  /\ mid = [path |-> p, at |-> "clear"]
  /\ InTheWay(p)
  /\ \/ /\ ~HasChild(host, p)
        /\ host' = [host EXCEPT ![p] = Nil]
        /\ mid' = [path |-> p, at |-> "place"]
        /\ UNCHANGED <<pc, left>>
     \/ HasChild(host, p) /\ Fail
  /\ Frame

\* The rename of the staged body, or symlink(2).
Place(p) ==
  /\ \/ mid = [path |-> p, at |-> "clear"] /\ ~InTheWay(p)
     \/ mid = [path |-> p, at |-> "place"]
  /\ host' = [host EXCEPT ![p] = work[p]]
  /\ Finish(p)
  /\ Frame

\* remove_dir on a directory the planner marked; it fails silently.
Prune(p) ==
  /\ pc = "prune"
  /\ MayTake(p)
  /\ host' = IF host[p] \in Dirs /\ ~HasChild(host, p)
             THEN [host EXCEPT ![p] = Nil] ELSE host
  /\ Finish(p)
  /\ Frame

\* The process is killed, or a system call fails, between two steps.
Interrupt ==
  /\ pc \in Phases \cup {"stage"}
  /\ Stop("interrupted")
  /\ Frame

\* The host's own users write, remove, create or chmod one path. The system
\* calls of one operation of the executor are taken as one window.
HostEdit(p, e) ==
  /\ pc \notin {"idle", "done", "conflicts"}
  /\ mid = NoOp
  /\ Cardinality(edited) < MaxEdits
  /\ e # host[p]
  /\ IsTree([host EXCEPT ![p] = e])
  /\ host' = [host EXCEPT ![p] = e]
  /\ edited' = edited \cup {p}
  /\ UNCHANGED <<base, work, seen, origin, attempt, pc, left, mid>>

Init ==
  /\ base \in {t \in Tree : IsTree(t)}
  /\ work \in {t \in Tree : IsTree(t)}
  /\ host \in {t \in Tree : IsTree(t)}
  /\ seen = host
  /\ origin = host
  /\ edited = {}
  /\ attempt = 0
  /\ pc = "idle"
  /\ left = {}
  /\ mid = NoOp

ExecStep(p) ==
  \/ Refuse(p)
  \/ MkdirClear(p) \/ MkdirCreate(p) \/ MkdirChmod(p)
  \/ DeleteSkip(p) \/ Delete(p)
  \/ PlaceParents(p) \/ PlaceClear(p) \/ Place(p)
  \/ Prune(p)

Exec == Stage \/ Advance \/ \E p \in Path : ExecStep(p)

\* A finished or conflicting apply, or one that failed for the last time.
Stopped ==
  /\ pc \in {"done", "conflicts"} \/ (pc \in Halted /\ attempt = MaxAttempts)
  /\ UNCHANGED vars

Next ==
  \/ Start
  \/ Exec
  \/ Interrupt
  \/ \E p \in Path, e \in Entry \cup {Nil} : HostEdit(p, e)
  \/ Stopped

Spec == Init /\ [][Next]_vars
-----------------------------------------------------------------------------
(* Properties                                                              *)

\* Every variable has its type, and the host is a tree at every step: nothing
\* is ever created below a file, and no directory goes while it has entries.
TypeOK ==
  /\ {base, work, host, seen, origin} \subseteq Tree
  /\ edited \subseteq Path
  /\ attempt \in 0..MaxAttempts
  /\ pc \in Phases \cup Halted \cup {"idle", "stage", "conflicts", "done"}
  /\ left \subseteq Path
  /\ mid \in [path : Path, at : Stages] \cup {NoOp}
  /\ IsTree(host)

\* What is left to do belongs to the phase.
LeftOK == left # {} => pc \in Phases /\ left \subseteq PhaseOps(pc)

\* What the system calls of the operation under way have done so far.
MidOK ==
  mid # NoOp =>
    LET p == mid.path
    IN /\ p \in left
       /\ mid.at \in {"create", "chmod"} => pc = "mkdir"
       /\ mid.at \in {"clear", "place"} => pc \in {"write", "link"}
       /\ mid.at \in {"create", "place"} => host[p] = Nil
       /\ mid.at = "chmod" => host[p] \in Dirs
       /\ mid.at = "clear" => Verified(p)
       /\ \A q \in Anc[p] : host[q] \in Dirs

\* The inductive invariant behind the two theorems of MergeProofs.
Inv == TypeOK /\ LeftOK /\ MidOK

\* merge.rs:678-681: a step of the executor never removes or replaces a file or a
\* symlink of the host that is not the one the planner saw, whenever the
\* host's users put it there and however many operations ran in between.
KeepsFreshFiles ==
  \A p \in Path :
    host[p] \in Files \cup Links /\ host[p] # seen[p] => host'[p] = host[p]

FreshFilesKept == [][KeepsFreshFiles]_exec

\* The same for the permission bits of a directory that the host's users
\* changed after the scan.
FreshModesKept ==
  [][\A p \in edited :
       {host[p], seen[p]} \subseteq Dirs /\ host[p] # seen[p] => host'[p] = host[p]]_exec

\* What merge.rs:3-13 promises for every path, and the directories that
\* create_dir_all adds above a path it writes.
Merged(p) == IF work[p] = base[p] THEN origin[p] ELSE work[p]
Required(p) == \E q \in Below(p) : work[q] # base[q] /\ work[q] # Nil
Reference ==
  [p \in Path |-> IF Merged(p) = Nil /\ Required(p) THEN UmaskDir ELSE Merged(p)]

\* An apply that reports success has made exactly the three-way merge of the
\* three trees, even when earlier attempts were cut short at any system call.
MergedResult == pc = "done" /\ edited = {} => host = Reference

\* The part of the plan that the phases so far must have dealt with.
Committed(p) ==
  \/ work[p] \in Dirs /\ pc \in Phases \cup {"done"} /\ (pc = "mkdir" => p \notin left)
  \/ /\ work[p] = Nil
     /\ pc \in (Phases \ {"mkdir"}) \cup {"done"}
     /\ pc = "delete" => p \notin left
  \/ /\ work[p] \in Files
     /\ pc \in {"write", "link", "prune", "done"}
     /\ pc = "write" => p \notin left
  \/ /\ work[p] \in Links
     /\ pc \in {"link", "prune", "done"}
     /\ pc = "link" => p \notin left

\* Paths the worktree left alone are as they were, but for directories made
\* above a written path.
KeptOK ==
  \A p \in Path : work[p] = base[p] =>
    \/ host[p] = origin[p]
    \/ origin[p] = Nil /\ host[p] = UmaskDir /\ Required(p)

\* Paths it changed are as in the worktree once they are committed, or when
\* the planner already found them so.
ChangedOK ==
  pc \in Phases \cup {"stage", "done"} =>
    /\ Clean(base, seen, work)
    /\ pc = "stage" => host = seen
    /\ \A p \in Path :
         work[p] # base[p] /\ (seen[p] = work[p] \/ Committed(p)) => host[p] = work[p]

\* The inductive invariant behind MergedResult.
MergeInv ==
  /\ IsTree(work)
  /\ pc = "idle" <=> attempt = 0
  /\ attempt > 0 /\ edited = {} => KeptOK /\ ChangedOK

\* What the worktree has at p replaces an entry that has to go first.
MadeRoom(p) ==
  {base[p], work[p]} \subseteq Entry
    /\ (KindDiffers(base[p], work[p]) \/ work[p] \in Links)

\* After a conflict-free attempt was cut short, planning again reports a
\* conflict only where the host was edited meanwhile, where an old entry is
\* gone that was making room for another kind or another symlink (merge.rs:615-632),
\* or where a new directory still lacks its mode. A file that gets another body and a
\* directory that gets another mode are never among them.
RetryConflicts ==
  pc \in Halted /\ Clean(base, origin, work) =>
    \A p \in ConflictPaths(base, host, work) :
      \/ p \in edited
      \/ host[p] = Nil /\ MadeRoom(p)
      \/ host[p] = UmaskDir /\ work[p] \in Dirs

\* merge.rs:678-681, the claim as it stands: an apply that aborted because the
\* host moved on re-scans, re-plans and converges, so that what conflicts then
\* are the paths the host edited.
AbortConverges ==
  pc = "failed" /\ attempt = 1 => ConflictPaths(base, host, work) \subseteq edited

\* A clean plan fails by itself, with no edit after the scan, only where the
\* host has put a file or a symlink in place of a directory that a planned
\* path needs.
FailsUnderReplacedParent ==
  pc = "failed" /\ edited = {} =>
    \E p \in Path : /\ work[p] # base[p] /\ work[p] # Nil
                    /\ ~CanMakeDirs(seen, Anc[p])
=============================================================================
