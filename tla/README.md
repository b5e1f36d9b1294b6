# TLA+ verification of co-worktree

`cowt` forks a directory without copying it: `run` shows a program a
copy-on-write view at the directory's own path, `diff` reports what the program
changed, `apply` merges the changes back, `drop` throws them away. This
directory holds a TLA+ model of the parts of it that are hard to get right, the
TLC instances that check the model, and theorems about it checked by TLAPS.
Paths below are relative to the repository; `mod.rs` is
`crates/cowt/src/backend/mod.rs`, the other file names are unique.

## 1. The system

| Component | State it keeps | Operations | What makes it correct |
|---|---|---|---|
| **Merge** (`merge.rs`) | none between calls; reads three trees, writes the host | `plan`, `host_only_entries`, `execute` in phases mkdir, delete, write, link, prune; `verify_unchanged` before each operation | A finished apply is the three-way merge. A cut-off one can be run again. Nothing the planner did not see is overwritten. |
| **Pidfile** (`mod.rs`, `state.rs`, `run.rs`, `drop.rs`) | `run.pid`: pid and start time of the running child | `write_pidfile`, `running_pid`, `stale_run`, `clear_running`, `reap_orphan_child`, `terminate` | One run at a time. The recorded pid is never a stranger's. A stale file blocks nobody. |
| **Worktree life on Linux** (`run.rs`, `apply.rs`, `diff.rs`, `drop.rs`, `linux.rs`, `mod.rs`) | state directory (`meta.json`, `manifest.json`, `upper/`, `work/`, `run.pid`), mount table | the four commands; mount in three modes (kernel overlay as root, in a user namespace, fuse-overlayfs); `recover_stale_mount`, `mount_is_ours` | The program writes into the layer only. What it wrote is not lost before `drop`. Foreign mounts stay. |
| **CoW filesystem** (`CowFs` of `macos.rs` and of `winfsp.rs`) | upper layer with copies and `.wh.` whiteouts, open handles, inode table | the FUSE and the WinFsp handlers | The host is never written. What diff and apply read is what programs saw. |
| **Overlay folding** (`overlay.rs`, guard and reset in `apply.rs`) | the layer: entries, whiteouts, opaque markers | `effective_manifest_fold`, `whiteout_victims`, the corruption guard, `remove_dir_all(upper)` | What it computes is what the program saw. Deletions are not dropped. An apply that was killed can be run again. |
| **Moving aside** (`macos.rs`, `winfsp.rs`) | `state/<id>/real`, the mount point | `mount`, `unmount`, `restore`, `is_mounted`, `find_state_for`, `find_real_for` | The only copy of the host directory is never deleted and comes back. |
| **Fork and state store** (`fork.rs`, `state.rs`) | the state root | `create` with two name checks and roll-back, `list`, `resolve`, `atomic_write` with its sweep | A name leads to one worktree. No writer loses its file. What a killed fork leaves can be dropped. |
| **Manifest scan** (`manifest.rs`) | none | `scan`, `rescan`, a pool of hashing threads | The pool drains and ends. A reused hash is of the same content. |
| **Signals, process group** (`mod.rs`) | the tracked child | `ChildSignalGuard`, `kill_child_process_group` | No orphan holds a mount; no stranger is killed. |
| **Diff content, list, status, doctor, clean, CLI** | none | presentation | no state |

The commands are separate processes. They share the state directory, the mount
table and the process table, and take **no lock**: `run.pid`, created with
`O_EXCL`, is the only arbitration, and every other safety argument in the code is
a check repeated right before the action it protects. That is what the models are
about: steps of two commands in an order nobody tested, `kill -9` between any two
steps, reads that are stale when used, pids that are reused. `PROJECT.json` lists
the hazards with their lines and the properties that cover them.

## 2. Modules

| Module | Models | Composition |
|---|---|---|
| `Merge` | planner and executor, one filesystem operation per step | – |
| `MergeProofs` | theorems about `Merge` | EXTENDS `Merge`, `TLAPS` |
| `Pidfile` | the claim of `run.pid` by runs, their process groups and signals, and `drop`, one system call per step | – |
| `PidfileProofs` | theorems about `Pidfile` | EXTENDS `Pidfile`, `TLAPS` |
| `Branch` | abstract specification: what a worktree is to its user | – |
| `Worktree` | the four commands and the mount table, one gate or system call per step | `INSTANCE Branch WITH pending <- Pending` |
| `WorktreeProofs` | theorems about `Worktree`, the refinement of `Branch` included | EXTENDS `Worktree`, `TLAPS` |
| `CowFs` | the CoW filesystem over two layers, macOS and Windows, and the offline reading of the upper one | – |
| `CowFsProofs` | theorems about `CowFs` | EXTENDS `CowFs`, `TLAPS` |
| `MoveAside` | the host directory moved to `real` and back, one gate or system call per step | – |
| `MoveAsideProofs` | theorems about `MoveAside` | EXTENDS `MoveAside`, `TLAPS` |
| `StateStore` | forks, applies and drops in the state root, one system call or listed entry per step | – |
| `StateStoreProofs` | theorems about `StateStore` | EXTENDS `StateStore`, `TLAPS` |
| `Scan` | scan and rescan with the hashing pool | – |
| `ScanProofs` | theorems about `Scan` | EXTENDS `Scan`, `TLAPS` |
| `Overlay` | layers with opaque markers, and apply's guard, merge, baseline and reset over and over | `M == INSTANCE Merge` for the planner's operators |
| `OverlayProofs` | theorems about `Overlay` | EXTENDS `Overlay`, `TLAPS` |
| `MC*` | instances for TLC | EXTEND the module they check |

`Worktree` treats the commit of one file and the claim of the pidfile as single
steps. `Merge` and `Pidfile` show what is inside them. `MoveAside` is to macOS and
Windows what `Worktree`'s mounts are to Linux, at the level of system calls.
`Overlay` takes the merge as one step, with the planner's operators of `Merge`
applied to the folded layer. `StateStore` starts where a fork has scanned and an
apply has merged. In `Merge` and `Worktree` a scan is one step, `Scan` is its inside.

### Merge

A tree is a function from paths to entries; an entry is what
`Entry::content_eq` compares (files: body and mode; directories: mode; links:
target). `base`, `work`, `host` are the three trees of the merge and
`seen` is the scan (`current`). The planner is a set of operators over the
three trees (`Candidates`, `Blocked`, `ConflictPaths`, `Planned`,
`EmptyParents`). The executor is a phase `pc`, the operations `left` of the
phase, and `mid`, the operation under way when it takes several system
calls. `MayTake` is the order of `op_sort_key`. `HostEdit` is the host's
users; `Interrupt` a kill or an I/O error, possible between any two system calls.

Abstractions: a scan is atomic. Links never resolve to directories. The check
and the mutation of one operation are one window, in which the host is not edited
(the code cannot close it). Modification times, staging, conflict kinds and
wording, the Windows rename fallback and case folding are left out.

### Pidfile

`file` is `run.pid` with the process its body names and its author;
`proc` is the process table by pid, with a start time, so that a reused pid is a
different process. A `Runner` goes through the gate of `run.rs`, spawns, and
claims the file in the steps of `write_pidfile` (create, body, read, judge,
re-read, remove, again). A child that dies stays a zombie until its runner waits.
`ClaimFails` is an error of writing the body or of removing a stale file. `Crash` kills a
runner and leaves its child. `DropCheck`…`DropKill` are
`running_pid` and `terminate`. Process start times are distinguished by a
counter, as `/proc/<pid>/stat` does.

The child leads a process group (`group` of a `Slot`), in which `Background` starts
others; the kernel gives out no pid that still names a group. `tracked` is `CHILD_PID`
with `child_start`: set by `Track`, read by `GroupCheck` after `Wait` has given the pid
back, cleared when the guard ends (`Teardown`). `Forward` is the signal handler, which
knows the number only. Left out: a body without a start time, which is written when that
of the child cannot be read and counts as running for as long as anybody has the pid
(mod.rs:366-369, state.rs:327; on Linux `/proc/<pid>/stat` of a child that was not waited
for can be read); the mode in which the command has no group of its own,
the Windows handler, macOS where `GroupCheck` does not look, processes that leave the
group, the three seconds before SIGALRM, and the moment a process that was sent a signal
still takes to end: `NobodyHoldsTheMount` says that everybody has been sent it.

### Worktree and Branch

Each run's program creates one file, named by the run, so the host, the baseline
and each layer are sets of runs. `layer` numbers the directories that have been
`upper`, because a mount keeps its directory after it was removed and made again.
`mounts` is the stack on the target: `mine`, `other` (another worktree's
overlay), `alien`. `Private` is the mode in which the wrapper script mounts in
the child's namespace; `ShowsUpper` says whether the mount table names the
layer (kernel overlay does, fuse-overlayfs does not). Each label of `pc` is a gate
or a system call of the command's source, in its order. `local` is what a command
has read and remembers.

`Branch` has three actions: work adds a pending file, commit moves one to the
host, discard ends it. `Worktree` implements it with
`pending = layer[home.upper] \ host`.

Left out: the group kill, `materialize`, `--dry-run`, the case-fold refusal. The
trash directory and `real` are in `MoveAside`, the base-corruption guard and a
layer removed entry by entry in `Overlay`.

### CowFs

`lower` is the host directory; `upper` and `wh` are the entries and the
whiteouts of the layer; `os` is the backend, chosen at the start. Handlers run one
at a time (the FUSE session has one thread, WinFsp has the coarse guard), but
deletions and `rename` take several steps and the process may be killed between
them (`Crash`). A kill inside a step that is several system calls is an action beside it:
`NewEntryCut` while whiteouts are cleared or directories made, `DeleteCut` and `ReplaceCut`
within `remove_dir_all` (`RemovalCut`).

On macOS the kernel has looked the names up and checked kinds before a handler
runs: `NewEntry` needs a name that is not there, `RenameStart` refuses
file-over-directory and moving a directory into itself. Emptiness of directories is
left to the handler, which does not check it. `setattr` comes by inode, and the
inode table never forgets a path, so it may name a host path that has been deleted.
WinFsp resolves nothing: it has checked that the last directory of the path is one
(`InWinDirectory`), and that nobody has a file open below a directory to be
renamed. Collisions are the handler's. `RenameRefused` is a free choice where
`std::fs::rename` depends on the versions of Windows and of the library
(`MayReplace`). `View` is `resolve`, walked from the root, and `Fold` is
`effective_manifest_fold` with the mounted host as base.

Left out: handles but the one opened last for writing, sizes, modes (a chmod is a
copy-up), case folding, the `.cowt-copy-tmp.` file. Copying a tree up takes its
files in any order; a copy-up is one step. I/O errors are those of paths that are in the
way of a directory or cannot be copied.

### MoveAside

The host directory is one thing that renames carry about. `at` is what the target
path leads to (host directory, nothing, an empty directory, a symlink to a view,
something of others), `home` the state directories and trashes with their `real`,
`upper`, `view` and pidfile, `serving` the sessions that are up, `kid` the children.
`pc` has a label for each gate and system call of `run`, `diff` (which is apply up to
its scan) and `drop --force`; `ret` says where `unmount` and `restore` go on for
their callers. A `setup` fixes the platform, which worktree each command is given,
and whether the user waits for one command before giving the next (`patient`).
`Meddle` and `MakeWay` are others who put something at the path or take it away;
`faults` counts pidfiles that cannot be written. On macOS a session that ends leaves
its symlink, on Windows the mount is gone and an empty directory may stay.

Left out: what is in the host directory and the layer, `fork`'s mount check, the
probe for FUSE-T, apply after its scan. Others act between the commands, never between two
system calls of one, so that what appears at the path between a check and the removal after
it (macos.rs:1116-1121) is not met.

### StateStore

`dir` is each worktree's directory: whether it is there, its parts and the temporary
files in it. Ids are 64 random bits, so the fork stands for the id. `todo` and
`hits` are a listing half-way: directories appear and vanish while it goes on. Pids
are given again when a command has ended; a temporary file names its writer's.
`Careful` says that apply and drop are given to worktrees nobody else is working on;
without it a drop may hit an apply between its check of `meta.json` and the end.
An error of `list`, which a fork returns with its directory left as it is (state.rs:120,
149), is `Crash` at that label. Left out: damaged files, the spelling of names, staging
files of the merge.

### Scan

`host` gives each file a modification time and the edit that wrote its body, or
`None`. A file is read in two pieces, so that an edit in between is seen. The main
thread walks, spawns, sends jobs, closes the channel, drains results; a worker
locks the mutex, receives with the lock held, reads, answers. `previous` is the
manifest that `rescan` reuses hashes from. `Forging` lets others put a modification
time back, which is also what a second edit of the same size within one tick of the clock
looks like. Left out: directories, links, skipped names, the JSON form.

### Overlay

`host`, `base` and `upper` are trees, `wh` and `opq` the whiteouts and opaque markers.
The overlay filesystem is not in the repository: `Write`, `Mkdir` and `Remove` do what
`overlay.rs` expects of it, an opaque marker for a directory made in the place of a
whiteout. Apply is `Execute` (guard, plan, merge), `Baseline`, `Reset` entry by entry in
any order that takes children first, `Applied`; `Crash` stops it between any two, and is
also the error of `remove_dir_all` that the code ignores. Left out: links, modes, the two
encodings of a whiteout, a merge that fails half-way (`Merge`), commands that meet
(`Worktree`), the `trusted.overlay.opaque` attribute a privileged kernel overlay writes
instead of a marker file, which `overlay.rs` does not look at.

## 3. Runs

Workers 2; times are of a small machine.

| Run | Asks | Instance | States |
|---|---|---|---|
| `merge_retry` | Is a finished apply the three-way merge, after a first attempt cut off anywhere? (`MergedResult`) Does a retry conflict only where it must? (`RetryConflicts`) When can a clean plan fail? (`FailsUnderReplacedParent`) | every triple of trees over a directory with two entries, 2 file bodies, 2 directory modes, 2 symlink targets; 2 attempts | 4.2M, 55 s |
| `merge_edits` | With the host's users editing: `FreshFilesKept`, the invariant `Inv` of the proofs | a chain of three paths, 1 edit, 2 attempts | 166k, 11 s |
| `pidfile_solo` | One run at a time, 3 faults: `RunningIsOurs`, `OrphanKeepsOut`, `RunIsRecorded`, `NobodyHoldsTheMount` | 1 runner restarted, 3 pids, 5 processes | 781k, 20 s |
| `pidfile_live` | Runs that race: `SomeoneWins`, `ClaimSettles`, `Inv` | 2 runners, 2 pids, 4 processes, 1 fault | 1.1M, 100 s |
| `wt_user` | One user, one command after another, up to 2 of them killed, each at any of 29 labels, a foreign mount: `NothingLost`, `IsBranch`, `AppliedIsBaseline`, `DropTakesDown` | 2 runs, 2 applies, a diff, a drop | 2.5M, 65 s |
| `wt_private` | All at once in the private mode: `HostOnlyByApply` | 2 runs, an apply, a diff and a drop in any interleaving, 1 killed anywhere | 1.3M, 20 s |
| `wt_live` | Do apply, diff and drop end whatever the others do? (`CommandsEnd`) | a run, an apply, a diff, a drop in any interleaving, 1 killed anywhere, 1 foreign mount, fair commands | 269k, 60 s |
| `cowfs_view` | Any sequence of operations with kills, on either backend: `FoldIsView`, `HostUntouched`, `NeverBothTrees`, `Inv` | 2 names, depth 2; host with a file and an empty directory in a directory | 2.6M, 170 s |
| `moveaside` | Is the host directory ever deleted, and does it come back? `Inv`, `HostKept`, `ScanSeesHost`, `Isolated`, `LayerKept`, `ForeignKept`, `Recovers` | both platforms: a patient user with 2 runs, a diff and a drop on one worktree, 2 killed; the same with two worktrees on Windows; a run and a drop that race, 1 killed; a run and two drops; 1 pidfile that fails, 1 change by others | 534k, 150 s |
| `store` | Forks that race: `Addressable`, `LiveTempKept`, `ResidueReachable`, `ListedComplete` | 2 forks of one name, 2 applies, 1 drop, 3 pids, 2 killed anywhere | 944k, 35 s |
| `scan` | Does the pool drain and end, and is no hash wrong? `HashTrue`, `NothingForgotten`, `ScanEnds` | 3 files, 2 workers, 1 edit, a scan and a rescan, fair threads | 1.19M, 65 s |
| `overlay` | What apply after apply makes of a layer: `FoldIsView`, `ResetLeavesNothing`, `DeletionsKept` | a directory with an entry and a subdirectory with one, every host on them, 2 file bodies, 2 host edits, 1 kill | 325k, 35 s |

Why the bounds are enough: the merge classifies a path by its three entries and by
the kinds of its ancestors and descendants, so three paths (as siblings and as a
chain) show every case of the planner with a neighbour. A second attempt is the
first that starts from a host the program itself left; a third starts from the
same kind of state. Two runners and two pids are the smallest race with pid reuse;
a third contender meets the same file contents. A third pid lets a child, what it left in
the background and a stranger be there at once. Worktree's commands interact in
pairs; two runs and two applies let each command meet its own leftovers. Two names
at depth 2 give a directory, entries in it, and a target to rename it to. In
`MoveAside` a run meets the leftover of the run before it, and a drop the trash of
another; `MoveAsideProofs` shows its safety without bounds. Two forks are the
race for a name; a third pid lets one be used again. Three jobs for two workers make
one wait and one come back for more. Four paths have a whiteout below, above and
beside an opaque directory. Named bounds: `MaxEdits`, `MaxAttempts`, `MaxStarts`,
`MaxFaults`, `MaxForeign`, `MaxMeddling`, `MaxDrops`, `MaxScans`, `MaxCrashes`,
`MaxLoops` (for drop's 30 rounds), `MaxDepth`, and `Fits` (a rename stays within
`MaxDepth`).

`wt_user` kills commands at every label except the one between spawn and the
pidfile (`SafeLabels`): there the code loses track of the child, section 5. So does
`moveaside`. The types of `Worktree`, `StateStore`, `Overlay` and `CowFs` are theorems
(section 4) and take no run of their own.

`CHECK_DEADLOCK FALSE` stands where a system may stop: all commands of the
instance have ended, or all attempts are used up.

### Fairness

Only processes that the operating system keeps scheduling are fair, by weak
fairness on their next step: a runner within
`write_pidfile` (`Pidfile`), a command that has been started (`Worktree`, `MoveAside`),
the threads of a scan (`Scan`). Nothing is assumed of crashes, of pid reuse, and, but
for `MoveAside`, of the user, the programs that are run and the host's users.
`Recovers` says that the host directory comes back and needs somebody who asks for it:
programs end (`WF` of `Exit`), the user gives `diff` again until it has found its turn
(`SF` of its gate, `WF` of `Again`), and what others have put in the way they take away
(`SF` of `MakeWay`). It is stated for users who give one command after another. `CommandsEnd` says nothing of `run`, which waits for a
program that may never end. Drop's loop ends because it counts its rounds.

## 4. Theorems

All constants are arbitrary: any finite or infinite set of paths with ancestors, any
depth of names, any number of commands, pids, workers, edits, attempts and kills. Each
module has an inductive invariant, and some properties need another on top of it; TLC
checked each of them on small instances before it was proved. Some theorems are about a user who
does what the runs' user does: their statement or a hypothesis (`Careful`, `Patient`,
`OneOnMac`, `OneAtATime`) says so, and section 5 has configurations in which the
properties fail without it.

`MergeProofs`
* `Invariance`: `Spec => []Inv`. `Inv` says what the operation under way has
  already done and checked (`MidOK`: a cleared place is empty, a link in the way is
  the one verified, ancestors are directories) and that what is left belongs to
  the phase. One lemma per group of actions.
* `FilesKept`: `Spec => FreshFilesKept`, from `Inv`: each step that removes or
  replaces something has `Verified(p)` in its guard or in `MidOK`.
* `MergeIsThreeWay`: `Spec => []MergedResult`. `MergedResult` speaks of the end
  only; `MergeInv` strengthens it: paths the worktree left alone are as on the
  original host except for directories made above a written path (`KeptOK`), paths
  it changed are as in the worktree once their phase has passed them
  (`ChangedOK`). At `done` all phases have passed.
* `RetriesStopWhereTheyMust`: `Spec => []RetryConflicts`, with any edits and any attempts.
  `HalfWay` says what an attempt cut short can have made of a path nobody edited. An entry
  that only the host has, in a directory the worktree gave up, was there at the first scan
  and would have been a conflict then.
* `PlansAreFeasible`: `Spec => []FailsUnderReplacedParent`. `AsPlanned` says that as long
  as nobody edits the host each path is as scanned, committed, a new parent, gone for a kind
  change, or under way. So every check passes (`NeverRefused`), whatever lies in a
  directory that goes is itself removed before it (`InsideGoesFirst`), and what stands in the
  way of a parent was there when the host was scanned (`ParentsAsScanned`).

`PidfileProofs`
* `Invariance`: `Spec => []Inv`: a child keeps its pid until its run has waited
  for it (`ChildOK`); what the pidfile names is gone for good or was spawned by a
  run (`NamesOK`), which needs that no process is younger than the clock. As long as a
  group has somebody in it, its number is that of its dead leader and nobody else's, so
  that a check that finds a stranger there may skip the kill (`GroupOK`). Processes that
  end make groups and live pids fewer (`ShrinkKeepsGroup`), one that starts takes a number
  without a group or joins a group that is not empty (`StartKeepsGroup`).
* `RunningIsNeverAStranger`: `Spec => []RunningIsOurs`, from `Inv`.
* `NobodyHolds`: `Spec => []NobodyHoldsTheMount`, from `Inv`.
* `SomeoneAlwaysWins`: `Spec => []SomeoneWins`, with at least one runner. `Contest` says why
  that is: who made the file that is there does not lose by it (`CreatorOK`), nobody loses by
  the one that was there at first (`LeftoverOK`), and while there is none, somebody will not
  lose before one is made (`DesertedOK`). What was judged gone is never taken for alive
  again (`GoneStaysGone`), since no process is as old as the next one (`JudgedOK`).
* `OrphanAlwaysKeepsOut` and `RunIsAlwaysRecorded`, with `OneAtATime` (one runner, who starts
  a run when the one before has ended or was killed): `Solo` says that a run that has claimed
  the file is in it, and one that has not has found nobody running. With two runners,
  `OneOwner` of section 5 is what happens instead.

`MoveAsideProofs`
* `Invariance`: `Spec => []Inv`, with `Inv` the types, `Control` (commands that were
  given run, and return to labels of theirs), `LinksLead`, `TrashIsEmpty` and
  `HostKept`. A step either leaves the host directory where it is or carries it along
  with one rename: each of the renames is a lemma of its own (`Retargeted`, `PutBack`,
  `Aside`, `DropMoves`, ...). A deletion is the one step that could end it, and
  `TrashIsEmpty` says why it does not: a drop looks for `real` after it has taken the
  directory's name away, when nobody can put anything into it any more, and a drop
  that sweeps another's trash has looked into that one.
* `HostNeverDeleted`: `Spec => []HostKept`. It holds for any number of commands,
  worktrees, kills, faults and changes by others, on both platforms, patient or not.
* The others are about the patient user, who waits for a command before giving the next;
  kills, faults and changes by others remain. `Calm` says that one command is under way at a
  time, that no symlink is ever moved aside, and what is at the target at each label
  (`Linked`). `Ready` adds where the layers and children are: whose view serves, whose
  state directory a command has, that no layer was emptied (`Served`).
  `ForeignUntouched` (`Spec => ForeignKept`, with `Patient`) follows from `Calm`, and
  `LayersKept` (`Spec => []LayerKept`) from `Ready`.
* `HostScanned`: `Spec => []ScanSeesHost`, with `OneOnMac`. `Settled`: the host directory is
  at the target or in the one `real` that every command finds. On macOS, with two worktrees,
  a run killed between moving it aside and making the symlink leaves it where
  `find_state_for` does not look; that is `MCMoveAside_twins`, and why `OneOnMac` is needed.
  On Windows `find_real_for` looks into all of them, and any number will do.
* `ChildIsolated`: `Spec => []Isolated`. `Held`: as long as a recorded child
  lives, a command that is under way is at a label that leaves the target alone
  (`Waiting`), since the gates have refused the others.

`WorktreeProofs`
* `TypeCorrect`: `Spec => []TypeOK`, for every mode and any interleaving.
* `PrivateMountIsolates`: with `Private`, `Spec => HostOnlyByApply`, for any interleaving
  and kills anywhere: a child that has mounted keeps its view, so that it never writes
  through to the host (`Covering`).
* The others assume `Careful`: a command starts when the one before it has ended
  (`OneAtATime`), and none is killed between spawn and the pidfile
  (`"claim" \notin CrashAt`), where the code loses track of the child. `Invariance` is
  `Spec => []Inv`, with `Inv` the types and `Tame`: a command past its gate has the state
  directory, the layer and the mount to itself, also when commands before it died half
  way; a live child is in the pidfile (`Recorded`), it has a mount to write into
  (`Covered`), and each label of apply says what apply knows there about host, layer and
  baseline (`Applying`). One lemma per command and conjunct.
* `WorkIsKept`, `SuccessIsComplete` and `SharedMountIsolates` are `NothingLost`,
  `AppliedIsBaseline` and `HostOnlyByApply`, the last in the modes in which the mount is
  everybody's, from `Tame`.
* `NothingLeftBehind`: `Spec => DropTakesDown`. Only drop's rename takes the state directory
  away (`DropIsRename`). By then drop has terminated what the pidfile records, and a live
  child is what it records (`Recorded`, where the careful user is needed); and it has seen
  no mount after the last thing it unmounted (`Dropping`), when nobody mounts.
* `WorktreeIsABranch`: `Spec => IsBranch`, the refinement: initial states map to initial
  states, and each step to work, commit, discard or a stutter (`Pending` and `host` change
  in a child's write, apply's commit and drop's rename alone).

`StateStoreProofs`
* `Invariance`: `Spec => []Inv`. Two live commands never have one pid, whatever pids are
  given again (`Types`); with `Careful`, each label of a fork says what is in its
  directory, since nobody else writes there until it ends (`Shape`), an apply's worktree
  stays listed (`OnListed`), and of two forks of a name the one that lists last sees the
  other (`OneSees`), which is the argument of the comment at state.rs:143.
* `TypeCorrect`, and `NoLiveTempSwept`: `Spec => []LiveTempKept`.
* With `Careful`: `NamesStayUnique` (`NamesUnique`, which `MCStateStore_revived` violates
  without it), `PrintedNameWorks` (`Addressable`), `ResidueCanBeDropped`
  (`ResidueReachable`), `ListedHasManifest` (`ListedComplete`).

`ScanProofs`
* `Invariance`: `Spec => []Inv`. A file that waits for its hash is in exactly one of: the
  list to hash, the job channel, a worker's hands, the result channel (`InOnePlace`), and
  the files that wait are those with neither hash nor warning (`Accounted`). While jobs
  are outstanding somebody is there to take them (`Staffed`). What has been read of a
  file whose time is still that of the manifest is what the file holds (`Fresh`).
* `NoFileForgotten`: `Spec => []NothingForgotten`. `HashesAreTrue`: with `~Forging`,
  `Spec => []HashTrue`; `MCScan_forged` shows that the hypothesis is needed.

`OverlayProofs`
* `Invariance`: `Spec => []Inv`. `Shaped`: the host, the manifest and the layer are trees,
  a whiteout lies in a directory of the layer and covers no entry of it. `Settled`: with
  nobody editing and no kill, the host has from the merge on what the layer has, and
  nothing of what it deletes.
* `OfflineReading`: `Spec => []FoldIsView`. Every shape a layer can have, also one half
  removed by a reset cut off, is read as the mount shows it.
* `NoDeletionDropped`: `Spec => DeletionsKept`, and `ResetIsHarmless`:
  `Spec => []ResetLeavesNothing`. Removing children first keeps what is left a tree.
* `FirstAppliesDeliver`: until somebody edits the host or an apply is killed, every apply
  makes the host what the program saw. No run has this property; `MCOverlay_again` shows
  what a kill does to it.

`CowFsProofs`
* Paths are sequences of names. What the proofs need of them (`AncChain`: the ancestors of
  a path are a chain; `MovedBack`, `MovedAnc`: renaming keeps what is above what) is
  proved from the definitions of `SubSeq` and `\o`.
* `Invariance`: `Spec => []Strong`. Every entry and every whiteout lies in directories of
  the layer (`Types`), the open handle leads to a file of it (`Handles`), and each step of
  a deletion or a rename has what the next needs: what is still to be copied is on the
  host, below directories (`Runs`). A whiteout may well be over an upper entry: `RenameMark`
  makes it before the entry moves, and a `setattr` by inode copies up what is whited out.
  The upper entry wins in both readings. What a kill inside `remove_dir_all` leaves is a
  tree because a directory goes after what is in it (`WithoutLayer`).
* `LayerIsATree`: `Spec => []Inv`. `HostIsNeverWritten`: `Spec => []HostUntouched`.
  `OfflineReading`: `Spec => []FoldIsView`, for both backends and any depth.
* `NeverTwice`: `Spec => NeverBothTrees`. It needs `Orderly` besides: until the move, the new
  name shows what it showed before, and by then the old name is hidden.

Assumptions are the named ASSUMEs of the modules, on the shape of the constants only:
sorts are disjoint, a pidfile is not "no pidfile", paths have chains of ancestors, a
directory listing has a first entry, a command that is not under way cannot be killed,
bounds are numbers, at least one worker. TLC evaluates them in every run.

Only model-checked: all liveness (`ClaimSettles`, `CommandsEnd`,
`Recovers`, `ScanEnds`), which is out of the prover's reach. Every invariant and every
action property of a run is also the subject of a theorem.

## 5. Where the code and its documentation differ

Each of these has a property that states the code's own claim and a configuration in
which TLC finds it violated, in seconds. They are not part of the listed runs. Where a
configuration has two properties, `-continue` shows both.

| Configuration | Property | What happens |
|---|---|---|
| `MCPidfile_rivals` | `OneOwner` | Two runs read the same stale pidfile. The re-read and the removal are two system calls: one run re-reads, the other removes the file and creates its own, the first removes that one. Both run (mod.rs:413-436). |
| `MCWorktree_isolation` | `HostOnlyByApply` | A command that arrives between the mount and the pidfile of another run takes the mount for a leftover and unmounts it. The program that then starts writes to the host (mod.rs:684-698). |
| `MCWorktree_gates` | `NothingLost` | A run that starts between the last gate of apply and the reset of the layer writes into what is removed (apply.rs:227-254). |
| `MCOverlay_marks` | `NothingPending` | A reset cut off with an opaque marker still there makes the next apply delete from the host what the first has just put there (apply.rs:254). |
| `MCOverlay_copies` | `CopiesMerged` | A reset cut off before a file that was copied up, not changed, and changed on the host: the next apply puts the old body over the host's (apply.rs:216-254). |
| `MCOverlay_again` | `ViewDelivered` | An apply killed between merge and baseline, a program that sets a file back to what the old baseline has: the next apply sees no change, reports success and empties the layer (apply.rs:201-254). |
| `MCOverlay_marks` | `GuardMeansCorrupt` | A program deletes a file that the host gained after the fork: apply calls the manifest corrupted and refuses for ever. In an opaque directory the same deletion is dropped in silence (apply.rs:59-78). |
| `MCMoveAside_twins` | `Recovers` | macOS, two worktrees of one target: `find_state_for` looks at the first alone, `real` stranded in the other is found by no command (macos.rs:1237, apply.rs:52). |
| `MCStateStore_losers` | `SomebodyWins` | Two forks of one name find each other after both have written `meta.json`; both roll back (state.rs:141-165). |
| `MCStateStore_revived` | `NamesUnique` | A drop between apply's last check and its reset lets apply make the worktree again; when the name was given to a new fork meanwhile, two have it (apply.rs:236-258). |
| `MCScan_forged` | `UnreadableAbsent` | A file that could not be hashed is in the manifest, with no hash (manifest.rs:172, 325, 528). |
| `MCScan_forged` | `HashTrue` | A rewrite that puts the modification time back is not seen by `rescan`; apply.rs:41-44 says so itself and takes a full scan. |
| `MCCowFs_collide` | `NothingReplaced` | Windows: a file created as a new one hides the host's, a rename without `replace_if_exists` replaces (winfsp.rs:847, 1013-1026). |
| `MCCowFs_rename` | `RenamedTreeKept` | A directory that already has an upper copy is renamed without the entries that are only on the host (macos.rs:677). |
| `MCCowFs_recreate` | `CreatesOnlyIt` | A directory removed and made again shows the host's old children (macos.rs:289-313, README.md:97-100). |
| `MCWorktree_foreign` | `ForeignKept` | What is unmounted need not be an overlay of this worktree: a run's teardown takes what lies on top by then, a command that finds a stale pidfile whatever lies on the target (mod.rs:684-694), and drop a foreign mount on top of ours, because it looks for ours anywhere in the mount table (drop.rs:86-131). README.md:28-31 says otherwise. TLC shows the first; the others come up with a property that excepts it. |
| `MCWorktree_orphan` | `OrphanIsRecorded` | A stale pidfile lets the wrapper of a run killed before its own pidfile go on (linux.rs:130-147). |
| `MCWorktree_kill` | `HostOnlyByApply` | A run killed between spawn and pidfile, its mount then taken for a leftover while its child lives (mod.rs:657-664). |
| `MCWorktree_gates` | `NoGhost` | apply recreates a directory that drop has just renamed away (apply.rs:241-255). |
| `MCPidfile_rivals` | `SuccessorKept` | A run unlinks the marker of a run that claimed after its check (run.rs:60-66). |
| `MCPidfile_signal` | `TrackedIsOurs` | The guard clears the number only after the teardown, long after `wait` gave the pid back: SIGINT in between goes to whoever has it (mod.rs:248-275, 102-103). |
| `MCPidfile_signal` | `GroupIsOurs` | The group's number is used again between the check of the start time and the kill (mod.rs:137-152). |
| `MCPidfile_kill` | `InnocentSpared` | drop sends SIGKILL to a number that was reused during the grace period (drop.rs:314-322). |
| `MCMerge_chmod` | `FreshModesKept` | A chmod of a host directory after the scan is overwritten (merge.rs:758). |
| `MCMerge_abort` | `AbortConverges` | An apply that aborted leaves a kind change half done, and the next plan conflicts there (merge.rs:678-681). |

Seen while modelling, and avoided by a condition of a property or a bound instead of
shown by a configuration:

* A run that cannot write its pidfile unmounts, by its armed guard, before the session
  is down: on macOS `remove_dir_all(view)` then goes through the live view and empties
  the layer (mod.rs:619-625, macos.rs:1188). `LayerKept` is stated for runs that can.
* The proof that a mount is a leftover is about the command's worktree, the mount about
  the target: a second worktree with a stale pidfile takes the live mount of the first
  (mod.rs:692). `Isolated` is stated for one worktree.
* An apply killed between taking an old symlink away and making the new one leaves nothing at
  the path; the next apply reports a conflict there, with no edit by anybody
  (merge.rs:615-632), where a file or a mode is simply applied again. The proof of
  `RetryConflicts` showed it, and the run has two symlinks since; the property names the
  case (`MadeRoom`).
* A fork killed between `create_dir` and `create_dir_all(upper)`, with a listing in
  between, leaves an empty directory that no command takes for a worktree
  (state.rs:105-132, 201). `ResidueReachable` excepts it.
* `doctor` looks for `json.tmp-` in the state root, where `atomic_write` never puts a
  file (list.rs:232, state.rs:462).
* The branch of macOS `mount` for a stale symlink calls `restore`, which refuses symlinks
  (macos.rs:1065-1075, 1257); what recovers is `recover_stale_mount` before it.

## 6. Plan and what is not modelled

Done: `Merge`, `Pidfile`, `MoveAside`, `Worktree` with `Branch`, `CowFs` for both
backends, `StateStore`, `Scan` and `Overlay`, each with its proofs. Next, in this order:

1. The hypotheses: how much of `WorktreeProofs` holds for several commands at once in the
   private mode, and of `StateStoreProofs` without `Careful`.
2. `PidfileProofs`: of two runners, what a recorded run keeps as long as nobody judges its
   file stale.

Not modelled:

* Signals and process groups are in `Pidfile` only. In `Worktree` and `MoveAside` a child
  ends by itself, and a kill is of one process.
* The diff's content (`diff.rs`): a presentation of two bodies by libraries.
* `list`, `status`, `doctor`, `clean` (`list.rs`), the command line, exit codes, the
  helper binary: they read and print, or parse.
* `materialize` and `--dry-run`; the handlers of WinFsp that read, list or ask for
  attributes; case folding, on which `merge.rs` and `overlay.rs` have code for hosts
  that ignore case; the vendored WinFsp bindings.
