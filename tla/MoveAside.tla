------------------------------ MODULE MoveAside ------------------------------
(***************************************************************************)
(* Where the host directory is while a worktree runs on macOS and Windows. *)
(* Both backends rename it from the target path to `real` inside the state *)
(* directory and put the view in its place: macOS a symlink to the FUSE-T  *)
(* mount at `view`, Windows a WinFsp mount at the target itself. The       *)
(* rename is undone by the run, or after a kill by the next command.       *)
(*                                                                         *)
(* A step is one gate or one system call of commands/{run,diff,drop}.rs    *)
(* and of the backend. Commands hold no lock and may be killed between     *)
(* steps. The host directory is not empty and is a single thing that       *)
(* renames move about; what is in it and in the layer is not looked at.    *)
(***************************************************************************)
EXTENDS Naturals

CONSTANTS
  Run, Drop,    \* invocations of run and of drop --force
  Diff,         \* diff, and apply up to its scan; given again at will
  Worktree,     \* the worktrees forked from the one target
  Rank,         \* the order in which directory listings show them
  Setups,       \* the situations to look at
  None,
  MaxFaults,    \* bound: pidfiles that cannot be written
  MaxMeddling,  \* bound: changes others make at the target path
  MaxLoops,     \* bound for the 30 rounds of drop
  CrashAt       \* the labels at which a command may be killed

Proc == Run \cup Drop \cup Diff

\* A drop renames the state directory to a trash directory of its own.
Place == Worktree \cup Drop

ASSUME SortAssumption ==
  /\ None \notin Proc \cup Worktree
  /\ Run \cap (Drop \cup Diff \cup Worktree) = {}
  /\ Drop \cap (Diff \cup Worktree) = {} /\ Diff \cap Worktree = {}

\* A directory listing has a first entry.
ASSUME RankAssumption ==
  /\ Rank \in [Place -> Nat]
  /\ \A p, q \in Place : Rank[p] = Rank[q] => p = q
  /\ \A S \in SUBSET Place : S # {} => \E p \in S : \A q \in S : Rank[p] <= Rank[q]

\* A setup: the platform, the worktree each command is given, whether the user
\* waits for one command before giving another, and a bound for killed commands.
ASSUME SetupAssumption ==
  \A s \in Setups :
    /\ s.on \in {"mac", "win"}
    /\ DOMAIN s.of \subseteq Proc
    /\ \A p \in DOMAIN s.of : s.of[p] \in Worktree
    /\ s.patient \in BOOLEAN
    /\ s.crashes \in Nat

\* Only a command under way can be killed.
ASSUME CrashAssumption == CrashAt \cap {"idle", "end", "ok", "dead"} = {}

VARIABLES
  setup,    \* which of the setups this is
  at,       \* what the target path leads to
  home,     \* the state directories, and the trash of each drop
  serving,  \* runs whose filesystem session is up
  kid,      \* the child of each run
  pc,       \* where each command is
  ret,      \* where to go on after unmount or restore, and after their failure
  to,       \* the place whose `real` is being put back
  drops,    \* what a drop remembers: rounds, and a proof of ownership
  swept,    \* the trash a drop has looked into and is about to delete
  crashes, faults, meddling

vars == <<setup, at, home, serving, kid, pc, ret, to, drops, swept, crashes, faults, meddling>>
local == <<drops, swept>>
bounds == <<setup, crashes, faults, meddling>>

-----------------------------------------------------------------------------
Mac == setup.on = "mac"
Of(p) == setup.of[p]

Nothing == [kind |-> "nothing", of |-> None]
Host == [kind |-> "host", of |-> None]
Empty == [kind |-> "empty", of |-> None]
Foreign == [kind |-> "foreign", of |-> None]
Link(x) == [kind |-> "link", of |-> x]

\* A symlink or reparse point; of cowt's, `of` is the worktree (macOS), the run (Windows).
IsLink(t) == t.kind \in {"link", "foreign"}
IsDir(t) == t.kind \in {"host", "empty"}

\* "there" has meta.json; "ghost" is recreated with upper only, "bare" with view only.
Gone == [shape |-> "gone", real |-> Nothing, pid |-> None, wiped |-> FALSE]
Fresh(shape) == [Gone EXCEPT !.shape = shape]

Ended == {"end", "ok", "dead"}
Goto(p, l) == pc' = [pc EXCEPT ![p] = l]
Call(p, l, ok, err) == Goto(p, l) /\ ret' = [ret EXCEPT ![p] = [ok |-> ok, err |-> err]]
Return(p) == Goto(p, ret[p].ok)
Fail(p) == Goto(p, ret[p].err)

\* rename(2): a directory may take the place of an empty one, a link that of a link.
RenameOK(src, dst) ==
  \/ src # Nothing /\ dst = Nothing /\ (IsLink(src) => Mac)
  \/ Mac /\ IsDir(src) /\ dst = Empty
  \/ Mac /\ IsLink(src) /\ IsLink(dst)

First(S) == CHOOSE p \in S : \A q \in S : Rank[p] <= Rank[q]

\* The first state directory that names the target, trash included.
FindStateFor ==
  LET S == {p \in Place : home[p].shape = "there"} IN IF S = {} THEN None ELSE First(S)

\* The first worktree of the target that holds a `real`; list() leaves trash out.
FindRealFor ==
  LET S == {w \in Worktree : home[w].shape = "there" /\ home[w].real # Nothing}
  IN IF S = {} THEN None ELSE First(S)

\* Mutant: a `real` alone is no sign of a mount.
IsMountedMutant == IsLink(at)

IsMounted ==
  \/ IsLink(at)
  \/ Mac /\ FindStateFor # None /\ home[FindStateFor].real # Nothing
  \/ ~Mac /\ FindRealFor # None

\* running_pid: kill -0 finds a zombie too.
Running(w) == home[w].pid # None /\ kid[home[w].pid] \in {"live", "zombie"}
StaleRun(w) == home[w].pid # None /\ ~Running(w)
OwnLeftover(w) == StaleRun(w) \/ home[w].real # Nothing

\* remove_dir_all(view): while the view is served this deletes what it shows, that
\* is, it empties the layer and leaves a whiteout for every file of the host.
WipeView(w) ==
  home' = IF Mac /\ \E r \in serving : Of(r) = w /\ home[w].shape # "gone"
          THEN [home EXCEPT ![w].wiped = TRUE] ELSE home

\* The session of r ends; WinFsp takes the mount point away with it.
EndSession(r) ==
  /\ serving' = serving \ {r}
  /\ at' = IF at = Link(r) THEN Nothing ELSE at

Turn(p) ==
  /\ p \in DOMAIN setup.of
  /\ pc[p] = "idle"
  /\ setup.patient => \A q \in Proc : pc[q] \in Ended \cup {"idle"}

-----------------------------------------------------------------------------
(* Backend::unmount and restore, called by every command                   *)

\* Mutant: whatever link is at the target is taken for a view.
UnmountMacMutant(p) ==
  /\ pc[p] = "unmount" /\ Mac
  /\ IF IsLink(at) THEN Goto(p, "unlink") /\ to' = [to EXCEPT ![p] = Of(p)]
     ELSE IF FindStateFor = None THEN Return(p) /\ to' = to
          ELSE Goto(p, "restore") /\ to' = [to EXCEPT ![p] = FindStateFor]
  /\ UNCHANGED <<at, home, serving, kid, ret, local, bounds>>

\* macOS reads the link and makes sure that it leads to a cowt view. Without a link
\* it looks for the state directory of the target.
UnmountMac(p) ==
  /\ pc[p] = "unmount" /\ Mac
  /\ IF IsLink(at)
     THEN IF at.kind = "link" /\ home[at.of].shape \in {"there", "ghost"}
          THEN Goto(p, "wipe") /\ to' = [to EXCEPT ![p] = at.of]
          ELSE Fail(p) /\ to' = to
     ELSE IF FindStateFor = None THEN Return(p) /\ to' = to
          ELSE Goto(p, "restore") /\ to' = [to EXCEPT ![p] = FindStateFor]
  /\ UNCHANGED <<at, home, serving, kid, ret, local, bounds>>

Wipe(p) ==
  /\ pc[p] = "wipe"
  /\ WipeView(to[p])
  /\ Goto(p, "unlink")
  /\ UNCHANGED <<at, serving, kid, ret, to, local, bounds>>

Unlink(p) ==
  /\ pc[p] = "unlink"
  /\ IF IsLink(at) THEN at' = Nothing /\ Goto(p, "restore") ELSE at' = at /\ Fail(p)
  /\ UNCHANGED <<home, serving, kid, ret, to, local, bounds>>

\* Windows: cleanup_mountpoint. A live mount is not touched, an empty directory is.
UnmountWin(p) ==
  /\ pc[p] = "unmount" /\ ~Mac
  /\ IF IsLink(at) THEN Fail(p) ELSE Goto(p, "find")
  /\ at' = IF at = Empty THEN Nothing ELSE at
  /\ UNCHANGED <<home, serving, kid, ret, to, local, bounds>>

FindReal(p) ==
  /\ pc[p] = "find"
  /\ IF FindRealFor = None THEN Return(p) /\ to' = to
     ELSE Goto(p, "restore") /\ to' = [to EXCEPT ![p] = FindRealFor]
  /\ UNCHANGED <<at, home, serving, kid, ret, local, bounds>>

Restore(p) ==
  /\ pc[p] = "restore"
  /\ IF home[to[p]].real = Nothing THEN Return(p)
     ELSE IF IsLink(at) THEN Fail(p) ELSE Goto(p, "putback")
  /\ at' = IF home[to[p]].real # Nothing /\ at = Empty THEN Nothing ELSE at
  /\ UNCHANGED <<home, serving, kid, ret, to, local, bounds>>

PutBack(p) ==
  /\ pc[p] = "putback"
  /\ IF RenameOK(home[to[p]].real, at)
     THEN /\ at' = home[to[p]].real
          /\ home' = [home EXCEPT ![to[p]].real = Nothing]
          /\ Return(p)
     ELSE UNCHANGED <<at, home>> /\ Fail(p)
  /\ UNCHANGED <<serving, kid, ret, to, local, bounds>>

Unmount(p) ==
  UnmountMac(p) \/ Wipe(p) \/ Unlink(p) \/ UnmountWin(p) \/ FindReal(p) \/ Restore(p) \/ PutBack(p)

-----------------------------------------------------------------------------
(* cowt run, cowt diff                                                     *)

\* Mutant: no running gate.
GateMutant(p) ==
  /\ p \in Run \cup Diff
  /\ Turn(p)
  /\ Goto(p, IF home[Of(p)].shape = "there" THEN "recover" ELSE "end")
  /\ UNCHANGED <<at, home, serving, kid, ret, to, local, bounds>>

\* load_meta and the running gate.
Gate(p) ==
  /\ p \in Run \cup Diff
  /\ Turn(p)
  /\ Goto(p, IF home[Of(p)].shape = "there" /\ ~Running(Of(p)) THEN "recover" ELSE "end")
  /\ UNCHANGED <<at, home, serving, kid, ret, to, local, bounds>>

AfterRecover(p) == IF p \in Run THEN "mkdirs" ELSE "scan"

\* Mutant: a mount is left alone unless the pidfile is stale.
RecoverMutant(p) ==
  /\ pc[p] = "recover"
  /\ IF ~IsMounted THEN Goto(p, AfterRecover(p)) /\ ret' = ret
     ELSE IF StaleRun(Of(p)) THEN Call(p, "unmount", AfterRecover(p), "end")
     ELSE Goto(p, "end") /\ ret' = ret
  /\ UNCHANGED <<at, home, serving, kid, to, local, bounds>>

\* recover_stale_mount.
Recover(p) ==
  /\ pc[p] = "recover"
  /\ IF ~IsMounted THEN Goto(p, AfterRecover(p)) /\ ret' = ret
     ELSE IF OwnLeftover(Of(p)) THEN Call(p, "unmount", AfterRecover(p), "end")
     ELSE Goto(p, "end") /\ ret' = ret
  /\ UNCHANGED <<at, home, serving, kid, to, local, bounds>>

\* The scan of the target.
Scan(x) ==
  /\ pc[x] = "scan"
  /\ x \in Diff
  /\ Goto(x, "ok")
  /\ UNCHANGED <<at, home, serving, kid, ret, to, local, bounds>>

\* create_dir_all(upper), create_dir_all(work).
Mkdirs(r) ==
  /\ pc[r] = "mkdirs"
  /\ home' = IF home[Of(r)].shape \in {"gone", "bare"}
             THEN [home EXCEPT ![Of(r)].shape = "ghost"] ELSE home
  /\ Goto(r, "mount")
  /\ UNCHANGED <<at, serving, kid, ret, to, local, bounds>>

\* What stands in the way of a mount is recovered when there is a `real`, else
\* left alone. (On macOS restore refuses a symlink.)
MountCheck(r) ==
  /\ pc[r] = "mount"
  /\ LET next == IF Mac THEN "clean" ELSE "aside"
         real == home[Of(r)].real # Nothing
     IN IF IsLink(at) \/ (~Mac /\ real)
        THEN IF real THEN Call(r, "restore", next, "end") ELSE Goto(r, "end") /\ ret' = ret
        ELSE Goto(r, next) /\ ret' = ret
  /\ to' = [to EXCEPT ![r] = Of(r)]
  /\ UNCHANGED <<at, home, serving, kid, local, bounds>>

Clean(r) ==
  /\ pc[r] = "clean"
  /\ WipeView(Of(r))
  /\ Goto(r, "aside")
  /\ UNCHANGED <<at, serving, kid, ret, to, local, bounds>>

\* Move the host directory aside.
Aside(r) ==
  /\ pc[r] = "aside"
  /\ IF home[Of(r)].shape # "gone" /\ RenameOK(at, home[Of(r)].real)
     THEN /\ home' = [home EXCEPT ![Of(r)].real = at]
          /\ at' = Nothing
          /\ Goto(r, IF Mac THEN "mkview" ELSE "serve")
     ELSE UNCHANGED <<at, home>> /\ Goto(r, "end")
  /\ UNCHANGED <<serving, kid, ret, to, local, bounds>>

\* create_dir_all(view): it also makes a state directory that is gone.
MkView(r) ==
  /\ pc[r] = "mkview"
  /\ home' = IF home[Of(r)].shape = "gone" THEN [home EXCEPT ![Of(r)] = Fresh("bare")] ELSE home
  /\ Goto(r, "link")
  /\ UNCHANGED <<at, serving, kid, ret, to, local, bounds>>

Symlink(r) ==
  /\ pc[r] = "link"
  /\ IF at = Nothing THEN at' = Link(Of(r)) /\ Goto(r, "serve") ELSE at' = at /\ Goto(r, "rollback")
  /\ UNCHANGED <<home, serving, kid, ret, to, local, bounds>>

\* mount_cow, FileSystemHost::mount; either may fail. WinFsp makes the mount point.
Serve(r) ==
  /\ pc[r] = "serve"
  /\ IF Mac THEN home[Of(r)].shape # "gone" ELSE at = Nothing
  /\ serving' = serving \cup {r}
  /\ at' = IF Mac THEN at ELSE Link(r)
  /\ Goto(r, "spawn")
  /\ UNCHANGED <<home, kid, ret, to, local, bounds>>

ServeFails(r) ==
  /\ pc[r] = "serve"
  /\ Goto(r, "rollback")
  /\ UNCHANGED <<at, home, serving, kid, ret, to, local, bounds>>

\* Drop the symlink (macOS) or an empty mount point (Windows), then restore.
Rollback(r) ==
  /\ pc[r] = "rollback"
  /\ at' = IF (Mac /\ IsLink(at)) \/ (~Mac /\ at = Empty) THEN Nothing ELSE at
  /\ to' = [to EXCEPT ![r] = Of(r)]
  /\ Call(r, "restore", "end", "end")
  /\ UNCHANGED <<home, serving, kid, local, bounds>>

Spawn(r) ==
  /\ pc[r] = "spawn"
  /\ kid' = [kid EXCEPT ![r] = "live"]
  /\ Goto(r, "claim")
  /\ UNCHANGED <<at, home, serving, ret, to, local, bounds>>

\* Teardown; no such command is reported as a run that has ended, any other error
\* as an error.
SpawnFails(r) ==
  /\ pc[r] = "spawn"
  /\ EndSession(r)
  /\ \E l \in {"clear", "end"} : Call(r, "unmount", l, l)
  /\ UNCHANGED <<home, kid, to, local, bounds>>

\* write_pidfile; Pidfile has its steps.
Claim(r) ==
  /\ pc[r] = "claim"
  /\ IF home[Of(r)].shape = "gone" \/ Running(Of(r))
     THEN home' = home /\ Goto(r, "lost")
     ELSE home' = [home EXCEPT ![Of(r)].pid = r] /\ Goto(r, "running")
  /\ UNCHANGED <<at, serving, kid, ret, to, local, bounds>>

ClaimFault(r) ==
  /\ pc[r] = "claim"
  /\ faults < MaxFaults
  /\ faults' = faults + 1
  /\ Goto(r, "lost")
  /\ UNCHANGED <<setup, at, home, serving, kid, ret, to, local, crashes, meddling>>

\* reap_orphan_child; then the armed guard unmounts while it still owns the session.
Lost(r) ==
  /\ pc[r] = "lost"
  /\ kid' = [kid EXCEPT ![r] = "gone"]
  /\ Call(r, "unmount", "close", "close")
  /\ UNCHANGED <<at, home, serving, to, local, bounds>>

Close(r) ==
  /\ pc[r] = "close"
  /\ EndSession(r)
  /\ Goto(r, "end")
  /\ UNCHANGED <<home, kid, ret, to, local, bounds>>

Wait(r) ==
  /\ pc[r] = "running"
  /\ kid[r] = "zombie"
  /\ kid' = [kid EXCEPT ![r] = "gone"]
  /\ Goto(r, "down")
  /\ UNCHANGED <<at, home, serving, ret, to, local, bounds>>

\* Mutant: unmount first, end the session afterwards.
DownMutant(r) ==
  /\ pc[r] = "down"
  /\ Call(r, "unmount", "close", "close")
  /\ UNCHANGED <<at, home, serving, kid, to, local, bounds>>

\* MountGuard::teardown.
Down(r) ==
  /\ pc[r] = "down"
  /\ EndSession(r)
  /\ Call(r, "unmount", "clear", "clear")
  /\ UNCHANGED <<home, kid, to, local, bounds>>

\* The marker goes when the mount is down; the run fails when `real` is still there.
Clear(r) ==
  /\ pc[r] = "clear"
  /\ home' = IF IsMounted \/ Running(Of(r)) THEN home ELSE [home EXCEPT ![Of(r)].pid = None]
  /\ Goto(r, IF home[Of(r)].real # Nothing THEN "end" ELSE "ok")
  /\ UNCHANGED <<at, serving, kid, ret, to, local, bounds>>

RunStep(r) ==
  \/ Mkdirs(r) \/ MountCheck(r) \/ Clean(r) \/ Aside(r) \/ MkView(r) \/ Symlink(r) \/ Serve(r)
  \/ ServeFails(r) \/ Rollback(r) \/ Spawn(r) \/ SpawnFails(r) \/ Claim(r) \/ ClaimFault(r)
  \/ Lost(r) \/ Close(r) \/ Wait(r) \/ Down(r) \/ Clear(r)

-----------------------------------------------------------------------------
(* cowt drop --force                                                       *)

\* resolve: a directory with meta.json, or with an upper layer. Without meta.json
\* the target is unknown and no mount is looked at.
DropStart(d) ==
  /\ d \in Drop
  /\ Turn(d)
  /\ Goto(d, IF home[Of(d)].shape = "there" THEN "loop"
             ELSE IF home[Of(d)].shape = "ghost" THEN "sweep" ELSE "end")
  /\ drops' = [drops EXCEPT ![d].known = home[Of(d)].shape = "there"]
  /\ UNCHANGED <<at, home, serving, kid, ret, to, swept, bounds>>

\* terminate. A zombie counts as alive here: drop waits for it to be reaped, or
\* gives up.
DropTerminate(d) ==
  /\ pc[d] \in {"loop", "again"}
  /\ pc[d] = "loop" => drops[d].rounds < MaxLoops
  /\ Running(Of(d))
  /\ LET r == home[Of(d)].pid
     IN IF kid[r] = "live"
        THEN /\ kid' = [kid EXCEPT ![r] = IF pc[r] \in {"claim", "running", "lost"}
                                          THEN "zombie" ELSE "gone"]
             /\ pc' = pc
        ELSE kid' = kid /\ Goto(d, "end")
  /\ UNCHANGED <<at, home, serving, ret, to, local, bounds>>

\* One round: leave the loop, unmount what is provably ours, or wait.
DropLoop(d) ==
  /\ pc[d] = "loop"
  /\ ~Running(Of(d))
  /\ drops[d].rounds < MaxLoops
  /\ IF ~IsMounted
     THEN UNCHANGED <<pc, ret>> /\ drops' = [drops EXCEPT ![d].rounds = MaxLoops]
     ELSE IF OwnLeftover(Of(d))
          THEN /\ Call(d, "unmount", "loop", "loop")
               /\ drops' = [drops EXCEPT ![d].rounds = @ + 1, ![d].proved = TRUE]
          ELSE /\ UNCHANGED <<pc, ret>>
               /\ drops' = [drops EXCEPT ![d].rounds = @ + 1]
  /\ UNCHANGED <<at, home, serving, kid, to, swept, bounds>>

\* After the loop: what is mounted then must have been proved ours.
DropVerdict(d) ==
  /\ pc[d] = "loop"
  /\ drops[d].rounds = MaxLoops
  /\ Goto(d, IF IsMounted /\ ~drops[d].proved THEN "end" ELSE "sweep")
  /\ UNCHANGED <<at, home, serving, kid, ret, to, local, bounds>>

\* A trash directory that holds no `real` is deleted.
DropSweep(d) ==
  /\ pc[d] = "sweep"
  /\ \E t \in Drop :
       /\ home[t].shape # "gone"
       /\ home[t].real = Nothing
       /\ swept' = [swept EXCEPT ![d] = t]
  /\ Goto(d, "delete")
  /\ UNCHANGED <<at, home, serving, kid, ret, to, drops, bounds>>

DropDelete(d) ==
  /\ pc[d] = "delete"
  /\ home' = [home EXCEPT ![swept[d]] = Gone]
  /\ Goto(d, "sweep")
  /\ UNCHANGED <<at, serving, kid, ret, to, local, bounds>>

DropSwept(d) ==
  /\ pc[d] = "sweep"
  /\ Goto(d, "again")
  /\ UNCHANGED <<at, home, serving, kid, ret, to, local, bounds>>

\* The checks once more, right before the rename.
DropAgain(d) ==
  /\ pc[d] = "again"
  /\ ~Running(Of(d))
  /\ IF ~drops[d].known \/ ~IsMounted THEN Goto(d, "guard") /\ ret' = ret
     ELSE IF OwnLeftover(Of(d)) THEN Call(d, "unmount", "recheck", "recheck")
     ELSE Goto(d, "end") /\ ret' = ret
  /\ UNCHANGED <<at, home, serving, kid, to, local, bounds>>

DropRecheck(d) ==
  /\ pc[d] = "recheck"
  /\ Goto(d, IF IsMounted THEN "end" ELSE "guard")
  /\ UNCHANGED <<at, home, serving, kid, ret, to, local, bounds>>

\* Never with the host directory inside.
DropGuard(d) ==
  /\ pc[d] = "guard"
  /\ Goto(d, IF home[Of(d)].real # Nothing THEN "end" ELSE "rename")
  /\ UNCHANGED <<at, home, serving, kid, ret, to, local, bounds>>

\* Mutant: the state directory is copied to the trash and then emptied, its pidfile stays.
DropRenameMutant(d) ==
  /\ pc[d] = "rename"
  /\ home' = [home EXCEPT ![d] = home[Of(d)], ![Of(d)] = [Gone EXCEPT !.pid = home[Of(d)].pid]]
  /\ Goto(d, "trashed")
  /\ UNCHANGED <<at, serving, kid, ret, to, local, bounds>>

DropRename(d) ==
  /\ pc[d] = "rename"
  /\ IF home[Of(d)].shape = "gone" THEN home' = home /\ Goto(d, "end")
     ELSE home' = [home EXCEPT ![d] = home[Of(d)], ![Of(d)] = Gone] /\ Goto(d, "trashed")
  /\ UNCHANGED <<at, serving, kid, ret, to, local, bounds>>

\* Mutant: the trash is not looked into once more.
DropTrashedMutant(d) ==
  /\ pc[d] = "trashed"
  /\ Goto(d, "remove")
  /\ UNCHANGED <<at, home, serving, kid, ret, to, local, bounds>>

DropTrashed(d) ==
  /\ pc[d] = "trashed"
  /\ Goto(d, IF home[d].real # Nothing THEN "undo" ELSE "remove")
  /\ UNCHANGED <<at, home, serving, kid, ret, to, local, bounds>>

\* Roll back; a failure is ignored.
DropUndo(d) ==
  /\ pc[d] = "undo"
  /\ home' = IF home[Of(d)].shape = "gone" THEN [home EXCEPT ![Of(d)] = home[d], ![d] = Gone]
             ELSE home
  /\ Goto(d, "end")
  /\ UNCHANGED <<at, serving, kid, ret, to, local, bounds>>

DropRemove(d) ==
  /\ pc[d] = "remove"
  /\ home' = [home EXCEPT ![d] = Gone]
  /\ Goto(d, "ok")
  /\ UNCHANGED <<at, serving, kid, ret, to, local, bounds>>

DropStep(d) ==
  \/ DropTerminate(d) \/ DropLoop(d) \/ DropVerdict(d) \/ DropSweep(d) \/ DropDelete(d)
  \/ DropSwept(d) \/ DropAgain(d) \/ DropRecheck(d) \/ DropGuard(d) \/ DropRename(d)
  \/ DropTrashed(d) \/ DropUndo(d) \/ DropRemove(d)

-----------------------------------------------------------------------------
(* Everybody else                                                          *)

\* The command that is run exits.
Exit(r) ==
  /\ kid[r] = "live"
  /\ kid' = [kid EXCEPT ![r] = IF pc[r] \in {"claim", "running", "lost"} THEN "zombie" ELSE "gone"]
  /\ UNCHANGED <<at, home, serving, pc, ret, to, local, bounds>>

\* kill -9 of the command; its session ends with it, its child goes on.
Crash(p) ==
  /\ pc[p] \in CrashAt
  /\ crashes < setup.crashes
  /\ crashes' = crashes + 1
  /\ Goto(p, "dead")
  /\ EndSession(p)
  /\ kid' = IF p \in Run /\ kid[p] = "zombie" THEN [kid EXCEPT ![p] = "gone"] ELSE kid
  /\ UNCHANGED <<setup, home, ret, to, local, faults, meddling>>

\* The user gives the command again.
Again(x) ==
  /\ pc[x] \in Ended
  /\ Goto(x, "idle")
  /\ UNCHANGED <<at, home, serving, kid, ret, to, local, bounds>>

\* Others change what is at the target path, while no command is between two of
\* its own system calls: they remove the symlink, or put a directory or a link
\* of theirs where there is nothing.
Meddle ==
  /\ meddling < MaxMeddling
  /\ \A p \in Proc : pc[p] \in Ended \cup {"idle", "running"}
  /\ \/ Mac /\ at.kind = "link" /\ at' = Nothing
     \/ at = Nothing /\ at' \in {Empty, Foreign}
  /\ meddling' = meddling + 1
  /\ UNCHANGED <<setup, home, serving, kid, pc, ret, to, local, crashes, faults>>

\* They take their link away again.
MakeWay ==
  /\ at = Foreign
  /\ \A p \in Proc : pc[p] \in Ended \cup {"idle", "running"}
  /\ at' = Nothing
  /\ UNCHANGED <<home, serving, kid, pc, ret, to, local, bounds>>

Init ==
  /\ setup \in Setups
  /\ at = Host
  /\ home = [p \in Place |->
       IF \E q \in DOMAIN setup.of : setup.of[q] = p THEN Fresh("there") ELSE Gone]
  /\ serving = {}
  /\ kid = [r \in Run |-> "none"]
  /\ pc = [p \in Proc |-> "idle"]
  /\ ret = [p \in Proc |-> [ok |-> "end", err |-> "end"]]
  /\ to = [p \in Proc |-> None]
  /\ drops = [d \in Drop |-> [known |-> FALSE, proved |-> FALSE, rounds |-> 0]]
  /\ swept = [d \in Drop |-> None]
  /\ crashes = 0 /\ faults = 0 /\ meddling = 0

Command(p) == Unmount(p) \/ Recover(p) \/ Scan(p) \/ (p \in Run /\ RunStep(p)) \/ (p \in Drop /\ DropStep(p))

Next ==
  \/ \E p \in Proc : Gate(p) \/ DropStart(p) \/ Command(p) \/ Crash(p)
  \/ \E r \in Run : Exit(r)
  \/ \E x \in Diff : Again(x)
  \/ Meddle \/ MakeWay

Spec == Init /\ [][Next]_vars

\* Commands go on, programs end, the user gives each diff again and again, and a link
\* of somebody else's is taken away in the end.
FairSpec ==
  /\ Spec
  /\ \A p \in Proc : WF_vars(Command(p))
  /\ \A r \in Run : WF_vars(Exit(r))
  /\ \A x \in Diff : SF_vars(Gate(x)) /\ WF_vars(Again(x))
  /\ SF_vars(MakeWay)
-----------------------------------------------------------------------------
(* Properties                                                              *)

Things == {Nothing, Host, Empty, Foreign} \cup {Link(x) : x \in Worktree \cup Run}

TypeOK ==
  /\ setup \in Setups
  /\ at \in Things
  /\ home \in [Place -> [shape : {"gone", "there", "ghost", "bare"}, real : Things,
                         pid : Run \cup {None}, wiped : BOOLEAN]]
  /\ \A p \in Place : home[p].shape = "gone" => home[p] = Gone
  /\ serving \subseteq Run
  /\ kid \in [Run -> {"none", "live", "zombie", "gone"}]
  /\ to \in [Proc -> Place \cup {None}]
  /\ swept \in [Drop -> Drop \cup {None}]

\* drop.rs:157-165: whatever commands run at once and wherever they are killed, the
\* host directory is at the target or in a `real`, and is never deleted.
HostKept == at = Host \/ \E p \in Place : home[p].real = Host

Labels == Ended \cup
  {"idle", "unmount", "wipe", "unlink", "find", "restore", "putback", "recover", "scan",
   "mkdirs", "mount", "clean", "aside", "mkview", "link", "serve", "rollback", "spawn",
   "claim", "lost", "close", "running", "down", "clear", "loop", "sweep", "delete",
   "again", "recheck", "guard", "rename", "trashed", "undo", "remove"}

\* Where unmount and restore go on for their callers.
Continuations ==
  {"mkdirs", "scan", "end", "clear", "close", "clean", "aside", "loop", "recheck"}

\* Only commands that were given run, and unmount and restore know whom they serve.
Control ==
  /\ pc \in [Proc -> Labels]
  /\ ret \in [Proc -> [ok : Continuations, err : Continuations]]
  /\ \A p \in Proc : pc[p] # "idle" => p \in DOMAIN setup.of
  /\ \A p \in Proc : pc[p] \in {"wipe", "unlink", "restore", "putback"} => to[p] \in Place

\* On macOS a link of cowt's leads to the view of a worktree.
LinksLead ==
  Mac => /\ at.kind = "link" => at.of \in Worktree
         /\ \A p \in Place : home[p].real.kind = "link" => home[p].real.of \in Worktree

\* A trash directory is there only after its drop has made it, and what is about to be
\* deleted, as one's own trash or as somebody else's, holds no `real`.
AfterRename == {"trashed", "undo", "remove", "end", "ok", "dead"}
TrashIsEmpty ==
  \A d \in Drop :
    /\ home[d].shape # "gone" => pc[d] \in AfterRename
    /\ pc[d] = "remove" => home[d].real = Nothing
    /\ pc[d] = "delete" =>
         /\ swept[d] \in Drop
         /\ home[swept[d]].real = Nothing /\ pc[swept[d]] \in AfterRename

\* The invariant by which HostKept is proved: a drop looks into the trash it deletes
\* when nobody can put anything into it any more (drop.rs:157-205).
Inv == TypeOK /\ Control /\ LinksLead /\ TrashIsEmpty /\ HostKept

\* apply.rs:35-37: a user who gives one command after another has the real host
\* directory scanned, whatever was killed before and put in the way.
ScanSeesHost == setup.patient => \A x \in Diff : pc[x] = "scan" => at = Host

\* All commands are given the same worktree.
Single == \A p, q \in DOMAIN setup.of : Of(p) = Of(q)

\* README.md:18-20: with one worktree of the target, as long as a child the pidfile
\* records lives, the target path does not lead it to the host directory.
Isolated ==
  setup.patient /\ Single =>
    \A r \in Run : kid[r] = "live" /\ home[Of(r)].pid = r => at # Host

\* run.rs:87 "changes preserved in upper layer": no layer is emptied through its view,
\* when every run could record its child.
LayerKept == setup.patient /\ faults = 0 => \A p \in Place : ~home[p].wiped

\* macos.rs:1067-1072, winfsp.rs:143-147: a symlink or mount of others at the target
\* goes only when they take it away.
ForeignKept == [][at = Foreign /\ at' # at => MakeWay]_vars

\* apply.rs:52 "if a crashed run moved it aside ... any command restores it": the host
\* directory comes back.
Recovers == setup.patient => (at # Host ~> at = Host)
=============================================================================
