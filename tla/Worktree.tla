------------------------------ MODULE Worktree ------------------------------
(***************************************************************************)
(* The life of one worktree on Linux: the processes `cowt run`, `cowt      *)
(* apply`, `cowt diff` and `cowt drop --force`, which share nothing but    *)
(* the state directory, the mount table and the table of processes, and    *)
(* hold no lock. A step is one gate or one system call of                  *)
(* commands/*.rs; processes interleave and may be killed between steps.    *)
(*                                                                         *)
(* Data: each run's command creates one file, named by the run itself, so  *)
(* host, base and upper layer are sets of runs. How the merge commits one  *)
(* file is the subject of Merge, how run.pid is claimed that of Pidfile;   *)
(* here each is one step.                                                  *)
(***************************************************************************)
EXTENDS FiniteSets, Sequences, Naturals

CONSTANTS
  Run, Apply, Diff, Drop,   \* invocations of the commands
  None,
  Private,      \* the mount lives in the child's own namespace (KernelUserns)
  ShowsUpper,   \* the mount table names the upper layer (kernel overlay only)
  Foreign,      \* kinds of mounts others may put on the target
  MaxForeign,   \* bound: how many they do put there
  MaxCrashes,   \* bound: killed commands
  CrashAt,      \* the labels at which a command may be killed
  OneAtATime,   \* the user waits for a command before starting another
  MaxLoops      \* bound for the 30 rounds drop waits for a mount to go

Proc == Run \cup Apply \cup Diff \cup Drop

\* What the state directory says: meta.json, manifest.json, `upper` and run.pid.
Homes == [meta : BOOLEAN, base : (SUBSET Run) \cup {None}, upper : Nat \cup {None},
          pid : Run \cup {None}]

\* A process is an invocation of one command, and None is nothing else.
ASSUME ProcAssumption ==
  /\ Run \cap (Apply \cup Diff \cup Drop) = {}
  /\ Apply \cap (Diff \cup Drop) = {}
  /\ Diff \cap Drop = {}
  /\ None \notin Proc \cup Nat
  /\ None \notin Homes

\* "other" is the overlay of another worktree, "alien" any other filesystem.
ASSUME KindAssumption == Foreign \subseteq {"other", "alien"}

ASSUME LimitAssumption ==
  {MaxForeign, MaxCrashes, MaxLoops} \subseteq Nat /\ {Private, ShowsUpper, OneAtATime} \subseteq BOOLEAN

VARIABLES
  host,     \* files in the host directory
  home,     \* the state directory, None when there is none
  layer,    \* the directories that have been `upper`, by number
  mounts,   \* what is mounted on the target, the top one last
  pc,       \* where each command is
  kid,      \* the state of each run's child
  view,     \* the layer the child's private mount writes to
  local,    \* what an apply or a drop has read and remembers
  crashes, strangers,   \* counters for the bounds
  written,  \* files written by the commands that were run (history)
  stray,    \* those of them that went to somebody else's mount (history)
  dropped   \* drop has taken the state directory away (history)

vars == <<host, home, layer, mounts, pc, kid, view, local, crashes, strangers,
          written, stray, dropped>>
data == <<host, home, layer, mounts, kid, view, crashes, strangers, written, stray, dropped>>

-----------------------------------------------------------------------------
Ended == {"end", "ok", "dead"}

Goto(p, l) == pc' = [pc EXCEPT ![p] = l]

\* running_pid. A child is a zombie until its parent waits for it.
Running ==
  home # None /\ home.pid # None /\ kid[home.pid] \in {"wait", "live", "zombie"}

StaleRun == home # None /\ home.pid # None /\ ~Running

Mounted == mounts # <<>>
Top == mounts[Len(mounts)]
HasMount(K) == \E i \in DOMAIN mounts : mounts[i].kind \in K

\* stale_run, or mount_upper_proves_ours; `real` does not exist on Linux.
OwnLeftover == StaleRun \/ (ShowsUpper /\ HasMount({"mine"}))

\* mount_is_ours: an overlay, whoever mounted it.
Ours == HasMount({"mine", "other"})

Popped == SubSeq(mounts, 1, Len(mounts) - 1)

\* What the target path shows.
Shown ==
  IF ~Mounted \/ Top.kind = "other" THEN host
  ELSE IF Top.kind = "mine" THEN host \cup layer[Top.up] ELSE {}

\* create_dir_all(upper): it also makes a state directory that is gone.
WithUpper ==
  LET new == Len(layer) + 1
  IN IF home = None THEN [meta |-> FALSE, base |-> None, upper |-> new, pid |-> None]
     ELSE IF home.upper = None THEN [home EXCEPT !.upper = new] ELSE home

MakeUpper ==
  /\ home' = WithUpper
  /\ layer' = IF home' = home THEN layer ELSE Append(layer, {})

\* The mount at the target is unmounted, whatever it is; it may be busy as long
\* as some process uses it.
Unmount(fail, next, p) ==
  \/ ~Mounted /\ mounts' = mounts /\ Goto(p, next)
  \/ Mounted /\ mounts' = Popped /\ Goto(p, next)
  \/ Mounted /\ (\E r \in Run : kid[r] = "live") /\ mounts' = mounts /\ Goto(p, fail)

-----------------------------------------------------------------------------
(* Steps that run, apply and diff have in common                           *)

\* Mutant: no running gate.
GateMutant(p) ==
  /\ p \in Run \cup Apply \cup Diff
  /\ pc[p] = "idle"
  /\ OneAtATime => \A q \in Proc : pc[q] \in Ended \cup {"idle"}
  /\ Goto(p, IF home # None /\ home.meta THEN "recover" ELSE "end")
  /\ UNCHANGED <<data, local>>

\* load_meta, then the running gate.
Gate(p) ==
  /\ p \in Run \cup Apply \cup Diff
  /\ pc[p] = "idle"
  /\ OneAtATime => \A q \in Proc : pc[q] \in Ended \cup {"idle"}
  /\ Goto(p, IF home # None /\ home.meta /\ ~Running THEN "recover" ELSE "end")
  /\ UNCHANGED <<data, local>>

AfterRecover(p) ==
  IF p \in Run THEN "mkdirs" ELSE IF p \in Apply THEN "scan" ELSE "end"

\* recover_stale_mount.
Recover(p) ==
  /\ pc[p] = "recover"
  /\ Goto(p, IF ~Mounted THEN AfterRecover(p) ELSE IF OwnLeftover THEN "unmount" ELSE "end")
  /\ UNCHANGED <<data, local>>

RecoverUnmount(p) ==
  /\ pc[p] = "unmount"
  /\ Unmount("end", AfterRecover(p), p)
  /\ UNCHANGED <<host, home, layer, kid, view, local, crashes, strangers, written, stray, dropped>>

-----------------------------------------------------------------------------
(* cowt run                                                                *)

RunMkdirs(r) ==
  /\ pc[r] = "mkdirs"
  /\ MakeUpper
  /\ Goto(r, IF Private THEN "spawn" ELSE "mount")
  /\ UNCHANGED <<host, mounts, kid, view, local, crashes, strangers, written, stray, dropped>>

RunMount(r) ==
  /\ pc[r] = "mount"
  /\ IF home # None /\ home.upper # None
     THEN /\ mounts' = Append(mounts, [kind |-> "mine", up |-> home.upper])
          /\ Goto(r, "spawn")
     ELSE mounts' = mounts /\ Goto(r, "end")
  /\ UNCHANGED <<host, home, layer, kid, view, local, crashes, strangers, written, stray, dropped>>

\* In a private namespace the child is the wrapper, which has yet to mount.
RunSpawn(r) ==
  /\ pc[r] = "spawn"
  /\ kid' = [kid EXCEPT ![r] = IF Private THEN "wait" ELSE "live"]
  /\ Goto(r, "claim")
  /\ UNCHANGED <<host, home, layer, mounts, view, local, crashes, strangers, written, stray, dropped>>

\* Take the mount down; no such command is reported as a run that has ended, any
\* other error as an error.
RunSpawnFails(r) ==
  /\ pc[r] = "spawn"
  /\ \E l \in IF Private THEN {"end"} ELSE {"down", "guard"} : Goto(r, l)
  /\ UNCHANGED <<data, local>>

\* Mutant: the wrapper runs the command though its mount failed.
WrapperMountsMutant(r) ==
  /\ kid[r] = "wait"
  /\ home # None /\ home.pid # None
  /\ kid' = [kid EXCEPT ![r] = "live"]
  /\ UNCHANGED <<host, home, layer, mounts, pc, view, local, crashes, strangers, written, stray,
                 dropped>>

\* WRAPPER: wait for the pidfile to exist, mount, exec the command.
WrapperMounts(r) ==
  /\ kid[r] = "wait"
  /\ home # None /\ home.pid # None /\ home.upper # None
  /\ view' = [view EXCEPT ![r] = home.upper]
  /\ kid' = [kid EXCEPT ![r] = "live"]
  /\ UNCHANGED <<host, home, layer, mounts, pc, local, crashes, strangers, written, stray, dropped>>

\* write_pidfile; Pidfile has its steps.
RunClaim(r) ==
  /\ pc[r] = "claim"
  /\ IF home = None \/ Running
     THEN home' = home /\ Goto(r, "lost")
     ELSE home' = [home EXCEPT !.pid = r] /\ Goto(r, "running")
  /\ UNCHANGED <<host, layer, mounts, kid, view, local, crashes, strangers, written, stray, dropped>>

\* reap_orphan_child; the guard unmounts when it is dropped.
RunLost(r) ==
  /\ pc[r] = "lost"
  /\ kid' = [kid EXCEPT ![r] = "gone"]
  /\ Goto(r, IF Private THEN "end" ELSE "guard")
  /\ UNCHANGED <<host, home, layer, mounts, view, local, crashes, strangers, written, stray, dropped>>

RunGuard(r) ==
  /\ pc[r] = "guard"
  /\ Unmount("end", "end", r)
  /\ UNCHANGED <<host, home, layer, kid, view, local, crashes, strangers, written, stray, dropped>>

RunWait(r) ==
  /\ pc[r] = "running"
  /\ kid[r] = "zombie"
  /\ kid' = [kid EXCEPT ![r] = "gone"]
  /\ Goto(r, IF Private THEN "clear" ELSE "down")
  /\ UNCHANGED <<host, home, layer, mounts, view, local, crashes, strangers, written, stray, dropped>>

RunDown(r) ==
  /\ pc[r] = "down"
  /\ Unmount("clear", "clear", r)
  /\ UNCHANGED <<host, home, layer, kid, view, local, crashes, strangers, written, stray, dropped>>

\* The marker goes only when the mount is down and no live run is recorded.
RunClear(r) ==
  /\ pc[r] = "clear"
  /\ home' = IF home = None \/ Mounted \/ Running THEN home ELSE [home EXCEPT !.pid = None]
  /\ Goto(r, "ok")
  /\ UNCHANGED <<host, layer, mounts, kid, view, local, crashes, strangers, written, stray, dropped>>

-----------------------------------------------------------------------------
(* cowt apply                                                              *)

\* load_manifest and the scan of the target.
ApplyScan(a) ==
  /\ pc[a] = "scan"
  /\ IF home = None \/ home.base = None
     THEN Goto(a, "end") /\ local' = local
     ELSE Goto(a, "fold") /\ local' = [local EXCEPT ![a].base = home.base, ![a].seen = Shown]
  /\ UNCHANGED data

\* The upper layer is folded onto the base; a missing one reads as empty. What
\* the worktree added and the host lacks is to be written.
ApplyFold(a) ==
  /\ pc[a] = "fold"
  /\ LET upper == IF home = None \/ home.upper = None THEN {} ELSE layer[home.upper]
     IN local' = [local EXCEPT ![a].ops = (upper \ local[a].base) \ local[a].seen]
  /\ Goto(a, "gate")
  /\ UNCHANGED data

\* The gates before and after execute, and after the rescan.
ApplyGate(a) ==
  \E l \in {<<"gate", "commit">>, <<"post", "rescan">>, <<"last", "meta">>} :
    /\ pc[a] = l[1]
    /\ Goto(a, IF Running \/ Mounted THEN "end" ELSE l[2])
    /\ UNCHANGED <<data, local>>

\* Mutant: the failure of one operation is ignored.
ApplyCommitMutant(a) ==
  /\ pc[a] = "commit"
  /\ Goto(a, "post")
  /\ UNCHANGED <<host, local>>
  /\ UNCHANGED <<home, layer, mounts, kid, view, crashes, strangers, written, stray, dropped>>

\* merge::execute renames staged files into the target, which fails when a mount
\* is in the way.
ApplyCommit(a) ==
  /\ pc[a] = "commit"
  /\ \/ local[a].ops = {} /\ Goto(a, "post") /\ UNCHANGED <<host, local>>
     \/ local[a].ops # {} /\ Mounted /\ Goto(a, "end") /\ UNCHANGED <<host, local>>
     \/ \E f \in local[a].ops :
          /\ ~Mounted
          /\ host' = host \cup {f}
          /\ local' = [local EXCEPT ![a].ops = @ \ {f}]
          /\ pc' = pc
  /\ UNCHANGED <<home, layer, mounts, kid, view, crashes, strangers, written, stray, dropped>>

\* Mutant: the baseline is the scan from before the merge.
ApplyRescanMutant(a) ==
  /\ pc[a] = "rescan"
  /\ local' = [local EXCEPT ![a].base = local[a].seen]
  /\ Goto(a, "last")
  /\ UNCHANGED data

ApplyRescan(a) ==
  /\ pc[a] = "rescan"
  /\ local' = [local EXCEPT ![a].base = Shown]
  /\ Goto(a, "last")
  /\ UNCHANGED data

\* Is the worktree still there?
ApplyMeta(a) ==
  /\ pc[a] = "meta"
  /\ Goto(a, IF home # None /\ home.meta THEN "manifest" ELSE "end")
  /\ UNCHANGED <<data, local>>

ApplyManifest(a) ==
  /\ pc[a] = "manifest"
  /\ IF home = None THEN home' = home /\ Goto(a, "end")
     ELSE home' = [home EXCEPT !.base = local[a].base] /\ Goto(a, "reset")
  /\ UNCHANGED <<host, layer, mounts, kid, view, local, crashes, strangers, written, stray, dropped>>

\* remove_dir_all(upper), its error ignored.
ApplyReset(a) ==
  /\ pc[a] = "reset"
  /\ IF home # None /\ home.upper # None
     THEN /\ layer' = [layer EXCEPT ![home.upper] = {}]
          /\ home' = [home EXCEPT !.upper = None]
     ELSE UNCHANGED <<home, layer>>
  /\ Goto(a, "mkupper")
  /\ UNCHANGED <<host, mounts, kid, view, local, crashes, strangers, written, stray, dropped>>

ApplyMkupper(a) ==
  /\ pc[a] = "mkupper"
  /\ MakeUpper
  /\ Goto(a, "status")
  /\ UNCHANGED <<host, mounts, kid, view, local, crashes, strangers, written, stray, dropped>>

\* write_meta.
ApplyStatus(a) ==
  /\ pc[a] = "status"
  /\ IF home = None THEN home' = home /\ Goto(a, "end")
     ELSE home' = [home EXCEPT !.meta = TRUE] /\ Goto(a, "ok")
  /\ UNCHANGED <<host, layer, mounts, kid, view, local, crashes, strangers, written, stray, dropped>>

-----------------------------------------------------------------------------
(* cowt drop --force                                                       *)

\* A damaged meta.json leaves the target unknown: no mount is looked at.
DropStart(d) ==
  /\ pc[d] = "idle"
  /\ OneAtATime => \A q \in Proc : pc[q] \in Ended \cup {"idle"}
  /\ IF home = None THEN Goto(d, "end") /\ local' = local
     ELSE Goto(d, "first") /\ local' = [local EXCEPT ![d].known = home.meta]
  /\ UNCHANGED data

\* terminate: SIGTERM, SIGKILL. A zombie passes for dead.
DropTerminate(d) ==
  /\ pc[d] \in {"first", "loop", "again"}
  /\ pc[d] = "loop" => local[d].rounds < MaxLoops
  /\ Running /\ kid[home.pid] # "zombie"
  /\ kid' = [kid EXCEPT ![home.pid] =
               IF pc[home.pid] \in {"claim", "running", "lost"} THEN "zombie" ELSE "gone"]
  /\ UNCHANGED <<host, home, layer, mounts, pc, view, local, crashes, strangers,
                 written, stray, dropped>>

\* Mutant: drop --force goes on beside a live process.
NobodyToKillMutant == TRUE

NobodyToKill == Running => kid[home.pid] = "zombie"

DropFirst(d) ==
  /\ pc[d] = "first"
  /\ NobodyToKill
  /\ Goto(d, IF local[d].known THEN "loop" ELSE "again")
  /\ UNCHANGED <<data, local>>

\* Mutant: rounds without a proof of ownership are not counted.
DropLoopMutant(d) ==
  /\ pc[d] = "loop"
  /\ NobodyToKill
  /\ local[d].rounds < MaxLoops
  /\ IF ~Mounted THEN pc' = pc /\ local' = [local EXCEPT ![d].rounds = MaxLoops]
     ELSE IF OwnLeftover /\ Ours
          THEN Goto(d, "take") /\ local' = [local EXCEPT ![d].proved = TRUE]
          ELSE UNCHANGED <<pc, local>>
  /\ UNCHANGED data

\* One round of the loop: leave it, unmount what is provably ours, or wait.
DropLoop(d) ==
  /\ pc[d] = "loop"
  /\ NobodyToKill
  /\ local[d].rounds < MaxLoops
  /\ IF ~Mounted THEN pc' = pc /\ local' = [local EXCEPT ![d].rounds = MaxLoops]
     ELSE IF OwnLeftover /\ Ours
          THEN Goto(d, "take") /\ local' = [local EXCEPT ![d].proved = TRUE]
          ELSE pc' = pc /\ local' = [local EXCEPT ![d].rounds = @ + 1]
  /\ UNCHANGED data

DropTake(d) ==
  /\ pc[d] = "take"
  /\ Unmount("loop", "loop", d)
  /\ local' = [local EXCEPT ![d].rounds = @ + 1]
  /\ UNCHANGED <<host, home, layer, kid, view, crashes, strangers, written, stray, dropped>>

\* After the loop: what is mounted then must have been proved ours.
DropVerdict(d) ==
  /\ pc[d] = "loop"
  /\ local[d].rounds = MaxLoops
  /\ Goto(d, IF Mounted /\ ~local[d].proved THEN "end" ELSE "again")
  /\ UNCHANGED <<data, local>>

\* The checks once more, right before the rename.
DropAgain(d) ==
  /\ pc[d] = "again"
  /\ NobodyToKill
  /\ Goto(d, IF ~local[d].known \/ ~Mounted THEN "rename"
             ELSE IF OwnLeftover /\ Ours THEN "retake" ELSE "end")
  /\ UNCHANGED <<data, local>>

DropRetake(d) ==
  /\ pc[d] = "retake"
  /\ Unmount("recheck", "recheck", d)
  /\ UNCHANGED <<host, home, layer, kid, view, local, crashes, strangers, written, stray, dropped>>

DropRecheck(d) ==
  /\ pc[d] = "recheck"
  /\ Goto(d, IF Mounted THEN "end" ELSE "rename")
  /\ UNCHANGED <<data, local>>

\* Rename the state directory aside; what is deleted after that has no path.
DropRename(d) ==
  /\ pc[d] = "rename"
  /\ IF home = None THEN Goto(d, "end") /\ UNCHANGED <<home, dropped>>
     ELSE Goto(d, "ok") /\ home' = None /\ dropped' = TRUE
  /\ UNCHANGED <<host, layer, mounts, kid, view, local, crashes, strangers, written, stray>>

-----------------------------------------------------------------------------
(* Everybody else                                                          *)

\* The layer the child's writes go to, None when that is no layer of this worktree.
WritesTo(r) == IF view[r] # None THEN view[r] ELSE IF Mounted THEN Top.up ELSE None

\* The command that is run creates its file, in whatever the path shows it then.
\* Inside a layer that has been removed it gets an error.
Write(r) ==
  /\ kid[r] = "live"
  /\ r \notin written
  /\ WritesTo(r) # None /\ ~dropped => WritesTo(r) = home.upper
  /\ written' = written \cup {r}
  /\ IF WritesTo(r) # None
     THEN layer' = [layer EXCEPT ![WritesTo(r)] = @ \cup {r}] /\ UNCHANGED <<host, stray>>
     ELSE IF Mounted THEN stray' = stray \cup {r} /\ UNCHANGED <<host, layer>>
     ELSE host' = host \cup {r} /\ UNCHANGED <<layer, stray>>
  /\ UNCHANGED <<home, mounts, pc, kid, view, local, crashes, strangers, dropped>>

\* It exits, or the wrapper gives up waiting.
Exit(r) ==
  /\ kid[r] \in {"wait", "live"}
  /\ kid' = [kid EXCEPT ![r] =
               IF pc[r] \in {"claim", "running", "lost"} THEN "zombie" ELSE "gone"]
  /\ UNCHANGED <<host, home, layer, mounts, pc, view, local, crashes, strangers,
                 written, stray, dropped>>

\* kill -9 of the command; its child goes on.
Crash(p) ==
  /\ pc[p] \in CrashAt
  /\ crashes < MaxCrashes
  /\ crashes' = crashes + 1
  /\ Goto(p, "dead")
  /\ kid' = IF p \in Run /\ kid[p] = "zombie" THEN [kid EXCEPT ![p] = "gone"] ELSE kid
  /\ UNCHANGED <<host, home, layer, mounts, view, local, strangers, written, stray, dropped>>

\* Somebody mounts something on the target.
MountForeign(k) ==
  /\ strangers < MaxForeign
  /\ strangers' = strangers + 1
  /\ mounts' = Append(mounts, [kind |-> k, up |-> None])
  /\ UNCHANGED <<host, home, layer, pc, kid, view, local, crashes, written, stray, dropped>>

Init ==
  /\ host = {}
  /\ home = [meta |-> TRUE, base |-> {}, upper |-> 1, pid |-> None]
  /\ layer = <<{}>>
  /\ mounts = <<>>
  /\ pc = [p \in Proc |-> "idle"]
  /\ kid = [r \in Run |-> "none"]
  /\ view = [r \in Run |-> None]
  /\ local = [p \in Apply \cup Drop |->
                [base |-> {}, seen |-> {}, ops |-> {}, known |-> FALSE, proved |-> FALSE, rounds |-> 0]]
  /\ crashes = 0 /\ strangers = 0
  /\ written = {} /\ stray = {}
  /\ dropped = FALSE

RunStep(r) ==
  \/ RunMkdirs(r) \/ RunMount(r) \/ RunSpawn(r) \/ RunSpawnFails(r) \/ RunClaim(r)
  \/ RunLost(r) \/ RunGuard(r) \/ RunWait(r) \/ RunDown(r) \/ RunClear(r)

ApplyStep(a) ==
  \/ ApplyScan(a) \/ ApplyFold(a) \/ ApplyGate(a) \/ ApplyCommit(a) \/ ApplyRescan(a)
  \/ ApplyMeta(a) \/ ApplyManifest(a) \/ ApplyReset(a) \/ ApplyMkupper(a) \/ ApplyStatus(a)

DropStep(d) ==
  \/ DropTerminate(d) \/ DropFirst(d) \/ DropLoop(d) \/ DropTake(d) \/ DropVerdict(d)
  \/ DropAgain(d) \/ DropRetake(d) \/ DropRecheck(d) \/ DropRename(d)

\* A command that has been started goes on.
Command(p) ==
  \/ Recover(p) \/ RecoverUnmount(p)
  \/ p \in Run /\ RunStep(p)
  \/ p \in Apply /\ ApplyStep(p)
  \/ p \in Drop /\ DropStep(p)

Next ==
  \/ \E p \in Proc : Gate(p) \/ Command(p) \/ Crash(p)
  \/ \E d \in Drop : DropStart(d)
  \/ \E r \in Run : WrapperMounts(r) \/ Write(r) \/ Exit(r)
  \/ \E k \in Foreign : MountForeign(k)

Spec == Init /\ [][Next]_vars

FairSpec == Spec /\ \A p \in Proc : WF_vars(Command(p))
-----------------------------------------------------------------------------
(* Properties                                                              *)

TypeOK ==
  /\ {host, written, stray} \subseteq SUBSET Run
  /\ home \in Homes \cup {None}
  /\ home # None /\ home.upper # None => home.upper \in DOMAIN layer
  /\ layer \in Seq(SUBSET Run)
  /\ \A i \in DOMAIN mounts :
       mounts[i].kind \in Foreign \cup {"mine"} /\ mounts[i].up \in DOMAIN layer \cup {None}
  /\ kid \in [Run -> {"none", "wait", "live", "zombie", "gone"}]
  /\ view \in [Run -> DOMAIN layer \cup {None}]

\* README.md:18-19: the program writes only into the isolated layer. The host
\* changes by the commit of an apply alone.
HostOnlyByApply ==
  [][\E a \in Apply : pc[a] = "commit" /\ local'[a].ops # local[a].ops]_host

\* run.rs:87 "changes preserved in upper layer": whatever a command wrote in its
\* view is in the layer or on the host until the worktree is dropped, across
\* commands that are killed at any point and started again.
NothingLost ==
  \A r \in written \ stray :
    \/ dropped
    \/ r \in host
    \/ home # None /\ home.upper # None /\ r \in layer[home.upper]

\* apply.rs:216-223: when an apply reports success, the baseline of the next command
\* is the host and the layer is empty, whatever earlier applies left half done.
AppliedIsBaseline ==
  [][\A a \in Apply : pc[a] = "status" /\ pc'[a] = "ok" =>
       home'.base = host /\ layer[home'.upper] = {}]_pc

\* What the user takes a worktree for: the layer's files that are not on the
\* host are pending, and a command killed at any point neither loses one nor
\* leaks one.
Pending ==
  IF home = None \/ home.upper = None THEN {} ELSE layer[home.upper] \ host

WorktreeBranch == INSTANCE Branch WITH File <- Run, pending <- Pending, open <- ~dropped

IsBranch == WorktreeBranch!Spec

\* drop.rs:187-189 "never rename a state dir a live process holds, and never rename
\* while a mount is up": when drop takes the state directory away, no overlay of
\* the worktree is on the target and no command of any of its runs lives,
\* whatever the runs before it left behind.
DropTakesDown ==
  [][~dropped /\ dropped' =>
       /\ ~HasMount({"mine"})
       /\ \A r \in Run : kid[r] \notin {"wait", "live"}]_dropped

\* README.md:28-31: what is unmounted is an overlay of this worktree; foreign mounts are
\* never unmounted.
ForeignKept == [][Len(mounts') < Len(mounts) => Top.kind = "mine"]_mounts

\* apply.rs:236-239: a dropped worktree is not resurrected.
NoGhost == dropped => home = None

\* linux.rs:134-137: a run that is killed before the pidfile is written leaves no
\* child that holds an unrecorded mount.
OrphanIsRecorded ==
  \A r \in Run : kid[r] = "live" /\ pc[r] = "dead" => home = None \/ home.pid = r

\* Every apply, diff and drop that was started comes to an end, whatever the
\* others do.
CommandsEnd ==
  \A p \in Apply \cup Diff \cup Drop : pc[p] # "idle" ~> pc[p] \in Ended
=============================================================================
