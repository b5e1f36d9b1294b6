------------------------------ MODULE Pidfile ------------------------------
(***************************************************************************)
(* The run.pid protocol of one worktree: how concurrent `cowt run`         *)
(* processes claim the pidfile (write_pidfile in backend/mod.rs), how they *)
(* clear it (commands/run.rs), how every command judges whether a run is   *)
(* alive (State::running_pid), and how `cowt drop --force` terminates the  *)
(* recorded process (commands/drop.rs), while processes die, are killed    *)
(* and have their pids given to others. Each step is one system call or    *)
(* one read of the file; what mounts and unmounts around it is left to     *)
(* Worktree.                                                               *)
(*                                                                         *)
(* A run's child leads a process group. What it has put in the background  *)
(* is killed when it has ended, by the number of the group; the run        *)
(* forwards signals to the number of the child (backend/mod.rs).           *)
(***************************************************************************)
EXTENDS FiniteSets, Naturals

CONSTANTS
  Runner,      \* invocations of `cowt run` on this worktree
  Pid,         \* process ids the kernel hands out
  None,        \* no runner, no file
  Empty,       \* a pidfile body that names no process: empty or unparseable
  MaxStarts,   \* bound: processes started, the two of Init included
  MaxFaults    \* bound: killed runs and failed writes of the pidfile

ASSUME NamesAssumption ==
  /\ None \notin Runner \cup [pid : Pid, start : Nat]
  /\ Empty \notin [pid : Pid, start : Nat]
  /\ None \notin [by : Runner, body : [pid : Pid, start : Nat] \cup {Empty}]

ASSUME BoundsAssumption == MaxStarts \in Nat /\ MaxStarts >= 2 /\ MaxFaults \in Nat

VARIABLES
  file,     \* run.pid: None, or who created it and what it says
  proc,     \* the process table
  clock,    \* the start time of the youngest process
  pc,       \* where each run is
  child,    \* the process each run spawned
  tracked,  \* the process each run forwards signals to (CHILD_PID, child_start)
  judged,   \* the body a run read before it found the pidfile stale
  drop,     \* `cowt drop --force`: where it is and whom it terminates
  faults    \* crashes and failed writes so far

vars == <<file, proc, clock, pc, child, tracked, judged, drop, faults>>

-----------------------------------------------------------------------------
(* Files and processes                                                     *)

\* A process for good: its pid and its start time. The pidfile's `pid:start`.
Process == [pid : Pid, start : 0..MaxStarts]

\* The body is written through the descriptor of the file its creator made:
\* `by` tells that file from one made at the same path later.
File == [by : Runner \cup {None}, body : Process \cup {Empty}]

\* kin is the run a process was spawned by, None when it has nothing to do
\* with this worktree; group is the pid of the leader of its process group.
Slot == [state : {"free", "live", "zombie"}, start : 0..MaxStarts,
         kin : Runner \cup {None}, group : Pid]

\* pid_alive: `kill -0` succeeds on a zombie too.
Alive(p) == proc[p].state # "free"

\* Mutant: the start time is not compared.
ReportedMutant(b) == b # Empty /\ Alive(b.pid)

\* The process `b` still exists: its pid is alive with the same start time.
\* running_pid, and the same judgement inside write_pidfile.  A body without a start
\* time, which write_pidfile leaves where the child's cannot be read, is left out: there
\* any live pid counts.
Reported(b) == b # Empty /\ Alive(b.pid) /\ proc[b.pid].start = b.start

Running == file # None /\ Reported(file.body)

\* The run still has to wait for its child.
Unreaped(r) == child[r] # None

\* Mutant: a dead child gives its pid back before its run has waited for it.
EndedMutant(S) ==
  [p \in Pid |-> IF p \in S THEN [proc[p] EXCEPT !.state = "free"] ELSE proc[p]]

\* Processes end: a parent that has not waited for one keeps the pid.
Ended(S) ==
  [p \in Pid |->
     IF p \in S
     THEN [proc[p] EXCEPT !.state =
             IF \E r \in Runner : Unreaped(r) /\ child[r].pid = p THEN "zombie" ELSE "free"]
     ELSE proc[p]]

Free(p) == [proc EXCEPT ![p].state = "free"]

\* The kernel gives no pid that a process has, or a group with somebody in it.
Members(p) == {q \in Pid : Alive(q) /\ proc[q].group = p}
Unused(p) == ~Alive(p) /\ Members(p) = {}

\* A process starts, in the group of g.
Started(p, k, g) ==
  [proc EXCEPT ![p] = [state |-> "live", start |-> clock + 1, kin |-> k, group |-> g]]

Goto(r, l) == pc' = [pc EXCEPT ![r] = l]

-----------------------------------------------------------------------------
(* `cowt run`                                                              *)

\* Mutant: no gate; the pidfile alone keeps the second run out.
GateMutant(r) ==
  /\ pc[r] = "idle"
  /\ Goto(r, "spawn")
  /\ UNCHANGED <<file, proc, clock, child, tracked, judged, drop, faults>>

\* run.rs: refuse while a run is recorded.
Gate(r) ==
  /\ pc[r] = "idle"
  /\ ~Running
  /\ Goto(r, "spawn")
  /\ UNCHANGED <<file, proc, clock, child, tracked, judged, drop, faults>>

\* The mount is up; spawn the command, as the leader of a group.
Spawn(r, p) ==
  /\ pc[r] = "spawn"
  /\ Unused(p)
  /\ clock < MaxStarts
  /\ clock' = clock + 1
  /\ proc' = Started(p, r, p)
  /\ child' = [child EXCEPT ![r] = [pid |-> p, start |-> clock + 1]]
  /\ Goto(r, "create")
  /\ UNCHANGED <<file, tracked, judged, drop, faults>>

\* The mount fails, or there is no such command: the latter counts as a run that
\* has ended.
SpawnFails(r) ==
  /\ pc[r] = "spawn"
  /\ Goto(r, "idle") \/ Goto(r, "clear")
  /\ UNCHANGED <<file, proc, clock, child, tracked, judged, drop, faults>>

\* open with O_CREAT|O_EXCL.
Create(r) ==
  /\ pc[r] = "create"
  /\ \/ file = None /\ file' = [by |-> r, body |-> Empty] /\ Goto(r, "body")
     \/ file # None /\ file' = file /\ Goto(r, "read")
  /\ UNCHANGED <<proc, clock, child, tracked, judged, drop, faults>>

\* write_all to the created file, wherever its path now leads.
WriteBody(r) ==
  /\ pc[r] = "body"
  /\ file' = IF file # None /\ file.by = r THEN [file EXCEPT !.body = child[r]] ELSE file
  /\ Goto(r, "track")
  /\ UNCHANGED <<proc, clock, child, tracked, judged, drop, faults>>

\* write_all or sync_all of the created file, or remove_file of a stale one, fails:
\* the file stays, the run gives up.
ClaimFails(r) ==
  /\ pc[r] \in {"body", "remove"}
  /\ faults < MaxFaults
  /\ faults' = faults + 1
  /\ Goto(r, "failed")
  /\ UNCHANGED <<file, proc, clock, child, tracked, judged, drop>>

\* The path exists: read what it says; a file gone again reads as empty.
ReadBody(r) ==
  /\ pc[r] = "read"
  /\ judged' = [judged EXCEPT ![r] = IF file = None THEN Empty ELSE file.body]
  /\ Goto(r, "judge")
  /\ UNCHANGED <<file, proc, clock, child, tracked, drop, faults>>

\* Mutant: an unreadable pidfile counts as another run.
JudgeMutantEmpty(r) ==
  /\ pc[r] = "judge"
  /\ Goto(r, IF judged[r] = Empty \/ Reported(judged[r]) THEN "lost" ELSE "reread")
  /\ UNCHANGED <<file, proc, clock, child, tracked, judged, drop, faults>>

\* Mutant: a stale pidfile is left in place.
JudgeMutantKeep(r) ==
  /\ pc[r] = "judge"
  /\ Goto(r, IF Reported(judged[r]) THEN "lost" ELSE "track")
  /\ UNCHANGED <<file, proc, clock, child, tracked, judged, drop, faults>>

\* Another live run: refuse. Anything else is stale.
Judge(r) ==
  /\ pc[r] = "judge"
  /\ Goto(r, IF Reported(judged[r]) THEN "lost" ELSE "reread")
  /\ UNCHANGED <<file, proc, clock, child, tracked, judged, drop, faults>>

\* Read again: refuse when somebody changed it in between.
Reread(r) ==
  /\ pc[r] = "reread"
  /\ Goto(r, IF file # None /\ file.body # judged[r] THEN "lost" ELSE "remove")
  /\ UNCHANGED <<file, proc, clock, child, tracked, judged, drop, faults>>

\* Mutant: the removal fails unnoticed.
RemoveMutant(r) ==
  /\ pc[r] = "remove"
  /\ file' = file
  /\ Goto(r, "create")
  /\ UNCHANGED <<proc, clock, child, tracked, judged, drop, faults>>

\* remove_file on the path, then write_pidfile starts over.
Remove(r) ==
  /\ pc[r] = "remove"
  /\ file' = None
  /\ Goto(r, "create")
  /\ UNCHANGED <<proc, clock, child, tracked, judged, drop, faults>>

\* reap_orphan_child: kill the child and wait for it.
Reap(r) ==
  /\ pc[r] \in {"lost", "failed"}
  /\ proc' = Free(child[r].pid)
  /\ child' = [child EXCEPT ![r] = None]
  /\ Goto(r, "idle")
  /\ UNCHANGED <<file, clock, tracked, judged, drop, faults>>

\* ChildSignalGuard::track, and the start time of the child.
Track(r) ==
  /\ pc[r] = "track"
  /\ tracked' = [tracked EXCEPT ![r] = child[r]]
  /\ Goto(r, "running")
  /\ UNCHANGED <<file, proc, clock, child, judged, drop, faults>>

\* wait() returns.
Wait(r) ==
  /\ pc[r] = "running"
  /\ proc[child[r].pid].state = "zombie"
  /\ proc' = Free(child[r].pid)
  /\ child' = [child EXCEPT ![r] = None]
  /\ Goto(r, "group")
  /\ UNCHANGED <<file, clock, tracked, judged, drop, faults>>

\* Mutant: the child must still be there, as it was before wait().
RecycledMutant(r) == ~Reported(tracked[r])

\* group_kill_should_skip: its pid is that of another process by now.
Recycled(r) == Alive(tracked[r].pid) /\ ~Reported(tracked[r])

GroupCheck(r) ==
  /\ pc[r] = "group"
  /\ Goto(r, IF Recycled(r) THEN "teardown" ELSE "groupkill")
  /\ UNCHANGED <<file, proc, clock, child, tracked, judged, drop, faults>>

\* kill(-pid, SIGKILL). Who is sent the signal is gone at once here.
GroupKill(r) ==
  /\ pc[r] = "groupkill"
  /\ proc' = Ended({p \in Members(tracked[r].pid) : proc[p].state = "live"})
  /\ Goto(r, "teardown")
  /\ UNCHANGED <<file, clock, child, tracked, judged, drop, faults>>

\* The mount comes down; the guard ends with run_isolated.
Teardown(r) ==
  /\ pc[r] = "teardown"
  /\ tracked' = [tracked EXCEPT ![r] = None]
  /\ Goto(r, "clear")
  /\ UNCHANGED <<file, proc, clock, child, judged, drop, faults>>

\* SIGTERM, SIGINT or the SIGALRM after them reach the run, which passes the signal on
\* by number; it may be ignored. (With nothing tracked the run itself ends: Crash.)
Forward(r) ==
  /\ tracked[r] # None
  /\ proc[tracked[r].pid].state = "live"
  /\ proc' = Ended({tracked[r].pid})
  /\ UNCHANGED <<file, clock, pc, child, tracked, judged, drop, faults>>

\* run.rs: leave the pidfile alone when the mount is still up or when it records
\* a live run.
ClearCheck(r) ==
  /\ pc[r] = "clear"
  /\ Goto(r, "idle") \/ (~Running /\ Goto(r, "unlink"))
  /\ UNCHANGED <<file, proc, clock, child, tracked, judged, drop, faults>>

\* clear_running.
Unlink(r) ==
  /\ pc[r] = "unlink"
  /\ file' = None
  /\ Goto(r, "idle")
  /\ UNCHANGED <<proc, clock, child, tracked, judged, drop, faults>>

\* kill -9: the child, if any, and its group go on without a parent; init reaps it.
Crash(r) ==
  /\ pc[r] # "idle"
  /\ faults < MaxFaults
  /\ faults' = faults + 1
  /\ proc' = IF Unreaped(r) /\ proc[child[r].pid].state = "zombie"
             THEN Free(child[r].pid) ELSE proc
  /\ child' = [child EXCEPT ![r] = None]
  /\ tracked' = [tracked EXCEPT ![r] = None]
  /\ Goto(r, "idle")
  /\ UNCHANGED <<file, clock, judged, drop>>

-----------------------------------------------------------------------------
(* `cowt drop --force` and everybody else                                  *)

\* running_pid names a process. drop keeps the pid; the start time is history.
DropCheck ==
  /\ drop.at = "idle"
  /\ Running
  /\ drop' = [at |-> "term", who |-> file.body]
  /\ UNCHANGED <<file, proc, clock, pc, child, tracked, judged, faults>>

DropGoto(l) == drop' = [drop EXCEPT !.at = l]

\* SIGTERM, to whoever holds the pid; a process may ignore it.
DropTerm ==
  /\ drop.at = "term"
  /\ DropGoto("poll")
  /\ \/ proc' = proc
     \/ proc[drop.who.pid].state = "live" /\ proc' = Ended({drop.who.pid})
  /\ UNCHANGED <<file, clock, pc, child, tracked, judged, faults>>

\* Two seconds of pid_alive, which does not look at the start time.
DropPoll ==
  /\ drop.at = "poll"
  /\ DropGoto(IF Alive(drop.who.pid) THEN "kill" ELSE "idle")
  /\ UNCHANGED <<file, proc, clock, pc, child, tracked, judged, faults>>

\* SIGKILL, to whoever holds the pid by now. drop may look for a run again.
DropKill ==
  /\ drop.at = "kill"
  /\ DropGoto("idle")
  /\ proc' = IF proc[drop.who.pid].state = "live" THEN Ended({drop.who.pid}) ELSE proc
  /\ UNCHANGED <<file, clock, pc, child, tracked, judged, faults>>

\* A process ends by itself.
Exit(p) ==
  /\ proc[p].state = "live"
  /\ proc' = Ended({p})
  /\ UNCHANGED <<file, clock, pc, child, tracked, judged, drop, faults>>

\* A process of a run's group starts another in it.
Background(p, q) ==
  /\ proc[p].state = "live" /\ proc[p].kin # None
  /\ Unused(q)
  /\ clock < MaxStarts
  /\ clock' = clock + 1
  /\ proc' = Started(q, proc[p].kin, proc[p].group)
  /\ UNCHANGED <<file, pc, child, tracked, judged, drop, faults>>

\* The kernel gives an unused pid to a process of somebody else.
Recycle(p) ==
  /\ Unused(p)
  /\ clock < MaxStarts
  /\ clock' = clock + 1
  /\ proc' = Started(p, None, p)
  /\ UNCHANGED <<file, pc, child, tracked, judged, drop, faults>>

-----------------------------------------------------------------------------
(* The pidfile is absent, unreadable, or left by a run that is gone, whose  *)
(* pid may have been handed out again.                                      *)
Init ==
  /\ clock = 2
  /\ file \in {None} \cup [by : {None}, body : {Empty} \cup [pid : Pid, start : {1}]]
  /\ \E busy \in SUBSET Pid :
       proc = [p \in Pid |->
         IF p \in busy THEN [state |-> "live", start |-> 2, kin |-> None, group |-> p]
                       ELSE [state |-> "free", start |-> 1, kin |-> None, group |-> p]]
  /\ pc = [r \in Runner |-> "idle"]
  /\ child = [r \in Runner |-> None]
  /\ tracked = [r \in Runner |-> None]
  /\ judged = [r \in Runner |-> Empty]
  /\ drop = [at |-> "idle", who |-> Empty]
  /\ faults = 0

Claim(r) ==
  \/ Create(r) \/ WriteBody(r) \/ ReadBody(r) \/ Judge(r) \/ Reread(r) \/ Remove(r)
  \/ Reap(r)

Run(r) ==
  \/ Gate(r) \/ SpawnFails(r) \/ (\E p \in Pid : Spawn(r, p))
  \/ Claim(r)
  \/ ClaimFails(r) \/ Track(r) \/ Wait(r) \/ GroupCheck(r) \/ GroupKill(r) \/ Teardown(r)
  \/ Forward(r) \/ ClearCheck(r) \/ Unlink(r) \/ Crash(r)

Drop == DropCheck \/ DropTerm \/ DropPoll \/ DropKill

Next ==
  \/ \E r \in Runner : Run(r)
  \/ Drop
  \/ \E p \in Pid : Exit(p) \/ Recycle(p)
  \/ \E p, q \in Pid : Background(p, q)

Spec == Init /\ [][Next]_vars

\* A run that claims the pidfile makes progress; nothing makes anybody start,
\* end or kill a process.
FairSpec == Spec /\ \A r \in Runner : WF_vars(Claim(r))
-----------------------------------------------------------------------------
(* Properties                                                              *)

Labels == {"idle", "spawn", "create", "body", "read", "judge", "reread", "remove",
           "track", "running", "group", "groupkill", "teardown", "lost", "failed", "clear",
           "unlink"}

\* The labels at which the run has a child to wait for.
WithChild == {"create", "body", "read", "judge", "reread", "remove", "track", "running",
              "lost", "failed"}

\* Those at which it tracks a child that it has waited for.
Reaped == {"group", "groupkill", "teardown"}

TypeOK ==
  /\ file \in File \cup {None}
  /\ proc \in [Pid -> Slot]
  /\ clock \in 2..MaxStarts
  /\ pc \in [Runner -> Labels]
  /\ child \in [Runner -> Process \cup {None}]
  /\ tracked \in [Runner -> Process \cup {None}]
  /\ judged \in [Runner -> Process \cup {Empty}]
  /\ drop \in [at : {"idle", "term", "poll", "kill"}, who : Process \cup {Empty}]
  /\ drop.at # "idle" => drop.who # Empty
  /\ faults \in 0..MaxFaults

\* A child keeps its pid until its run has waited for it.
ChildOK ==
  \A r \in Runner :
    /\ Unreaped(r) <=> pc[r] \in WithChild
    /\ Unreaped(r) => /\ Reported(child[r])
                      /\ proc[child[r].pid].kin = r

\* A run tracks its child, from the pidfile to the end of the teardown.
TrackOK ==
  \A r \in Runner :
    /\ pc[r] = "running" => tracked[r] = child[r]
    /\ tracked[r] # None <=> pc[r] \in Reaped \cup {"running"}

\* No process is younger than the clock, and what a pidfile names either is
\* gone for good or was spawned by a run.
NamesOK ==
  /\ \A p \in Pid : proc[p].start <= clock
  /\ file # None /\ file.body # Empty =>
       /\ file.body.start <= clock
       /\ Reported(file.body) => proc[file.body.pid].kin \in Runner

\* What a run's child has put in the background, in its group.
Group(r) == {p \in Pid : proc[p].state = "live" /\ proc[p].kin = r
                            /\ proc[p].group = tracked[r].pid}

\* As long as a group has somebody in it, the pid of its leader is that of its leader;
\* what is killed does not come back.
GroupSettled(r) ==
  pc[r] \in Reaped =>
    /\ Alive(tracked[r].pid) => Group(r) = {}
    /\ pc[r] = "teardown" => Group(r) = {}

GroupOK == \A r \in Runner : GroupSettled(r)

\* The inductive invariant behind the theorem of PidfileProofs.
Inv == TypeOK /\ ChildOK /\ TrackOK /\ NamesOK /\ GroupOK

\* state.rs:318-321: the process that run, diff, apply and drop take for the running
\* one was spawned by a run of this worktree, never a stranger that was given
\* the pid of a dead one, whatever crashed and however pids were reused.
RunningIsOurs == Running => proc[file.body.pid].kin \in Runner

\* mod.rs:358-361: whoever is told that another run is in progress loses to a run
\* that has claimed the pidfile; a stale, unreadable or recycled pidfile
\* never makes every contender lose.
SomeoneWins == \E r \in Runner : pc[r] # "lost"

\* With one user who starts one run at a time, a run that was recorded and
\* then lost its parent keeps every later run out for as long as it lives.
OrphanKeepsOut ==
  \A r \in Runner : pc[r] # "idle" /\ Running => file.body = child[r]

\* With one run at a time, a run that waits for its child is recorded.
RunIsRecorded ==
  \A r \in Runner : pc[r] = "running" => file # None /\ file.body = child[r]

\* mod.rs:119-123: before a run unmounts, everybody whom its child left in its group has
\* been killed, so that nobody holds the mount, however pids were reused since the child
\* was waited for.
NobodyHoldsTheMount == \A r \in Runner : pc[r] = "teardown" => Group(r) = {}

\* write_pidfile does not retry for ever: it wins or is refused.
ClaimSettles ==
  \A r \in Runner : pc[r] = "create" ~> pc[r] \in {"track", "idle"}

\* mod.rs:413-416: two concurrent runners may both find the pidfile stale, but
\* only one wins the create.
OneOwner ==
  \A r, q \in Runner : pc[r] = "running" /\ pc[q] = "running" => r = q

\* run.rs:60-64: a run that ends does not delete the marker of a live successor.
SuccessorKept ==
  [][\A r \in Runner : pc[r] = "unlink" /\ pc'[r] = "idle" =>
       \A q \in Runner :
         pc[q] = "running" /\ proc[child[q].pid].state = "live" =>
           file = None \/ file.by # q]_pc

\* state.rs:318-321: `drop --force` never kills an innocent process. When drop goes
\* on to SIGKILL, its pid is still that of the process it found running.
InnocentSpared ==
  [][drop.at = "poll" /\ drop'.at = "kill" => Reported(drop.who)]_drop

\* mod.rs:102-103 "so a stale pid is never signalled": what a run would pass a signal on
\* to is its own.
TrackedIsOurs ==
  \A r \in Runner :
    tracked[r] # None /\ proc[tracked[r].pid].state = "live" => proc[tracked[r].pid].kin = r

\* mod.rs:126-129: the group kill skips a pid that was recycled.
GroupIsOurs ==
  [][\A r \in Runner : pc[r] = "groupkill" /\ pc'[r] = "teardown" =>
       \A p \in Members(tracked[r].pid) : proc[p].kin = r]_pc
=============================================================================
