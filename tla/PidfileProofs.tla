--------------------------- MODULE PidfileProofs ---------------------------
(***************************************************************************)
(* The judgement that a run is alive is right, and not all of the runs     *)
(* that contend for the pidfile lose, for any number of runs, pids,        *)
(* crashes and restarts. One run at a time is recorded as long as it or    *)
(* its orphan lives.                                                       *)
(***************************************************************************)
EXTENDS Pidfile, TLAPS

\* A pid:start pair is neither of the two bodies that name nobody.
LEMMA ProcessNames == \A b \in Process : b # None /\ b # Empty
  BY NamesAssumption DEF Process

\* The initial state: nobody runs, and what the pidfile names is gone.
LEMMA InitInv == Init => Inv
<1> SUFFICES ASSUME Init PROVE Inv
  OBVIOUS
<1> USE BoundsAssumption, NamesAssumption, ProcessNames
<1>1. TypeOK
  <2>1. file \in File \cup {None}
    BY DEF Init, File, Process
  <2>2. proc \in [Pid -> Slot]
    <3>1. PICK busy \in SUBSET Pid :
            proc = [p \in Pid |->
              IF p \in busy THEN [state |-> "live", start |-> 2, kin |-> None, group |-> p]
                            ELSE [state |-> "free", start |-> 1, kin |-> None, group |-> p]]
      BY DEF Init
    <3>2. \A p \in Pid : proc[p] \in Slot
      BY <3>1 DEF Slot
    <3>3. QED
      BY <3>1, <3>2
  <2>3. QED
    BY <2>1, <2>2 DEF Init, TypeOK, Labels
<1>2. ChildOK
  BY DEF Init, ChildOK, Unreaped, WithChild
<1>3. NamesOK
  <2>1. \A p \in Pid : proc[p].start <= clock
    BY DEF Init
  <2>2. file # None /\ file.body # Empty => file.body.start = 1 /\ file.body.pid \in Pid
    BY DEF Init
  <2>3. \A p \in Pid : proc[p].state # "free" => proc[p].start = 2
    BY DEF Init
  <2>4. QED
    BY <2>1, <2>2, <2>3 DEF Init, NamesOK, Reported, Alive
<1>4. TrackOK /\ GroupOK
  BY DEF Init, TrackOK, GroupOK, GroupSettled, Reaped
<1>5. QED
  BY <1>1, <1>2, <1>3, <1>4 DEF Inv

\* A process that starts takes a start time nobody had: what was reported
\* before stays so, and nothing else becomes reported, but itself.
LEMMA StartedFresh ==
  ASSUME Inv, NEW p \in Pid, NEW k \in Runner \cup {None}, NEW g \in Pid,
         clock < MaxStarts, proc' = Started(p, k, g)
  PROVE  /\ proc' \in [Pid -> Slot]
         /\ \A q \in Pid : proc'[q].start <= clock + 1
         /\ proc'[p].state = "live" /\ proc'[p].start = clock + 1
         /\ proc'[p].kin = k /\ proc'[p].group = g
         /\ \A q \in Pid : q # p => proc'[q] = proc[q]
<1> USE BoundsAssumption
<1>1. proc \in [Pid -> Slot] /\ clock \in 2..MaxStarts
  BY DEF Inv, TypeOK
<1>2. DEFINE new == [state |-> "live", start |-> clock + 1, kin |-> k, group |-> g]
<1>3. new \in Slot
  BY <1>1 DEF Slot
<1>4. proc' = [proc EXCEPT ![p] = new]
  BY DEF Started
<1>5. proc' \in [Pid -> Slot] /\ proc'[p] = new /\ \A q \in Pid : q # p => proc'[q] = proc[q]
  BY <1>1, <1>3, <1>4
<1>6. \A q \in Pid : proc[q].start \in Nat /\ proc[q].start <= clock
  BY <1>1 DEF Slot, Inv, NamesOK
<1>7. \A q \in Pid : proc'[q].start <= clock + 1
  <2> SUFFICES ASSUME NEW q \in Pid PROVE proc'[q].start <= clock + 1
    OBVIOUS
  <2>1. CASE q = p
    BY <1>1, <1>5, <2>1
  <2>2. CASE q # p
    BY <1>1, <1>5, <1>6, <2>2
  <2>3. QED
    BY <2>1, <2>2
<1>8. QED
  BY <1>5, <1>7

\* The end of processes frees their pids or leaves zombies, and no more.
LEMMA EndedKeeps ==
  ASSUME Inv, NEW S \in SUBSET Pid, \A p \in S : proc[p].state = "live", proc' = Ended(S)
  PROVE  /\ proc' \in [Pid -> Slot]
         /\ \A q \in Pid : /\ proc'[q].start = proc[q].start /\ proc'[q].kin = proc[q].kin
                           /\ proc'[q].group = proc[q].group
                           /\ proc'[q].state # "free" => proc[q].state # "free"
                           /\ proc'[q].state = "live" => proc[q].state = "live" /\ q \notin S
         /\ \A r \in Runner : Unreaped(r) => proc'[child[r].pid].state # "free"
<1>1. proc \in [Pid -> Slot] /\ child \in [Runner -> Process \cup {None}]
  BY DEF Inv, TypeOK
<1>2. ASSUME NEW q \in Pid, q \notin S
      PROVE  proc'[q] = proc[q]
  BY <1>2 DEF Ended
<1>3. ASSUME NEW q \in Pid, q \in S
      PROVE  /\ proc'[q] \in Slot /\ proc'[q].state # "live"
             /\ proc'[q].start = proc[q].start /\ proc'[q].kin = proc[q].kin
             /\ proc'[q].group = proc[q].group
             /\ (\E r \in Runner : Unreaped(r) /\ child[r].pid = q) => proc'[q].state = "zombie"
  <2>1. CASE \E r \in Runner : Unreaped(r) /\ child[r].pid = q
    <3>1. proc'[q] = [proc[q] EXCEPT !.state = "zombie"]
      BY <1>3, <2>1 DEF Ended
    <3>2. QED
      BY <1>1, <3>1 DEF Slot
  <2>2. CASE ~\E r \in Runner : Unreaped(r) /\ child[r].pid = q
    <3>1. proc'[q] = [proc[q] EXCEPT !.state = "free"]
      BY <1>3, <2>2 DEF Ended
    <3>2. QED
      BY <1>1, <2>2, <3>1 DEF Slot
  <2>3. QED
    BY <2>1, <2>2
<1>4. \A q \in Pid : proc'[q] \in Slot
  BY <1>1, <1>2, <1>3
<1>5. proc' \in [Pid -> Slot]
  BY <1>4 DEF Ended
<1>6. \A r \in Runner : Unreaped(r) => child[r].pid \in Pid /\ proc[child[r].pid].state # "free"
  BY <1>1 DEF Inv, ChildOK, Reported, Alive, Unreaped, Process
<1>7. \A r \in Runner : Unreaped(r) => proc'[child[r].pid].state # "free"
  BY <1>2, <1>3, <1>6
<1>8. ASSUME NEW q \in Pid
      PROVE  /\ proc'[q].start = proc[q].start /\ proc'[q].kin = proc[q].kin
             /\ proc'[q].group = proc[q].group
             /\ proc'[q].state # "free" => proc[q].state # "free"
             /\ proc'[q].state = "live" => proc[q].state = "live" /\ q \notin S
  BY <1>2, <1>3
<1>9. QED
  BY <1>5, <1>7, <1>8

\* Waiting for a process frees its pid, and no more.
LEMMA FreeKeeps ==
  ASSUME Inv, NEW p \in Pid, proc' = Free(p)
  PROVE  /\ proc' \in [Pid -> Slot] /\ proc'[p].state = "free"
         /\ \A q \in Pid : /\ proc'[q].start = proc[q].start /\ proc'[q].kin = proc[q].kin
                           /\ proc'[q].group = proc[q].group
                           /\ proc'[q].state # "free" => proc[q].state # "free"
                           /\ proc'[q].state = "live" => proc[q].state = "live"
         /\ \A q \in Pid : q # p => proc'[q] = proc[q]
  BY DEF Inv, TypeOK, Free, Slot

\* Steps that leave the processes alone: what the pidfile names is what it named,
\* or the child of a run.
LEMMA QuietStep ==
  ASSUME Inv, TypeOK', proc' = proc, clock' = clock, child' = child,
         \A r \in Runner : pc'[r] \in WithChild <=> pc[r] \in WithChild,
         file' \in {None, file} \/ file'.body = Empty
           \/ \E r \in Runner : Unreaped(r) /\ file'.body = child[r]
  PROVE  ChildOK' /\ NamesOK'
<1> USE DEF Inv
<1>1. ChildOK'
  BY DEF ChildOK, Unreaped, Reported, Alive
<1>2. NamesOK'
  <2>1. CASE file' \in {None, file} \/ file'.body = Empty
    BY <2>1 DEF NamesOK, Reported, Alive
  <2>2. CASE \E r \in Runner : Unreaped(r) /\ file'.body = child[r]
    <3>1. PICK r \in Runner : Unreaped(r) /\ file'.body = child[r]
      BY <2>2
    <3>2. /\ child[r] \in Process
          /\ proc[child[r].pid].start = child[r].start
          /\ proc[child[r].pid].kin = r
      BY <3>1 DEF TypeOK, ChildOK, Unreaped, Reported
    <3>3. child[r].start <= clock
      BY <3>2 DEF Process, NamesOK
    <3>4. QED
      BY <3>1, <3>2, <3>3 DEF NamesOK
  <2>3. QED
    BY <2>1, <2>2
<1>3. QED
  BY <1>1, <1>2

\* Steps by which a run is rid of its child; the pidfile stays.
LEMMA FarewellStep ==
  ASSUME Inv, TypeOK', NEW r \in Runner, pc[r] \in WithChild, pc'[r] \notin WithChild,
         clock' = clock, file' = file,
         child' = [child EXCEPT ![r] = None],
         \A q \in Runner : q # r => pc'[q] = pc[q],
         proc' = proc \/ proc' = Free(child[r].pid)
  PROVE  ChildOK' /\ NamesOK'
<1> USE DEF Inv
<1>0. Unreaped(r) /\ child[r] \in Process /\ child[r].pid \in Pid
  BY DEF ChildOK, TypeOK, Unreaped, Process
<1>1. /\ \A q \in Pid : proc'[q].start = proc[q].start /\ proc'[q].kin = proc[q].kin
      /\ \A q \in Pid : proc'[q].state # "free" => proc[q].state # "free"
      /\ \A q \in Pid : q # child[r].pid => proc'[q] = proc[q]
  BY <1>0, FreeKeeps
<1>2. ChildOK'
  <2> SUFFICES ASSUME NEW q \in Runner
               PROVE  /\ Unreaped(q)' <=> pc'[q] \in WithChild
                      /\ Unreaped(q)' => Reported(child[q])' /\ proc'[child'[q].pid].kin = q
    BY DEF ChildOK
  <2>1. CASE q = r
    BY <2>1, <1>0 DEF TypeOK, Unreaped
  <2>2. CASE q # r
    <3>1. child'[q] = child[q] /\ pc'[q] = pc[q]
      BY <2>2 DEF TypeOK
    <3>2. Unreaped(q) => child[q].pid \in Pid /\ child[q].pid # child[r].pid
      BY <2>2, <1>0 DEF ChildOK, TypeOK, Unreaped, Process
    <3>3. QED
      BY <3>1, <3>2, <1>1 DEF ChildOK, Unreaped, Reported, Alive
  <2>3. QED
    BY <2>1, <2>2
<1>3. NamesOK'
  <2>1. file # None /\ file.body # Empty => file.body.pid \in Pid
    BY DEF TypeOK, File, Process
  <2>2. QED
    BY <1>1, <2>1 DEF NamesOK, Reported, Alive
<1>4. QED
  BY <1>2, <1>3

\* Processes somewhere end; the runs keep their children, and the pidfile stays.
LEMMA EndStep ==
  ASSUME Inv, TypeOK', NEW S \in SUBSET Pid, \A p \in S : proc[p].state = "live",
         proc' = Ended(S), UNCHANGED <<file, clock, child>>,
         \A r \in Runner : pc'[r] \in WithChild <=> pc[r] \in WithChild
  PROVE  ChildOK' /\ NamesOK'
<1> USE DEF Inv
<1>1. /\ \A q \in Pid : proc'[q].start = proc[q].start /\ proc'[q].kin = proc[q].kin
      /\ \A q \in Pid : proc'[q].state # "free" => proc[q].state # "free"
      /\ \A r \in Runner : Unreaped(r) => proc'[child[r].pid].state # "free"
  BY EndedKeeps
<1>2. \A r \in Runner : Unreaped(r) => child[r].pid \in Pid
  BY DEF TypeOK, Unreaped, Process
<1>3. ChildOK'
  BY <1>1, <1>2 DEF ChildOK, Unreaped, Reported, Alive
<1>4. file # None /\ file.body # Empty => file.body.pid \in Pid
  BY DEF TypeOK, File, Process
<1>5. NamesOK'
  BY <1>1, <1>4 DEF NamesOK, Reported, Alive
<1>6. QED
  BY <1>3, <1>5

\* A process starts: a run's child, one in its group, or a stranger.
LEMMA StartStep ==
  ASSUME Inv, TypeOK', NEW p \in Pid, NEW k \in Runner \cup {None}, NEW g \in Pid,
         clock < MaxStarts, proc[p].state = "free", proc' = Started(p, k, g),
         clock' = clock + 1, file' = file,
         \/ UNCHANGED <<pc, child>>
         \/ /\ k \in Runner /\ pc[k] \notin WithChild /\ pc'[k] \in WithChild
            /\ child' = [child EXCEPT ![k] = [pid |-> p, start |-> clock + 1]]
            /\ \A q \in Runner : q # k => pc'[q] = pc[q]
  PROVE  ChildOK' /\ NamesOK'
<1> USE DEF Inv
<1>1. /\ \A q \in Pid : proc'[q].start <= clock + 1
      /\ proc'[p].state = "live" /\ proc'[p].start = clock + 1 /\ proc'[p].kin = k
      /\ \A q \in Pid : q # p => proc'[q] = proc[q]
  BY StartedFresh
<1>2. \A r \in Runner : Unreaped(r) => child[r].pid \in Pid /\ child[r].pid # p
  BY DEF TypeOK, Unreaped, Process, ChildOK, Reported, Alive
<1>3. ChildOK'
  <2> SUFFICES ASSUME NEW q \in Runner
               PROVE  /\ Unreaped(q)' <=> pc'[q] \in WithChild
                      /\ Unreaped(q)' => Reported(child[q])' /\ proc'[child'[q].pid].kin = q
    BY DEF ChildOK
  <2>1. CASE q = k /\ child' # child
    <3>1. child'[q] = [pid |-> p, start |-> clock + 1] /\ pc'[q] \in WithChild
      BY <2>1 DEF TypeOK
    <3>2. child'[q] # None /\ child'[q] # Empty
      <4>1. child'[q] \in Process \cup {None}
        BY DEF TypeOK
      <4>2. child'[q] \in [pid : Pid, start : Nat]
        BY <3>1, BoundsAssumption DEF TypeOK
      <4>3. QED
        BY <4>2, NamesAssumption
    <3>3. QED
      BY <3>1, <3>2, <1>1, <2>1 DEF Unreaped, Reported, Alive
  <2>2. CASE ~(q = k /\ child' # child)
    <3>1. child'[q] = child[q] /\ pc'[q] = pc[q]
      <4>1. CASE UNCHANGED <<pc, child>>
        BY <4>1
      <4>2. CASE ~UNCHANGED <<pc, child>>
        <5>1. /\ k \in Runner /\ pc[k] \notin WithChild /\ pc'[k] \in WithChild
              /\ child' = [child EXCEPT ![k] = [pid |-> p, start |-> clock + 1]]
              /\ \A z \in Runner : z # k => pc'[z] = pc[z]
          BY <4>2
        <5>2. child[k] = None
          BY <5>1 DEF ChildOK, Unreaped
        <5>3. child'[k] = [pid |-> p, start |-> clock + 1]
          BY <5>1 DEF TypeOK
        <5>4. [pid |-> p, start |-> clock + 1] # None
          BY NamesAssumption, BoundsAssumption DEF TypeOK
        <5>5. q # k
          BY <5>2, <5>3, <5>4, <2>2
        <5>6. QED
          BY <5>1, <5>5 DEF TypeOK
      <4>3. QED
        BY <4>1, <4>2
    <3>2. QED
      BY <3>1, <1>1, <1>2 DEF ChildOK, Unreaped, Reported, Alive
  <2>3. QED
    BY <2>1, <2>2
<1>4. NamesOK'
  <2>1. \A q \in Pid : proc'[q].start <= clock'
    BY <1>1
  <2>2. ASSUME file # None, file.body # Empty
        PROVE  /\ file.body.start <= clock'
               /\ Reported(file.body)' => proc'[file.body.pid].kin \in Runner
    <3>1. file.body \in Process /\ clock \in Nat
      BY <2>2, BoundsAssumption DEF TypeOK, File
    <3>2. file.body.pid \in Pid /\ file.body.start \in Nat /\ file.body.start <= clock
      BY <2>2, <3>1, BoundsAssumption DEF Process, NamesOK
    <3>3. CASE file.body.pid = p
      BY <3>1, <3>2, <3>3, <1>1 DEF Reported
    <3>4. CASE file.body.pid # p
      BY <3>1, <3>2, <3>4, <2>2, <1>1 DEF Reported, Alive, NamesOK
    <3>5. QED
      BY <3>1, <3>2, <3>3, <3>4
  <2>3. QED
    BY <2>1, <2>2 DEF NamesOK
<1>5. QED
  BY <1>3, <1>4

\* Types, step by step.
LEMMA RunTypes ==
  ASSUME Inv, NEW r \in Runner, Run(r)
  PROVE  TypeOK'
<1> USE BoundsAssumption DEF Inv
<1>0. /\ pc \in [Runner -> Labels] /\ child \in [Runner -> Process \cup {None}]
      /\ tracked \in [Runner -> Process \cup {None}]
      /\ file \in File \cup {None} /\ judged \in [Runner -> Process \cup {Empty}]
      /\ faults \in 0..MaxFaults /\ clock \in 2..MaxStarts /\ proc \in [Pid -> Slot]
  BY DEF TypeOK
<1>1. \A l \in Labels : Goto(r, l) => pc' \in [Runner -> Labels]
  BY <1>0 DEF Goto
<1>2. pc[r] \in WithChild => child[r] \in Process /\ child[r].pid \in Pid
  BY DEF TypeOK, ChildOK, Unreaped, Process
<1>3. CASE Gate(r) \/ SpawnFails(r) \/ Judge(r) \/ Reread(r) \/ ClearCheck(r) \/ GroupCheck(r)
  BY <1>0, <1>1, <1>3
     DEF Gate, SpawnFails, Judge, Reread, ClearCheck, GroupCheck, TypeOK, Labels
<1>4. CASE Create(r) \/ Remove(r) \/ Unlink(r) \/ WriteBody(r)
  <2>1. file' \in File \cup {None}
    BY <1>0, <1>2, <1>4 DEF Create, Remove, Unlink, WriteBody, File, WithChild
  <2>2. pc' \in [Runner -> Labels]
    BY <1>1, <1>4 DEF Create, Remove, Unlink, WriteBody, Labels
  <2>3. QED
    BY <2>1, <2>2, <1>4 DEF Create, Remove, Unlink, WriteBody, TypeOK
<1>5. CASE ClaimFails(r) \/ ReadBody(r)
  <2>1. judged' \in [Runner -> Process \cup {Empty}] /\ faults' \in 0..MaxFaults
    BY <1>0, <1>5 DEF ClaimFails, ReadBody, File
  <2>2. pc' \in [Runner -> Labels]
    BY <1>1, <1>5 DEF ClaimFails, ReadBody, Labels
  <2>3. QED
    BY <2>1, <2>2, <1>5 DEF ClaimFails, ReadBody, TypeOK
<1>6. CASE \E p \in Pid : Spawn(r, p)
  <2>1. PICK p \in Pid : Spawn(r, p)
    BY <1>6
  <2>2. clock' \in 2..MaxStarts
    BY <1>0, <2>1 DEF Spawn
  <2>3. proc' \in [Pid -> Slot]
    BY <2>1, StartedFresh DEF Spawn
  <2>4. child' \in [Runner -> Process \cup {None}]
    <3>1. [pid |-> p, start |-> clock + 1] \in Process
      BY <1>0, <2>1, <2>2 DEF Spawn, Process
    <3>2. QED
      BY <1>0, <3>1, <2>1 DEF Spawn
  <2>5. pc' \in [Runner -> Labels]
    BY <1>1, <2>1 DEF Spawn, Labels
  <2>6. QED
    BY <2>1, <2>2, <2>3, <2>4, <2>5 DEF Spawn, TypeOK
<1>7. CASE Reap(r) \/ Wait(r) \/ Crash(r)
  <2>1. Unreaped(r) => child[r].pid \in Pid
    BY DEF TypeOK, Unreaped, Process
  <2>2. proc' \in [Pid -> Slot]
    <3>1. CASE proc' = proc
      BY <1>0, <3>1
    <3>2. CASE Unreaped(r) /\ proc' = Free(child[r].pid)
      BY <2>1, <3>2, FreeKeeps
    <3>3. pc[r] \in WithChild => Unreaped(r)
      BY DEF ChildOK
    <3>4. CASE Reap(r) \/ Wait(r)
      <4>1. pc[r] \in WithChild /\ proc' = Free(child[r].pid)
        BY <3>4 DEF Reap, Wait, WithChild
      <4>2. QED
        BY <4>1, <3>2, <3>3
    <3>5. CASE Crash(r)
      BY <3>1, <3>2, <3>5 DEF Crash
    <3>6. QED
      BY <3>4, <3>5, <1>7
  <2>3. /\ child' \in [Runner -> Process \cup {None}] /\ faults' \in 0..MaxFaults
        /\ tracked' \in [Runner -> Process \cup {None}]
    BY <1>0, <1>7 DEF Reap, Wait, Crash
  <2>4. pc' \in [Runner -> Labels]
    BY <1>1, <1>7 DEF Reap, Wait, Crash, Labels
  <2>5. QED
    BY <2>2, <2>3, <2>4, <1>7 DEF Reap, Wait, Crash, TypeOK
<1>8. CASE Track(r) \/ Teardown(r)
  <2>1. tracked' \in [Runner -> Process \cup {None}]
    BY <1>0, <1>8 DEF Track, Teardown
  <2>2. pc' \in [Runner -> Labels]
    BY <1>1, <1>8 DEF Track, Teardown, Labels
  <2>3. QED
    BY <2>1, <2>2, <1>8 DEF Track, Teardown, TypeOK
<1>9. CASE GroupKill(r) \/ Forward(r)
  <2>1. proc' \in [Pid -> Slot]
    <3>1. CASE GroupKill(r)
      BY <3>1, EndedKeeps DEF GroupKill, Members
    <3>2. CASE Forward(r)
      <4>1. tracked[r].pid \in Pid
        BY <1>0, <3>2 DEF Forward, Process
      <4>2. PICK S \in SUBSET Pid : (\A p \in S : proc[p].state = "live") /\ proc' = Ended(S)
        BY <3>2, <4>1 DEF Forward
      <4>3. QED
        BY <4>2, EndedKeeps
    <3>3. QED
      BY <1>9, <3>1, <3>2
  <2>2. pc' \in [Runner -> Labels]
    BY <1>0, <1>1, <1>9 DEF GroupKill, Forward, Labels
  <2>3. QED
    BY <2>1, <2>2, <1>9 DEF GroupKill, Forward, TypeOK
<1>10. QED
  BY <1>3, <1>4, <1>5, <1>6, <1>7, <1>8, <1>9 DEF Run, Claim

LEMMA OtherTypes ==
  ASSUME Inv, \/ Drop \/ \E p \in Pid : Exit(p) \/ Recycle(p)
              \/ \E p, q \in Pid : Background(p, q)
  PROVE  TypeOK'
<1> USE BoundsAssumption DEF Inv
<1>0. proc \in [Pid -> Slot] /\ clock \in 2..MaxStarts /\ file \in File \cup {None}
  BY DEF TypeOK
<1>1. drop.at # "idle" => drop.who \in Process /\ drop.who.pid \in Pid
  BY DEF TypeOK, Process
<1>2. CASE DropCheck
  <2>1. file.body \in Process /\ file.body # Empty
    BY <1>0, <1>2 DEF DropCheck, Running, Reported, File
  <2>2. QED
    BY <1>2, <2>1 DEF DropCheck, TypeOK
<1>3. CASE DropTerm \/ DropPoll \/ DropKill
  <2>1. proc' \in [Pid -> Slot]
    <3>1. CASE proc' = proc
      BY <1>0, <3>1
    <3>2. CASE proc' # proc
      <4>1. PICK S \in SUBSET Pid : (\A p \in S : proc[p].state = "live") /\ proc' = Ended(S)
        BY <1>1, <1>3, <3>2 DEF DropTerm, DropPoll, DropKill
      <4>2. QED
        BY <4>1, EndedKeeps
    <3>3. QED
      BY <3>1, <3>2
  <2>2. /\ drop' \in [at : {"idle", "term", "poll", "kill"}, who : Process \cup {Empty}]
        /\ drop'.who = drop.who
    BY <1>3 DEF DropTerm, DropPoll, DropKill, DropGoto, TypeOK
  <2>3. drop'.at # "idle" => drop'.who # Empty
    BY <2>2, <1>3 DEF DropTerm, DropPoll, DropKill, TypeOK
  <2>4. QED
    BY <2>1, <2>2, <2>3, <1>3 DEF DropTerm, DropPoll, DropKill, TypeOK
<1>4. CASE \E p \in Pid : Exit(p)
  <2>1. proc' \in [Pid -> Slot]
    <3>1. PICK S \in SUBSET Pid : (\A p \in S : proc[p].state = "live") /\ proc' = Ended(S)
      BY <1>4 DEF Exit
    <3>2. QED
      BY <3>1, EndedKeeps
  <2>2. QED
    BY <2>1, <1>4 DEF Exit, TypeOK
<1>5. CASE \E p \in Pid : Recycle(p)
  <2>1. PICK p \in Pid : clock < MaxStarts /\ proc' = Started(p, None, p)
    BY <1>5 DEF Recycle
  <2>2. proc' \in [Pid -> Slot]
    BY <2>1, StartedFresh
  <2>3. clock' \in 2..MaxStarts
    BY <1>0, <1>5 DEF Recycle
  <2>4. QED
    BY <2>2, <2>3, <1>5 DEF Recycle, TypeOK
<1>6. CASE \E p, q \in Pid : Background(p, q)
  <2>1. PICK p \in Pid, q \in Pid : Background(p, q)
    BY <1>6
  <2>2. proc[p].kin \in Runner \cup {None} /\ proc[p].group \in Pid
    BY <1>0 DEF Slot
  <2>3. clock < MaxStarts /\ proc' = Started(q, proc[p].kin, proc[p].group)
    BY <2>1 DEF Background
  <2>4. proc' \in [Pid -> Slot]
    BY <2>2, <2>3, StartedFresh
  <2>5. clock' \in 2..MaxStarts
    BY <1>0, <2>1 DEF Background
  <2>6. QED
    BY <2>1, <2>4, <2>5 DEF Background, TypeOK
<1>7. QED
  BY <1>2, <1>3, <1>4, <1>5, <1>6 DEF Drop

\* A step of one run leaves the labels and the children of the others alone.
LEMMA RunFrame ==
  ASSUME Inv, NEW r \in Runner, Run(r), NEW q \in Runner, q # r
  PROVE  pc'[q] = pc[q] /\ tracked'[q] = tracked[q] /\ child'[q] = child[q]
  BY DEF Inv, TypeOK, Run, Claim, Goto, Gate, SpawnFails, Spawn, Create, WriteBody, ReadBody,
         Judge, Reread, Remove, Reap, ClaimFails, Track, Wait, GroupCheck, GroupKill, Teardown,
         Forward, ClearCheck, Unlink, Crash

LEMMA RunKeepsChild ==
  ASSUME Inv, NEW r \in Runner, Run(r)
  PROVE  ChildOK' /\ NamesOK'
<1>0. TypeOK'
  BY RunTypes
<1>1. pc \in [Runner -> Labels] /\ child \in [Runner -> Process \cup {None}]
  BY DEF Inv, TypeOK
<1>2. pc[r] \in WithChild <=> Unreaped(r)
  BY DEF Inv, ChildOK
<1>3. CASE Gate(r) \/ SpawnFails(r) \/ ReadBody(r) \/ Judge(r) \/ Reread(r) \/ ClearCheck(r)
           \/ Create(r) \/ Remove(r) \/ Unlink(r) \/ ClaimFails(r)
           \/ Track(r) \/ GroupCheck(r) \/ Teardown(r)
  <2>1. \A q \in Runner : pc'[q] \in WithChild <=> pc[q] \in WithChild
    BY <1>1, <1>3 DEF Gate, SpawnFails, ReadBody, Judge, Reread, ClearCheck, Create, Remove,
                      Unlink, ClaimFails, Track, GroupCheck, Teardown, Goto, WithChild
  <2>2. file' \in {None, file} \/ file'.body = Empty
    BY <1>3 DEF Gate, SpawnFails, ReadBody, Judge, Reread, ClearCheck, Create, Remove,
                Unlink, ClaimFails, Track, GroupCheck, Teardown
  <2>3. proc' = proc /\ clock' = clock /\ child' = child
    BY <1>3 DEF Gate, SpawnFails, ReadBody, Judge, Reread, ClearCheck, Create, Remove,
                Unlink, ClaimFails, Track, GroupCheck, Teardown
  <2>4. QED
    BY <1>0, <2>1, <2>2, <2>3, QuietStep
<1>4. CASE WriteBody(r)
  <2>1. \A q \in Runner : pc'[q] \in WithChild <=> pc[q] \in WithChild
    BY <1>1, <1>4 DEF WriteBody, Goto, WithChild
  <2>2. Unreaped(r)
    BY <1>2, <1>4 DEF WriteBody, WithChild
  <2>3. file' = file \/ file'.body = child[r]
    BY <1>4 DEF WriteBody, Inv, TypeOK, File
  <2>4. QED
    BY <1>0, <1>4, <2>1, <2>2, <2>3, QuietStep DEF WriteBody
<1>5. CASE \E p \in Pid : Spawn(r, p)
  <2>1. PICK p \in Pid : Spawn(r, p)
    BY <1>5
  <2>2. /\ pc[r] \notin WithChild /\ pc'[r] \in WithChild
        /\ \A q \in Runner : q # r => pc'[q] = pc[q]
    BY <1>1, <2>1 DEF Spawn, Goto, WithChild
  <2>3. /\ clock < MaxStarts /\ proc[p].state = "free" /\ proc' = Started(p, r, p)
        /\ clock' = clock + 1 /\ file' = file
        /\ child' = [child EXCEPT ![r] = [pid |-> p, start |-> clock + 1]]
    BY <2>1 DEF Spawn, Unused, Alive
  <2>4. QED
    BY <1>0, <2>2, <2>3, StartStep
<1>6. CASE Reap(r) \/ Wait(r) \/ (Crash(r) /\ Unreaped(r))
  <2>1. /\ pc[r] \in WithChild /\ pc'[r] \notin WithChild
        /\ \A q \in Runner : q # r => pc'[q] = pc[q]
    BY <1>1, <1>2, <1>6 DEF Reap, Wait, Crash, Goto, WithChild
  <2>2. /\ clock' = clock /\ file' = file /\ child' = [child EXCEPT ![r] = None]
        /\ proc' = proc \/ proc' = Free(child[r].pid)
    BY <1>6 DEF Reap, Wait, Crash
  <2>3. QED
    BY <1>0, <2>1, <2>2, FarewellStep
<1>7. CASE Crash(r) /\ ~Unreaped(r)
  <2>1. \A q \in Runner : pc'[q] \in WithChild <=> pc[q] \in WithChild
    BY <1>1, <1>2, <1>7 DEF Crash, Goto, WithChild
  <2>2. child' = child /\ proc' = proc /\ clock' = clock /\ file' = file
    BY <1>1, <1>7 DEF Crash, Unreaped
  <2>3. QED
    BY <1>0, <2>1, <2>2, QuietStep
<1>8. CASE GroupKill(r)
  <2>1. \A q \in Runner : pc'[q] \in WithChild <=> pc[q] \in WithChild
    BY <1>1, <1>8 DEF GroupKill, Goto, WithChild
  <2>2. QED
    BY <1>0, <1>8, <2>1, EndStep DEF GroupKill, Members
<1>9. CASE Forward(r)
  <2>1. tracked[r].pid \in Pid
    BY <1>9 DEF Forward, Inv, TypeOK, Process
  <2>2. QED
    BY <1>0, <1>9, <2>1, EndStep DEF Forward
<1>10. QED
  BY <1>3, <1>4, <1>5, <1>6, <1>7, <1>8, <1>9 DEF Run, Claim

\* The guard of a run follows its label.
LEMMA RunKeepsTrack ==
  ASSUME Inv, NEW r \in Runner, Run(r)
  PROVE  TrackOK'
<1>1. /\ pc \in [Runner -> Labels] /\ child \in [Runner -> Process \cup {None}]
      /\ tracked \in [Runner -> Process \cup {None}]
  BY DEF Inv, TypeOK
<1>2. /\ pc[r] \in WithChild <=> child[r] # None
      /\ pc[r] = "running" => tracked[r] = child[r]
      /\ tracked[r] # None <=> pc[r] \in Reaped \cup {"running"}
  BY DEF Inv, ChildOK, Unreaped, TrackOK
<1>3. /\ pc'[r] = "running" => tracked'[r] = child'[r]
      /\ tracked'[r] # None <=> pc'[r] \in Reaped \cup {"running"}
  <2>1. CASE Gate(r) \/ SpawnFails(r) \/ (\E p \in Pid : Spawn(r, p)) \/ Claim(r)
             \/ ClaimFails(r) \/ ClearCheck(r) \/ Unlink(r)
    <3>1. /\ pc[r] \notin Reaped \cup {"running"} /\ pc'[r] \notin Reaped \cup {"running"}
          /\ tracked' = tracked
      BY <1>1, <2>1 DEF Claim, Goto, Gate, SpawnFails, Spawn, Create, WriteBody, ReadBody, Judge,
                        Reread, Remove, Reap, ClaimFails, ClearCheck, Unlink, Reaped
    <3>2. QED
      BY <1>2, <3>1
  <2>2. CASE Track(r) \/ Wait(r) \/ GroupCheck(r) \/ GroupKill(r) \/ Teardown(r) \/ Crash(r)
    BY <1>1, <1>2, <2>2 DEF Goto, Track, Wait, GroupCheck, GroupKill, Teardown, Crash, Reaped,
                            WithChild
  <2>3. CASE Forward(r)
    BY <1>2, <2>3 DEF Forward
  <2>4. QED
    BY <2>1, <2>2, <2>3 DEF Run
<1>4. ASSUME NEW q \in Runner, q # r
      PROVE  /\ pc'[q] = "running" => tracked'[q] = child'[q]
             /\ tracked'[q] # None <=> pc'[q] \in Reaped \cup {"running"}
  BY <1>4, RunFrame DEF Inv, TrackOK
<1>5. QED
  BY <1>3, <1>4 DEF TrackOK

\* The processes of a group only go, and with them the pid of the leader.
LEMMA ShrinkKeepsGroup ==
  ASSUME Inv, NEW r \in Runner,
         \A q \in Pid : /\ proc'[q].kin = proc[q].kin /\ proc'[q].group = proc[q].group
                        /\ proc'[q].state # "free" => proc[q].state # "free"
                        /\ proc'[q].state = "live" => proc[q].state = "live",
         tracked'[r] = tracked[r],
         pc'[r] \in Reaped => pc[r] \in Reaped,
         pc'[r] = "teardown" => pc[r] = "teardown" \/ Group(r) = {}
  PROVE  GroupSettled(r)'
<1>1. pc[r] \in Reaped => tracked[r].pid \in Pid
  BY DEF Inv, TypeOK, TrackOK, Process
<1>2. GroupSettled(r)
  BY DEF Inv, GroupOK
<1>3. Group(r)' \subseteq Group(r)
  BY DEF Group
<1>4. pc[r] \in Reaped /\ Alive(tracked[r].pid)' => Alive(tracked[r].pid)
  BY <1>1 DEF Alive
<1>5. QED
  BY <1>2, <1>3, <1>4 DEF GroupSettled, Alive

\* A process starts: it takes no pid that names a group, and joins a group only if there
\* is one.
LEMMA StartKeepsGroup ==
  ASSUME Inv, NEW p \in Pid, NEW k \in Runner \cup {None}, NEW g \in Pid,
         clock < MaxStarts, Unused(p), proc' = Started(p, k, g),
         NEW r \in Runner, tracked'[r] = tracked[r],
         pc'[r] \in Reaped => pc'[r] = pc[r] /\ (k = r /\ g = tracked[r].pid => Group(r) # {})
  PROVE  GroupSettled(r)'
<1> SUFFICES ASSUME pc'[r] \in Reaped
             PROVE  /\ Alive(tracked[r].pid)' => Group(r)' = {}
                    /\ pc[r] = "teardown" => Group(r)' = {}
  BY DEF GroupSettled, Alive
<1> DEFINE t == tracked[r].pid
<1>1. pc[r] \in Reaped /\ t \in Pid
  BY DEF Inv, TypeOK, TrackOK, Process
<1>2. (Alive(t) => Group(r) = {}) /\ (pc[r] = "teardown" => Group(r) = {})
  BY <1>1 DEF Inv, GroupOK, GroupSettled
<1>3. /\ proc'[p].kin = k /\ proc'[p].group = g /\ \A q \in Pid : q # p => proc'[q] = proc[q]
  BY StartedFresh
<1>4. ~Alive(p) /\ \A q \in Pid : Alive(q) => proc[q].group # p
  BY DEF Unused, Members
<1>5. \A q \in Group(r) : Alive(q) /\ proc[q].group = t /\ q \in Pid
  BY DEF Group, Alive
<1>6. Group(r)' # {} => Group(r) # {}
  <2>1. ASSUME NEW q \in Group(r)' PROVE Group(r) # {}
    <3>1. q \in Pid /\ proc'[q].kin = r /\ proc'[q].group = t /\ proc'[q].state = "live"
      BY <2>1 DEF Group
    <3>2. CASE q = p
      BY <1>3, <3>1, <3>2
    <3>3. CASE q # p
      BY <1>3, <3>1, <3>3 DEF Group
    <3>4. QED
      BY <3>2, <3>3
  <2>2. QED
    BY <2>1
<1>7. CASE Group(r) = {}
  BY <1>6, <1>7
<1>8. CASE Group(r) # {}
  <2>1. t # p /\ ~Alive(t)
    BY <1>2, <1>4, <1>5, <1>8
  <2>2. ~Alive(t)'
    BY <1>1, <1>3, <2>1 DEF Alive
  <2>3. QED
    BY <1>2, <1>8, <2>2 DEF Alive
<1>9. QED
  BY <1>7, <1>8

LEMMA RunKeepsGroup ==
  ASSUME Inv, NEW r \in Runner, Run(r)
  PROVE  GroupOK'
<1>1. /\ pc \in [Runner -> Labels] /\ child \in [Runner -> Process \cup {None}]
      /\ tracked \in [Runner -> Process \cup {None}]
  BY DEF Inv, TypeOK
<1>2. CASE \E p \in Pid : Spawn(r, p)
  <2>1. PICK p \in Pid : Spawn(r, p)
    BY <1>2
  <2>2. /\ pc'[r] \notin Reaped /\ tracked' = tracked /\ Unused(p) /\ clock < MaxStarts
        /\ proc' = Started(p, r, p)
    BY <1>1, <2>1 DEF Spawn, Goto, Reaped
  <2>3. \A q \in Runner : pc'[q] \in Reaped => pc'[q] = pc[q] /\ q # r
    BY <2>2, RunFrame
  <2>4. \A q \in Runner : GroupSettled(q)'
    BY <2>2, <2>3, StartKeepsGroup
  <2>5. QED
    BY <2>4 DEF GroupOK
<1>3. CASE ~\E p \in Pid : Spawn(r, p)
  <2> DEFINE Less == \A q \in Pid :
               /\ proc'[q].kin = proc[q].kin /\ proc'[q].group = proc[q].group
               /\ proc'[q].state # "free" => proc[q].state # "free"
               /\ proc'[q].state = "live" => proc[q].state = "live"
  <2>1. pc[r] \in WithChild => child[r].pid \in Pid
    BY <1>1 DEF Inv, ChildOK, Unreaped, Process
  <2>2. tracked[r] # None => tracked[r].pid \in Pid
    BY <1>1 DEF Process
  <2>3. Less
    <3>1. CASE Reap(r) \/ Wait(r)
      <4>1. child[r].pid \in Pid /\ proc' = Free(child[r].pid)
        BY <2>1, <3>1 DEF Reap, Wait, WithChild
      <4>2. QED
        BY <4>1, FreeKeeps
    <3>2. CASE Crash(r)
      <4>1. proc' = proc \/ (child[r].pid \in Pid /\ proc' = Free(child[r].pid))
        BY <2>1, <3>2 DEF Crash, Inv, ChildOK
      <4>2. QED
        BY <4>1, FreeKeeps
    <3>3. CASE GroupKill(r)
      BY <3>3, EndedKeeps DEF GroupKill, Members
    <3>4. CASE Forward(r)
      <4>1. PICK S \in SUBSET Pid : (\A p \in S : proc[p].state = "live") /\ proc' = Ended(S)
        BY <2>2, <3>4 DEF Forward
      <4>2. QED
        BY <4>1, EndedKeeps
    <3>5. CASE ~(Reap(r) \/ Wait(r) \/ Crash(r) \/ GroupKill(r) \/ Forward(r))
      <4>1. proc' = proc
        BY <1>3, <3>5 DEF Run, Claim, Gate, SpawnFails, Create, WriteBody, ReadBody, Judge, Reread,
                          Remove, ClaimFails, Track, GroupCheck, Teardown, ClearCheck, Unlink
      <4>2. QED
        BY <4>1
    <3>6. QED
      BY <3>1, <3>2, <3>3, <3>4, <3>5
  <2>4. GroupSettled(r)'
    <3>1. CASE Wait(r)
      <4>1. pc[r] = "running" /\ pc'[r] = "group" /\ tracked' = tracked
        BY <1>1, <3>1 DEF Wait, Goto
      <4>2. tracked[r] = child[r] /\ child[r].pid \in Pid /\ proc' = Free(child[r].pid)
        BY <2>1, <3>1, <4>1 DEF Inv, TrackOK, WithChild, Wait
      <4>3. proc'[tracked'[r].pid].state = "free"
        BY <4>1, <4>2, FreeKeeps
      <4>4. QED
        BY <4>1, <4>3 DEF GroupSettled, Alive
    <3>2. CASE GroupCheck(r)
      <4>1. /\ pc[r] = "group" /\ pc'[r] \in Reaped /\ tracked' = tracked /\ proc' = proc
            /\ pc'[r] = "teardown" => Alive(tracked[r].pid)
        BY <1>1, <3>2 DEF GroupCheck, Goto, Reaped, Recycled
      <4>2. pc'[r] = "teardown" => Group(r) = {}
        BY <4>1 DEF Inv, GroupOK, GroupSettled, Reaped
      <4>3. pc[r] \in Reaped
        BY <4>1 DEF Reaped
      <4>4. QED
        BY <2>3, <4>1, <4>2, <4>3, ShrinkKeepsGroup
    <3>3. CASE GroupKill(r)
      <4> DEFINE S == {p \in Members(tracked[r].pid) : proc[p].state = "live"}
      <4>1. pc'[r] = "teardown" /\ tracked' = tracked /\ proc' = Ended(S)
        BY <1>1, <3>3 DEF GroupKill, Goto
      <4>2. S \in SUBSET Pid /\ \A p \in S : proc[p].state = "live"
        BY DEF Members
      <4>3. \A q \in Pid : /\ proc'[q].kin = proc[q].kin /\ proc'[q].group = proc[q].group
                           /\ proc'[q].state = "live" => proc[q].state = "live" /\ q \notin S
        <5> HIDE DEF S
        <5>1. QED
          BY <4>1, <4>2, EndedKeeps
      <4>4. Group(r)' = {}
        BY <4>1, <4>3 DEF Group, Members, Alive
      <4>5. QED
        BY <4>4 DEF GroupSettled
    <3>4. CASE Forward(r)
      BY <2>3, <3>4, ShrinkKeepsGroup DEF Forward
    <3>5. CASE ~(Wait(r) \/ GroupCheck(r) \/ GroupKill(r) \/ Forward(r))
      <4>1. pc'[r] \notin Reaped
        BY <1>1, <1>3, <3>5
           DEF Run, Claim, Goto, Gate, SpawnFails, Create, WriteBody, ReadBody, Judge, Reread,
               Remove, Reap, ClaimFails, Track, Teardown, ClearCheck, Unlink, Crash, Reaped
      <4>2. QED
        BY <4>1 DEF GroupSettled
    <3>6. QED
      BY <3>1, <3>2, <3>3, <3>4, <3>5
  <2>5. ASSUME NEW q \in Runner, q # r
        PROVE  GroupSettled(q)'
    <3>1. pc'[q] = pc[q] /\ tracked'[q] = tracked[q]
      BY <2>5, RunFrame
    <3>2. QED
      BY <2>3, <3>1, ShrinkKeepsGroup
  <2>6. QED
    BY <2>4, <2>5 DEF GroupOK
<1>4. QED
  BY <1>2, <1>3

\* The steps of drop, of the processes themselves and of the kernel.
LEMMA OthersKeepInv ==
  ASSUME Inv, \/ Drop \/ \E p \in Pid : Exit(p) \/ Recycle(p)
              \/ \E p, q \in Pid : Background(p, q)
  PROVE  Inv'
<1>0. TypeOK'
  BY OtherTypes
<1>1. UNCHANGED <<pc, child, tracked>>
  BY DEF Drop, DropCheck, DropTerm, DropPoll, DropKill, Exit, Recycle, Background
<1>2. TrackOK'
  BY <1>1 DEF Inv, TrackOK
<1>3. CASE DropCheck \/ DropPoll
  <2>1. proc' = proc /\ clock' = clock /\ file' = file
    BY <1>3 DEF DropCheck, DropPoll
  <2>2. ChildOK' /\ NamesOK'
    BY <1>0, <1>1, <2>1, QuietStep
  <2>3. GroupOK'
    BY <1>1, <2>1 DEF Inv, GroupOK, GroupSettled, Group, Alive
  <2>4. QED
    BY <1>0, <1>2, <2>2, <2>3 DEF Inv
<1>4. CASE DropTerm \/ DropKill \/ \E p \in Pid : Exit(p)
  <2>1. drop.at # "idle" => drop.who.pid \in Pid
    BY DEF Inv, TypeOK, Process
  <2>2. \/ proc' = proc
        \/ \E p \in Pid : proc[p].state = "live" /\ proc' = Ended({p})
    BY <1>4, <2>1 DEF DropTerm, DropKill, Exit
  <2>3. clock' = clock /\ file' = file
    BY <1>4 DEF DropTerm, DropKill, Exit
  <2>4. CASE proc' = proc
    <3>1. ChildOK' /\ NamesOK'
      BY <1>0, <1>1, <2>3, <2>4, QuietStep
    <3>2. GroupOK'
      BY <1>1, <2>4 DEF Inv, GroupOK, GroupSettled, Group, Alive
    <3>3. QED
      BY <1>0, <1>2, <3>1, <3>2 DEF Inv
  <2>5. CASE \E p \in Pid : proc[p].state = "live" /\ proc' = Ended({p})
    <3>1. PICK S \in SUBSET Pid : (\A p \in S : proc[p].state = "live") /\ proc' = Ended(S)
      BY <2>5
    <3>2. ChildOK' /\ NamesOK'
      BY <1>0, <1>1, <2>3, <3>1, EndStep
    <3>3. \A r \in Runner : GroupSettled(r)'
      BY <1>1, <3>1, EndedKeeps, ShrinkKeepsGroup
    <3>4. QED
      BY <1>0, <1>2, <3>2, <3>3 DEF Inv, GroupOK
  <2>6. QED
    BY <2>2, <2>4, <2>5
<1>5. CASE \E p \in Pid : Recycle(p)
  <2>1. PICK p \in Pid : Recycle(p)
    BY <1>5
  <2>2. /\ Unused(p) /\ proc[p].state = "free" /\ clock < MaxStarts
        /\ proc' = Started(p, None, p) /\ clock' = clock + 1 /\ file' = file
    BY <2>1 DEF Recycle, Unused, Alive
  <2>3. ChildOK' /\ NamesOK'
    BY <1>0, <1>1, <2>2, StartStep
  <2>4. \A r \in Runner : GroupSettled(r)'
    BY <1>1, <2>2, StartKeepsGroup, NamesAssumption
  <2>5. QED
    BY <1>0, <1>2, <2>3, <2>4 DEF Inv, GroupOK
<1>6. CASE \E p, q \in Pid : Background(p, q)
  <2>1. PICK p \in Pid, q \in Pid : Background(p, q)
    BY <1>6
  <2>2. proc[p].kin \in Runner \cup {None} /\ proc[p].group \in Pid
    BY DEF Inv, TypeOK, Slot
  <2>3. /\ Unused(q) /\ proc[q].state = "free" /\ clock < MaxStarts
        /\ proc' = Started(q, proc[p].kin, proc[p].group) /\ clock' = clock + 1 /\ file' = file
    BY <2>1 DEF Background, Unused, Alive
  <2>4. ChildOK' /\ NamesOK'
    BY <1>0, <1>1, <2>2, <2>3, StartStep
  <2>5. \A r \in Runner :
          proc[p].kin = r /\ proc[p].group = tracked[r].pid => p \in Group(r)
    BY <2>1 DEF Background, Group
  <2>6. \A r \in Runner : GroupSettled(r)'
    BY <1>1, <2>2, <2>3, <2>5, StartKeepsGroup
  <2>7. QED
    BY <1>0, <1>2, <2>4, <2>6 DEF Inv, GroupOK
<1>7. QED
  BY <1>3, <1>4, <1>5, <1>6 DEF Drop

LEMMA StepKeepsInv == Inv /\ [Next]_vars => Inv'
<1> SUFFICES ASSUME Inv, [Next]_vars PROVE Inv'
  OBVIOUS
<1>1. CASE \E r \in Runner : Run(r)
  BY <1>1, RunTypes, RunKeepsChild, RunKeepsTrack, RunKeepsGroup DEF Inv
<1>2. CASE Drop \/ (\E p \in Pid : Exit(p) \/ Recycle(p)) \/ \E p, q \in Pid : Background(p, q)
  BY <1>2, OthersKeepInv
<1>3. CASE UNCHANGED vars
  BY <1>3 DEF vars, Inv, TypeOK, ChildOK, TrackOK, NamesOK, GroupOK, GroupSettled, Group, Unreaped,
              Reported, Alive
<1>4. QED
  BY <1>1, <1>2, <1>3 DEF Next

\* Every reachable state is well typed, a run's child keeps its pid until it is
\* waited for, and what the pidfile names is gone or was spawned by a run.
THEOREM Invariance == Spec => []Inv
<1>1. Init => Inv
  BY InitInv
<1>2. Inv /\ [Next]_vars => Inv'
  BY StepKeepsInv
<1>3. QED
  BY <1>1, <1>2, PTL DEF Spec

\* state.rs:318-321, for any number of runs, pids and crashes: a process taken for the
\* running one was spawned by a run of this worktree.
THEOREM RunningIsNeverAStranger == Spec => []RunningIsOurs
<1>1. Inv => RunningIsOurs
  BY DEF Inv, NamesOK, RunningIsOurs, Running, Reported
<1>2. QED
  BY <1>1, Invariance, PTL

\* mod.rs:119-123, for any number of runs and pids, whatever is killed and whatever pid
\* is given to whom: when a run unmounts, what its child left in its group is dead.
THEOREM NobodyHolds == Spec => []NobodyHoldsTheMount
<1>1. Inv => NobodyHoldsTheMount
  BY DEF Inv, GroupOK, GroupSettled, NobodyHoldsTheMount, Reaped
<1>2. QED
  BY <1>1, Invariance, PTL

-----------------------------------------------------------------------------
(* Somebody wins                                                           *)

\* A pid that is in use was in use by the same process, or by one as young as the clock.
LEMMA YoungOnes ==
  ASSUME Inv, [Next]_vars
  PROVE  /\ clock <= clock'
         /\ \A q \in Pid : proc'[q].state # "free" =>
              \/ proc[q].state # "free" /\ proc'[q].start = proc[q].start
              \/ proc'[q].start > clock
<1>0. clock \in Nat
  BY BoundsAssumption DEF Inv, TypeOK
<1>1. CASE proc' = proc /\ clock' = clock
  BY <1>0, <1>1
<1>2. ASSUME NEW S \in SUBSET Pid, \A p \in S : proc[p].state = "live", proc' = Ended(S), clock' = clock
      PROVE  /\ clock <= clock'
             /\ \A q \in Pid : proc'[q].state # "free" =>
                  proc[q].state # "free" /\ proc'[q].start = proc[q].start
  BY <1>0, <1>2, EndedKeeps
<1>3. ASSUME NEW p \in Pid, proc' = Free(p), clock' = clock
      PROVE  /\ clock <= clock'
             /\ \A q \in Pid : proc'[q].state # "free" =>
                  proc[q].state # "free" /\ proc'[q].start = proc[q].start
  BY <1>0, <1>3, FreeKeeps
<1>4. ASSUME NEW p \in Pid, NEW k \in Runner \cup {None}, NEW g \in Pid, clock < MaxStarts,
             proc' = Started(p, k, g), clock' = clock + 1
      PROVE  /\ clock <= clock'
             /\ \A q \in Pid : proc'[q].state # "free" =>
                  \/ proc[q].state # "free" /\ proc'[q].start = proc[q].start
                  \/ proc'[q].start > clock
  <2>1. proc'[p].start = clock + 1 /\ \A q \in Pid : q # p => proc'[q] = proc[q]
    BY <1>4, StartedFresh
  <2>2. QED
    BY <1>0, <1>4, <2>1
<1>5. ASSUME NEW r \in Runner, Run(r)
      PROVE  \/ proc' = proc /\ clock' = clock
             \/ \E p \in Pid : proc' = Free(p) /\ clock' = clock
             \/ \E S \in SUBSET Pid : /\ \A p \in S : proc[p].state = "live"
                                      /\ proc' = Ended(S) /\ clock' = clock
             \/ \E p \in Pid : clock < MaxStarts /\ proc' = Started(p, r, p) /\ clock' = clock + 1
  <2>1. pc[r] \in WithChild => child[r].pid \in Pid
    BY DEF Inv, ChildOK, Unreaped, TypeOK, Process
  <2>2. child[r] # None => child[r].pid \in Pid
    BY DEF Inv, TypeOK, Process
  <2>3. tracked[r] # None => tracked[r].pid \in Pid
    BY DEF Inv, TypeOK, Process
  <2>4. CASE Reap(r) \/ Wait(r) \/ Crash(r)
    BY <2>1, <2>2, <2>4 DEF Reap, Wait, Crash, WithChild, Unreaped
  <2>5. CASE GroupKill(r)
    <3> DEFINE S == {p \in Members(tracked[r].pid) : proc[p].state = "live"}
    <3>1. S \in SUBSET Pid /\ \A p \in S : proc[p].state = "live"
      BY DEF Members
    <3>2. proc' = Ended(S) /\ clock' = clock
      BY <2>5 DEF GroupKill
    <3> HIDE DEF S
    <3>3. QED
      BY <3>1, <3>2
  <2>6. CASE Forward(r)
    BY <2>3, <2>6 DEF Forward
  <2>7. CASE \E p \in Pid : Spawn(r, p)
    BY <2>7 DEF Spawn
  <2>8. QED
    BY <1>5, <2>4, <2>5, <2>6, <2>7 DEF Run, Claim, Gate, SpawnFails, Create, WriteBody, ReadBody, Judge,
       Reread, Remove, ClaimFails, Track, GroupCheck, Teardown, ClearCheck, Unlink
<1>6. ASSUME Drop \/ \E p \in Pid : Exit(p)
      PROVE  \/ proc' = proc /\ clock' = clock
             \/ \E S \in SUBSET Pid : /\ \A p \in S : proc[p].state = "live"
                                      /\ proc' = Ended(S) /\ clock' = clock
  <2>1. drop.at # "idle" => drop.who.pid \in Pid
    BY DEF Inv, TypeOK, Process
  <2>2. CASE DropCheck \/ DropPoll
    BY <2>2 DEF DropCheck, DropPoll
  <2>3. CASE DropTerm \/ DropKill \/ \E p \in Pid : Exit(p)
    <3>1. clock' = clock
      BY <2>3 DEF DropTerm, DropKill, Exit
    <3>2. \/ proc' = proc
          \/ \E p \in Pid : proc[p].state = "live" /\ proc' = Ended({p})
      BY <2>1, <2>3 DEF DropTerm, DropKill, Exit
    <3>3. CASE proc' = proc
      BY <3>1, <3>3
    <3>4. CASE \E p \in Pid : proc[p].state = "live" /\ proc' = Ended({p})
      <4>1. PICK S \in SUBSET Pid : (\A p \in S : proc[p].state = "live") /\ proc' = Ended(S)
        BY <3>4
      <4>2. QED
        BY <3>1, <4>1
    <3>5. QED
      BY <3>2, <3>3, <3>4
  <2>4. QED
    BY <1>6, <2>2, <2>3 DEF Drop
<1>7. ASSUME \E p \in Pid : Recycle(p) \/ \E q \in Pid : Background(p, q)
      PROVE  \E p \in Pid, k \in Runner \cup {None}, g \in Pid :
               clock < MaxStarts /\ proc' = Started(p, k, g) /\ clock' = clock + 1
  <2>1. \A p \in Pid : proc[p].kin \in Runner \cup {None} /\ proc[p].group \in Pid
    BY DEF Inv, TypeOK, Slot
  <2>2. QED
    BY <1>7, <2>1 DEF Recycle, Background
<1>8. CASE UNCHANGED vars
  BY <1>1, <1>8 DEF vars
<1>9. CASE \E r \in Runner : Run(r)
  BY <1>1, <1>2, <1>3, <1>4, <1>5, <1>9
<1>10. CASE Drop \/ \E p \in Pid : Exit(p)
  BY <1>1, <1>2, <1>6, <1>10
<1>11. CASE \E p \in Pid : Recycle(p) \/ \E q \in Pid : Background(p, q)
  BY <1>4, <1>7, <1>11
<1>12. QED
  BY <1>8, <1>9, <1>10, <1>11 DEF Next

\* What a run has read of the file is what the file still says.
Minds(q) ==
  /\ pc[q] # "lost"
  /\ pc[q] \in {"judge", "reread"} => judged[q] = file.body

\* Nobody has judged a process younger than the clock.
JudgedOK == \A r \in Runner : judged[r] # Empty => judged[r].start <= clock

\* Whoever has made the file that is there does not lose by it: it has claimed it, or was
\* killed, and after that finds its own file stale.
CreatorOK ==
  file # None /\ file.by \in Runner =>
    /\ pc[file.by] = "body" => file.body = Empty
    /\ pc[file.by] \in {"track", "running"} => file.body = child[file.by]
    /\ Reported(file.body) => pc[file.by] \in {"track", "running", "idle"}
    /\ Minds(file.by)

\* Nobody loses by the file that was there at first.
LeftoverOK ==
  file # None /\ file.by = None =>
    ~Reported(file.body) /\ \A r \in Runner : Minds(r)

\* Without a file there is somebody who will not lose before a file is made.
Undecided(r) == pc[r] # "lost" /\ ~(pc[r] = "judge" /\ Reported(judged[r]))
DesertedOK == file = None => \E r \in Runner : Undecided(r)

Contest == JudgedOK /\ CreatorOK /\ LeftoverOK /\ DesertedOK

LEMMA ContestInit == Runner # {} /\ Init => Contest
<1> SUFFICES ASSUME Runner # {}, Init PROVE Contest
  OBVIOUS
<1>1. \A r \in Runner : pc[r] = "idle" /\ judged[r] = Empty
  BY DEF Init
<1>2. file # None => file.by = None /\ (file.body = Empty \/ file.body.start = 1)
  BY DEF Init
<1>3. None \notin Runner
  BY NamesAssumption
<1>4. file # None => ~Reported(file.body)
  <2>1. \A p \in Pid : proc[p].state # "free" => proc[p].start = 2
    BY DEF Init
  <2>2. file # None /\ file.body # Empty => file.body.pid \in Pid /\ file.body.start = 1
    BY DEF Init
  <2>3. QED
    BY <2>1, <2>2 DEF Reported, Alive
<1>5. QED
  BY <1>1, <1>2, <1>3, <1>4 DEF Contest, JudgedOK, CreatorOK, LeftoverOK, DesertedOK, Minds, Undecided

\* What the file names, once gone, is not reported again.
LEMMA GoneStaysGone ==
  ASSUME Inv, [Next]_vars, file # None, file' = file, Reported(file.body)'
  PROVE  Reported(file.body)
<1> DEFINE b == file.body
<1>1. b \in Process \cup {Empty} /\ (b # Empty => b.start <= clock) /\ clock \in Nat
  BY BoundsAssumption DEF Inv, TypeOK, File, NamesOK
<1>2. b # Empty /\ proc'[b.pid].state # "free" /\ proc'[b.pid].start = b.start
  BY DEF Reported, Alive
<1>3. b.pid \in Pid /\ b.start \in Nat
  BY <1>1, <1>2, BoundsAssumption DEF Process
<1>4. proc[b.pid].state # "free" /\ proc[b.pid].start = b.start
  BY <1>1, <1>2, <1>3, YoungOnes
<1>5. QED
  BY <1>2, <1>4 DEF Reported, Alive

\* Nobody dead is taken for running, by the file or by a run that has read it.
LEMMA ContestFrame ==
  ASSUME Inv, Contest, [Next]_vars
  PROVE  /\ clock <= clock' /\ clock \in Nat /\ clock' \in Nat
         /\ file # None => (Reported(file.body)' /\ file' = file => Reported(file.body))
         /\ \A r \in Runner : judged'[r] = judged[r] /\ Reported(judged[r])' => Reported(judged[r])
         /\ \A r \in Runner : judged[r] # Empty => judged[r].start \in Nat
         /\ file # None /\ file.body # Empty => file.body.start <= clock /\ file.body.start \in Nat
<1>1. clock <= clock' /\ clock \in Nat
  BY YoungOnes, BoundsAssumption DEF Inv, TypeOK
<1>2. clock' \in Nat
  <2>1. Inv'
    BY StepKeepsInv
  <2>2. QED
    BY <2>1, BoundsAssumption DEF Inv, TypeOK
<1>3. file # None => file.body \in Process \cup {Empty} /\ (file.body # Empty => file.body.start <= clock)
  BY DEF Inv, TypeOK, File, NamesOK
<1>4. ASSUME file # None, Reported(file.body)', file' = file PROVE Reported(file.body)
  BY <1>4, GoneStaysGone
<1>5. ASSUME NEW r \in Runner, judged'[r] = judged[r], Reported(judged[r])' PROVE Reported(judged[r])
  <2> DEFINE b == judged[r]
  <2>1. b \in Process \cup {Empty} /\ (b # Empty => b.start <= clock)
    BY DEF Inv, TypeOK, Contest, JudgedOK
  <2>2. b # Empty /\ proc'[b.pid].state # "free" /\ proc'[b.pid].start = b.start
    BY <1>5 DEF Reported, Alive
  <2>3. b.pid \in Pid /\ b.start \in Nat
    BY <2>1, <2>2, BoundsAssumption DEF Process
  <2>4. proc[b.pid].state # "free" /\ proc[b.pid].start = b.start
    BY <1>1, <2>1, <2>2, <2>3, YoungOnes
  <2>5. QED
    BY <2>2, <2>4 DEF Reported, Alive
<1>6. \A r \in Runner : judged[r] # Empty => judged[r].start \in Nat
  BY BoundsAssumption DEF Inv, TypeOK, Process
<1>7. file # None /\ file.body # Empty => file.body.start \in Nat
  BY <1>3, BoundsAssumption DEF Process
<1>8. QED
  BY <1>1, <1>2, <1>3, <1>4, <1>5, <1>6, <1>7

\* What goes on elsewhere, or in a run that neither reads nor writes the file, changes
\* nothing in the contest.
LEMMA ContestAway ==
  ASSUME Inv, Contest, [Next]_vars, file' = file, judged' = judged,
         \A q \in Runner :
           /\ child'[q] = child[q] \/ pc'[q] \notin {"track", "running"}
           /\ \/ pc'[q] = pc[q]
              \/ pc[q] = "track" /\ pc'[q] = "running"
              \/ /\ pc'[q] \notin {"body", "track", "running", "judge", "reread", "lost"}
                 /\ \/ pc[q] \notin {"track", "running", "idle"} \/ pc'[q] = "idle"
                    \/ file # None /\ file.by = q => ~Reported(file.body)'
  PROVE  Contest'
<1> USE ContestFrame
<1>1. JudgedOK'
  BY DEF Contest, JudgedOK
<1>2. ASSUME NEW q \in Runner, Minds(q) PROVE Minds(q)'
  BY <1>2 DEF Minds
<1>3. CreatorOK'
  BY <1>2 DEF Contest, CreatorOK
<1>4. LeftoverOK'
  BY <1>2 DEF Contest, LeftoverOK
<1>5. DesertedOK'
  <2>1. ASSUME NEW q \in Runner, Undecided(q) PROVE Undecided(q)'
    BY <2>1 DEF Undecided
  <2>2. QED
    BY <2>1 DEF Contest, DesertedOK
<1>6. QED
  BY <1>1, <1>3, <1>4, <1>5 DEF Contest

LEMMA ContestRun ==
  ASSUME Inv, Contest, NEW r \in Runner, Run(r)
  PROVE  Contest'
<1>0. [Next]_vars
  BY DEF Next
<1>1. /\ pc \in [Runner -> Labels] /\ child \in [Runner -> Process \cup {None}]
      /\ judged \in [Runner -> Process \cup {Empty}] /\ file \in File \cup {None}
      /\ None \notin Runner
      /\ pc[r] \in WithChild <=> child[r] # None
  BY NamesAssumption DEF Inv, TypeOK, ChildOK, Unreaped
<1>2. \A q \in Runner : q # r => pc'[q] = pc[q] /\ child'[q] = child[q]
  BY RunFrame
<1>3. \A q \in Runner : q # r => judged'[q] = judged[q]
  BY <1>1 DEF Run, Claim, Gate, SpawnFails, Spawn, Create, WriteBody, ReadBody, Judge, Reread, Remove, Reap,
     ClaimFails, Track, Wait, GroupCheck, GroupKill, Teardown, Forward, ClearCheck, Unlink, Crash
<1>4. CASE SpawnFails(r) \/ ClaimFails(r) \/ GroupCheck(r) \/ GroupKill(r) \/ Teardown(r)
           \/ ClearCheck(r) \/ Reap(r) \/ Crash(r) \/ \E p \in Pid : Spawn(r, p)
  <2>1. /\ file' = file /\ judged' = judged
        /\ pc'[r] \notin {"body", "track", "running", "judge", "reread", "lost"}
        /\ pc[r] \notin {"track", "running", "idle"} \/ pc'[r] = "idle"
    BY <1>1, <1>4 DEF SpawnFails, Spawn, ClaimFails, GroupCheck, GroupKill, Teardown, ClearCheck, Reap,
       Crash, Goto
  <2>2. QED
    BY <1>0, <1>2, <2>1, ContestAway
<1>5. CASE Gate(r)
  <2>1. /\ file' = file /\ judged' = judged /\ proc' = proc /\ pc'[r] = "spawn"
        /\ file # None => ~Reported(file.body)
    BY <1>1, <1>5 DEF Gate, Goto, Running
  <2>2. file # None => ~Reported(file.body)'
    BY <2>1 DEF Reported, Alive
  <2>3. QED
    BY <1>0, <1>2, <2>1, <2>2, ContestAway
<1>6. CASE Wait(r)
  <2>1. /\ file' = file /\ judged' = judged /\ pc[r] = "running" /\ pc'[r] = "group"
        /\ proc' = Free(child[r].pid) /\ child[r].pid \in Pid
    BY <1>1, <1>6 DEF Wait, Goto, WithChild, Process
  <2>2. proc'[child[r].pid].state = "free"
    BY <2>1, FreeKeeps
  <2>3. file # None /\ file.by = r => ~Reported(file.body)'
    BY <2>1, <2>2 DEF Contest, CreatorOK, Reported, Alive
  <2>4. QED
    BY <1>0, <1>2, <2>1, <2>3, ContestAway
<1>7. CASE Track(r) \/ Forward(r)
  <2>1. /\ file' = file /\ judged' = judged /\ child' = child
        /\ pc'[r] = pc[r] \/ (pc[r] = "track" /\ pc'[r] = "running")
    BY <1>1, <1>7 DEF Track, Forward, Goto
  <2>2. QED
    BY <1>0, <1>2, <2>1, ContestAway
<1>8. CASE Create(r) /\ file = None
  <2>1. file' = [by |-> r, body |-> Empty] /\ pc'[r] = "body" /\ judged' = judged
    BY <1>1, <1>8 DEF Create, Goto
  <2>2. file' # None /\ file'.by = r /\ file'.body = Empty
    <3>1. [by |-> r, body |-> Empty] \in [by : Runner, body : [pid : Pid, start : Nat] \cup {Empty}]
      OBVIOUS
    <3>2. QED
      BY <2>1, <3>1, NamesAssumption
  <2>3. JudgedOK'
    BY <1>0, <2>1, ContestFrame DEF Contest, JudgedOK
  <2>4. CreatorOK'
    BY <2>1, <2>2 DEF CreatorOK, Minds, Reported
  <2>5. QED
    BY <1>1, <2>2, <2>3, <2>4 DEF Contest, LeftoverOK, DesertedOK
<1>9. CASE Create(r) /\ file # None
  <2>1. /\ file' = file /\ judged' = judged /\ child' = child /\ proc' = proc
        /\ pc[r] = "create" /\ pc'[r] = "read"
    BY <1>1, <1>9 DEF Create, Goto
  <2>2. QED
    BY <1>0, <1>2, <2>1, ContestAway
<1>10. CASE WriteBody(r)
  <2>1. /\ judged' = judged /\ child' = child /\ proc' = proc /\ clock' = clock
        /\ pc[r] = "body" /\ pc'[r] = "track"
    BY <1>1, <1>10 DEF WriteBody, Goto
  <2>2. JudgedOK'
    BY <2>1 DEF Contest, JudgedOK
  <2>3. CASE file # None /\ file.by = r
    <3>1. file' # None /\ file'.by = r /\ file'.body = child[r]
      <4>1. file' = [file EXCEPT !.body = child[r]] /\ file \in File /\ child[r] \in Process
        BY <1>1, <1>10, <2>1, <2>3 DEF WriteBody, WithChild
      <4>2. file'.by = r /\ file'.body = child[r] /\ file' = [by |-> r, body |-> child[r]]
        <5>1. file = [by |-> file.by, body |-> file.body]
          BY <4>1 DEF File
        <5>2. QED
          BY <2>3, <4>1, <5>1
      <4>3. file' \in [by : Runner, body : [pid : Pid, start : Nat] \cup {Empty}]
        <5>1. child[r] \in [pid : Pid, start : Nat]
          BY <4>1, BoundsAssumption DEF Process
        <5>2. QED
          BY <4>2, <5>1
      <4>4. QED
        BY <4>2, <4>3, NamesAssumption
    <3>2. CreatorOK'
      BY <2>1, <3>1 DEF CreatorOK, Minds
    <3>3. QED
      BY <1>1, <2>2, <3>1, <3>2 DEF Contest, LeftoverOK, DesertedOK
  <2>4. CASE ~(file # None /\ file.by = r)
    <3>1. file' = file
      BY <1>10, <2>4 DEF WriteBody
    <3>2. CreatorOK'
      BY <1>2, <1>3, <2>1, <2>4, <3>1 DEF Contest, CreatorOK, Minds, Reported, Alive
    <3>3. LeftoverOK'
      BY <1>2, <2>1, <3>1 DEF Contest, LeftoverOK, Minds, Reported, Alive
    <3>4. DesertedOK'
      BY <1>2, <2>1, <3>1 DEF Contest, DesertedOK, Undecided, Reported, Alive
    <3>5. QED
      BY <2>2, <3>2, <3>3, <3>4 DEF Contest
  <2>5. QED
    BY <2>3, <2>4
<1>11. CASE ReadBody(r)
  <2>1. /\ file' = file /\ child' = child /\ proc' = proc /\ clock' = clock
        /\ pc[r] = "read" /\ pc'[r] = "judge"
        /\ judged'[r] = IF file = None THEN Empty ELSE file.body
    BY <1>1, <1>11 DEF ReadBody, Goto
  <2>2. JudgedOK'
    BY <1>3, <2>1 DEF Contest, JudgedOK, Inv, NamesOK
  <2>3. CreatorOK'
    BY <1>2, <1>3, <2>1 DEF Contest, CreatorOK, Minds, Reported, Alive
  <2>4. LeftoverOK'
    BY <1>2, <1>3, <2>1 DEF Contest, LeftoverOK, Minds, Reported, Alive
  <2>5. DesertedOK'
    <3>1. file = None => Undecided(r)'
      BY <2>1 DEF Undecided, Reported
    <3>2. QED
      BY <2>1, <3>1 DEF DesertedOK
  <2>6. QED
    BY <2>2, <2>3, <2>4, <2>5 DEF Contest
<1>12. CASE Judge(r)
  <2>1. /\ file' = file /\ child' = child /\ proc' = proc /\ clock' = clock /\ judged' = judged
        /\ pc[r] = "judge" /\ pc'[r] = IF Reported(judged[r]) THEN "lost" ELSE "reread"
    BY <1>1, <1>12 DEF Judge, Goto
  <2>2. JudgedOK'
    BY <2>1 DEF Contest, JudgedOK
  <2>3. CreatorOK'
    BY <1>2, <2>1 DEF Contest, CreatorOK, Minds, Reported, Alive
  <2>4. LeftoverOK'
    BY <1>2, <2>1 DEF Contest, LeftoverOK, Minds, Reported, Alive
  <2>5. DesertedOK'
    BY <1>2, <2>1 DEF Contest, DesertedOK, Undecided, Reported, Alive
  <2>6. QED
    BY <2>2, <2>3, <2>4, <2>5 DEF Contest
<1>13. CASE Reread(r)
  <2>1. /\ file' = file /\ child' = child /\ proc' = proc /\ clock' = clock /\ judged' = judged
        /\ pc[r] = "reread"
        /\ pc'[r] = IF file # None /\ file.body # judged[r] THEN "lost" ELSE "remove"
    BY <1>1, <1>13 DEF Reread, Goto
  <2>2. JudgedOK'
    BY <2>1 DEF Contest, JudgedOK
  <2>3. CreatorOK'
    BY <1>2, <2>1 DEF Contest, CreatorOK, Minds, Reported, Alive
  <2>4. LeftoverOK'
    BY <1>2, <2>1 DEF Contest, LeftoverOK, Minds, Reported, Alive
  <2>5. DesertedOK'
    BY <1>2, <2>1 DEF Contest, DesertedOK, Undecided, Reported, Alive
  <2>6. QED
    BY <2>2, <2>3, <2>4, <2>5 DEF Contest
<1>14. CASE Remove(r) \/ Unlink(r)
  <2>1. /\ file' = None /\ clock' = clock /\ judged' = judged /\ pc'[r] \in {"create", "idle"}
    BY <1>1, <1>14 DEF Remove, Unlink, Goto
  <2>2. Undecided(r)'
    BY <2>1 DEF Undecided
  <2>3. QED
    BY <2>1, <2>2 DEF Contest, JudgedOK, CreatorOK, LeftoverOK, DesertedOK
<1>15. QED
  BY <1>4, <1>5, <1>6, <1>7, <1>8, <1>9, <1>10, <1>11, <1>12, <1>13, <1>14 DEF Run, Claim

LEMMA ContestNext == Inv /\ Contest /\ [Next]_vars => Contest'
<1> SUFFICES ASSUME Inv, Contest, [Next]_vars PROVE Contest'
  OBVIOUS
<1>1. CASE \E r \in Runner : Run(r)
  BY <1>1, ContestRun
<1>2. CASE Drop \/ (\E p \in Pid : Exit(p) \/ Recycle(p)) \/ (\E p, q \in Pid : Background(p, q))
           \/ UNCHANGED vars
  <2>1. UNCHANGED <<file, pc, child, judged>>
    BY <1>2 DEF Drop, DropCheck, DropTerm, DropPoll, DropKill, Exit, Recycle, Background, vars
  <2>2. QED
    BY <2>1, ContestAway
<1>3. QED
  BY <1>1, <1>2 DEF Next

\* mod.rs:358-361, for any number of runs, pids, kills and failed writes: among runs
\* that contend for the pidfile somebody does not lose.
THEOREM SomeoneAlwaysWins == ASSUME Runner # {} PROVE Spec => []SomeoneWins
<1>1. Contest /\ Inv => SomeoneWins
  <2> SUFFICES ASSUME Contest, Inv PROVE SomeoneWins
    OBVIOUS
  <2>1. file = None \/ file.by \in Runner \cup {None}
    BY DEF Inv, TypeOK, File
  <2>2. QED
    BY <2>1 DEF Contest, CreatorOK, LeftoverOK, DesertedOK, Minds, Undecided, SomeoneWins
<1>2. QED
  BY <1>1, ContestInit, ContestNext, Invariance, PTL DEF Spec

-----------------------------------------------------------------------------
(* A user who starts one run at a time                                     *)

\* All runs are those of one runner, who starts another when the one before has ended or
\* was killed; the child may still be there.
OneAtATime == \A r, q \in Runner : r = q

\* A run that has claimed the file is in it; one that is under way without has found
\* nobody running.
Recorded(r) ==
  /\ pc[r] = "body" => file # None /\ file.by = r
  /\ pc[r] \in {"track", "running"} => file # None /\ file.by = r /\ file.body = child[r]
  /\ pc[r] \notin {"idle", "track", "running"} => ~Running

Solo == \A r \in Runner : Recorded(r)

LEMMA SoloNext ==
  ASSUME OneAtATime, Inv, Solo, [Next]_vars
  PROVE  Solo'
<1>1. /\ pc \in [Runner -> Labels] /\ child \in [Runner -> Process \cup {None}]
      /\ file \in File \cup {None}
  BY DEF Inv, TypeOK
<1>2. file' = file /\ Running' => Running
  BY GoneStaysGone DEF Running
<1>3. ASSUME NEW r \in Runner, Run(r) PROVE Recorded(r)'
  <2>1. CASE SpawnFails(r) \/ ClaimFails(r) \/ GroupCheck(r) \/ GroupKill(r) \/ Teardown(r)
             \/ ClearCheck(r) \/ Reap(r) \/ Crash(r) \/ ReadBody(r) \/ Judge(r) \/ Reread(r)
             \/ \E p \in Pid : Spawn(r, p)
    <3>1. /\ file' = file /\ pc'[r] \notin {"body", "track", "running"}
          /\ pc'[r] = "idle" \/ pc[r] \notin {"idle", "track", "running"}
      BY <1>1, <2>1 DEF SpawnFails, Spawn, ClaimFails, GroupCheck, GroupKill, Teardown, ClearCheck, Reap,
         Crash, ReadBody, Judge, Reread, Goto
    <3>2. QED
      BY <1>2, <3>1 DEF Solo, Recorded
  <2>2. CASE Gate(r)
    <3>1. file' = file /\ pc'[r] = "spawn" /\ ~Running
      BY <1>1, <2>2 DEF Gate, Goto
    <3>2. QED
      BY <1>2, <3>1 DEF Recorded
  <2>3. CASE Wait(r)
    <3>1. /\ file' = file /\ pc[r] = "running" /\ pc'[r] = "group"
          /\ proc' = Free(child[r].pid) /\ child[r].pid \in Pid
      BY <1>1, <2>3 DEF Wait, Goto, Inv, ChildOK, Unreaped, WithChild, Process
    <3>2. file.body = child[r] /\ proc'[child[r].pid].state = "free"
      BY <3>1, FreeKeeps DEF Solo, Recorded
    <3>3. ~Running'
      BY <3>1, <3>2 DEF Running, Reported, Alive
    <3>4. QED
      BY <3>1, <3>3 DEF Recorded
  <2>4. CASE Track(r) \/ Forward(r)
    <3>1. /\ file' = file /\ child' = child
          /\ pc'[r] = pc[r] \/ (pc[r] = "track" /\ pc'[r] = "running")
      BY <1>1, <2>4 DEF Track, Forward, Goto
    <3>2. QED
      BY <1>2, <3>1 DEF Solo, Recorded
  <2>5. CASE Create(r)
    <3>1. CASE file # None
      <4>1. file' = file /\ pc[r] = "create" /\ pc'[r] = "read"
        BY <1>1, <2>5, <3>1 DEF Create, Goto
      <4>2. QED
        BY <1>2, <4>1 DEF Solo, Recorded
    <3>2. CASE file = None
      <4>1. file' = [by |-> r, body |-> Empty] /\ pc'[r] = "body"
        BY <1>1, <2>5, <3>2 DEF Create, Goto
      <4>2. file' # None /\ file'.by = r /\ file'.body = Empty
        <5>1. file' \in [by : Runner, body : [pid : Pid, start : Nat] \cup {Empty}]
          BY <4>1
        <5>2. QED
          BY <4>1, <5>1, NamesAssumption
      <4>3. QED
        BY <4>1, <4>2 DEF Recorded, Running, Reported
    <3>3. QED
      BY <3>1, <3>2
  <2>6. CASE WriteBody(r)
    <3>1. file # None /\ file.by = r
      BY <2>6 DEF WriteBody, Solo, Recorded
    <3>2. /\ file' = [by |-> r, body |-> child[r]] /\ child[r] \in Process
          /\ child' = child /\ pc'[r] = "track"
      <4>1. /\ file' = [file EXCEPT !.body = child[r]] /\ child' = child /\ pc'[r] = "track"
            /\ file \in File /\ child[r] \in Process
        BY <1>1, <2>6, <3>1 DEF WriteBody, Goto, Inv, ChildOK, Unreaped, WithChild
      <4>2. file = [by |-> r, body |-> file.body]
        BY <3>1, <4>1 DEF File
      <4>3. QED
        BY <4>1, <4>2
    <3>3. file' # None
      <4>1. child[r] \in [pid : Pid, start : Nat]
        BY <3>2, BoundsAssumption DEF Process
      <4>2. file' \in [by : Runner, body : [pid : Pid, start : Nat] \cup {Empty}]
        BY <3>2, <4>1
      <4>3. QED
        BY <4>2, NamesAssumption
    <3>4. QED
      BY <3>2, <3>3 DEF Recorded
  <2>7. CASE Remove(r) \/ Unlink(r)
    <3>1. file' = None /\ pc'[r] \in {"create", "idle"}
      BY <1>1, <2>7 DEF Remove, Unlink, Goto
    <3>2. QED
      BY <3>1 DEF Recorded, Running
  <2>8. QED
    BY <1>3, <2>1, <2>2, <2>3, <2>4, <2>5, <2>6, <2>7 DEF Run, Claim
<1>4. CASE Drop \/ (\E p \in Pid : Exit(p) \/ Recycle(p)) \/ (\E p, q \in Pid : Background(p, q))
           \/ UNCHANGED vars
  <2>1. UNCHANGED <<file, pc, child>>
    BY <1>4 DEF Drop, DropCheck, DropTerm, DropPoll, DropKill, Exit, Recycle, Background, vars
  <2>2. QED
    BY <1>2, <2>1 DEF Solo, Recorded
<1>5. CASE \E r \in Runner : Run(r)
  BY <1>3, <1>5 DEF Solo, OneAtATime
<1>6. QED
  BY <1>4, <1>5 DEF Next

LEMMA SoloAlways == ASSUME OneAtATime PROVE Spec => []Solo
<1>1. Init => Solo
  BY DEF Init, Solo, Recorded
<1>2. QED
  BY <1>1, SoloNext, Invariance, PTL DEF Spec

\* run.rs:24-30, for any pids, kills and failed writes: a run that was recorded and then
\* lost its parent keeps every later run of such a user out for as long as it lives.
THEOREM OrphanAlwaysKeepsOut == ASSUME OneAtATime PROVE Spec => []OrphanKeepsOut
<1>1. Solo => OrphanKeepsOut
  BY DEF Solo, Recorded, OrphanKeepsOut
<1>2. QED
  BY <1>1, SoloAlways, PTL

\* mod.rs:358-361: a run of such a user that waits for its child is recorded.
THEOREM RunIsAlwaysRecorded == ASSUME OneAtATime PROVE Spec => []RunIsRecorded
<1>1. Solo => RunIsRecorded
  BY DEF Solo, Recorded, RunIsRecorded
<1>2. QED
  BY <1>1, SoloAlways, PTL
=============================================================================
