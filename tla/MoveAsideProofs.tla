-------------------------- MODULE MoveAsideProofs --------------------------
(***************************************************************************)
(* The host directory is never deleted, for any number of runs, diffs and  *)
(* drops, of kills and of changes others make, on macOS and on Windows.    *)
(* For a user who waits for one command before giving another, it is also  *)
(* what a diff scans and what the commands of a worktree do not reach, no  *)
(* layer is emptied, and what others put at the target is left alone.      *)
(***************************************************************************)
EXTENDS MoveAside, TLAPS

\* What a search of the state root finds is a place; a trash is none of the
\* worktrees.
LEMMA Found ==
  /\ FindStateFor # None => FindStateFor \in Place
  /\ FindRealFor # None => FindRealFor \in Place
<1>1. \A S \in SUBSET Place : S # {} => First(S) \in S
  BY RankAssumption DEF First
<1>2. QED
  BY <1>1 DEF FindStateFor, FindRealFor, Place

\* Sorts that proofs by SMT do not see through the names.
LEMMA Sorts ==
  /\ \A r \in Run : r \in Proc /\ r \notin Drop /\ r \notin Diff
  /\ \A d \in Drop : d \in Proc /\ d \in Place /\ d \notin Worktree /\ d \notin Run /\ d \notin Diff
  /\ \A w \in Worktree : w \in Place
  /\ \A x \in Diff : x \in Proc
  /\ None \notin Proc
  BY SortAssumption DEF Proc, Place

\* A command that has started was given a worktree.
LEMMA Given ==
  ASSUME setup \in Setups, NEW p \in DOMAIN setup.of
  PROVE  Of(p) \in Worktree
  BY SetupAssumption DEF Of

\* The kinds of things at a path differ.
LEMMA Kinds ==
  /\ Nothing # Host /\ Empty # Host /\ Foreign # Host /\ Nothing # Empty
  /\ \A x : Link(x) # Host /\ Link(x) # Nothing /\ Link(x).kind = "link" /\ Link(x).of = x
  /\ ~IsLink(Host) /\ ~IsLink(Nothing) /\ ~IsLink(Empty)
  /\ Nothing.kind # "link" /\ Host.kind # "link" /\ Empty.kind # "link" /\ Foreign.kind # "link"
  BY DEF Nothing, Host, Empty, Foreign, Link, IsLink

\* The initial state: the host directory is at the target and there is no trash.
LEMMA InitInv == Init => Inv
<1> SUFFICES ASSUME Init PROVE Inv
  OBVIOUS
<1> USE Sorts, Kinds
<1>1. home \in [Place -> {Gone, Fresh("there")}]
  BY DEF Init
<1>2. \A d \in Drop : home[d] = Gone
  <2>1. \A d \in Drop : ~ \E q \in DOMAIN setup.of : setup.of[q] = d
    BY SetupAssumption DEF Init
  <2>2. QED
    BY <2>1 DEF Init
<1>3. TypeOK
  BY <1>1 DEF Init, TypeOK, Things, Gone, Fresh
<1>4. Control
  <2>1. \A p \in Proc : pc[p] = "idle"
    BY DEF Init
  <2>2. pc \in [Proc -> Labels]
    BY DEF Init, Labels
  <2>3. ret \in [Proc -> [ok : Continuations, err : Continuations]]
    BY DEF Init, Continuations
  <2>4. QED
    BY <2>1, <2>2, <2>3 DEF Control
<1>5. LinksLead
  BY <1>1 DEF Init, LinksLead, Gone, Fresh
<1>6. TrashIsEmpty
  <2>1. \A d \in Drop : pc[d] = "idle"
    BY DEF Init
  <2>2. \A d \in Drop : home[d].shape = "gone"
    BY <1>2 DEF Gone
  <2>3. QED
    BY <2>1, <2>2 DEF TrashIsEmpty
<1>7. HostKept
  BY DEF Init, HostKept
<1>8. QED
  BY <1>3, <1>4, <1>5, <1>6, <1>7 DEF Inv

-----------------------------------------------------------------------------
(* What a step does to the processes                                       *)

\* The variables other than the two that say where the host directory is.
Locals ==
  /\ Control
  /\ serving \subseteq Run
  /\ kid \in [Run -> {"none", "live", "zombie", "gone"}]
  /\ to \in [Proc -> Place \cup {None}]
  /\ swept \in [Drop -> Drop \cup {None}]

\* A drop past its rename does not go back, and it goes to a deletion only from
\* a look at the trash.
DropsGoOn ==
  \A d \in Drop :
    /\ pc[d] \in AfterRename => pc'[d] \in AfterRename
    /\ pc'[d] = "remove" => pc[d] = "remove" \/ home[d].real = Nothing
    /\ pc'[d] = "delete" =>
         \/ pc[d] = "delete" /\ swept'[d] = swept[d]
         \/ /\ swept'[d] \in Drop
            /\ home[swept'[d]].shape # "gone" /\ home[swept'[d]].real = Nothing

\* A step of one command: where it goes on, and whom it serves.
LEMMA OneGoesOn ==
  ASSUME Inv, setup' = setup, NEW p \in Proc, NEW l \in Labels,
         l # "idle" => p \in DOMAIN setup.of,
         pc' = [pc EXCEPT ![p] = l],
         ret' \in [Proc -> [ok : Continuations, err : Continuations]],
         \A q \in Proc : q # p => to'[q] = to[q],
         l \in {"wipe", "unlink", "restore", "putback"} => to'[p] \in Place,
         p \in Drop =>
           /\ pc[p] \in AfterRename => l \in AfterRename
           /\ l = "remove" => home[p].real = Nothing
           /\ l = "delete" =>
                /\ swept'[p] \in Drop
                /\ home[swept'[p]].shape # "gone" /\ home[swept'[p]].real = Nothing,
         \A d \in Drop : d # p => swept'[d] = swept[d]
  PROVE  Control' /\ DropsGoOn
<1>1. /\ pc \in [Proc -> Labels]
      /\ \A q \in Proc : pc[q] # "idle" => q \in DOMAIN setup.of
      /\ \A q \in Proc : pc[q] \in {"wipe", "unlink", "restore", "putback"} => to[q] \in Place
  BY DEF Inv, Control
<1>2. pc' \in [Proc -> Labels] /\ pc'[p] = l /\ \A q \in Proc : q # p => pc'[q] = pc[q]
  BY <1>1
<1>3. \A q \in Proc : pc'[q] # "idle" => q \in DOMAIN setup'.of
  BY <1>1, <1>2
<1>4. \A q \in Proc : pc'[q] \in {"wipe", "unlink", "restore", "putback"} => to'[q] \in Place
  BY <1>1, <1>2
<1>5. Control'
  BY <1>2, <1>3, <1>4 DEF Control
<1>6. DropsGoOn
  BY <1>2, Sorts DEF DropsGoOn
<1>7. QED
  BY <1>5, <1>6

\* The labels at which somebody's `real` is being put back, and where those steps go on.
Aiming == {"wipe", "unlink", "restore", "putback"}
Onward == Continuations \cup Aiming \cup {"find"}

\* A step of unmount or restore.
LEMMA UnmountGoesOn ==
  ASSUME Inv, NEW p \in Proc, Unmount(p)
  PROVE  Locals' /\ DropsGoOn
<1>0. /\ pc[p] \in Labels /\ p \in DOMAIN setup.of /\ setup' = setup
      /\ ret[p].ok \in Onward /\ ret[p].err \in Onward
      /\ ret[p].ok \notin Aiming /\ ret[p].err \notin Aiming
      /\ ret' = ret /\ swept' = swept /\ kid' = kid /\ serving' = serving
      /\ pc[p] \notin AfterRename
  <2>1. /\ pc[p] \in Aiming \cup {"unmount", "find"}
        /\ setup' = setup /\ ret' = ret /\ swept' = swept /\ kid' = kid /\ serving' = serving
    BY DEF Unmount, UnmountMac, Wipe, Unlink, UnmountWin, FindReal, Restore, PutBack, local, bounds,
           Aiming
  <2>2. ret[p].ok \in Continuations /\ ret[p].err \in Continuations
    BY DEF Inv, Control
  <2>3. \A l \in Continuations : l \in Onward /\ l \notin Aiming
    BY DEF Continuations, Onward, Aiming
  <2>4. pc[p] \in Labels /\ p \in DOMAIN setup.of /\ pc[p] \notin AfterRename
    BY <2>1 DEF Inv, Control, Aiming, AfterRename
  <2>5. QED
    BY <2>1, <2>2, <2>3, <2>4
<1>1. \E l \in Onward : Goto(p, l) /\ (l \in Aiming => to'[p] \in Place)
  <2>1. to \in [Proc -> Place \cup {None}] /\ (pc[p] \in Aiming => to[p] \in Place)
    BY DEF Inv, TypeOK, Control, Aiming
  <2>2. Aiming \subseteq Onward /\ "find" \in Onward /\ "find" \notin Aiming
    BY DEF Onward, Aiming
  <2> USE <1>0, <2>1, <2>2 DEF Return, Fail
  <2>3. CASE UnmountMac(p)
    <3>1. IsLink(at) /\ at.kind = "link" => at.of \in Place
      BY <2>3, Sorts DEF UnmountMac, Inv, LinksLead
    <3>2. "wipe" \in Aiming /\ "restore" \in Aiming
      BY DEF Aiming
    <3>3. QED
      BY <2>3, <3>1, <3>2, Found DEF UnmountMac
  <2>4. CASE Wipe(p)
    BY <2>4 DEF Wipe, Aiming
  <2>5. CASE Unlink(p)
    BY <2>5 DEF Unlink, Aiming
  <2>6. CASE UnmountWin(p)
    BY <2>6 DEF UnmountWin
  <2>7. CASE FindReal(p)
    BY <2>7, Found DEF FindReal, Aiming
  <2>8. CASE Restore(p)
    BY <2>8 DEF Restore, Aiming
  <2>9. CASE PutBack(p)
    BY <2>9 DEF PutBack
  <2>10. QED
    BY <2>3, <2>4, <2>5, <2>6, <2>7, <2>8, <2>9 DEF Unmount
<1>2. PICK l \in Onward : Goto(p, l) /\ (l \in Aiming => to'[p] \in Place)
  BY <1>1
<1>3. l \in Labels /\ l # "idle" /\ l # "remove" /\ l # "delete"
  BY DEF Labels, Continuations, Ended, Onward, Aiming
<1>4. to' \in [Proc -> Place \cup {None}] /\ \A q \in Proc : q # p => to'[q] = to[q]
  <2>1. to \in [Proc -> Place \cup {None}]
    BY DEF Inv, TypeOK
  <2>2. FindStateFor \in Place \cup {None} /\ FindRealFor \in Place \cup {None}
    BY Found
  <2>3. CASE UnmountMac(p)
    <3>1. IsLink(at) /\ at.kind = "link" => at.of \in Place
      BY <2>3, Sorts DEF UnmountMac, Inv, LinksLead
    <3>2. QED
      BY <2>1, <2>2, <2>3, <3>1 DEF UnmountMac
  <2>4. CASE FindReal(p)
    BY <2>1, <2>2, <2>4 DEF FindReal
  <2>5. CASE to' = to
    BY <2>1, <2>5
  <2>6. QED
    BY <2>3, <2>4, <2>5 DEF Unmount, Wipe, Unlink, UnmountWin, Restore, PutBack
<1>5. Control' /\ DropsGoOn
  BY <1>0, <1>2, <1>3, <1>4, OneGoesOn DEF Inv, Control, Goto, Aiming
<1>6. QED
  BY <1>0, <1>4, <1>5 DEF Locals, Inv, TypeOK

\* What the other labels are.
Forward == Labels \ (Aiming \cup {"idle"})

\* A step of a run.
LEMMA RunGoesOn ==
  ASSUME Inv, NEW r \in Run, RunStep(r)
  PROVE  Locals' /\ DropsGoOn
<1>0. /\ setup' = setup /\ swept' = swept /\ pc[r] # "idle" /\ r \in Proc /\ r \notin Drop
      /\ r \in DOMAIN setup.of /\ Of(r) \in Place
  <2>1. setup' = setup /\ swept' = swept /\ pc[r] # "idle"
    BY DEF RunStep, Mkdirs, MountCheck, Clean, Aside, MkView, Symlink, Serve, ServeFails, Rollback,
           Spawn, SpawnFails, Claim, ClaimFault, Lost, Close, Wait, Down, Clear, local, bounds
  <2>2. QED
    BY <2>1, Sorts, Given DEF Inv, TypeOK, Control
<1>1. /\ Continuations \subseteq Forward
      /\ {"mount", "mkview", "serve", "link", "rollback", "spawn", "claim", "unmount", "lost",
          "running", "down", "ok"} \subseteq Forward
  BY DEF Forward, Labels, Aiming, Continuations, Ended
<1>2. \E l \in Forward \cup {"restore"} :
        Goto(r, l) /\ (l = "restore" => to' = [to EXCEPT ![r] = Of(r)])
  <2> USE <1>1 DEF Call, Continuations
  <2>1. CASE Mkdirs(r)
    BY <2>1 DEF Mkdirs
  <2>2. CASE MountCheck(r)
    BY <2>2 DEF MountCheck
  <2>3. CASE Clean(r)
    BY <2>3 DEF Clean
  <2>4. CASE Aside(r)
    BY <2>4 DEF Aside
  <2>5. CASE MkView(r)
    BY <2>5 DEF MkView
  <2>6. CASE Symlink(r)
    BY <2>6 DEF Symlink
  <2>7. CASE Serve(r)
    BY <2>7 DEF Serve
  <2>8. CASE ServeFails(r)
    BY <2>8 DEF ServeFails
  <2>9. CASE Rollback(r)
    BY <2>9 DEF Rollback
  <2>10. CASE Spawn(r)
    BY <2>10 DEF Spawn
  <2>11. CASE SpawnFails(r)
    BY <2>11 DEF SpawnFails
  <2>12. CASE Claim(r)
    BY <2>12 DEF Claim
  <2>13. CASE ClaimFault(r)
    BY <2>13 DEF ClaimFault
  <2>14. CASE Lost(r)
    BY <2>14 DEF Lost
  <2>15. CASE Close(r)
    BY <2>15 DEF Close
  <2>16. CASE Wait(r)
    BY <2>16 DEF Wait
  <2>17. CASE Down(r)
    BY <2>17 DEF Down
  <2>18. CASE Clear(r)
    BY <2>18 DEF Clear
  <2>19. QED
    BY <2>1, <2>2, <2>3, <2>4, <2>5, <2>6, <2>7, <2>8, <2>9, <2>10, <2>11, <2>12, <2>13, <2>14, <2>15,
       <2>16, <2>17, <2>18 DEF RunStep
<1>3. PICK l \in Forward \cup {"restore"} :
        Goto(r, l) /\ (l = "restore" => to' = [to EXCEPT ![r] = Of(r)])
  BY <1>2
<1>4. ret' \in [Proc -> [ok : Continuations, err : Continuations]]
  <2>1. \/ ret' = ret
        \/ \E a, b \in Continuations : ret' = [ret EXCEPT ![r] = [ok |-> a, err |-> b]]
    BY DEF RunStep, Mkdirs, MountCheck, Clean, Aside, MkView, Symlink, Serve, ServeFails, Rollback,
           Spawn, SpawnFails, Claim, ClaimFault, Lost, Close, Wait, Down, Clear,
           Call, Continuations
  <2>2. QED
    BY <1>0, <2>1 DEF Inv, Control
<1>5. to' \in [Proc -> Place \cup {None}] /\ \A q \in Proc : q # r => to'[q] = to[q]
  <2>1. to' = to \/ to' = [to EXCEPT ![r] = Of(r)]
    BY DEF RunStep, Mkdirs, MountCheck, Clean, Aside, MkView, Symlink, Serve, ServeFails, Rollback,
           Spawn, SpawnFails, Claim, ClaimFault, Lost, Close, Wait, Down, Clear
  <2>2. QED
    BY <1>0, <2>1 DEF Inv, TypeOK
<1>6. kid' \in [Run -> {"none", "live", "zombie", "gone"}] /\ serving' \subseteq Run
  <2>1. kid' = kid \/ kid' = [kid EXCEPT ![r] = "live"] \/ kid' = [kid EXCEPT ![r] = "gone"]
    BY DEF RunStep, Mkdirs, MountCheck, Clean, Aside, MkView, Symlink, Serve, ServeFails, Rollback,
           Spawn, SpawnFails, Claim, ClaimFault, Lost, Close, Wait, Down, Clear
  <2>2. serving' = serving \/ serving' = serving \cup {r} \/ serving' = serving \ {r}
    BY DEF RunStep, Mkdirs, MountCheck, Clean, Aside, MkView, Symlink, Serve, ServeFails, Rollback,
           Spawn, SpawnFails, Claim, ClaimFault, Lost, Close, Wait, Down, Clear,
           EndSession
  <2>3. QED
    BY <2>1, <2>2 DEF Inv, TypeOK
<1>7. l \in Labels /\ l # "idle" /\ (l \in Aiming => l = "restore")
  BY <1>3 DEF Forward, Aiming, Labels
<1>8. Control' /\ DropsGoOn
  <2>1. l \in Aiming => to'[r] \in Place
    BY <1>0, <1>3, <1>7 DEF Inv, TypeOK
  <2>2. QED
    BY <1>0, <1>3, <1>4, <1>5, <1>7, <2>1, OneGoesOn DEF Inv, Control, Goto, Aiming
<1>9. QED
  BY <1>0, <1>5, <1>6, <1>8 DEF Locals, Inv, TypeOK

\* A drop goes to `remove` and `delete` after a look at the trash.
LEMMA DropGoesOn ==
  ASSUME Inv, NEW d \in Drop, DropStep(d)
  PROVE  Locals' /\ DropsGoOn
<1> DEFINE Fine(l) ==
      /\ pc[d] \in AfterRename => l \in AfterRename
      /\ l = "remove" => home[d].real = Nothing
      /\ l = "delete" =>
           /\ swept'[d] \in Drop
           /\ home[swept'[d]].shape # "gone" /\ home[swept'[d]].real = Nothing
<1>0. /\ setup' = setup /\ to' = to /\ serving' = serving /\ pc[d] # "idle"
      /\ d \in Proc /\ d \in DOMAIN setup.of /\ pc \in [Proc -> Labels]
  <2>1. setup' = setup /\ to' = to /\ serving' = serving /\ pc[d] # "idle"
    BY DEF DropStep, DropTerminate, DropLoop, DropVerdict, DropSweep, DropDelete, DropSwept, DropAgain,
           DropRecheck, DropGuard, DropRename, DropTrashed, DropUndo, DropRemove, local, bounds
  <2>2. QED
    BY <2>1, Sorts DEF Inv, Control
<1>1. /\ Continuations \subseteq Forward
      /\ {"sweep", "unmount", "delete", "again", "guard", "rename", "trashed", "undo", "remove",
          "ok"} \subseteq Forward
  BY DEF Forward, Labels, Aiming, Continuations, Ended
<1>2. swept' \in [Drop -> Drop \cup {None}] /\ \A q \in Drop : q # d => swept'[q] = swept[q]
  <2>1. swept' = swept \/ \E t \in Drop : swept' = [swept EXCEPT ![d] = t]
    BY DEF DropStep, DropTerminate, DropLoop, DropVerdict, DropSweep, DropDelete, DropSwept, DropAgain,
           DropRecheck, DropGuard, DropRename, DropTrashed, DropUndo, DropRemove, local
  <2>2. QED
    BY <2>1 DEF Inv, TypeOK
<1>3. \E l \in Forward : pc' = [pc EXCEPT ![d] = l] /\ Fine(l)
  <2> USE <1>0, <1>1 DEF Call, Goto, Continuations, AfterRename
  <2>1. CASE DropTerminate(d)
    <3>1. pc' = pc \/ \E l \in {"end", "sweep", "unmount"} : pc' = [pc EXCEPT ![d] = l]
      BY <2>1 DEF DropTerminate
    <3>2. pc[d] \in {"loop", "again"}
      BY <2>1 DEF DropTerminate
    <3>3. pc[d] \in Forward /\ Fine(pc[d])
      BY <3>2
    <3>4. QED
      BY <3>1, <3>2, <3>3
  <2>2. CASE DropLoop(d)
    <3>1. pc' = pc \/ \E l \in {"end", "sweep", "unmount"} : pc' = [pc EXCEPT ![d] = l]
      BY <2>2 DEF DropLoop
    <3>2. pc[d] \in {"loop", "again"}
      BY <2>2 DEF DropLoop
    <3>3. pc[d] \in Forward /\ Fine(pc[d])
      BY <3>2
    <3>4. QED
      BY <3>1, <3>2, <3>3
  <2>3. CASE DropVerdict(d)
    BY <2>3 DEF DropVerdict
  <2>4. CASE DropSweep(d)
    <3>1. pc[d] = "sweep" /\ pc' = [pc EXCEPT ![d] = "delete"]
      BY <2>4 DEF DropSweep
    <3>2. PICK t \in Drop : /\ home[t].shape # "gone" /\ home[t].real = Nothing
                            /\ swept' = [swept EXCEPT ![d] = t]
      BY <2>4 DEF DropSweep
    <3>3. swept'[d] = t
      BY <3>2 DEF Inv, TypeOK
    <3>4. QED
      BY <3>1, <3>2, <3>3
  <2>5. CASE DropDelete(d)
    BY <2>5 DEF DropDelete
  <2>6. CASE DropSwept(d)
    BY <2>6 DEF DropSwept
  <2>7. CASE DropAgain(d)
    BY <2>7 DEF DropAgain
  <2>8. CASE DropRecheck(d)
    BY <2>8 DEF DropRecheck
  <2>9. CASE DropGuard(d)
    BY <2>9 DEF DropGuard
  <2>10. CASE DropRename(d)
    BY <2>10 DEF DropRename
  <2>11. CASE DropTrashed(d)
    BY <2>11 DEF DropTrashed
  <2>12. CASE DropUndo(d)
    BY <2>12 DEF DropUndo
  <2>13. CASE DropRemove(d)
    BY <2>13 DEF DropRemove
  <2>14. QED
    BY <2>1, <2>2, <2>3, <2>4, <2>5, <2>6, <2>7, <2>8, <2>9, <2>10, <2>11, <2>12, <2>13 DEF DropStep
<1>4. PICK l \in Forward : pc' = [pc EXCEPT ![d] = l] /\ Fine(l)
  BY <1>3
<1>5. l \in Labels /\ l # "idle" /\ l \notin Aiming
  BY DEF Forward
<1>6. ret' \in [Proc -> [ok : Continuations, err : Continuations]]
  <2>1. \/ ret' = ret
        \/ \E c \in Continuations : ret' = [ret EXCEPT ![d] = [ok |-> c, err |-> c]]
    BY DEF DropStep, DropTerminate, DropLoop, DropVerdict, DropSweep, DropDelete, DropSwept, DropAgain,
           DropRecheck, DropGuard, DropRename, DropTrashed, DropUndo, DropRemove, Call, Continuations
  <2>2. QED
    BY <1>0, <2>1 DEF Inv, Control
<1>7. kid' \in [Run -> {"none", "live", "zombie", "gone"}]
  <2>1. \/ kid' = kid
        \/ kid' = [kid EXCEPT ![home[Of(d)].pid] = "zombie"]
        \/ kid' = [kid EXCEPT ![home[Of(d)].pid] = "gone"]
    BY DEF DropStep, DropTerminate, DropLoop, DropVerdict, DropSweep, DropDelete, DropSwept, DropAgain,
           DropRecheck, DropGuard, DropRename, DropTrashed, DropUndo, DropRemove
  <2>2. QED
    BY <2>1 DEF Inv, TypeOK
<1>8. Control' /\ DropsGoOn
  BY <1>0, <1>2, <1>4, <1>5, <1>6, OneGoesOn DEF Aiming
<1>9. QED
  BY <1>0, <1>2, <1>7, <1>8 DEF Locals, Inv, TypeOK

\* Gates, scans, kills and the user.
LEMMA OtherGoesOn ==
  ASSUME Inv, NEW p \in Proc,
         Gate(p) \/ DropStart(p) \/ Recover(p) \/ Scan(p) \/ Crash(p) \/ (p \in Diff /\ Again(p))
  PROVE  Locals' /\ DropsGoOn
<1>0. /\ setup' = setup /\ to' = to /\ swept' = swept /\ pc \in [Proc -> Labels]
      /\ pc[p] # "idle" => p \in DOMAIN setup.of
  BY DEF Gate, DropStart, Recover, Scan, Crash, Again, local, bounds, Inv, Control
<1>1. Continuations \subseteq Forward
  BY DEF Forward, Labels, Aiming, Continuations, Ended
<1>2. \E l \in Forward \cup {"idle"} :
        /\ pc' = [pc EXCEPT ![p] = l]
        /\ l # "idle" => p \in DOMAIN setup.of
        /\ p \in Drop /\ pc[p] \in AfterRename => l = "dead"
        /\ l # "remove" /\ l # "delete"
  <2>1. {"recover", "unmount", "ok", "dead", "loop", "sweep"} \subseteq Forward
    BY DEF Forward, Labels, Aiming, Ended
  <2> USE <1>0, <1>1, <2>1, Sorts DEF Goto, Call, Continuations, AfterRename
  <2>2. CASE Gate(p)
    BY <2>2 DEF Gate, Turn
  <2>3. CASE DropStart(p)
    BY <2>3 DEF DropStart, Turn
  <2>4. CASE Recover(p)
    BY <2>4 DEF Recover, AfterRecover
  <2>5. CASE Scan(p)
    BY <2>5 DEF Scan
  <2>6. CASE Crash(p)
    BY <2>6, CrashAssumption DEF Crash
  <2>7. CASE p \in Diff /\ Again(p)
    BY <2>7 DEF Again
  <2>8. QED
    BY <2>2, <2>3, <2>4, <2>5, <2>6, <2>7
<1>3. PICK l \in Forward \cup {"idle"} :
        /\ pc' = [pc EXCEPT ![p] = l]
        /\ l # "idle" => p \in DOMAIN setup.of
        /\ p \in Drop /\ pc[p] \in AfterRename => l = "dead"
        /\ l # "remove" /\ l # "delete"
  BY <1>2
<1>4. l \in Labels /\ l \notin Aiming
  BY DEF Forward, Labels, Aiming
<1>5. ret' \in [Proc -> [ok : Continuations, err : Continuations]]
  <2>1. \/ ret' = ret
        \/ \E a, b \in Continuations : ret' = [ret EXCEPT ![p] = [ok |-> a, err |-> b]]
    BY DEF Gate, DropStart, Recover, AfterRecover, Scan, Crash, Again, Call, Continuations
  <2>2. QED
    BY <2>1 DEF Inv, Control
<1>6. kid' \in [Run -> {"none", "live", "zombie", "gone"}] /\ serving' \subseteq Run
  <2>1. kid' = kid \/ kid' = [kid EXCEPT ![p] = "gone"]
    BY DEF Gate, DropStart, Recover, Scan, Crash, Again
  <2>2. serving' = serving \/ serving' = serving \ {p}
    BY DEF Gate, DropStart, Recover, Scan, Crash, Again, EndSession
  <2>3. QED
    BY <2>1, <2>2 DEF Inv, TypeOK
<1>7. Control' /\ DropsGoOn
  <2>1. "dead" \in AfterRename
    BY DEF AfterRename
  <2>2. QED
    BY <1>0, <1>3, <1>4, <1>5, <2>1, OneGoesOn DEF Aiming
<1>8. QED
  BY <1>0, <1>6, <1>7 DEF Locals, Inv, TypeOK

\* Any step.
LEMMA GoesOn ==
  ASSUME Inv, [Next]_vars
  PROVE  Locals' /\ DropsGoOn
<1>1. CASE \E p \in Proc : Gate(p) \/ DropStart(p) \/ Command(p) \/ Crash(p)
  BY <1>1, UnmountGoesOn, RunGoesOn, DropGoesOn, OtherGoesOn DEF Command
<1>2. CASE \E x \in Diff : Again(x)
  BY <1>2, OtherGoesOn, Sorts
<1>3. ASSUME UNCHANGED <<setup, pc, ret, to, swept, serving>>,
             kid' \in [Run -> {"none", "live", "zombie", "gone"}]
      PROVE  Locals' /\ DropsGoOn
  <2>1. Locals
    BY DEF Locals, Inv, TypeOK
  <2>2. Locals'
    BY <1>3, <2>1 DEF Locals, Control
  <2>3. DropsGoOn
    BY <1>3 DEF DropsGoOn
  <2>4. QED
    BY <2>2, <2>3
<1>4. kid \in [Run -> {"none", "live", "zombie", "gone"}]
  BY DEF Inv, TypeOK
<1>5. CASE \E r \in Run : Exit(r)
  <2>1. PICK r \in Run : Exit(r)
    BY <1>5
  <2>2. kid' = [kid EXCEPT ![r] = "zombie"] \/ kid' = [kid EXCEPT ![r] = "gone"]
    BY <2>1 DEF Exit
  <2>3. UNCHANGED <<setup, pc, ret, to, swept, serving>>
    BY <2>1 DEF Exit, local, bounds
  <2>4. QED
    BY <1>3, <1>4, <2>2, <2>3
<1>6. CASE Meddle \/ MakeWay \/ UNCHANGED vars
  BY <1>3, <1>4, <1>6 DEF Meddle, MakeWay, vars, local, bounds
<1>7. QED
  BY <1>1, <1>2, <1>5, <1>6 DEF Next

-----------------------------------------------------------------------------
(* What a step does to the target path and to the state directories        *)

Directory == [shape : {"gone", "there", "ghost", "bare"}, real : Things,
              pid : Run \cup {None}, wiped : BOOLEAN]

\* The target path changes, and it is not the host directory that goes.
Retargeted ==
  /\ home' = home
  /\ at' = at \/ (at # Host /\ at' \in Things /\ (Mac /\ at'.kind = "link" => at'.of \in Worktree))

\* State directories change in anything but their `real`, and no trash comes or goes.
Relabelled ==
  /\ at' = at
  /\ home' \in [Place -> Directory]
  /\ \A p \in Place :
       /\ home'[p].real = home[p].real
       /\ home'[p].shape = "gone" => home'[p] = Gone
  /\ \A d \in Drop : home'[d].shape = home[d].shape

\* A layer that is emptied.
LEMMA WipeRelabels ==
  ASSUME Inv, NEW w \in Place, WipeView(w), at' = at
  PROVE  Relabelled
<1>1. home \in [Place -> Directory] /\ \A p \in Place : home[p].shape = "gone" => home[p] = Gone
  BY DEF Inv, TypeOK, Directory
<1>2. CASE home' = home
  BY <1>1, <1>2, Sorts DEF Relabelled
<1>3. CASE home' = [home EXCEPT ![w].wiped = TRUE] /\ home[w].shape # "gone"
  <2>1. home' \in [Place -> Directory]
    BY <1>1, <1>3 DEF Directory
  <2>2. \A p \in Place : home'[p].real = home[p].real /\ home'[p].shape = home[p].shape
                         /\ (p # w => home'[p] = home[p])
    BY <1>1, <1>3 DEF Directory
  <2>3. QED
    BY <1>1, <1>3, <2>1, <2>2, Sorts DEF Relabelled
<1>4. QED
  BY <1>2, <1>3 DEF WipeView

\* A state directory is what its parts are.
LEMMA SameDirectory ==
  ASSUME NEW v \in Directory, NEW w \in Directory,
         v.shape = w.shape, v.real = w.real, v.pid = w.pid, v.wiped = w.wiped
  PROVE  v = w
  BY DEF Directory

\* Writing or clearing a pidfile changes nothing else in its directory, and no other
\* directory.
LEMMA OnlyPid ==
  ASSUME NEW x \in Place, NEW y, home \in [Place -> Directory],
         home' = [home EXCEPT ![x].pid = y], NEW q \in Place
  PROVE  /\ home'[q].real = home[q].real /\ home'[q].shape = home[q].shape
         /\ home'[q].wiped = home[q].wiped
         /\ home'[q].pid = IF q = x THEN y ELSE home[q].pid
<1>1. home[q] \in Directory
  OBVIOUS
<1>2. home'[q] = IF q = x THEN [home[q] EXCEPT !.pid = y] ELSE home[q]
  OBVIOUS
<1>3. QED
  BY <1>1, <1>2 DEF Directory

\* One worktree's directory changes.
LEMMA OneRelabelled ==
  ASSUME Inv, NEW w \in Worktree, at' = at, NEW v \in Directory,
         home' = [home EXCEPT ![w] = v],
         v.real = home[w].real, v.shape = "gone" => v = Gone
  PROVE  Relabelled
<1>1. home \in [Place -> Directory] /\ \A p \in Place : home[p].shape = "gone" => home[p] = Gone
  BY DEF Inv, TypeOK, Directory
<1>2. w \in Place /\ \A d \in Drop : d \in Place /\ d # w
  BY Sorts
<1>3. home' \in [Place -> Directory] /\ home'[w] = v /\ \A p \in Place : p # w => home'[p] = home[p]
  BY <1>1, <1>2
<1>4. QED
  BY <1>1, <1>2, <1>3 DEF Relabelled

\* unmount and restore move the host directory in one place only.
LEMMA UnmountMoves ==
  ASSUME Inv, NEW p \in Proc, Unmount(p)
  PROVE  Retargeted \/ Relabelled \/ PutBack(p)
<1> USE Kinds
<1>1. Nothing \in Things /\ Nothing.kind # "link"
  BY DEF Things
<1>2. CASE UnmountMac(p) \/ FindReal(p)
  BY <1>2 DEF UnmountMac, FindReal, Retargeted
<1>3. CASE Wipe(p)
  <2>1. to[p] \in Place /\ WipeView(to[p]) /\ at' = at
    BY <1>3 DEF Wipe, Inv, Control
  <2>2. QED
    BY <2>1, WipeRelabels
<1>4. CASE Unlink(p)
  BY <1>1, <1>4 DEF Unlink, Retargeted
<1>5. CASE UnmountWin(p)
  BY <1>1, <1>5 DEF UnmountWin, Retargeted
<1>6. CASE Restore(p)
  BY <1>1, <1>6 DEF Restore, Retargeted
<1>7. QED
  BY <1>2, <1>3, <1>4, <1>5, <1>6 DEF Unmount

\* Nor does the end of a session take the host directory away.
LEMMA EndRetargets ==
  ASSUME Inv, NEW p, EndSession(p), home' = home
  PROVE  Retargeted
<1>1. Nothing \in Things /\ Nothing.kind # "link"
  BY Kinds DEF Things
<1>2. QED
  BY <1>1, Kinds DEF EndSession, Retargeted

\* A run moves the host directory aside in one place only.
LEMMA RunMoves ==
  ASSUME Inv, NEW r \in Run, RunStep(r)
  PROVE  Retargeted \/ Relabelled \/ Aside(r)
<1>0. /\ r \in Proc /\ Of(r) \in Worktree /\ Of(r) \in Place
      /\ home[Of(r)] \in Directory /\ (home[Of(r)].shape = "gone" => home[Of(r)] = Gone)
  <2>1. pc[r] # "idle"
    BY DEF RunStep, Mkdirs, MountCheck, Clean, Aside, MkView, Symlink, Serve, ServeFails, Rollback,
           Spawn, SpawnFails, Claim, ClaimFault, Lost, Close, Wait, Down, Clear
  <2>2. Of(r) \in Worktree
    BY <2>1, Sorts, Given DEF Inv, TypeOK, Control
  <2>3. QED
    BY <2>2, Sorts DEF Inv, TypeOK, Directory
<1>1. /\ Nothing \in Things /\ Nothing.kind # "link"
      /\ \A x \in Worktree \cup Run : Link(x) \in Things /\ Link(x).kind = "link" /\ Link(x).of = x
  BY Kinds DEF Things
<1>2. CASE MountCheck(r) \/ ServeFails(r) \/ Spawn(r) \/ ClaimFault(r) \/ Lost(r) \/ Wait(r)
  BY <1>2 DEF MountCheck, ServeFails, Spawn, ClaimFault, Lost, Wait, Retargeted
<1>3. CASE SpawnFails(r) \/ Close(r) \/ Down(r)
  BY <1>3, EndRetargets DEF SpawnFails, Close, Down
<1>4. CASE Symlink(r) \/ Serve(r) \/ Rollback(r)
  BY <1>0, <1>1, <1>4, Kinds DEF Symlink, Serve, Rollback, Retargeted
<1>5. CASE Clean(r)
  BY <1>0, <1>5, WipeRelabels DEF Clean
<1>6. CASE Mkdirs(r)
  <2>1. CASE home' = home
    BY <1>6, <2>1 DEF Mkdirs, Retargeted
  <2>2. CASE home' = [home EXCEPT ![Of(r)].shape = "ghost"]
    <3> DEFINE v == [home[Of(r)] EXCEPT !.shape = "ghost"]
    <3>1. v \in Directory /\ v.real = home[Of(r)].real /\ v.shape # "gone"
      BY <1>0 DEF Directory
    <3>2. home' = [home EXCEPT ![Of(r)] = v]
      BY <1>0, <2>2 DEF Inv, TypeOK
    <3>3. at' = at
      BY <1>6 DEF Mkdirs
    <3> HIDE DEF v
    <3>4. QED
      BY <1>0, <3>1, <3>2, <3>3, OneRelabelled
  <2>3. QED
    BY <1>6, <2>1, <2>2 DEF Mkdirs
<1>7. CASE MkView(r)
  <2>1. CASE home' = home
    BY <1>7, <2>1 DEF MkView, Retargeted
  <2>2. CASE home' = [home EXCEPT ![Of(r)] = Fresh("bare")] /\ home[Of(r)].shape = "gone"
    <3>1. Fresh("bare") \in Directory /\ Fresh("bare").real = Gone.real /\ Fresh("bare").shape # "gone"
      BY <1>1 DEF Directory, Fresh, Gone
    <3>2. at' = at
      BY <1>7 DEF MkView
    <3>3. QED
      BY <1>0, <2>2, <3>1, <3>2, OneRelabelled
  <2>3. QED
    BY <1>7, <2>1, <2>2 DEF MkView
<1>8. CASE Claim(r) \/ Clear(r)
  <2>1. CASE home' = home
    BY <1>8, <2>1 DEF Claim, Clear, Retargeted
  <2>2. CASE \/ home' = [home EXCEPT ![Of(r)].pid = r] /\ home[Of(r)].shape # "gone"
             \/ home' = [home EXCEPT ![Of(r)].pid = None]
    <3>1. PICK i \in {r, None} :
            /\ home' = [home EXCEPT ![Of(r)].pid = i]
            /\ home[Of(r)].shape # "gone" \/ i = None
      BY <2>2
    <3> DEFINE v == [home[Of(r)] EXCEPT !.pid = i]
    <3>2. v \in Directory /\ v.real = home[Of(r)].real /\ v.shape = home[Of(r)].shape
      BY <1>0 DEF Directory
    <3>3. v.shape = "gone" => v = Gone
      <4>1. CASE home[Of(r)] = Gone /\ i = None
        <5>1. /\ v \in Directory /\ Gone \in Directory /\ v.shape = Gone.shape
              /\ v.real = Gone.real /\ v.pid = Gone.pid /\ v.wiped = Gone.wiped
          BY <3>2, <4>1 DEF Gone, Directory
        <5> HIDE DEF v
        <5>2. QED
          BY <5>1, SameDirectory
      <4>2. QED
        BY <1>0, <3>1, <3>2, <4>1
    <3>4. home' = [home EXCEPT ![Of(r)] = v] /\ at' = at
      BY <1>0, <1>8, <3>1 DEF Inv, TypeOK, Claim, Clear
    <3> HIDE DEF v
    <3>5. QED
      BY <1>0, <3>2, <3>3, <3>4, OneRelabelled
  <2>3. QED
    BY <1>8, <2>1, <2>2 DEF Claim, Clear
<1>9. QED
  BY <1>2, <1>3, <1>4, <1>5, <1>6, <1>7, <1>8 DEF RunStep

\* A drop moves or deletes state directories.
DropMoves(d) == DropDelete(d) \/ DropRename(d) \/ DropUndo(d) \/ DropRemove(d)

\* Any step.
LEMMA Moves ==
  ASSUME Inv, [Next]_vars
  PROVE  \/ Retargeted \/ Relabelled
         \/ \E p \in Proc : PutBack(p)
         \/ \E r \in Run : Aside(r)
         \/ \E d \in Drop : DropMoves(d)
<1>1. ASSUME NEW p \in Proc, Gate(p) \/ DropStart(p) \/ Recover(p) \/ Scan(p)
      PROVE  Retargeted
  BY <1>1 DEF Gate, DropStart, Recover, Scan, Retargeted
<1>2. ASSUME NEW p \in Proc, Crash(p)
      PROVE  Retargeted
  BY <1>2, EndRetargets DEF Crash
<1>3. ASSUME NEW d \in Drop, DropStep(d)
      PROVE  Retargeted \/ DropMoves(d)
  BY <1>3 DEF DropStep, DropMoves, DropTerminate, DropLoop, DropVerdict, DropSweep, DropSwept,
              DropAgain, DropRecheck, DropGuard, DropTrashed, Retargeted
<1>4. CASE \E p \in Proc : Gate(p) \/ DropStart(p) \/ Command(p) \/ Crash(p)
  BY <1>1, <1>2, <1>3, <1>4, UnmountMoves, RunMoves DEF Command
<1>5. CASE (\E r \in Run : Exit(r)) \/ (\E x \in Diff : Again(x)) \/ UNCHANGED vars
  BY <1>5 DEF Exit, Again, vars, Retargeted
<1>6. CASE Meddle \/ MakeWay
  <2>1. {Nothing, Empty, Foreign} \subseteq Things
    BY DEF Things
  <2>2. at # Host
    BY <1>6, Kinds DEF Meddle, MakeWay
  <2>3. home' = home /\ at' \in {Nothing, Empty, Foreign}
    BY <1>6 DEF Meddle, MakeWay
  <2>4. QED
    BY <2>1, <2>2, <2>3, Kinds DEF Retargeted
<1>7. QED
  BY <1>4, <1>5, <1>6 DEF Next

-----------------------------------------------------------------------------
(* The invariant                                                           *)

\* The host directory is somewhere, and a step leaves it there or carries it along.
\* What is deleted is an empty trash, and what is overwritten is never the host
\* directory: rename(2) puts a directory in the place of an empty one at most.
WhereOK ==
  /\ at \in Things /\ home \in [Place -> Directory]
  /\ \A p \in Place : home[p].shape = "gone" => home[p] = Gone
  /\ LinksLead /\ HostKept

\* The target of a rename is neither the host directory nor a trash in use.
LEMMA RenameSpares ==
  ASSUME NEW src, NEW dst, RenameOK(src, dst)
  PROVE  dst # Host
  BY Kinds DEF RenameOK, IsLink, Host, Nothing, Empty

\* Putting `real` back: the host directory moves with it, or stays where it is.
LEMMA PutBackKeeps ==
  ASSUME Inv, setup' = setup, NEW p \in Proc, PutBack(p)
  PROVE  /\ WhereOK'
         /\ \A d \in Drop : /\ home'[d].shape = home[d].shape
                            /\ home'[d].real \in {home[d].real, Nothing}
<1>0. /\ to[p] \in Place /\ home \in [Place -> Directory] /\ at \in Things
      /\ \A q \in Place : home[q].shape = "gone" => home[q] = Gone
      /\ Nothing \in Things
  BY DEF PutBack, Inv, TypeOK, Control, Directory, Things
<1>1. CASE UNCHANGED <<at, home>>
  BY <1>0, <1>1 DEF WhereOK, Inv, LinksLead, HostKept, Mac
<1>2. CASE /\ RenameOK(home[to[p]].real, at)
           /\ at' = home[to[p]].real
           /\ home' = [home EXCEPT ![to[p]].real = Nothing]
  <2>1. /\ home' \in [Place -> Directory] /\ home'[to[p]].real = Nothing
        /\ \A q \in Place : q # to[p] => home'[q] = home[q]
        /\ \A q \in Place : home'[q].shape = home[q].shape
    BY <1>0, <1>2 DEF Directory
  <2>2. home[to[p]].shape # "gone"
    <3>1. home[to[p]].real # Nothing
      BY <1>2 DEF RenameOK, IsDir, IsLink, Nothing
    <3>2. Gone.real = Nothing
      BY DEF Gone
    <3>3. QED
      BY <1>0, <3>1, <3>2
  <2>3. at' \in Things
    BY <1>0, <1>2 DEF Directory
  <2>4. LinksLead'
    BY <1>0, <1>2, <2>1, Kinds DEF Inv, LinksLead, Mac
  <2>5. HostKept'
    <3>1. at # Host
      BY <1>2, RenameSpares
    <3>2. PICK q \in Place : home[q].real = Host
      BY <3>1 DEF Inv, HostKept
    <3>3. QED
      BY <1>2, <2>1, <3>2 DEF HostKept
  <2>6. \A q \in Place : home'[q].real \in {home[q].real, Nothing}
    BY <2>1
  <2>7. QED
    BY <1>0, <2>1, <2>2, <2>3, <2>4, <2>5, <2>6, Sorts DEF WhereOK
<1>3. QED
  BY <1>1, <1>2 DEF PutBack

\* Moving aside what is at the target.
LEMMA AsideKeeps ==
  ASSUME Inv, setup' = setup, NEW r \in Run, Aside(r)
  PROVE  WhereOK' /\ \A d \in Drop : home'[d] = home[d]
<1>0. /\ Of(r) \in Worktree /\ Of(r) \in Place /\ home \in [Place -> Directory] /\ at \in Things
      /\ \A q \in Place : home[q].shape = "gone" => home[q] = Gone
      /\ Nothing \in Things
  <2>1. pc[r] # "idle"
    BY DEF Aside
  <2>2. Of(r) \in Worktree
    BY <2>1, Sorts, Given DEF Inv, TypeOK, Control
  <2>3. QED
    BY <2>2, Sorts DEF Inv, TypeOK, Directory, Things
<1>1. CASE UNCHANGED <<at, home>>
  BY <1>0, <1>1 DEF WhereOK, Inv, LinksLead, HostKept, Mac
<1>2. CASE /\ home[Of(r)].shape # "gone" /\ RenameOK(at, home[Of(r)].real)
           /\ home' = [home EXCEPT ![Of(r)].real = at]
           /\ at' = Nothing
  <2>1. /\ home' \in [Place -> Directory] /\ home'[Of(r)].real = at
        /\ home'[Of(r)].shape # "gone"
        /\ \A q \in Place : q # Of(r) => home'[q] = home[q]
    BY <1>0, <1>2 DEF Directory
  <2>2. LinksLead'
    BY <1>0, <1>2, <2>1, Kinds DEF Inv, LinksLead, Mac
  <2>3. HostKept'
    <3>1. home[Of(r)].real # Host
      BY <1>2, RenameSpares
    <3>2. QED
      BY <1>0, <2>1, <3>1 DEF Inv, HostKept
  <2>4. QED
    BY <1>0, <1>2, <2>1, <2>2, <2>3, Sorts DEF WhereOK
<1>3. QED
  BY <1>1, <1>2 DEF Aside

\* A step that moves or deletes state directories: none is made up, and that of the
\* host directory stays.
LEMMA CarriedKeeps ==
  ASSUME Inv, setup' = setup, at' = at, home' \in [Place -> Directory],
         \A p \in Place : home'[p] = Gone \/ \E q \in Place : home'[p] = home[q],
         \A q \in Place : home[q].real = Host => \E p \in Place : home'[p].real = Host
  PROVE  WhereOK'
<1>1. Gone.real = Nothing
  BY DEF Gone
<1>2. at \in Things /\ \A p \in Place : home[p].shape = "gone" => home[p] = Gone
  BY DEF Inv, TypeOK
<1>3. \A p \in Place : home'[p].shape = "gone" => home'[p] = Gone
  BY <1>2
<1>4. LinksLead'
  BY <1>1, Kinds DEF Inv, LinksLead, Mac
<1>5. HostKept'
  BY DEF Inv, HostKept
<1>6. QED
  BY <1>2, <1>3, <1>4, <1>5 DEF WhereOK

\* A trash stays as it is, loses its `real`, goes, or is made by its drop.
TrashKept ==
  \A d \in Drop :
    \/ /\ home'[d].shape # "gone" => home[d].shape # "gone"
       /\ home'[d].real \in {home[d].real, Nothing}
    \/ pc[d] = "rename" /\ pc'[d] \in {"end", "trashed"}

\* A drop that moves or deletes a state directory.
LEMMA DropKeeps ==
  ASSUME Inv, setup' = setup, NEW d \in Drop, DropMoves(d)
  PROVE  WhereOK' /\ TrashKept
<1>0. /\ d \in Place /\ d \in Proc /\ Of(d) \in Worktree /\ Of(d) \in Place /\ Of(d) # d
      /\ home \in [Place -> Directory] /\ pc \in [Proc -> Labels]
      /\ \A q \in Place : home[q].shape = "gone" => home[q] = Gone
  <2>1. pc[d] # "idle"
    BY DEF DropMoves, DropDelete, DropRename, DropUndo, DropRemove
  <2>2. Of(d) \in Worktree
    BY <2>1, Sorts, Given DEF Inv, TypeOK, Control
  <2>3. QED
    BY <2>2, Sorts DEF Inv, TypeOK, Control, Directory
<1>1. Gone \in Directory /\ Gone.real = Nothing /\ Gone.shape = "gone" /\ Nothing # Host
  BY Kinds DEF Gone, Directory, Things
<1>2. at' = at
  BY DEF DropMoves, DropDelete, DropRename, DropUndo, DropRemove
<1>3. ASSUME NEW t \in Drop, home[t].real = Nothing, home' = [home EXCEPT ![t] = Gone]
      PROVE  WhereOK' /\ TrashKept
  <2>1. /\ t \in Place /\ home' \in [Place -> Directory] /\ home'[t] = Gone
        /\ \A q \in Place : q # t => home'[q] = home[q]
    BY <1>0, <1>1, <1>3, Sorts
  <2>2. WhereOK'
    BY <1>1, <1>2, <1>3, <2>1, CarriedKeeps
  <2>3. TrashKept
    BY <1>1, <2>1, Sorts DEF TrashKept
  <2>4. QED
    BY <2>2, <2>3
<1>4. CASE DropDelete(d)
  <2>1. swept[d] \in Drop /\ home[swept[d]].real = Nothing
    BY <1>4 DEF DropDelete, Inv, TrashIsEmpty
  <2>2. QED
    BY <1>3, <1>4, <2>1 DEF DropDelete
<1>5. CASE DropRemove(d)
  <2>1. home[d].real = Nothing
    BY <1>5 DEF DropRemove, Inv, TrashIsEmpty
  <2>2. QED
    BY <1>3, <1>5, <2>1 DEF DropRemove
<1>6. CASE home' = home
  <2>1. WhereOK'
    BY <1>0, <1>2, <1>6, CarriedKeeps
  <2>2. TrashKept
    BY <1>6 DEF TrashKept
  <2>3. QED
    BY <2>1, <2>2
<1>7. CASE DropRename(d)
  <2>1. pc[d] = "rename" /\ pc'[d] \in {"end", "trashed"}
    BY <1>0, <1>7 DEF DropRename, Goto
  <2>2. home[d] = Gone
    BY <1>0, <2>1 DEF Inv, TrashIsEmpty, AfterRename
  <2>3. CASE home' = [home EXCEPT ![d] = home[Of(d)], ![Of(d)] = Gone]
    <3>1. /\ home' \in [Place -> Directory] /\ home'[d] = home[Of(d)] /\ home'[Of(d)] = Gone
          /\ \A q \in Place : q # d /\ q # Of(d) => home'[q] = home[q]
      BY <1>0, <1>1, <2>3
    <3>2. WhereOK'
      BY <1>0, <1>1, <1>2, <2>2, <3>1, CarriedKeeps
    <3>3. TrashKept
      BY <1>0, <2>1, <3>1, Sorts DEF TrashKept
    <3>4. QED
      BY <3>2, <3>3
  <2>4. QED
    BY <1>6, <1>7, <2>3 DEF DropRename
<1>8. CASE DropUndo(d)
  <2>1. CASE home[Of(d)].shape = "gone" /\ home' = [home EXCEPT ![Of(d)] = home[d], ![d] = Gone]
    <3>1. /\ home' \in [Place -> Directory] /\ home'[Of(d)] = home[d] /\ home'[d] = Gone
          /\ \A q \in Place : q # d /\ q # Of(d) => home'[q] = home[q]
      BY <1>0, <1>1, <2>1
    <3>2. home[Of(d)] = Gone
      BY <1>0, <2>1
    <3>3. WhereOK'
      BY <1>0, <1>1, <1>2, <3>1, <3>2, CarriedKeeps
    <3>4. TrashKept
      BY <1>0, <1>1, <3>1, Sorts DEF TrashKept
    <3>5. QED
      BY <3>3, <3>4
  <2>2. QED
    BY <1>6, <1>8, <2>1 DEF DropUndo
<1>9. QED
  BY <1>4, <1>5, <1>7, <1>8 DEF DropMoves

\* The target path changes.
LEMMA RetargetKeeps ==
  ASSUME Inv, setup' = setup, Retargeted
  PROVE  WhereOK' /\ TrashKept
<1>1. /\ at \in Things /\ home \in [Place -> Directory]
      /\ \A q \in Place : home[q].shape = "gone" => home[q] = Gone
  BY DEF Inv, TypeOK, Directory
<1>2. LinksLead'
  BY DEF Retargeted, Inv, LinksLead, Mac
<1>3. HostKept'
  BY DEF Retargeted, Inv, HostKept
<1>4. WhereOK'
  BY <1>1, <1>2, <1>3 DEF Retargeted, WhereOK
<1>5. TrashKept
  BY DEF Retargeted, TrashKept
<1>6. QED
  BY <1>4, <1>5

\* What state directories are marked with changes.
LEMMA RelabelKeeps ==
  ASSUME Inv, setup' = setup, Relabelled
  PROVE  WhereOK' /\ TrashKept
<1>1. at \in Things
  BY DEF Inv, TypeOK
<1>2. LinksLead'
  BY DEF Relabelled, Inv, LinksLead, Mac
<1>3. HostKept'
  BY DEF Relabelled, Inv, HostKept
<1>4. WhereOK'
  BY <1>1, <1>2, <1>3 DEF Relabelled, WhereOK
<1>5. TrashKept
  BY Sorts DEF Relabelled, TrashKept
<1>6. QED
  BY <1>4, <1>5

\* Any step keeps where the host directory is, and the trash as it should be.
LEMMA WhereKept ==
  ASSUME Inv, setup' = setup, [Next]_vars
  PROVE  WhereOK' /\ TrashKept
<1>1. CASE \E p \in Proc : PutBack(p)
  BY <1>1, PutBackKeeps DEF TrashKept
<1>2. CASE \E r \in Run : Aside(r)
  BY <1>2, AsideKeeps DEF TrashKept
<1>3. CASE \E d \in Drop : DropMoves(d)
  BY <1>3, DropKeeps
<1>4. QED
  BY <1>1, <1>2, <1>3, RetargetKeeps, RelabelKeeps, Moves

\* The setup is chosen once.
LEMMA SetupStays == [Next]_vars => setup' = setup
<1>1. \A p \in Proc : Unmount(p) => setup' = setup
  BY DEF Unmount, UnmountMac, Wipe, Unlink, UnmountWin, FindReal, Restore, PutBack, local, bounds
<1>2. \A r \in Run : RunStep(r) => setup' = setup
  BY DEF RunStep, Mkdirs, MountCheck, Clean, Aside, MkView, Symlink, Serve, ServeFails, Rollback,
         Spawn, SpawnFails, Claim, ClaimFault, Lost, Close, Wait, Down, Clear, local, bounds
<1>3. \A d \in Drop : DropStep(d) => setup' = setup
  BY DEF DropStep, DropTerminate, DropLoop, DropVerdict, DropSweep, DropDelete, DropSwept, DropAgain,
         DropRecheck, DropGuard, DropRename, DropTrashed, DropUndo, DropRemove, local, bounds
<1>4. Next => setup' = setup
  BY <1>1, <1>2, <1>3 DEF Next, Command, Gate, DropStart, Recover, Scan, Crash, Exit, Again, Meddle,
     MakeWay, local, bounds
<1>5. QED
  BY <1>4 DEF vars

\* What a drop is about to delete holds no `real`: whoever could put one there held the
\* directory under its old name, and the drop looked after it took the name away.
LEMMA TrashStaysEmpty ==
  ASSUME Inv, DropsGoOn, TrashKept
  PROVE  TrashIsEmpty'
<1> SUFFICES ASSUME NEW d \in Drop
    PROVE  /\ home'[d].shape # "gone" => pc'[d] \in AfterRename
           /\ pc'[d] = "remove" => home'[d].real = Nothing
           /\ pc'[d] = "delete" =>
                /\ swept'[d] \in Drop
                /\ home'[swept'[d]].real = Nothing /\ pc'[swept'[d]] \in AfterRename
  BY DEF TrashIsEmpty
<1>0. \A l \in {"end", "trashed"} : l \in AfterRename /\ l # "remove" /\ l # "delete"
  BY DEF AfterRename
<1>1. home'[d].shape # "gone" => pc'[d] \in AfterRename
  BY <1>0 DEF Inv, TrashIsEmpty, DropsGoOn, TrashKept
<1>2. pc'[d] = "remove" => home'[d].real = Nothing
  BY <1>0 DEF Inv, TrashIsEmpty, DropsGoOn, TrashKept
<1>3. ASSUME pc'[d] = "delete"
      PROVE  /\ swept'[d] \in Drop
             /\ home'[swept'[d]].real = Nothing /\ pc'[swept'[d]] \in AfterRename
  <2>1. /\ swept'[d] \in Drop /\ home[swept'[d]].real = Nothing
        /\ pc[swept'[d]] \in AfterRename
    BY <1>3 DEF Inv, TrashIsEmpty, DropsGoOn
  <2>2. "rename" \notin AfterRename
    BY DEF AfterRename
  <2>3. QED
    BY <2>1, <2>2 DEF DropsGoOn, TrashKept
<1>4. QED
  BY <1>1, <1>2, <1>3

\* Every step keeps the invariant.
LEMMA StepInv == Inv /\ [Next]_vars => Inv'
<1> SUFFICES ASSUME Inv, [Next]_vars PROVE Inv'
  OBVIOUS
<1>1. setup' = setup
  BY SetupStays
<1>2. Locals' /\ DropsGoOn
  BY GoesOn
<1>3. WhereOK' /\ TrashKept
  BY <1>1, WhereKept
<1>4. TrashIsEmpty'
  BY <1>2, <1>3, TrashStaysEmpty
<1>5. TypeOK'
  BY <1>1, <1>2, <1>3 DEF Inv, TypeOK, Locals, WhereOK, Directory
<1>6. QED
  BY <1>2, <1>3, <1>4, <1>5 DEF Inv, Locals, WhereOK

\* The types, what commands remember, and the emptiness of what drops delete hold in
\* every state (commands/drop.rs, backend/macos.rs, backend/winfsp.rs).
THEOREM Invariance == Spec => []Inv
<1>1. Inv /\ UNCHANGED vars => Inv'
  BY StepInv
<1>2. QED
  BY InitInv, StepInv, PTL DEF Spec

\* drop.rs:157-165: no command, killed or not, deletes the host directory.
THEOREM HostNeverDeleted == Spec => []HostKept
<1>1. Inv => HostKept
  BY DEF Inv
<1>2. QED
  BY <1>1, Invariance, PTL

-----------------------------------------------------------------------------
(* A user who waits for one command before giving the next                 *)

Busy(p) == pc[p] \notin Ended \cup {"idle"}

Lone == \A p, q \in Proc : Busy(p) /\ Busy(q) => p = q

\* Where the callers of unmount and restore go on after a failure.
Back == {"end", "clear", "close", "loop", "recheck"}

\* What is at the target at each label, links above all.
Linked(p) ==
  /\ pc[p] \in {"wipe", "unlink"} => at.kind = "link"
  /\ pc[p] \in {"find", "restore", "putback", "mkdirs", "mount", "clean", "aside", "scan"} =>
       ~IsLink(at)
  /\ pc[p] \in {"mkview", "link"} => Mac /\ at = Nothing
  /\ pc[p] \in {"serve", "rollback"} => at = IF Mac THEN Link(Of(p)) ELSE Nothing
  /\ pc[p] \in {"spawn", "claim"} => at = Link(IF Mac THEN Of(p) ELSE p)
  /\ ret[p].err \in Back

NoLinkAside == \A q \in Place : ~IsLink(home[q].real)

Calm == Lone /\ NoLinkAside /\ \A p \in Proc : Linked(p)

\* The steps of one command.
Step(p) == Gate(p) \/ DropStart(p) \/ Command(p) \/ Crash(p)

LEMMA Steps ==
  ASSUME [Next]_vars
  PROVE  \/ \E p \in Proc : Step(p)
         \/ \E r \in Run : Exit(r)
         \/ \E x \in Diff : Again(x)
         \/ Meddle \/ MakeWay \/ UNCHANGED vars
  BY DEF Next, Step

LEMMA OnlyOneUnmounts ==
  ASSUME Inv, NEW p \in Proc, Unmount(p), NEW q \in Proc, q # p
  PROVE  Busy(p) /\ pc'[q] = pc[q] /\ ret'[q] = ret[q] /\ to'[q] = to[q]
<1>1. pc \in [Proc -> Labels] /\ to \in [Proc -> Place \cup {None}]
  BY DEF Inv, Control, TypeOK
<1>2. QED
  BY <1>1 DEF Unmount, UnmountMac, Wipe, Unlink, UnmountWin, FindReal, Restore, PutBack, Goto, Return, Fail,
     Busy, Ended

LEMMA OnlyOneRuns ==
  ASSUME Inv, NEW r \in Run, RunStep(r), NEW q \in Proc, q # r
  PROVE  Busy(r) /\ pc'[q] = pc[q] /\ ret'[q] = ret[q] /\ to'[q] = to[q]
<1>1. /\ pc \in [Proc -> Labels] /\ to \in [Proc -> Place \cup {None}]
      /\ ret \in [Proc -> [ok : Continuations, err : Continuations]]
  BY DEF Inv, Control, TypeOK
<1>2. Busy(r)
  BY DEF RunStep, Mkdirs, MountCheck, Clean, Aside, MkView, Symlink, Serve, ServeFails, Rollback,
         Spawn, SpawnFails, Claim, ClaimFault, Lost, Close, Wait, Down, Clear, Busy, Ended
<1>3. pc'[q] = pc[q]
  BY <1>1 DEF RunStep, Mkdirs, MountCheck, Clean, Aside, MkView, Symlink, Serve, ServeFails, Rollback,
         Spawn, SpawnFails, Claim, ClaimFault, Lost, Close, Wait, Down, Clear, Goto, Call
<1>4. ret'[q] = ret[q] /\ to'[q] = to[q]
  BY <1>1 DEF RunStep, Mkdirs, MountCheck, Clean, Aside, MkView, Symlink, Serve, ServeFails, Rollback,
         Spawn, SpawnFails, Claim, ClaimFault, Lost, Close, Wait, Down, Clear, Call
<1>5. QED
  BY <1>2, <1>3, <1>4

LEMMA OnlyOneDrops ==
  ASSUME Inv, NEW d \in Drop, DropStep(d), NEW q \in Proc, q # d
  PROVE  Busy(d) /\ pc'[q] = pc[q] /\ ret'[q] = ret[q] /\ to'[q] = to[q]
<1>1. /\ pc \in [Proc -> Labels]
      /\ ret \in [Proc -> [ok : Continuations, err : Continuations]]
  BY DEF Inv, Control, TypeOK
<1>2. Busy(d)
  BY DEF DropStep, DropTerminate, DropLoop, DropVerdict, DropSweep, DropDelete, DropSwept, DropAgain,
         DropRecheck, DropGuard, DropRename, DropTrashed, DropUndo, DropRemove, Busy, Ended
<1>3. pc'[q] = pc[q]
  BY <1>1 DEF DropStep, DropTerminate, DropLoop, DropVerdict, DropSweep, DropDelete, DropSwept, DropAgain,
         DropRecheck, DropGuard, DropRename, DropTrashed, DropUndo, DropRemove, Goto, Call
<1>4. ret'[q] = ret[q] /\ to'[q] = to[q]
  BY <1>1 DEF DropStep, DropTerminate, DropLoop, DropVerdict, DropSweep, DropDelete, DropSwept, DropAgain,
         DropRecheck, DropGuard, DropRename, DropTrashed, DropUndo, DropRemove, Call
<1>5. QED
  BY <1>2, <1>3, <1>4

\* A command that takes a step, for such a user, is the only one under way.
LEMMA Alone ==
  ASSUME Inv, setup.patient, Lone, NEW p \in Proc, Step(p), NEW q \in Proc, q # p
  PROVE  ~Busy(q) /\ pc'[q] = pc[q] /\ ret'[q] = ret[q] /\ to'[q] = to[q]
<1>1. /\ pc \in [Proc -> Labels] /\ to \in [Proc -> Place \cup {None}]
      /\ ret \in [Proc -> [ok : Continuations, err : Continuations]]
  BY DEF Inv, Control, TypeOK
<1>2. CASE Gate(p) \/ DropStart(p)
  BY <1>1, <1>2 DEF Gate, DropStart, Turn, Goto, Busy
<1>3. CASE Recover(p) \/ Scan(p)
  BY <1>1, <1>3 DEF Recover, Scan, Goto, Call, Busy, Ended, Lone
<1>4. CASE Crash(p)
  BY <1>1, <1>4, CrashAssumption DEF Crash, Goto, Busy, Ended, Lone
<1>5. CASE Unmount(p)
  BY <1>5, OnlyOneUnmounts DEF Lone
<1>6. CASE p \in Run /\ RunStep(p)
  BY <1>6, OnlyOneRuns DEF Lone
<1>7. CASE p \in Drop /\ DropStep(p)
  BY <1>7, OnlyOneDrops DEF Lone
<1>8. QED
  BY <1>2, <1>3, <1>4, <1>5, <1>6, <1>7 DEF Step, Command

LEMMA LoneNext ==
  ASSUME Inv, setup.patient, Lone, [Next]_vars
  PROVE  Lone'
<1>1. ASSUME NEW p \in Proc, Step(p) PROVE Lone'
  BY <1>1, Alone DEF Lone, Busy
<1>2. CASE \E r \in Run : Exit(r)
  BY <1>2 DEF Exit, Lone, Busy
<1>3. ASSUME NEW x \in Diff, Again(x) PROVE Lone'
  BY <1>3 DEF Again, Goto, Lone, Busy, Inv, Control
<1>4. CASE Meddle \/ MakeWay
  BY <1>4 DEF Meddle, MakeWay, Lone, Busy
<1>5. CASE UNCHANGED vars
  BY <1>5 DEF vars, Lone, Busy
<1>6. QED
  BY <1>1, <1>2, <1>3, <1>4, <1>5, Steps

\* A command that is not under way is at none of the labels.
LEMMA RestingNext ==
  ASSUME NEW q \in Proc, ~Busy(q)', (ret[q].err \in Back)'
  PROVE  Linked(q)'
  BY DEF Busy, Ended, Linked

\* unmount and restore return with no link at the target, or fail to where it does not
\* matter.
LEMMA UnmountLinks ==
  ASSUME Inv, NoLinkAside, NEW p \in Proc, Linked(p), Unmount(p)
  PROVE  Linked(p)' /\ NoLinkAside'
<1>1. /\ pc \in [Proc -> Labels] /\ ret[p].ok \in Continuations /\ ret[p].err \in Back
      /\ ret' = ret /\ setup' = setup
  BY DEF Inv, Control, Linked, Unmount, UnmountMac, Wipe, Unlink, UnmountWin, FindReal, Restore, PutBack, bounds
<1>2. \A l : pc' = [pc EXCEPT ![p] = l] => pc'[p] = l
  BY <1>1
<1>3. ASSUME pc'[p] \in Back PROVE Linked(p)'
  BY <1>1, <1>3 DEF Linked, Back
<1>4. ASSUME pc'[p] = ret[p].ok, ~IsLink(at') PROVE Linked(p)'
  BY <1>1, <1>4 DEF Linked, Continuations, IsLink
<1>5. ASSUME pc'[p] \in {"find", "restore", "putback"}, ~IsLink(at') PROVE Linked(p)'
  BY <1>1, <1>5 DEF Linked, IsLink
<1>6. ASSUME pc'[p] \in {"wipe", "unlink"}, at'.kind = "link" PROVE Linked(p)'
  BY <1>1, <1>6 DEF Linked
<1>7. ~IsLink(Nothing)
  BY DEF IsLink, Nothing
<1> USE <1>1, <1>2 DEF Goto, Return, Fail
<1>8. CASE UnmountMac(p)
  BY <1>3, <1>4, <1>5, <1>6, <1>8 DEF UnmountMac, NoLinkAside
<1>9. CASE Wipe(p)
  <2>1. at' = at /\ at.kind = "link" /\ pc'[p] = "unlink"
    BY <1>9 DEF Wipe, Linked
  <2>2. \A q \in Place : home'[q].real = home[q].real
    BY <1>9 DEF Wipe, WipeView, Inv, TypeOK
  <2>3. QED
    BY <1>6, <2>1, <2>2 DEF NoLinkAside
<1>10. CASE Unlink(p)
  BY <1>3, <1>5, <1>7, <1>10 DEF Unlink, NoLinkAside
<1>11. CASE UnmountWin(p)
  BY <1>3, <1>5, <1>7, <1>11 DEF UnmountWin, NoLinkAside
<1>12. CASE FindReal(p)
  BY <1>4, <1>5, <1>12 DEF FindReal, NoLinkAside, Linked
<1>13. CASE Restore(p)
  BY <1>3, <1>4, <1>5, <1>7, <1>13 DEF Restore, NoLinkAside, Linked
<1>14. CASE PutBack(p)
  <2>1. ~IsLink(at) /\ to[p] \in Place
    BY <1>14 DEF PutBack, Linked, Inv, Control
  <2>2. \A q \in Place : home'[q].real = home[q].real \/ home'[q].real = Nothing
    BY <1>14 DEF PutBack, Inv, TypeOK
  <2>3. \/ at' = at /\ pc'[p] = ret[p].err
        \/ at' = home[to[p]].real /\ pc'[p] = ret[p].ok
    BY <1>14 DEF PutBack
  <2>4. QED
    BY <1>3, <1>4, <1>7, <2>1, <2>2, <2>3 DEF NoLinkAside
<1>15. QED
  BY <1>8, <1>9, <1>10, <1>11, <1>12, <1>13, <1>14 DEF Unmount

LEMMA RunLinks ==
  ASSUME Inv, NoLinkAside, NEW r \in Run, Linked(r), RunStep(r)
  PROVE  Linked(r)' /\ NoLinkAside'
<1>1. /\ pc \in [Proc -> Labels] /\ ret[r].err \in Back /\ r \in Proc
      /\ ret \in [Proc -> [ok : Continuations, err : Continuations]]
  BY Sorts DEF Inv, Control, Linked
<1>2. /\ setup' = setup /\ (Mac' <=> Mac) /\ Of(r)' = Of(r)
      /\ home \in [Place -> Directory] /\ Of(r) \in Place
  <2>1. setup' = setup /\ pc[r] # "idle"
    BY DEF RunStep, Mkdirs, MountCheck, Clean, Aside, MkView, Symlink, Serve, ServeFails, Rollback,
           Spawn, SpawnFails, Claim, ClaimFault, Lost, Close, Wait, Down, Clear, bounds
  <2>2. QED
    BY <1>1, <2>1, Given, Sorts DEF Inv, Control, TypeOK, Mac, Of, Directory
<1>3. \A l : pc' = [pc EXCEPT ![r] = l] => pc'[r] = l
  BY <1>1
<1>4. ret'[r].err \in Back
  <2>1. ret' = ret \/ \E o \in Continuations, b \in Back : ret' = [ret EXCEPT ![r] = [ok |-> o, err |-> b]]
    BY DEF RunStep, Mkdirs, MountCheck, Clean, Aside, MkView, Symlink, Serve, ServeFails, Rollback,
           Spawn, SpawnFails, Claim, ClaimFault, Lost, Close, Wait, Down, Clear, Call, Continuations, Back
  <2>2. QED
    BY <1>1, <2>1
<1>5. ~IsLink(Nothing) /\ Nothing.kind # "link"
  BY DEF IsLink, Nothing
<1> USE <1>1, <1>2, <1>3, <1>4 DEF Goto, Call
<1>6. CASE Mkdirs(r)
  <2>1. NoLinkAside'
    BY <1>6 DEF Mkdirs, NoLinkAside, Directory
  <2>2. QED
    BY <1>6, <2>1 DEF Mkdirs, Linked
<1>7. CASE MountCheck(r)
  BY <1>7 DEF MountCheck, Linked, NoLinkAside
<1>8. CASE Clean(r)
  <2>1. NoLinkAside'
    BY <1>8 DEF Clean, WipeView, NoLinkAside, Directory
  <2>2. QED
    BY <1>8, <2>1 DEF Clean, Linked
<1>9. CASE Aside(r)
  <2>1. NoLinkAside'
    BY <1>9 DEF Aside, Linked, NoLinkAside, Directory
  <2>2. Linked(r)'
    <3>1. CASE pc'[r] = "end"
      BY <3>1 DEF Linked
    <3>2. CASE at' = Nothing /\ pc'[r] = IF Mac THEN "mkview" ELSE "serve"
      BY <3>2 DEF Linked
    <3>3. QED
      BY <1>9, <3>1, <3>2 DEF Aside
  <2>3. QED
    BY <2>1, <2>2
<1>10. CASE MkView(r)
  <2>1. NoLinkAside'
    BY <1>5, <1>10 DEF MkView, NoLinkAside, Directory, Fresh, Gone
  <2>2. QED
    BY <1>10, <2>1 DEF MkView, Linked
<1>11. CASE Symlink(r)
  <2>1. at' = Link(Of(r)) /\ pc'[r] = "serve" /\ home' = home
    BY <1>11 DEF Symlink, Linked
  <2>2. Mac
    BY <1>11 DEF Symlink, Linked
  <2>3. QED
    BY <2>1, <2>2 DEF Linked, NoLinkAside
<1>12. CASE Serve(r)
  BY <1>12 DEF Serve, Linked, NoLinkAside
<1>13. CASE ServeFails(r)
  BY <1>13 DEF ServeFails, Linked, NoLinkAside
<1>14. CASE Rollback(r)
  <2>1. ~IsLink(at') /\ pc'[r] = "restore" /\ home' = home
    BY <1>5, <1>14 DEF Rollback, Linked, IsLink
  <2>2. QED
    BY <2>1 DEF Linked, NoLinkAside, IsLink
<1>15. CASE Spawn(r)
  BY <1>15 DEF Spawn, Linked, NoLinkAside
<1>16. CASE SpawnFails(r) \/ Lost(r) \/ Close(r) \/ Wait(r) \/ Down(r) \/ ClaimFault(r)
  BY <1>16 DEF SpawnFails, Lost, Close, Wait, Down, ClaimFault, Linked, NoLinkAside
<1>17. CASE Claim(r) \/ Clear(r)
  <2>1. home' = home \/ \E y : home' = [home EXCEPT ![Of(r)].pid = y]
    BY <1>17 DEF Claim, Clear
  <2>2. \A q \in Place : home'[q].real = home[q].real
    BY <2>1, OnlyPid
  <2>3. NoLinkAside'
    BY <2>2 DEF NoLinkAside
  <2>4. QED
    BY <1>17, <2>3 DEF Claim, Clear, Linked
<1>18. QED
  BY <1>6, <1>7, <1>8, <1>9, <1>10, <1>11, <1>12, <1>13, <1>14, <1>15, <1>16, <1>17 DEF RunStep

\* A drop calls unmount, and moves directories, but does not touch the target itself.
LEMMA DropLinks ==
  ASSUME Inv, NoLinkAside, NEW d \in Drop, Linked(d), DropStep(d)
  PROVE  Linked(d)' /\ NoLinkAside'
<1>1. /\ pc \in [Proc -> Labels] /\ ret[d].err \in Back /\ d \in Proc /\ d \in Place
      /\ ret \in [Proc -> [ok : Continuations, err : Continuations]]
      /\ home \in [Place -> Directory] /\ Of(d) \in Place
  <2>1. pc[d] # "idle"
    BY DEF DropStep, DropTerminate, DropLoop, DropVerdict, DropSweep, DropDelete, DropSwept, DropAgain,
           DropRecheck, DropGuard, DropRename, DropTrashed, DropUndo, DropRemove
  <2>2. QED
    BY <2>1, Given, Sorts DEF Inv, Control, TypeOK, Linked, Directory
<1>2. ret'[d].err \in Back
  <2>1. ret' = ret \/ \E o \in {"loop", "recheck"} : ret' = [ret EXCEPT ![d] = [ok |-> o, err |-> o]]
    BY DEF DropStep, DropTerminate, DropLoop, DropVerdict, DropSweep, DropDelete, DropSwept, DropAgain,
           DropRecheck, DropGuard, DropRename, DropTrashed, DropUndo, DropRemove, Call
  <2>2. QED
    BY <1>1, <2>1 DEF Back
<1>3. pc'[d] \in {"loop", "again", "end", "sweep", "unmount", "delete", "guard", "rename", "trashed",
                  "undo", "remove", "ok"}
  BY <1>1 DEF DropStep, DropTerminate, DropLoop, DropVerdict, DropSweep, DropDelete, DropSwept, DropAgain,
         DropRecheck, DropGuard, DropRename, DropTrashed, DropUndo, DropRemove, Goto, Call
<1>4. Linked(d)'
  BY <1>2, <1>3 DEF Linked
<1>5. ~IsLink(Gone.real)
  BY DEF IsLink, Gone, Nothing
<1>6. CASE home' = home
  BY <1>4, <1>6 DEF NoLinkAside
<1>7. CASE DropDelete(d) \/ DropRename(d) \/ DropUndo(d) \/ DropRemove(d)
  BY <1>1, <1>4, <1>5, <1>7 DEF DropDelete, DropRename, DropUndo, DropRemove, NoLinkAside
<1>8. QED
  BY <1>4, <1>6, <1>7 DEF DropStep, DropTerminate, DropLoop, DropVerdict, DropSweep, DropSwept, DropAgain,
     DropRecheck, DropGuard, DropTrashed

LEMMA OtherLinks ==
  ASSUME Inv, NoLinkAside, NEW p \in Proc, Linked(p),
         Gate(p) \/ DropStart(p) \/ Recover(p) \/ Scan(p) \/ Crash(p)
  PROVE  Linked(p)' /\ NoLinkAside'
<1>1. /\ pc \in [Proc -> Labels] /\ ret[p].err \in Back
      /\ ret \in [Proc -> [ok : Continuations, err : Continuations]]
  BY DEF Inv, Control, Linked
<1>2. NoLinkAside'
  BY DEF Gate, DropStart, Recover, Scan, Crash, NoLinkAside
<1>3. CASE Gate(p) \/ DropStart(p) \/ Scan(p) \/ Crash(p)
  <2>1. pc'[p] \in {"recover", "end", "loop", "sweep", "ok", "dead"} /\ ret' = ret
    BY <1>1, <1>3 DEF Gate, DropStart, Scan, Crash, Goto
  <2>2. QED
    BY <1>1, <1>2, <2>1 DEF Linked
<1>4. CASE Recover(p)
  <2>1. at' = at /\ ret'[p].err \in Back
    BY <1>1, <1>4 DEF Recover, Call, Back
  <2>2. pc'[p] \in {"unmount", "end"} \/ (pc'[p] \in {"mkdirs", "scan"} /\ ~IsLink(at))
    <3>1. CASE IsMounted
      <4>1. pc' = [pc EXCEPT ![p] = "unmount"] \/ pc' = [pc EXCEPT ![p] = "end"]
        BY <1>4, <3>1 DEF Recover, Call, Goto
      <4>2. QED
        BY <1>1, <4>1
    <3>2. CASE ~IsMounted
      <4>1. ~IsLink(at)
        BY <3>2 DEF IsMounted
      <4>2. pc'[p] = AfterRecover(p)
        BY <1>1, <1>4, <3>2 DEF Recover, Goto
      <4>3. QED
        BY <4>1, <4>2 DEF AfterRecover
    <3>3. QED
      BY <3>1, <3>2
  <2>3. QED
    BY <1>2, <2>1, <2>2 DEF Linked, IsLink
<1>5. QED
  BY <1>3, <1>4

LEMMA CalmInit == Init => Calm
<1> SUFFICES ASSUME Init PROVE Calm
  OBVIOUS
<1>1. \A p \in Proc : pc[p] = "idle" /\ ret[p].err = "end"
  BY DEF Init
<1>2. \A q \in Place : home[q].real = Nothing
  BY DEF Init, Fresh, Gone
<1>3. QED
  BY <1>1, <1>2 DEF Calm, Lone, Busy, NoLinkAside, IsLink, Nothing, Linked, Back

LEMMA CalmNext ==
  ASSUME Inv, setup.patient, Calm, [Next]_vars
  PROVE  Calm'
<1>1. Lone'
  BY LoneNext DEF Calm
<1>2. \A q \in Proc : ret[q].err \in Back /\ Linked(q)
  BY DEF Calm, Linked
<1>3. ASSUME NEW p \in Proc, Step(p) PROVE NoLinkAside' /\ \A q \in Proc : Linked(q)'
  <2>1. Linked(p)' /\ NoLinkAside'
    BY <1>3, UnmountLinks, RunLinks, DropLinks, OtherLinks DEF Calm, Step, Command
  <2>2. ASSUME NEW q \in Proc, q # p PROVE Linked(q)'
    BY <1>2, <1>3, <2>2, Alone, RestingNext DEF Calm, Busy
  <2>3. QED
    BY <2>1, <2>2
<1>4. CASE \E r \in Run : Exit(r)
  <2>1. UNCHANGED <<setup, at, home, pc, ret>>
    BY <1>4 DEF Exit, bounds
  <2>2. QED
    BY <1>1, <2>1 DEF Calm, NoLinkAside, Linked, Mac, Of
<1>5. ASSUME NEW x \in Diff, Again(x) PROVE NoLinkAside' /\ \A q \in Proc : Linked(q)'
  <2>1. NoLinkAside' /\ setup' = setup /\ at' = at /\ ret' = ret
    BY <1>5 DEF Again, bounds, Calm, NoLinkAside
  <2>2. \A q \in Proc : pc'[q] = pc[q] \/ pc'[q] = "idle"
    BY <1>5 DEF Again, Goto, Inv, Control
  <2>3. ASSUME NEW q \in Proc PROVE Linked(q)'
    BY <1>2, <2>1, <2>2 DEF Linked, Mac, Of
  <2>4. QED
    BY <2>1, <2>3
<1>6. CASE Meddle \/ MakeWay
  <2>1. /\ \A p \in Proc : pc[p] \in Ended \cup {"idle", "running"}
        /\ pc' = pc /\ ret' = ret /\ home' = home
    BY <1>6 DEF Meddle, MakeWay
  <2>2. ASSUME NEW q \in Proc PROVE Linked(q)'
    BY <1>2, <2>1 DEF Linked, Ended
  <2>3. QED
    BY <1>1, <2>1, <2>2 DEF Calm, NoLinkAside
<1>7. CASE UNCHANGED vars
  BY <1>1, <1>7 DEF vars, Calm, NoLinkAside, Linked, Mac, Of
<1>8. QED
  BY <1>1, <1>3, <1>4, <1>5, <1>6, <1>7, Steps DEF Calm

\* What is somebody else's stays at the target until they take it away.
LEMMA ForeignStays ==
  ASSUME Inv, Calm, [Next]_vars, at = Foreign, at' # at
  PROVE  MakeWay
<1>1. at.kind = "foreign" /\ IsLink(at) /\ at # Nothing /\ at # Empty /\ \A y : at # Link(y)
  BY DEF Foreign, IsLink, Nothing, Empty, Link
<1>2. \A p \in Proc : pc[p] \notin {"unlink", "putback", "restore", "aside", "mkview", "link", "serve", "rollback"}
  <2>1. ASSUME NEW p \in Proc, pc[p] \in {"serve", "rollback"} PROVE FALSE
    BY <1>1, <2>1 DEF Calm, Linked
  <2>2. QED
    BY <1>1, <2>1 DEF Calm, Linked
<1>3. ASSUME NEW p \in Proc, Unmount(p) PROVE FALSE
  BY <1>1, <1>2, <1>3 DEF Unmount, UnmountMac, Wipe, Unlink, UnmountWin, FindReal, Restore, PutBack
<1>4. ASSUME NEW r \in Run, RunStep(r) PROVE FALSE
  <2>1. r \in Proc
    BY Sorts
  <2>2. QED
    BY <1>1, <1>2, <1>4, <2>1 DEF RunStep, Mkdirs, MountCheck, Clean, Aside, MkView, Symlink, Serve,
       ServeFails, Rollback, Spawn, SpawnFails, Claim, ClaimFault, Lost, Close, Wait, Down, Clear, EndSession
<1>5. ASSUME NEW d \in Drop, DropStep(d) PROVE FALSE
  BY <1>5 DEF DropStep, DropTerminate, DropLoop, DropVerdict, DropSweep, DropDelete, DropSwept, DropAgain,
     DropRecheck, DropGuard, DropRename, DropTrashed, DropUndo, DropRemove
<1>6. ASSUME NEW p \in Proc, Step(p) PROVE FALSE
  BY <1>1, <1>3, <1>4, <1>5, <1>6 DEF Step, Command, Gate, DropStart, Recover, Scan, Crash, EndSession
<1>7. QED
  BY <1>1, <1>6, Steps DEF Exit, Again, Meddle, vars

\* The user, of each situation that is looked at, waits.
Patient == \A s \in Setups : s.patient

\* What a patient user's commands find at the target, at each label.
LEMMA Calmness == Spec => [](setup.patient => Calm)
<1>1. Inv /\ (setup.patient => Calm) /\ [Next]_vars => (setup.patient => Calm)'
  BY CalmNext, SetupStays
<1>2. QED
  BY <1>1, CalmInit, Invariance, PTL DEF Spec

\* macos.rs:1067-1072, winfsp.rs:143-147: a symlink or mount of others at the target
\* goes only when they take it away.
THEOREM ForeignUntouched == ASSUME Patient PROVE Spec => ForeignKept
<1>1. Inv /\ (setup.patient => Calm) /\ [Next]_vars => [at = Foreign /\ at' # at => MakeWay]_vars
  BY ForeignStays DEF Patient, Inv, TypeOK
<1>2. QED
  BY <1>1, Calmness, Invariance, PTL DEF Spec, ForeignKept

-----------------------------------------------------------------------------
(* Layers and the views of them that are served                            *)

Calling == {"unmount", "wipe", "unlink", "find", "restore", "putback"}
Early == {"idle", "recover", "mkdirs", "mount", "clean", "aside", "mkview", "link", "serve",
          "rollback", "spawn"}

\* A run that has not spawned yet.
Before(r) == pc[r] \in Early \/ (pc[r] \in Calling /\ ret[r].ok \in {"mkdirs", "clean", "aside"})

\* A run or a diff past its gate has its state directory, and until a run records its own
\* child it records none that lives.
Housed(p) ==
  /\ p \in Run \cup Diff /\ Busy(p) => home[Of(p)].shape = "there"
  /\ p \in Run /\ Before(p) => kid[p] = "none"
  /\ p \in Run /\ Busy(p) /\ (Before(p) \/ pc[p] = "claim") => ~Running(Of(p))
  /\ p \in Run /\ pc[p] = "claim" => kid[p] # "none" /\ \A q \in Place : home[q].pid # p

Spawned == \A q \in Place, r \in Run : home[q].pid = r => kid[r] # "none"

\* As long as every run could record its child, views are served only between the mount
\* and its teardown, and nothing was removed through one.
Served ==
  faults = 0 =>
    /\ \A p \in Proc : pc[p] # "lost"
    /\ \A r \in serving : pc[r] \in {"spawn", "claim", "running", "down"}
    /\ \A q \in Place : ~home[q].wiped

Ready == (\A p \in Proc : Housed(p)) /\ Spawned /\ Served /\ faults \in Nat

\* Children other than those of the command that takes a step can only end.
OthersKids(p) ==
  \A r \in Run \ {p} : kid'[r] = kid[r] \/ (kid[r] = "live" /\ kid'[r] \in {"zombie", "gone"})

\* Whoever is not under way stays where it is.
LEMMA HousedRest ==
  ASSUME NEW p \in Proc, OthersKids(p), NEW q \in Proc, q # p, ~Busy(q), pc'[q] = pc[q],
         Housed(q)
  PROVE  Housed(q)'
<1>1. ~Busy(q)'
  BY DEF Busy
<1>2. q \in Run /\ Before(q)' => pc[q] = "idle"
  BY <1>1 DEF Before, Busy, Ended, Early, Calling
<1>3. q \in Run /\ Before(q)' => kid'[q] = "none"
  BY <1>2 DEF Housed, Before, Early, OthersKids
<1>4. pc'[q] # "claim"
  BY <1>1 DEF Busy, Ended
<1>5. QED
  BY <1>1, <1>3, <1>4 DEF Housed

\* Nobody starts to run by what is done to another directory or child.
LEMMA StillNotRunning ==
  ASSUME Inv, NEW w \in Place, ~Running(w), home'[w].pid = home[w].pid,
         \A r \in Run : home[w].pid = r =>
           kid'[r] = kid[r] \/ kid'[r] \notin {"live", "zombie"} \/ kid[r] = "live"
  PROVE  ~Running(w)'
<1>1. home[w].pid \in Run \cup {None}
  BY DEF Inv, TypeOK
<1>2. QED
  BY <1>1 DEF Running

LEMMA UnmountReady ==
  ASSUME Inv, Calm, Ready, NEW p \in Proc, Unmount(p)
  PROVE  Housed(p)' /\ Spawned' /\ Served' /\ faults' \in Nat
<1>1. /\ UNCHANGED <<setup, faults, kid, serving, ret>>
      /\ pc \in [Proc -> Labels] /\ ret[p].ok \in Continuations /\ ret[p].err \in Continuations
      /\ home \in [Place -> Directory]
      /\ pc[p] \in Calling
  BY DEF Inv, Control, TypeOK, Directory, Unmount, UnmountMac, Wipe, Unlink, UnmountWin, FindReal, Restore,
     PutBack, bounds, Calling
<1>2. pc'[p] \in Calling \cup {ret[p].ok, ret[p].err}
  BY <1>1 DEF Unmount, UnmountMac, Wipe, Unlink, UnmountWin, FindReal, Restore, PutBack, Goto, Return, Fail,
     Calling
<1>3. \A q \in Place : home'[q].shape = home[q].shape /\ home'[q].pid = home[q].pid
  BY <1>1 DEF Unmount, UnmountMac, Wipe, WipeView, Unlink, UnmountWin, FindReal, Restore, PutBack, Directory
<1>4. pc'[p] # "lost" /\ pc'[p] # "claim" /\ \A q \in Proc : q # p => pc'[q] = pc[q]
  BY <1>1, <1>2, OnlyOneUnmounts DEF Calling, Continuations
<1>5. p \in Run => p \in DOMAIN setup.of
  BY <1>1 DEF Inv, Control, Calling
<1>6. Of(p)' = Of(p) /\ (p \in Run \cup Diff => Of(p) \in Place)
  BY <1>1, Given, Sorts DEF Of, Inv, Control, TypeOK, Calling
<1>7. Busy(p)
  BY <1>1 DEF Busy, Ended, Calling
<1>8. Before(p)' => Before(p)
  <2>1. ret[p].err \in Back
    BY DEF Calm, Linked
  <2>2. \A l \in Back : l \notin Early /\ l \notin Calling
    BY DEF Back, Early, Calling
  <2>3. ret[p].ok \in Early => ret[p].ok \in {"mkdirs", "clean", "aside"}
    BY <1>1 DEF Continuations, Early
  <2>4. \A l \in Calling : l \notin Early
    BY DEF Calling, Early
  <2>5. ret[p].ok \notin Calling
    BY <1>1 DEF Continuations, Calling
  <2>6. QED
    BY <1>1, <1>2, <2>1, <2>2, <2>3, <2>4, <2>5 DEF Before
<1>9. Housed(p)'
  <2>1. p \in Run \cup Diff => home'[Of(p)].shape = "there"
    BY <1>3, <1>6, <1>7 DEF Ready, Housed
  <2>2. p \in Run /\ Before(p)' => kid'[p] = "none" /\ ~Running(Of(p))'
    BY <1>1, <1>3, <1>6, <1>7, <1>8, StillNotRunning DEF Ready, Housed
  <2>3. QED
    BY <1>4, <1>6, <2>1, <2>2 DEF Housed, Running
<1>10. Spawned'
  BY <1>1, <1>3 DEF Ready, Spawned
<1>11. Served'
  <2>1. ASSUME faults = 0 PROVE \A r \in serving : r # p /\ r \in Run
    BY <1>1, <2>1 DEF Ready, Served, Inv, TypeOK, Calling
  <2>2. ASSUME faults = 0 PROVE \A q \in Place : home'[q].wiped = home[q].wiped
    <3>1. \A r \in serving : Busy(r) /\ r \in Proc
      BY <2>2, Sorts DEF Ready, Served, Inv, TypeOK, Busy, Ended
    <3>2. serving = {}
      BY <1>7, <2>1, <2>2, <3>1 DEF Calm, Lone
    <3>3. QED
      BY <1>1, <3>2 DEF Unmount, UnmountMac, Wipe, WipeView, Unlink, UnmountWin, FindReal, Restore, PutBack, Directory
  <2>3. ASSUME faults = 0, NEW r \in serving PROVE pc'[r] = pc[r]
    BY <1>4, <2>1, <2>3, Sorts
  <2>4. QED
    BY <1>1, <1>4, <2>2, <2>3 DEF Ready, Served
<1>12. QED
  BY <1>1, <1>9, <1>10, <1>11 DEF Ready

LEMMA RunReady ==
  ASSUME Inv, Calm, Ready, NEW r \in Run, RunStep(r)
  PROVE  Housed(r)' /\ Spawned' /\ Served' /\ faults' \in Nat
<1>1. /\ pc \in [Proc -> Labels] /\ home \in [Place -> Directory] /\ r \in Proc /\ r \notin Diff
      /\ kid \in [Run -> {"none", "live", "zombie", "gone"}] /\ serving \subseteq Run
      /\ ret \in [Proc -> [ok : Continuations, err : Continuations]]
      /\ faults \in Nat
  BY Sorts DEF Inv, Control, TypeOK, Directory, Ready
<1>2. Busy(r)
  BY DEF RunStep, Mkdirs, MountCheck, Clean, Aside, MkView, Symlink, Serve, ServeFails, Rollback,
         Spawn, SpawnFails, Claim, ClaimFault, Lost, Close, Wait, Down, Clear, Busy, Ended
<1>3. setup' = setup /\ Of(r)' = Of(r) /\ Of(r) \in Place
  <2>1. setup' = setup
    BY DEF RunStep, Mkdirs, MountCheck, Clean, Aside, MkView, Symlink, Serve, ServeFails, Rollback,
           Spawn, SpawnFails, Claim, ClaimFault, Lost, Close, Wait, Down, Clear, bounds
  <2>2. QED
    BY <1>1, <1>2, <2>1, Given, Sorts DEF Inv, Control, TypeOK, Of, Busy
<1>4. home[Of(r)].shape = "there" /\ Housed(r)
  BY <1>1, <1>2 DEF Ready, Housed
<1>5. \A l : pc' = [pc EXCEPT ![r] = l] => pc'[r] = l
  BY <1>1
<1>6. \A q \in Proc : q # r => pc'[q] = pc[q]
  BY OnlyOneRuns
<1>7. ASSUME faults = 0
      PROVE  /\ serving \subseteq {r} /\ pc[r] # "lost" /\ \A q \in Proc : pc[q] # "lost"
             /\ r \in serving => pc[r] \in {"spawn", "claim", "running", "down"}
             /\ \A q \in Place : ~home[q].wiped
  <2>1. \A q \in serving : Busy(q) /\ q \in Proc
    BY <1>1, <1>7, Sorts DEF Ready, Served, Busy, Ended
  <2>2. QED
    BY <1>1, <1>2, <1>7, <2>1 DEF Ready, Served, Calm, Lone
<1>8. ASSUME kid' = kid, \A q \in Place : home'[q].shape = home[q].shape /\ home'[q].pid = home[q].pid,
             Before(r)' => Before(r), pc'[r] # "claim"
      PROVE  Housed(r)' /\ Spawned'
  <2>1. Before(r)' => kid'[r] = "none" /\ ~Running(Of(r))'
    BY <1>2, <1>3, <1>4, <1>8, StillNotRunning DEF Housed
  <2>2. Housed(r)'
    BY <1>1, <1>3, <1>4, <1>8, <2>1 DEF Housed, Running
  <2>3. QED
    BY <1>8, <2>2 DEF Ready, Spawned
<1>9. ASSUME faults' = faults, pc'[r] # "lost", \A q \in Place : home'[q].wiped = home[q].wiped,
             serving' \subseteq serving \cup {r},
             r \in serving' /\ faults = 0 => pc'[r] \in {"spawn", "claim", "running", "down"}
      PROVE  Served'
  <2>1. ASSUME faults = 0, NEW q \in serving' PROVE pc'[q] \in {"spawn", "claim", "running", "down"}
    BY <1>7, <1>9, <2>1
  <2>2. QED
    BY <1>6, <1>7, <1>9, <2>1 DEF Served
<1>10. ASSUME pc'[r] \notin Early, pc'[r] \notin Calling \/ ret'[r].ok \notin {"mkdirs", "clean", "aside"}
       PROVE  ~Before(r)'
  BY <1>10 DEF Before
<1>11. pc[r] \in Early => Before(r)
  BY DEF Before
<1> USE <1>1, <1>3, <1>5 DEF Goto, Call
<1>12. CASE Mkdirs(r)
  BY <1>4, <1>7, <1>8, <1>9, <1>11, <1>12 DEF Mkdirs, Early, bounds
<1>13. CASE MountCheck(r)
  <2>1. /\ home' = home /\ kid' = kid /\ faults' = faults /\ serving' = serving /\ pc[r] = "mount"
        /\ pc'[r] \in {"restore", "end", "clean", "aside"}
    BY <1>13 DEF MountCheck, bounds
  <2>2. Before(r) /\ pc[r] \notin {"spawn", "claim", "running", "down"}
    BY <1>11, <2>1 DEF Early
  <2>3. Housed(r)' /\ Spawned'
    BY <1>8, <2>1, <2>2
  <2>4. Served' /\ faults' \in Nat
    BY <1>7, <1>9, <2>1, <2>2
  <2>5. QED
    BY <2>3, <2>4
<1>14. CASE Clean(r)
  <2>1. \A q \in Place : home'[q].shape = home[q].shape /\ home'[q].pid = home[q].pid
    BY <1>14 DEF Clean, WipeView, Directory
  <2>2. ASSUME faults = 0 PROVE home' = home
    BY <1>7, <1>14, <2>2 DEF Clean, WipeView
  <2>3. Housed(r)' /\ Spawned'
    BY <1>8, <1>11, <1>14, <2>1 DEF Clean, Early
  <2>4. Served' /\ faults' \in Nat
    BY <1>6, <1>7, <1>14, <2>2 DEF Clean, Served, bounds
  <2>5. QED
    BY <2>3, <2>4
<1>15. CASE Aside(r)
  <2>1. \A q \in Place : /\ home'[q].shape = home[q].shape /\ home'[q].pid = home[q].pid
                         /\ home'[q].wiped = home[q].wiped
    BY <1>15 DEF Aside, Directory
  <2>2. Housed(r)' /\ Spawned'
    BY <1>8, <1>11, <1>15, <2>1 DEF Aside, Early
  <2>3. Served' /\ faults' \in Nat
    BY <1>7, <1>9, <1>15, <2>1 DEF Aside, bounds
  <2>4. QED
    BY <2>2, <2>3
<1>16. CASE MkView(r)
  BY <1>4, <1>7, <1>8, <1>9, <1>11, <1>16 DEF MkView, Early, bounds
<1>17. CASE Symlink(r)
  BY <1>7, <1>8, <1>9, <1>11, <1>17 DEF Symlink, Early, bounds
<1>18. CASE Serve(r)
  BY <1>7, <1>8, <1>9, <1>11, <1>18 DEF Serve, Early, bounds
<1>19. CASE ServeFails(r)
  BY <1>7, <1>8, <1>9, <1>11, <1>19 DEF ServeFails, Early, bounds
<1>20. CASE Rollback(r)
  BY <1>7, <1>8, <1>9, <1>11, <1>20 DEF Rollback, Early, bounds
<1>21. CASE Spawn(r)
  <2>1. kid[r] = "none" /\ ~Running(Of(r)) /\ \A q \in Place : home[q].pid # r
    BY <1>2, <1>4, <1>11, <1>21 DEF Spawn, Early, Housed, Ready, Spawned
  <2>2. ~Running(Of(r))'
    BY <1>21, <2>1, StillNotRunning DEF Spawn
  <2>3. Housed(r)'
    BY <1>4, <1>21, <2>1, <2>2 DEF Spawn, Housed, Before, Early, Calling, Running
  <2>4. Spawned'
    BY <1>21 DEF Spawn, Ready, Spawned
  <2>5. Served' /\ faults' \in Nat
    BY <1>7, <1>9, <1>21 DEF Spawn, bounds
  <2>6. QED
    BY <2>3, <2>4, <2>5
<1>22. CASE SpawnFails(r) \/ Close(r) \/ Down(r)
  <2>1. /\ kid' = kid /\ home' = home /\ faults' = faults
        /\ pc'[r] \notin Early /\ pc'[r] # "claim" /\ pc'[r] # "lost"
        /\ pc'[r] \notin Calling \/ ret'[r].ok \notin {"mkdirs", "clean", "aside"}
        /\ serving' = serving \ {r}
    BY <1>22 DEF SpawnFails, Close, Down, EndSession, Early, Calling, bounds
  <2>2. Housed(r)' /\ Spawned'
    BY <1>8, <1>10, <2>1
  <2>3. Served' /\ faults' \in Nat
    BY <1>9, <2>1
  <2>4. QED
    BY <2>2, <2>3
<1>23. CASE Claim(r)
  <2>1. pc[r] = "claim" /\ kid[r] # "none" /\ ~Running(Of(r))
    BY <1>2, <1>4, <1>23 DEF Claim, Housed
  <2>2. /\ home' = [home EXCEPT ![Of(r)].pid = r] /\ pc'[r] = "running" /\ kid' = kid
        /\ faults' = faults /\ serving' = serving
    BY <1>4, <1>23, <2>1 DEF Claim, bounds
  <2>3. Housed(r)'
    BY <1>4, <2>2 DEF Housed, Before, Early, Calling, Directory
  <2>4. Spawned'
    BY <2>1, <2>2 DEF Ready, Spawned, Directory
  <2>5. Served' /\ faults' \in Nat
    BY <1>9, <2>2 DEF Directory
  <2>6. QED
    BY <2>3, <2>4, <2>5
<1>24. CASE ClaimFault(r)
  <2>1. kid' = kid /\ home' = home /\ pc'[r] = "lost" /\ faults' = faults + 1
    BY <1>24 DEF ClaimFault
  <2>2. Housed(r)' /\ Spawned'
    BY <1>8, <1>10, <2>1 DEF Early, Calling
  <2>3. QED
    BY <2>1, <2>2 DEF Served
<1>25. CASE Lost(r) \/ Wait(r)
  <2>1. /\ kid' = [kid EXCEPT ![r] = "gone"] /\ home' = home /\ faults' = faults /\ serving' = serving
        /\ pc'[r] \notin Early /\ pc'[r] # "claim" /\ pc'[r] # "lost"
        /\ pc'[r] \notin Calling \/ ret'[r].ok \notin {"mkdirs", "clean", "aside"}
        /\ pc[r] = "lost" \/ pc'[r] = "down"
    BY <1>25 DEF Lost, Wait, Early, Calling, bounds
  <2>2. Housed(r)'
    BY <1>4, <1>10, <2>1 DEF Housed
  <2>3. Spawned'
    BY <2>1 DEF Ready, Spawned
  <2>4. Served' /\ faults' \in Nat
    BY <1>7, <1>9, <2>1
  <2>5. QED
    BY <2>2, <2>3, <2>4
<1>26. CASE Clear(r)
  <2>1. /\ kid' = kid /\ faults' = faults /\ serving' = serving /\ pc[r] = "clear"
        /\ pc'[r] \in {"end", "ok"}
        /\ home' = home \/ home' = [home EXCEPT ![Of(r)].pid = None]
    BY <1>26 DEF Clear, bounds
  <2>2. ~Busy(r)' /\ ~Before(r)'
    BY <1>10, <2>1 DEF Busy, Ended, Early, Calling
  <2>3. Housed(r)'
    BY <2>1, <2>2 DEF Housed
  <2>4. \A q \in Place : home'[q].wiped = home[q].wiped /\ home'[q].pid \in {home[q].pid, None}
    <3>1. CASE home' = home
      BY <3>1
    <3>2. CASE home' = [home EXCEPT ![Of(r)].pid = None]
      <4>1. home \in [Place -> Directory] /\ Of(r) \in Place
        OBVIOUS
      <4>2. QED
        BY <3>2, <4>1, OnlyPid
    <3>3. QED
      BY <2>1, <3>1, <3>2
  <2>5. Spawned'
    BY <2>1, <2>4, Sorts DEF Ready, Spawned
  <2>6. Served' /\ faults' \in Nat
    BY <1>7, <1>9, <2>1, <2>4
  <2>7. QED
    BY <2>3, <2>5, <2>6
<1>27. QED
  BY <1>12, <1>13, <1>14, <1>15, <1>16, <1>17, <1>18, <1>19, <1>20, <1>21, <1>22, <1>23, <1>24, <1>25,
     <1>26 DEF RunStep

LEMMA DropReady ==
  ASSUME Inv, Ready, NEW d \in Drop, DropStep(d)
  PROVE  Housed(d)' /\ Spawned' /\ Served' /\ faults' \in Nat
<1>1. /\ home \in [Place -> Directory] /\ d \notin Run \cup Diff /\ d \in Place
      /\ kid \in [Run -> {"none", "live", "zombie", "gone"}] /\ serving \subseteq Run
  BY Sorts DEF Inv, TypeOK, Directory
<1>2. faults' = faults /\ serving' = serving
  BY DEF DropStep, DropTerminate, DropLoop, DropVerdict, DropSweep, DropDelete, DropSwept, DropAgain,
         DropRecheck, DropGuard, DropRename, DropTrashed, DropUndo, DropRemove, bounds
<1>3. \A r \in Run : kid'[r] = "none" => kid[r] = "none"
  <2>1. \/ kid' = kid
        \/ \E l \in {"zombie", "gone"} : kid' = [kid EXCEPT ![home[Of(d)].pid] = l]
    BY DEF DropStep, DropTerminate, DropLoop, DropVerdict, DropSweep, DropDelete, DropSwept, DropAgain,
           DropRecheck, DropGuard, DropRename, DropTrashed, DropUndo, DropRemove
  <2>2. QED
    BY <1>1, <2>1
<1>4. \A q \in Place : home'[q] = Gone \/ \E s \in Place : home'[q] = home[s]
  <2>1. CASE home' = home
    BY <2>1
  <2>2. CASE DropDelete(d) \/ DropRemove(d)
    BY <1>1, <2>2 DEF DropDelete, DropRemove
  <2>3. CASE DropRename(d) \/ DropUndo(d)
    <3>1. Of(d) \in Place
      <4>1. pc[d] # "idle"
        BY <2>3 DEF DropRename, DropUndo
      <4>2. QED
        BY <4>1, Given, Sorts DEF Inv, Control, TypeOK
    <3>2. QED
      BY <1>1, <2>3, <3>1 DEF DropRename, DropUndo
  <2>4. QED
    BY <2>1, <2>2, <2>3 DEF DropStep, DropTerminate, DropLoop, DropVerdict, DropSweep, DropSwept, DropAgain,
       DropRecheck, DropGuard, DropTrashed
<1>5. Gone.pid = None /\ Gone.wiped = FALSE
  BY DEF Gone
<1>6. pc'[d] # "lost" /\ \A q \in Proc : q # d => pc'[q] = pc[q]
  <2>1. pc \in [Proc -> Labels] /\ d \in Proc
    BY Sorts DEF Inv, Control
  <2>2. pc'[d] # "lost"
    BY <2>1 DEF DropStep, DropTerminate, DropLoop, DropVerdict, DropSweep, DropDelete, DropSwept, DropAgain,
           DropRecheck, DropGuard, DropRename, DropTrashed, DropUndo, DropRemove, Goto, Call
  <2>3. QED
    BY <2>2, OnlyOneDrops
<1>7. Housed(d)'
  BY <1>1 DEF Housed
<1>8. Spawned'
  BY <1>3, <1>4, <1>5, Sorts DEF Ready, Spawned
<1>9. Served'
  <2>1. ASSUME faults = 0 PROVE \A q \in Place : ~home'[q].wiped
    BY <1>4, <1>5, <2>1 DEF Ready, Served
  <2>2. QED
    BY <1>1, <1>2, <1>6, <2>1, Sorts DEF Ready, Served
<1>10. QED
  BY <1>2, <1>7, <1>8, <1>9 DEF Ready

LEMMA OtherReady ==
  ASSUME Inv, Ready, NEW p \in Proc,
         Gate(p) \/ DropStart(p) \/ Recover(p) \/ Scan(p) \/ Crash(p)
  PROVE  Housed(p)' /\ Spawned' /\ Served' /\ faults' \in Nat
<1>1. /\ pc \in [Proc -> Labels] /\ kid \in [Run -> {"none", "live", "zombie", "gone"}]
      /\ ret \in [Proc -> [ok : Continuations, err : Continuations]]
      /\ p \in Run => p \notin Diff /\ p \notin Drop
  BY Sorts DEF Inv, Control, TypeOK
<1>2. setup' = setup /\ Of(p)' = Of(p) /\ home' = home /\ faults' = faults
  BY DEF Gate, DropStart, Recover, Scan, Crash, bounds, Of
<1>3. \A l : pc' = [pc EXCEPT ![p] = l] => pc'[p] = l /\ \A q \in Proc : q # p => pc'[q] = pc[q]
  BY <1>1
<1>4. Spawned'
  <2>1. kid' = kid \/ (p \in Run /\ kid' = [kid EXCEPT ![p] = "gone"])
    BY DEF Gate, DropStart, Recover, Scan, Crash
  <2>2. QED
    BY <1>1, <1>2, <2>1 DEF Ready, Spawned
<1>5. Served'
  <2>1. CASE Gate(p) \/ DropStart(p) \/ Recover(p) \/ Scan(p)
    <3>1. \E l \in {"recover", "end", "loop", "sweep", "mkdirs", "scan", "unmount", "ok"} :
            pc' = [pc EXCEPT ![p] = l]
      BY <2>1 DEF Gate, DropStart, Recover, Scan, Goto, Call, AfterRecover
    <3>2. serving' = serving /\ pc[p] \notin {"spawn", "claim", "running", "down"}
      BY <2>1 DEF Gate, DropStart, Turn, Recover, Scan
    <3>3. \A q \in Proc : q # p => pc'[q] = pc[q]
      BY <1>3, <3>1
    <3>4. pc'[p] # "lost"
      BY <1>3, <3>1
    <3>5. serving \subseteq Proc
      BY Sorts DEF Inv, TypeOK
    <3>6. QED
      BY <1>2, <3>2, <3>3, <3>4, <3>5 DEF Ready, Served
  <2>2. CASE Crash(p)
    <3>1. pc'[p] = "dead" /\ serving' = serving \ {p}
      BY <1>3, <2>2 DEF Crash, Goto, EndSession
    <3>2. \A q \in Proc : q # p => pc'[q] = pc[q]
      BY <1>3, <2>2 DEF Crash, Goto
    <3>3. serving \subseteq Proc
      BY Sorts DEF Inv, TypeOK
    <3>4. QED
      BY <1>2, <3>1, <3>2, <3>3 DEF Ready, Served
  <2>3. QED
    BY <2>1, <2>2
<1>6. CASE Gate(p)
  <2>1. kid' = kid /\ pc[p] = "idle"
    BY <1>6 DEF Gate, Turn
  <2>2. p \in Run => Before(p)
    BY <2>1 DEF Before, Early
  <2>3. pc'[p] = "end" \/ (pc'[p] = "recover" /\ home[Of(p)].shape = "there" /\ ~Running(Of(p)))
    BY <1>3, <1>6 DEF Gate, Goto
  <2>4. pc'[p] = "end" => ~Busy(p)' /\ ~Before(p)'
    BY DEF Busy, Ended, Before, Early, Calling
  <2>5. Running(Of(p))' <=> Running(Of(p))
    BY <1>2, <2>1 DEF Running
  <2>6. p \in Run => kid[p] = "none"
    BY <2>2 DEF Ready, Housed
  <2>7. Housed(p)'
    BY <1>2, <2>1, <2>3, <2>4, <2>5, <2>6 DEF Housed
  <2>8. QED
    BY <1>2, <1>4, <1>5, <2>7 DEF Ready
<1>7. CASE Recover(p)
  <2>1. kid' = kid /\ pc[p] = "recover" /\ Busy(p) /\ (p \in Run => Before(p))
    BY <1>7 DEF Recover, Before, Early, Busy, Ended
  <2>2. pc'[p] # "claim"
    BY <1>3, <1>7 DEF Recover, Goto, Call, AfterRecover
  <2>3. Housed(p)'
    BY <1>2, <2>1, <2>2 DEF Ready, Housed, Running
  <2>4. QED
    BY <1>2, <1>4, <1>5, <2>3 DEF Ready
<1>8. CASE DropStart(p)
  <2>1. p \notin Run \cup Diff
    BY <1>8, Sorts DEF DropStart
  <2>2. Housed(p)'
    BY <2>1 DEF Housed
  <2>3. QED
    BY <1>2, <1>4, <1>5, <2>2 DEF Ready
<1>9. CASE Scan(p) \/ Crash(p)
  <2>1. pc'[p] \in Ended /\ pc'[p] \notin Early /\ pc'[p] \notin Calling /\ pc'[p] # "claim"
    BY <1>3, <1>9 DEF Scan, Crash, Goto, Ended, Early, Calling
  <2>2. Housed(p)'
    BY <2>1 DEF Housed, Busy, Before
  <2>3. QED
    BY <1>2, <1>4, <1>5, <2>2 DEF Ready
<1>10. QED
  BY <1>6, <1>7, <1>8, <1>9

LEMMA StepKids ==
  ASSUME Inv, NEW p \in Proc, Step(p)
  PROVE  OthersKids(p)
<1>1. kid \in [Run -> {"none", "live", "zombie", "gone"}]
  BY DEF Inv, TypeOK
<1>2. CASE Unmount(p) \/ Gate(p) \/ DropStart(p) \/ Recover(p) \/ Scan(p) \/ Crash(p)
  BY <1>1, <1>2 DEF Unmount, UnmountMac, Wipe, Unlink, UnmountWin, FindReal, Restore, PutBack, Gate, DropStart,
     Recover, Scan, Crash, OthersKids
<1>3. CASE p \in Run /\ RunStep(p)
  BY <1>1, <1>3 DEF RunStep, Mkdirs, MountCheck, Clean, Aside, MkView, Symlink, Serve, ServeFails, Rollback,
     Spawn, SpawnFails, Claim, ClaimFault, Lost, Close, Wait, Down, Clear, OthersKids
<1>4. CASE p \in Drop /\ DropStep(p)
  BY <1>1, <1>4 DEF DropStep, DropTerminate, DropLoop, DropVerdict, DropSweep, DropDelete, DropSwept,
     DropAgain, DropRecheck, DropGuard, DropRename, DropTrashed, DropUndo, DropRemove, OthersKids
<1>5. QED
  BY <1>2, <1>3, <1>4 DEF Step, Command

LEMMA ReadyInit == Init => Ready
<1> SUFFICES ASSUME Init PROVE Ready
  OBVIOUS
<1>1. \A p \in Proc : pc[p] = "idle"
  BY DEF Init
<1>2. \A q \in Place : home[q].pid = None /\ ~home[q].wiped
  BY DEF Init, Fresh, Gone
<1>3. \A p \in Proc : Housed(p)
  BY <1>1 DEF Init, Housed, Busy
<1>4. QED
  BY <1>1, <1>2, <1>3, Sorts DEF Init, Ready, Spawned, Served

LEMMA ReadyNext ==
  ASSUME Inv, setup.patient, Calm, Ready, [Next]_vars
  PROVE  Ready'
<1>1. ASSUME NEW p \in Proc, Step(p) PROVE Ready'
  <2>1. Housed(p)' /\ Spawned' /\ Served' /\ faults' \in Nat
    BY <1>1, UnmountReady, RunReady, DropReady, OtherReady DEF Step, Command
  <2>2. ASSUME NEW q \in Proc, q # p PROVE Housed(q)'
    BY <1>1, <2>2, StepKids, Alone, HousedRest DEF Calm, Ready
  <2>3. QED
    BY <2>1, <2>2 DEF Ready
<1>2. ASSUME NEW r \in Run, Exit(r) PROVE Ready'
  <2>1. /\ UNCHANGED <<setup, home, pc, ret, serving, faults>> /\ kid[r] = "live"
        /\ \E l \in {"zombie", "gone"} : kid' = [kid EXCEPT ![r] = l]
        /\ kid \in [Run -> {"none", "live", "zombie", "gone"}]
    BY <1>2 DEF Exit, bounds, Inv, TypeOK
  <2>2. ASSUME NEW q \in Proc PROVE Housed(q)'
    <3>1. /\ (q \in Run /\ kid[q] = "none" => kid'[q] = "none")
          /\ (q \in Run /\ kid[q] # "none" => kid'[q] # "none")
      BY <2>1
    <3>2. Running(Of(q))' => Running(Of(q))
      BY <2>1 DEF Running, Of, Inv, TypeOK
    <3>3. QED
      BY <2>1, <3>1, <3>2 DEF Ready, Housed, Before, Busy, Of
  <2>3. QED
    BY <2>1, <2>2 DEF Ready, Spawned, Served
<1>3. ASSUME NEW x \in Diff, Again(x) PROVE Ready'
  <2>0. x \in Proc /\ x \notin Run
    BY SortAssumption DEF Proc
  <2>1. /\ UNCHANGED <<setup, home, kid, ret, serving, faults>>
        /\ pc'[x] = "idle" /\ \A q \in Proc : q # x => pc'[q] = pc[q]
    BY <1>3, <2>0 DEF Again, Goto, bounds, Inv, Control
  <2>2. ASSUME NEW q \in Proc PROVE Housed(q)'
    <3>1. CASE q = x
      <4>1. ~Busy(q)' /\ q \notin Run
        BY <2>0, <2>1, <3>1 DEF Busy
      <4>2. QED
        BY <4>1 DEF Housed
    <3>2. CASE q # x
      <4>1. /\ Busy(q)' <=> Busy(q)
            /\ Before(q)' <=> Before(q)
            /\ Running(Of(q))' <=> Running(Of(q))
            /\ Of(q)' = Of(q)
        BY <2>1, <3>2 DEF Busy, Before, Running, Of
      <4>2. QED
        BY <2>1, <3>2, <4>1 DEF Ready, Housed
    <3>3. QED
      BY <3>1, <3>2
  <2>3. \A r \in serving : r \in Proc /\ r # x
    BY <2>0, Sorts DEF Inv, TypeOK
  <2>4. Spawned'
    BY <2>1 DEF Ready, Spawned
  <2>5. Served'
    <3>1. pc'[x] # "lost"
      BY <2>1
    <3>2. QED
      BY <2>1, <2>3, <3>1 DEF Ready, Served
  <2>6. QED
    BY <2>1, <2>2, <2>4, <2>5 DEF Ready
<1>4. CASE UNCHANGED <<setup, home, kid, pc, ret, serving, faults>>
  BY <1>4 DEF Ready, Housed, Spawned, Served, Before, Busy, Of, Running
<1>5. CASE Meddle \/ MakeWay \/ UNCHANGED vars
  BY <1>4, <1>5 DEF Meddle, MakeWay, vars, bounds
<1>6. QED
  BY <1>1, <1>2, <1>3, <1>5, Steps

LEMMA Readiness == Spec => [](setup.patient => Calm /\ Ready)
<1>1. Inv /\ (setup.patient => Calm /\ Ready) /\ [Next]_vars => (setup.patient => Calm /\ Ready)'
  BY CalmNext, ReadyNext, SetupStays
<1>2. QED
  BY <1>1, CalmInit, ReadyInit, Invariance, PTL DEF Spec

\* run.rs:87: no command of a patient user, killed or not, empties a layer through its
\* view, as long as no pidfile fails to be written.
THEOREM LayersKept == Spec => []LayerKept
<1>1. (setup.patient => Calm /\ Ready) => LayerKept
  BY DEF Ready, Served, LayerKept
<1>2. QED
  BY <1>1, Readiness, PTL

-----------------------------------------------------------------------------
(* Where the host directory is while a user waits                          *)

\* Of several worktrees on macOS find_state_for looks into one alone, and what follows
\* does not hold (run moveaside_twins).
Sole == Mac => Single

\* The host directory is at the target or in the `real` of the one worktree where every
\* command looks for it.
Sheltered ==
  /\ \A q \in Place : home[q].real # Nothing =>
       home[q].real = Host /\ at # Host /\ q \in Worktree /\ home[q].shape = "there"
  /\ \A q, s \in Place : home[q].real # Nothing /\ home[s].real # Nothing => q = s
  /\ Mac => \A q, s \in Place : home[q].shape # "gone" /\ home[s].shape # "gone" => q = s
  /\ Mac /\ at.kind = "link" => home[at.of].real = Host

\* A command that goes on to use the target has the host directory there.
Placed(p) ==
  /\ pc[p] \in {"mkdirs", "mount", "clean", "aside", "scan"} => at = Host
  /\ pc[p] \in {"wipe", "unlink", "restore", "putback"} /\ at # Host => home[to[p]].real = Host
  /\ pc[p] \in {"mkview", "link", "serve", "rollback"} => home[Of(p)].real = Host
  /\ pc[p] = "rename" => home[Of(p)].real = Nothing
  /\ pc[p] = "find" => ~Mac
  /\ pc[p] # "undo"

Settled == Sheltered /\ \A p \in Proc : Placed(p)

\* A search of the state root finds the host directory whenever it is not at the target.
LEMMA Sought ==
  ASSUME Inv, Sheltered, at # Host
  PROVE  IF Mac THEN FindStateFor # None /\ home[FindStateFor].real = Host
                ELSE FindRealFor # None /\ home[FindRealFor].real = Host
<1>1. PICK q \in Place : home[q].real = Host
  BY DEF Inv, HostKept
<1>2. home[q].shape = "there" /\ q \in Worktree
  BY <1>1, Kinds DEF Sheltered
<1>3. \A S \in SUBSET Place : S # {} => First(S) \in S
  BY RankAssumption DEF First
<1>4. None \notin Place
  BY SortAssumption DEF Proc, Place
<1>5. CASE Mac
  <2> DEFINE S == {p \in Place : home[p].shape = "there"}
  <2>1. FindStateFor = First(S) /\ First(S) \in S
    BY <1>1, <1>2, <1>3 DEF FindStateFor
  <2>2. First(S) = q
    BY <1>2, <1>5, <2>1 DEF Sheltered
  <2>3. QED
    BY <1>1, <1>4, <1>5, <2>1, <2>2
<1>6. CASE ~Mac
  <2> DEFINE S == {w \in Worktree : home[w].shape = "there" /\ home[w].real # Nothing}
  <2>1. q \in S /\ S \in SUBSET Place
    BY <1>1, <1>2, Kinds, Sorts
  <2>2. FindRealFor = First(S) /\ First(S) \in S
    BY <1>3, <2>1 DEF FindRealFor
  <2>3. First(S) = q
    BY <1>1, <2>1, <2>2, Kinds DEF Sheltered
  <2>4. QED
    BY <1>1, <1>4, <1>6, <2>2, <2>3
<1>7. QED
  BY <1>5, <1>6

\* No mount is found only when the host directory is at the target.
LEMMA NoMount == ASSUME Inv, Sheltered, ~IsMounted PROVE at = Host
  BY Sought, Kinds DEF IsMounted

\* The host directory stays where it is; what is at the target may change.
LEMMA ShelterStays ==
  ASSUME Inv, Sheltered, setup' = setup,
         \A q \in Place : home'[q].real = home[q].real /\ home'[q].shape = home[q].shape,
         at' = Host => at = Host,
         \/ at' = at
         \/ Mac => at'.kind # "link"
         \/ at'.of \in Place /\ home[at'.of].real = Host
  PROVE  Sheltered'
<1>1. Mac' <=> Mac
  BY DEF Mac
<1>2. Mac /\ at.kind = "link" => at.of \in Place
  BY Sorts DEF Inv, LinksLead
<1>3. Mac /\ at'.kind = "link" => home'[at'.of].real = Host
  BY <1>2 DEF Sheltered
<1>4. QED
  BY <1>1, <1>3 DEF Sheltered

LEMMA UnmountSettled ==
  ASSUME Inv, Calm, Sheltered, NEW p \in Proc, Placed(p), Unmount(p)
  PROVE  Sheltered' /\ Placed(p)'
<1>1. /\ pc \in [Proc -> Labels] /\ ret[p].ok \in Continuations /\ ret[p].err \in Back
      /\ to \in [Proc -> Place \cup {None}] /\ home \in [Place -> Directory]
      /\ ret' = ret /\ setup' = setup
  BY DEF Inv, Control, TypeOK, Directory, Calm, Linked, Unmount, UnmountMac, Wipe, Unlink, UnmountWin,
     FindReal, Restore, PutBack, bounds
<1>2. \A l : pc' = [pc EXCEPT ![p] = l] => pc'[p] = l
  BY <1>1
<1>3. \A y : to' = [to EXCEPT ![p] = y] => to'[p] = y
  BY <1>1
<1>4. ASSUME pc'[p] \in Back PROVE Placed(p)'
  BY <1>4 DEF Placed, Back
<1>5. ASSUME pc'[p] = ret[p].ok, at' = Host PROVE Placed(p)'
  BY <1>1, <1>5 DEF Placed, Continuations
<1>6. ASSUME pc'[p] \in {"find", "wipe", "unlink", "restore", "putback"},
             IF pc'[p] = "find" THEN ~Mac ELSE at' = Host \/ home'[to'[p]].real = Host
      PROVE  Placed(p)'
  BY <1>1, <1>6 DEF Placed, Mac
<1>7. Nothing.kind # "link" /\ Nothing # Host
  BY Kinds
<1> USE <1>1, <1>2, <1>3 DEF Goto, Return, Fail
<1>8. CASE UnmountMac(p)
  <2>1. home' = home /\ at' = at
    BY <1>8 DEF UnmountMac
  <2>2. Sheltered'
    BY <2>1, ShelterStays
  <2>3. CASE IsLink(at)
    <3>1. \/ pc'[p] = ret[p].err
          \/ pc'[p] = "wipe" /\ to'[p] = at.of /\ at.kind = "link"
      BY <1>8, <2>3 DEF UnmountMac
    <3>2. QED
      BY <1>4, <1>6, <1>8, <2>1, <2>2, <3>1 DEF Sheltered, UnmountMac
  <2>4. CASE ~IsLink(at)
    <3>1. \/ pc'[p] = ret[p].ok /\ FindStateFor = None
          \/ pc'[p] = "restore" /\ to'[p] = FindStateFor
      BY <1>8, <2>4 DEF UnmountMac
    <3>2. at = Host \/ (FindStateFor # None /\ home[FindStateFor].real = Host)
      BY <1>8, Sought DEF UnmountMac
    <3>3. QED
      BY <1>5, <1>6, <2>1, <2>2, <3>1, <3>2
  <2>5. QED
    BY <2>3, <2>4
<1>9. CASE Wipe(p)
  <2>1. /\ \A q \in Place : home'[q].real = home[q].real /\ home'[q].shape = home[q].shape
        /\ at' = at /\ to' = to /\ to[p] \in Place /\ pc[p] = "wipe" /\ pc'[p] = "unlink"
    BY <1>9 DEF Wipe, WipeView, Directory, Inv, Control
  <2>2. QED
    BY <1>6, <2>1, ShelterStays DEF Placed
<1>10. CASE Unlink(p)
  <2>1. /\ home' = home /\ to' = to /\ pc[p] = "unlink"
        /\ \/ at' = at /\ pc'[p] = ret[p].err
           \/ IsLink(at) /\ at' = Nothing /\ pc'[p] = "restore"
    BY <1>10 DEF Unlink
  <2>2. Sheltered'
    BY <1>7, <2>1, ShelterStays
  <2>3. IsLink(at) => at # Host
    BY Kinds
  <2>4. QED
    BY <1>4, <1>6, <2>1, <2>2, <2>3 DEF Placed
<1>11. CASE UnmountWin(p)
  <2>1. home' = home /\ (at' = at \/ at' = Nothing) /\ ~Mac /\ (pc'[p] = "find" \/ pc'[p] = ret[p].err)
    BY <1>11 DEF UnmountWin
  <2>2. QED
    BY <1>4, <1>6, <1>7, <2>1, ShelterStays
<1>12. CASE FindReal(p)
  <2>1. /\ home' = home /\ at' = at /\ pc[p] = "find"
        /\ \/ pc'[p] = ret[p].ok /\ FindRealFor = None
           \/ pc'[p] = "restore" /\ to'[p] = FindRealFor
    BY <1>12 DEF FindReal
  <2>2. Sheltered'
    BY <2>1, ShelterStays
  <2>3. at # Host => FindRealFor # None /\ home[FindRealFor].real = Host
    BY <2>1, Sought DEF Placed
  <2>4. QED
    BY <1>5, <1>6, <2>1, <2>2, <2>3
<1>13. CASE Restore(p)
  <2>1. /\ home' = home /\ to' = to /\ pc[p] = "restore"
        /\ \/ pc'[p] = ret[p].ok /\ home[to[p]].real = Nothing /\ at' = at
           \/ pc'[p] \in {ret[p].err, "putback"} /\ (at' = at \/ (at = Empty /\ at' = Nothing))
    BY <1>13 DEF Restore
  <2>2. Sheltered'
    BY <1>7, <2>1, ShelterStays
  <2>3. at # Host => home[to[p]].real = Host
    BY <2>1 DEF Placed
  <2>4. QED
    BY <1>4, <1>5, <1>6, <1>7, <2>1, <2>2, <2>3, Kinds
<1>14. CASE PutBack(p)
  <2>1. to[p] \in Place
    BY <1>14 DEF PutBack, Inv, Control
  <2>2. CASE UNCHANGED <<at, home>> /\ pc'[p] = ret[p].err
    BY <1>4, <2>2, ShelterStays
  <2>3. CASE /\ RenameOK(home[to[p]].real, at)
             /\ at' = home[to[p]].real
             /\ home' = [home EXCEPT ![to[p]].real = Nothing]
             /\ pc'[p] = ret[p].ok
    <3>1. home[to[p]].real = Host
      BY <1>14, <2>3, RenameSpares DEF PutBack, Placed
    <3>2. \A q \in Place : home'[q].real = Nothing /\ home'[q].shape = home[q].shape
      BY <1>7, <2>1, <2>3, <3>1 DEF Sheltered, Directory
    <3>3. at' = Host /\ at'.kind # "link" /\ (Mac' <=> Mac)
      BY <2>3, <3>1, Kinds DEF Mac
    <3>4. Sheltered'
      BY <3>2, <3>3 DEF Sheltered
    <3>5. QED
      BY <1>5, <2>3, <3>3, <3>4
  <2>4. QED
    BY <1>14, <2>2, <2>3 DEF PutBack
<1>15. QED
  BY <1>8, <1>9, <1>10, <1>11, <1>12, <1>13, <1>14 DEF Unmount

LEMMA RunSettled ==
  ASSUME Inv, Calm, Ready, Sheltered, NEW r \in Run, Placed(r), RunStep(r)
  PROVE  Sheltered' /\ Placed(r)'
<1>1. /\ pc \in [Proc -> Labels] /\ home \in [Place -> Directory] /\ r \in Proc
      /\ ret \in [Proc -> [ok : Continuations, err : Continuations]]
      /\ to \in [Proc -> Place \cup {None}]
  BY Sorts DEF Inv, Control, TypeOK, Directory
<1>2. setup' = setup /\ Busy(r)
  BY DEF RunStep, Mkdirs, MountCheck, Clean, Aside, MkView, Symlink, Serve, ServeFails, Rollback,
         Spawn, SpawnFails, Claim, ClaimFault, Lost, Close, Wait, Down, Clear, bounds, Busy, Ended
<1>3. /\ Of(r)' = Of(r) /\ Of(r) \in Worktree /\ Of(r) \in Place /\ (Mac' <=> Mac)
      /\ home[Of(r)].shape = "there"
  BY <1>1, <1>2, Given, Sorts DEF Inv, Control, TypeOK, Of, Busy, Mac, Ready, Housed
<1>4. \A l : pc' = [pc EXCEPT ![r] = l] => pc'[r] = l
  BY <1>1
<1>5. ASSUME pc'[r] \in {"end", "ok", "spawn", "claim", "running", "lost", "down", "clear", "close",
                         "unmount", "mount"},
             pc'[r] = "mount" => at' = Host
      PROVE  Placed(r)'
  BY <1>5 DEF Placed
<1>6. ASSUME pc'[r] \in {"clean", "aside"}, at' = Host PROVE Placed(r)'
  BY <1>6 DEF Placed
<1>7. ASSUME pc'[r] \in {"mkview", "link", "serve", "rollback"}, home'[Of(r)].real = Host
      PROVE  Placed(r)'
  BY <1>3, <1>7 DEF Placed
<1>8. at = Host => \A q \in Place : home[q].real = Nothing
  BY DEF Sheltered
<1> USE <1>1, <1>2, <1>3, <1>4 DEF Goto, Call
<1>9. CASE Mkdirs(r)
  <2>1. home' = home /\ at' = at /\ pc'[r] = "mount" /\ at = Host
    BY <1>9 DEF Mkdirs, Placed
  <2>2. QED
    BY <1>5, <2>1, ShelterStays
<1>10. CASE MountCheck(r)
  <2>1. at = Host /\ ~IsLink(at) /\ home[Of(r)].real = Nothing
    BY <1>8, <1>10, Kinds DEF MountCheck, Placed
  <2>2. home' = home /\ at' = at /\ pc'[r] \in {"clean", "aside"}
    BY <1>10, <2>1 DEF MountCheck
  <2>3. QED
    BY <1>6, <2>1, <2>2, ShelterStays
<1>11. CASE Clean(r)
  <2>1. /\ \A q \in Place : home'[q].real = home[q].real /\ home'[q].shape = home[q].shape
        /\ at' = at /\ at = Host /\ pc'[r] = "aside"
    BY <1>11 DEF Clean, WipeView, Directory, Placed
  <2>2. QED
    BY <1>6, <2>1, ShelterStays
<1>12. CASE Aside(r)
  <2>1. at = Host
    BY <1>12 DEF Aside, Placed
  <2>2. CASE UNCHANGED <<at, home>> /\ pc'[r] = "end"
    BY <1>5, <2>2, ShelterStays
  <2>3. CASE /\ home' = [home EXCEPT ![Of(r)].real = at]
             /\ at' = Nothing /\ pc'[r] \in {"mkview", "serve"}
    <3>1. /\ home'[Of(r)].real = Host
          /\ \A q \in Place : /\ q # Of(r) => home'[q].real = Nothing
                              /\ home'[q].shape = home[q].shape
      BY <1>8, <2>1, <2>3 DEF Directory
    <3>2. at' # Host /\ at'.kind # "link"
      BY <2>3, Kinds
    <3>3. Sheltered'
      BY <3>1, <3>2 DEF Sheltered
    <3>4. QED
      BY <1>7, <2>3, <3>1, <3>3
  <2>4. QED
    BY <1>12, <2>2, <2>3 DEF Aside
<1>13. CASE MkView(r)
  <2>1. home' = home /\ at' = at /\ pc'[r] = "link" /\ home[Of(r)].real = Host
    BY <1>13 DEF MkView, Placed
  <2>2. QED
    BY <1>7, <2>1, ShelterStays
<1>14. CASE Symlink(r)
  <2>1. /\ home' = home /\ pc'[r] \in {"serve", "rollback"} /\ home[Of(r)].real = Host
        /\ at' = at \/ at' = Link(Of(r))
    BY <1>14 DEF Symlink, Placed
  <2>2. Sheltered'
    BY <2>1, Kinds, ShelterStays
  <2>3. QED
    BY <1>7, <2>1, <2>2
<1>15. CASE Serve(r) \/ ServeFails(r)
  <2>1. /\ home' = home /\ pc'[r] \in {"spawn", "rollback"} /\ home[Of(r)].real = Host
        /\ at' = at \/ (~Mac /\ at' = Link(r))
    BY <1>15 DEF Serve, ServeFails, Placed
  <2>2. Sheltered'
    BY <2>1, Kinds, ShelterStays
  <2>3. QED
    BY <1>5, <1>7, <2>1, <2>2
<1>16. CASE Rollback(r)
  <2>1. /\ home' = home /\ pc'[r] = "restore" /\ to'[r] = Of(r) /\ home[Of(r)].real = Host
        /\ at' = at \/ at' = Nothing
    BY <1>16 DEF Rollback, Placed
  <2>2. Sheltered'
    BY <2>1, Kinds, ShelterStays
  <2>3. Placed(r)'
    BY <2>1 DEF Placed
  <2>4. QED
    BY <2>2, <2>3
<1>17. CASE Spawn(r) \/ SpawnFails(r) \/ ClaimFault(r) \/ Lost(r) \/ Close(r) \/ Wait(r) \/ Down(r)
  <2>1. /\ home' = home /\ pc'[r] \in {"end", "claim", "lost", "unmount", "down"}
        /\ at' = at \/ at' = Nothing
    BY <1>17 DEF Spawn, SpawnFails, ClaimFault, Lost, Close, Wait, Down, EndSession
  <2>2. QED
    BY <1>5, <2>1, Kinds, ShelterStays
<1>18. CASE Claim(r) \/ Clear(r)
  <2>1. home' = home \/ \E y \in {r, None} : home' = [home EXCEPT ![Of(r)].pid = y]
    BY <1>18 DEF Claim, Clear
  <2>2. \A q \in Place : home'[q].real = home[q].real /\ home'[q].shape = home[q].shape
    <3>1. CASE home' = home
      BY <3>1
    <3>2. ASSUME NEW y \in {r, None}, home' = [home EXCEPT ![Of(r)].pid = y], NEW q \in Place
          PROVE  home'[q].real = home[q].real /\ home'[q].shape = home[q].shape
      BY <3>2, OnlyPid
    <3>3. QED
      BY <2>1, <3>1, <3>2
  <2>3. at' = at /\ pc'[r] \in {"lost", "running", "end", "ok"}
    BY <1>18 DEF Claim, Clear
  <2>4. QED
    BY <1>5, <2>2, <2>3, ShelterStays
<1>19. QED
  BY <1>9, <1>10, <1>11, <1>12, <1>13, <1>14, <1>15, <1>16, <1>17, <1>18 DEF RunStep

\* A drop moves and deletes directories in which the host directory is not.
LEMMA DropSettled ==
  ASSUME Inv, Sheltered, NEW d \in Drop, Placed(d), DropStep(d)
  PROVE  Sheltered' /\ Placed(d)'
<1>1. /\ pc \in [Proc -> Labels] /\ home \in [Place -> Directory] /\ d \in Proc /\ d \in Place
      /\ ret \in [Proc -> [ok : Continuations, err : Continuations]]
      /\ \A q \in Place : home[q].shape = "gone" => home[q] = Gone
  BY Sorts DEF Inv, Control, TypeOK, Directory
<1>2. setup' = setup /\ at' = at /\ pc[d] # "idle"
  BY DEF DropStep, DropTerminate, DropLoop, DropVerdict, DropSweep, DropDelete, DropSwept, DropAgain,
         DropRecheck, DropGuard, DropRename, DropTrashed, DropUndo, DropRemove, bounds
<1>3. Of(d)' = Of(d) /\ Of(d) \in Worktree /\ Of(d) \in Place /\ Of(d) # d /\ (Mac' <=> Mac)
  BY <1>1, <1>2, Given, Sorts DEF Inv, Control, TypeOK, Of, Mac
<1>4. \A q \in Drop : q \in Place /\ home[q].real = Nothing
  BY Sorts DEF Sheltered
<1>5. Gone.shape = "gone" /\ Gone.real = Nothing
  BY DEF Gone
<1>6. Mac /\ at.kind = "link" => at.of \in Worktree /\ home[at.of].real = Host
  BY DEF Inv, LinksLead, Sheltered
<1>7. \A l : pc' = [pc EXCEPT ![d] = l] => pc'[d] = l
  BY <1>1
<1>8. ASSUME pc'[d] \in {"loop", "again", "end", "sweep", "unmount", "delete", "guard", "trashed",
                         "remove", "ok", "recheck"}
      PROVE  Placed(d)'
  BY <1>8 DEF Placed
<1> USE <1>1, <1>2, <1>7 DEF Goto, Call
<1>9. CASE DropDelete(d) \/ DropRemove(d)
  <2>1. PICK t \in Drop : home' = [home EXCEPT ![t] = Gone]
    BY <1>9 DEF DropDelete, DropRemove, Inv, TrashIsEmpty
  <2>2. /\ home'[t] = Gone /\ home[t].real = Nothing
        /\ \A q \in Place : q # t => home'[q] = home[q]
    BY <1>4, <2>1
  <2>3. Mac /\ at.kind = "link" => home'[at.of].real = Host
    BY <1>6, <2>2, Sorts, Kinds
  <2>4. Sheltered'
    BY <1>3, <1>5, <2>2, <2>3 DEF Sheltered
  <2>5. QED
    BY <1>8, <1>9, <2>4 DEF DropDelete, DropRemove
<1>10. CASE DropRename(d)
  <2>1. CASE home' = home /\ pc'[d] = "end"
    BY <1>8, <2>1, ShelterStays
  <2>2. CASE /\ home[Of(d)].shape # "gone" /\ pc'[d] = "trashed"
             /\ home' = [home EXCEPT ![d] = home[Of(d)], ![Of(d)] = Gone]
    <3>1. home[Of(d)].real = Nothing
      BY <1>10 DEF DropRename, Placed
    <3>2. /\ home'[d] = home[Of(d)] /\ home'[Of(d)] = Gone
          /\ \A q \in Place : q # d /\ q # Of(d) => home'[q] = home[q]
      BY <1>3, <2>2
    <3>3. Mac /\ at.kind = "link" => home'[at.of].real = Host
      BY <1>6, <3>1, <3>2, Sorts, Kinds
    <3>4. Mac => \A q, s \in Place : home'[q].shape # "gone" /\ home'[s].shape # "gone" => q = s
      <4>1. Mac => \A q \in Place : q # Of(d) => home[q].shape = "gone"
        BY <1>3, <2>2 DEF Sheltered
      <4>2. QED
        BY <1>5, <3>2, <4>1
    <3>5. \A q \in Place : home'[q].real # Nothing => home'[q] = home[q]
      BY <1>5, <3>1, <3>2
    <3>6. Sheltered'
      BY <1>3, <3>3, <3>4, <3>5 DEF Sheltered
    <3>7. QED
      BY <1>8, <2>2, <3>6
  <2>3. QED
    BY <1>10, <2>1, <2>2 DEF DropRename
<1>11. CASE DropUndo(d)
  BY <1>11 DEF DropUndo, Placed
<1>12. CASE DropGuard(d)
  <2>1. home' = home /\ (pc'[d] = "end" \/ (pc'[d] = "rename" /\ home[Of(d)].real = Nothing))
    BY <1>12 DEF DropGuard
  <2>2. pc'[d] = "rename" => Placed(d)'
    BY <1>3, <2>1 DEF Placed
  <2>3. QED
    BY <1>8, <2>1, <2>2, ShelterStays
<1>13. CASE DropTrashed(d)
  <2>1. home' = home /\ pc'[d] = "remove"
    BY <1>4, <1>13 DEF DropTrashed
  <2>2. QED
    BY <1>8, <2>1, ShelterStays
<1>14. CASE \/ DropTerminate(d) \/ DropLoop(d) \/ DropVerdict(d) \/ DropSweep(d) \/ DropSwept(d)
            \/ DropAgain(d) \/ DropRecheck(d)
  <2>1. home' = home
    BY <1>14 DEF DropTerminate, DropLoop, DropVerdict, DropSweep, DropSwept, DropAgain, DropRecheck
  <2>2. pc'[d] \in {"loop", "again", "end", "sweep", "unmount", "delete", "guard"}
    BY <1>14 DEF DropTerminate, DropLoop, DropVerdict, DropSweep, DropSwept, DropAgain, DropRecheck
  <2>3. QED
    BY <1>8, <2>1, <2>2, ShelterStays
<1>15. QED
  BY <1>9, <1>10, <1>11, <1>12, <1>13, <1>14 DEF DropStep

LEMMA OtherSettled ==
  ASSUME Inv, Sheltered, NEW p \in Proc,
         Gate(p) \/ DropStart(p) \/ Recover(p) \/ Scan(p) \/ Crash(p)
  PROVE  Sheltered' /\ Placed(p)'
<1>1. pc \in [Proc -> Labels]
  BY DEF Inv, Control
<1>2. setup' = setup /\ home' = home /\ (at' = at \/ at' = Nothing)
  BY DEF Gate, DropStart, Recover, Scan, Crash, EndSession, bounds
<1>3. Sheltered'
  BY <1>2, Kinds, ShelterStays
<1>4. CASE Gate(p) \/ DropStart(p) \/ Scan(p) \/ Crash(p)
  <2>1. pc'[p] \in {"recover", "end", "loop", "sweep", "ok", "dead"}
    BY <1>1, <1>4 DEF Gate, DropStart, Scan, Crash, Goto
  <2>2. QED
    BY <1>3, <2>1 DEF Placed
<1>5. CASE Recover(p)
  <2>1. \/ pc'[p] \in {"unmount", "end"}
        \/ pc'[p] = AfterRecover(p) /\ ~IsMounted
    BY <1>1, <1>5 DEF Recover, Goto, Call
  <2>2. at' = at /\ AfterRecover(p) \in {"mkdirs", "scan"}
    BY <1>5 DEF Recover, AfterRecover
  <2>3. QED
    BY <1>3, <2>1, <2>2, NoMount DEF Placed
<1>6. QED
  BY <1>4, <1>5

LEMMA SettledInit == Init /\ Sole => Settled
<1> SUFFICES ASSUME Init, Sole PROVE Settled
  OBVIOUS
<1>1. /\ \A p \in Proc : pc[p] = "idle"
      /\ \A q \in Place : home[q].real = Nothing
      /\ \A q \in Place : home[q].shape # "gone" => \E p \in DOMAIN setup.of : setup.of[p] = q
      /\ at = Host
  BY DEF Init, Fresh, Gone
<1>2. Mac => \A q, s \in Place : home[q].shape # "gone" /\ home[s].shape # "gone" => q = s
  BY <1>1 DEF Sole, Single, Of
<1>3. QED
  BY <1>1, <1>2, Kinds DEF Settled, Sheltered, Placed

LEMMA SettledNext ==
  ASSUME Inv, setup.patient, Calm, Ready, Settled, [Next]_vars
  PROVE  Settled'
<1>1. ASSUME NEW p \in Proc, Step(p) PROVE Settled'
  <2>1. Sheltered' /\ Placed(p)'
    BY <1>1, UnmountSettled, RunSettled, DropSettled, OtherSettled DEF Settled, Step, Command
  <2>2. ASSUME NEW q \in Proc, q # p PROVE Placed(q)'
    <3>1. pc'[q] \in Ended \cup {"idle"}
      BY <1>1, <2>2, Alone DEF Calm, Busy
    <3>2. QED
      BY <3>1 DEF Placed, Ended
  <2>3. QED
    BY <2>1, <2>2 DEF Settled
<1>2. ASSUME NEW r \in Run, Exit(r) PROVE Settled'
  <2>1. UNCHANGED <<setup, at, home, pc, to>>
    BY <1>2 DEF Exit, bounds
  <2>2. QED
    BY <2>1 DEF Settled, Sheltered, Placed, Mac, Of
<1>3. ASSUME NEW x \in Diff, Again(x) PROVE Settled'
  <2>1. UNCHANGED <<setup, at, home, to>>
    BY <1>3 DEF Again, bounds
  <2>2. \A q \in Proc : pc'[q] = pc[q] \/ pc'[q] = "idle"
    BY <1>3 DEF Again, Goto, Inv, Control
  <2>3. ASSUME NEW q \in Proc PROVE Placed(q)'
    BY <2>1, <2>2 DEF Settled, Placed, Mac, Of
  <2>4. QED
    BY <2>1, <2>3 DEF Settled, Sheltered, Mac
<1>4. CASE Meddle \/ MakeWay
  <2>1. /\ \A p \in Proc : pc[p] \in Ended \cup {"idle", "running"}
        /\ pc' = pc /\ home' = home /\ setup' = setup
        /\ at' \in {Nothing, Empty, Foreign}
    BY <1>4 DEF Meddle, MakeWay, bounds
  <2>2. \A q \in Proc : Placed(q)'
    BY <2>1 DEF Placed, Ended
  <2>3. Sheltered'
    BY <2>1, Kinds, ShelterStays DEF Settled
  <2>4. QED
    BY <2>2, <2>3 DEF Settled
<1>5. CASE UNCHANGED vars
  BY <1>5 DEF vars, Settled, Sheltered, Placed, Mac, Of
<1>6. QED
  BY <1>1, <1>2, <1>3, <1>4, <1>5, Steps

LEMMA SoleStays == setup' = setup => (Sole' <=> Sole) /\ (Single' <=> Single)
  BY DEF Sole, Single, Mac, Of

LEMMA Settlement == Spec => [](setup.patient /\ Sole => Settled)
<1>1. /\ Inv /\ (setup.patient => Calm /\ Ready) /\ (setup.patient /\ Sole => Settled) /\ [Next]_vars
      => (setup.patient /\ Sole => Settled)'
  BY SettledNext, SetupStays, SoleStays
<1>2. QED
  BY <1>1, SettledInit, Readiness, Invariance, PTL DEF Spec

\* The target has one worktree, wherever the platform is macOS.
OneOnMac == \A s \in Setups : s.on = "mac" => \A p, q \in DOMAIN s.of : s.of[p] = s.of[q]

\* apply.rs:35-37: a user who gives one command after another has the real host
\* directory scanned, whatever was killed before and put in the way.
THEOREM HostScanned == ASSUME OneOnMac PROVE Spec => []ScanSeesHost
<1>1. Inv /\ (setup.patient /\ Sole => Settled) => ScanSeesHost
  <2> SUFFICES ASSUME Inv, setup.patient /\ Sole => Settled, setup.patient, NEW x \in Diff, pc[x] = "scan"
               PROVE  at = Host
    BY DEF ScanSeesHost
  <2>1. Sole
    BY DEF OneOnMac, Sole, Single, Mac, Of, Inv, TypeOK
  <2>2. x \in Proc
    BY Sorts
  <2>3. QED
    BY <2>1, <2>2 DEF Settled, Placed
<1>2. QED
  BY <1>1, Settlement, Invariance, PTL

-----------------------------------------------------------------------------
(* The target path while a recorded child lives                            *)

\* The labels a command can be at then.
Waiting == {"running", "loop", "sweep", "delete", "again"}

Owned(r) == kid[r] = "live" /\ home[Of(r)].pid = r

Held ==
  /\ \A p \in Proc : pc[p] = "running" => home[Of(p)].pid = p
  /\ \A r \in Run : Owned(r) => at # Host /\ \A p \in Proc : Busy(p) => pc[p] \in Waiting

\* A child is recorded in the directory of its worktree by its own run only.
LEMMA StepOwned ==
  ASSUME Inv, Ready, NEW p \in Proc, Step(p), pc[p] # "undo", NEW r \in Run, Of(r) \in Worktree, Owned(r)'
  PROVE  Owned(r) \/ (p = r /\ Claim(r) /\ pc'[r] = "running")
<1>1. /\ pc \in [Proc -> Labels] /\ home \in [Place -> Directory] /\ r \in Proc
      /\ kid \in [Run -> {"none", "live", "zombie", "gone"}]
      /\ Of(r) \in Place /\ Of(r) \notin Drop /\ r # None
      /\ \A d \in Drop : d \in Place
  BY SortAssumption, Sorts DEF Inv, Control, TypeOK, Directory, Proc
<1>2. Gone.pid = None /\ \A y : Fresh(y).pid = None
  BY DEF Gone, Fresh
<1>3. kid'[r] = "live" /\ home'[Of(r)].pid = r
  <2>1. setup' = setup
    BY SetupStays DEF Step, Next
  <2>2. QED
    BY <2>1 DEF Owned, Of
<1>4. kid[r] = "live"
  <2>1. CASE p = r /\ Spawn(r)
    <3>1. kid[r] = "none" /\ home'[Of(r)].pid = home[Of(r)].pid
      BY <1>1, <2>1 DEF Spawn, Ready, Housed, Before, Early
    <3>2. QED
      BY <1>1, <1>3, <3>1 DEF Ready, Spawned
  <2>2. CASE p = r /\ RunStep(r) /\ ~Spawn(r)
    <3>1. kid' = kid \/ kid' = [kid EXCEPT ![r] = "gone"]
      BY <2>2 DEF RunStep, Mkdirs, MountCheck, Clean, Aside, MkView, Symlink, Serve, ServeFails, Rollback,
         SpawnFails, Claim, ClaimFault, Lost, Close, Wait, Down, Clear
    <3>2. QED
      BY <1>1, <1>3, <3>1
  <2>3. CASE p = r /\ (Unmount(p) \/ Gate(p) \/ DropStart(p) \/ Recover(p) \/ Scan(p) \/ Crash(p))
    <3>1. kid' = kid \/ kid' = [kid EXCEPT ![r] = "gone"]
      BY <2>3 DEF Unmount, UnmountMac, Wipe, Unlink, UnmountWin, FindReal, Restore, PutBack, Gate, DropStart,
         Recover, Scan, Crash
    <3>2. QED
      BY <1>1, <1>3, <3>1
  <2>4. CASE p # r
    BY <1>3, <2>4, StepKids DEF OthersKids
  <2>5. QED
    BY <2>1, <2>2, <2>3, <2>4, Sorts DEF Step, Command
<1>5. CASE home'[Of(r)].pid = home[Of(r)].pid
  BY <1>3, <1>4, <1>5 DEF Owned
<1>6. CASE home'[Of(r)].pid = None
  BY <1>1, <1>3, <1>6
<1>7. CASE home' = home
  BY <1>5, <1>7
<1>8. CASE Unmount(p)
  <2>1. home'[Of(r)].pid = home[Of(r)].pid
    BY <1>1, <1>8 DEF Unmount, UnmountMac, Wipe, WipeView, Unlink, UnmountWin, FindReal, Restore, PutBack,
       Directory
  <2>2. QED
    BY <1>5, <2>1
<1>9. CASE p \in Run /\ RunStep(p)
  <2>1. CASE Claim(p)
    <3>1. \/ home' = home
          \/ home' = [home EXCEPT ![Of(p)].pid = p] /\ pc'[p] = "running"
      BY <1>1, <2>1 DEF Claim, Goto
    <3>2. \A q \in Place : home'[q].pid \in {home[q].pid, p}
      BY <1>1, <3>1 DEF Directory
    <3>3. CASE home'[Of(r)].pid = p
      <4>1. p = r
        BY <1>3, <3>3
      <4>2. QED
        BY <1>7, <2>1, <3>1, <4>1
    <3>4. QED
      BY <1>1, <1>5, <3>2, <3>3
  <2>2. CASE Mkdirs(p) \/ Clean(p) \/ Aside(p)
    <3>1. home'[Of(r)].pid = home[Of(r)].pid
      BY <1>1, <2>2 DEF Mkdirs, Clean, WipeView, Aside, Directory
    <3>2. QED
      BY <1>5, <3>1
  <2>3. CASE MkView(p) \/ Clear(p)
    <3>1. home'[Of(r)].pid = home[Of(r)].pid \/ home'[Of(r)].pid = None
      BY <1>1, <1>2, <2>3 DEF MkView, Clear, Directory
    <3>2. QED
      BY <1>5, <1>6, <3>1
  <2>4. QED
    BY <1>7, <1>9, <2>1, <2>2, <2>3 DEF RunStep, MountCheck, Symlink, Serve, ServeFails, Rollback,
       Spawn, SpawnFails, ClaimFault, Lost, Close, Wait, Down
<1>10. CASE p \in Drop /\ DropStep(p)
  <2>1. CASE DropDelete(p) \/ DropRename(p) \/ DropRemove(p)
    <3>1. home'[Of(r)] = home[Of(r)] \/ home'[Of(r)] = Gone
      <4>1. \A y, z, u : home' = [home EXCEPT ![p] = y, ![z] = u] /\ p # Of(r) /\ p # z
                         => home'[Of(r)] = home[Of(r)] \/ home'[Of(r)] = u
        BY <1>1
      <4>2. p # Of(r) /\ p # Of(p)
        <5>1. pc[p] # "idle"
          BY <2>1 DEF DropDelete, DropRename, DropRemove
        <5>2. QED
          BY <1>1, <1>10, <5>1, Given, Sorts DEF Inv, Control, TypeOK
      <4>3. QED
        BY <1>1, <2>1, <4>1, <4>2 DEF DropDelete, DropRename, DropRemove
    <3>2. QED
      BY <1>2, <1>5, <1>6, <3>1
  <2>2. QED
    BY <1>7, <1>10, <2>1 DEF DropStep, DropTerminate, DropLoop, DropVerdict, DropSweep, DropSwept,
       DropAgain, DropRecheck, DropGuard, DropTrashed, DropUndo
<1>11. CASE Gate(p) \/ DropStart(p) \/ Recover(p) \/ Scan(p) \/ Crash(p)
  BY <1>7, <1>11 DEF Gate, DropStart, Recover, Scan, Crash
<1>12. QED
  BY <1>8, <1>9, <1>10, <1>11 DEF Step, Command

\* While a child lives that the pidfile records, commands wait or refuse.
LEMMA OwnedWaits ==
  ASSUME Inv, Calm, Ready, Held, Single, NEW p \in Proc, Step(p), pc[p] # "undo",
         NEW r \in Run, r \in DOMAIN setup.of, Owned(r), Owned(r)'
  PROVE  at' # Host /\ (Busy(p)' => pc'[p] \in Waiting)
<1>1. /\ pc \in [Proc -> Labels] /\ kid \in [Run -> {"none", "live", "zombie", "gone"}]
      /\ kid[r] = "live" /\ home[Of(r)].pid = r /\ at # Host
      /\ Nothing # Host
  BY Kinds DEF Inv, Control, TypeOK, Owned, Held
<1>2. \A l : pc' = [pc EXCEPT ![p] = l] => pc'[p] = l
  BY <1>1
<1>3. p \in DOMAIN setup.of => Of(p) = Of(r) /\ Running(Of(p))
  <2>1. r # None
    BY SortAssumption DEF Proc
  <2>2. QED
    BY <1>1, <2>1 DEF Single, Running
<1>4. kid'[r] = "live"
  BY DEF Owned
<1> USE <1>1, <1>2 DEF Goto, Call
<1>5. CASE Gate(p)
  <2>1. pc'[p] = "end" /\ at' = at
    BY <1>3, <1>5 DEF Gate, Turn
  <2>2. QED
    BY <2>1 DEF Busy, Ended
<1>6. CASE DropStart(p)
  <2>1. pc'[p] \in {"loop", "sweep", "end"} /\ at' = at
    BY <1>6 DEF DropStart
  <2>2. QED
    BY <2>1 DEF Busy, Ended, Waiting
<1>7. CASE Crash(p)
  <2>1. pc'[p] = "dead" /\ (at' = at \/ at' = Nothing)
    BY <1>7 DEF Crash, EndSession
  <2>2. QED
    BY <2>1 DEF Busy, Ended
<1>8. CASE Command(p)
  <2>1. Busy(p)
    BY <1>8, OnlyOneUnmounts, OnlyOneRuns, OnlyOneDrops DEF Command, Unmount, UnmountMac, Wipe, Unlink,
       UnmountWin, FindReal, Restore, PutBack, Recover, Scan, RunStep, Mkdirs, MountCheck, Clean, Aside,
       MkView, Symlink, Serve, ServeFails, Rollback, Spawn, SpawnFails, Claim, ClaimFault, Lost, Close,
       Wait, Down, Clear, DropStep, DropTerminate, DropLoop, DropVerdict, DropSweep, DropDelete,
       DropSwept, DropAgain, DropRecheck, DropGuard, DropRename, DropTrashed, DropUndo, DropRemove,
       Busy, Ended
  <2>2. pc[p] \in Waiting /\ p \in DOMAIN setup.of
    BY <2>1 DEF Held, Inv, Control, Busy
  <2>3. Of(p) = Of(r) /\ Running(Of(p))
    BY <1>3, <2>2
  <2>4. CASE p \in Run /\ RunStep(p)
    <3>1. Wait(p)
      BY <2>2, <2>4 DEF Waiting, RunStep, Mkdirs, MountCheck, Clean, Aside, MkView, Symlink, Serve,
         ServeFails, Rollback, Spawn, SpawnFails, Claim, ClaimFault, Lost, Close, Down, Clear
    <3>2. pc[p] = "running" /\ kid[p] = "zombie"
      BY <3>1 DEF Wait
    <3>3. p = r
      BY <2>3, <3>2 DEF Held
    <3>4. QED
      BY <3>2, <3>3
  <2>5. CASE p \in Drop /\ DropStep(p)
    <3>1. ~DropTerminate(p)
      BY <1>4, <2>3 DEF DropTerminate
    <3>2. DropVerdict(p) \/ DropSweep(p) \/ DropDelete(p) \/ DropSwept(p)
      BY <2>2, <2>3, <2>5, <3>1 DEF Waiting, DropStep, DropLoop, DropAgain, DropRecheck, DropGuard,
         DropRename, DropTrashed, DropUndo, DropRemove
    <3>3. at' = at /\ pc'[p] \in {"end", "sweep", "delete", "again"}
      BY <3>2 DEF DropVerdict, DropSweep, DropDelete, DropSwept
    <3>4. QED
      BY <3>3 DEF Busy, Ended, Waiting
  <2>6. CASE Unmount(p) \/ Recover(p) \/ Scan(p)
    BY <2>2, <2>6 DEF Waiting, Unmount, UnmountMac, Wipe, Unlink, UnmountWin, FindReal, Restore, PutBack,
       Recover, Scan
  <2>7. QED
    BY <1>8, <2>4, <2>5, <2>6 DEF Command
<1>9. QED
  BY <1>5, <1>6, <1>7, <1>8 DEF Step

\* A run waits for the child it has recorded.
LEMMA ClaimedFirst ==
  ASSUME Inv, NEW p \in Proc, Step(p), pc'[p] = "running"
  PROVE  p \in Run /\ Claim(p) /\ at' = at /\ home'[Of(p)].pid = p
<1>1. /\ pc \in [Proc -> Labels] /\ home \in [Place -> Directory]
      /\ ret[p].ok \in Continuations /\ ret[p].err \in Continuations
  BY DEF Inv, Control, TypeOK, Directory
<1>2. \A l : pc' = [pc EXCEPT ![p] = l] => l = "running"
  BY <1>1
<1> USE <1>1, <1>2 DEF Goto, Call
<1>3. ~Gate(p) /\ ~DropStart(p) /\ ~Scan(p) /\ ~Crash(p) /\ ~Recover(p)
  BY DEF Gate, DropStart, Scan, Crash, Recover, AfterRecover
<1>4. ~Unmount(p)
  BY DEF Unmount, UnmountMac, Wipe, Unlink, UnmountWin, FindReal, Restore, PutBack, Return, Fail,
     Continuations
<1>5. ASSUME p \in Drop, DropStep(p) PROVE FALSE
  BY <1>5 DEF DropStep, DropTerminate, DropLoop, DropVerdict, DropSweep, DropDelete, DropSwept, DropAgain,
     DropRecheck, DropGuard, DropRename, DropTrashed, DropUndo, DropRemove
<1>6. p \in Run /\ RunStep(p)
  BY <1>3, <1>4, <1>5 DEF Step, Command
<1>7. Claim(p)
  BY <1>6 DEF RunStep, Mkdirs, MountCheck, Clean, Aside, MkView, Symlink, Serve, ServeFails, Rollback,
     Spawn, SpawnFails, ClaimFault, Lost, Close, Wait, Down, Clear
<1>8. at' = at /\ home' = [home EXCEPT ![Of(p)].pid = p]
  BY <1>7 DEF Claim
<1>9. Of(p) \in Place
  BY <1>7, Given, Sorts DEF Claim, Inv, Control, TypeOK
<1>10. QED
  BY <1>6, <1>7, <1>8, <1>9 DEF Directory

LEMMA HeldInit == Init => Held
<1>1. Init => /\ \A p \in Proc : pc[p] = "idle"
              /\ \A r \in Run : kid[r] = "none"
  BY DEF Init
<1>2. QED
  BY <1>1 DEF Held, Owned

LEMMA HeldNext ==
  ASSUME Inv, Inv', setup.patient, Single, Calm, Ready, Ready', Settled, Held, [Next]_vars
  PROVE  Held'
<1>1. setup' = setup
  BY SetupStays
<1>2. ASSUME NEW p \in Proc, Step(p) PROVE Held'
  <2>1. pc[p] # "undo"
    BY DEF Settled, Placed
  <2>2. ASSUME NEW q \in Proc, q # p PROVE ~Busy(q)' /\ pc'[q] # "running"
    <3>1. ~Busy(q) /\ pc'[q] = pc[q]
      BY <1>2, <2>2, Alone DEF Calm
    <3>2. QED
      BY <3>1 DEF Busy, Ended
  <2>3. ASSUME NEW q \in Proc, pc'[q] = "running" PROVE (home[Of(q)].pid = q)'
    BY <1>1, <1>2, <2>2, <2>3, ClaimedFirst DEF Of
  <2>4. ASSUME NEW r \in Run, Owned(r)' PROVE at' # Host /\ (Busy(p)' => pc'[p] \in Waiting)
    <3>1. r \in DOMAIN setup'.of
      <4>1. r \in Proc /\ kid'[r] # "none"
        BY <2>4, Sorts DEF Owned
      <4>2. pc'[r] # "idle"
        BY <4>1 DEF Ready, Housed, Before, Early
      <4>3. QED
        BY <4>1, <4>2 DEF Inv, Control
    <3>2. r \in DOMAIN setup.of /\ Of(r) \in Worktree
      BY <1>1, <3>1, Given DEF Inv, TypeOK
    <3>3. CASE Owned(r)
      BY <1>2, <2>1, <2>4, <3>2, <3>3, OwnedWaits
    <3>4. CASE p = r /\ Claim(r) /\ pc'[r] = "running"
      <4>1. at' = at /\ pc[p] = "claim"
        BY <3>4 DEF Claim
      <4>2. at # Host
        BY <4>1, Kinds DEF Calm, Linked
      <4>3. QED
        BY <3>4, <4>1, <4>2 DEF Waiting
    <3>5. QED
      BY <1>2, <2>1, <2>4, <3>2, <3>3, <3>4, StepOwned
  <2>5. ASSUME NEW r \in Run, Owned(r)' PROVE (at # Host /\ \A q \in Proc : Busy(q) => pc[q] \in Waiting)'
    BY <2>2, <2>4, <2>5
  <2>6. QED
    BY <2>3, <2>5 DEF Held
<1>3. ASSUME NEW r \in Run, Exit(r) PROVE Held'
  <2>1. UNCHANGED <<at, home, pc>>
    BY <1>3 DEF Exit
  <2>2. \A q \in Run : kid'[q] = "live" => kid[q] = "live"
    BY <1>3 DEF Exit, Inv, TypeOK
  <2>3. QED
    BY <1>1, <2>1, <2>2 DEF Held, Owned, Busy, Of
<1>4. ASSUME NEW x \in Diff, Again(x) PROVE Held'
  <2>1. UNCHANGED <<at, home, kid>> /\ \A q \in Proc : pc'[q] = pc[q] \/ pc'[q] = "idle"
    BY <1>4 DEF Again, Goto, Inv, Control
  <2>2. \A q \in Proc : Busy(q)' => Busy(q) /\ pc'[q] = pc[q]
    BY <2>1 DEF Busy
  <2>3. \A r \in Run : Owned(r)' <=> Owned(r)
    BY <1>1, <2>1 DEF Owned, Of
  <2>4. \A q \in Proc : pc'[q] = "running" => (home[Of(q)].pid = q)'
    BY <1>1, <2>1 DEF Held, Of
  <2>5. QED
    BY <2>1, <2>2, <2>3, <2>4 DEF Held
<1>5. CASE Meddle \/ MakeWay
  <2>1. UNCHANGED <<home, kid, pc>> /\ at' \in {Nothing, Empty, Foreign}
    BY <1>5 DEF Meddle, MakeWay
  <2>2. QED
    BY <1>1, <2>1, Kinds DEF Held, Owned, Busy, Of
<1>6. CASE UNCHANGED vars
  BY <1>6 DEF vars, Held, Owned, Busy, Of
<1>7. QED
  BY <1>2, <1>3, <1>4, <1>5, <1>6, Steps

\* README.md:18-20: with one worktree of the target, as long as a child the pidfile
\* records lives, the target path does not lead it to the host directory.
THEOREM ChildIsolated == Spec => []Isolated
<1> DEFINE S == setup.patient => Calm /\ Ready
           T == setup.patient /\ Sole => Settled
           H == setup.patient /\ Single => Held
<1>1. Single => Sole
  BY DEF Sole
<1>2. Inv /\ Inv' /\ S /\ S' /\ T /\ H /\ [Next]_vars => H'
  <2> SUFFICES ASSUME Inv, Inv', S, S', T, H, [Next]_vars, setup'.patient, Single' PROVE Held'
    OBVIOUS
  <2>1. setup.patient /\ Single
    BY SetupStays, SoleStays
  <2>2. Calm /\ Ready /\ Ready' /\ Settled /\ Held
    BY <1>1, <2>1
  <2>3. QED
    BY <2>1, <2>2, HeldNext
<1>3. Init => H
  BY HeldInit
<1>4. H => Isolated
  BY DEF Isolated, Held, Owned
<1>5. QED
  BY <1>2, <1>3, <1>4, Readiness, Settlement, Invariance, PTL DEF Spec

=============================================================================
