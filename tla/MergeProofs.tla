---------------------------- MODULE MergeProofs ----------------------------
(***************************************************************************)
(* Theorems about Merge, for every set of paths, every entry and any       *)
(* number of edits and attempts.                                           *)
(*                                                                         *)
(* The argument: an operation checks its path first (Verified), and until  *)
(* it has finished nobody else touches the host, so what the later system  *)
(* calls of the operation find is what the check saw or what the operation *)
(* itself made. MidOK records that, LeftOK that the operations left are    *)
(* operations of the plan, and TypeOK that the host stays a tree. On top   *)
(* of that, MergeInv follows each path to the merge's result, HalfWay says *)
(* what a retry may find there, and AsPlanned that the operations of a     *)
(* plan do not get into each other's way.                                  *)
(***************************************************************************)
EXTENDS Merge, TLAPS

-----------------------------------------------------------------------------
(* Trees                                                                   *)

\* create_dir_all leaves a tree, and makes every directory asked for.
LEMMA MakeDirsTree ==
  ASSUME NEW t \in Tree, IsTree(t), NEW D \in SUBSET Path,
         \A q \in D : Anc[q] \subseteq D,
         CanMakeDirs(t, D)
  PROVE  /\ MakeDirs(t, D) \in Tree
         /\ IsTree(MakeDirs(t, D))
         /\ \A q \in D : MakeDirs(t, D)[q] \in Dirs
<1>1. MakeDirs(t, D) \in Tree
  BY EntryAssumption DEF MakeDirs, Tree, Entry
<1>2. \A q \in D : MakeDirs(t, D)[q] \in Dirs
  BY EntryAssumption DEF MakeDirs, CanMakeDirs
<1>3. IsTree(MakeDirs(t, D))
  BY <1>2, PathAssumption DEF IsTree, MakeDirs
<1>4. QED
  BY <1>1, <1>2, <1>3

\* Taking away an entry with nothing in it leaves a tree.
LEMMA RemoveLeafTree ==
  ASSUME NEW t \in Tree, IsTree(t), NEW p \in Path,
         t[p] \notin Dirs \/ ~HasChild(t, p)
  PROVE  /\ [t EXCEPT ![p] = Nil] \in Tree
         /\ IsTree([t EXCEPT ![p] = Nil])
  BY PathAssumption DEF Tree, IsTree, HasChild, Below

\* An entry put among directories, in place of a non-directory or by a
\* directory, leaves a tree.
LEMMA PutTree ==
  ASSUME NEW t \in Tree, IsTree(t), NEW p \in Path, NEW e \in Entry,
         \A q \in Anc[p] : t[q] \in Dirs,
         t[p] \notin Dirs \/ e \in Dirs
  PROVE  /\ [t EXCEPT ![p] = e] \in Tree
         /\ IsTree([t EXCEPT ![p] = e])
  BY PathAssumption DEF Tree, IsTree

-----------------------------------------------------------------------------
(* The inductive invariant                                                 *)

\* A path with an operation of the phase is one of the planner's, and what
\* the worktree has there decides the phase.
LEMMA PhaseOpsPlanned ==
  ASSUME TypeOK, NEW phase \in Phases, NEW p \in PhaseOps(phase)
  PROVE  /\ p \in Path
         /\ phase = "mkdir" => work[p] \in Dirs
         /\ phase = "write" => work[p] \in Files
         /\ phase = "link" => work[p] \in Links
  BY DEF Phases, PhaseOps, Mkdirs, Deletes, Removals, Migrations, Writes,
         Symlinks, EmptyParents, Planned, Candidates

\* Stopping for whatever reason keeps the invariant.
LEMMA StopInv ==
  ASSUME Inv, NEW how \in Halted, Stop(how), Frame
  PROVE  Inv'
  BY DEF Inv, TypeOK, LeftOK, MidOK, Stop, Frame, IsTree, Tree

\* So does finishing an operation, once the host is known to stay a tree.
LEMMA FinishInv ==
  ASSUME Inv, NEW p \in Path, Finish(p), Frame, host' \in Tree, IsTree(host')
  PROVE  Inv'
<1>1. TypeOK'
  BY DEF Inv, TypeOK, Finish, Frame, IsTree
<1>2. LeftOK'
  BY DEF Inv, LeftOK, Finish, Frame, PhaseOps
<1>3. MidOK'
  BY DEF MidOK, Finish
<1>4. QED
  BY <1>1, <1>2, <1>3 DEF Inv
\* An operation that moves to its next system call keeps the invariant, once
\* the host is known to stay a tree and MidOK to hold of the new call.
LEMMA MidStepInv ==
  ASSUME Inv, NEW p \in left, NEW at \in Stages,
         mid' = [path |-> p, at |-> at], pc' = pc, left' = left, Frame,
         host' \in Tree, IsTree(host'), MidOK'
  PROVE  Inv'
<1>1. TypeOK'
  BY DEF Inv, TypeOK, Frame, IsTree
<1>2. LeftOK'
  BY DEF Inv, LeftOK, Frame, PhaseOps
<1>3. QED
  BY <1>1, <1>2 DEF Inv

\* Every step of the executor on one path keeps the invariant.
LEMMA ExecStepInv ==
  ASSUME Inv, NEW p \in Path, ExecStep(p)
  PROVE  Inv'
<1> USE DEF Inv
<1>0. Frame /\ host \in Tree /\ IsTree(host)
  BY DEF ExecStep, Refuse, MkdirClear, MkdirCreate, MkdirChmod, DeleteSkip,
         Delete, PlaceParents, PlaceClear, Place, Prune, TypeOK
<1>1. MayTake(p) => pc \in Phases /\ p \in left /\ p \in PhaseOps(pc)
  BY DEF MayTake, LeftOK
<1>2. ASSUME NEW at \in Stages, mid = [path |-> p, at |-> at]
      PROVE  pc \in Phases /\ p \in left /\ p \in PhaseOps(pc) /\ mid # NoOp
  BY <1>2, EntryAssumption DEF MidOK, LeftOK, NoOp, Stages
<1>3. ASSUME Fail PROVE Inv'
  BY <1>0, <1>3, StopInv DEF Fail, Halted
<1>4. CASE Refuse(p)
  BY <1>3, <1>4 DEF Refuse
<1>5. CASE MkdirClear(p)
  <2>1. p \in left /\ host[p] \notin Dirs
    BY <1>1, <1>5, EntryAssumption DEF MkdirClear
  <2>2. host' \in Tree /\ IsTree(host')
    BY <1>0, <1>5, <2>1, RemoveLeafTree DEF MkdirClear
  <2>3. MidOK'
    <3>1. \A q \in Anc[p] : host[q] \in Dirs
      BY <1>0, <1>5, EntryAssumption DEF MkdirClear, IsTree, Entry
    <3>2. QED
      BY <1>0, <1>5, <2>1, <3>1, PathAssumption, EntryAssumption
         DEF MkdirClear, MidOK, Tree, Entry
  <2>4. QED
    BY <1>0, <1>5, <2>1, <2>2, <2>3, MidStepInv DEF MkdirClear, Stages
<1>6. CASE MkdirCreate(p)
  <2>1. pc = "mkdir" /\ p \in left /\ host[p] \in Dirs \cup {Nil}
    BY <1>1, <1>2, <1>6, EntryAssumption DEF MkdirCreate, MidOK, NoOp, Stages
  <2>2. CASE ~CanMakeDirs(host, Anc[p])
    BY <1>3, <1>6, <2>2 DEF MkdirCreate
  <2>3. CASE CanMakeDirs(host, Anc[p])
    <3> DEFINE D == Anc[p] \cup {p}
    <3>1. /\ host' = MakeDirs(host, D)
          /\ mid' = [path |-> p, at |-> "chmod"]
          /\ pc' = pc /\ left' = left
      BY <1>6, <2>3 DEF MkdirCreate
    <3>2. D \in SUBSET Path /\ CanMakeDirs(host, D) /\ \A q \in D : Anc[q] \subseteq D
      BY <2>1, <2>3, PathAssumption DEF CanMakeDirs
    <3>3. host' \in Tree /\ IsTree(host') /\ \A q \in D : host'[q] \in Dirs
      BY <1>0, <3>1, <3>2, MakeDirsTree
    <3>4. MidOK'
      BY <2>1, <3>1, <3>3 DEF MidOK
    <3>5. QED
      BY <1>0, <2>1, <3>1, <3>3, <3>4, MidStepInv DEF Stages
  <2>4. QED
    BY <2>2, <2>3
<1>7. CASE MkdirChmod(p)
  <2>1. /\ work[p] \in Dirs /\ work[p] \in Entry
        /\ \A q \in Anc[p] : host[q] \in Dirs
    BY <1>2, <1>7, PhaseOpsPlanned DEF MkdirChmod, MidOK, Stages, Entry
  <2>2. host' \in Tree /\ IsTree(host')
    BY <1>0, <1>7, <2>1, PutTree DEF MkdirChmod
  <2>3. QED
    BY <1>0, <1>7, <2>2, FinishInv DEF MkdirChmod
<1>8. CASE DeleteSkip(p)
  BY <1>0, <1>8, FinishInv DEF DeleteSkip
<1>9. CASE Delete(p)
  <2>1. CASE HasChild(host, p)
    BY <1>3, <1>9, <2>1 DEF Delete
  <2>2. CASE ~HasChild(host, p)
    <3>1. host' \in Tree /\ IsTree(host')
      BY <1>0, <1>9, <2>2, RemoveLeafTree DEF Delete
    <3>2. QED
      BY <1>0, <1>9, <2>2, <3>1, FinishInv DEF Delete
  <2>3. QED
    BY <2>1, <2>2
<1>10. CASE PlaceParents(p)
  <2>1. p \in left /\ pc \in {"write", "link"} /\ Verified(p)
    BY <1>1, <1>10 DEF PlaceParents
  <2>2. CASE ~CanMakeDirs(host, Anc[p])
    BY <1>3, <1>10, <2>2 DEF PlaceParents
  <2>3. CASE CanMakeDirs(host, Anc[p])
    <3>1. /\ host' = MakeDirs(host, Anc[p])
          /\ mid' = [path |-> p, at |-> "clear"]
          /\ pc' = pc /\ left' = left
      BY <1>10, <2>3 DEF PlaceParents
    <3>2. host' \in Tree /\ IsTree(host') /\ \A q \in Anc[p] : host'[q] \in Dirs
      BY <1>0, <2>3, <3>1, MakeDirsTree, PathAssumption
    <3>3. host'[p] = host[p]
      BY <3>1, PathAssumption DEF MakeDirs
    <3>4. Verified(p)'
      BY <1>0, <2>1, <3>3 DEF Verified, Frame, Migrations, Planned, Candidates,
         Blocked, HostOnly
    <3>5. MidOK'
      BY <2>1, <3>1, <3>2, <3>4 DEF MidOK
    <3>6. QED
      BY <1>0, <2>1, <3>1, <3>2, <3>5, MidStepInv DEF Stages
  <2>4. QED
    BY <2>2, <2>3
<1>11. CASE PlaceClear(p)
  <2>1. /\ p \in left /\ pc \in {"write", "link"}
        /\ \A q \in Anc[p] : host[q] \in Dirs
    BY <1>2, <1>11 DEF PlaceClear, MidOK, Stages
  <2>2. CASE HasChild(host, p)
    BY <1>3, <1>11, <2>2 DEF PlaceClear
  <2>3. CASE ~HasChild(host, p)
    <3>1. /\ host' = [host EXCEPT ![p] = Nil]
          /\ mid' = [path |-> p, at |-> "place"]
          /\ pc' = pc /\ left' = left
      BY <1>11, <2>3 DEF PlaceClear
    <3>2. host' \in Tree /\ IsTree(host')
      BY <1>0, <2>3, <3>1, RemoveLeafTree
    <3>3. MidOK'
      BY <1>0, <2>1, <3>1, PathAssumption DEF MidOK, Tree
    <3>4. QED
      BY <1>0, <2>1, <3>1, <3>2, <3>3, MidStepInv DEF Stages
  <2>4. QED
    BY <2>2, <2>3
<1>12. CASE Place(p)
  <2>1. /\ pc \in {"write", "link"} /\ work[p] \in Entry
        /\ \A q \in Anc[p] : host[q] \in Dirs
    BY <1>2, <1>12, PhaseOpsPlanned DEF Place, MidOK, Stages, Entry
  <2>2. host[p] \notin Dirs
    BY <1>2, <1>12, EntryAssumption DEF Place, MidOK, Stages, InTheWay, Entry
  <2>3. host' \in Tree /\ IsTree(host')
    BY <1>0, <1>12, <2>1, <2>2, PutTree DEF Place
  <2>4. QED
    BY <1>0, <1>12, <2>3, FinishInv DEF Place
<1>13. CASE Prune(p)
  <2>1. host' \in Tree /\ IsTree(host')
    BY <1>0, <1>13, RemoveLeafTree DEF Prune
  <2>2. QED
    BY <1>0, <1>13, <2>1, FinishInv DEF Prune
<1>14. QED
  BY <1>4, <1>5, <1>6, <1>7, <1>8, <1>9, <1>10, <1>11, <1>12, <1>13 DEF ExecStep

\* Every step of the system keeps the invariant.
LEMMA NextInv ==
  ASSUME Inv, [Next]_vars
  PROVE  Inv'
<1>1. CASE Start
  BY <1>1, BoundAssumption DEF Start, Inv, TypeOK, LeftOK, MidOK, IsTree, Halted
<1>2. CASE Stage
  <2>1. TypeOK'
    BY <1>2 DEF Stage, Frame, Inv, TypeOK, IsTree, Phases, PhaseOps
  <2>2. LeftOK'
    BY <1>2 DEF Stage, Frame, LeftOK, Phases, PhaseOps
  <2>3. MidOK'
    BY <1>2 DEF Stage, Inv, LeftOK, MidOK, Phases
  <2>4. QED
    BY <2>1, <2>2, <2>3 DEF Inv
<1>3. CASE Advance
  <2>1. pc' \in Phases \cup {"done"} /\ (left' # {} => pc' \in Phases)
    BY <1>3 DEF Advance, NextPhase, Phases
  <2>2. TypeOK'
    BY <1>3, <2>1 DEF Advance, Frame, Inv, TypeOK, IsTree, PhaseOps
  <2>3. LeftOK'
    BY <1>3, <2>1 DEF Advance, Frame, LeftOK, PhaseOps
  <2>4. MidOK'
    BY <1>3 DEF Advance, MidOK
  <2>5. QED
    BY <2>2, <2>3, <2>4 DEF Inv
<1>4. CASE Interrupt
  BY <1>4, StopInv DEF Interrupt, Halted
<1>5. ASSUME NEW p \in Path, NEW e \in Entry \cup {Nil}, HostEdit(p, e)
      PROVE  Inv'
  <2>1. TypeOK'
    BY <1>5 DEF HostEdit, Inv, TypeOK, Tree
  <2>2. LeftOK' /\ MidOK'
    BY <1>5 DEF HostEdit, Inv, LeftOK, MidOK, PhaseOps
  <2>3. QED
    BY <2>1, <2>2 DEF Inv
<1>6. CASE UNCHANGED vars
  BY <1>6 DEF vars, Inv, TypeOK, LeftOK, MidOK, IsTree, PhaseOps, Verified
<1>7. QED
  BY <1>1, <1>2, <1>3, <1>4, <1>5, <1>6, ExecStepInv DEF Next, Exec, Stopped

\* The initial states satisfy it.
LEMMA InitInv == Init => Inv
  BY BoundAssumption DEF Init, Inv, TypeOK, LeftOK, MidOK

\* The host is a tree of well-typed entries at every step, every operation
\* left belongs to the plan, and an operation under way finds the host as its
\* check left it.
THEOREM Invariance == Spec => []Inv
<1>1. Init => Inv
  BY InitInv
<1>2. Inv /\ [Next]_vars => Inv'
  BY NextInv
<1>3. QED
  BY <1>1, <1>2, PTL DEF Spec
-----------------------------------------------------------------------------
(* Fresh host files                                                        *)

\* create_dir_all replaces nothing.
LEMMA MakeDirsKeeps ==
  ASSUME NEW t, NEW D, NEW q \in Path, t[q] # Nil
  PROVE  MakeDirs(t, D)[q] = t[q]
  BY DEF MakeDirs

\* The step of the executor on one path replaces no file but the one the
\* planner saw.
LEMMA ExecStepKeeps ==
  ASSUME Inv, NEW p \in Path, ExecStep(p)
  PROVE  KeepsFreshFiles
<1> SUFFICES ASSUME NEW q \in Path, host[q] \in Files \cup Links, host[q] # seen[q]
             PROVE  host'[q] = host[q]
  BY DEF KeepsFreshFiles
<1>1. host \in Tree /\ host[q] # Nil /\ host[q] \notin Dirs
  BY EntryAssumption DEF Inv, TypeOK, Entry
<1>2. ~Verified(q)
  BY <1>1, EntryAssumption DEF Verified, Entry
<1>3. ASSUME NEW at \in Stages, mid = [path |-> q, at |-> at]
      PROVE  FALSE
  BY <1>1, <1>2, <1>3, EntryAssumption DEF Inv, MidOK, NoOp, Stages
<1>4. CASE Refuse(p)
  BY <1>4 DEF Refuse, Fail, Stop
<1>5. CASE MkdirClear(p)
  BY <1>1, <1>2, <1>5 DEF MkdirClear, Tree
<1>6. CASE MkdirCreate(p)
  BY <1>1, <1>6, MakeDirsKeeps DEF MkdirCreate, Fail, Stop
<1>7. CASE MkdirChmod(p)
  BY <1>1, <1>3, <1>7 DEF MkdirChmod, Tree, Stages
<1>8. CASE DeleteSkip(p)
  BY <1>8 DEF DeleteSkip
<1>9. CASE Delete(p)
  BY <1>1, <1>2, <1>9 DEF Delete, Fail, Stop, Tree
<1>10. CASE PlaceParents(p)
  BY <1>1, <1>10, MakeDirsKeeps DEF PlaceParents, Fail, Stop
<1>11. CASE PlaceClear(p)
  BY <1>1, <1>3, <1>11 DEF PlaceClear, Fail, Stop, Tree, Stages
<1>12. CASE Place(p)
  BY <1>1, <1>3, <1>12 DEF Place, Tree, Stages
<1>13. CASE Prune(p)
  BY <1>1, <1>13 DEF Prune, Tree
<1>14. QED
  BY <1>4, <1>5, <1>6, <1>7, <1>8, <1>9, <1>10, <1>11, <1>12, <1>13 DEF ExecStep

\* No step of the executor removes or replaces a file or symlink of the host
\* other than the one its plan was made for, whenever it got there.
THEOREM FilesKept == Spec => FreshFilesKept
<1>1. Inv /\ [Next]_vars => [KeepsFreshFiles]_exec
  <2> SUFFICES ASSUME Inv, Next, ~UNCHANGED exec
               PROVE  KeepsFreshFiles
    BY DEF vars, exec
  <2>1. CASE Start \/ Stage \/ Advance \/ Interrupt \/ Stopped
    BY <2>1 DEF Start, Stage, Advance, Interrupt, Stop, Stopped, vars, KeepsFreshFiles
  <2>2. ASSUME NEW p \in Path, ExecStep(p)
        PROVE  KeepsFreshFiles
    BY <2>2, ExecStepKeeps
  <2>3. ASSUME NEW p \in Path, NEW e \in Entry \cup {Nil}, HostEdit(p, e)
        PROVE  FALSE
    BY <2>3 DEF HostEdit, exec
  <2>4. QED
    BY <2>1, <2>2, <2>3 DEF Next, Exec
<1>2. QED
  BY <1>1, Invariance, PTL DEF Spec, FreshFilesKept
-----------------------------------------------------------------------------
(* The merge is the three-way merge                                        *)

\* A conflict-free plan leaves no changed path out: the host has it as base or
\* already as work, and in the first case the plan has an operation for it.
LEMMA CleanPlan ==
  ASSUME TypeOK, Clean(base, seen, work), NEW p \in Path, work[p] # base[p]
  PROVE  /\ seen[p] = base[p] \/ seen[p] = work[p]
         /\ seen[p] = base[p] => p \in Planned(base, seen, work)
  BY DEF Clean, ConflictPaths, Planned, Candidates, Blocked

\* Every operation but a prune is at a changed path that the host still has
\* as base; a pruned directory is one the worktree does not have.
LEMMA OpsChange ==
  ASSUME TypeOK, NEW phase \in Phases, NEW p \in PhaseOps(phase)
  PROVE  /\ work[p] # base[p]
         /\ phase # "prune" => seen[p] # work[p]
         /\ phase = "prune" => work[p] = Nil
         /\ phase = "delete" => work[p] = Nil \/ p \in Migrations(base, seen, work)
  BY DEF Phases, PhaseOps, Mkdirs, Deletes, Removals, Migrations, Writes,
         Symlinks, EmptyParents, Planned, Candidates

\* Steps that change nothing but the host, and only where the plan is not done.
LEMMA MergeFrame ==
  ASSUME Inv, MergeInv, Frame, edited = {}, attempt > 0,
         pc \in Phases, pc' = pc \/ pc' \in Halted,
         KeptOK',
         pc' = pc => \A p \in Path :
            /\ work[p] # base[p]
            /\ seen[p] = work[p] \/ Committed(p)'
            => host'[p] = work[p]
  PROVE  MergeInv'
<1>1. ChangedOK'
  <2>1. CASE pc' = pc
    BY <2>1 DEF Frame, MergeInv, ChangedOK, Phases
  <2>2. CASE pc' \in Halted
    BY <2>2 DEF Halted, ChangedOK, Phases
  <2>3. QED
    BY <2>1, <2>2
<1>2. IsTree(work)' /\ (pc = "idle" <=> attempt = 0)'
  BY DEF Frame, MergeInv, IsTree, Phases, Halted
<1>3. QED
  BY <1>1, <1>2 DEF MergeInv, Frame

\* create_dir_all above or at a path the worktree writes does no harm.
LEMMA MakeDirsMerge ==
  ASSUME Inv, MergeInv, Frame, edited = {}, attempt > 0,
         NEW p \in left, pc \in {"mkdir", "write", "link"}, left' = left, pc' = pc,
         NEW D \in SUBSET (Anc[p] \cup {p}), p \in D => pc = "mkdir",
         host' = MakeDirs(host, D)
  PROVE  MergeInv'
<1>1. /\ p \in Path /\ p \in PhaseOps(pc) /\ pc \in Phases
      /\ work[p] # base[p] /\ work[p] # Nil /\ seen[p] # work[p]
  BY PhaseOpsPlanned, OpsChange, EntryAssumption
     DEF Inv, LeftOK, TypeOK, Phases, Entry
<1>2. \A q \in Anc[p] : work[q] \in Dirs
  BY <1>1, PathAssumption DEF MergeInv, IsTree
<1>3. \A q \in Path : host'[q] # host[q] =>
        /\ host[q] = Nil
        /\ host'[q] = UmaskDir
        /\ q \in Anc[p] \/ (q = p /\ pc = "mkdir")
  BY DEF MakeDirs
<1>4. KeptOK'
  <2> SUFFICES ASSUME NEW q \in Path, work[q] = base[q]
               PROVE  \/ host'[q] = origin[q]
                      \/ origin[q] = Nil /\ host'[q] = UmaskDir /\ Required(q)
    BY DEF KeptOK, Frame, Required
  <2>1. CASE host'[q] = host[q]
    BY <2>1 DEF MergeInv, KeptOK
  <2>2. CASE host'[q] # host[q]
    <3>1. host[q] = Nil /\ host'[q] = UmaskDir /\ q \in Anc[p]
      BY <1>1, <1>3, <2>2
    <3>2. Required(q)
      BY <1>1, <3>1, PathAssumption DEF Required, Below
    <3>3. origin[q] = Nil
      BY <3>1, EntryAssumption DEF MergeInv, KeptOK, Entry
    <3>4. QED
      BY <3>1, <3>2, <3>3
  <2>3. QED
    BY <2>1, <2>2
<1>5. ASSUME NEW q \in Path, work[q] # base[q], seen[q] = work[q] \/ Committed(q)'
      PROVE  host'[q] = work[q]
  <2>1. seen[q] = work[q] \/ Committed(q)
    BY <1>5 DEF Committed, Frame
  <2>2. host[q] = work[q]
    BY <1>1, <1>5, <2>1 DEF MergeInv, ChangedOK
  <2>3. CASE q \in Anc[p]
    <3>1. work[q] \in Dirs /\ Nil \notin Dirs
      BY <1>2, <2>3, EntryAssumption DEF Entry
    <3>2. host[q] # Nil
      BY <2>2, <3>1
    <3>3. host'[q] = host[q]
      BY <3>2 DEF MakeDirs
    <3>4. QED
      BY <2>2, <3>3
  <2>4. CASE q = p /\ pc = "mkdir"
    <3>1. work[p] \in Dirs
      BY <1>1, <2>4, PhaseOpsPlanned DEF Inv
    <3>2. ~Committed(p)
      BY <1>1, <2>4, <3>1, EntryAssumption DEF Committed, Phases, Entry
    <3>3. QED
      BY <1>1, <2>1, <2>4, <3>2
  <2>5. QED
    BY <1>3, <2>2, <2>3, <2>4
<1>6. QED
  BY <1>1, <1>4, <1>5, MergeFrame
\* A step that touches the host at p only, where the worktree changed p,
\* does no harm if it commits p or leaves it uncommitted.
LEMMA OnePathMerge ==
  ASSUME Inv, MergeInv, Frame, edited = {}, attempt > 0,
         NEW p \in left, pc \in Phases, pc' = pc, left \ {p} \subseteq left',
         host' = host \/ \E e : host' = [host EXCEPT ![p] = e],
         (seen[p] = work[p] \/ Committed(p)') => host'[p] = work[p]
  PROVE  MergeInv'
<1>1. p \in Path /\ work[p] # base[p] /\ host \in Tree
  BY OpsChange DEF Inv, LeftOK, TypeOK
<1>2. \A q \in Path \ {p} : host'[q] = host[q]
  BY <1>1 DEF Tree
<1>3. KeptOK'
  BY <1>1, <1>2 DEF MergeInv, KeptOK, Frame, Required
<1>4. ASSUME NEW q \in Path, work[q] # base[q], seen[q] = work[q] \/ Committed(q)'
      PROVE  host'[q] = work[q]
  <2>1. CASE q = p
    BY <1>4, <2>1
  <2>2. CASE q # p
    <3>1. seen[q] = work[q] \/ Committed(q)
      BY <1>4, <2>2 DEF Committed, Frame
    <3>2. QED
      BY <1>2, <1>4, <2>2, <3>1 DEF MergeInv, ChangedOK
  <2>3. QED
    BY <2>1, <2>2
<1>5. QED
  BY <1>3, <1>4, MergeFrame

\* Stopping early does no harm.
LEMMA StopMerge ==
  ASSUME MergeInv, Frame, pc \in Phases \cup {"stage"},
         NEW how \in Halted, Stop(how)
  PROVE  MergeInv'
  BY DEF MergeInv, KeptOK, ChangedOK, Frame, Stop, Halted, Phases, Required, IsTree

\* A step of the executor is one of an operation of the phase that is not done.
LEMMA ExecStepOp ==
  ASSUME Inv, NEW p \in Path, ExecStep(p)
  PROVE  /\ Frame
         /\ host \in Tree
         /\ pc \in Phases /\ p \in left /\ p \in PhaseOps(pc)
<1>1. Frame /\ host \in Tree
  BY DEF ExecStep, Refuse, MkdirClear, MkdirCreate, MkdirChmod, DeleteSkip,
         Delete, PlaceParents, PlaceClear, Place, Prune, Inv, TypeOK
<1>2. MayTake(p) => pc \in Phases /\ p \in left
  BY DEF MayTake
<1>3. ASSUME NEW at \in Stages, mid = [path |-> p, at |-> at]
      PROVE  pc \in Phases /\ p \in left
  BY <1>3, EntryAssumption DEF Inv, MidOK, LeftOK, NoOp, Stages
<1>4. pc \in Phases /\ p \in left
  BY <1>2, <1>3
     DEF ExecStep, Refuse, MkdirClear, MkdirCreate, MkdirChmod, DeleteSkip,
         Delete, PlaceParents, PlaceClear, Place, Prune, Stages
<1>5. QED
  BY <1>1, <1>4 DEF Inv, LeftOK

\* Every step of the executor on one path keeps MergeInv.
LEMMA ExecStepMerge ==
  ASSUME Inv, MergeInv, NEW p \in Path, ExecStep(p)
  PROVE  MergeInv'
<1>0. Frame /\ host \in Tree
  BY ExecStepOp
<1>1. pc \in Phases /\ p \in left /\ p \in PhaseOps(pc)
  BY ExecStepOp
<1>2. ASSUME Fail PROVE MergeInv'
  BY <1>0, <1>1, <1>2, StopMerge DEF Fail, Halted
<1>3. CASE edited # {} \/ attempt = 0
  <2>1. pc' \in Phases \cup Halted /\ attempt # 0
    BY <1>1 DEF ExecStep, Refuse, MkdirClear, MkdirCreate, MkdirChmod, DeleteSkip,
         Delete, PlaceParents, PlaceClear, Place, Prune, Fail, Stop, Finish, Halted,
         MergeInv, Phases
  <2>2. QED
    BY <1>0, <1>3, <2>1 DEF MergeInv, Frame, IsTree, Phases, Halted
<1>4. CASE edited = {} /\ attempt # 0
  <2>0. attempt > 0
    BY <1>4 DEF Inv, TypeOK
  <2>1. /\ work[p] # base[p]
        /\ pc # "prune" => seen[p] # work[p]
        /\ pc = "prune" => work[p] = Nil
        /\ pc = "delete" => work[p] = Nil \/ p \in Migrations(base, seen, work)
        /\ pc = "mkdir" => work[p] \in Dirs
        /\ pc = "write" => work[p] \in Files
        /\ pc = "link" => work[p] \in Links
    BY <1>1, OpsChange, PhaseOpsPlanned DEF Inv
  <2>2. pc \in {"mkdir", "write", "link"} => (p \in left' /\ pc' = pc => ~Committed(p)')
    BY <1>0, <2>1, EntryAssumption DEF Committed, Frame, Entry
  <2>3. CASE Refuse(p)
    BY <1>2, <2>3 DEF Refuse
  <2>4. CASE MkdirClear(p)
    BY <1>0, <1>1, <1>4, <2>0, <2>1, <2>2, <2>4, OnePathMerge DEF MkdirClear
  <2>5. CASE MkdirCreate(p)
    <3>1. CASE ~CanMakeDirs(host, Anc[p])
      BY <1>2, <2>5, <3>1 DEF MkdirCreate
    <3>2. CASE CanMakeDirs(host, Anc[p])
      <4>1. pc = "mkdir" /\ left' = left /\ pc' = pc
            /\ host' = MakeDirs(host, Anc[p] \cup {p})
        BY <2>5, <3>2, EntryAssumption DEF MkdirCreate, Inv, MidOK, NoOp
      <4>2. QED
        BY <1>0, <1>1, <1>4, <2>0, <4>1, MakeDirsMerge
    <3>3. QED
      BY <3>1, <3>2
  <2>6. CASE MkdirChmod(p)
    BY <1>0, <1>1, <1>4, <2>0, <2>6, OnePathMerge DEF MkdirChmod, Finish, Tree
  <2>7. CASE DeleteSkip(p)
    <3>1. work[p] = Nil => host[p] = Nil
      BY <2>7 DEF DeleteSkip, Migrations
    <3>2. Committed(p)' => host'[p] = work[p]
      <4>1. ASSUME Committed(p)', work[p] # Nil PROVE Committed(p)
        BY <1>0, <2>7, <4>1, EntryAssumption DEF DeleteSkip, Finish, Committed, Frame,
           Phases, Entry
      <4>2. QED
        BY <1>4, <2>0, <1>1, <2>1, <2>7, <3>1, <4>1 DEF DeleteSkip, MergeInv, ChangedOK
    <3>3. QED
      BY <1>0, <1>1, <1>4, <2>0, <2>1, <2>7, <3>2, OnePathMerge DEF DeleteSkip, Finish
  <2>8. CASE Delete(p)
    <3>1. CASE HasChild(host, p)
      BY <1>2, <2>8, <3>1 DEF Delete
    <3>2. CASE ~HasChild(host, p)
      <4>1. pc = "delete" /\ host' = [host EXCEPT ![p] = Nil] /\ Finish(p)
        BY <2>8, <3>2 DEF Delete
      <4>2. ASSUME Committed(p)' PROVE work[p] = Nil
        <5>1. SUFFICES ASSUME work[p] # Nil PROVE FALSE
          OBVIOUS
        <5>2. Committed(p) /\ work[p] \in Dirs
          BY <1>0, <4>1, <4>2, <5>1, EntryAssumption DEF Finish, Committed, Frame,
             Phases, Entry
        <5>3. host[p] \in Dirs /\ p \in Migrations(base, seen, work)
          BY <1>1, <1>4, <2>0, <2>1, <4>1, <5>1, <5>2 DEF MergeInv, ChangedOK
        <5>4. QED
          BY <2>8, <5>3 DEF Delete
      <4>3. QED
        BY <1>0, <1>1, <1>4, <2>0, <2>1, <4>1, <4>2, OnePathMerge DEF Finish, Tree
    <3>3. QED
      BY <3>1, <3>2
  <2>9. CASE PlaceParents(p)
    <3>1. CASE ~CanMakeDirs(host, Anc[p])
      BY <1>2, <2>9, <3>1 DEF PlaceParents
    <3>2. CASE CanMakeDirs(host, Anc[p])
      <4>1. pc \in {"write", "link"} /\ left' = left /\ pc' = pc
            /\ host' = MakeDirs(host, Anc[p])
        BY <2>9, <3>2 DEF PlaceParents
      <4>2. Anc[p] \in SUBSET (Anc[p] \cup {p}) /\ p \notin Anc[p]
        BY PathAssumption
      <4>3. QED
        BY <1>0, <1>1, <1>4, <2>0, <4>1, <4>2, MakeDirsMerge
    <3>3. QED
      BY <3>1, <3>2
  <2>10. CASE PlaceClear(p)
    <3>1. CASE HasChild(host, p)
      BY <1>2, <2>10, <3>1 DEF PlaceClear
    <3>2. CASE ~HasChild(host, p)
      <4>1. pc \in {"write", "link"}
        BY <2>10, EntryAssumption DEF PlaceClear, Inv, MidOK, NoOp
      <4>2. QED
        BY <1>0, <1>1, <1>4, <2>0, <2>1, <2>2, <2>10, <3>2, <4>1, OnePathMerge
           DEF PlaceClear
    <3>3. QED
      BY <3>1, <3>2
  <2>11. CASE Place(p)
    BY <1>0, <1>1, <1>4, <2>0, <2>11, OnePathMerge DEF Place, Finish, Tree
  <2>12. CASE Prune(p)
    <3>1. pc = "prune" /\ pc' = pc /\ left' = left \ {p} /\ work[p] = Nil
      BY <2>1, <2>12 DEF Prune, Finish
    <3>2. Committed(p) /\ host[p] = Nil
      <4>1. Committed(p)
        BY <3>1 DEF Committed, Phases
      <4>2. QED
        BY <1>1, <1>4, <2>0, <2>1, <3>1, <4>1 DEF MergeInv, ChangedOK
    <3>3. host' = host
      BY <2>12, <3>2, EntryAssumption DEF Prune, Entry
    <3>4. QED
      BY <1>0, <1>1, <1>4, <2>0, <3>1, <3>2, <3>3, OnePathMerge
  <2>13. QED
    BY <2>3, <2>4, <2>5, <2>6, <2>7, <2>8, <2>9, <2>10, <2>11, <2>12 DEF ExecStep
<1>5. QED
  BY <1>3, <1>4
\* Every step of the system keeps MergeInv.
LEMMA NextMerge ==
  ASSUME Inv, MergeInv, [Next]_vars
  PROVE  MergeInv'
<1>1. CASE Start
  <2>1. /\ IsTree(work)' /\ (pc = "idle" <=> attempt = 0)' /\ attempt \in Nat
        /\ pc' \in {"stage", "conflicts"}
    BY <1>1, BoundAssumption DEF Start, Inv, TypeOK, MergeInv, IsTree, Halted
  <2>2. ASSUME edited' = {} PROVE KeptOK'
    <3>1. CASE attempt = 0
      BY <1>1, <3>1 DEF Start, KeptOK
    <3>2. CASE attempt # 0
      BY <1>1, <2>1, <2>2, <3>2 DEF Start, MergeInv, KeptOK, Required
    <3>3. QED
      BY <3>1, <3>2
  <2>3. ChangedOK'
    BY <1>1 DEF Start, ChangedOK, Phases, Committed
  <2>4. QED
    BY <2>1, <2>2, <2>3 DEF MergeInv
<1>2. CASE Stage
  <2>1. ASSUME edited = {}, attempt > 0 PROVE KeptOK' /\ ChangedOK'
    <3>1. KeptOK'
      BY <1>2, <2>1 DEF Stage, Frame, MergeInv, KeptOK, Required
    <3>2. Clean(base, seen, work) /\ host = seen
      BY <1>2, <2>1 DEF Stage, MergeInv, ChangedOK
    <3>3. ASSUME NEW q \in Path, work[q] # base[q], seen[q] = work[q] \/ Committed(q)'
          PROVE  host[q] = work[q]
      <4>1. ASSUME seen[q] # work[q] PROVE FALSE
        <5>1. q \in Planned(base, seen, work)
          BY <3>2, <3>3, <4>1, CleanPlan DEF Inv
        <5>2. work[q] \in Dirs /\ q \notin PhaseOps("mkdir")
          BY <1>2, <3>3, <4>1 DEF Stage, Committed, Frame, Phases
        <5>3. QED
          BY <5>1, <5>2, <3>3 DEF PhaseOps, Mkdirs
      <4>2. QED
        BY <3>2, <4>1
    <3>4. QED
      BY <1>2, <3>1, <3>2, <3>3 DEF Stage, Frame, ChangedOK
  <2>2. QED
    BY <1>2, <2>1 DEF Stage, Frame, MergeInv, IsTree
<1>3. CASE Advance
  <2>1. /\ pc \in Phases /\ left = {} /\ pc' \in Phases \cup {"done"}
        /\ pc' = NextPhase[pc] /\ host' = host /\ Frame
    BY <1>3 DEF Advance, NextPhase, Phases
  <2>2. ASSUME edited = {}, attempt > 0 PROVE KeptOK' /\ ChangedOK'
    <3>1. KeptOK'
      BY <2>1, <2>2 DEF Frame, MergeInv, KeptOK, Required
    <3>2. Clean(base, seen, work)
      BY <2>1, <2>2 DEF MergeInv, ChangedOK
    <3>3. ASSUME NEW q \in Path, work[q] # base[q], seen[q] # work[q], Committed(q)'
          PROVE  Committed(q)
      <4>1. q \in Planned(base, seen, work) /\ seen[q] = base[q]
        BY <3>2, <3>3, CleanPlan DEF Inv
      <4>2. /\ work[q] \in Dirs => q \in Mkdirs(base, seen, work)
            /\ work[q] = Nil => q \in Deletes(base, seen, work)
            /\ work[q] \in Files => q \in Writes(base, seen, work)
            /\ work[q] \in Links => q \in Symlinks(base, seen, work)
        BY <4>1 DEF Mkdirs, Deletes, Removals, Writes, Symlinks
      <4>3. CASE work[q] \in Dirs
        BY <2>1, <4>3 DEF Committed
      <4>4. CASE work[q] = Nil
        BY <1>3, <2>1, <3>3, <4>2, <4>4, EntryAssumption
           DEF Advance, Committed, Frame, NextPhase, Phases, PhaseOps, Entry
      <4>5. CASE work[q] \in Files
        BY <1>3, <2>1, <3>3, <4>2, <4>5, EntryAssumption
           DEF Advance, Committed, Frame, NextPhase, Phases, PhaseOps, Entry
      <4>6. CASE work[q] \in Links
        BY <1>3, <2>1, <3>3, <4>2, <4>6, EntryAssumption
           DEF Advance, Committed, Frame, NextPhase, Phases, PhaseOps, Entry
      <4>7. QED
        BY <4>3, <4>4, <4>5, <4>6 DEF Inv, TypeOK, Tree, Entry
    <3>4. ASSUME NEW q \in Path, work[q] # base[q], seen[q] = work[q] \/ Committed(q)'
          PROVE  host[q] = work[q]
      BY <2>1, <2>2, <3>3, <3>4 DEF MergeInv, ChangedOK
    <3>5. ChangedOK'
      BY <2>1, <3>2, <3>4 DEF Frame, ChangedOK, Phases
    <3>6. QED
      BY <3>1, <3>5
  <2>3. QED
    BY <2>1, <2>2 DEF Frame, MergeInv, IsTree, Phases
<1>4. CASE Interrupt
  BY <1>4, StopMerge DEF Interrupt, Halted
<1>5. ASSUME NEW p \in Path, NEW e \in Entry \cup {Nil}, HostEdit(p, e)
      PROVE  MergeInv'
  BY <1>5 DEF HostEdit, MergeInv, IsTree
<1>6. CASE UNCHANGED vars
  BY <1>6 DEF vars, MergeInv, IsTree, KeptOK, ChangedOK, Committed, Required
<1>7. QED
  BY <1>1, <1>2, <1>3, <1>4, <1>5, <1>6, ExecStepMerge DEF Next, Exec, Stopped

\* An apply that ran to its end on a host nobody edited since the first scan
\* has made the three-way merge.
LEMMA DoneMerged == Inv /\ MergeInv => MergedResult
<1> SUFFICES ASSUME Inv, MergeInv, pc = "done", edited = {}
             PROVE  host = Reference
  BY DEF MergedResult
<1>1. KeptOK /\ ChangedOK /\ IsTree(work) /\ IsTree(host)
  BY DEF Inv, TypeOK, MergeInv
<1>2. ASSUME NEW p \in Path, work[p] # base[p] PROVE host[p] = work[p]
  <2>1. work[p] \in Entry \cup {Nil}
    BY DEF Inv, TypeOK, Tree
  <2>2. Committed(p)
    BY <2>1 DEF Committed, Entry, Phases
  <2>3. QED
    BY <1>1, <1>2, <2>2 DEF ChangedOK
<1>3. ASSUME NEW p \in Path, Required(p)
      PROVE  work[p] \in Dirs /\ host[p] \in Dirs
  <2>1. PICK q \in Below(p) : work[q] # base[q] /\ work[q] # Nil
    BY <1>3 DEF Required
  <2>2. q \in Path /\ p \in Anc[q] /\ host[q] # Nil
    BY <1>2, <2>1 DEF Below
  <2>3. QED
    BY <1>1, <2>1, <2>2 DEF IsTree
<1>4. ASSUME NEW p \in Path PROVE host[p] = Reference[p]
  <2>1. CASE work[p] # base[p]
    BY <1>2, <1>3, <2>1, EntryAssumption DEF Reference, Merged, Entry
  <2>2. CASE work[p] = base[p]
    BY <1>1, <1>3, <2>2, EntryAssumption DEF Reference, Merged, KeptOK, Entry
  <2>3. QED
    BY <2>1, <2>2
<1>5. QED
  BY <1>4 DEF Reference, Inv, TypeOK, Tree

\* However often the apply was cut short, between whichever system calls, the
\* attempt that succeeds leaves exactly the three-way merge on the host.
THEOREM MergeIsThreeWay == Spec => []MergedResult
<1>1. Init => Inv /\ MergeInv
  BY InitInv DEF Init, MergeInv
<1>2. Inv /\ MergeInv /\ [Next]_vars => Inv' /\ MergeInv'
  BY NextInv, NextMerge
<1>3. QED
  BY <1>1, <1>2, DoneMerged, PTL DEF Spec

-----------------------------------------------------------------------------
(* What planning again finds                                               *)

\* What an attempt cut short has made of a path that the host's users left
\* alone: nothing, all of it, or something half-way that a retry stops at.
Between(p) ==
  IF work[p] = base[p]
  THEN \/ host[p] = origin[p]
       \/ origin[p] = Nil /\ host[p] = UmaskDir /\ Required(p)
  ELSE \/ host[p] \in {base[p], work[p]}
       \/ host[p] = Nil /\ MadeRoom(p)
       \/ host[p] = UmaskDir /\ work[p] \in Dirs

\* The inductive invariant behind RetryConflicts. It says nothing of edited
\* paths, whatever the edits were.
HalfWay ==
  /\ IsTree(work) /\ IsTree(origin)
  /\ attempt > 0 /\ Clean(base, origin, work) =>
       \A p \in Path \ edited : Between(p)

\* All that a step of the executor does to the host: it makes a directory that
\* the worktree has there, commits its path, or makes room on it. A directory
\* elsewhere than on its path is made before the operation goes on.
LEMMA StepEffect ==
  ASSUME Inv, IsTree(work), NEW p \in Path, ExecStep(p),
         NEW q \in Path, host'[q] # host[q]
  PROVE  \/ /\ host[q] = Nil /\ host'[q] = UmaskDir /\ work[q] \in Dirs
            /\ work[q] = base[q] => Required(q)
            /\ q # p => q \in Anc[p] /\ MayTake(p)
         \/ /\ q = p /\ work[p] # base[p]
            /\ host'[p] = work[p] \/ (host'[p] = Nil /\ MadeRoom(p))
<1>1. Frame /\ host \in Tree /\ pc \in Phases /\ p \in left /\ p \in PhaseOps(pc)
  BY ExecStepOp
<1>2. /\ work[p] # base[p]
      /\ pc = "prune" => work[p] = Nil
      /\ pc = "delete" => work[p] = Nil \/ p \in Migrations(base, seen, work)
      /\ pc = "mkdir" => work[p] \in Dirs
      /\ pc = "write" => work[p] \in Files
      /\ pc = "link" => work[p] \in Links
  BY <1>1, OpsChange, PhaseOpsPlanned DEF Inv
<1>3. pc # "prune" => seen[p] = base[p]
  BY <1>1 DEF Phases, PhaseOps, Mkdirs, Deletes, Removals, Migrations, Writes,
              Symlinks, Planned, Candidates
<1>4. base[p] \in Entry \cup {Nil} /\ work[p] \in Entry \cup {Nil}
  BY DEF Inv, TypeOK, Tree
<1>5. pc \in {"mkdir", "write", "link"} =>
        \A a \in Anc[p] : work[a] \in Dirs /\ Required(a)
  BY <1>2, PathAssumption, EntryAssumption DEF IsTree, Required, Below, Entry
<1>6. CASE Refuse(p) \/ DeleteSkip(p)
  BY <1>6 DEF Refuse, DeleteSkip, Fail, Stop
<1>7. CASE MkdirClear(p)
  <2>1. q = p /\ host'[p] = Nil
    BY <1>1, <1>7 DEF MkdirClear, Tree
  <2>2. base[p] \in Files \cup Links /\ work[p] \in Dirs
    BY <1>2, <1>3, <1>7, EntryAssumption DEF MkdirClear, Verified, Entry
  <2>3. MadeRoom(p)
    BY <2>2, EntryAssumption DEF MadeRoom, KindDiffers, Entry
  <2>4. QED
    BY <1>2, <2>1, <2>3
<1>8. CASE MkdirCreate(p)
  <2>1. pc = "mkdir"
    BY <1>8 DEF MkdirCreate
  <2>2. host' = MakeDirs(host, Anc[p] \cup {p})
    BY <1>8 DEF MkdirCreate, Fail, Stop
  <2>3. host[q] = Nil /\ host'[q] = UmaskDir /\ q \in Anc[p] \cup {p}
    BY <2>2 DEF MakeDirs
  <2>4. q # p => MayTake(p)
    <3>1. ASSUME mid = [path |-> p, at |-> "create"] PROVE \A a \in Anc[p] : host[a] \in Dirs
      BY <3>1, EntryAssumption DEF Inv, MidOK, NoOp
    <3>2. QED
      BY <1>8, <2>3, <3>1, EntryAssumption DEF MkdirCreate, Entry
  <2>5. QED
    BY <1>2, <1>5, <2>1, <2>3, <2>4
<1>9. CASE MkdirChmod(p)
  BY <1>1, <1>2, <1>9 DEF MkdirChmod, Tree
<1>10. CASE Delete(p)
  <2>1. pc = "delete" /\ q = p /\ host'[p] = Nil
    BY <1>1, <1>10 DEF Delete, Fail, Stop, Tree
  <2>2. CASE work[p] = Nil
    BY <1>2, <2>1, <2>2
  <2>3. CASE p \in Migrations(base, seen, work)
    BY <1>2, <1>4, <2>1, <2>3 DEF Migrations, MadeRoom
  <2>4. QED
    BY <1>2, <2>1, <2>2, <2>3
<1>11. CASE PlaceParents(p)
  <2>1. pc \in {"write", "link"} /\ MayTake(p) /\ host' = MakeDirs(host, Anc[p])
    BY <1>11 DEF PlaceParents, Fail, Stop
  <2>2. host[q] = Nil /\ host'[q] = UmaskDir /\ q \in Anc[p]
    BY <2>1 DEF MakeDirs
  <2>3. QED
    BY <1>5, <2>1, <2>2
<1>12. CASE PlaceClear(p)
  <2>1. q = p /\ host'[p] = Nil
    BY <1>1, <1>12 DEF PlaceClear, Fail, Stop, Tree
  <2>2. Verified(p) /\ pc \in {"write", "link"}
    BY <1>12, EntryAssumption DEF PlaceClear, Inv, MidOK, NoOp
  <2>3. /\ base[p] \in Entry
        /\ pc = "write" => base[p] \in Dirs
    BY <1>3, <1>12, <2>2, EntryAssumption DEF PlaceClear, InTheWay, Verified, Entry
  <2>4. MadeRoom(p)
    BY <1>2, <2>2, <2>3, EntryAssumption DEF MadeRoom, KindDiffers, Entry
  <2>5. QED
    BY <1>2, <2>1, <2>4
<1>13. CASE Place(p)
  BY <1>1, <1>2, <1>13 DEF Place, Tree
<1>14. CASE Prune(p)
  BY <1>1, <1>2, <1>14 DEF Prune, Tree
<1>15. QED
  BY <1>6, <1>7, <1>8, <1>9, <1>10, <1>11, <1>12, <1>13, <1>14 DEF ExecStep

\* A step of the executor takes a path from one half-way state to another.
LEMMA ExecStepHalfWay ==
  ASSUME Inv, HalfWay, NEW p \in Path, ExecStep(p)
  PROVE  HalfWay'
<1>1. Frame
  BY ExecStepOp
<1>2. ASSUME NEW q \in Path, Between(q) PROVE Between(q)'
  <2>1. CASE host'[q] = host[q]
    BY <1>1, <1>2, <2>1 DEF Frame, Between, Required, MadeRoom
  <2>2. CASE host'[q] # host[q]
    <3>1. \/ /\ host[q] = Nil /\ host'[q] = UmaskDir /\ work[q] \in Dirs
             /\ work[q] = base[q] => Required(q)
          \/ /\ work[q] # base[q]
             /\ host'[q] = work[q] \/ (host'[q] = Nil /\ MadeRoom(q))
      BY <2>2, StepEffect DEF HalfWay
    <3>2. UmaskDir # Nil
      BY EntryAssumption DEF Entry
    <3>3. QED
      BY <1>1, <1>2, <3>1, <3>2 DEF Frame, Between, Required, MadeRoom
  <2>3. QED
    BY <2>1, <2>2
<1>3. QED
  BY <1>1, <1>2 DEF HalfWay, Frame, IsTree

\* Every step of the system keeps HalfWay.
LEMMA NextHalfWay ==
  ASSUME Inv, HalfWay, [Next]_vars
  PROVE  HalfWay'
<1>1. CASE Start
  <2>1. attempt \in Nat /\ IsTree(host)
    BY BoundAssumption DEF Inv, TypeOK
  <2>2. CASE attempt = 0
    <3>1. ASSUME Clean(base, host, work), NEW q \in Path
          PROVE  Between(q)'
      BY <1>1, <2>2, <3>1 DEF Start, Between, Clean, ConflictPaths
    <3>2. QED
      BY <1>1, <2>1, <2>2, <3>1 DEF Start, HalfWay, IsTree
  <2>3. CASE attempt # 0
    BY <1>1, <2>1, <2>3 DEF Start, HalfWay, IsTree, Between, Required, MadeRoom
  <2>4. QED
    BY <2>2, <2>3
<1>2. CASE Stage \/ Advance \/ Interrupt \/ UNCHANGED vars
  BY <1>2 DEF Stage, Advance, Interrupt, Stop, Frame, vars, HalfWay, IsTree, Between,
              Required, MadeRoom
<1>3. ASSUME NEW p \in Path, NEW e \in Entry \cup {Nil}, HostEdit(p, e)
      PROVE  HalfWay'
  <2>1. \A q \in Path : q # p => host'[q] = host[q]
    BY <1>3 DEF HostEdit, Inv, TypeOK, Tree
  <2>2. QED
    BY <1>3, <2>1 DEF HostEdit, HalfWay, IsTree, Between, Required, MadeRoom
<1>4. QED
  BY <1>1, <1>2, <1>3, ExecStepHalfWay DEF Next, Exec, Stopped

\* An entry that only the host has, in a directory the worktree gave up, was
\* there at the first scan: the plan would not have been clean.
LEMMA HalfWayConflicts == Inv /\ MergeInv /\ HalfWay => RetryConflicts
<1> SUFFICES ASSUME Inv, MergeInv, HalfWay, pc \in Halted, Clean(base, origin, work),
                    NEW p \in ConflictPaths(base, host, work), p \notin edited
             PROVE  \/ host[p] = Nil /\ MadeRoom(p)
                    \/ host[p] = UmaskDir /\ work[p] \in Dirs
  BY DEF RetryConflicts
<1>0. attempt > 0
  BY BoundAssumption DEF Inv, TypeOK, MergeInv, Halted
<1>1. p \in Path
  BY DEF ConflictPaths, HostOnly, Below
<1>2. Between(p)
  BY <1>0, <1>1 DEF HalfWay
<1>3. CASE work[p] # base[p] /\ host[p] # base[p] /\ host[p] # work[p]
  BY <1>2, <1>3 DEF Between
<1>4. ASSUME NEW d \in Blocked(base, host, work), p \in HostOnly(base, host, d)
      PROVE  FALSE
  <2>1. /\ d \in Path /\ d \in Anc[p] /\ host[p] # Nil /\ base[p] = Nil
        /\ base[d] \in Dirs /\ work[d] \notin Dirs
    BY <1>4 DEF Blocked, HostOnly, Below, Candidates
  <2>2. work[p] = Nil
    BY <1>1, <2>1 DEF HalfWay, IsTree
  <2>3. ~Required(p)
    BY <2>1, <1>1, PathAssumption DEF Required, Below, HalfWay, IsTree
  <2>4. origin[p] = host[p]
    BY <1>2, <2>1, <2>2, <2>3 DEF Between
  <2>5. origin[d] \in Dirs
    BY <1>1, <2>1, <2>4 DEF HalfWay, IsTree
  <2>6. origin[d] = base[d]
    BY <2>1, <2>5 DEF Clean, ConflictPaths
  <2>7. p \in HostOnly(base, origin, d)
    BY <1>1, <2>1, <2>4 DEF HostOnly, Below
  <2>8. d \in Blocked(base, origin, work)
    BY <2>1, <2>5, <2>6, <2>7 DEF Blocked, Candidates
  <2>9. QED
    BY <2>7, <2>8 DEF Clean, ConflictPaths
<1>5. QED
  BY <1>3, <1>4 DEF ConflictPaths

\* merge.rs:615-632, 752-765: whenever an apply of a plan that had no conflicts is cut
\* short, and however often, what the next plan stops at is a path the host's users
\* edited, a replaced entry that had been taken away, or a directory without its mode.
THEOREM RetriesStopWhereTheyMust == Spec => []RetryConflicts
<1>1. Init => Inv /\ MergeInv /\ HalfWay
  BY InitInv DEF Init, MergeInv, HalfWay
<1>2. Inv /\ MergeInv /\ HalfWay /\ [Next]_vars => Inv' /\ MergeInv' /\ HalfWay'
  BY NextInv, NextMerge, NextHalfWay
<1>3. QED
  BY <1>1, <1>2, HalfWayConflicts, PTL DEF Spec

-----------------------------------------------------------------------------
(* Why an attempt fails                                                    *)

\* What the running apply finds at p when nobody edits the host: what it
\* scanned, what it made of it, or what it is at. Verified accepts each of these as
\* long as p has an operation to come.
Pending(p) ==
  \/ host[p] = seen[p]
  \/ work[p] # base[p] /\ Committed(p)
  \/ work[p] = base[p] /\ seen[p] = Nil /\ host[p] = UmaskDir /\ Required(p)
  \/ p \in Migrations(base, seen, work) /\ host[p] = Nil
  \/ mid # NoOp /\ mid.path = p

\* The inductive invariant behind FailsUnderReplacedParent.
AsPlanned ==
  attempt > 0 /\ edited = {} =>
    /\ pc \in Phases \cup {"stage"} => \A p \in Path : Pending(p)
    /\ FailsUnderReplacedParent

\* Whatever lies in a directory that makes way for something else, by the
\* time the directory's turn comes, is itself to be removed and is not yet:
\* anything else would have blocked the directory's own removal.
LEMMA InsideGoesFirst ==
  ASSUME Inv, MergeInv, attempt > 0, edited = {}, pc \in Phases,
         NEW p \in Planned(base, seen, work), base[p] \in Dirs, work[p] \notin Dirs,
         NEW c \in Below(p), host[c] # Nil, Pending(c), mid = NoOp \/ mid.path = p
  PROVE  c \in Removals(base, seen, work) /\ ~Committed(c)
<1>1. c \in Path /\ p \in Path /\ p \in Anc[c] /\ c # p /\ IsTree(work)
  BY PathAssumption DEF Below, Planned, Candidates, MergeInv
<1>2. work[c] = Nil
  BY <1>1 DEF IsTree
<1>3. ~Required(c)
  BY <1>1, PathAssumption DEF Required, Below, IsTree
<1>4. base[c] # Nil
  <2> SUFFICES ASSUME base[c] = Nil PROVE FALSE
    OBVIOUS
  <2>1. host[c] = seen[c]
    BY <1>1, <1>2, <1>3 DEF Pending, Migrations
  <2>2. c \in HostOnly(base, seen, p)
    BY <1>1, <2>1 DEF HostOnly
  <2>3. p \in Blocked(base, seen, work)
    BY <2>2 DEF Planned, Blocked
  <2>4. QED
    BY <2>3 DEF Planned
<1>5. ~Committed(c)
  BY <1>1, <1>2, <1>4 DEF MergeInv, ChangedOK
<1>6. host[c] = seen[c]
  BY <1>1, <1>2, <1>4, <1>5 DEF Pending
<1>7. Clean(base, seen, work)
  BY DEF MergeInv, ChangedOK
<1>8. c \in Planned(base, seen, work)
  BY <1>1, <1>2, <1>4, <1>6, <1>7, CleanPlan DEF Inv
<1>9. QED
  BY <1>2, <1>5, <1>8 DEF Removals

\* A missing parent is one that the plan of the host's state can make, and what
\* stands in the way of one was there when the host was scanned.
LEMMA ParentsAsScanned ==
  ASSUME Inv, MergeInv, AsPlanned, attempt > 0, edited = {}, pc \in Phases,
         NEW p \in Path, work[p] # Nil, mid = NoOp, ~CanMakeDirs(host, Anc[p])
  PROVE  ~CanMakeDirs(seen, Anc[p])
<1>1. PICK a \in Anc[p] : host[a] \notin Dirs \cup {Nil}
  BY DEF CanMakeDirs
<1>2. a \in Path /\ work[a] \in Dirs
  BY <1>1, PathAssumption DEF MergeInv, IsTree
<1>3. Pending(a)
  BY <1>2 DEF AsPlanned
<1>4. host[a] = seen[a]
  BY <1>1, <1>2, <1>3, EntryAssumption DEF Pending, MergeInv, ChangedOK
<1>5. QED
  BY <1>1, <1>4 DEF CanMakeDirs

\* The check of an operation passes when nobody edits the host.
LEMMA NeverRefused ==
  ASSUME Inv, MergeInv, AsPlanned, attempt > 0, edited = {}, NEW p \in Path
  PROVE  ~Refuse(p)
<1> SUFFICES ASSUME Refuse(p) PROVE FALSE
  OBVIOUS
<1>1. /\ pc \in Phases \ {"prune"} /\ p \in left /\ p \in PhaseOps(pc)
      /\ mid = NoOp /\ ~Verified(p)
  BY DEF Refuse, MayTake, Inv, LeftOK
<1>2. Pending(p)
  BY <1>1 DEF AsPlanned
<1>3. /\ work[p] # base[p] /\ p \in Planned(base, seen, work)
      /\ seen[p] = base[p] /\ seen[p] \in Entry \cup {Nil}
      /\ pc = "delete" => work[p] = Nil \/ p \in Migrations(base, seen, work)
      /\ pc = "mkdir" => work[p] \in Dirs
      /\ pc = "write" => work[p] \in Files
      /\ pc = "link" => work[p] \in Links
  BY <1>1 DEF Phases, PhaseOps, Mkdirs, Deletes, Removals, Migrations, Writes,
              Symlinks, Planned, Candidates, Inv, TypeOK, Tree
<1>4. host[p] # seen[p]
  BY <1>1, <1>3 DEF Verified, Entry
<1>5. ~(p \in Migrations(base, seen, work) /\ host[p] = Nil)
  BY <1>1 DEF Verified, Migrations, Planned, Candidates
<1>6. Committed(p)
  BY <1>1, <1>2, <1>3, <1>4, <1>5 DEF Pending
<1>7. host[p] = work[p]
  BY <1>1, <1>3, <1>6 DEF MergeInv, ChangedOK
<1>8. pc = "delete"
  BY <1>1, <1>3, <1>6, EntryAssumption DEF Committed, Phases, Entry
<1>9. work[p] # Nil /\ work[p] \in Dirs
  BY <1>1, <1>3, <1>6, <1>8, EntryAssumption DEF Committed, Phases, Entry
<1>10. QED
  BY <1>3, <1>7, <1>8, <1>9 DEF Refuse

\* A step of the executor that fails on a host nobody edits fails for a parent
\* that the host had replaced before the scan.
LEMMA WhyFail ==
  ASSUME Inv, MergeInv, AsPlanned, attempt > 0, edited = {},
         NEW p \in Path, ExecStep(p), Fail
  PROVE  FailsUnderReplacedParent'
<1>1. Frame /\ pc \in Phases /\ p \in left /\ p \in PhaseOps(pc) /\ IsTree(work)
  BY ExecStepOp DEF MergeInv
<1>2. /\ work[p] # base[p]
      /\ pc = "delete" => work[p] = Nil \/ p \in Migrations(base, seen, work)
      /\ pc = "mkdir" => work[p] \in Dirs
      /\ pc = "write" => work[p] \in Files
      /\ pc = "link" => work[p] \in Links
  BY <1>1, OpsChange, PhaseOpsPlanned DEF Inv
<1>3. pc # "prune" => p \in Planned(base, seen, work) /\ seen[p] = base[p]
  BY <1>1 DEF Phases, PhaseOps, Mkdirs, Deletes, Removals, Migrations, Writes,
              Symlinks, Planned, Candidates
<1>4. ASSUME mid = NoOp, pc \in {"mkdir", "write", "link"}, ~CanMakeDirs(host, Anc[p])
      PROVE  FailsUnderReplacedParent'
  <2>1. work[p] # Nil
    BY <1>2, <1>4, EntryAssumption DEF Entry
  <2>2. ~CanMakeDirs(seen, Anc[p])
    BY <1>1, <1>4, <2>1, ParentsAsScanned
  <2>3. QED
    BY <1>1, <1>2, <2>1, <2>2 DEF FailsUnderReplacedParent, Frame, CanMakeDirs
<1>5. ASSUME NEW c \in Below(p), pc # "prune", base[p] \in Dirs, work[p] \notin Dirs,
             host[c] # Nil, mid = NoOp \/ mid.path = p
      PROVE  c \in Removals(base, seen, work) /\ ~Committed(c)
  <2>1. Pending(c)
    BY <1>1 DEF AsPlanned, Below
  <2>2. QED
    BY <1>1, <1>3, <1>5, <2>1, InsideGoesFirst
<1>6. CASE Refuse(p)
  BY <1>6, NeverRefused
<1>7. CASE MkdirCreate(p)
  <2>1. pc = "mkdir" /\ ~CanMakeDirs(host, Anc[p])
    BY <1>1, <1>7, EntryAssumption DEF MkdirCreate, Fail, Stop, Phases
  <2>2. mid = NoOp
    <3>1. ASSUME mid = [path |-> p, at |-> "create"] PROVE CanMakeDirs(host, Anc[p])
      BY <3>1, EntryAssumption DEF Inv, MidOK, NoOp, CanMakeDirs
    <3>2. QED
      BY <1>7, <2>1, <3>1 DEF MkdirCreate, MayTake
  <2>3. QED
    BY <1>4, <2>1, <2>2
<1>8. CASE Delete(p)
  <2>1. /\ pc = "delete" /\ MayTake(p) /\ mid = NoOp /\ Verified(p)
        /\ ~(host[p] \in Dirs /\ p \in Migrations(base, seen, work))
        /\ HasChild(host, p)
    BY <1>1, <1>8 DEF Delete, MayTake, Fail, Stop, Phases, Finish
  <2>2. PICK c \in Below(p) : host[c] # Nil
    BY <2>1 DEF HasChild
  <2>3. c \in Path /\ p \in Anc[c] /\ host[p] \in Dirs
    BY <2>2 DEF Below, Inv, TypeOK, IsTree
  <2>4. work[p] = Nil /\ base[p] \in Dirs
    BY <1>2, <1>3, <2>1, <2>3, EntryAssumption DEF Verified, Entry
  <2>5. work[p] \notin Dirs
    BY <2>4, EntryAssumption DEF Entry
  <2>6. c \in Removals(base, seen, work) /\ ~Committed(c)
    BY <1>5, <2>1, <2>2, <2>4, <2>5
  <2>7. c \in left
    BY <2>1, <2>6 DEF Committed, Removals, Phases
  <2>8. p \notin Migrations(base, seen, work)
    BY <2>1, <2>3
  <2>9. Below(p) \cap left = {}
    BY <2>1, <2>8 DEF MayTake
  <2>10. QED
    BY <2>2, <2>7, <2>9
<1>9. CASE PlaceParents(p)
  BY <1>1, <1>4, <1>9 DEF PlaceParents, MayTake, Fail, Stop, Phases
<1>10. CASE PlaceClear(p)
  <2>1. /\ mid = [path |-> p, at |-> "clear"] /\ mid # NoOp
        /\ pc \in {"write", "link"} /\ Verified(p)
    BY <1>10, EntryAssumption DEF PlaceClear, Inv, MidOK, NoOp
  <2>2. HasChild(host, p)
    BY <1>1, <1>10 DEF PlaceClear, Fail, Stop, Phases
  <2>3. PICK c \in Below(p) : host[c] # Nil
    BY <2>2 DEF HasChild
  <2>4. c \in Path /\ p \in Anc[c] /\ host[p] \in Dirs
    BY <2>3 DEF Below, Inv, TypeOK, IsTree
  <2>5. base[p] \in Dirs /\ work[p] \notin Dirs
    BY <1>2, <1>3, <2>1, <2>4, EntryAssumption DEF Verified, Entry
  <2>6. c \in Removals(base, seen, work) /\ ~Committed(c)
    BY <1>5, <2>1, <2>3, <2>5
  <2>7. QED
    BY <2>1, <2>6 DEF Committed, Removals, Phases
<1>11. QED
  BY <1>1, <1>6, <1>7, <1>8, <1>9, <1>10
     DEF ExecStep, MkdirClear, MkdirChmod, DeleteSkip, Place, Prune, Finish, Fail, Stop,
         Phases

\* What is committed stays so while the phase works off its operations.
LEMMA CommittedStays ==
  ASSUME Frame, pc' = pc, left' \subseteq left, NEW q \in Path, Committed(q)
  PROVE  Committed(q)'
  BY DEF Committed, Frame

\* A step of the executor that goes on leaves every path where the plan can
\* cope with it.
LEMMA ExecStepPending ==
  ASSUME Inv, MergeInv, AsPlanned, attempt > 0, edited = {},
         NEW p \in Path, ExecStep(p), pc' = pc, left' \subseteq left, NEW q \in Path
  PROVE  Pending(q)'
<1>1. Frame /\ pc \in Phases /\ p \in left /\ p \in PhaseOps(pc) /\ IsTree(work)
  BY ExecStepOp DEF MergeInv
<1>2. Pending(q) /\ Pending(p)
  BY <1>1 DEF AsPlanned
<1>3. /\ work[p] # base[p]
      /\ pc = "prune" => work[p] = Nil
      /\ pc = "delete" => work[p] = Nil \/ p \in Migrations(base, seen, work)
      /\ pc = "mkdir" => work[p] \in Dirs
      /\ pc = "write" => work[p] \in Files
      /\ pc = "link" => work[p] \in Links
  BY <1>1, OpsChange, PhaseOpsPlanned DEF Inv
<1>4. ~Fail
  BY <1>1 DEF Fail, Stop, Phases
<1>5. Migrations(base, seen, work)' = Migrations(base, seen, work)
  BY <1>1 DEF Frame, Migrations, Planned, Candidates, Blocked, HostOnly
<1>6. ASSUME mid' # NoOp, mid'.path = p PROVE Pending(p)'
  BY <1>6 DEF Pending
<1>7. ASSUME left' = left \ {p}, ~(pc = "delete" /\ p \in Migrations(base, seen, work))
      PROVE  Pending(p)'
  <2>1. Committed(p)'
    BY <1>1, <1>3, <1>7 DEF Committed, Frame, Phases
  <2>2. QED
    BY <1>1, <1>3, <2>1 DEF Pending, Frame
<1>8. Pending(p)'
  <2>1. CASE MkdirClear(p) \/ MkdirCreate(p) \/ PlaceParents(p) \/ PlaceClear(p)
    <3>1. \E at \in Stages : mid' = [path |-> p, at |-> at]
      BY <1>4, <2>1 DEF MkdirClear, MkdirCreate, PlaceParents, PlaceClear, Stages
    <3>2. QED
      BY <1>6, <3>1, EntryAssumption DEF NoOp, Stages
  <2>2. CASE MkdirChmod(p) \/ Place(p) \/ Prune(p)
    <3>1. left' = left \ {p} /\ pc # "delete"
      BY <2>2, EntryAssumption
         DEF MkdirChmod, Place, Prune, Finish, Inv, MidOK, NoOp
    <3>2. QED
      BY <1>7, <3>1
  <2>3. CASE DeleteSkip(p)
    <3>1. mid = NoOp /\ host' = host
      BY <2>3 DEF DeleteSkip, MayTake
    <3>2. QED
      BY <1>1, <1>2, <1>5, <3>1, CommittedStays DEF Pending, Frame, Required
  <2>4. CASE Delete(p)
    <3>1. pc = "delete" /\ left' = left \ {p} /\ host' = [host EXCEPT ![p] = Nil]
      BY <1>4, <2>4 DEF Delete, Finish
    <3>2. host'[p] = Nil
      BY <3>1 DEF Inv, TypeOK, Tree
    <3>3. QED
      BY <1>5, <1>7, <3>1, <3>2 DEF Pending
  <2>5. QED
    BY <1>4, <2>1, <2>2, <2>3, <2>4 DEF ExecStep, Refuse
<1>9. CASE q # p
  <2>1. mid = NoOp \/ mid.path = p
    BY DEF ExecStep, Refuse, MkdirClear, MkdirCreate, MkdirChmod, DeleteSkip, Delete,
           PlaceParents, PlaceClear, Place, Prune, MayTake
  <2>2. CASE host'[q] = host[q]
    BY <1>1, <1>2, <1>5, <1>9, <2>1, <2>2, CommittedStays DEF Pending, Frame, Required
  <2>3. CASE host'[q] # host[q]
    <3>1. /\ host[q] = Nil /\ host'[q] = UmaskDir /\ work[q] \in Dirs
          /\ work[q] = base[q] => Required(q)
          /\ q \in Anc[p] /\ MayTake(p)
      BY <1>1, <1>9, <2>3, StepEffect
    <3>2. Nil \notin Dirs
      BY EntryAssumption DEF Entry
    <3>3. pc # "delete" /\ pc # "prune"
      BY <1>1, <1>3, <1>9, <2>3
         DEF ExecStep, Refuse, MkdirClear, MkdirCreate, MkdirChmod, DeleteSkip, Delete,
             PlaceParents, PlaceClear, Place, Prune, Fail, Stop, Inv, TypeOK, Tree
    <3>4. Committed(q)
      BY <1>1, <3>1, <3>3 DEF MayTake, Committed, Phases
    <3>5. work[q] = base[q]
      BY <1>1, <3>1, <3>2, <3>4 DEF MergeInv, ChangedOK
    <3>6. host[q] = seen[q]
      BY <1>2, <1>9, <2>1, <3>1, <3>2, <3>5, EntryAssumption DEF Pending, Migrations, Planned, Candidates
    <3>7. QED
      BY <1>1, <3>1, <3>5, <3>6 DEF Pending, Frame, Required
  <2>4. QED
    BY <2>2, <2>3
<1>10. QED
  BY <1>8, <1>9

\* Every step of the executor on one path keeps AsPlanned.
LEMMA ExecStepAsPlanned ==
  ASSUME Inv, MergeInv, AsPlanned, NEW p \in Path, ExecStep(p)
  PROVE  AsPlanned'
<1> SUFFICES ASSUME attempt > 0, edited = {} PROVE AsPlanned'
  BY ExecStepOp DEF AsPlanned, Frame
<1>1. Frame /\ pc \in Phases
  BY ExecStepOp
<1>2. CASE Fail
  BY <1>1, <1>2, WhyFail DEF AsPlanned, Fail, Stop, Phases
<1>3. CASE ~Fail
  <2>1. pc' = pc /\ left' \subseteq left
    BY <1>3 DEF ExecStep, Refuse, MkdirClear, MkdirCreate, MkdirChmod, DeleteSkip,
                Delete, PlaceParents, PlaceClear, Place, Prune, Finish
  <2>2. \A q \in Path : Pending(q)'
    BY <2>1, ExecStepPending
  <2>3. FailsUnderReplacedParent'
    BY <1>1, <2>1 DEF FailsUnderReplacedParent, Phases
  <2>4. QED
    BY <2>2, <2>3 DEF AsPlanned
<1>4. QED
  BY <1>2, <1>3

\* Every step of the system keeps AsPlanned.
LEMMA NextAsPlanned ==
  ASSUME Inv, MergeInv, AsPlanned, [Next]_vars
  PROVE  AsPlanned'
<1>1. CASE Start
  BY <1>1 DEF Start, AsPlanned, Pending, FailsUnderReplacedParent, Phases
<1>2. CASE Stage
  BY <1>2 DEF Stage, Frame, AsPlanned, Pending, FailsUnderReplacedParent, MergeInv,
              ChangedOK
<1>3. CASE Advance
  <2>1. /\ Frame /\ host' = host /\ mid = NoOp /\ mid' = NoOp
        /\ pc \in Phases /\ left = {} /\ pc' = NextPhase[pc]
    BY <1>3 DEF Advance
  <2>2. Migrations(base, seen, work)' = Migrations(base, seen, work)
    BY <2>1 DEF Frame, Migrations, Planned, Candidates, Blocked, HostOnly
  <2>3. ASSUME NEW q \in Path, Committed(q) PROVE Committed(q)'
    BY <1>3, <2>1, <2>3, EntryAssumption DEF Committed, Frame, Phases, NextPhase, Entry
  <2>4. ASSUME NEW q \in Path, Pending(q) PROVE Pending(q)'
    BY <2>1, <2>2, <2>3, <2>4 DEF Pending, Frame, Required
  <2>5. pc' # "failed"
    BY <2>1 DEF NextPhase, Phases
  <2>6. QED
    BY <2>1, <2>4, <2>5 DEF AsPlanned, FailsUnderReplacedParent, Frame
<1>4. CASE Interrupt
  BY <1>4 DEF Interrupt, Stop, Frame, AsPlanned, FailsUnderReplacedParent, Phases
<1>5. ASSUME NEW p \in Path, NEW e \in Entry \cup {Nil}, HostEdit(p, e)
      PROVE  AsPlanned'
  BY <1>5 DEF HostEdit, AsPlanned
<1>6. CASE UNCHANGED vars
  BY <1>6 DEF vars, AsPlanned, Pending, FailsUnderReplacedParent, Committed, Required,
              CanMakeDirs, Migrations, Planned, Candidates, Blocked, HostOnly
<1>7. QED
  BY <1>1, <1>2, <1>3, <1>4, <1>5, <1>6, ExecStepAsPlanned DEF Next, Exec, Stopped

\* merge.rs:94-172, 511-606: an apply of a conflict-free plan never gets into its own way,
\* nor into that of an attempt cut short before it. With nobody editing the host it fails
\* only below a directory that the host has replaced by a file or a symlink.
THEOREM PlansAreFeasible == Spec => []FailsUnderReplacedParent
<1>1. Init => Inv /\ MergeInv /\ AsPlanned
  BY InitInv DEF Init, MergeInv, AsPlanned
<1>2. Inv /\ MergeInv /\ AsPlanned /\ [Next]_vars => Inv' /\ MergeInv' /\ AsPlanned'
  BY NextInv, NextMerge, NextAsPlanned
<1>3. Inv /\ MergeInv /\ AsPlanned => FailsUnderReplacedParent
  BY BoundAssumption DEF Inv, TypeOK, MergeInv, AsPlanned, FailsUnderReplacedParent
<1>4. QED
  BY <1>1, <1>2, <1>3, PTL DEF Spec
=============================================================================
