--------------------------- MODULE WorktreeProofs ---------------------------
(***************************************************************************)
(* Theorems about Worktree, for any number of commands, of strangers'      *)
(* mounts and of crashes.                                                  *)
(*                                                                         *)
(* The first holds for every value of the constants: the types. Those that *)
(* follow are about a user who waits for a command before starting the     *)
(* next one, any of which may be killed at any point but one: between      *)
(* spawn and the pidfile a killed run leaves a child that no command can   *)
(* see. They rest on one inductive invariant, Tame, whose heart is that a  *)
(* command past its gate has the state directory, the layer and the mount  *)
(* to itself, also when the commands before it died half way.              *)
(***************************************************************************)
EXTENDS Worktree, SequenceTheorems, TLAPS

-----------------------------------------------------------------------------
(* Types                                                                   *)

MountKinds == Foreign \cup {"mine"}

Labels ==
  {"idle", "end", "ok", "dead", "recover", "unmount", "mkdirs", "mount", "spawn", "claim", "lost",
   "guard", "running", "down", "clear", "scan", "fold", "gate", "commit", "post", "rescan",
   "last", "meta", "manifest", "reset", "mkupper", "status", "first", "loop", "take", "again",
   "retake", "recheck", "rename"}

Memory == [base : SUBSET Run, seen : SUBSET Run, ops : SUBSET Run,
           known : BOOLEAN, proved : BOOLEAN, rounds : Nat]

KidStates == {"none", "wait", "live", "zombie", "gone"}

FileTypes ==
  /\ host \in SUBSET Run /\ written \in SUBSET Run /\ stray \in SUBSET Run
  /\ layer \in Seq(SUBSET Run)

HomeTypes ==
  /\ home \in Homes \cup {None}
  /\ home # None /\ home.upper # None => home.upper \in DOMAIN layer

MountTypes ==
  /\ mounts \in Seq([kind : MountKinds, up : Nat \cup {None}])
  /\ \A i \in DOMAIN mounts :
       mounts[i].up \in IF mounts[i].kind = "mine" THEN DOMAIN layer ELSE {None}

KidTypes ==
  /\ kid \in [Run -> KidStates]
  /\ view \in [Run -> DOMAIN layer \cup {None}]

Types ==
  /\ FileTypes /\ HomeTypes /\ MountTypes /\ KidTypes
  /\ local \in [Apply \cup Drop -> Memory]
  /\ pc \in [Proc -> Labels]
  /\ dropped \in BOOLEAN

-----------------------------------------------------------------------------
(* What a command past its gate can rely on                                *)

Busy(p) == pc[p] \notin Ended \cup {"idle"}

Active(r) == kid[r] \in {"wait", "live", "zombie"}

\* The files of the layer.
Upper == IF home = None \/ home.upper = None THEN {} ELSE layer[home.upper]

\* One command is under way.
Alone == \A p, q \in Proc : Busy(p) /\ Busy(q) => p = q

\* A child is in the pidfile, or its run is about to write it there; the run in
\* the pidfile has got that far, and a zombie has a parent.
Recorded ==
  \A r \in Run : Active(r) =>
    /\ pc[r] = "claim" \/ (home # None /\ home.pid = r)
    /\ kid[r] = "zombie" => pc[r] \in {"claim", "running"}

Claimed ==
  home # None /\ home.pid # None => pc[home.pid] \in {"running", "down", "clear", "ok", "dead"}

\* The directory is there until it is dropped, with its meta.json.
Homed == (dropped <=> home = None) /\ (home # None => home.meta)

\* A command that runs writes into a layer or into what is mounted.
Covered == \A r \in Run : kid[r] = "live" /\ view[r] = None => Mounted

\* Nothing is in a directory that was not written, the baseline is on the host,
\* and what was written is in the layer or on the host.
Kept ==
  /\ host \subseteq written
  /\ \A i \in DOMAIN layer : layer[i] \subseteq written
  /\ home # None /\ home.base # None => home.base \subseteq host
  /\ NothingLost

\* What an apply knows at each point, in the order it gets there.
Applying(a) ==
  /\ pc[a] \in {"fold", "gate"} =>
       local[a].base \subseteq host /\ (Mounted \/ local[a].seen \subseteq host)
  /\ pc[a] = "gate" => Mounted \/ Upper \subseteq host \cup local[a].ops
  /\ pc[a] = "commit" => Upper \subseteq host \cup local[a].ops
  /\ pc[a] \in {"gate", "commit"} => local[a].ops \subseteq Upper
  /\ pc[a] \in {"post", "rescan", "last", "meta", "manifest", "reset"} => Upper \subseteq host
  /\ pc[a] = "last" => Mounted \/ local[a].base = host
  /\ pc[a] \in {"meta", "manifest"} => local[a].base = host
  /\ pc[a] \in {"reset", "mkupper", "status"} => home.base = host
  /\ pc[a] = "mkupper" => home.upper = None
  /\ pc[a] = "status" => home.upper # None /\ layer[home.upper] = {}

\* A drop knows the target, and has looked at it before the rename.
Dropping(d) ==
  /\ pc[d] \in {"first", "loop", "take", "again", "retake", "recheck", "rename"} => local[d].known
  /\ pc[d] = "rename" => ~HasMount({"mine"})

\* What holds of the command that is under way.
At(p) ==
  Busy(p) =>
    /\ home # None
    /\ pc[p] # "lost"
    /\ pc[p] \notin {"first", "running"} => ~Running
    /\ pc[p] = "spawn" /\ ~Private => Mounted
    /\ p \in Apply => Applying(p)
    /\ p \in Drop => Dropping(p)

Tame == Alone /\ Recorded /\ Claimed /\ Homed /\ Covered /\ Kept /\ \A p \in Proc : At(p)

Inv == Types /\ Tame

\* The user waits for each command, and none is killed where its child is unknown.
Careful == OneAtATime /\ "claim" \notin CrashAt

-----------------------------------------------------------------------------
(* Types of the steps                                                      *)

LEMMA Sorts ==
  /\ None \notin Run /\ None \notin Nat /\ None \notin Homes
  /\ Run \subseteq Proc /\ Apply \subseteq Proc /\ Diff \subseteq Proc /\ Drop \subseteq Proc
  /\ \A p \in Proc : (p \in Run => p \notin Apply /\ p \notin Drop) /\ (p \in Apply => p \notin Drop)
  BY ProcAssumption DEF Proc

\* A write to the state directory changes one of its files.
LEMMA SetUpper ==
  ASSUME NEW h \in Homes, NEW n \in Nat \cup {None}
  PROVE  LET g == [h EXCEPT !.upper = n] IN
         /\ g \in Homes /\ g # None /\ g.upper = n
         /\ g.meta = h.meta /\ g.base = h.base /\ g.pid = h.pid
  BY Sorts DEF Homes

LEMMA NewHome ==
  ASSUME NEW t \in BOOLEAN, NEW F \in (SUBSET Run) \cup {None}, NEW n \in Nat \cup {None},
         NEW r \in Run \cup {None}
  PROVE  LET g == [meta |-> t, base |-> F, upper |-> n, pid |-> r] IN
         g \in Homes /\ g # None /\ g.upper = n
<1> DEFINE g == [meta |-> t, base |-> F, upper |-> n, pid |-> r]
<1>1. g \in Homes
  BY DEF Homes
<1>2. g.upper = n
  OBVIOUS
<1> HIDE DEF g
<1>3. g # None
  BY <1>1, Sorts
<1>4. QED
  BY <1>1, <1>2, <1>3 DEF g

LEMMA Absent == None \in (SUBSET Run) \cup {None} /\ None \in Run \cup {None}
  OBVIOUS

LEMMA SetPid ==
  ASSUME NEW h \in Homes, NEW r \in Run \cup {None}
  PROVE  LET g == [h EXCEPT !.pid = r] IN
         /\ g \in Homes /\ g # None /\ g.pid = r
         /\ g.meta = h.meta /\ g.base = h.base /\ g.upper = h.upper
  BY Sorts DEF Homes

LEMMA SetBase ==
  ASSUME NEW h \in Homes, NEW F \in SUBSET Run
  PROVE  LET g == [h EXCEPT !.base = F] IN
         /\ g \in Homes /\ g # None /\ g.base = F
         /\ g.meta = h.meta /\ g.upper = h.upper /\ g.pid = h.pid
  BY Sorts DEF Homes

LEMMA SetMeta ==
  ASSUME NEW h \in Homes
  PROVE  LET g == [h EXCEPT !.meta = TRUE] IN
         /\ g \in Homes /\ g # None /\ g.meta
         /\ g.base = h.base /\ g.upper = h.upper /\ g.pid = h.pid
  BY Sorts DEF Homes

LEMMA Going ==
  ASSUME Types, NEW p \in Proc, NEW l \in Labels, Goto(p, l)
  PROVE  /\ pc' \in [Proc -> Labels] /\ pc'[p] = l
         /\ \A q \in Proc : q # p => pc'[q] = pc[q]
  BY DEF Types, Goto

\* The top of the mounts goes, or nothing does.
LEMMA Unmounting ==
  ASSUME Types, NEW p \in Proc, NEW fail \in Labels, NEW next \in Labels, Unmount(fail, next, p)
  PROVE  /\ pc' \in [Proc -> Labels] /\ pc'[p] \in {fail, next}
         /\ \A q \in Proc : q # p => pc'[q] = pc[q]
         /\ mounts' \in Seq([kind : MountKinds, up : Nat \cup {None}])
         /\ mounts' = mounts \/ (Mounted /\ mounts' = Popped)
         /\ \A i \in DOMAIN mounts' : i \in DOMAIN mounts /\ mounts'[i] = mounts[i]
<1>1. PICK l \in {fail, next} : Goto(p, l) /\ (mounts' = mounts \/ (Mounted /\ mounts' = Popped))
  BY DEF Unmount
<1>2. /\ pc' \in [Proc -> Labels] /\ pc'[p] = l
      /\ \A q \in Proc : q # p => pc'[q] = pc[q]
  BY <1>1, Going
<1>3. CASE mounts' = mounts
  BY <1>1, <1>2, <1>3 DEF Types, MountTypes
<1>4. CASE Mounted /\ mounts' = Popped
  <2>1. mounts \in Seq([kind : MountKinds, up : Nat \cup {None}]) /\ Len(mounts) \in Nat \ {0}
    BY <1>4 DEF Types, MountTypes, Mounted
  <2>2. /\ Popped \in Seq([kind : MountKinds, up : Nat \cup {None}])
        /\ DOMAIN Popped = 1 .. Len(mounts) - 1
        /\ \A i \in 1 .. Len(mounts) - 1 : Popped[i] = mounts[i]
    <3> DEFINE S == [kind : MountKinds, up : Nat \cup {None}]
               n == Len(mounts) - 1
    <3>1. n \in Nat /\ 1 \in Int /\ \A i \in 1 .. n : mounts[i] \in S
      <4>1. n \in Nat /\ 1 \in Int
        BY <2>1
      <4>2. \A i \in 1 .. n : i \in 1 .. Len(mounts)
        BY <2>1
      <4> HIDE DEF S, n
      <4>3. mounts \in Seq(S)
        BY <2>1 DEF S
      <4>4. \A i \in 1 .. Len(mounts) : mounts[i] \in S
        BY <4>3
      <4>5. QED
        BY <4>1, <4>2, <4>4
    <3> HIDE DEF S, n
    <3>2. /\ SubSeq(mounts, 1, n) \in Seq(S)
          /\ Len(SubSeq(mounts, 1, n)) = IF 1 <= n THEN n - 1 + 1 ELSE 0
          /\ \A i \in 1 .. n - 1 + 1 : SubSeq(mounts, 1, n)[i] = mounts[1 + i - 1]
      BY <3>1, SubSeqProperties
    <3>4. Popped = SubSeq(mounts, 1, n)
      BY DEF Popped, n
    <3>5. Len(Popped) = n
      BY <3>1, <3>2, <3>4
    <3>6. Popped \in Seq(S) /\ DOMAIN Popped = 1 .. n
      BY <3>2, <3>4, <3>5
    <3>7. \A i \in 1 .. n : Popped[i] = mounts[i]
      BY <3>1, <3>2, <3>4
    <3>8. QED
      BY <3>6, <3>7 DEF S, n
  <2>3. DOMAIN mounts = 1 .. Len(mounts)
    BY <2>1
  <2>4. QED
    BY <1>1, <1>2, <1>4, <2>1, <2>2, <2>3
<1>5. QED
  BY <1>1, <1>3, <1>4

\* The directories grow by an empty one, or not at all.
LEMMA MakingUpper ==
  ASSUME Types, MakeUpper
  PROVE  /\ home' \in Homes /\ home'.upper \in DOMAIN layer' /\ home'.upper # None
         /\ home # None =>
              home'.meta = home.meta /\ home'.base = home.base /\ home'.pid = home.pid
         /\ layer' \in Seq(SUBSET Run) /\ DOMAIN layer \subseteq DOMAIN layer'
         /\ \A i \in DOMAIN layer : layer'[i] = layer[i]
         /\ \A i \in DOMAIN layer' : i \notin DOMAIN layer => layer'[i] = {}
         /\ \/ home' = home /\ layer' = layer
            \/ /\ home = None \/ home.upper = None
               /\ home'.upper \notin DOMAIN layer
<1>1. layer \in Seq(SUBSET Run) /\ Len(layer) \in Nat
  BY DEF Types, FileTypes
<1>2. /\ home \in Homes \cup {None} /\ (home # None /\ home.upper # None => home.upper \in DOMAIN layer)
      /\ home' = WithUpper
  BY DEF Types, HomeTypes, MakeUpper
<1>3. CASE home # None /\ home.upper # None
  <2>1. home' = home /\ layer' = layer
    BY <1>2, <1>3 DEF WithUpper, MakeUpper
  <2>2. home' \in Homes /\ home'.upper \in DOMAIN layer' /\ home'.upper # None
    BY <1>2, <1>3, <2>1
  <2>3. home # None => home'.meta = home.meta /\ home'.base = home.base /\ home'.pid = home.pid
    BY <2>1
  <2>4. QED
    BY <1>1, <2>1, <2>2, <2>3
<1>4. CASE home = None \/ home.upper = None
  <2>1. home' \in Homes /\ home'.upper = Len(layer) + 1
    <3>1. CASE home = None
      <4>1. home' = [meta |-> FALSE, base |-> None, upper |-> Len(layer) + 1, pid |-> None]
        BY <1>2, <3>1 DEF WithUpper
      <4>2. Len(layer) + 1 \in Nat \cup {None} /\ FALSE \in BOOLEAN
        BY <1>1
      <4>3. QED
        BY <4>1, <4>2, Absent, NewHome
    <3>2. CASE home # None /\ home.upper = None
      <4>1. home' = [home EXCEPT !.upper = Len(layer) + 1] /\ home \in Homes
        BY <1>2, <3>2 DEF WithUpper
      <4>2. Len(layer) + 1 \in Nat
        BY <1>1
      <4>3. QED
        BY <4>1, <4>2, SetUpper
    <3>3. QED
      BY <1>4, <3>1, <3>2
  <2>2. home # None =>
          home'.meta = home.meta /\ home'.base = home.base /\ home'.pid = home.pid
    BY <1>1, <1>2, <1>4, <2>1 DEF WithUpper, Homes
  <2>3. home' # home
    BY <1>1, <1>4, <2>1, Sorts
  <2>4. layer' = Append(layer, {})
    BY <2>3 DEF MakeUpper
  <2>5. QED
    BY <1>1, <1>4, <2>1, <2>2, <2>4, Sorts
<1>5. QED
  BY <1>3, <1>4

LEMMA InitTypes == Init => Types
<1> SUFFICES ASSUME Init PROVE Types
  OBVIOUS
<1>1. FileTypes
  BY DEF Init, FileTypes
<1>2. HomeTypes
  BY DEF Init, HomeTypes, Homes
<1>3. MountTypes
  BY DEF Init, MountTypes
<1>4. KidTypes
  BY DEF Init, KidTypes, KidStates
<1>5. local \in [Apply \cup Drop -> Memory]
  BY DEF Init, Memory
<1>6. pc \in [Proc -> Labels] /\ dropped \in BOOLEAN
  BY DEF Init, Labels
<1>7. QED
  BY <1>1, <1>2, <1>3, <1>4, <1>5, <1>6 DEF Types

\* A step that only goes to another label, or does nothing.
LEMMA LabelTypes ==
  ASSUME Types, pc' \in [Proc -> Labels], UNCHANGED <<data, local>>
  PROVE  Types'
  BY DEF Types, FileTypes, HomeTypes, MountTypes, KidTypes, data

LEMMA UnmountTypes ==
  ASSUME Types, NEW p \in Proc, NEW fail \in Labels, NEW next \in Labels, Unmount(fail, next, p),
         local' \in [Apply \cup Drop -> Memory],
         UNCHANGED <<host, home, layer, kid, view, written, stray, dropped>>
  PROVE  Types'
<1>1. /\ pc' \in [Proc -> Labels] /\ mounts' \in Seq([kind : MountKinds, up : Nat \cup {None}])
      /\ \A i \in DOMAIN mounts' : i \in DOMAIN mounts /\ mounts'[i] = mounts[i]
  BY Unmounting
<1>2. FileTypes' /\ HomeTypes' /\ KidTypes'
  BY DEF Types, FileTypes, HomeTypes, KidTypes
<1>3. MountTypes'
  BY <1>1 DEF Types, MountTypes
<1>4. QED
  BY <1>1, <1>2, <1>3 DEF Types

LEMMA MakeUpperTypes ==
  ASSUME Types, MakeUpper, pc' \in [Proc -> Labels],
         UNCHANGED <<host, mounts, kid, view, local, written, stray, dropped>>
  PROVE  Types'
<1>1. FileTypes'
  BY MakingUpper DEF Types, FileTypes
<1>2. HomeTypes'
  BY MakingUpper DEF HomeTypes
<1>3. MountTypes'
  BY MakingUpper DEF Types, MountTypes
<1>4. KidTypes'
  BY MakingUpper DEF Types, KidTypes
<1>5. QED
  BY <1>1, <1>2, <1>3, <1>4 DEF Types

\* A write to the state directory.
LEMMA HomeStepTypes ==
  ASSUME Types, pc' \in [Proc -> Labels], dropped' \in BOOLEAN,
         home' \in Homes \cup {None},
         home' # None /\ home'.upper # None => home # None /\ home.upper = home'.upper,
         UNCHANGED <<host, layer, mounts, kid, view, local, written, stray>>
  PROVE  Types'
<1>1. HomeTypes'
  BY DEF Types, HomeTypes
<1>2. FileTypes' /\ MountTypes' /\ KidTypes'
  BY DEF Types, FileTypes, MountTypes, KidTypes
<1>3. QED
  BY <1>1, <1>2 DEF Types

\* A child changes its state.
LEMMA KidStepTypes ==
  ASSUME Types, pc' \in [Proc -> Labels], kid' \in [Run -> KidStates],
         view' \in [Run -> DOMAIN layer \cup {None}],
         UNCHANGED <<host, home, layer, mounts, local, written, stray, dropped>>
  PROVE  Types'
<1>1. FileTypes' /\ HomeTypes' /\ MountTypes' /\ KidTypes'
  BY DEF Types, FileTypes, HomeTypes, MountTypes, KidTypes
<1>2. QED
  BY <1>1 DEF Types

\* A command remembers something.
LEMMA LocalStepTypes ==
  ASSUME Types, pc' \in [Proc -> Labels], local' \in [Apply \cup Drop -> Memory], UNCHANGED data
  PROVE  Types'
  BY DEF Types, FileTypes, HomeTypes, MountTypes, KidTypes, data

\* What an apply or a drop remembers keeps its types.
LEMMA Remember ==
  ASSUME Types, NEW p \in Apply \cup Drop
  PROVE  /\ local[p] \in Memory
         /\ \A m \in Memory : [local EXCEPT ![p] = m] \in [Apply \cup Drop -> Memory]
         /\ \A m \in Memory : [local EXCEPT ![p] = m][p] = m
         /\ \A m \in Memory : \A q \in Apply \cup Drop :
              q # p => [local EXCEPT ![p] = m][q] = local[q]
  BY DEF Types

LEMMA Memories ==
  ASSUME NEW m \in Memory, NEW F \in SUBSET Run, NEW G \in SUBSET Run, NEW b \in BOOLEAN
  PROVE  /\ [m EXCEPT !.base = F, !.seen = G] \in Memory
         /\ [m EXCEPT !.base = F] \in Memory
         /\ [m EXCEPT !.ops = F] \in Memory
         /\ [m EXCEPT !.known = b] \in Memory
         /\ [m EXCEPT !.proved = b] \in Memory
         /\ [m EXCEPT !.rounds = m.rounds + 1] \in Memory
         /\ [m EXCEPT !.rounds = MaxLoops] \in Memory
<1>1. m.rounds + 1 \in Nat
  BY DEF Memory
<1>2. [m EXCEPT !.base = F, !.seen = G] \in Memory
  BY DEF Memory
<1>3. [m EXCEPT !.rounds = m.rounds + 1] \in Memory /\ [m EXCEPT !.rounds = MaxLoops] \in Memory
  BY <1>1, LimitAssumption DEF Memory
<1>4. [m EXCEPT !.known = b] \in Memory /\ [m EXCEPT !.proved = b] \in Memory
  BY DEF Memory
<1>5. [m EXCEPT !.base = F] \in Memory /\ [m EXCEPT !.ops = F] \in Memory
  BY DEF Memory
<1>6. QED
  BY <1>2, <1>3, <1>4, <1>5

\* The files the target shows.
LEMMA ShownFiles == Types => Shown \in SUBSET Run
<1> SUFFICES ASSUME Types PROVE Shown \in SUBSET Run
  OBVIOUS
<1>1. host \in SUBSET Run /\ layer \in Seq(SUBSET Run)
  BY DEF Types, FileTypes
<1>2. CASE Mounted /\ Top.kind = "mine"
  <2>1. Len(mounts) \in DOMAIN mounts
    BY <1>2 DEF Types, MountTypes, Mounted
  <2>2. Top.up \in DOMAIN layer
    BY <1>2, <2>1 DEF Types, MountTypes, Top
  <2>3. layer[Top.up] \in SUBSET Run
    BY <1>1, <2>2
  <2>4. QED
    BY <1>1, <2>3 DEF Shown
<1>3. CASE ~(Mounted /\ Top.kind = "mine")
  BY <1>1, <1>3 DEF Shown
<1>4. QED
  BY <1>2, <1>3

LEMMA GateTypes ==
  ASSUME Types, NEW p \in Proc, Gate(p) \/ Recover(p) \/ RecoverUnmount(p)
  PROVE  Types'
<1>1. {"recover", "end", "unmount", AfterRecover(p)} \subseteq Labels
  BY DEF Labels, AfterRecover
<1>2. CASE Gate(p)
  BY <1>1, <1>2, Going, LabelTypes DEF Gate
<1>3. CASE Recover(p)
  BY <1>1, <1>3, Going, LabelTypes DEF Recover
<1>4. CASE RecoverUnmount(p)
  BY <1>1, <1>4, UnmountTypes DEF RecoverUnmount, Types
<1>5. QED
  BY <1>2, <1>3, <1>4

LEMMA RunTypes ==
  ASSUME Types, NEW r \in Run, RunStep(r)
  PROVE  Types'
<1> USE Sorts
<1>1. {"spawn", "mount", "end", "claim", "down", "guard", "lost", "running", "clear", "ok"} \subseteq Labels
  BY DEF Labels
<1>2. kid \in [Run -> KidStates] /\ view \in [Run -> DOMAIN layer \cup {None}]
  BY DEF Types, KidTypes
<1>3. CASE RunMkdirs(r)
  BY <1>1, <1>3, Going, MakeUpperTypes DEF RunMkdirs
<1>4. CASE RunMount(r)
  <2>1. CASE home # None /\ home.upper # None
    <3> DEFINE m == [kind |-> "mine", up |-> home.upper]
    <3>1. home.upper \in DOMAIN layer /\ layer \in Seq(SUBSET Run) /\ DOMAIN layer \subseteq Nat
      BY <2>1 DEF Types, HomeTypes, FileTypes
    <3>2. m \in [kind : MountKinds, up : Nat \cup {None}] /\ m.kind = "mine" /\ m.up = home.upper
      BY <3>1 DEF MountKinds
    <3>3. mounts' = Append(mounts, m) /\ pc' \in [Proc -> Labels]
      BY <1>1, <1>4, <2>1, Going DEF RunMount
    <3> HIDE DEF m
    <3>4. MountTypes'
      <4>1. mounts \in Seq([kind : MountKinds, up : Nat \cup {None}]) /\ layer' = layer
        BY <1>4 DEF Types, MountTypes, RunMount
      <4>2. mounts' \in Seq([kind : MountKinds, up : Nat \cup {None}])
        BY <3>2, <3>3, <4>1
      <4>3. \A i \in DOMAIN mounts' :
              (i \in DOMAIN mounts /\ mounts'[i] = mounts[i]) \/ mounts'[i] = m
        BY <3>3, <4>1
      <4>4. QED
        BY <3>1, <3>2, <4>1, <4>2, <4>3 DEF Types, MountTypes
    <3>5. FileTypes' /\ HomeTypes' /\ KidTypes'
      BY <1>4 DEF RunMount, Types, FileTypes, HomeTypes, KidTypes
    <3>6. QED
      BY <1>4, <3>3, <3>4, <3>5 DEF RunMount, Types
  <2>2. CASE ~(home # None /\ home.upper # None)
    BY <1>1, <1>4, <2>2, Going, LabelTypes DEF RunMount, data
  <2>3. QED
    BY <2>1, <2>2
<1>5. CASE RunSpawn(r)
  <2>1. kid' \in [Run -> KidStates]
    BY <1>2, <1>5 DEF RunSpawn, KidStates
  <2>2. QED
    BY <1>1, <1>2, <1>5, <2>1, Going, KidStepTypes DEF RunSpawn
<1>6. CASE RunSpawnFails(r)
  <2>1. pc' \in [Proc -> Labels]
    BY <1>1, <1>6, Going DEF RunSpawnFails
  <2>2. QED
    BY <1>6, <2>1, LabelTypes DEF RunSpawnFails
<1>7. CASE RunClaim(r)
  <2>1. pc' \in [Proc -> Labels] /\ dropped' \in BOOLEAN
    BY <1>1, <1>7, Going DEF RunClaim, Types
  <2>2. CASE home = None \/ Running
    BY <1>7, <2>1, <2>2, LabelTypes DEF RunClaim, data
  <2>3. CASE ~(home = None \/ Running)
    <3>1. home \in Homes /\ r \in Run \cup {None} /\ home' = [home EXCEPT !.pid = r]
      BY <1>7, <2>3 DEF RunClaim, Types, HomeTypes
    <3>2. home' \in Homes /\ home'.upper = home.upper
      BY <3>1, SetPid
    <3>3. QED
      BY <1>7, <2>1, <2>3, <3>2, HomeStepTypes DEF RunClaim
  <2>4. QED
    BY <2>2, <2>3
<1>8. CASE RunLost(r)
  <2>1. kid' \in [Run -> KidStates]
    BY <1>2, <1>8 DEF RunLost, KidStates
  <2>2. QED
    BY <1>1, <1>2, <1>8, <2>1, Going, KidStepTypes DEF RunLost
<1>9. CASE RunGuard(r)
  BY <1>1, <1>9, UnmountTypes DEF RunGuard, Types
<1>10. CASE RunWait(r)
  <2>1. kid' \in [Run -> KidStates]
    BY <1>2, <1>10 DEF RunWait, KidStates
  <2>2. QED
    BY <1>1, <1>2, <1>10, <2>1, Going, KidStepTypes DEF RunWait
<1>11. CASE RunDown(r)
  BY <1>1, <1>11, UnmountTypes DEF RunDown, Types
<1>12. CASE RunClear(r)
  <2>1. pc' \in [Proc -> Labels] /\ dropped' \in BOOLEAN
    BY <1>1, <1>12, Going DEF RunClear, Types
  <2>2. CASE home = None \/ Mounted \/ Running
    BY <1>12, <2>1, <2>2, LabelTypes DEF RunClear, data
  <2>3. CASE ~(home = None \/ Mounted \/ Running)
    <3>1. home \in Homes /\ None \in Run \cup {None} /\ home' = [home EXCEPT !.pid = None]
      BY <1>12, <2>3 DEF RunClear, Types, HomeTypes
    <3>2. home' \in Homes /\ home'.upper = home.upper
      BY <3>1, SetPid
    <3>3. QED
      BY <1>12, <2>1, <2>3, <3>2, HomeStepTypes DEF RunClear
  <2>4. QED
    BY <2>2, <2>3
<1>13. QED
  BY <1>3, <1>4, <1>5, <1>6, <1>7, <1>8, <1>9, <1>10, <1>11, <1>12 DEF RunStep

LEMMA ApplyTypes ==
  ASSUME Types, NEW a \in Apply, ApplyStep(a)
  PROVE  Types'
<1> USE Sorts
<1>1. {"end", "fold", "gate", "commit", "post", "rescan", "last", "meta", "manifest", "reset",
       "mkupper", "status", "ok"} \subseteq Labels
  BY DEF Labels
<1>2. local[a] \in Memory /\ local \in [Apply \cup Drop -> Memory] /\ host \in SUBSET Run
  BY DEF Types, FileTypes
<1>3. CASE ApplyScan(a)
  <2>1. pc' \in [Proc -> Labels]
    BY <1>1, <1>3, Going DEF ApplyScan
  <2>2. CASE home = None \/ home.base = None
    BY <1>2, <1>3, <2>1, <2>2, LocalStepTypes DEF ApplyScan
  <2>3. CASE ~(home = None \/ home.base = None)
    <3>1. home.base \in SUBSET Run
      BY <2>3 DEF Types, HomeTypes, Homes
    <3>2. [local[a] EXCEPT !.base = home.base, !.seen = Shown] \in Memory
      BY <1>2, <3>1, ShownFiles, Memories
    <3>3. local' = [local EXCEPT ![a] = [local[a] EXCEPT !.base = home.base, !.seen = Shown]]
      BY <1>2, <1>3, <2>3 DEF ApplyScan
    <3>4. QED
      BY <1>3, <2>1, <3>2, <3>3, Remember, LocalStepTypes DEF ApplyScan
  <2>4. QED
    BY <2>2, <2>3
<1>4. CASE ApplyFold(a)
  <2> DEFINE ops == (Upper \ local[a].base) \ local[a].seen
  <2>1. Upper \in SUBSET Run
    BY DEF Upper, Types, FileTypes, HomeTypes
  <2>2. ops \in SUBSET Run
    BY <2>1
  <2>3. local' = [local EXCEPT ![a].ops = ops]
    BY <1>4 DEF ApplyFold, Upper
  <2> HIDE DEF ops
  <2>4. [local[a] EXCEPT !.ops = ops] \in Memory
    BY <1>2, <2>2, Memories
  <2>5. local' \in [Apply \cup Drop -> Memory]
    BY <1>2, <2>3, <2>4
  <2>6. QED
    BY <1>1, <1>4, <2>5, Going, LocalStepTypes DEF ApplyFold
<1>5. CASE ApplyGate(a)
  BY <1>1, <1>5, Going, LabelTypes DEF ApplyGate
<1>6. CASE ApplyCommit(a)
  <2>1. CASE UNCHANGED <<host, local>>
    BY <1>1, <1>6, <2>1, Going, LabelTypes DEF ApplyCommit, data, Types
  <2>2. ASSUME NEW f \in local[a].ops, host' = host \cup {f}, pc' = pc,
               local' = [local EXCEPT ![a].ops = @ \ {f}]
        PROVE  Types'
    <3>1. local[a].ops \in SUBSET Run
      BY <1>2 DEF Memory
    <3>2. [local[a] EXCEPT !.ops = local[a].ops \ {f}] \in Memory
      BY <1>2, <3>1, Memories
    <3>3. local' \in [Apply \cup Drop -> Memory]
      BY <1>2, <2>2, <3>2
    <3>4. FileTypes' /\ HomeTypes' /\ MountTypes' /\ KidTypes'
      BY <1>2, <1>6, <2>2, <3>1 DEF ApplyCommit, Types, FileTypes, HomeTypes, MountTypes, KidTypes
    <3>5. QED
      BY <1>6, <2>2, <3>3, <3>4 DEF ApplyCommit, Types
  <2>3. QED
    BY <1>6, <2>1, <2>2 DEF ApplyCommit
<1>61. CASE ApplyRescan(a)
  <2>1. [local[a] EXCEPT !.base = Shown] \in Memory
    BY <1>2, ShownFiles, Memories
  <2>2. local' \in [Apply \cup Drop -> Memory]
    BY <1>2, <1>61, <2>1 DEF ApplyRescan
  <2>3. QED
    BY <1>1, <1>61, <2>2, Going, LocalStepTypes DEF ApplyRescan
<1>7. CASE ApplyMeta(a)
  BY <1>1, <1>7, Going, LabelTypes DEF ApplyMeta
<1>8. CASE ApplyManifest(a)
  <2>1. pc' \in [Proc -> Labels] /\ dropped' \in BOOLEAN
    BY <1>1, <1>8, Going DEF ApplyManifest, Types
  <2>2. CASE home = None
    BY <1>8, <2>1, <2>2, LabelTypes DEF ApplyManifest, data
  <2>3. CASE home # None
    <3>1. home \in Homes /\ local[a].base \in SUBSET Run
      BY <1>2, <2>3 DEF Types, HomeTypes, Memory
    <3>2. home' = [home EXCEPT !.base = local[a].base]
      BY <1>8, <2>3 DEF ApplyManifest
    <3>3. home' \in Homes /\ home'.upper = home.upper
      BY <3>1, <3>2, SetBase
    <3>4. QED
      BY <1>8, <2>1, <2>3, <3>3, HomeStepTypes DEF ApplyManifest
  <2>4. QED
    BY <2>2, <2>3
<1>9. CASE ApplyReset(a)
  <2>1. pc' \in [Proc -> Labels]
    BY <1>1, <1>9, Going DEF ApplyReset
  <2>2. CASE ~(home # None /\ home.upper # None)
    BY <1>9, <2>1, <2>2, LabelTypes DEF ApplyReset, data
  <2>3. CASE home # None /\ home.upper # None
    <3>1. layer \in Seq(SUBSET Run) /\ home.upper \in DOMAIN layer /\ home \in Homes
      BY <2>3 DEF Types, FileTypes, HomeTypes
    <3>2. layer' = [layer EXCEPT ![home.upper] = {}] /\ home' = [home EXCEPT !.upper = None]
      BY <1>9, <2>3 DEF ApplyReset
    <3>3. layer' \in Seq(SUBSET Run) /\ DOMAIN layer' = DOMAIN layer
      BY <3>1, <3>2
    <3>4. home' \in Homes /\ home'.upper = None
      BY <3>1, <3>2, SetUpper
    <3>5. FileTypes' /\ HomeTypes' /\ MountTypes' /\ KidTypes'
      BY <1>9, <3>3, <3>4 DEF ApplyReset, Types, FileTypes, HomeTypes, MountTypes, KidTypes
    <3>6. QED
      BY <1>9, <2>1, <3>5 DEF ApplyReset, Types
  <2>4. QED
    BY <2>2, <2>3
<1>10. CASE ApplyMkupper(a)
  BY <1>1, <1>10, Going, MakeUpperTypes DEF ApplyMkupper
<1>11. CASE ApplyStatus(a)
  <2>1. pc' \in [Proc -> Labels] /\ dropped' \in BOOLEAN
    BY <1>1, <1>11, Going DEF ApplyStatus, Types
  <2>2. CASE home = None
    BY <1>11, <2>1, <2>2, LabelTypes DEF ApplyStatus, data
  <2>3. CASE home # None
    <3>1. home \in Homes /\ home' = [home EXCEPT !.meta = TRUE]
      BY <1>11, <2>3 DEF Types, HomeTypes, ApplyStatus
    <3>2. home' \in Homes /\ home'.upper = home.upper
      BY <3>1, SetMeta
    <3>3. QED
      BY <1>11, <2>1, <2>3, <3>2, HomeStepTypes DEF ApplyStatus
  <2>4. QED
    BY <2>2, <2>3
<1>12. QED
  BY <1>3, <1>4, <1>5, <1>6, <1>61, <1>7, <1>8, <1>9, <1>10, <1>11 DEF ApplyStep

LEMMA DropTypes ==
  ASSUME Types, NEW d \in Drop, DropStep(d) \/ DropStart(d)
  PROVE  Types'
<1> USE Sorts
<1>1. {"end", "first", "loop", "again", "take", "retake", "recheck", "rename", "ok"} \subseteq Labels
  BY DEF Labels
<1>2. local[d] \in Memory /\ local \in [Apply \cup Drop -> Memory] /\ TRUE \in BOOLEAN
  BY DEF Types
<1>3. CASE DropStart(d)
  <2>1. pc' \in [Proc -> Labels]
    BY <1>1, <1>3, Going DEF DropStart
  <2>2. CASE home = None
    BY <1>3, <2>1, <2>2, LabelTypes DEF DropStart
  <2>3. CASE home # None
    <3>1. [local[d] EXCEPT !.known = home.meta] \in Memory
      BY <1>2, <2>3, Memories DEF Types, HomeTypes, Homes
    <3>2. local' \in [Apply \cup Drop -> Memory]
      BY <1>2, <1>3, <2>3, <3>1 DEF DropStart
    <3>3. QED
      BY <1>3, <2>1, <3>2, LocalStepTypes DEF DropStart
  <2>4. QED
    BY <2>2, <2>3
<1>4. CASE DropTerminate(d)
  <2>1. kid' \in [Run -> KidStates]
    BY <1>4 DEF DropTerminate, Types, KidTypes, KidStates
  <2>2. QED
    BY <1>4, <2>1, KidStepTypes DEF DropTerminate, Types, KidTypes
<1>5. CASE DropFirst(d) \/ DropVerdict(d) \/ DropAgain(d) \/ DropRecheck(d)
  <2>1. pc' \in [Proc -> Labels] /\ UNCHANGED <<data, local>>
    BY <1>1, <1>5, Going DEF DropFirst, DropVerdict, DropAgain, DropRecheck
  <2>2. QED
    BY <2>1, LabelTypes
<1>6. CASE DropLoop(d)
  <2>1. pc' \in [Proc -> Labels]
    BY <1>1, <1>6, Going DEF DropLoop, Types
  <2>2. /\ [local[d] EXCEPT !.proved = TRUE] \in Memory
        /\ [local[d] EXCEPT !.rounds = local[d].rounds + 1] \in Memory
        /\ [local[d] EXCEPT !.rounds = MaxLoops] \in Memory
    BY <1>2, Memories
  <2>3. local' \in [Apply \cup Drop -> Memory]
    BY <1>2, <1>6, <2>2 DEF DropLoop
  <2>4. QED
    BY <1>6, <2>1, <2>3, LocalStepTypes DEF DropLoop
<1>7. CASE DropTake(d)
  <2>1. [local[d] EXCEPT !.rounds = local[d].rounds + 1] \in Memory
    BY <1>2, Memories
  <2>2. local' \in [Apply \cup Drop -> Memory]
    BY <1>2, <1>7, <2>1 DEF DropTake
  <2>3. QED
    BY <1>1, <1>7, <2>2, UnmountTypes DEF DropTake
<1>8. CASE DropRetake(d)
  BY <1>1, <1>8, UnmountTypes DEF DropRetake, Types
<1>9. CASE DropRename(d)
  <2>1. pc' \in [Proc -> Labels] /\ dropped' \in BOOLEAN
    BY <1>1, <1>2, <1>9, Going DEF DropRename, Types
  <2>2. home' = None \/ home' = home
    BY <1>9 DEF DropRename
  <2>3. QED
    BY <1>9, <2>1, <2>2, HomeStepTypes DEF DropRename, Types, HomeTypes
<1>10. QED
  BY <1>3, <1>4, <1>5, <1>6, <1>7, <1>8, <1>9 DEF DropStep

\* A child writes to a directory that is there, or to none.
LEMMA WritesToLayer ==
  ASSUME Types, NEW r \in Run
  PROVE  WritesTo(r) \in DOMAIN layer \cup {None}
<1>1. view[r] \in DOMAIN layer \cup {None}
  BY DEF Types, KidTypes
<1>2. Mounted => Len(mounts) \in DOMAIN mounts
  BY DEF Types, MountTypes, Mounted
<1>3. Mounted => Top.up \in DOMAIN layer \cup {None}
  BY <1>2 DEF Types, MountTypes, Top
<1>4. QED
  BY <1>1, <1>3 DEF WritesTo

LEMMA OthersTypes ==
  ASSUME Types,
         \/ \E r \in Run : WrapperMounts(r) \/ Write(r) \/ Exit(r)
         \/ \E p \in Proc : Crash(p)
         \/ \E k \in Foreign : MountForeign(k)
  PROVE  Types'
<1>1. kid \in [Run -> KidStates] /\ view \in [Run -> DOMAIN layer \cup {None}] /\ pc \in [Proc -> Labels]
  BY DEF Types, KidTypes
<1>2. ASSUME NEW r \in Run, WrapperMounts(r) PROVE Types'
  <2>1. home.upper \in DOMAIN layer
    BY <1>2 DEF WrapperMounts, Types, HomeTypes
  <2>2. kid' \in [Run -> KidStates] /\ view' \in [Run -> DOMAIN layer \cup {None}]
    BY <1>1, <1>2, <2>1 DEF WrapperMounts, KidStates
  <2>3. QED
    BY <1>1, <1>2, <2>2, KidStepTypes DEF WrapperMounts
<1>3. ASSUME NEW r \in Run, Write(r) PROVE Types'
  <2> DEFINE w == WritesTo(r)
  <2>1. w \in DOMAIN layer \cup {None}
    BY WritesToLayer
  <2>2. /\ layer \in Seq(SUBSET Run)
        /\ host \in SUBSET Run /\ written \in SUBSET Run /\ stray \in SUBSET Run
    BY DEF Types, FileTypes
  <2>3. /\ w # None => layer' = [layer EXCEPT ![w] = @ \cup {r}]
        /\ w = None => layer' = layer
        /\ written' = written \cup {r} /\ stray' \in {stray, stray \cup {r}}
        /\ host' \in {host, host \cup {r}}
    BY <1>3 DEF Write
  <2> HIDE DEF w
  <2>4. layer' \in Seq(SUBSET Run) /\ DOMAIN layer' = DOMAIN layer
    <3>1. CASE w = None
      BY <2>2, <2>3, <3>1
    <3>2. CASE w # None
      <4>1. w \in DOMAIN layer /\ layer[w] \cup {r} \in SUBSET Run
        BY <2>1, <2>2, <3>2
      <4>2. QED
        BY <2>2, <2>3, <3>2, <4>1
    <3>3. QED
      BY <3>1, <3>2
  <2>5. FileTypes'
    BY <2>2, <2>3, <2>4 DEF FileTypes
  <2>6. HomeTypes' /\ MountTypes' /\ KidTypes'
    BY <1>3, <2>4 DEF Write, Types, HomeTypes, MountTypes, KidTypes
  <2>7. QED
    BY <1>3, <2>5, <2>6 DEF Write, Types
<1>4. ASSUME NEW r \in Run, Exit(r) PROVE Types'
  <2>1. kid' \in [Run -> KidStates]
    BY <1>1, <1>4 DEF Exit, KidStates
  <2>2. QED
    BY <1>1, <1>4, <2>1, KidStepTypes DEF Exit
<1>5. ASSUME NEW p \in Proc, Crash(p) PROVE Types'
  <2>1. kid' \in [Run -> KidStates]
    BY <1>1, <1>5 DEF Crash, KidStates
  <2>2. pc' \in [Proc -> Labels]
    BY <1>5, Going DEF Crash, Labels
  <2>3. QED
    BY <1>1, <1>5, <2>1, <2>2, KidStepTypes DEF Crash
<1>6. ASSUME NEW k \in Foreign, MountForeign(k) PROVE Types'
  <2> DEFINE m == [kind |-> k, up |-> None]
  <2>1. m \in [kind : MountKinds, up : Nat \cup {None}] /\ m.kind # "mine" /\ m.up = None
    BY <1>6, KindAssumption DEF MountKinds
  <2>2. mounts \in Seq([kind : MountKinds, up : Nat \cup {None}]) /\ mounts' = Append(mounts, m)
    BY <1>6 DEF MountForeign, Types, MountTypes
  <2> HIDE DEF m
  <2>3. mounts' \in Seq([kind : MountKinds, up : Nat \cup {None}])
    BY <2>1, <2>2
  <2>4. \A i \in DOMAIN mounts' : (i \in DOMAIN mounts /\ mounts'[i] = mounts[i]) \/ mounts'[i] = m
    BY <2>2
  <2>5. MountTypes'
    BY <1>6, <2>1, <2>3, <2>4 DEF MountForeign, Types, MountTypes
  <2>6. FileTypes' /\ HomeTypes' /\ KidTypes'
    BY <1>6 DEF MountForeign, Types, FileTypes, HomeTypes, KidTypes
  <2>7. QED
    BY <1>6, <2>5, <2>6 DEF MountForeign, Types
<1>7. QED
  BY <1>2, <1>3, <1>4, <1>5, <1>6

LEMMA NextTypes == Types /\ [Next]_vars => Types'
<1> SUFFICES ASSUME Types, [Next]_vars PROVE Types'
  OBVIOUS
<1>1. CASE UNCHANGED vars
  BY <1>1, LabelTypes DEF vars, data, Types
<1>2. CASE Next
  <2>1. ASSUME NEW p \in Proc, Command(p) PROVE Types'
    BY <2>1, GateTypes, RunTypes, ApplyTypes, DropTypes DEF Command
  <2>2. QED
    BY <1>2, <2>1, GateTypes, DropTypes, OthersTypes DEF Next
<1>3. QED
  BY <1>1, <1>2

\* The state is what the types say, for every value of the constants: however the
\* commands interleave and wherever they are killed, the state directory, the mounts
\* and the children's views name directories that exist.
THEOREM TypeCorrect == Spec => []TypeOK
<1>1. Init => Types
  BY InitTypes
<1>2. Types /\ [Next]_vars => Types'
  BY NextTypes
<1>3. Types => TypeOK
  <2> SUFFICES ASSUME Types PROVE TypeOK
    OBVIOUS
  <2>1. \A i \in DOMAIN mounts :
          mounts[i].kind \in Foreign \cup {"mine"} /\ mounts[i].up \in DOMAIN layer \cup {None}
    <3>1. ASSUME NEW i \in DOMAIN mounts
          PROVE  mounts[i] \in [kind : MountKinds, up : Nat \cup {None}]
      <4>1. ASSUME NEW S, mounts \in Seq(S) PROVE mounts[i] \in S
        BY <4>1
      <4>2. QED
        BY <4>1 DEF Types, MountTypes
    <3>2. \A i \in DOMAIN mounts : mounts[i].kind \in MountKinds
      BY <3>1
    <3>3. QED
      BY <3>2 DEF Types, MountTypes, MountKinds
  <2>2. QED
    BY <2>1 DEF TypeOK, Types, FileTypes, HomeTypes, KidTypes, KidStates
<1>4. QED
  BY <1>1, <1>2, <1>3, PTL DEF Spec

-----------------------------------------------------------------------------
(* Who changes the host directory                                          *)

Committing(a) == pc[a] = "commit" /\ local'[a].ops # local[a].ops

WritingThrough(r) == kid[r] = "live" /\ view[r] = None /\ ~Mounted

LEMMA HostChanges ==
  ASSUME Types, [Next]_vars, host' # host
  PROVE  (\E a \in Apply : Committing(a)) \/ (\E r \in Run : WritingThrough(r))
<1> SUFFICES ASSUME ~\E r \in Run : WritingThrough(r)
             PROVE  \E a \in Apply : Committing(a)
  OBVIOUS
<1>1. ASSUME NEW r \in Run, WrapperMounts(r) \/ Write(r) \/ Exit(r) PROVE FALSE
  BY <1>1 DEF WrapperMounts, Write, Exit, WritesTo, WritingThrough
<1>2. ASSUME NEW r \in Run, RunStep(r) PROVE FALSE
  BY <1>2 DEF RunStep, RunMkdirs, RunMount, RunSpawn, RunSpawnFails, RunClaim, RunLost, RunGuard,
              RunWait, RunDown, RunClear, data
<1>3. ASSUME NEW d \in Drop, DropStart(d) \/ DropStep(d) PROVE FALSE
  BY <1>3 DEF DropStart, DropStep, DropTerminate, DropFirst, DropLoop, DropTake, DropVerdict,
              DropAgain, DropRetake, DropRecheck, DropRename, data
<1>4. ASSUME NEW p \in Proc, Gate(p) \/ Crash(p) \/ Recover(p) \/ RecoverUnmount(p) PROVE FALSE
  BY <1>4 DEF Gate, Crash, Recover, RecoverUnmount, data
<1>5. ASSUME NEW a \in Apply, ApplyStep(a) PROVE Committing(a)
  <2>1. ApplyCommit(a)
    BY <1>5 DEF ApplyStep, ApplyScan, ApplyFold, ApplyGate, ApplyRescan, ApplyMeta, ApplyManifest,
                ApplyReset, ApplyMkupper, ApplyStatus, data
  <2>2. PICK f \in local[a].ops : local' = [local EXCEPT ![a].ops = @ \ {f}]
    BY <2>1 DEF ApplyCommit
  <2>3. local'[a].ops = local[a].ops \ {f}
    BY <2>2 DEF Types, Memory
  <2>4. QED
    BY <2>1, <2>2, <2>3 DEF ApplyCommit, Committing
<1>6. ASSUME NEW k \in Foreign, MountForeign(k) PROVE FALSE
  BY <1>6 DEF MountForeign
<1>7. Next
  BY DEF vars
<1>8. QED
  BY <1>1, <1>2, <1>3, <1>4, <1>5, <1>6, <1>7 DEF Next, Command

\* A child has the layer mounted before its command starts, and keeps it.
Covering == \A r \in Run : kid[r] = "live" => view[r] # None

LEMMA CoveringNext ==
  ASSUME Private, Types, Covering, [Next]_vars
  PROVE  Covering'
<1> USE Sorts DEF Types, KidTypes, Covering
<1>1. ASSUME NEW r \in Run, WrapperMounts(r) PROVE Covering'
  BY <1>1 DEF WrapperMounts
<1>2. ASSUME NEW r \in Run, Write(r) \/ Exit(r) PROVE Covering'
  BY <1>2 DEF Write, Exit
<1>3. ASSUME NEW r \in Run, RunStep(r) PROVE Covering'
  BY <1>3 DEF RunStep, RunMkdirs, RunMount, RunSpawn, RunSpawnFails, RunClaim, RunLost, RunGuard,
              RunWait, RunDown, RunClear, data
<1>4. ASSUME NEW d \in Drop, DropTerminate(d) PROVE Covering'
  BY <1>4 DEF DropTerminate
<1>5. ASSUME NEW p \in Proc, Crash(p) PROVE Covering'
  BY <1>5 DEF Crash
<1>6. ASSUME UNCHANGED <<kid, view>> PROVE Covering'
  BY <1>6
<1>7. ASSUME NEW d \in Drop, DropStart(d) \/ DropStep(d) PROVE Covering'
  BY <1>4, <1>6, <1>7 DEF DropStart, DropStep, DropFirst, DropLoop, DropTake, DropVerdict,
              DropAgain, DropRetake, DropRecheck, DropRename, data
<1>8. ASSUME NEW a \in Apply, ApplyStep(a) PROVE Covering'
  BY <1>6, <1>8 DEF ApplyStep, ApplyScan, ApplyFold, ApplyGate, ApplyCommit, ApplyRescan, ApplyMeta,
              ApplyManifest, ApplyReset, ApplyMkupper, ApplyStatus, data
<1>9. ASSUME NEW p \in Proc, Gate(p) \/ Recover(p) \/ RecoverUnmount(p) PROVE Covering'
  BY <1>6, <1>9 DEF Gate, Recover, RecoverUnmount, data
<1>10. ASSUME NEW k \in Foreign, MountForeign(k) PROVE Covering'
  BY <1>6, <1>10 DEF MountForeign
<1>11. CASE UNCHANGED vars
  BY <1>6, <1>11 DEF vars
<1>12. QED
  BY <1>1, <1>2, <1>3, <1>5, <1>7, <1>8, <1>9, <1>10, <1>11 DEF Next, Command

\* With a mount in the child's own namespace the command writes nowhere but into the
\* layer, whatever other commands do meanwhile: the host changes by the commit of an
\* apply alone.
THEOREM PrivateMountIsolates == ASSUME Private PROVE Spec => HostOnlyByApply
<1>1. Init => Types /\ Covering
  <2> SUFFICES ASSUME Init PROVE Types /\ Covering
    OBVIOUS
  <2>1. Covering
    BY DEF Init, Covering
  <2>2. QED
    BY <2>1, InitTypes
<1>2. Types /\ Covering /\ [Next]_vars => (Types /\ Covering)'
  BY CoveringNext, NextTypes
<1>3. Types /\ Covering /\ [Next]_vars =>
        [\E a \in Apply : pc[a] = "commit" /\ local'[a].ops # local[a].ops]_host
  BY HostChanges DEF Covering, Committing, WritingThrough
<1>4. QED
  BY <1>1, <1>2, <1>3, PTL DEF Spec, HostOnlyByApply

-----------------------------------------------------------------------------
(* One command at a time                                                   *)

NoneActive == \A r \in Run : ~Active(r)

\* Past its gate, and outside of the wait for its child, a command knows of no child.
LEMMA Calm ==
  ASSUME Types, Alone, Recorded, NEW p \in Proc, At(p), Busy(p),
         pc[p] \notin {"first", "running", "claim"}
  PROVE  NoneActive
<1> SUFFICES ASSUME NEW r \in Run, Active(r) PROVE FALSE
  BY DEF NoneActive
<1>1. CASE pc[r] = "claim"
  <2>1. Busy(r) /\ r \in Proc
    BY <1>1, Sorts DEF Busy, Ended
  <2>2. QED
    BY <1>1, <2>1 DEF Alone
<1>2. CASE home # None /\ home.pid = r
  <2>1. Running
    BY <1>2, Sorts DEF Running, Active
  <2>2. QED
    BY <2>1 DEF At
<1>3. QED
  BY <1>1, <1>2 DEF Recorded

\* When nobody is under way and no run is in the pidfile, there is no child.
LEMMA CalmGate ==
  ASSUME Recorded, ~Running, \A q \in Proc : ~Busy(q)
  PROVE  NoneActive
<1> SUFFICES ASSUME NEW r \in Run, Active(r) PROVE FALSE
  BY DEF NoneActive
<1>1. pc[r] # "claim"
  BY Sorts DEF Busy, Ended
<1>2. home # None /\ home.pid = r
  BY <1>1 DEF Recorded
<1>3. QED
  BY <1>2, Sorts DEF Running, Active

LEMMA NoneRunningNext == ASSUME Types', NoneActive' PROVE ~Running'
<1> SUFFICES ASSUME Running' PROVE FALSE
  OBVIOUS
<1>1. home' # None /\ home'.pid # None /\ kid'[home'.pid] \in {"wait", "live", "zombie"}
  BY DEF Running
<1>2. home'.pid \in Run
  BY <1>1 DEF Types, HomeTypes, Homes
<1>3. QED
  BY <1>1, <1>2 DEF NoneActive, Active

\* A step of the one command that is under way.
LEMMA Solo ==
  ASSUME Alone, NEW p \in Proc, Busy(p) \/ \A q \in Proc : ~Busy(q),
         \A q \in Proc : q # p => pc'[q] = pc[q]
  PROVE  Alone' /\ \A q \in Proc : q # p => ~Busy(q)' /\ At(q)'
<1>1. \A q \in Proc : q # p => ~Busy(q)
  BY DEF Alone
<1>2. \A q \in Proc : q # p => ~Busy(q)'
  BY <1>1 DEF Busy
<1>3. Alone'
  BY <1>2 DEF Alone
<1>4. QED
  BY <1>2, <1>3 DEF At

\* The files stay where they are.
LEMMA KeptFrame ==
  ASSUME Kept, UNCHANGED <<host, layer, written, stray, dropped>>,
         \/ home' = home
         \/ home # None /\ home' # None /\ home'.base = home.base /\ home'.upper = home.upper
  PROVE  Kept'
<1>1. (home # None /\ home.base # None => home.base \subseteq host)'
  BY DEF Kept
<1>2. NothingLost'
  BY DEF Kept, NothingLost
<1>3. QED
  BY <1>1, <1>2 DEF Kept

\* The pidfile names the same run, or none.
LEMMA ClaimedFrame ==
  ASSUME Types, Types', Claimed, NEW p \in Proc, \A q \in Proc : q # p => pc'[q] = pc[q],
         home' = None \/ home'.pid = None \/ (home # None /\ home'.pid = home.pid),
         pc[p] \in {"running", "down", "clear", "ok", "dead"} =>
           pc'[p] \in {"running", "down", "clear", "ok", "dead"}
  PROVE  Claimed'
<1> SUFFICES ASSUME home' # None, home'.pid # None
             PROVE  pc'[home'.pid] \in {"running", "down", "clear", "ok", "dead"}
  BY DEF Claimed
<1>1. home # None /\ home'.pid = home.pid
  OBVIOUS
<1>2. home'.pid \in Proc
  BY Sorts DEF Types, HomeTypes, Homes
<1>3. pc[home.pid] \in {"running", "down", "clear", "ok", "dead"}
  BY <1>1 DEF Claimed
<1>4. QED
  BY <1>1, <1>2, <1>3

\* What is left to show of a step of a command that knows of no child.
LEMMA CalmStep ==
  ASSUME Types, Types', Tame, NEW p \in Proc,
         \/ Busy(p) /\ pc[p] \notin {"first", "running", "claim"}
         \/ Busy(p) /\ NoneActive
         \/ NoneActive /\ \A q \in Proc : ~Busy(q),
         \A q \in Proc : q # p => pc'[q] = pc[q],
         kid' = kid,
         home' = None \/ home'.pid = None \/ (home # None /\ home'.pid = home.pid),
         pc[p] \in {"running", "down", "clear", "ok", "dead"} =>
           pc'[p] \in {"running", "down", "clear", "ok", "dead"},
         Homed', Kept',
         Busy(p)' =>
           /\ home' # None
           /\ pc'[p] # "lost"
           /\ pc'[p] = "spawn" /\ ~Private => Mounted'
           /\ p \in Apply => Applying(p)'
           /\ p \in Drop => Dropping(p)'
  PROVE  Tame'
<1>1. NoneActive
  BY Calm DEF Tame
<1>2. NoneActive'
  BY <1>1 DEF NoneActive, Active
<1>3. Recorded' /\ Covered'
  BY <1>2 DEF NoneActive, Recorded, Covered, Active
<1>4. ~Running'
  BY <1>2, NoneRunningNext
<1>5. Claimed'
  BY ClaimedFrame DEF Tame
<1>6. Alone' /\ \A q \in Proc : q # p => At(q)'
  BY Solo DEF Tame
<1>7. At(p)'
  BY <1>4 DEF At
<1>8. QED
  BY <1>3, <1>5, <1>6, <1>7 DEF Tame

\* A step that leaves the state directory, the files and the children alone.
LEMMA QuietStep ==
  ASSUME Types, Types', Tame, NEW p \in Proc,
         \/ Busy(p) /\ pc[p] \notin {"first", "running", "claim"}
         \/ Busy(p) /\ NoneActive
         \/ NoneActive /\ home # None /\ \A q \in Proc : ~Busy(q),
         \A q \in Proc : q # p => pc'[q] = pc[q],
         UNCHANGED <<host, home, layer, kid, written, stray, dropped>>,
         pc[p] \in {"running", "down", "clear", "ok", "dead"} =>
           pc'[p] \in {"running", "down", "clear", "ok", "dead"},
         Busy(p)' =>
           /\ pc'[p] # "lost"
           /\ pc'[p] = "spawn" /\ ~Private => Mounted'
           /\ p \in Apply => Applying(p)'
           /\ p \in Drop => Dropping(p)'
  PROVE  Tame'
<1>1. home # None
  BY DEF Tame, At
<1>2. Homed' /\ Kept'
  BY KeptFrame DEF Tame, Homed
<1>3. home' = None \/ home'.pid = None \/ (home # None /\ home'.pid = home.pid)
  OBVIOUS
<1>4. QED
  BY <1>1, <1>2, <1>3, CalmStep

LEMMA InitTame == Init => Tame
<1> SUFFICES ASSUME Init PROVE Tame
  OBVIOUS
<1>1. \A p \in Proc : ~Busy(p)
  BY DEF Init, Busy
<1>2. \A r \in Run : ~Active(r)
  BY DEF Init, Active
<1>3. Alone /\ Recorded /\ \A p \in Proc : At(p)
  BY <1>1, <1>2 DEF Alone, Recorded, At
<1>4. Covered
  BY DEF Init, Covered
<1>5. home # None /\ home.meta /\ home.pid = None /\ home.base = {} /\ home.upper = 1
  <2>1. home = [meta |-> TRUE, base |-> {}, upper |-> 1, pid |-> None]
    BY DEF Init
  <2>2. {} \in (SUBSET Run) \cup {None} /\ 1 \in Nat \cup {None}
    OBVIOUS
  <2>3. home # None
    <3>1. PICK t \in BOOLEAN : home = [meta |-> t, base |-> {}, upper |-> 1, pid |-> None]
      BY <2>1
    <3>2. QED
      BY <2>2, <3>1, Absent, NewHome
  <2>4. home.meta /\ home.pid = None /\ home.base = {} /\ home.upper = 1
    BY <2>1
  <2>5. QED
    BY <2>3, <2>4
<1>6. Claimed /\ Homed
  BY <1>5 DEF Claimed, Homed, Init
<1>7. Kept
  BY DEF Init, Kept, NothingLost
<1>8. QED
  BY <1>3, <1>4, <1>6, <1>7 DEF Tame

LEMMA StutterTame == Tame /\ UNCHANGED vars => Tame'
<1> SUFFICES ASSUME Tame, UNCHANGED vars PROVE Tame'
  OBVIOUS
<1>1. Alone' /\ Recorded' /\ Claimed' /\ Homed' /\ Covered'
  BY DEF vars, Tame, Alone, Recorded, Claimed, Homed, Covered, Busy, Active, Mounted
<1>2. Kept'
  BY KeptFrame DEF vars, Tame
<1>3. ASSUME NEW p \in Proc PROVE At(p)'
  BY DEF vars, Tame, At, Busy, Running, Mounted, Applying, Dropping, Upper, HasMount
<1>4. QED
  BY <1>1, <1>2, <1>3 DEF Tame

\* A command is turned away.
LEMMA TurnedAway ==
  ASSUME Types, Tame, NEW p \in Proc, pc[p] = "idle", pc'[p] = "end",
         \A q \in Proc : q # p => pc'[q] = pc[q], \A q \in Proc : ~Busy(q), UNCHANGED data
  PROVE  Tame'
<1>1. Alone' /\ \A q \in Proc : ~Busy(q)'
  BY Solo DEF Tame, Busy, Ended
<1>2. \A q \in Proc : At(q)'
  BY <1>1 DEF At
<1>3. Recorded'
  BY Sorts DEF Tame, Recorded, Active, data
<1>4. Claimed'
  BY Sorts DEF Tame, Claimed, data, Types, HomeTypes, Homes
<1>5. Homed' /\ Covered' /\ Kept'
  BY KeptFrame DEF Tame, Homed, Covered, Mounted, data
<1>6. QED
  BY <1>1, <1>2, <1>3, <1>4, <1>5 DEF Tame

LEMMA GateTame ==
  ASSUME Careful, Types, Types', Tame, NEW p \in Proc, Gate(p) \/ Recover(p) \/ RecoverUnmount(p)
  PROVE  Tame'
<1>1. {"recover", "end", "unmount", "mkdirs", "scan"} \subseteq Labels /\ AfterRecover(p) \in {"mkdirs", "scan", "end"}
  BY DEF Labels, AfterRecover
<1>2. CASE Gate(p)
  <2>1. (\A q \in Proc : ~Busy(q)) /\ pc[p] = "idle" /\ UNCHANGED data
    BY <1>2 DEF Gate, Busy, Careful
  <2>2. CASE home # None /\ home.meta /\ ~Running
    <3>1. pc'[p] = "recover" /\ \A q \in Proc : q # p => pc'[q] = pc[q]
      BY <1>1, <1>2, <2>2, Going DEF Gate
    <3>2. NoneActive
      BY <2>1, <2>2, CalmGate DEF Tame
    <3>3. Applying(p)' /\ Dropping(p)'
      BY <3>1 DEF Applying, Dropping
    <3>4. QED
      BY <2>1, <2>2, <3>1, <3>2, <3>3, QuietStep DEF data
  <2>3. CASE ~(home # None /\ home.meta /\ ~Running)
    <3>1. pc'[p] = "end" /\ \A q \in Proc : q # p => pc'[q] = pc[q]
      BY <1>1, <1>2, <2>3, Going DEF Gate
    <3>2. QED
      BY <2>1, <3>1, TurnedAway
  <2>4. QED
    BY <2>2, <2>3
<1>3. CASE Recover(p) \/ RecoverUnmount(p)
  <2>1. /\ pc[p] \in {"recover", "unmount"}
        /\ pc'[p] \in {"mkdirs", "scan", "end", "unmount"}
        /\ \A q \in Proc : q # p => pc'[q] = pc[q]
        /\ UNCHANGED <<host, home, layer, kid, written, stray, dropped>>
    <3>1. CASE Recover(p)
      BY <1>1, <3>1, Going DEF Recover, data
    <3>2. CASE RecoverUnmount(p)
      BY <1>1, <3>2, Unmounting DEF RecoverUnmount
    <3>3. QED
      BY <1>3, <3>1, <3>2
  <2>2. Busy(p) /\ Applying(p)' /\ Dropping(p)'
    BY <2>1 DEF Busy, Ended, Applying, Dropping
  <2>3. QED
    BY <2>1, <2>2, QuietStep
<1>4. QED
  BY <1>2, <1>3

-----------------------------------------------------------------------------
(* cowt run                                                                *)

\* A new layer is empty, and there is one only when there was none.
LEMMA MakeUpperKept ==
  ASSUME Types, Kept, home # None, MakeUpper, UNCHANGED <<host, written, stray, dropped>>
  PROVE  Kept'
<1>1. \A i \in DOMAIN layer' : layer'[i] \subseteq written
  BY MakingUpper DEF Kept
<1>2. home' # None /\ home'.base = home.base
  BY MakingUpper, Sorts
<1>3. NothingLost'
  <2>1. CASE home' = home /\ layer' = layer
    BY <2>1 DEF Kept, NothingLost
  <2>2. CASE home.upper = None
    BY <2>2 DEF Kept, NothingLost
  <2>3. QED
    BY <2>1, <2>2, MakingUpper
<1>4. QED
  BY <1>1, <1>2, <1>3 DEF Kept

\* Another mount leaves those below it where they are.
LEMMA Mounting ==
  ASSUME Types, NEW k \in MountKinds, NEW u \in Nat \cup {None},
         mounts' = Append(mounts, [kind |-> k, up |-> u])
  PROVE  /\ Mounted'
         /\ \A i \in DOMAIN mounts : i \in DOMAIN mounts' /\ mounts'[i] = mounts[i]
         /\ \A i \in DOMAIN mounts' : i \in DOMAIN mounts \/ mounts'[i].kind = k
<1> DEFINE S == [kind : MountKinds, up : Nat \cup {None}]
           m == [kind |-> k, up |-> u]
<1>1. m \in S /\ m.kind = k
  OBVIOUS
<1>2. mounts \in Seq(S) /\ mounts' = Append(mounts, m)
  BY DEF Types, MountTypes
<1> HIDE DEF S, m
<1>3. Len(mounts') # 0 /\ \A i \in DOMAIN mounts : i \in DOMAIN mounts' /\ mounts'[i] = mounts[i]
  BY <1>1, <1>2
<1>4. \A i \in DOMAIN mounts' : i \in DOMAIN mounts \/ mounts'[i] = m
  BY <1>1, <1>2
<1>5. QED
  BY <1>1, <1>3, <1>4 DEF Mounted

LEMMA SpawnTame ==
  ASSUME Types, Types', Tame, NEW r \in Run, RunSpawn(r)
  PROVE  Tame'
<1>1. r \in Proc /\ pc[r] = "spawn" /\ Busy(r) /\ At(r)
  BY Sorts DEF RunSpawn, Busy, Ended, Tame
<1>2. pc'[r] = "claim" /\ \A q \in Proc : q # r => pc'[q] = pc[q]
  BY <1>1, Going DEF RunSpawn, Labels
<1>3. /\ kid'[r] = IF Private THEN "wait" ELSE "live"
      /\ \A s \in Run : s # r => kid'[s] = kid[s]
  BY DEF RunSpawn, Types, KidTypes
<1>4. NoneActive
  BY <1>1, Calm DEF Tame
<1>5. Recorded'
  BY <1>2, <1>3, <1>4 DEF NoneActive, Recorded, Active
<1>6. Covered'
  BY <1>1, <1>3, <1>4 DEF NoneActive, Covered, Active, RunSpawn, At, Mounted
<1>7. Claimed'
  BY <1>1, <1>2, ClaimedFrame DEF Tame, RunSpawn
<1>8. Homed' /\ Kept'
  BY KeptFrame DEF RunSpawn, Tame, Homed
<1>9. Alone' /\ \A q \in Proc : q # r => At(q)'
  BY <1>1, <1>2, Solo DEF Tame
<1>10. ~Running'
  <2> SUFFICES ASSUME home # None, home.pid # None PROVE kid'[home.pid] \notin {"wait", "live", "zombie"}
    BY DEF RunSpawn, Running
  <2>1. home.pid \in Run /\ home.pid # r
    BY <1>1 DEF Tame, Claimed, Types, HomeTypes, Homes
  <2>2. QED
    BY <1>3, <1>4, <2>1 DEF NoneActive, Active
<1>11. At(r)'
  BY <1>1, <1>2, <1>10, Sorts DEF At, RunSpawn
<1>12. QED
  BY <1>5, <1>6, <1>7, <1>8, <1>9, <1>11 DEF Tame

\* The child of the run under way is the only one.
LEMMA OneChild ==
  ASSUME Tame, NEW r \in Run, pc[r] \in {"claim", "running"},
         pc[r] = "running" => kid[r] = "zombie"
  PROVE  \A s \in Run : s # r => ~Active(s)
<1> SUFFICES ASSUME NEW s \in Run, s # r, Active(s) PROVE FALSE
  OBVIOUS
<1>1. r \in Proc /\ s \in Proc /\ Busy(r) /\ At(r)
  BY Sorts DEF Busy, Ended, Tame
<1>2. pc[s] # "claim"
  BY <1>1 DEF Tame, Alone, Busy, Ended
<1>3. home # None /\ home.pid = s
  BY <1>2 DEF Tame, Recorded
<1>4. CASE pc[r] = "claim"
  BY <1>1, <1>3, <1>4, Sorts DEF At, Running, Active
<1>5. CASE pc[r] = "running"
  BY <1>3, <1>5 DEF Tame, Recorded, Active
<1>6. QED
  BY <1>4, <1>5

LEMMA ClaimTame ==
  ASSUME Types, Types', Tame, NEW r \in Run, RunClaim(r)
  PROVE  Tame'
<1>1. r \in Proc /\ pc[r] = "claim" /\ Busy(r) /\ At(r)
  BY Sorts DEF RunClaim, Busy, Ended, Tame
<1>2. home # None /\ ~Running
  BY <1>1 DEF At
<1>3. home' = [home EXCEPT !.pid = r] /\ pc'[r] = "running" /\ \A q \in Proc : q # r => pc'[q] = pc[q]
  BY <1>1, <1>2, Going DEF RunClaim, Labels
<1>4. /\ home' # None /\ home'.pid = r /\ home'.meta = home.meta
      /\ home'.base = home.base /\ home'.upper = home.upper
  BY <1>2, <1>3, SetPid DEF Types, HomeTypes
<1>5. \A s \in Run : s # r => ~Active(s)
  BY <1>1, OneChild
<1>6. kid' = kid
  BY DEF RunClaim
<1>7. Recorded'
  BY <1>3, <1>4, <1>5, <1>6 DEF Recorded, Active
<1>8. Claimed'
  BY <1>3, <1>4 DEF Claimed
<1>9. Homed' /\ Covered' /\ Kept'
  BY <1>2, <1>4, KeptFrame DEF Tame, RunClaim, Homed, Covered, Mounted
<1>10. Alone' /\ \A q \in Proc : q # r => At(q)'
  BY <1>1, <1>3, Solo DEF Tame
<1>11. At(r)'
  BY <1>3, <1>4, Sorts DEF At
<1>12. QED
  BY <1>7, <1>8, <1>9, <1>10, <1>11 DEF Tame

LEMMA WaitTame ==
  ASSUME Types, Types', Tame, NEW r \in Run, RunWait(r)
  PROVE  Tame'
<1>1. r \in Proc /\ pc[r] = "running" /\ kid[r] = "zombie" /\ Busy(r) /\ At(r)
  BY Sorts DEF RunWait, Busy, Ended, Tame
<1>2. pc'[r] \in {"clear", "down"} /\ \A q \in Proc : q # r => pc'[q] = pc[q]
  BY <1>1, Going DEF RunWait, Labels
<1>3. kid'[r] = "gone" /\ \A s \in Run : s # r => kid'[s] = kid[s]
  BY DEF RunWait, Types, KidTypes
<1>4. NoneActive'
  BY <1>1, <1>3, OneChild DEF NoneActive, Active
<1>5. Recorded' /\ Covered'
  BY <1>4 DEF NoneActive, Recorded, Covered, Active
<1>6. ~Running'
  BY <1>4, NoneRunningNext
<1>7. Claimed'
  BY <1>1, <1>2, ClaimedFrame DEF Tame, RunWait
<1>8. Homed' /\ Kept'
  BY KeptFrame DEF RunWait, Tame, Homed
<1>9. Alone' /\ \A q \in Proc : q # r => At(q)'
  BY <1>1, <1>2, Solo DEF Tame
<1>10. At(r)'
  BY <1>1, <1>2, <1>6, Sorts DEF At, RunWait
<1>11. QED
  BY <1>5, <1>7, <1>8, <1>9, <1>10 DEF Tame

LEMMA RunTame ==
  ASSUME Types, Types', Tame, NEW r \in Run, RunStep(r)
  PROVE  Tame'
<1>1. r \in Proc /\ r \notin Apply /\ r \notin Drop /\ At(r)
  BY Sorts DEF Tame
<1>2. {"mount", "spawn", "end", "down", "guard", "clear", "ok"} \subseteq Labels
  BY DEF Labels
<1>3. CASE RunMkdirs(r)
  <2>1. pc[r] = "mkdirs" /\ Busy(r)
    BY <1>3 DEF RunMkdirs, Busy, Ended
  <2>2. /\ pc'[r] = IF Private THEN "spawn" ELSE "mount"
        /\ \A q \in Proc : q # r => pc'[q] = pc[q]
    BY <1>1, <1>2, <1>3, Going DEF RunMkdirs
  <2>3. home # None /\ MakeUpper
    BY <1>1, <1>3, <2>1 DEF At, RunMkdirs
  <2>4. home' # None /\ home'.pid = home.pid /\ home'.meta = home.meta
    BY <2>3, MakingUpper, Sorts
  <2>5. Homed' /\ Kept'
    BY <1>3, <2>3, <2>4, MakeUpperKept DEF RunMkdirs, Tame, Homed
  <2>6. QED
    BY <1>1, <1>3, <2>1, <2>2, <2>3, <2>4, <2>5, CalmStep DEF RunMkdirs
<1>4. CASE RunMount(r)
  <2>1. pc[r] = "mount" /\ Busy(r)
    BY <1>4 DEF RunMount, Busy, Ended
  <2>2. \A q \in Proc : q # r => pc'[q] = pc[q]
    BY <1>1, <1>2, <1>4, Going DEF RunMount
  <2>3. pc'[r] = "end" \/ (pc'[r] = "spawn" /\ Mounted')
    <3>1. CASE home # None /\ home.upper # None
      <4>1. mounts' = Append(mounts, [kind |-> "mine", up |-> home.upper])
        BY <1>4, <3>1 DEF RunMount
      <4>2. Mounted'
        <5>1. "mine" \in MountKinds /\ home.upper \in Nat \cup {None}
          BY <3>1 DEF Types, HomeTypes, Homes, MountKinds
        <5>2. QED
          BY <4>1, <5>1, Mounting
      <4>3. QED
        BY <1>1, <1>2, <1>4, <3>1, <4>2, Going DEF RunMount
    <3>2. CASE ~(home # None /\ home.upper # None)
      BY <1>1, <1>2, <1>4, <3>2, Going DEF RunMount
    <3>3. QED
      BY <3>1, <3>2
  <2>4. QED
    BY <1>1, <1>4, <2>1, <2>2, <2>3, QuietStep DEF RunMount
<1>5. CASE RunSpawn(r)
  BY <1>5, SpawnTame
<1>6. CASE RunSpawnFails(r)
  <2>1. pc[r] = "spawn" /\ Busy(r)
    BY <1>6 DEF RunSpawnFails, Busy, Ended
  <2>2. pc'[r] \in {"end", "down", "guard"} /\ \A q \in Proc : q # r => pc'[q] = pc[q]
    BY <1>1, <1>2, <1>6, Going DEF RunSpawnFails
  <2>3. QED
    BY <1>1, <1>6, <2>1, <2>2, QuietStep DEF RunSpawnFails, data
<1>7. CASE RunClaim(r)
  BY <1>7, ClaimTame
<1>8. CASE RunLost(r)
  BY <1>1, <1>8 DEF RunLost, At, Busy, Ended
<1>9. CASE RunGuard(r) \/ RunDown(r)
  <2>1. pc[r] \in {"guard", "down"} /\ Busy(r)
    BY <1>9 DEF RunGuard, RunDown, Busy, Ended
  <2>2. /\ pc[r] = "guard" => pc'[r] = "end"
        /\ pc[r] = "down" => pc'[r] = "clear"
        /\ \A q \in Proc : q # r => pc'[q] = pc[q]
    BY <1>1, <1>2, <1>9, Unmounting DEF RunGuard, RunDown
  <2>3. QED
    BY <1>1, <1>9, <2>1, <2>2, QuietStep DEF RunGuard, RunDown
<1>10. CASE RunWait(r)
  BY <1>10, WaitTame
<1>11. CASE RunClear(r)
  <2>1. pc[r] = "clear" /\ Busy(r) /\ home # None
    BY <1>1, <1>11 DEF RunClear, Busy, Ended, At
  <2>2. pc'[r] = "ok" /\ \A q \in Proc : q # r => pc'[q] = pc[q]
    BY <1>1, <1>2, <1>11, Going DEF RunClear
  <2>3. home' = home \/ home' = [home EXCEPT !.pid = None]
    BY <1>11 DEF RunClear
  <2>4. \/ home' = home
        \/ /\ home' # None /\ home'.meta = home.meta /\ home'.pid = None
           /\ home'.base = home.base /\ home'.upper = home.upper
    <3>1. home \in Homes /\ None \in Run \cup {None}
      BY <2>1 DEF Types, HomeTypes
    <3>2. CASE home' = [home EXCEPT !.pid = None]
      BY <3>1, <3>2, SetPid
    <3>3. QED
      BY <2>3, <3>2
  <2>5. Homed' /\ Kept'
    BY <1>11, <2>1, <2>4, KeptFrame DEF RunClear, Tame, Homed
  <2>6. ~Busy(r)'
    BY <2>2 DEF Busy, Ended
  <2>7. QED
    BY <1>1, <1>11, <2>1, <2>2, <2>4, <2>5, <2>6, CalmStep DEF RunClear
<1>12. QED
  BY <1>3, <1>4, <1>5, <1>6, <1>7, <1>8, <1>9, <1>10, <1>11 DEF RunStep

-----------------------------------------------------------------------------
(* cowt apply                                                              *)

LEMMA UpperInLayer == Types => Upper = {} \/ \E i \in DOMAIN layer : Upper = layer[i]
  BY DEF Types, HomeTypes, Upper

LEMMA ScanTame ==
  ASSUME Types, Types', Tame, NEW a \in Apply, ApplyScan(a) \/ ApplyFold(a) \/ ApplyGate(a)
  PROVE  Tame'
<1>1. /\ a \in Proc /\ a \notin Drop /\ At(a) /\ local[a] \in Memory
      /\ local \in [Apply \cup Drop -> Memory]
  BY Sorts DEF Tame, Types
<1>2. {"end", "fold", "gate", "commit", "rescan", "meta"} \subseteq Labels
  BY DEF Labels
<1>3. pc[a] \in {"scan", "fold", "gate", "post", "last"} /\ Busy(a)
  BY DEF ApplyScan, ApplyFold, ApplyGate, Busy, Ended
<1>4. home # None /\ Applying(a)
  BY <1>1, <1>3 DEF At
<1>5. /\ \A q \in Proc : q # a => pc'[q] = pc[q]
      /\ UNCHANGED <<host, home, layer, mounts, kid, written, stray, dropped>>
  BY <1>1, <1>2, Going DEF ApplyScan, ApplyFold, ApplyGate, data
<1>6. Upper' = Upper /\ Mounted' = Mounted
  BY <1>5 DEF Upper, Mounted
<1>7. pc'[a] # "lost" /\ pc'[a] # "spawn" /\ Applying(a)'
  <2>1. CASE ApplyScan(a)
    <3>1. CASE home.base = None
      <4>1. pc'[a] = "end"
        BY <1>1, <1>2, <2>1, <3>1, Going DEF ApplyScan
      <4>2. QED
        BY <4>1 DEF Applying
    <3>2. CASE home.base # None
      <4>1. pc'[a] = "fold" /\ local'[a] = [local[a] EXCEPT !.base = home.base, !.seen = Shown]
        BY <1>1, <1>2, <1>4, <2>1, <3>2, Going DEF ApplyScan
      <4>2. local'[a].base = home.base /\ local'[a].seen = Shown
        BY <1>1, <4>1 DEF Memory
      <4>3. home.base \subseteq host /\ (~Mounted => Shown = host)
        BY <1>4, <3>2 DEF Tame, Kept, Shown
      <4>4. QED
        BY <1>5, <1>6, <4>1, <4>2, <4>3 DEF Applying
    <3>3. QED
      BY <3>1, <3>2
  <2>2. CASE ApplyFold(a)
    <3> DEFINE ops == (Upper \ local[a].base) \ local[a].seen
    <3>1. pc[a] = "fold" /\ pc'[a] = "gate" /\ local' = [local EXCEPT ![a].ops = ops]
      BY <1>1, <1>2, <2>2, Going DEF ApplyFold, Upper
    <3> HIDE DEF ops
    <3>2. local'[a].ops = ops /\ local'[a].base = local[a].base /\ local'[a].seen = local[a].seen
      BY <1>1, <3>1 DEF Memory
    <3>3. local[a].base \subseteq host /\ (Mounted \/ local[a].seen \subseteq host)
      BY <1>4, <3>1 DEF Applying
    <3>4. ops \subseteq Upper /\ (Mounted \/ Upper \subseteq host \cup ops)
      BY <3>3 DEF ops
    <3>5. QED
      BY <1>5, <1>6, <3>1, <3>2, <3>3, <3>4 DEF Applying
  <2>3. CASE ApplyGate(a)
    <3>1. local' = local
      BY <2>3 DEF ApplyGate
    <3>2. CASE pc'[a] = "end"
      BY <3>2 DEF Applying
    <3>3. CASE pc'[a] # "end"
      <4>1. PICK l \in {<<"gate", "commit">>, <<"post", "rescan">>, <<"last", "meta">>} :
              /\ pc[a] = l[1]
              /\ Goto(a, IF Running \/ Mounted THEN "end" ELSE l[2])
        BY <2>3 DEF ApplyGate
      <4>2. l[2] \in Labels
        BY <1>2
      <4>3. ~Mounted /\ pc'[a] = l[2]
        BY <1>1, <1>2, <3>3, <4>1, <4>2, Going
      <4>4. \/ pc[a] = "gate" /\ pc'[a] = "commit"
            \/ pc[a] = "post" /\ pc'[a] = "rescan"
            \/ pc[a] = "last" /\ pc'[a] = "meta"
        BY <4>1, <4>3
      <4>5. QED
        BY <1>4, <1>5, <1>6, <3>1, <4>3, <4>4 DEF Applying
    <3>4. pc'[a] # "lost" /\ pc'[a] # "spawn"
      BY <1>1, <1>2, <2>3, Going DEF ApplyGate
    <3>5. QED
      BY <3>2, <3>3, <3>4
  <2>4. QED
    BY <2>1, <2>2, <2>3
<1>8. QED
  BY <1>1, <1>3, <1>5, <1>7, QuietStep

LEMMA CommitTame ==
  ASSUME Types, Types', Tame, NEW a \in Apply, ApplyCommit(a)
  PROVE  Tame'
<1>1. /\ a \in Proc /\ a \notin Drop /\ At(a) /\ local[a] \in Memory
      /\ local \in [Apply \cup Drop -> Memory]
  BY Sorts DEF Tame, Types
<1>2. pc[a] = "commit" /\ Busy(a)
  BY DEF ApplyCommit, Busy, Ended
<1>3. home # None /\ Upper \subseteq host \cup local[a].ops /\ local[a].ops \subseteq Upper
  BY <1>1, <1>2 DEF At, Applying
<1>4. UNCHANGED <<home, layer, kid, written, stray, dropped>>
  BY DEF ApplyCommit
<1>5. Upper' = Upper
  BY <1>4 DEF Upper
<1>6. CASE UNCHANGED <<host, local>>
  <2>1. CASE local[a].ops = {} /\ Goto(a, "post")
    <3>1. pc'[a] = "post" /\ \A q \in Proc : q # a => pc'[q] = pc[q]
      BY <1>1, <2>1, Going DEF Labels
    <3>2. Applying(a)'
      BY <1>3, <1>5, <1>6, <2>1, <3>1 DEF Applying
    <3>3. QED
      BY <1>1, <1>2, <1>4, <1>6, <3>1, <3>2, QuietStep
  <2>2. CASE Goto(a, "end")
    <3>1. pc'[a] = "end" /\ \A q \in Proc : q # a => pc'[q] = pc[q]
      BY <1>1, <2>2, Going DEF Labels
    <3>2. Applying(a)'
      BY <3>1 DEF Applying
    <3>3. QED
      BY <1>1, <1>2, <1>4, <1>6, <3>1, <3>2, QuietStep
  <2>3. CASE \E f \in local[a].ops : local' = [local EXCEPT ![a].ops = @ \ {f}]
    <3>1. PICK f \in local[a].ops : local' = [local EXCEPT ![a].ops = @ \ {f}]
      BY <2>3
    <3>2. local'[a].ops = local[a].ops \ {f}
      BY <1>1, <3>1 DEF Memory
    <3>3. QED
      BY <1>6, <3>1, <3>2
  <2>4. QED
    BY <2>1, <2>2, <2>3 DEF ApplyCommit
<1>7. ASSUME NEW f \in local[a].ops, host' = host \cup {f}, pc' = pc,
             local' = [local EXCEPT ![a].ops = @ \ {f}]
      PROVE  Tame'
  <2>1. local'[a].ops = local[a].ops \ {f}
    BY <1>1, <1>7 DEF Memory
  <2>2. f \in written
    <3>1. \E i \in DOMAIN layer : f \in layer[i]
      BY <1>3, UpperInLayer
    <3>2. QED
      BY <3>1 DEF Tame, Kept
  <2>3. Kept'
    <3>1. host' \subseteq written /\ host \subseteq host'
      BY <1>7, <2>2 DEF Tame, Kept
    <3>2. NothingLost'
      BY <1>4, <3>1 DEF Tame, Kept, NothingLost
    <3>3. QED
      BY <1>4, <3>1, <3>2 DEF Tame, Kept
  <2>4. Applying(a)'
    BY <1>2, <1>3, <1>5, <1>7, <2>1 DEF Applying
  <2>5. Homed'
    BY <1>4 DEF Tame, Homed
  <2>6. QED
    BY <1>1, <1>2, <1>3, <1>4, <1>7, <2>3, <2>4, <2>5, CalmStep
<1>8. QED
  BY <1>6, <1>7 DEF ApplyCommit

LEMMA BaselineTame ==
  ASSUME Types, Types', Tame, NEW a \in Apply, ApplyRescan(a) \/ ApplyMeta(a) \/ ApplyManifest(a)
  PROVE  Tame'
<1>1. /\ a \in Proc /\ a \notin Drop /\ At(a) /\ local[a] \in Memory
      /\ local \in [Apply \cup Drop -> Memory]
  BY Sorts DEF Tame, Types
<1>2. pc[a] \in {"rescan", "meta", "manifest"} /\ Busy(a)
  BY DEF ApplyRescan, ApplyMeta, ApplyManifest, Busy, Ended
<1>3. home # None /\ Upper \subseteq host /\ (pc[a] \in {"meta", "manifest"} => local[a].base = host)
  BY <1>1, <1>2 DEF At, Applying
<1>4. UNCHANGED <<host, layer, mounts, kid, written, stray, dropped>>
  BY DEF ApplyRescan, ApplyMeta, ApplyManifest, data
<1>5. CASE ApplyRescan(a)
  <2>1. pc[a] = "rescan" /\ pc'[a] = "last" /\ \A q \in Proc : q # a => pc'[q] = pc[q]
    BY <1>1, <1>5, Going DEF ApplyRescan, Labels
  <2>2. home' = home /\ local'[a].base = Shown
    BY <1>1, <1>5 DEF ApplyRescan, data, Memory
  <2>3. Upper' = Upper /\ Mounted' = Mounted
    BY <1>4, <2>2 DEF Upper, Mounted
  <2>4. Applying(a)'
    BY <1>3, <1>4, <2>1, <2>2, <2>3 DEF Applying, Shown
  <2>5. QED
    BY <1>1, <1>2, <1>4, <2>1, <2>2, <2>4, QuietStep
<1>6. CASE ApplyMeta(a)
  <2>1. pc[a] = "meta" /\ pc'[a] \in {"manifest", "end"} /\ \A q \in Proc : q # a => pc'[q] = pc[q]
    BY <1>1, <1>6, Going DEF ApplyMeta, Labels
  <2>2. home' = home /\ local' = local
    BY <1>6 DEF ApplyMeta, data
  <2>3. Upper' = Upper
    BY <1>4, <2>2 DEF Upper
  <2>4. Applying(a)'
    BY <1>3, <1>4, <2>1, <2>2, <2>3 DEF Applying
  <2>5. QED
    BY <1>1, <1>2, <1>4, <2>1, <2>2, <2>4, QuietStep
<1>7. CASE ApplyManifest(a)
  <2>1. pc[a] = "manifest" /\ pc'[a] = "reset" /\ \A q \in Proc : q # a => pc'[q] = pc[q]
    BY <1>1, <1>3, <1>7, Going DEF ApplyManifest, Labels
  <2>2. home' = [home EXCEPT !.base = local[a].base] /\ home \in Homes /\ local[a].base \in SUBSET Run
    BY <1>1, <1>3, <1>7 DEF ApplyManifest, Types, HomeTypes, Memory
  <2>3. /\ home' # None /\ home'.base = host /\ home'.meta = home.meta
        /\ home'.upper = home.upper /\ home'.pid = home.pid
    BY <1>3, <2>1, <2>2, SetBase
  <2>4. Upper' = Upper
    BY <1>3, <1>4, <2>3 DEF Upper
  <2>5. Kept'
    <3>1. NothingLost'
      BY <1>3, <1>4, <2>3 DEF Tame, Kept, NothingLost
    <3>2. QED
      BY <1>4, <2>3, <3>1 DEF Tame, Kept
  <2>6. Applying(a)'
    BY <1>3, <1>4, <2>1, <2>3, <2>4 DEF Applying
  <2>7. Homed'
    BY <1>3, <1>4, <2>3 DEF Tame, Homed
  <2>8. QED
    BY <1>1, <1>2, <1>3, <1>4, <2>1, <2>3, <2>5, <2>6, <2>7, CalmStep
<1>8. QED
  BY <1>5, <1>6, <1>7

\* The layer is on the host when it is thrown away.
LEMMA ResetTame ==
  ASSUME Types, Types', Tame, NEW a \in Apply, ApplyReset(a)
  PROVE  Tame'
<1>1. a \in Proc /\ a \notin Drop /\ At(a)
  BY Sorts DEF Tame
<1>2. pc[a] = "reset" /\ Busy(a)
  BY DEF ApplyReset, Busy, Ended
<1>3. home # None /\ Upper \subseteq host /\ home.base = host
  BY <1>1, <1>2 DEF At, Applying
<1>4. UNCHANGED <<host, mounts, kid, written, stray, dropped>>
  BY DEF ApplyReset
<1>5. pc'[a] = "mkupper" /\ \A q \in Proc : q # a => pc'[q] = pc[q]
  BY <1>1, Going DEF ApplyReset, Labels
<1>6. /\ home' # None /\ home'.base = home.base /\ home'.pid = home.pid /\ home'.upper = None
      /\ home'.meta = home.meta
      /\ DOMAIN layer' = DOMAIN layer
      /\ \A i \in DOMAIN layer : layer'[i] \subseteq layer[i]
  <2>1. CASE home.upper = None
    BY <1>3, <2>1 DEF ApplyReset
  <2>2. CASE home.upper # None
    <3>1. home' = [home EXCEPT !.upper = None] /\ layer' = [layer EXCEPT ![home.upper] = {}]
      BY <1>3, <2>2 DEF ApplyReset
    <3>2. home \in Homes /\ None \in Nat \cup {None} /\ layer \in Seq(SUBSET Run)
      BY <1>3 DEF Types, HomeTypes, FileTypes
    <3>3. DOMAIN layer' = DOMAIN layer /\ \A i \in DOMAIN layer : layer'[i] \subseteq layer[i]
      BY <3>1, <3>2
    <3>4. QED
      BY <3>1, <3>2, <3>3, SetUpper
  <2>3. QED
    BY <2>1, <2>2
<1>7. Kept'
  <2>1. NothingLost'
    BY <1>3, <1>4 DEF Tame, Kept, NothingLost, Upper
  <2>2. \A i \in DOMAIN layer' : layer'[i] \subseteq written
    BY <1>6 DEF Tame, Kept
  <2>3. QED
    BY <1>3, <1>4, <1>6, <2>1, <2>2 DEF Tame, Kept
<1>8. Applying(a)'
  BY <1>3, <1>4, <1>5, <1>6 DEF Applying
<1>9. Homed'
  BY <1>3, <1>4, <1>6 DEF Tame, Homed
<1>10. QED
  BY <1>1, <1>2, <1>3, <1>4, <1>5, <1>6, <1>7, <1>8, <1>9, CalmStep

LEMMA AgainTame ==
  ASSUME Types, Types', Tame, NEW a \in Apply, ApplyMkupper(a) \/ ApplyStatus(a)
  PROVE  Tame'
<1>1. a \in Proc /\ a \notin Drop /\ At(a)
  BY Sorts DEF Tame
<1>2. pc[a] \in {"mkupper", "status"} /\ Busy(a)
  BY DEF ApplyMkupper, ApplyStatus, Busy, Ended
<1>3. home # None /\ home.base = host
  BY <1>1, <1>2 DEF At, Applying
<1>4. UNCHANGED <<host, mounts, kid, written, stray, dropped>>
  BY DEF ApplyMkupper, ApplyStatus
<1>5. CASE ApplyMkupper(a)
  <2>1. pc'[a] = "status" /\ \A q \in Proc : q # a => pc'[q] = pc[q]
    BY <1>1, <1>5, Going DEF ApplyMkupper, Labels
  <2>2. home.upper = None /\ MakeUpper
    BY <1>1, <1>2, <1>5 DEF At, Applying, ApplyMkupper
  <2>3. /\ home' # None /\ home'.base = home.base /\ home'.pid = home.pid
        /\ home'.meta = home.meta /\ home'.upper # None /\ layer'[home'.upper] = {}
    <3>1. home' # home
      BY <2>2, MakingUpper
    <3>2. home'.upper \in DOMAIN layer' /\ home'.upper \notin DOMAIN layer
      BY <2>2, <3>1, MakingUpper
    <3>3. QED
      BY <1>3, <2>2, <3>2, MakingUpper, Sorts
  <2>4. Kept'
    BY <1>3, <1>4, <2>2, MakeUpperKept DEF Tame
  <2>5. Applying(a)'
    BY <1>3, <1>4, <2>1, <2>3 DEF Applying
  <2>6. Homed'
    BY <1>3, <1>4, <2>3 DEF Tame, Homed
  <2>7. QED
    BY <1>1, <1>2, <1>3, <1>4, <2>1, <2>3, <2>4, <2>5, <2>6, CalmStep
<1>6. CASE ApplyStatus(a)
  <2>1. pc'[a] = "ok" /\ \A q \in Proc : q # a => pc'[q] = pc[q]
    BY <1>1, <1>3, <1>6, Going DEF ApplyStatus, Labels
  <2>2. home' = [home EXCEPT !.meta = TRUE] /\ home \in Homes /\ layer' = layer
    BY <1>3, <1>6 DEF ApplyStatus, Types, HomeTypes
  <2>3. /\ home' # None /\ home'.base = home.base /\ home'.pid = home.pid
        /\ home'.meta /\ home'.upper = home.upper
    BY <2>2, SetMeta
  <2>4. Homed' /\ Kept'
    BY <1>3, <1>4, <2>2, <2>3, KeptFrame DEF Tame, Homed
  <2>5. ~Busy(a)'
    BY <2>1 DEF Busy, Ended
  <2>6. QED
    BY <1>1, <1>2, <1>3, <1>4, <2>1, <2>3, <2>4, <2>5, CalmStep
<1>7. QED
  BY <1>5, <1>6

LEMMA ApplyTame ==
  ASSUME Types, Types', Tame, NEW a \in Apply, ApplyStep(a)
  PROVE  Tame'
  BY ScanTame, CommitTame, BaselineTame, ResetTame, AgainTame DEF ApplyStep

-----------------------------------------------------------------------------
(* cowt drop --force                                                       *)

LEMMA DropStartTame ==
  ASSUME Careful, Types, Types', Tame, NEW d \in Drop, DropStart(d)
  PROVE  Tame'
<1>1. /\ d \in Proc /\ d \notin Run /\ d \notin Apply /\ pc[d] = "idle"
      /\ UNCHANGED data /\ \A q \in Proc : ~Busy(q)
  BY Sorts DEF DropStart, Busy, Careful
<1>2. CASE home = None
  <2>1. pc'[d] = "end" /\ \A q \in Proc : q # d => pc'[q] = pc[q]
    BY <1>1, <1>2, Going DEF DropStart, Labels
  <2>2. QED
    BY <1>1, <2>1, TurnedAway
<1>3. CASE home # None
  <2>1. pc'[d] = "first" /\ \A q \in Proc : q # d => pc'[q] = pc[q]
    BY <1>1, <1>3, Going DEF DropStart, Labels
  <2>2. Alone' /\ \A q \in Proc : q # d => At(q)'
    BY <1>1, <2>1, Solo DEF Tame
  <2>3. At(d)'
    <3>1. local'[d].known
      BY <1>1, <1>3 DEF DropStart, Types, Memory, Tame, Homed
    <3>2. QED
      BY <1>1, <1>3, <2>1, <3>1 DEF At, Dropping, data
  <2>4. Recorded'
    BY <1>1, <2>1, Sorts DEF Tame, Recorded, Active, data
  <2>5. Claimed'
    BY <1>1, <2>1, ClaimedFrame DEF Tame, data
  <2>6. Homed' /\ Covered' /\ Kept'
    BY <1>1, KeptFrame DEF Tame, Homed, Covered, Mounted, data
  <2>7. QED
    BY <2>2, <2>3, <2>4, <2>5, <2>6 DEF Tame
<1>4. QED
  BY <1>2, <1>3

\* drop kills a child nobody waits for.
LEMMA TerminateTame ==
  ASSUME Types, Types', Tame, NEW d \in Drop, DropTerminate(d)
  PROVE  Tame'
<1>1. d \in Proc /\ d \notin Run /\ d \notin Apply /\ Busy(d) /\ At(d)
  BY Sorts DEF DropTerminate, Busy, Ended, Tame
<1>2. pc[d] = "first"
  BY <1>1 DEF DropTerminate, At
<1>3. /\ UNCHANGED <<host, home, layer, mounts, pc, written, stray, dropped, local, view>>
      /\ home # None /\ home.pid \in Run
  BY DEF DropTerminate, Running, Types, HomeTypes, Homes
<1>4. pc[home.pid] \notin {"claim", "running", "lost"}
  BY <1>1, <1>3, Sorts DEF Tame, Alone, Busy, Ended
<1>5. kid'[home.pid] = "gone" /\ \A s \in Run : s # home.pid => kid'[s] = kid[s]
  BY <1>3, <1>4 DEF DropTerminate, Types, KidTypes
<1>6. Alone' /\ \A q \in Proc : q # d => At(q)'
  BY <1>1, <1>3, Solo DEF Tame
<1>7. At(d)'
  BY <1>1, <1>2, <1>3 DEF At, Dropping
<1>8. Recorded' /\ Covered'
  BY <1>3, <1>5 DEF Tame, Recorded, Covered, Active, Mounted
<1>9. Claimed' /\ Homed' /\ Kept'
  BY <1>3, KeptFrame DEF Tame, Claimed, Homed
<1>10. QED
  BY <1>6, <1>7, <1>8, <1>9 DEF Tame

LEMMA DropTame ==
  ASSUME Types, Types', Tame, NEW d \in Drop, DropStep(d)
  PROVE  Tame'
<1>1. /\ d \in Proc /\ d \notin Run /\ d \notin Apply /\ At(d)
      /\ local \in [Apply \cup Drop -> Memory]
  BY Sorts DEF Tame, Types
<1>2. {"end", "loop", "again", "take", "retake", "recheck", "rename", "ok"} \subseteq Labels
  BY DEF Labels
<1>3. CASE DropTerminate(d)
  BY <1>3, TerminateTame
<1>4. CASE DropFirst(d)
  <2>1. pc[d] = "first" /\ Busy(d)
    BY <1>4 DEF DropFirst, Busy, Ended
  <2>2. NoneActive
    <3> SUFFICES ASSUME NEW r \in Run, Active(r) PROVE FALSE
      BY DEF NoneActive
    <3>1. r \in Proc /\ ~Busy(r)
      BY <1>1, <2>1, Sorts DEF Tame, Alone
    <3>2. kid[r] # "zombie" /\ home # None /\ home.pid = r
      BY <3>1 DEF Tame, Recorded, Busy, Ended
    <3>3. QED
      BY <1>4, <3>2, Sorts DEF DropFirst, NobodyToKill, Running, Active
  <2>3. pc'[d] \in {"loop", "again"} /\ \A q \in Proc : q # d => pc'[q] = pc[q]
    BY <1>1, <1>2, <1>4, Going DEF DropFirst
  <2>4. Dropping(d)'
    BY <1>1, <1>4, <2>1, <2>3 DEF At, Dropping, DropFirst
  <2>5. QED
    BY <1>1, <1>4, <2>1, <2>2, <2>3, <2>4, QuietStep DEF DropFirst, data
<1>5. CASE DropLoop(d)
  <2>1. pc[d] = "loop" /\ Busy(d)
    BY <1>5 DEF DropLoop, Busy, Ended
  <2>2. pc'[d] \in {"loop", "take"} /\ \A q \in Proc : q # d => pc'[q] = pc[q]
    BY <1>1, <1>2, <1>5, <2>1, Going DEF DropLoop
  <2>3. Dropping(d)'
    <3>1. local'[d].known = local[d].known
      BY <1>1, <1>5 DEF DropLoop, Memory
    <3>2. QED
      BY <1>1, <2>1, <2>2, <3>1 DEF At, Dropping
  <2>4. QED
    BY <1>1, <1>5, <2>1, <2>2, <2>3, QuietStep DEF DropLoop, data
<1>6. CASE DropTake(d) \/ DropRetake(d)
  <2>1. pc[d] \in {"take", "retake"} /\ Busy(d)
    BY <1>6 DEF DropTake, DropRetake, Busy, Ended
  <2>2. pc'[d] \in {"loop", "recheck"} /\ \A q \in Proc : q # d => pc'[q] = pc[q]
    BY <1>1, <1>2, <1>6, Unmounting DEF DropTake, DropRetake
  <2>3. Dropping(d)'
    <3>1. local'[d].known = local[d].known
      BY <1>1, <1>6 DEF DropTake, DropRetake, Memory
    <3>2. QED
      BY <1>1, <2>1, <2>2, <3>1 DEF At, Dropping
  <2>4. QED
    BY <1>1, <1>6, <2>1, <2>2, <2>3, QuietStep DEF DropTake, DropRetake
<1>7. CASE DropVerdict(d) \/ DropRecheck(d)
  <2>1. pc[d] \in {"loop", "recheck"} /\ Busy(d)
    BY <1>7 DEF DropVerdict, DropRecheck, Busy, Ended
  <2>2. /\ pc'[d] \in {"end", "again", "rename"}
        /\ pc'[d] = "rename" => mounts' = <<>>
        /\ \A q \in Proc : q # d => pc'[q] = pc[q]
    BY <1>1, <1>2, <1>7, Going DEF DropVerdict, DropRecheck, Mounted, data
  <2>3. Dropping(d)'
    BY <1>1, <1>7, <2>1, <2>2 DEF At, Dropping, HasMount, DropVerdict, DropRecheck
  <2>4. QED
    BY <1>1, <1>7, <2>1, <2>2, <2>3, QuietStep DEF DropVerdict, DropRecheck, data
<1>8. CASE DropAgain(d)
  <2>1. pc[d] = "again" /\ Busy(d)
    BY <1>8 DEF DropAgain, Busy, Ended
  <2>2. /\ pc'[d] \in {"end", "retake", "rename"}
        /\ pc'[d] = "rename" => mounts' = <<>>
        /\ \A q \in Proc : q # d => pc'[q] = pc[q]
    BY <1>1, <1>2, <1>8, <2>1, Going DEF DropAgain, At, Dropping, Mounted, data
  <2>3. Dropping(d)'
    BY <1>1, <1>8, <2>1, <2>2 DEF At, Dropping, HasMount, DropAgain
  <2>4. QED
    BY <1>1, <1>8, <2>1, <2>2, <2>3, QuietStep DEF DropAgain, data
<1>9. CASE DropRename(d)
  <2>1. pc[d] = "rename" /\ Busy(d) /\ home # None
    BY <1>1, <1>9 DEF DropRename, Busy, Ended, At
  <2>2. pc'[d] = "ok" /\ home' = None /\ dropped' = TRUE /\ \A q \in Proc : q # d => pc'[q] = pc[q]
    BY <1>1, <1>2, <1>9, <2>1, Going DEF DropRename
  <2>3. Homed' /\ Kept' /\ ~Busy(d)'
    BY <1>9, <2>2 DEF DropRename, Tame, Homed, Kept, NothingLost, Busy, Ended
  <2>4. QED
    BY <1>1, <1>9, <2>1, <2>2, <2>3, CalmStep DEF DropRename
<1>10. QED
  BY <1>3, <1>4, <1>5, <1>6, <1>7, <1>8, <1>9 DEF DropStep

-----------------------------------------------------------------------------
(* Children, crashes and strangers                                         *)

\* A child's end or start changes neither the files nor who runs.
LEMMA ChildTame ==
  ASSUME Types, Types', Tame, NEW r \in Run, WrapperMounts(r) \/ Exit(r)
  PROVE  Tame'
<1>1. UNCHANGED <<host, home, layer, mounts, pc, local, written, stray, dropped>> /\ r \in Proc
  BY Sorts DEF WrapperMounts, Exit
<1>2. /\ kid[r] \in {"wait", "live"}
      /\ kid'[r] \in {"live", "zombie", "gone"}
      /\ \A s \in Run : s # r => kid'[s] = kid[s] /\ view'[s] = view[s]
      /\ kid'[r] = "live" => view'[r] # None
      /\ kid'[r] = "zombie" => pc[r] \in {"claim", "running", "lost"}
  BY DEF WrapperMounts, Exit, Types, KidTypes
<1>3. pc[r] # "lost"
  BY <1>1 DEF Tame, At, Busy, Ended
<1>4. \A s \in Run : Active(s)' => Active(s)
  BY <1>2 DEF Active
<1>5. Recorded' /\ Covered'
  BY <1>1, <1>2, <1>3, <1>4 DEF Tame, Recorded, Covered, Active, Mounted
<1>6. Alone' /\ Claimed' /\ Homed' /\ Kept'
  BY <1>1, KeptFrame DEF Tame, Alone, Busy, Claimed, Homed
<1>7. Running' => Running
  <2>1. home # None /\ home.pid # None => home.pid \in Run
    BY DEF Types, HomeTypes, Homes
  <2>2. QED
    BY <1>1, <1>4, <2>1 DEF Running, Active
<1>8. ASSUME NEW p \in Proc PROVE At(p)'
  <2>1. At(p)
    BY DEF Tame
  <2>2. (Applying(p) => Applying(p)') /\ (Dropping(p) => Dropping(p)')
    BY <1>1 DEF Applying, Dropping, Upper, Mounted, HasMount
  <2>3. QED
    BY <1>1, <1>7, <2>1, <2>2 DEF At, Busy, Mounted
<1>9. QED
  BY <1>5, <1>6, <1>8 DEF Tame

\* A command writes: to the layer, when its mount or its view is there, and to a
\* stranger's mount otherwise; never to the host.
LEMMA WriteTame ==
  ASSUME Types, Types', Tame, NEW r \in Run, Write(r)
  PROVE  Tame'
<1> DEFINE w == WritesTo(r)
<1>1. /\ UNCHANGED <<home, mounts, pc, kid, view, local, dropped>>
      /\ kid[r] = "live" /\ written' = written \cup {r} /\ r \in Proc /\ r \notin written
  BY Sorts DEF Write
<1>2. home # None /\ ~dropped
  BY <1>1 DEF Tame, Recorded, Active, At, Homed, Busy, Ended
<1>3. ~Mounted => w # None
  BY <1>1 DEF Tame, Covered, WritesTo
<1>4. /\ w # None => w = home.upper /\ layer' = [layer EXCEPT ![w] = @ \cup {r}] /\ stray' = stray
      /\ w = None => layer' = layer /\ stray' = stray \cup {r}
      /\ host' = host
  BY <1>2, <1>3 DEF Write
<1>5. w \in DOMAIN layer \cup {None} /\ layer \in Seq(SUBSET Run)
  BY WritesToLayer DEF Types, FileTypes
<1> HIDE DEF w
<1>6. /\ DOMAIN layer' = DOMAIN layer
      /\ \A i \in DOMAIN layer : layer[i] \subseteq layer'[i] /\ layer'[i] \subseteq layer[i] \cup {r}
      /\ w # None => r \in layer'[w]
  BY <1>4, <1>5
<1>7. Kept'
  <2>1. \A i \in DOMAIN layer' : layer'[i] \subseteq written'
    BY <1>1, <1>6 DEF Tame, Kept
  <2>2. home # None /\ home.upper # None => home.upper \in DOMAIN layer
    BY DEF Types, HomeTypes
  <2>3. ASSUME NEW s \in written' \ stray'
        PROVE  dropped' \/ s \in host' \/ (home' # None /\ home'.upper # None /\ s \in layer'[home'.upper])
    <3>1. CASE s = r
      BY <1>1, <1>2, <1>4, <1>6, <2>3, <3>1
    <3>2. CASE s # r
      <4>1. s \in written \ stray
        BY <1>1, <1>4, <2>3, <3>2
      <4>2. QED
        BY <1>1, <1>4, <1>6, <2>2, <4>1 DEF Tame, Kept, NothingLost
    <3>3. QED
      BY <3>1, <3>2
  <2>4. NothingLost'
    BY <2>3 DEF NothingLost
  <2>5. QED
    BY <1>1, <1>4, <2>1, <2>4 DEF Tame, Kept
<1>8. Alone' /\ Recorded' /\ Claimed' /\ Homed' /\ Covered'
  BY <1>1 DEF Tame, Alone, Busy, Recorded, Active, Claimed, Homed, Covered, Mounted
<1>9. ASSUME NEW p \in Proc PROVE At(p)'
  <2>1. At(p)
    BY DEF Tame
  <2>2. CASE Busy(p)
    <3>1. pc[p] \in {"first", "running", "claim"}
      BY <1>1, <2>1, <2>2, Calm DEF Tame, NoneActive, Active
    <3>2. Applying(p)' /\ (Dropping(p) => Dropping(p)')
      BY <1>1, <3>1 DEF Applying, Dropping
    <3>3. Running' = Running
      BY <1>1 DEF Running
    <3>4. QED
      BY <1>1, <1>2, <2>1, <2>2, <3>1, <3>2, <3>3 DEF At
  <2>3. CASE ~Busy(p)
    BY <1>1, <2>3 DEF At, Busy
  <2>4. QED
    BY <2>2, <2>3
<1>10. QED
  BY <1>7, <1>8, <1>9 DEF Tame

\* A killed command leaves everything as it is, for the next one.
LEMMA CrashTame ==
  ASSUME Careful, Types, Types', Tame, NEW p \in Proc, Crash(p)
  PROVE  Tame'
<1>1. /\ UNCHANGED <<host, home, layer, mounts, view, local, written, stray, dropped>>
      /\ pc[p] # "claim"
  BY DEF Crash, Careful
<1>2. pc'[p] = "dead" /\ \A q \in Proc : q # p => pc'[q] = pc[q]
  BY Going DEF Crash, Labels
<1>3. \A s \in Run : kid'[s] = kid[s] \/ (s = p /\ kid[s] = "zombie" /\ kid'[s] = "gone")
  BY DEF Crash, Types, KidTypes
<1>4. p \in Run => kid'[p] # "zombie"
  BY DEF Crash, Types, KidTypes
<1>5. Recorded'
  <2> SUFFICES ASSUME NEW s \in Run, Active(s)'
               PROVE  /\ pc'[s] = "claim" \/ (home' # None /\ home'.pid = s)
                      /\ kid'[s] = "zombie" => pc'[s] \in {"claim", "running"}
    BY DEF Recorded
  <2>1. kid'[s] = kid[s] /\ Active(s)
    BY <1>3 DEF Active
  <2>2. s \in Proc
    BY Sorts
  <2>3. QED
    BY <1>1, <1>2, <1>4, <2>1, <2>2 DEF Tame, Recorded
<1>6. Covered'
  BY <1>1, <1>3 DEF Tame, Covered, Mounted
<1>7. Claimed'
  BY <1>1, <1>2, ClaimedFrame DEF Tame
<1>8. Homed' /\ Kept'
  BY <1>1, KeptFrame DEF Tame, Homed
<1>9. \A q \in Proc : Busy(q)' => Busy(q) /\ q # p
  BY <1>2 DEF Busy, Ended
<1>10. Alone'
  BY <1>9 DEF Tame, Alone
<1>11. Running' => Running
  <2>1. home # None /\ home.pid # None => home.pid \in Run
    BY DEF Types, HomeTypes, Homes
  <2>2. QED
    BY <1>1, <1>3, <2>1 DEF Running
<1>12. ASSUME NEW q \in Proc PROVE At(q)'
  <2> SUFFICES ASSUME Busy(q)' PROVE At(q)'
    BY DEF At
  <2>1. Busy(q) /\ pc'[q] = pc[q] /\ At(q)
    BY <1>2, <1>9 DEF Tame
  <2>2. (Applying(q) => Applying(q)') /\ (Dropping(q) => Dropping(q)')
    BY <1>1, <2>1 DEF Applying, Dropping, Upper, Mounted, HasMount
  <2>3. QED
    BY <1>1, <1>11, <2>1, <2>2 DEF At, Mounted
<1>13. QED
  BY <1>5, <1>6, <1>7, <1>8, <1>10, <1>12 DEF Tame

LEMMA StrangerTame ==
  ASSUME Types, Types', Tame, NEW k \in Foreign, MountForeign(k)
  PROVE  Tame'
<1>1. UNCHANGED <<host, home, layer, pc, kid, view, local, written, stray, dropped>>
  BY DEF MountForeign
<1>2. /\ Mounted'
      /\ \A i \in DOMAIN mounts : i \in DOMAIN mounts' /\ mounts'[i] = mounts[i]
      /\ \A i \in DOMAIN mounts' : i \in DOMAIN mounts \/ mounts'[i].kind # "mine"
  BY Mounting, Absent, KindAssumption DEF MountForeign, MountKinds
<1>3. Alone' /\ Recorded' /\ Claimed' /\ Homed' /\ Covered' /\ Kept'
  BY <1>1, <1>2, KeptFrame DEF Tame, Alone, Busy, Recorded, Active, Claimed, Homed, Covered
<1>4. ASSUME NEW p \in Proc PROVE At(p)'
  <2>1. At(p) /\ Running' = Running
    BY <1>1 DEF Tame, Running
  <2>2. Applying(p) => Applying(p)'
    BY <1>1, <1>2 DEF Applying, Upper
  <2>3. Dropping(p) => Dropping(p)'
    BY <1>1, <1>2 DEF Dropping, HasMount
  <2>4. QED
    BY <1>1, <1>2, <2>1, <2>2, <2>3 DEF At, Busy
<1>5. QED
  BY <1>3, <1>4 DEF Tame

LEMMA NextTame == Careful /\ Inv /\ [Next]_vars => Inv'
<1> SUFFICES ASSUME Careful, Types, Tame, [Next]_vars PROVE Types' /\ Tame'
  BY DEF Inv
<1>1. Types'
  BY NextTypes
<1>2. CASE UNCHANGED vars
  BY <1>1, <1>2, StutterTame
<1>3. CASE Next
  <2>1. ASSUME NEW p \in Proc, Command(p) PROVE Tame'
    BY <1>1, <2>1, GateTame, RunTame, ApplyTame, DropTame DEF Command
  <2>2. ASSUME NEW p \in Proc, Gate(p) \/ Crash(p) PROVE Tame'
    BY <1>1, <2>2, GateTame, CrashTame
  <2>3. ASSUME NEW d \in Drop, DropStart(d) PROVE Tame'
    BY <1>1, <2>3, DropStartTame
  <2>4. ASSUME NEW r \in Run, WrapperMounts(r) \/ Write(r) \/ Exit(r) PROVE Tame'
    BY <1>1, <2>4, ChildTame, WriteTame
  <2>5. ASSUME NEW k \in Foreign, MountForeign(k) PROVE Tame'
    BY <1>1, <2>5, StrangerTame
  <2>6. QED
    BY <1>1, <1>3, <2>1, <2>2, <2>3, <2>4, <2>5 DEF Next
<1>4. QED
  BY <1>1, <1>2, <1>3

-----------------------------------------------------------------------------
(* What the user can count on                                              *)

THEOREM Invariance == ASSUME Careful PROVE Spec => []Inv
<1>1. Init => Inv
  BY InitTypes, InitTame DEF Inv
<1>2. Inv /\ [Next]_vars => Inv'
  BY NextTame
<1>3. QED
  BY <1>1, <1>2, PTL DEF Spec

\* Whatever a command wrote in its view is in the layer or on the host until the
\* worktree is dropped, across any number of commands killed half way and repeated
\* (run.rs: "changes preserved in upper layer").
THEOREM WorkIsKept == ASSUME Careful PROVE Spec => []NothingLost
<1>1. Inv => NothingLost
  BY DEF Inv, Tame, Kept
<1>2. QED
  BY <1>1, Invariance, PTL

\* Only a command's own steps move it.
LEMMA OwnSteps ==
  ASSUME Types, [Next]_vars, NEW q \in Proc, pc'[q] # pc[q]
  PROVE  Gate(q) \/ Command(q) \/ Crash(q) \/ (q \in Drop /\ DropStart(q))
<1>1. pc \in [Proc -> Labels] /\ Next
  BY DEF Types, vars
<1>2. ASSUME NEW p \in Proc, p # q, Gate(p) \/ Recover(p) \/ RecoverUnmount(p) \/ Crash(p) \/ DropStart(p)
      PROVE  FALSE
  BY <1>1, <1>2 DEF Gate, Recover, RecoverUnmount, Crash, DropStart, Goto, Unmount
<1>3. ASSUME NEW p \in Proc, p # q, RunStep(p)
      PROVE  FALSE
  BY <1>1, <1>3 DEF RunStep, RunMkdirs, RunMount, RunSpawn, RunSpawnFails, RunClaim, RunLost, RunGuard,
                    RunWait, RunDown, RunClear, Goto, Unmount
<1>4. ASSUME NEW p \in Proc, p # q, ApplyStep(p)
      PROVE  FALSE
  BY <1>1, <1>4 DEF ApplyStep, ApplyScan, ApplyFold, ApplyGate, ApplyCommit, ApplyRescan, ApplyMeta,
                    ApplyManifest, ApplyReset, ApplyMkupper, ApplyStatus, Goto
<1>5. ASSUME NEW p \in Proc, p # q, DropStep(p)
      PROVE  FALSE
  BY <1>1, <1>5 DEF DropStep, DropTerminate, DropFirst, DropLoop, DropTake, DropVerdict, DropAgain,
                    DropRetake, DropRecheck, DropRename, Goto, Unmount
<1>6. ASSUME NEW r \in Run, WrapperMounts(r) \/ Write(r) \/ Exit(r)
      PROVE  FALSE
  BY <1>6 DEF WrapperMounts, Write, Exit
<1>7. ASSUME NEW k \in Foreign, MountForeign(k)
      PROVE  FALSE
  BY <1>7 DEF MountForeign
<1>8. QED
  BY <1>1, <1>2, <1>3, <1>4, <1>5, <1>6, <1>7, Sorts DEF Next, Command

\* Only drop's rename takes the state directory away for good.
LEMMA DropIsRename ==
  ASSUME [Next]_vars, ~dropped, dropped'
  PROVE  \E d \in Drop : DropRename(d)
<1> SUFFICES ASSUME dropped' # dropped PROVE \E d \in Drop : DropRename(d)
  OBVIOUS
<1>1. Next
  BY DEF vars
<1>2. ASSUME NEW p \in Proc PROVE ~Gate(p) /\ ~Crash(p) /\ ~Recover(p) /\ ~RecoverUnmount(p)
  BY DEF Gate, Crash, Recover, RecoverUnmount, data
<1>3. ASSUME NEW r \in Run PROVE ~RunStep(r)
  BY DEF RunStep, RunMkdirs, RunMount, RunSpawn, RunSpawnFails, RunClaim, RunLost, RunGuard, RunWait,
         RunDown, RunClear, data
<1>4. ASSUME NEW a \in Apply PROVE ~ApplyStep(a)
  BY DEF ApplyStep, ApplyScan, ApplyFold, ApplyGate, ApplyCommit, ApplyRescan, ApplyMeta,
         ApplyManifest, ApplyReset, ApplyMkupper, ApplyStatus, data
<1>5. ASSUME NEW d \in Drop, DropStep(d) \/ DropStart(d) PROVE DropRename(d)
  BY <1>5 DEF DropStep, DropStart, DropTerminate, DropFirst, DropLoop, DropTake, DropVerdict,
              DropAgain, DropRetake, DropRecheck, data
<1>6. ASSUME NEW r \in Run PROVE ~WrapperMounts(r) /\ ~Write(r) /\ ~Exit(r)
  BY DEF WrapperMounts, Write, Exit
<1>7. ASSUME NEW k \in Foreign PROVE ~MountForeign(k)
  BY DEF MountForeign
<1>8. QED
  BY <1>1, <1>2, <1>3, <1>4, <1>5, <1>6, <1>7 DEF Next, Command

\* An apply that reports success has made the host the next baseline and left an
\* empty layer, also when the apply before it died between any two of its steps
\* (commands/apply.rs: manifest, then reset, then status).
THEOREM SuccessIsComplete == ASSUME Careful PROVE Spec => AppliedIsBaseline
<1>1. Inv /\ [Next]_vars =>
        [\A a \in Apply : pc[a] = "status" /\ pc'[a] = "ok" =>
           home'.base = host /\ layer[home'.upper] = {}]_pc
  <2> SUFFICES ASSUME Inv, [Next]_vars, NEW a \in Apply, pc[a] = "status", pc'[a] = "ok"
               PROVE  home'.base = host /\ layer[home'.upper] = {}
    OBVIOUS
  <2>1. a \in Proc /\ a \notin Run /\ a \notin Drop /\ Busy(a) /\ At(a)
    BY Sorts DEF Inv, Tame, Busy, Ended
  <2>2. home # None /\ home.base = host /\ layer[home.upper] = {}
    BY <2>1 DEF At, Applying
  <2>3. ~Crash(a) /\ ~Gate(a)
    BY <2>1, Going DEF Inv, Crash, Gate, Labels
  <2>4. ApplyStatus(a)
    <3>1. Command(a)
      BY <2>1, <2>3, OwnSteps DEF Inv
    <3>2. ApplyStep(a)
      BY <2>1, <3>1 DEF Command, Recover, RecoverUnmount
    <3>3. QED
      BY <3>2 DEF ApplyStep, ApplyScan, ApplyFold, ApplyGate, ApplyCommit, ApplyRescan, ApplyMeta,
                  ApplyManifest, ApplyReset, ApplyMkupper, ApplyStatus
  <2>5. home' = [home EXCEPT !.meta = TRUE] /\ home \in Homes
    BY <2>2, <2>4 DEF ApplyStatus, Inv, Types, HomeTypes
  <2>6. QED
    BY <2>2, <2>5, SetMeta
<1>2. QED
  BY <1>1, Invariance, PTL DEF Spec, AppliedIsBaseline

\* When drop takes the state directory away, no overlay of the worktree is left on the
\* target and no command of its runs lives: none that a killed run left, either
\* (commands/drop.rs: the checks right before the rename).
THEOREM NothingLeftBehind == ASSUME Careful PROVE Spec => DropTakesDown
<1>1. Inv /\ [Next]_vars =>
        [~dropped /\ dropped' =>
           /\ ~HasMount({"mine"})
           /\ \A r \in Run : kid[r] \notin {"wait", "live"}]_dropped
  <2> SUFFICES ASSUME Inv, [Next]_vars, ~dropped, dropped'
               PROVE  ~HasMount({"mine"}) /\ \A r \in Run : kid[r] \notin {"wait", "live"}
    OBVIOUS
  <2>1. PICK d \in Drop : DropRename(d)
    BY DropIsRename
  <2>2. d \in Proc /\ pc[d] = "rename" /\ Busy(d) /\ At(d)
    BY <2>1, Sorts DEF DropRename, Busy, Ended, Inv, Tame
  <2>3. ~HasMount({"mine"}) /\ ~Running
    BY <2>2 DEF At, Dropping
  <2>4. NoneActive
    BY <2>2, Calm DEF Inv, Tame
  <2>5. QED
    BY <2>3, <2>4 DEF NoneActive, Active
<1>2. QED
  BY <1>1, Invariance, PTL DEF Spec, DropTakesDown

\* With the mount on the target itself, too, the host changes by the commit of an apply
\* alone, when the user waits for each command: a child whose run was killed still
\* has a mount under it.
THEOREM SharedMountIsolates == ASSUME Careful PROVE Spec => HostOnlyByApply
<1>1. Inv /\ [Next]_vars =>
        [\E a \in Apply : pc[a] = "commit" /\ local'[a].ops # local[a].ops]_host
  BY HostChanges DEF Inv, Tame, Covered, Committing, WritingThrough
<1>2. QED
  BY <1>1, Invariance, PTL DEF Spec, HostOnlyByApply

-----------------------------------------------------------------------------
(* The worktree is a branch                                                *)

Same == host' = host /\ Pending' = Pending /\ dropped' = dropped

LEMMA PendingIs == Pending = Upper \ host
  BY DEF Pending, Upper

LEMMA PendingFrame ==
  ASSUME UNCHANGED <<host, layer, dropped>>,
         \/ home' = home
         \/ home # None /\ home' # None /\ home'.upper = home.upper
  PROVE  Same
  BY DEF Same, Pending

LEMMA PendingMakeUpper ==
  ASSUME Types, home # None, MakeUpper, UNCHANGED <<host, dropped>>
  PROVE  Same
<1>1. home' # None /\ home'.upper # None
  BY MakingUpper, Sorts
<1>2. CASE home' = home /\ layer' = layer
  BY <1>2 DEF Same, Pending
<1>3. CASE home.upper = None /\ home'.upper \notin DOMAIN layer
  <2>1. layer'[home'.upper] = {}
    BY <1>3, MakingUpper
  <2>2. Pending = {} /\ Pending' = {}
    BY <1>1, <1>3, <2>1 DEF Pending
  <2>3. QED
    BY <2>2 DEF Same
<1>4. QED
  BY <1>2, <1>3, MakingUpper

LEMMA RunRefines ==
  ASSUME Inv, NEW r \in Run, RunStep(r)
  PROVE  Same
<1>1. r \in Proc /\ At(r)
  BY Sorts DEF Inv, Tame
<1>2. CASE RunMkdirs(r)
  <2>1. home # None
    BY <1>1, <1>2 DEF RunMkdirs, At, Busy, Ended
  <2>2. QED
    BY <1>2, <2>1, PendingMakeUpper DEF RunMkdirs, Inv
<1>3. CASE RunClaim(r) \/ RunClear(r)
  <2>1. /\ UNCHANGED <<host, layer, dropped>>
        /\ \/ home' = home
           \/ home # None /\ \E q \in {r, None} : home' = [home EXCEPT !.pid = q]
    BY <1>3 DEF RunClaim, RunClear
  <2>2. home # None => home \in Homes
    BY DEF Inv, Types, HomeTypes
  <2>3. {r, None} \subseteq Run \cup {None}
    OBVIOUS
  <2>4. \/ home' = home
        \/ home # None /\ home' # None /\ home'.upper = home.upper
    <3>1. ASSUME home # None, NEW q \in {r, None}, home' = [home EXCEPT !.pid = q]
          PROVE  home' # None /\ home'.upper = home.upper
      <4>1. home \in Homes /\ q \in Run \cup {None}
        BY <2>2, <2>3, <3>1
      <4>2. QED
        BY <3>1, <4>1, SetPid
    <3>2. QED
      BY <2>1, <3>1
  <2>5. QED
    BY <2>1, <2>4, PendingFrame
<1>4. CASE UNCHANGED <<host, home, layer, dropped>>
  BY <1>4, PendingFrame
<1>5. QED
  BY <1>2, <1>3, <1>4 DEF RunStep, RunMount, RunSpawn, RunSpawnFails, RunLost, RunGuard, RunWait,
                          RunDown, data

\* Apply moves a file from the layer's pending ones to the host, and what it throws
\* away is not pending.
LEMMA ApplyRefines ==
  ASSUME Inv, NEW a \in Apply, ApplyStep(a)
  PROVE  Same \/ \E f \in Run : WorktreeBranch!Commit(f)
<1>1. a \in Proc /\ At(a) /\ local[a] \in Memory
  BY Sorts DEF Inv, Tame, Types
<1>2. home # None => home \in Homes
  BY DEF Inv, Types, HomeTypes
<1>3. CASE ApplyCommit(a)
  <2>1. /\ pc[a] = "commit" /\ home # None
        /\ local[a].ops \subseteq Upper
    BY <1>1, <1>3 DEF ApplyCommit, At, Busy, Ended, Applying
  <2>2. Upper' = Upper /\ dropped' = dropped
    BY <1>3 DEF ApplyCommit, Upper
  <2>3. CASE host' = host
    BY <2>2, <2>3, PendingIs DEF Same, Pending, Upper
  <2>4. ASSUME NEW f \in local[a].ops, host' = host \cup {f}
        PROVE  Same \/ \E g \in Run : WorktreeBranch!Commit(g)
    <3>1. f \in Run /\ f \in Upper
      BY <1>1, <2>1 DEF Memory
    <3>2. Pending = Upper \ host /\ Pending' = Upper \ host'
      BY <2>2 DEF Pending, Upper
    <3>3. CASE f \in host
      BY <2>2, <2>4, <3>2, <3>3 DEF Same
    <3>4. CASE f \notin host
      <4>1. ~dropped
        BY <2>1 DEF Inv, Tame, Homed
      <4>2. f \in Pending /\ Pending' = Pending \ {f}
        BY <2>4, <3>1, <3>2, <3>4
      <4>3. WorktreeBranch!Commit(f)
        BY <2>2, <2>4, <4>1, <4>2 DEF WorktreeBranch!Commit
      <4>4. QED
        BY <3>1, <4>3
    <3>5. QED
      BY <3>3, <3>4
  <2>5. QED
    BY <1>3, <2>3, <2>4 DEF ApplyCommit
<1>4. CASE ApplyManifest(a) \/ ApplyStatus(a)
  <2>1. home # None /\ local[a].base \in SUBSET Run
    BY <1>1, <1>4 DEF ApplyManifest, ApplyStatus, At, Busy, Ended, Memory
  <2>2. /\ UNCHANGED <<host, layer, dropped>>
        /\ \/ home' = [home EXCEPT !.base = local[a].base]
           \/ home' = [home EXCEPT !.meta = TRUE]
    BY <1>4, <2>1 DEF ApplyManifest, ApplyStatus
  <2>3. home' # None /\ home'.upper = home.upper
    <3>1. CASE home' = [home EXCEPT !.base = local[a].base]
      BY <1>2, <2>1, <3>1, SetBase
    <3>2. CASE home' = [home EXCEPT !.meta = TRUE]
      BY <1>2, <2>1, <3>2, SetMeta
    <3>3. QED
      BY <2>2, <3>1, <3>2
  <2>4. QED
    BY <2>1, <2>2, <2>3, PendingFrame
<1>5. CASE ApplyReset(a)
  <2>1. home # None /\ Upper \subseteq host
    BY <1>1, <1>5 DEF ApplyReset, At, Busy, Ended, Applying
  <2>2. Pending = {}
    BY <2>1, PendingIs
  <2>3. CASE home.upper = None
    BY <1>5, <2>3, PendingFrame DEF ApplyReset
  <2>4. CASE home.upper # None
    <3>1. home' = [home EXCEPT !.upper = None] /\ None \in Nat \cup {None}
      BY <1>5, <2>1, <2>4 DEF ApplyReset
    <3>2. home'.upper = None
      BY <1>2, <2>1, <3>1, SetUpper
    <3>3. Pending' = {}
      BY <3>2 DEF Pending
    <3>4. QED
      BY <1>5, <2>2, <3>3 DEF ApplyReset, Same
  <2>5. QED
    BY <2>3, <2>4
<1>6. CASE ApplyMkupper(a)
  <2>1. home # None
    BY <1>1, <1>6 DEF ApplyMkupper, At, Busy, Ended
  <2>2. QED
    BY <1>6, <2>1, PendingMakeUpper DEF ApplyMkupper, Inv
<1>7. CASE UNCHANGED <<host, home, layer, dropped>>
  BY <1>7, PendingFrame
<1>8. QED
  BY <1>3, <1>4, <1>5, <1>6, <1>7 DEF ApplyStep, ApplyScan, ApplyFold, ApplyGate, ApplyRescan,
                                      ApplyMeta, data

LEMMA DropRefines ==
  ASSUME Inv, NEW d \in Drop, DropStep(d) \/ DropStart(d)
  PROVE  Same \/ WorktreeBranch!Discard
<1>1. CASE DropRename(d) /\ home # None
  <2>1. ~dropped
    BY <1>1 DEF Inv, Tame, Homed
  <2>2. home' = None /\ dropped' = TRUE /\ host' = host
    BY <1>1 DEF DropRename
  <2>3. Pending' = {}
    BY <2>2 DEF Pending
  <2>4. QED
    BY <2>1, <2>2, <2>3 DEF WorktreeBranch!Discard
<1>2. CASE UNCHANGED <<host, home, layer, dropped>>
  BY <1>2, PendingFrame
<1>3. QED
  BY <1>1, <1>2 DEF DropStep, DropStart, DropTerminate, DropFirst, DropLoop, DropTake, DropVerdict,
                    DropAgain, DropRetake, DropRecheck, DropRename, data

\* What a command writes is pending from then on, unless a stranger's mount took it.
LEMMA WriteRefines ==
  ASSUME Inv, NEW r \in Run, Write(r)
  PROVE  Same \/ WorktreeBranch!Work(r)
<1> DEFINE w == WritesTo(r)
<1>1. /\ UNCHANGED <<home, dropped>>
      /\ kid[r] = "live" /\ r \in Proc /\ r \notin written
  BY Sorts DEF Write
<1>2. home # None /\ ~dropped
  BY <1>1 DEF Inv, Tame, Recorded, Active, At, Homed, Busy, Ended
<1>3. ~Mounted => w # None
  BY <1>1 DEF Inv, Tame, Covered, WritesTo
<1>4. /\ w # None => w = home.upper /\ layer' = [layer EXCEPT ![w] = @ \cup {r}]
      /\ w = None => layer' = layer
      /\ host' = host
  BY <1>2, <1>3 DEF Write
<1>5. w \in DOMAIN layer \cup {None} /\ layer \in Seq(SUBSET Run)
  BY WritesToLayer DEF Inv, Types, FileTypes
<1> HIDE DEF w
<1>6. CASE w = None
  BY <1>1, <1>4, <1>6, PendingFrame
<1>7. CASE w # None
  <2>1. layer'[w] = layer[w] \cup {r} /\ home.upper # None
    BY <1>4, <1>5, <1>7
  <2>2. r \notin host /\ r \notin layer[w]
    BY <1>1, <1>5, <1>7 DEF Inv, Tame, Kept
  <2>3. Pending = layer[w] \ host /\ Pending' = layer'[w] \ host
    BY <1>1, <1>2, <1>4, <1>7, <2>1 DEF Pending
  <2>4. r \notin host \cup Pending /\ Pending' = Pending \cup {r}
    BY <2>1, <2>2, <2>3
  <2>5. QED
    BY <1>1, <1>2, <1>4, <2>4 DEF WorktreeBranch!Work
<1>8. QED
  BY <1>6, <1>7

\* For a user who waits for each command, a worktree is a branch: commands add pending
\* files, apply moves them to the host one by one, drop discards the rest, and a command
\* killed anywhere but before its pidfile does nothing else.
THEOREM WorktreeIsABranch == ASSUME Careful PROVE Spec => IsBranch
<1>1. Init => WorktreeBranch!Init
  <2> SUFFICES ASSUME Init PROVE WorktreeBranch!Init
    OBVIOUS
  <2>1. Upper = {}
    BY DEF Init, Upper
  <2>2. QED
    BY <2>1, PendingIs DEF Init, WorktreeBranch!Init
<1>2. Inv /\ [Next]_vars => [WorktreeBranch!Next]_<<host, Pending, ~dropped>>
  <2> SUFFICES ASSUME Inv, [Next]_vars, ~Same PROVE WorktreeBranch!Next
    BY DEF Same
  <2>1. Next
    BY PendingFrame DEF vars
  <2>2. ASSUME NEW p \in Proc PROVE ~(Gate(p) \/ Crash(p) \/ Recover(p) \/ RecoverUnmount(p))
    BY PendingFrame DEF Gate, Crash, Recover, RecoverUnmount, data
  <2>3. ASSUME NEW r \in Run PROVE ~(WrapperMounts(r) \/ Exit(r) \/ RunStep(r))
    BY PendingFrame, RunRefines DEF WrapperMounts, Exit
  <2>4. ASSUME NEW k \in Foreign PROVE ~MountForeign(k)
    BY PendingFrame DEF MountForeign
  <2>5. ASSUME NEW r \in Run, Write(r) PROVE WorktreeBranch!Next
    BY <2>5, WriteRefines DEF WorktreeBranch!Next
  <2>6. ASSUME NEW a \in Apply, ApplyStep(a) PROVE WorktreeBranch!Next
    BY <2>6, ApplyRefines DEF WorktreeBranch!Next
  <2>7. ASSUME NEW d \in Drop, DropStep(d) \/ DropStart(d) PROVE WorktreeBranch!Next
    BY <2>7, DropRefines DEF WorktreeBranch!Next
  <2>8. QED
    BY <2>1, <2>2, <2>3, <2>4, <2>5, <2>6, <2>7 DEF Next, Command
<1>3. QED
  BY <1>1, <1>2, Invariance, PTL DEF Spec, IsBranch, WorktreeBranch!Spec

=============================================================================
