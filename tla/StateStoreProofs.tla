-------------------------- MODULE StateStoreProofs --------------------------
(***************************************************************************)
(* Names, temporary files and what killed forks leave, for any number of   *)
(* forks, applies, names and pids, when apply and drop are given to        *)
(* worktrees nobody is working on (Careful).                               *)
(***************************************************************************)
EXTENDS StateStore, TLAPS

-----------------------------------------------------------------------------
(* The inductive invariant                                                 *)

ForkLabels == {"idle", "mkdir", "before", "pre", "upper", "work", "sweep", "temp", "rename",
               "again", "post", "fine", "rmdir", "undo", "ok", "failed", "dead"}
ApplyLabels == {"idle", "sweep", "temp", "rename", "reset", "create", "fine", "fail", "ok",
                "failed", "dead"}

Live(p) == pc[p] \notin Ended

Dir == [there : BOOLEAN, has : SUBSET Part, temps : SUBSET Proc]

DirTypes ==
  /\ dir \in [Fork -> Dir]
  /\ \A f \in Fork : ~dir[f].there => dir[f] = Gone

\* Every command is at a label of its own, has a pid for itself, and an apply has its
\* worktree.
CommandTypes ==
  /\ pc \in [Proc -> ForkLabels \cup ApplyLabels]
  /\ \A f \in Fork : pc[f] \in ForkLabels
  /\ on \in [Apply -> Fork \cup {None}]
  /\ \A a \in Apply : pc[a] \in ApplyLabels /\ (Live(a) => on[a] \in Fork)
  /\ pid \in [Proc -> Pid \cup {None}]
  /\ \A p, q \in Proc : p # q /\ {pc[p], pc[q]} \cap Ended = {} => pid[p] # pid[q]

DataTypes ==
  /\ name \in [Fork -> Name \cup Fork \cup {None}]
  /\ file \in [Proc -> File]
  /\ todo \in [Fork -> SUBSET Fork] /\ hits \in [Fork -> SUBSET Fork]
  /\ cut \in [Proc -> ForkLabels \cup ApplyLabels \cup {None}]

Types == DirTypes /\ CommandTypes /\ DataTypes

\* A fork writes to its directory alone until it has ended: its label says what is in it.
Shape(f) ==
  LET d == dir[f] IN
  /\ pc[f] \in {"idle", "mkdir", "failed"} => d = Gone
  /\ pc[f] \in {"before", "pre", "upper", "rmdir"} => d = Made
  /\ pc[f] = "work" => d.there /\ d.has = {"upper"} /\ d.temps = {}
  /\ pc[f] \in {"sweep", "temp", "rename"} =>
       /\ d.there /\ {"upper", "work"} \subseteq d.has
       /\ d.temps = IF pc[f] = "rename" THEN {f} ELSE {}
       /\ "meta" \notin d.has /\ ("manifest" \in d.has <=> file[f] = "meta")
  /\ pc[f] \in {"again", "post", "fine"} => d.there /\ d.has = Part /\ d.temps = {}
  /\ pc[f] = "undo" => d.there /\ d.temps = {}
  /\ pc[f] = "ok" => d = Gone \/ (d.there /\ File \subseteq d.has)
  /\ pc[f] = "dead" => /\ d.temps # {} => d.has \cap {"work", "meta"} # {}
                       /\ Listed(f) => "manifest" \in d.has \/ cut[f] = "undo"

\* An apply works on a worktree whose fork has ended, and which stays listed.
OnListed(a) ==
  /\ Live(a) => pc[on[a]] \in {"ok", "dead"} /\ Listed(on[a])
  /\ pc[a] = "rename" => a \in dir[on[a]].temps

\* A fork that was given an id for a name either finds the worktree of that id, or the
\* worktree is gone, for good.
NotAnId(f) ==
  LET g == name[f] IN
  g \in Fork /\ pc[f] \notin {"idle", "rmdir", "undo", "failed", "dead"} =>
    /\ g # f /\ pc[g] = "ok"
    /\ \/ pc[f] \in {"mkdir", "before"}
       \/ pc[f] = "pre" /\ g \in todo[f] \cup hits[f]
       \/ dir[g] = Gone

\* Of two forks of a name, the one that lists the directories last sees the other.
Past == {"post", "fine", "ok"}
Sees(f, g) == pc[f] = "post" /\ g \in todo[f] \cup hits[f]
OneSees(f, g) ==
  f # g /\ name[f] = name[g] /\ {pc[f], pc[g]} \subseteq Past /\ Listed(f) /\ Listed(g) =>
    Sees(f, g) \/ Sees(g, f)

Tidy ==
  /\ \A f \in Fork : Shape(f)
  /\ \A a \in Apply : OnListed(a)
  /\ \A f \in Fork : NotAnId(f)
  /\ \A f, g \in Fork : OneSees(f, g)

Inv == Types /\ (Careful => Tidy)

-----------------------------------------------------------------------------
(* Types and control                                                       *)

LEMMA Sorts == /\ None \notin Proc \cup Name \cup Pid
               /\ \A p \in Proc : p \in Fork <=> p \notin Apply
  BY SortAssumption DEF Proc

\* The start of a command takes a pid that no live command has.
LEMMA FreshPid ==
  ASSUME Types, NEW p \in Proc, NEW n \in Free, pid' = [pid EXCEPT ![p] = n],
         \A q \in Proc : q # p => pc'[q] = pc[q]
  PROVE  /\ pid' \in [Proc -> Pid \cup {None}]
         /\ \A q, r \in Proc : q # r /\ {pc'[q], pc'[r]} \cap Ended = {} => pid'[q] # pid'[r]
<1>1. pid \in [Proc -> Pid \cup {None}] /\ n \in Pid
  BY DEF Types, CommandTypes, Free
<1>2. \A q \in Proc : pid[q] = n => pc[q] \in Ended
  BY DEF Free, Alive
<1>3. \A q, r \in Proc : q # r /\ {pc[q], pc[r]} \cap Ended = {} => pid[q] # pid[r]
  BY DEF Types, CommandTypes
<1>4. ASSUME NEW q \in Proc, NEW r \in Proc, q # r, pc'[q] \notin Ended, pc'[r] \notin Ended
      PROVE  pid'[q] # pid'[r]
  <2>1. CASE q = p
    BY <1>1, <1>2, <1>4, <2>1
  <2>2. CASE r = p
    BY <1>1, <1>2, <1>4, <2>2
  <2>3. CASE q # p /\ r # p
    BY <1>1, <1>3, <1>4, <2>3
  <2>4. QED
    BY <2>1, <2>2, <2>3
<1>5. QED
  BY <1>1, <1>4

\* A command that goes on, or ends, keeps its pid for itself.
LEMMA SamePids ==
  ASSUME Types, NEW p \in Proc, Live(p), pid' = pid, \A q \in Proc : q # p => pc'[q] = pc[q]
  PROVE  \A q, r \in Proc : q # r /\ {pc'[q], pc'[r]} \cap Ended = {} => pid'[q] # pid'[r]
  BY DEF Types, CommandTypes, Live

LEMMA InitTypes == Init => Types
<1> SUFFICES ASSUME Init PROVE Types
  OBVIOUS
<1>1. DirTypes
  BY DEF Init, DirTypes, Dir, Gone
<1>2. CommandTypes
  BY DEF Init, CommandTypes, ForkLabels, ApplyLabels, Live, Ended, Proc
<1>3. DataTypes
  BY DEF Init, DataTypes, File
<1>4. QED
  BY <1>1, <1>2, <1>3 DEF Types

LEMMA InitTidy == Init => Tidy
<1> SUFFICES ASSUME Init PROVE Tidy
  OBVIOUS
<1>1. \A f \in Fork : pc[f] = "idle" /\ dir[f] = Gone
  BY DEF Init, Proc
<1>2. \A a \in Apply : pc[a] = "idle"
  BY DEF Init, Proc
<1>3. QED
  BY <1>1, <1>2 DEF Tidy, Shape, OnListed, NotAnId, OneSees, Live, Ended, Past

-----------------------------------------------------------------------------
(* Each step, as what it does to the directory it works on                 *)

\* A command that is running goes on to a label of its own, or ends.
LEMMA GoesOn ==
  ASSUME Types, NEW p \in Proc, Live(p), NEW l, Goto(p, l), on' = on, pid' = pid,
         IF p \in Fork THEN l \in ForkLabels ELSE l \in ApplyLabels
  PROVE  CommandTypes'
<1>1. pc' \in [Proc -> ForkLabels \cup ApplyLabels] /\ pc'[p] = l
  BY DEF Types, CommandTypes, Goto
<1>2. \A q \in Proc : q # p => pc'[q] = pc[q]
  BY DEF Types, CommandTypes, Goto
<1>3. \A f \in Fork : pc'[f] \in ForkLabels
  BY <1>1, <1>2 DEF Types, CommandTypes, Proc
<1>4. \A a \in Apply : pc'[a] \in ApplyLabels /\ (Live(a)' => on'[a] \in Fork)
  BY <1>1, <1>2, Sorts DEF Types, CommandTypes, Proc, Live
<1>5. \A q, r \in Proc : q # r /\ {pc'[q], pc'[r]} \cap Ended = {} => pid'[q] # pid'[r]
  BY <1>2, SamePids
<1>6. QED
  BY <1>1, <1>3, <1>4, <1>5 DEF CommandTypes, Types

\* A step sets the directory it works on.
LEMMA DirTo ==
  ASSUME Types, NEW f \in Fork, NEW d \in Dir, dir' = [dir EXCEPT ![f] = d], ~d.there => d = Gone
  PROVE  DirTypes' /\ dir'[f] = d /\ \A g \in Fork : g # f => dir'[g] = dir[g]
<1>1. dir \in [Fork -> Dir] /\ \A g \in Fork : ~dir[g].there => dir[g] = Gone
  BY DEF Types, DirTypes
<1>2. dir' \in [Fork -> Dir] /\ dir'[f] = d /\ \A g \in Fork : g # f => dir'[g] = dir[g]
  BY <1>1
<1>3. QED
  BY <1>1, <1>2 DEF DirTypes

LEMMA Places == ASSUME Types, NEW p \in Proc, Live(p) PROVE Place(p) \in Fork
  BY Sorts DEF Types, CommandTypes, Place, Proc

\* What a step does to the directory it works on, and to no other.
Leaves(f, t, S, T) ==
  /\ DirTypes'
  /\ \A g \in Fork : g # f => dir'[g] = dir[g]
  /\ dir'[f].there = t /\ dir'[f].has = S /\ dir'[f].temps = T

LEMMA DirRecord ==
  ASSUME Types, NEW f \in Fork
  PROVE  /\ dir \in [Fork -> Dir] /\ dir[f] \in Dir
         /\ dir[f].there \in BOOLEAN /\ dir[f].has \subseteq Part /\ dir[f].temps \subseteq Proc
         /\ ~dir[f].there => dir[f] = Gone
  BY DEF Types, DirTypes, Dir

\* Nothing is left to take out of a directory that is not there.
LEMMA Settles ==
  ASSUME Types, NEW f \in Fork, NEW d \in Dir, dir' = [dir EXCEPT ![f] = d],
         \/ d.there
         \/ d.there = dir[f].there /\ d.has \subseteq dir[f].has /\ d.temps \subseteq dir[f].temps
         \/ d = Gone
  PROVE  Leaves(f, d.there, d.has, d.temps)
<1>1. dir \in [Fork -> Dir] /\ \A g \in Fork : ~dir[g].there => dir[g] = Gone
  BY DEF Types, DirTypes
<1>2. ASSUME ~d.there PROVE d = Gone
  <2>1. CASE d = Gone
    BY <2>1
  <2>2. CASE d # Gone
    <3>1. dir[f].has = {} /\ dir[f].temps = {}
      BY <1>1, <1>2, <2>2 DEF Gone
    <3>2. d.has = {} /\ d.temps = {} /\ d.there = FALSE
      BY <1>2, <2>2, <3>1 DEF Dir
    <3>3. QED
      BY <3>2 DEF Dir, Gone
  <2>3. QED
    BY <2>1, <2>2
<1>3. dir' \in [Fork -> Dir] /\ dir'[f] = d /\ \A g \in Fork : g # f => dir'[g] = dir[g]
  BY <1>1
<1>4. QED
  BY <1>1, <1>2, <1>3 DEF DirTypes, Leaves

LEMMA SweepDir ==
  ASSUME Types, NEW p \in Proc, Sweep(p), NEW f, f = Place(p)
  PROVE  f \in Fork /\ Leaves(f, dir[f].there, dir[f].has, dir[f].temps \ Stale(p))
<1>1. f \in Fork
  BY Places DEF Sweep, Live, Ended
<1> DEFINE d == [dir[f] EXCEPT !.temps = @ \ Stale(p)]
<1>2. /\ d \in Dir /\ d.there = dir[f].there /\ d.has = dir[f].has
      /\ d.temps = dir[f].temps \ Stale(p)
  BY <1>1, DirRecord DEF Dir
<1>3. dir' = [dir EXCEPT ![f] = d]
  BY DEF Sweep
<1> HIDE DEF d
<1>4. QED
  BY <1>1, <1>2, <1>3, Settles

LEMMA TempDir ==
  ASSUME Types, NEW p \in Proc, Temp(p), NEW f, f = Place(p)
  PROVE  /\ f \in Fork
         /\ \/ /\ dir[f].there /\ Leaves(f, TRUE, dir[f].has, dir[f].temps \cup {p})
               /\ Goto(p, "rename")
            \/ ~dir[f].there /\ dir' = dir /\ WriteFails(p)
<1>1. f \in Fork
  BY Places DEF Temp, Live, Ended
<1>2. CASE dir[f].there
  <2> DEFINE d == [dir[f] EXCEPT !.temps = @ \cup {p}]
  <2>1. d \in Dir /\ d.there /\ d.has = dir[f].has /\ d.temps = dir[f].temps \cup {p}
    BY <1>1, <1>2, DirRecord DEF Dir
  <2>2. dir' = [dir EXCEPT ![f] = d] /\ Goto(p, "rename")
    BY <1>2 DEF Temp
  <2>3. d.there = TRUE
    BY <2>1 DEF Dir
  <2> HIDE DEF d
  <2>4. QED
    BY <1>1, <1>2, <2>1, <2>2, <2>3, Settles
<1>3. CASE ~dir[f].there
  BY <1>1, <1>3 DEF Temp
<1>4. QED
  BY <1>2, <1>3

LEMMA RenameDir ==
  ASSUME Types, NEW p \in Proc, Rename(p), NEW f, f = Place(p)
  PROVE  /\ f \in Fork
         /\ \/ /\ p \in dir[f].temps /\ AfterWrite(p)
               /\ Leaves(f, TRUE, dir[f].has \cup {file[p]}, dir[f].temps \ {p})
            \/ p \notin dir[f].temps /\ dir' = dir /\ file' = file /\ WriteFails(p)
<1>1. f \in Fork
  BY Places DEF Rename, Live, Ended
<1>2. CASE p \in dir[f].temps
  <2> DEFINE d == [dir[f] EXCEPT !.temps = @ \ {p}, !.has = @ \cup {file[p]}]
  <2>1. dir[f].there /\ file[p] \in Part
    BY <1>1, <1>2, DirRecord DEF Gone, Types, DataTypes, File, Part
  <2>2. /\ d \in Dir /\ d.there /\ d.has = dir[f].has \cup {file[p]}
        /\ d.temps = dir[f].temps \ {p}
    BY <1>1, <2>1, DirRecord DEF Dir
  <2>3. dir' = [dir EXCEPT ![f] = d] /\ AfterWrite(p)
    BY <1>2 DEF Rename
  <2>4. d.there = TRUE
    BY <2>2 DEF Dir
  <2> HIDE DEF d
  <2>5. QED
    BY <1>1, <1>2, <2>2, <2>3, <2>4, Settles
<1>3. CASE p \notin dir[f].temps
  BY <1>1, <1>3 DEF Rename
<1>4. QED
  BY <1>2, <1>3

LEMMA MakeDir ==
  ASSUME Types, NEW f \in Fork, NEW x \in Part,
         dir' = [dir EXCEPT ![f].there = TRUE, ![f].has = @ \cup {x}]
  PROVE  Leaves(f, TRUE, dir[f].has \cup {x}, dir[f].temps)
<1> DEFINE d == [dir[f] EXCEPT !.there = TRUE, !.has = @ \cup {x}]
<1>1. d \in Dir /\ d.there = TRUE /\ d.has = dir[f].has \cup {x} /\ d.temps = dir[f].temps
  BY DirRecord DEF Dir
<1>2. dir' = [dir EXCEPT ![f] = d]
  OBVIOUS
<1> HIDE DEF d
<1>3. QED
  BY <1>1, <1>2, Settles

LEMMA TakeDir ==
  ASSUME Types, NEW f \in Fork, NEW x,
         \/ dir' = [dir EXCEPT ![f].has = @ \ {x}]
         \/ dir' = [dir EXCEPT ![f].temps = @ \ {x}]
  PROVE  \/ Leaves(f, dir[f].there, dir[f].has \ {x}, dir[f].temps)
         \/ Leaves(f, dir[f].there, dir[f].has, dir[f].temps \ {x})
<1> DEFINE d == [dir[f] EXCEPT !.has = @ \ {x}]
           e == [dir[f] EXCEPT !.temps = @ \ {x}]
<1>1. d \in Dir /\ d.there = dir[f].there /\ d.has = dir[f].has \ {x} /\ d.temps = dir[f].temps
  BY DirRecord DEF Dir
<1>2. e \in Dir /\ e.there = dir[f].there /\ e.has = dir[f].has /\ e.temps = dir[f].temps \ {x}
  BY DirRecord DEF Dir
<1>3. dir' = [dir EXCEPT ![f] = d] \/ dir' = [dir EXCEPT ![f] = e]
  OBVIOUS
<1> HIDE DEF d, e
<1>4. CASE dir' = [dir EXCEPT ![f] = d]
  <2>1. Leaves(f, d.there, d.has, d.temps)
    BY <1>1, <1>4, Settles
  <2>2. QED
    BY <1>1, <2>1
<1>5. CASE dir' = [dir EXCEPT ![f] = e]
  <2>1. Leaves(f, e.there, e.has, e.temps)
    BY <1>2, <1>5, Settles
  <2>2. QED
    BY <1>2, <2>1
<1>6. QED
  BY <1>3, <1>4, <1>5

LEMMA SetDir ==
  ASSUME Types, NEW f \in Fork, NEW d \in {Made, Gone}, dir' = [dir EXCEPT ![f] = d]
  PROVE  Leaves(f, d.there, {}, {}) /\ dir'[f] = d
<1>1. d \in Dir /\ d.has = {} /\ d.temps = {} /\ (d.there \/ d = Gone)
  <2>1. Gone \in Dir /\ Gone.has = {} /\ Gone.temps = {}
    BY DEF Gone, Dir
  <2>2. Made \in Dir /\ Made.there /\ Made.has = {} /\ Made.temps = {}
    BY DEF Gone, Made, Dir
  <2>3. QED
    BY <2>1, <2>2
<1>2. Leaves(f, d.there, d.has, d.temps)
  BY <1>1, Settles
<1>3. dir'[f] = d
  BY DirRecord
<1>4. QED
  BY <1>1, <1>2, <1>3

-----------------------------------------------------------------------------
(* Types are kept                                                          *)

\* What a step of a running command leaves alone, but for its directory and its file.
LEMMA TypesOn ==
  ASSUME Types, NEW p \in Proc, Live(p), DirTypes', NEW l, Goto(p, l),
         IF p \in Fork THEN l \in ForkLabels ELSE l \in ApplyLabels,
         UNCHANGED <<given, cut>>,
         \/ file' = file
         \/ \E x \in File : file' = [file EXCEPT ![p] = x],
         todo' \in [Fork -> SUBSET Fork], hits' \in [Fork -> SUBSET Fork]
  PROVE  Types'
<1>1. CommandTypes'
  BY GoesOn DEF given
<1>2. name' = name /\ cut' = cut /\ file' \in [Proc -> File]
  BY DEF given, Types, DataTypes
<1>3. DataTypes'
  BY <1>2 DEF Types, DataTypes
<1>4. QED
  BY <1>1, <1>3 DEF Types

LEMMA StartTypes == ASSUME Types, NEW f \in Fork, Start(f) PROVE Types'
<1>1. PICK n \in Free : pid' = [pid EXCEPT ![f] = n]
  BY DEF Start
<1>2. PICK m \in Name \cup Fork : name' = [name EXCEPT ![f] = m]
  BY DEF Start
<1>3. pc' = [pc EXCEPT ![f] = "mkdir"] /\ f \in Proc
  BY DEF Start, Goto, Proc
<1>4. \A q \in Proc : q # f => pc'[q] = pc[q]
  BY <1>3 DEF Types, CommandTypes
<1>5. /\ pid' \in [Proc -> Pid \cup {None}]
      /\ \A q, r \in Proc : q # r /\ {pc'[q], pc'[r]} \cap Ended = {} => pid'[q] # pid'[r]
  BY <1>1, <1>3, <1>4, FreshPid
<1>6. /\ pc' \in [Proc -> ForkLabels \cup ApplyLabels] /\ \A g \in Fork : pc'[g] \in ForkLabels
      /\ \A a \in Apply : pc'[a] = pc[a]
  BY <1>3, <1>4, Sorts DEF Types, CommandTypes, ForkLabels, Proc
<1>7. on' = on
  BY DEF Start
<1>8. CommandTypes'
  BY <1>5, <1>6, <1>7 DEF Types, CommandTypes, Live
<1>9. DirTypes'
  BY DEF Start, Types, DirTypes
<1>10. DataTypes'
  BY <1>2 DEF Start, Types, DataTypes, listing, bounds
<1>11. QED
  BY <1>8, <1>9, <1>10 DEF Types

LEMMA FinalizeTypes == ASSUME Types, NEW a \in Apply, Finalize(a) PROVE Types'
<1>1. PICK n \in Free : pid' = [pid EXCEPT ![a] = n]
  BY DEF Finalize
<1>2. PICK f \in Fork : on' = [on EXCEPT ![a] = f]
  BY DEF Finalize
<1>3. /\ pc' = [pc EXCEPT ![a] = "sweep"] /\ file' = [file EXCEPT ![a] = "manifest"]
      /\ a \in Proc
  BY DEF Finalize, Write, Goto, Proc
<1>4. pc'[a] = "sweep" /\ \A q \in Proc : q # a => pc'[q] = pc[q]
  BY <1>3 DEF Types, CommandTypes
<1>5. /\ pid' \in [Proc -> Pid \cup {None}]
      /\ \A q, r \in Proc : q # r /\ {pc'[q], pc'[r]} \cap Ended = {} => pid'[q] # pid'[r]
  BY <1>1, <1>3, <1>4, FreshPid
<1>6. /\ pc' \in [Proc -> ForkLabels \cup ApplyLabels]
      /\ \A g \in Fork : pc'[g] = pc[g]
      /\ \A b \in Apply : pc'[b] \in ApplyLabels
  BY <1>3, <1>4, Sorts DEF Types, CommandTypes, ApplyLabels, Proc
<1>7. on' \in [Apply -> Fork \cup {None}] /\ on'[a] = f /\ \A b \in Apply : b # a => on'[b] = on[b]
  BY <1>2 DEF Types, CommandTypes
<1>8. \A b \in Apply : Live(b)' => on'[b] \in Fork
  BY <1>4, <1>7 DEF Types, CommandTypes, Live, Proc
<1>9. CommandTypes'
  BY <1>5, <1>6, <1>7, <1>8 DEF Types, CommandTypes
<1>10. DirTypes'
  BY DEF Finalize, Types, DirTypes
<1>11. DataTypes'
  BY <1>3 DEF Finalize, Types, DataTypes, listing, bounds, File
<1>12. QED
  BY <1>9, <1>10, <1>11 DEF Types

\* A killed command ends where it is.
LEMMA CrashTypes == ASSUME Types, NEW p \in Proc, Crash(p) PROVE Types'
<1>1. CommandTypes'
  <2>1. Live(p) /\ Goto(p, "dead") /\ on' = on /\ pid' = pid
    BY DEF Crash, Live, given
  <2>2. QED
    BY <2>1, GoesOn DEF ForkLabels, ApplyLabels
<1>2. cut' \in [Proc -> ForkLabels \cup ApplyLabels \cup {None}]
  BY DEF Crash, Types, CommandTypes, DataTypes
<1>3. QED
  BY <1>1, <1>2 DEF Crash, Types, DirTypes, DataTypes, given, listing

-----------------------------------------------------------------------------
(* What a step of a fork can disturb                                       *)

\* Everything but what fork f works on.
Own(f) ==
  /\ on' = on
  /\ \A q \in Proc : q # f => pc'[q] = pc[q] /\ file'[q] = file[q] /\ cut'[q] = cut[q]
  /\ \A g \in Fork : g # f => /\ dir'[g] = dir[g] /\ name'[g] = name[g]
                              /\ todo'[g] = todo[g] /\ hits'[g] = hits[g]

\* A fork that works on its own directory disturbs its own part of the invariant only.
LEMMA OwnStep ==
  ASSUME Types, Tidy, NEW f \in Fork, pc[f] \notin {"ok", "dead"}, Own(f), Shape(f)', NotAnId(f)',
         \A g \in Fork : OneSees(f, g)'
  PROVE  Tidy'
<1>1. \A g \in Fork : Shape(g)'
  <2>1. ASSUME NEW g \in Fork, g # f PROVE Shape(g)'
    <3>1. Shape(g) /\ dir'[g] = dir[g] /\ pc'[g] = pc[g] /\ file'[g] = file[g] /\ cut'[g] = cut[g]
      BY <2>1 DEF Tidy, Own, Proc
    <3>2. QED
      BY <3>1 DEF Shape, Listed
  <2>2. QED
    BY <2>1
<1>2. \A a \in Apply : OnListed(a)'
  <2>1. ASSUME NEW a \in Apply PROVE OnListed(a)'
    <3>1. OnListed(a) /\ pc'[a] = pc[a] /\ on'[a] = on[a]
      BY Sorts DEF Tidy, Own, Proc
    <3>2. CASE Live(a)
      <4>1. on[a] \in Fork /\ on[a] # f
        BY <3>1, <3>2 DEF OnListed, Types, CommandTypes
      <4>2. dir'[on[a]] = dir[on[a]] /\ pc'[on[a]] = pc[on[a]]
        BY <4>1 DEF Own, Proc
      <4>3. QED
        BY <3>1, <4>2 DEF OnListed, Live, Listed
    <3>3. CASE ~Live(a)
      BY <3>1, <3>3 DEF OnListed, Live, Ended
    <3>4. QED
      BY <3>2, <3>3
  <2>2. QED
    BY <2>1
<1>3. \A g \in Fork : NotAnId(g)'
  <2>1. ASSUME NEW g \in Fork, g # f PROVE NotAnId(g)'
    <3>1. /\ NotAnId(g) /\ name'[g] = name[g] /\ pc'[g] = pc[g]
          /\ todo'[g] = todo[g] /\ hits'[g] = hits[g]
      BY <2>1 DEF Tidy, Own, Proc
    <3>2. CASE name[g] \in Fork /\ name[g] # f
      <4>1. dir'[name[g]] = dir[name[g]] /\ pc'[name[g]] = pc[name[g]]
        BY <3>2 DEF Own, Proc
      <4>2. QED
        BY <3>1, <4>1 DEF NotAnId
    <3>3. CASE name[g] = f
      BY <3>1, <3>3 DEF NotAnId
    <3>4. CASE name[g] \notin Fork
      BY <3>1, <3>4 DEF NotAnId
    <3>5. QED
      BY <3>2, <3>3, <3>4
  <2>2. QED
    BY <2>1
<1>4. \A g, h \in Fork : OneSees(g, h)'
  <2>1. ASSUME NEW g \in Fork, NEW h \in Fork, g # f, h # f PROVE OneSees(g, h)'
    <3>1. /\ OneSees(g, h) /\ name'[g] = name[g] /\ pc'[g] = pc[g] /\ dir'[g] = dir[g]
          /\ todo'[g] = todo[g] /\ hits'[g] = hits[g]
          /\ name'[h] = name[h] /\ pc'[h] = pc[h] /\ dir'[h] = dir[h]
          /\ todo'[h] = todo[h] /\ hits'[h] = hits[h]
      BY <2>1 DEF Tidy, Own, Proc
    <3>2. QED
      BY <3>1 DEF OneSees, Sees, Listed
  <2>2. ASSUME NEW g \in Fork, OneSees(f, g)' PROVE OneSees(g, f)'
    BY <2>2 DEF OneSees
  <2>3. QED
    BY <2>1, <2>2
<1>5. QED
  BY <1>1, <1>2, <1>3, <1>4 DEF Tidy

\* A step that changes neither the name nor the lists of the fork keeps NotAnId once the
\* pre-check is over.
LEMMA SameId ==
  ASSUME Types, Tidy, NEW f \in Fork, Own(f), name'[f] = name[f],
         \/ pc'[f] \in {"idle", "rmdir", "undo", "failed", "dead"}
         \/ pc[f] \in {"upper", "work", "sweep", "temp", "rename", "again", "post", "fine"}
         \/ pc[f] = "mkdir" /\ pc'[f] = "before"
  PROVE  NotAnId(f)'
<1>1. CASE pc'[f] \in {"idle", "rmdir", "undo", "failed", "dead"}
  BY <1>1 DEF NotAnId
<1>2. CASE name[f] \notin Fork
  BY <1>2 DEF NotAnId
<1>3. CASE /\ name[f] \in Fork /\ pc'[f] \notin {"idle", "rmdir", "undo", "failed", "dead"}
           /\ pc[f] \in {"mkdir", "upper", "work", "sweep", "temp", "rename", "again", "post", "fine"}
  <2>1. name[f] # f /\ pc[name[f]] = "ok" /\ (pc[f] = "mkdir" \/ dir[name[f]] = Gone)
    BY <1>3 DEF Tidy, NotAnId
  <2>2. dir'[name[f]] = dir[name[f]] /\ pc'[name[f]] = pc[name[f]]
    BY <1>3, <2>1 DEF Own, Proc
  <2>3. QED
    BY <1>3, <2>1, <2>2 DEF NotAnId
<1>4. QED
  BY <1>1, <1>2, <1>3

LEMMA NotPast ==
  ASSUME NEW f, pc'[f] \notin Past PROVE \A g \in Fork : OneSees(f, g)'
  BY DEF OneSees

-----------------------------------------------------------------------------
(* The steps of fork                                                       *)

LEMMA StartTidy == ASSUME Types, Tidy, NEW f \in Fork, Start(f) PROVE Tidy'
<1>1. pc[f] = "idle" /\ pc'[f] = "mkdir" /\ \A q \in Proc : q # f => pc'[q] = pc[q]
  BY DEF Start, Goto, Types, CommandTypes, Proc
<1>2. PICK n \in Name \cup {g \in Fork : Listed(g) /\ pc[g] = "ok"} : name' = [name EXCEPT ![f] = n]
  BY DEF Start
<1>3. name'[f] = n /\ \A g \in Fork : g # f => name'[g] = name[g]
  BY <1>2 DEF Types, DataTypes
<1>4. Own(f)
  BY <1>1, <1>3 DEF Start, Own, listing, bounds
<1>5. Shape(f)'
  BY <1>1 DEF Start, Tidy, Shape
<1>6. NotAnId(f)'
  <2>1. CASE n \in Fork
    BY <1>1, <1>2, <1>3, <2>1, SortAssumption DEF NotAnId, Proc
  <2>2. CASE n \notin Fork
    BY <1>3, <2>2 DEF NotAnId
  <2>3. QED
    BY <2>1, <2>2
<1>7. \A g \in Fork : OneSees(f, g)'
  BY <1>1, NotPast DEF Past
<1>8. QED
  BY <1>1, <1>4, <1>5, <1>6, <1>7, OwnStep

\* MkDir, MkUpper, MkWork, RmDir, Undo and Undone: f works on its directory and goes on.
LEMMA OwnDir ==
  ASSUME Types, Tidy, NEW f \in Fork, Live(f), NEW l, Goto(f, l), l \notin Past,
         pc[f] \notin {"before", "pre"},
         pc[f] = "mkdir" => l = "before", pc[f] \in {"rmdir", "undo"} => l \in {"failed", "undo"},
         \A g \in Fork : g # f => dir'[g] = dir[g],
         file' = file \/ \E x \in File : file' = [file EXCEPT ![f] = x],
         UNCHANGED <<given, listing, cut>>, Shape(f)'
  PROVE  Tidy'
<1>1. pc'[f] = l /\ \A q \in Proc : q # f => pc'[q] = pc[q]
  BY DEF Goto, Types, CommandTypes, Proc
<1>2. Own(f)
  BY <1>1 DEF Own, given, listing, Types, DataTypes
<1>3. NotAnId(f)'
  <2>1. pc[f] \in ForkLabels /\ name' = name
    BY DEF Types, CommandTypes, given
  <2>2. \/ pc[f] = "mkdir" /\ pc'[f] = "before"
        \/ pc'[f] \in {"idle", "rmdir", "undo", "failed", "dead"}
        \/ pc[f] \in {"upper", "work", "sweep", "temp", "rename", "again", "post", "fine"}
    BY <1>1, <2>1 DEF ForkLabels, Live, Ended
  <2>3. QED
    BY <1>2, <2>1, <2>2, SameId
<1>4. QED
  BY <1>1, <1>2, <1>3, NotPast, OwnStep DEF Live, Ended

LEMMA MkDirKept == ASSUME Types, NEW f \in Fork, MkDir(f) PROVE Types' /\ (Tidy => Tidy')
<1>1. pc[f] = "mkdir" /\ Live(f) /\ f \in Proc /\ Goto(f, "before")
  BY DEF MkDir, Live, Ended, Proc
<1>2. Leaves(f, Made.there, {}, {}) /\ dir'[f] = Made
  BY SetDir DEF MkDir
<1>3. Types'
  BY <1>1, <1>2, TypesOn DEF MkDir, Leaves, ForkLabels, listing, bounds, Types, DataTypes
<1>4. Shape(f)'
  BY <1>1, <1>2 DEF Shape, Goto, Types, CommandTypes
<1>5. Tidy => Tidy'
  BY <1>1, <1>2, <1>4, OwnDir DEF MkDir, Leaves, Past, bounds
<1>6. QED
  BY <1>3, <1>5

LEMMA MkUpperKept == ASSUME Types, NEW f \in Fork, MkUpper(f) PROVE Types' /\ (Tidy => Tidy')
<1>1. pc[f] = "upper" /\ Live(f) /\ f \in Proc /\ Goto(f, "work") /\ pc'[f] = "work"
  BY DEF MkUpper, Live, Ended, Proc, Goto, Types, CommandTypes
<1>2. Leaves(f, TRUE, dir[f].has \cup {"upper"}, dir[f].temps)
  BY MakeDir DEF MkUpper, Part
<1>3. Types'
  BY <1>1, <1>2, TypesOn DEF MkUpper, Leaves, ForkLabels, listing, bounds, Types, DataTypes
<1>4. ASSUME Tidy PROVE Shape(f)'
  <2>1. dir[f] = Made
    BY <1>1, <1>4 DEF Tidy, Shape
  <2>2. Made.has = {} /\ Made.temps = {}
    BY DEF Made, Gone
  <2>3. dir'[f].there /\ dir'[f].has = {"upper"} /\ dir'[f].temps = {}
    BY <1>2, <2>1, <2>2 DEF Leaves
  <2>4. QED
    BY <1>1, <2>3 DEF Shape
<1>5. Tidy => Tidy'
  BY <1>1, <1>2, <1>4, OwnDir DEF MkUpper, Leaves, Past, bounds
<1>6. QED
  BY <1>3, <1>5

LEMMA MkWorkKept == ASSUME Types, NEW f \in Fork, MkWork(f) PROVE Types' /\ (Tidy => Tidy')
<1>1. pc[f] = "work" /\ Live(f) /\ f \in Proc /\ Goto(f, "sweep") /\ pc'[f] = "sweep"
  BY DEF MkWork, Write, Live, Ended, Proc, Goto, Types, CommandTypes
<1>2. file' = [file EXCEPT ![f] = "manifest"] /\ "manifest" \in File /\ file'[f] = "manifest"
  BY <1>1 DEF MkWork, Write, File, Types, DataTypes
<1>3. Leaves(f, TRUE, dir[f].has \cup {"work"}, dir[f].temps)
  BY MakeDir DEF MkWork, Part
<1>4. Types'
  BY <1>1, <1>2, <1>3, TypesOn DEF MkWork, Leaves, ForkLabels, listing, bounds, Types, DataTypes
<1>5. ASSUME Tidy PROVE Shape(f)'
  <2>1. dir[f].has = {"upper"} /\ dir[f].temps = {}
    BY <1>1, <1>5 DEF Tidy, Shape
  <2>2. dir'[f].there /\ dir'[f].has = {"upper", "work"} /\ dir'[f].temps = {}
    BY <1>3, <2>1 DEF Leaves
  <2>3. QED
    BY <1>1, <1>2, <2>2 DEF Shape
<1>6. Tidy => Tidy'
  BY <1>1, <1>2, <1>3, <1>5, OwnDir DEF MkWork, Leaves, Past, bounds
<1>7. QED
  BY <1>4, <1>6

LEMMA RmDirKept == ASSUME Types, NEW f \in Fork, RmDir(f) PROVE Types' /\ (Tidy => Tidy')
<1>1. pc[f] = "rmdir" /\ Live(f) /\ f \in Proc /\ Goto(f, "failed") /\ pc'[f] = "failed"
  BY DEF RmDir, Live, Ended, Proc, Goto, Types, CommandTypes
<1>2. CASE dir[f].has = {}
  <2>1. Leaves(f, Gone.there, {}, {}) /\ dir'[f] = Gone
    BY <1>2, SetDir DEF RmDir
  <2>2. Types'
    BY <1>1, <2>1, TypesOn DEF RmDir, Leaves, ForkLabels, listing, bounds, Types, DataTypes
  <2>3. Shape(f)'
    BY <1>1, <2>1 DEF Shape
  <2>4. Tidy => Tidy'
    BY <1>1, <2>1, <2>3, OwnDir DEF RmDir, Leaves, Past, bounds
  <2>5. QED
    BY <2>2, <2>4
<1>3. CASE dir[f].has # {}
  <2>1. DirTypes' /\ dir' = dir
    BY <1>3 DEF RmDir, Types, DirTypes
  <2>2. Types'
    BY <1>1, <2>1, TypesOn DEF RmDir, ForkLabels, listing, bounds, Types, DataTypes
  <2>3. ~Tidy
    <3>1. Made.has = {}
      BY DEF Made, Gone
    <3>2. QED
      BY <1>1, <1>3, <3>1 DEF Tidy, Shape
  <2>4. QED
    BY <2>2, <2>3
<1>4. QED
  BY <1>2, <1>3

LEMMA UndoKept == ASSUME Types, NEW f \in Fork, Undo(f) PROVE Types' /\ (Tidy => Tidy')
<1>1. pc[f] = "undo" /\ Live(f) /\ f \in Proc /\ pc' = pc
  BY DEF Undo, Live, Ended, Proc
<1>2. Goto(f, "undo")
  BY <1>1 DEF Goto, Types, CommandTypes
<1>3. PICK x : \/ dir' = [dir EXCEPT ![f].has = @ \ {x}]
               \/ dir' = [dir EXCEPT ![f].temps = @ \ {x}]
  BY DEF Undo
<1>4. \/ Leaves(f, dir[f].there, dir[f].has \ {x}, dir[f].temps)
      \/ Leaves(f, dir[f].there, dir[f].has, dir[f].temps \ {x})
  BY <1>3, TakeDir
<1>5. Types'
  BY <1>1, <1>2, <1>4, TypesOn DEF Undo, Leaves, ForkLabels, listing, bounds, Types, DataTypes
<1>6. ASSUME Tidy PROVE Shape(f)'
  BY <1>1, <1>4, <1>6 DEF Tidy, Shape, Leaves
<1>7. Tidy => Tidy'
  BY <1>1, <1>2, <1>4, <1>6, OwnDir DEF Undo, Leaves, Past, bounds
<1>8. QED
  BY <1>5, <1>7

LEMMA UndoneKept == ASSUME Types, NEW f \in Fork, Undone(f) PROVE Types' /\ (Tidy => Tidy')
<1>1. pc[f] = "undo" /\ Live(f) /\ f \in Proc /\ Goto(f, "failed") /\ pc'[f] = "failed"
  BY DEF Undone, Live, Ended, Proc, Goto, Types, CommandTypes
<1>2. Leaves(f, Gone.there, {}, {}) /\ dir'[f] = Gone
  BY SetDir DEF Undone
<1>3. Types'
  BY <1>1, <1>2, TypesOn DEF Undone, Leaves, ForkLabels, listing, bounds, Types, DataTypes
<1>4. Shape(f)'
  BY <1>1, <1>2 DEF Shape
<1>5. Tidy => Tidy'
  BY <1>1, <1>2, <1>4, OwnDir DEF Undone, Leaves, Past, bounds
<1>6. QED
  BY <1>3, <1>5

\* List, Visit and Checked leave the directories alone.
LEMMA ListKept == ASSUME Types, NEW f \in Fork, List(f) PROVE Types' /\ (Tidy => Tidy')
<1> DEFINE l == IF pc[f] = "before" THEN "pre" ELSE "post"
<1>1. /\ pc[f] \in {"before", "again"} /\ Live(f) /\ f \in Proc /\ Goto(f, l) /\ pc'[f] = l
      /\ dir' = dir /\ file' = file /\ name' = name /\ on' = on /\ pid' = pid /\ cut' = cut
      /\ \A q \in Proc : q # f => pc'[q] = pc[q]
  BY DEF List, Live, Ended, Proc, Goto, Types, CommandTypes, given, bounds
<1>2. PICK S \in SUBSET Fork : There \subseteq S /\ todo' = [todo EXCEPT ![f] = S]
  BY DEF List
<1>3. /\ todo' \in [Fork -> SUBSET Fork] /\ todo'[f] = S
      /\ \A g \in Fork : g # f => todo'[g] = todo[g]
  BY <1>2 DEF Types, DataTypes
<1>4. /\ hits' \in [Fork -> SUBSET Fork] /\ hits'[f] = {}
      /\ \A g \in Fork : g # f => hits'[g] = hits[g]
  BY DEF List, Types, DataTypes
<1>5. Types'
  <2>1. DirTypes' /\ l \in ForkLabels
    BY <1>1 DEF Types, DirTypes, ForkLabels
  <2>2. QED
    BY <1>1, <1>3, <1>4, <2>1, TypesOn DEF given
<1>6. ASSUME Tidy PROVE Tidy'
  <2>1. Own(f)
    BY <1>1, <1>3, <1>4 DEF Own
  <2>2. Shape(f)'
    BY <1>1, <1>6 DEF Tidy, Shape, Listed
  <2>3. \A g \in Fork : Listed(g) \/ dir[g].there => g \in S
    BY <1>2, DirRecord DEF There, Listed, Gone
  <2>4. NotAnId(f)'
    <3>1. CASE name[f] \notin Fork
      BY <1>1, <3>1 DEF NotAnId
    <3>2. CASE name[f] \in Fork
      <4>1. name[f] # f /\ pc[name[f]] = "ok" /\ pc'[name[f]] = "ok"
        BY <1>1, <1>6, <3>2 DEF Tidy, NotAnId, Proc
      <4>2. CASE pc[f] = "again"
        BY <1>1, <1>6, <3>2, <4>1, <4>2 DEF Tidy, NotAnId
      <4>3. CASE pc[f] = "before"
        <5>1. dir[name[f]] = Gone \/ name[f] \in todo'[f]
          BY <1>3, <2>3, <3>2, DirRecord
        <5>2. QED
          BY <1>1, <3>2, <4>1, <4>3, <5>1 DEF NotAnId
      <4>4. QED
        BY <1>1, <4>2, <4>3
    <3>3. QED
      BY <3>1, <3>2
  <2>5. \A g \in Fork : OneSees(f, g)'
    BY <1>1, <1>3, <2>3 DEF OneSees, Sees, Listed, Past
  <2>6. QED
    BY <1>1, <1>6, <2>1, <2>2, <2>4, <2>5, OwnStep
<1>7. QED
  BY <1>5, <1>6

LEMMA VisitKept == ASSUME Types, NEW f \in Fork, Visit(f) PROVE Types' /\ (Tidy => Tidy')
<1>1. /\ pc[f] \in {"pre", "post"} /\ Live(f) /\ f \in Proc /\ pc' = pc
      /\ dir' = dir /\ file' = file /\ name' = name /\ on' = on /\ pid' = pid /\ cut' = cut
  BY DEF Visit, Live, Ended, Proc, given, bounds
<1>2. PICK v \in todo[f] :
        /\ todo' = [todo EXCEPT ![f] = @ \ {v}]
        /\ hits' = [hits EXCEPT ![f] = IF Clash(f, v) THEN @ \cup {v} ELSE @]
  BY DEF Visit
<1>3. /\ todo' \in [Fork -> SUBSET Fork] /\ todo'[f] = todo[f] \ {v}
      /\ \A g \in Fork : g # f => todo'[g] = todo[g]
  BY <1>2 DEF Types, DataTypes
<1>4. /\ hits' \in [Fork -> SUBSET Fork]
      /\ hits[f] \subseteq hits'[f] /\ (Clash(f, v) => v \in hits'[f])
      /\ \A g \in Fork : g # f => hits'[g] = hits[g]
  BY <1>2 DEF Types, DataTypes
<1>5. Types'
  <2>1. DirTypes' /\ Goto(f, pc[f]) /\ pc[f] \in ForkLabels
    BY <1>1 DEF Types, DirTypes, CommandTypes, Goto
  <2>2. QED
    BY <1>1, <1>3, <1>4, <2>1, TypesOn DEF given
<1>6. ASSUME Tidy PROVE Tidy'
  <2>1. Own(f)
    BY <1>1, <1>3, <1>4 DEF Own
  <2>2. Shape(f)'
    BY <1>1, <1>6 DEF Tidy, Shape, Listed
  <2>3. NotAnId(f)'
    <3>1. CASE name[f] \notin Fork
      BY <1>1, <3>1 DEF NotAnId
    <3>2. CASE name[f] \in Fork
      <4>1. /\ name[f] # f /\ pc[name[f]] = "ok"
            /\ dir[name[f]] = Gone \/ (pc[f] = "pre" /\ name[f] \in todo[f] \cup hits[f])
        BY <1>1, <1>6, <3>2 DEF Tidy, NotAnId
      <4>2. dir[name[f]] = Gone \/ Listed(name[f])
        BY <1>6, <3>2, <4>1 DEF Tidy, Shape, Listed, File
      <4>3. CASE dir[name[f]] = Gone
        BY <1>1, <4>1, <4>3 DEF NotAnId
      <4>4. CASE pc[f] = "pre" /\ name[f] \in todo[f] \cup hits[f] /\ Listed(name[f])
        <5>1. name[f] \in todo'[f] \cup hits'[f]
          BY <1>3, <1>4, <4>4 DEF Clash
        <5>2. QED
          BY <1>1, <4>1, <4>4, <5>1 DEF NotAnId
      <4>5. QED
        BY <4>1, <4>2, <4>3, <4>4
    <3>3. QED
      BY <3>1, <3>2
  <2>4. ASSUME NEW g \in Fork PROVE OneSees(f, g)'
    <3>1. SUFFICES ASSUME f # g, name[f] = name[g], {pc[f], pc[g]} \subseteq Past, Listed(f), Listed(g)
                   PROVE  Sees(f, g)' \/ Sees(g, f)'
      BY <1>1 DEF OneSees, Listed
    <3>2. Sees(f, g) \/ Sees(g, f)
      BY <1>6, <3>1 DEF Tidy, OneSees
    <3>3. CASE Sees(f, g)
      <4>1. g \in todo'[f] \cup hits'[f]
        BY <1>3, <1>4, <3>1, <3>3 DEF Clash, Sees
      <4>2. QED
        BY <1>1, <3>3, <4>1 DEF Sees
    <3>4. CASE Sees(g, f)
      BY <1>1, <1>3, <1>4, <3>1, <3>4 DEF Sees
    <3>5. QED
      BY <3>2, <3>3, <3>4
  <2>5. QED
    BY <1>1, <1>6, <2>1, <2>2, <2>3, <2>4, OwnStep
<1>7. QED
  BY <1>5, <1>6

LEMMA CheckedKept == ASSUME Types, NEW f \in Fork, Checked(f) PROVE Types' /\ (Tidy => Tidy')
<1> DEFINE l == IF hits[f] = {} THEN IF pc[f] = "pre" THEN "upper" ELSE "fine"
                ELSE IF pc[f] = "pre" THEN "rmdir" ELSE "undo"
<1>1. /\ pc[f] \in {"pre", "post"} /\ todo[f] = {} /\ Live(f) /\ f \in Proc
      /\ Goto(f, l) /\ pc'[f] = l /\ \A q \in Proc : q # f => pc'[q] = pc[q]
      /\ dir' = dir /\ file' = file /\ name' = name /\ on' = on /\ pid' = pid /\ cut' = cut
      /\ todo' = todo /\ hits' = hits
  BY DEF Checked, Live, Ended, Proc, Goto, Types, CommandTypes, given, listing, bounds
<1>2. Types'
  <2>1. DirTypes' /\ l \in ForkLabels
    BY <1>1 DEF Types, DirTypes, ForkLabels
  <2>2. QED
    BY <1>1, <2>1, TypesOn DEF given, Types, DataTypes
<1>3. ASSUME Tidy PROVE Tidy'
  <2>1. Own(f)
    BY <1>1 DEF Own
  <2>2. Shape(f)'
    BY <1>1, <1>3 DEF Tidy, Shape, Listed
  <2>3. NotAnId(f)'
    <3>1. CASE name[f] \notin Fork
      BY <1>1, <3>1 DEF NotAnId
    <3>2. CASE name[f] \in Fork
      BY <1>1, <1>3, <3>2 DEF Tidy, NotAnId, Proc
    <3>3. QED
      BY <3>1, <3>2
  <2>4. \A g \in Fork : OneSees(f, g)'
    BY <1>1, <1>3 DEF Tidy, OneSees, Sees, Listed, Past, Proc
  <2>5. QED
    BY <1>1, <1>3, <2>1, <2>2, <2>3, <2>4, OwnStep
<1>4. QED
  BY <1>2, <1>3

-----------------------------------------------------------------------------
(* What a step of an apply can disturb                                     *)

\* Everything but the directory and the file of the worktree apply a works on.
Beside(a) ==
  /\ name' = name /\ todo' = todo /\ hits' = hits /\ on' = on
  /\ \A q \in Proc : q # a => pc'[q] = pc[q] /\ file'[q] = file[q] /\ cut'[q] = cut[q]
  /\ \A g \in Fork : g # on[a] => dir'[g] = dir[g]

\* The worktree of an apply stays listed and complete, and the temporary files of
\* others stay.
LEMMA ApplyStep ==
  ASSUME Types, Tidy, NEW a \in Apply, Live(a), Beside(a),
         dir'[on[a]].there, dir[on[a]].has \ {"upper"} \subseteq dir'[on[a]].has,
         \A b \in Apply : b # a /\ Live(b) /\ b \in dir[on[a]].temps => b \in dir'[on[a]].temps,
         pc'[a] = "rename" => a \in dir'[on[a]].temps
  PROVE  Tidy'
<1> DEFINE f == on[a]
<1>1. /\ f \in Fork /\ pc[f] \in {"ok", "dead"} /\ Listed(f)
      /\ pc'[f] = pc[f] /\ cut'[f] = cut[f]
  BY Sorts DEF Tidy, OnListed, Types, CommandTypes, Beside, Proc
<1>2. Listed(f)' /\ ("manifest" \in dir[f].has => "manifest" \in dir'[f].has)
  BY <1>1 DEF Listed, Beside
<1>3. \A g \in Fork : g # f => dir'[g] = dir[g]
  BY DEF Beside
<1>4. \A g \in Fork : pc'[g] = pc[g] /\ file'[g] = file[g] /\ cut'[g] = cut[g]
  BY Sorts DEF Beside, Proc
<1>5. ASSUME NEW g \in Fork PROVE Shape(g)'
  <2>1. CASE g = f
    <3>1. Shape(f)
      BY <1>1 DEF Tidy
    <3>2. dir[f] # Gone
      BY <1>1 DEF Listed, Gone
    <3>3. pc[f] = "ok" => File \subseteq dir'[f].has
      BY <1>1, <1>2, <3>1, <3>2 DEF Shape, File, Listed
    <3>4. pc[f] = "dead" => "meta" \in dir'[f].has /\ ("manifest" \in dir'[f].has \/ cut[f] = "undo")
      BY <1>1, <1>2, <3>1 DEF Shape, Listed
    <3>5. QED
      BY <1>1, <2>1, <3>3, <3>4 DEF Shape, Beside
  <2>2. CASE g # f
    <3>1. Shape(g) /\ dir'[g] = dir[g]
      BY <1>3, <2>2 DEF Tidy
    <3>2. QED
      BY <1>4, <3>1 DEF Shape, Listed
  <2>3. QED
    BY <2>1, <2>2
<1>6. ASSUME NEW b \in Apply PROVE OnListed(b)'
  <2>1. on' = on
    BY DEF Beside
  <2>2. CASE b = a
    BY <1>1, <1>2, <2>1, <2>2 DEF OnListed
  <2>3. CASE b # a
    <3>1. OnListed(b) /\ pc'[b] = pc[b]
      BY <2>3 DEF Tidy, Beside, Proc
    <3>2. CASE Live(b)
      <4>1. on[b] \in Fork /\ Listed(on[b])
        BY <3>1, <3>2 DEF OnListed, Types, CommandTypes
      <4>2. Listed(on[b])' /\ pc'[on[b]] = pc[on[b]]
        BY <1>2, <1>3, <1>4, <2>1, <4>1 DEF Listed
      <4>3. pc[b] = "rename" => b \in dir'[on[b]].temps
        BY <1>3, <2>3, <3>1, <3>2, <4>1 DEF OnListed
      <4>4. QED
        BY <2>1, <3>1, <3>2, <4>2, <4>3 DEF OnListed, Listed, Live
    <3>3. CASE ~Live(b)
      BY <3>1, <3>3 DEF OnListed, Live, Ended
    <3>4. QED
      BY <3>2, <3>3
  <2>4. QED
    BY <2>2, <2>3
<1>7. ASSUME NEW g \in Fork PROVE NotAnId(g)'
  <2>1. NotAnId(g) /\ name' = name /\ todo' = todo /\ hits' = hits
    BY DEF Tidy, Beside
  <2>2. dir[name[g]] = Gone => name[g] # f
    BY <1>1 DEF Listed, Gone
  <2>3. QED
    BY <1>3, <1>4, <2>1, <2>2 DEF NotAnId
<1>8. ASSUME NEW g \in Fork, NEW h \in Fork PROVE OneSees(g, h)'
  <2>1. OneSees(g, h) /\ name' = name /\ todo' = todo /\ hits' = hits
    BY DEF Tidy, Beside
  <2>2. (Listed(g)' => Listed(g)) /\ (Listed(h)' => Listed(h))
    BY <1>1, <1>3 DEF Listed
  <2>3. QED
    BY <1>4, <2>1, <2>2 DEF OneSees, Sees
<1>9. QED
  BY <1>5, <1>6, <1>7, <1>8 DEF Tidy

-----------------------------------------------------------------------------
(* The steps of apply                                                      *)

LEMMA FinalizeTidy == ASSUME Types, Tidy, Careful, NEW a \in Apply, Finalize(a) PROVE Tidy'
<1>1. PICK f \in Fork : Listed(f) /\ pc[f] \in Ended /\ on' = [on EXCEPT ![a] = f]
  BY DEF Finalize
<1>2. on'[a] = f /\ \A b \in Apply : b # a => on'[b] = on[b]
  BY <1>1 DEF Types, CommandTypes
<1>3. /\ pc'[a] = "sweep" /\ \A q \in Proc : q # a => pc'[q] = pc[q] /\ file'[q] = file[q]
      /\ dir' = dir /\ name' = name /\ todo' = todo /\ hits' = hits /\ cut' = cut
  BY DEF Finalize, Write, Goto, Types, CommandTypes, DataTypes, Proc, listing, bounds
<1>4. pc[f] \in {"ok", "dead"} /\ f # a
  <2>1. dir[f] # Gone /\ Shape(f) /\ f \in Proc
    BY <1>1 DEF Listed, Gone, Tidy, Proc
  <2>2. QED
    BY <1>1, <2>1, Sorts DEF Shape, Ended
<1>5. \A g \in Fork : pc'[g] = pc[g] /\ file'[g] = file[g]
  BY <1>3, Sorts DEF Proc
<1>6. \A g \in Fork : Shape(g)'
  BY <1>3, <1>5 DEF Tidy, Shape, Listed
<1>7. ASSUME NEW b \in Apply PROVE OnListed(b)'
  <2>1. CASE b = a
    BY <1>1, <1>2, <1>3, <1>4, <1>5, <2>1 DEF OnListed, Listed
  <2>2. CASE b # a
    <3>1. OnListed(b) /\ pc'[b] = pc[b] /\ on'[b] = on[b]
      BY <1>2, <1>3, <2>2 DEF Tidy, Proc
    <3>2. Live(b) => on[b] \in Fork
      BY DEF Types, CommandTypes
    <3>3. QED
      BY <1>3, <1>5, <3>1, <3>2 DEF OnListed, Listed, Live, Ended
  <2>3. QED
    BY <2>1, <2>2
<1>8. \A g \in Fork : NotAnId(g)'
  BY <1>3, <1>5 DEF Tidy, NotAnId
<1>9. \A g, h \in Fork : OneSees(g, h)'
  BY <1>3, <1>5 DEF Tidy, OneSees, Sees, Listed
<1>10. QED
  BY <1>6, <1>7, <1>8, <1>9 DEF Tidy

LEMMA ResetKept == ASSUME Types, NEW a \in Apply, Reset(a) PROVE Types' /\ (Tidy => Tidy')
<1>1. pc[a] = "reset" /\ Live(a) /\ a \in Proc /\ a \notin Fork /\ Goto(a, "create")
  BY Sorts DEF Reset, Live, Ended, Proc
<1>2. pc'[a] = "create" /\ \A q \in Proc : q # a => pc'[q] = pc[q]
  BY <1>1 DEF Goto, Types, CommandTypes
<1> DEFINE f == on[a]
           d == [dir[f] EXCEPT !.has = @ \ {"upper"}]
<1>3. f \in Fork
  BY <1>1 DEF Types, CommandTypes
<1>4. d \in Dir /\ d.there = dir[f].there /\ d.has = dir[f].has \ {"upper"} /\ d.temps = dir[f].temps
  BY <1>3, DirRecord DEF Dir
<1>5. dir' = [dir EXCEPT ![f] = d]
  BY DEF Reset
<1> HIDE DEF d
<1>6. Leaves(f, d.there, d.has, d.temps)
  BY <1>3, <1>4, <1>5, Settles
<1>7. Types'
  BY <1>1, <1>6, TypesOn DEF Reset, Leaves, ApplyLabels, listing, bounds, Types, DataTypes
<1>8. ASSUME Tidy PROVE Tidy'
  <2>1. Beside(a)
    BY <1>2, <1>6 DEF Reset, Beside, Leaves, given, listing, bounds
  <2>2. dir[f].there
    <3>1. Listed(f)
      BY <1>1, <1>8 DEF Tidy, OnListed
    <3>2. QED
      BY <1>3, <3>1, DirRecord DEF Listed, Gone
  <2>3. QED
    BY <1>1, <1>2, <1>4, <1>6, <1>8, <2>1, <2>2, ApplyStep DEF Leaves
<1>9. QED
  BY <1>7, <1>8

LEMMA CreateKept == ASSUME Types, NEW a \in Apply, Create(a) PROVE Types' /\ (Tidy => Tidy')
<1>1. pc[a] = "create" /\ Live(a) /\ a \in Proc /\ a \notin Fork /\ Goto(a, "sweep")
  BY Sorts DEF Create, Write, Live, Ended, Proc
<1>2. pc'[a] = "sweep" /\ \A q \in Proc : q # a => pc'[q] = pc[q]
  BY <1>1 DEF Goto, Types, CommandTypes
<1>3. file' = [file EXCEPT ![a] = "meta"] /\ "meta" \in File
  BY DEF Create, Write, File
<1> DEFINE f == on[a]
<1>4. f \in Fork
  BY <1>1 DEF Types, CommandTypes
<1>5. Leaves(f, TRUE, dir[f].has \cup {"upper"}, dir[f].temps)
  BY <1>4, MakeDir DEF Create, Part
<1>6. Types'
  BY <1>1, <1>3, <1>5, TypesOn DEF Create, Leaves, ApplyLabels, listing, bounds, Types, DataTypes
<1>7. ASSUME Tidy PROVE Tidy'
  <2>1. \A q \in Proc : q # a => file'[q] = file[q]
    BY <1>3 DEF Types, DataTypes
  <2>2. Beside(a)
    BY <1>2, <1>5, <2>1 DEF Create, Beside, Leaves, given, listing, bounds
  <2>3. QED
    BY <1>1, <1>2, <1>5, <1>7, <2>2, ApplyStep DEF Leaves
<1>8. QED
  BY <1>6, <1>7

-----------------------------------------------------------------------------
(* Writing a file: sweep, temporary file, rename                           *)

LEMMA SweepKept == ASSUME Types, NEW p \in Proc, Sweep(p) PROVE Types' /\ (Tidy => Tidy')
<1> DEFINE f == Place(p)
<1>1. pc[p] = "sweep" /\ Live(p) /\ Goto(p, "temp")
  BY DEF Sweep, Live, Ended
<1>2. pc'[p] = "temp" /\ \A q \in Proc : q # p => pc'[q] = pc[q]
  BY <1>1 DEF Goto, Types, CommandTypes
<1>3. f \in Fork /\ Leaves(f, dir[f].there, dir[f].has, dir[f].temps \ Stale(p))
  BY SweepDir
<1>4. Types'
  BY <1>1, <1>3, TypesOn DEF Sweep, Leaves, ForkLabels, ApplyLabels, listing, bounds, Types, DataTypes
<1>5. CASE p \in Fork
  <2>1. f = p
    BY <1>5 DEF Place
  <2>2. ASSUME Tidy PROVE Shape(p)'
    <3>1. dir[p].temps \ Stale(p) = dir[p].temps
      BY <1>1, <1>5, <2>2 DEF Tidy, Shape
    <3>2. /\ dir'[p].there = dir[p].there /\ dir'[p].has = dir[p].has
          /\ dir'[p].temps = dir[p].temps /\ file' = file
      BY <1>3, <2>1, <3>1 DEF Leaves, Sweep
    <3>3. QED
      BY <1>1, <1>2, <1>5, <2>2, <3>2 DEF Tidy, Shape
  <2>3. Tidy => Tidy'
    BY <1>1, <1>3, <1>5, <2>1, <2>2, OwnDir DEF Sweep, Leaves, Past, bounds
  <2>4. QED
    BY <1>4, <2>3
<1>6. CASE p \in Apply
  <2>1. f = on[p] /\ p \notin Fork
    BY <1>6, Sorts DEF Place, Proc
  <2>2. ASSUME Tidy PROVE Tidy'
    <3>1. Beside(p)
      BY <1>2, <1>3, <2>1 DEF Sweep, Beside, Leaves, given, listing, bounds
    <3>2. dir[f].there
      <4>1. Listed(f)
        BY <1>1, <1>6, <2>1, <2>2 DEF Tidy, OnListed
      <4>2. QED
        BY <1>3, <4>1, DirRecord DEF Listed, Gone
    <3>3. \A b \in Apply : Live(b) => b \notin Stale(p)
      BY DEF Stale, Alive, Live, Proc
    <3>4. QED
      BY <1>1, <1>2, <1>3, <1>6, <2>1, <2>2, <3>1, <3>2, <3>3, ApplyStep DEF Leaves
  <2>3. QED
    BY <1>4, <2>2
<1>7. QED
  BY <1>5, <1>6 DEF Proc

LEMMA TempKept == ASSUME Types, NEW p \in Proc, Temp(p) PROVE Types' /\ (Tidy => Tidy')
<1> DEFINE f == Place(p)
           l == IF p \in Fork THEN "undo" ELSE "fail"
<1>1. pc[p] = "temp" /\ Live(p)
  BY DEF Temp, Live, Ended
<1>2. f \in Fork
  BY <1>1, Places
<1>3. CASE ~dir[f].there
  <2>1. dir' = dir /\ Goto(p, l)
    BY <1>3, TempDir DEF WriteFails
  <2>2. Types'
    BY <1>1, <2>1, TypesOn DEF Temp, ForkLabels, ApplyLabels, listing, bounds, Types, DataTypes, DirTypes
  <2>3. ~Tidy
    <3>1. CASE p \in Fork
      BY <1>1, <1>3, <3>1 DEF Tidy, Shape, Place
    <3>2. CASE p \in Apply
      <4>1. Tidy => Listed(f)
        BY <1>1, <3>2, Sorts DEF Tidy, OnListed, Place, Proc
      <4>2. QED
        BY <1>2, <1>3, <4>1, DirRecord DEF Listed, Gone
    <3>3. QED
      BY <3>1, <3>2 DEF Proc
  <2>4. QED
    BY <2>2, <2>3
<1>4. CASE dir[f].there
  <2>1. Leaves(f, TRUE, dir[f].has, dir[f].temps \cup {p}) /\ Goto(p, "rename")
    BY <1>4, TempDir
  <2>2. pc'[p] = "rename" /\ \A q \in Proc : q # p => pc'[q] = pc[q]
    BY <2>1 DEF Goto, Types, CommandTypes
  <2>3. Types'
    BY <1>1, <2>1, TypesOn DEF Temp, Leaves, ForkLabels, ApplyLabels, listing, bounds, Types, DataTypes
  <2>4. CASE p \in Fork
    <3>1. f = p
      BY <2>4 DEF Place
    <3>2. ASSUME Tidy PROVE Shape(p)'
      <4>1. dir[p].temps \cup {p} = {p}
        BY <1>1, <2>4, <3>2 DEF Tidy, Shape
      <4>2. dir'[p].there /\ dir'[p].has = dir[p].has /\ dir'[p].temps = {p} /\ file' = file
        BY <2>1, <3>1, <4>1 DEF Leaves, Temp
      <4>3. QED
        BY <1>1, <2>2, <2>4, <3>2, <4>2 DEF Tidy, Shape
    <3>3. Tidy => Tidy'
      BY <1>1, <2>1, <2>4, <3>1, <3>2, OwnDir DEF Temp, Leaves, Past, bounds
    <3>4. QED
      BY <2>3, <3>3
  <2>5. CASE p \in Apply
    <3>1. f = on[p] /\ p \notin Fork
      BY <2>5, Sorts DEF Place, Proc
    <3>2. Beside(p)
      BY <2>1, <2>2, <3>1 DEF Temp, Beside, Leaves, given, listing, bounds
    <3>3. Tidy => Tidy'
      BY <1>1, <2>1, <2>5, <3>1, <3>2, ApplyStep DEF Leaves
    <3>4. QED
      BY <2>3, <3>3
  <2>6. QED
    BY <2>4, <2>5 DEF Proc
<1>5. QED
  BY <1>3, <1>4

\* Where a command goes after its file is in place.
LEMMA Afterwards ==
  ASSUME Types, NEW p \in Proc, pc[p] = "rename", AfterWrite(p)
  PROVE  \E l : /\ Goto(p, l) /\ pc'[p] = l /\ \A q \in Proc : q # p => pc'[q] = pc[q]
                /\ IF p \in Fork THEN l \in {"sweep", "again"} ELSE l \in {"reset", "fine"}
                /\ p \in Fork => \/ l = "sweep" /\ file[p] = "manifest" /\ file'[p] = "meta"
                                 \/ l = "again" /\ file[p] = "meta"
                /\ file' = file \/ \E x \in File : file' = [file EXCEPT ![p] = x]
                /\ \A q \in Proc : q # p => file'[q] = file[q]
<1>1. file[p] \in File
  BY DEF Types, DataTypes
<1>2. CASE file[p] = "manifest" /\ p \in Apply
  <2>1. Goto(p, "reset") /\ file' = file /\ p \notin Fork
    BY <1>2, Sorts DEF AfterWrite
  <2>2. pc'[p] = "reset" /\ \A q \in Proc : q # p => pc'[q] = pc[q]
    BY <2>1 DEF Goto, Types, CommandTypes
  <2>3. QED
    BY <2>1, <2>2
<1>3. CASE file[p] = "manifest" /\ p \notin Apply
  <2>1. Goto(p, "sweep") /\ file' = [file EXCEPT ![p] = "meta"] /\ p \in Fork
    BY <1>3 DEF AfterWrite, Write, Proc
  <2>2. pc'[p] = "sweep" /\ \A q \in Proc : q # p => pc'[q] = pc[q]
    BY <2>1 DEF Goto, Types, CommandTypes
  <2>3. file'[p] = "meta" /\ \A q \in Proc : q # p => file'[q] = file[q]
    BY <2>1 DEF Types, DataTypes
  <2>4. QED
    BY <1>3, <2>1, <2>2, <2>3 DEF File
<1>4. CASE file[p] = "meta"
  <2> DEFINE l == IF p \in Fork THEN "again" ELSE "fine"
  <2>1. Goto(p, l) /\ file' = file
    BY <1>4 DEF AfterWrite
  <2>2. pc'[p] = l /\ \A q \in Proc : q # p => pc'[q] = pc[q]
    BY <2>1 DEF Goto, Types, CommandTypes
  <2>3. QED
    BY <1>4, <2>1, <2>2
<1>5. QED
  BY <1>1, <1>2, <1>3, <1>4 DEF File

LEMMA RenameKept == ASSUME Types, NEW p \in Proc, Rename(p) PROVE Types' /\ (Tidy => Tidy')
<1> DEFINE f == Place(p)
<1>1. pc[p] = "rename" /\ Live(p)
  BY DEF Rename, Live, Ended
<1>2. f \in Fork
  BY <1>1, Places
<1>3. CASE p \notin dir[f].temps
  <2> DEFINE l == IF p \in Fork THEN "undo" ELSE "fail"
  <2>1. dir' = dir /\ file' = file /\ Goto(p, l)
    BY <1>3, RenameDir DEF WriteFails
  <2>2. Types'
    BY <1>1, <2>1, TypesOn DEF Rename, ForkLabels, ApplyLabels, listing, bounds, Types, DataTypes, DirTypes
  <2>3. ~Tidy
    <3>1. CASE p \in Fork
      BY <1>1, <1>3, <3>1 DEF Tidy, Shape, Place
    <3>2. CASE p \in Apply
      BY <1>1, <1>3, <3>2, Sorts DEF Tidy, OnListed, Place, Proc
    <3>3. QED
      BY <3>1, <3>2 DEF Proc
  <2>4. QED
    BY <2>2, <2>3
<1>4. CASE p \in dir[f].temps
  <2>1. AfterWrite(p) /\ Leaves(f, TRUE, dir[f].has \cup {file[p]}, dir[f].temps \ {p})
    BY <1>4, RenameDir
  <2>2. PICK l :
          /\ Goto(p, l) /\ pc'[p] = l /\ \A q \in Proc : q # p => pc'[q] = pc[q]
          /\ IF p \in Fork THEN l \in {"sweep", "again"} ELSE l \in {"reset", "fine"}
          /\ p \in Fork => \/ l = "sweep" /\ file[p] = "manifest" /\ file'[p] = "meta"
                           \/ l = "again" /\ file[p] = "meta"
          /\ file' = file \/ \E x \in File : file' = [file EXCEPT ![p] = x]
          /\ \A q \in Proc : q # p => file'[q] = file[q]
    BY <1>1, <2>1, Afterwards
  <2>3. Types'
    BY <1>1, <2>1, <2>2, TypesOn DEF Rename, Leaves, ForkLabels, ApplyLabels, listing, bounds, Types, DataTypes
  <2>4. CASE p \in Fork
    <3>1. f = p /\ file[p] \in File
      BY <2>4 DEF Place, Types, DataTypes
    <3>2. ASSUME Tidy PROVE Shape(p)'
      <4>1. /\ {"upper", "work"} \subseteq dir[p].has /\ dir[p].has \subseteq Part
            /\ dir[p].temps = {p} /\ "meta" \notin dir[p].has
            /\ ("manifest" \in dir[p].has <=> file[p] = "meta")
        BY <1>1, <2>4, <3>2, DirRecord DEF Tidy, Shape
      <4>2. dir'[p].there /\ dir'[p].has = dir[p].has \cup {file[p]} /\ dir'[p].temps = {}
        BY <2>1, <3>1, <4>1 DEF Leaves
      <4>3. CASE l = "sweep"
        BY <2>2, <2>4, <4>1, <4>2, <4>3 DEF Shape
      <4>4. CASE l = "again"
        <5>1. file[p] = "meta"
          BY <2>2, <2>4, <4>4
        <5>2. dir'[p].has = Part
          BY <4>1, <4>2, <5>1 DEF Part, File
        <5>3. QED
          BY <2>2, <4>2, <4>4, <5>2 DEF Shape
      <4>5. QED
        BY <2>2, <2>4, <4>3, <4>4
    <3>3. Tidy => Tidy'
      BY <1>1, <2>1, <2>2, <2>4, <3>1, <3>2, OwnDir DEF Rename, Leaves, Past, bounds
    <3>4. QED
      BY <2>3, <3>3
  <2>5. CASE p \in Apply
    <3>1. f = on[p] /\ p \notin Fork
      BY <2>5, Sorts DEF Place, Proc
    <3>2. Beside(p)
      BY <2>1, <2>2, <3>1 DEF Rename, Beside, Leaves, given, listing, bounds
    <3>3. Tidy => Tidy'
      BY <1>1, <2>1, <2>2, <2>5, <3>1, <3>2, ApplyStep DEF Leaves
    <3>4. QED
      BY <2>3, <3>3
  <2>6. QED
    BY <2>4, <2>5 DEF Proc
<1>5. QED
  BY <1>3, <1>4

-----------------------------------------------------------------------------
(* Endings, kills and drops                                                *)

LEMMA EndKept == ASSUME Types, NEW p \in Proc, End(p) PROVE Types' /\ (Tidy => Tidy')
<1> DEFINE l == IF pc[p] = "fine" THEN "ok" ELSE "failed"
<1>1. pc[p] \in {"fine", "fail"} /\ Live(p) /\ Goto(p, l)
  BY DEF End, Live, Ended
<1>2. /\ dir' = dir /\ file' = file /\ name' = name /\ on' = on /\ pid' = pid
      /\ todo' = todo /\ hits' = hits /\ cut' = cut
  BY DEF End, given, listing, bounds
<1>3. pc'[p] = l /\ \A q \in Proc : q # p => pc'[q] = pc[q]
  BY <1>1 DEF Goto, Types, CommandTypes
<1>4. Types'
  BY <1>1, <1>2, TypesOn DEF ForkLabels, ApplyLabels, Types, DataTypes, DirTypes, given
<1>5. CASE p \in Fork
  <2>1. pc[p] = "fine"
    BY <1>1, <1>5 DEF Types, CommandTypes, ForkLabels
  <2>2. ASSUME Tidy PROVE Tidy'
    <3>1. Own(p)
      BY <1>2, <1>3 DEF Own
    <3>2. Shape(p)'
      BY <1>2, <1>3, <1>5, <2>1, <2>2 DEF Tidy, Shape, Part
    <3>3. NotAnId(p)'
      BY <1>2, <1>5, <2>1, <2>2, <3>1, SameId
    <3>4. \A g \in Fork : OneSees(p, g)'
      BY <1>2, <1>3, <1>5, <2>1, <2>2 DEF Tidy, OneSees, Sees, Listed, Past, Proc
    <3>5. QED
      BY <1>5, <2>1, <2>2, <3>1, <3>2, <3>3, <3>4, OwnStep
  <2>3. QED
    BY <1>4, <2>2
<1>6. CASE p \in Apply
  <2>1. ASSUME Tidy PROVE Tidy'
    <3>1. Beside(p) /\ pc'[p] # "rename"
      BY <1>1, <1>2, <1>3 DEF Beside
    <3>2. Listed(on[p]) /\ on[p] \in Fork
      BY <1>1, <1>6, <2>1 DEF Tidy, OnListed, Types, CommandTypes
    <3>3. dir[on[p]].there
      BY <3>2, DirRecord DEF Listed, Gone
    <3>4. QED
      BY <1>1, <1>2, <1>6, <2>1, <3>1, <3>3, ApplyStep
  <2>2. QED
    BY <1>4, <2>1
<1>7. QED
  BY <1>5, <1>6 DEF Proc

LEMMA CrashTidy == ASSUME Types, Tidy, NEW p \in Proc, Crash(p) PROVE Tidy'
<1>1. Live(p) /\ Goto(p, "dead") /\ cut' = [cut EXCEPT ![p] = pc[p]]
  BY DEF Crash, Live
<1>2. /\ dir' = dir /\ file' = file /\ name' = name /\ on' = on /\ pid' = pid
      /\ todo' = todo /\ hits' = hits
  BY DEF Crash, given, listing
<1>3. pc'[p] = "dead" /\ \A q \in Proc : q # p => pc'[q] = pc[q]
  BY <1>1 DEF Goto, Types, CommandTypes
<1>4. cut'[p] = pc[p] /\ \A q \in Proc : q # p => cut'[q] = cut[q]
  BY <1>1 DEF Types, DataTypes
<1>5. CASE p \in Fork
  <2>1. Own(p)
    BY <1>2, <1>3, <1>4 DEF Own
  <2>2. Shape(p)'
    <3>1. Shape(p) /\ pc[p] \in ForkLabels
      BY <1>5 DEF Tidy, Types, CommandTypes
    <3>2. Made.has = {} /\ Made.temps = {} /\ Gone.has = {} /\ Gone.temps = {}
      BY DEF Made, Gone
    <3>3. dir[p].temps # {} => dir[p].has \cap {"work", "meta"} # {}
      BY <1>1, <3>1, <3>2 DEF Shape, ForkLabels, Live, Ended
    <3>4. Listed(p) => "manifest" \in dir[p].has \/ pc[p] = "undo"
      BY <1>1, <3>1, <3>2 DEF Shape, ForkLabels, Live, Ended, Listed, Part, File
    <3>5. QED
      BY <1>2, <1>3, <1>4, <3>3, <3>4 DEF Shape, Listed
  <2>3. NotAnId(p)' /\ \A g \in Fork : OneSees(p, g)'
    BY <1>3, NotPast DEF NotAnId, Past
  <2>4. QED
    BY <1>1, <1>5, <2>1, <2>2, <2>3, OwnStep DEF Live, Ended
<1>6. CASE p \in Apply
  <2>1. Beside(p) /\ pc'[p] # "rename"
    BY <1>2, <1>3, <1>4 DEF Beside
  <2>2. Listed(on[p]) /\ on[p] \in Fork
    BY <1>1, <1>6 DEF Tidy, OnListed, Types, CommandTypes
  <2>3. dir[on[p]].there
    BY <2>2, DirRecord DEF Listed, Gone
  <2>4. QED
    BY <1>1, <1>2, <1>6, <2>1, <2>3, ApplyStep
<1>7. QED
  BY <1>5, <1>6 DEF Proc

LEMMA DropTypes == ASSUME Types, NEW f \in Fork, Drop(f) PROVE Types'
<1>1. DirTypes'
  BY SetDir DEF Drop, Leaves
<1>2. QED
  BY <1>1 DEF Drop, Types, CommandTypes, DataTypes, Live, given, listing

LEMMA DropTidy == ASSUME Types, Tidy, Careful, NEW f \in Fork, Drop(f) PROVE Tidy'
<1>1. Quiet(f) /\ dir'[f] = Gone /\ \A g \in Fork : g # f => dir'[g] = dir[g]
  BY SetDir DEF Drop, Leaves
<1>2. /\ pc' = pc /\ file' = file /\ name' = name /\ on' = on /\ cut' = cut
      /\ todo' = todo /\ hits' = hits
  BY DEF Drop, given, listing
<1>3. Gone.has = {} /\ Gone.temps = {}
  BY DEF Gone
<1>4. ASSUME NEW g \in Fork PROVE Shape(g)'
  <2>1. Shape(g)
    BY DEF Tidy
  <2>2. CASE g = f
    BY <1>1, <1>2, <1>3, <2>2 DEF Quiet, Ended, Shape, Listed
  <2>3. CASE g # f
    BY <1>1, <1>2, <2>1, <2>3 DEF Shape, Listed
  <2>4. QED
    BY <2>2, <2>3
<1>5. ASSUME NEW a \in Apply PROVE OnListed(a)'
  <2>1. OnListed(a)
    BY DEF Tidy
  <2>2. CASE Live(a)
    <3>1. on[a] \in Fork /\ on[a] # f
      BY <1>1, <2>2 DEF Types, CommandTypes, Quiet, Live
    <3>2. QED
      BY <1>1, <1>2, <2>1, <3>1 DEF OnListed, Live, Listed
  <2>3. CASE ~Live(a)
    BY <1>2, <2>3 DEF OnListed, Live, Ended
  <2>4. QED
    BY <2>2, <2>3
<1>6. ASSUME NEW g \in Fork PROVE NotAnId(g)'
  BY <1>1, <1>2 DEF Tidy, NotAnId
<1>7. ASSUME NEW g \in Fork, NEW h \in Fork PROVE OneSees(g, h)'
  <2>1. (Listed(g)' => Listed(g)) /\ (Listed(h)' => Listed(h))
    BY <1>1, <1>3 DEF Listed
  <2>2. QED
    BY <1>2, <2>1 DEF Tidy, OneSees, Sees
<1>8. QED
  BY <1>4, <1>5, <1>6, <1>7 DEF Tidy

-----------------------------------------------------------------------------
(* The theorems                                                            *)

LEMMA NextInv == Inv /\ [Next]_vars => Inv'
<1> SUFFICES ASSUME Inv, [Next]_vars PROVE Inv'
  OBVIOUS
<1>1. Types /\ (Careful => Tidy)
  BY DEF Inv
<1>2. ASSUME NEW f \in Fork, ForkStep(f) PROVE Inv'
  <2>1. CASE Start(f)
    BY <1>1, <2>1, StartTypes, StartTidy DEF Inv
  <2>2. CASE MkDir(f)
    BY <1>1, <2>2, MkDirKept DEF Inv
  <2>3. CASE List(f)
    BY <1>1, <2>3, ListKept DEF Inv
  <2>4. CASE Visit(f)
    BY <1>1, <2>4, VisitKept DEF Inv
  <2>5. CASE Checked(f)
    BY <1>1, <2>5, CheckedKept DEF Inv
  <2>6. CASE MkUpper(f)
    BY <1>1, <2>6, MkUpperKept DEF Inv
  <2>7. CASE MkWork(f)
    BY <1>1, <2>7, MkWorkKept DEF Inv
  <2>8. CASE RmDir(f)
    BY <1>1, <2>8, RmDirKept DEF Inv
  <2>9. CASE Undo(f)
    BY <1>1, <2>9, UndoKept DEF Inv
  <2>10. CASE Undone(f)
    BY <1>1, <2>10, UndoneKept DEF Inv
  <2>11. QED
    BY <1>2, <2>1, <2>2, <2>3, <2>4, <2>5, <2>6, <2>7, <2>8, <2>9, <2>10 DEF ForkStep
<1>3. ASSUME NEW f \in Fork, Drop(f) PROVE Inv'
  BY <1>1, <1>3, DropTypes, DropTidy DEF Inv
<1>4. ASSUME NEW a \in Apply, Finalize(a) PROVE Inv'
  BY <1>1, <1>4, FinalizeTypes, FinalizeTidy DEF Inv
<1>5. ASSUME NEW a \in Apply, Reset(a) PROVE Inv'
  BY <1>1, <1>5, ResetKept DEF Inv
<1>6. ASSUME NEW a \in Apply, Create(a) PROVE Inv'
  BY <1>1, <1>6, CreateKept DEF Inv
<1>7. ASSUME NEW p \in Proc, Sweep(p) PROVE Inv'
  BY <1>1, <1>7, SweepKept DEF Inv
<1>8. ASSUME NEW p \in Proc, Temp(p) PROVE Inv'
  BY <1>1, <1>8, TempKept DEF Inv
<1>9. ASSUME NEW p \in Proc, Rename(p) PROVE Inv'
  BY <1>1, <1>9, RenameKept DEF Inv
<1>10. ASSUME NEW p \in Proc, End(p) PROVE Inv'
  BY <1>1, <1>10, EndKept DEF Inv
<1>11. ASSUME NEW p \in Proc, Crash(p) PROVE Inv'
  BY <1>1, <1>11, CrashTypes, CrashTidy DEF Inv
<1>12. CASE UNCHANGED vars
  <2>1. /\ dir' = dir /\ name' = name /\ on' = on /\ pid' = pid /\ pc' = pc /\ file' = file
        /\ todo' = todo /\ hits' = hits /\ cut' = cut
    BY <1>12 DEF vars
  <2>2. Types'
    BY <1>1, <2>1 DEF Types, DirTypes, CommandTypes, DataTypes, Live
  <2>3. Tidy => Tidy'
    BY <2>1 DEF Tidy, Shape, OnListed, NotAnId, OneSees, Sees, Live, Listed
  <2>4. QED
    BY <1>1, <2>2, <2>3 DEF Inv
<1>13. QED
  BY <1>2, <1>3, <1>4, <1>5, <1>6, <1>7, <1>8, <1>9, <1>10, <1>11, <1>12 DEF Next

\* The inductive invariant: types, pids and labels always; what each directory holds, and
\* which fork of a name sees which, when apply and drop are given to worktrees nobody is
\* working on.
THEOREM Invariance == Spec => []Inv
<1>1. Init => Inv
  BY InitTypes, InitTidy DEF Inv
<1>2. QED
  BY <1>1, NextInv, PTL DEF Spec

\* No two live commands have a pid in common, every directory has entries that the code
\* writes, and a directory that is not there has none.
THEOREM TypeCorrect == Spec => []TypeOK
<1>1. Inv => TypeOK
  BY DEF Inv, Types, DirTypes, CommandTypes, DataTypes, Dir, TypeOK
<1>2. QED
  BY <1>1, Invariance, PTL

\* state.rs:466-468, atomic_write: no sweep takes the temporary file of a writer that
\* lives, however many commands write at once and whichever pids are given again.
THEOREM NoLiveTempSwept == Spec => []LiveTempKept
<1>1. Inv => LiveTempKept
  <2> SUFFICES ASSUME Inv, Careful, NEW p \in Proc, pc[p] = "rename"
               PROVE  p \in dir[Place(p)].temps
    BY DEF LiveTempKept
  <2>1. CASE p \in Fork
    BY <2>1 DEF Inv, Tidy, Shape, Place
  <2>2. CASE p \in Apply
    BY <2>2, Sorts DEF Inv, Tidy, OnListed, Place
  <2>3. QED
    BY <2>1, <2>2 DEF Proc
<1>2. QED
  BY <1>1, Invariance, PTL

\* fork.rs:128, state.rs:141-145, the check before and after meta.json: of two forks that
\* ended well and are still there, neither has the name of the other.
THEOREM NamesStayUnique == ASSUME Careful PROVE Spec => []NamesUnique
<1>1. Inv => NamesUnique
  BY DEF Inv, Tidy, OneSees, Sees, Past, NamesUnique
<1>2. QED
  BY <1>1, Invariance, PTL

\* state.rs:116-119, resolve: the name that a fork printed leads to its worktree and to no
\* other, but for forks that have not ended well.
THEOREM PrintedNameWorks == ASSUME Careful PROVE Spec => []Addressable
<1>1. Inv => Addressable
  <2> SUFFICES ASSUME Inv, NEW f \in Fork, pc[f] = "ok", Listed(f)
               PROVE  /\ f \in Resolve(name[f])
                      /\ \A g \in Resolve(name[f]) : g = f \/ pc[g] # "ok"
    BY DEF Addressable
  <2>1. NotAnId(f)
    BY DEF Inv, Tidy
  <2>2. ~(name[f] \in Fork /\ Known(name[f]))
    BY <2>1 DEF NotAnId, Known, Gone
  <2>3. Resolve(name[f]) = {g \in Fork : Listed(g) /\ name[g] = name[f]}
    BY <2>2 DEF Resolve
  <2>4. \A g \in Fork : Listed(g) /\ name[g] = name[f] /\ pc[g] = "ok" => g = f
    BY DEF Inv, Tidy, OneSees, Sees, Past
  <2>5. QED
    BY <2>3, <2>4
<1>2. QED
  BY <1>1, Invariance, PTL

\* state.rs:190-203, the roll-back and drop's fallback to partial directories: whatever a
\* fork leaves, killed anywhere, can be named to drop unless it is an empty directory.
THEOREM ResidueCanBeDropped == ASSUME Careful PROVE Spec => []ResidueReachable
<1>1. Inv => ResidueReachable
  <2> SUFFICES ASSUME Inv, NEW f \in Fork, dir[f].there, pc[f] \in Ended
               PROVE  Resolve(f) = {f} \/ dir[f] = Made
    BY DEF ResidueReachable
  <2>1. CASE Known(f)
    BY <2>1 DEF Resolve
  <2>2. CASE ~Known(f)
    <3>1. Shape(f) /\ dir[f] \in Dir
      BY DEF Inv, Tidy, Types, DirTypes
    <3>2. dir[f].has = {} /\ dir[f] # Gone
      BY <2>2 DEF Known, Gone
    <3>3. dir[f].temps = {}
      BY <3>1, <3>2 DEF Shape, Ended, File
    <3>4. dir[f].there = TRUE
      BY <3>1 DEF Dir
    <3>5. dir[f] = Made
      <4>1. Made \in Dir /\ Made.there = TRUE /\ Made.has = {} /\ Made.temps = {}
        BY DEF Dir, Made, Gone
      <4>2. \A d, e \in Dir : d.there = e.there /\ d.has = e.has /\ d.temps = e.temps => d = e
        BY DEF Dir
      <4>3. QED
        BY <3>1, <3>2, <3>3, <3>4, <4>1, <4>2
    <3>6. QED
      BY <3>5
  <2>3. QED
    BY <2>1, <2>2
<1>2. QED
  BY <1>1, Invariance, PTL

\* state.rs:238-244, save_worktree after save_manifest: a worktree that is listed has its
\* base manifest, unless it is being rolled back or a kill cut the roll-back off.
THEOREM ListedHasManifest == ASSUME Careful PROVE Spec => []ListedComplete
<1>1. Inv => ListedComplete
  <2> SUFFICES ASSUME Inv, NEW f \in Fork, Listed(f), "manifest" \notin dir[f].has
               PROVE  pc[f] = "undo" \/ cut[f] = "undo"
    BY DEF ListedComplete
  <2>1. Shape(f) /\ pc[f] \in ForkLabels
    BY DEF Inv, Tidy, Types, CommandTypes
  <2>2. Made.has = {} /\ Gone.has = {}
    BY DEF Made, Gone
  <2>3. QED
    BY <2>1, <2>2 DEF Shape, ForkLabels, Listed, Part, File
<1>2. QED
  BY <1>1, Invariance, PTL

=============================================================================
