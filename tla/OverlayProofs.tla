---------------------------- MODULE OverlayProofs ----------------------------
(***************************************************************************)
(* Theorems about Overlay, for any tree of paths, any files and any number *)
(* of edits and kills: the layer, the manifest and the host stay trees,    *)
(* the offline reading of a layer is what the program saw, an apply drops  *)
(* no deletion in silence, and a first reset that is cut off leaves        *)
(* nothing pending but what opaque markers hide.                           *)
(***************************************************************************)
EXTENDS Overlay, TLAPS

IsATree(t) == t \in Tree /\ \A p \in Path : t[p] # Nil => \A q \in Anc[p] : t[q] = Dir

\* A whiteout lies in a directory of the layer, an opaque marker marks one.
Layered ==
  /\ wh \subseteq Path /\ opq \subseteq Path
  /\ \A v \in wh : upper[v] = Nil /\ \A q \in Anc[v] : upper[q] = Dir
  /\ \A o \in opq : upper[o] = Dir

Shaped ==
  /\ IsATree(host) /\ IsATree(base) /\ IsATree(upper)
  /\ Layered
  /\ pc \in {"idle", "merged", "reset"}
  /\ edits \in Nat /\ crashes \in Nat

\* With nobody editing and no kill, the manifest is the host but for the moment between
\* the merge and the new manifest, and from the merge on the host has what the layer
\* has, and nothing of what the layer deletes.
OnHost ==
  /\ \A p \in Path : upper[p] # Nil => upper[p] = host[p]
  /\ \A p \in Path : Upto(p) \cap wh # {} => host[p] = Nil

Settled ==
  edits = 0 /\ crashes = 0 =>
    /\ pc # "merged" => base = host
    /\ pc # "idle" => OnHost

Inv == Shaped /\ Settled

-----------------------------------------------------------------------------
(* Trees                                                                   *)

LEMMA Paths ==
  ASSUME NEW p \in Path
  PROVE  /\ Anc[p] \subseteq Path /\ p \notin Anc[p]
         /\ \A q \in Anc[p] : Anc[q] \subseteq Anc[p]
         /\ \A q \in Below(p) : q \in Path /\ p \in Anc[q] /\ q # p /\ q \notin Anc[p]
  BY PathAssumption DEF Below

LEMMA Entries == Dir # Nil /\ Dir \notin Files /\ Nil \notin Files
  BY EntryAssumption

LEMMA TreesAreTrees == \A t : t \in Tree => (M!IsTree(t) <=> IsATree(t))
  BY DEF M!IsTree, IsATree

\* Under a tree that is no directory there is nothing.
LEMMA NothingBelow ==
  ASSUME NEW t, IsATree(t), NEW p \in Path, NEW q \in Anc[p], t[q] # Dir
  PROVE  t[p] = Nil
  BY DEF IsATree

LEMMA FoldTree ==
  ASSUME Shaped
  PROVE  IsATree(Fold)
<1>1. Fold \in Tree
  BY DEF Fold, Tree, Shaped, IsATree
<1>2. ASSUME NEW p \in Path, Fold[p] # Nil, NEW q \in Anc[p]
      PROVE  Fold[q] = Dir
  <2>1. q \in Path /\ Anc[q] \subseteq Anc[p]
    BY Paths
  <2>2. CASE upper[p] # Nil
    BY <2>1, <2>2, Entries DEF Fold, Shaped, IsATree
  <2>3. CASE upper[p] = Nil
    <3>1. /\ Upto(p) \cap (wh \cup opq) = {}
          /\ ~\E r \in Anc[p] : upper[r] \in Files /\ base[r] = Dir
          /\ base[p] # Nil
      BY <1>2, <2>3 DEF Fold
    <3>2. base[q] = Dir /\ upper[q] \in Files \cup {Dir, Nil}
      BY <2>1, <3>1 DEF Shaped, IsATree, Tree
    <3>3. upper[q] \in {Dir, Nil}
      BY <3>1, <3>2
    <3>4. CASE upper[q] = Dir
      BY <2>1, <3>4, Entries DEF Fold
    <3>5. CASE upper[q] = Nil
      <4>1. Upto(q) \subseteq Upto(p)
        BY <2>1 DEF Upto
      <4>2. QED
        BY <2>1, <3>1, <3>2, <3>5, <4>1 DEF Fold
    <3>6. QED
      BY <3>3, <3>4, <3>5
  <2>4. QED
    BY <2>2, <2>3
<1>3. QED
  BY <1>1, <1>2 DEF IsATree

\* The reading of a layer without the mount.
LEMMA FoldView ==
  ASSUME Shaped, host = base
  PROVE  Fold = View
<1>1. ASSUME NEW p \in Path PROVE Fold[p] = View[p]
  <2>1. CASE upper[p] # Nil
    BY <2>1 DEF Fold, View
  <2>2. CASE upper[p] = Nil
    <3>1. p \notin opq
      BY <2>2, Entries DEF Shaped, Layered
    <3>2. CASE Upto(p) \cap (wh \cup opq) # {}
      <4>1. Fold[p] = Nil
        BY <2>2, <3>2 DEF Fold
      <4>2. Hidden(p) \/ p \in wh
        BY <3>1, <3>2 DEF Upto, Hidden
      <4>3. QED
        BY <2>2, <4>1, <4>2 DEF View
    <3>3. CASE Upto(p) \cap (wh \cup opq) = {}
      <4>1. p \notin wh /\ \A q \in Anc[p] : q \notin wh \cup opq
        BY <3>3 DEF Upto
      <4>2. CASE \E q \in Anc[p] : upper[q] \in Files
        <5>1. PICK q \in Anc[p] : upper[q] \in Files
          BY <4>2
        <5>2. View[p] = Nil
          BY <2>2, <5>1 DEF View, Hidden
        <5>3. CASE base[q] = Dir
          BY <2>2, <5>1, <5>2, <5>3 DEF Fold
        <5>4. CASE base[q] # Dir
          <6>1. base[p] = Nil
            BY <5>4, NothingBelow DEF Shaped
          <6>2. QED
            BY <2>2, <5>2, <6>1 DEF Fold
        <5>5. QED
          BY <5>3, <5>4
      <4>3. CASE ~\E q \in Anc[p] : upper[q] \in Files
        BY <2>2, <3>3, <4>1, <4>3 DEF Fold, View, Hidden
      <4>4. QED
        BY <4>2, <4>3
    <3>4. QED
      BY <3>2, <3>3
  <2>3. QED
    BY <2>1, <2>2
<1>2. QED
  BY <1>1 DEF Fold, View

\* What lies at or below a whiteout is gone from the folded tree.
LEMMA WhiteoutFolds ==
  ASSUME Shaped, NEW p \in Path, NEW v \in Upto(p) \cap wh
  PROVE  upper[p] = Nil /\ Fold[p] = Nil
<1>1. upper[p] = Nil
  BY Entries, NothingBelow DEF Upto, Shaped, Layered
<1>2. QED
  BY <1>1 DEF Fold

-----------------------------------------------------------------------------
(* What programs do to the layer                                           *)

LEMMA InitShaped == Init => Shaped
<1>1. SUFFICES ASSUME Init PROVE Shaped
  OBVIOUS
<1>2. IsATree(host) /\ IsATree(base)
  BY <1>1, TreesAreTrees DEF Init
<1>3. IsATree(upper)
  BY <1>1 DEF Init, IsATree, Tree
<1>4. QED
  BY <1>1, <1>2, <1>3 DEF Init, Shaped, Layered

\* What exists shows its directories, and none of them has a whiteout.
LEMMA Visible ==
  ASSUME Shaped, NEW p \in Path, View[p] # Nil \/ InDirectory(p)
  PROVE  \A q \in Anc[p] : q \notin wh
<1>1. SUFFICES ASSUME NEW q \in Anc[p], q \in wh PROVE FALSE
  OBVIOUS
<1>2. q \in Path /\ upper[q] = Nil
  BY <1>1, Paths DEF Shaped, Layered
<1>3. CASE InDirectory(p)
  BY <1>1, <1>2, <1>3, Entries DEF InDirectory, View
<1>4. CASE View[p] # Nil
  <2>1. CASE upper[p] # Nil
    BY <1>1, <1>2, <2>1, Entries DEF Shaped, IsATree
  <2>2. CASE upper[p] = Nil
    BY <1>1, <1>4, <2>2 DEF View, Hidden
  <2>3. QED
    BY <2>1, <2>2
<1>5. QED
  BY <1>3, <1>4

LEMMA Parents ==
  ASSUME Shaped, NEW p \in Path
  PROVE  /\ WithParents(p) \in Tree
         /\ \A q \in Path : WithParents(p)[q] = IF q \in Anc[p] THEN Dir ELSE upper[q]
  BY DEF WithParents, Shaped, IsATree, Tree

\* An entry where there was none, or a file, in directories that the program sees.
LEMMA PlaceShaped ==
  ASSUME Shaped, NEW p \in Path, InDirectory(p), View[p] # Dir,
         NEW e \in Files \cup {Dir},
         upper' = [WithParents(p) EXCEPT ![p] = e],
         wh' = wh \ {p},
         opq' = opq \/ (e = Dir /\ opq' = opq \cup {p}),
         UNCHANGED <<host, base, pc, edits, crashes>>
  PROVE  Shaped'
<1>1. /\ upper' \in Tree
      /\ \A q \in Path : upper'[q] = IF q = p THEN e
                                     ELSE IF q \in Anc[p] THEN Dir ELSE upper[q]
  BY Parents DEF Tree
<1>2. upper[p] # Dir
  BY Entries DEF View
<1>3. IsATree(upper')
  <2>1. SUFFICES ASSUME NEW q \in Path, upper'[q] # Nil, NEW r \in Anc[q]
                 PROVE  upper'[r] = Dir
    BY <1>1 DEF IsATree
  <2>2. r \in Path /\ Anc[r] \subseteq Anc[q]
    BY Paths
  <2>3. CASE q \in Anc[p] \cup {p}
    <3>1. r \in Anc[p] /\ r # p
      BY <2>3, Paths
    <3>2. QED
      BY <1>1, <2>2, <3>1
  <2>4. CASE q \notin Anc[p] \cup {p}
    <3>1. upper[q] # Nil
      BY <1>1, <2>1, <2>4
    <3>2. upper[r] = Dir
      BY <3>1 DEF Shaped, IsATree
    <3>3. QED
      BY <1>1, <1>2, <2>2, <3>2
  <2>5. QED
    BY <2>3, <2>4
<1>4. Layered'
  <2>1. wh' \subseteq Path /\ opq' \subseteq Path
    BY DEF Shaped, Layered
  <2>2. ASSUME NEW v \in wh'
        PROVE  upper'[v] = Nil /\ \A q \in Anc[v] : upper'[q] = Dir
    <3>1. v \in Path /\ v \in wh /\ v # p /\ v \notin Anc[p]
      BY Visible DEF Shaped, Layered
    <3>2. upper[v] = Nil /\ \A q \in Anc[v] : q \in Path /\ upper[q] = Dir
      BY <3>1, Paths DEF Shaped, Layered
    <3>3. QED
      BY <1>1, <1>2, <3>1, <3>2
  <2>3. ASSUME NEW o \in opq' PROVE upper'[o] = Dir
    <3>1. o \in Path /\ ((o = p /\ e = Dir) \/ (o \in opq /\ upper[o] = Dir))
      BY DEF Shaped, Layered
    <3>2. QED
      BY <1>1, <1>2, <3>1
  <2>4. QED
    BY <2>1, <2>2, <2>3 DEF Layered
<1>5. QED
  BY <1>3, <1>4 DEF Shaped, IsATree

LEMMA WriteShaped ==
  ASSUME Shaped, NEW p \in Path, Write(p) PROVE Shaped'
<1>1. PICK f \in Files : upper' = [WithParents(p) EXCEPT ![p] = f]
  BY DEF Write
<1>2. f \in Files \cup {Dir} /\ opq' = opq
  BY DEF Write
<1>3. QED
  BY <1>1, <1>2, PlaceShaped DEF Write

LEMMA MkdirShaped ==
  ASSUME Shaped, NEW p \in Path, Mkdir(p) PROVE Shaped'
<1>1. Dir \in Files \cup {Dir} /\ View[p] # Dir
  BY Entries DEF Mkdir
<1>2. opq' = opq \/ (Dir = Dir /\ opq' = opq \cup {p})
  BY DEF Mkdir
<1>3. QED
  BY <1>1, <1>2, PlaceShaped DEF Mkdir

LEMMA RemoveShaped ==
  ASSUME Shaped, NEW p \in Path, Remove(p) PROVE Shaped'
<1>1. /\ upper' \in Tree
      /\ \A q \in Path : upper'[q] = IF q \in Below(p) \cup {p} THEN Nil
                                     ELSE IF q \in Anc[p] THEN Dir ELSE upper[q]
  BY Parents DEF Tree, Remove
<1>2. \A q \in Path : q \in Below(p) <=> p \in Anc[q]
  BY DEF Below
<1>3. IsATree(upper')
  <2>1. SUFFICES ASSUME NEW q \in Path, upper'[q] # Nil, NEW r \in Anc[q]
                 PROVE  upper'[r] = Dir
    BY <1>1 DEF IsATree
  <2>2. r \in Path /\ Anc[r] \subseteq Anc[q]
    BY Paths
  <2>3. q # p /\ p \notin Anc[q]
    BY <1>1, <1>2, <2>1
  <2>4. r \notin Below(p) \cup {p}
    BY <1>2, <2>2, <2>3
  <2>5. CASE q \in Anc[p]
    <3>1. r \in Anc[p]
      BY <2>5, Paths
    <3>2. QED
      BY <1>1, <2>2, <2>4, <3>1
  <2>6. CASE q \notin Anc[p]
    <3>1. upper[q] # Nil
      BY <1>1, <2>1, <2>6
    <3>2. upper[r] = Dir
      BY <3>1 DEF Shaped, IsATree
    <3>3. QED
      BY <1>1, <2>2, <2>4, <3>2
  <2>7. QED
    BY <2>5, <2>6
<1>4. Layered'
  <2>1. wh' \subseteq Path /\ opq' \subseteq Path
    BY DEF Shaped, Layered, Remove
  <2>2. ASSUME NEW v \in wh'
        PROVE  upper'[v] = Nil /\ \A q \in Anc[v] : upper'[q] = Dir
    <3>1. CASE v = p
      BY <1>1, <1>2, <3>1, Paths
    <3>2. CASE v # p
      <4>1. v \in Path /\ v \in wh /\ p \notin Anc[v]
        BY <1>2, <3>2 DEF Remove, Shaped, Layered
      <4>2. v \notin Anc[p]
        BY <4>1, Visible DEF Remove
      <4>3. upper[v] = Nil /\ \A q \in Anc[v] : q \in Path /\ upper[q] = Dir
        BY <4>1, Paths DEF Shaped, Layered
      <4>4. \A q \in Anc[v] : q # p /\ p \notin Anc[q]
        BY <4>1, Paths
      <4>5. QED
        BY <1>1, <1>2, <4>1, <4>2, <4>3, <4>4
    <3>3. QED
      BY <3>1, <3>2
  <2>3. ASSUME NEW o \in opq' PROVE upper'[o] = Dir
    <3>1. o \in Path /\ o # p /\ upper[o] = Dir
      BY DEF Shaped, Layered, Remove
    <3>2. View[o] # Nil
      BY <3>1, Entries DEF View
    <3>3. o \notin Below(p)
      BY <3>2 DEF Remove
    <3>4. QED
      BY <1>1, <3>1, <3>3
  <2>4. QED
    BY <2>1, <2>2, <2>3 DEF Layered
<1>5. QED
  BY <1>3, <1>4 DEF Shaped, IsATree, Remove

-----------------------------------------------------------------------------
(* The merge                                                               *)

Same(p) == Fold[p] = base[p]

\* What a plan without conflicts says of the host: it has what the manifest has where the
\* layer changed something, or the change already, and nothing of its own below a
\* directory that the layer takes away.
LEMMA CleanFold ==
  ASSUME M!Clean(base, host, Fold), NEW p \in Path, ~Same(p)
  PROVE  /\ host[p] = base[p] \/ host[p] = Fold[p]
         /\ host[p] = base[p] /\ base[p] = Dir /\ Fold[p] # Dir =>
              \A q \in Path : p \in Anc[q] => host[q] = Nil \/ base[q] # Nil
<1>1. p \notin M!ConflictPaths(base, host, Fold)
  BY DEF M!Clean
<1>2. host[p] = base[p] \/ host[p] = Fold[p]
  BY <1>1 DEF M!ConflictPaths, Same
<1>3. ASSUME host[p] = base[p], base[p] = Dir, Fold[p] # Dir,
             NEW q \in Path, p \in Anc[q], host[q] # Nil, base[q] = Nil
      PROVE  FALSE
  <2>1. q \in M!HostOnly(base, host, p)
    BY <1>3 DEF M!HostOnly, M!Below
  <2>2. p \in M!Blocked(base, host, Fold)
    BY <1>3, <2>1 DEF M!Blocked, M!Candidates, Same
  <2>3. q \in UNION {M!HostOnly(base, host, x) : x \in M!Blocked(base, host, Fold)}
    BY <2>1, <2>2
  <2>4. QED
    BY <2>3 DEF M!Clean, M!ConflictPaths
<1>4. QED
  BY <1>2, <1>3

LEMMA Ref ==
  ASSUME NEW p \in Path
  PROVE  /\ M!Required(p) <=> \E s \in Path : p \in Anc[s] /\ ~Same(s) /\ Fold[s] # Nil
         /\ M!Reference[p] = IF M!Required(p) /\ (IF Same(p) THEN host[p] ELSE Fold[p]) = Nil
                             THEN Dir
                             ELSE IF Same(p) THEN host[p] ELSE Fold[p]
  BY DEF M!Required, M!Below, M!Reference, M!Merged, Same

\* The host is a tree after the merge too.
LEMMA ReferenceTree ==
  ASSUME Shaped, M!Clean(base, host, Fold),
         \A p \in Path : Fold[p] # base[p] /\ Fold[p] # Nil => M!CanMakeDirs(host, Anc[p])
  PROVE  IsATree(M!Reference)
<1>1. IsATree(Fold)
  BY FoldTree
<1>2. M!Reference \in Tree
  <2>1. \A p \in Path : M!Reference[p] \in {Dir, host[p], Fold[p]}
    BY Ref
  <2>2. \A p \in Path : M!Reference[p] \in Files \cup {Dir, Nil}
    BY <1>1, <2>1 DEF IsATree, Tree, Shaped
  <2>3. M!Reference = [p \in Path |-> M!Reference[p]]
    BY DEF M!Reference
  <2>4. QED
    BY <2>2, <2>3 DEF Tree
<1>3. ASSUME NEW p \in Path, M!Reference[p] # Nil, NEW q \in Anc[p]
      PROVE  M!Reference[q] = Dir
  <2>1. q \in Path
    BY Paths
  <2>2. CASE \E s \in Path : (p \in Anc[s] \/ p = s) /\ ~Same(s) /\ Fold[s] # Nil
    <3>1. PICK s \in Path : (p \in Anc[s] \/ p = s) /\ ~Same(s) /\ Fold[s] # Nil
      BY <2>2
    <3>2. q \in Anc[s]
      BY <3>1, Paths
    <3>3. Fold[q] = Dir
      BY <1>1, <3>1, <3>2 DEF IsATree
    <3>4. host[q] \in {Dir, Nil}
      BY <3>1, <3>2 DEF M!CanMakeDirs, Same
    <3>5. M!Required(q)
      BY <2>1, <3>1, <3>2, Ref
    <3>6. QED
      BY <2>1, <3>3, <3>4, <3>5, Ref
  <2>3. CASE ~\E s \in Path : (p \in Anc[s] \/ p = s) /\ ~Same(s) /\ Fold[s] # Nil
    <3>1. ~M!Required(p)
      BY <2>3, Ref
    <3>2. Same(p) /\ host[p] # Nil
      BY <1>3, <2>3, <3>1, Ref
    <3>3. host[q] = Dir
      BY <3>2 DEF Shaped, IsATree
    <3>4. Same(q) \/ Fold[q] = Dir
      <4>1. SUFFICES ASSUME ~Same(q), Fold[q] # Dir PROVE FALSE
        OBVIOUS
      <4>2. host[q] = base[q] /\ base[q] = Dir
        BY <2>1, <3>3, <4>1, CleanFold
      <4>3. base[p] # Nil
        BY <2>1, <3>2, <4>1, <4>2, CleanFold
      <4>4. Fold[p] # Nil
        BY <3>2, <4>3 DEF Same
      <4>5. QED
        BY <1>1, <4>1, <4>4 DEF IsATree
    <3>5. QED
      BY <2>1, <3>3, <3>4, Entries, Ref
  <2>4. QED
    BY <2>2, <2>3
<1>4. QED
  BY <1>2, <1>3 DEF IsATree

LEMMA ExecuteShaped ==
  ASSUME Shaped, Execute PROVE Shaped'
<1>1. IsATree(host')
  BY ReferenceTree DEF Execute
<1>2. QED
  BY <1>1 DEF Shaped, IsATree, Layered, Execute, layer

LEMMA BaselineShaped ==
  ASSUME Shaped, Baseline PROVE Shaped'
BY DEF Shaped, IsATree, Layered, Baseline, layer

LEMMA AppliedShaped ==
  ASSUME Shaped, Applied PROVE Shaped'
BY DEF Shaped, IsATree, Layered, Applied, layer

LEMMA CrashShaped ==
  ASSUME Shaped, Crash PROVE Shaped'
<1>1. crashes' \in Nat
  BY DEF Shaped, Crash
<1>2. QED
  BY <1>1 DEF Shaped, IsATree, Layered, Crash, layer

LEMMA HostEditShaped ==
  ASSUME Shaped, NEW p \in Path, HostEdit(p) PROVE Shaped'
<1>1. PICK e \in Files \cup {Dir, Nil} :
        M!IsTree([host EXCEPT ![p] = e]) /\ host' = [host EXCEPT ![p] = e]
  BY DEF HostEdit
<1>2. host' \in Tree
  BY <1>1 DEF Shaped, IsATree, Tree
<1>3. IsATree(host')
  BY <1>1, <1>2, TreesAreTrees
<1>4. edits' \in Nat
  BY DEF Shaped, HostEdit
<1>5. QED
  BY <1>3, <1>4 DEF Shaped, IsATree, Layered, HostEdit, layer

LEMMA ResetShaped ==
  ASSUME Shaped, Reset PROVE Shaped'
<1>1. CASE \E p \in wh : wh' = wh \ {p} /\ UNCHANGED <<upper, opq>>
  BY <1>1 DEF Shaped, IsATree, Layered, Reset
<1>2. CASE \E p \in opq : opq' = opq \ {p} /\ UNCHANGED <<upper, wh>>
  BY <1>2 DEF Shaped, IsATree, Layered, Reset
<1>3. CASE \E p \in Path :
             /\ upper[p] # Nil /\ p \notin opq
             /\ \A q \in Below(p) : upper[q] = Nil /\ q \notin wh
             /\ upper' = [upper EXCEPT ![p] = Nil]
             /\ UNCHANGED <<wh, opq>>
  <2>1. PICK p \in Path :
             /\ upper[p] # Nil /\ p \notin opq
             /\ \A q \in Below(p) : upper[q] = Nil /\ q \notin wh
             /\ upper' = [upper EXCEPT ![p] = Nil]
             /\ UNCHANGED <<wh, opq>>
    BY <1>3
  <2>2. /\ upper' \in Tree
        /\ \A q \in Path : upper'[q] = IF q = p THEN Nil ELSE upper[q]
    BY <2>1 DEF Shaped, IsATree, Tree
  <2>3. \A q \in Path : p \in Anc[q] => upper[q] = Nil /\ q \notin wh
    BY <2>1 DEF Below
  <2>4. IsATree(upper')
    <3>1. SUFFICES ASSUME NEW q \in Path, upper'[q] # Nil, NEW r \in Anc[q]
                   PROVE  upper'[r] = Dir
      BY <2>2 DEF IsATree
    <3>2. r \in Path /\ upper[q] # Nil /\ r # p
      BY <2>2, <2>3, <3>1, Paths
    <3>3. QED
      BY <2>2, <3>2 DEF Shaped, IsATree
  <2>5. Layered'
    <3>1. ASSUME NEW v \in wh
          PROVE  upper'[v] = Nil /\ \A q \in Anc[v] : upper'[q] = Dir
      <4>1. /\ v \in Path /\ upper[v] = Nil /\ p \notin Anc[v]
            /\ \A q \in Anc[v] : q \in Path /\ upper[q] = Dir
        BY <2>3, Paths DEF Shaped, Layered
      <4>2. QED
        BY <2>2, <4>1
    <3>2. ASSUME NEW o \in opq PROVE upper'[o] = Dir
      BY <2>1, <2>2 DEF Shaped, Layered
    <3>3. QED
      BY <2>1, <3>1, <3>2 DEF Shaped, Layered
  <2>6. QED
    BY <2>4, <2>5 DEF Shaped, IsATree, Reset
<1>4. QED
  BY <1>1, <1>2, <1>3 DEF Reset

LEMMA NextShaped ==
  ASSUME Shaped, [Next]_vars PROVE Shaped'
<1>1. CASE UNCHANGED vars
  BY <1>1 DEF Shaped, IsATree, Layered, vars
<1>2. CASE Next
  BY <1>2, WriteShaped, MkdirShaped, RemoveShaped, HostEditShaped, ExecuteShaped,
     BaselineShaped, ResetShaped, AppliedShaped, CrashShaped DEF Next
<1>3. QED
  BY <1>1, <1>2

-----------------------------------------------------------------------------
(* The first apply, with nobody editing and nobody killing it              *)

\* When the host is the manifest, the merge makes the host what the layer reads as.
LEMMA MergeDelivers ==
  ASSUME Shaped, host = base
  PROVE  M!Reference = Fold
<1>1. IsATree(Fold)
  BY FoldTree
<1>2. ASSUME NEW p \in Path PROVE M!Reference[p] = Fold[p]
  <2>1. M!Required(p) => Fold[p] = Dir
    BY <1>1, Ref DEF IsATree
  <2>2. QED
    BY <2>1, Entries, Ref DEF Same
<1>3. QED
  BY <1>2 DEF M!Reference, Fold

LEMMA InitSettled == Init => Settled
BY DEF Init, Settled

LEMMA ExecuteSettled ==
  ASSUME Shaped, Settled, Execute PROVE Settled'
<1>1. /\ pc = "idle" /\ pc' = "merged" /\ host' = M!Reference
      /\ UNCHANGED <<base, upper, wh, opq, edits, crashes>>
  BY DEF Execute, layer
<1>2. SUFFICES ASSUME edits = 0, crashes = 0 PROVE OnHost'
  BY <1>1 DEF Settled
<1>3. host' = Fold
  BY <1>1, <1>2, MergeDelivers DEF Settled
<1>4. \A p \in Path : upper[p] # Nil => upper[p] = Fold[p]
  BY DEF Fold
<1>5. \A p \in Path : Upto(p) \cap wh # {} => Fold[p] = Nil
  BY WhiteoutFolds
<1>6. QED
  BY <1>1, <1>3, <1>4, <1>5 DEF OnHost, Upto

LEMMA ResetSettled ==
  ASSUME Shaped, Settled, Reset PROVE Settled'
<1>1. UNCHANGED <<host, base, pc, edits, crashes>>
  BY DEF Reset
<1>2. wh' \subseteq wh
  BY DEF Reset
<1>3. \A p \in Path : upper'[p] # Nil => upper'[p] = upper[p]
  <2>1. CASE upper' = upper
    BY <2>1
  <2>2. CASE \E p \in Path : upper' = [upper EXCEPT ![p] = Nil]
    BY <2>2 DEF Shaped, IsATree, Tree
  <2>3. QED
    BY <2>1, <2>2 DEF Reset
<1>4. OnHost => OnHost'
  BY <1>1, <1>2, <1>3 DEF OnHost, Upto
<1>5. QED
  BY <1>1, <1>4 DEF Settled

LEMMA NextSettled ==
  ASSUME Shaped, Settled, [Next]_vars PROVE Settled'
<1>1. CASE UNCHANGED vars
  BY <1>1 DEF Settled, OnHost, Upto, vars
<1>2. ASSUME NEW p \in Path, Write(p) \/ Mkdir(p) \/ Remove(p) PROVE Settled'
  BY <1>2 DEF Settled, Write, Mkdir, Remove
<1>3. ASSUME NEW p \in Path, HostEdit(p) PROVE Settled'
  <2>1. edits' # 0
    BY <1>3 DEF HostEdit, Shaped
  <2>2. QED
    BY <2>1 DEF Settled
<1>4. CASE Baseline
  BY <1>4 DEF Baseline, layer, Settled, OnHost, Upto
<1>5. CASE Applied
  BY <1>5 DEF Applied, layer, Settled, OnHost
<1>6. CASE Crash
  <2>1. crashes' # 0
    BY <1>6 DEF Crash, Shaped
  <2>2. QED
    BY <2>1 DEF Settled
<1>7. QED
  BY <1>1, <1>2, <1>3, <1>4, <1>5, <1>6, ExecuteSettled, ResetSettled DEF Next

LEMMA NextInv ==
  ASSUME Inv, [Next]_vars PROVE Inv'
BY NextShaped, NextSettled DEF Inv

\* The inductive invariant.
THEOREM Invariance == Spec => []Inv
<1>1. Init => Inv
  BY InitShaped, InitSettled DEF Inv
<1>2. Inv /\ [Next]_vars => Inv'
  BY NextInv
<1>3. QED
  BY <1>1, <1>2, PTL DEF Spec

-----------------------------------------------------------------------------
(* What follows                                                            *)

\* The host, the manifest and the layer are trees whatever users, programs and applies
\* do, and a whiteout or an opaque marker is never without its directory.
THEOREM TypeCorrect == Spec => []TypeOK
<1>1. Inv => TypeOK
  BY TreesAreTrees DEF Inv, Shaped, Layered, IsATree, TypeOK
<1>2. QED
  BY <1>1, Invariance, PTL

\* overlay.rs:43-139: with the host as the manifest has it, diff and apply without a
\* mount read what the program saw.
THEOREM OfflineReading == Spec => []FoldIsView
<1>1. Inv => FoldIsView
  BY FoldView DEF Inv, FoldIsView
<1>2. QED
  BY <1>1, Invariance, PTL

\* The same on the way to the host: an apply that nobody's edit has disturbed, as long as
\* none was killed before, puts there what the program saw.
THEOREM FirstAppliesDeliver ==
  Spec => [][Execute /\ edits = 0 /\ crashes = 0 => host' = View]_vars
<1>1. Inv => (Execute /\ edits = 0 /\ crashes = 0 => host' = View)
  BY FoldView, MergeDelivers DEF Inv, Settled, Execute
<1>2. Inv => [Execute /\ edits = 0 /\ crashes = 0 => host' = View]_vars
  BY <1>1
<1>3. QED
  BY <1>2, Invariance, PTL

\* What a whiteout takes away is taken from the host, with what the host has gained
\* below it, or the apply is refused.
LEMMA ExecuteDeletes ==
  ASSUME Shaped, Execute, NEW p \in Path, NEW v \in Upto(p) \cap wh
  PROVE  host'[p] = Nil
<1>1. Trusted /\ M!Clean(base, host, Fold) /\ host' = M!Reference
  BY DEF Execute
<1>2. v \in Path /\ v \in Upto(v) /\ (v = p \/ v \in Anc[p])
  BY Paths DEF Upto
<1>3. Fold[p] = Nil /\ Fold[v] = Nil
  BY <1>2, WhiteoutFolds
<1>4. ~M!Required(p)
  <2>1. ASSUME NEW s \in Path, p \in Anc[s] PROVE Fold[s] = Nil
    <3>1. v \in Upto(s) \cap wh
      BY <1>2, <2>1, Paths DEF Upto
    <3>2. QED
      BY <3>1, WhiteoutFolds
  <2>2. QED
    BY <2>1, Ref
<1>5. SUFFICES ASSUME Same(p) PROVE host[p] = Nil
  BY <1>1, <1>3, <1>4, Ref
<1>6. base[p] = Nil
  BY <1>3, <1>5 DEF Same
<1>7. CASE host[v] # Dir
  <2>1. CASE v = p
    BY <1>1, <1>6, <2>1 DEF Trusted
  <2>2. CASE v \in Anc[p]
    BY <1>7, <2>2, NothingBelow DEF Shaped
  <2>3. QED
    BY <1>2, <2>1, <2>2
<1>8. CASE host[v] = Dir
  <2>1. base[v] # Nil
    BY <1>1, <1>8, Entries DEF Trusted
  <2>2. ~Same(v) /\ v # p
    BY <1>3, <1>6, <2>1 DEF Same
  <2>3. host[v] = base[v]
    BY <1>1, <1>2, <1>3, <1>8, <2>2, Entries, CleanFold
  <2>4. QED
    BY <1>1, <1>2, <1>3, <1>6, <1>8, <2>2, <2>3, Entries, CleanFold
<1>9. QED
  BY <1>7, <1>8

\* apply.rs:57-66: no deletion is dropped in silence, whatever the host's users did and
\* wherever earlier applies were cut off.
THEOREM NoDeletionDropped == Spec => DeletionsKept
<1>1. Inv => (Execute => \A p \in Path : Upto(p) \cap wh # {} => host'[p] = Nil)
  BY ExecuteDeletes DEF Inv
<1>2. Inv => [Execute => \A p \in Path : Upto(p) \cap wh # {} => host'[p] = Nil]_vars
  BY <1>1
<1>3. QED
  BY <1>2, Invariance, PTL DEF DeletionsKept

\* apply.rs:250-253: the first reset may be cut off anywhere; what is left of the layer
\* asks for nothing, but where an opaque marker has outlived the copies in its directory.
THEOREM ResetIsHarmless == Spec => []ResetLeavesNothing
<1>1. ASSUME Inv, pc = "reset", edits + crashes = 0, NEW p \in Path, Anc[p] \cap opq = {}
      PROVE  Fold[p] = base[p]
  <2>1. edits = 0 /\ crashes = 0
    BY <1>1 DEF Inv, Shaped
  <2>2. host = base /\ OnHost
    BY <1>1, <2>1 DEF Inv, Settled
  <2>3. CASE upper[p] # Nil
    BY <2>2, <2>3 DEF OnHost, Fold
  <2>4. CASE upper[p] = Nil
    <3>1. p \notin opq
      BY <1>1, <2>4, Entries DEF Inv, Shaped, Layered
    <3>2. Upto(p) \cap (wh \cup opq) = Upto(p) \cap wh
      BY <1>1, <3>1 DEF Upto
    <3>3. ~\E q \in Anc[p] : upper[q] \in Files /\ base[q] = Dir
      BY <2>2, Paths, Entries DEF OnHost
    <3>4. CASE Upto(p) \cap wh # {}
      BY <2>2, <2>4, <3>2, <3>4 DEF OnHost, Fold
    <3>5. CASE Upto(p) \cap wh = {}
      BY <2>4, <3>2, <3>3, <3>5 DEF Fold
    <3>6. QED
      BY <3>4, <3>5
  <2>5. QED
    BY <2>3, <2>4
<1>2. Inv => ResetLeavesNothing
  BY <1>1 DEF ResetLeavesNothing
<1>3. QED
  BY <1>2, Invariance, PTL

=============================================================================
