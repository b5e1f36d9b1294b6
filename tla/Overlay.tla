------------------------------- MODULE Overlay -------------------------------
(***************************************************************************)
(* From what a program did to what the host becomes: the layer that an     *)
(* overlay filesystem writes, its offline reading (cowt-core/overlay.rs)   *)
(* and the part of apply that guards, merges and empties it (apply.rs),    *)
(* over and over, with the host's users editing and apply killed anywhere. *)
(*                                                                         *)
(* The overlay filesystem (fuse-overlayfs, or the kernel's) is not part of *)
(* the repository: it is modelled as overlay.rs expects it, with a         *)
(* whiteout for what was deleted and an opaque marker in a directory that  *)
(* was deleted and made again. Commands run one at a time here, Worktree   *)
(* lets them meet; the merge is one step, Merge has its inside. Symlinks   *)
(* and modes are left out, a file is its body.                             *)
(***************************************************************************)
EXTENDS FiniteSets, Naturals

CONSTANTS
  Path, Anc,    \* relative paths, and the strict ancestors of each
  Files,        \* bodies of files
  Dir, Nil,     \* a directory; no entry
  MaxEdits,     \* bound: changes by the host's users
  MaxCrashes    \* bound: kills and failed resets of apply

\* A path lies below its ancestors and theirs; an entry is a file, a directory or none.
ASSUME PathAssumption ==
  /\ Anc \in [Path -> SUBSET Path]
  /\ \A p \in Path : p \notin Anc[p] /\ \A q \in Anc[p] : Anc[q] \subseteq Anc[p]

ASSUME EntryAssumption == Dir \notin Files /\ Nil \notin Files \cup {Dir}

ASSUME BoundAssumption == MaxEdits \in Nat /\ MaxCrashes \in Nat

VARIABLES
  host,      \* the host directory, the lower layer of every mount
  base,      \* manifest.json
  upper,     \* the entries of the upper layer
  wh,        \* paths it has a whiteout for
  opq,       \* its directories that hold an opaque marker
  pc,        \* where the apply under way is
  edits, crashes

vars == <<host, base, upper, wh, opq, pc, edits, crashes>>
layer == <<upper, wh, opq>>

Tree == [Path -> Files \cup {Dir, Nil}]
Upto(p) == Anc[p] \cup {p}
Below(p) == {q \in Path : p \in Anc[q]}

-----------------------------------------------------------------------------
(* Reading a layer                                                         *)

\* The overlay filesystem: whether a directory above p hides what the host has at p.
Hidden(p) == \E q \in Anc[p] : q \in wh \cup opq \/ upper[q] \in Files

\* What a program sees.
View == [p \in Path |-> IF upper[p] # Nil THEN upper[p]
                        ELSE IF Hidden(p) \/ p \in wh THEN Nil ELSE host[p]]

\* Mutant: entries made again in an opaque directory are shadowed with the rest.
FoldMutant ==
  [p \in Path |->
     IF upper[p] # Nil /\ Anc[p] \cap opq = {} THEN upper[p]
     ELSE IF \/ Upto(p) \cap (wh \cup opq) # {}
             \/ \E q \in Anc[p] : upper[q] \in Files /\ base[q] = Dir
          THEN Nil ELSE base[p]]

\* effective_manifest: whiteouts and opaque directories take their subtrees out of the
\* base manifest, but for what is in the layer, and so does a file over a directory.
Fold ==
  [p \in Path |->
     IF upper[p] # Nil THEN upper[p]
     ELSE IF \/ Upto(p) \cap (wh \cup opq) # {}
             \/ \E q \in Anc[p] : upper[q] \in Files /\ base[q] = Dir
          THEN Nil ELSE base[p]]

\* The merge apply makes, with the folded layer as the worktree.
M == INSTANCE Merge WITH
  Dirs <- {Dir}, Links <- {}, UmaskDir <- Dir, MaxAttempts <- 0,
  work <- Fold, seen <- host, origin <- host, edited <- {}, attempt <- 0,
  left <- {}, mid <- Nil

-----------------------------------------------------------------------------
(* What programs do through a mount                                        *)

InDirectory(p) == \A q \in Anc[p] : View[q] = Dir
WithParents(p) == [q \in Path |-> IF q \in Anc[p] THEN Dir ELSE upper[q]]

Write(p) ==
  /\ pc = "idle"
  /\ InDirectory(p) /\ View[p] # Dir
  /\ \E f \in Files : upper' = [WithParents(p) EXCEPT ![p] = f]
  /\ wh' = wh \ {p}
  /\ UNCHANGED <<host, base, opq, pc, edits, crashes>>

\* A directory in the place of a whiteout is opaque.
Mkdir(p) ==
  /\ pc = "idle"
  /\ InDirectory(p) /\ View[p] = Nil
  /\ upper' = [WithParents(p) EXCEPT ![p] = Dir]
  /\ wh' = wh \ {p}
  /\ opq' = IF p \in wh THEN opq \cup {p} ELSE opq
  /\ UNCHANGED <<host, base, pc, edits, crashes>>

\* A file, or a directory that shows nothing; a whiteout when the host has one too.
Remove(p) ==
  /\ pc = "idle"
  /\ View[p] # Nil
  /\ \A q \in Below(p) : View[q] = Nil
  /\ upper' = [q \in Path |-> IF q \in Below(p) \cup {p} THEN Nil ELSE WithParents(p)[q]]
  /\ wh' = (wh \ Below(p)) \cup (IF host[p] # Nil /\ ~Hidden(p) THEN {p} ELSE {})
  /\ opq' = opq \ {p}
  /\ UNCHANGED <<host, base, pc, edits, crashes>>

-----------------------------------------------------------------------------
(* cowt apply                                                              *)

\* Mutant: no guard.
TrustedMutant == TRUE

\* The guard: a deletion of what the manifest never had and the host has is refused.
Trusted == \A v \in wh : base[v] = Nil => host[v] = Nil

\* Nothing is merged when there are conflicts. Where a directory that is needed cannot
\* be made the merge fails half-way; that is in Merge.
Execute ==
  /\ pc = "idle"
  /\ Trusted
  /\ M!Clean(base, host, Fold)
  /\ \A p \in Path : Fold[p] # base[p] /\ Fold[p] # Nil => M!CanMakeDirs(host, Anc[p])
  /\ host' = M!Reference
  /\ pc' = "merged"
  /\ UNCHANGED <<base, layer, edits, crashes>>

\* Mutant: the layer is emptied under the old manifest.
BaselineMutant ==
  /\ pc = "merged"
  /\ pc' = "reset"
  /\ UNCHANGED <<host, base, layer, edits, crashes>>

\* rescan and write_manifest.
Baseline ==
  /\ pc = "merged"
  /\ base' = host
  /\ pc' = "reset"
  /\ UNCHANGED <<host, layer, edits, crashes>>

\* remove_dir_all(upper): children before their directory, else in no order.
Reset ==
  /\ pc = "reset"
  /\ \/ \E p \in wh : wh' = wh \ {p} /\ UNCHANGED <<upper, opq>>
     \/ \E p \in opq : opq' = opq \ {p} /\ UNCHANGED <<upper, wh>>
     \/ \E p \in Path :
          /\ upper[p] # Nil /\ p \notin opq
          /\ \A q \in Below(p) : upper[q] = Nil /\ q \notin wh
          /\ upper' = [upper EXCEPT ![p] = Nil]
          /\ UNCHANGED <<wh, opq>>
  /\ UNCHANGED <<host, base, pc, edits, crashes>>

\* create_dir_all(upper); a layer that is not there is read as an empty one.
Applied ==
  /\ pc = "reset"
  /\ wh = {} /\ \A p \in Path : upper[p] = Nil
  /\ pc' = "idle"
  /\ UNCHANGED <<host, base, layer, edits, crashes>>

\* A kill; in the reset also an error, which apply ignores: the layer is left as it is.
Crash ==
  /\ pc # "idle"
  /\ crashes < MaxCrashes
  /\ crashes' = crashes + 1
  /\ pc' = "idle"
  /\ UNCHANGED <<host, base, layer, edits>>

-----------------------------------------------------------------------------
\* The users of the host write, make or remove one entry.
HostEdit(p) ==
  /\ edits < MaxEdits
  /\ edits' = edits + 1
  /\ \E e \in Files \cup {Dir, Nil} :
       /\ e # host[p]
       /\ M!IsTree([host EXCEPT ![p] = e])
       /\ host' = [host EXCEPT ![p] = e]
  /\ UNCHANGED <<base, layer, pc, crashes>>

\* fork has just taken the snapshot.
Init ==
  /\ host \in {t \in Tree : M!IsTree(t)}
  /\ base = host
  /\ upper = [p \in Path |-> Nil]
  /\ wh = {} /\ opq = {}
  /\ pc = "idle"
  /\ edits = 0 /\ crashes = 0

Next ==
  \/ \E p \in Path : Write(p) \/ Mkdir(p) \/ Remove(p) \/ HostEdit(p)
  \/ Execute \/ Baseline \/ Reset \/ Applied \/ Crash

Spec == Init /\ [][Next]_vars
-----------------------------------------------------------------------------
(* Properties                                                              *)

\* The layer is a tree, with its markers in directories.
TypeOK ==
  /\ \A t \in {host, base, upper} : t \in Tree /\ M!IsTree(t)
  /\ wh \subseteq {p \in Path : upper[p] = Nil /\ \A q \in Anc[p] : upper[q] = Dir}
  /\ opq \subseteq {p \in Path : upper[p] = Dir}
  /\ pc \in {"idle", "merged", "reset"}

\* overlay.rs:43-139: as long as nobody edits the host, what diff and apply compute
\* without a mount is what the program saw, whatever it deleted, made again and replaced,
\* also on the rest of a layer that a killed apply has left.
FoldIsView == pc = "idle" /\ host = base => Fold = View

\* apply.rs:57-66: what a whiteout takes away, with all that the host has gained below it
\* since, an apply that finishes takes from the host: no deletion is dropped in silence.
\* (For what an opaque directory takes away nobody asks.)
DeletionsKept ==
  [][Execute => \A p \in Path : Upto(p) \cap wh # {} => host'[p] = Nil]_vars

\* apply.rs:250-253: with nobody editing the host, the first reset, cut off anywhere,
\* leaves nothing that the next diff shows and the next apply makes, but for what opaque
\* markers that are still there hide.
ResetLeavesNothing ==
  pc = "reset" /\ edits + crashes = 0 =>
    \A p \in Path : Fold[p] = base[p] \/ Anc[p] \cap opq # {}

\* Without the exception for opaque directories.
NothingPending == pc = "reset" /\ edits + crashes = 0 => Fold = base

\* Without the exception for the host's users: what is left of the layer is what the merge
\* has put on the host, so that making it again changes nothing.
CopiesMerged ==
  pc = "reset" /\ crashes = 0 => \A p \in Path : upper[p] # Nil => upper[p] = base[p]

\* Without the exception for kills: as long as nobody edits the host, an apply that
\* finishes has put there what the program saw.
ViewDelivered == [][Execute /\ edits = 0 => host' = View]_vars

\* apply.rs:59-66 "the base is semantically corrupted": with a manifest that fork or
\* apply has written no deletion is refused.
GuardMeansCorrupt == Trusted
=============================================================================
