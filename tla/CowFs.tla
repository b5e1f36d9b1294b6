------------------------------- MODULE CowFs -------------------------------
(***************************************************************************)
(* The copy-on-write filesystem the macOS backend serves over FUSE         *)
(* (cowt/src/backend/macos.rs, CowFs) and the Windows one over WinFsp      *)
(* (winfsp.rs, CowFs), and the offline reading of their layer that diff    *)
(* and apply use (cowt-core/src/overlay.rs).                               *)
(*                                                                         *)
(* The lower layer is the host directory, moved aside while the worktree   *)
(* runs; the upper layer holds copies, new entries and `.wh.` whiteouts.   *)
(* Handlers run one at a time (a FUSE session of one thread, WinFsp's      *)
(* coarse guard), but deletions and rename take several system calls and   *)
(* the serving process can be killed between any two of them.              *)
(*                                                                         *)
(* Before a handler of the macOS backend runs, the kernel has looked the   *)
(* names up and checked the kinds of the entries; whether a directory is   *)
(* empty it leaves to the filesystem.  WinFsp resolves no names: it has    *)
(* checked that the parent is a directory, and open handles on a rename;   *)
(* collisions and kinds are the filesystem's (winfsp.h 612-634, 886-897).  *)
(*                                                                         *)
(* An inode number stands for the path it was handed out for, as in        *)
(* InoTable, which no operation ever updates.  Permission bits, sizes and  *)
(* names that differ by case alone are not modelled.                       *)
(***************************************************************************)
EXTENDS FiniteSets, Naturals, Sequences

CONSTANTS
  Names,       \* names of directory entries, the reserved prefixes excluded
  MaxDepth,    \* bound: the length of a path
  Files,       \* bodies of regular files
  Empty,       \* the body of a file just created or truncated to nothing
  Target,      \* Target[l]: the body symlink l leads to, Nil if it leads to none
  Lower,       \* the host directory when it is mounted
  Dir, Nil     \* a directory; no entry

Links == DOMAIN Target
Body == Files \cup Links
Entry == Body \cup {Dir}
Path == UNION {[1 .. n -> Names] : n \in 1 .. MaxDepth}

Tree == [Path -> Entry \cup {Nil}]
Anc == [p \in Path |-> {SubSeq(p, 1, n) : n \in 1 .. Len(p) - 1}]
Upto == [p \in Path |-> Anc[p] \cup {p}]
Below == [p \in Path |-> {q \in Path : p \in Anc[q]}]
AtOrBelow == [p \in Path |-> Below[p] \cup {p}]

ASSUME ConstantsAssumption ==
  /\ MaxDepth \in Nat \ {0}
  /\ Empty \in Files /\ Files \cap Links = {}
  /\ Target \in [Links -> Files \cup {Nil}]
  /\ Dir \notin Body /\ Nil \notin Entry
  /\ Lower \in Tree
  /\ \A p \in Path : Lower[p] # Nil => \A q \in Anc[p] : Lower[q] = Dir

VARIABLES
  os,       \* the backend that serves it: "mac" or "win"
  lower,    \* the host directory
  upper,    \* the entries of the upper layer that are not whiteouts
  wh,       \* the paths whose whiteout marker is in the upper layer
  fh,       \* the file handle open for writing that is followed, if any
  op        \* the system calls the running handler has still to make

vars == <<os, lower, upper, wh, fh, op>>

-----------------------------------------------------------------------------
(* Reading the two layers                                                  *)

\* is_shadowed: the path or one of its ancestors has a whiteout.
Shadowed(p) == Upto[p] \cap wh # {}

\* resolve: the upper entry wins; a whiteout hides the lower one.
Resolve(p) == IF upper[p] # Nil THEN upper[p]
              ELSE IF Shadowed(p) THEN Nil ELSE lower[p]

ResolvesToLower(p) == upper[p] = Nil /\ ~Shadowed(p)

\* What the programs in the worktree see: lookup walks the path one directory
\* at a time and merged_dir_entries lists what resolve finds.
InDirectory(p) == \A q \in Anc[p] : Resolve(q) = Dir
Seen(p) == IF InDirectory(p) THEN Resolve(p) ELSE Nil
View == [p \in Path |-> Seen(p)]

\* What WinFsp has asked get_security_by_name: the last directory only.
InWinDirectory(p) ==
  \A q \in Anc[p] : Len(q) = Len(p) - 1 => Resolve(q) = Dir

\* has_lower_link_parent.
LowerLinkAbove(p) == \E q \in Anc[p] : lower[q] \in Links

\* Mutant: only a whiteout of the path itself counts.
FoldMutant == [p \in Path |->
  IF upper[p] # Nil THEN upper[p]
  ELSE IF p \in wh
          \/ \E q \in Anc[p] : upper[q] \in Body /\ lower[q] = Dir
         THEN Nil ELSE lower[p]]

\* effective_manifest, with the host as the base manifest: whiteouts delete
\* the victim and its subtree, upper entries override, and an upper entry that
\* is no directory prunes what base has below it.
Fold == [p \in Path |->
  IF upper[p] # Nil THEN upper[p]
  ELSE IF \/ Upto[p] \cap wh # {}
          \/ \E q \in Anc[p] : upper[q] \in Body /\ lower[q] = Dir
         THEN Nil ELSE lower[p]]

-----------------------------------------------------------------------------
(* Changing the upper layer                                                *)

\* fs::create_dir_all of the directories that lead to p.
WithParents(up, p) ==
  [q \in Path |-> IF q \in Anc[p] /\ up[q] = Nil THEN Dir ELSE up[q]]

CanMakeParents(p) == \A q \in Anc[p] : upper[q] \notin Body

\* fs::copy follows symlinks and refuses directories.
CanCopy(p) == lower[p] \in Files \/ (lower[p] \in Links /\ Target[lower[p]] # Nil)
Copied(p) == IF lower[p] \in Links THEN Target[lower[p]] ELSE lower[p]

\* Mutant: the parents are not made.
CopyUpMutant(p) == IF CanCopy(p) THEN [upper EXCEPT ![p] = Copied(p)] ELSE upper

\* copy_up makes the parents before it looks at the source.
CopyUp(p) == IF CanCopy(p) THEN [WithParents(upper, p) EXCEPT ![p] = Copied(p)]
             ELSE WithParents(upper, p)

\* fs::remove_dir_all, or remove_file, of the upper copy of p.
Removed(up, p) == [q \in Path |-> IF q \in AtOrBelow[p] THEN Nil ELSE up[q]]

\* Where q is after src is renamed to dst.
Moved(q, src, dst) == dst \o SubSeq(q, Len(src) + 1, Len(q))

NoHandle == [layer |-> "none", path |-> <<>>]
Handle == [layer : {"upper", "lower"}, path : Path]

\* A handle to an unlinked file stays open and leads to no path.
Unlinked(p) == IF fh.layer = "upper" /\ fh.path \in AtOrBelow[p] THEN NoHandle ELSE fh

Idle == [k |-> "idle"]
Deleting == [k : {"delete"}, src : Path]
Renaming == [k : {"copy", "mark", "move"}, src : Path, dst : Path,
             replace : BOOLEAN, todo : SUBSET Path, tree : Tree]
-----------------------------------------------------------------------------
Init ==
  /\ os \in {"mac", "win"}
  /\ lower = Lower
  /\ upper = [p \in Path |-> Nil]
  /\ wh = {}
  /\ fh = NoHandle
  /\ op = Idle

\* clear_whiteout, then the new entry: create, mknod, mkdir and symlink.
NewEntry(p, e) ==
  /\ op = Idle /\ os = "mac"
  /\ Seen(p) = Nil /\ InDirectory(p)
  /\ wh' = wh \ Upto[p]
  /\ upper' = [WithParents(upper, p) EXCEPT ![p] = e]

\* A kill in the middle of it: clear_whiteout goes from the entry to its
\* ancestors, create_dir_all makes the directories after that, from the top.
NewEntryCut(p) ==
  /\ op = Idle
  /\ \/ os = "mac" /\ Seen(p) = Nil /\ InDirectory(p)
     \/ os = "win" /\ InWinDirectory(p) /\ ~LowerLinkAbove(p) /\ CanMakeParents(p)
  /\ \E n \in 1 .. Len(p) :
       \/ wh' = {q \in wh : q \in Upto[p] => Len(q) < n} /\ upper' = upper
       \/ /\ wh' = wh \ Upto[p]
          /\ upper' = [q \in Path |-> IF q \in Anc[p] /\ Len(q) <= n /\ upper[q] = Nil
                                     THEN Dir ELSE upper[q]]
  /\ fh' = NoHandle
  /\ UNCHANGED <<os, lower, op>>

Create(p) ==
  /\ NewEntry(p, Empty)
  /\ fh' = [layer |-> "upper", path |-> p]
  /\ UNCHANGED <<os, lower, op>>

Mknod(p) == NewEntry(p, Empty) /\ UNCHANGED <<os, lower, fh, op>>
Mkdir(p) == NewEntry(p, Dir) /\ UNCHANGED <<os, lower, fh, op>>
Symlink(p) == \E l \in Links : NewEntry(p, l) /\ UNCHANGED <<os, lower, fh, op>>

\* A kill in the middle of remove_dir_all(p): what is in a directory goes before
\* the directory.
RemovalCut(up, p) ==
  /\ up[p] = Dir
  /\ \E entries \in SUBSET {q \in Below[p] : up[q] # Nil}, marks \in SUBSET (wh \cap Below[p]) :
       /\ \A q \in entries : \A s \in Below[q] :
            (up[s] # Nil => s \in entries) /\ (s \in wh => s \in marks)
       /\ upper' = [q \in Path |-> IF q \in entries THEN Nil ELSE up[q]]
       /\ wh' = wh \ marks
  /\ fh' = NoHandle /\ op' = Idle
  /\ UNCHANGED <<os, lower>>

\* unlink and rmdir (delete_merged): the upper copy goes first, with every
\* marker inside it, ...
DeleteMerged(p) ==
  /\ upper' = Removed(upper, p)
  /\ wh' = wh \ Below[p]
  /\ fh' = Unlinked(p)
  /\ op' = IF lower[p] = Nil \/ ~CanMakeParents(p) THEN Idle
           ELSE [k |-> "delete", src |-> p]
  /\ UNCHANGED <<os, lower>>

Delete(p) == op = Idle /\ os = "mac" /\ Seen(p) # Nil /\ DeleteMerged(p)

DeleteCut(p) ==
  op = Idle /\ (IF os = "mac" THEN Seen(p) ELSE Resolve(p)) # Nil /\ RemovalCut(upper, p)

\* ... then a whiteout hides the lower entry.
DeleteMark ==
  /\ op.k = "delete"
  /\ upper' = WithParents(upper, op.src)
  /\ wh' = wh \cup {op.src}
  /\ op' = Idle
  /\ UNCHANGED <<os, lower, fh>>

\* setattr by inode.  The kernel may hold the inode of a path that is gone
\* (an open file that was unlinked or renamed), in the upper layer or in both:
\* nothing asks resolve, and copy_up makes the directories first.  Where it had
\* a directory, no file of the host has come to light since.
SetAttr(p, truncate) ==
  /\ op = Idle /\ os = "mac"
  /\ LET known == IF Seen(p) # Nil THEN Seen(p) ELSE lower[p] IN
     \/ known \in IF truncate THEN Files ELSE Files \cup {Dir}
     \/ known = Nil /\ \A q \in Anc[p] : Resolve(q) \notin Body
  /\ upper[p] # Nil \/ CanMakeParents(p)
  /\ LET up == IF upper[p] = Nil THEN CopyUp(p) ELSE upper IN
     upper' = IF truncate /\ up[p] # Nil THEN [up EXCEPT ![p] = Empty] ELSE up
  /\ UNCHANGED <<os, lower, wh, fh, op>>

\* Mutant: the file is opened where it is.
OpenMutant(p, w) ==
  /\ op = Idle /\ os = "mac"
  /\ Seen(p) \in Files
  /\ UNCHANGED upper
  /\ fh' = IF w THEN [layer |-> IF ResolvesToLower(p) THEN "lower" ELSE "upper",
                      path |-> p]
           ELSE fh
  /\ UNCHANGED <<os, lower, wh, op>>

\* open: a file the host owns is copied up before it is opened for writing.
\* Opened for reading, in either layer, it can change nothing.
Open(p, w) ==
  /\ op = Idle /\ os = "mac"
  /\ Seen(p) \in Files
  /\ upper' = IF w /\ ResolvesToLower(p) THEN CopyUp(p) ELSE upper
  /\ fh' = IF w THEN [layer |-> "upper", path |-> p] ELSE fh
  /\ UNCHANGED <<os, lower, wh, op>>

\* write, and setattr(size) through a handle.
Write(c) ==
  /\ op = Idle
  /\ fh # NoHandle
  /\ IF fh.layer = "upper"
       THEN upper' = [upper EXCEPT ![fh.path] = c] /\ UNCHANGED lower
       ELSE lower' = [lower EXCEPT ![fh.path] = c] /\ UNCHANGED upper
  /\ UNCHANGED <<os, wh, fh, op>>

Release ==
  /\ op = Idle
  /\ fh # NoHandle
  /\ fh' = NoHandle
  /\ UNCHANGED <<os, lower, upper, wh, op>>

-----------------------------------------------------------------------------
(* The handlers of the Windows backend that differ                         *)

\* create: the whiteouts are cleared first; create_dir_all and an open that
\* creates take what the layer has, and nothing asks what the host has.
WinNewEntry(p, e, clashes) ==
  /\ op = Idle /\ os = "win"
  /\ InWinDirectory(p) /\ ~LowerLinkAbove(p)
  /\ CanMakeParents(p)
  /\ wh' = wh \ Upto[p]
  /\ upper' = IF upper[p] # Nil THEN upper
              ELSE [WithParents(upper, p) EXCEPT ![p] = e]
  /\ fh' = IF upper[p] \in clashes \/ e = Dir THEN fh
           ELSE [layer |-> "upper", path |-> p]
  /\ UNCHANGED <<os, lower, op>>

WinCreate(p) == WinNewEntry(p, Empty, {Dir})
WinMkdir(p) == WinNewEntry(p, Dir, Body)

\* open, by resolve alone; the access most callers are granted counts as a
\* wish to write, and then a file the host owns is copied up.
WinOpen(p, w) ==
  /\ op = Idle /\ os = "win"
  /\ Resolve(p) \in Body
  /\ LET copies == w /\ ResolvesToLower(p) IN
     /\ copies => CanMakeParents(p)
     /\ upper' = IF copies THEN CopyUp(p) ELSE upper
     /\ fh' = IF w /\ (copies => CanCopy(p)) THEN [layer |-> "upper", path |-> p]
              ELSE fh
  /\ UNCHANGED <<os, lower, wh, op>>

\* cleanup of a handle that is marked for deletion; set_delete refused nothing.
WinDelete(p) ==
  op = Idle /\ os = "win" /\ Resolve(p) # Nil /\ DeleteMerged(p)

-----------------------------------------------------------------------------
(* rename                                                                  *)

\* copy_up_tree visits the files; a directory without files leaves nothing.
FilesBelow(p) == {q \in AtOrBelow[p] : lower[q] \in Body}

\* Bound: what is renamed does not leave Path.
Fits(src, dst) == \A q \in AtOrBelow[src] :
  lower[q] # Nil \/ upper[q] # Nil \/ q \in wh => Moved(q, src, dst) \in Path

Renames(src, dst, replace) ==
  /\ dst \notin AtOrBelow[src] /\ src \notin AtOrBelow[dst]
  /\ Fits(src, dst)
  /\ op' = [k |-> "copy", src |-> src, dst |-> dst, replace |-> replace,
            tree |-> View,
            todo |-> IF lower[src] # Nil /\ upper[src] = Nil
                       THEN FilesBelow(src) ELSE {}]
  /\ UNCHANGED <<os, lower, upper, wh, fh>>

\* The kernel refuses to put a file over a directory and the reverse.
RenameStart(src, dst) ==
  /\ op = Idle /\ os = "mac"
  /\ Seen(src) # Nil /\ InDirectory(dst)
  /\ Seen(dst) # Nil => (Seen(src) = Dir <=> Seen(dst) = Dir)
  /\ Renames(src, dst, TRUE)

\* WinFsp refuses while the target, or anything below the source, is open.
WinRenameStart(src, dst, replace) ==
  /\ op = Idle /\ os = "win"
  /\ Resolve(src) # Nil /\ InWinDirectory(dst)
  /\ upper[src] = Nil => CanMakeParents(src)
  /\ fh # NoHandle => fh.path \notin Below[src] \cup {dst}
  /\ Renames(src, dst, replace)

\* One file of copy_up_tree; an error ends the handler half-way.
RenameCopy ==
  /\ op.k = "copy"
  /\ \E q \in op.todo :
       /\ upper' = CopyUp(q)
       /\ op' = IF CanCopy(q) THEN [op EXCEPT !.todo = @ \ {q}] ELSE Idle
  /\ UNCHANGED <<os, lower, wh, fh>>

\* An empty directory left nothing to rename, or the directories that lead to
\* dst cannot be made.
RenameNothing ==
  /\ op.k = "copy" /\ op.todo = {}
  /\ upper[op.src] = Nil \/ ~CanMakeParents(op.dst)
  /\ op' = Idle
  /\ UNCHANGED <<os, lower, upper, wh, fh>>

\* WinFsp's caller does not ask to replace: whatever is at dst stays.
RenameBeside ==
  /\ op.k = "copy" /\ op.todo = {} /\ upper[op.src] # Nil
  /\ ~op.replace /\ CanMakeParents(op.dst)
  /\ upper' = WithParents(upper, op.dst)
  /\ op' = [op EXCEPT !.k = "mark"]
  /\ UNCHANGED <<os, lower, wh, fh>>

\* The directories that lead to dst, then delete_merged(dst).
RenameReplace ==
  /\ op.k = "copy" /\ op.todo = {} /\ upper[op.src] # Nil
  /\ op.replace /\ CanMakeParents(op.dst)
  /\ upper' = Removed(WithParents(upper, op.dst), op.dst)
  /\ wh' = (wh \ Below[op.dst]) \cup (IF lower[op.dst] # Nil THEN {op.dst} ELSE {})
  /\ fh' = Unlinked(op.dst)
  /\ op' = [op EXCEPT !.k = "mark"]
  /\ UNCHANGED <<os, lower>>

ReplaceCut ==
  /\ op.k = "copy" /\ op.todo = {} /\ upper[op.src] # Nil
  /\ op.replace /\ CanMakeParents(op.dst)
  /\ RemovalCut(WithParents(upper, op.dst), op.dst)

\* Mutant: the whiteout of the old name is left for later.
RenameMarkMutant ==
  /\ op.k = "mark"
  /\ wh' = wh
  /\ op' = [op EXCEPT !.k = "move"]
  /\ UNCHANGED <<os, lower, upper, fh>>

\* The whiteout of the old name comes before the rename.
RenameMark ==
  /\ op.k = "mark"
  /\ wh' = IF lower[op.src] # Nil THEN wh \cup {op.src} ELSE wh
  /\ op' = [op EXCEPT !.k = "move"]
  /\ UNCHANGED <<os, lower, upper, fh>>

\* fs::rename refuses what is there, or does not: a file replaces a file; what
\* a directory replaces depends on the version of Windows and of the library.
Replaces == upper[op.src] # Dir /\ upper[op.dst] # Dir
MayReplace ==
  /\ upper[op.src] = Dir
  /\ \A q \in Below[op.dst] : upper[q] = Nil /\ q \notin wh

RenameRefused ==
  /\ op.k = "move" /\ upper[op.dst] # Nil /\ ~Replaces
  /\ op' = Idle
  /\ UNCHANGED <<os, lower, upper, wh, fh>>

\* fs::rename in the upper layer takes along every marker below src.
RenameMove ==
  /\ op.k = "move"
  /\ upper[op.dst] = Nil \/ Replaces \/ MayReplace
  /\ upper' = [q \in Path |->
                 IF q \in AtOrBelow[op.src] THEN Nil
                 ELSE IF q \in AtOrBelow[op.dst] /\ Moved(q, op.dst, op.src) \in Path
                   THEN upper[Moved(q, op.dst, op.src)]
                 ELSE upper[q]]
  /\ wh' = (wh \ Below[op.src])
             \cup {Moved(q, op.src, op.dst) : q \in wh \cap Below[op.src]}
  /\ fh' = IF fh.layer = "upper" /\ fh.path \in AtOrBelow[op.src]
             THEN [fh EXCEPT !.path = Moved(@, op.src, op.dst)] ELSE fh
  /\ op' = Idle
  /\ UNCHANGED <<os, lower>>

\* The serving process is killed; the next run mounts the same layers.
Crash ==
  /\ fh' = NoHandle /\ op' = Idle
  /\ UNCHANGED <<os, lower, upper, wh>>

Rename ==
  \/ RenameCopy \/ RenameNothing
  \/ RenameBeside \/ RenameReplace \/ ReplaceCut \/ RenameMark
  \/ RenameRefused \/ RenameMove

Next ==
  \/ \E p \in Path : \/ Create(p) \/ Mknod(p) \/ Mkdir(p) \/ Symlink(p) \/ Delete(p)
                     \/ NewEntryCut(p) \/ DeleteCut(p)
                     \/ \E b \in BOOLEAN : SetAttr(p, b) \/ Open(p, b)
                     \/ WinCreate(p) \/ WinMkdir(p) \/ WinDelete(p)
                     \/ \E b \in BOOLEAN : WinOpen(p, b)
  \/ DeleteMark
  \/ \E c \in Files : Write(c)
  \/ Release
  \/ \E src, dst \in Path :
       \/ RenameStart(src, dst)
       \/ \E b \in BOOLEAN : WinRenameStart(src, dst, b)
  \/ Rename
  \/ Crash

Spec == Init /\ [][Next]_vars

-----------------------------------------------------------------------------
(* Properties                                                              *)

TypeOK ==
  /\ os \in {"mac", "win"}
  /\ lower \in Tree /\ upper \in Tree
  /\ wh \subseteq Path
  /\ fh = NoHandle \/ fh \in Handle
  /\ op = Idle \/ op \in Deleting \/ op \in Renaming

\* The upper layer stays a tree: every entry and every whiteout marker lies in
\* directories of the layer, and an open handle to it leads to a file of it,
\* through deletions, renames and kills half-way.
Inv ==
  /\ TypeOK
  /\ \A p \in Path : upper[p] # Nil \/ p \in wh => \A q \in Anc[p] : upper[q] = Dir
  /\ fh.layer = "upper" => upper[fh.path] \in Files

\* What diff and apply read out of the layer offline is what the programs in
\* the worktree saw, whatever they did and wherever the filesystem was killed:
\* effective_manifest agrees with lookup (overlay.rs 38-170, macos.rs 137-219).
FoldIsView == Fold = View

\* No handler writes to the host directory: open copies up whatever is opened
\* for writing (macos.rs 712-739).
HostUntouched == lower = Lower

\* A rename, wherever it is cut off, never shows an entry under both names:
\* what the new name shows while the old one is there was there before
\* (macos.rs 692-694, winfsp.rs 1015-1018).
NeverBothTrees ==
  [][RenameBeside \/ RenameReplace \/ RenameMark \/ RenameMove =>
       \A s \in AtOrBelow[op.src] :
         LET m == Moved(s, op.src, op.dst) IN
         m \in Path /\ View'[s] # Nil =>
           View'[m] = IF op.replace THEN Nil ELSE op.tree[m]]_vars

\* What was renamed is there under the new name, nothing of it lost
\* (tests/e2e.rs 1280-1292).
RenamedTreeKept ==
  [][RenameMove =>
       \A s \in AtOrBelow[op.src] : op.tree[s] # Nil =>
         View'[Moved(s, op.src, op.dst)] = op.tree[s]]_vars

\* Creating an entry makes no other entry appear (README.md 97-100).
CreatesOnlyIt ==
  [][\A p \in Path : (Create(p) \/ Mknod(p) \/ Mkdir(p) \/ Symlink(p)
                      \/ WinCreate(p) \/ WinMkdir(p)) =>
       \A q \in Path \ {p} : View'[q] = View[q]]_vars

\* Windows: to create an entry, or to rename one without asking to replace,
\* takes the place of none (winfsp.h 256, 627-628; winfsp.rs 847-854, 1010).
NothingReplaced ==
  [][/\ \A p \in Path : WinCreate(p) \/ WinMkdir(p) => Seen(p) \in {Nil, Seen(p)'}
     /\ RenameMove /\ ~op.replace => op.tree[op.dst] = Nil]_vars
=============================================================================
