----------------------------- MODULE StateStore -----------------------------
(***************************************************************************)
(* The state root: one directory for each worktree, made by fork, read by  *)
(* every command, taken away by drop (state.rs, commands/fork.rs). Nothing *)
(* is locked: names are kept apart by a check before and one after         *)
(* meta.json is written, files are replaced by a temporary file and a      *)
(* rename, and temporary files of dead writers are swept.                  *)
(*                                                                         *)
(* A step is one system call, or one directory entry of a listing. Ids are *)
(* 64 random bits, so the id of a worktree is the fork that makes it. What *)
(* the files say is left out, but for the name in meta.json.               *)
(***************************************************************************)
EXTENDS FiniteSets, Naturals

CONSTANTS
  Fork,        \* invocations of fork
  Apply,       \* invocations of apply, from the point where the host is merged
  Name,        \* the names users give
  Pid,
  None,
  Careful,     \* apply and drop are given to worktrees nobody is working on
  MaxDrops,    \* bound: worktrees that are dropped
  MaxCrashes   \* bound: killed commands

Proc == Fork \cup Apply

ASSUME SortAssumption ==
  /\ None \notin Fork \cup Apply \cup Name \cup Pid
  /\ Fork \cap Apply = {}
  /\ Name \cap Fork = {}
  /\ Careful \in BOOLEAN

VARIABLES
  dir,      \* the directory of each worktree
  name,     \* the name each fork is given
  on,       \* the worktree each apply is given
  pid,      \* of each command, while it runs and after
  pc,       \* where each command is
  file,     \* the file it writes
  todo,     \* listing: entries still to come
  hits,     \* listing: worktrees of the name
  cut,      \* where a killed command was
  drops, crashes

vars == <<dir, name, on, pid, pc, file, todo, hits, cut, drops, crashes>>
listing == <<todo, hits>>
given == <<name, on, pid>>
bounds == <<cut, drops, crashes>>

-----------------------------------------------------------------------------
File == {"manifest", "meta"}
Part == File \cup {"upper", "work"}

\* has: the entries of the directory; temps: the temporary files, by the command
\* that wrote them (the code has the pid and the time in their names).
Gone == [there |-> FALSE, has |-> {}, temps |-> {}]
Made == [Gone EXCEPT !.there = TRUE]

Ended == {"idle", "ok", "failed", "dead"}
Goto(p, l) == pc' = [pc EXCEPT ![p] = l]
Place(p) == IF p \in Fork THEN p ELSE on[p]

\* A pid is given again when the command that had it is gone.
Alive(n) == \E p \in Proc : pid[p] = n /\ pc[p] \notin Ended
Free == {n \in Pid : ~Alive(n)}
There == {f \in Fork : dir[f].there}

\* list() takes a directory with a meta.json for a worktree.
Listed(f) == "meta" \in dir[f].has

\* Mutant: only a directory with one of the two files.
KnownMutant(f) == dir[f].has \cap File # {}

\* resolve, by id: a directory with one of the two files or with a layer.
Known(f) == dir[f].has # {}

\* resolve: the worktrees an id or a name may stand for.
Resolve(n) == IF n \in Fork /\ Known(n) THEN {n} ELSE {f \in Fork : Listed(f) /\ name[f] = n}

-----------------------------------------------------------------------------
(* atomic_write                                                            *)

\* Mutant: temporary files of others are swept whoever wrote them.
StaleMutant(p) == {q \in dir[Place(p)].temps : pid[q] # pid[p]}

\* Temporary files whose writer is dead.
Stale(p) == {q \in dir[Place(p)].temps : pid[q] # pid[p] /\ ~Alive(pid[q])}

Sweep(p) ==
  /\ pc[p] = "sweep"
  /\ dir' = [dir EXCEPT ![Place(p)].temps = @ \ Stale(p)]
  /\ Goto(p, "temp")
  /\ UNCHANGED <<given, file, listing, bounds>>

\* A command whose file cannot be written fails; a fork is rolled back.
WriteFails(p) == Goto(p, IF p \in Fork THEN "undo" ELSE "fail")

Temp(p) ==
  /\ pc[p] = "temp"
  /\ IF dir[Place(p)].there
     THEN dir' = [dir EXCEPT ![Place(p)].temps = @ \cup {p}] /\ Goto(p, "rename")
     ELSE dir' = dir /\ WriteFails(p)
  /\ UNCHANGED <<given, file, listing, bounds>>

Write(p, f) == Goto(p, "sweep") /\ file' = [file EXCEPT ![p] = f]

\* Fork writes its meta.json and then looks at the names again; apply resets the layer
\* and marks the worktree as applied.
AfterWrite(p) ==
  IF file[p] = "manifest" /\ p \in Apply THEN Goto(p, "reset") /\ file' = file
  ELSE IF file[p] = "manifest" THEN Write(p, "meta")
  ELSE Goto(p, IF p \in Fork THEN "again" ELSE "fine") /\ file' = file

Rename(p) ==
  /\ pc[p] = "rename"
  /\ IF p \in dir[Place(p)].temps
     THEN /\ dir' = [dir EXCEPT ![Place(p)].temps = @ \ {p}, ![Place(p)].has = @ \cup {file[p]}]
          /\ AfterWrite(p)
     ELSE dir' = dir /\ file' = file /\ WriteFails(p)
  /\ UNCHANGED <<given, listing, bounds>>

-----------------------------------------------------------------------------
(* cowt fork                                                               *)

\* The user gives a name, or by mistake the id of a worktree that a fork has printed.
Start(f) ==
  /\ pc[f] = "idle"
  /\ \E n \in Name \cup {g \in Fork : Listed(g) /\ pc[g] = "ok"} : name' = [name EXCEPT ![f] = n]
  /\ \E n \in Free : pid' = [pid EXCEPT ![f] = n]
  /\ Goto(f, "mkdir")
  /\ UNCHANGED <<dir, on, file, listing, bounds>>

\* create_dir.
MkDir(f) ==
  /\ pc[f] = "mkdir"
  /\ dir' = [dir EXCEPT ![f] = Made]
  /\ Goto(f, "before")
  /\ UNCHANGED <<given, file, listing, bounds>>

\* read_dir: what is there is returned, what is made meanwhile may be.
List(f) ==
  /\ pc[f] \in {"before", "again"}
  /\ \E S \in SUBSET Fork : There \subseteq S /\ todo' = [todo EXCEPT ![f] = S]
  /\ hits' = [hits EXCEPT ![f] = {}]
  /\ Goto(f, IF pc[f] = "before" THEN "pre" ELSE "post")
  /\ UNCHANGED <<dir, given, file, bounds>>

\* Mutant: names are compared with names only.
ClashMutant(f, g) == Listed(g) /\ name[g] = name[f] /\ (pc[f] = "post" => g # f)

\* The pre-check looks for the name as a name and as an id.
Clash(f, g) ==
  /\ Listed(g)
  /\ \/ name[g] = name[f] /\ (pc[f] = "post" => g # f)
     \/ pc[f] = "pre" /\ name[f] = g

Visit(f) ==
  /\ pc[f] \in {"pre", "post"}
  /\ \E g \in todo[f] :
       /\ todo' = [todo EXCEPT ![f] = @ \ {g}]
       /\ hits' = [hits EXCEPT ![f] = IF Clash(f, g) THEN @ \cup {g} ELSE @]
  /\ UNCHANGED <<dir, given, pc, file, bounds>>

Checked(f) ==
  /\ pc[f] \in {"pre", "post"}
  /\ todo[f] = {}
  /\ Goto(f, IF hits[f] = {} THEN IF pc[f] = "pre" THEN "upper" ELSE "fine"
             ELSE IF pc[f] = "pre" THEN "rmdir" ELSE "undo")
  /\ UNCHANGED <<dir, given, file, listing, bounds>>

\* create_dir_all(upper), create_dir_all(work).
MkUpper(f) ==
  /\ pc[f] = "upper"
  /\ dir' = [dir EXCEPT ![f].there = TRUE, ![f].has = @ \cup {"upper"}]
  /\ Goto(f, "work")
  /\ UNCHANGED <<given, file, listing, bounds>>

\* Mutant: meta.json goes first.
MkWorkMutant(f) ==
  /\ pc[f] = "work"
  /\ dir' = [dir EXCEPT ![f].there = TRUE, ![f].has = @ \cup {"work"}]
  /\ Write(f, "meta")
  /\ UNCHANGED <<given, listing, bounds>>

MkWork(f) ==
  /\ pc[f] = "work"
  /\ dir' = [dir EXCEPT ![f].there = TRUE, ![f].has = @ \cup {"work"}]
  /\ Write(f, "manifest")
  /\ UNCHANGED <<given, listing, bounds>>

\* The pre-check's remove_dir takes an empty directory only.
RmDir(f) ==
  /\ pc[f] = "rmdir"
  /\ dir' = IF dir[f].has = {} THEN [dir EXCEPT ![f] = Gone] ELSE dir
  /\ Goto(f, "failed")
  /\ UNCHANGED <<given, file, listing, bounds>>

\* Roll back: remove_dir_all, in no particular order.
Undo(f) ==
  /\ pc[f] = "undo"
  /\ \/ \E x \in dir[f].has : dir' = [dir EXCEPT ![f].has = @ \ {x}]
     \/ \E q \in dir[f].temps : dir' = [dir EXCEPT ![f].temps = @ \ {q}]
  /\ UNCHANGED <<given, pc, file, listing, bounds>>

Undone(f) ==
  /\ pc[f] = "undo"
  /\ dir[f].has = {} /\ dir[f].temps = {}
  /\ dir' = [dir EXCEPT ![f] = Gone]
  /\ Goto(f, "failed")
  /\ UNCHANGED <<given, file, listing, bounds>>

-----------------------------------------------------------------------------
(* cowt apply, after the merge is on the host                              *)

\* Nobody else is working on the worktree.
Quiet(f) == pc[f] \in Ended /\ \A a \in Apply : on[a] = f => pc[a] \in Ended

Finalize(a) ==
  /\ pc[a] = "idle"
  /\ \E f \in Fork :
       /\ Listed(f)
       /\ Careful => pc[f] \in Ended
       /\ on' = [on EXCEPT ![a] = f]
  /\ \E n \in Free : pid' = [pid EXCEPT ![a] = n]
  /\ Write(a, "manifest")
  /\ UNCHANGED <<dir, name, listing, bounds>>

\* remove_dir_all(upper), and create_dir_all(upper), which makes the directory too.
Reset(a) ==
  /\ pc[a] = "reset"
  /\ dir' = [dir EXCEPT ![on[a]].has = @ \ {"upper"}]
  /\ Goto(a, "create")
  /\ UNCHANGED <<given, file, listing, bounds>>

Create(a) ==
  /\ pc[a] = "create"
  /\ dir' = [dir EXCEPT ![on[a]].there = TRUE, ![on[a]].has = @ \cup {"upper"}]
  /\ Write(a, "meta")
  /\ UNCHANGED <<given, listing, bounds>>

-----------------------------------------------------------------------------
(* Endings, drops and kills                                                *)

End(p) ==
  /\ pc[p] \in {"fine", "fail"}
  /\ Goto(p, IF pc[p] = "fine" THEN "ok" ELSE "failed")
  /\ UNCHANGED <<dir, given, file, listing, bounds>>

\* drop renames the directory to trash.
Drop(f) ==
  /\ drops < MaxDrops
  /\ Known(f)
  /\ Careful => Quiet(f)
  /\ drops' = drops + 1
  /\ dir' = [dir EXCEPT ![f] = Gone]
  /\ UNCHANGED <<given, pc, file, listing, cut, crashes>>

\* A kill; and an error of list(), which a fork returns with its directory left as it
\* is (state.rs:120 and 149).
Crash(p) ==
  /\ pc[p] \notin Ended
  /\ crashes < MaxCrashes
  /\ crashes' = crashes + 1
  /\ cut' = [cut EXCEPT ![p] = pc[p]]
  /\ Goto(p, "dead")
  /\ UNCHANGED <<dir, given, file, listing, drops>>

Init ==
  /\ dir = [f \in Fork |-> Gone]
  /\ name = [f \in Fork |-> None]
  /\ on = [a \in Apply |-> None]
  /\ pid = [p \in Proc |-> None]
  /\ pc = [p \in Proc |-> "idle"]
  /\ file = [p \in Proc |-> "manifest"]
  /\ todo = [f \in Fork |-> {}] /\ hits = [f \in Fork |-> {}]
  /\ cut = [p \in Proc |-> None]
  /\ drops = 0 /\ crashes = 0

ForkStep(f) ==
  \/ Start(f) \/ MkDir(f) \/ List(f) \/ Visit(f) \/ Checked(f) \/ MkUpper(f) \/ MkWork(f)
  \/ RmDir(f) \/ Undo(f) \/ Undone(f)

Next ==
  \/ \E f \in Fork : ForkStep(f) \/ Drop(f)
  \/ \E a \in Apply : Finalize(a) \/ Reset(a) \/ Create(a)
  \/ \E p \in Proc : Sweep(p) \/ Temp(p) \/ Rename(p) \/ End(p) \/ Crash(p)

Spec == Init /\ [][Next]_vars
-----------------------------------------------------------------------------
(* Properties                                                              *)

TypeOK ==
  /\ dir \in [Fork -> [there : BOOLEAN, has : SUBSET Part, temps : SUBSET Proc]]
  /\ name \in [Fork -> Name \cup Fork \cup {None}]
  /\ on \in [Apply -> Fork \cup {None}]
  /\ pid \in [Proc -> Pid \cup {None}]
  /\ \A p, q \in Proc : p # q /\ {pc[p], pc[q]} \cap Ended = {} => pid[p] # pid[q]
  /\ \A f \in Fork : ~dir[f].there => dir[f] = Gone

\* fork.rs:128, state.rs:141-145: of two forks that ended well, and whose worktrees are
\* still there, neither is named like the other, whatever was checked, written and
\* dropped at the same time.
NamesUnique ==
  \A f, g \in Fork :
    f # g /\ pc[f] = "ok" /\ pc[g] = "ok" /\ Listed(f) /\ Listed(g) => name[f] # name[g]

\* state.rs:116-119: the name a fork printed leads to its worktree and to no other, but
\* for forks of that name that are being made or were killed.
Addressable ==
  \A f \in Fork :
    pc[f] = "ok" /\ Listed(f) =>
      /\ f \in Resolve(name[f])
      /\ \A g \in Resolve(name[f]) : g = f \/ pc[g] # "ok"

\* state.rs:466-468: no sweep takes the temporary file of a writer that lives.
LiveTempKept ==
  Careful => \A p \in Proc : pc[p] = "rename" => p \in dir[Place(p)].temps

\* state.rs:190-203: whatever a fork leaves, killed anywhere, can be named to drop
\* unless it is an empty directory.
ResidueReachable ==
  \A f \in Fork : dir[f].there /\ pc[f] \in Ended => Resolve(f) = {f} \/ dir[f] = Made

\* state.rs:238-244: a worktree that is listed has its base manifest, unless it is
\* being rolled back or a kill cut the roll-back off.
ListedComplete ==
  \A f \in Fork :
    Listed(f) /\ "manifest" \notin dir[f].has => pc[f] = "undo" \/ cut[f] = "undo"

\* state.rs:143-145 "The post-check sees both and rolls back the loser": when nobody is
\* killed, one of the forks that want a name gets it.
SomebodyWins ==
  (\A f \in Fork : pc[f] \in {"ok", "failed"}) => \E f \in Fork : pc[f] = "ok"
=============================================================================
