-------------------------------- MODULE Scan --------------------------------
(***************************************************************************)
(* Manifest::scan and rescan (manifest.rs). The main thread walks the tree *)
(* and takes the stat of every file; files whose hash cannot be taken from *)
(* the manifest before are hashed by a pool of workers, which take jobs    *)
(* from one channel behind a mutex and answer on another. Meanwhile the    *)
(* users of the host edit it. The manifest of a scan is the one the next   *)
(* scan reuses hashes from.                                                *)
(*                                                                         *)
(* A file is read in two pieces, and the hash of a file is the two pieces  *)
(* read. Directories, symlinks and names that are skipped are left out.    *)
(***************************************************************************)
EXTENDS FiniteSets, Naturals, Sequences

CONSTANTS
  File,       \* the files of the tree, in the order of their names
  Worker,     \* the workers of a scan: as many as processors, 16 at most
  None,
  Forging,    \* others may rewrite a file and put its modification time back
  MaxEdits,   \* bound: changes to the host
  MaxScans    \* bound: scans, each after the one before

\* A manifest's entry: the time of the stat, and the hash, when it has been taken.
Hash == Nat \X Nat
Entry == [mtime : Nat, hash : Hash \cup {None}]

ASSUME ScanAssumption ==
  /\ File \subseteq Nat
  /\ None \notin Worker /\ None \notin Entry
  /\ Worker # {} /\ IsFiniteSet(Worker)
  /\ Forging \in BOOLEAN
  /\ MaxScans \in Nat

VARIABLES
  host,      \* the files of the host, or None
  edits,
  pc,        \* where the main thread is
  scans,
  previous,  \* the manifest of the scan before
  entries, warnings,
  todo,      \* walk: files still to come
  toHash,
  queue, closed,   \* the job channel
  results,         \* the result channel
  lock,            \* who holds the mutex around the job channel
  at, job, piece   \* each worker: where it is, its file, the first piece read

vars == <<host, edits, pc, scans, previous, entries, warnings, todo, toHash, queue, closed,
          results, lock, at, job, piece>>
main == <<pc, scans, previous, entries, warnings, todo, toHash>>
pool == <<queue, closed, results, lock, at, job, piece>>

-----------------------------------------------------------------------------
\* Modification times are the number of the edit; `body` that of the edit that wrote
\* the file. Sizes and modes are left to the time.
Present(f) == host[f] # None

\* Mutant: sizes only.
StatEqMutant(f, old) == TRUE

\* stat_eq.  A file rewritten within one tick of the clock, at the same size, is one
\* whose time was forged.
StatEq(f, old) == old.mtime = host[f].mtime

\* A file in an older manifest that still has the same stat.
Reusable(f) == previous[f] # None /\ StatEq(f, previous[f])

Start ==
  /\ pc = "idle"
  /\ scans < MaxScans
  /\ scans' = scans + 1
  /\ entries' = [f \in File |-> None]
  /\ warnings' = {}
  /\ todo' = {f \in File : Present(f)}
  /\ toHash' = <<>>
  /\ pc' = "walk"
  /\ UNCHANGED <<host, edits, previous, pool>>

\* One file of the walk. It may be gone since its directory was read.
Walk ==
  /\ pc = "walk"
  /\ \E f \in todo :
       /\ \A g \in todo : f <= g
       /\ todo' = todo \ {f}
       /\ IF ~Present(f)
          THEN warnings' = warnings \cup {f} /\ UNCHANGED <<entries, toHash>>
          ELSE LET old == IF Reusable(f) THEN previous[f].hash ELSE None IN
               /\ entries' = [entries EXCEPT ![f] = [mtime |-> host[f].mtime, hash |-> old]]
               /\ toHash' = IF old = None THEN Append(toHash, f) ELSE toHash
               /\ warnings' = warnings
  /\ UNCHANGED <<host, edits, pc, scans, previous, pool>>

\* hash_files spawns no more workers than there are files.
Spawn ==
  /\ pc = "walk" /\ todo = {}
  /\ LET n == IF Len(toHash) < Cardinality(Worker) THEN Len(toHash) ELSE Cardinality(Worker) IN
     \E spawned \in SUBSET Worker :
       /\ Cardinality(spawned) = n
       /\ at' = [w \in Worker |-> IF w \in spawned THEN "lock" ELSE "exit"]
  /\ closed' = FALSE
  /\ pc' = IF toHash = <<>> THEN "end" ELSE "send"
  /\ UNCHANGED <<host, edits, scans, previous, entries, warnings, todo, toHash, queue, results,
                 lock, job, piece>>

Send ==
  /\ pc = "send" /\ toHash # <<>>
  /\ queue' = Append(queue, Head(toHash))
  /\ toHash' = Tail(toHash)
  /\ UNCHANGED <<host, edits, pc, scans, previous, entries, warnings, todo, closed, results, lock,
                 at, job, piece>>

\* Mutant: the job channel stays open.
CloseMutant ==
  /\ pc = "send" /\ toHash = <<>>
  /\ pc' = "drain"
  /\ UNCHANGED <<host, edits, scans, previous, entries, warnings, todo, toHash, pool>>

Close ==
  /\ pc = "send" /\ toHash = <<>>
  /\ closed' = TRUE
  /\ pc' = "drain"
  /\ UNCHANGED <<host, edits, scans, previous, entries, warnings, todo, toHash, queue, results,
                 lock, at, job, piece>>

\* A result of None is a failure.
Drain ==
  /\ pc = "drain" /\ results # <<>>
  /\ results' = Tail(results)
  /\ LET r == Head(results) IN
     IF r.hash = None THEN warnings' = warnings \cup {r.file} /\ entries' = entries
     ELSE entries' = [entries EXCEPT ![r.file].hash = r.hash] /\ warnings' = warnings
  /\ UNCHANGED <<host, edits, pc, scans, previous, todo, toHash, queue, closed, lock, at, job, piece>>

\* Mutant: the results that are there are enough.
DrainedMutant ==
  /\ pc = "drain" /\ results = <<>>
  /\ pc' = "end"
  /\ UNCHANGED <<host, edits, scans, previous, entries, warnings, todo, toHash, pool>>

\* The result channel ends when the last worker is gone.
Drained ==
  /\ pc = "drain" /\ results = <<>>
  /\ \A w \in Worker : at[w] = "exit"
  /\ pc' = "end"
  /\ UNCHANGED <<host, edits, scans, previous, entries, warnings, todo, toHash, pool>>

End ==
  /\ pc = "end"
  /\ previous' = entries
  /\ pc' = "idle"
  /\ UNCHANGED <<host, edits, scans, entries, warnings, todo, toHash, pool>>

Main == Start \/ Walk \/ Spawn \/ Send \/ Close \/ Drain \/ Drained \/ End

-----------------------------------------------------------------------------
(* A worker                                                                *)

Lock(w) ==
  /\ at[w] = "lock"
  /\ lock = None
  /\ lock' = w
  /\ at' = [at EXCEPT ![w] = "recv"]
  /\ UNCHANGED <<host, edits, main, queue, closed, results, job, piece>>

\* recv blocks, with the mutex held, while the channel is open and empty.
Recv(w) ==
  /\ at[w] = "recv"
  /\ \/ /\ queue # <<>>
        /\ job' = [job EXCEPT ![w] = Head(queue)]
        /\ queue' = Tail(queue)
        /\ at' = [at EXCEPT ![w] = "open"]
     \/ /\ queue = <<>> /\ closed
        /\ at' = [at EXCEPT ![w] = "exit"]
        /\ UNCHANGED <<job, queue>>
  /\ lock' = None
  /\ UNCHANGED <<host, edits, main, closed, results, piece>>

Answer(w, hash) ==
  /\ results' = Append(results, [file |-> job[w], hash |-> hash])
  /\ at' = [at EXCEPT ![w] = "lock"]

\* hash_one: open and read the first piece, then the second. Either may fail.
Open(w) ==
  /\ at[w] = "open"
  /\ IF Present(job[w])
     THEN /\ piece' = [piece EXCEPT ![w] = host[job[w]].body]
          /\ at' = [at EXCEPT ![w] = "read"]
          /\ results' = results
     ELSE Answer(w, None) /\ piece' = piece
  /\ UNCHANGED <<host, edits, main, queue, closed, lock, job>>

\* A file that was replaced is read as it was opened, one that was rewritten in place
\* as it is now.
Read(w) ==
  /\ at[w] = "read"
  /\ \/ Answer(w, <<piece[w], piece[w]>>)
     \/ Present(job[w]) /\ Answer(w, <<piece[w], host[job[w]].body>>)
  /\ UNCHANGED <<host, edits, main, queue, closed, lock, job, piece>>

Fails(w) ==
  /\ at[w] \in {"open", "read"}
  /\ Answer(w, None)
  /\ UNCHANGED <<host, edits, main, queue, closed, lock, job, piece>>

Work(w) == Lock(w) \/ Recv(w) \/ Open(w) \/ Read(w) \/ Fails(w)

-----------------------------------------------------------------------------
(* The users of the host                                                   *)

Edit ==
  /\ edits < MaxEdits
  /\ edits' = edits + 1
  /\ \E f \in File :
       \/ host' = [host EXCEPT ![f] = [body |-> edits', mtime |-> edits']]
       \/ Present(f) /\ host' = [host EXCEPT ![f] = None]
       \/ Forging /\ Present(f) /\ host' = [host EXCEPT ![f].body = edits']
  /\ UNCHANGED <<main, pool>>

Init ==
  /\ host \in [File -> {[body |-> 0, mtime |-> 0], None}]
  /\ edits = 0 /\ pc = "idle" /\ scans = 0
  /\ previous = [f \in File |-> None]
  /\ entries = [f \in File |-> None]
  /\ warnings = {} /\ todo = {} /\ toHash = <<>>
  /\ queue = <<>> /\ closed = FALSE /\ results = <<>> /\ lock = None
  /\ at = [w \in Worker |-> "exit"]
  /\ job = [w \in Worker |-> None]
  /\ piece = [w \in Worker |-> None]

Next == Main \/ Edit \/ \E w \in Worker : Work(w)

Spec == Init /\ [][Next]_vars

\* The scheduler runs every thread that can go on.
FairSpec == Spec /\ WF_vars(Main) /\ \A w \in Worker : WF_vars(Work(w))
-----------------------------------------------------------------------------
(* Properties                                                              *)

\* manifest.rs:315-323: no scan, however often hashes were reused and whatever was edited
\* while it ran, leaves a hash in its manifest that is wrong for a file which still has the
\* stat in the manifest.
HashTrue ==
  \A f \in File :
    Present(f) /\ previous[f] # None /\ previous[f].hash # None /\ previous[f].mtime = host[f].mtime =>
      previous[f].hash = <<host[f].body, host[f].body>>

\* manifest.rs:169-176: at the end of a scan each file seen is hashed or warned about, no
\* job, result or lock is left over.
NothingForgotten ==
  pc = "end" =>
    /\ \A f \in File : entries[f] # None => (entries[f].hash = None <=> f \in warnings)
    /\ queue = <<>> /\ results = <<>> /\ lock = None
    /\ \A w \in Worker : at[w] = "exit"

\* manifest.rs:471, 500-506: a scan ends, though workers wait for jobs with the lock held.
ScanEnds == pc = "walk" ~> pc = "idle"

\* manifest.rs:172-173 "Relative paths that could not be read; they are simply absent from
\* the manifest and reported here".
UnreadableAbsent == pc = "end" => \A f \in warnings : entries[f] = None
=============================================================================
