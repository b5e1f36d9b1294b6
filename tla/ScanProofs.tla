------------------------------ MODULE ScanProofs ------------------------------
(***************************************************************************)
(* The hashing pool forgets no file, and no hash that is kept is wrong,    *)
(* for any number of files, workers, edits and scans.                      *)
(***************************************************************************)
EXTENDS Scan, FiniteSetTheorems, TLAPS

-----------------------------------------------------------------------------
(* The inductive invariant                                                 *)

Result == [file : File, hash : Hash \cup {None}]
Label == {"exit", "lock", "recv", "open", "read"}

MainTypes ==
  /\ host \in [File -> [body : Nat, mtime : Nat] \cup {None}]
  /\ edits \in Nat
  /\ pc \in {"idle", "walk", "send", "drain", "end"}
  /\ previous \in [File -> Entry \cup {None}]
  /\ entries \in [File -> Entry \cup {None}]
  /\ warnings \subseteq File /\ todo \subseteq File
  /\ toHash \in Seq(File)

PoolTypes ==
  /\ queue \in Seq(File) /\ closed \in BOOLEAN /\ results \in Seq(Result)
  /\ at \in [Worker -> Label]
  /\ job \in [Worker -> File \cup {None}]
  /\ piece \in [Worker -> Nat \cup {None}]

\* A worker that has a job has its file, and reads on from a piece.
Busy(w) == at[w] \in {"open", "read"}
Working == \A w \in Worker : /\ Busy(w) => job[w] \in File
                             /\ at[w] = "read" => piece[w] \in Nat

Types == MainTypes /\ PoolTypes /\ Working

\* What is in a sequence, and that nothing is in it twice.
Ran(s) == {s[i] : i \in 1..Len(s)}
Once(s) == \A i, j \in 1..Len(s) : s[i] = s[j] => i = j

Jobs == {job[w] : w \in {v \in Worker : Busy(v)}}
Answered == {results[i].file : i \in 1..Len(results)}
Pending == Ran(toHash) \cup Ran(queue) \cup Jobs \cup Answered

\* A file that waits for its hash is in one place.
InOnePlace ==
  /\ Once(toHash) /\ Once(queue)
  /\ \A v, w \in Worker : Busy(v) /\ Busy(w) /\ job[v] = job[w] => v = w
  /\ \A i, j \in 1..Len(results) : results[i].file = results[j].file => i = j
  /\ Ran(toHash) \cap Ran(queue) = {} /\ Ran(toHash) \cap Jobs = {}
  /\ Ran(toHash) \cap Answered = {} /\ Ran(queue) \cap Jobs = {}
  /\ Ran(queue) \cap Answered = {} /\ Jobs \cap Answered = {}

\* The files that wait are the ones that have neither a hash nor a warning.
Accounted ==
  /\ \A f \in Pending : entries[f] \in Entry /\ entries[f].hash = None /\ f \notin warnings
  /\ \A f \in File : entries[f] # None /\ entries[f].hash = None => f \in Pending \cup warnings
  /\ \A f \in warnings : entries[f] # None => entries[f].hash = None
  /\ pc = "walk" => \A f \in todo : entries[f] = None /\ f \notin warnings \cup Pending

\* The pool is at rest unless files are being hashed; there is somebody to do it, and
\* whoever has the mutex receives.
Staffed ==
  /\ pc \in {"idle", "walk", "end"} =>
       queue = <<>> /\ results = <<>> /\ \A w \in Worker : at[w] = "exit"
  /\ pc \in {"idle", "drain", "end"} => toHash = <<>>
  /\ pc = "send" => ~closed
  /\ pc \in {"send", "drain"} => (\E w \in Worker : at[w] # "exit") \/ (queue = <<>> /\ closed)
  /\ lock # None => lock \in Worker /\ at[lock] = "recv"

Matches(f, m) == Present(f) /\ m = host[f].mtime

\* Without forged times a time names one body: what was read of a file whose time is
\* still the one in the manifest is what the file holds.
Fresh ==
  /\ \A f \in File : Present(f) => host[f].body = host[f].mtime /\ host[f].mtime <= edits
  /\ \A f \in File : previous[f] \in Entry => previous[f].mtime <= edits
  /\ \A f \in File : entries[f] \in Entry => entries[f].mtime <= edits
  /\ HashTrue
  /\ \A f \in File : entries[f] \in Entry /\ entries[f].hash # None /\ Matches(f, entries[f].mtime) =>
                       entries[f].hash = <<host[f].body, host[f].body>>
  /\ \A w \in Worker : at[w] = "read" /\ Matches(job[w], entries[job[w]].mtime) =>
                         piece[w] = host[job[w]].body
  /\ \A i \in 1..Len(results) :
       LET r == results[i] IN
       r.hash # None /\ Matches(r.file, entries[r.file].mtime) =>
         r.hash = <<host[r.file].body, host[r.file].body>>

Inv == Types /\ InOnePlace /\ Accounted /\ Staffed /\ (~Forging => Fresh)

-----------------------------------------------------------------------------
(* Sequences                                                               *)

LEMMA AppendRan ==
  ASSUME NEW S, NEW s \in Seq(S), NEW x \in S
  PROVE  /\ Append(s, x) \in Seq(S) /\ Append(s, x) # <<>>
         /\ Ran(Append(s, x)) = Ran(s) \cup {x}
         /\ Once(s) /\ x \notin Ran(s) => Once(Append(s, x))
<1>1. /\ Append(s, x) \in Seq(S) /\ Len(Append(s, x)) = Len(s) + 1 /\ Len(s) \in Nat
      /\ \A i \in 1..Len(s) : Append(s, x)[i] = s[i]
      /\ Append(s, x)[Len(s) + 1] = x
  OBVIOUS
<1>2. 1..(Len(s) + 1) = 1..Len(s) \cup {Len(s) + 1} /\ Len(s) + 1 \notin 1..Len(s)
  BY <1>1
<1>3. Ran(Append(s, x)) = Ran(s) \cup {x}
  BY <1>1, <1>2 DEF Ran
<1>4. Once(s) /\ x \notin Ran(s) => Once(Append(s, x))
  BY <1>1, <1>2 DEF Ran, Once
<1>5. QED
  BY <1>1, <1>3, <1>4

LEMMA TailRan ==
  ASSUME NEW S, NEW s \in Seq(S), s # <<>>
  PROVE  /\ Tail(s) \in Seq(S) /\ Head(s) \in S
         /\ Ran(s) = Ran(Tail(s)) \cup {Head(s)}
         /\ Once(s) => Once(Tail(s)) /\ Head(s) \notin Ran(Tail(s))
<1>1. /\ Tail(s) \in Seq(S) /\ Head(s) \in S /\ Len(s) \in Nat /\ Len(s) > 0
      /\ Len(Tail(s)) = Len(s) - 1 /\ Head(s) = s[1]
      /\ \A i \in 1..(Len(s) - 1) : Tail(s)[i] = s[i + 1]
  OBVIOUS
<1>2. Ran(s) \subseteq Ran(Tail(s)) \cup {Head(s)}
  <2>1. ASSUME NEW i \in 1..Len(s), i # 1 PROVE s[i] \in Ran(Tail(s))
    <3>1. i - 1 \in 1..Len(Tail(s)) /\ Tail(s)[i - 1] = s[i]
      BY <1>1, <2>1
    <3>2. QED
      BY <3>1 DEF Ran
  <2>2. QED
    BY <1>1, <2>1 DEF Ran
<1>3. Ran(Tail(s)) \cup {Head(s)} \subseteq Ran(s)
  BY <1>1 DEF Ran
<1>4. ASSUME Once(s) PROVE Once(Tail(s)) /\ Head(s) \notin Ran(Tail(s))
  <2>1. \A i \in 1..Len(Tail(s)) : i + 1 \in 1..Len(s) /\ 1 \in 1..Len(s) /\ i + 1 # 1
    BY <1>1
  <2>2. \A i \in 1..Len(Tail(s)) : Tail(s)[i] = s[i + 1]
    BY <1>1
  <2>3. \A i, j \in 1..Len(Tail(s)) : Tail(s)[i] = Tail(s)[j] => i + 1 = j + 1
    BY <1>4, <2>1, <2>2 DEF Once
  <2>4. \A i, j \in 1..Len(Tail(s)) : i + 1 = j + 1 => i = j
    BY <1>1
  <2>5. Head(s) \notin Ran(Tail(s))
    BY <1>1, <1>4, <2>1, <2>2 DEF Once, Ran
  <2>6. QED
    BY <2>3, <2>4, <2>5 DEF Once
<1>5. QED
  BY <1>1, <1>2, <1>3, <1>4

LEMMA EmptyRan == ASSUME NEW s, s = <<>> PROVE Ran(s) = {} /\ Once(s)
  BY DEF Ran, Once

\* The same of the results, which are told apart by their files.
LEMMA AppendResult ==
  ASSUME Types, NEW r \in Result, results' = Append(results, r)
  PROVE  /\ results' \in Seq(Result) /\ Answered' = Answered \cup {r.file}
         /\ InOnePlace /\ r.file \notin Answered =>
              \A i, j \in 1..Len(results') : results'[i].file = results'[j].file => i = j
         /\ \A i \in 1..Len(results') : results'[i] = r \/ \E j \in 1..Len(results) : results'[i] = results[j]
<1>1. results \in Seq(Result)
  BY DEF Types, PoolTypes
<1>2. /\ results' \in Seq(Result) /\ Len(results') = Len(results) + 1 /\ Len(results) \in Nat
      /\ \A i \in 1..Len(results) : results'[i] = results[i]
      /\ results'[Len(results) + 1] = r
  BY <1>1
<1>3. /\ 1..(Len(results) + 1) = 1..Len(results) \cup {Len(results) + 1}
      /\ Len(results) + 1 \notin 1..Len(results)
  BY <1>2
<1>4. Answered' = Answered \cup {r.file}
  BY <1>2, <1>3 DEF Answered
<1>5. InOnePlace /\ r.file \notin Answered =>
        \A i, j \in 1..Len(results') : results'[i].file = results'[j].file => i = j
  BY <1>2, <1>3 DEF Answered, InOnePlace
<1>6. \A i \in 1..Len(results') : results'[i] = r \/ \E j \in 1..Len(results) : results'[i] = results[j]
  BY <1>2, <1>3
<1>7. QED
  BY <1>2, <1>4, <1>5, <1>6

LEMMA TailResult ==
  ASSUME Types, results # <<>>, results' = Tail(results), NEW r, r = Head(results)
  PROVE  /\ results' \in Seq(Result) /\ r \in Result
         /\ Answered = Answered' \cup {r.file}
         /\ InOnePlace => /\ \A i, j \in 1..Len(results') : results'[i].file = results'[j].file => i = j
                          /\ r.file \notin Answered'
         /\ \E j \in 1..Len(results) : r = results[j]
         /\ \A i \in 1..Len(results') : \E j \in 1..Len(results) : results'[i] = results[j]
<1>1. results \in Seq(Result)
  BY DEF Types, PoolTypes
<1>2. /\ results' \in Seq(Result) /\ r \in Result /\ Len(results) \in Nat /\ Len(results) > 0
      /\ Len(results') = Len(results) - 1 /\ r = results[1]
      /\ \A i \in 1..(Len(results) - 1) : results'[i] = results[i + 1]
  BY <1>1
<1>3. \A i \in 1..Len(results') : /\ i + 1 \in 1..Len(results) /\ 1 \in 1..Len(results) /\ i + 1 # 1
                                  /\ results'[i] = results[i + 1]
  BY <1>2
<1>4. Answered \subseteq Answered' \cup {r.file}
  <2>1. ASSUME NEW i \in 1..Len(results), i # 1 PROVE results[i].file \in Answered'
    <3>1. i - 1 \in 1..Len(results') /\ results'[i - 1] = results[i]
      BY <1>2, <2>1
    <3>2. QED
      BY <3>1 DEF Answered
  <2>2. QED
    BY <1>2, <2>1 DEF Answered
<1>5. Answered' \cup {r.file} \subseteq Answered
  BY <1>2, <1>3 DEF Answered
<1>6. ASSUME InOnePlace
      PROVE  /\ \A i, j \in 1..Len(results') : results'[i].file = results'[j].file => i = j
             /\ r.file \notin Answered'
  <2>1. \A i, j \in 1..Len(results) : results[i].file = results[j].file => i = j
    BY <1>6 DEF InOnePlace
  <2>2. \A i, j \in 1..Len(results') : results'[i].file = results'[j].file => i + 1 = j + 1
    BY <1>3, <2>1
  <2>3. \A i, j \in 1..Len(results') : i + 1 = j + 1 => i = j
    BY <1>2
  <2>4. r.file \notin Answered'
    BY <1>2, <1>3, <2>1 DEF Answered
  <2>5. QED
    BY <2>2, <2>3, <2>4
<1>7. /\ \E j \in 1..Len(results) : r = results[j]
      /\ \A i \in 1..Len(results') : \E j \in 1..Len(results) : results'[i] = results[j]
  BY <1>2, <1>3
<1>8. QED
  BY <1>2, <1>4, <1>5, <1>6, <1>7

-----------------------------------------------------------------------------
(* What the steps have in common                                           *)

LEMMA InitInv == Init => Inv
<1> SUFFICES ASSUME Init PROVE Inv
  OBVIOUS
<1>1. MainTypes
  BY DEF Init, MainTypes
<1>2. PoolTypes
  <2>1. <<>> \in Seq(File) /\ <<>> \in Seq(Result)
    OBVIOUS
  <2>2. at \in [Worker -> Label] /\ job \in [Worker -> File \cup {None}] /\ piece \in [Worker -> Nat \cup {None}]
    BY DEF Init, Label
  <2>3. QED
    BY <2>1, <2>2 DEF Init, PoolTypes
<1>3. \A w \in Worker : ~Busy(w) /\ at[w] = "exit"
  BY DEF Init, Busy
<1>4. Ran(toHash) = {} /\ Ran(queue) = {} /\ Once(toHash) /\ Once(queue) /\ Jobs = {} /\ Answered = {}
  BY <1>3, EmptyRan DEF Init, Jobs, Answered
<1>5. Len(results) = 0
  BY DEF Init
<1>6. InOnePlace
  BY <1>3, <1>4, <1>5 DEF InOnePlace
<1>7. Accounted
  BY <1>4 DEF Init, Accounted, Pending
<1>8. Staffed
  BY <1>3 DEF Init, Staffed
<1>9. Fresh
  <2>1. \A f \in File : Present(f) => host[f].body = host[f].mtime /\ host[f].mtime <= edits
    BY DEF Init, Present
  <2>2. \A f \in File : previous[f] = None /\ entries[f] = None
    BY DEF Init
  <2>3. HashTrue
    BY <2>2 DEF HashTrue
  <2>4. \A f \in File : previous[f] \notin Entry /\ entries[f] \notin Entry
    BY <2>2, ScanAssumption
  <2>5. \A i \in 1..Len(results) : FALSE
    BY <1>5
  <2>6. QED
    BY <1>3, <2>1, <2>3, <2>4, <2>5 DEF Fresh
<1>10. QED
  BY <1>1, <1>2, <1>3, <1>6, <1>7, <1>8, <1>9 DEF Inv, Types, Working

LEMMA PendingFiles == ASSUME Types PROVE Pending \subseteq File
<1>1. toHash \in Seq(File) /\ queue \in Seq(File) /\ results \in Seq(Result)
  BY DEF Types, MainTypes, PoolTypes
<1>2. Ran(toHash) \subseteq File /\ Ran(queue) \subseteq File
  BY <1>1 DEF Ran
<1>3. Answered \subseteq File
  <2>1. \A i \in 1..Len(results) : results[i] \in Result
    BY <1>1
  <2>2. \A r \in Result : r.file \in File
    BY DEF Result
  <2>3. QED
    BY <2>1, <2>2 DEF Answered
<1>4. Jobs \subseteq File
  BY DEF Jobs, Types, Working
<1>5. QED
  BY <1>2, <1>3, <1>4 DEF Pending

LEMMA AtRest ==
  ASSUME Staffed, pc \in {"idle", "walk", "end"}
  PROVE  Ran(queue) = {} /\ Jobs = {} /\ Answered = {} /\ \A w \in Worker : ~Busy(w)
<1>1. queue = <<>> /\ results = <<>> /\ \A w \in Worker : at[w] = "exit"
  BY DEF Staffed
<1>2. \A w \in Worker : ~Busy(w)
  BY <1>1 DEF Busy
<1>3. Ran(queue) = {}
  BY <1>1, EmptyRan
<1>4. Answered = {}
  BY <1>1 DEF Answered
<1>5. QED
  BY <1>2, <1>3, <1>4 DEF Jobs

\* The pool does not change.
LEMMA SamePool ==
  ASSUME UNCHANGED pool
  PROVE  /\ PoolTypes => PoolTypes'
         /\ Jobs' = Jobs /\ Answered' = Answered /\ Ran(queue)' = Ran(queue)
         /\ \A w \in Worker : Busy(w)' = Busy(w)
         /\ Working => Working'
<1>1. /\ queue' = queue /\ closed' = closed /\ results' = results /\ lock' = lock /\ at' = at
      /\ job' = job /\ piece' = piece
  BY DEF pool
<1>2. \A w : Busy(w)' = Busy(w)
  BY <1>1 DEF Busy
<1>3. Jobs' = Jobs
  BY <1>1, <1>2 DEF Jobs
<1>4. QED
  BY <1>1, <1>2, <1>3 DEF PoolTypes, Answered, Ran, Working

\* A step of a worker, or of the host, moves files from one place to another at most.
LEMMA SameFiles ==
  ASSUME Accounted, Pending' = Pending, entries' = entries, warnings' = warnings, todo' = todo,
         pc' = pc \/ pc' # "walk"
  PROVE  Accounted'
  BY DEF Accounted

-----------------------------------------------------------------------------
(* The main thread                                                         *)

LEMMA StartInv == ASSUME Inv, Start PROVE Inv'
<1>1. /\ pc = "idle" /\ pc' = "walk" /\ entries' = [f \in File |-> None] /\ warnings' = {}
      /\ todo' = {f \in File : Present(f)} /\ toHash' = <<>> /\ host' = host /\ edits' = edits
      /\ previous' = previous /\ UNCHANGED pool
  BY DEF Start
<1>2. UNCHANGED <<queue, closed, results, lock, at, job, piece>>
  BY <1>1 DEF pool
<1>3. Types'
  <2>1. MainTypes'
    BY <1>1 DEF Inv, Types, MainTypes
  <2>2. QED
    BY <1>1, <2>1, SamePool DEF Inv, Types
<1>4. Ran(queue)' = {} /\ Jobs' = {} /\ Answered' = {} /\ \A w \in Worker : ~Busy(w)'
  BY <1>1, AtRest, SamePool DEF Inv
<1>5. Ran(toHash)' = {} /\ Once(toHash)'
  BY <1>1, EmptyRan
<1>6. InOnePlace'
  <2>1. Once(queue)' /\ Len(results') = 0
    BY <1>1, <1>2, EmptyRan DEF Inv, Staffed
  <2>2. QED
    BY <1>4, <1>5, <2>1 DEF InOnePlace
<1>7. Accounted'
  BY <1>1, <1>4, <1>5 DEF Accounted, Pending
<1>8. Staffed'
  BY <1>1, <1>2 DEF Inv, Staffed
<1>9. ASSUME ~Forging PROVE Fresh'
  <2>1. Fresh
    BY <1>9 DEF Inv
  <2>2. /\ \A f \in File : entries'[f] = None
        /\ \A w \in Worker : at'[w] = "exit"
        /\ Len(results') = 0
    BY <1>1, <1>2 DEF Inv, Staffed
  <2>3. QED
    BY <1>1, <2>1, <2>2, ScanAssumption DEF Fresh, HashTrue, Present
<1>10. QED
  BY <1>3, <1>6, <1>7, <1>8, <1>9 DEF Inv

\* The walk visits each file once, when it has no entry and is nowhere yet.
LEMMA WalkInv == ASSUME Inv, Walk PROVE Inv'
<1>1. /\ pc = "walk" /\ pc' = pc /\ host' = host /\ edits' = edits /\ previous' = previous
      /\ UNCHANGED pool
  BY DEF Walk
<1>2. UNCHANGED <<queue, closed, results, lock, at, job, piece>>
  BY <1>1 DEF pool
<1>3. PICK f \in todo :
        /\ todo' = todo \ {f}
        /\ IF ~Present(f)
           THEN warnings' = warnings \cup {f} /\ UNCHANGED <<entries, toHash>>
           ELSE LET old == IF Reusable(f) THEN previous[f].hash ELSE None IN
                /\ entries' = [entries EXCEPT ![f] = [mtime |-> host[f].mtime, hash |-> old]]
                /\ toHash' = IF old = None THEN Append(toHash, f) ELSE toHash
                /\ warnings' = warnings
  BY DEF Walk
<1>4. f \in File /\ entries[f] = None /\ f \notin warnings /\ f \notin Pending
  BY <1>1, <1>3 DEF Inv, Types, MainTypes, Accounted
<1>5. /\ Ran(queue) = {} /\ Jobs = {} /\ Answered = {} /\ \A w \in Worker : ~Busy(w)
      /\ Ran(queue)' = {} /\ Jobs' = {} /\ Answered' = {} /\ \A w \in Worker : ~Busy(w)'
  BY <1>1, AtRest, SamePool DEF Inv
<1>6. \A w \in Worker : at'[w] # "read"
  BY <1>5 DEF Busy
<1>7. Len(results') = 0 /\ Once(queue)'
  BY <1>1, <1>2, EmptyRan DEF Inv, Staffed
<1>8. Staffed'
  BY <1>1, <1>2 DEF Inv, Staffed
<1>9. CASE ~Present(f)
  <2>1. warnings' = warnings \cup {f} /\ entries' = entries /\ toHash' = toHash
    BY <1>3, <1>9
  <2>2. Types'
    <3>1. MainTypes'
      BY <1>1, <1>3, <1>4, <2>1 DEF Inv, Types, MainTypes
    <3>2. QED
      BY <1>1, <3>1, SamePool DEF Inv, Types
  <2>3. Ran(toHash)' = Ran(toHash) /\ Once(toHash)' = Once(toHash)
    BY <2>1 DEF Ran, Once
  <2>4. InOnePlace'
    BY <1>5, <1>7, <2>3 DEF Inv, InOnePlace
  <2>5. Accounted'
    BY <1>1, <1>3, <1>4, <1>5, <2>1, <2>3 DEF Inv, Accounted, Pending
  <2>6. ASSUME ~Forging PROVE Fresh'
    BY <1>1, <1>6, <1>7, <2>1, <2>6 DEF Inv, Fresh, HashTrue, Present, Matches
  <2>7. QED
    BY <1>8, <2>2, <2>4, <2>5, <2>6 DEF Inv
<1>10. CASE Present(f) /\ Reusable(f) /\ previous[f].hash # None
  <2> DEFINE e == [mtime |-> host[f].mtime, hash |-> previous[f].hash]
  <2>1. warnings' = warnings /\ entries' = [entries EXCEPT ![f] = e] /\ toHash' = toHash
    BY <1>3, <1>10
  <2>2. e \in Entry /\ e.mtime = host[f].mtime /\ e.hash = previous[f].hash /\ e.hash # None
    BY <1>4, <1>10 DEF Inv, Types, MainTypes, Reusable, Present, Entry
  <2> HIDE DEF e
  <2>3. entries'[f] = e /\ \A g \in File : g # f => entries'[g] = entries[g]
    BY <1>4, <2>1 DEF Inv, Types, MainTypes
  <2>4. Types'
    <3>1. MainTypes'
      BY <1>1, <1>3, <1>4, <2>1, <2>2 DEF Inv, Types, MainTypes
    <3>2. QED
      BY <1>1, <3>1, SamePool DEF Inv, Types
  <2>5. Ran(toHash)' = Ran(toHash) /\ Once(toHash)' = Once(toHash) /\ Ran(toHash) \subseteq File
    BY <2>1 DEF Ran, Once, Inv, Types, MainTypes
  <2>6. InOnePlace'
    BY <1>5, <1>7, <2>5 DEF Inv, InOnePlace
  <2>7. Accounted'
    <3>1. Pending' = Pending /\ Pending \subseteq File
      BY <1>5, <2>5 DEF Pending
    <3>2. QED
      BY <1>1, <1>3, <1>4, <2>1, <2>2, <2>3, <3>1 DEF Inv, Accounted, Types, MainTypes
  <2>8. ASSUME ~Forging PROVE Fresh'
    <3>1. Fresh
      BY <2>8 DEF Inv
    <3>2. previous[f] # None /\ previous[f].mtime = host[f].mtime
      BY <1>10 DEF Reusable, StatEq
    <3>3. e.hash = <<host[f].body, host[f].body>> /\ e.mtime <= edits
      BY <1>4, <1>10, <2>2, <3>1, <3>2 DEF Fresh, HashTrue
    <3>4. \A g \in File : entries'[g] \in Entry => entries'[g].mtime <= edits
      BY <2>3, <3>1, <3>3 DEF Fresh
    <3>5. \A g \in File : entries'[g] \in Entry /\ entries'[g].hash # None /\ Matches(g, entries'[g].mtime)
                            => entries'[g].hash = <<host[g].body, host[g].body>>
      BY <2>3, <3>1, <3>3 DEF Fresh
    <3>6. QED
      BY <1>1, <1>6, <1>7, <3>1, <3>4, <3>5 DEF Fresh, HashTrue, Present, Matches
  <2>9. QED
    BY <1>8, <2>4, <2>6, <2>7, <2>8 DEF Inv
<1>11. CASE Present(f) /\ ~(Reusable(f) /\ previous[f].hash # None)
  <2> DEFINE e == [mtime |-> host[f].mtime, hash |-> None]
  <2>1. warnings' = warnings /\ entries' = [entries EXCEPT ![f] = e] /\ toHash' = Append(toHash, f)
    BY <1>3, <1>11
  <2>2. e \in Entry /\ e.mtime = host[f].mtime /\ e.hash = None
    BY <1>4, <1>11 DEF Inv, Types, MainTypes, Present, Entry
  <2> HIDE DEF e
  <2>3. entries'[f] = e /\ \A g \in File : g # f => entries'[g] = entries[g]
    BY <1>4, <2>1 DEF Inv, Types, MainTypes
  <2>4. Types'
    <3>1. MainTypes'
      BY <1>1, <1>3, <1>4, <2>1, <2>2 DEF Inv, Types, MainTypes
    <3>2. QED
      BY <1>1, <3>1, SamePool DEF Inv, Types
  <2>5. /\ Ran(toHash)' = Ran(toHash) \cup {f} /\ Once(toHash)' /\ Ran(toHash) \subseteq File
    <3>1. toHash \in Seq(File) /\ Once(toHash) /\ f \notin Ran(toHash)
      BY <1>4 DEF Inv, Types, MainTypes, InOnePlace, Pending
    <3>2. Ran(toHash)' = Ran(toHash) \cup {f} /\ Once(toHash)'
      BY <1>4, <2>1, <3>1, AppendRan
    <3>3. Ran(toHash) \subseteq File
      BY <3>1 DEF Ran
    <3>4. QED
      BY <3>2, <3>3
  <2>6. InOnePlace'
    BY <1>5, <1>7, <2>5 DEF Inv, InOnePlace
  <2>7. Accounted'
    <3>1. Pending' = Pending \cup {f} /\ Pending \subseteq File
      BY <1>5, <2>5 DEF Pending
    <3>2. QED
      BY <1>1, <1>3, <1>4, <2>1, <2>2, <2>3, <3>1 DEF Inv, Accounted, Types, MainTypes
  <2>8. ASSUME ~Forging PROVE Fresh'
    <3>1. Fresh
      BY <2>8 DEF Inv
    <3>2. e.mtime <= edits
      BY <1>4, <1>11, <2>2, <3>1 DEF Fresh
    <3>3. \A g \in File : entries'[g] \in Entry => entries'[g].mtime <= edits
      BY <2>3, <3>1, <3>2 DEF Fresh
    <3>4. \A g \in File : entries'[g] \in Entry /\ entries'[g].hash # None /\ Matches(g, entries'[g].mtime)
                            => entries'[g].hash = <<host[g].body, host[g].body>>
      BY <2>2, <2>3, <3>1 DEF Fresh
    <3>5. QED
      BY <1>1, <1>6, <1>7, <3>1, <3>3, <3>4 DEF Fresh, HashTrue, Present, Matches
  <2>9. QED
    BY <1>8, <2>4, <2>6, <2>7, <2>8 DEF Inv
<1>12. QED
  BY <1>9, <1>10, <1>11

\* A pool for hashing has a worker, for the number of jobs and that of processors are not 0.
LEMMA SpawnInv == ASSUME Inv, Spawn PROVE Inv'
<1> DEFINE n == IF Len(toHash) < Cardinality(Worker) THEN Len(toHash) ELSE Cardinality(Worker)
<1>1. PICK spawned \in SUBSET Worker :
        /\ Cardinality(spawned) = n
        /\ at' = [w \in Worker |-> IF w \in spawned THEN "lock" ELSE "exit"]
  BY DEF Spawn
<1>2. /\ pc = "walk" /\ todo = {} /\ closed' = FALSE
      /\ pc' = IF toHash = <<>> THEN "end" ELSE "send"
      /\ UNCHANGED <<host, edits, previous, entries, warnings, todo, toHash, queue, results, lock,
                     job, piece>>
  BY DEF Spawn
<1>3. /\ Ran(queue) = {} /\ Jobs = {} /\ Answered = {} /\ queue = <<>> /\ results = <<>>
      /\ \A w \in Worker : at[w] = "exit"
  BY <1>2, AtRest DEF Inv, Staffed
<1>4. \A w \in Worker : at'[w] \in {"lock", "exit"} /\ ~Busy(w)'
  BY <1>1 DEF Busy
<1>5. Types'
  BY <1>1, <1>2, <1>4 DEF Inv, Types, MainTypes, PoolTypes, Working, Label
<1>6. Jobs' = {} /\ Answered' = Answered /\ Ran(queue)' = Ran(queue) /\ Ran(toHash)' = Ran(toHash)
  BY <1>2, <1>4 DEF Jobs, Answered, Ran
<1>7. InOnePlace'
  BY <1>2, <1>3, <1>4, <1>6 DEF Inv, InOnePlace, Once
<1>8. Accounted'
  <2>1. Pending' = Pending
    BY <1>3, <1>6 DEF Pending
  <2>2. QED
    BY <1>2, <2>1, SameFiles DEF Inv
<1>9. Staffed'
  <2>1. lock' = None
    BY <1>2, <1>3 DEF Inv, Staffed
  <2>2. CASE toHash = <<>>
    <3>1. n = 0 /\ spawned = {}
      <4>1. Cardinality(Worker) \in Nat /\ Cardinality(Worker) # 0 /\ Len(toHash) = 0
        BY <2>2, ScanAssumption, FS_CardinalityType, FS_EmptySet
      <4>2. IsFiniteSet(spawned)
        BY ScanAssumption, FS_Subset
      <4>3. QED
        BY <1>1, <4>1, <4>2, FS_EmptySet
    <3>2. \A w \in Worker : at'[w] = "exit"
      BY <1>1, <3>1
    <3>3. QED
      BY <1>2, <1>3, <2>1, <2>2, <3>2 DEF Staffed
  <2>3. CASE toHash # <<>>
    <3>1. spawned # {}
      <4>1. Cardinality(Worker) \in Nat /\ Cardinality(Worker) # 0
        BY ScanAssumption, FS_CardinalityType, FS_EmptySet
      <4>2. Len(toHash) # 0
        BY <2>3 DEF Inv, Types, MainTypes
      <4>3. QED
        BY <1>1, <4>1, <4>2, FS_EmptySet
    <3>2. \E w \in Worker : at'[w] # "exit"
      BY <1>1, <3>1
    <3>3. QED
      BY <1>2, <1>3, <2>1, <2>3, <3>2 DEF Staffed
  <2>4. QED
    BY <2>2, <2>3
<1>10. ASSUME ~Forging PROVE Fresh'
  <2>1. Fresh /\ Len(results) = 0 /\ \A w \in Worker : at'[w] # "read"
    BY <1>3, <1>4, <1>10 DEF Inv
  <2>2. QED
    BY <1>2, <2>1 DEF Fresh, HashTrue, Present, Matches
<1>11. QED
  BY <1>5, <1>7, <1>8, <1>9, <1>10 DEF Inv

LEMMA SendInv == ASSUME Inv, Send PROVE Inv'
<1>1. /\ pc = "send" /\ toHash # <<>> /\ queue' = Append(queue, Head(toHash)) /\ toHash' = Tail(toHash)
      /\ UNCHANGED <<host, edits, pc, previous, entries, warnings, todo, closed, results, lock, at,
                     job, piece>>
  BY DEF Send
<1>2. toHash \in Seq(File) /\ queue \in Seq(File)
  BY DEF Inv, Types, MainTypes, PoolTypes
<1> DEFINE f == Head(toHash)
<1>3. /\ toHash' \in Seq(File) /\ f \in File /\ Ran(toHash) = Ran(toHash)' \cup {f}
      /\ Once(toHash)' /\ f \notin Ran(toHash)'
  BY <1>1, <1>2, TailRan DEF Inv, InOnePlace
<1> HIDE DEF f
<1>4. f \notin Ran(queue)
  BY <1>3 DEF Inv, InOnePlace
<1>5. /\ queue' \in Seq(File) /\ queue' # <<>> /\ Ran(queue)' = Ran(queue) \cup {f} /\ Once(queue)'
  <2>1. queue' = Append(queue, f) /\ Once(queue)
    BY <1>1 DEF f, Inv, InOnePlace
  <2>2. QED
    BY <1>2, <1>3, <1>4, <2>1, AppendRan
<1>6. Jobs' = Jobs /\ Answered' = Answered /\ \A w \in Worker : Busy(w)' = Busy(w)
  BY <1>1 DEF Jobs, Answered, Busy
<1>7. Types'
  BY <1>1, <1>3, <1>5 DEF Inv, Types, MainTypes, PoolTypes, Working, Busy
<1>8. InOnePlace'
  BY <1>1, <1>3, <1>5, <1>6 DEF Inv, InOnePlace
<1>9. Accounted'
  <2>1. Pending' = Pending
    BY <1>3, <1>5, <1>6 DEF Pending
  <2>2. QED
    BY <1>1, <2>1, SameFiles DEF Inv
<1>10. Staffed'
  BY <1>1 DEF Inv, Staffed
<1>11. ASSUME ~Forging PROVE Fresh'
  BY <1>1, <1>11 DEF Inv, Fresh, HashTrue, Present, Matches
<1>12. QED
  BY <1>7, <1>8, <1>9, <1>10, <1>11 DEF Inv

LEMMA CloseInv == ASSUME Inv, Close PROVE Inv'
<1>1. /\ pc = "send" /\ toHash = <<>> /\ closed' = TRUE /\ pc' = "drain"
      /\ UNCHANGED <<host, edits, previous, entries, warnings, todo, toHash, queue, results, lock, at,
                     job, piece>>
  BY DEF Close
<1>2. /\ Jobs' = Jobs /\ Answered' = Answered /\ \A w \in Worker : Busy(w)' = Busy(w)
      /\ Ran(toHash)' = Ran(toHash) /\ Ran(queue)' = Ran(queue)
      /\ Once(toHash)' = Once(toHash) /\ Once(queue)' = Once(queue)
  BY <1>1 DEF Jobs, Answered, Busy, Ran, Once
<1>3. Types'
  BY <1>1 DEF Inv, Types, MainTypes, PoolTypes, Working, Busy
<1>4. InOnePlace'
  BY <1>1, <1>2 DEF Inv, InOnePlace
<1>5. Accounted'
  <2>1. Pending' = Pending
    BY <1>2 DEF Pending
  <2>2. QED
    BY <1>1, <2>1, SameFiles DEF Inv
<1>6. Staffed'
  BY <1>1 DEF Inv, Staffed
<1>7. ASSUME ~Forging PROVE Fresh'
  BY <1>1, <1>7 DEF Inv, Fresh, HashTrue, Present, Matches
<1>8. QED
  BY <1>3, <1>4, <1>5, <1>6, <1>7 DEF Inv

\* A result takes its file out of the ones that wait, with a hash or with a warning.
LEMMA DrainInv == ASSUME Inv, Drain PROVE Inv'
<1> DEFINE r == Head(results)
           f == r.file
<1>1. /\ pc = "drain" /\ results # <<>> /\ results' = Tail(results)
      /\ UNCHANGED <<host, edits, pc, previous, todo, toHash, queue, closed, lock, at, job, piece>>
      /\ IF r.hash = None THEN warnings' = warnings \cup {f} /\ entries' = entries
         ELSE entries' = [entries EXCEPT ![f].hash = r.hash] /\ warnings' = warnings
  BY DEF Drain
<1>2. /\ results' \in Seq(Result) /\ r \in Result /\ Answered = Answered' \cup {r.file}
      /\ \A i, j \in 1..Len(results') : results'[i].file = results'[j].file => i = j
      /\ r.file \notin Answered'
      /\ \E j \in 1..Len(results) : r = results[j]
      /\ \A i \in 1..Len(results') : \E j \in 1..Len(results) : results'[i] = results[j]
  BY <1>1, TailResult DEF Inv
<1> HIDE DEF r
<1>3. f \in File /\ r.hash \in Hash \cup {None}
  BY <1>2 DEF Result
<1>4. /\ Jobs' = Jobs /\ \A w \in Worker : Busy(w)' = Busy(w)
      /\ Ran(toHash)' = Ran(toHash) /\ Ran(queue)' = Ran(queue)
      /\ Once(toHash)' = Once(toHash) /\ Once(queue)' = Once(queue)
  BY <1>1 DEF Jobs, Busy, Ran, Once
<1>5. InOnePlace'
  BY <1>1, <1>2, <1>4 DEF Inv, InOnePlace
<1>6. Pending = Pending' \cup {f} /\ f \notin Pending'
  BY <1>2, <1>4 DEF Pending, Inv, InOnePlace
<1>7. entries[f] \in Entry /\ entries[f].hash = None /\ f \notin warnings
  BY <1>6 DEF Inv, Accounted
<1>8. Staffed'
  <2>1. results' = <<>> \/ pc' \notin {"idle", "walk", "end"}
    BY <1>1
  <2>2. QED
    BY <1>1, <2>1 DEF Inv, Staffed
<1>9. CASE r.hash = None
  <2>1. warnings' = warnings \cup {f} /\ entries' = entries
    BY <1>1, <1>9
  <2>2. Types'
    BY <1>1, <1>2, <1>3, <2>1 DEF Inv, Types, MainTypes, PoolTypes, Working, Busy
  <2>3. Accounted'
    BY <1>1, <1>6, <1>7, <2>1 DEF Inv, Accounted
  <2>4. ASSUME ~Forging PROVE Fresh'
    <3>1. Fresh
      BY <2>4 DEF Inv
    <3>2. \A i \in 1..Len(results') :
            results'[i].hash # None /\ Matches(results'[i].file, entries[results'[i].file].mtime) =>
              results'[i].hash = <<host[results'[i].file].body, host[results'[i].file].body>>
      BY <1>2, <3>1 DEF Fresh
    <3>3. QED
      BY <1>1, <2>1, <3>1, <3>2 DEF Fresh, HashTrue, Present, Matches
  <2>5. QED
    BY <1>5, <1>8, <2>2, <2>3, <2>4 DEF Inv
<1>10. CASE r.hash # None
  <2> DEFINE e == [entries[f] EXCEPT !.hash = r.hash]
  <2>1. warnings' = warnings /\ entries' = [entries EXCEPT ![f] = e]
    BY <1>1, <1>10
  <2>2. e \in Entry /\ e.mtime = entries[f].mtime /\ e.hash = r.hash
    BY <1>3, <1>7 DEF Entry
  <2> HIDE DEF e
  <2>3. entries'[f] = e /\ \A g \in File : g # f => entries'[g] = entries[g]
    BY <1>3, <2>1 DEF Inv, Types, MainTypes
  <2>4. Types'
    BY <1>1, <1>2, <1>3, <2>1, <2>2 DEF Inv, Types, MainTypes, PoolTypes, Working, Busy
  <2>5. Accounted'
    <3>1. Pending' \subseteq File
      BY <1>6, PendingFiles DEF Inv
    <3>2. \A g \in Pending' : entries'[g] \in Entry /\ entries'[g].hash = None /\ g \notin warnings'
      BY <1>6, <2>1, <2>3, <3>1 DEF Inv, Accounted
    <3>3. \A g \in File : entries'[g] # None /\ entries'[g].hash = None => g \in Pending' \cup warnings'
      BY <1>6, <1>10, <2>1, <2>2, <2>3 DEF Inv, Accounted
    <3>4. \A g \in warnings' : entries'[g] # None => entries'[g].hash = None
      <4>1. warnings \subseteq File
        BY DEF Inv, Types, MainTypes
      <4>2. QED
        BY <1>7, <2>1, <2>3, <4>1 DEF Inv, Accounted
    <3>5. QED
      BY <1>1, <3>2, <3>3, <3>4 DEF Accounted
  <2>6. ASSUME ~Forging PROVE Fresh'
    <3>1. Fresh
      BY <2>6 DEF Inv
    <3>2. e.mtime <= edits
      BY <1>3, <1>7, <2>2, <3>1 DEF Fresh
    <3>3. Matches(f, e.mtime) => e.hash = <<host[f].body, host[f].body>>
      BY <1>2, <1>10, <2>2, <3>1 DEF Fresh
    <3>4. \A g \in File : entries'[g] \in Entry /\ entries'[g].hash # None /\ Matches(g, entries'[g].mtime)
                            => entries'[g].hash = <<host[g].body, host[g].body>>
      BY <2>3, <3>1, <3>3 DEF Fresh
    <3>5. \A g \in File : entries'[g].mtime = entries[g].mtime
      BY <2>2, <2>3
    <3>6. \A i \in 1..Len(results') :
            results'[i].hash # None /\ Matches(results'[i].file, entries'[results'[i].file].mtime) =>
              results'[i].hash = <<host[results'[i].file].body, host[results'[i].file].body>>
      <4>1. \A i \in 1..Len(results') : results'[i].file \in File
        <5>1. \A i \in 1..Len(results') : results'[i] \in Result
          BY <1>2
        <5>2. \A q \in Result : q.file \in File
          BY DEF Result
        <5>3. QED
          BY <5>1, <5>2
      <4>2. QED
        <5>1. ASSUME NEW i \in 1..Len(results'), results'[i].hash # None,
                     Matches(results'[i].file, entries'[results'[i].file].mtime)
              PROVE  results'[i].hash = <<host[results'[i].file].body, host[results'[i].file].body>>
          <6>1. PICK j \in 1..Len(results) : results'[i] = results[j]
            BY <1>2
          <6>2. Matches(results[j].file, entries[results[j].file].mtime)
            BY <3>5, <4>1, <5>1, <6>1
          <6>3. QED
            BY <3>1, <5>1, <6>1, <6>2 DEF Fresh
        <5>2. QED
          BY <5>1
    <3>7. \A w \in Worker : at[w] = "read" /\ Matches(job[w], entries'[job[w]].mtime) =>
                              piece[w] = host[job[w]].body
      <4>1. \A w \in Worker : at[w] = "read" => job[w] \in File
        BY DEF Inv, Types, Working, Busy
      <4>2. QED
        BY <3>1, <3>5, <4>1 DEF Fresh
    <3>8. \A g \in File : entries'[g] \in Entry => entries'[g].mtime <= edits
      BY <2>3, <3>1, <3>2 DEF Fresh
    <3>9. QED
      BY <1>1, <3>1, <3>4, <3>6, <3>7, <3>8 DEF Fresh, HashTrue, Present, Matches
  <2>7. QED
    BY <1>5, <1>8, <2>4, <2>5, <2>6 DEF Inv
<1>11. QED
  BY <1>9, <1>10

LEMMA DrainedInv == ASSUME Inv, Drained PROVE Inv'
<1>1. /\ pc = "drain" /\ results = <<>> /\ pc' = "end" /\ \A w \in Worker : at[w] = "exit"
      /\ UNCHANGED <<host, edits, previous, entries, warnings, todo, toHash>> /\ UNCHANGED pool
  BY DEF Drained
<1>2. UNCHANGED <<queue, closed, results, lock, at, job, piece>>
  BY <1>1 DEF pool
<1>3. /\ Jobs' = Jobs /\ Answered' = Answered /\ Ran(queue)' = Ran(queue)
      /\ \A w \in Worker : Busy(w)' = Busy(w)
      /\ Ran(toHash)' = Ran(toHash) /\ Once(toHash)' = Once(toHash) /\ Once(queue)' = Once(queue)
  BY <1>1, <1>2, SamePool DEF Ran, Once
<1>4. Types'
  BY <1>1, <1>2 DEF Inv, Types, MainTypes, PoolTypes, Working, Busy
<1>5. InOnePlace'
  BY <1>2, <1>3 DEF Inv, InOnePlace
<1>6. Accounted'
  <2>1. Pending' = Pending
    BY <1>3 DEF Pending
  <2>2. QED
    BY <1>1, <2>1, SameFiles DEF Inv
<1>7. Staffed'
  BY <1>1, <1>2 DEF Inv, Staffed
<1>8. ASSUME ~Forging PROVE Fresh'
  BY <1>1, <1>2, <1>8 DEF Inv, Fresh, HashTrue, Present, Matches
<1>9. QED
  BY <1>4, <1>5, <1>6, <1>7, <1>8 DEF Inv

LEMMA EndInv == ASSUME Inv, End PROVE Inv'
<1>1. /\ pc = "end" /\ pc' = "idle" /\ previous' = entries
      /\ UNCHANGED <<host, edits, entries, warnings, todo, toHash>> /\ UNCHANGED pool
  BY DEF End
<1>2. UNCHANGED <<queue, closed, results, lock, at, job, piece>>
  BY <1>1 DEF pool
<1>3. /\ Jobs' = Jobs /\ Answered' = Answered /\ Ran(queue)' = Ran(queue)
      /\ \A w \in Worker : Busy(w)' = Busy(w)
      /\ Ran(toHash)' = Ran(toHash) /\ Once(toHash)' = Once(toHash) /\ Once(queue)' = Once(queue)
  BY <1>1, <1>2, SamePool DEF Ran, Once
<1>4. Types'
  BY <1>1, <1>2 DEF Inv, Types, MainTypes, PoolTypes, Working, Busy
<1>5. InOnePlace'
  BY <1>2, <1>3 DEF Inv, InOnePlace
<1>6. Accounted'
  <2>1. Pending' = Pending
    BY <1>3 DEF Pending
  <2>2. QED
    BY <1>1, <2>1, SameFiles DEF Inv
<1>7. Staffed'
  BY <1>1, <1>2 DEF Inv, Staffed
<1>8. ASSUME ~Forging PROVE Fresh'
  <2>1. Fresh /\ entries \in [File -> Entry \cup {None}]
    BY <1>8 DEF Inv, Types, MainTypes
  <2>2. HashTrue'
    BY <1>1, <2>1 DEF Fresh, HashTrue, Present, Matches
  <2>3. QED
    BY <1>1, <1>2, <2>1, <2>2 DEF Fresh, Present, Matches
<1>9. QED
  BY <1>4, <1>5, <1>6, <1>7, <1>8 DEF Inv

-----------------------------------------------------------------------------
(* The host                                                                *)

\* An edit gives a file a time that no manifest has.
LEMMA EditInv == ASSUME Inv, Edit PROVE Inv'
<1>1. /\ edits' = edits + 1 /\ UNCHANGED pool /\ UNCHANGED main
  BY DEF Edit
<1>2. /\ UNCHANGED <<queue, closed, results, lock, at, job, piece>>
      /\ UNCHANGED <<pc, previous, entries, warnings, todo, toHash>>
  BY <1>1 DEF pool, main
<1>3. PICK f \in File :
        \/ host' = [host EXCEPT ![f] = [body |-> edits', mtime |-> edits']]
        \/ host' = [host EXCEPT ![f] = None]
        \/ Forging /\ Present(f) /\ host' = [host EXCEPT ![f].body = edits']
  BY DEF Edit
<1>4. host \in [File -> [body : Nat, mtime : Nat] \cup {None}] /\ edits \in Nat /\ edits' \in Nat
  BY <1>1 DEF Inv, Types, MainTypes
<1>5. Types'
  <2>1. host' \in [File -> [body : Nat, mtime : Nat] \cup {None}]
    BY <1>3, <1>4 DEF Present
  <2>2. QED
    BY <1>2, <1>4, <2>1 DEF Inv, Types, MainTypes, PoolTypes, Working, Busy
<1>6. /\ Jobs' = Jobs /\ Answered' = Answered /\ Ran(queue)' = Ran(queue)
      /\ \A w \in Worker : Busy(w)' = Busy(w)
      /\ Ran(toHash)' = Ran(toHash) /\ Once(toHash)' = Once(toHash) /\ Once(queue)' = Once(queue)
  BY <1>1, <1>2, SamePool DEF Ran, Once
<1>7. InOnePlace'
  BY <1>2, <1>6 DEF Inv, InOnePlace
<1>8. Accounted'
  <2>1. Pending' = Pending
    BY <1>6 DEF Pending
  <2>2. QED
    BY <1>2, <2>1, SameFiles DEF Inv
<1>9. Staffed'
  BY <1>2 DEF Inv, Staffed
<1>10. ASSUME ~Forging PROVE Fresh'
  <2>1. Fresh
    BY <1>10 DEF Inv
  <2>2. \A g \in File : g # f => host'[g] = host[g]
    BY <1>3, <1>4
  <2>3. host'[f] = None \/ (host'[f].body = edits + 1 /\ host'[f].mtime = edits + 1)
    BY <1>1, <1>3, <1>4, <1>10
  <2>4. \A g \in File : Present(g) => host[g].mtime \in Nat
    BY <1>4 DEF Present
  <2>5. \A g \in File : Present(g)' => host'[g].body = host'[g].mtime /\ host'[g].mtime <= edits'
    <3>1. ASSUME NEW g \in File, g # f, Present(g)
          PROVE  host[g].body = host[g].mtime /\ host[g].mtime <= edits + 1
      BY <1>4, <2>1, <2>4, <3>1 DEF Fresh
    <3>2. QED
      BY <1>1, <1>4, <2>2, <2>3, <3>1 DEF Present
  <2>6. \A m \in Nat : m <= edits => m # edits + 1 /\ m <= edits'
    BY <1>1, <1>4
  <2>7. \A e \in Entry : e.mtime \in Nat
    BY DEF Entry
  <2>8. \A g \in File, e \in Entry : e.mtime <= edits /\ Present(g)' /\ e.mtime = host'[g].mtime =>
                                       Matches(g, e.mtime) /\ host'[g] = host[g]
    BY <2>2, <2>3, <2>6, <2>7 DEF Matches, Present
  <2>9. \A g \in Pending : g \in File /\ entries[g] \in Entry /\ entries[g].mtime <= edits
    BY <2>1, PendingFiles DEF Inv, Accounted, Fresh
  <2>10. /\ \A g \in File : previous'[g] \in Entry => previous'[g].mtime <= edits'
         /\ \A g \in File : entries'[g] \in Entry => entries'[g].mtime <= edits'
    BY <1>2, <2>1, <2>6, <2>7 DEF Fresh
  <2>11. HashTrue'
    <3>1. SUFFICES ASSUME NEW g \in File, Present(g)', previous[g] # None, previous[g].hash # None,
                          previous[g].mtime = host'[g].mtime
                   PROVE  previous[g].hash = <<host'[g].body, host'[g].body>>
      BY <1>2 DEF HashTrue
    <3>2. previous[g] \in Entry /\ previous[g].mtime <= edits
      BY <2>1, <3>1 DEF Inv, Types, MainTypes, Fresh
    <3>3. Matches(g, previous[g].mtime) /\ host'[g] = host[g]
      BY <2>8, <3>1, <3>2 DEF Matches
    <3>4. QED
      BY <2>1, <3>1, <3>3 DEF Fresh, HashTrue, Matches
  <2>12. \A g \in File : /\ entries[g] \in Entry /\ entries[g].hash # None
                          /\ Present(g)' /\ entries[g].mtime = host'[g].mtime
                          => entries[g].hash = <<host'[g].body, host'[g].body>>
    BY <1>2, <2>1, <2>8 DEF Fresh
  <2>13. ASSUME NEW w \in Worker, at[w] = "read", Present(job[w])', entries[job[w]].mtime = host'[job[w]].mtime
         PROVE  piece[w] = host'[job[w]].body
    <3>1. job[w] \in Pending
      BY <2>13 DEF Pending, Jobs, Busy
    <3>2. Matches(job[w], entries[job[w]].mtime) /\ host'[job[w]] = host[job[w]]
      BY <1>2, <2>8, <2>9, <2>13, <3>1
    <3>3. QED
      BY <2>1, <2>13, <3>2 DEF Fresh
  <2>14. ASSUME NEW i \in 1..Len(results), results[i].hash # None, Present(results[i].file)',
                entries[results[i].file].mtime = host'[results[i].file].mtime
         PROVE  results[i].hash = <<host'[results[i].file].body, host'[results[i].file].body>>
    <3>1. results[i].file \in Pending
      BY DEF Pending, Answered
    <3>2. /\ Matches(results[i].file, entries[results[i].file].mtime)
          /\ host'[results[i].file] = host[results[i].file]
      BY <1>2, <2>8, <2>9, <2>14, <3>1
    <3>3. QED
      BY <2>1, <2>14, <3>2 DEF Fresh
  <2>15. QED
    BY <1>2, <2>5, <2>10, <2>11, <2>12, <2>13, <2>14 DEF Fresh, Matches
<1>11. QED
  BY <1>5, <1>7, <1>8, <1>9, <1>10 DEF Inv

-----------------------------------------------------------------------------
(* The workers                                                             *)

\* What a step of a worker leaves alone.
Beside == UNCHANGED <<host, edits, pc, previous, entries, warnings, todo, toHash>>

\* Fresh, for a step that changes jobs, pieces and results only.
LEMMA FreshPool ==
  ASSUME Fresh, Beside,
         \A w \in Worker : at'[w] = "read" /\ Matches(job'[w], entries[job'[w]].mtime) =>
                             piece'[w] = host[job'[w]].body,
         \A i \in 1..Len(results') :
           results'[i].hash # None /\ Matches(results'[i].file, entries[results'[i].file].mtime) =>
             results'[i].hash = <<host[results'[i].file].body, host[results'[i].file].body>>
  PROVE  Fresh'
<1>1. host' = host /\ edits' = edits /\ previous' = previous /\ entries' = entries
  BY DEF Beside
<1>2. HashTrue'
  BY <1>1 DEF Fresh, HashTrue, Present
<1>3. QED
  BY <1>1, <1>2 DEF Fresh, Present, Matches

LEMMA LockInv == ASSUME Inv, NEW w \in Worker, Lock(w) PROVE Inv'
<1>1. /\ at[w] = "lock" /\ lock = None /\ lock' = w /\ at' = [at EXCEPT ![w] = "recv"] /\ Beside
      /\ UNCHANGED <<queue, closed, results, job, piece>>
  BY DEF Lock, Beside, main
<1>2. at'[w] = "recv" /\ \A v \in Worker : v # w => at'[v] = at[v]
  BY <1>1 DEF Inv, Types, PoolTypes
<1>3. \A v \in Worker : Busy(v)' = Busy(v)
  BY <1>1, <1>2 DEF Busy
<1>4. /\ Jobs' = Jobs /\ Answered' = Answered /\ Ran(queue)' = Ran(queue)
      /\ Ran(toHash)' = Ran(toHash) /\ Once(toHash)' = Once(toHash) /\ Once(queue)' = Once(queue)
  BY <1>1, <1>3 DEF Jobs, Answered, Ran, Once, Beside
<1>5. Types'
  BY <1>1, <1>2, <1>3 DEF Inv, Types, MainTypes, PoolTypes, Working, Beside, Label
<1>6. InOnePlace'
  BY <1>1, <1>3, <1>4 DEF Inv, InOnePlace
<1>7. Accounted'
  <2>1. Pending' = Pending
    BY <1>4 DEF Pending
  <2>2. QED
    BY <1>1, <2>1, SameFiles DEF Inv, Beside
<1>8. Staffed'
  BY <1>1, <1>2 DEF Inv, Staffed, Beside
<1>9. ASSUME ~Forging PROVE Fresh'
  <2>1. Fresh
    BY <1>9 DEF Inv
  <2>2. QED
    BY <1>1, <1>2, <2>1, FreshPool DEF Fresh
<1>10. QED
  BY <1>5, <1>6, <1>7, <1>8, <1>9 DEF Inv

\* A worker takes a job, or leaves when there is none and the channel is closed.
LEMMA RecvInv == ASSUME Inv, NEW w \in Worker, Recv(w) PROVE Inv'
<1>1. /\ at[w] = "recv" /\ lock' = None /\ Beside /\ UNCHANGED <<closed, results, piece>>
      /\ results \in Seq(Result) /\ queue \in Seq(File)
  BY DEF Recv, Beside, main, Inv, Types, PoolTypes
<1>2. ~Busy(w) /\ pc \in {"send", "drain"}
  BY <1>1 DEF Busy, Inv, Staffed, Types, MainTypes
<1>3. /\ Answered' = Answered /\ Ran(toHash)' = Ran(toHash) /\ Once(toHash)' = Once(toHash)
  BY <1>1 DEF Answered, Ran, Once, Beside
<1>4. CASE queue # <<>>
  <2> DEFINE f == Head(queue)
  <2>1. /\ job' = [job EXCEPT ![w] = f] /\ queue' = Tail(queue) /\ at' = [at EXCEPT ![w] = "open"]
    BY <1>4 DEF Recv
  <2>2. /\ queue' \in Seq(File) /\ f \in File /\ Ran(queue) = Ran(queue)' \cup {f}
        /\ Once(queue)' /\ f \notin Ran(queue)'
    BY <1>1, <1>4, <2>1, TailRan DEF Inv, InOnePlace
  <2> HIDE DEF f
  <2>3. /\ at'[w] = "open" /\ job'[w] = f
        /\ \A v \in Worker : v # w => at'[v] = at[v] /\ job'[v] = job[v]
    BY <2>1 DEF Inv, Types, PoolTypes
  <2>4. Busy(w)' /\ \A v \in Worker : v # w => Busy(v)' = Busy(v)
    BY <2>3 DEF Busy
  <2>5. Jobs' = Jobs \cup {f}
    BY <1>2, <2>3, <2>4 DEF Jobs
  <2>6. Types'
    BY <1>1, <2>1, <2>2, <2>3, <2>4 DEF Inv, Types, MainTypes, PoolTypes, Working, Beside, Label
  <2>7. f \notin Jobs /\ \A v \in Worker : Busy(v) => job[v] # f
    <3>1. f \in Ran(queue)
      BY <2>2
    <3>2. QED
      BY <3>1 DEF Inv, InOnePlace, Jobs
  <2>8. InOnePlace'
    <3>1. \A u, v \in Worker : Busy(u)' /\ Busy(v)' /\ job'[u] = job'[v] => u = v
      BY <2>3, <2>4, <2>7 DEF Inv, InOnePlace
    <3>2. QED
      BY <1>1, <1>3, <2>2, <2>5, <3>1 DEF Inv, InOnePlace
  <2>9. Accounted'
    <3>1. Pending' = Pending
      BY <1>3, <2>2, <2>5 DEF Pending
    <3>2. QED
      BY <1>1, <3>1, SameFiles DEF Inv, Beside
  <2>10. Staffed'
    BY <1>1, <1>2, <2>3 DEF Inv, Staffed, Beside
  <2>11. ASSUME ~Forging PROVE Fresh'
    <3>1. Fresh
      BY <2>11 DEF Inv
    <3>2. QED
      BY <1>1, <2>3, <3>1, FreshPool DEF Fresh
  <2>12. QED
    BY <2>6, <2>8, <2>9, <2>10, <2>11 DEF Inv
<1>5. CASE queue = <<>>
  <2>1. closed /\ at' = [at EXCEPT ![w] = "exit"] /\ UNCHANGED <<job, queue>>
    BY <1>5 DEF Recv
  <2>2. at'[w] = "exit" /\ \A v \in Worker : v # w => at'[v] = at[v]
    BY <2>1 DEF Inv, Types, PoolTypes
  <2>3. \A v \in Worker : Busy(v)' = Busy(v)
    BY <1>1, <2>2 DEF Busy
  <2>4. Jobs' = Jobs /\ Ran(queue)' = Ran(queue) /\ Once(queue)' = Once(queue)
    BY <2>1, <2>3 DEF Jobs, Ran, Once
  <2>5. Types'
    BY <1>1, <2>1, <2>2, <2>3 DEF Inv, Types, MainTypes, PoolTypes, Working, Beside, Label
  <2>6. InOnePlace'
    BY <1>1, <1>3, <2>1, <2>3, <2>4 DEF Inv, InOnePlace
  <2>7. Accounted'
    <3>1. Pending' = Pending
      BY <1>3, <2>4 DEF Pending
    <3>2. QED
      BY <1>1, <3>1, SameFiles DEF Inv, Beside
  <2>8. Staffed'
    BY <1>1, <1>2, <1>5, <2>1, <2>2 DEF Inv, Staffed, Beside
  <2>9. ASSUME ~Forging PROVE Fresh'
    <3>1. Fresh
      BY <2>9 DEF Inv
    <3>2. QED
      BY <1>1, <2>1, <2>2, <3>1, FreshPool DEF Fresh
  <2>10. QED
    BY <2>5, <2>6, <2>7, <2>8, <2>9 DEF Inv
<1>6. QED
  BY <1>4, <1>5

\* An answer takes the job's file over to the results.
LEMMA AnswerInv ==
  ASSUME Inv, NEW w \in Worker, Busy(w), NEW h \in Hash \cup {None}, Answer(w, h), Beside,
         UNCHANGED <<queue, closed, lock, job, piece>>,
         ~Forging /\ h # None /\ Matches(job[w], entries[job[w]].mtime) =>
           h = <<host[job[w]].body, host[job[w]].body>>
  PROVE  Inv'
<1> DEFINE r == [file |-> job[w], hash |-> h]
<1>1. job[w] \in File /\ r \in Result /\ r.file = job[w] /\ r.hash = h
  BY DEF Inv, Types, Working, Result
<1>2. results' = Append(results, r) /\ at' = [at EXCEPT ![w] = "lock"]
  BY DEF Answer
<1> HIDE DEF r
<1>3. at'[w] = "lock" /\ \A v \in Worker : v # w => at'[v] = at[v]
  BY <1>2 DEF Inv, Types, PoolTypes
<1>4. ~Busy(w)' /\ \A v \in Worker : v # w => Busy(v)' = Busy(v)
  BY <1>3 DEF Busy
<1>5. Jobs = Jobs' \cup {job[w]} /\ job[w] \notin Jobs'
  BY <1>4 DEF Jobs, Inv, InOnePlace
<1>6. job[w] \notin Answered
  BY <1>5 DEF Inv, InOnePlace
<1>7. /\ results' \in Seq(Result) /\ Answered' = Answered \cup {job[w]}
      /\ \A i, j \in 1..Len(results') : results'[i].file = results'[j].file => i = j
      /\ \A i \in 1..Len(results') :
           results'[i] = r \/ \E j \in 1..Len(results) : results'[i] = results[j]
  BY <1>1, <1>2, <1>6, AppendResult DEF Inv
<1>8. /\ Ran(toHash)' = Ran(toHash) /\ Once(toHash)' = Once(toHash)
      /\ Ran(queue)' = Ran(queue) /\ Once(queue)' = Once(queue)
  BY DEF Ran, Once, Beside
<1>9. Types'
  BY <1>2, <1>3, <1>4, <1>7 DEF Inv, Types, MainTypes, PoolTypes, Working, Beside, Label
<1>10. InOnePlace'
  <2>1. \A u, v \in Worker : Busy(u)' /\ Busy(v)' /\ job'[u] = job'[v] => u = v
    BY <1>4 DEF Inv, InOnePlace
  <2>2. QED
    BY <1>5, <1>7, <1>8, <2>1 DEF Inv, InOnePlace
<1>11. Accounted'
  <2>1. Pending' = Pending
    BY <1>5, <1>7, <1>8 DEF Pending
  <2>2. QED
    BY <2>1, SameFiles DEF Inv, Beside
<1>12. Staffed'
  <2>1. pc \in {"send", "drain"} /\ at[w] # "recv"
    BY DEF Busy, Inv, Staffed, Types, MainTypes
  <2>2. QED
    BY <1>3, <2>1 DEF Inv, Staffed, Beside
<1>13. ASSUME ~Forging PROVE Fresh'
  <2>1. Fresh
    BY <1>13 DEF Inv
  <2>2. \A v \in Worker : at'[v] = "read" => v # w
    BY <1>3
  <2>3. \A i \in 1..Len(results') :
          results'[i].hash # None /\ Matches(results'[i].file, entries[results'[i].file].mtime) =>
            results'[i].hash = <<host[results'[i].file].body, host[results'[i].file].body>>
    <3>1. ASSUME NEW i \in 1..Len(results'), results'[i].hash # None,
                 Matches(results'[i].file, entries[results'[i].file].mtime)
          PROVE  results'[i].hash = <<host[results'[i].file].body, host[results'[i].file].body>>
      <4>1. CASE results'[i] = r
        BY <1>1, <1>13, <3>1, <4>1
      <4>2. CASE \E j \in 1..Len(results) : results'[i] = results[j]
        BY <2>1, <3>1, <4>2 DEF Fresh
      <4>3. QED
        BY <1>7, <4>1, <4>2
    <3>2. QED
      BY <3>1
  <2>4. QED
    BY <1>3, <2>1, <2>2, <2>3, FreshPool DEF Fresh
<1>14. QED
  BY <1>9, <1>10, <1>11, <1>12, <1>13 DEF Inv

LEMMA OpenInv == ASSUME Inv, NEW w \in Worker, Open(w) PROVE Inv'
<1>1. at[w] = "open" /\ Busy(w) /\ Beside /\ UNCHANGED <<queue, closed, lock, job>>
  BY DEF Open, Busy, Beside, main
<1>2. CASE ~Present(job[w])
  <2>1. Answer(w, None) /\ piece' = piece
    BY <1>2 DEF Open
  <2>2. QED
    BY <1>1, <2>1, AnswerInv
<1>3. CASE Present(job[w])
  <2>1. /\ piece' = [piece EXCEPT ![w] = host[job[w]].body]
        /\ at' = [at EXCEPT ![w] = "read"] /\ results' = results
    BY <1>3 DEF Open
  <2>2. job[w] \in File /\ host[job[w]].body \in Nat
    <3>1. job[w] \in File /\ host[job[w]] \in [body : Nat, mtime : Nat]
      BY <1>1, <1>3 DEF Inv, Types, MainTypes, Working, Present
    <3>2. QED
      BY <3>1
  <2>3. /\ at'[w] = "read" /\ piece'[w] = host[job[w]].body
        /\ \A v \in Worker : v # w => at'[v] = at[v] /\ piece'[v] = piece[v]
    BY <2>1 DEF Inv, Types, PoolTypes
  <2>4. \A v \in Worker : Busy(v)' = Busy(v)
    BY <1>1, <2>3 DEF Busy
  <2>5. /\ Jobs' = Jobs /\ Answered' = Answered /\ Ran(queue)' = Ran(queue)
        /\ Ran(toHash)' = Ran(toHash) /\ Once(toHash)' = Once(toHash) /\ Once(queue)' = Once(queue)
    BY <1>1, <2>1, <2>4 DEF Jobs, Answered, Ran, Once, Beside
  <2>6. Types'
    BY <1>1, <2>1, <2>2, <2>3, <2>4 DEF Inv, Types, MainTypes, PoolTypes, Working, Beside, Label
  <2>7. InOnePlace'
    BY <1>1, <2>1, <2>4, <2>5 DEF Inv, InOnePlace
  <2>8. Accounted'
    <3>1. Pending' = Pending
      BY <2>5 DEF Pending
    <3>2. QED
      BY <1>1, <3>1, SameFiles DEF Inv, Beside
  <2>9. Staffed'
    BY <1>1, <2>1, <2>3 DEF Inv, Staffed, Beside
  <2>10. ASSUME ~Forging PROVE Fresh'
    <3>1. Fresh
      BY <2>10 DEF Inv
    <3>2. QED
      BY <1>1, <2>1, <2>3, <3>1, FreshPool DEF Fresh
  <2>11. QED
    BY <2>6, <2>7, <2>8, <2>9, <2>10 DEF Inv
<1>4. QED
  BY <1>2, <1>3

LEMMA ReadInv == ASSUME Inv, NEW w \in Worker, Read(w) PROVE Inv'
<1>1. at[w] = "read" /\ Busy(w) /\ Beside /\ UNCHANGED <<queue, closed, lock, job, piece>>
  BY DEF Read, Busy, Beside, main
<1>2. piece[w] \in Nat /\ job[w] \in File
  BY <1>1 DEF Inv, Types, Working
<1>3. ~Forging /\ Matches(job[w], entries[job[w]].mtime) => piece[w] = host[job[w]].body
  BY <1>1 DEF Inv, Fresh
<1>4. CASE Answer(w, <<piece[w], piece[w]>>)
  <2>1. <<piece[w], piece[w]>> \in Hash
    BY <1>2 DEF Hash
  <2>2. QED
    BY <1>1, <1>3, <1>4, <2>1, AnswerInv
<1>5. CASE Present(job[w]) /\ Answer(w, <<piece[w], host[job[w]].body>>)
  <2>1. host[job[w]] \in [body : Nat, mtime : Nat]
    BY <1>2, <1>5 DEF Inv, Types, MainTypes, Present
  <2>2. <<piece[w], host[job[w]].body>> \in Hash
    BY <1>2, <2>1 DEF Hash
  <2>3. QED
    BY <1>1, <1>3, <1>5, <2>2, AnswerInv
<1>6. QED
  BY <1>4, <1>5 DEF Read

LEMMA FailsInv == ASSUME Inv, NEW w \in Worker, Fails(w) PROVE Inv'
<1>1. /\ Busy(w) /\ Beside /\ UNCHANGED <<queue, closed, lock, job, piece>> /\ Answer(w, None)
  BY DEF Fails, Busy, Beside, main
<1>2. QED
  BY <1>1, AnswerInv

-----------------------------------------------------------------------------
(* The theorems                                                            *)

LEMMA NextInv == Inv /\ [Next]_vars => Inv'
<1> SUFFICES ASSUME Inv, [Next]_vars PROVE Inv'
  OBVIOUS
<1>1. CASE Main
  BY <1>1, StartInv, WalkInv, SpawnInv, SendInv, CloseInv, DrainInv, DrainedInv, EndInv DEF Main
<1>2. CASE Edit
  BY <1>2, EditInv
<1>3. ASSUME NEW w \in Worker, Work(w) PROVE Inv'
  BY <1>3, LockInv, RecvInv, OpenInv, ReadInv, FailsInv DEF Work
<1>4. CASE UNCHANGED vars
  <2>1. /\ UNCHANGED <<host, edits, pc, previous, entries, warnings, todo, toHash>>
        /\ UNCHANGED <<queue, closed, results, lock, at, job, piece>>
    BY <1>4 DEF vars
  <2>2. \A w \in Worker : Busy(w)' = Busy(w)
    BY <2>1 DEF Busy
  <2>3. /\ Jobs' = Jobs /\ Answered' = Answered /\ Ran(queue)' = Ran(queue)
        /\ Ran(toHash)' = Ran(toHash) /\ Once(toHash)' = Once(toHash) /\ Once(queue)' = Once(queue)
    BY <2>1, <2>2 DEF Jobs, Answered, Ran, Once
  <2>4. Types'
    BY <2>1, <2>2 DEF Inv, Types, MainTypes, PoolTypes, Working
  <2>5. InOnePlace'
    BY <2>1, <2>2, <2>3 DEF Inv, InOnePlace
  <2>6. Accounted'
    <3>1. Pending' = Pending
      BY <2>3 DEF Pending
    <3>2. QED
      BY <2>1, <3>1, SameFiles DEF Inv
  <2>7. Staffed'
    BY <2>1 DEF Inv, Staffed
  <2>8. ~Forging => Fresh'
    BY <2>1, FreshPool DEF Inv, Fresh, Beside
  <2>9. QED
    BY <2>4, <2>5, <2>6, <2>7, <2>8 DEF Inv
<1>5. QED
  BY <1>1, <1>2, <1>3, <1>4 DEF Next

\* The inductive invariant: types; a file that waits for its hash is in one place; the
\* files that wait are those with neither hash nor warning; the pool has a worker while
\* there are jobs; and, unless times are forged, what was read is what the time stands for.
THEOREM Invariance == Spec => []Inv
<1>1. QED
  BY InitInv, NextInv, PTL DEF Spec

\* manifest.rs:169-176, 471-528: at the end of a scan every file that was seen has a hash
\* or a warning, and no job, result or lock is left, however many files and workers there
\* are and whatever is edited or cannot be read meanwhile.
THEOREM NoFileForgotten == Spec => []NothingForgotten
<1>1. Inv => NothingForgotten
  <2> SUFFICES ASSUME Inv, pc = "end"
               PROVE  /\ \A f \in File : entries[f] # None => (entries[f].hash = None <=> f \in warnings)
                      /\ queue = <<>> /\ results = <<>> /\ lock = None
                      /\ \A w \in Worker : at[w] = "exit"
    BY DEF NothingForgotten
  <2>1. queue = <<>> /\ results = <<>> /\ toHash = <<>> /\ \A w \in Worker : at[w] = "exit"
    BY DEF Inv, Staffed
  <2>2. lock = None
    BY <2>1 DEF Inv, Staffed
  <2>3. Pending = {}
    <3>1. Ran(toHash) = {}
      BY <2>1, EmptyRan
    <3>2. QED
      BY <3>1, AtRest DEF Inv, Pending
  <2>4. \A f \in File : entries[f] # None => (entries[f].hash = None <=> f \in warnings)
    BY <2>3 DEF Inv, Accounted
  <2>5. QED
    BY <2>1, <2>2, <2>4
<1>2. QED
  BY <1>1, Invariance, PTL

\* manifest.rs:302-323, stat_eq: unless somebody puts a modification time back, no hash in
\* the manifest of a scan is wrong for a file that still has the stat in it, however often
\* hashes were reused and whatever was edited while they were taken.
THEOREM HashesAreTrue == ASSUME ~Forging PROVE Spec => []HashTrue
<1>1. Inv => HashTrue
  BY DEF Inv, Fresh
<1>2. QED
  BY <1>1, Invariance, PTL

=============================================================================
