----------------------------- MODULE CowFsProofs -----------------------------
(***************************************************************************)
(* Theorems about CowFs, for any names, any depth of the tree, any files,  *)
(* symlinks and host directory: the layer that the handlers leave behind,  *)
(* killed anywhere, is a tree with its whiteouts in directories of its     *)
(* own, the host directory is never written, and the offline reading of    *)
(* the layer is what the programs saw.                                     *)
(***************************************************************************)
EXTENDS CowFs, SequenceTheorems, TLAPS

(* Paths                                                                   *)

LEMMA InPath ==
  \A p : p \in Path <=> p \in Seq(Names) /\ Len(p) \in 1 .. MaxDepth
<1>1. ASSUME NEW p \in Path PROVE p \in Seq(Names) /\ Len(p) \in 1 .. MaxDepth
  <2>1. PICK n \in 1 .. MaxDepth : p \in [1 .. n -> Names]
    BY DEF Path
  <2>2. n \in Nat
    BY ConstantsAssumption
  <2>3. p \in Seq(Names)
    BY <2>1, <2>2, SeqDef
  <2>4. p \in [1 .. Len(p) -> Names] /\ Len(p) \in Nat
    BY <2>3, LenProperties
  <2>5. Len(p) = n
    BY <2>1, <2>2, <2>4
  <2>6. QED
    BY <2>3, <2>5
<1>2. ASSUME NEW p \in Seq(Names), Len(p) \in 1 .. MaxDepth PROVE p \in Path
  <2>1. p \in [1 .. Len(p) -> Names]
    BY LenProperties
  <2>2. QED
    BY <1>2, <2>1 DEF Path
<1>3. QED
  BY <1>1, <1>2

LEMMA PathFacts ==
  ASSUME NEW p \in Path
  PROVE  /\ p \in Seq(Names) /\ Len(p) \in Nat \ {0}
         /\ MaxDepth \in Nat /\ Len(p) <= MaxDepth
BY InPath, ConstantsAssumption

\* An ancestor is a shorter path that p begins with.
Begins(p, r) == Len(r) < Len(p) /\ \A i \in 1 .. Len(r) : r[i] = p[i]

LEMMA Prefix ==
  ASSUME NEW p \in Path, NEW n \in 1 .. Len(p)
  PROVE  /\ SubSeq(p, 1, n) \in Path
         /\ Len(SubSeq(p, 1, n)) = n
         /\ \A i \in 1 .. n : SubSeq(p, 1, n)[i] = p[i]
<1>1. n \in Nat \ {0} /\ n <= Len(p) /\ p \in Seq(Names) /\ Len(p) \in Nat \ {0}
  BY PathFacts
<1>2. \A i \in 1 .. n : p[i] \in Names
  BY <1>1, ElementOfSeq
<1>3. /\ SubSeq(p, 1, n) \in Seq(Names)
      /\ Len(SubSeq(p, 1, n)) = n
      /\ \A i \in 1 .. n : SubSeq(p, 1, n)[i] = p[i]
  <2>1. 1 \in Int /\ n \in Int
    BY <1>1
  <2>2. /\ SubSeq(p, 1, n) \in Seq(Names)
        /\ Len(SubSeq(p, 1, n)) = IF 1 <= n THEN n - 1 + 1 ELSE 0
        /\ \A i \in 1 .. n - 1 + 1 : SubSeq(p, 1, n)[i] = p[1 + i - 1]
    BY <1>2, <2>1, SubSeqProperties
  <2>3. \A i \in 1 .. n : i \in 1 .. n - 1 + 1 /\ 1 + i - 1 = i
    BY <1>1
  <2>4. QED
    BY <1>1, <2>2, <2>3
<1>4. n \in 1 .. MaxDepth
  BY <1>1, PathFacts
<1>5. SubSeq(p, 1, n) \in Path
  BY <1>3, <1>4, InPath
<1>6. QED
  BY <1>3, <1>5

LEMMA AncIs ==
  ASSUME NEW p \in Path
  PROVE  \A r : r \in Anc[p] <=> r \in Path /\ Begins(p, r)
<1>1. Len(p) \in Nat \ {0}
  BY PathFacts
<1>2. \A r : r \in Anc[p] <=> \E n \in 1 .. Len(p) - 1 : r = SubSeq(p, 1, n)
  BY DEF Anc
<1>3. ASSUME NEW r, NEW n \in 1 .. Len(p) - 1, r = SubSeq(p, 1, n)
      PROVE  r \in Path /\ Begins(p, r)
  <2>1. n \in 1 .. Len(p) /\ n < Len(p)
    BY <1>1
  <2>2. QED
    BY <1>3, <2>1, Prefix DEF Begins
<1>4. ASSUME NEW r \in Path, Begins(p, r)
      PROVE  \E n \in 1 .. Len(p) - 1 : r = SubSeq(p, 1, n)
  <2>1. Len(r) \in 1 .. Len(p) - 1 /\ Len(r) \in 1 .. Len(p)
    BY <1>1, <1>4, PathFacts DEF Begins
  <2>2. /\ SubSeq(p, 1, Len(r)) \in Path
        /\ Len(SubSeq(p, 1, Len(r))) = Len(r)
        /\ \A i \in 1 .. Len(r) : SubSeq(p, 1, Len(r))[i] = r[i]
    BY <1>4, <2>1, Prefix DEF Begins
  <2>3. r \in Seq(Names) /\ SubSeq(p, 1, Len(r)) \in Seq(Names)
    BY <2>2, PathFacts
  <2>4. r = SubSeq(p, 1, Len(r))
    BY <2>2, <2>3, SeqEqual
  <2>5. QED
    BY <2>1, <2>4
<1>5. QED
  BY <1>2, <1>3, <1>4

LEMMA AncTrans ==
  ASSUME NEW p \in Path, NEW q \in Anc[p], NEW r \in Anc[q]
  PROVE  r \in Anc[p]
<1>1. q \in Path /\ Begins(p, q)
  BY AncIs
<1>2. r \in Path /\ Begins(q, r)
  BY <1>1, AncIs
<1>3. Len(p) \in Nat /\ Len(q) \in Nat /\ Len(r) \in Nat
  BY <1>1, <1>2, PathFacts
<1>4. \A i \in 1 .. Len(r) : i \in 1 .. Len(q)
  BY <1>2, <1>3 DEF Begins
<1>5. Begins(p, r)
  BY <1>1, <1>2, <1>3, <1>4 DEF Begins
<1>6. QED
  BY <1>2, <1>5, AncIs

LEMMA AncSelf ==
  ASSUME NEW p \in Path PROVE p \notin Anc[p] /\ Anc[p] \subseteq Path
BY AncIs, PathFacts DEF Begins

\* The ancestors of a path form a chain.
LEMMA AncChain ==
  ASSUME NEW p \in Path, NEW q \in Anc[p], NEW r \in Anc[p]
  PROVE  q = r \/ q \in Anc[r] \/ r \in Anc[q]
<1>1. q \in Path /\ r \in Path /\ Begins(p, q) /\ Begins(p, r)
  BY AncIs
<1>2. Len(p) \in Nat /\ Len(q) \in Nat /\ Len(r) \in Nat
  BY <1>1, PathFacts
<1>3. CASE Len(q) = Len(r)
  <2>1. \A i \in 1 .. Len(q) : q[i] = r[i]
    BY <1>1, <1>3 DEF Begins
  <2>2. q \in Seq(Names) /\ r \in Seq(Names)
    BY <1>1, PathFacts
  <2>3. q = r
    BY <1>3, <2>1, <2>2, SeqEqual
  <2>4. QED
    BY <2>3
<1>4. CASE Len(q) < Len(r)
  <2>1. \A i \in 1 .. Len(q) : i \in 1 .. Len(r)
    BY <1>2, <1>4
  <2>2. Begins(r, q)
    BY <1>1, <1>4, <2>1 DEF Begins
  <2>3. QED
    BY <1>1, <2>2, AncIs
<1>5. CASE Len(r) < Len(q)
  <2>1. \A i \in 1 .. Len(r) : i \in 1 .. Len(q)
    BY <1>2, <1>5
  <2>2. Begins(q, r)
    BY <1>1, <1>5, <2>1 DEF Begins
  <2>3. QED
    BY <1>1, <2>2, AncIs
<1>6. QED
  BY <1>2, <1>3, <1>4, <1>5

LEMMA Under ==
  ASSUME NEW p \in Path
  PROVE  /\ Upto[p] = Anc[p] \cup {p} /\ AtOrBelow[p] = Below[p] \cup {p}
         /\ \A q : q \in Below[p] <=> q \in Path /\ p \in Anc[q]
         /\ AtOrBelow[p] \subseteq Path /\ p \notin Below[p]
BY AncSelf DEF Upto, AtOrBelow, Below

\* Where a path is after a rename of what it lies in.
LEMMA MovedIs ==
  ASSUME NEW src \in Path, NEW dst \in Path, NEW q \in Path, Len(src) <= Len(q)
  PROVE  LET m == Moved(q, src, dst) IN
         /\ m \in Seq(Names)
         /\ Len(m) = Len(dst) + (Len(q) - Len(src))
         /\ \A i \in 1 .. Len(m) :
              m[i] = IF i <= Len(dst) THEN dst[i] ELSE q[(i - Len(dst)) + Len(src)]
<1>1. /\ Len(src) \in Nat \ {0} /\ Len(dst) \in Nat \ {0} /\ Len(q) \in Nat \ {0}
      /\ q \in Seq(Names) /\ dst \in Seq(Names)
  BY PathFacts
<1> DEFINE t == SubSeq(q, Len(src) + 1, Len(q))
<1>2. /\ t \in Seq(Names)
      /\ Len(t) = Len(q) - Len(src)
      /\ \A i \in 1 .. Len(q) - Len(src) : t[i] = q[i + Len(src)]
  <2>1. \A i \in Len(src) + 1 .. Len(q) : q[i] \in Names
    <3>1. \A i \in Len(src) + 1 .. Len(q) : i \in 1 .. Len(q)
      BY <1>1
    <3>2. QED
      BY <1>1, <3>1, ElementOfSeq
  <2>2. Len(src) + 1 \in Int /\ Len(q) \in Int
    BY <1>1
  <2>3. /\ t \in Seq(Names)
        /\ Len(t) = IF Len(src) + 1 <= Len(q) THEN Len(q) - (Len(src) + 1) + 1 ELSE 0
        /\ \A i \in 1 .. Len(q) - (Len(src) + 1) + 1 : t[i] = q[Len(src) + 1 + i - 1]
    BY <2>1, <2>2, SubSeqProperties
  <2>4. \A i \in 1 .. Len(q) - Len(src) :
          /\ i \in 1 .. Len(q) - (Len(src) + 1) + 1
          /\ Len(src) + 1 + i - 1 = i + Len(src)
    BY <1>1
  <2>5. Len(t) = Len(q) - Len(src)
    BY <1>1, <2>3
  <2>6. QED
    BY <2>3, <2>4, <2>5
<1> HIDE DEF t
<1>3. /\ dst \o t \in Seq(Names)
      /\ Len(dst \o t) = Len(dst) + Len(t)
      /\ \A i \in 1 .. Len(dst) + Len(t) :
           (dst \o t)[i] = IF i <= Len(dst) THEN dst[i] ELSE t[i - Len(dst)]
  <2>1. dst \in Seq(Names) /\ t \in Seq(Names)
    BY <1>1, <1>2
  <2>2. QED
    BY <2>1, ConcatProperties, Zenon
<1>4. \A i \in 1 .. Len(dst) + Len(t) :
        i > Len(dst) => t[i - Len(dst)] = q[(i - Len(dst)) + Len(src)]
  <2>1. \A i \in 1 .. Len(dst) + Len(t) :
          i > Len(dst) => i - Len(dst) \in 1 .. Len(q) - Len(src)
    BY <1>1, <1>2
  <2>2. QED
    BY <1>2, <2>1
<1>5. \A i \in 1 .. Len(dst) + Len(t) : i <= Len(dst) \/ i > Len(dst)
  BY <1>1
<1>6. Moved(q, src, dst) = dst \o t
  BY DEF Moved, t
<1>7. QED
  BY <1>2, <1>3, <1>4, <1>5, <1>6

LEMMA AtOrBelowIs ==
  ASSUME NEW p \in Path, NEW q
  PROVE  q \in AtOrBelow[p] <=>
           q \in Path /\ Len(p) <= Len(q) /\ \A i \in 1 .. Len(p) : q[i] = p[i]
<1>1. Len(p) \in Nat /\ p \in Seq(Names)
  BY PathFacts
<1>2. ASSUME q \in AtOrBelow[p]
      PROVE  q \in Path /\ Len(p) <= Len(q) /\ \A i \in 1 .. Len(p) : q[i] = p[i]
  BY <1>1, <1>2, Under, AncIs, PathFacts DEF Begins
<1>3. ASSUME q \in Path, Len(p) <= Len(q), \A i \in 1 .. Len(p) : q[i] = p[i]
      PROVE  q \in AtOrBelow[p]
  <2>1. Len(q) \in Nat /\ q \in Seq(Names)
    BY <1>3, PathFacts
  <2>2. CASE Len(p) < Len(q)
    BY <1>3, <2>2, Under, AncIs DEF Begins
  <2>3. CASE Len(p) = Len(q)
    <3>1. q = p
      BY <1>1, <1>3, <2>1, <2>3, SeqEqual
    <3>2. QED
      BY <3>1, Under
  <2>4. QED
    BY <1>1, <1>3, <2>1, <2>2, <2>3
<1>4. QED
  BY <1>2, <1>3

\* The rename and the rename back are inverse to each other.
LEMMA MovedBack ==
  ASSUME NEW src \in Path, NEW dst \in Path, NEW q \in AtOrBelow[src],
         Moved(q, src, dst) \in Path
  PROVE  /\ Moved(q, src, dst) \in AtOrBelow[dst]
         /\ Moved(Moved(q, src, dst), dst, src) = q
<1> DEFINE m == Moved(q, src, dst)
           b == Moved(m, dst, src)
<1>1. q \in Path /\ Len(src) <= Len(q) /\ \A i \in 1 .. Len(src) : q[i] = src[i]
  BY AtOrBelowIs
<1>2. /\ Len(m) = Len(dst) + (Len(q) - Len(src))
      /\ \A i \in 1 .. Len(m) :
           m[i] = IF i <= Len(dst) THEN dst[i] ELSE q[(i - Len(dst)) + Len(src)]
  BY <1>1, MovedIs
<1>3. /\ Len(src) \in Nat \ {0} /\ Len(dst) \in Nat \ {0} /\ Len(q) \in Nat \ {0}
      /\ Len(m) \in Nat \ {0} /\ q \in Seq(Names)
  BY <1>1, PathFacts
<1>4. Len(dst) <= Len(m)
  BY <1>1, <1>2, <1>3
<1>5. m \in AtOrBelow[dst]
  <2>1. \A i \in 1 .. Len(dst) : i \in 1 .. Len(m) /\ i <= Len(dst)
    BY <1>3, <1>4
  <2>2. \A i \in 1 .. Len(dst) : m[i] = dst[i]
    BY <1>2, <2>1
  <2>3. QED
    BY <1>4, <2>2, AtOrBelowIs
<1>6. /\ b \in Seq(Names)
      /\ Len(b) = Len(src) + (Len(m) - Len(dst))
      /\ \A i \in 1 .. Len(b) :
           b[i] = IF i <= Len(src) THEN src[i] ELSE m[(i - Len(src)) + Len(dst)]
  BY <1>4, MovedIs
<1>7. Len(b) = Len(q)
  BY <1>2, <1>3, <1>6
<1>8. ASSUME NEW i \in 1 .. Len(q) PROVE b[i] = q[i]
  <2>1. CASE i <= Len(src)
    BY <1>1, <1>3, <1>6, <1>7, <2>1, SMTT(30)
  <2>2. CASE i > Len(src)
    <3> DEFINE k == (i - Len(src)) + Len(dst)
    <3>1. b[i] = m[k]
      BY <1>3, <1>6, <1>7, <2>2, SMTT(30)
    <3>2. k \in 1 .. Len(m) /\ ~(k <= Len(dst)) /\ (k - Len(dst)) + Len(src) = i
      BY <1>2, <1>3, <1>7, <2>2
    <3> HIDE DEF k
    <3>3. m[k] = q[(k - Len(dst)) + Len(src)]
      BY <1>2, <3>2
    <3>4. QED
      BY <3>1, <3>2, <3>3
  <2>3. QED
    BY <1>3, <2>1, <2>2
<1>9. b = q
  BY <1>3, <1>6, <1>7, <1>8, SeqEqual
<1>10. QED
  BY <1>5, <1>9

LEMMA MovedTop ==
  ASSUME NEW src \in Path, NEW dst \in Path
  PROVE  Moved(src, src, dst) = dst
<1> DEFINE m == Moved(src, src, dst)
<1>1. /\ Len(src) \in Nat \ {0} /\ Len(dst) \in Nat \ {0} /\ dst \in Seq(Names)
  BY PathFacts
<1>2. /\ m \in Seq(Names)
      /\ Len(m) = Len(dst) + (Len(src) - Len(src))
      /\ \A i \in 1 .. Len(m) :
           m[i] = IF i <= Len(dst) THEN dst[i] ELSE src[(i - Len(dst)) + Len(src)]
  BY <1>1, MovedIs
<1>3. Len(m) = Len(dst) /\ \A i \in 1 .. Len(m) : m[i] = dst[i]
  BY <1>1, <1>2
<1>4. QED
  BY <1>1, <1>2, <1>3, SeqEqual

\* Above what was renamed lie what is above the new name and the renamed ancestors.
LEMMA MovedAnc ==
  ASSUME NEW src \in Path, NEW dst \in Path, NEW q \in AtOrBelow[src],
         Moved(q, src, dst) \in Path, NEW r \in Anc[Moved(q, src, dst)]
  PROVE  \/ r \in Anc[dst]
         \/ /\ r \in AtOrBelow[dst]
            /\ Moved(r, dst, src) \in Anc[q] \cap AtOrBelow[src]
            /\ Moved(Moved(r, dst, src), src, dst) = r
<1> DEFINE m == Moved(q, src, dst)
           s == Moved(r, dst, src)
<1>1. q \in Path /\ Len(src) <= Len(q) /\ \A i \in 1 .. Len(src) : q[i] = src[i]
  BY AtOrBelowIs
<1>2. m \in AtOrBelow[dst]
  BY MovedBack
<1>3. r \in Path /\ Begins(m, r)
  BY AncIs
<1>4. r \in Anc[dst] \/ r \in AtOrBelow[dst]
  <2>1. CASE m = dst
    BY <2>1
  <2>2. CASE m # dst
    <3>1. dst \in Anc[m]
      BY <1>2, <2>2, Under
    <3>2. r = dst \/ r \in Anc[dst] \/ dst \in Anc[r]
      BY <3>1, AncChain
    <3>3. QED
      BY <1>3, <3>2, Under
  <2>3. QED
    BY <2>1, <2>2
<1>5. SUFFICES ASSUME r \in AtOrBelow[dst]
               PROVE  s \in Anc[q] \cap AtOrBelow[src] /\ Moved(s, src, dst) = r
  BY <1>4
<1>6. /\ Len(m) = Len(dst) + (Len(q) - Len(src))
      /\ \A i \in 1 .. Len(m) :
           m[i] = IF i <= Len(dst) THEN dst[i] ELSE q[(i - Len(dst)) + Len(src)]
  BY <1>1, MovedIs
<1>7. Len(dst) <= Len(r)
  BY <1>5, AtOrBelowIs
<1>8. /\ s \in Seq(Names)
      /\ Len(s) = Len(src) + (Len(r) - Len(dst))
      /\ \A i \in 1 .. Len(s) :
           s[i] = IF i <= Len(src) THEN src[i] ELSE r[(i - Len(src)) + Len(dst)]
  BY <1>3, <1>7, MovedIs
<1>9. /\ Len(src) \in Nat \ {0} /\ Len(dst) \in Nat \ {0} /\ Len(q) \in Nat \ {0}
      /\ Len(r) \in Nat \ {0} /\ MaxDepth \in Nat /\ Len(q) <= MaxDepth
  BY <1>1, <1>3, PathFacts
<1>10. Len(r) < Len(m) /\ \A i \in 1 .. Len(r) : r[i] = m[i]
  BY <1>3 DEF Begins
<1>11. Len(s) < Len(q) /\ Len(s) \in 1 .. MaxDepth
  BY <1>6, <1>7, <1>8, <1>9, <1>10
<1>12. s \in Path
  BY <1>8, <1>11, InPath
<1>13. ASSUME NEW i \in 1 .. Len(s) PROVE s[i] = q[i]
  <2>1. CASE i <= Len(src)
    <3>1. i \in 1 .. Len(src)
      BY <1>9, <2>1
    <3>2. QED
      BY <1>1, <1>8, <2>1, <3>1
  <2>2. CASE i > Len(src)
    <3>1. /\ s[i] = r[(i - Len(src)) + Len(dst)]
          /\ (i - Len(src)) + Len(dst) \in 1 .. Len(r)
          /\ (i - Len(src)) + Len(dst) \in 1 .. Len(m)
          /\ (i - Len(src)) + Len(dst) > Len(dst)
          /\ ((i - Len(src)) + Len(dst) - Len(dst)) + Len(src) = i
      BY <1>6, <1>8, <1>9, <1>10, <2>2
    <3>2. r[(i - Len(src)) + Len(dst)] = m[(i - Len(src)) + Len(dst)]
      BY <1>10, <3>1
    <3>3. m[(i - Len(src)) + Len(dst)]
            = q[((i - Len(src)) + Len(dst) - Len(dst)) + Len(src)]
      BY <1>6, <1>9, <3>1, SMTT(30)
    <3>4. QED
      BY <3>1, <3>2, <3>3
  <2>3. QED
    BY <1>9, <1>11, <2>1, <2>2
<1>14. s \in Anc[q]
  BY <1>1, <1>11, <1>12, <1>13, AncIs DEF Begins
<1>15. s \in AtOrBelow[src] /\ Moved(s, src, dst) = r
  BY <1>5, <1>12, MovedBack
<1>16. QED
  BY <1>14, <1>15

LEMMA AboveBelow ==
  ASSUME NEW p \in Path, NEW q \in AtOrBelow[p]
  PROVE  /\ q \in Path
         /\ Anc[p] \subseteq Anc[q]
         /\ \A r \in Anc[q] : r \in Anc[p] \/ r \in AtOrBelow[p]
         /\ Below[q] \subseteq Below[p]
<1>1. q \in Path /\ (q = p \/ p \in Anc[q])
  BY Under
<1>2. Anc[p] \subseteq Anc[q]
  BY <1>1, AncTrans
<1>3. ASSUME NEW r \in Anc[q] PROVE r \in Anc[p] \/ r \in AtOrBelow[p]
  BY <1>1, AncChain, AncSelf, Under
<1>4. ASSUME NEW x \in Below[q] PROVE x \in Below[p]
  BY <1>1, AncTrans, Under
<1>5. QED
  BY <1>1, <1>2, <1>3, <1>4

\* Neither of two paths lies in the other.
Apart(p, q) == p \notin AtOrBelow[q] /\ q \notin AtOrBelow[p]

LEMMA ApartIs ==
  ASSUME NEW p \in Path, NEW q \in Path, Apart(p, q)
  PROVE  /\ p # q
         /\ \A x \in AtOrBelow[p] : x \notin AtOrBelow[q] /\ x \notin Anc[q]
<1>1. p # q /\ p \notin Anc[q] /\ q \notin Anc[p]
  BY Under DEF Apart
<1>2. ASSUME NEW x \in AtOrBelow[p] PROVE x \notin AtOrBelow[q] /\ x \notin Anc[q]
  <2>1. x \in Path /\ (x = p \/ p \in Anc[x])
    BY Under
  <2>2. x \notin Anc[q]
    BY <1>1, <2>1, AncTrans
  <2>3. x \notin AtOrBelow[q]
    BY <1>1, <2>1, AncChain, Under
  <2>4. QED
    BY <2>2, <2>3
<1>3. QED
  BY <1>1, <1>2

-----------------------------------------------------------------------------
(* Layers                                                                  *)

LEMMA Kinds ==
  /\ Dir \notin Body /\ Nil \notin Body /\ Nil # Dir /\ Nil \notin Files
  /\ Files \subseteq Body /\ Links \subseteq Body /\ Files \cap Links = {}
  /\ Body \subseteq Entry /\ Dir \in Entry /\ Entry = Body \cup {Dir} /\ Nil \notin Entry
  /\ Empty \in Files
BY ConstantsAssumption DEF Body, Entry

LEMMA HostTree ==
  /\ Lower \in Tree
  /\ \A p \in Path : Lower[p] # Nil => \A q \in Anc[p] : Lower[q] = Dir
BY ConstantsAssumption

\* Every entry and every whiteout lies in directories of the layer.
Layer(up, W) == \A p \in Path : up[p] # Nil \/ p \in W => \A q \in Anc[p] : up[q] = Dir

LEMMA ParentsLayer ==
  ASSUME NEW up \in Tree, NEW W, Layer(up, W), NEW p \in Path,
         \A q \in Anc[p] : up[q] \notin Body
  PROVE  LET n == WithParents(up, p) IN
         /\ n \in Tree
         /\ \A q \in Path : n[q] = IF q \in Anc[p] THEN Dir ELSE up[q]
         /\ Layer(n, W \cup {p})
<1> DEFINE n == WithParents(up, p)
<1>1. \A q \in Path : up[q] \in Body \cup {Dir, Nil}
  BY Kinds DEF Tree
<1>2. n \in Tree
  BY Kinds DEF WithParents, Tree
<1>3. \A q \in Path : n[q] = IF q \in Anc[p] THEN Dir ELSE up[q]
  BY <1>1 DEF WithParents
<1> HIDE DEF n
<1>4. ASSUME NEW x \in Path, n[x] # Nil \/ x \in W \cup {p}, NEW r \in Anc[x]
      PROVE  n[r] = Dir
  <2>1. r \in Path
    BY AncSelf
  <2>2. CASE x \in Anc[p] \cup {p}
    <3>1. r \in Anc[p]
      BY <2>2, AncTrans
    <3>2. QED
      BY <1>3, <2>1, <3>1
  <2>3. CASE x \notin Anc[p] \cup {p}
    <3>1. up[x] # Nil \/ x \in W
      BY <1>3, <1>4, <2>3
    <3>2. up[r] = Dir
      BY <3>1 DEF Layer
    <3>3. QED
      BY <1>3, <2>1, <3>2
  <2>4. QED
    BY <2>2, <2>3
<1>5. Layer(n, W \cup {p})
  BY <1>4 DEF Layer
<1>6. QED
  BY <1>2, <1>3, <1>5 DEF n

\* A new entry with the directories that lead to it.
Put(up, p, e) == [WithParents(up, p) EXCEPT ![p] = e]

LEMMA PutLayer ==
  ASSUME NEW up \in Tree, NEW W, Layer(up, W), NEW p \in Path,
         \A q \in Anc[p] : up[q] \notin Body, up[p] = Nil, NEW e \in Entry
  PROVE  /\ Put(up, p, e) \in Tree
         /\ \A q \in Path : Put(up, p, e)[q] = IF q = p THEN e
                                              ELSE IF q \in Anc[p] THEN Dir ELSE up[q]
         /\ Layer(Put(up, p, e), W)
<1> DEFINE m == WithParents(up, p)
           n == Put(up, p, e)
<1>1. /\ m \in Tree
      /\ \A q \in Path : m[q] = IF q \in Anc[p] THEN Dir ELSE up[q]
      /\ Layer(m, W \cup {p})
  BY ParentsLayer
<1>2. n \in Tree /\ \A q \in Path : n[q] = IF q = p THEN e ELSE m[q]
  <2>1. n = [m EXCEPT ![p] = e]
    BY DEF m, Put
  <2>2. QED
    BY <1>1, <2>1 DEF Tree
<1> HIDE DEF m, n
<1>3. ASSUME NEW x \in Path, n[x] # Nil \/ x \in W, NEW r \in Anc[x] PROVE n[r] = Dir
  <2>1. r \in Path
    BY AncSelf
  <2>2. m[r] = Dir
    BY <1>1, <1>2, <1>3 DEF Layer
  <2>3. r # p
    BY <1>1, <2>1, <2>2, AncSelf, Kinds
  <2>4. QED
    BY <1>2, <2>1, <2>2, <2>3
<1>4. Layer(n, W)
  BY <1>3 DEF Layer
<1>5. \A q \in Path : n[q] = IF q = p THEN e ELSE IF q \in Anc[p] THEN Dir ELSE up[q]
  BY <1>1, <1>2
<1>6. QED
  BY <1>2, <1>4, <1>5 DEF n

LEMMA RemovedLayer ==
  ASSUME NEW up \in Tree, NEW W, Layer(up, W), NEW p \in Path
  PROVE  LET n == Removed(up, p) IN
         /\ n \in Tree
         /\ \A q \in Path : n[q] = IF q \in AtOrBelow[p] THEN Nil ELSE up[q]
         /\ Layer(n, W \ Below[p])
<1> DEFINE n == Removed(up, p)
<1>1. n \in Tree
  BY DEF Removed, Tree
<1>2. \A q \in Path : n[q] = IF q \in AtOrBelow[p] THEN Nil ELSE up[q]
  BY DEF Removed
<1> HIDE DEF n
<1>3. ASSUME NEW x \in Path, n[x] # Nil \/ x \in W \ Below[p], NEW r \in Anc[x]
      PROVE  n[r] = Dir
  <2>1. r \in Path
    BY AncSelf
  <2>2. up[x] # Nil \/ x \in W
    BY <1>2, <1>3
  <2>3. x \notin Below[p]
    BY <1>2, <1>3, Under
  <2>4. r \notin AtOrBelow[p]
    BY <2>1, <2>3, AncTrans, Under
  <2>5. up[r] = Dir
    BY <2>2 DEF Layer
  <2>6. QED
    BY <1>2, <2>1, <2>4, <2>5
<1>4. Layer(n, W \ Below[p])
  BY <1>3 DEF Layer
<1>5. QED
  BY <1>1, <1>2, <1>4 DEF n

\* remove_dir_all cut off: what has gone takes all below it along.
Without(up, X) == [q \in Path |-> IF q \in X THEN Nil ELSE up[q]]

FromBelow(up, W, X, M) ==
  \A q \in X : \A s \in Below[q] : (up[s] # Nil => s \in X) /\ (s \in W => s \in M)

LEMMA WithoutLayer ==
  ASSUME NEW up \in Tree, NEW W, Layer(up, W), NEW X \in SUBSET Path, NEW M,
         FromBelow(up, W, X, M)
  PROVE  /\ Without(up, X) \in Tree
         /\ \A q \in Path : Without(up, X)[q] = IF q \in X THEN Nil ELSE up[q]
         /\ Layer(Without(up, X), W \ M)
<1> DEFINE n == Without(up, X)
<1>1. n \in Tree
  BY DEF Without, Tree
<1>2. \A q \in Path : n[q] = IF q \in X THEN Nil ELSE up[q]
  BY DEF Without
<1> HIDE DEF n
<1>3. ASSUME NEW x \in Path, n[x] # Nil \/ x \in W \ M, NEW r \in Anc[x]
      PROVE  n[r] = Dir
  <2>1. r \in Path
    BY AncSelf
  <2>2. up[x] # Nil \/ x \in W
    BY <1>2, <1>3
  <2>3. x \in Below[r]
    BY <2>1, Under
  <2>4. r \notin X
    BY <1>2, <1>3, <2>3 DEF FromBelow
  <2>5. up[r] = Dir
    BY <2>2 DEF Layer
  <2>6. QED
    BY <1>2, <2>1, <2>4, <2>5
<1>4. Layer(n, W \ M)
  BY <1>3 DEF Layer
<1>5. QED
  BY <1>1, <1>2, <1>4 DEF n

\* fs::rename of a directory of the layer, with the markers in it.
MovedTree(up, src, dst) ==
  [q \in Path |->
     IF q \in AtOrBelow[src] THEN Nil
     ELSE IF q \in AtOrBelow[dst] /\ Moved(q, dst, src) \in Path
       THEN up[Moved(q, dst, src)]
     ELSE up[q]]

MovedMarks(W, src, dst) ==
  (W \ Below[src]) \cup {Moved(q, src, dst) : q \in W \cap Below[src]}

LEMMA MoveLayer ==
  ASSUME NEW up \in Tree, NEW W, W \subseteq Path, Layer(up, W),
         NEW src \in Path, NEW dst \in Path, Apart(src, dst),
         up[src] # Nil,
         \A q \in Anc[dst] : up[q] = Dir,
         \A q \in Below[dst] : up[q] = Nil /\ q \notin W,
         \A q \in AtOrBelow[src] : up[q] # Nil \/ q \in W => Moved(q, src, dst) \in Path
  PROVE  LET n == MovedTree(up, src, dst)
             X == MovedMarks(W, src, dst)
         IN
         /\ n \in Tree /\ X \subseteq Path
         /\ \A q \in Path : q \notin AtOrBelow[src] /\ q \notin AtOrBelow[dst] => n[q] = up[q]
         /\ \A q \in AtOrBelow[src] : up[q] # Nil => n[Moved(q, src, dst)] = up[q]
         /\ Layer(n, X)
<1> DEFINE n == MovedTree(up, src, dst)
           X == MovedMarks(W, src, dst)
<1>1. n \in Tree
  BY DEF MovedTree, Tree
<1>2. /\ \A q \in Path : n[q] = IF q \in AtOrBelow[src] THEN Nil
                                ELSE IF q \in AtOrBelow[dst] /\ Moved(q, dst, src) \in Path
                                  THEN up[Moved(q, dst, src)]
                                ELSE up[q]
      /\ X = (W \ Below[src]) \cup {Moved(q, src, dst) : q \in W \cap Below[src]}
  BY DEF MovedTree, MovedMarks
<1> HIDE DEF n, X
<1>3. ASSUME NEW q \in AtOrBelow[src], Moved(q, src, dst) \in Path
      PROVE  /\ Moved(q, src, dst) \in AtOrBelow[dst]
             /\ Moved(q, src, dst) \notin AtOrBelow[src]
             /\ n[Moved(q, src, dst)] = up[q]
  <2>1. /\ Moved(q, src, dst) \in AtOrBelow[dst]
        /\ Moved(Moved(q, src, dst), dst, src) = q
    BY <1>3, MovedBack
  <2>2. Moved(q, src, dst) \notin AtOrBelow[src] /\ q \in Path
    BY <2>1, ApartIs, Under
  <2>3. QED
    BY <1>2, <1>3, <2>1, <2>2
<1>4. ASSUME NEW q \in Below[src], q \in W
      PROVE  q \in AtOrBelow[src] /\ Moved(q, src, dst) \in AtOrBelow[dst]
                                  /\ Moved(q, src, dst) \in Path
  BY <1>3, <1>4, Under
<1>5. X \subseteq Path
  BY <1>2, <1>4
<1>6. ASSUME NEW x \in Path, n[x] # Nil \/ x \in X, NEW r \in Anc[x]
      PROVE  n[r] = Dir
  <2>1. r \in Path
    BY AncSelf
  <2>2. CASE x \in AtOrBelow[dst]
    <3>1. PICK s \in AtOrBelow[src] :
            (up[s] # Nil \/ s \in W) /\ Moved(s, src, dst) = x
      <4>1. CASE n[x] # Nil
        <5>1. x \notin AtOrBelow[src]
          BY <1>2, <4>1
        <5>2. CASE Moved(x, dst, src) \in Path
          <6>1. /\ Moved(x, dst, src) \in AtOrBelow[src]
                /\ Moved(Moved(x, dst, src), src, dst) = x
            BY <2>2, <5>2, MovedBack
          <6>2. up[Moved(x, dst, src)] # Nil
            BY <1>2, <2>2, <4>1, <5>1, <5>2
          <6>3. QED
            BY <6>1, <6>2
        <5>3. CASE Moved(x, dst, src) \notin Path
          <6>1. x # dst
            BY <5>3, MovedTop
          <6>2. x \in Below[dst]
            BY <2>2, <6>1, Under
          <6>3. n[x] = up[x]
            BY <1>2, <5>1, <5>3
          <6>4. QED
            BY <4>1, <6>2, <6>3
        <5>4. QED
          BY <5>2, <5>3
      <4>2. CASE x \in X
        <5>1. CASE x \in W
          <6>1. x = dst
            BY <2>2, <5>1, Under
          <6>2. src \in AtOrBelow[src] /\ Moved(src, src, dst) = x
            BY <6>1, MovedTop, Under
          <6>3. QED
            BY <6>2
        <5>2. CASE x \notin W
          <6>1. PICK s \in W \cap Below[src] : x = Moved(s, src, dst)
            BY <1>2, <4>2, <5>2
          <6>2. QED
            BY <6>1, Under
        <5>3. QED
          BY <5>1, <5>2
      <4>3. QED
        BY <1>6, <4>1, <4>2
    <3>2. s \in Path
      BY Under
    <3>3. CASE r \in Anc[dst]
      <4>1. up[r] = Dir /\ r \notin AtOrBelow[src] /\ r \notin AtOrBelow[dst]
        BY <3>3, ApartIs, AncTrans, AncSelf, Under
      <4>2. QED
        BY <1>2, <2>1, <4>1
    <3>4. CASE /\ r \in AtOrBelow[dst]
               /\ Moved(r, dst, src) \in Anc[s] \cap AtOrBelow[src]
               /\ Moved(Moved(r, dst, src), src, dst) = r
      <4>1. up[Moved(r, dst, src)] = Dir
        BY <3>1, <3>2, <3>4 DEF Layer
      <4>2. Moved(Moved(r, dst, src), src, dst) \in Path
        BY <2>1, <3>4
      <4>3. n[Moved(Moved(r, dst, src), src, dst)] = up[Moved(r, dst, src)]
        BY <1>3, <3>4, <4>2
      <4>4. QED
        BY <3>4, <4>1, <4>3
    <3>5. QED
      BY <1>6, <3>1, <3>3, <3>4, MovedAnc
  <2>3. CASE x \notin AtOrBelow[dst]
    <3>1. x \notin Below[src] /\ (up[x] # Nil \/ x \in W)
      <4>1. CASE n[x] # Nil
        BY <1>2, <2>3, <4>1, Under
      <4>2. CASE x \in X
        BY <1>2, <1>4, <2>3, <4>2
      <4>3. QED
        BY <1>6, <4>1, <4>2
    <3>2. up[r] = Dir
      BY <3>1 DEF Layer
    <3>3. r \notin AtOrBelow[src]
      BY <2>1, <3>1, AncTrans, Under
    <3>4. r \notin AtOrBelow[dst]
      BY <2>1, <2>3, AncTrans, Under
    <3>5. QED
      BY <1>2, <2>1, <3>2, <3>3, <3>4
  <2>4. QED
    BY <2>2, <2>3
<1>7. Layer(n, X)
  BY <1>6 DEF Layer
<1>8. \A q \in AtOrBelow[src] : up[q] # Nil => n[Moved(q, src, dst)] = up[q]
  BY <1>3
<1>9. QED
  BY <1>1, <1>2, <1>5, <1>7, <1>8 DEF n, X

-----------------------------------------------------------------------------
(* The inductive invariant                                                 *)

Types ==
  /\ os \in {"mac", "win"}
  /\ lower = Lower
  /\ upper \in Tree /\ wh \subseteq Path
  /\ Layer(upper, wh)

\* The handle leads to a file of the layer; symlinks are in it on macOS alone.
Handles ==
  /\ fh = NoHandle \/ (fh \in Handle /\ fh.layer = "upper" /\ upper[fh.path] \in Files)
  /\ os = "win" => \A p \in Path : upper[p] \notin Links

\* What is still to be copied is in files of the host, below directories; when nothing
\* is, the old name is in the layer, the new one in directories of it, and it has nothing
\* that the rename was to replace, nor an open file that it was not.
Runs ==
  \/ op = Idle
  \/ op \in Deleting /\ CanMakeParents(op.src)
  \/ /\ op \in Renaming
     /\ Apart(op.src, op.dst) /\ Fits(op.src, op.dst)
     /\ ~op.replace => fh.path # op.dst
     /\ op.k = "copy" =>
          \A q \in op.todo :
            /\ q \in AtOrBelow[op.src] /\ lower[q] \in Body
            /\ upper[q] = Nil /\ CanMakeParents(q)
     /\ op.k # "copy" =>
          /\ upper[op.src] # Nil
          /\ \A q \in Anc[op.dst] : upper[q] = Dir
          /\ op.replace => upper[op.dst] = Nil

Strong == Types /\ Handles /\ Runs

LEMMA InitStrong == Init => Strong
<1>1. SUFFICES ASSUME Init PROVE Strong
  OBVIOUS
<1>2. upper \in Tree /\ \A p \in Path : upper[p] = Nil
  BY <1>1 DEF Init, Tree
<1>3. Types
  BY <1>1, <1>2 DEF Init, Types, Layer
<1>4. \A p \in Path : upper[p] \notin Links
  BY <1>2, Kinds
<1>5. QED
  BY <1>1, <1>3, <1>4 DEF Init, Strong, Handles, Runs

\* What the handlers with one step need: what they leave of the layer, and the handle.
LEMMA Stays ==
  ASSUME Strong, UNCHANGED <<os, lower>>,
         upper' \in Tree, wh' \subseteq Path, Layer(upper', wh'),
         \A q \in Path : upper'[q] \in Links => upper[q] \in Links \/ os = "mac"
  PROVE  Types' /\ (os = "win" => \A p \in Path : upper[p] \notin Links)'
BY DEF Strong, Types, Handles

LEMMA StaysOpen ==
  ASSUME Strong, fh' = fh, \A q \in Path : upper[q] \in Files => upper'[q] \in Files
  PROVE  fh' = NoHandle \/ (fh' \in Handle /\ fh'.layer = "upper" /\ upper'[fh'.path] \in Files)
BY DEF Strong, Handles, Handle

LEMMA NowIdle ==
  ASSUME op' = Idle PROVE Runs'
BY DEF Runs

LEMMA Directories ==
  ASSUME NEW p \in Path, InDirectory(p) PROVE CanMakeParents(p)
BY Kinds, AncSelf DEF InDirectory, CanMakeParents, Resolve

LEMMA SeenInDirectory ==
  ASSUME NEW p \in Path, Seen(p) # Nil
  PROVE  InDirectory(p) /\ Resolve(p) = Seen(p)
BY DEF Seen

\* copy_up.
LEMMA CopyUpLayer ==
  ASSUME Types, NEW p \in Path, upper[p] = Nil, CanMakeParents(p)
  PROVE  /\ CopyUp(p) \in Tree /\ Layer(CopyUp(p), wh)
         /\ CanCopy(p) => CopyUp(p)[p] = Copied(p) /\ Copied(p) \in Files
         /\ ~CanCopy(p) => CopyUp(p)[p] = Nil
         /\ \A q \in Path \ {p} : CopyUp(p)[q] = IF q \in Anc[p] THEN Dir ELSE upper[q]
<1>1. \A q \in Anc[p] : upper[q] \notin Body
  BY DEF CanMakeParents
<1>2. CASE CanCopy(p)
  <2>1. Copied(p) \in Files
    BY <1>2, ConstantsAssumption, Kinds DEF CanCopy, Copied
  <2>2. Copied(p) \in Entry
    BY <2>1, Kinds
  <2>3. CopyUp(p) = [WithParents(upper, p) EXCEPT ![p] = Copied(p)]
    BY <1>2 DEF CopyUp
  <2>4. /\ CopyUp(p) \in Tree
        /\ \A q \in Path : CopyUp(p)[q] = IF q = p THEN Copied(p)
                                          ELSE IF q \in Anc[p] THEN Dir ELSE upper[q]
        /\ Layer(CopyUp(p), wh)
    <3>1. upper \in Tree /\ Layer(upper, wh)
      BY DEF Types
    <3>2. CopyUp(p) = Put(upper, p, Copied(p))
      BY <2>3 DEF Put
    <3>3. QED
      BY <1>1, <2>2, <3>1, <3>2, PutLayer
  <2>5. QED
    BY <1>2, <2>1, <2>4
<1>3. CASE ~CanCopy(p)
  <2>1. CopyUp(p) = WithParents(upper, p)
    BY <1>3 DEF CopyUp
  <2>2. /\ CopyUp(p) \in Tree
        /\ \A q \in Path : CopyUp(p)[q] = IF q \in Anc[p] THEN Dir ELSE upper[q]
        /\ Layer(CopyUp(p), wh \cup {p})
    BY <1>1, <2>1, ParentsLayer DEF Types
  <2>3. Layer(CopyUp(p), wh)
    BY <2>2 DEF Layer
  <2>4. QED
    BY <1>3, <2>2, <2>3, AncSelf
<1>4. QED
  BY <1>2, <1>3

\* It takes no file away, and adds none but what it copies.
LEMMA CopyUpKeeps ==
  ASSUME Types, NEW p \in Path, upper[p] = Nil, CanMakeParents(p)
  PROVE  \A q \in Path : /\ upper[q] \in Body => CopyUp(p)[q] = upper[q]
                         /\ CopyUp(p)[q] \in Links => upper[q] \in Links
<1>1. \A q \in Anc[p] : upper[q] \notin Body
  BY DEF CanMakeParents
<1>2. ASSUME NEW q \in Path \ {p}
      PROVE  /\ upper[q] \in Body => CopyUp(p)[q] = upper[q]
             /\ CopyUp(p)[q] \in Links => upper[q] \in Links
  BY <1>1, CopyUpLayer, Kinds
<1>3. /\ upper[p] \in Body => CopyUp(p)[p] = upper[p]
      /\ CopyUp(p)[p] \in Links => upper[p] \in Links
  BY CopyUpLayer, Kinds
<1>4. QED
  BY <1>2, <1>3

-----------------------------------------------------------------------------
(* The handlers with one step                                              *)

LEMMA NewEntryStrong ==
  ASSUME Strong, NEW p \in Path, NEW e \in Entry, NewEntry(p, e), UNCHANGED <<os, lower, op>>,
         fh' = fh \/ (e \in Files /\ fh' = [layer |-> "upper", path |-> p])
  PROVE  Strong'
<1>1. op = Idle /\ os = "mac" /\ InDirectory(p) /\ Seen(p) = Nil
      /\ wh' = wh \ Upto[p] /\ upper' = [WithParents(upper, p) EXCEPT ![p] = e]
  BY DEF NewEntry
<1>2. upper[p] = Nil
  BY <1>1 DEF Seen, Resolve
<1>3. \A q \in Anc[p] : upper[q] \notin Body
  BY <1>1, Directories DEF CanMakeParents
<1>4. /\ upper' \in Tree
      /\ \A q \in Path : upper'[q] = IF q = p THEN e ELSE IF q \in Anc[p] THEN Dir ELSE upper[q]
      /\ Layer(upper', wh)
  <2>1. upper \in Tree /\ Layer(upper, wh) /\ upper' = Put(upper, p, e)
    BY <1>1 DEF Strong, Types, Put
  <2>2. QED
    BY <1>2, <1>3, <2>1, PutLayer
<1>5. Layer(upper', wh')
  BY <1>1, <1>4 DEF Layer
<1>6. \A q \in Path : upper[q] \in Files => upper'[q] \in Files
  BY <1>2, <1>3, <1>4, Kinds
<1>7. Types' /\ (os = "win" => \A x \in Path : upper[x] \notin Links)'
  BY <1>1, <1>4, <1>5 DEF Strong, Types
<1>8. fh' = NoHandle \/ (fh' \in Handle /\ fh'.layer = "upper" /\ upper'[fh'.path] \in Files)
  <2>1. CASE fh' = fh
    BY <1>6, <2>1, StaysOpen
  <2>2. CASE e \in Files /\ fh' = [layer |-> "upper", path |-> p]
    BY <1>4, <2>2 DEF Handle
  <2>3. QED
    BY <2>1, <2>2
<1>9. Runs'
  BY <1>1, NowIdle
<1>10. QED
  BY <1>7, <1>8, <1>9 DEF Strong, Handles

LEMMA NewEntryCutStrong ==
  ASSUME Strong, NEW p \in Path, NewEntryCut(p) PROVE Strong'
<1>1. op' = Idle /\ fh' = NoHandle /\ UNCHANGED <<os, lower>> /\ wh' \subseteq wh
  BY DEF NewEntryCut
<1>2. \A q \in Anc[p] : upper[q] \in {Dir, Nil}
  <2>1. CanMakeParents(p)
    BY Directories DEF NewEntryCut
  <2>2. QED
    BY <2>1, AncSelf, Kinds DEF CanMakeParents, Strong, Types, Tree
<1>3. /\ upper' \in Tree /\ Layer(upper', wh')
      /\ \A q \in Path : upper'[q] \in Links => upper[q] \in Links
  <2>1. upper \in Tree /\ Layer(upper, wh)
    BY DEF Strong, Types
  <2>2. CASE upper' = upper
    BY <1>1, <2>1, <2>2 DEF Layer
  <2>3. CASE \E n \in 1 .. Len(p) :
               upper' = [q \in Path |-> IF q \in Anc[p] /\ Len(q) <= n /\ upper[q] = Nil
                                        THEN Dir ELSE upper[q]]
    <3>1. PICK n \in 1 .. Len(p) :
            upper' = [q \in Path |-> IF q \in Anc[p] /\ Len(q) <= n /\ upper[q] = Nil
                                     THEN Dir ELSE upper[q]]
      BY <2>3
    <3>2. upper' \in Tree
      BY <2>1, <3>1, Kinds DEF Tree
    <3>3. \A q \in Path : upper'[q] = IF q \in Anc[p] /\ Len(q) <= n THEN Dir ELSE upper[q]
      BY <1>2, <3>1
    <3>4. ASSUME NEW x \in Path, upper'[x] # Nil \/ x \in wh', NEW r \in Anc[x]
          PROVE  upper'[r] = Dir
      <4>1. r \in Path
        BY AncSelf
      <4>2. CASE x \in Anc[p] /\ Len(x) <= n
        <5>1. r \in Anc[p] /\ Len(r) < Len(x)
          BY <4>2, AncTrans, AncIs DEF Begins
        <5>2. Len(r) \in Nat /\ Len(x) \in Nat /\ Len(p) \in Nat
          BY <4>1, PathFacts
        <5>3. Len(r) <= n
          BY <4>2, <5>1, <5>2
        <5>4. QED
          BY <3>3, <4>1, <5>1, <5>3
      <4>3. CASE ~(x \in Anc[p] /\ Len(x) <= n)
        <5>1. upper[x] # Nil \/ x \in wh
          BY <1>1, <3>3, <3>4, <4>3
        <5>2. upper[r] = Dir
          BY <2>1, <5>1 DEF Layer
        <5>3. QED
          BY <3>3, <4>1, <5>2
      <4>4. QED
        BY <4>2, <4>3
    <3>5. Layer(upper', wh')
      BY <3>4 DEF Layer
    <3>6. QED
      BY <3>2, <3>3, <3>5, Kinds
  <2>4. QED
    BY <2>2, <2>3 DEF NewEntryCut
<1>4. wh' \subseteq Path
  BY <1>1 DEF Strong, Types
<1>5. Types' /\ (os = "win" => \A x \in Path : upper[x] \notin Links)'
  BY <1>1, <1>3, <1>4, Stays
<1>6. QED
  BY <1>1, <1>5, NowIdle DEF Strong, Handles

LEMMA CreateStrong ==
  ASSUME Strong, NEW p \in Path, Create(p) \/ Mknod(p) \/ Mkdir(p) \/ Symlink(p)
  PROVE  Strong'
<1>1. CASE Create(p)
  BY <1>1, NewEntryStrong, Kinds DEF Create
<1>2. CASE Mknod(p)
  BY <1>2, NewEntryStrong, Kinds DEF Mknod
<1>3. CASE Mkdir(p)
  BY <1>3, NewEntryStrong, Kinds DEF Mkdir
<1>4. CASE Symlink(p)
  BY <1>4, NewEntryStrong, Kinds DEF Symlink
<1>5. QED
  BY <1>1, <1>2, <1>3, <1>4

LEMMA DeleteStrong ==
  ASSUME Strong, NEW p \in Path, op = Idle, DeleteMerged(p) PROVE Strong'
<1>1. /\ upper' = Removed(upper, p) /\ wh' = wh \ Below[p]
      /\ fh' = Unlinked(p) /\ UNCHANGED <<os, lower>>
      /\ op' = Idle \/ (op' = [k |-> "delete", src |-> p] /\ CanMakeParents(p))
  BY DEF DeleteMerged
<1>2. /\ upper' \in Tree
      /\ \A q \in Path : upper'[q] = IF q \in AtOrBelow[p] THEN Nil ELSE upper[q]
      /\ Layer(upper', wh')
  BY <1>1, RemovedLayer DEF Strong, Types
<1>3. \A q \in Path : upper'[q] \in Links => upper[q] \in Links
  BY <1>2, Kinds
<1>4. Types' /\ (os = "win" => \A x \in Path : upper[x] \notin Links)'
  BY <1>1, <1>2, <1>3, Stays DEF Strong, Types
<1>5. fh' = NoHandle \/ (fh' \in Handle /\ fh'.layer = "upper" /\ upper'[fh'.path] \in Files)
  <2>1. CASE fh = NoHandle
    BY <1>1, <2>1 DEF Unlinked, NoHandle
  <2>2. CASE fh # NoHandle
    <3>1. fh \in Handle /\ fh.layer = "upper" /\ upper[fh.path] \in Files /\ fh.path \in Path
      BY <2>2 DEF Strong, Handles, Handle
    <3>2. QED
      BY <1>1, <1>2, <3>1 DEF Unlinked
  <2>3. QED
    BY <2>1, <2>2
<1>6. Runs'
  <2>1. CASE op' = Idle
    BY <2>1, NowIdle
  <2>2. CASE op' = [k |-> "delete", src |-> p] /\ CanMakeParents(p)
    <3>1. op' \in Deleting /\ op'.src = p
      BY <2>2 DEF Deleting
    <3>2. \A q \in Anc[p] : upper'[q] \notin Body
      BY <1>2, <2>2, AncSelf, Kinds DEF CanMakeParents
    <3>3. CanMakeParents(p)'
      BY <3>2 DEF CanMakeParents
    <3>4. QED
      BY <3>1, <3>2 DEF Runs, CanMakeParents
  <2>3. QED
    BY <1>1, <2>1, <2>2
<1>7. QED
  BY <1>4, <1>5, <1>6 DEF Strong, Handles

LEMMA RemovalCutStrong ==
  ASSUME Strong, NEW up \in Tree, Layer(up, wh), NEW p \in Path, RemovalCut(up, p),
         \A q \in Path : up[q] \in Links => upper[q] \in Links
  PROVE  Strong'
<1>1. op' = Idle /\ fh' = NoHandle /\ UNCHANGED <<os, lower>>
  BY DEF RemovalCut
<1>2. PICK X \in SUBSET {q \in Below[p] : up[q] # Nil}, M \in SUBSET (wh \cap Below[p]) :
        /\ \A q \in X : \A s \in Below[q] : (up[s] # Nil => s \in X) /\ (s \in wh => s \in M)
        /\ upper' = [q \in Path |-> IF q \in X THEN Nil ELSE up[q]]
        /\ wh' = wh \ M
  BY DEF RemovalCut
<1>3. X \in SUBSET Path
  BY DEF Below
<1>4. upper' = Without(up, X)
  BY <1>2 DEF Without
<1>5. /\ upper' \in Tree /\ Layer(upper', wh')
      /\ \A q \in Path : upper'[q] = IF q \in X THEN Nil ELSE up[q]
  <2>1. /\ Without(up, X) \in Tree /\ Layer(Without(up, X), wh \ M)
        /\ \A q \in Path : Without(up, X)[q] = IF q \in X THEN Nil ELSE up[q]
    <3>1. FromBelow(up, wh, X, M)
      BY <1>2 DEF FromBelow
    <3>2. QED
      BY <1>3, <3>1, WithoutLayer
  <2>2. QED
    BY <1>2, <1>4, <2>1
<1>6. wh' \subseteq Path /\ \A q \in Path : upper'[q] \in Links => upper[q] \in Links
  BY <1>2, <1>5, Kinds DEF Strong, Types
<1>7. Types' /\ (os = "win" => \A x \in Path : upper[x] \notin Links)'
  BY <1>1, <1>5, <1>6, Stays
<1>8. QED
  BY <1>1, <1>7, NowIdle DEF Strong, Handles

LEMMA DeleteMarkStrong ==
  ASSUME Strong, DeleteMark PROVE Strong'
<1>1. op.src \in Path /\ CanMakeParents(op.src)
  BY DEF Strong, Runs, DeleteMark, Idle, Deleting, Renaming
<1>2. /\ upper' = WithParents(upper, op.src) /\ wh' = wh \cup {op.src}
      /\ op' = Idle /\ UNCHANGED <<os, lower, fh>>
  BY DEF DeleteMark
<1>3. \A q \in Anc[op.src] : upper[q] \notin Body
  BY <1>1 DEF CanMakeParents
<1>4. /\ upper' \in Tree
      /\ \A q \in Path : upper'[q] = IF q \in Anc[op.src] THEN Dir ELSE upper[q]
      /\ Layer(upper', wh')
  BY <1>1, <1>2, <1>3, ParentsLayer DEF Strong, Types
<1>5. \A q \in Path : /\ upper'[q] \in Links => upper[q] \in Links
                      /\ upper[q] \in Files => upper'[q] \in Files
  BY <1>3, <1>4, Kinds
<1>6. Types' /\ (os = "win" => \A x \in Path : upper[x] \notin Links)'
  BY <1>1, <1>2, <1>4, <1>5, Stays DEF Strong, Types
<1>7. fh' = NoHandle \/ (fh' \in Handle /\ fh'.layer = "upper" /\ upper'[fh'.path] \in Files)
  BY <1>2, <1>5, StaysOpen
<1>8. Runs'
  BY <1>2, NowIdle
<1>9. QED
  BY <1>6, <1>7, <1>8 DEF Strong, Handles

\* A file in the place of a file, or of nothing, in directories of the layer.
Over(up, p, c) == [up EXCEPT ![p] = c]

LEMMA OverLayer ==
  ASSUME NEW up \in Tree, NEW W, Layer(up, W), NEW p \in Path, NEW c \in Files,
         up[p] # Dir, \A q \in Anc[p] : up[q] = Dir
  PROVE  /\ Over(up, p, c) \in Tree
         /\ \A q \in Path : Over(up, p, c)[q] = IF q = p THEN c ELSE up[q]
         /\ Layer(Over(up, p, c), W)
<1> DEFINE n == Over(up, p, c)
<1>1. n \in Tree /\ \A q \in Path : n[q] = IF q = p THEN c ELSE up[q]
  BY Kinds DEF Over, Tree
<1> HIDE DEF n
<1>2. ASSUME NEW x \in Path, n[x] # Nil \/ x \in W, NEW r \in Anc[x] PROVE n[r] = Dir
  <2>1. r \in Path
    BY AncSelf
  <2>2. up[r] = Dir
    BY <1>1, <1>2 DEF Layer
  <2>3. QED
    BY <1>1, <2>1, <2>2
<1>3. Layer(n, W)
  BY <1>2 DEF Layer
<1>4. QED
  BY <1>1, <1>3 DEF n

\* What is in the layer is seen.
LEMMA InLayer ==
  ASSUME Types, NEW p \in Path, upper[p] # Nil
  PROVE  /\ \A q \in Anc[p] : upper[q] = Dir
         /\ InDirectory(p) /\ Resolve(p) = upper[p] /\ Seen(p) = upper[p]
<1>1. \A q \in Anc[p] : upper[q] = Dir
  BY DEF Types, Layer
<1>2. QED
  BY <1>1, Kinds DEF InDirectory, Resolve, Seen

\* A step of a handler that changes the layer alone and is the handler's last.
LEMMA LayerStep ==
  ASSUME Strong, UNCHANGED <<os, lower, fh>>, op' = Idle,
         upper' \in Tree, wh' \subseteq Path, Layer(upper', wh'),
         \A q \in Path : /\ upper[q] \in Files => upper'[q] \in Files
                         /\ upper'[q] \in Links => upper[q] \in Links
  PROVE  Strong'
BY Stays, StaysOpen, NowIdle DEF Strong, Handles

LEMMA SetAttrStrong ==
  ASSUME Strong, NEW p \in Path, NEW b \in BOOLEAN, SetAttr(p, b) PROVE Strong'
<1> DEFINE up == IF upper[p] = Nil THEN CopyUp(p) ELSE upper
<1>1. Types /\ op' = Idle /\ UNCHANGED <<os, lower, wh, fh>>
  BY DEF Strong, SetAttr
<1>2. /\ up \in Tree /\ Layer(up, wh)
      /\ \A q \in Path : /\ upper[q] \in Files => up[q] \in Files
                         /\ up[q] \in Links => upper[q] \in Links
  <2>1. CASE upper[p] = Nil
    <3>1. CanMakeParents(p)
      BY <2>1 DEF SetAttr
    <3>2. QED
      BY <1>1, <2>1, <3>1, CopyUpLayer, CopyUpKeeps, Kinds
  <2>2. CASE upper[p] # Nil
    BY <1>1, <2>2 DEF Types
  <2>3. QED
    BY <2>1, <2>2
<1>3. CASE ~b \/ up[p] = Nil
  <2>1. upper' = up
    BY <1>3 DEF SetAttr
  <2>2. QED
    BY <1>1, <1>2, <2>1, LayerStep DEF Types
<1>4. CASE b /\ up[p] # Nil
  <2>1. upper' = Over(up, p, Empty)
    BY <1>4 DEF SetAttr, Over
  <2>2. up[p] # Dir /\ \A q \in Anc[p] : up[q] = Dir
    <3>1. CASE upper[p] = Nil
      <4>1. CanMakeParents(p)
        BY <3>1 DEF SetAttr
      <4>2. /\ CopyUp(p)[p] = Nil \/ CopyUp(p)[p] \in Files
            /\ \A q \in Anc[p] : CopyUp(p)[q] = Dir
        BY <1>1, <3>1, <4>1, CopyUpLayer, AncSelf
      <4>3. QED
        BY <3>1, <4>2, Kinds
    <3>2. CASE upper[p] # Nil
      <4>1. Seen(p) = upper[p] /\ \A q \in Anc[p] : upper[q] = Dir
        BY <1>1, <3>2, InLayer
      <4>2. upper[p] \in Files
        BY <1>4, <3>2, <4>1, Kinds DEF SetAttr
      <4>3. QED
        BY <3>2, <4>1, <4>2, Kinds
    <3>3. QED
      BY <3>1, <3>2
  <2> HIDE DEF up
  <2>3. /\ upper' \in Tree /\ Layer(upper', wh)
        /\ \A q \in Path : upper'[q] = IF q = p THEN Empty ELSE up[q]
    BY <1>2, <2>1, <2>2, OverLayer, Kinds
  <2>4. \A q \in Path : /\ upper[q] \in Files => upper'[q] \in Files
                        /\ upper'[q] \in Links => upper[q] \in Links
    BY <1>2, <2>3, Kinds
  <2>5. QED
    BY <1>1, <2>3, <2>4, LayerStep DEF Types
<1>5. QED
  BY <1>3, <1>4

\* An open that leaves the layer as it is, or has copied what it opens up.
LEMMA OpenedStrong ==
  ASSUME Strong, NEW p \in Path, NEW w \in BOOLEAN,
         op = Idle, UNCHANGED <<os, lower, wh, op>>,
         ResolvesToLower(p) => CanMakeParents(p),
         upper' = IF w /\ ResolvesToLower(p) THEN CopyUp(p) ELSE upper,
         fh' = fh \/ (fh' = [layer |-> "upper", path |-> p] /\ upper'[p] \in Files)
  PROVE  Strong'
<1>1. Types
  BY DEF Strong
<1>2. /\ upper' \in Tree /\ Layer(upper', wh')
      /\ \A q \in Path : /\ upper[q] \in Files => upper'[q] \in Files
                         /\ upper'[q] \in Links => upper[q] \in Links
  <2>1. CASE w /\ ResolvesToLower(p)
    <3>1. upper[p] = Nil /\ CanMakeParents(p) /\ upper' = CopyUp(p)
      BY <2>1 DEF ResolvesToLower
    <3>2. QED
      BY <1>1, <3>1, CopyUpLayer, CopyUpKeeps, Kinds
  <2>2. CASE ~(w /\ ResolvesToLower(p))
    BY <1>1, <2>2 DEF Types
  <2>3. QED
    BY <2>1, <2>2
<1>3. Types' /\ (os = "win" => \A x \in Path : upper[x] \notin Links)'
  BY <1>1, <1>2, Stays DEF Types
<1>4. fh' = NoHandle \/ (fh' \in Handle /\ fh'.layer = "upper" /\ upper'[fh'.path] \in Files)
  <2>1. CASE fh' = fh
    BY <1>2, <2>1, StaysOpen
  <2>2. CASE fh' = [layer |-> "upper", path |-> p] /\ upper'[p] \in Files
    BY <2>2 DEF Handle
  <2>3. QED
    BY <2>1, <2>2
<1>5. Runs'
  BY NowIdle
<1>6. QED
  BY <1>3, <1>4, <1>5 DEF Strong, Handles

LEMMA OpenStrong ==
  ASSUME Strong, NEW p \in Path, NEW w \in BOOLEAN, Open(p, w) PROVE Strong'
<1>1. /\ op = Idle /\ UNCHANGED <<os, lower, wh, op>>
      /\ upper' = IF w /\ ResolvesToLower(p) THEN CopyUp(p) ELSE upper
      /\ fh' = IF w THEN [layer |-> "upper", path |-> p] ELSE fh
      /\ Seen(p) \in Files
  BY DEF Open
<1>2. InDirectory(p) /\ Resolve(p) \in Files
  BY <1>1, SeenInDirectory, Kinds
<1>3. CanMakeParents(p)
  BY <1>2, Directories
<1>4. ASSUME w PROVE upper'[p] \in Files
  <2>1. CASE ResolvesToLower(p)
    <3>1. upper[p] = Nil /\ lower[p] \in Files
      BY <1>2, <2>1 DEF ResolvesToLower, Resolve
    <3>2. CanCopy(p) /\ upper' = CopyUp(p)
      BY <1>1, <1>4, <2>1, <3>1 DEF CanCopy
    <3>3. QED
      BY <1>3, <3>1, <3>2, CopyUpLayer DEF Strong
  <2>2. CASE ~ResolvesToLower(p)
    <3>1. upper' = upper
      BY <1>1, <2>2
    <3>2. upper[p] \in Files
      BY <1>2, <2>2, Kinds DEF ResolvesToLower, Resolve
    <3>3. QED
      BY <3>1, <3>2
  <2>3. QED
    BY <2>1, <2>2
<1>5. QED
  BY <1>1, <1>3, <1>4, OpenedStrong

LEMMA WinOpenStrong ==
  ASSUME Strong, NEW p \in Path, NEW w \in BOOLEAN, WinOpen(p, w) PROVE Strong'
<1>1. /\ op = Idle /\ os = "win" /\ UNCHANGED <<os, lower, wh, op>>
      /\ w /\ ResolvesToLower(p) => CanMakeParents(p)
      /\ upper' = IF w /\ ResolvesToLower(p) THEN CopyUp(p) ELSE upper
      /\ fh' = IF w /\ (w /\ ResolvesToLower(p) => CanCopy(p))
               THEN [layer |-> "upper", path |-> p] ELSE fh
      /\ Resolve(p) \in Body
  BY DEF WinOpen
<1>2. ASSUME w, ResolvesToLower(p) => CanCopy(p) PROVE upper'[p] \in Files
  <2>1. CASE ResolvesToLower(p)
    <3>1. upper[p] = Nil /\ CanMakeParents(p) /\ CanCopy(p) /\ upper' = CopyUp(p)
      BY <1>1, <1>2, <2>1 DEF ResolvesToLower
    <3>2. QED
      BY <3>1, CopyUpLayer DEF Strong
  <2>2. CASE ~ResolvesToLower(p)
    <3>1. upper' = upper
      BY <1>1, <2>2
    <3>2. upper[p] \in Body
      BY <1>1, <2>2, Kinds DEF ResolvesToLower, Resolve
    <3>3. upper[p] \in Files
      BY <1>1, <3>2 DEF Strong, Handles, Body
    <3>4. QED
      BY <3>1, <3>3
  <2>3. QED
    BY <2>1, <2>2
<1>3. fh' = fh \/ (fh' = [layer |-> "upper", path |-> p] /\ upper'[p] \in Files)
  BY <1>1, <1>2
<1>4. CASE w
  BY <1>1, <1>3, <1>4, OpenedStrong
<1>5. CASE ~w
  <2>1. upper' = upper /\ fh' = fh
    BY <1>1, <1>5
  <2>2. QED
    BY <1>1, <2>1, LayerStep DEF Strong, Types
<1>6. QED
  BY <1>4, <1>5

LEMMA WriteStrong ==
  ASSUME Strong, NEW c \in Files, Write(c) PROVE Strong'
<1>1. op = Idle /\ fh # NoHandle /\ UNCHANGED <<os, wh, fh, op>>
  BY DEF Write
<1>2. fh \in Handle /\ fh.layer = "upper" /\ upper[fh.path] \in Files
  BY <1>1 DEF Strong, Handles
<1>3. fh.path \in Path /\ upper' = Over(upper, fh.path, c) /\ lower' = lower
  BY <1>2 DEF Handle, Write, Over
<1>4. upper \in Tree /\ Layer(upper, wh) /\ upper[fh.path] # Dir
      /\ \A q \in Anc[fh.path] : upper[q] = Dir
  BY <1>2, <1>3, InLayer, Kinds DEF Strong, Types
<1>5. /\ upper' \in Tree /\ Layer(upper', wh)
      /\ \A q \in Path : upper'[q] = IF q = fh.path THEN c ELSE upper[q]
  BY <1>3, <1>4, OverLayer
<1>6. \A q \in Path : /\ upper[q] \in Files => upper'[q] \in Files
                      /\ upper'[q] \in Links => upper[q] \in Links
  BY <1>5, Kinds
<1>7. QED
  BY <1>1, <1>3, <1>5, <1>6, LayerStep DEF Strong, Types

LEMMA ReleaseStrong ==
  ASSUME Strong, Release PROVE Strong'
BY DEF Strong, Types, Handles, Runs, Release

LEMMA CrashStrong ==
  ASSUME Strong, Crash PROVE Strong'
BY DEF Strong, Types, Handles, Runs, Crash

LEMMA WinNewEntryStrong ==
  ASSUME Strong, NEW p \in Path, WinCreate(p) \/ WinMkdir(p) PROVE Strong'
<1>1. PICK e \in {Empty, Dir} :
        /\ op = Idle /\ os = "win" /\ CanMakeParents(p)
        /\ wh' = wh \ Upto[p]
        /\ upper' = IF upper[p] # Nil THEN upper ELSE Put(upper, p, e)
        /\ \/ fh' = fh
           \/ /\ fh' = [layer |-> "upper", path |-> p] /\ e = Empty
              /\ upper[p] # Dir
        /\ UNCHANGED <<os, lower, op>>
  <2>1. CASE WinCreate(p)
    BY <2>1 DEF WinCreate, WinNewEntry, Put
  <2>2. CASE WinMkdir(p)
    BY <2>2 DEF WinMkdir, WinNewEntry, Put
  <2>3. QED
    BY <2>1, <2>2
<1>2. /\ upper' \in Tree /\ Layer(upper', wh)
      /\ \A q \in Path : /\ upper[q] \in Files => upper'[q] \in Files
                         /\ upper'[q] \in Links => upper[q] \in Links
      /\ upper[p] # Nil => upper' = upper
      /\ upper[p] = Nil => upper'[p] = e
  <2>1. CASE upper[p] # Nil
    BY <1>1, <2>1 DEF Strong, Types
  <2>2. CASE upper[p] = Nil
    <3>1. /\ upper \in Tree /\ Layer(upper, wh) /\ e \in Entry
          /\ \A q \in Anc[p] : upper[q] \notin Body
      BY <1>1, Kinds DEF Strong, Types, CanMakeParents
    <3>2. /\ upper' \in Tree /\ Layer(upper', wh)
          /\ \A q \in Path : upper'[q] = IF q = p THEN e
                                         ELSE IF q \in Anc[p] THEN Dir ELSE upper[q]
      BY <1>1, <2>2, <3>1, PutLayer
    <3>3. QED
      BY <2>2, <3>1, <3>2, Kinds
  <2>3. QED
    BY <2>1, <2>2
<1>3. wh' \subseteq Path /\ Layer(upper', wh')
  BY <1>1, <1>2 DEF Strong, Types, Layer
<1>4. Types' /\ (os = "win" => \A x \in Path : upper[x] \notin Links)'
  BY <1>1, <1>2, <1>3, Stays
<1>5. fh' = NoHandle \/ (fh' \in Handle /\ fh'.layer = "upper" /\ upper'[fh'.path] \in Files)
  <2>1. CASE fh' = fh
    BY <1>2, <2>1, StaysOpen
  <2>2. CASE fh' = [layer |-> "upper", path |-> p] /\ e = Empty /\ upper[p] # Dir
    <3>1. upper'[p] \in Files
      <4>1. CASE upper[p] = Nil
        BY <1>2, <2>2, <4>1, Kinds
      <4>2. CASE upper[p] # Nil
        <5>1. upper[p] \in Files
          BY <1>1, <2>2, <4>2 DEF Strong, Types, Tree, Entry, Body, Handles
        <5>2. QED
          BY <1>2, <5>1
      <4>3. QED
        BY <4>1, <4>2
    <3>2. QED
      BY <2>2, <3>1 DEF Handle
  <2>3. QED
    BY <1>1, <2>1, <2>2
<1>6. Runs'
  BY <1>1, NowIdle
<1>7. QED
  BY <1>4, <1>5, <1>6 DEF Strong, Handles

-----------------------------------------------------------------------------
(* rename                                                                  *)

LEMMA Renamings ==
  ASSUME op \in Renaming
  PROVE  /\ op.k \in {"copy", "mark", "move"} /\ op.src \in Path /\ op.dst \in Path
         /\ op.replace \in BOOLEAN /\ op.todo \subseteq Path /\ op # Idle
         /\ op \notin Deleting /\ op.tree \in Tree
BY DEF Renaming, Deleting, Idle

LEMMA RunsRename ==
  ASSUME Strong, op.k \in {"copy", "mark", "move"}
  PROVE  /\ op \in Renaming
         /\ Apart(op.src, op.dst) /\ Fits(op.src, op.dst)
         /\ ~op.replace => fh.path # op.dst
         /\ op.k = "copy" =>
              \A q \in op.todo :
                /\ q \in AtOrBelow[op.src] /\ lower[q] \in Body
                /\ upper[q] = Nil /\ CanMakeParents(q)
         /\ op.k # "copy" =>
              /\ upper[op.src] # Nil
              /\ \A q \in Anc[op.dst] : upper[q] = Dir
              /\ op.replace => upper[op.dst] = Nil
BY DEF Strong, Runs, Idle, Deleting

LEMMA CopyList ==
  ASSUME Strong, NEW src \in Path, CanMakeParents(src), upper[src] = Nil,
         NEW q \in FilesBelow(src)
  PROVE  /\ q \in AtOrBelow[src] /\ lower[q] \in Body
         /\ upper[q] = Nil /\ CanMakeParents(q)
<1>1. q \in AtOrBelow[src] /\ lower[q] \in Body
  BY DEF FilesBelow
<1>2. ASSUME NEW r \in Anc[q] PROVE upper[r] \notin Body
  <2>1. CASE r \in Anc[src]
    BY <2>1 DEF CanMakeParents
  <2>2. CASE r \in AtOrBelow[src]
    <3>1. upper[r] = Nil
      BY <2>2, Under, Kinds DEF Strong, Types, Layer
    <3>2. QED
      BY <3>1, Kinds
  <2>3. QED
    BY <1>1, <2>1, <2>2, AboveBelow
<1>3. upper[q] = Nil
  BY <1>1, Under, Kinds DEF Strong, Types, Layer
<1>4. QED
  BY <1>1, <1>2, <1>3 DEF CanMakeParents

LEMMA ViewTree ==
  ASSUME Types PROVE View \in Tree
BY HostTree DEF Types, View, Seen, Resolve, Tree

LEMMA RenamesStrong ==
  ASSUME Strong, NEW src \in Path, NEW dst \in Path, NEW b \in BOOLEAN,
         Renames(src, dst, b),
         upper[src] = Nil => CanMakeParents(src),
         ~b => fh.path # dst
  PROVE  Strong'
<1> DEFINE list == IF lower[src] # Nil /\ upper[src] = Nil THEN FilesBelow(src) ELSE {}
<1>1. /\ Apart(src, dst) /\ Fits(src, dst)
      /\ op' = [k |-> "copy", src |-> src, dst |-> dst, replace |-> b,
                tree |-> View, todo |-> list]
      /\ UNCHANGED <<os, lower, upper, wh, fh>>
  BY DEF Renames, Apart
<1>2. ASSUME NEW q \in list
      PROVE  /\ q \in AtOrBelow[src] /\ lower[q] \in Body
         /\ upper[q] = Nil /\ CanMakeParents(q)
  BY CopyList
<1>3. list \subseteq Path
  BY <1>2, Under
<1>4. View \in Tree
  BY ViewTree DEF Strong
<1> HIDE DEF list
<1>5. /\ op' \in Renaming /\ op'.k = "copy" /\ op'.src = src /\ op'.dst = dst
      /\ op'.replace = b /\ op'.todo = list
  BY <1>1, <1>3, <1>4 DEF Renaming
<1>6. Runs'
  BY <1>1, <1>2, <1>5 DEF Runs, Fits, CanMakeParents
<1>7. Types' /\ Handles'
  BY <1>1 DEF Strong, Types, Handles
<1>8. QED
  BY <1>6, <1>7 DEF Strong

LEMMA RenameStartStrong ==
  ASSUME Strong, NEW src \in Path, NEW dst \in Path, RenameStart(src, dst) PROVE Strong'
<1>1. Seen(src) # Nil /\ Renames(src, dst, TRUE)
  BY DEF RenameStart
<1>2. CanMakeParents(src)
  BY <1>1, SeenInDirectory, Directories
<1>3. QED
  BY <1>1, <1>2, RenamesStrong

LEMMA WinRenameStartStrong ==
  ASSUME Strong, NEW src \in Path, NEW dst \in Path, NEW b \in BOOLEAN,
         WinRenameStart(src, dst, b)
  PROVE  Strong'
<1>1. /\ Renames(src, dst, b)
      /\ upper[src] = Nil => CanMakeParents(src)
      /\ fh # NoHandle => fh.path # dst
  BY DEF WinRenameStart
<1>2. NoHandle.path # dst
  BY PathFacts, EmptySeq DEF NoHandle
<1>3. QED
  BY <1>1, <1>2, RenamesStrong

\* One file of the tree that is copied up: the ones still to do have directories above.
LEMMA RenameCopyStrong ==
  ASSUME Strong, RenameCopy PROVE Strong'
<1>1. PICK q \in op.todo :
        /\ upper' = CopyUp(q)
        /\ op' = IF CanCopy(q) THEN [op EXCEPT !.todo = @ \ {q}] ELSE Idle
  BY DEF RenameCopy
<1>2. op.k = "copy" /\ UNCHANGED <<os, lower, wh, fh>>
  BY DEF RenameCopy
<1>3. /\ op \in Renaming /\ Apart(op.src, op.dst) /\ Fits(op.src, op.dst)
      /\ ~op.replace => fh.path # op.dst
      /\ \A x \in op.todo : /\ x \in AtOrBelow[op.src] /\ lower[x] \in Body
                            /\ upper[x] = Nil /\ CanMakeParents(x)
  BY <1>2, RunsRename
<1>4. op.src \in Path /\ op.dst \in Path /\ q \in Path /\ op.todo \subseteq Path
  BY <1>3, Renamings
<1>5. \A x \in Path : lower[x] # Nil => \A r \in Anc[x] : lower[r] = Dir
  BY HostTree DEF Strong, Types
<1>6. Types /\ upper[q] = Nil /\ CanMakeParents(q) /\ lower[q] \in Body
  BY <1>3 DEF Strong
<1>7. /\ upper' \in Tree /\ Layer(upper', wh)
      /\ \A x \in Path \ {q} : upper'[x] = IF x \in Anc[q] THEN Dir ELSE upper[x]
      /\ \A x \in Path : /\ upper[x] \in Files => upper'[x] \in Files
                         /\ upper'[x] \in Links => upper[x] \in Links
  BY <1>1, <1>4, <1>6, CopyUpLayer, CopyUpKeeps, Kinds
<1>8. Types' /\ Handles'
  <2>1. wh' \subseteq Path /\ Layer(upper', wh')
    BY <1>2, <1>7 DEF Strong, Types
  <2>2. Types' /\ (os = "win" => \A x \in Path : upper[x] \notin Links)'
    BY <1>2, <1>7, <2>1, Stays
  <2>3. fh' = NoHandle \/ (fh' \in Handle /\ fh'.layer = "upper" /\ upper'[fh'.path] \in Files)
    BY <1>2, <1>7, StaysOpen
  <2>4. QED
    BY <2>2, <2>3 DEF Handles
<1>9. CASE op' = Idle
  BY <1>8, <1>9, NowIdle DEF Strong
<1>10. CASE op' = [op EXCEPT !.todo = @ \ {q}]
  <2>1. /\ op' \in Renaming /\ op'.k = "copy" /\ op'.src = op.src /\ op'.dst = op.dst
        /\ op'.replace = op.replace /\ op'.todo = op.todo \ {q}
    BY <1>2, <1>3, <1>10 DEF Renaming
  <2>2. ASSUME NEW x \in op.todo \ {q}
        PROVE  /\ x \in AtOrBelow[op.src] /\ lower'[x] \in Body
               /\ upper'[x] = Nil /\ \A r \in Anc[x] : upper'[r] \notin Body
    <3>1. /\ x \in Path /\ lower[x] \in Body /\ upper[x] = Nil
          /\ \A r \in Anc[x] : r \in Path /\ upper[r] \notin Body /\ lower[r] = Dir
      BY <1>3, <1>4, <1>5, AncSelf, Kinds DEF CanMakeParents
    <3>2. x \notin Anc[q]
      BY <1>4, <1>5, <1>6, <3>1, Kinds
    <3>3. q \notin Anc[x]
      BY <1>6, <3>1, Kinds
    <3>4. \A r \in Anc[x] : upper'[r] \notin Body
      BY <1>7, <3>1, <3>3, Kinds
    <3>5. QED
      BY <1>2, <1>3, <1>7, <3>1, <3>2, <3>4
  <2>3. ASSUME NEW x \in AtOrBelow[op.src],
               lower'[x] # Nil \/ upper'[x] # Nil \/ x \in wh'
        PROVE  Moved(x, op.src, op.dst) \in Path
    <3>1. x \in Path
      BY <1>4, Under
    <3>2. upper'[x] # Nil => upper[x] # Nil \/ lower[x] # Nil
      BY <1>4, <1>5, <1>6, <1>7, <3>1, Kinds
    <3>3. QED
      BY <1>2, <1>3, <2>3, <3>2 DEF Fits
  <2>4. Runs'
    BY <1>2, <1>3, <2>1, <2>2, <2>3 DEF Runs, Fits, CanMakeParents
  <2>5. QED
    BY <1>8, <2>4 DEF Strong
<1>11. QED
  BY <1>1, <1>9, <1>10

LEMMA RenameNothingStrong ==
  ASSUME Strong, RenameNothing \/ RenameRefused PROVE Strong'
BY NowIdle DEF Strong, Types, Handles, RenameNothing, RenameRefused

\* The directories of the new name, and in WinFsp's rename beside what is there no more.
LEMMA ToMark ==
  ASSUME Strong, op.k = "copy", op' = [op EXCEPT !.k = "mark"],
         \A x \in AtOrBelow[op.src] : upper'[x] = upper[x] /\ (x \in wh' => x \in wh),
         upper[op.src] # Nil, \A q \in Anc[op.dst] : upper'[q] = Dir,
         op.replace => upper'[op.dst] = Nil,
         ~op.replace => fh' = fh, UNCHANGED lower
  PROVE  Runs'
<1>1. /\ op \in Renaming /\ Apart(op.src, op.dst) /\ Fits(op.src, op.dst)
      /\ ~op.replace => fh.path # op.dst
  BY RunsRename
<1>2. /\ op' \in Renaming /\ op'.k = "mark" /\ op'.src = op.src /\ op'.dst = op.dst
      /\ op'.replace = op.replace
  BY <1>1 DEF Renaming
<1>3. op.src \in AtOrBelow[op.src]
  BY <1>1, Renamings, Under
<1>4. \A x \in AtOrBelow[op.src] :
        lower'[x] # Nil \/ upper'[x] # Nil \/ x \in wh' => Moved(x, op.src, op.dst) \in Path
  BY <1>1 DEF Fits
<1>5. QED
  BY <1>1, <1>2, <1>3, <1>4 DEF Runs, Fits

LEMMA ParentsOfDst ==
  ASSUME Strong, op.k = "copy", CanMakeParents(op.dst)
  PROVE  LET n == WithParents(upper, op.dst) IN
         /\ n \in Tree /\ Layer(n, wh \cup {op.dst})
         /\ \A q \in Path : n[q] = IF q \in Anc[op.dst] THEN Dir ELSE upper[q]
         /\ \A q \in Path : /\ upper[q] \in Files => n[q] \in Files
                            /\ n[q] \in Links => upper[q] \in Links
<1>1. op.dst \in Path /\ \A q \in Anc[op.dst] : upper[q] \notin Body
  BY RunsRename, Renamings DEF CanMakeParents
<1>2. LET n == WithParents(upper, op.dst) IN
      /\ n \in Tree /\ Layer(n, wh \cup {op.dst})
      /\ \A q \in Path : n[q] = IF q \in Anc[op.dst] THEN Dir ELSE upper[q]
  BY <1>1, ParentsLayer DEF Strong, Types
<1>3. QED
  BY <1>1, <1>2, Kinds

LEMMA RenameBesideStrong ==
  ASSUME Strong, RenameBeside PROVE Strong'
<1>1. /\ op.k = "copy" /\ upper[op.src] # Nil /\ ~op.replace /\ CanMakeParents(op.dst)
      /\ upper' = WithParents(upper, op.dst) /\ op' = [op EXCEPT !.k = "mark"]
      /\ UNCHANGED <<os, lower, wh, fh>>
  BY DEF RenameBeside
<1>2. /\ op.src \in Path /\ op.dst \in Path /\ Apart(op.src, op.dst)
  BY <1>1, RunsRename, Renamings
<1>3. /\ upper' \in Tree /\ Layer(upper', wh \cup {op.dst})
      /\ \A q \in Path : upper'[q] = IF q \in Anc[op.dst] THEN Dir ELSE upper[q]
      /\ \A q \in Path : /\ upper[q] \in Files => upper'[q] \in Files
                         /\ upper'[q] \in Links => upper[q] \in Links
  BY <1>1, ParentsOfDst
<1>4. Layer(upper', wh')
  BY <1>1, <1>3 DEF Layer
<1>5. Types' /\ Handles'
  <2>1. wh' \subseteq Path
    BY <1>1 DEF Strong, Types
  <2>2. Types' /\ (os = "win" => \A x \in Path : upper[x] \notin Links)'
    BY <1>1, <1>3, <1>4, <2>1, Stays
  <2>3. fh' = NoHandle \/ (fh' \in Handle /\ fh'.layer = "upper" /\ upper'[fh'.path] \in Files)
    BY <1>1, <1>3, StaysOpen
  <2>4. QED
    BY <2>2, <2>3 DEF Handles
<1>6. \A x \in AtOrBelow[op.src] : upper'[x] = upper[x]
  BY <1>2, <1>3, ApartIs, Under
<1>7. \A q \in Anc[op.dst] : upper'[q] = Dir
  BY <1>2, <1>3, AncSelf
<1>8. Runs'
  BY <1>1, <1>6, <1>7, ToMark
<1>9. QED
  BY <1>5, <1>8 DEF Strong

LEMMA RenameReplaceStrong ==
  ASSUME Strong, RenameReplace PROVE Strong'
<1> DEFINE n == WithParents(upper, op.dst)
<1>1. /\ op.k = "copy" /\ upper[op.src] # Nil /\ op.replace /\ CanMakeParents(op.dst)
      /\ upper' = Removed(n, op.dst) /\ op' = [op EXCEPT !.k = "mark"]
      /\ wh' \subseteq (wh \Below[op.dst]) \cup {op.dst}
      /\ fh' = Unlinked(op.dst)
      /\ UNCHANGED <<os, lower>>
  BY DEF RenameReplace
<1>2. /\ op.src \in Path /\ op.dst \in Path /\ Apart(op.src, op.dst)
  BY <1>1, RunsRename, Renamings
<1>3. /\ n \in Tree /\ Layer(n, wh \cup {op.dst})
      /\ \A q \in Path : n[q] = IF q \in Anc[op.dst] THEN Dir ELSE upper[q]
      /\ \A q \in Path : /\ upper[q] \in Files => n[q] \in Files
                         /\ n[q] \in Links => upper[q] \in Links
  BY <1>1, ParentsOfDst
<1> HIDE DEF n
<1>4. /\ upper' \in Tree
      /\ \A q \in Path : upper'[q] = IF q \in AtOrBelow[op.dst] THEN Nil ELSE n[q]
      /\ Layer(upper', (wh \cup {op.dst}) \ Below[op.dst])
  <2> DEFINE W == wh \cup {op.dst}
  <2>1. n \in Tree /\ Layer(n, W) /\ op.dst \in Path
    BY <1>2, <1>3
  <2> HIDE DEF W
  <2>2. /\ Removed(n, op.dst) \in Tree
        /\ \A q \in Path : Removed(n, op.dst)[q] = IF q \in AtOrBelow[op.dst] THEN Nil ELSE n[q]
        /\ Layer(Removed(n, op.dst), W \ Below[op.dst])
    BY <2>1, RemovedLayer
  <2>3. QED
    BY <1>1, <2>2 DEF W
<1>5. wh' \subseteq (wh \cup {op.dst}) \ Below[op.dst] /\ wh' \subseteq Path
  BY <1>1, <1>2, Under DEF Strong, Types
<1>6. Layer(upper', wh')
  BY <1>4, <1>5 DEF Layer
<1>7. \A q \in Path : upper'[q] \in Links => upper[q] \in Links
  BY <1>3, <1>4, Kinds
<1>8. Types' /\ (os = "win" => \A x \in Path : upper[x] \notin Links)'
  BY <1>1, <1>4, <1>5, <1>6, <1>7, Stays
<1>9. fh' = NoHandle \/ (fh' \in Handle /\ fh'.layer = "upper" /\ upper'[fh'.path] \in Files)
  <2>1. CASE fh = NoHandle
    BY <1>1, <2>1 DEF Unlinked, NoHandle
  <2>2. CASE fh # NoHandle
    <3>1. fh \in Handle /\ fh.layer = "upper" /\ upper[fh.path] \in Files /\ fh.path \in Path
      BY <2>2 DEF Strong, Handles, Handle
    <3>2. CASE fh.path \in AtOrBelow[op.dst]
      BY <1>1, <3>1, <3>2 DEF Unlinked
    <3>3. CASE fh.path \notin AtOrBelow[op.dst]
      <4>1. fh' = fh
        BY <1>1, <3>3 DEF Unlinked
      <4>2. upper'[fh.path] \in Files
        BY <1>3, <1>4, <3>1, <3>3
      <4>3. QED
        BY <3>1, <4>1, <4>2
    <3>4. QED
      BY <3>2, <3>3
  <2>3. QED
    BY <2>1, <2>2
<1>10. \A x \in AtOrBelow[op.src] :
         x \in Path /\ x \notin AtOrBelow[op.dst] /\ x \notin Anc[op.dst] /\ x # op.dst
  BY <1>2, ApartIs, Under
<1>11. \A x \in AtOrBelow[op.src] : upper'[x] = upper[x] /\ (x \in wh' => x \in wh)
  BY <1>1, <1>3, <1>4, <1>10
<1>12. \A q \in Anc[op.dst] : upper'[q] = Dir
  <2>1. \A q \in Anc[op.dst] : q \in Path /\ q \notin AtOrBelow[op.dst]
    BY <1>2, AncTrans, AncSelf, Under
  <2>2. QED
    BY <1>3, <1>4, <2>1
<1>13. upper'[op.dst] = Nil
  BY <1>2, <1>4, Under
<1>14. Runs'
  BY <1>1, <1>11, <1>12, <1>13, ToMark
<1>15. QED
  BY <1>8, <1>9, <1>14 DEF Strong, Handles

LEMMA ReplaceCutStrong ==
  ASSUME Strong, ReplaceCut PROVE Strong'
<1> DEFINE n == WithParents(upper, op.dst)
<1>1. op.k = "copy" /\ CanMakeParents(op.dst) /\ RemovalCut(n, op.dst)
  BY DEF ReplaceCut
<1>2. op.dst \in Path
  BY <1>1, RunsRename, Renamings
<1>3. /\ n \in Tree /\ Layer(n, wh \cup {op.dst})
      /\ \A q \in Path : n[q] \in Links => upper[q] \in Links
  BY <1>1, <1>2, ParentsOfDst
<1> HIDE DEF n
<1>4. Layer(n, wh)
  BY <1>3 DEF Layer
<1>5. QED
  BY <1>1, <1>2, <1>3, <1>4, RemovalCutStrong

LEMMA RenameMarkStrong ==
  ASSUME Strong, RenameMark PROVE Strong'
<1>1. /\ op.k = "mark" /\ op' = [op EXCEPT !.k = "move"]
      /\ wh' = wh \/ wh' = wh \cup {op.src}
      /\ UNCHANGED <<os, lower, upper, fh>>
  BY DEF RenameMark
<1>2. /\ op \in Renaming /\ Apart(op.src, op.dst) /\ Fits(op.src, op.dst)
      /\ ~op.replace => fh.path # op.dst
      /\ upper[op.src] # Nil /\ \A q \in Anc[op.dst] : upper[q] = Dir
      /\ op.replace => upper[op.dst] = Nil
  BY <1>1, RunsRename
<1>3. op.src \in Path /\ op.dst \in Path
  BY <1>2, Renamings
<1>4. wh' \subseteq Path /\ Layer(upper', wh')
  BY <1>1, <1>2, <1>3 DEF Strong, Types, Layer
<1>5. Types' /\ Handles'
  BY <1>1, <1>4 DEF Strong, Types, Handles
<1>6. /\ op' \in Renaming /\ op'.k = "move" /\ op'.src = op.src /\ op'.dst = op.dst
      /\ op'.replace = op.replace
  BY <1>1, <1>2 DEF Renaming
<1>7. \A x \in AtOrBelow[op.src] :
        lower'[x] # Nil \/ upper'[x] # Nil \/ x \in wh' => Moved(x, op.src, op.dst) \in Path
  BY <1>1, <1>2, <1>3, MovedTop DEF Fits
<1>8. Runs'
  BY <1>1, <1>2, <1>6, <1>7 DEF Runs, Fits
<1>9. QED
  BY <1>5, <1>8 DEF Strong

\* The rename itself. What it replaces, if anything, has nothing in it.
LEMMA RenameMoveStrong ==
  ASSUME Strong, RenameMove PROVE Strong'
<1>1. /\ op.k = "move" /\ op' = Idle /\ UNCHANGED <<os, lower>>
      /\ upper' = MovedTree(upper, op.src, op.dst)
      /\ wh' = MovedMarks(wh, op.src, op.dst)
      /\ fh' = IF fh.layer = "upper" /\ fh.path \in AtOrBelow[op.src]
               THEN [fh EXCEPT !.path = Moved(@, op.src, op.dst)] ELSE fh
  BY DEF RenameMove, MovedTree, MovedMarks
<1>2. /\ op.src \in Path /\ op.dst \in Path /\ Apart(op.src, op.dst)
      /\ Fits(op.src, op.dst) /\ op.replace \in BOOLEAN
      /\ ~op.replace => fh.path # op.dst
      /\ upper[op.src] # Nil /\ \A q \in Anc[op.dst] : upper[q] = Dir
      /\ op.replace => upper[op.dst] = Nil
  BY <1>1, RunsRename, Renamings
<1>3. upper \in Tree /\ wh \subseteq Path /\ Layer(upper, wh)
  BY DEF Strong, Types
<1>4. \A q \in Below[op.dst] : upper[q] = Nil /\ q \notin wh
  <2>1. CASE MayReplace
    BY <2>1 DEF MayReplace
  <2>2. CASE ~MayReplace
    <3>1. upper[op.dst] # Dir
      BY <2>2, Kinds DEF RenameMove, Replaces
    <3>2. QED
      BY <1>2, <1>3, <3>1, Under DEF Layer
  <2>3. QED
    BY <2>1, <2>2
<1>5. \A q \in AtOrBelow[op.src] :
        upper[q] # Nil \/ q \in wh => Moved(q, op.src, op.dst) \in Path
  BY <1>2 DEF Fits
<1>6. /\ upper' \in Tree /\ wh' \subseteq Path
      /\ \A q \in Path : q \notin AtOrBelow[op.src] /\ q \notin AtOrBelow[op.dst] =>
                          upper'[q] = upper[q]
      /\ \A q \in AtOrBelow[op.src] :
           upper[q] # Nil => upper'[Moved(q, op.src, op.dst)] = upper[q]
      /\ Layer(upper', wh')
  BY <1>1, <1>2, <1>3, <1>4, <1>5, MoveLayer
<1>7. \A q \in Path : upper'[q] \in Links => \E x \in Path : upper[x] \in Links
  BY <1>1, Kinds DEF MovedTree
<1>8. Types' /\ (os = "win" => \A x \in Path : upper[x] \notin Links)'
  BY <1>1, <1>6, <1>7 DEF Strong, Types, Handles
<1>9. fh' = NoHandle \/ (fh' \in Handle /\ fh'.layer = "upper" /\ upper'[fh'.path] \in Files)
  <2>1. CASE fh = NoHandle
    BY <1>1, <2>1 DEF NoHandle
  <2>2. CASE fh # NoHandle
    <3>1. fh \in Handle /\ fh.layer = "upper" /\ upper[fh.path] \in Files /\ fh.path \in Path
      BY <2>2 DEF Strong, Handles, Handle
    <3>2. CASE fh.path \in AtOrBelow[op.src]
      <4>1. fh' = [fh EXCEPT !.path = Moved(fh.path, op.src, op.dst)]
        BY <1>1, <3>1, <3>2
      <4>2. /\ Moved(fh.path, op.src, op.dst) \in Path
            /\ upper'[Moved(fh.path, op.src, op.dst)] \in Files
        BY <1>5, <1>6, <3>1, <3>2, Kinds
      <4>3. /\ fh' \in Handle /\ fh'.layer = "upper"
            /\ fh'.path = Moved(fh.path, op.src, op.dst)
        BY <3>1, <4>1, <4>2 DEF Handle
      <4>4. QED
        BY <4>2, <4>3
    <3>3. CASE fh.path \notin AtOrBelow[op.src]
      <4>1. fh.path # op.dst
        BY <1>2, <3>1, Kinds
      <4>2. fh.path \notin AtOrBelow[op.dst]
        BY <1>2, <1>4, <3>1, <4>1, Under, Kinds
      <4>3. QED
        BY <1>1, <1>6, <3>1, <3>3, <4>2
    <3>4. QED
      BY <3>2, <3>3
  <2>3. QED
    BY <2>1, <2>2
<1>10. QED
  BY <1>1, <1>8, <1>9, NowIdle DEF Strong, Handles

LEMMA NextStrong ==
  ASSUME Strong, [Next]_vars PROVE Strong'
<1>1. CASE UNCHANGED vars
  BY <1>1 DEF Strong, Types, Handles, Runs, Fits, CanMakeParents, vars
<1>2. ASSUME NEW p \in Path,
             \/ Create(p) \/ Mknod(p) \/ Mkdir(p) \/ Symlink(p) \/ Delete(p)
             \/ NewEntryCut(p) \/ DeleteCut(p)
             \/ \E b \in BOOLEAN : SetAttr(p, b) \/ Open(p, b)
             \/ WinCreate(p) \/ WinMkdir(p) \/ WinDelete(p)
             \/ \E b \in BOOLEAN : WinOpen(p, b)
      PROVE  Strong'
  <2>1. CASE Delete(p) \/ WinDelete(p)
    BY <2>1, DeleteStrong DEF Delete, WinDelete
  <2>2. CASE \E b \in BOOLEAN : SetAttr(p, b) \/ Open(p, b)
    BY <2>2, SetAttrStrong, OpenStrong
  <2>3. CASE \E b \in BOOLEAN : WinOpen(p, b)
    BY <2>3, WinOpenStrong
  <2>4. CASE Create(p) \/ Mknod(p) \/ Mkdir(p) \/ Symlink(p)
    BY <2>4, CreateStrong
  <2>5. CASE WinCreate(p) \/ WinMkdir(p)
    BY <2>5, WinNewEntryStrong
  <2>6. CASE NewEntryCut(p) \/ DeleteCut(p)
    BY <2>6, NewEntryCutStrong, RemovalCutStrong DEF DeleteCut, Strong, Types
  <2>7. QED
    BY <1>2, <2>1, <2>2, <2>3, <2>4, <2>5, <2>6
<1>3. ASSUME NEW src \in Path, NEW dst \in Path,
             RenameStart(src, dst) \/ \E b \in BOOLEAN : WinRenameStart(src, dst, b)
      PROVE  Strong'
  BY <1>3, RenameStartStrong, WinRenameStartStrong
<1>4. CASE Rename
  BY <1>4, RenameCopyStrong, RenameNothingStrong, RenameBesideStrong, RenameReplaceStrong,
     ReplaceCutStrong, RenameMarkStrong, RenameMoveStrong DEF Rename
<1>5. CASE DeleteMark \/ (\E c \in Files : Write(c)) \/ Release \/ Crash
  BY <1>5, DeleteMarkStrong, WriteStrong, ReleaseStrong, CrashStrong
<1>6. QED
  BY <1>1, <1>2, <1>3, <1>4, <1>5 DEF Next

THEOREM Invariance == Spec => []Strong
<1>1. Init => Strong
  BY InitStrong
<1>2. Strong /\ [Next]_vars => Strong'
  BY NextStrong
<1>3. QED
  BY <1>1, <1>2, PTL DEF Spec

-----------------------------------------------------------------------------
(* What follows                                                            *)

\* The layer stays a tree, every whiteout lies in directories of its own, and an open
\* handle leads to a file of the layer, through deletions, renames and kills half-way.
THEOREM LayerIsATree == Spec => []Inv
<1>1. ASSUME Strong PROVE Inv
  <2>1. TypeOK
    BY <1>1, HostTree DEF Strong, Types, Handles, Runs, TypeOK
  <2>2. \A p \in Path : upper[p] # Nil \/ p \in wh => \A q \in Anc[p] : upper[q] = Dir
    BY <1>1 DEF Strong, Types, Layer
  <2>3. fh.layer = "upper" => upper[fh.path] \in Files
    BY <1>1 DEF Strong, Handles, NoHandle
  <2>4. QED
    BY <2>1, <2>2, <2>3 DEF Inv
<1>2. QED
  BY <1>1, Invariance, PTL

\* macos.rs:712-739: whatever is opened for writing is in the layer, so that no handler
\* writes to the host directory.
THEOREM HostIsNeverWritten == Spec => []HostUntouched
<1>1. Strong => HostUntouched
  BY DEF Strong, Types, HostUntouched
<1>2. QED
  BY <1>1, Invariance, PTL

\* overlay.rs 38-170 against macos.rs 137-219: effective_manifest and lookup agree on
\* every path of every layer that the handlers, killed anywhere, leave behind.
THEOREM OfflineReading == Spec => []FoldIsView
<1>1. ASSUME Strong, NEW p \in Path PROVE Fold[p] = View[p]
  <2>1. /\ Types /\ View[p] = Seen(p)
        /\ \A x \in Path : lower[x] # Nil => \A q \in Anc[x] : lower[q] = Dir
    BY <1>1, HostTree DEF Strong, Types, View
  <2>2. CASE upper[p] # Nil
    BY <2>1, <2>2, InLayer DEF Fold
  <2>3. CASE upper[p] = Nil /\ Shadowed(p)
    BY <2>1, <2>3 DEF Fold, Shadowed, Seen, Resolve
  <2>4. CASE upper[p] = Nil /\ ~Shadowed(p)
    <3>1. Resolve(p) = lower[p]
      BY <2>4 DEF Resolve
    <3>2. CASE \E q \in Anc[p] : upper[q] \in Body /\ lower[q] = Dir
      <4>1. Fold[p] = Nil
        BY <2>4, <3>2 DEF Fold
      <4>2. PICK q \in Anc[p] : upper[q] \in Body
        BY <3>2
      <4>3. Resolve(q) # Dir
        BY <4>2, Kinds DEF Resolve
      <4>4. QED
        BY <2>1, <4>1, <4>3 DEF Seen, InDirectory
    <3>3. CASE ~\E q \in Anc[p] : upper[q] \in Body /\ lower[q] = Dir
      <4>1. Fold[p] = lower[p]
        BY <2>4, <3>3 DEF Fold, Shadowed
      <4>2. CASE lower[p] = Nil
        BY <2>1, <3>1, <4>1, <4>2 DEF Seen
      <4>3. CASE lower[p] # Nil
        <5>1. ASSUME NEW q \in Anc[p] PROVE Resolve(q) = Dir
          <6>1. q \in Path /\ lower[q] = Dir /\ upper[q] \notin Body
            BY <2>1, <3>3, <4>3, AncSelf
          <6>2. upper[q] \in {Dir, Nil}
            BY <2>1, <6>1, Kinds DEF Types, Tree
          <6>3. Upto[q] \subseteq Upto[p]
            BY <6>1, AncTrans, Under
          <6>4. ~Shadowed(q)
            BY <2>4, <6>3 DEF Shadowed
          <6>5. QED
            BY <6>1, <6>2, <6>4 DEF Resolve
        <5>2. QED
          BY <2>1, <3>1, <4>1, <5>1 DEF Seen, InDirectory
      <4>4. QED
        BY <4>2, <4>3
    <3>4. QED
      BY <3>2, <3>3
  <2>5. QED
    BY <2>2, <2>3, <2>4
<1>2. Strong => FoldIsView
  BY <1>1 DEF FoldIsView, Fold, View
<1>3. QED
  BY <1>2, Invariance, PTL

-----------------------------------------------------------------------------
(* A rename never shows an entry twice                                     *)

\* While the tree is copied up, the old name has no whiteout above it and the new one's
\* directory is seen; until the rename itself, a new name that nothing is to be replaced
\* at shows what it showed; what is replaced, and then the old name, is hidden.
Orderly ==
  op \in Renaming =>
    /\ op.k = "copy" => InWinDirectory(op.dst) /\ (op.todo # {} => ~Shadowed(op.src))
    /\ op.k # "move" /\ ~op.replace => \A m \in AtOrBelow[op.dst] : View[m] = op.tree[m]
    /\ op.k # "copy" /\ op.replace => op.dst \in wh \/ lower[op.dst] = Nil
    /\ op.k = "move" => op.src \in wh \/ lower[op.src] = Nil

LEMMA Shown ==
  ASSUME NEW p \in Path PROVE View[p] = Seen(p)
BY DEF View

LEMMA ShownNext ==
  ASSUME NEW p \in Path PROVE View'[p] = Seen(p)'
BY DEF View

\* What a program sees of a path depends on what is found at the path and above it.
LEMMA SeenSame ==
  ASSUME NEW p \in Path, Resolve(p)' = Resolve(p),
         \A q \in Anc[p] : (Resolve(q) = Dir)' <=> (Resolve(q) = Dir)
  PROVE  View'[p] = View[p]
BY Shown, ShownNext DEF Seen, InDirectory

LEMMA Parent ==
  ASSUME NEW p \in Path, Anc[p] # {}
  PROVE  \E q \in Anc[p] : Len(q) = Len(p) - 1 /\ \A r \in Anc[p] : r = q \/ r \in Anc[q]
<1>1. PICK x \in Anc[p] : TRUE
  OBVIOUS
<1>2. x \in Path /\ Len(x) < Len(p)
  BY AncIs DEF Begins
<1>3. Len(x) \in Nat \ {0} /\ Len(p) \in Nat
  BY <1>2, PathFacts
<1>4. Len(p) - 1 \in 1 .. Len(p) - 1 /\ Len(p) - 1 \in 1 .. Len(p)
  BY <1>2, <1>3
<1> DEFINE q == SubSeq(p, 1, Len(p) - 1)
<1>5. q \in Anc[p]
  BY <1>4 DEF Anc
<1>6. Len(q) = Len(p) - 1
  BY <1>4, Prefix
<1> HIDE DEF q
<1>7. ASSUME NEW r \in Anc[p] PROVE r = q \/ r \in Anc[q]
  <2>1. r = q \/ r \in Anc[q] \/ q \in Anc[r]
    BY <1>5, AncChain
  <2>2. ASSUME q \in Anc[r] PROVE FALSE
    <3>1. r \in Path /\ Len(r) < Len(p)
      BY AncIs DEF Begins
    <3>2. Len(q) < Len(r)
      BY <2>2, <3>1, AncIs DEF Begins
    <3>3. Len(r) \in Nat
      BY <3>1, PathFacts
    <3>4. QED
      BY <1>3, <1>6, <3>1, <3>2, <3>3
  <2>3. QED
    BY <2>1, <2>2
<1>8. QED
  BY <1>5, <1>6, <1>7

\* Where the last directory is seen and no file of the layer is in the way, all are.
LEMMA WinDirectories ==
  ASSUME Strong, NEW p \in Path, InWinDirectory(p), CanMakeParents(p)
  PROVE  InDirectory(p)
<1>1. CASE Anc[p] = {}
  BY <1>1 DEF InDirectory
<1>2. CASE Anc[p] # {}
  <2>1. PICK q \in Anc[p] : Len(q) = Len(p) - 1 /\ \A r \in Anc[p] : r = q \/ r \in Anc[q]
    BY <1>2, Parent
  <2>2. q \in Path /\ Resolve(q) = Dir
    BY <2>1, AncSelf DEF InWinDirectory
  <2>3. ASSUME NEW r \in Anc[q] PROVE Resolve(r) = Dir
    <3>1. CASE upper[q] # Nil
      BY <2>2, <3>1, InLayer DEF Strong, InDirectory
    <3>2. CASE upper[q] = Nil
      <4>1. ~Shadowed(q) /\ lower[q] = Dir
        BY <2>2, <3>2, Kinds DEF Resolve
      <4>2. r \in Path /\ r \in Anc[p]
        BY <2>2, AncSelf, AncTrans
      <4>3. lower[r] = Dir
        BY <2>2, <4>1, HostTree, Kinds DEF Strong, Types
      <4>4. ~Shadowed(r)
        <5>1. Upto[r] \subseteq Upto[q]
          BY <2>2, <4>2, AncTrans, Under
        <5>2. QED
          BY <4>1, <5>1 DEF Shadowed
      <4>5. upper[r] \in {Dir, Nil}
        BY <4>2, Kinds DEF CanMakeParents, Strong, Types, Tree
      <4>6. QED
        BY <4>3, <4>4, <4>5 DEF Resolve
    <3>3. QED
      BY <3>1, <3>2
  <2>4. QED
    BY <2>1, <2>2, <2>3 DEF InDirectory
<1>3. QED
  BY <1>1, <1>2

LEMMA RenamesOrderly ==
  ASSUME Strong, NEW src \in Path, NEW dst \in Path, NEW b \in BOOLEAN,
         Renames(src, dst, b), Resolve(src) # Nil, InWinDirectory(dst)
  PROVE  Orderly'
<1>1. /\ op' = [k |-> "copy", src |-> src, dst |-> dst, replace |-> b, tree |-> View,
                todo |-> IF lower[src] # Nil /\ upper[src] = Nil
                           THEN FilesBelow(src) ELSE {}]
      /\ UNCHANGED <<os, lower, upper, wh, fh>>
  BY DEF Renames
<1>2. /\ op'.k = "copy" /\ op'.src = src /\ op'.dst = dst /\ op'.tree = View
      /\ op'.todo # {} => upper[src] = Nil
  BY <1>1
<1>3. View' = View
  BY <1>1 DEF View, Seen, InDirectory, Resolve, Shadowed
<1>4. InWinDirectory(dst)'
  BY <1>1 DEF InWinDirectory, Resolve, Shadowed
<1>5. op'.todo # {} => ~Shadowed(src)'
  BY <1>1, <1>2 DEF Resolve, Shadowed
<1>6. QED
  BY <1>2, <1>3, <1>4, <1>5 DEF Orderly, Shadowed, InWinDirectory, Resolve

LEMMA RenameStartOrderly ==
  ASSUME Strong, NEW src \in Path, NEW dst \in Path, RenameStart(src, dst) PROVE Orderly'
<1>1. Seen(src) # Nil /\ Renames(src, dst, TRUE) /\ InDirectory(dst)
  BY DEF RenameStart
<1>2. Resolve(src) # Nil /\ InWinDirectory(dst)
  BY <1>1, SeenInDirectory DEF InDirectory, InWinDirectory
<1>3. QED
  BY <1>1, <1>2, RenamesOrderly

LEMMA WinRenameStartOrderly ==
  ASSUME Strong, NEW src \in Path, NEW dst \in Path, NEW b \in BOOLEAN,
         WinRenameStart(src, dst, b)
  PROVE  Orderly'
<1>1. Resolve(src) # Nil /\ Renames(src, dst, b) /\ InWinDirectory(dst)
  BY DEF WinRenameStart
<1>2. QED
  BY <1>1, RenamesOrderly

\* A copy up shows nothing at the new name: the directories it makes in the layer are
\* ones that programs saw.
LEMMA RenameCopyOrderly ==
  ASSUME Strong, Orderly, RenameCopy PROVE Orderly'
<1>1. PICK q \in op.todo :
        /\ upper' = CopyUp(q)
        /\ op' = IF CanCopy(q) THEN [op EXCEPT !.todo = @ \ {q}] ELSE Idle
  BY DEF RenameCopy
<1>2. op.k = "copy" /\ UNCHANGED <<os, lower, wh, fh>>
  BY DEF RenameCopy
<1>3. CASE op' = Idle
  BY <1>3 DEF Orderly, Renaming, Idle
<1>4. CASE op' = [op EXCEPT !.todo = @ \ {q}]
  <2>1. /\ op \in Renaming /\ Apart(op.src, op.dst)
        /\ q \in AtOrBelow[op.src] /\ lower[q] \in Body
        /\ upper[q] = Nil /\ CanMakeParents(q)
    BY <1>2, RunsRename
  <2>2. op.src \in Path /\ op.dst \in Path /\ q \in Path
    BY <2>1, Renamings
  <2>3. /\ op'.k = "copy" /\ op'.src = op.src /\ op'.dst = op.dst
        /\ op'.replace = op.replace /\ op'.tree = op.tree
    BY <1>2, <1>4, <2>1 DEF Renaming
  <2>4. /\ \A x \in Path \ {q} : upper'[x] = IF x \in Anc[q] THEN Dir ELSE upper[x]
        /\ upper'[q] \in Files \cup {Nil}
    BY <1>1, <2>1, <2>2, CopyUpLayer DEF Strong
  <2>5. ~Shadowed(op.src) /\ InWinDirectory(op.dst)
    BY <1>1, <1>2, <2>1 DEF Orderly
  <2>6. \A x \in Path : Shadowed(x)' <=> Shadowed(x)
    BY <1>2 DEF Shadowed
  <2>7. ASSUME NEW x \in Path, x # q, x \notin Anc[q] PROVE Resolve(x)' = Resolve(x)
    <3>1. upper'[x] = upper[x] /\ lower'[x] = lower[x] /\ (Shadowed(x)' <=> Shadowed(x))
      BY <1>2, <2>4, <2>6, <2>7
    <3>2. QED
      BY <3>1 DEF Resolve
  <2>8. ASSUME NEW x \in Anc[q] PROVE Resolve(x)' = Dir
    BY <2>2, <2>4, AncSelf, Kinds DEF Resolve
  <2>9. ASSUME NEW x \in Anc[op.dst], Resolve(x) = Dir PROVE Resolve(x)' = Dir
    <3>1. x \in Path
      BY <2>2, AncSelf
    <3>2. x # q
      BY <2>1, <2>9, Kinds DEF Resolve
    <3>3. QED
      BY <2>7, <2>8, <2>9, <3>1, <3>2
  <2>10. ASSUME NEW x \in Anc[op.dst], Resolve(x)' = Dir PROVE Resolve(x) = Dir
    <3>1. x \in Path
      BY <2>2, AncSelf
    <3>2. CASE x = q
      <4>1. upper'[q] = Nil \/ upper'[q] \in Files
        BY <2>4
      <4>2. QED
        BY <1>2, <2>1, <2>10, <3>2, <4>1, Kinds DEF Resolve
    <3>3. CASE x \in Anc[q]
      <4>1. x \in Anc[op.src]
        BY <2>1, <2>2, <3>3, AboveBelow, ApartIs
      <4>2. Upto[x] \subseteq Upto[op.src]
        BY <2>2, <3>1, <4>1, AncTrans, Under
      <4>3. ~Shadowed(x)
        BY <2>5, <4>2 DEF Shadowed
      <4>4. lower[x] = Dir
        BY <2>1, <2>2, <3>3, HostTree, Kinds DEF Strong, Types
      <4>5. upper[x] \in {Dir, Nil}
        BY <2>1, <3>1, <3>3, Kinds DEF CanMakeParents, Strong, Types, Tree
      <4>6. QED
        BY <4>3, <4>4, <4>5 DEF Resolve
    <3>4. QED
      BY <2>7, <2>10, <3>1, <3>2, <3>3
  <2>11. ASSUME NEW m \in AtOrBelow[op.dst] PROVE View'[m] = View[m]
    <3>1. m \in Path
      BY <2>2, Under
    <3>2. ASSUME NEW x \in AtOrBelow[op.dst] PROVE Resolve(x)' = Resolve(x)
      <4>1. x \in Path /\ x \notin AtOrBelow[op.src] /\ x \notin Anc[op.src]
        BY <2>1, <2>2, ApartIs, Under DEF Apart
      <4>2. x # q /\ x \notin Anc[q]
        BY <2>1, <2>2, <4>1, AboveBelow
      <4>3. QED
        BY <2>7, <4>1, <4>2
    <3>3. \A x \in Anc[m] : x \in Anc[op.dst] \/ x \in AtOrBelow[op.dst]
      BY <2>2, AboveBelow
    <3>4. ASSUME NEW x \in Anc[m] PROVE (Resolve(x) = Dir)' <=> (Resolve(x) = Dir)
      BY <2>9, <2>10, <3>2, <3>3
    <3>5. QED
      BY <3>1, <3>2, <3>4, SeenSame
  <2>12. InWinDirectory(op.dst)'
    BY <2>3, <2>5, <2>9 DEF InWinDirectory
  <2>13. QED
    BY <1>2, <2>1, <2>2, <2>3, <2>5, <2>6, <2>11, <2>12 DEF Orderly
<1>5. QED
  BY <1>1, <1>3, <1>4

LEMMA RenameBesideOrderly ==
  ASSUME Strong, Orderly, RenameBeside
  PROVE  /\ Orderly'
         /\ \A m \in AtOrBelow[op.dst] : View'[m] = op.tree[m]
<1>1. /\ op.k = "copy" /\ ~op.replace /\ CanMakeParents(op.dst)
      /\ upper' = WithParents(upper, op.dst) /\ op' = [op EXCEPT !.k = "mark"]
      /\ UNCHANGED <<os, lower, wh, fh>>
  BY DEF RenameBeside
<1>2. op \in Renaming /\ op.src \in Path /\ op.dst \in Path
  BY <1>1, RunsRename, Renamings
<1>3. /\ op'.k = "mark" /\ op'.src = op.src /\ op'.dst = op.dst
      /\ op'.replace = op.replace /\ op'.tree = op.tree
  BY <1>1, <1>2 DEF Renaming
<1>4. /\ InWinDirectory(op.dst)
      /\ \A m \in AtOrBelow[op.dst] : View[m] = op.tree[m]
  BY <1>1, <1>2 DEF Orderly
<1>5. InDirectory(op.dst)
  BY <1>1, <1>2, <1>4, WinDirectories
<1>6. \A q \in Path : upper'[q] = IF q \in Anc[op.dst] THEN Dir ELSE upper[q]
  BY <1>1, ParentsOfDst
<1>7. ASSUME NEW x \in Path PROVE Resolve(x)' = Resolve(x)
  <2>1. CASE x \in Anc[op.dst]
    <3>1. Resolve(x) = Dir
      BY <1>5, <2>1 DEF InDirectory
    <3>2. Resolve(x)' = Dir
      BY <1>6, <2>1, Kinds DEF Resolve
    <3>3. QED
      BY <3>1, <3>2
  <2>2. CASE x \notin Anc[op.dst]
    BY <1>1, <1>6, <2>2 DEF Resolve, Shadowed
  <2>3. QED
    BY <2>1, <2>2
<1>8. ASSUME NEW m \in AtOrBelow[op.dst] PROVE View'[m] = op.tree[m]
  <2>1. m \in Path /\ Anc[m] \subseteq Path
    BY <1>2, Under, AncSelf
  <2>2. View'[m] = View[m]
    BY <1>7, <2>1, SeenSame
  <2>3. QED
    BY <1>4, <2>2
<1>9. QED
  BY <1>1, <1>3, <1>8 DEF Orderly

\* A subtree whose top the layer does not have and either hides or the host does not have.
LEMMA HiddenTree ==
  ASSUME Types, NEW p \in Path, NEW m \in AtOrBelow[p],
         upper[p] = Nil, p \in wh \/ lower[p] = Nil
  PROVE  View[m] = Nil
<1>1. m \in Path /\ (m = p \/ p \in Anc[m])
  BY Under
<1>2. upper[m] = Nil
  BY <1>1, Kinds DEF Types, Layer
<1>3. CASE p \in wh
  <2>1. Shadowed(m)
    BY <1>1, <1>3, Under DEF Shadowed
  <2>2. QED
    BY <1>1, <1>2, <2>1, Shown DEF Seen, Resolve
<1>4. CASE lower[p] = Nil
  <2>1. lower[m] = Nil
    BY <1>1, <1>4, HostTree, Kinds DEF Types
  <2>2. QED
    BY <1>1, <1>2, <2>1, Shown DEF Seen, Resolve
<1>5. QED
  BY <1>3, <1>4

LEMMA HiddenTreeNext ==
  ASSUME Types', NEW p \in Path, NEW m \in AtOrBelow[p],
         upper'[p] = Nil, p \in wh' \/ lower'[p] = Nil
  PROVE  View'[m] = Nil
<1>1. m \in Path /\ (m = p \/ p \in Anc[m])
  BY Under
<1>2. upper'[m] = Nil
  BY <1>1, Kinds DEF Types, Layer
<1>3. CASE p \in wh'
  <2>1. Shadowed(m)'
    BY <1>1, <1>3, Under DEF Shadowed
  <2>2. QED
    BY <1>1, <1>2, <2>1, ShownNext DEF Seen, Resolve
<1>4. CASE lower'[p] = Nil
  <2>1. lower'[m] = Nil
    BY <1>1, <1>4, HostTree, Kinds DEF Types
  <2>2. QED
    BY <1>1, <1>2, <2>1, ShownNext DEF Seen, Resolve
<1>5. QED
  BY <1>3, <1>4

LEMMA RenameReplaceOrderly ==
  ASSUME Strong, Orderly, RenameReplace
  PROVE  /\ Orderly' /\ upper'[op.dst] = Nil
         /\ op.dst \in wh' \/ lower'[op.dst] = Nil
<1>1. /\ op.k = "copy" /\ op.replace /\ op' = [op EXCEPT !.k = "mark"]
      /\ upper' = Removed(WithParents(upper, op.dst), op.dst)
      /\ wh' = (wh \ Below[op.dst]) \cup (IF lower[op.dst] # Nil THEN {op.dst} ELSE {})
      /\ lower' = lower
  BY DEF RenameReplace
<1>2. op \in Renaming /\ op.dst \in Path
  BY <1>1, RunsRename, Renamings
<1>3. /\ op'.k = "mark" /\ op'.dst = op.dst /\ op'.replace = op.replace
  BY <1>1, <1>2 DEF Renaming
<1>4. op.dst \in wh' \/ lower'[op.dst] = Nil
  BY <1>1
<1>5. upper'[op.dst] = Nil
  BY <1>1, <1>2, Under DEF Removed
<1>6. QED
  BY <1>1, <1>3, <1>4, <1>5 DEF Orderly

LEMMA RenameMarkOrderly ==
  ASSUME Strong, Orderly, RenameMark
  PROVE  /\ Orderly'
         /\ ~op.replace => \A m \in AtOrBelow[op.dst] : View'[m] = op.tree[m]
<1>1. /\ op.k = "mark" /\ op' = [op EXCEPT !.k = "move"]
      /\ wh' = IF lower[op.src] # Nil THEN wh \cup {op.src} ELSE wh
      /\ UNCHANGED <<os, lower, upper, fh>>
  BY DEF RenameMark
<1>2. op \in Renaming /\ op.src \in Path /\ op.dst \in Path /\ Apart(op.src, op.dst)
  BY <1>1, RunsRename, Renamings
<1>3. /\ op'.k = "move" /\ op'.src = op.src /\ op'.dst = op.dst
      /\ op'.replace = op.replace
  BY <1>1, <1>2 DEF Renaming
<1>4. ASSUME ~op.replace, NEW m \in AtOrBelow[op.dst] PROVE View'[m] = op.tree[m]
  <2>1. m \in Path /\ Anc[m] \subseteq Path
    BY <1>2, Under, AncSelf
  <2>2. op.src \notin Upto[m]
    <3>1. op.src \notin AtOrBelow[op.dst] /\ op.src \notin Anc[op.dst]
      BY <1>2, Under DEF Apart
    <3>2. op.src \notin Anc[m]
      BY <1>2, <3>1, AboveBelow
    <3>3. QED
      BY <2>1, <3>1, <3>2, Under
  <2>3. ASSUME NEW x \in Upto[m] PROVE Resolve(x)' = Resolve(x)
    <3>1. x \in Path /\ Upto[x] \subseteq Upto[m]
      BY <2>1, AncTrans, Under
    <3>2. Upto[x] \cap wh' = Upto[x] \cap wh
      BY <1>1, <2>2, <3>1
    <3>3. QED
      BY <1>1, <3>2 DEF Resolve, Shadowed
  <2>4. Resolve(m)' = Resolve(m) /\ \A x \in Anc[m] : Resolve(x)' = Resolve(x)
    BY <2>1, <2>3, Under
  <2>5. View'[m] = View[m]
    BY <2>1, <2>4, SeenSame
  <2>6. QED
    BY <1>1, <1>2, <1>4, <2>5 DEF Orderly
<1>5. /\ op.replace => op.dst \in wh' \/ lower'[op.dst] = Nil
      /\ op.src \in wh' \/ lower'[op.src] = Nil
  BY <1>1, <1>2 DEF Orderly
<1>6. QED
  BY <1>3, <1>4, <1>5 DEF Orderly

LEMMA NextOrderly ==
  ASSUME Strong, Orderly, [Next]_vars PROVE Orderly'
<1>1. CASE UNCHANGED vars
  <2>1. View' = View
    BY <1>1 DEF View, Seen, InDirectory, Resolve, Shadowed, vars
  <2>2. QED
    BY <1>1, <2>1 DEF Orderly, InWinDirectory, Resolve, Shadowed, vars
<1>2. CASE op' = Idle \/ op' \in Deleting
  BY <1>2 DEF Orderly, Idle, Deleting, Renaming
<1>3. CASE RenameCopy \/ RenameBeside \/ RenameReplace \/ RenameMark
  BY <1>3, RenameCopyOrderly, RenameBesideOrderly, RenameReplaceOrderly, RenameMarkOrderly
<1>4. CASE RenameNothing \/ ReplaceCut \/ RenameRefused \/ RenameMove \/ DeleteMark \/ Release \/ Crash
           \/ \E c \in Files : Write(c)
  <2>1. op' = Idle
    BY <1>4 DEF RenameNothing, ReplaceCut, RemovalCut, RenameRefused, RenameMove, DeleteMark, Release, Crash, Write
  <2>2. QED
    BY <1>2, <2>1
<1>5. ASSUME NEW src \in Path, NEW dst \in Path,
             RenameStart(src, dst) \/ \E b \in BOOLEAN : WinRenameStart(src, dst, b)
      PROVE  Orderly'
  BY <1>5, RenameStartOrderly, WinRenameStartOrderly
<1>6. ASSUME NEW p \in Path,
             \/ Create(p) \/ Mknod(p) \/ Mkdir(p) \/ Symlink(p) \/ Delete(p)
             \/ NewEntryCut(p) \/ DeleteCut(p)
             \/ \E b \in BOOLEAN : SetAttr(p, b) \/ Open(p, b)
             \/ WinCreate(p) \/ WinMkdir(p) \/ WinDelete(p)
             \/ \E b \in BOOLEAN : WinOpen(p, b)
      PROVE  Orderly'
  <2>1. op' = Idle \/ op' = [k |-> "delete", src |-> p]
    BY <1>6 DEF Create, Mknod, Mkdir, Symlink, NewEntry, Delete, DeleteMerged, SetAttr, Open,
       NewEntryCut, DeleteCut, RemovalCut, WinCreate, WinMkdir, WinNewEntry, WinDelete, WinOpen
  <2>2. op' = Idle \/ op' \in Deleting
    BY <2>1 DEF Deleting
  <2>3. QED
    BY <1>2, <2>2
<1>7. QED
  BY <1>1, <1>3, <1>4, <1>5, <1>6 DEF Next, Rename

LEMMA OrderlyInvariance == Spec => []Orderly
<1>1. Init => Orderly
  BY DEF Init, Orderly, Idle, Renaming
<1>2. Strong /\ Orderly /\ [Next]_vars => Orderly'
  BY NextOrderly
<1>3. QED
  BY <1>1, <1>2, Invariance, PTL DEF Spec

\* macos.rs 692-694, winfsp.rs 1015-1018: a rename, wherever it is cut off, never shows
\* an entry under both names: while the old name is there the new one shows what it
\* showed before, or nothing when that was to be replaced.
THEOREM NeverTwice == Spec => NeverBothTrees
<1> DEFINE Once ==
      \A s \in AtOrBelow[op.src] :
        LET m == Moved(s, op.src, op.dst) IN
        m \in Path /\ View'[s] # Nil => View'[m] = IF op.replace THEN Nil ELSE op.tree[m]
<1>1. ASSUME Strong, Strong', Orderly, Orderly',
             RenameBeside \/ RenameReplace \/ RenameMark \/ RenameMove
      PROVE  Once
  <2>1. /\ op \in Renaming /\ Apart(op.src, op.dst)
        /\ op.k # "copy" => (op.replace => upper[op.dst] = Nil)
        /\ op.src \in Path /\ op.dst \in Path
    <3>1. op.k \in {"copy", "mark", "move"}
      BY <1>1 DEF RenameBeside, RenameReplace, RenameMark, RenameMove
    <3>2. QED
      BY <1>1, <3>1, RunsRename, Renamings
  <2>2. SUFFICES ASSUME NEW s \in AtOrBelow[op.src], Moved(s, op.src, op.dst) \in Path,
                        View'[s] # Nil
                 PROVE  View'[Moved(s, op.src, op.dst)]
                          = IF op.replace THEN Nil ELSE op.tree[Moved(s, op.src, op.dst)]
    BY DEF Once
  <2> DEFINE m == Moved(s, op.src, op.dst)
  <2>3. m \in AtOrBelow[op.dst]
    BY <2>1, <2>2, MovedBack
  <2> HIDE DEF m
  <2>4. CASE RenameBeside
    BY <1>1, <2>3, <2>4, RenameBesideOrderly DEF RenameBeside, m
  <2>5. CASE RenameReplace
    <3>1. View'[m] = Nil
      BY <1>1, <2>1, <2>3, <2>5, RenameReplaceOrderly, HiddenTreeNext DEF Strong
    <3>2. QED
      BY <2>5, <3>1 DEF RenameReplace, m
  <2>6. CASE RenameMark
    <3>1. CASE op.replace
      <4>1. /\ upper'[op.dst] = Nil /\ lower' = lower /\ wh \subseteq wh'
            /\ op.dst \in wh \/ lower[op.dst] = Nil
        BY <1>1, <2>1, <2>6, <3>1 DEF RenameMark, Orderly
      <4>2. View'[m] = Nil
        BY <1>1, <2>1, <2>3, <4>1, HiddenTreeNext DEF Strong
      <4>3. QED
        BY <3>1, <4>2 DEF m
    <3>2. CASE ~op.replace
      BY <1>1, <2>3, <2>6, <3>2, RenameMarkOrderly DEF m
    <3>3. QED
      BY <3>1, <3>2
  <2>7. CASE RenameMove
    <3>1. op.k = "move" /\ lower' = lower /\ upper' = MovedTree(upper, op.src, op.dst)
          /\ wh' = MovedMarks(wh, op.src, op.dst)
      BY <2>7 DEF RenameMove, MovedTree, MovedMarks
    <3>2. op.src \in wh \/ lower[op.src] = Nil
      BY <1>1, <2>1, <3>1 DEF Orderly
    <3>3. op.src \in wh' \/ lower'[op.src] = Nil
      BY <2>1, <3>1, <3>2, Under DEF MovedMarks
    <3>4. upper'[op.src] = Nil
      BY <2>1, <3>1, Under DEF MovedTree
    <3>5. View'[s] = Nil
      BY <1>1, <2>1, <3>3, <3>4, HiddenTreeNext DEF Strong
    <3>6. QED
      BY <2>2, <3>5
  <2>8. QED
    BY <1>1, <2>4, <2>5, <2>6, <2>7
<1>2. Strong /\ Strong' /\ Orderly /\ Orderly' =>
        [RenameBeside \/ RenameReplace \/ RenameMark \/ RenameMove => Once]_vars
  BY <1>1
<1>3. QED
  BY <1>2, Invariance, OrderlyInvariance, PTL DEF NeverBothTrees

=============================================================================
