----------------------- MODULE DataPageIteratorProofs -----------------------
(***************************************************************************)
(* Invariants of DataPageIterator for all values of the constants, on      *)
(* pages of less than 2^28 bytes (Readable): where the iterator may stand, *)
(* what a backward scan reads, what seek() finds, and that without seek()  *)
(* it implements RecordCursor.                                             *)
(***************************************************************************)
EXTENDS DataPageIterator, DataPageBuilderProofs

(* A loop that goes from x to g[x] while x is in Q, and whose measure      *)
(* falls: what it computes from what it ends at.                           *)
Loop(D, Q, g, h, f) ==
  f = [ x \in D |-> IF x \in Q THEN f[g[x]] ELSE h[x] ]

Kept(Q, g, S) == \A x \in S : x \in Q => g[x] \in S

Falls(D, Q, g, mu) ==
  /\ Q \subseteq D /\ g \in [Q -> D] /\ mu \in [D -> Nat]
  /\ \A x \in Q : mu[g[x]] < mu[x]

(* From x on the loop ends in S, and h tells what it computes.             *)
Ends(Q, h, f, S, x) == \E y \in S : y \notin Q /\ f[x] = h[y]

(* A set that the loop does not leave holds an end of it.                  *)
LEMMA KeptHasEnd ==
  ASSUME NEW D, NEW Q, NEW g, NEW mu, Falls(D, Q, g, mu),
         NEW S \in SUBSET D, S # {}, Kept(Q, g, S)
  PROVE  \E y \in S : y \notin Q
<1> DEFINE M == { mu[x] : x \in S }
<1>1. M \subseteq Nat /\ M # {}
  BY DEF Falls
<1>2. PICK m \in M : \A k \in M : << k, m >> \notin OpToRel(<, Nat)
  BY <1>1, NatLessThanWellFounded, WFMin
<1>3. PICK y \in S : mu[y] = m
  BY <1>2
<1>4. ASSUME y \in Q PROVE FALSE
  <2>1. g[y] \in S /\ mu[g[y]] < mu[y]
    BY <1>3, <1>4 DEF Kept, Falls
  <2>2. mu[g[y]] \in M /\ mu[g[y]] \in Nat /\ m \in Nat
    BY <1>1, <1>2, <2>1
  <2> QED
    BY <1>2, <1>3, <2>1, <2>2 DEF OpToRel
<1> QED
  BY <1>3, <1>4

(* Such a loop computes something ...                                      *)
LEMMA LoopExists ==
  ASSUME NEW D, NEW Q, NEW g, NEW mu, Falls(D, Q, g, mu), NEW h
  PROVE  \E f : Loop(D, Q, g, h, f)
<1> DEFINE From(x) == { y \in D : \A S \in SUBSET D :
                          x \in S /\ Kept(Q, g, S) => y \in S }
           End(x)  == CHOOSE y : y \in From(x) /\ y \notin Q
           f       == [ x \in D |-> h[End(x)] ]
<1>1. Q \subseteq D /\ g \in [Q -> D]
  BY DEF Falls
<1>2. ASSUME NEW x \in D
      PROVE  /\ x \in From(x) /\ From(x) \subseteq D
             /\ Kept(Q, g, From(x))
  BY <1>1 DEF Kept
<1>3. ASSUME NEW x \in D, NEW S \in SUBSET D, x \in S, Kept(Q, g, S)
      PROVE  From(x) \subseteq S
  BY <1>3
<1> HIDE DEF From
<1>4. ASSUME NEW x \in Q
      PROVE  End(x) = End(g[x])
  <2>1. x \in D /\ g[x] \in D
    BY <1>1
  <2>2. From(g[x]) \subseteq From(x)
    <3>1. g[x] \in From(x)
      BY <1>2, <2>1 DEF Kept
    <3> QED
      BY <1>2, <1>3, <2>1, <3>1
  <2>3. From(x) \subseteq {x} \cup From(g[x])
    <3> DEFINE S == {x} \cup From(g[x])
    <3>1. S \in SUBSET D /\ x \in S
      BY <1>2, <2>1
    <3>2. Kept(Q, g, S)
      BY <1>2, <2>1 DEF Kept
    <3> HIDE DEF S
    <3>3. From(x) \subseteq S
      BY <1>3, <2>1, <3>1, <3>2
    <3> QED
      BY <3>3 DEF S
  <2>4. \A y : (y \in From(x) /\ y \notin Q)
                 <=> (y \in From(g[x]) /\ y \notin Q)
    BY <2>2, <2>3
  <2> QED
    BY <2>4
<1>5. ASSUME NEW x \in D, x \notin Q
      PROVE  End(x) = x
  <2>1. Kept(Q, g, {x})
    BY <1>5 DEF Kept
  <2>2. From(x) \subseteq {x}
    BY <1>3, <2>1
  <2>3. x \in From(x)
    BY <1>2
  <2>4. \A y : (y \in From(x) /\ y \notin Q) <=> y = x
    BY <1>5, <2>2, <2>3
  <2> QED
    BY <2>4
<1> HIDE DEF End
<1>6. \A x \in D : f[x] = IF x \in Q THEN f[g[x]] ELSE h[x]
  BY <1>1, <1>4, <1>5
<1>7. f = [ x \in D |-> f[x] ]
  OBVIOUS
<1> HIDE DEF f
<1>8. f = [ x \in D |-> IF x \in Q THEN f[g[x]] ELSE h[x] ]
  BY <1>6, <1>7
<1> QED
  BY <1>8 DEF Loop

(* ... and that is what it ends with in any set that it does not leave.    *)
LEMMA LoopEnds ==
  ASSUME NEW D, NEW Q, NEW g, NEW mu, Falls(D, Q, g, mu), NEW h, NEW f,
         Loop(D, Q, g, h, f),
         NEW S \in SUBSET D, Kept(Q, g, S), NEW x \in S
  PROVE  Ends(Q, h, f, S, x)
<1> DEFINE T == { z \in S : f[z] = f[x] }
<1>1. f = [ z \in D |-> IF z \in Q THEN f[g[z]] ELSE h[z] ]
  BY DEF Loop
<1>2. \A z \in D : f[z] = IF z \in Q THEN f[g[z]] ELSE h[z]
  BY <1>1
<1>3. T \in SUBSET D /\ x \in T /\ T # {}
  OBVIOUS
<1>4. Kept(Q, g, T)
  <2>1. ASSUME NEW z \in T, z \in Q PROVE g[z] \in T
    BY <1>2, <2>1 DEF Kept
  <2> QED
    BY <2>1 DEF Kept
<1>5. PICK y \in T : y \notin Q
  <2> HIDE DEF T
  <2> QED
    BY <1>3, <1>4, KeptHasEnd
<1> QED
  BY <1>2, <1>5 DEF Ends

-----------------------------------------------------------------------------
(* Where record j starts, and where the restart array does.                *)
Offset(j) == IF j <= Len(added) THEN added[j].at ELSE restartPointStart_

(* The record that restart point r names.                                  *)
Opener(r) == r * RestartPointInterval + 1

(* What the iterator needs of a page: the offsets increase and lead from   *)
(* entry to entry, and each restart point leads to one of them.            *)
Laid ==
  /\ Len(added) \in Nat /\ restartPointStart_ \in Nat
  /\ restartPointStart_ = RestartPointStart(data_)
  /\ Offset(1) = 0 /\ Offset(Past) = restartPointStart_
  /\ \A j \in 1..Past : Offset(j) \in Nat
  /\ \A i, j \in 1..Past : i < j => Offset(i) < Offset(j)
  /\ \A j \in 1..Len(added) :
       /\ Offset(j) = added[j].at
       /\ EntrySize(data_, Offset(j)) \in Nat
       /\ Offset(j) + EntrySize(data_, Offset(j)) = Offset(j + 1)
       /\ ValueAt(data_, Offset(j)) = added[j].value
  /\ restartPointNum_ = IF added = << >> THEN 0
                        ELSE RestartOf(Len(added)) + 1
  /\ \A r \in 0..(restartPointNum_ - 1) :
       /\ Opener(r) \in 1..Len(added)
       /\ RestartPointEntry(data_, r) = Offset(Opener(r))

(* The page that is open is the one that the builder finished.             *)
PageOpen ==
  Opened => /\ WholePage /\ data_ = PageData(page)
            /\ restartPointNum_ = RestartPointNum(data_)
            /\ restartPointStart_ = RestartPointStart(data_)

(* A position on a record or past the last one, with any restart point.    *)
OnPlace(p) ==
  /\ added = << >> => p.cur \in Nat /\ p.restart \in {-1, 0}
  /\ added # << >> => /\ \E j \in 1..Past : p.cur = Offset(j)
                      /\ p.restart \in 0..(restartPointNum_ - 1)

(* The inductive invariant.                                                *)
IterInv ==
  /\ WalkInv
  /\ PageOpen
  /\ ~Opened => /\ restartPointNum_ = 0 /\ restartPointStart_ = 0
                /\ cur_ = 0 /\ curRestartPoint_ = 0 /\ value_ = << >>
  /\ Opened /\ Readable => value_ \in Seq(Byte) /\ OnPlace(Here)

-----------------------------------------------------------------------------
LEMMA StepsIncrease ==
  ASSUME NEW m \in Nat, NEW f \in [1..m -> Nat],
         \A j \in 1..m : j + 1 \in 1..m => f[j] < f[j + 1]
  PROVE  \A i, j \in 1..m : i < j => f[i] < f[j]
<1> SUFFICES ASSUME NEW i \in 1..m, NEW k \in 1..m, i < k, ~(f[i] < f[k])
             PROVE  FALSE
  OBVIOUS
<1> DEFINE B == { j \in 1..m : i < j /\ ~(f[i] < f[j]) }
<1>1. B \subseteq Nat /\ k \in B
  OBVIOUS
<1>2. PICK j \in B : \A y \in B : << y, j >> \notin OpToRel(<, Nat)
  BY <1>1, NatLessThanWellFounded, WFMin
<1>3. j - 1 \in 1..m /\ (j - 1) + 1 = j /\ j \in 1..m
  OBVIOUS
<1>4. f[j - 1] < f[j] /\ f[j - 1] \in Nat /\ f[j] \in Nat /\ f[i] \in Nat
  BY <1>3
<1>5. CASE j - 1 = i
  BY <1>4, <1>5
<1>6. CASE j - 1 # i
  <2>1. j - 1 \in B
    BY <1>3, <1>4, <1>6
  <2>2. << j - 1, j >> \in OpToRel(<, Nat)
    BY <1>3 DEF OpToRel
  <2> QED
    BY <1>2, <2>1, <2>2
<1> QED
  BY <1>5, <1>6

LEMMA PageLaid ==
  ASSUME WalkInv, PageOpen, Opened, Readable
  PROVE  Laid
<1> DEFINE n == Len(added)
<1>1. /\ WholePage /\ data_ = PageData(page)
      /\ restartPointNum_ = RestartPointNum(data_)
      /\ restartPointStart_ = RestartPointStart(data_)
  BY DEF PageOpen
<1>2. PICK body : Filled(data_, body)
  BY <1>1, PageFilled
<1>3. /\ n \in Nat /\ Len(body) \in Nat
      /\ restartPointNum_ = Len(restartPointOffsets_)
      /\ restartPointStart_ = Len(body)
  BY <1>1, <1>2, LenProperties DEF Filled, WalkInv, BuilderTypeOK
<1>4. \A j \in 0..n : Offset(j + 1) = EndOf(body, j)
  BY <1>3 DEF EndOf, Offset
<1>5. \A j \in 1..n : Offset(j) = added[j].at /\ Offset(j) \in Nat
  BY <1>3, RecordTypes DEF WalkInv, Offset
<1>6. Offset(1) = 0 /\ Offset(Past) = restartPointStart_
  <2>1. Offset(0 + 1) = 0
    BY <1>2, <1>3, <1>4 DEF Filled, Walks
  <2>2. Offset(Past) = restartPointStart_
    BY <1>3 DEF Offset, Past
  <2> QED
    BY <2>1, <2>2
<1>7. \A j \in 1..Past : Offset(j) \in Nat
  <2>1. Past = n + 1
    BY DEF Past
  <2>2. \A j \in 1..(n + 1) : j \in 1..n \/ j = n + 1
    BY <1>3
  <2> HIDE DEF n
  <2> QED
    BY <1>3, <1>5, <1>6, <2>1, <2>2
<1>8. ASSUME NEW j \in 1..n
      PROVE  /\ EntrySize(data_, Offset(j)) \in Nat \ {0}
             /\ Offset(j) + EntrySize(data_, Offset(j)) = Offset(j + 1)
             /\ ValueAt(data_, Offset(j)) = added[j].value
  <2>1. PICK p \in Nat : RecordRead(data_, body, j, p)
    BY <1>2, RecordsRead
  <2>2. Offset(j) = added[j].at /\ Offset(j + 1) = EndOf(body, j)
    BY <1>3, <1>4, <1>5
  <2>3. EntrySize(data_, Offset(j))
          = Len(Entry(p, added[j].key, added[j].value))
    BY <2>1, <2>2 DEF RecordRead, EntryRead, EntrySize
  <2>4. p \in 0..Len(added[j].key)
    BY <2>1 DEF RecordRead, Shares
  <2>5. Len(Entry(p, added[j].key, added[j].value)) \in Nat \ {0}
    BY <2>4, RecordTypes, EntryType DEF WalkInv
  <2>6. ValueAt(data_, Offset(j)) = added[j].value
    BY <2>1, <2>2 DEF RecordRead, EntryRead, ValueAt
  <2>7. Offset(j) + EntrySize(data_, Offset(j)) = Offset(j + 1)
    BY <2>1, <2>2 DEF RecordRead, EntrySize
  <2> QED
    BY <2>3, <2>5, <2>6, <2>7
<1>9. \A i, j \in 1..Past : i < j => Offset(i) < Offset(j)
  <2> DEFINE f == [ j \in 1..Past |-> Offset(j) ]
  <2>1. Past \in Nat /\ f \in [1..Past -> Nat]
    BY <1>3, <1>7 DEF Past
  <2>2. ASSUME NEW j \in 1..Past, j + 1 \in 1..Past PROVE f[j] < f[j + 1]
    <3>1. j \in 1..n
      BY <1>3, <2>2 DEF Past
    <3>2. Offset(j) < Offset(j + 1)
      BY <1>5, <1>8, <3>1
    <3> QED
      BY <2>2, <3>2
  <2>3. \A i, j \in 1..Past : i < j => f[i] < f[j]
    <3> HIDE DEF f
    <3> QED
      BY <2>1, <2>2, StepsIncrease
  <2> QED
    BY <2>3
<1>10. restartPointNum_ = IF added = << >> THEN 0
                          ELSE RestartOf(Len(added)) + 1
  BY <1>3 DEF WalkInv, RestartsNamed
<1>11. ASSUME NEW r \in 0..(restartPointNum_ - 1)
       PROVE  /\ Opener(r) \in 1..n
              /\ RestartPointEntry(data_, r) = Offset(Opener(r))
  <2>1. RestartPointEntry(data_, r) = restartPointOffsets_[r + 1]
    BY <1>2, <1>3 DEF Filled
  <2>2. /\ Opener(r) \in 1..n
        /\ restartPointOffsets_[r + 1] = added[Opener(r)].at
    BY <1>3 DEF WalkInv, RestartsNamed, Opener
  <2> QED
    BY <1>5, <2>1, <2>2
<1> QED
  BY <1>1, <1>3, <1>5, <1>6, <1>7, <1>8, <1>9, <1>10, <1>11 DEF Laid

-----------------------------------------------------------------------------
(* The restart points and the records that they name.                      *)
LEMMA OpenerIs ==
  ASSUME Laid, NEW j \in 1..Len(added)
  PROVE  /\ RestartOf(j) \in 0..(restartPointNum_ - 1)
         /\ Opener(RestartOf(j)) = FirstOf(j)
         /\ FirstOf(j) \in 1..j
         /\ restartPointNum_ \in Nat \ {0}
<1>1. Len(added) \in Nat \ {0} /\ j \in Nat \ {0} /\ added # << >>
  BY EmptySeq DEF Laid
<1>2. /\ RestartOf(Len(added)) \in Nat
      /\ RestartOf(j) \in 0..RestartOf(Len(added)) /\ FirstOf(j) \in 1..j
  BY <1>1, BlockOf
<1>3. restartPointNum_ = RestartOf(Len(added)) + 1
  BY <1>1 DEF Laid
<1> QED
  BY <1>2, <1>3 DEF Opener, FirstOf

(* The order of the offsets is that of the records.                        *)
LEMMA OffsetBounds ==
  ASSUME Laid, NEW j \in 1..Past
  PROVE  /\ Offset(j) \in Nat /\ Offset(j) <= restartPointStart_
         /\ Offset(j) < restartPointStart_ <=> j \in 1..Len(added)
         /\ \A i \in 1..Past : Offset(i) < Offset(j) <=> i < j
         /\ \A i \in 1..Past : Offset(i) = Offset(j) <=> i = j
<1>1. Len(added) \in Nat /\ Past = Len(added) + 1 /\ Past \in 1..Past
  BY DEF Laid, Past
<1>2. /\ \A i \in 1..Past : Offset(i) \in Nat
      /\ \A i, k \in 1..Past : i < k => Offset(i) < Offset(k)
      /\ Offset(Past) = restartPointStart_ /\ restartPointStart_ \in Nat
  BY DEF Laid
<1>3. ASSUME NEW i \in 1..Past
      PROVE  /\ Offset(i) < Offset(j) <=> i < j
             /\ Offset(i) = Offset(j) <=> i = j
  <2>1. /\ i < j => Offset(i) < Offset(j)
        /\ j < i => Offset(j) < Offset(i)
        /\ Offset(i) \in Nat /\ Offset(j) \in Nat
    BY <1>2
  <2>2. i < j \/ i = j \/ j < i
    BY <1>1
  <2> QED
    BY <1>1, <2>1, <2>2
<1>4. Offset(j) \in Nat /\ (Offset(j) < Offset(Past) <=> j < Past)
        /\ Offset(j) <= Offset(Past)
  <2>1. j < Past => Offset(j) < Offset(Past)
    BY <1>1, <1>2
  <2>2. j < Past \/ j = Past
    BY <1>1
  <2> QED
    BY <1>1, <1>2, <2>1, <2>2
<1>5. j < Past <=> j \in 1..Len(added)
  BY <1>1
<1> QED
  BY <1>2, <1>3, <1>4, <1>5

(* next() leads to the next record and never changes curRestartPoint_:     *)
(* what it compares cur_ with lies in the restart array.                   *)
LEMMA NextMoves ==
  ASSUME Laid, NEW j \in 1..Len(added), NEW r \in 0..(restartPointNum_ - 1)
  PROVE  NextPosition(At(Offset(j), r)) = At(Offset(j + 1), r)
<1>1. Offset(j) + EntrySize(data_, Offset(j)) = Offset(j + 1)
  BY DEF Laid
<1>2. /\ restartPointNum_ \in Nat \ {0} /\ restartPointStart_ \in Nat
      /\ j + 1 \in 1..Past
  BY SMTT(30), OpenerIs DEF Laid, Past
<1>3. Offset(j + 1) \in Nat /\ Offset(j + 1) <= restartPointStart_
  BY <1>2, OffsetBounds
<1>4. Offset(j + 1) # RestartPointOffset(data_, r + 1)
  <2>1. RestartPointOffset(data_, r + 1)
          = RestartPointStart(data_) + (r + 1) * 4
    BY DEF RestartPointOffset, U32Size
  <2>2. RestartPointStart(data_) = restartPointStart_ /\ r \in Nat
    BY <1>2 DEF Laid
  <2> QED
    BY <1>2, <1>3, <2>1, <2>2
<1> QED
  BY <1>1, <1>4 DEF NextPosition, At

(* The loops of seekToLast() and prev(), from a restart point on, to the   *)
(* last entry in front of record k: it is record k - 1, if that one is not *)
(* in front of the restart point.                                          *)
LEMMA LastEntryIs ==
  ASSUME Laid, NEW r \in 0..(restartPointNum_ - 1), NEW k \in 1..Past
  PROVE  LastEntryBefore(r, Offset(k))
           = Offset(IF Opener(r) < k THEN k - 1 ELSE Opener(r))
<1> DEFINE limit == Offset(k)
           f == Opener(r)
           after(e) == e + EntrySize(data_, e)
           Q == { e \in Nat : Onward(e, after(e)) /\ after(e) < limit }
           g == [ e \in Q |-> after(e) ]
           h == [ e \in Nat |-> e ]
           mu == [ e \in Nat |-> IF e <= restartPointStart_
                                 THEN restartPointStart_ - e ELSE 0 ]
           Walk(w) == w = [ e \in Nat |->
                              IF Onward(e, after(e)) /\ after(e) < limit
                              THEN w[after(e)] ELSE e ]
           walk == CHOOSE w : Walk(w)
           m == IF f < k THEN k - 1 ELSE f
           S == { Offset(i) : i \in f..m }
<1>1. /\ f \in 1..Len(added) /\ Len(added) \in Nat
      /\ Past = Len(added) + 1 /\ restartPointStart_ \in Nat
      /\ RestartPointEntry(data_, r) = Offset(f)
  BY DEF Laid, Past
<1>2. Falls(Nat, Q, g, mu)
  <2>1. \A e \in Q : after(e) \in (e + 1)..restartPointStart_
    BY DEF Onward
  <2> HIDE DEF after
  <2> QED
    BY <1>1, <2>1 DEF Falls
<1>3. \A w : Loop(Nat, Q, g, h, w) <=> Walk(w)
  <2>1. ASSUME NEW w
        PROVE  [ e \in Nat |-> IF e \in Q THEN w[g[e]] ELSE h[e] ]
                 = [ e \in Nat |-> IF Onward(e, after(e)) /\ after(e) < limit
                                   THEN w[after(e)] ELSE e ]
    <3> HIDE DEF after
    <3> QED
      OBVIOUS
  <2> QED
    BY <2>1 DEF Loop
<1>4. LastEntryBefore(r, limit) = walk[RestartPointEntry(data_, r)]
  BY DEF LastEntryBefore
<1>5. Loop(Nat, Q, g, h, walk)
  <2> HIDE DEF Q, g, h, mu, Walk
  <2>1. \E w : Walk(w)
    BY <1>2, <1>3, LoopExists
  <2> QED
    BY <1>3, <2>1
<1> HIDE DEF walk, Walk
<1>6. f..m \subseteq 1..Len(added) /\ f \in f..m /\ m \in f..m
  BY <1>1
<1>7. ASSUME NEW i \in f..m
      PROVE  /\ after(Offset(i)) = Offset(i + 1)
             /\ Offset(i) \in Nat /\ Offset(i + 1) \in Nat
             /\ Offset(i) \in Q <=> i + 1 < k
  <2>1. i \in 1..Len(added) /\ i \in 1..Past /\ i + 1 \in 1..Past /\ i < i + 1
    BY <1>1, <1>6
  <2>2. after(Offset(i)) = Offset(i + 1)
    BY <2>1 DEF Laid
  <2>3. /\ Offset(i) \in Nat /\ Offset(i + 1) \in Nat
        /\ Offset(i + 1) <= restartPointStart_
        /\ Offset(i) < Offset(i + 1)
        /\ Offset(i + 1) < Offset(k) <=> i + 1 < k
    BY <2>1, OffsetBounds
  <2>4. Onward(Offset(i), after(Offset(i)))
    BY <1>1, <2>2, <2>3 DEF Onward
  <2> HIDE DEF after
  <2> QED
    BY <2>2, <2>3, <2>4
<1> HIDE DEF after
<1>8. S \in SUBSET Nat /\ Kept(Q, g, S) /\ Offset(f) \in S
  <2>1. S \in SUBSET Nat /\ Offset(f) \in S
    BY <1>6, <1>7
  <2>2. ASSUME NEW i \in f..m, Offset(i) \in Q PROVE g[Offset(i)] \in S
    <3>1. i + 1 < k /\ g[Offset(i)] = Offset(i + 1)
      BY <1>7, <2>2
    <3>2. i + 1 \in f..m
      BY <1>1, <3>1
    <3> QED
      BY <3>1, <3>2
  <2> QED
    BY <2>1, <2>2 DEF Kept
<1>9. PICK y \in S : y \notin Q /\ walk[Offset(f)] = h[y]
  <2> PICK x : x = Offset(f)
    OBVIOUS
  <2> HIDE DEF S, Q, g, h, mu, f
  <2>1. x \in S
    BY <1>8
  <2>2. Ends(Q, h, walk, S, x)
    BY <1>2, <1>5, <1>8, <2>1, LoopEnds
  <2> QED
    BY <2>2 DEF Ends
<1>10. y = Offset(m)
  <2>1. PICK i \in f..m : y = Offset(i)
    BY <1>9
  <2>2. ~(i + 1 < k)
    BY <1>7, <1>9, <2>1
  <2>3. i = m
    BY <1>1, <2>2
  <2> QED
    BY <2>1, <2>3
<1>11. h[y] = y
  BY <1>7, <1>6, <1>10
<1> QED
  BY <1>1, <1>4, <1>9, <1>10, <1>11

(* The binary search of seek() ends in front of the first restart key that *)
(* is not below the target, or at the last restart point.                  *)
Found(left, target) ==
  /\ left \in 0..(restartPointNum_ - 1)
  /\ left # 0 => SliceLess(RestartPointKey(data_, left - 1), target)
  /\ left # restartPointNum_ - 1 =>
       ~SliceLess(RestartPointKey(data_, left), target)

LEMMA SearchFinds ==
  ASSUME restartPointNum_ \in Nat \ {0}, NEW target
  PROVE  Found(SearchedRestartPoint(target), target)
<1> DEFINE D == [left : Nat, right : Nat]
           mid(s) == (s.left + s.right) \div 2
           less(k) == SliceLess(RestartPointKey(data_, k), target)
           half(s) == IF less(mid(s)) THEN [s EXCEPT !.left = mid(s) + 1]
                      ELSE [s EXCEPT !.right = mid(s)]
           Q == { s \in D : ~(s.left >= s.right) }
           g == [ s \in Q |-> half(s) ]
           h == [ s \in D |-> s.left ]
           mu == [ s \in D |-> IF s.left <= s.right THEN s.right - s.left
                               ELSE 0 ]
           Search(w) == w = [ s \in D |-> IF s.left >= s.right THEN s.left
                                          ELSE w[half(s)] ]
           search == CHOOSE w : Search(w)
           last == restartPointNum_ - 1
           S == { s \in D : /\ s.left <= s.right /\ s.right <= last
                            /\ s.left # 0 => less(s.left - 1)
                            /\ s.right # last => ~less(s.right) }
           all == [left |-> 0, right |-> last]
<1>1. SearchedRestartPoint(target) = search[all]
  BY DEF SearchedRestartPoint
<1> HIDE DEF less
<1>2. ASSUME NEW s \in Q
      PROVE  /\ mid(s) \in Nat /\ s.left <= mid(s) /\ mid(s) < s.right
             /\ half(s) \in D /\ half(s).left <= half(s).right
             /\ half(s).right - half(s).left < s.right - s.left
             /\ half(s) = IF less(mid(s))
                          THEN [left |-> mid(s) + 1, right |-> s.right]
                          ELSE [left |-> s.left, right |-> mid(s)]
  <2>1. s.left \in Nat /\ s.right \in Nat /\ s.left < s.right
        /\ s = [left |-> s.left, right |-> s.right]
    OBVIOUS
  <2>2. mid(s) \in Nat /\ s.left <= mid(s) /\ mid(s) < s.right
    BY <2>1
  <2> HIDE DEF mid
  <2> QED
    BY <2>1, <2>2
<1> HIDE DEF mid, half
<1>3. Falls(D, Q, g, mu)
  <2>1. /\ Q \subseteq D /\ g \in [Q -> D] /\ mu \in [D -> Nat]
    BY <1>2
  <2>2. ASSUME NEW s \in Q PROVE mu[g[s]] < mu[s]
    BY <1>2
  <2> QED
    BY <2>1, <2>2 DEF Falls
<1>4. \A w : Loop(D, Q, g, h, w) <=> Search(w)
  <2>1. ASSUME NEW w
        PROVE  [ s \in D |-> IF s \in Q THEN w[g[s]] ELSE h[s] ]
                 = [ s \in D |-> IF s.left >= s.right THEN s.left
                                 ELSE w[half(s)] ]
    OBVIOUS
  <2> QED
    BY <2>1 DEF Loop
<1>5. Loop(D, Q, g, h, search)
  <2> HIDE DEF D, Q, g, h, mu, Search
  <2>1. \E w : Search(w)
    BY <1>3, <1>4, LoopExists
  <2> QED
    BY <1>4, <2>1
<1> HIDE DEF search, Search
<1>6. S \in SUBSET D /\ all \in S
  BY DEF all
<1>7. Kept(Q, g, S)
  <2> SUFFICES ASSUME NEW s \in S, s \in Q PROVE g[s] \in S
    BY DEF Kept
  <2>1. s.left \in Nat /\ s.right \in Nat /\ g[s] = half(s)
    OBVIOUS
  <2>2. CASE less(mid(s))
    <3>1. half(s) = [left |-> mid(s) + 1, right |-> s.right]
      BY <1>2, <2>2
    <3>2. (mid(s) + 1) - 1 = mid(s)
      BY <1>2
    <3> QED
      BY <1>2, <2>1, <2>2, <3>1, <3>2
  <2>3. CASE ~less(mid(s))
    <3>1. half(s) = [left |-> s.left, right |-> mid(s)]
      BY <1>2, <2>3
    <3> QED
      BY <1>2, <2>1, <2>3, <3>1
  <2> QED
    BY <2>2, <2>3
<1>8. PICK s \in S : s \notin Q /\ search[all] = h[s]
  <2> PICK x : x = all
    OBVIOUS
  <2> HIDE DEF S, Q, g, h, mu, D, all
  <2>1. x \in S
    BY <1>6
  <2>2. Ends(Q, h, search, S, x)
    BY <1>3, <1>5, <1>6, <1>7, <2>1, LoopEnds
  <2> QED
    BY <2>2 DEF Ends
<1>9. s.left = s.right /\ search[all] = s.left /\ s.left \in 0..last
  BY <1>8
<1> QED
  BY <1>1, <1>8, <1>9 DEF Found, less

-----------------------------------------------------------------------------
Positions == [cur : Nat, restart : Int]

(* The scan of seek() and seek(key()), over the positions in B.            *)
GoesOn(B, p) ==
  p.cur < restartPointStart_ /\ p \in B /\ Onward(p.cur, NextPosition(p).cur)

Scan(B, f) ==
  f = [ p \in Positions |-> IF GoesOn(B, p) THEN f[NextPosition(p)] ELSE p ]

(* With restart point r it goes on from record j to record k.              *)
Lands(B, r, j, k) ==
  /\ k \in j..Past
  /\ \A i \in j..(k - 1) : At(Offset(i), r) \in B
  /\ k # Past => At(Offset(k), r) \notin B

LEMMA ScanFalls ==
  ASSUME Laid, NEW B
  PROVE  LET Q == { p \in Positions : GoesOn(B, p) }
         IN  /\ Falls(Positions, Q, [ p \in Q |-> NextPosition(p) ],
                      [ p \in Positions |->
                          IF p.cur <= restartPointStart_
                          THEN restartPointStart_ - p.cur ELSE 0 ])
             /\ \A f : Loop(Positions, Q, [ p \in Q |-> NextPosition(p) ],
                           [ p \in Positions |-> p ], f) <=> Scan(B, f)
<1> DEFINE Q == { p \in Positions : GoesOn(B, p) }
           g == [ p \in Q |-> NextPosition(p) ]
           h == [ p \in Positions |-> p ]
           mu == [ p \in Positions |-> IF p.cur <= restartPointStart_
                                       THEN restartPointStart_ - p.cur ELSE 0 ]
<1>1. restartPointStart_ \in Nat
  BY DEF Laid
<1>2. ASSUME NEW p \in Q
      PROVE  /\ p \in Positions /\ p.cur \in Nat
             /\ NextPosition(p) \in Positions
             /\ NextPosition(p).cur \in (p.cur + 1)..restartPointStart_
  <2>1. /\ p.cur \in Nat /\ p.restart \in Int
        /\ NextPosition(p).cur \in (p.cur + 1)..restartPointStart_
    BY DEF Positions, GoesOn, Onward
  <2>2. NextPosition(p).cur \in Nat
    BY <1>1, <2>1
  <2>3. NextPosition(p) \in Positions
    <3> DEFINE x == p.cur + EntrySize(data_, p.cur)
               y == IF x = RestartPointOffset(data_, p.restart + 1)
                    THEN p.restart + 1 ELSE p.restart
    <3>1. NextPosition(p) = [cur |-> x, restart |-> y]
      BY DEF NextPosition, At
    <3>2. y \in Int
      BY <2>1
    <3> HIDE DEF x, y
    <3> QED
      BY <2>2, <3>1, <3>2 DEF Positions
  <2> QED
    BY <2>1, <2>3
<1>3. Falls(Positions, Q, g, mu)
  <2>1. \A p \in Positions : p.cur \in Nat
    BY DEF Positions
  <2>2. /\ Q \subseteq Positions /\ g \in [Q -> Positions]
        /\ mu \in [Positions -> Nat]
    BY <1>1, <1>2, <2>1
  <2>3. ASSUME NEW p \in Q PROVE mu[g[p]] < mu[p]
    <3>1. /\ mu[p] = IF p.cur <= restartPointStart_
                     THEN restartPointStart_ - p.cur ELSE 0
          /\ mu[g[p]] = IF NextPosition(p).cur <= restartPointStart_
                        THEN restartPointStart_ - NextPosition(p).cur ELSE 0
      BY <1>2
    <3> HIDE DEF mu, g, Q
    <3> QED
      BY <1>1, <1>2, <3>1
  <2> HIDE DEF mu, g, Q
  <2> QED
    BY <2>2, <2>3 DEF Falls
<1>4. ASSUME NEW f
      PROVE  Loop(Positions, Q, g, h, f) <=> Scan(B, f)
  <2>1. [ p \in Positions |-> IF p \in Q THEN f[g[p]] ELSE h[p] ]
          = [ p \in Positions |->
                IF GoesOn(B, p) THEN f[NextPosition(p)] ELSE p ]
    OBVIOUS
  <2> QED
    BY <2>1 DEF Loop, Scan
<1> QED
  BY <1>3, <1>4

LEMMA ScanExists ==
  ASSUME Laid, NEW B
  PROVE  \E f : Scan(B, f)
<1> DEFINE Q == { p \in Positions : GoesOn(B, p) }
           g == [ p \in Q |-> NextPosition(p) ]
           h == [ p \in Positions |-> p ]
           mu == [ p \in Positions |-> IF p.cur <= restartPointStart_
                                       THEN restartPointStart_ - p.cur ELSE 0 ]
<1>1. /\ Falls(Positions, Q, g, mu)
      /\ \A f : Loop(Positions, Q, g, h, f) <=> Scan(B, f)
  BY ScanFalls
<1> HIDE DEF Q, g, h, mu
<1> QED
  BY <1>1, LoopExists

LEMMA ScanLands ==
  ASSUME Laid, NEW r \in 0..(restartPointNum_ - 1), NEW j \in 1..Past,
         NEW B, NEW f, Scan(B, f)
  PROVE  \E k : Lands(B, r, j, k) /\ f[At(Offset(j), r)] = At(Offset(k), r)
<1> DEFINE Q == { p \in Positions : GoesOn(B, p) }
           g == [ p \in Q |-> NextPosition(p) ]
           h == [ p \in Positions |-> p ]
           mu == [ p \in Positions |-> IF p.cur <= restartPointStart_
                                       THEN restartPointStart_ - p.cur ELSE 0 ]
           K == { k \in j..Past :
                    \A i \in j..(k - 1) : At(Offset(i), r) \in B }
           S == { At(Offset(k), r) : k \in K }
<1>1. Falls(Positions, Q, g, mu) /\ Loop(Positions, Q, g, h, f)
  BY ScanFalls
<1>2. Len(added) \in Nat /\ Past = Len(added) + 1 /\ r \in Int
        /\ restartPointStart_ \in Nat
  BY DEF Laid, Past
<1>3. ASSUME NEW k \in 1..Past
      PROVE  /\ At(Offset(k), r) \in Positions
             /\ At(Offset(k), r).cur = Offset(k)
             /\ k # Past => NextPosition(At(Offset(k), r))
                              = At(Offset(k + 1), r)
             /\ GoesOn(B, At(Offset(k), r)) <=>
                  k # Past /\ At(Offset(k), r) \in B
  <2>1. /\ Offset(k) \in Nat
        /\ Offset(k) < restartPointStart_ <=> k \in 1..Len(added)
    BY OffsetBounds
  <2>2. /\ At(Offset(k), r) \in Positions
        /\ At(Offset(k), r).cur = Offset(k)
    BY <1>2, <2>1 DEF At, Positions
  <2>3. k # Past <=> k \in 1..Len(added)
    BY <1>2
  <2>4. k # Past => NextPosition(At(Offset(k), r)) = At(Offset(k + 1), r)
    BY <2>3, NextMoves
  <2>5. k # Past => Onward(Offset(k), Offset(k + 1))
    <3>1. k # Past => /\ k + 1 \in 1..Past
                      /\ k < k + 1
      BY <1>2
    <3>2. k # Past => /\ Offset(k + 1) \in Nat
                      /\ Offset(k + 1) <= restartPointStart_
                      /\ Offset(k) < Offset(k + 1)
      BY <3>1, OffsetBounds
    <3> QED
      BY <1>2, <2>1, <3>2 DEF Onward
  <2>6. At(Offset(k + 1), r).cur = Offset(k + 1)
    BY DEF At
  <2> QED
    BY <2>1, <2>2, <2>3, <2>4, <2>5, <2>6 DEF GoesOn
<1>4. S \in SUBSET Positions /\ At(Offset(j), r) \in S
  <2>1. K \subseteq 1..Past /\ j \in K
    BY <1>2
  <2> HIDE DEF K
  <2> QED
    BY <1>3, <2>1
<1>5. Kept(Q, g, S)
  <2> SUFFICES ASSUME NEW k \in K, At(Offset(k), r) \in Q
               PROVE  g[At(Offset(k), r)] \in S
    BY DEF Kept
  <2>1. k \in 1..Past /\ k # Past /\ At(Offset(k), r) \in B
    BY <1>2, <1>3
  <2>2. g[At(Offset(k), r)] = At(Offset(k + 1), r)
    BY <1>3, <2>1
  <2>3. k + 1 \in K
    <3>1. k + 1 \in j..Past
      BY <1>2, <2>1
    <3>2. ASSUME NEW i \in j..((k + 1) - 1) PROVE At(Offset(i), r) \in B
      <4>1. i = k \/ i \in j..(k - 1)
        BY <1>2
      <4> QED
        BY <2>1, <4>1
    <3> QED
      BY <3>1, <3>2
  <2> QED
    BY <2>2, <2>3
<1>6. PICK y \in S : y \notin Q /\ f[At(Offset(j), r)] = h[y]
  <2> PICK x : x = At(Offset(j), r)
    OBVIOUS
  <2> HIDE DEF S, Q, g, h, mu
  <2>1. x \in S
    BY <1>4
  <2>2. Ends(Q, h, f, S, x)
    BY <1>1, <1>4, <1>5, <2>1, LoopEnds
  <2> QED
    BY <2>2 DEF Ends
<1>7. PICK k \in K : y = At(Offset(k), r)
  BY <1>6
<1>8. k \in 1..Past
  BY <1>2
<1>9. h[y] = y
  BY <1>3, <1>7, <1>8
<1>10. Lands(B, r, j, k)
  <2>1. k # Past => At(Offset(k), r) \notin B
    BY <1>3, <1>6, <1>7, <1>8
  <2> QED
    BY <2>1 DEF Lands
<1> QED
  BY <1>6, <1>7, <1>9, <1>10

(* Where the key is below a target, and where it is shorter than Key.      *)
Below(target) ==
  { p \in Positions : SliceLess(KeyAt(data_, p.cur, p.restart), target) }

Shorter ==
  { p \in Positions : Len(KeyAt(data_, p.cur, p.restart)) < Len(Key) }

LEMMA ScanStarts ==
  ASSUME Laid, NEW s \in 0..(restartPointNum_ - 1)
  PROVE  /\ Opener(s) \in 1..Past /\ Opener(s) \in 1..Len(added)
         /\ RestartPointEntry(data_, s) = Offset(Opener(s))
BY DEF Laid, Past

ScannedFor(target, s, r) ==
  Scanned(s, r, LAMBDA key : SliceLess(key, target))

LEMMA SeekScans ==
  ASSUME Laid, NEW r \in 0..(restartPointNum_ - 1),
         NEW s \in 0..(restartPointNum_ - 1), NEW target
  PROVE  \E k : /\ Lands(Below(target), r, Opener(s), k)
                /\ ScannedFor(target, s, r) = At(Offset(k), r)
<1> DEFINE B == Below(target)
           f == CHOOSE g : g = [ p \in Positions |->
                  LET next == NextPosition(p)
                  IN  IF /\ p.cur < restartPointStart_
                         /\ SliceLess(KeyAt(data_, p.cur, p.restart), target)
                         /\ Onward(p.cur, next.cur)
                      THEN g[next] ELSE p ]
<1>1. \A g : Scan(B, g) <=> g = [ p \in Positions |->
                  LET next == NextPosition(p)
                  IN  IF /\ p.cur < restartPointStart_
                         /\ SliceLess(KeyAt(data_, p.cur, p.restart), target)
                         /\ Onward(p.cur, next.cur)
                      THEN g[next] ELSE p ]
  <2>1. ASSUME NEW p \in Positions
        PROVE  GoesOn(B, p) <=>
                 /\ p.cur < restartPointStart_
                 /\ SliceLess(KeyAt(data_, p.cur, p.restart), target)
                 /\ Onward(p.cur, NextPosition(p).cur)
    BY DEF GoesOn, Below
  <2> QED
    BY <2>1 DEF Scan
<1>2. Scan(B, f)
  <2>1. \E g : Scan(B, g)
    BY ScanExists
  <2> QED
    BY <1>1, <2>1
<1>3. ScannedFor(target, s, r) = f[At(RestartPointEntry(data_, s), r)]
  BY DEF ScannedFor, Scanned, Positions
<1> HIDE DEF f, B
<1>4. \E k : /\ Lands(B, r, Opener(s), k)
             /\ f[At(Offset(Opener(s)), r)] = At(Offset(k), r)
  BY <1>2, ScanStarts, ScanLands
<1> QED
  BY <1>3, <1>4, ScanStarts DEF B

LEMMA OwnKeyScans ==
  ASSUME Laid, NEW r \in 0..(restartPointNum_ - 1),
         NEW s \in 0..(restartPointNum_ - 1)
  PROVE  \E k : /\ Lands(Shorter, r, Opener(s), k)
                /\ Scanned(s, r, LAMBDA key : Len(key) < Len(Key))
                     = At(Offset(k), r)
<1> DEFINE f == CHOOSE g : g = [ p \in Positions |->
                  LET next == NextPosition(p)
                  IN  IF /\ p.cur < restartPointStart_
                         /\ Len(KeyAt(data_, p.cur, p.restart)) < Len(Key)
                         /\ Onward(p.cur, next.cur)
                      THEN g[next] ELSE p ]
<1>1. \A g : Scan(Shorter, g) <=> g = [ p \in Positions |->
                  LET next == NextPosition(p)
                  IN  IF /\ p.cur < restartPointStart_
                         /\ Len(KeyAt(data_, p.cur, p.restart)) < Len(Key)
                         /\ Onward(p.cur, next.cur)
                      THEN g[next] ELSE p ]
  <2>1. ASSUME NEW p \in Positions
        PROVE  GoesOn(Shorter, p) <=>
                 /\ p.cur < restartPointStart_
                 /\ Len(KeyAt(data_, p.cur, p.restart)) < Len(Key)
                 /\ Onward(p.cur, NextPosition(p).cur)
    BY DEF GoesOn, Shorter
  <2> QED
    BY <2>1 DEF Scan
<1>2. Scan(Shorter, f)
  <2>1. \E g : Scan(Shorter, g)
    BY ScanExists
  <2> QED
    BY <1>1, <2>1
<1>3. Scanned(s, r, LAMBDA key : Len(key) < Len(Key))
        = f[At(RestartPointEntry(data_, s), r)]
  BY DEF Scanned, Positions
<1> HIDE DEF f
<1>4. \E k : /\ Lands(Shorter, r, Opener(s), k)
             /\ f[At(Offset(Opener(s)), r)] = At(Offset(k), r)
  BY <1>2, ScanStarts, ScanLands
<1> QED
  BY <1>3, <1>4, ScanStarts

LEMMA ScannedIs ==
  ASSUME NEW target, restartPointNum_ \in Nat \ {0},
         SearchedRestartPoint(target) # 0
  PROVE  ScannedRestartPoint(target) \in 0..(restartPointNum_ - 1)
<1> DEFINE left == SearchedRestartPoint(target)
<1>1. left \in 1..(restartPointNum_ - 1)
  BY SearchFinds DEF Found
<1> HIDE DEF left
<1> QED
  BY <1>1 DEF ScannedRestartPoint, left

(* seek() always leads to the start of a record or past the last one.      *)
LEMMA SeekLands ==
  ASSUME Laid, added # << >>, NEW target,
         NEW r \in 0..(restartPointNum_ - 1)
  PROVE  OnPlace(SeekPosition(target, r))
<1>1. /\ restartPointNum_ \in Nat \ {0}
      /\ 1 \in 1..Past /\ Offset(1) = 0
  <2>1. Len(added) \in Nat \ {0}
    BY EmptySeq DEF Laid
  <2>2. 1 \in 1..Len(added)
    BY <2>1
  <2> QED
    BY <2>1, <2>2, OpenerIs DEF Laid, Past
<1>2. CASE SearchedRestartPoint(target) = 0
  <2>1. SeekPosition(target, r) = At(0, 0)
    BY <1>2 DEF SeekPosition
  <2> QED
    BY <1>1, <2>1 DEF At, OnPlace
<1>3. CASE SearchedRestartPoint(target) # 0
  <2> DEFINE s == ScannedRestartPoint(target)
  <2>1. s \in 0..(restartPointNum_ - 1)
    BY <1>1, <1>3, ScannedIs
  <2>2. SeekPosition(target, r) = ScannedFor(target, s, r)
    BY <1>3 DEF SeekPosition, ScannedFor
  <2> HIDE DEF s
  <2>3. PICK k : /\ Lands(Below(target), r, Opener(s), k)
                 /\ ScannedFor(target, s, r) = At(Offset(k), r)
    BY <2>1, SeekScans
  <2>4. k \in 1..Past
    BY <2>1, <2>3, ScanStarts DEF Lands, Laid, Past
  <2> QED
    BY <2>2, <2>3, <2>4 DEF At, OnPlace
<1> QED
  BY <1>2, <1>3

LEMMA OwnKeyLands ==
  ASSUME Laid, added # << >>, curRestartPoint_ \in 0..(restartPointNum_ - 1)
  PROVE  OnPlace(OwnKeyPosition)
<1>1. /\ restartPointNum_ \in Nat \ {0}
      /\ 1 \in 1..Past /\ Offset(1) = 0
  <2>1. Len(added) \in Nat \ {0}
    BY EmptySeq DEF Laid
  <2>2. 1 \in 1..Len(added)
    BY <2>1
  <2> QED
    BY <2>1, <2>2, OpenerIs DEF Laid, Past
<1>2. CASE SearchedRestartPoint(Key) = 0
  <2>1. OwnKeyPosition = At(0, 0)
    BY <1>2 DEF OwnKeyPosition
  <2> QED
    BY <1>1, <2>1 DEF At, OnPlace
<1>3. CASE SearchedRestartPoint(Key) # 0
  <2> DEFINE s == ScannedRestartPoint(Key)
  <2>1. s \in 0..(restartPointNum_ - 1)
    BY <1>1, <1>3, ScannedIs
  <2>2. OwnKeyPosition
          = Scanned(s, curRestartPoint_, LAMBDA key : Len(key) < Len(Key))
    BY <1>3 DEF OwnKeyPosition
  <2> HIDE DEF s
  <2>3. PICK k : /\ Lands(Shorter, curRestartPoint_, Opener(s), k)
                 /\ OwnKeyPosition = At(Offset(k), curRestartPoint_)
    BY <2>1, <2>2, OwnKeyScans
  <2>4. k \in 1..Past
    BY <2>1, <2>3, ScanStarts DEF Lands, Laid, Past
  <2> QED
    BY <2>3, <2>4 DEF At, OnPlace
<1> QED
  BY <1>2, <1>3

-----------------------------------------------------------------------------
(* finish() never returns a page without contents.                         *)
LEMMA PageOpens ==
  ASSUME WalkInv, WholePage
  PROVE  PageData(page) # << >>
<1>1. PICK body \in Seq(Byte) : Closed(body)
  BY DEF WalkInv
<1> DEFINE all == Append(restartPointOffsets_, Len(restartPointOffsets_))
           array == Fixed32Array(all)
<1>2. all \in Seq(Nat) /\ Len(all) # 0
  <2>1. restartPointOffsets_ \in Seq(0..Len(buffer_)) /\ Len(buffer_) \in Nat
    BY LenProperties DEF WalkInv, BuilderTypeOK
  <2>2. restartPointOffsets_ \in Seq(Nat)
    BY <2>1
  <2> QED
    BY <2>2, AppendProperties, LenProperties
<1> HIDE DEF all
<1>3. array \in Seq(Byte) /\ Len(array) \in Nat \ {0}
  BY <1>2, Fixed32ArrayType, LenProperties DEF U32Size
<1> HIDE DEF array
<1>4. body \o array \in Seq(Byte) /\ Len(body \o array) # 0
  BY <1>3, ConcatBytes
<1>5. PageData(page) = body \o array
  BY <1>1, <1>4, BuilderAssumption, SealedReadsBack DEF Closed, array, all
<1> QED
  BY <1>4, <1>5, EmptySeq

LEMMA IterInit == Init => IterInv
<1> SUFFICES ASSUME Init PROVE IterInv
  OBVIOUS
<1>1. ~Opened /\ WalkInv
  BY WalkInit DEF Init, Opened
<1> QED
  BY <1>1 DEF IterInv, PageOpen, Init

LEMMA BuildKeeps ==
  ASSUME IterInv, ~Opened, BuilderNext, UNCHANGED iterVars
  PROVE  IterInv'
<1>1. WalkInv'
  BY WalkNext DEF IterInv
<1>2. ~Opened'
  BY DEF Opened, iterVars
<1> QED
  BY <1>1, <1>2 DEF IterInv, PageOpen, iterVars

LEMMA NewIteratorKeeps ==
  ASSUME IterInv, NewIterator
  PROVE  IterInv'
<1>1. UNCHANGED builderVars /\ WalkInv'
  BY WalkNext DEF IterInv, NewIterator
<1>2. /\ added' = added /\ page' = page /\ (WholePage' <=> WholePage)
      /\ (Readable' <=> Readable)
  BY <1>1 DEF builderVars, WholePage, Readable
<1>3. /\ WholePage /\ ~Opened /\ data_' = PageData(page)
      /\ restartPointNum_' = RestartPointNum(PageData(page))
      /\ restartPointStart_' = RestartPointStart(PageData(page))
      /\ cur_' = 0 /\ curRestartPoint_' = 0 /\ value_' = value_
      /\ value_ = << >>
  BY DEF NewIterator, IterInv
<1>4. Opened'
  BY <1>3, PageOpens DEF Opened, IterInv
<1>5. PageOpen'
  BY <1>2, <1>3 DEF PageOpen
<1>6. ASSUME Readable, added # << >>
      PROVE  /\ \E j \in 1..Past' : cur_' = Offset(j)'
             /\ curRestartPoint_' \in 0..(restartPointNum_' - 1)
  <2>1. PICK body : Filled(PageData(page), body)
    BY <1>3, <1>6, PageFilled DEF IterInv
  <2>2. Len(added) \in Nat \ {0}
    BY <1>6, EmptySeq, LenProperties DEF IterInv, WalkInv, BuilderTypeOK
  <2>3. added[1].at = 0
    <3>1. EndOf(body, 0) = 0
      BY <2>1 DEF Filled, Walks
    <3> QED
      BY <2>2, <3>1 DEF EndOf
  <2>4. 1 \in 1..Past' /\ Offset(1)' = 0
    BY <1>2, <2>2, <2>3 DEF Past, Offset
  <2>5. restartPointNum_' = RestartOf(Len(added)) + 1
    BY <1>3, <1>6, <2>1 DEF Filled, IterInv, WalkInv, RestartsNamed
  <2>6. RestartOf(Len(added)) \in Nat
    BY <2>2, BlockOf
  <2> QED
    BY <1>3, <2>4, <2>5, <2>6
<1>7. Readable' => value_' \in Seq(Byte) /\ OnPlace(Here)'
  <2>1. Here'.cur = 0 /\ Here'.restart = 0
    BY <1>3 DEF Here, At
  <2>2. << >> \in Seq(Byte)
    BY EmptySeq
  <2> QED
    BY <1>2, <1>3, <1>6, <2>1, <2>2 DEF OnPlace
<1> QED
  BY <1>1, <1>4, <1>5, <1>7 DEF IterInv

(* Moving to a position on a record or past the last one.                  *)
LEMMA MoveKeeps ==
  ASSUME IterInv, Opened, NEW p, MoveTo(p), Readable => OnPlace(p)
  PROVE  IterInv'
<1>1. UNCHANGED builderVars /\ WalkInv'
  BY WalkNext DEF IterInv, MoveTo
<1>2. /\ UNCHANGED << added, page, data_, restartPointNum_,
                      restartPointStart_, value_ >>
      /\ (WholePage' <=> WholePage) /\ (Readable' <=> Readable)
      /\ cur_' = p.cur /\ curRestartPoint_' = p.restart
  BY <1>1 DEF builderVars, WholePage, Readable, MoveTo
<1>3. Opened' /\ PageOpen'
  BY <1>2 DEF IterInv, PageOpen, Opened
<1>4. Past' = Past /\ \A j : Offset(j)' = Offset(j)
  BY <1>2 DEF Past, Offset
<1>5. Here'.cur = p.cur /\ Here'.restart = p.restart
  BY <1>2 DEF Here, At
<1>6. Readable' => value_' \in Seq(Byte) /\ OnPlace(Here)'
  BY <1>2, <1>4, <1>5 DEF OnPlace, IterInv
<1> QED
  BY <1>1, <1>3, <1>6 DEF IterInv

-----------------------------------------------------------------------------
LEMMA HereIs ==
  ASSUME IterInv, Opened, Readable
  PROVE  /\ Laid
         /\ added # << >> => curRestartPoint_ \in 0..(restartPointNum_ - 1)
         /\ Valid => /\ added # << >>
                     /\ \E j \in 1..Len(added) : cur_ = Offset(j)
         /\ added # << >> /\ ~Valid => cur_ = restartPointStart_
<1>1. Laid /\ OnPlace(Here)
  BY PageLaid DEF IterInv
<1>2. /\ added = << >> => cur_ \in Nat
      /\ added # << >> => /\ \E j \in 1..Past : cur_ = Offset(j)
                          /\ curRestartPoint_ \in 0..(restartPointNum_ - 1)
  BY <1>1 DEF OnPlace, Here, At
<1>3. added = << >> => ~Valid
  <2>1. added = << >> => restartPointStart_ = 0
    BY <1>1, EmptySeq DEF Laid, Past
  <2> QED
    BY <1>2, <2>1 DEF Valid
<1>4. ASSUME NEW j \in 1..Past, cur_ = Offset(j)
      PROVE  /\ Valid => j \in 1..Len(added)
             /\ ~Valid => cur_ = restartPointStart_
  BY <1>1, <1>4, OffsetBounds DEF Valid, Laid
<1> QED
  BY <1>1, <1>2, <1>3, <1>4

(* seekToLast() stands on the last record, with its restart point.         *)
LEMMA LastIs ==
  ASSUME Laid, added # << >>
  PROVE  LastPosition = Place(Len(added))
<1> DEFINE n == Len(added)
           r == RestartOf(n)
<1>1. n \in Nat \ {0} /\ n \in 1..n /\ Past = n + 1 /\ Past \in 1..Past
        /\ Past - 1 = n
  BY EmptySeq DEF Laid, Past
<1>2. /\ r \in 0..(restartPointNum_ - 1) /\ Opener(r) = FirstOf(n)
      /\ FirstOf(n) \in 1..n /\ restartPointNum_ = r + 1
  BY <1>1, OpenerIs DEF Laid
<1>3. restartPointNum_ - 1 = r
  BY <1>2
<1>4. LastEntryBefore(r, Offset(Past)) = Offset(n)
  <2>1. Opener(r) < Past
    BY <1>1, <1>2
  <2> HIDE DEF r, n
  <2> QED
    BY <1>1, <1>2, <2>1, LastEntryIs
<1>5. Offset(Past) = restartPointStart_ /\ Offset(n) = added[n].at
  BY <1>1 DEF Laid
<1> QED
  BY <1>3, <1>4, <1>5 DEF LastPosition, Place

(* prev() with restart point r: the one before it, if its own entry is the *)
(* one that is left.                                                       *)
PrevRestart(j, r) == IF j = Opener(r) THEN r - 1 ELSE r

LEMMA PrevIs ==
  ASSUME Laid, NEW r \in 0..(restartPointNum_ - 1),
         NEW j \in 2..Len(added)
  PROVE  /\ PrevRestart(j, r) \in 0..(restartPointNum_ - 1)
         /\ PrevPosition(At(Offset(j), r))
              = LET s == PrevRestart(j, r)
                IN  At(Offset(IF Opener(s) < j THEN j - 1 ELSE Opener(s)), s)
<1> DEFINE s == PrevRestart(j, r)
<1>1. /\ j \in 1..Past /\ Len(added) \in Nat /\ Past = Len(added) + 1
      /\ Opener(r) \in 1..Past
      /\ RestartPointEntry(data_, r) = Offset(Opener(r))
  BY DEF Laid, Past
<1>2. Offset(j) = Offset(Opener(r)) <=> j = Opener(r)
  BY <1>1, OffsetBounds
<1>3. j = Opener(r) => r # 0
  BY BuilderAssumption DEF Opener
<1>4. s \in 0..(restartPointNum_ - 1)
  <2>1. restartPointNum_ \in Nat
    BY <1>1, OpenerIs
  <2> QED
    BY <1>3, <2>1 DEF PrevRestart
<1>5. PrevPosition(At(Offset(j), r)) = At(LastEntryBefore(s, Offset(j)), s)
  BY <1>1, <1>2 DEF PrevPosition, At, PrevRestart
<1> HIDE DEF s
<1>6. LastEntryBefore(s, Offset(j))
        = Offset(IF Opener(s) < j THEN j - 1 ELSE Opener(s))
  BY <1>1, <1>4, LastEntryIs
<1> QED
  BY <1>4, <1>5, <1>6 DEF s

LEMMA FirstKeeps ==
  ASSUME IterInv, SeekToFirst
  PROVE  IterInv'
<1>1. ASSUME Readable PROVE OnPlace(At(0, 0))
  <2>1. Laid
    BY <1>1, HereIs DEF SeekToFirst
  <2>2. ASSUME added # << >>
        PROVE  /\ 1 \in 1..Past /\ Offset(1) = 0
               /\ 0 \in 0..(restartPointNum_ - 1)
    <3>1. Len(added) \in Nat \ {0}
      BY <2>1, <2>2, EmptySeq DEF Laid
    <3>2. 1 \in 1..Len(added) /\ 1 \in 1..Past
      BY <3>1 DEF Past
    <3> QED
      BY <2>1, <3>2, OpenerIs DEF Laid
  <2> QED
    BY <2>2 DEF OnPlace, At
<1> QED
  BY <1>1, MoveKeeps DEF SeekToFirst

LEMMA LastKeeps ==
  ASSUME IterInv, SeekToLast
  PROVE  IterInv'
<1>1. ASSUME Readable PROVE OnPlace(LastPosition)
  <2>1. Laid /\ added # << >>
    BY <1>1, HereIs DEF SeekToLast, Laid
  <2>2. Len(added) \in Nat \ {0}
    BY <2>1, EmptySeq DEF Laid
  <2>3. /\ Len(added) \in 1..Len(added) /\ Len(added) \in 1..Past
        /\ LastPosition = Place(Len(added))
    BY <2>1, <2>2, LastIs DEF Past
  <2>4. /\ RestartOf(Len(added)) \in 0..(restartPointNum_ - 1)
        /\ Offset(Len(added)) = added[Len(added)].at
    BY <2>1, <2>3, OpenerIs DEF Laid
  <2> QED
    BY <2>1, <2>3, <2>4 DEF OnPlace, Place, At
<1> QED
  BY <1>1, MoveKeeps DEF SeekToLast

LEMMA LastOfNoneKeeps ==
  ASSUME IterInv, SeekToLastOfNone
  PROVE  IterInv'
<1>1. PICK wild \in WildOffsets : MoveTo(At(wild, -1))
  BY DEF SeekToLastOfNone
<1>2. ASSUME Readable PROVE OnPlace(At(wild, -1))
  <2>1. Laid
    BY <1>2, HereIs DEF SeekToLastOfNone
  <2>2. added = << >>
    <3>1. ASSUME added # << >> PROVE FALSE
      <4>1. Len(added) \in Nat \ {0}
        BY <2>1, <3>1, EmptySeq DEF Laid
      <4>2. restartPointNum_ \in Nat \ {0}
        BY <2>1, <4>1, OpenerIs
      <4> QED
        BY <4>2 DEF SeekToLastOfNone
    <3> QED
      BY <3>1
  <2>3. wild \in Nat
    BY IteratorAssumption
  <2> QED
    BY <2>2, <2>3 DEF OnPlace, At
<1> QED
  BY <1>1, <1>2, MoveKeeps DEF SeekToLastOfNone

LEMMA NextKeeps ==
  ASSUME IterInv, Next
  PROVE  IterInv'
<1>1. ASSUME Readable PROVE OnPlace(NextPosition(Here))
  <2>1. /\ Laid /\ added # << >>
        /\ curRestartPoint_ \in 0..(restartPointNum_ - 1)
    BY <1>1, HereIs DEF Next
  <2>2. PICK j \in 1..Len(added) : cur_ = Offset(j)
    BY <1>1, HereIs DEF Next
  <2>3. NextPosition(Here) = At(Offset(j + 1), curRestartPoint_)
    BY <2>1, <2>2, NextMoves DEF Here
  <2>4. j + 1 \in 1..Past
    BY <2>1 DEF Laid, Past
  <2> QED
    BY <2>1, <2>3, <2>4 DEF OnPlace, At
<1> QED
  BY <1>1, MoveKeeps DEF Next

LEMMA PrevOffTheFrontKeeps ==
  ASSUME IterInv, PrevOffTheFront
  PROVE  IterInv'
<1>1. ASSUME Readable PROVE OnPlace(PastTheFront)
  <2>1. /\ Laid /\ added # << >>
        /\ curRestartPoint_ \in 0..(restartPointNum_ - 1)
    BY <1>1, HereIs DEF PrevOffTheFront
  <2>2. Past \in 1..Past /\ Offset(Past) = restartPointStart_
    BY <2>1 DEF Laid, Past
  <2>3. restartPointNum_ - 1 \in 0..(restartPointNum_ - 1)
    <3>1. Len(added) \in Nat \ {0}
      BY <2>1, EmptySeq DEF Laid
    <3> QED
      BY <2>1, <3>1, OpenerIs
  <2> QED
    BY <2>1, <2>2, <2>3 DEF OnPlace, At, PastTheFront
<1> QED
  BY <1>1, MoveKeeps DEF PrevOffTheFront

LEMMA PrevKeeps ==
  ASSUME IterInv, Prev
  PROVE  IterInv'
<1>1. ASSUME Readable PROVE OnPlace(PrevPosition(Here))
  <2>1. /\ Laid /\ added # << >>
        /\ curRestartPoint_ \in 0..(restartPointNum_ - 1)
    BY <1>1, HereIs DEF Prev
  <2>2. PICK j \in 1..Len(added) : cur_ = Offset(j)
    BY <1>1, HereIs DEF Prev
  <2>3. j \in 2..Len(added)
    <3>1. j # 1
      BY <2>1, <2>2 DEF Prev, Laid
    <3> QED
      BY <2>1, <3>1 DEF Laid
  <2> DEFINE s == PrevRestart(j, curRestartPoint_)
             k == IF Opener(s) < j THEN j - 1 ELSE Opener(s)
  <2>4. /\ s \in 0..(restartPointNum_ - 1)
        /\ PrevPosition(Here) = At(Offset(k), s)
    BY <2>1, <2>2, <2>3, PrevIs DEF Here
  <2> HIDE DEF s
  <2>5. k \in 1..Past
    <3>1. Opener(s) \in 1..Len(added) /\ Len(added) \in Nat
      BY <2>1, <2>4 DEF Laid
    <3> QED
      BY <2>3, <3>1 DEF Past
  <2> HIDE DEF k
  <2> QED
    BY <2>1, <2>4, <2>5 DEF OnPlace, At
<1> QED
  BY <1>1, MoveKeeps DEF Prev

LEMMA SeekKeeps ==
  ASSUME IterInv, NEW target \in SeekTargets, Seek(target)
  PROVE  IterInv'
<1>1. ASSUME Readable PROVE OnPlace(SeekPosition(target, curRestartPoint_))
  <2>1. Laid /\ added # << >>
    BY <1>1, HereIs DEF Seek, Laid
  <2>2. curRestartPoint_ \in 0..(restartPointNum_ - 1)
    BY <1>1, <2>1, HereIs DEF Seek
  <2> QED
    BY <2>1, <2>2, SeekLands
<1> QED
  BY <1>1, MoveKeeps DEF Seek

LEMMA SeekOwnKeyKeeps ==
  ASSUME IterInv, SeekOwnKey
  PROVE  IterInv'
<1>1. ASSUME Readable PROVE OnPlace(OwnKeyPosition)
  BY <1>1, HereIs, OwnKeyLands DEF SeekOwnKey
<1> QED
  BY <1>1, MoveKeeps DEF SeekOwnKey

LEMMA ReadValueKeeps ==
  ASSUME IterInv, ReadValue
  PROVE  IterInv'
<1>1. UNCHANGED builderVars /\ WalkInv'
  BY WalkNext DEF IterInv, ReadValue
<1>2. /\ UNCHANGED << added, page, data_, restartPointNum_,
                      restartPointStart_, cur_, curRestartPoint_ >>
      /\ (WholePage' <=> WholePage) /\ (Readable' <=> Readable)
  BY <1>1 DEF builderVars, WholePage, Readable, ReadValue
<1>3. Opened' /\ PageOpen'
  BY <1>2 DEF IterInv, PageOpen, Opened, ReadValue
<1>4. Past' = Past /\ \A j : Offset(j)' = Offset(j)
  BY <1>2 DEF Past, Offset
<1>5. OnPlace(Here)' <=> OnPlace(Here)
  BY <1>2, <1>4 DEF OnPlace, Here, At
<1>6. ASSUME Readable PROVE value_' \in Seq(Byte)
  <2>1. PICK j \in 1..Len(added) : cur_ = Offset(j)
    BY <1>6, HereIs DEF ReadValue
  <2>2. Laid
    BY <1>6, HereIs DEF ReadValue
  <2>3. value_' = added[j].value
    BY <2>1, <2>2 DEF ReadValue, Laid
  <2> QED
    BY <2>3, RecordTypes DEF IterInv, WalkInv
<1> QED
  BY <1>1, <1>2, <1>3, <1>5, <1>6 DEF IterInv, ReadValue

LEMMA IterNext ==
  ASSUME IterInv, [IteratorNext]_vars
  PROVE  IterInv'
<1>1. CASE UNCHANGED vars
  <2>1. UNCHANGED builderVars /\ UNCHANGED iterVars /\ WalkInv'
    BY <1>1, WalkNext DEF vars, IterInv
  <2>2. /\ UNCHANGED << added, page, data_, restartPointNum_,
                        restartPointStart_, cur_, curRestartPoint_, value_ >>
        /\ (WholePage' <=> WholePage) /\ (Readable' <=> Readable)
        /\ (Opened' <=> Opened)
    BY <2>1 DEF builderVars, iterVars, WholePage, Readable, Opened
  <2>3. PageOpen'
    BY <2>2 DEF IterInv, PageOpen
  <2>4. OnPlace(Here)' <=> OnPlace(Here)
    BY <2>2 DEF OnPlace, Here, At, Past, Offset
  <2> QED
    BY <2>1, <2>2, <2>3, <2>4 DEF IterInv
<1>2. CASE IteratorNext
  BY <1>2, BuildKeeps, NewIteratorKeeps, FirstKeeps, LastKeeps,
     LastOfNoneKeeps, NextKeeps, PrevOffTheFrontKeeps, PrevKeeps, SeekKeeps,
     SeekOwnKeyKeeps, ReadValueKeeps DEF IteratorNext
<1> QED
  BY <1>1, <1>2

LEMMA IterAlways == Spec => []IterInv
BY IterInit, IterNext, PTL DEF Spec

-----------------------------------------------------------------------------
LEMMA TimesAtLeast ==
  ASSUME NEW q \in Nat, NEW d \in Nat \ {0}
  PROVE  q * d >= q
<1>1. q * d = q + q * (d - 1) /\ d - 1 \in Nat
  BY Z3
<1>2. \A x \in Nat : q * x >= 0
  BY Z3
<1> QED
  BY <1>1, <1>2

LEMMA FewRestarts ==
  ASSUME IterInv, Laid
  PROVE  restartPointNum_ \in 0..MaxRecords
<1>1. Len(added) \in 0..MaxRecords
  BY DEF IterInv, WalkInv, RestartsNamed, BuilderTypeOK
<1>2. CASE added = << >>
  BY <1>2, BuilderAssumption DEF Laid
<1>3. CASE added # << >>
  <2> DEFINE n == Len(added)
             q == RestartOf(n)
             d == RestartPointInterval
  <2>1. n - 1 \in Nat /\ d \in Nat \ {0} /\ q = (n - 1) \div d
    BY <1>1, <1>3, EmptySeq, BuilderAssumption DEF Laid, RestartOf
  <2>2. q \in Nat /\ (n - 1) % d \in 0..(d - 1)
          /\ n - 1 = q * d + ((n - 1) % d)
    BY <2>1, DivMod
  <2> HIDE DEF q, n, d
  <2>3. q * d >= q
    BY <2>1, <2>2, TimesAtLeast
  <2>4. q <= n - 1
    BY <2>1, <2>2, <2>3
  <2>5. restartPointNum_ = q + 1
    BY <1>3 DEF Laid, q, n
  <2>6. n \in 0..MaxRecords /\ MaxRecords \in Nat
    BY <1>1, BuilderAssumption DEF n
  <2> QED
    BY <2>1, <2>2, <2>4, <2>5, <2>6
<1> QED
  BY <1>2, <1>3

LEMMA IterTypes ==
  ASSUME IterInv, Readable
  PROVE  IteratorTypeOK
<1>1. BuilderTypeOK
  BY DEF IterInv, WalkInv
<1>2. CASE ~Opened
  <2>1. data_ = << >> /\ << >> \in Seq(Byte) /\ Len(<< >>) = 0
    BY <1>2, EmptySeq DEF Opened
  <2>2. Max({0, -1}) = 0
    BY DEF Max
  <2> QED
    BY <1>1, <1>2, <2>1, <2>2, BuilderAssumption DEF IterInv, IteratorTypeOK
<1>3. CASE Opened
  <2>1. /\ Laid /\ value_ \in Seq(Byte) /\ OnPlace(Here)
        /\ restartPointNum_ \in 0..MaxRecords
    BY <1>3, HereIs, FewRestarts DEF IterInv
  <2>2. data_ \in Seq(Byte) /\ restartPointStart_ \in 0..Len(data_)
    <3>1. PICK body : Filled(data_, body)
      BY <1>3, PageFilled DEF IterInv, PageOpen
    <3>2. restartPointStart_ = Len(body)
      BY <1>3, <3>1 DEF IterInv, PageOpen, Filled
    <3> QED
      BY <3>1, <3>2, LenProperties DEF Filled
  <2>3. cur_ \in Nat
    BY <2>1 DEF OnPlace, Here, At, Laid
  <2>4. curRestartPoint_ \in -1..Max({0, restartPointNum_ - 1})
    <3>1. CASE added = << >>
      <4>1. restartPointNum_ - 1 = -1 /\ curRestartPoint_ \in {-1, 0}
        BY <2>1, <3>1 DEF OnPlace, Here, At, Laid
      <4>2. Max({0, -1}) = 0
        BY DEF Max
      <4> QED
        BY <4>1, <4>2
    <3>2. CASE added # << >>
      <4> DEFINE last == restartPointNum_ - 1
      <4>1. curRestartPoint_ \in 0..last
        BY <2>1, <3>2 DEF OnPlace, Here, At
      <4>2. last \in Nat /\ {0, last} \subseteq 0..last
        BY <2>1, <4>1
      <4> HIDE DEF last
      <4>3. Max({0, last}) \in {0, last} /\ last <= Max({0, last})
        BY <4>2, MaxOfBounded
      <4> QED
        BY <4>1, <4>2, <4>3 DEF last
    <3> QED
      BY <3>1, <3>2
  <2> QED
    BY <1>1, <2>1, <2>2, <2>3, <2>4 DEF IteratorTypeOK
<1> QED
  BY <1>2, <1>3

(* Whatever calls are made, the iterator keeps its types: its restart      *)
(* point is one that the page has, or 0 or -1 on a page without any.       *)
THEOREM IteratorTypes == Spec => [](Readable => IteratorTypeOK)
<1>1. IterInv => (Readable => IteratorTypeOK)
  BY IterTypes
<1> QED
  BY <1>1, IterAlways, PTL

(* A valid iterator stands on the first byte of a record, after any        *)
(* sequence of calls on any page (common/iterator.h).                      *)
THEOREM IteratorStands == Spec => [](Readable => StandsOnRecord)
<1>1. ASSUME IterInv, Readable PROVE StandsOnRecord
  <2> SUFFICES ASSUME Opened, Valid
               PROVE  \E j \in 1..Len(added) : cur_ = added[j].at
    BY DEF StandsOnRecord
  <2> QED
    BY <1>1, HereIs DEF Laid
<1>2. IterInv => (Readable => StandsOnRecord)
  BY <1>1
<1> QED
  BY <1>2, IterAlways, PTL

-----------------------------------------------------------------------------
(* The restart array starts with the offset 0, four bytes that are read as *)
(* two lengths.                                                            *)
LEMMA ZeroCell ==
  ASSUME NEW buf, NEW off \in Nat, buf[off + 1] = 0
  PROVE  GetVarint32(buf, off, U32Size) = 0
<1>1. Stands(EncodeVarint32(0), buf, off)
  BY DEF Stands, EncodeVarint32, VarintLength, Pow128
<1> QED
  BY <1>1, CellReadsBack DEF Pow128

LEMMA ArrayStartsWithZero ==
  ASSUME IterInv, Opened, Readable, added # << >>
  PROVE  /\ data_[restartPointStart_ + 1] = 0
         /\ data_[restartPointStart_ + 2] = 0
<1> DEFINE o == restartPointStart_
<1>1. Laid
  BY HereIs
<1>2. data_ \in Seq(Byte) /\ o \in 0..Len(data_) /\ Len(data_) \in Nat
  BY IterTypes, LenProperties DEF IteratorTypeOK
<1>3. 0 \in 0..(restartPointNum_ - 1) /\ restartPointNum_ \in Nat \ {0}
  <2>1. Len(added) \in Nat \ {0}
    BY <1>1, EmptySeq DEF Laid
  <2> QED
    BY <1>1, <2>1, OpenerIs
<1>4. o = Len(data_) - 4 - restartPointNum_ * 4
  BY <1>1 DEF Laid, RestartPointStart, U32Size, IterInv, PageOpen
<1>5. o + 4 <= Len(data_)
  BY <1>2, <1>3, <1>4
<1>6. DecodeFixed32(data_, o) = 0
  <2>1. RestartPointEntry(data_, 0) = Offset(1)
    BY <1>1, <1>3, BuilderAssumption DEF Laid, Opener
  <2>2. RestartPointOffset(data_, 0) = o
    BY <1>1, <1>2 DEF RestartPointOffset, Laid, U32Size
  <2> QED
    BY <1>1, <2>1, <2>2 DEF RestartPointEntry, Laid
<1>7. ASSUME NEW i \in 1..4 PROVE data_[o + i] \in 0..255
  <2>1. o + i \in 1..Len(data_)
    BY <1>2, <1>5
  <2>2. data_[o + i] \in Byte
    BY <1>2, <2>1, ElementOfSeq
  <2> QED
    BY <2>2 DEF Byte
<1> DEFINE a == data_[o + 1]
           b == data_[o + 2]
           c == data_[o + 3]
           d == data_[o + 4]
<1>8. a \in 0..255 /\ b \in 0..255 /\ c \in 0..255 /\ d \in 0..255
  <2>1. 1 \in 1..4 /\ 2 \in 1..4 /\ 3 \in 1..4 /\ 4 \in 1..4
    OBVIOUS
  <2> QED
    BY <1>7, <2>1
<1>9. a + 256 * b + 65536 * c + 16777216 * d = 0
  BY <1>6 DEF DecodeFixed32
<1> HIDE DEF a, b, c, d
<1>10. a = 0 /\ b = 0
  BY <1>8, <1>9
<1> QED
  BY <1>10 DEF a, b

LEMMA KeyPastEnd ==
  ASSUME IterInv, Opened, Readable, added # << >>,
         NEW r \in 0..(restartPointNum_ - 1)
  PROVE  KeyAt(data_, restartPointStart_, r) = << >>
<1> DEFINE o == restartPointStart_
           h == EntryHeader(data_, o)
           b == RestartPointHeader(data_, r).body
<1>1. Laid /\ o \in Nat
  BY HereIs DEF Laid
<1>2. h.prefix = 0 /\ h.suffix = 0 /\ h.body \in Nat
  <2>1. /\ GetVarint32(data_, o, U32Size) = 0
        /\ GetVarint32(data_, o + 1, U32Size) = 0
    <3>1. o + 1 \in Nat /\ (o + 1) + 1 = o + 2
      BY <1>1
    <3> QED
      BY <1>1, <3>1, ZeroCell, ArrayStartsWithZero
  <2>2. VarintLength(0) = 1
    BY DEF VarintLength, Pow128
  <2> DEFINE v == GetVarint32(data_, o + 1 + 1, U32Size)
  <2>3. VarintLength(v) \in Nat
    BY DEF VarintLength
  <2>4. h = [prefix |-> 0, suffix |-> 0, value |-> v,
             body |-> o + 1 + 1 + VarintLength(v)]
    BY <2>1, <2>2 DEF EntryHeader
  <2> HIDE DEF v, h
  <2> QED
    BY <1>1, <2>3, <2>4
<1>3. b \in Nat
  <2>1. PICK body : Filled(data_, body)
    BY PageFilled DEF IterInv, PageOpen
  <2>2. /\ Opener(r) \in 1..Len(added)
        /\ RestartPointEntry(data_, r) = added[Opener(r)].at
    BY <1>1 DEF Laid
  <2>3. PICK p \in Nat : RecordRead(data_, body, Opener(r), p)
    BY <2>1, <2>2, RecordsRead DEF IterInv
  <2> QED
    BY <2>2, <2>3 DEF RecordRead, EntryRead, RestartPointHeader
<1> HIDE DEF h, b
<1>4. \A x \in Nat : Bytes(data_, x, 0) = << >>
  BY DEF Bytes
<1>5. Bytes(data_, b, h.prefix) = << >> /\ SuffixOf(data_, h) = << >>
  BY <1>2, <1>3, <1>4 DEF SuffixOf
<1>6. << >> \o << >> = << >>
  BY ConcatEmptySeq, EmptySeq
<1> QED
  BY <1>5, <1>6 DEF KeyAt, KeyOf, h, b

(* Behind the last record key() is the empty key and reads nothing beyond  *)
(* the page: the scan of seek() asks for it there.                         *)
THEOREM IteratorPastKey == Spec => [](Readable => PastKeyHarmless)
<1>1. ASSUME IterInv, Readable PROVE PastKeyHarmless
  <2> SUFFICES ASSUME Opened, added # << >>, ~Valid
               PROVE  cur_ = restartPointStart_ /\ Key = << >>
    BY DEF PastKeyHarmless
  <2>1. /\ cur_ = restartPointStart_
        /\ curRestartPoint_ \in 0..(restartPointNum_ - 1)
    BY <1>1, HereIs
  <2> QED
    BY <1>1, <2>1, KeyPastEnd DEF Key
<1>2. IterInv => (Readable => PastKeyHarmless)
  BY <1>1
<1> QED
  BY <1>2, IterAlways, PTL

-----------------------------------------------------------------------------
(* Where the iterator stands, as the number of a record.                   *)
LEMMA PositionIs ==
  ASSUME Laid, NEW j \in 1..Past, cur_ = Offset(j)
  PROVE  Position = j /\ (Valid <=> j # Past)
<1>1. Len(added) \in Nat /\ Past = Len(added) + 1
  BY DEF Laid, Past
<1>2. Valid <=> j \in 1..Len(added)
  BY OffsetBounds DEF Valid
<1>3. CASE j = Past
  BY <1>1, <1>2, <1>3 DEF Position
<1>4. CASE j # Past
  <2>1. j \in 1..Len(added)
    BY <1>1, <1>4
  <2>2. ASSUME NEW i \in 1..Len(added) PROVE added[i].at = cur_ <=> i = j
    <3>1. i \in 1..Past /\ Offset(i) = added[i].at
      BY <1>1 DEF Laid
    <3> QED
      BY <3>1, OffsetBounds
  <2>3. RecordAt(cur_) = j
    BY <2>1, <2>2 DEF RecordAt
  <2> QED
    BY <1>2, <1>4, <2>1, <2>3 DEF Position
<1> QED
  BY <1>3, <1>4

LEMMA RecordBefore ==
  ASSUME NEW n \in Nat, NEW j \in 2..n
  PROVE  /\ PrevRestart(j, RestartOf(j)) = RestartOf(j - 1)
         /\ Opener(RestartOf(j - 1)) < j
<1> DEFINE d == RestartPointInterval
           m == j - 1
<1>1. d \in Nat \ {0} /\ m \in Nat \ {0} /\ j = m + 1
  BY BuilderAssumption
<1>2. RestartOf(j) = m \div d /\ RestartOf(j - 1) = (m - 1) \div d
  BY DEF RestartOf
<1>3. /\ m \div d \in Nat /\ m % d \in 0..(d - 1)
      /\ m = (m \div d) * d + (m % d)
  BY <1>1, DivMod
<1>4. /\ m % d = 0 => (m \div d) * d = m
      /\ m % d = 0 => m \div d = ((m - 1) \div d) + 1
      /\ m % d # 0 => m \div d = (m - 1) \div d
  BY <1>1, NextBlock
<1>5. m \in 1..m /\ FirstOf(m) \in 1..m
  BY <1>1, BlockOf
<1>6. (m - 1) \div d \in Nat
  BY <1>1, DivMod
<1>7. j = Opener(RestartOf(j)) <=> m % d = 0
  <2> DEFINE q == m \div d
             c == q * d
  <2>1. Opener(RestartOf(j)) = c + 1 /\ c \in Nat
    BY <1>1, <1>2, <1>3 DEF Opener
  <2>2. m = c + (m % d)
    BY <1>3
  <2> HIDE DEF c, q
  <2> QED
    BY <1>1, <1>3, <2>1, <2>2
<1>8. PrevRestart(j, RestartOf(j)) = RestartOf(j - 1)
  BY <1>2, <1>3, <1>4, <1>6, <1>7 DEF PrevRestart
<1>9. Opener(RestartOf(j - 1)) = FirstOf(m)
  BY DEF Opener, FirstOf
<1> QED
  BY <1>1, <1>5, <1>8, <1>9

LEMMA InSyncIs ==
  ASSUME IterInv, Readable, InSync
  PROVE  /\ Laid /\ WholePage /\ data_ = PageData(page)
         /\ Position \in 1..Len(added) /\ cur_ = Offset(Position)
         /\ curRestartPoint_ = RestartOf(Position)
         /\ RestartOf(Position) \in 0..(restartPointNum_ - 1)
<1>1. /\ Laid /\ \E j \in 1..Len(added) : cur_ = Offset(j)
  BY HereIs DEF InSync
<1>2. PICK j \in 1..Len(added) : cur_ = Offset(j)
  BY <1>1
<1>3. Position = j
  <2>1. j \in 1..Past
    BY <1>1 DEF Laid, Past
  <2> QED
    BY <1>1, <1>2, <2>1, PositionIs
<1>4. curRestartPoint_ = RestartOf(Position)
  BY DEF InSync, Here, Place, At
<1> QED
  BY <1>1, <1>2, <1>3, <1>4, OpenerIs DEF IterInv, PageOpen, InSync

(* A backward scan reads the records it should: seekToLast() finds the     *)
(* last one, prev() the one before, each with its restart point, and key() *)
(* is then its key, if the memory of the restart keys was left alone while *)
(* the page was built.                                                     *)
THEOREM IteratorBackward ==
  Spec => [](Readable /\ stable => BackwardScanRight)
<1>1. ASSUME IterInv, Readable, stable, Opened, added # << >>, InSync
      PROVE  Key = added[Position].key
  <2>1. /\ Laid /\ WholePage /\ data_ = PageData(page)
        /\ Position \in 1..Len(added) /\ cur_ = Offset(Position)
        /\ curRestartPoint_ = RestartOf(Position)
    BY <1>1, InSyncIs
  <2>2. cur_ = added[Position].at
    BY <2>1 DEF Laid
  <2>3. KeysReadBack
    BY <1>1, KeysRead DEF IterInv
  <2> QED
    BY <1>1, <2>1, <2>2, <2>3 DEF Key, KeysReadBack
<1>2. ASSUME IterInv, Readable, Opened, added # << >>, InSync, cur_ # 0
      PROVE  PrevPosition(Here) = Place(Position - 1)
  <2> DEFINE r == RestartOf(Position)
  <2>1. /\ Laid /\ Position \in 1..Len(added) /\ cur_ = Offset(Position)
        /\ curRestartPoint_ = r /\ r \in 0..(restartPointNum_ - 1)
    BY <1>2, InSyncIs
  <2>2. PICK j : j = Position
    OBVIOUS
  <2>3. j \in 2..Len(added) /\ Len(added) \in Nat
    <3>1. j # 1
      BY <1>2, <2>1, <2>2 DEF Laid
    <3> QED
      BY <2>1, <2>2, <3>1 DEF Laid
  <2>4. /\ PrevRestart(j, r) = RestartOf(j - 1)
        /\ Opener(RestartOf(j - 1)) < j
    BY <2>2, <2>3, RecordBefore
  <2>5. Here = At(Offset(j), r)
    BY <2>1, <2>2 DEF Here
  <2> HIDE DEF r
  <2>6. PrevPosition(Here) = At(Offset(j - 1), RestartOf(j - 1))
    BY <2>1, <2>3, <2>4, <2>5, PrevIs
  <2>7. Offset(j - 1) = added[j - 1].at
    BY <2>1, <2>3 DEF Laid
  <2> QED
    BY <2>2, <2>6, <2>7 DEF Place
<1>3. ASSUME IterInv, Readable, stable PROVE BackwardScanRight
  <2> SUFFICES ASSUME Opened, added # << >> PROVE
                 /\ LastPosition = Place(Len(added))
                 /\ InSync => Key = added[Position].key
                 /\ InSync /\ cur_ # 0 => PrevPosition(Here)
                                            = Place(Position - 1)
    BY DEF BackwardScanRight
  <2>1. Laid
    BY <1>3, HereIs
  <2> QED
    BY <1>1, <1>2, <1>3, <2>1, LastIs
<1>4. IterInv => (Readable /\ stable => BackwardScanRight)
  BY <1>3
<1> QED
  BY <1>4, IterAlways, PTL

-----------------------------------------------------------------------------
(* Without seek() the restart point is never behind the iterator, which is *)
(* what prev() needs to find the record before; next() may leave it in     *)
(* front of the block that the iterator stands in.                         *)
Behind ==
  \A j \in 1..Len(added) : cur_ = Offset(j) => Opener(curRestartPoint_) <= j

CursorInv == IterInv /\ (Opened /\ Readable => Behind)

(* Where a move leads, in terms of the cursor.                             *)
LEMMA MovedTo ==
  ASSUME Laid, Opened, NEW p, MoveTo(p), NEW j \in 1..Past, p.cur = Offset(j),
         added # << >>
  PROVE  /\ Position' = j /\ Opened' /\ added' = added /\ value_' = value_
         /\ Opener(p.restart) <= j => Behind'
<1>1. /\ UNCHANGED << added, data_, restartPointStart_, value_ >>
      /\ cur_' = p.cur /\ curRestartPoint_' = p.restart
  BY DEF MoveTo, builderVars
<1>2. Len(added) \in Nat /\ Past = Len(added) + 1 /\ Past' = Past
  BY <1>1 DEF Laid, Past
<1>3. Opened'
  BY <1>1 DEF Opened
<1>4. ASSUME NEW i \in 1..Len(added)
      PROVE  /\ added[i].at = cur_' <=> i = j
             /\ Offset(i)' = Offset(i) /\ Offset(i) = added[i].at
  <2>1. i \in 1..Past /\ Offset(i) = added[i].at
    BY <1>2 DEF Laid
  <2>2. Offset(i)' = Offset(i)
    BY <1>1 DEF Offset
  <2> QED
    BY <1>1, <2>1, <2>2, OffsetBounds
<1>5. cur_' < restartPointStart_ <=> j \in 1..Len(added)
  BY <1>1, OffsetBounds
<1>6. Position' = j
  <2>1. CASE j \in 1..Len(added)
    <3>1. RecordAt(cur_)' = j
      BY <1>1, <1>4, <2>1 DEF RecordAt
    <3> QED
      BY <1>1, <1>5, <2>1, <3>1 DEF Position, Valid
  <2>2. CASE j \notin 1..Len(added)
    <3>1. j = Past
      BY <1>2, <2>2
    <3> QED
      BY <1>1, <1>2, <1>5, <2>2, <3>1 DEF Position, Valid
  <2> QED
    BY <2>1, <2>2
<1>7. ASSUME Opener(p.restart) <= j PROVE Behind'
  <2>1. Opener(curRestartPoint_)' = Opener(p.restart)
    BY <1>1 DEF Opener
  <2> QED
    BY <1>1, <1>4, <1>7, <2>1 DEF Behind
<1> QED
  BY <1>1, <1>3, <1>6, <1>7

LEMMA CursorBefore ==
  ASSUME CursorInv, Opened, Readable
  PROVE  /\ Laid /\ Past = Len(added) + 1 /\ Len(added) \in Nat
         /\ Valid => /\ added # << >> /\ Position \in 1..Len(added)
                     /\ cur_ = Offset(Position)
                     /\ curRestartPoint_ \in 0..(restartPointNum_ - 1)
                     /\ Opener(curRestartPoint_) <= Position
         /\ ~Valid => Position = Past
         /\ Cursor!Past = Past
<1>1. /\ Laid /\ Past = Len(added) + 1 /\ Len(added) \in Nat
  BY HereIs DEF CursorInv, Laid, Past
<1>2. ASSUME Valid
      PROVE  /\ added # << >> /\ Position \in 1..Len(added)
             /\ cur_ = Offset(Position)
             /\ curRestartPoint_ \in 0..(restartPointNum_ - 1)
             /\ Opener(curRestartPoint_) <= Position
  <2>1. PICK j \in 1..Len(added) : cur_ = Offset(j)
    BY <1>2, HereIs DEF CursorInv
  <2>2. j \in 1..Past
    BY <1>1
  <2>3. Position = j
    BY <1>1, <2>1, <2>2, PositionIs
  <2> QED
    BY <1>2, <2>1, <2>3, HereIs DEF CursorInv, Behind
<1>3. Cursor!Past = Past
  BY DEF Cursor!Past, Past
<1> QED
  BY <1>1, <1>2, <1>3 DEF Position

(* What every call of the cursor but open and value() does.                *)
LEMMA CursorGoes ==
  ASSUME Opened, Opened', added' = added, value_' = value_,
         NEW j, Position' = j
  PROVE  Cursor!GoTo(j)
BY DEF Cursor!GoTo

LEMMA StandsFirst ==
  IterInv /\ Opened /\ Readable /\ cur_ = 0 => Position = 1
<1> SUFFICES ASSUME IterInv, Opened, Readable, cur_ = 0
             PROVE  Position = 1
  OBVIOUS
<1>1. Laid /\ Len(added) \in Nat /\ Past = Len(added) + 1
  BY HereIs DEF Laid, Past
<1>2. 1 \in 1..Past /\ Offset(1) = 0
  BY <1>1 DEF Laid
<1> QED
  BY <1>1, <1>2, PositionIs

LEMMA CursorOpens ==
  ASSUME CursorInv, Readable, NewIterator
  PROVE  (Opened /\ Readable => Behind)' /\ Cursor!Open
<1>1. IterInv'
  BY NewIteratorKeeps DEF CursorInv
<1>2. /\ UNCHANGED << added, page, value_ >> /\ cur_' = 0
      /\ curRestartPoint_' = 0
  BY DEF NewIterator, builderVars
<1>3. ~Opened /\ Opened' /\ Readable'
  <2>1. PageData(page) # << >>
    BY PageOpens DEF CursorInv, IterInv, NewIterator
  <2> QED
    BY <1>2, <2>1 DEF NewIterator, Opened, Readable
<1>4. (IterInv /\ Opened /\ Readable /\ cur_ = 0 => Position = 1)'
  BY StandsFirst, PTL
<1>5. Position' = 1
  BY <1>1, <1>2, <1>3, <1>4
<1>6. Behind'
  <2>1. Opener(curRestartPoint_)' = 1
    BY <1>2, BuilderAssumption DEF Opener
  <2> QED
    BY <2>1 DEF Behind
<1>7. added \in Seq(Records)
  BY DEF CursorInv, IterInv, WalkInv, BuilderTypeOK
<1>8. Cursor!Open
  BY <1>2, <1>3, <1>5, <1>7 DEF Cursor!Open
<1> QED
  BY <1>6, <1>8

LEMMA CursorFirst ==
  ASSUME CursorInv, Readable, SeekToFirst
  PROVE  (Opened /\ Readable => Behind)' /\ Cursor!First
<1>1. MoveTo(At(0, 0)) /\ Opened
  BY DEF SeekToFirst
<1>2. /\ Laid /\ Past = Len(added) + 1 /\ Len(added) \in Nat
  BY <1>1, CursorBefore
<1>3. 1 \in 1..Past /\ At(0, 0).cur = Offset(1)
        /\ Opener(At(0, 0).restart) = 1
  BY <1>2, BuilderAssumption DEF Laid, At, Opener
<1>4. CASE added # << >>
  <2>1. /\ Position' = 1 /\ Opened' /\ added' = added /\ value_' = value_
        /\ Behind'
    BY <1>1, <1>2, <1>3, <1>4, MovedTo
  <2> QED
    BY <1>1, <2>1, CursorGoes DEF Cursor!First
<1>5. CASE added = << >>
  <2>1. IterInv'
    BY FirstKeeps DEF CursorInv
  <2>2. /\ UNCHANGED << added, page, data_, value_ >> /\ cur_' = 0
    BY <1>1 DEF MoveTo, builderVars, At
  <2>3. Opened' /\ Readable'
    BY <1>1, <2>2 DEF Opened, Readable
  <2>4. (IterInv /\ Opened /\ Readable /\ cur_ = 0 => Position = 1)'
    BY StandsFirst, PTL
  <2>5. Position' = 1
    BY <2>1, <2>2, <2>3, <2>4
  <2>6. Behind'
    BY <1>5, <2>2, EmptySeq DEF Behind
  <2> QED
    BY <1>1, <2>2, <2>3, <2>5, <2>6, CursorGoes DEF Cursor!First
<1> QED
  BY <1>4, <1>5

LEMMA CursorLast ==
  ASSUME CursorInv, Readable, SeekToLast
  PROVE  (Opened /\ Readable => Behind)' /\ Cursor!Last
<1> DEFINE n == Len(added)
<1>1. MoveTo(LastPosition) /\ Opened
  BY DEF SeekToLast
<1>2. /\ Laid /\ Past = n + 1 /\ n \in Nat
  BY <1>1, CursorBefore
<1>3. added # << >>
  BY <1>2 DEF SeekToLast, Laid
<1>4. n \in 1..n /\ n \in 1..Past
  BY <1>2, <1>3, EmptySeq
<1>5. LastPosition.cur = Offset(n) /\ LastPosition.restart = RestartOf(n)
  <2>1. LastPosition = Place(n) /\ Offset(n) = added[n].at
    BY <1>2, <1>3, <1>4, LastIs DEF Laid
  <2> QED
    BY <2>1 DEF Place, At
<1>6. Opener(RestartOf(n)) <= n
  <2>1. Opener(RestartOf(n)) \in 1..n
    BY <1>2, <1>4, OpenerIs
  <2> QED
    BY <1>2, <2>1
<1> HIDE DEF n
<1>7. /\ Position' = n /\ Opened' /\ added' = added /\ value_' = value_
      /\ Behind'
  BY <1>1, <1>2, <1>3, <1>4, <1>5, <1>6, MovedTo
<1>8. Cursor!GoTo(n)
  BY <1>1, <1>7, CursorGoes
<1> QED
  BY <1>1, <1>3, <1>7, <1>8 DEF Cursor!Last, n

(* On a page without records the iterator is not valid, wherever it is.    *)
LEMMA StandsNowhere ==
  IterInv /\ Opened /\ Readable /\ added = << >> => Position = 1
<1> SUFFICES ASSUME IterInv, Opened, Readable, added = << >>
             PROVE  Position = 1
  OBVIOUS
<1>1. ~Valid
  BY HereIs
<1> QED
  BY <1>1, EmptySeq DEF Position, Past

LEMMA CursorLastOfNone ==
  ASSUME CursorInv, Readable, SeekToLastOfNone
  PROVE  (Opened /\ Readable => Behind)' /\ Cursor!Last
<1>1. IterInv' /\ Opened
  BY LastOfNoneKeeps DEF CursorInv, SeekToLastOfNone
<1>2. Laid /\ Len(added) \in Nat
  BY <1>1, CursorBefore
<1>3. added = << >>
  <2>1. ASSUME added # << >> PROVE FALSE
    <3>1. Len(added) \in 1..Len(added)
      BY <1>2, <2>1, EmptySeq
    <3>2. restartPointNum_ \in Nat \ {0}
      BY <1>2, <3>1, OpenerIs
    <3> QED
      BY <3>2 DEF SeekToLastOfNone
  <2> QED
    BY <2>1
<1>4. UNCHANGED << added, page, data_, value_ >>
  BY DEF SeekToLastOfNone, MoveTo, builderVars
<1>5. Opened' /\ Readable'
  BY <1>1, <1>4 DEF Opened, Readable
<1>6. (IterInv /\ Opened /\ Readable /\ added = << >> => Position = 1)'
  BY StandsNowhere, PTL
<1>7. Position' = 1
  BY <1>1, <1>3, <1>4, <1>5, <1>6
<1>8. Behind'
  BY <1>3, <1>4, EmptySeq DEF Behind
<1>9. Cursor!GoTo(1)
  BY <1>1, <1>4, <1>5, <1>7, CursorGoes
<1>10. Cursor!Past = 1
  BY <1>3, EmptySeq DEF Cursor!Past
<1> QED
  BY <1>1, <1>3, <1>8, <1>9, <1>10 DEF Cursor!Last

LEMMA CursorForward ==
  ASSUME CursorInv, Readable, Next
  PROVE  (Opened /\ Readable => Behind)' /\ Cursor!Forward
<1> DEFINE r == curRestartPoint_
<1>1. MoveTo(NextPosition(Here)) /\ Opened /\ Valid
  BY DEF Next
<1>2. /\ Laid /\ Past = Len(added) + 1 /\ Len(added) \in Nat
      /\ added # << >> /\ Position \in 1..Len(added)
      /\ cur_ = Offset(Position) /\ r \in 0..(restartPointNum_ - 1)
      /\ Opener(r) <= Position /\ Cursor!Past = Past
  BY <1>1, CursorBefore
<1>3. PICK j \in 1..Len(added) : j = Position
  BY <1>2
<1>4. NextPosition(Here) = At(Offset(j + 1), r)
  BY <1>2, <1>3, NextMoves DEF Here
<1>5. j + 1 \in 1..Past /\ j # Past /\ Opener(r) <= j + 1
  <2>1. Opener(r) \in 1..Len(added)
    BY <1>2 DEF Laid
  <2> QED
    BY <1>2, <1>3, <2>1
<1> HIDE DEF r
<1>6. /\ Position' = j + 1 /\ Opened' /\ added' = added /\ value_' = value_
      /\ Behind'
  <2>1. PICK p : p = NextPosition(Here)
    OBVIOUS
  <2>2. MoveTo(p) /\ p.cur = Offset(j + 1) /\ p.restart = r
    BY <1>1, <1>4, <2>1 DEF At
  <2> QED
    BY <1>1, <1>2, <1>5, <2>2, MovedTo
<1>7. Cursor!GoTo(j + 1)
  BY <1>1, <1>6, CursorGoes
<1> QED
  BY <1>1, <1>2, <1>3, <1>5, <1>6, <1>7 DEF Cursor!Forward

LEMMA CursorOffTheFront ==
  ASSUME CursorInv, Readable, PrevOffTheFront
  PROVE  (Opened /\ Readable => Behind)' /\ Cursor!Backward
<1>1. MoveTo(PastTheFront) /\ Opened /\ Valid /\ cur_ = 0
  BY DEF PrevOffTheFront
<1>2. /\ Laid /\ Past = Len(added) + 1 /\ Len(added) \in Nat
      /\ added # << >> /\ Position \in 1..Len(added)
      /\ cur_ = Offset(Position) /\ Cursor!Past = Past
  BY <1>1, CursorBefore
<1>3. Position = 1 /\ Position # Past
  <2>1. 1 \in 1..Past /\ Offset(1) = 0
    BY <1>2 DEF Laid
  <2> QED
    BY <1>1, <1>2, <2>1, PositionIs
<1>4. /\ Past \in 1..Past /\ PastTheFront.cur = Offset(Past)
      /\ PastTheFront.restart = restartPointNum_ - 1
  BY <1>2 DEF Laid, PastTheFront, At
<1>5. Opener(restartPointNum_ - 1) <= Past
  <2>1. restartPointNum_ \in Nat \ {0}
    BY <1>2, OpenerIs
  <2>2. restartPointNum_ - 1 \in 0..(restartPointNum_ - 1)
    BY <2>1
  <2>3. Opener(restartPointNum_ - 1) \in 1..Len(added)
    BY <1>2, <2>2 DEF Laid
  <2> QED
    BY <1>2, <2>3
<1>6. /\ Position' = Past /\ Opened' /\ added' = added /\ value_' = value_
      /\ Behind'
  <2>1. PICK p : p = PastTheFront
    OBVIOUS
  <2>2. PICK j : j = Past
    OBVIOUS
  <2> QED
    BY <1>1, <1>2, <1>4, <1>5, <2>1, <2>2, MovedTo
<1>7. Cursor!GoTo(Past)
  <2>1. PICK j : j = Past
    OBVIOUS
  <2> QED
    BY <1>1, <1>6, <2>1, CursorGoes
<1> QED
  BY <1>1, <1>2, <1>3, <1>6, <1>7 DEF Cursor!Backward

LEMMA CursorBackward ==
  ASSUME CursorInv, Readable, Prev
  PROVE  (Opened /\ Readable => Behind)' /\ Cursor!Backward
<1> DEFINE r == curRestartPoint_
<1>1. MoveTo(PrevPosition(Here)) /\ Opened /\ Valid /\ cur_ # 0
  BY DEF Prev
<1>2. /\ Laid /\ Past = Len(added) + 1 /\ Len(added) \in Nat
      /\ added # << >> /\ Position \in 1..Len(added)
      /\ cur_ = Offset(Position) /\ r \in 0..(restartPointNum_ - 1)
      /\ Opener(r) <= Position /\ Cursor!Past = Past
  BY <1>1, CursorBefore
<1>3. PICK j \in 1..Len(added) : j = Position
  BY <1>2
<1>4. j \in 2..Len(added) /\ j # Past
  <2>1. j # 1
    BY <1>1, <1>2, <1>3 DEF Laid
  <2> QED
    BY <1>2, <2>1
<1> DEFINE s == PrevRestart(j, r)
<1>5. /\ s \in 0..(restartPointNum_ - 1)
      /\ PrevPosition(Here)
           = At(Offset(IF Opener(s) < j THEN j - 1 ELSE Opener(s)), s)
  BY <1>2, <1>3, <1>4, PrevIs DEF Here
<1>6. Opener(s) < j
  <2>1. Opener(r) \in 1..Len(added)
    BY <1>2 DEF Laid
  <2>2. Opener(r - 1) = Opener(r) - RestartPointInterval
    BY <1>2, BuilderAssumption DEF Opener
  <2> QED
    BY <1>2, <1>3, <1>4, <2>1, <2>2, BuilderAssumption DEF PrevRestart
<1> HIDE DEF s, r
<1>7. j - 1 \in 1..Past /\ Opener(s) <= j - 1
  <2>1. Opener(s) \in 1..Len(added)
    BY <1>2, <1>5 DEF Laid
  <2> QED
    BY <1>2, <1>4, <1>6, <2>1
<1>8. /\ Position' = j - 1 /\ Opened' /\ added' = added /\ value_' = value_
      /\ Behind'
  <2>1. PICK p : p = PrevPosition(Here)
    OBVIOUS
  <2>2. MoveTo(p) /\ p.cur = Offset(j - 1) /\ p.restart = s
    BY <1>1, <1>5, <1>6, <2>1 DEF At
  <2>3. Opener(p.restart) <= j - 1
    BY <1>7, <2>2
  <2> QED
    BY <1>1, <1>2, <1>7, <2>2, <2>3, MovedTo
<1>9. Cursor!GoTo(j - 1)
  BY <1>1, <1>8, CursorGoes
<1>10. j # 1
  BY <1>4
<1> QED
  BY <1>1, <1>2, <1>3, <1>4, <1>8, <1>9, <1>10 DEF Cursor!Backward

LEMMA CursorReads ==
  ASSUME CursorInv, Readable, ReadValue
  PROVE  (Opened /\ Readable => Behind)' /\ Cursor!ReadValue
<1>1. Opened /\ Valid /\ value_' = ValueAt(data_, cur_)
        /\ UNCHANGED << added, data_, restartPointStart_, cur_,
                        curRestartPoint_ >>
  BY DEF ReadValue, builderVars
<1>2. /\ Laid /\ Past = Len(added) + 1 /\ Len(added) \in Nat
      /\ Position \in 1..Len(added) /\ cur_ = Offset(Position)
      /\ Cursor!Past = Past
  BY <1>1, CursorBefore
<1>3. value_' = added[Position].value /\ Position # Past
  BY <1>1, <1>2 DEF Laid
<1>4. Opened' /\ Position' = Position
  BY <1>1 DEF Opened, Position, Valid, Past, RecordAt
<1>5. Behind'
  <2>1. Behind
    BY <1>1 DEF CursorInv
  <2> QED
    BY <1>1, <2>1 DEF Behind, Offset, Opener
<1> QED
  BY <1>1, <1>2, <1>3, <1>4, <1>5 DEF Cursor!ReadValue

LEMMA CursorStep ==
  ASSUME SeekTargets = {}, CursorInv, Readable, [IteratorNext]_vars
  PROVE  /\ (Opened /\ Readable => Behind)'
         /\ [Cursor!CursorNext]_Cursor!cursorVars
<1>1. CASE UNCHANGED vars
  <2>1. /\ UNCHANGED << added, page, data_, restartPointStart_, cur_,
                        curRestartPoint_, value_ >>
    BY <1>1 DEF vars, builderVars, iterVars
  <2>2. Opened' = Opened /\ Position' = Position
    BY <2>1 DEF Opened, Position, Valid, Past, RecordAt
  <2>3. (Opened /\ Readable => Behind)'
    BY <2>1, <2>2 DEF CursorInv, Readable, Behind, Offset, Opener
  <2> QED
    BY <2>1, <2>2, <2>3 DEF Cursor!cursorVars
<1>2. CASE ~Opened /\ BuilderNext /\ UNCHANGED iterVars
  <2>1. ~Opened' /\ ~Opened /\ Opened' = Opened /\ value_' = value_
    BY <1>2 DEF Opened, iterVars
  <2>2. /\ (IF Opened' THEN added' ELSE << >>)
             = IF Opened THEN added ELSE << >>
        /\ (IF Opened' THEN Position' ELSE 1)
             = IF Opened THEN Position ELSE 1
    BY <2>1
  <2> QED
    BY <2>1, <2>2 DEF Cursor!cursorVars
<1>3. CASE NewIterator
  BY <1>3, CursorOpens DEF Cursor!CursorNext
<1>4. CASE SeekToFirst
  BY <1>4, CursorFirst DEF Cursor!CursorNext
<1>5. CASE SeekToLast
  BY <1>5, CursorLast DEF Cursor!CursorNext
<1>6. CASE SeekToLastOfNone
  BY <1>6, CursorLastOfNone DEF Cursor!CursorNext
<1>7. CASE Next
  BY <1>7, CursorForward DEF Cursor!CursorNext
<1>8. CASE PrevOffTheFront
  BY <1>8, CursorOffTheFront DEF Cursor!CursorNext
<1>9. CASE Prev
  BY <1>9, CursorBackward DEF Cursor!CursorNext
<1>10. CASE ReadValue
  BY <1>10, CursorReads DEF Cursor!CursorNext
<1>11. CASE SeekOwnKey
  BY <1>11 DEF SeekOwnKey
<1> QED
  BY <1>1, <1>2, <1>3, <1>4, <1>5, <1>6, <1>7, <1>8, <1>9, <1>10, <1>11
     DEF IteratorNext

(* On every page that can be read, the calls other than seek() move the    *)
(* iterator as common/iterator.h promises: from record to record, in both  *)
(* directions, and value() copies the value of the record it stands on.    *)
THEOREM IteratorImplementsCursor ==
  ASSUME SeekTargets = {}
  PROVE  Spec /\ []Readable => ImplementsCursor
<1>1. Init => CursorInv /\ Cursor!CursorInit
  BY IterInit DEF CursorInv, Init, Opened, Cursor!CursorInit
<1>2. CursorInv /\ Readable /\ [IteratorNext]_vars
        => CursorInv' /\ [Cursor!CursorNext]_Cursor!cursorVars
  <2> SUFFICES ASSUME CursorInv, Readable, [IteratorNext]_vars
               PROVE  /\ CursorInv'
                      /\ [Cursor!CursorNext]_Cursor!cursorVars
    OBVIOUS
  <2>1. IterInv'
    BY IterNext DEF CursorInv
  <2>2. /\ (Opened /\ Readable => Behind)'
        /\ [Cursor!CursorNext]_Cursor!cursorVars
    BY CursorStep
  <2> QED
    BY <2>1, <2>2 DEF CursorInv
<1> QED
  BY <1>1, <1>2, PTL DEF Spec, ImplementsCursor, Cursor!CursorSpec

-----------------------------------------------------------------------------
(* Keys are ordered by the first byte in which they differ; behind its end *)
(* a key has something that is below every byte.                           *)
Padded(s) == [ i \in Nat \ {0} |-> IF i <= Len(s) THEN s[i] + 1 ELSE 0 ]

DiffersAt(f, g, i) == f[i] < g[i] /\ \A j \in 1..(i - 1) : f[j] = g[j]

LEMMA PaddedIs ==
  ASSUME NEW s \in Seq(Byte), NEW f, f = Padded(s)
  PROVE  /\ Len(s) \in Nat /\ f \in [Nat \ {0} -> Nat]
         /\ \A i \in 1..Len(s) : f[i] = s[i] + 1 /\ s[i] \in Nat /\ f[i] # 0
         /\ \A i \in Nat \ {0} : i \notin 1..Len(s) => f[i] = 0
<1>1. Len(s) \in Nat
  BY LenProperties
<1>2. ASSUME NEW i \in 1..Len(s)
      PROVE  f[i] = s[i] + 1 /\ s[i] \in Nat /\ f[i] # 0
  <2>1. s[i] \in Byte /\ i \in Nat \ {0} /\ i <= Len(s)
    BY <1>1, ElementOfSeq
  <2>2. f[i] = s[i] + 1
    BY <2>1 DEF Padded
  <2>3. s[i] \in 0..255
    BY <2>1 DEF Byte
  <2>4. PICK v \in 0..255 : v = s[i]
    BY <2>3
  <2>5. v \in Nat /\ v + 1 # 0
    OBVIOUS
  <2> QED
    BY <2>2, <2>4, <2>5
<1>3. ASSUME NEW i \in Nat \ {0}, i \notin 1..Len(s) PROVE f[i] = 0
  BY <1>1, <1>3 DEF Padded
<1>4. f \in [Nat \ {0} -> Nat]
  <2>1. ASSUME NEW i \in Nat \ {0} PROVE f[i] \in Nat
    BY <1>1, <1>2, <1>3
  <2>2. f = [ i \in Nat \ {0} |-> f[i] ]
    BY DEF Padded
  <2> QED
    BY <2>1, <2>2
<1> QED
  BY <1>1, <1>2, <1>3, <1>4

LEMMA LessDiffers ==
  ASSUME NEW a \in Seq(Byte), NEW b \in Seq(Byte), SliceLess(a, b),
         NEW f, f = Padded(a), NEW g, g = Padded(b)
  PROVE  \E i \in Nat \ {0} : DiffersAt(f, g, i)
<1>1. /\ Len(a) \in Nat
      /\ \A i \in 1..Len(a) : f[i] = a[i] + 1 /\ a[i] \in Nat /\ f[i] # 0
      /\ \A i \in Nat \ {0} : i \notin 1..Len(a) => f[i] = 0
  BY PaddedIs
<1>2. /\ Len(b) \in Nat
      /\ \A i \in 1..Len(b) : g[i] = b[i] + 1 /\ b[i] \in Nat /\ g[i] # 0
  BY PaddedIs
<1>3. CASE Len(a) < Len(b) /\ a = SubSeq(b, 1, Len(a))
  <2>1. PICK i \in Nat : i = Len(a) + 1
    BY <1>1
  <2>2. i \in 1..Len(b) /\ i \in Nat \ {0} /\ i \notin 1..Len(a)
    BY <1>1, <1>2, <1>3, <2>1
  <2>3. f[i] < g[i]
    <3>1. f[i] = 0 /\ g[i] = b[i] + 1 /\ b[i] \in Nat
      BY <1>1, <1>2, <2>2
    <3> QED
      BY <3>1
  <2>4. ASSUME NEW j \in 1..(i - 1) PROVE f[j] = g[j]
    <3>1. \A k \in 1..Len(a) : b[k] \in Nat
      BY <1>1, <1>2, <1>3
    <3>2. j \in 1..Len(a) /\ j \in 1..Len(b)
      BY <1>1, <1>2, <1>3, <2>1
    <3>3. SubSeq(b, 1, Len(a))[j] = b[j]
      BY <1>1, <3>1, <3>2, SubSeqProperties
    <3> QED
      BY <1>1, <1>2, <1>3, <3>2, <3>3
  <2> QED
    BY <2>2, <2>3, <2>4 DEF DiffersAt
<1>4. ASSUME NEW i \in 1..Min({Len(a), Len(b)}),
             a[i] < b[i], \A j \in 1..(i - 1) : a[j] = b[j]
      PROVE  \E k \in Nat \ {0} : DiffersAt(f, g, k)
  <2>1. /\ Min({Len(a), Len(b)}) \in {Len(a), Len(b)}
        /\ Min({Len(a), Len(b)}) <= Len(a)
        /\ Min({Len(a), Len(b)}) <= Len(b)
    BY <1>1, <1>2, MinOfTwo
  <2>2. i \in 1..Len(a) /\ i \in 1..Len(b) /\ i \in Nat \ {0}
    BY <1>1, <1>2, <2>1
  <2>3. \A j \in 1..(i - 1) : j \in 1..Len(a) /\ j \in 1..Len(b)
    BY <1>1, <1>2, <2>2
  <2>4. f[i] < g[i]
    <3>1. /\ f[i] = a[i] + 1 /\ a[i] \in Nat
          /\ g[i] = b[i] + 1 /\ b[i] \in Nat
      BY <1>1, <1>2, <2>2
    <3> QED
      BY <1>4, <3>1
  <2>5. ASSUME NEW j \in 1..(i - 1) PROVE f[j] = g[j]
    <3>1. j \in 1..Len(a) /\ j \in 1..Len(b) /\ a[j] = b[j]
      BY <1>4, <2>3
    <3> QED
      BY <1>1, <1>2, <3>1
  <2> QED
    BY <2>2, <2>4, <2>5 DEF DiffersAt
<1> QED
  BY <1>3, <1>4 DEF SliceLess

LEMMA DiffersLess ==
  ASSUME NEW a \in Seq(Byte), NEW b \in Seq(Byte),
         NEW f, f = Padded(a), NEW g, g = Padded(b),
         NEW i \in Nat \ {0}, DiffersAt(f, g, i)
  PROVE  SliceLess(a, b)
<1>1. /\ Len(a) \in Nat
      /\ \A k \in 1..Len(a) : f[k] = a[k] + 1 /\ a[k] \in Nat /\ f[k] # 0
      /\ \A k \in Nat \ {0} : k \notin 1..Len(a) => f[k] = 0
      /\ f \in [Nat \ {0} -> Nat]
  BY PaddedIs
<1>2. /\ Len(b) \in Nat
      /\ \A k \in 1..Len(b) : g[k] = b[k] + 1 /\ b[k] \in Nat /\ g[k] # 0
      /\ \A k \in Nat \ {0} : k \notin 1..Len(b) => g[k] = 0
  BY PaddedIs
<1>3. f[i] < g[i] /\ \A j \in 1..(i - 1) : f[j] = g[j]
  BY DEF DiffersAt
<1>4. i \in 1..Len(b)
  <2>1. f[i] \in Nat /\ g[i] # 0
    BY <1>1, <1>3
  <2> QED
    BY <1>2, <2>1
<1>5. CASE i \in 1..Len(a)
  <2>1. i \in 1..Min({Len(a), Len(b)})
    <3>1. Min({Len(a), Len(b)}) \in {Len(a), Len(b)}
      BY <1>1, <1>2, MinOfTwo
    <3> QED
      BY <1>1, <1>2, <1>4, <1>5, <3>1
  <2>2. a[i] < b[i]
    <3>1. /\ f[i] = a[i] + 1 /\ a[i] \in Nat
          /\ g[i] = b[i] + 1 /\ b[i] \in Nat
      BY <1>1, <1>2, <1>4, <1>5
    <3> QED
      BY <1>3, <3>1
  <2>3. ASSUME NEW j \in 1..(i - 1) PROVE a[j] = b[j]
    <3>1. j \in 1..Len(a) /\ j \in 1..Len(b)
      BY <1>1, <1>2, <1>4, <1>5
    <3>2. /\ f[j] = a[j] + 1 /\ a[j] \in Nat
          /\ g[j] = b[j] + 1 /\ b[j] \in Nat
      BY <1>1, <1>2, <3>1
    <3> QED
      BY <1>3, <3>2
  <2> QED
    BY <2>1, <2>2, <2>3 DEF SliceLess
<1>6. CASE i \notin 1..Len(a)
  <2>1. i = Len(a) + 1
    <3> SUFFICES ASSUME i # Len(a) + 1 PROVE FALSE
      OBVIOUS
    <3>1. PICK j \in Nat : j = Len(a) + 1
      BY <1>1
    <3>2. j \in 1..(i - 1) /\ j \in Nat \ {0} /\ j \notin 1..Len(a)
            /\ j \in 1..Len(b)
      BY <1>1, <1>2, <1>4, <1>6, <3>1
    <3>3. f[j] = 0 /\ g[j] # 0
      BY <1>1, <1>2, <3>2
    <3> QED
      BY <1>3, <3>2, <3>3
  <2>2. Len(a) < Len(b)
    BY <1>1, <1>2, <1>4, <2>1
  <2>3. ASSUME NEW j \in 1..Len(a) PROVE a[j] = b[j] /\ b[j] \in Byte
    <3>1. j \in 1..(i - 1) /\ j \in 1..Len(b)
      BY <1>1, <1>2, <2>1, <2>2
    <3>2. /\ f[j] = a[j] + 1 /\ a[j] \in Nat
          /\ g[j] = b[j] + 1 /\ b[j] \in Nat
      BY <1>1, <1>2, <3>1
    <3> QED
      BY <1>3, <3>1, <3>2, ElementOfSeq
  <2> DEFINE c == SubSeq(b, 1, Len(a))
  <2>4. /\ c \in Seq(Byte) /\ Len(c) = Len(a)
        /\ \A j \in 1..Len(a) : c[j] = b[j]
    BY <1>1, <2>3, SubSeqProperties
  <2> HIDE DEF c
  <2>5. a = c
    BY <2>3, <2>4, SeqEqual
  <2> QED
    BY <2>2, <2>5 DEF SliceLess, c
<1> QED
  BY <1>5, <1>6

LEMMA DiffersGoesOn ==
  ASSUME NEW f \in [Nat \ {0} -> Nat], NEW g \in [Nat \ {0} -> Nat],
         NEW h \in [Nat \ {0} -> Nat],
         NEW i \in Nat \ {0}, DiffersAt(g, h, i),
         \A k \in Nat \ {0} : ~DiffersAt(g, f, k)
  PROVE  \E m \in Nat \ {0} : DiffersAt(f, h, m)
<1> DEFINE D == { k \in 1..i : f[k] # g[k] }
<1>1. g[i] < h[i] /\ \A j \in 1..(i - 1) : g[j] = h[j]
  BY DEF DiffersAt
<1>2. CASE D = {}
  <2>1. \A k \in 1..i : f[k] = g[k]
    BY <1>2
  <2>2. f[i] < h[i] /\ \A j \in 1..(i - 1) : f[j] = h[j]
    BY <1>1, <2>1
  <2> QED
    BY <2>2 DEF DiffersAt
<1>3. CASE D # {}
  <2>1. PICK m \in D : \A k \in D : << k, m >> \notin OpToRel(<, Nat)
    <3>1. D \subseteq Nat
      OBVIOUS
    <3> HIDE DEF D
    <3> QED
      BY <1>3, <3>1, NatLessThanWellFounded, WFMin
  <2>2. m \in 1..i /\ m \in Nat \ {0} /\ f[m] # g[m]
    OBVIOUS
  <2>3. ASSUME NEW k \in 1..(m - 1) PROVE f[k] = g[k]
    <3> SUFFICES ASSUME f[k] # g[k] PROVE FALSE
      OBVIOUS
    <3>1. k \in D /\ << k, m >> \in OpToRel(<, Nat)
      BY <2>2 DEF OpToRel
    <3> QED
      BY <2>1, <3>1
  <2>4. f[m] < g[m]
    <3>1. ~(g[m] < f[m])
      BY <2>2, <2>3 DEF DiffersAt
    <3>2. f[m] \in Nat /\ g[m] \in Nat
      BY <2>2
    <3> QED
      BY <2>2, <3>1, <3>2
  <2>5. f[m] < h[m]
    <3>1. m = i \/ m \in 1..(i - 1)
      BY <2>2
    <3>2. f[m] \in Nat /\ g[m] \in Nat /\ h[m] \in Nat
      BY <2>2
    <3> QED
      BY <1>1, <2>4, <3>1, <3>2
  <2>6. \A j \in 1..(m - 1) : f[j] = h[j]
    BY <1>1, <2>2, <2>3
  <2> QED
    BY <2>2, <2>5, <2>6 DEF DiffersAt
<1> QED
  BY <1>2, <1>3

(* What is not above a key that is below another is below that one too.    *)
LEMMA LessGoesOn ==
  ASSUME NEW a \in Seq(Byte), NEW b \in Seq(Byte), NEW c \in Seq(Byte),
         ~SliceLess(b, a), SliceLess(b, c)
  PROVE  SliceLess(a, c)
<1>1. PICK f, g, h : f = Padded(a) /\ g = Padded(b) /\ h = Padded(c)
  OBVIOUS
<1>2. /\ f \in [Nat \ {0} -> Nat] /\ g \in [Nat \ {0} -> Nat]
      /\ h \in [Nat \ {0} -> Nat]
  BY <1>1, PaddedIs
<1>3. PICK i \in Nat \ {0} : DiffersAt(g, h, i)
  BY <1>1, LessDiffers
<1>4. \A k \in Nat \ {0} : ~DiffersAt(g, f, k)
  BY <1>1, DiffersLess
<1>5. PICK m \in Nat \ {0} : DiffersAt(f, h, m)
  BY <1>2, <1>3, <1>4, DiffersGoesOn
<1> QED
  BY <1>1, <1>5, DiffersLess

-----------------------------------------------------------------------------
(* The records of the block of a restart point.                            *)
LEMMA InBlock ==
  ASSUME NEW s \in Nat, NEW i \in Nat,
         Opener(s) <= i, i < Opener(s) + RestartPointInterval
  PROVE  RestartOf(i) = s
<1> DEFINE d == RestartPointInterval
           c == s * d
<1>1. d \in Nat \ {0} /\ c \in Nat
  BY BuilderAssumption
<1>2. Opener(s) = c + 1
  BY DEF Opener
<1>3. PICK m \in Nat : m = i - (c + 1) /\ m < d
  BY <1>1, <1>2
<1>4. i - 1 = c + m
  BY <1>1, <1>3
<1>5. (c + m) \div d = s
  BY <1>1, <1>3, DivUnique
<1> QED
  BY <1>4, <1>5 DEF RestartOf

LEMMA Openers ==
  ASSUME Laid, added # << >>, NEW s \in 0..(restartPointNum_ - 1)
  PROVE  /\ FirstOf(Opener(s)) = Opener(s) /\ RestartOf(Opener(s)) = s
         /\ Opener(s) \in 1..Len(added)
         /\ Opener(s + 1) = Opener(s) + RestartPointInterval
         /\ s = restartPointNum_ - 1 =>
              Len(added) < Opener(s) + RestartPointInterval
<1> DEFINE d == RestartPointInterval
           n == Len(added)
<1>1. d \in Nat \ {0} /\ s \in Nat /\ n \in Nat \ {0}
        /\ Opener(s) \in 1..n
  BY EmptySeq, BuilderAssumption DEF Laid
<1>2. RestartOf(Opener(s)) = s
  BY <1>1, InBlock
<1>3. FirstOf(Opener(s)) = Opener(s)
  BY <1>2 DEF FirstOf, Opener
<1>4. Opener(s + 1) = Opener(s) + d
  BY <1>1 DEF Opener
<1>5. ASSUME s = restartPointNum_ - 1 PROVE n < Opener(s) + d
  <2>1. s = (n - 1) \div d
    <3>1. RestartOf(n) \in Nat /\ restartPointNum_ = RestartOf(n) + 1
      BY <1>1, BlockOf DEF Laid
    <3>2. RestartOf(n) = s
      BY <1>5, <3>1
    <3> QED
      BY <3>2 DEF RestartOf
  <2>2. /\ (n - 1) % d \in 0..(d - 1) /\ n - 1 = s * d + ((n - 1) % d)
    <3>1. n - 1 \in Nat
      BY <1>1
    <3> QED
      BY <1>1, <2>1, <3>1, DivMod
  <2> DEFINE c == s * d
  <2>3. c \in Nat /\ Opener(s) = c + 1
    BY <1>1 DEF Opener
  <2> HIDE DEF c
  <2>4. n - 1 = c + ((n - 1) % d)
    BY <2>2 DEF c
  <2> QED
    BY <1>1, <2>2, <2>3, <2>4
<1> QED
  BY <1>1, <1>2, <1>3, <1>4, <1>5

(* The key of a record with its own restart point ...                      *)
LEMMA OwnKeyRead ==
  ASSUME IterInv, Opened, Readable, stable, NEW j \in 1..Len(added)
  PROVE  /\ Offset(j) = added[j].at
         /\ KeyAt(data_, Offset(j), RestartOf(j)) = added[j].key
<1>1. Laid /\ WholePage /\ data_ = PageData(page) /\ KeysReadBack
  BY HereIs, KeysRead DEF IterInv, PageOpen
<1> QED
  BY <1>1 DEF Laid, KeysReadBack

(* ... and that of the first record of a block with any, since it shares   *)
(* nothing.                                                                *)
LEMMA OpenerKeyRead ==
  ASSUME IterInv, Opened, Readable, added # << >>,
         NEW s \in 0..(restartPointNum_ - 1),
         NEW r \in 0..(restartPointNum_ - 1)
  PROVE  /\ KeyAt(data_, Offset(Opener(s)), r) = added[Opener(s)].key
         /\ RestartPointKey(data_, s) = added[Opener(s)].key
<1> DEFINE j == Opener(s)
           key == added[j].key
           h == EntryHeader(data_, added[j].at)
           b == RestartPointHeader(data_, r).body
<1>1. /\ Laid /\ j \in 1..Len(added) /\ FirstOf(j) = j
      /\ Opener(r) \in 1..Len(added) /\ FirstOf(Opener(r)) = Opener(r)
  BY HereIs, Openers
<1>2. PICK body : Filled(data_, body)
  BY PageFilled DEF IterInv, PageOpen
<1>3. RecordRead(data_, body, j, 0) /\ RecordRead(data_, body, Opener(r), 0)
  BY <1>1, <1>2, RecordsRead DEF IterInv
<1>4. /\ Offset(j) = added[j].at /\ RestartPointEntry(data_, s) = added[j].at
      /\ RestartPointEntry(data_, r) = added[Opener(r)].at
  BY <1>1 DEF Laid
<1>5. key \in Seq(Byte) /\ Len(key) \in Nat
  BY <1>1, RecordTypes DEF IterInv, WalkInv
<1>6. h.prefix = 0 /\ SuffixOf(data_, h) = key
  <2>1. SubSeq(key, 0 + 1, Len(key)) = key
    BY <1>5
  <2> QED
    BY <1>3, <2>1 DEF RecordRead, EntryRead
<1>7. b \in Nat
  BY <1>3, <1>4 DEF RecordRead, EntryRead, RestartPointHeader
<1>8. RestartPointKey(data_, s) = key
  BY <1>4, <1>6 DEF RestartPointKey, RestartPointHeader
<1>9. KeyAt(data_, Offset(j), r)
        = Bytes(data_, b, h.prefix) \o SuffixOf(data_, h)
  BY <1>4 DEF KeyAt, KeyOf
<1> HIDE DEF h, b, key
<1>10. Bytes(data_, b, h.prefix) = << >>
  BY <1>6, <1>7 DEF Bytes
<1>11. << >> \o key = key
  BY <1>5, ConcatEmptySeq
<1> QED
  BY <1>6, <1>8, <1>9, <1>10, <1>11 DEF key

LEMMA LowerBoundIs ==
  ASSUME Len(added) \in Nat, NEW target, NEW k \in 1..Past,
         \A i \in 1..(k - 1) : SliceLess(added[i].key, target),
         k # Past => ~SliceLess(added[k].key, target)
  PROVE  LowerBound(target) = k
<1> DEFINE S == { j \in 1..Len(added) : ~SliceLess(added[j].key, target) }
                  \cup {Past}
<1>1. Past = Len(added) + 1
  BY DEF Past
<1>2. k \in S
  BY <1>1
<1>3. \A j \in S : j \in Nat /\ k <= j
  <2>1. ASSUME NEW j \in S, j < k PROVE FALSE
    <3>1. j \in 1..(k - 1) /\ j # Past
      BY <1>1, <2>1
    <3> QED
      BY <3>1
  <2>2. S \subseteq Nat
    BY <1>1
  <2> QED
    BY <1>1, <2>1, <2>2
<1>4. LowerBound(target) = Min(S)
  BY DEF LowerBound
<1> HIDE DEF S
<1>5. \A x \in S : (\A y \in S : x <= y) <=> x = k
  BY <1>2, <1>3
<1>6. Min(S) = k
  BY <1>2, <1>5 DEF Min
<1> QED
  BY <1>4, <1>6

-----------------------------------------------------------------------------
(* seek() scans from a restart point whose key is below the target, and    *)
(* that of the next one, if there is one, is not.                          *)
LEMMA ScannedBounds ==
  ASSUME NEW target, restartPointNum_ \in Nat \ {0},
         SearchedRestartPoint(target) # 0,
         NEW s, s = ScannedRestartPoint(target)
  PROVE  /\ s \in 0..(restartPointNum_ - 1)
         /\ SliceLess(RestartPointKey(data_, s), target)
         /\ s # restartPointNum_ - 1 =>
              /\ s + 1 \in 0..(restartPointNum_ - 1)
              /\ ~SliceLess(RestartPointKey(data_, s + 1), target)
<1>1. PICK left : left = SearchedRestartPoint(target)
  OBVIOUS
<1>2. Found(left, target)
  BY <1>1, SearchFinds
<1>3. left \in 1..(restartPointNum_ - 1)
  BY <1>1, <1>2 DEF Found
<1>4. CASE /\ left = restartPointNum_ - 1
           /\ SliceLess(RestartPointKey(data_, left), target)
  <2>1. s = left
    BY <1>1, <1>4 DEF ScannedRestartPoint
  <2> QED
    BY <1>3, <1>4, <2>1
<1>5. CASE ~(/\ left = restartPointNum_ - 1
             /\ SliceLess(RestartPointKey(data_, left), target))
  <2>1. s = left - 1
    BY <1>1, <1>5 DEF ScannedRestartPoint
  <2>2. s \in 0..(restartPointNum_ - 1) /\ s + 1 = left
    BY <1>3, <2>1
  <2>3. SliceLess(RestartPointKey(data_, s), target)
    BY <1>2, <1>3, <2>1 DEF Found
  <2>4. ~SliceLess(RestartPointKey(data_, left), target)
    BY <1>2, <1>5 DEF Found
  <2> QED
    BY <1>3, <2>2, <2>3, <2>4
<1> QED
  BY <1>4, <1>5

(* A scan that completes the keys with the restart point it started from   *)
(* ends at the first record whose key is not below the target.             *)
LEMMA ScanFinds ==
  ASSUME IterInv, Opened, Readable, stable, SortedRecords, added # << >>,
         NEW target \in Seq(Byte), NEW s \in 0..(restartPointNum_ - 1),
         SliceLess(RestartPointKey(data_, s), target),
         s # restartPointNum_ - 1 =>
           /\ s + 1 \in 0..(restartPointNum_ - 1)
           /\ ~SliceLess(RestartPointKey(data_, s + 1), target),
         NEW k, Lands(Below(target), s, Opener(s), k)
  PROVE  k \in 1..Past /\ LowerBound(target) = k
<1> DEFINE d == RestartPointInterval
           f == Opener(s)
<1>1. /\ Laid /\ Len(added) \in Nat /\ Past = Len(added) + 1
      /\ d \in Nat \ {0} /\ s \in Nat
  BY HereIs, BuilderAssumption DEF Laid, Past
<1>2. /\ RestartOf(f) = s /\ f \in 1..Len(added)
      /\ s = restartPointNum_ - 1 => Len(added) < f + d
      /\ Opener(s + 1) = f + d
  BY <1>1, Openers
<1>3. /\ k \in f..Past
      /\ \A i \in f..(k - 1) : At(Offset(i), s) \in Below(target)
      /\ k # Past => At(Offset(k), s) \notin Below(target)
  BY DEF Lands
<1>4. \A i \in 1..Len(added) :
        At(Offset(i), s) \in Below(target)
          <=> SliceLess(KeyAt(data_, Offset(i), s), target)
  <2> TAKE i \in 1..Len(added)
  <2>1. At(Offset(i), s) \in Positions
    BY <1>1 DEF Laid, At, Positions
  <2> QED
    BY <2>1 DEF Below, At
<1>5. added[f].key = RestartPointKey(data_, s)
  BY OpenerKeyRead
<1>6. ASSUME s # restartPointNum_ - 1
      PROVE  /\ f + d \in 1..Len(added)
             /\ KeyAt(data_, Offset(f + d), s) = added[f + d].key
             /\ ~SliceLess(added[f + d].key, target)
  <2>1. PICK t \in 0..(restartPointNum_ - 1) : t = s + 1
    BY <1>6
  <2>2. /\ KeyAt(data_, Offset(Opener(t)), s) = added[Opener(t)].key
        /\ RestartPointKey(data_, t) = added[Opener(t)].key
    BY OpenerKeyRead
  <2>3. Opener(t) = f + d /\ Opener(t) \in 1..Len(added)
    BY <1>1, <1>2, <2>1 DEF Laid
  <2> QED
    BY <1>6, <2>1, <2>2, <2>3
<1> HIDE DEF f
<1>7. ASSUME NEW i \in f..Len(added), i < f + d
      PROVE  /\ KeyAt(data_, Offset(i), s) = added[i].key
             /\ i \in 1..Len(added)
  <2>1. i \in 1..Len(added) /\ i \in Nat
    BY <1>1, <1>2
  <2>2. RestartOf(i) = s
    BY <1>1, <1>7, <2>1, InBlock DEF f
  <2> QED
    BY <2>1, <2>2, OwnKeyRead
<1>8. k <= f + d
  <2>1. CASE s = restartPointNum_ - 1
    BY <1>1, <1>2, <1>3, <2>1
  <2>2. CASE s # restartPointNum_ - 1
    <3> SUFFICES ASSUME ~(k <= f + d) PROVE FALSE
      OBVIOUS
    <3>1. f + d \in f..(k - 1)
      BY <1>1, <1>2, <1>3
    <3> QED
      BY <1>3, <1>4, <1>6, <2>2, <3>1
  <2> QED
    BY <2>1, <2>2
<1>9. ASSUME NEW i \in 1..(k - 1) PROVE SliceLess(added[i].key, target)
  <2>1. i \in 1..Len(added)
    BY <1>1, <1>2, <1>3
  <2>2. CASE i < f
    <3>1. ~SliceLess(added[f].key, added[i].key)
      BY <1>2, <2>1, <2>2 DEF SortedRecords
    <3>2. SliceLess(added[f].key, target)
      BY <1>5
    <3>3. added[i].key \in Seq(Byte) /\ added[f].key \in Seq(Byte)
      BY <1>2, <2>1, RecordTypes DEF IterInv, WalkInv
    <3> QED
      BY <3>1, <3>2, <3>3, LessGoesOn
  <2>3. CASE ~(i < f)
    <3>1. i \in f..(k - 1) /\ i \in f..Len(added) /\ i < f + d
      BY <1>1, <1>2, <1>3, <1>8, <2>1, <2>3
    <3> QED
      BY <1>3, <1>4, <1>7, <3>1
  <2> QED
    BY <2>2, <2>3
<1>10. ASSUME k # Past PROVE ~SliceLess(added[k].key, target)
  <2>1. k \in 1..Len(added) /\ k \in f..Len(added)
    BY <1>1, <1>2, <1>3, <1>10
  <2>2. CASE k < f + d
    BY <1>3, <1>4, <1>7, <1>10, <2>1, <2>2
  <2>3. CASE ~(k < f + d)
    <3>1. k = f + d /\ s # restartPointNum_ - 1
      BY <1>1, <1>2, <1>3, <1>8, <2>1, <2>3
    <3> QED
      BY <1>6, <3>1
  <2> QED
    BY <2>2, <2>3
<1>11. k \in 1..Past
  BY <1>1, <1>2, <1>3
<1> QED
  BY <1>1, <1>9, <1>10, <1>11, LowerBoundIs

LEMMA SeekFinds ==
  ASSUME IterInv, Opened, Readable, stable, SortedRecords,
         restartPointNum_ > 1, NEW target \in Seq(Byte),
         \/ SearchedRestartPoint(target) = 0
         \/ curRestartPoint_ = ScannedRestartPoint(target)
  PROVE  \E k \in 1..Past :
           /\ LowerBound(target) = k
           /\ SeekPosition(target, curRestartPoint_).cur = Offset(k)
<1>1. Laid /\ Len(added) \in Nat /\ Past = Len(added) + 1 /\ added # << >>
  <2>1. Laid
    BY HereIs
  <2>2. added # << >>
    BY <2>1 DEF Laid
  <2> QED
    BY <2>1, <2>2 DEF Laid, Past
<1>2. restartPointNum_ \in Nat \ {0}
  <2>1. 1 \in 1..Len(added)
    BY <1>1, EmptySeq
  <2> QED
    BY <1>1, <2>1, OpenerIs
<1>3. CASE SearchedRestartPoint(target) = 0
  <2>1. SeekPosition(target, curRestartPoint_).cur = 0
    BY <1>3 DEF SeekPosition, At
  <2>2. 0 \in 0..(restartPointNum_ - 1) /\ 0 # restartPointNum_ - 1
    BY <1>2
  <2>3. ~SliceLess(RestartPointKey(data_, 0), target)
    BY <1>2, <1>3, <2>2, SearchFinds DEF Found
  <2>4. Opener(0) = 1
    BY BuilderAssumption DEF Opener
  <2>5. RestartPointKey(data_, 0) = added[1].key
    BY <1>1, <2>2, <2>4, OpenerKeyRead
  <2>6. 1 \in 1..Past /\ 1..(1 - 1) = {} /\ Offset(1) = 0
    BY <1>1 DEF Laid
  <2>7. LowerBound(target) = 1
    BY <1>1, <2>3, <2>5, <2>6, LowerBoundIs
  <2> QED
    BY <2>1, <2>6, <2>7
<1>4. CASE SearchedRestartPoint(target) # 0
  <2>1. PICK s : s = ScannedRestartPoint(target)
    OBVIOUS
  <2>2. /\ s \in 0..(restartPointNum_ - 1)
        /\ SliceLess(RestartPointKey(data_, s), target)
        /\ s # restartPointNum_ - 1 =>
             /\ s + 1 \in 0..(restartPointNum_ - 1)
             /\ ~SliceLess(RestartPointKey(data_, s + 1), target)
    BY <1>2, <1>4, <2>1, ScannedBounds
  <2>3. PICK k : /\ Lands(Below(target), s, Opener(s), k)
                 /\ ScannedFor(target, s, s) = At(Offset(k), s)
    BY <1>1, <2>2, SeekScans
  <2>4. SeekPosition(target, curRestartPoint_) = At(Offset(k), s)
    BY <1>4, <2>1, <2>3 DEF SeekPosition, ScannedFor
  <2>5. k \in 1..Past /\ LowerBound(target) = k
    BY <1>1, <2>2, <2>3, ScanFinds
  <2> QED
    BY <2>4, <2>5 DEF At
<1> QED
  BY <1>3, <1>4

(* seek() finds the first record whose key is not below the target, on     *)
(* sorted records with two restart points or more, when curRestartPoint_   *)
(* is already the restart point from whose entry it scans.                 *)
THEOREM IteratorSeek ==
  Spec => [](Readable /\ stable => SeekFindsLowerBound)
<1>1. ASSUME IterInv, Readable, stable PROVE SeekFindsLowerBound
  <2> SUFFICES ASSUME Opened, SortedRecords, restartPointNum_ > 1,
                      NEW target \in SeekTargets,
                      \/ SearchedRestartPoint(target) = 0
                      \/ curRestartPoint_ = ScannedRestartPoint(target)
               PROVE  LET cur == SeekPosition(target, curRestartPoint_).cur
                      IN  IF LowerBound(target) = Past
                          THEN cur = restartPointStart_
                          ELSE cur = added[LowerBound(target)].at
    BY DEF SeekFindsLowerBound
  <2>1. target \in Seq(Byte)
    BY IteratorAssumption
  <2>2. PICK k \in 1..Past :
          /\ LowerBound(target) = k
          /\ SeekPosition(target, curRestartPoint_).cur = Offset(k)
    BY <1>1, <2>1, SeekFinds
  <2>3. Laid /\ Len(added) \in Nat /\ Past = Len(added) + 1
    BY <1>1, HereIs DEF Laid, Past
  <2>4. /\ k = Past => Offset(k) = restartPointStart_
        /\ k # Past => Offset(k) = added[k].at
    BY <2>3 DEF Laid
  <2> QED
    BY <2>2, <2>4
<1>2. IterInv => (Readable /\ stable => SeekFindsLowerBound)
  BY <1>1
<1> QED
  BY <1>2, IterAlways, PTL
=============================================================================
