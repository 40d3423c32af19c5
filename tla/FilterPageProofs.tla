-------------------------- MODULE FilterPageProofs --------------------------
(***************************************************************************)
(* Proofs about the filter page: it is written without the assertion of    *)
(* StartBlock failing, and, while it is less than 4 GB long, the reader    *)
(* gives for every range what the policy says of the keys of that range.   *)
(* The Bloom filter is such a policy as the page needs.                    *)
(***************************************************************************)
EXTENDS FilterPage, Bloom, PageProofs

(* The assumption about the policies: each of them keeps its contract.     *)
PoliciesContract == \A policy \in Policies : KeepsContract(policy)

(* All offsets into the buffer fit into a fixed32.                         *)
Fits(buffer) == IsUint32(Len(buffer))

(* The offset of every filter, and at last the one where they end.         *)
Ends(offsets, buffer) == Append(offsets, Len(buffer))

(* The i-th filter, from 1, of a buffer and the offsets into it.           *)
Stored(offsets, buffer, i) ==
  Bytes(buffer, Ends(offsets, buffer)[i],
        Ends(offsets, buffer)[i + 1] - Ends(offsets, buffer)[i])

(* The body of the page of a buffer and the offsets into it.               *)
Contents(offsets, buffer) ==
  Append(buffer \o Fixed32Array(Ends(offsets, buffer)), FilterBaseLg)

-----------------------------------------------------------------------------
LEMMA ElementType ==
  ASSUME NEW S, NEW s \in Seq(S), NEW i \in 1..Len(s)
  PROVE  s[i] \in S
OBVIOUS

LEMMA AppendOfConcat ==
  ASSUME NEW s \in Seq(Byte), NEW t \in Seq(Byte), NEW x \in Byte
  PROVE  Append(s \o t, x) = s \o Append(t, x)
<1>1. /\ s \o t \in Seq(Byte)
      /\ Append(s \o t, x) = (s \o t) \o << x >>
      /\ Append(t, x) = t \o << x >>
  BY ConcatProperties, AppendIsConcat
<1>2. << x >> \in Seq(Byte)
  OBVIOUS
<1>3. (s \o t) \o << x >> = s \o (t \o << x >>)
  BY <1>2, ConcatAssociative
<1> QED
  BY <1>1, <1>3

-----------------------------------------------------------------------------
(* The offsets of the filters and the end of the last one, in the buffer.  *)
LEMMA EndsType ==
  ASSUME NEW buffer \in Seq(Byte), NEW offsets \in Seq(0..Len(buffer))
  PROVE  /\ Ends(offsets, buffer) \in Seq(0..Len(buffer))
         /\ Ends(offsets, buffer) \in Seq(Nat)
         /\ Len(Ends(offsets, buffer)) = Len(offsets) + 1
         /\ \A i \in 1..Len(offsets) :
              Ends(offsets, buffer)[i] = offsets[i]
         /\ Ends(offsets, buffer)[Len(offsets) + 1] = Len(buffer)
         /\ Len(offsets) \in Nat /\ Len(buffer) \in Nat
<1>1. Len(buffer) \in Nat /\ Len(offsets) \in Nat
  BY LenProperties
<1>2. Len(buffer) \in 0..Len(buffer)
  BY <1>1
<1>3. Ends(offsets, buffer) \in Seq(0..Len(buffer))
        /\ Len(Ends(offsets, buffer)) = Len(offsets) + 1
        /\ (\A i \in 1..Len(offsets) :
              Ends(offsets, buffer)[i] = offsets[i])
        /\ Ends(offsets, buffer)[Len(offsets) + 1] = Len(buffer)
  BY <1>2, AppendProperties DEF Ends
<1>4. Ends(offsets, buffer) \in Seq(Nat)
  BY <1>3
<1> QED
  BY <1>1, <1>3, <1>4

(* What the reader finds in the page of a buffer of less than 4 GB: the    *)
(* start of the array, the number of filters, each offset, and the base.   *)
LEMMA ContentsReadBack ==
  ASSUME FilterAssumption,
         NEW buffer \in Seq(Byte), NEW offsets \in Seq(0..Len(buffer)),
         Fits(buffer)
  PROVE  LET contents == Contents(offsets, buffer)
         IN  /\ contents \in Seq(Byte)
             /\ LastWord(contents) = Len(buffer)
             /\ NumFilters(contents) = Len(offsets)
             /\ contents[Len(contents)] = FilterBaseLg
             /\ \A i \in 0..Len(offsets) :
                  Fixed32At(contents, Len(buffer), i)
                    = Ends(offsets, buffer)[i + 1]
<1> DEFINE ends     == Ends(offsets, buffer)
           array    == Fixed32Array(ends)
           contents == Contents(offsets, buffer)
           n        == Len(offsets)
           m        == Len(buffer)
<1>1. /\ ends \in Seq(Nat) /\ Len(ends) = n + 1
      /\ ends[n + 1] = m
      /\ n \in Nat /\ m \in Nat
  BY EndsType
<1>2. ends \in Seq(0..m)
  BY EndsType
<1>3. array \in Seq(Byte) /\ Len(array) = 4 * (n + 1)
  BY <1>1, Fixed32ArrayType DEF U32Size
<1>4. FilterBaseLg \in Byte
  BY DEF FilterAssumption
<1>5. contents = Append(buffer \o array, FilterBaseLg)
  BY DEF Contents
<1>6. buffer \o array \in Seq(Byte) /\ Len(buffer \o array) = m + 4 * (n + 1)
  BY <1>3, ConcatBytes
<1> HIDE DEF ends, array, contents, n, m
<1>7. /\ contents \in Seq(Byte)
      /\ Len(contents) = m + 4 * (n + 1) + 1
      /\ contents[m + 4 * (n + 1) + 1] = FilterBaseLg
  <2>1. /\ contents \in Seq(Byte)
        /\ Len(contents) = Len(buffer \o array) + 1
        /\ contents[Len(buffer \o array) + 1] = FilterBaseLg
    BY <1>4, <1>5, <1>6, AppendProperties
  <2> QED
    BY <1>6, <2>1
<1>8. Stands(array, contents, m)
  <2>1. Stands(array, buffer \o array, m)
    BY <1>3, StandsAtEnd DEF m
  <2>2. /\ contents = (buffer \o array) \o << FilterBaseLg >>
        /\ << FilterBaseLg >> \in Seq(Byte)
    BY <1>4, <1>5, <1>6, AppendIsConcat
  <2>3. m + Len(array) <= Len(buffer \o array)
    BY <1>1, <1>3, <1>6
  <2> QED
    BY <1>1, <1>3, <1>6, <2>1, <2>2, <2>3, StandsLonger
<1>9. ASSUME NEW i \in 0..n PROVE Fixed32At(contents, m, i) = ends[i + 1]
  <2>1. i + 1 \in 1..Len(ends) /\ i \in 0..(Len(ends) - 1) /\ i \in Nat
    <3>1. i \in Nat /\ i <= n
      BY <1>1
    <3>2. i + 1 \in 1..(n + 1) /\ i \in 0..((n + 1) - 1)
      BY <1>1, <3>1
    <3> QED
      BY <1>1, <3>1, <3>2
  <2>2. ends[i + 1] \in 0..m
    BY <1>2, <2>1, ElementOfSeq
  <2>3. IsUint32(ends[i + 1])
    BY <1>1, <2>2 DEF m, Fits, IsUint32, Pow128
  <2> QED
    BY <1>1, <1>8, <2>1, <2>3, ArrayReadsBack DEF array
<1>10. LastWord(contents) = m
  <2>1. LastWord(contents) = Fixed32At(contents, m, n)
    <3>1. Len(contents) - 5 = m + 4 * n
      BY <1>1, <1>7
    <3> QED
      BY <3>1 DEF LastWord, Fixed32At, U32Size
  <2> QED
    BY <1>1, <1>9, <2>1
<1>11. NumFilters(contents) = n
  <2>1. ~(Len(contents) < 5) /\ ~(m > Len(contents) - 5)
          /\ Len(contents) - 5 - m = 4 * n
    BY <1>1, <1>7
  <2>2. (4 * n) \div 4 = n
    BY <1>1
  <2> QED
    BY <1>10, <2>1, <2>2 DEF NumFilters, U32Size
<1> QED
  BY <1>7, <1>9, <1>10, <1>11 DEF contents, ends, n, m

(* What the reader answers, for the filters in the buffer of its page.     *)
LEMMA ReaderAnswers ==
  ASSUME FilterAssumption,
         NEW buffer \in Seq(Byte), NEW offsets \in Seq(0..Len(buffer)),
         Fits(buffer),
         \A i \in 1..Len(offsets) :
           Ends(offsets, buffer)[i] <= Ends(offsets, buffer)[i + 1],
         NEW offset \in Nat, NEW key,
         RangeOf(offset) \in Nat
  PROVE  KeyMayMatch(Contents(offsets, buffer), offset, key) <=>
           (RangeOf(offset) < Len(offsets) =>
              PolicyKeyMayMatch(key,
                Stored(offsets, buffer, RangeOf(offset) + 1)))
<1> DEFINE ends     == Ends(offsets, buffer)
           contents == Contents(offsets, buffer)
           n        == Len(offsets)
           m        == Len(buffer)
           index    == RangeOf(offset)
<1>1. /\ LastWord(contents) = m
      /\ NumFilters(contents) = n
      /\ contents[Len(contents)] = FilterBaseLg
      /\ \A i \in 0..n : Fixed32At(contents, m, i) = ends[i + 1]
  BY ContentsReadBack
<1>2. offset \div (2 ^ FilterBaseLg) = index
  BY DEF FilterAssumption, RangeOf
<1>3. /\ ends \in Seq(0..m) /\ Len(ends) = n + 1
      /\ n \in Nat /\ m \in Nat
  BY EndsType
<1>4. ASSUME index < n
      PROVE  /\ Fixed32At(contents, m, index) = ends[index + 1]
             /\ Fixed32At(contents, m, index + 1) = ends[index + 2]
             /\ ends[index + 1] \in 0..m /\ ends[index + 2] \in 0..m
             /\ ends[index + 1] <= ends[index + 2]
             /\ Bytes(contents, ends[index + 1],
                      ends[index + 2] - ends[index + 1])
                  = Stored(offsets, buffer, index + 1)
  <2>1. index \in 0..n /\ index + 1 \in 0..n /\ index + 1 \in 1..n
          /\ (index + 1) + 1 = index + 2
          /\ index + 1 \in 1..(n + 1) /\ index + 2 \in 1..(n + 1)
    <3> HIDE DEF index, n
    <3>1. index \in Nat /\ index < n /\ n \in Nat
      BY <1>3, <1>4 DEF index
    <3> QED
      BY <3>1
  <2>2. ends[index + 1] \in 0..m /\ ends[index + 2] \in 0..m
    <3> HIDE DEF index, n, m, ends
    <3>1. ASSUME NEW i \in 1..(n + 1) PROVE ends[i] \in 0..m
      BY <1>3, ElementType
    <3> QED
      BY <2>1, <3>1
  <2>3. ends[index + 1] <= ends[index + 2]
    BY <2>1
  <2>4. contents = buffer \o Append(Fixed32Array(ends), FilterBaseLg)
    <3>1. Fixed32Array(ends) \in Seq(Byte)
      BY EndsType, Fixed32ArrayType
    <3>2. FilterBaseLg \in Byte
      BY DEF FilterAssumption
    <3>3. buffer \in Seq(Byte)
      OBVIOUS
    <3>4. Append(buffer \o Fixed32Array(ends), FilterBaseLg)
            = buffer \o Append(Fixed32Array(ends), FilterBaseLg)
      <4> DEFINE array == Fixed32Array(ends)
      <4>1. array \in Seq(Byte)
        BY <3>1
      <4> HIDE DEF array
      <4>2. Append(buffer \o array, FilterBaseLg)
              = buffer \o Append(array, FilterBaseLg)
        BY <3>2, <3>3, <4>1, AppendOfConcat
      <4> QED
        BY <4>2 DEF array
    <3> QED
      BY <3>4 DEF Contents, ends
  <2>5. Append(Fixed32Array(ends), FilterBaseLg) \in Seq(Byte)
    BY EndsType, Fixed32ArrayType, AppendProperties DEF FilterAssumption
  <2>6. Bytes(contents, ends[index + 1], ends[index + 2] - ends[index + 1])
          = Bytes(buffer, ends[index + 1], ends[index + 2] - ends[index + 1])
    <3>1. ends[index + 1] \in Nat
      BY <2>2
    <3> HIDE DEF ends, contents, index
    <3> QED
      BY <2>2, <2>4, <2>5, <3>1, BytesOfPrefix DEF m
  <2>7. Stored(offsets, buffer, index + 1)
          = Bytes(buffer, ends[index + 1], ends[index + 2] - ends[index + 1])
    BY <2>1 DEF Stored
  <2> QED
    BY <1>1, <2>1, <2>2, <2>3, <2>6, <2>7
<1> HIDE DEF ends, contents, n, m, index
<1>5. CASE index < n
  BY SMTT(30), <1>1, <1>2, <1>4, <1>5 DEF KeyMayMatch, contents, index, n
<1>6. CASE ~(index < n)
  BY <1>1, <1>2, <1>6 DEF KeyMayMatch, contents, index, n
<1> QED
  BY <1>5, <1>6

-----------------------------------------------------------------------------
(* The keys of the current filter belong to the range after those that     *)
(* have a filter, which is the one of the current block.                   *)
Standing ==
  /\ block = NoBlock => filter_offsets_ = << >> /\ start_ = << >>
  /\ page = << >> /\ block # NoBlock =>
       Len(filter_offsets_) = RangeOf(block)
  /\ page # << >> => start_ = << >>

Pending ==
  \A range \in Ranges :
    /\ Len(rangeKeys[range]) <= MaxKeys
    /\ range = Len(filter_offsets_) => rangeKeys[range] = TmpKeys
    /\ range > Len(filter_offsets_) => rangeKeys[range] = << >>

(* The filters that were made are those of the keys of their ranges.       *)
Made ==
  \A i \in 1..Len(filter_offsets_) :
    /\ Ends(filter_offsets_, buffer_)[i]
         <= Ends(filter_offsets_, buffer_)[i + 1]
    /\ i - 1 \in Ranges =>
         Stored(filter_offsets_, buffer_, i)
           = FilterOf(policy_, rangeKeys[i - 1])

Written ==
  page # << >> =>
    page = Sealed(Contents(filter_offsets_, buffer_), FilterPageType)

FilterInv == TypeOK /\ Standing /\ Pending /\ Made /\ Written

-----------------------------------------------------------------------------
LEMMA DivMonotone ==
  ASSUME NEW a \in Nat, NEW b \in Nat, NEW d \in Nat \ {0}, a <= b
  PROVE  a \div d \in Nat /\ a \div d <= b \div d
OBVIOUS

(* The ranges are numbered, in the order of the offsets.                   *)
LEMMA RangeType ==
  ASSUME FilterAssumption
  PROVE  /\ \A offset \in Offsets :
              /\ offset \in Nat /\ RangeOf(offset) \in Nat
              /\ RangeOf(offset) \in Ranges
              /\ FilterIndex(offset) = RangeOf(offset)
         /\ \A a, b \in Offsets : a <= b => RangeOf(a) <= RangeOf(b)
         /\ Ranges \subseteq Nat
<1>1. Offsets \subseteq Nat /\ FilterBase \in Nat \ {0}
  BY DEF FilterAssumption
<1>2. \A offset \in Offsets :
        /\ offset \in Nat /\ RangeOf(offset) \in Nat
        /\ RangeOf(offset) \in Ranges
        /\ FilterIndex(offset) = RangeOf(offset)
  BY <1>1, DivMonotone DEF RangeOf, Ranges, FilterIndex
<1>3. \A a, b \in Offsets : a <= b => RangeOf(a) <= RangeOf(b)
  BY <1>1, DivMonotone DEF RangeOf
<1>4. Ranges \subseteq Nat
  BY <1>2 DEF Ranges
<1> QED
  BY <1>2, <1>3, <1>4

(* The offsets that GenerateFilters(n) adds, when it makes c of the buffer *)
(* b.                                                                      *)
Added(n, b, c) == [ i \in 1..n |-> IF i = 1 THEN Len(b) ELSE Len(c) ]

(* Offsets g into c that continue the offsets f into b: the filter that is *)
(* made starts where the buffer ended, the others are empty at its new     *)
(* end, and of the filters one is of the bytes x and the others of none.   *)
EndsGrown(f, b, n, g, c) ==
  /\ g \in Seq(0..Len(c)) /\ Len(g) = Len(f) + n
  /\ \A i \in 1..(Len(f) + 1) : Ends(g, c)[i] = Ends(f, b)[i]
  /\ \A i \in (Len(f) + 2)..(Len(f) + n + 1) : Ends(g, c)[i] = Len(c)

StoredGrown(f, b, x, n, g, c) ==
  /\ \A i \in 1..Len(f) : Stored(g, c, i) = Stored(f, b, i)
  /\ Stored(g, c, Len(f) + 1) = x
  /\ \A i \in (Len(f) + 2)..(Len(f) + n) : Stored(g, c, i) = << >>

(* That is what GenerateFilters(n) makes of them.                          *)
LEMMA EndsGenerated ==
  ASSUME NEW b \in Seq(Byte), NEW f \in Seq(0..Len(b)),
         NEW x \in Seq(Byte), NEW n \in Nat \ {0},
         NEW c, c = b \o x, NEW g, g = f \o Added(n, b, c)
  PROVE  EndsGrown(f, b, n, g, c)
<1> DEFINE new == Added(n, b, c)
<1>1. /\ c \in Seq(Byte) /\ Len(c) = Len(b) + Len(x)
      /\ Len(b) \in Nat /\ Len(x) \in Nat
  BY ConcatBytes
<1>2. Len(c) \in Nat /\ Len(b) <= Len(c)
  BY <1>1
<1>3. new \in Seq(0..Len(c)) /\ Len(new) = n
        /\ \A i \in 1..n : new[i] = IF i = 1 THEN Len(b) ELSE Len(c)
  <2>1. \A i \in 1..n : (IF i = 1 THEN Len(b) ELSE Len(c)) \in 0..Len(c)
    BY <1>1, <1>2
  <2> QED
    BY <2>1, IsASeq DEF Added
<1>4. f \in Seq(0..Len(c)) /\ Len(f) \in Nat
  <2>1. 0..Len(b) \subseteq 0..Len(c)
    BY <1>1, <1>2
  <2> QED
    BY <2>1, SeqMonotonic, LenProperties
<1> DEFINE p == Len(f)
<1> HIDE DEF new, p
<1>5. /\ p \in Nat
      /\ g \in Seq(0..Len(c)) /\ Len(g) = p + n
      /\ \A i \in 1..(p + n) :
           g[i] = IF i <= p THEN f[i] ELSE new[i - p]
  <2>1. g = f \o new
    BY DEF new
  <2>2. /\ Len(f) \in Nat /\ f \o new \in Seq(0..Len(c))
        /\ Len(f \o new) = Len(f) + Len(new)
    BY <1>3, <1>4, ConcatProperties, LenProperties
  <2>3. \A i \in 1..(Len(f) + Len(new)) :
          (f \o new)[i] = IF i <= Len(f) THEN f[i] ELSE new[i - Len(f)]
    BY <1>3, <1>4, ConcatProperties
  <2> QED
    BY <1>3, <2>1, <2>2, <2>3 DEF p
<1>6. /\ Ends(g, c)[p + n + 1] = Len(c)
      /\ \A i \in 1..(p + n) : Ends(g, c)[i] = g[i]
  <2>1. /\ Ends(g, c)[Len(g) + 1] = Len(c)
        /\ \A i \in 1..Len(g) : Ends(g, c)[i] = g[i]
    BY <1>1, <1>5, EndsType
  <2> QED
    BY <1>5, <2>1
<1>7. /\ Ends(f, b)[p + 1] = Len(b)
      /\ \A i \in 1..p : Ends(f, b)[i] = f[i]
  BY EndsType DEF p
<1>8. ASSUME NEW i \in 1..(p + 1) PROVE Ends(g, c)[i] = Ends(f, b)[i]
  <2>1. CASE i \in 1..p
    <3>1. i \in 1..(p + n) /\ i <= p
      BY <1>5, <2>1
    <3>2. Ends(g, c)[i] = f[i]
      BY <1>5, <1>6, <3>1
    <3> QED
      BY <1>7, <2>1, <3>2
  <2>2. CASE i = p + 1
    <3>1. i \in 1..(p + n) /\ ~(i <= p) /\ i - p = 1
            /\ 1 \in 1..n
      BY <1>5, <2>2
    <3>2. Ends(g, c)[i] = new[1]
      BY <1>5, <1>6, <3>1
    <3> QED
      BY <1>3, <1>7, <2>2, <3>1, <3>2
  <2> QED
    BY <1>5, <2>1, <2>2
<1>9. ASSUME NEW i \in (p + 2)..(p + n + 1)
      PROVE  Ends(g, c)[i] = Len(c)
  <2>1. CASE i = p + n + 1
    BY <1>6, <2>1
  <2>2. CASE i # p + n + 1
    <3>1. i \in 1..(p + n) /\ ~(i <= p) /\ i - p \in 1..n
            /\ i - p # 1
      BY <1>5, <2>2
    <3> QED
      BY <1>3, <1>5, <1>6, <3>1
  <2> QED
    BY <2>1, <2>2
<1> QED
  BY <1>1, <1>5, <1>8, <1>9 DEF new, p, EndsGrown

LEMMA StoredGenerated ==
  ASSUME NEW b \in Seq(Byte), NEW f \in Seq(0..Len(b)),
         NEW x \in Seq(Byte), NEW n \in Nat \ {0},
         NEW c, c = b \o x, NEW g, g = f \o Added(n, b, c)
  PROVE  StoredGrown(f, b, x, n, g, c)
<1>1. /\ c \in Seq(Byte) /\ Len(c) = Len(b) + Len(x)
      /\ EndsGrown(f, b, n, g, c)
  <2>1. EndsGrown(f, b, n, g, c)
    BY EndsGenerated
  <2> QED
    BY <2>1, ConcatBytes
<1>2. /\ Ends(f, b)[Len(f) + 1] = Len(b) /\ Len(f) \in Nat
      /\ Ends(f, b) \in Seq(0..Len(b)) /\ Len(Ends(f, b)) = Len(f) + 1
      /\ Len(b) \in Nat
  BY EndsType
<1>3. Len(x) \in Nat
  BY LenProperties
<1>4. ASSUME NEW i \in 1..Len(f) PROVE Stored(g, c, i) = Stored(f, b, i)
  <2>1. i \in 1..(Len(f) + 1) /\ i + 1 \in 1..(Len(f) + 1)
    BY <1>2
  <2>2. Ends(f, b)[i] \in 0..Len(b) /\ Ends(f, b)[i + 1] \in 0..Len(b)
    BY <1>2, <2>1, ElementOfSeq
  <2>3. Ends(f, b)[i] \in Nat
    BY <2>2
  <2>4. Bytes(c, Ends(f, b)[i], Ends(f, b)[i + 1] - Ends(f, b)[i])
          = Bytes(b, Ends(f, b)[i], Ends(f, b)[i + 1] - Ends(f, b)[i])
    BY <2>2, <2>3, BytesOfPrefix
  <2> QED
    BY <1>1, <2>1, <2>4 DEF Stored, EndsGrown
<1>5. Stored(g, c, Len(f) + 1) = x
  <2>1. Len(f) + 1 \in 1..(Len(f) + 1)
          /\ (Len(f) + 1) + 1 \in (Len(f) + 2)..(Len(f) + n + 1)
    BY <1>2
  <2>2. Ends(g, c)[Len(f) + 1] = Len(b)
          /\ Ends(g, c)[(Len(f) + 1) + 1] = Len(c)
    BY <1>1, <1>2, <2>1 DEF EndsGrown
  <2>3. Len(c) - Len(b) = Len(x)
    BY <1>1, <1>2, <1>3
  <2>4. Bytes(c, Len(b), Len(x)) = x
    BY BytesOfRest
  <2> QED
    BY <2>2, <2>3, <2>4 DEF Stored
<1>6. ASSUME NEW i \in (Len(f) + 2)..(Len(f) + n)
      PROVE  Stored(g, c, i) = << >>
  <2>1. i \in (Len(f) + 2)..(Len(f) + n + 1)
          /\ i + 1 \in (Len(f) + 2)..(Len(f) + n + 1)
    BY <1>2
  <2>2. Ends(g, c)[i] = Len(c) /\ Ends(g, c)[i + 1] = Len(c)
    BY <1>1, <2>1 DEF EndsGrown
  <2>3. Len(c) \in Nat
    BY <1>1, <1>2, <1>3
  <2>4. SubSeq(c, Len(c) + 1, Len(c) + (Len(c) - Len(c))) = << >>
    BY <1>1, <2>3
  <2> QED
    BY <2>2, <2>4 DEF Stored, Bytes
<1> QED
  BY <1>4, <1>5, <1>6 DEF StoredGrown

-----------------------------------------------------------------------------
(* TmpKeys of the keys and where each of them starts.                      *)
Cut(start, keys) ==
  LET ends == Append(start, Len(keys))
  IN  [ i \in 1..Len(start) |-> Bytes(keys, ends[i], ends[i + 1] - ends[i]) ]

(* AddKey adds its key to those that are cut out of keys_.                 *)
LEMMA CutAdded ==
  ASSUME NEW keys \in Seq(Byte), NEW start \in Seq(0..Len(keys)),
         NEW key \in Seq(Byte), NEW S, Cut(start, keys) \in Seq(S), key \in S
  PROVE  Cut(Append(start, Len(keys)), keys \o key)
           = Append(Cut(start, keys), key)
<1> DEFINE n     == Len(start)
           m     == Len(keys)
           ends  == Append(start, m)
           more  == Append(ends, Len(keys \o key))
           list  == Cut(start, keys)
           grown == Cut(ends, keys \o key)
<1>1. /\ n \in Nat /\ m \in Nat
      /\ m \in 0..m
  BY LenProperties
<1>2. /\ ends \in Seq(0..m) /\ Len(ends) = n + 1
      /\ ends[n + 1] = m
  BY <1>1, AppendProperties
<1>3. /\ Len(keys \o key) = m + Len(key) /\ Len(key) \in Nat
      /\ keys \o key \in Seq(Byte)
  BY ConcatBytes
<1>4. /\ \A i \in 1..(n + 1) : more[i] = ends[i]
      /\ more[n + 2] = m + Len(key)
  <2>1. ends \in Seq(Nat) /\ Len(keys \o key) \in Nat
    BY <1>1, <1>2, <1>3
  <2> HIDE DEF ends
  <2>2. /\ \A i \in 1..Len(ends) : more[i] = ends[i]
        /\ more[Len(ends) + 1] = Len(keys \o key)
    BY <2>1, AppendProperties
  <2> QED
    BY <1>1, <1>2, <1>3, <2>2
<1>5. /\ list = [ i \in 1..n |->
                  Bytes(keys, ends[i], ends[i + 1] - ends[i]) ]
      /\ grown = [ i \in 1..(n + 1) |->
                   Bytes(keys \o key, more[i], more[i + 1] - more[i]) ]
  <2> HIDE DEF m
  <2>1. list = [ i \in 1..n |->
                  Bytes(keys, ends[i], ends[i + 1] - ends[i]) ]
    BY DEF Cut, m
  <2> HIDE DEF ends, n
  <2> QED
    BY <1>2, <2>1 DEF Cut
<1> HIDE DEF ends, more, list, grown, n, m
<1>6. list \in Seq(S) /\ Len(list) = n
  BY <1>1, <1>5 DEF list
<1>7. ASSUME NEW i \in 1..n PROVE grown[i] = list[i]
  <2>1. i \in 1..(n + 1) /\ i + 1 \in 1..(n + 1)
    BY <1>1
  <2>2. ends[i] \in 0..m /\ ends[i + 1] \in 0..m
    <3>1. i \in 1..Len(ends) /\ i + 1 \in 1..Len(ends)
      BY <1>2, <2>1
    <3> QED
      BY <1>2, <3>1, ElementOfSeq
  <2>3. ends[i] \in Nat
    BY <1>1, <2>2
  <2>4. Bytes(keys \o key, ends[i], ends[i + 1] - ends[i])
          = Bytes(keys, ends[i], ends[i + 1] - ends[i])
    BY <2>2, <2>3, BytesOfPrefix DEF m
  <2> QED
    BY <1>4, <1>5, <2>1, <2>4
<1>8. grown[n + 1] = key
  <2>1. n + 1 \in 1..(n + 1) /\ (n + 1) + 1 = n + 2
    BY <1>1
  <2>2. more[n + 1] = m /\ more[n + 2] - more[n + 1] = Len(key)
    BY <1>1, <1>2, <1>3, <1>4, <2>1
  <2>3. Bytes(keys \o key, m, Len(key)) = key
    BY BytesOfRest DEF m
  <2> QED
    BY <1>5, <2>1, <2>2, <2>3
<1>9. /\ Append(list, key) \in Seq(S) /\ Len(Append(list, key)) = n + 1
      /\ \A i \in 1..n : Append(list, key)[i] = list[i]
      /\ Append(list, key)[n + 1] = key
  BY <1>6, AppendProperties
<1>10. grown = Append(list, key)
  <2>1. \A i \in 1..(n + 1) : grown[i] = Append(list, key)[i]
    <3>1. \A i \in 1..(n + 1) : i \in 1..n \/ i = n + 1
      BY <1>1
    <3> QED
      BY <1>7, <1>8, <1>9, <3>1
  <2>2. grown = [ i \in 1..(n + 1) |-> grown[i] ]
    BY <1>5
  <2>3. Append(list, key) = [ i \in 1..(n + 1) |-> Append(list, key)[i] ]
    <3>1. Append(list, key) \in [1..Len(Append(list, key)) -> S]
      BY <1>9, LenProperties
    <3>2. Append(list, key) \in [1..(n + 1) -> S]
      BY <1>9, <3>1
    <3> QED
      BY <3>2, Zenon
  <2> QED
    BY <2>1, <2>2, <2>3
<1> QED
  BY <1>10 DEF grown, list, ends, m

(* What the contract says of a list of keys.                               *)
LEMMA ContractOfList ==
  ASSUME FilterAssumption, PoliciesContract, NEW policy \in Policies,
         NEW list \in Seq(Keys), Len(list) <= MaxKeys
  PROVE  /\ FilterOf(policy, list) \in Seq(Byte)
         /\ \A i \in 1..Len(list) : PolicyMatches(policy, list, list[i])
         /\ \A key \in Keys : PolicyKeyMayMatch(key, FilterOf(policy, list))
                                <=> PolicyMatches(policy, list, key)
<1>1. Len(list) \in 0..MaxKeys
  BY LenProperties DEF FilterAssumption
<1>2. list \in [1..Len(list) -> Keys]
  BY LenProperties
<1> QED
  BY <1>1, <1>2 DEF PoliciesContract, KeepsContract

-----------------------------------------------------------------------------
LEMMA RangeOfBlock ==
  ASSUME FilterAssumption, TypeOK, Standing, page = << >>
  PROVE  /\ block # NoBlock =>
              /\ block \in Offsets
              /\ Len(filter_offsets_) = RangeOf(block)
              /\ Len(filter_offsets_) \in Ranges
         /\ \A offset \in Offsets :
              offset >= block => RangeOf(offset) >= Len(filter_offsets_)
<1>1. block # NoBlock =>
        /\ block \in Offsets
        /\ Len(filter_offsets_) = RangeOf(block)
        /\ Len(filter_offsets_) \in Ranges
  BY RangeType DEF TypeOK, Standing
<1>2. ASSUME NEW offset \in Offsets, offset >= block
      PROVE  RangeOf(offset) >= Len(filter_offsets_)
  <2>1. CASE block = NoBlock
    <3>1. filter_offsets_ = << >>
      BY <2>1 DEF Standing
    <3>2. RangeOf(offset) \in Nat
      BY RangeType
    <3> QED
      BY <3>1, <3>2
  <2>2. CASE block # NoBlock
    <3>1. block <= offset
      BY <1>1, <1>2, <2>2, RangeType
    <3> QED
      BY <1>1, <1>2, <2>2, <3>1, RangeType
  <2> QED
    BY <2>1, <2>2
<1> QED
  BY <1>1, <1>2

(* The keys of the current filter are a list that the contract is about.   *)
LEMMA CurrentKeys ==
  ASSUME FilterAssumption, PoliciesContract, TypeOK, Standing, Pending,
         page = << >>
  PROVE  /\ TmpKeys \in Seq(Keys)
         /\ Len(TmpKeys) = Len(start_)
         /\ start_ = << >> => TmpKeys = << >>
         /\ Len(TmpKeys) <= MaxKeys
         /\ FilterOf(policy_, TmpKeys) \in Seq(Byte)
<1>1. start_ = << >> => TmpKeys = << >>
  BY DEF TmpKeys
<1>2. TmpKeys \in Seq(Keys) /\ Len(TmpKeys) <= MaxKeys
  <2>1. CASE block = NoBlock
    BY <1>1, <2>1 DEF Standing, FilterAssumption
  <2>2. CASE block # NoBlock
    <3>1. Len(filter_offsets_) \in Ranges
      BY <2>2, RangeOfBlock
    <3>2. TmpKeys = rangeKeys[Len(filter_offsets_)]
            /\ Len(rangeKeys[Len(filter_offsets_)]) <= MaxKeys
      BY <3>1 DEF Pending
    <3> QED
      BY <3>1, <3>2 DEF TypeOK
  <2> QED
    BY <2>1, <2>2
<1>3. Len(TmpKeys) = Len(start_)
  <2>1. Len(start_) \in Nat
    BY LenProperties DEF TypeOK
  <2>2. DOMAIN TmpKeys = 1..Len(start_)
    BY DEF TmpKeys
  <2>3. DOMAIN TmpKeys = 1..Len(TmpKeys) /\ Len(TmpKeys) \in Nat
    BY <1>2, LenProperties
  <2> QED
    BY <2>1, <2>2, <2>3
<1>4. FilterOf(policy_, TmpKeys) \in Seq(Byte)
  BY <1>2, ContractOfList DEF TypeOK
<1> QED
  BY <1>1, <1>2, <1>3, <1>4

LEMMA InitRight ==
  ASSUME FilterAssumption, Init
  PROVE  FilterInv
<1>1. TypeOK
  BY DEF Init, TypeOK
<1>2. Standing /\ Written
  BY DEF Init, Standing, Written
<1>3. Pending
  BY DEF Init, Pending, TmpKeys, FilterAssumption
<1>4. Made
  BY DEF Init, Made
<1> QED
  BY <1>1, <1>2, <1>3, <1>4 DEF FilterInv

(* GenerateFilter(), n times: the filter of the current keys becomes that  *)
(* of the first range without one, and the ranges after it have no keys.   *)
LEMMA FiltersGenerated ==
  ASSUME FilterAssumption, PoliciesContract, FilterInv, page = << >>,
         NEW n \in Nat \ {0}, GenerateFilters(n),
         policy_' = policy_, rangeKeys' = rangeKeys
  PROVE  /\ buffer_' \in Seq(Byte)
         /\ filter_offsets_' \in Seq(0..Len(buffer_'))
         /\ Len(filter_offsets_') = Len(filter_offsets_) + n
         /\ keys_' = << >> /\ start_' = << >> /\ TmpKeys' = << >>
         /\ Made' /\ Pending'
<1> DEFINE x == FilterOf(policy_, TmpKeys)
           N == Len(filter_offsets_)
<1>1. /\ TypeOK /\ Standing /\ Pending /\ Made
      /\ buffer_ \in Seq(Byte) /\ filter_offsets_ \in Seq(0..Len(buffer_))
  BY DEF FilterInv, TypeOK
<1>2. x \in Seq(Byte)
  BY <1>1, CurrentKeys
<1>3. /\ buffer_' = buffer_ \o x
      /\ filter_offsets_' = filter_offsets_ \o Added(n, buffer_, buffer_')
  BY DEF GenerateFilters, Added
<1>4. keys_' = << >> /\ start_' = << >> /\ TmpKeys' = << >>
  BY DEF GenerateFilters, EmptiedStart, TmpKeys
<1> HIDE DEF x
<1>5. /\ buffer_' \in Seq(Byte) /\ Len(buffer_') = Len(buffer_) + Len(x)
      /\ filter_offsets_' \in Seq(0..Len(buffer_'))
      /\ Len(filter_offsets_') = N + n
      /\ EndsGrown(filter_offsets_, buffer_, n, filter_offsets_', buffer_')
  <2>1. EndsGrown(filter_offsets_, buffer_, n, filter_offsets_', buffer_')
    BY <1>1, <1>2, <1>3, EndsGenerated
  <2>2. /\ filter_offsets_' \in Seq(0..Len(buffer_'))
        /\ Len(filter_offsets_') = N + n
    BY <2>1 DEF EndsGrown
  <2> QED
    BY <1>1, <1>2, <1>3, <2>1, <2>2, ConcatBytes
<1>6. StoredGrown(filter_offsets_, buffer_, x, n, filter_offsets_', buffer_')
  BY <1>1, <1>2, <1>3, StoredGenerated
<1>7. N \in Nat /\ Len(buffer_) \in Nat /\ Len(x) \in Nat
  BY <1>1, <1>2, LenProperties
<1>8. Pending'
  <2>1. ASSUME NEW range \in Ranges
        PROVE  /\ Len(rangeKeys'[range]) <= MaxKeys
               /\ range >= N + n => rangeKeys'[range] = << >>
    <3>1. range >= N + n => range > N
      BY <1>7, RangeType
    <3> QED
      BY <1>1, <3>1 DEF Pending
  <2> QED
    <3>1. \A range \in Ranges :
            /\ range = N + n => range >= N + n
            /\ range > N + n => range >= N + n
      BY <1>7, RangeType
    <3> QED
      BY <1>4, <1>5, <2>1, <3>1 DEF Pending
<1>9. Made'
  <2> DEFINE ends == Ends(filter_offsets_', buffer_')
  <2>1. /\ \A i \in 1..(N + 1) :
             ends[i] = Ends(filter_offsets_, buffer_)[i]
        /\ \A i \in (N + 2)..(N + n + 1) : ends[i] = Len(buffer_')
    BY <1>5 DEF EndsGrown
  <2>2. Ends(filter_offsets_, buffer_)[N + 1] = Len(buffer_)
    BY <1>1, EndsType
  <2>3. /\ \A i \in 1..N : Stored(filter_offsets_', buffer_', i)
                           = Stored(filter_offsets_, buffer_, i)
        /\ Stored(filter_offsets_', buffer_', N + 1) = x
        /\ \A i \in (N + 2)..(N + n) :
             Stored(filter_offsets_', buffer_', i) = << >>
    BY <1>6 DEF StoredGrown
  <2> HIDE DEF ends, N
  <2>4. ASSUME NEW i \in 1..(N + n)
        PROVE  /\ ends[i] <= ends[i + 1]
               /\ i - 1 \in Ranges =>
                    Stored(filter_offsets_', buffer_', i)
                      = FilterOf(policy_, rangeKeys[i - 1])
    <3>1. CASE i \in 1..N
      <4>1. i \in 1..(N + 1) /\ i + 1 \in 1..(N + 1)
        BY <1>7, <3>1
      <4>2. Ends(filter_offsets_, buffer_)[i]
              <= Ends(filter_offsets_, buffer_)[i + 1]
        BY <1>1, <3>1 DEF Made, N
      <4>3. i - 1 \in Ranges =>
              Stored(filter_offsets_, buffer_, i)
                = FilterOf(policy_, rangeKeys[i - 1])
        BY <1>1, <3>1 DEF Made, N
      <4>4. ends[i] <= ends[i + 1]
        BY <2>1, <4>1, <4>2
      <4> QED
        BY <2>3, <3>1, <4>3, <4>4
    <3>2. CASE i = N + 1
      <4>1. N + 1 \in 1..(N + 1) /\ N + 2 \in (N + 2)..(N + n + 1)
              /\ i + 1 = N + 2
        BY <1>7, <3>2
      <4>2. ends[i] = Len(buffer_) /\ ends[i + 1] = Len(buffer_')
        BY <2>1, <2>2, <3>2, <4>1
      <4>3. Len(buffer_) <= Len(buffer_')
        BY <1>5, <1>7
      <4>4. ASSUME i - 1 \in Ranges
            PROVE  x = FilterOf(policy_, rangeKeys[i - 1])
        <5>1. i - 1 = N
          BY <1>7, <3>2
        <5>2. rangeKeys[i - 1] = TmpKeys
          BY <1>1, <4>4, <5>1 DEF Pending, N
        <5> QED
          BY <5>2 DEF x
      <4> QED
        BY <2>3, <3>2, <4>2, <4>3, <4>4
    <3>3. CASE i \in (N + 2)..(N + n)
      <4>1. i \in (N + 2)..(N + n + 1) /\ i + 1 \in (N + 2)..(N + n + 1)
        BY <1>7, <3>3
      <4>2. ends[i] = Len(buffer_') /\ ends[i + 1] = Len(buffer_')
        BY <2>1, <4>1
      <4>3. ends[i] <= ends[i + 1]
        BY <1>5, <1>7, <4>2
      <4>4. ASSUME i - 1 \in Ranges
            PROVE  << >> = FilterOf(policy_, rangeKeys[i - 1])
        <5>1. i - 1 > N
          BY <1>7, <3>3
        <5>2. rangeKeys[i - 1] = << >>
          BY <1>1, <4>4, <5>1 DEF Pending, N
        <5> QED
          BY <5>2 DEF FilterOf
      <4> QED
        BY <2>3, <3>3, <4>3, <4>4
    <3> QED
      <4>1. i \in 1..N \/ i = N + 1 \/ i \in (N + 2)..(N + n)
        BY <1>7
      <4> QED
        BY <3>1, <3>2, <3>3, <4>1
  <2>5. Len(filter_offsets_') = N + n
    BY <1>5 DEF N
  <2> QED
    BY <2>4, <2>5 DEF Made, ends
<1> QED
  BY <1>4, <1>5, <1>8, <1>9

-----------------------------------------------------------------------------
LEMMA StartBlockKeeps ==
  ASSUME FilterAssumption, PoliciesContract, FilterInv,
         NEW offset \in Offsets, StartBlock(offset)
  PROVE  FilterInv'
<1>1. /\ TypeOK /\ Standing /\ Pending /\ Made /\ page = << >>
      /\ page' = << >> /\ block' = offset
      /\ policy_' = policy_ /\ rangeKeys' = rangeKeys
  BY DEF FilterInv, StartBlock
<1>2. RangeOf(offset) \in Nat /\ FilterIndex(offset) = RangeOf(offset)
        /\ offset # NoBlock
  BY RangeType DEF NoBlock
<1>3. Len(filter_offsets_) \in Nat
  BY <1>1, LenProperties DEF TypeOK
<1>4. RangeOf(offset) >= Len(filter_offsets_)
  BY <1>1, RangeOfBlock DEF StartBlock
<1>5. /\ policy_' \in Policies /\ page' \in Seq(Byte)
      /\ block' \in Offsets \cup {NoBlock}
      /\ rangeKeys' \in [Ranges -> Seq(Keys)]
  BY <1>1 DEF TypeOK
<1>6. Written'
  BY <1>1 DEF Written
<1>7. CASE Missing(offset) > 0 /\ GenerateFilters(Missing(offset))
  <2>1. /\ Missing(offset) \in Nat \ {0}
        /\ Len(filter_offsets_) + Missing(offset) = RangeOf(offset)
    BY <1>2, <1>3, <1>7 DEF Missing
  <2>2. /\ buffer_' \in Seq(Byte)
        /\ filter_offsets_' \in Seq(0..Len(buffer_'))
        /\ Len(filter_offsets_') = RangeOf(offset)
        /\ keys_' = << >> /\ start_' = << >>
        /\ Made' /\ Pending'
    BY <1>1, <1>7, <2>1, FiltersGenerated
  <2>3. TypeOK'
    BY <1>5, <2>2 DEF TypeOK
  <2>4. Standing'
    BY <1>1, <1>2, <2>2 DEF Standing, RangeOf
  <2> QED
    BY <1>6, <2>2, <2>3, <2>4 DEF FilterInv
<1>8. CASE Missing(offset) <= 0 /\ UNCHANGED builderVars
  <2>1. Len(filter_offsets_) = RangeOf(offset)
    BY <1>2, <1>3, <1>4, <1>8 DEF Missing
  <2>2. /\ buffer_' = buffer_ /\ filter_offsets_' = filter_offsets_
        /\ keys_' = keys_ /\ start_' = start_
    BY <1>8 DEF builderVars
  <2>3. TypeOK'
    BY <1>1, <1>5, <2>2 DEF TypeOK
  <2>4. Standing'
    BY <1>1, <1>2, <2>1, <2>2 DEF Standing, RangeOf
  <2>5. Pending' /\ Made'
    BY <1>1, <2>2 DEF Pending, Made, TmpKeys
  <2> QED
    BY <1>6, <2>3, <2>4, <2>5 DEF FilterInv
<1> QED
  BY <1>7, <1>8 DEF StartBlock

(* A key joins the current filter and the keys of its range.               *)
LEMMA AddKeyKeeps ==
  ASSUME FilterAssumption, PoliciesContract, FilterInv,
         NEW key \in Keys, AddKey(key)
  PROVE  FilterInv'
<1> DEFINE N == Len(filter_offsets_)
<1>1. /\ TypeOK /\ Standing /\ Pending /\ Made
      /\ page = << >> /\ block # NoBlock /\ Len(start_) < MaxKeys
      /\ start_' = Append(start_, Len(keys_)) /\ keys_' = keys_ \o key
      /\ rangeKeys' = [rangeKeys EXCEPT ![RangeOf(block)] = Append(@, key)]
      /\ policy_' = policy_ /\ buffer_' = buffer_
      /\ filter_offsets_' = filter_offsets_
      /\ page' = page /\ block' = block
  BY DEF FilterInv, AddKey
<1>2. /\ N = RangeOf(block) /\ N \in Ranges /\ N \in Nat
  BY <1>1, RangeOfBlock, RangeType
<1>3. key \in Seq(Byte)
  BY DEF FilterAssumption
<1>4. /\ TmpKeys \in Seq(Keys) /\ Len(TmpKeys) = Len(start_)
      /\ rangeKeys[N] = TmpKeys
  BY <1>1, <1>2, CurrentKeys DEF Pending
<1>5. TmpKeys' = Append(TmpKeys, key)
  <2>1. TmpKeys = Cut(start_, keys_) /\ TmpKeys' = Cut(start_', keys_')
    BY DEF TmpKeys, Cut
  <2>2. keys_ \in Seq(Byte) /\ start_ \in Seq(0..Len(keys_))
    BY <1>1 DEF TypeOK
  <2>3. Cut(start_, keys_) \in Seq(Keys)
    BY <1>4, <2>1
  <2>4. Cut(Append(start_, Len(keys_)), keys_ \o key)
          = Append(Cut(start_, keys_), key)
    BY <1>3, <2>2, <2>3, CutAdded
  <2> QED
    BY <1>1, <2>1, <2>4
<1>6. /\ rangeKeys' \in [Ranges -> Seq(Keys)]
      /\ rangeKeys'[N] = Append(TmpKeys, key)
      /\ \A range \in Ranges : range # N =>
           rangeKeys'[range] = rangeKeys[range]
  <2>1. rangeKeys \in [Ranges -> Seq(Keys)]
    BY <1>1 DEF TypeOK
  <2>2. rangeKeys' = [rangeKeys EXCEPT ![N] = Append(TmpKeys, key)]
    BY <1>1, <1>2, <1>4
  <2>3. Append(TmpKeys, key) \in Seq(Keys)
    BY <1>4, AppendProperties
  <2> HIDE DEF N
  <2> QED
    BY <1>2, <2>1, <2>2, <2>3
<1>7. TypeOK'
  <2>1. /\ keys_' \in Seq(Byte) /\ Len(keys_') = Len(keys_) + Len(key)
        /\ Len(key) \in Nat /\ Len(keys_) \in Nat
    BY <1>1, <1>3, ConcatBytes DEF TypeOK
  <2>2. start_' \in Seq(0..Len(keys_'))
    <3>1. 0..Len(keys_) \subseteq 0..Len(keys_')
            /\ Len(keys_) \in 0..Len(keys_')
      BY <2>1
    <3>2. start_ \in Seq(0..Len(keys_'))
      BY <1>1, <3>1, SeqMonotonic DEF TypeOK
    <3> QED
      BY <1>1, <3>1, <3>2, AppendProperties
  <2> QED
    BY <1>1, <1>6, <2>1, <2>2 DEF TypeOK
<1>8. Standing'
  BY <1>1 DEF Standing, RangeOf
<1>9. Pending'
  <2>1. Len(Append(TmpKeys, key)) <= MaxKeys
    <3>1. Len(Append(TmpKeys, key)) = Len(start_) + 1 /\ Len(start_) \in Nat
      BY <1>4, AppendProperties, LenProperties
    <3>2. MaxKeys \in Nat
      BY DEF FilterAssumption
    <3> QED
      BY <1>1, <3>1, <3>2
  <2>2. ASSUME NEW range \in Ranges
        PROVE  /\ Len(rangeKeys'[range]) <= MaxKeys
               /\ range = N => rangeKeys'[range] = TmpKeys'
               /\ range > N => rangeKeys'[range] = << >>
    <3>1. CASE range = N
      BY <1>2, <1>5, <1>6, <2>1, <3>1
    <3>2. CASE range # N
      BY <1>1, <1>6, <3>2 DEF Pending
    <3> QED
      BY <3>1, <3>2
  <2> QED
    BY <1>1, <2>2 DEF Pending
<1>10. Made'
  <2>1. ASSUME NEW i \in 1..N, i - 1 \in Ranges
        PROVE  rangeKeys'[i - 1] = rangeKeys[i - 1]
    <3>1. i - 1 # N
      BY <1>2
    <3> QED
      BY <1>6, <2>1, <3>1
  <2> QED
    BY <1>1, <2>1 DEF Made, Ends, Stored
<1>11. Written'
  BY <1>1 DEF Written
<1> QED
  BY <1>7, <1>8, <1>9, <1>10, <1>11 DEF FilterInv

LEMMA FinishKeeps ==
  ASSUME FilterAssumption, PoliciesContract, FilterInv, Finish
  PROVE  FilterInv'
<1>1. /\ TypeOK /\ Standing /\ Pending /\ Made /\ page = << >>
      /\ block' = block /\ policy_' = policy_ /\ rangeKeys' = rangeKeys
      /\ page' = Sealed(Contents(filter_offsets_', buffer_'), FilterPageType)
  BY DEF FilterInv, Finish, Contents, Ends
<1>2. /\ buffer_' \in Seq(Byte)
      /\ filter_offsets_' \in Seq(0..Len(buffer_'))
      /\ keys_' \in Seq(Byte) /\ start_' \in Seq(0..Len(keys_'))
      /\ start_' = << >> /\ Made' /\ Pending'
      /\ block = NoBlock => filter_offsets_' = << >>
  <2>1. CASE start_ # << >> /\ GenerateFilters(1)
    <3>1. block # NoBlock
      BY <1>1, <2>1 DEF Standing
    <3>2. /\ buffer_' \in Seq(Byte)
          /\ filter_offsets_' \in Seq(0..Len(buffer_'))
          /\ keys_' = << >> /\ start_' = << >> /\ Made' /\ Pending'
      BY <1>1, <2>1, FiltersGenerated
    <3> QED
      BY <3>1, <3>2
  <2>2. CASE start_ = << >> /\ UNCHANGED builderVars
    <3>1. /\ buffer_' = buffer_ /\ filter_offsets_' = filter_offsets_
          /\ keys_' = keys_ /\ start_' = start_
      BY <2>2 DEF builderVars
    <3>2. Made' /\ Pending'
      BY <1>1, <3>1 DEF Made, Pending, TmpKeys
    <3> QED
      BY <1>1, <2>2, <3>1, <3>2 DEF TypeOK, Standing
  <2> QED
    BY <2>1, <2>2 DEF Finish
<1>3. page' \in Seq(Byte) /\ page' # << >>
  <2>1. Ends(filter_offsets_', buffer_') \in Seq(Nat)
    BY <1>2, EndsType
  <2>2. Fixed32Array(Ends(filter_offsets_', buffer_')) \in Seq(Byte)
    BY <2>1, Fixed32ArrayType
  <2>3. buffer_' \o Fixed32Array(Ends(filter_offsets_', buffer_'))
          \in Seq(Byte)
    BY <1>2, <2>2, ConcatProperties
  <2>4. Contents(filter_offsets_', buffer_') \in Seq(Byte)
    BY <2>3, AppendProperties DEF Contents, FilterAssumption
  <2>5. /\ page' \in Seq(Byte)
        /\ Len(page') = Len(Contents(filter_offsets_', buffer_')) + FooterSize
    BY <1>1, <2>4, SealedType DEF FilterAssumption
  <2>6. Len(page') >= 5
    BY <2>4, <2>5, LenProperties DEF FooterSize
  <2> QED
    BY <2>5, <2>6
<1>4. TypeOK'
  BY <1>1, <1>2, <1>3 DEF TypeOK
<1>5. Standing' /\ Written'
  BY <1>1, <1>2, <1>3 DEF Standing, Written
<1> QED
  BY <1>2, <1>4, <1>5 DEF FilterInv

LEMMA FilterAlways ==
  ASSUME FilterAssumption, PoliciesContract
  PROVE  Spec => []FilterInv
<1>1. Init => FilterInv
  BY InitRight
<1>2. FilterInv /\ [Next]_vars => FilterInv'
  <2> SUFFICES ASSUME FilterInv, [Next]_vars PROVE FilterInv'
    OBVIOUS
  <2>1. CASE UNCHANGED vars
    BY <2>1 DEF vars, builderVars, FilterInv, TypeOK, Standing, Pending,
                Made, Written, TmpKeys
  <2> QED
    BY <2>1, StartBlockKeeps, AddKeyKeeps, FinishKeeps DEF Next
<1> QED
  BY <1>1, <1>2, PTL DEF Spec

-----------------------------------------------------------------------------
(* Every buffer, page and list of keys has its type: in particular start_  *)
(* and filter_offsets_ never point beyond keys_ and buffer_ (TypeOK).      *)
THEOREM FilterTypes ==
  ASSUME FilterAssumption, PoliciesContract
  PROVE  Spec => []TypeOK
<1>1. FilterInv => TypeOK
  BY DEF FilterInv
<1> QED
  BY <1>1, FilterAlways, PTL

(* filter_page.cpp:28: for every sequence of blocks whose offsets do not   *)
(* decrease, the assertion of StartBlock() holds (AssertHolds).            *)
THEOREM FilterAssertion ==
  ASSUME FilterAssumption, PoliciesContract
  PROVE  Spec => []AssertHolds
<1>1. FilterInv => AssertHolds
  BY RangeOfBlock, RangeType DEF FilterInv, AssertHolds
<1> QED
  BY <1>1, FilterAlways, PTL

(* What the reader answers about a finished page of less than 4 GB.        *)
LEMMA PageAnswers ==
  ASSUME FilterAssumption, PoliciesContract, FilterInv, page # << >>,
         Fits(buffer_), NEW offset \in Offsets, NEW key \in Keys
  PROVE  KeyMayMatch(PageData(page), offset, key) <=>
           \/ RangeOf(offset) >= Len(filter_offsets_)
           \/ PolicyMatches(policy_, rangeKeys[RangeOf(offset)], key)
<1> DEFINE range == RangeOf(offset)
           N     == Len(filter_offsets_)
<1>1. /\ TypeOK /\ Pending /\ Made /\ Written
      /\ buffer_ \in Seq(Byte) /\ filter_offsets_ \in Seq(0..Len(buffer_))
      /\ policy_ \in Policies
  BY DEF FilterInv, TypeOK
<1>2. range \in Nat /\ range \in Ranges /\ offset \in Nat /\ N \in Nat
  BY <1>1, RangeType, LenProperties
<1>3. PageData(page) = Contents(filter_offsets_, buffer_)
  <2>1. Contents(filter_offsets_, buffer_) \in Seq(Byte)
    BY <1>1, ContentsReadBack
  <2> QED
    BY <1>1, <2>1, SealedReadsBack DEF Written, FilterAssumption
<1>4. KeyMayMatch(Contents(filter_offsets_, buffer_), offset, key) <=>
        (range < N => PolicyKeyMayMatch(key,
                        Stored(filter_offsets_, buffer_, range + 1)))
  BY <1>1, <1>2, ReaderAnswers DEF Made
<1>5. ASSUME range < N
      PROVE  PolicyKeyMayMatch(key,
                               Stored(filter_offsets_, buffer_, range + 1))
               <=> PolicyMatches(policy_, rangeKeys[range], key)
  <2>1. range + 1 \in 1..N /\ (range + 1) - 1 = range
    BY <1>2, <1>5
  <2>2. Stored(filter_offsets_, buffer_, range + 1)
          = FilterOf(policy_, rangeKeys[range])
    BY <1>1, <1>2, <2>1 DEF Made
  <2>3. rangeKeys[range] \in Seq(Keys) /\ Len(rangeKeys[range]) <= MaxKeys
    BY <1>1, <1>2 DEF TypeOK, Pending
  <2> QED
    BY <1>1, <2>2, <2>3, ContractOfList
<1>6. range >= N <=> ~(range < N)
  BY <1>2
<1> QED
  BY <1>3, <1>4, <1>5, <1>6

(* A reader of a page of less than 4 GB asks for each range a filter of    *)
(* exactly the keys that were added in it, for every policy that keeps its *)
(* contract, every block offset and every key (OneFilterPerRange).  Beyond *)
(* 4 GB filter_page.cpp:46 cuts offsets to 32 bits.                        *)
THEOREM FilterPerRange ==
  ASSUME FilterAssumption, PoliciesContract
  PROVE  Spec => [](Fits(buffer_) => OneFilterPerRange)
<1>1. FilterInv => (Fits(buffer_) => OneFilterPerRange)
  BY PageAnswers DEF OneFilterPerRange
<1> QED
  BY <1>1, FilterAlways, PTL

(* And so a key that was added is never turned away (NoFalseNegative).     *)
THEOREM FilterFindsKeys ==
  ASSUME FilterAssumption, PoliciesContract
  PROVE  Spec => [](Fits(buffer_) => NoFalseNegative)
<1>1. FilterInv => (Fits(buffer_) => NoFalseNegative)
  <2> SUFFICES ASSUME FilterInv, Fits(buffer_), page # << >>,
                      NEW offset \in Offsets,
                      NEW i \in 1..Len(rangeKeys[RangeOf(offset)])
               PROVE  KeyMayMatch(PageData(page), offset,
                                  rangeKeys[RangeOf(offset)][i])
    BY DEF NoFalseNegative
  <2> DEFINE list == rangeKeys[RangeOf(offset)]
  <2>1. /\ list \in Seq(Keys) /\ Len(list) <= MaxKeys
        /\ policy_ \in Policies
    BY RangeType DEF FilterInv, TypeOK, Pending
  <2>2. list[i] \in Keys
    BY <2>1, ElementOfSeq
  <2>3. PolicyMatches(policy_, list, list[i])
    BY <2>1, ContractOfList
  <2> QED
    BY <2>2, <2>3, PageAnswers
<1> QED
  BY <1>1, FilterAlways, PTL

-----------------------------------------------------------------------------
(* The Bloom filter policy keeps its contract.  Its words are of integers, *)
(* so that every probe touches a bit of the filter.                        *)
Words == [1..4 -> Int]

LEMMA WordIs ==
  /\ \A w \in Words : /\ w[1] \in Int /\ w[2] \in Int
                      /\ w[3] \in Int /\ w[4] \in Int
  /\ \A a, b, c, d \in Int : << a, b, c, d >> \in Words
<1>1. \A w \in Words : \A i \in 1..4 : w[i] \in Int
  BY DEF Words
<1>2. 1 \in 1..4 /\ 2 \in 1..4 /\ 3 \in 1..4 /\ 4 \in 1..4
  OBVIOUS
<1>3. ASSUME NEW a \in Int, NEW b \in Int, NEW c \in Int, NEW d \in Int
      PROVE  << a, b, c, d >> \in Words
  BY DEF Words
<1> QED
  BY <1>1, <1>2, <1>3

LEMMA CarriedType ==
  ASSUME NEW c1 \in Int, NEW c2 \in Int, NEW c3 \in Int, NEW c4 \in Int
  PROVE  Carried(c1, c2, c3, c4) \in Words
<1> DEFINE d2 == c2 + c1 \div 256
           d3 == c3 + d2 \div 256
           d4 == c4 + d3 \div 256
<1>1. \A a, b \in Int : a + b \div 256 \in Int /\ a % 256 \in Int
  OBVIOUS
<1>2. d2 \in Int
  BY <1>1
<1>3. Carried(c1, c2, c3, c4) = << c1 % 256, d2 % 256, d3 % 256, d4 % 256 >>
  BY DEF Carried
<1> HIDE DEF d2
<1>4. d3 \in Int
  BY <1>1, <1>2
<1> HIDE DEF d3
<1>5. d4 \in Int
  BY <1>1, <1>4
<1> HIDE DEF d4
<1>6. c1 % 256 \in Int /\ d2 % 256 \in Int /\ d3 % 256 \in Int
        /\ d4 % 256 \in Int
  BY <1>1, <1>2, <1>4, <1>5
<1> QED
  BY <1>3, <1>6, WordIs

LEMMA PlusType ==
  ASSUME NEW v \in Words, NEW w \in Words
  PROVE  Plus(v, w) \in Words
<1>1. /\ v[1] + w[1] \in Int /\ v[2] + w[2] \in Int
      /\ v[3] + w[3] \in Int /\ v[4] + w[4] \in Int
  BY WordIs
<1> QED
  BY <1>1, CarriedType DEF Plus

LEMMA TimesType ==
  ASSUME NEW v \in Words, NEW w \in Words
  PROVE  Times(v, w) \in Words
<1>1. /\ \A a, b \in Int : a * b \in Int
      /\ \A a, b \in Int : a + b \in Int
  OBVIOUS
<1>2. /\ v[1] \in Int /\ v[2] \in Int /\ v[3] \in Int /\ v[4] \in Int
      /\ w[1] \in Int /\ w[2] \in Int /\ w[3] \in Int /\ w[4] \in Int
  BY WordIs
<1>3. /\ v[1] * w[1] \in Int /\ v[1] * w[2] \in Int /\ v[2] * w[1] \in Int
      /\ v[1] * w[3] \in Int /\ v[2] * w[2] \in Int /\ v[3] * w[1] \in Int
      /\ v[1] * w[4] \in Int /\ v[2] * w[3] \in Int /\ v[3] * w[2] \in Int
      /\ v[4] * w[1] \in Int
  BY <1>1, <1>2
<1>4. /\ v[1] * w[2] + v[2] * w[1] \in Int
      /\ v[1] * w[3] + v[2] * w[2] + v[3] * w[1] \in Int
      /\ v[1] * w[4] + v[2] * w[3] + v[3] * w[2] + v[4] * w[1] \in Int
  BY <1>1, <1>3
<1> QED
  BY <1>3, <1>4, CarriedType DEF Times

LEMMA XoredType ==
  ASSUME NEW v \in Words, NEW w \in Words
  PROVE  Xored(v, w) \in Words
<1>1. ASSUME NEW a \in Int, NEW b \in Int PROVE XorBytes(a, b) \in Int
  <2> DEFINE Bit(i) == (2 ^ i) * ((a \div (2 ^ i) + b \div (2 ^ i)) % 2)
  <2>1. /\ Bit(0) \in Int /\ Bit(1) \in Int /\ Bit(2) \in Int
        /\ Bit(3) \in Int /\ Bit(4) \in Int /\ Bit(5) \in Int
        /\ Bit(6) \in Int /\ Bit(7) \in Int
    OBVIOUS
  <2>2. XorBytes(a, b) = Bit(0) + Bit(1) + Bit(2) + Bit(3) + Bit(4) + Bit(5)
                           + Bit(6) + Bit(7)
    BY DEF XorBytes
  <2> HIDE DEF Bit
  <2> QED
    BY <2>1, <2>2
<1>2. \A i \in 1..4 : v[i] \in Int /\ w[i] \in Int
  BY DEF Words
<1> QED
  BY <1>1, <1>2 DEF Xored, Words

LEMMA MixedType ==
  ASSUME NEW h \in Words, NEW w \in Words
  PROVE  Mixed(h, w) \in Words
<1>1. M \in Words
  BY WordIs DEF M
<1> QED
  BY <1>1, PlusType, TimesType DEF Mixed

LEMMA WordAtType ==
  ASSUME NEW data \in Seq(Byte), NEW n \in Nat \ {0}
  PROVE  WordAt(data, n) \in Words
<1>1. ASSUME NEW i \in 1..4, n + i <= Len(data) + 1
      PROVE  data[n + i - 1] \in Int
  <2>1. n + i - 1 \in 1..Len(data)
    BY <1>1, LenProperties
  <2>2. data[n + i - 1] \in Byte
    BY <2>1, ElementOfSeq
  <2>3. \A x \in Byte : x \in Int
    BY DEF Byte
  <2> QED
    BY <2>2, <2>3
<1> QED
  BY <1>1 DEF WordAt, Words

(* The rounds of Hash() are defined by recursion.                          *)
LEMMA HashType ==
  ASSUME NEW data \in Seq(Byte), NEW seed \in Words
  PROVE  HashOf(data, seed) \in Words
<1> DEFINE n == Len(data)
           first == Xored(seed, Times(<< n % 256, n \div 256, 0, 0 >>, M))
           After(h) == Xored(h, << h[3], h[4], 0, 0 >>)
           F == [ k \in Nat |->
                    [ v \in Words |->
                        IF k = 0 THEN v
                        ELSE After(Mixed(v, WordAt(data, 4 * k - 3))) ] ]
           G(g) == g = [ k \in Nat |->
                           IF k = 0 THEN first
                           ELSE After(Mixed(g[k - 1],
                                            WordAt(data, 4 * k - 3))) ]
           rounds == CHOOSE g : G(g)
           last == n \div 4
           rest == Mixed(rounds[last], WordAt(data, 4 * last + 1))
<1>1. n \in Nat /\ last \in Nat
  BY LenProperties
<1>2. ASSUME NEW h \in Words PROVE After(h) \in Words
  <2>1. << h[3], h[4], 0, 0 >> \in Words
    <3>1. h[3] \in Int /\ h[4] \in Int
      BY WordIs
    <3> QED
      BY <3>1, WordIs
  <2> QED
    BY <2>1, XoredType
<1>3. first \in Words
  <2>1. n % 256 \in Int /\ n \div 256 \in Int
    BY <1>1
  <2> HIDE DEF n
  <2>2. << n % 256, n \div 256, 0, 0 >> \in Words /\ M \in Words
    BY <2>1, WordIs DEF M
  <2> QED
    BY <2>2, TimesType, XoredType
<1>4. HashOf(data, seed) = IF n % 4 = 0 THEN rounds[last]
                           ELSE Xored(rest, << rest[4], 0, 0, 0 >>)
  BY DEF HashOf
<1> HIDE DEF first, After, rounds, n, last
<1>5. ASSUME NEW k \in Nat, k # 0, NEW v \in Words
      PROVE  After(Mixed(v, WordAt(data, 4 * k - 3))) \in Words
  <2>1. 4 * k - 3 \in Nat \ {0}
    BY <1>5
  <2> QED
    BY <1>2, <2>1, WordAtType, MixedType
<1>6. \E g : G(g)
  <2>1. F \in [Nat -> [Words -> Words]]
    BY <1>5
  <2> HIDE DEF F
  <2>2. PICK f : Iteration(Words, first, F, f)
    BY <1>3, <2>1, IterationExists
  <2>3. /\ f \in [Nat -> Words]
        /\ \A k \in Nat : f[k] = IF k = 0 THEN first ELSE F[k][f[k - 1]]
    BY <2>2 DEF Iteration
  <2>4. ASSUME NEW k \in Nat
        PROVE  f[k] = IF k = 0 THEN first
                      ELSE After(Mixed(f[k - 1], WordAt(data, 4 * k - 3)))
    <3>1. k # 0 => f[k - 1] \in Words
      BY <2>3
    <3> QED
      BY <2>3, <3>1 DEF F
  <2>5. f = [ k \in Nat |-> f[k] ]
    BY <2>3
  <2> QED
    BY <2>4, <2>5
<1>7. G(rounds)
  BY <1>6 DEF rounds
<1>8. \A k \in Nat : rounds[k] =
        IF k = 0 THEN first
        ELSE After(Mixed(rounds[k - 1], WordAt(data, 4 * k - 3)))
  BY <1>7
<1>9. \A k \in Nat : rounds[k] \in Words
  <2> DEFINE T == { k \in Nat : rounds[k] \in Words }
  <2>1. 0 \in T
    BY <1>3, <1>8
  <2>2. ASSUME NEW k \in Nat, k \in T PROVE k + 1 \in T
    <3>1. k + 1 \in Nat /\ k + 1 # 0 /\ (k + 1) - 1 = k
      OBVIOUS
    <3>2. rounds[k + 1] = After(Mixed(rounds[k],
                                      WordAt(data, 4 * (k + 1) - 3)))
      BY <1>8, <3>1
    <3>3. rounds[k] \in Words
      BY <2>2
    <3> QED
      BY <1>5, <3>1, <3>2, <3>3
  <2> HIDE DEF T
  <2>3. \A k \in Nat : k \in T
    BY <2>1, <2>2, NatInductionOn
  <2> QED
    BY <2>3 DEF T
<1>10. Xored(rest, << rest[4], 0, 0, 0 >>) \in Words
  <2>1. 4 * last + 1 \in Nat \ {0}
    BY <1>1
  <2>2. rest \in Words
    BY <1>1, <1>9, <2>1, WordAtType, MixedType
  <2> HIDE DEF rest
  <2>3. << rest[4], 0, 0, 0 >> \in Words
    <3>1. rest[4] \in Int
      BY <2>2, WordIs
    <3> QED
      BY <3>1, WordIs
  <2> QED
    BY <2>2, <2>3, XoredType
<1> QED
  BY <1>1, <1>4, <1>9, <1>10

LEMMA RehashedType ==
  ASSUME NEW h \in Words
  PROVE  \A j \in 0..29 : Rehashed(h)[j] \in Words
<1>1. RotatedRight17(h) \in Words
  <2>1. \A a, b \in Int : a \div 2 + 128 * (b % 2) \in Int
    OBVIOUS
  <2>2. /\ h[1] \in Int /\ h[2] \in Int /\ h[3] \in Int /\ h[4] \in Int
    BY WordIs
  <2>3. /\ h[3] \div 2 + 128 * (h[4] % 2) \in Int
        /\ h[4] \div 2 + 128 * (h[1] % 2) \in Int
        /\ h[1] \div 2 + 128 * (h[2] % 2) \in Int
        /\ h[2] \div 2 + 128 * (h[3] % 2) \in Int
    BY <2>1, <2>2
  <2> QED
    BY <2>3, WordIs DEF RotatedRight17
<1>2. ASSUME NEW j \in 0..29
      PROVE  Plus(h, Times(RotatedRight17(h), << j, 0, 0, 0 >>)) \in Words
  <2>1. << j, 0, 0, 0 >> \in Words
    BY WordIs
  <2> QED
    BY <1>1, <2>1, TimesType, PlusType
<1> QED
  BY <1>2 DEF Rehashed

LEMMA ModuloType ==
  ASSUME NEW h \in Words, NEW n \in Nat \ {0}
  PROVE  Modulo(h, n) \in 0..(n - 1)
<1>1. \A x \in Int : x % n \in 0..(n - 1)
  OBVIOUS
<1>2. \A x, y \in Int : (x % n) * 256 + y \in Int
  <2>1. ASSUME NEW x \in Int, NEW y \in Int PROVE (x % n) * 256 + y \in Int
    <3>1. x % n \in Int
      BY <1>1
    <3> QED
      BY <3>1
  <2> QED
    BY <2>1
<1>3. h[1] \in Int /\ h[2] \in Int /\ h[3] \in Int /\ h[4] \in Int
  BY WordIs
<1> DEFINE a == h[4] * 256 + h[3]
           b == (a % n) * 256 + h[2]
           c == (b % n) * 256 + h[1]
<1>4. a \in Int
  BY <1>3
<1>5. Modulo(h, n) = c % n
  BY DEF Modulo
<1> HIDE DEF a
<1>6. b \in Int
  BY <1>2, <1>3, <1>4
<1> HIDE DEF b
<1>7. c \in Int
  BY <1>2, <1>3, <1>6
<1> HIDE DEF c
<1> QED
  BY <1>1, <1>5, <1>7

LEMMA MaxOfTwo ==
  ASSUME NEW a \in Int, NEW b \in Int
  PROVE  Max({a, b}) \in {a, b} /\ Max({a, b}) >= a /\ Max({a, b}) >= b
<1>1. \E x \in {a, b} : \A y \in {a, b} : x >= y
  <2>1. CASE a >= b
    BY <2>1
  <2>2. CASE ~(a >= b)
    BY <2>2
  <2> QED
    BY <2>1, <2>2
<1> QED
  BY <1>1 DEF Max

LEMMA ProbesType ==
  ASSUME NEW bitsPerKey \in Nat
  PROVE  Probes(bitsPerKey) \in 1..30
<1> DEFINE n == (bitsPerKey * 69) \div 100
           m == Min({n, 30})
<1>1. n \in Nat
  OBVIOUS
<1> HIDE DEF n
<1>2. m \in Nat /\ m <= 30
  BY <1>1, MinOfTwo
<1>3. Probes(bitsPerKey) = Max({1, m})
  BY DEF Probes, Clamp, n
<1> HIDE DEF m
<1>4. Max({1, m}) \in {1, m} /\ Max({1, m}) >= 1
  BY <1>2, MaxOfTwo
<1> QED
  BY <1>2, <1>3, <1>4

LEMMA FilterSize ==
  ASSUME NEW bitsPerKey \in Nat, NEW n \in Nat
  PROVE  /\ FilterBytes(bitsPerKey, n) \in Nat
         /\ FilterBytes(bitsPerKey, n) >= 8
         /\ FilterBits(bitsPerKey, n) = 8 * FilterBytes(bitsPerKey, n)
<1> DEFINE m == n * bitsPerKey
           x == Max({m, 64})
<1>1. m \in Nat
  OBVIOUS
<1> HIDE DEF m
<1>2. x \in Nat /\ x >= 64
  BY <1>1, MaxOfTwo
<1>3. FilterBytes(bitsPerKey, n) = (x + 7) \div 8
  BY DEF FilterBytes, m
<1> HIDE DEF x
<1> QED
  BY <1>2, <1>3 DEF FilterBits

LEMMA BloomByte ==
  ASSUME NEW bitset, NEW b \in Nat
  PROVE  /\ ByteOf(bitset, b) \in Byte
         /\ \A i \in 0..7 :
              BitIsSet(ByteOf(bitset, b), i) <=> 8 * b + i \in bitset
<1> DEFINE c(i) == IF 8 * b + i \in bitset THEN 1 ELSE 0
           x == ByteOf(bitset, b)
<1>1. \A i : c(i) \in 0..1 /\ (c(i) = 1 <=> 8 * b + i \in bitset)
  OBVIOUS
<1>2. x = c(0) + 2 * c(1) + 4 * c(2) + 8 * c(3) + 16 * c(4) + 32 * c(5)
            + 64 * c(6) + 128 * c(7)
  BY DEF ByteOf
<1> HIDE DEF c, x
<1>3. x \in Byte
  BY <1>1, <1>2 DEF Byte
<1>4. /\ (x \div (2 ^ 0)) % 2 = c(0) /\ (x \div (2 ^ 1)) % 2 = c(1)
      /\ (x \div (2 ^ 2)) % 2 = c(2) /\ (x \div (2 ^ 3)) % 2 = c(3)
      /\ (x \div (2 ^ 4)) % 2 = c(4) /\ (x \div (2 ^ 5)) % 2 = c(5)
      /\ (x \div (2 ^ 6)) % 2 = c(6) /\ (x \div (2 ^ 7)) % 2 = c(7)
  <2>1. (x \div (2 ^ 0)) % 2 = c(0)
    BY <1>1, <1>2
  <2>2. (x \div (2 ^ 1)) % 2 = c(1)
    BY <1>1, <1>2
  <2>3. (x \div (2 ^ 2)) % 2 = c(2)
    BY <1>1, <1>2
  <2>4. (x \div (2 ^ 3)) % 2 = c(3)
    BY <1>1, <1>2
  <2>5. (x \div (2 ^ 4)) % 2 = c(4)
    BY <1>1, <1>2
  <2>6. (x \div (2 ^ 5)) % 2 = c(5)
    BY <1>1, <1>2
  <2>7. (x \div (2 ^ 6)) % 2 = c(6)
    BY <1>1, <1>2
  <2>8. (x \div (2 ^ 7)) % 2 = c(7)
    BY <1>1, <1>2
  <2> QED
    BY <2>1, <2>2, <2>3, <2>4, <2>5, <2>6, <2>7, <2>8
<1>5. \A i \in 0..7 : (x \div (2 ^ i)) % 2 = 1 <=> 8 * b + i \in bitset
  <2>1. \A i \in 0..7 : i = 0 \/ i = 1 \/ i = 2 \/ i = 3 \/ i = 4 \/ i = 5
                        \/ i = 6 \/ i = 7
    OBVIOUS
  <2> QED
    BY <1>1, <1>4, <2>1
<1> QED
  BY <1>3, <1>5 DEF BitIsSet, x

LEMMA InByte ==
  ASSUME NEW x \in Nat
  PROVE  x \div 8 \in Nat /\ x % 8 \in 0..7 /\ x = (x % 8) + 8 * (x \div 8)
OBVIOUS

(* What is asked of a filter is what was set in it.                        *)
HoldsBits(filter, bitset, bytes, probes) ==
  /\ filter \in Seq(Byte) /\ Len(filter) = bytes + 1
  /\ filter[bytes + 1] = probes
  /\ \A pos \in 0..(8 * bytes - 1) :
       BitIsSet(filter[(pos \div 8) + 1], pos % 8) <=> pos \in bitset

LEMMA FilterOfBitsIs ==
  ASSUME NEW bitset, NEW bytes \in Nat, NEW probes \in 1..30
  PROVE  HoldsBits(FilterOfBits(bitset, bytes, probes), bitset, bytes, probes)
<1> DEFINE filter == FilterOfBits(bitset, bytes, probes)
<1> DEFINE array == [ b \in 1..bytes |-> ByteOf(bitset, b - 1) ]
<1>1. ASSUME NEW b \in 1..bytes PROVE ByteOf(bitset, b - 1) \in Byte
  <2>1. b - 1 \in Nat
    OBVIOUS
  <2> QED
    BY <2>1, BloomByte
<1>2. /\ array \in [1..bytes -> Byte]
      /\ \A b \in 1..bytes : array[b] = ByteOf(bitset, b - 1)
  BY <1>1
<1>3. filter = array \o << probes >>
  BY DEF FilterOfBits
<1> HIDE DEF array, filter
<1>4. array \in Seq(Byte) /\ Len(array) = bytes
  <2>1. ASSUME NEW S, NEW n \in Nat, NEW f \in [1..n -> S]
        PROVE  f \in Seq(S) /\ Len(f) = n
    OBVIOUS
  <2> QED
    BY <1>2, <2>1
<1>5. << probes >> \in Seq(Byte) /\ Len(<< probes >>) = 1
        /\ << probes >>[1] = probes
  BY DEF Byte
<1>6. /\ filter \in Seq(Byte) /\ Len(filter) = bytes + 1
      /\ \A i \in 1..(bytes + 1) :
           filter[i] = IF i <= bytes THEN array[i]
                       ELSE << probes >>[i - bytes]
  <2> DEFINE t == << probes >>
  <2>1. t \in Seq(Byte) /\ Len(t) = 1
    BY <1>5
  <2> HIDE DEF t
  <2>2. /\ array \o t \in Seq(Byte)
        /\ Len(array \o t) = Len(array) + Len(t)
        /\ \A i \in 1..(Len(array) + Len(t)) :
             (array \o t)[i] = IF i <= Len(array) THEN array[i]
                               ELSE t[i - Len(array)]
    BY <1>4, <2>1, ConcatProperties
  <2>3. /\ array \o t \in Seq(Byte) /\ Len(array \o t) = bytes + 1
        /\ \A i \in 1..(bytes + 1) :
             (array \o t)[i] = IF i <= bytes THEN array[i] ELSE t[i - bytes]
    BY <1>4, <2>1, <2>2
  <2> QED
    BY <1>3, <2>3 DEF t
<1>7. filter[bytes + 1] = probes
  <2>1. bytes + 1 \in 1..(bytes + 1) /\ ~(bytes + 1 <= bytes)
          /\ (bytes + 1) - bytes = 1
    OBVIOUS
  <2> QED
    BY <1>5, <1>6, <2>1
<1>8. ASSUME NEW pos \in 0..(8 * bytes - 1)
      PROVE  BitIsSet(filter[(pos \div 8) + 1], pos % 8) <=> pos \in bitset
  <2> DEFINE b == pos \div 8
             i == pos % 8
  <2>1. b \in Nat /\ i \in 0..7 /\ pos = i + 8 * b
    <3>1. pos \in Nat
      OBVIOUS
    <3> QED
      BY <3>1, InByte
  <2> HIDE DEF b, i
  <2>2. /\ b + 1 \in 1..bytes /\ b + 1 \in 1..(bytes + 1) /\ b + 1 <= bytes
        /\ (b + 1) - 1 = b /\ 8 * b + i = pos
    BY <2>1
  <2>3. filter[b + 1] = ByteOf(bitset, b)
    BY <1>2, <1>6, <2>2
  <2>4. BitIsSet(filter[b + 1], i) <=> pos \in bitset
    BY <2>1, <2>2, <2>3, BloomByte
  <2> QED
    BY <2>4 DEF b, i
<1>9. HoldsBits(filter, bitset, bytes, probes)
  BY <1>6, <1>7, <1>8 DEF HoldsBits
<1> QED
  BY <1>9 DEF filter

(* All policies are Bloom filter policies.                                 *)
BloomPolicies ==
  /\ HashedKeys = Keys /\ Policies \subseteq Nat
  /\ \A policy \in Policies, list \in Seq(Keys) :
       /\ PolicyCreateFilter(policy, list) = CreateFilter(policy, list)
       /\ \A key \in Keys : PolicyMatches(policy, list, key)
                              <=> Matches(policy, list, key)
  /\ \A key \in Keys, filter \in Seq(Byte) :
       PolicyKeyMayMatch(key, filter) <=> BloomKeyMayMatch(key, filter)

LEMMA TouchedIs ==
  ASSUME FilterAssumption, HashedKeys = Keys, NEW key \in Keys,
         NEW probes \in 1..30, NEW bits \in Nat \ {0}
  PROVE  Touched(key, probes, bits) # {}
         /\ Touched(key, probes, bits) \subseteq 0..(bits - 1)
<1>1. \A j \in 0..29 : Hashes[key][j] \in Words
  <2>1. key \in Seq(Byte)
    BY DEF FilterAssumption
  <2>2. BloomHash(key) \in Words
    <3>1. << 52, 29, 159, 188 >> \in Words
      BY WordIs
    <3> QED
      BY <2>1, <3>1, HashType DEF BloomHash
  <2>3. Hashes[key] = Rehashed(BloomHash(key))
    BY DEF Hashes
  <2> QED
    BY <2>2, <2>3, RehashedType
<1>2. ASSUME NEW j \in 0..(probes - 1)
      PROVE  Modulo(Hashes[key][j], bits) \in 0..(bits - 1)
  <2>1. j \in 0..29
    OBVIOUS
  <2> QED
    BY <1>1, <2>1, ModuloType
<1>3. 0 \in 0..(probes - 1)
  OBVIOUS
<1> QED
  BY <1>2, <1>3 DEF Touched

LEMMA BloomKeeps ==
  ASSUME FilterAssumption, BloomPolicies,
         NEW policy \in Policies, NEW list \in Seq(Keys)
  PROVE  /\ FilterOf(policy, list) \in Seq(Byte)
         /\ \A i \in 1..Len(list) : PolicyMatches(policy, list, list[i])
         /\ \A key \in Keys : PolicyKeyMayMatch(key, FilterOf(policy, list))
                                <=> PolicyMatches(policy, list, key)
<1> DEFINE n == Len(list)
           probes == Probes(policy)
           bytes == FilterBytes(policy, n)
           bits == 8 * bytes
           bitset == BitsOfList(policy, list)
           filter == CreateFilter(policy, list)
           T(key) == Touched(key, probes, bits)
<1>1. policy \in Nat /\ n \in Nat /\ HashedKeys = Keys
  BY LenProperties DEF BloomPolicies
<1>2. /\ probes \in 1..30 /\ bytes \in Nat /\ bytes >= 8
      /\ FilterBits(policy, n) = bits
  <2> HIDE DEF n
  <2> QED
    BY <1>1, ProbesType, FilterSize
<1>3. bits \in Nat \ {0}
  <2> HIDE DEF bytes
  <2> QED
    BY <1>2
<1>4. \A key \in Keys : T(key) # {} /\ T(key) \subseteq 0..(bits - 1)
  <2> HIDE DEF probes, bits
  <2> QED
    BY <1>1, <1>2, <1>3, TouchedIs
<1>5. \A key \in Keys :
        PolicyMatches(policy, list, key) <=> T(key) \subseteq bitset
  <2>1. \A key : Matches(policy, list, key) <=> T(key) \subseteq bitset
    BY <1>2 DEF Matches
  <2> HIDE DEF T, bitset
  <2> QED
    BY <2>1 DEF BloomPolicies
<1>6. bitset = UNION { T(list[i]) : i \in 1..n }
  BY <1>2 DEF BitsOfList
<1>7. PolicyCreateFilter(policy, list) = FilterOfBits(bitset, bytes, probes)
  BY DEF BloomPolicies, CreateFilter
<1>8. ASSUME NEW i \in 1..n
      PROVE  list[i] \in Keys /\ T(list[i]) \subseteq bitset
  <2>1. list[i] \in Keys
    BY ElementOfSeq
  <2> HIDE DEF T, n, bitset
  <2> QED
    BY <1>6, <2>1
<1>9. \A i \in 1..n : PolicyMatches(policy, list, list[i])
  <2> HIDE DEF T, n, bitset
  <2> QED
    BY <1>5, <1>8
<1>10. CASE list = << >>
  <2>1. FilterOf(policy, list) = << >> /\ << >> \in Seq(Byte)
    BY <1>10, EmptySeq DEF FilterOf
  <2>2. bitset = {}
    <3>1. 1..n = {}
      BY <1>10
    <3> HIDE DEF T, n, bitset
    <3> QED
      BY <1>6, <3>1
  <2>3. ASSUME NEW key \in Keys PROVE ~PolicyKeyMayMatch(key, << >>)
    <3>1. ~BloomKeyMayMatch(key, << >>)
      BY EmptySeq DEF BloomKeyMayMatch
    <3> QED
      BY <2>1, <3>1 DEF BloomPolicies
  <2> HIDE DEF T, n, bitset
  <2>4. \A key \in Keys : ~PolicyMatches(policy, list, key)
    BY <1>4, <1>5, <2>2
  <2> QED
    BY <1>9, <2>1, <2>3, <2>4 DEF n
<1>11. CASE list # << >>
  <2> DEFINE f == FilterOfBits(bitset, bytes, probes)
  <2>1. FilterOf(policy, list) = f
    BY <1>7, <1>11 DEF FilterOf
  <2> HIDE DEF T, n, bitset, bytes, probes
  <2>0. HoldsBits(f, bitset, bytes, probes)
    BY <1>2, FilterOfBitsIs
  <2> HIDE DEF f
  <2>2. /\ f \in Seq(Byte) /\ Len(f) = bytes + 1 /\ f[bytes + 1] = probes
        /\ \A pos \in 0..(8 * bytes - 1) :
             BitIsSet(f[(pos \div 8) + 1], pos % 8) <=> pos \in bitset
    BY <2>0 DEF HoldsBits
  <2>3. ASSUME NEW key \in Keys
        PROVE  BloomKeyMayMatch(key, f) <=> T(key) \subseteq bitset
    <3>1. Len(f) >= 2 /\ Len(f) - 1 = bytes /\ ~(probes > 30)
      BY <1>2, <2>2
    <3>2. BloomKeyMayMatch(key, f) <=>
            \A pos \in Touched(key, probes, 8 * bytes) :
              BitIsSet(f[(pos \div 8) + 1], pos % 8)
      BY <2>2, <3>1 DEF BloomKeyMayMatch
    <3>3. T(key) = Touched(key, probes, 8 * bytes)
      BY DEF T
    <3>4. T(key) \subseteq 0..(8 * bytes - 1)
      BY <1>4
    <3> QED
      BY <2>2, <3>2, <3>3, <3>4
  <2>4. \A key \in Keys :
          PolicyKeyMayMatch(key, f) <=> BloomKeyMayMatch(key, f)
    BY <2>2 DEF BloomPolicies
  <2> QED
    BY <1>5, <1>9, <2>1, <2>2, <2>3, <2>4 DEF n
<1> QED
  BY <1>10, <1>11

(* The Bloom filter policy of bloom.cpp keeps the contract of              *)
(* filter_policy.h, for every number of bits per key, every list of keys   *)
(* of any length and bytes, and every key that is asked for: a filter is   *)
(* asked about the bits that were set in it, and no key of it is refused.  *)
THEOREM BloomKeepsContract ==
  ASSUME FilterAssumption, BloomPolicies
  PROVE  PoliciesContract
<1> SUFFICES ASSUME NEW policy \in Policies, NEW n \in 0..MaxKeys,
                    NEW list \in [1..n -> Keys]
             PROVE  /\ FilterOf(policy, list) \in Seq(Byte)
                    /\ \A i \in 1..n : PolicyMatches(policy, list, list[i])
                    /\ \A key \in Keys :
                         PolicyKeyMayMatch(key, FilterOf(policy, list))
                           <=> PolicyMatches(policy, list, key)
  BY DEF PoliciesContract, KeepsContract
<1>1. list \in Seq(Keys) /\ Len(list) = n
  <2>1. n \in Nat
    BY DEF FilterAssumption
  <2>2. ASSUME NEW S, NEW m \in Nat, NEW f \in [1..m -> S]
        PROVE  f \in Seq(S) /\ Len(f) = m
    OBVIOUS
  <2> QED
    BY <2>1, <2>2
<1> QED
  BY <1>1, BloomKeeps

(* And so the policy that a builder is given, and never changes, keeps it  *)
(* (PolicyContract).                                                       *)
THEOREM PolicyKeepsContract ==
  ASSUME FilterAssumption, BloomPolicies
  PROVE  Spec => []PolicyContract
<1>1. PoliciesContract
  BY BloomKeepsContract
<1>2. FilterInv => PolicyContract
  BY <1>1 DEF FilterInv, TypeOK, PolicyContract, PoliciesContract
<1> QED
  BY <1>1, <1>2, FilterAlways, PTL

(* With Bloom filters nothing is assumed of the policies: the reader turns *)
(* away no key of a block's range, and answers for exactly the keys of the *)
(* range what the bits of their hashes say.                                *)
THEOREM BloomFilterPage ==
  ASSUME FilterAssumption, BloomPolicies
  PROVE  Spec => [](Fits(buffer_) => NoFalseNegative /\ OneFilterPerRange)
<1>1. PoliciesContract
  BY BloomKeepsContract
<1>2. Spec => [](Fits(buffer_) => NoFalseNegative)
  BY <1>1, FilterFindsKeys
<1>3. Spec => [](Fits(buffer_) => OneFilterPerRange)
  BY <1>1, FilterPerRange
<1> QED
  BY <1>2, <1>3, PTL
=============================================================================
