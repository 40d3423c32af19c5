----------------------- MODULE DataPageBuilderProofs -----------------------
(***************************************************************************)
(* Proofs about DataPageBuilder for every interval between restart points, *)
(* page size, set of keys and values, and every use of the builder, the    *)
(* misuses (add() or finish() after finish(), reused key memory) included. *)
(***************************************************************************)
EXTENDS DataPageBuilder, PageProofs

(* What add() shares with the last restart key, as it is in memory, is a   *)
(* prefix of it and of the key.                                            *)
LEMMA CommonPrefixRight ==
  ASSUME NEW key \in Seq(Byte), NEW lastKey \in Seq(Byte),
         NEW p, p = CommonPrefix(key, lastKey)
  PROVE  /\ p \in 0..Len(key) /\ p <= Len(lastKey)
         /\ \A i \in 1..p : key[i] = lastKey[i]
<1> DEFINE least == Min({Len(key), Len(lastKey)})
           S == { n \in 0..least : \A i \in 1..n : key[i] = lastKey[i] }
<1>1. /\ least \in Nat /\ Len(key) \in Nat /\ Len(lastKey) \in Nat
      /\ least <= Len(key) /\ least <= Len(lastKey)
  <2>1. Len(key) \in Nat /\ Len(lastKey) \in Nat
    BY LenProperties
  <2> QED
    BY <2>1, MinOfTwo
<1>2. S \subseteq 0..least /\ 0 \in S
  BY <1>1
<1>3. \A n \in S : n \in 0..least /\ \A i \in 1..n : key[i] = lastKey[i]
  OBVIOUS
<1>4. p = Max(S)
  BY DEF CommonPrefix
<1> HIDE DEF S, least
<1>5. p \in S
  BY <1>1, <1>2, <1>4, MaxOfBounded
<1> QED
  BY <1>1, <1>3, <1>5

(* Memory of a Slice that is overwritten keeps its length.                 *)
LEMMA OverwrittenType ==
  ASSUME NEW old \in Seq(Byte), NEW new \in Seq(Byte)
  PROVE  /\ Overwritten(old, new) \in Seq(Byte)
         /\ Len(Overwritten(old, new)) = Len(old)
<1>1. Overwritten(old, new) \in [1..Len(old) -> Byte]
  BY DEF Overwritten
<1>2. Len(old) \in Nat
  BY LenProperties
<1> QED
  BY <1>1, <1>2, LenProperties

LEMMA EstimateType ==
  ASSUME NEW key \in Seq(Byte), NEW value \in Seq(Byte)
  PROVE  EstimateEntrySize(key, value) \in Nat
<1>1. Len(key) \in Nat /\ Len(value) \in Nat
  BY LenProperties
<1>2. \A n \in Nat : VarintLength(n) \in 1..5
  BY VarintLengthType
<1>3. VarintLength(Len(key)) \in Nat /\ VarintLength(Len(value)) \in Nat
  BY <1>1, <1>2
<1> QED
  BY <1>1, <1>3 DEF EstimateEntrySize, U32Size

(* The entry of a record never takes more than one byte more than the      *)
(* lengths and bytes that estimateEntrySize() counts for it.               *)
LEMMA EntryType ==
  ASSUME NEW key \in Seq(Byte), NEW value \in Seq(Byte),
         NEW p \in 0..Len(key)
  PROVE  /\ Entry(p, key, value) \in Seq(Byte)
         /\ Len(Entry(p, key, value)) \in Nat \ {0}
         /\ Len(Entry(p, key, value)) + U32Size
              <= EstimateEntrySize(key, value) + 1
<1> DEFINE suffix == SubSeq(key, p + 1, Len(key))
           e1 == EncodeVarint32(p)
           e2 == EncodeVarint32(Len(key) - p)
           e3 == EncodeVarint32(Len(value))
<1>1. /\ Len(key) \in Nat /\ Len(value) \in Nat /\ p \in Nat
      /\ Len(key) - p \in Nat /\ Len(key) - p \in 0..Len(key)
  BY LenProperties
<1>2. suffix \in Seq(Byte) /\ Len(suffix) = Len(key) - p
  <2>1. \A i \in (p + 1)..Len(key) : key[i] \in Byte
    OBVIOUS
  <2> QED
    BY <1>1, <2>1, SubSeqProperties
<1>3. e1 \in Seq(Byte) /\ Len(e1) = VarintLength(p)
  BY <1>1, EncodeVarint32Type
<1>4. e2 \in Seq(Byte) /\ Len(e2) = VarintLength(Len(key) - p)
  BY <1>1, EncodeVarint32Type
<1>5. e3 \in Seq(Byte) /\ Len(e3) = VarintLength(Len(value))
  BY <1>1, EncodeVarint32Type
<1>6. Entry(p, key, value) = e1 \o e2 \o e3 \o suffix \o value
  BY DEF Entry
<1> HIDE DEF suffix, e1, e2, e3
<1>7. /\ Entry(p, key, value) \in Seq(Byte)
      /\ Len(Entry(p, key, value))
           = Len(e1) + Len(e2) + Len(e3) + Len(suffix) + Len(value)
  <2> DEFINE f == e1 \o e2
             g == f \o e3
             h == g \o suffix
  <2>1. f \in Seq(Byte) /\ Len(f) = Len(e1) + Len(e2)
    BY <1>3, <1>4, ConcatBytes
  <2>2. Entry(p, key, value) = h \o value
    BY <1>6
  <2> HIDE DEF f
  <2>3. g \in Seq(Byte) /\ Len(g) = Len(f) + Len(e3)
    BY <1>5, <2>1, ConcatBytes
  <2> HIDE DEF g
  <2>4. h \in Seq(Byte) /\ Len(h) = Len(g) + Len(suffix)
    BY <1>2, <2>3, ConcatBytes
  <2> HIDE DEF h
  <2>5. h \o value \in Seq(Byte) /\ Len(h \o value) = Len(h) + Len(value)
    BY <2>4, ConcatBytes
  <2> QED
    BY <2>1, <2>2, <2>3, <2>4, <2>5
<1>8. /\ VarintLength(p) \in 1..5 /\ VarintLength(p) <= p + 1
      /\ VarintLength(Len(key) - p) \in 1..5
      /\ VarintLength(Len(key) - p) <= VarintLength(Len(key))
      /\ VarintLength(Len(value)) \in 1..5
      /\ VarintLength(Len(key)) \in 1..5
  <2>1. \A v \in Nat : /\ VarintLength(v) \in 1..5
                       /\ VarintLength(v) <= v + 1
                       /\ \A w \in 0..v : VarintLength(w) <= VarintLength(v)
    BY VarintLengthType
  <2> QED
    BY <1>1, <2>1
<1>9. EstimateEntrySize(key, value)
        = VarintLength(Len(key)) + Len(key) + VarintLength(Len(value))
            + Len(value) + 4
  BY DEF EstimateEntrySize, U32Size
<1> DEFINE total == Len(Entry(p, key, value))
           k == Len(key)
           v == Len(value)
           vp == VarintLength(p)
           vs == VarintLength(Len(key) - p)
           vk == VarintLength(Len(key))
           vv == VarintLength(Len(value))
<1>10. /\ total = vp + vs + vv + (k - p) + v
       /\ EstimateEntrySize(key, value) = vk + k + vv + v + 4
       /\ k \in Nat /\ v \in Nat /\ p \in 0..k
       /\ vp \in 1..5 /\ vp <= p + 1 /\ vs \in 1..5 /\ vs <= vk
       /\ vv \in 1..5 /\ vk \in 1..5
  BY <1>1, <1>2, <1>3, <1>4, <1>5, <1>7, <1>8, <1>9
<1> HIDE DEF total, k, v, vp, vs, vk, vv
<1>11. total \in Nat \ {0} /\ total + 4 <= EstimateEntrySize(key, value) + 1
  BY <1>10
<1> QED
  BY <1>7, <1>11 DEF total, U32Size

-----------------------------------------------------------------------------
(* finish() appends four bytes for each restart point and for their        *)
(* number, and the footer.                                                 *)
LEMMA FinishedSize ==
  ASSUME NEW body \in Seq(Byte), NEW offsets \in Seq(Nat), NEW type \in Byte
  PROVE  LET array == Fixed32Array(Append(offsets, Len(offsets)))
             whole == Sealed(body \o array, type)
         IN  /\ whole \in Seq(Byte)
             /\ Len(whole) = Len(body) + FooterSize
                               + U32Size * (1 + Len(offsets))
<1> DEFINE all == Append(offsets, Len(offsets))
           array == Fixed32Array(all)
<1>1. all \in Seq(Nat) /\ Len(all) = Len(offsets) + 1
  BY AppendProperties
<1> HIDE DEF all
<1>2. array \in Seq(Byte) /\ Len(array) = U32Size * Len(all)
  BY <1>1, Fixed32ArrayType
<1> HIDE DEF array
<1>3. /\ body \o array \in Seq(Byte)
      /\ Len(body \o array) = Len(body) + Len(array)
  BY <1>2, ConcatProperties
<1>4. /\ Sealed(body \o array, type) \in Seq(Byte)
      /\ Len(Sealed(body \o array, type)) = Len(body \o array) + FooterSize
  BY <1>3, SealedType
<1> QED
  BY <1>1, <1>2, <1>3, <1>4 DEF all, array, U32Size, FooterSize

-----------------------------------------------------------------------------
(* What the builder's types rest on is inductive as it stands.             *)
LEMMA BuilderTypeInit == BuilderInit => BuilderTypeOK
<1> SUFFICES ASSUME BuilderInit PROVE BuilderTypeOK
  OBVIOUS
<1>1. \A S : << >> \in Seq(S)
  BY EmptySeq
<1> QED
  BY <1>1, BuilderAssumption DEF BuilderInit, BuilderTypeOK

LEMMA AddTypes ==
  ASSUME BuilderTypeOK,
         NEW key \in Keys, NEW value \in RecordValues,
         NEW reuse \in KeyMemoryReuse,
         Add(key, value, reuse)
  PROVE  /\ BuilderTypeOK'
         /\ Len(buffer_') > Len(buffer_)
         /\ Len(buffer_') + U32Size * Len(restartPointOffsets_')
              <= Len(buffer_) + U32Size * Len(restartPointOffsets_)
                   + EstimateEntrySize(key, value) + 1
<1> USE BuilderAssumption
<1>1. key \in Seq(Byte) /\ value \in Seq(Byte)
  OBVIOUS
<1>2. /\ lastRestartPointKey_' \in Seq(Byte)
      /\ restartPointOffsets_' \in Seq(0..Len(buffer_))
      /\ Len(restartPointOffsets_')
           <= Len(restartPointOffsets_) + 1
      /\ \E p \in 0..Len(key) : buffer_' = buffer_ \o Entry(p, key, value)
  <2>1. CASE AtRestartPoint
    <3>1. Len(buffer_) \in 0..Len(buffer_)
      BY DEF BuilderTypeOK
    <3>2. /\ lastRestartPointKey_' = key
          /\ restartPointOffsets_' = Append(restartPointOffsets_, Len(buffer_))
          /\ buffer_' = buffer_ \o Entry(0, key, value)
      BY <2>1 DEF Add
    <3>3. 0 \in 0..Len(key)
      BY <1>1
    <3>4. /\ Append(restartPointOffsets_, Len(buffer_))
               \in Seq(0..Len(buffer_))
          /\ Len(Append(restartPointOffsets_, Len(buffer_)))
               = Len(restartPointOffsets_) + 1
      BY <3>1, AppendProperties DEF BuilderTypeOK
    <3>5. \E p \in 0..Len(key) : buffer_' = buffer_ \o Entry(p, key, value)
      BY <3>2, <3>3
    <3>6. Len(restartPointOffsets_) \in Nat
      BY LenProperties DEF BuilderTypeOK
    <3>7. Len(restartPointOffsets_') <= Len(restartPointOffsets_) + 1
      BY <3>2, <3>4, <3>6
    <3> QED
      BY <1>1, <3>2, <3>4, <3>5, <3>7
  <2>2. CASE ~AtRestartPoint
    <3>1. lastRestartPointKey_' \in Seq(Byte)
      BY <1>1, <2>2, OverwrittenType DEF Add, RestartKeyInMemory, BuilderTypeOK
    <3>2. CommonPrefix(key, lastRestartPointKey_') \in 0..Len(key)
      BY <1>1, <3>1, CommonPrefixRight
    <3>3. /\ restartPointOffsets_' = restartPointOffsets_
          /\ buffer_' = buffer_ \o Entry(
               CommonPrefix(key, lastRestartPointKey_'), key, value)
      BY <2>2 DEF Add
    <3>4. /\ restartPointOffsets_ \in Seq(0..Len(buffer_))
          /\ Len(restartPointOffsets_) \in Nat
      BY LenProperties DEF BuilderTypeOK
    <3>5. \E p \in 0..Len(key) : buffer_' = buffer_ \o Entry(p, key, value)
      BY <3>2, <3>3
    <3>6. Len(restartPointOffsets_') <= Len(restartPointOffsets_) + 1
      BY <3>3, <3>4
    <3> QED
      BY <3>1, <3>3, <3>4, <3>5, <3>6
  <2> QED
    BY <2>1, <2>2
<1>3. PICK p \in 0..Len(key) : buffer_' = buffer_ \o Entry(p, key, value)
  BY <1>2
<1>4. /\ Entry(p, key, value) \in Seq(Byte)
      /\ Len(Entry(p, key, value)) \in Nat \ {0}
      /\ Len(Entry(p, key, value)) + U32Size
           <= EstimateEntrySize(key, value) + 1
  BY <1>1, EntryType
<1>5. /\ buffer_' \in Seq(Byte)
      /\ Len(buffer_') = Len(buffer_) + Len(Entry(p, key, value))
  BY <1>3, <1>4, ConcatProperties DEF BuilderTypeOK
<1>6. restartPointOffsets_' \in Seq(0..Len(buffer_'))
  <2>1. 0..Len(buffer_) \subseteq 0..Len(buffer_')
    BY <1>4, <1>5 DEF BuilderTypeOK
  <2> QED
    BY <1>2, <2>1, SeqMonotonic
<1>7. added' \in Seq(Records)
  <2>1. [key |-> key, value |-> value, at |-> Len(buffer_)] \in Records
    BY DEF Records, BuilderTypeOK
  <2> QED
    BY <2>1, AppendProperties DEF Add, BuilderTypeOK
<1>8. /\ recordNum_' \in 0..MaxRecords
      /\ page' \in Seq(Byte) /\ finishes' \in 0..MaxFinishes
      /\ checked' \in BOOLEAN /\ stable' \in BOOLEAN
  BY DEF Add, BuilderTypeOK
<1>9. BuilderTypeOK'
  BY <1>2, <1>5, <1>6, <1>7, <1>8 DEF BuilderTypeOK
<1>10. /\ Len(buffer_) \in Nat /\ Len(restartPointOffsets_) \in Nat
       /\ Len(restartPointOffsets_') \in Nat
       /\ EstimateEntrySize(key, value) \in Nat
  <2>1. EstimateEntrySize(key, value) \in Nat
    BY <1>1, EstimateType
  <2> QED
    BY <1>6, <2>1 DEF BuilderTypeOK
<1> DEFINE n  == Len(restartPointOffsets_)
           n1 == Len(restartPointOffsets_')
           b  == Len(buffer_)
           b1 == Len(buffer_')
           entry == Len(Entry(p, key, value))
           estimate == EstimateEntrySize(key, value)
<1>11. /\ n \in Nat /\ n1 \in Nat /\ b \in Nat /\ estimate \in Nat
       /\ n1 <= n + 1
       /\ entry \in Nat \ {0} /\ entry + 4 <= estimate + 1
       /\ b1 = b + entry
  BY <1>2, <1>4, <1>5, <1>10 DEF U32Size
<1> HIDE DEF n, n1, b, b1, entry, estimate
<1>12. b1 > b /\ b1 + 4 * n1 <= b + 4 * n + estimate + 1
  BY <1>11
<1> QED
  BY <1>9, <1>12 DEF U32Size, n, n1, b, b1, estimate

LEMMA FinishTypes ==
  ASSUME BuilderTypeOK, Finish
  PROVE  /\ BuilderTypeOK'
         /\ page' = buffer_'
         /\ Len(buffer_') = Len(buffer_) + FooterSize
                              + U32Size * (1 + Len(restartPointOffsets_))
<1>1. restartPointOffsets_ \in Seq(Nat) /\ PageType \in Byte
  <2>1. 0..Len(buffer_) \subseteq Nat
    OBVIOUS
  <2> QED
    BY <2>1, SeqMonotonic, BuilderAssumption DEF BuilderTypeOK
<1>2. /\ buffer_' \in Seq(Byte)
      /\ Len(buffer_') = Len(buffer_) + FooterSize
                           + U32Size * (1 + Len(restartPointOffsets_))
  BY <1>1, FinishedSize DEF Finish, BuilderTypeOK
<1>3. restartPointOffsets_' \in Seq(0..Len(buffer_'))
  <2>1. 0..Len(buffer_) \subseteq 0..Len(buffer_')
    BY <1>1, <1>2 DEF BuilderTypeOK, U32Size, FooterSize
  <2> QED
    BY <2>1, SeqMonotonic DEF BuilderTypeOK, Finish
<1> QED
  BY <1>2, <1>3, BuilderAssumption DEF BuilderTypeOK, Finish

LEMMA ResetTypes ==
  ASSUME BuilderTypeOK, Reset
  PROVE  BuilderTypeOK'
<1>1. \A S : << >> \in Seq(S)
  BY EmptySeq
<1> QED
  BY <1>1, BuilderAssumption DEF BuilderTypeOK, Reset

(* Whatever is called, in whatever order, the builder's state keeps its    *)
(* types: every byte appended is a byte, no restart offset lies beyond the *)
(* buffer, and the shared prefix is never longer than the key.             *)
THEOREM BuilderTypeCorrect == BuilderSpec => []BuilderTypeOK
<1>1. BuilderTypeOK /\ [BuilderNext]_builderVars => BuilderTypeOK'
  <2> SUFFICES ASSUME BuilderTypeOK, [BuilderNext]_builderVars
               PROVE  BuilderTypeOK'
    OBVIOUS
  <2>1. CASE \E key \in Keys, value \in RecordValues,
                reuse \in KeyMemoryReuse : Add(key, value, reuse)
    BY <2>1, AddTypes
  <2>2. CASE Finish
    BY <2>2, FinishTypes
  <2>3. CASE Reset
    BY <2>3, ResetTypes
  <2>4. CASE UNCHANGED builderVars
    BY <2>4 DEF builderVars, BuilderTypeOK
  <2> QED
    BY <2>1, <2>2, <2>3, <2>4 DEF BuilderNext
<1> QED
  BY <1>1, BuilderTypeInit, PTL DEF BuilderSpec

-----------------------------------------------------------------------------
(* PageFits is not inductive: it says nothing of a page before finish().   *)
(* The room that finish() needs is there from the last checked add() on,   *)
(* and an add() after finish() makes the page a proper prefix of buffer_.  *)
FitsInv ==
  /\ BuilderTypeOK
  /\ Len(page) <= Len(buffer_)
  /\ finishes = 0 => page = << >>
  /\ finishes = 0 /\ checked /\ added # << >> =>
       Len(buffer_) + FooterSize + U32Size * (1 + Len(restartPointOffsets_))
         <= PageSize
  /\ PageFits

LEMMA FitsInit == BuilderInit => FitsInv
BY BuilderTypeInit, EmptySeq DEF BuilderInit, FitsInv, PageFits, WholePage

LEMMA AddFits ==
  ASSUME FitsInv,
         NEW key \in Keys, NEW value \in RecordValues,
         NEW reuse \in KeyMemoryReuse,
         Add(key, value, reuse)
  PROVE  FitsInv'
<1>1. /\ BuilderTypeOK'
      /\ Len(buffer_') > Len(buffer_)
      /\ Len(buffer_') + U32Size * Len(restartPointOffsets_')
           <= Len(buffer_) + U32Size * Len(restartPointOffsets_)
                + EstimateEntrySize(key, value) + 1
  BY AddTypes DEF FitsInv
<1>2. /\ page' = page /\ finishes' = finishes
      /\ checked' = (checked /\ EstimateSize + EstimateEntrySize(key, value)
                                  <= PageSize)
  BY DEF Add
<1>3. /\ Len(page) \in Nat /\ Len(buffer_) \in Nat /\ Len(buffer_') \in Nat
      /\ Len(restartPointOffsets_) \in Nat
      /\ Len(restartPointOffsets_') \in Nat
  BY <1>1 DEF FitsInv, BuilderTypeOK
<1>4. EstimateEntrySize(key, value) \in Nat
  <2>1. key \in Seq(Byte) /\ value \in Seq(Byte)
    BY BuilderAssumption
  <2> QED
    BY <2>1, EstimateType
<1>5. Len(page') <= Len(buffer_') /\ page' # buffer_'
  BY <1>1, <1>2, <1>3 DEF FitsInv
<1>6. checked' =>
        Len(buffer_') + FooterSize + U32Size * (1 + Len(restartPointOffsets_'))
          <= PageSize
  <2> SUFFICES ASSUME checked'
               PROVE  Len(buffer_') + FooterSize
                        + U32Size * (1 + Len(restartPointOffsets_'))
                          <= PageSize
    OBVIOUS
  <2>1. EstimateSize + EstimateEntrySize(key, value) <= PageSize
    BY <1>2
  <2> QED
    BY SMTT(30), <1>1, <1>3, <1>4, <2>1, BuilderAssumption
       DEF EstimateSize, FooterSize, U32Size
<1>7. PageFits'
  BY <1>5 DEF PageFits, WholePage
<1> QED
  BY <1>1, <1>2, <1>5, <1>6, <1>7 DEF FitsInv

LEMMA FinishFits ==
  ASSUME FitsInv, Finish
  PROVE  FitsInv'
<1>1. /\ BuilderTypeOK'
      /\ page' = buffer_'
      /\ Len(buffer_') = Len(buffer_) + FooterSize
                           + U32Size * (1 + Len(restartPointOffsets_))
  BY FinishTypes DEF FitsInv
<1>2. /\ finishes' = finishes + 1 /\ finishes \in Nat
      /\ checked' = checked /\ added' = added
  BY DEF Finish, FitsInv, BuilderTypeOK
<1>3. PageFits'
  BY <1>1, <1>2 DEF FitsInv, PageFits, WholePage
<1>4. Len(page') <= Len(buffer_')
  BY <1>1 DEF BuilderTypeOK
<1> QED
  BY <1>1, <1>2, <1>3, <1>4 DEF FitsInv

LEMMA ResetFits ==
  ASSUME FitsInv, Reset
  PROVE  FitsInv'
BY ResetTypes, EmptySeq DEF FitsInv, Reset, PageFits, WholePage

(* A page whose records were each added with estimateSize() plus           *)
(* estimateEntrySize() within pageSize() is itself within pageSize(),      *)
(* however long keys and values are and however much they share            *)
(* (data_page_test.cpp:48 and 56).                                         *)
THEOREM PagesFit == BuilderSpec => []PageFits
<1>1. FitsInv /\ [BuilderNext]_builderVars => FitsInv'
  <2> SUFFICES ASSUME FitsInv, [BuilderNext]_builderVars PROVE FitsInv'
    OBVIOUS
  <2>1. CASE \E key \in Keys, value \in RecordValues,
                reuse \in KeyMemoryReuse : Add(key, value, reuse)
    BY <2>1, AddFits
  <2>2. CASE Finish
    BY <2>2, FinishFits
  <2>3. CASE Reset
    BY <2>3, ResetFits
  <2>4. CASE UNCHANGED builderVars
    BY <2>4 DEF builderVars, FitsInv, BuilderTypeOK, PageFits, WholePage
  <2> QED
    BY <2>1, <2>2, <2>3, <2>4 DEF BuilderNext
<1>2. FitsInv => PageFits
  BY DEF FitsInv
<1> QED
  BY <1>1, <1>2, FitsInit, PTL DEF BuilderSpec

-----------------------------------------------------------------------------
(* The parts of an entry where it stands.                                  *)
LEMMA EntryApart ==
  ASSUME NEW key \in Seq(Byte), NEW value \in Seq(Byte),
         NEW p \in 0..Len(key), NEW data, NEW at \in Nat,
         Stands(Entry(p, key, value), data, at)
  PROVE  LET suffix == SubSeq(key, p + 1, Len(key))
             o1 == at + VarintLength(p)
             o2 == o1 + VarintLength(Len(key) - p)
             o3 == o2 + VarintLength(Len(value))
         IN  /\ Stands(EncodeVarint32(p), data, at)
             /\ Stands(EncodeVarint32(Len(key) - p), data, o1)
             /\ Stands(EncodeVarint32(Len(value)), data, o2)
             /\ suffix \in Seq(Byte) /\ Len(suffix) = Len(key) - p
             /\ Stands(suffix, data, o3)
             /\ Stands(value, data, o3 + (Len(key) - p))
             /\ o1 \in Nat /\ o2 \in Nat /\ o3 \in Nat /\ at <= o3
             /\ at + Len(Entry(p, key, value))
                  = o3 + (Len(key) - p) + Len(value)
<1> DEFINE suffix == SubSeq(key, p + 1, Len(key))
           e1 == EncodeVarint32(p)
           e2 == EncodeVarint32(Len(key) - p)
           e3 == EncodeVarint32(Len(value))
           f == e1 \o e2
           g == f \o e3
           h == g \o suffix
<1>1. /\ Len(key) \in Nat /\ Len(value) \in Nat /\ p \in Nat
      /\ Len(key) - p \in Nat
  BY LenProperties
<1>2. suffix \in Seq(Byte) /\ Len(suffix) = Len(key) - p
  <2>1. \A i \in (p + 1)..Len(key) : key[i] \in Byte
    OBVIOUS
  <2> QED
    BY <1>1, <2>1, SubSeqProperties
<1>3. /\ e1 \in Seq(Byte) /\ Len(e1) = VarintLength(p)
      /\ VarintLength(p) \in 1..5
  BY <1>1, EncodeVarint32Type, VarintLengthType
<1>4. /\ e2 \in Seq(Byte) /\ Len(e2) = VarintLength(Len(key) - p)
      /\ VarintLength(Len(key) - p) \in 1..5
  BY <1>1, EncodeVarint32Type, VarintLengthType
<1>5. /\ e3 \in Seq(Byte) /\ Len(e3) = VarintLength(Len(value))
      /\ VarintLength(Len(value)) \in 1..5
  BY <1>1, EncodeVarint32Type, VarintLengthType
<1>6. Entry(p, key, value) = h \o value
  BY DEF Entry
<1> DEFINE v1 == VarintLength(p)
           v2 == VarintLength(Len(key) - p)
           v3 == VarintLength(Len(value))
           k == Len(key) - p
<1> HIDE DEF suffix, e1, e2, e3, v1, v2, v3, k
<1>7. f \in Seq(Byte) /\ Len(f) = Len(e1) + Len(e2)
  BY <1>3, <1>4, ConcatBytes
<1> HIDE DEF f
<1>8. g \in Seq(Byte) /\ Len(g) = Len(f) + Len(e3)
  BY <1>5, <1>7, ConcatBytes
<1> HIDE DEF g
<1>9. h \in Seq(Byte) /\ Len(h) = Len(g) + Len(suffix)
  BY <1>2, <1>8, ConcatBytes
<1> HIDE DEF h
<1>10. Len(h \o value) = Len(h) + Len(value)
  BY <1>9, ConcatBytes
<1>11. /\ v1 \in Nat /\ v2 \in Nat /\ v3 \in Nat /\ k \in Nat
       /\ Len(e1) = v1 /\ Len(f) = v1 + v2 /\ Len(g) = v1 + v2 + v3
       /\ Len(h) = v1 + v2 + v3 + k
       /\ Len(h \o value) = v1 + v2 + v3 + k + Len(value)
  BY <1>1, <1>2, <1>3, <1>4, <1>5, <1>7, <1>8, <1>9, <1>10
     DEF v1, v2, v3, k
<1>12. Stands(h, data, at) /\ Stands(value, data, at + Len(h))
  BY <1>6, <1>9, StandsApart
<1>13. Stands(g, data, at) /\ Stands(suffix, data, at + Len(g))
  BY <1>2, <1>8, <1>12, StandsApart DEF h
<1>14. Stands(f, data, at) /\ Stands(e3, data, at + Len(f))
  BY <1>5, <1>7, <1>13, StandsApart DEF g
<1>15. Stands(e1, data, at) /\ Stands(e2, data, at + Len(e1))
  BY <1>3, <1>4, <1>14, StandsApart DEF f
<1>16. /\ at + Len(e1) = at + v1 /\ at + Len(f) = at + v1 + v2
       /\ at + Len(g) = at + v1 + v2 + v3
       /\ at + Len(h) = at + v1 + v2 + v3 + k
       /\ at + Len(h \o value) = at + v1 + v2 + v3 + k + Len(value)
       /\ at + v1 \in Nat /\ at + v1 + v2 \in Nat
       /\ at + v1 + v2 + v3 \in Nat /\ at <= at + v1 + v2 + v3
  BY <1>1, <1>11
<1> QED
  BY <1>2, <1>6, <1>12, <1>13, <1>14, <1>15, <1>16
     DEF suffix, e1, e2, e3, v1, v2, v3, k

(* What the accessors of the reader find at an offset of data: an entry    *)
(* that shares p bytes of its key.                                         *)
EntryRead(data, at, p, key, value) ==
  LET h == EntryHeader(data, at)
  IN  /\ h.prefix = p /\ h.body \in Nat
      /\ SizeOf(at, h) = Len(Entry(p, key, value))
      /\ SuffixOf(data, h) = SubSeq(key, p + 1, Len(key))
      /\ ValueOf(data, h) = value
      /\ Stands(SubSeq(key, p + 1, Len(key)), data, h.body)
      /\ h.body + (Len(key) - p) <= Len(data)

(* In less than 2^28 bytes they find the entry that stands there.          *)
LEMMA EntryReadsBack ==
  ASSUME NEW key \in Seq(Byte), NEW value \in Seq(Byte),
         NEW p \in 0..Len(key), p < Pow128[5],
         NEW data \in Seq(Byte), Len(data) < Pow128[5], NEW at \in Nat,
         Stands(Entry(p, key, value), data, at),
         at + Len(Entry(p, key, value)) <= Len(data)
  PROVE  EntryRead(data, at, p, key, value)
<1> PICK h : h = EntryHeader(data, at)
  OBVIOUS
<1> DEFINE suffix == SubSeq(key, p + 1, Len(key))
           k == Len(key) - p
           v == Len(value)
           o1 == at + VarintLength(p)
           o2 == o1 + VarintLength(k)
           o3 == o2 + VarintLength(v)
           all == Len(Entry(p, key, value))
<1>1. /\ Stands(EncodeVarint32(p), data, at)
      /\ Stands(EncodeVarint32(k), data, o1)
      /\ Stands(EncodeVarint32(v), data, o2)
      /\ suffix \in Seq(Byte) /\ Len(suffix) = k
      /\ Stands(suffix, data, o3)
      /\ Stands(value, data, o3 + k)
      /\ o1 \in Nat /\ o2 \in Nat /\ o3 \in Nat /\ at <= o3
      /\ at + all = o3 + k + v
  BY EntryApart
<1>2. k \in Nat /\ v \in Nat /\ Len(data) \in Nat /\ all \in Nat
      /\ p \in Nat
  BY EntryType, LenProperties
<1>3. GetVarint32(data, at, U32Size) = p
  BY <1>1, <1>2, CellReadsBack
<1>4. k < Pow128[5] /\ v < Pow128[5]
  <2>1. k <= all /\ v <= all /\ at + all <= Len(data)
    <3> HIDE DEF all, k, v, o3
    <3> QED
      BY SMTT(30), <1>1, <1>2 DEF all
  <2> HIDE DEF all, k, v
  <2> QED
    BY <1>2, <2>1 DEF Pow128
<1> HIDE DEF k, v, all
<1>5. GetVarint32(data, o1, U32Size) = k
  BY <1>1, <1>2, <1>4, CellReadsBack
<1>6. GetVarint32(data, o2, U32Size) = v
  BY <1>1, <1>2, <1>4, CellReadsBack
<1>7. /\ h.prefix = p /\ h.suffix = k /\ h.value = v /\ h.body = o3
  BY <1>3, <1>5, <1>6 DEF EntryHeader
<1> HIDE DEF o1, o2, o3, suffix
<1>8. o3 + k <= Len(data) /\ o3 + k + v <= Len(data) /\ o3 + k \in Nat
  BY <1>1, <1>2 DEF all
<1>9. (o3 - at) + k + v = all
  BY <1>1, <1>2
<1>10. SuffixOf(data, h) = suffix
  <2>1. Bytes(data, o3, k) = SubSeq(suffix, 1, k)
    <3>1. k \in 0..Len(suffix) /\ o3 + Len(suffix) <= Len(data)
      BY <1>1, <1>2, <1>8
    <3> QED
      BY <1>1, <3>1, BytesThatStand
  <2>2. SubSeq(suffix, 1, k) = suffix
    BY <1>1
  <2> QED
    BY <1>7, <2>1, <2>2 DEF SuffixOf
<1>11. ValueOf(data, h) = value
  <2>1. Bytes(data, o3 + k, v) = SubSeq(value, 1, v)
    <3>1. v \in 0..Len(value) /\ o3 + k + Len(value) <= Len(data)
      BY <1>2, <1>8 DEF v
    <3> QED
      BY <1>1, <1>8, <3>1, BytesThatStand
  <2>2. SubSeq(value, 1, v) = value
    BY DEF v
  <2> QED
    BY <1>7, <2>1, <2>2 DEF ValueOf
<1> QED
  BY <1>1, <1>7, <1>8, <1>9, <1>10, <1>11
     DEF EntryRead, SizeOf, all, suffix, k

-----------------------------------------------------------------------------
(* Quotient and remainder.                                                 *)
LEMMA DivMod ==
  ASSUME NEW a \in Nat, NEW d \in Nat \ {0}
  PROVE  /\ a \div d \in Nat /\ a % d \in 0..(d - 1)
         /\ a = (a \div d) * d + (a % d)
<1>1. a \div d \in Nat
  OBVIOUS
<1>2. a % d \in 0..(d - 1)
  OBVIOUS
<1>3. a = d * (a \div d) + (a % d)
  OBVIOUS
<1> QED
  BY <1>1, <1>2, <1>3

LEMMA DivUnique ==
  ASSUME NEW q \in Nat, NEW r \in Nat, NEW d \in Nat \ {0}, r < d
  PROVE  (q * d + r) \div d = q
<1> DEFINE a == q * d + r
           p == a \div d
           s == a % d
<1>1. a \in Nat /\ q * d \in Nat
  OBVIOUS
<1>2. p \in Nat /\ s \in 0..(d - 1) /\ a = p * d + s
  BY <1>1, DivMod
<1> HIDE DEF p, s
<1>3. (p - q) * d = r - s
  BY <1>1, <1>2
<1>4. p - q < 1
  <2>1. CASE p - q >= 1
    <3>1. (p - q) * d >= d
      BY <1>2, <2>1
    <3> QED
      BY <1>2, <1>3, <3>1
  <2> QED
    BY <1>2, <2>1
<1>5. p - q > -1
  <2>1. CASE q - p >= 1
    <3>1. (q - p) * d >= d
      BY <1>2, <2>1
    <3>2. (q - p) * d = s - r
      BY <1>2, <1>3
    <3> QED
      BY <1>2, <3>1, <3>2
  <2> QED
    BY <1>2, <2>1
<1> QED
  BY <1>2, <1>4, <1>5 DEF p

-----------------------------------------------------------------------------
(* The first record of the block that record j belongs to.                 *)
FirstOf(j) == RestartOf(j) * RestartPointInterval + 1

(* Where record j ends and the next one starts.                            *)
EndOf(body, j) == IF j < Len(added) THEN added[j + 1].at ELSE Len(body)

(* The entry of record j, with p shared bytes, stands in body.             *)
EntryStands(body, j, p) ==
  /\ Stands(Entry(p, added[j].key, added[j].value), body, added[j].at)
  /\ EndOf(body, j)
       = added[j].at + Len(Entry(p, added[j].key, added[j].value))
  /\ EndOf(body, j) <= Len(body)

(* Record j shares p bytes with the first record of its block.             *)
Shares(j, p) ==
  /\ p \in 0..Len(added[j].key) /\ p <= Len(added[FirstOf(j)].key)
  /\ j = FirstOf(j) => p = 0
  /\ stable => \A i \in 1..p : added[j].key[i] = added[FirstOf(j)].key[i]

Walks(body) ==
  /\ EndOf(body, 0) = 0
  /\ \A j \in 1..Len(added) :
       \E p \in Nat : Shares(j, p) /\ EntryStands(body, j, p)

(* The restart offsets are those of the records that open a block.         *)
RestartsNamed ==
  /\ recordNum_ = Len(added)
  /\ Len(restartPointOffsets_)
       = IF added = << >> THEN 0 ELSE RestartOf(Len(added)) + 1
  /\ \A r \in 0..(Len(restartPointOffsets_) - 1) :
       /\ r * RestartPointInterval + 1 \in 1..Len(added)
       /\ restartPointOffsets_[r + 1]
            = added[r * RestartPointInterval + 1].at

(* lastRestartPointKey_ is as long as the key that the block opened with,  *)
(* and is that key if no memory was reused.                                *)
RestartKeyKept ==
  added # << >> =>
    LET first == added[FirstOf(Len(added))].key
    IN  /\ Len(lastRestartPointKey_) = Len(first)
        /\ stable => lastRestartPointKey_ = first

(* What finish() made of the records.                                      *)
Closed(body) ==
  page = Sealed(body \o Fixed32Array(Append(restartPointOffsets_,
                                            Len(restartPointOffsets_))),
                PageType)

WalkInv ==
  /\ BuilderTypeOK
  /\ Len(page) <= Len(buffer_)
  /\ finishes = 0 => page = << >> /\ Walks(buffer_)
  /\ RestartsNamed
  /\ RestartKeyKept
  /\ WholePage => \E body \in Seq(Byte) : Closed(body) /\ Walks(body)

(* Every length in a page of less than 2^28 bytes is written in at most    *)
(* the four bytes that its readers look at.                                *)
Readable == Len(page) < Pow128[5]

(* Records come in blocks: where the next one goes.                        *)
LEMMA NextBlock ==
  ASSUME NEW n \in Nat, NEW d \in Nat \ {0}
  PROVE  /\ n % d = 0 => (n \div d) * d = n
         /\ n % d = 0 /\ n # 0 => n \div d = ((n - 1) \div d) + 1
         /\ n % d # 0 => n # 0 /\ n \div d = (n - 1) \div d
<1> DEFINE q == n \div d
           r == n % d
<1>1. q \in Nat /\ r \in 0..(d - 1) /\ n = q * d + r
  BY DivMod
<1> HIDE DEF q, r
<1>2. CASE r = 0
  <2>1. q * d = n
    BY <1>1, <1>2
  <2>2. ASSUME n # 0 PROVE (n - 1) \div d = q - 1
    <3>1. q # 0
      BY <1>1, <1>2, <2>2
    <3>2. q - 1 \in Nat /\ d - 1 \in Nat /\ d - 1 < d
      BY <1>1, <3>1
    <3>3. n - 1 = (q - 1) * d + (d - 1)
      BY <1>1, <1>2
    <3> QED
      BY <3>2, <3>3, DivUnique
  <2> QED
    BY <1>1, <1>2, <2>1, <2>2 DEF q, r
<1>3. CASE r # 0
  <2>1. n # 0
    BY <1>1, <1>3
  <2>2. r - 1 \in Nat /\ r - 1 < d /\ n - 1 = q * d + (r - 1)
    BY <1>1, <1>3
  <2>3. (n - 1) \div d = q
    BY <1>1, <2>2, DivUnique
  <2> QED
    BY <1>3, <2>1, <2>3 DEF q, r
<1> QED
  BY <1>2, <1>3

LEMMA BlockOf ==
  ASSUME NEW n \in Nat \ {0}
  PROVE  /\ RestartOf(n) \in Nat
         /\ FirstOf(n) \in 1..n
         /\ RestartOf(FirstOf(n)) = RestartOf(n)
         /\ \A j \in 1..n : RestartOf(j) \in 0..RestartOf(n)
<1> DEFINE d == RestartPointInterval
           q == (n - 1) \div d
<1>1. d \in Nat \ {0} /\ n - 1 \in Nat
  BY BuilderAssumption
<1>2. q \in Nat /\ (n - 1) % d \in 0..(d - 1) /\ n - 1 = q * d + ((n - 1) % d)
  BY <1>1, DivMod
<1> DEFINE r == (n - 1) % d
<1>3. RestartOf(n) = q /\ FirstOf(n) = q * d + 1
  BY DEF RestartOf, FirstOf
<1>4. \A j \in 1..n : RestartOf(j) \in 0..q
  <2> TAKE j \in 1..n
  <2>1. j - 1 \in Nat /\ j - 1 <= n - 1
    BY <1>1
  <2>2. (j - 1) \div d \in Nat /\ (j - 1) \div d <= q
    BY <1>1, <2>1
  <2> QED
    BY <1>2, <2>2 DEF RestartOf
<1> HIDE DEF q, r
<1>5. q * d \in Nat /\ q * d + 1 \in 1..n
  BY <1>1, <1>2
<1>6. (q * d) \div d = q
  <2>1. (q * d + 0) \div d = q
    BY <1>1, <1>2, DivUnique
  <2> QED
    BY <1>5, <2>1
<1>7. RestartOf(q * d + 1) = q
  <2>1. (q * d + 1) - 1 = q * d
    BY <1>5
  <2> QED
    BY <1>6, <2>1 DEF RestartOf
<1> QED
  BY <1>2, <1>3, <1>4, <1>5, <1>7

-----------------------------------------------------------------------------
(* The records before the one that add() adds are as they were.            *)
LEMMA AddedOne ==
  ASSUME BuilderTypeOK, NEW key, NEW value, NEW reuse, Add(key, value, reuse),
         key \in Keys, value \in RecordValues
  PROVE  LET n == Len(added)
         IN  /\ n \in Nat /\ Len(added') = n + 1 /\ added' # << >>
             /\ \A j \in 1..n : added'[j] = added[j]
             /\ added'[n + 1].key = key /\ added'[n + 1].value = value
             /\ added'[n + 1].at = Len(buffer_)
<1>1. added \in Seq(Records) /\ Len(added) \in Nat
  BY LenProperties DEF BuilderTypeOK
<1> DEFINE new == [key |-> key, value |-> value, at |-> Len(buffer_)]
<1>2. added' = Append(added, new) /\ new \in Records
  BY DEF Add, Records, BuilderTypeOK
<1>3. new.key = key /\ new.value = value /\ new.at = Len(buffer_)
  OBVIOUS
<1> HIDE DEF new
<1>4. /\ Len(added') = Len(added) + 1
      /\ \A j \in 1..Len(added) : added'[j] = added[j]
      /\ added'[Len(added) + 1] = new
  BY <1>1, <1>2, AppendProperties
<1>5. added' # << >>
  BY <1>1, <1>4, EmptySeq
<1> QED
  BY <1>1, <1>3, <1>4, <1>5

(* A record that opens a block.                                            *)
LEMMA AddOpens ==
  ASSUME BuilderTypeOK, RestartsNamed,
         NEW key \in Keys, NEW value \in RecordValues,
         NEW reuse \in KeyMemoryReuse, Add(key, value, reuse), AtRestartPoint
  PROVE  /\ buffer_' = buffer_ \o Entry(0, key, value)
         /\ Shares(Len(added), 0)'
         /\ RestartsNamed'
         /\ RestartKeyKept'
<1> DEFINE n == Len(added)
           N == Len(restartPointOffsets_)
           d == RestartPointInterval
<1>1. /\ n \in Nat /\ Len(added') = n + 1 /\ added' # << >>
      /\ \A j \in 1..n : added'[j] = added[j]
      /\ added'[n + 1].key = key /\ added'[n + 1].value = value
      /\ added'[n + 1].at = Len(buffer_)
  BY AddedOne
<1>2. /\ lastRestartPointKey_' = key
      /\ restartPointOffsets_' = Append(restartPointOffsets_, Len(buffer_))
      /\ buffer_' = buffer_ \o Entry(0, key, value)
      /\ recordNum_' = recordNum_ + 1 /\ recordNum_ = n /\ n % d = 0
  BY DEF Add, AtRestartPoint, RestartsNamed
<1>3. d \in Nat \ {0} /\ key \in Seq(Byte) /\ Len(key) \in Nat
  BY BuilderAssumption, LenProperties
<1>4. (n \div d) * d = n /\ (n # 0 => n \div d = ((n - 1) \div d) + 1)
        /\ n \div d \in Nat
  BY <1>1, <1>2, <1>3, NextBlock, DivMod
<1>5. RestartOf(n + 1) = n \div d
  <2>1. (n + 1) - 1 = n
    BY <1>1
  <2> QED
    BY <2>1 DEF RestartOf
<1>6. FirstOf(n + 1) = n + 1
  BY <1>4, <1>5 DEF FirstOf
<1>7. N = n \div d
  <2>1. CASE n = 0
    <3>1. added = << >>
      BY <2>1, EmptySeq DEF BuilderTypeOK
    <3>2. 0 \div d = 0
      BY <1>3
    <3> QED
      BY <2>1, <3>1, <3>2 DEF RestartsNamed
  <2>2. CASE n # 0
    <3>1. added # << >>
      BY <2>2, EmptySeq
    <3> QED
      BY <1>4, <2>2, <3>1 DEF RestartsNamed, RestartOf
  <2> QED
    BY <2>1, <2>2
<1>8. /\ restartPointOffsets_ \in Seq(Nat) /\ N \in Nat
      /\ Len(buffer_) \in Nat
  BY LenProperties DEF BuilderTypeOK
<1>9. /\ Len(restartPointOffsets_') = N + 1
      /\ \A i \in 1..N : restartPointOffsets_'[i] = restartPointOffsets_[i]
      /\ restartPointOffsets_'[N + 1] = Len(buffer_)
  BY <1>2, <1>8, AppendProperties
<1>10. RestartsNamed'
  <2>1. recordNum_' = Len(added')
    BY <1>1, <1>2
  <2>2. Len(restartPointOffsets_') = RestartOf(Len(added')) + 1
    BY <1>1, <1>5, <1>7, <1>9
  <2>3. ASSUME NEW r \in 0..(Len(restartPointOffsets_') - 1)
        PROVE  /\ r * d + 1 \in 1..Len(added')
               /\ restartPointOffsets_'[r + 1] = added'[r * d + 1].at
    <3>1. CASE r = N
      <4>1. r * d + 1 = n + 1
        BY <1>4, <1>7, <3>1
      <4> QED
        BY <1>1, <1>9, <3>1, <4>1
    <3>2. CASE r # N
      <4>1. r \in 0..(N - 1) /\ r + 1 \in 1..N
        BY <1>8, <1>9, <3>2
      <4>2. /\ r * d + 1 \in 1..n
            /\ restartPointOffsets_[r + 1] = added[r * d + 1].at
        BY <4>1 DEF RestartsNamed
      <4>3. added'[r * d + 1] = added[r * d + 1]
        BY <1>1, <4>2
      <4>4. r * d + 1 \in 1..Len(added')
        BY <1>1, <4>2
      <4> QED
        BY <1>9, <4>1, <4>2, <4>3, <4>4
    <3> QED
      BY <3>1, <3>2
  <2> QED
    BY <1>1, <2>1, <2>2, <2>3 DEF RestartsNamed
<1>11. Shares(Len(added), 0)'
  BY <1>1, <1>3, <1>6 DEF Shares
<1>12. RestartKeyKept'
  BY <1>1, <1>2, <1>6 DEF RestartKeyKept
<1> QED
  BY <1>2, <1>10, <1>11, <1>12

(* A record that shares bytes with the one that opened its block.          *)
LEMMA AddShares ==
  ASSUME BuilderTypeOK, RestartsNamed, RestartKeyKept,
         NEW key \in Keys, NEW value \in RecordValues,
         NEW reuse \in KeyMemoryReuse, Add(key, value, reuse), ~AtRestartPoint
  PROVE  \E p \in 0..Len(key) :
           /\ buffer_' = buffer_ \o Entry(p, key, value)
           /\ Shares(Len(added), p)'
           /\ RestartsNamed'
           /\ RestartKeyKept'
<1> DEFINE n == Len(added)
           N == Len(restartPointOffsets_)
           d == RestartPointInterval
           F == FirstOf(n)
<1> PICK p : p = CommonPrefix(key, lastRestartPointKey_')
  OBVIOUS
<1>1. /\ n \in Nat /\ Len(added') = n + 1 /\ added' # << >>
      /\ \A j \in 1..n : added'[j] = added[j]
      /\ added'[n + 1].key = key /\ added'[n + 1].value = value
      /\ added'[n + 1].at = Len(buffer_)
  BY AddedOne
<1>2. /\ lastRestartPointKey_' = RestartKeyInMemory(key, reuse)
      /\ restartPointOffsets_' = restartPointOffsets_
      /\ buffer_' = buffer_ \o Entry(p, key, value)
      /\ recordNum_' = recordNum_ + 1 /\ recordNum_ = n /\ n % d # 0
      /\ stable' => stable /\ ~reuse
  BY DEF Add, AtRestartPoint, RestartsNamed
<1>3. /\ d \in Nat \ {0} /\ key \in Seq(Byte) /\ Len(key) \in Nat
      /\ lastRestartPointKey_ \in Seq(Byte)
  BY BuilderAssumption, LenProperties DEF BuilderTypeOK
<1>4. n # 0 /\ n \div d = (n - 1) \div d
  BY <1>1, <1>2, <1>3, NextBlock
<1>5. RestartOf(n + 1) = RestartOf(n) /\ FirstOf(n + 1) = F
  <2>1. (n + 1) - 1 = n
    BY <1>1
  <2>2. RestartOf(n + 1) = RestartOf(n)
    BY <1>4, <2>1 DEF RestartOf
  <2> QED
    BY <2>2 DEF FirstOf
<1>6. F \in 1..n /\ added'[F] = added[F] /\ added # << >>
  <2>1. F \in 1..n
    BY <1>1, <1>4, BlockOf
  <2> QED
    BY <1>1, <1>4, <2>1, EmptySeq
<1>7. /\ lastRestartPointKey_' \in Seq(Byte)
      /\ Len(lastRestartPointKey_') = Len(lastRestartPointKey_)
      /\ ~reuse => lastRestartPointKey_' = lastRestartPointKey_
  BY <1>2, <1>3, OverwrittenType DEF RestartKeyInMemory
<1>8. /\ Len(lastRestartPointKey_) = Len(added[F].key)
      /\ stable => lastRestartPointKey_ = added[F].key
  BY <1>6 DEF RestartKeyKept
<1>9. /\ p \in 0..Len(key) /\ p <= Len(lastRestartPointKey_')
      /\ \A i \in 1..p : key[i] = lastRestartPointKey_'[i]
  BY <1>3, <1>7, CommonPrefixRight
<1> HIDE DEF F
<1>10. RestartsNamed'
  <2>1. recordNum_' = Len(added')
    BY <1>1, <1>2
  <2>2. Len(restartPointOffsets_') = RestartOf(Len(added')) + 1
    BY <1>1, <1>2, <1>5, <1>6 DEF RestartsNamed
  <2>3. ASSUME NEW r \in 0..(Len(restartPointOffsets_') - 1)
        PROVE  /\ r * d + 1 \in 1..Len(added')
               /\ restartPointOffsets_'[r + 1] = added'[r * d + 1].at
    <3>1. /\ r * d + 1 \in 1..n
          /\ restartPointOffsets_[r + 1] = added[r * d + 1].at
      BY <1>2, <2>3 DEF RestartsNamed
    <3>2. added'[r * d + 1] = added[r * d + 1]
      BY <1>1, <3>1
    <3>3. r * d + 1 \in 1..Len(added')
      BY <1>1, <3>1
    <3> QED
      BY <1>2, <3>1, <3>2, <3>3
  <2> QED
    BY <1>1, <2>1, <2>2, <2>3 DEF RestartsNamed
<1>11. Shares(Len(added), p)'
  <2>1. FirstOf(Len(added')) = F /\ Len(added') # F
    BY <1>1, <1>5, <1>6
  <2>2. p <= Len(added'[F].key)
    BY <1>6, <1>7, <1>8, <1>9
  <2>3. ASSUME stable', NEW i \in 1..p
        PROVE  key[i] = added'[F].key[i]
    BY <1>2, <1>6, <1>7, <1>8, <1>9, <2>3
  <2>4. added'[Len(added')].key = key
    BY <1>1
  <2> QED
    BY <1>9, <2>1, <2>2, <2>3, <2>4 DEF Shares
<1>12. RestartKeyKept'
  <2>1. FirstOf(Len(added')) = F
    BY <1>1, <1>5
  <2>2. Len(lastRestartPointKey_') = Len(added'[F].key)
    BY <1>6, <1>7, <1>8
  <2>3. stable' => lastRestartPointKey_' = added'[F].key
    BY <1>2, <1>6, <1>7, <1>8
  <2> QED
    BY <2>1, <2>2, <2>3 DEF RestartKeyKept
<1> QED
  BY <1>2, <1>9, <1>10, <1>11, <1>12

(* Where the next record starts, once there is one, the last one ends, and *)
(* what stands before stays.                                               *)
LEMMA WalkGoesOn ==
  ASSUME BuilderTypeOK, Walks(buffer_),
         NEW key \in Keys, NEW value \in RecordValues, NEW reuse,
         Add(key, value, reuse), stable' => stable,
         NEW p \in 0..Len(key),
         buffer_' = buffer_ \o Entry(p, key, value),
         Shares(Len(added), p)'
  PROVE  Walks(buffer_)'
<1> DEFINE n == Len(added)
           code == Entry(p, key, value)
<1>1. /\ n \in Nat /\ Len(added') = n + 1 /\ added' # << >>
      /\ \A j \in 1..n : added'[j] = added[j]
      /\ added'[n + 1].key = key /\ added'[n + 1].value = value
      /\ added'[n + 1].at = Len(buffer_)
  BY AddedOne
<1>2. /\ code \in Seq(Byte) /\ buffer_ \in Seq(Byte)
      /\ Len(buffer_') = Len(buffer_) + Len(code)
      /\ Len(code) \in Nat /\ Len(buffer_) \in Nat
  <2>1. key \in Seq(Byte) /\ value \in Seq(Byte)
    BY BuilderAssumption
  <2>2. code \in Seq(Byte)
    BY <2>1, EntryType
  <2> HIDE DEF code
  <2>3. buffer_' = buffer_ \o code
    BY DEF code
  <2> QED
    BY <2>2, <2>3, ConcatBytes DEF BuilderTypeOK
<1>3. \A j \in 0..n : EndOf(buffer_, j)' = EndOf(buffer_, j)
  <2> TAKE j \in 0..n
  <2>1. EndOf(buffer_, j)' = added'[j + 1].at
    BY <1>1 DEF EndOf
  <2>2. CASE j < n
    <3>1. j + 1 \in 1..n
      BY <1>1, <2>2
    <3> QED
      BY <1>1, <2>1, <2>2, <3>1 DEF EndOf
  <2>3. CASE ~(j < n)
    <3>1. j = n
      BY <1>1, <2>3
    <3> QED
      BY <1>1, <2>1, <2>3, <3>1 DEF EndOf
  <2> QED
    BY <2>2, <2>3
<1>4. EndOf(buffer_, 0)' = 0
  BY <1>1, <1>3 DEF Walks
<1>5. ASSUME NEW j \in 1..n
      PROVE  \E q \in Nat : Shares(j, q)' /\ EntryStands(buffer_, j, q)'
  <2>1. PICK q \in Nat : Shares(j, q) /\ EntryStands(buffer_, j, q)
    BY DEF Walks
  <2>2. j \in Nat \ {0} /\ FirstOf(j) \in 1..n
    <3>1. j \in Nat \ {0}
      OBVIOUS
    <3>2. FirstOf(j) \in 1..j
      BY <3>1, BlockOf
    <3> QED
      BY <1>1, <3>1, <3>2
  <2>3. added'[j] = added[j] /\ added'[FirstOf(j)] = added[FirstOf(j)]
    BY <1>1, <2>2
  <2>4. Shares(j, q)'
    BY <2>1, <2>3 DEF Shares
  <2>5. EntryStands(buffer_, j, q)'
    <3> DEFINE old == Entry(q, added[j].key, added[j].value)
               end == EndOf(buffer_, j)
    <3>1. /\ Stands(old, buffer_, added[j].at)
          /\ end = added[j].at + Len(old) /\ end <= Len(buffer_)
      BY <2>1 DEF EntryStands
    <3>2. /\ added[j].key \in Seq(Byte) /\ added[j].value \in Seq(Byte)
          /\ added[j].at \in Nat
      <4>1. added[j] \in Records
        BY DEF BuilderTypeOK
      <4> QED
        BY <4>1, BuilderAssumption DEF Records
    <3>3. q \in 0..Len(added[j].key)
      BY <2>1 DEF Shares
    <3>4. old \in Seq(Byte) /\ Len(old) \in Nat
      BY <3>2, <3>3, EntryType
    <3>5. EndOf(buffer_, j)' = end
      BY <1>1, <1>3
    <3>6. Entry(q, added'[j].key, added'[j].value) = old
      BY <2>3
    <3> HIDE DEF old, end, code
    <3>7. Stands(old, buffer_', added[j].at)
      <4>1. buffer_' = buffer_ \o code
        BY DEF code
      <4>2. added[j].at + Len(old) <= Len(buffer_)
        BY <3>1
      <4> QED
        BY <1>2, <3>1, <3>2, <3>4, <4>1, <4>2, StandsLonger
    <3>8. end <= Len(buffer_')
      BY <1>2, <3>1, <3>2, <3>4
    <3> QED
      BY <2>3, <3>1, <3>5, <3>6, <3>7, <3>8 DEF EntryStands
  <2> QED
    BY <2>4, <2>5
<1>6. EntryStands(buffer_, n, p)'
  <2>1. EndOf(buffer_, n)' = Len(buffer_')
    BY <1>1 DEF EndOf
  <2> HIDE DEF code
  <2>2. Stands(code, buffer_', Len(buffer_))
    <3>1. buffer_' = buffer_ \o code
      BY DEF code
    <3> QED
      BY <1>2, <3>1, StandsAtEnd
  <2>3. Entry(p, added'[n + 1].key, added'[n + 1].value) = code
    BY <1>1 DEF code
  <2> QED
    BY <1>1, <1>2, <2>1, <2>2, <2>3 DEF EntryStands
<1>7. Shares(n, p)' /\ p \in Nat
  OBVIOUS
<1>8. ASSUME NEW j \in 1..Len(added')
      PROVE  \E q \in Nat : Shares(j, q)' /\ EntryStands(buffer_, j, q)'
  <2>1. CASE j \in 1..n
    BY <1>5, <2>1
  <2>2. CASE j \notin 1..n
    <3>1. j = Len(added')
      BY <1>1, <2>2
    <3> QED
      BY <1>6, <1>7, <3>1
  <2> QED
    BY <2>1, <2>2
<1> QED
  BY <1>4, <1>8 DEF Walks

LEMMA WalkInit == BuilderInit => WalkInv
<1> SUFFICES ASSUME BuilderInit PROVE WalkInv
  OBVIOUS
<1>1. BuilderTypeOK
  BY BuilderTypeInit
<1>2. Walks(buffer_) /\ RestartsNamed /\ RestartKeyKept /\ ~WholePage
  <2>1. Len(added) = 0 /\ Len(restartPointOffsets_) = 0 /\ Len(buffer_) = 0
    BY EmptySeq DEF BuilderInit
  <2>2. Walks(buffer_)
    BY <2>1 DEF Walks, EndOf
  <2>3. RestartsNamed
    BY <2>1 DEF RestartsNamed, BuilderInit
  <2> QED
    BY <2>2, <2>3 DEF RestartKeyKept, WholePage, BuilderInit
<1>3. Len(page) <= Len(buffer_) /\ page = << >>
  BY EmptySeq DEF BuilderInit
<1> QED
  BY <1>1, <1>2, <1>3 DEF WalkInv

LEMMA AddWalks ==
  ASSUME WalkInv, NEW key \in Keys, NEW value \in RecordValues,
         NEW reuse \in KeyMemoryReuse, Add(key, value, reuse)
  PROVE  WalkInv'
<1>1. /\ BuilderTypeOK /\ RestartsNamed /\ RestartKeyKept
      /\ Len(page) <= Len(buffer_)
      /\ finishes = 0 => page = << >> /\ Walks(buffer_)
  BY DEF WalkInv
<1>2. BuilderTypeOK' /\ Len(buffer_') > Len(buffer_)
  BY <1>1, AddTypes
<1>3. /\ page' = page /\ finishes' = finishes /\ (stable' => stable)
  BY DEF Add
<1>4. Len(page') <= Len(buffer_') /\ ~WholePage'
  <2>1. /\ Len(page) \in Nat /\ Len(buffer_) \in Nat
        /\ Len(buffer_') \in Nat
    BY <1>1, <1>2, LenProperties DEF BuilderTypeOK
  <2>2. Len(page') < Len(buffer_')
    BY <1>1, <1>2, <1>3, <2>1
  <2> QED
    BY <1>3, <2>1, <2>2 DEF WholePage
<1>5. PICK p \in 0..Len(key) :
        /\ buffer_' = buffer_ \o Entry(p, key, value)
        /\ Shares(Len(added), p)'
        /\ RestartsNamed' /\ RestartKeyKept'
  <2>1. CASE AtRestartPoint
    <3>1. key \in Seq(Byte)
      BY BuilderAssumption
    <3>2. 0 \in 0..Len(key)
      BY <3>1
    <3>3. /\ buffer_' = buffer_ \o Entry(0, key, value)
          /\ Shares(Len(added), 0)'
          /\ RestartsNamed' /\ RestartKeyKept'
      BY <1>1, <2>1, AddOpens
    <3> QED
      BY <3>2, <3>3
  <2>2. CASE ~AtRestartPoint
    BY <1>1, <2>2, AddShares
  <2> QED
    BY <2>1, <2>2
<1>6. ASSUME finishes' = 0 PROVE Walks(buffer_)'
  BY <1>1, <1>3, <1>5, <1>6, WalkGoesOn
<1> QED
  BY <1>1, <1>2, <1>3, <1>4, <1>5, <1>6 DEF WalkInv

LEMMA FinishWalks ==
  ASSUME WalkInv, Finish
  PROVE  WalkInv'
<1>1. /\ BuilderTypeOK' /\ BuilderTypeOK /\ page' = buffer_'
  BY FinishTypes DEF WalkInv
<1>2. /\ finishes' = finishes + 1 /\ finishes \in Nat
      /\ UNCHANGED << restartPointOffsets_, recordNum_, lastRestartPointKey_,
                      added, stable >>
  BY <1>1 DEF Finish, BuilderTypeOK
<1>3. RestartsNamed' /\ RestartKeyKept'
  <2>1. \A j : FirstOf(j)' = FirstOf(j) /\ RestartOf(j)' = RestartOf(j)
    BY DEF FirstOf, RestartOf
  <2>2. RestartsNamed /\ RestartKeyKept
    BY DEF WalkInv
  <2>3. RestartsNamed'
    BY <1>2, <2>1, <2>2 DEF RestartsNamed
  <2>4. RestartKeyKept'
    BY <1>2, <2>1, <2>2 DEF RestartKeyKept
  <2> QED
    BY <2>3, <2>4
<1>4. Len(page') <= Len(buffer_')
  BY <1>1, LenProperties DEF BuilderTypeOK
<1>5. ASSUME WholePage'
      PROVE  \E body \in Seq(Byte) : Closed(body)' /\ Walks(body)'
  <2>1. finishes = 0
    BY <1>2, <1>5 DEF WholePage
  <2>2. Walks(buffer_) /\ buffer_ \in Seq(Byte)
    BY <2>1 DEF WalkInv, BuilderTypeOK
  <2> PICK body : body = buffer_
    OBVIOUS
  <2>3. Closed(body)'
    BY <1>2 DEF Closed, Finish
  <2>4. Walks(body)'
    BY <1>2, <2>2 DEF Walks, EndOf, Shares, EntryStands, FirstOf, RestartOf
  <2> QED
    BY <2>2, <2>3, <2>4
<1> QED
  BY <1>1, <1>2, <1>3, <1>4, <1>5 DEF WalkInv

LEMMA ResetWalks ==
  ASSUME WalkInv, Reset
  PROVE  WalkInv'
<1>1. BuilderTypeOK'
  BY ResetTypes DEF WalkInv
<1>2. /\ added' = << >> /\ recordNum_' = 0 /\ restartPointOffsets_' = << >>
      /\ page' = << >> /\ buffer_' = << >>
  BY DEF Reset
<1>3. Walks(buffer_)' /\ RestartsNamed' /\ RestartKeyKept' /\ ~WholePage'
  <2>1. Len(added') = 0 /\ Len(restartPointOffsets_') = 0 /\ Len(buffer_') = 0
    BY <1>2, EmptySeq
  <2>2. Walks(buffer_)'
    BY <2>1 DEF Walks, EndOf
  <2>3. RestartsNamed'
    BY <1>2, <2>1 DEF RestartsNamed
  <2> QED
    BY <1>2, <2>2, <2>3 DEF RestartKeyKept, WholePage
<1>4. Len(page') <= Len(buffer_')
  BY <1>2, EmptySeq
<1> QED
  BY <1>1, <1>2, <1>3, <1>4 DEF WalkInv

LEMMA WalkNext ==
  ASSUME WalkInv, [BuilderNext]_builderVars
  PROVE  WalkInv'
<1>1. CASE \E key \in Keys, value \in RecordValues,
              reuse \in KeyMemoryReuse : Add(key, value, reuse)
  BY <1>1, AddWalks
<1>2. CASE Finish
  BY <1>2, FinishWalks
<1>3. CASE Reset
  BY <1>3, ResetWalks
<1>4. CASE UNCHANGED builderVars
  <2>1. UNCHANGED << buffer_, restartPointOffsets_, recordNum_,
                     lastRestartPointKey_, page, added, stable, finishes,
                     checked >>
    BY <1>4 DEF builderVars
  <2>2. BuilderTypeOK' /\ (WholePage' <=> WholePage)
    BY <2>1 DEF WalkInv, BuilderTypeOK, WholePage
  <2>3. RestartsNamed' /\ RestartKeyKept'
    BY <2>1 DEF WalkInv, RestartsNamed, RestartKeyKept, FirstOf, RestartOf
  <2>4. \A body : /\ Walks(body)' <=> Walks(body)
                  /\ Closed(body)' <=> Closed(body)
    BY <2>1 DEF Walks, EndOf, Shares, EntryStands, FirstOf, RestartOf,
         Closed
  <2>5. Walks(buffer_)' <=> Walks(buffer_)
    BY <2>1 DEF Walks, EndOf, Shares, EntryStands, FirstOf, RestartOf
  <2> QED
    BY <2>1, <2>2, <2>3, <2>4, <2>5 DEF WalkInv
<1> QED
  BY <1>1, <1>2, <1>3, <1>4 DEF BuilderNext

LEMMA WalkAlways == BuilderSpec => []WalkInv
BY WalkInit, WalkNext, PTL DEF BuilderSpec

-----------------------------------------------------------------------------
(* What PageWalks and KeysReadBack read in: the records, then the restart  *)
(* array.                                                                  *)
Filled(data, body) ==
  /\ data \in Seq(Byte) /\ body \in Seq(Byte) /\ Walks(body)
  /\ Len(body) <= Len(data) /\ Len(data) < Pow128[5]
  /\ \E more \in Seq(Byte) : data = body \o more
  /\ RestartPointNum(data) = Len(restartPointOffsets_)
  /\ RestartPointStart(data) = Len(body)
  /\ \A r \in 0..(Len(restartPointOffsets_) - 1) :
       RestartPointEntry(data, r) = restartPointOffsets_[r + 1]

LEMMA PageFilled ==
  ASSUME WalkInv, WholePage, Readable
  PROVE  /\ CheckCRC32C(page) /\ GetPageType(page) = PageType
         /\ \E body : Filled(PageData(page), body)
<1> DEFINE offsets == restartPointOffsets_
           N       == Len(offsets)
           all     == Append(offsets, N)
           array   == Fixed32Array(all)
<1>1. PICK body \in Seq(Byte) : Closed(body) /\ Walks(body)
  BY DEF WalkInv
<1> DEFINE data == body \o array
<1>2. /\ offsets \in Seq(0..Len(page)) /\ offsets \in Seq(Nat)
      /\ N \in Nat /\ PageType \in Byte /\ Len(page) \in Nat
  <2>1. buffer_ = page /\ page \in Seq(Byte)
    BY DEF WholePage, WalkInv, BuilderTypeOK
  <2>2. offsets \in Seq(0..Len(page)) /\ Len(page) \in Nat
    BY <2>1, LenProperties DEF WalkInv, BuilderTypeOK
  <2> QED
    BY <2>2, BuilderAssumption
<1>3. /\ all \in Seq(Nat) /\ Len(all) = N + 1
      /\ \A i \in 1..N : all[i] = offsets[i]
      /\ all[N + 1] = N
  BY <1>2, AppendProperties
<1> HIDE DEF all
<1>4. array \in Seq(Byte) /\ Len(array) = 4 * (N + 1)
  BY <1>3, Fixed32ArrayType DEF U32Size
<1>5. page = Sealed(data, PageType)
  BY <1>1 DEF Closed, all
<1> HIDE DEF offsets, array
<1>6. /\ data \in Seq(Byte) /\ Len(data) = Len(body) + 4 * (N + 1)
      /\ Len(body) \in Nat
  BY <1>1, <1>4, ConcatBytes
<1>7. Stands(array, data, Len(body))
  BY <1>1, <1>4, StandsAtEnd
<1>8. data = body \o array
  OBVIOUS
<1> HIDE DEF data
<1>9. PageData(page) = data /\ CheckCRC32C(page)
        /\ GetPageType(page) = PageType
  BY <1>2, <1>5, <1>6, SealedReadsBack, FooterReadsBack
<1>10. Len(page) = Len(data) + 5
  BY <1>2, <1>5, <1>6, SealedType DEF FooterSize
<1>11. Len(page) < Pow128[5] /\ Pow128[5] = 268435456
  BY DEF Readable, Pow128
<1>12. \A v \in 0..Len(page) : IsUint32(v)
  BY <1>2, <1>11 DEF IsUint32, Pow128
<1>13. ASSUME NEW i \in 0..N
       PROVE  Fixed32At(data, Len(body), i) = all[i + 1]
  <2>1. all[i + 1] \in 0..Len(page)
    <3>1. CASE i = N
      BY <1>2, <1>3, <1>6, <1>10, <3>1
    <3>2. CASE i # N
      <4>1. i + 1 \in 1..N
        BY <1>2, <3>2
      <4> QED
        BY <1>2, <1>3, <4>1, ElementOfSeq
    <3> QED
      BY <3>1, <3>2
  <2>2. i \in 0..(Len(all) - 1)
    BY <1>2, <1>3
  <2> QED
    BY <1>3, <1>6, <1>7, <1>12, <2>1, <2>2, ArrayReadsBack DEF array
<1>14. RestartPointNum(data) = N
  <2>1. Len(data) - 4 = Len(body) + 4 * N
    BY <1>2, <1>6
  <2>2. RestartPointNum(data) = Fixed32At(data, Len(body), N)
    BY <2>1 DEF RestartPointNum, Fixed32At, U32Size
  <2> QED
    BY <1>2, <1>3, <1>13, <2>2
<1>15. RestartPointStart(data) = Len(body)
  BY <1>2, <1>6, <1>14 DEF RestartPointStart, U32Size
<1>16. ASSUME NEW r \in 0..(N - 1)
       PROVE  RestartPointEntry(data, r) = offsets[r + 1]
  <2>1. r \in 0..N /\ r + 1 \in 1..N /\ r * 4 = 4 * r
    BY <1>2
  <2>2. RestartPointEntry(data, r) = Fixed32At(data, Len(body), r)
    BY <1>15, <2>1 DEF RestartPointEntry, RestartPointOffset, Fixed32At,
       U32Size
  <2> QED
    BY <1>3, <1>13, <2>1, <2>2
<1>17. Len(body) <= Len(data) /\ Len(data) < Pow128[5]
  BY <1>2, <1>6, <1>10, <1>11
<1> QED
  BY <1>1, <1>4, <1>6, <1>8, <1>9, <1>14, <1>15, <1>16, <1>17
     DEF Filled, offsets

(* Record j of a page, read with the reader's accessors.                   *)
RecordRead(data, body, j, p) ==
  /\ Shares(j, p)
  /\ EntryRead(data, added[j].at, p, added[j].key, added[j].value)
  /\ EndOf(body, j)
       = added[j].at + SizeOf(added[j].at, EntryHeader(data, added[j].at))

LEMMA RecordTypes ==
  ASSUME BuilderTypeOK, NEW j \in 1..Len(added)
  PROVE  /\ added[j].key \in Seq(Byte) /\ added[j].value \in Seq(Byte)
         /\ added[j].at \in Nat /\ Len(added[j].key) \in Nat
<1>1. added[j] \in Records
  BY DEF BuilderTypeOK
<1> QED
  BY <1>1, BuilderAssumption, LenProperties DEF Records

LEMMA EntryInPage ==
  ASSUME WalkInv, NEW data, NEW body, Filled(data, body),
         NEW j \in 1..Len(added), NEW p \in Nat,
         Shares(j, p), EntryStands(body, j, p)
  PROVE  /\ Len(added[j].key) - p < Pow128[5]
         /\ p < Pow128[5] => RecordRead(data, body, j, p)
<1> DEFINE key == added[j].key
           value == added[j].value
           at == added[j].at
           code == Entry(p, key, value)
<1>1. /\ key \in Seq(Byte) /\ value \in Seq(Byte) /\ at \in Nat
      /\ Len(key) \in Nat
  BY RecordTypes DEF WalkInv
<1>2. p \in 0..Len(key)
  BY DEF Shares
<1>3. /\ Stands(code, body, at) /\ EndOf(body, j) = at + Len(code)
      /\ at + Len(code) <= Len(body)
  BY DEF EntryStands
<1>4. /\ data \in Seq(Byte) /\ body \in Seq(Byte)
      /\ Len(body) <= Len(data) /\ Len(data) < Pow128[5]
      /\ Len(body) \in Nat /\ Len(data) \in Nat
  BY LenProperties DEF Filled
<1>5. code \in Seq(Byte) /\ Len(code) \in Nat
  BY <1>1, <1>2, EntryType
<1> HIDE DEF code, key, value, at
<1>6. Stands(code, data, at)
  <2>1. PICK more \in Seq(Byte) : data = body \o more
    BY DEF Filled
  <2> QED
    BY <1>1, <1>3, <1>4, <1>5, <2>1, StandsLonger
<1>7. Len(key) - p <= Len(code)
  <2> DEFINE o3 == at + VarintLength(p) + VarintLength(Len(key) - p)
                      + VarintLength(Len(value))
  <2>1. /\ at <= o3 /\ at + Len(code) = o3 + (Len(key) - p) + Len(value)
        /\ o3 \in Nat
    BY <1>1, <1>2, <1>6, EntryApart DEF code
  <2> HIDE DEF o3
  <2> QED
    BY <1>1, <1>2, <1>5, <2>1, LenProperties
<1>8. Len(key) - p < Pow128[5]
  BY <1>1, <1>2, <1>3, <1>4, <1>5, <1>7 DEF Pow128
<1>9. ASSUME p < Pow128[5]
      PROVE  RecordRead(data, body, j, p)
  <2>1. at + Len(code) <= Len(data)
    BY <1>1, <1>3, <1>4, <1>5
  <2>2. /\ Stands(Entry(p, key, value), data, at)
        /\ at + Len(Entry(p, key, value)) <= Len(data)
    BY <1>6, <2>1 DEF code
  <2>3. EntryRead(data, at, p, key, value)
    BY <1>1, <1>2, <1>4, <1>9, <2>2, EntryReadsBack
  <2>4. SizeOf(at, EntryHeader(data, at)) = Len(code)
    BY <2>3 DEF EntryRead, code
  <2> QED
    BY <1>3, <2>3, <2>4 DEF RecordRead, key, value, at
<1> QED
  BY <1>8, <1>9 DEF key

(* Each record is read; the first of a block in full.                      *)
LEMMA RecordsRead ==
  ASSUME WalkInv, NEW data, NEW body, Filled(data, body),
         NEW j \in 1..Len(added)
  PROVE  /\ FirstOf(j) \in 1..Len(added)
         /\ RecordRead(data, body, FirstOf(j), 0)
         /\ \E p \in Nat : RecordRead(data, body, j, p)
<1> DEFINE F == FirstOf(j)
<1>1. /\ F \in 1..Len(added) /\ FirstOf(F) = F
  <2>1. j \in Nat \ {0} /\ Len(added) \in Nat
    BY LenProperties DEF WalkInv, BuilderTypeOK
  <2>2. F \in 1..j /\ RestartOf(F) = RestartOf(j)
    BY <2>1, BlockOf
  <2> QED
    BY <2>1, <2>2 DEF FirstOf
<1> HIDE DEF F
<1>2. \A i \in 1..Len(added) :
        \E p \in Nat : Shares(i, p) /\ EntryStands(body, i, p)
  BY DEF Filled, Walks
<1>3. Shares(F, 0) /\ EntryStands(body, F, 0)
  <2>1. PICK p \in Nat : Shares(F, p) /\ EntryStands(body, F, p)
    BY <1>1, <1>2
  <2>2. p = 0
    BY <1>1, <2>1 DEF Shares
  <2> QED
    BY <2>1, <2>2
<1>4. /\ Len(added[F].key) - 0 < Pow128[5]
      /\ RecordRead(data, body, F, 0)
  <2>1. 0 < Pow128[5] /\ 0 \in Nat
    BY DEF Pow128
  <2> QED
    BY <1>1, <1>3, <2>1, EntryInPage
<1>5. PICK p \in Nat : Shares(j, p) /\ EntryStands(body, j, p)
  BY <1>2
<1>6. p < Pow128[5]
  <2>1. p <= Len(added[F].key)
    BY <1>5 DEF Shares, F
  <2>2. Len(added[F].key) \in Nat
    BY <1>1, RecordTypes DEF WalkInv
  <2> QED
    BY <1>4, <2>1, <2>2 DEF Pow128
<1>7. RecordRead(data, body, j, p)
  BY <1>5, <1>6, EntryInPage
<1> QED
  BY <1>1, <1>4, <1>7 DEF F

LEMMA WalkedPage ==
  ASSUME WalkInv, Readable
  PROVE  PageWalks
<1> SUFFICES ASSUME WholePage PROVE PageWalks
  BY DEF PageWalks
<1> DEFINE data  == PageData(page)
           n     == Len(added)
           at(j) == IF j > n THEN RestartPointStart(data) ELSE added[j].at
<1>1. PICK body : Filled(data, body)
  BY PageFilled
<1>2. CheckCRC32C(page) /\ GetPageType(page) = PageType
  BY PageFilled
<1>3. /\ n \in Nat /\ RestartPointStart(data) = Len(body)
      /\ RestartPointNum(data) = Len(restartPointOffsets_)
  BY <1>1, LenProperties DEF Filled, WalkInv, BuilderTypeOK
<1> HIDE DEF data
<1>4. \A j \in 0..n : at(j + 1) = EndOf(body, j)
  BY <1>3 DEF EndOf
<1>5. at(1) = 0
  <2>1. EndOf(body, 0) = 0
    BY <1>1 DEF Filled, Walks
  <2> HIDE DEF at
  <2>2. at(0 + 1) = 0
    BY <1>3, <1>4, <2>1
  <2> QED
    BY <2>2
<1>6. ASSUME NEW j \in 1..n
      PROVE  /\ at(j) + EntrySize(data, at(j)) = at(j + 1)
             /\ ValueAt(data, at(j)) = added[j].value
  <2>1. PICK p \in Nat : RecordRead(data, body, j, p)
    BY <1>1, RecordsRead
  <2>2. at(j) = added[j].at /\ at(j + 1) = EndOf(body, j)
    BY <1>3, <1>4
  <2> HIDE DEF at
  <2> QED
    BY <2>1, <2>2 DEF RecordRead, EntryRead, EntrySize, ValueAt
<1>7. RestartPointNum(data) = IF n = 0 THEN 0 ELSE RestartOf(n) + 1
  <2>1. n = 0 <=> added = << >>
    BY EmptySeq DEF WalkInv, BuilderTypeOK
  <2> QED
    BY <1>3, <2>1 DEF WalkInv, RestartsNamed
<1>8. ASSUME NEW r \in 0..(RestartPointNum(data) - 1)
      PROVE  RestartPointEntry(data, r) = at(r * RestartPointInterval + 1)
  <2>1. RestartPointEntry(data, r) = restartPointOffsets_[r + 1]
    BY <1>1, <1>3 DEF Filled
  <2>2. /\ r * RestartPointInterval + 1 \in 1..n
        /\ restartPointOffsets_[r + 1] = added[r * RestartPointInterval + 1].at
    BY <1>3 DEF WalkInv, RestartsNamed
  <2> QED
    BY <1>3, <2>1, <2>2
<1> QED
  BY <1>2, <1>5, <1>6, <1>7, <1>8 DEF PageWalks, data

LEMMA KeysRead ==
  ASSUME WalkInv, Readable
  PROVE  KeysReadBack
<1> SUFFICES ASSUME WholePage, stable, NEW j \in 1..Len(added)
             PROVE  KeyAt(PageData(page), added[j].at, RestartOf(j))
                      = added[j].key
  BY DEF KeysReadBack
<1> DEFINE data == PageData(page)
           F    == FirstOf(j)
           key  == added[j].key
           all  == added[F].key
           h    == EntryHeader(data, added[j].at)
           r    == EntryHeader(data, added[F].at)
<1>1. PICK body : Filled(data, body)
  BY PageFilled
<1> HIDE DEF data
<1>2. /\ F \in 1..Len(added) /\ RecordRead(data, body, F, 0)
      /\ \E p \in Nat : RecordRead(data, body, j, p)
  BY <1>1, RecordsRead
<1>3. PICK p \in Nat : RecordRead(data, body, j, p)
  BY <1>2
<1>4. /\ key \in Seq(Byte) /\ all \in Seq(Byte)
      /\ Len(key) \in Nat /\ Len(all) \in Nat
  BY <1>2, RecordTypes DEF WalkInv
<1>5. RestartPointHeader(data, RestartOf(j)) = r
  <2>1. Len(added) \in Nat \ {0} /\ added # << >>
    BY EmptySeq, LenProperties DEF WalkInv, BuilderTypeOK
  <2>2. /\ RestartOf(j) \in 0..RestartOf(Len(added))
        /\ RestartOf(Len(added)) \in Nat
    BY <2>1, BlockOf
  <2>3. Len(restartPointOffsets_) = RestartOf(Len(added)) + 1
    BY <2>1 DEF WalkInv, RestartsNamed
  <2>4. RestartOf(j) \in 0..(Len(restartPointOffsets_) - 1)
    BY <2>2, <2>3
  <2>5. /\ RestartPointEntry(data, RestartOf(j))
             = restartPointOffsets_[RestartOf(j) + 1]
        /\ restartPointOffsets_[RestartOf(j) + 1] = added[F].at
    BY <1>1, <2>4 DEF Filled, WalkInv, RestartsNamed, FirstOf
  <2> QED
    BY <2>5 DEF RestartPointHeader
<1>6. /\ p \in 0..Len(key) /\ p <= Len(all)
      /\ \A i \in 1..p : key[i] = all[i]
      /\ h.prefix = p /\ SuffixOf(data, h) = SubSeq(key, p + 1, Len(key))
  BY <1>3 DEF RecordRead, EntryRead, Shares
<1>7. Bytes(data, r.body, p) = SubSeq(all, 1, p)
  <2>1. SubSeq(all, 0 + 1, Len(all)) = all
    BY <1>4
  <2>2. /\ r.body \in Nat /\ Stands(all, data, r.body)
        /\ r.body + (Len(all) - 0) <= Len(data)
    BY <1>2, <2>1 DEF RecordRead, EntryRead
  <2>3. data \in Seq(Byte) /\ p \in 0..Len(all)
        /\ r.body + Len(all) <= Len(data)
    BY <1>1, <1>4, <1>6, <2>2 DEF Filled
  <2> HIDE DEF all, r
  <2> QED
    BY <1>4, <2>2, <2>3, BytesThatStand
<1> HIDE DEF key, all, h, r, F
<1>8. SubSeq(all, 1, p) \o SubSeq(key, p + 1, Len(key)) = key
  <2> DEFINE a == SubSeq(all, 1, p)
             b == SubSeq(key, p + 1, Len(key))
  <2>1. /\ a \in Seq(Byte) /\ Len(a) = p
        /\ \A i \in 1..p : a[i] = key[i]
    <3>1. \A i \in 1..p : all[i] \in Byte
      BY <1>4, <1>6
    <3> QED
      BY <1>6, <3>1, SubSeqProperties
  <2>2. /\ b \in Seq(Byte) /\ Len(b) = Len(key) - p
        /\ \A i \in 1..(Len(key) - p) : b[i] = key[p + i]
    <3>1. \A i \in (p + 1)..Len(key) : key[i] \in Byte
      BY <1>4, <1>6
    <3> QED
      BY <1>4, <1>6, <3>1, SubSeqProperties
  <2> HIDE DEF a, b
  <2>3. /\ a \o b \in Seq(Byte) /\ Len(a \o b) = Len(key)
        /\ \A i \in 1..Len(key) : (a \o b)[i] = key[i]
    BY <1>4, <1>6, <2>1, <2>2, ConcatProperties
  <2>4. a \o b = key
    BY <1>4, <2>3, SeqEqual
  <2> QED
    BY <2>4 DEF a, b
<1> QED
  BY <1>5, <1>6, <1>7, <1>8 DEF KeyAt, KeyOf, data, h, key

(* The entries of a page that was finished once follow one another up to   *)
(* the restart array, which names the first of each block, and checksum,   *)
(* type and values are read as they were written.  It takes a page of less *)
(* than 2^28 bytes; one that keeps to pageSize() has a few thousand.       *)
THEOREM PagesWalk == BuilderSpec => [](Readable => PageWalks)
<1>1. WalkInv => (Readable => PageWalks)
  BY WalkedPage
<1> QED
  BY <1>1, WalkAlways, PTL

(* In such a page every key is read as it was added, if the caller left    *)
(* the memory of each restart key alone until the next restart point.      *)
THEOREM PageKeysReadBack == BuilderSpec => [](Readable => KeysReadBack)
<1>1. WalkInv => (Readable => KeysReadBack)
  BY KeysRead
<1> QED
  BY <1>1, WalkAlways, PTL

(* A page without records is nine bytes, any other that was checked has    *)
(* those of pageSize() at most.                                            *)
LEMMA CheckedIsReadable ==
  ASSUME PageSize < Pow128[5], WalkInv, PageFits, checked, WholePage
  PROVE  Readable
<1>1. CASE added # << >>
  <2>1. Len(page) <= PageSize /\ Len(page) \in Nat /\ PageSize \in Nat
    BY <1>1, BuilderAssumption, LenProperties
       DEF PageFits, WalkInv, BuilderTypeOK
  <2> QED
    BY <2>1 DEF Readable, Pow128
<1>2. CASE added = << >>
  <2>1. PICK body \in Seq(Byte) : Closed(body) /\ Walks(body)
    BY DEF WalkInv
  <2>2. Len(body) = 0 /\ Len(restartPointOffsets_) = 0
    <3>1. Len(added) = 0
      BY <1>2, EmptySeq
    <3> QED
      BY <1>2, <2>1, <3>1 DEF Walks, EndOf, WalkInv, RestartsNamed
  <2>3. restartPointOffsets_ \in Seq(Nat) /\ PageType \in Byte
    <3>1. 0..Len(buffer_) \subseteq Nat
      OBVIOUS
    <3> QED
      BY <3>1, SeqMonotonic, BuilderAssumption DEF WalkInv, BuilderTypeOK
  <2>4. Len(page) = 9
    <3>1. Len(page) = Len(body) + FooterSize
                        + U32Size * (1 + Len(restartPointOffsets_))
      BY <2>1, <2>3, FinishedSize DEF Closed
    <3> QED
      BY <2>2, <3>1 DEF FooterSize, U32Size
  <2> QED
    BY <2>4 DEF Readable, Pow128
<1> QED
  BY <1>1, <1>2

(* So the documented use is safe: of a page whose records were each added  *)
(* with estimateSize() plus estimateEntrySize() within pageSize(), which   *)
(* is 4096, everything is read as it was written.                          *)
THEOREM CheckedPagesRead ==
  ASSUME PageSize < Pow128[5]
  PROVE  BuilderSpec => [](checked => PageWalks /\ KeysReadBack)
<1>1. WalkInv /\ PageFits => (checked => PageWalks /\ KeysReadBack)
  <2> SUFFICES ASSUME WalkInv, PageFits, checked
               PROVE  PageWalks /\ KeysReadBack
    OBVIOUS
  <2>1. CASE WholePage
    BY <2>1, CheckedIsReadable, WalkedPage, KeysRead
  <2>2. CASE ~WholePage
    BY <2>2 DEF PageWalks, KeysReadBack
  <2> QED
    BY <2>1, <2>2
<1> QED
  BY <1>1, WalkAlways, PagesFit, PTL
=============================================================================
