-------------------------- MODULE DataPageBuilder --------------------------
(***************************************************************************)
(* storage/data_page_builder.{h,cpp} and the PageBuilder it derives from:  *)
(* records are appended to a buffer, every RestartPointInterval-th one     *)
(* with its whole key, and finish() closes the buffer into a page.         *)
(*                                                                         *)
(* A key is passed as a Slice, a view of the caller's memory, and the      *)
(* builder keeps the Slice of the last restart point, not its bytes.       *)
(* lastRestartPointKey_ is therefore what that memory holds NOW.  The      *)
(* caller may pass the next key in the same memory (reuse) or elsewhere.   *)
(***************************************************************************)
EXTENDS DataPage

CONSTANTS
  RestartPointInterval, \* records per restart point (16 in the code)
  PageSize,             \* PAGESIZE, what pageSize() returns (4096)
  PageType,             \* the type byte of the footer
  Keys, RecordValues,   \* the byte strings the caller adds
  KeyMemoryReuse,       \* {FALSE}: key memory is left alone; BOOLEAN: it may
                        \* be reused
  MaxRecords,           \* bound on the records of one page
  MaxFinishes           \* bound on the finish() calls without reset()

ASSUME BuilderAssumption ==
  /\ RestartPointInterval \in Nat \ {0}
  /\ PageSize \in Nat
  /\ PageType \in Byte
  /\ Keys \subseteq Seq(Byte) /\ RecordValues \subseteq Seq(Byte)
  /\ KeyMemoryReuse \subseteq BOOLEAN
  /\ MaxRecords \in Nat /\ MaxFinishes \in Nat

VARIABLES
  buffer_, restartPointOffsets_, recordNum_, lastRestartPointKey_,
  page,     \* the bytes of the Slice the last finish() returned, << >> before
  added,    \* history: the records added since the last reset()
  checked,  \* history: the caller checked the room before each of them
  stable,   \* history: the memory of no restart key was reused since then
  finishes  \* history: the finish() calls since the last reset()

builderVars == << buffer_, restartPointOffsets_, recordNum_,
                  lastRestartPointKey_, page, added, checked, stable,
                  finishes >>

(* A record with the offset its entry starts at.                           *)
Records == [key : Keys, value : RecordValues, at : Nat]

BuilderTypeOK ==
  /\ buffer_ \in Seq(Byte)
  /\ restartPointOffsets_ \in Seq(0..Len(buffer_))
  /\ recordNum_ \in 0..MaxRecords
  /\ lastRestartPointKey_ \in Seq(Byte)
  /\ page \in Seq(Byte)
  /\ added \in Seq(Records)
  /\ checked \in BOOLEAN /\ stable \in BOOLEAN
  /\ finishes \in 0..MaxFinishes

BuilderInit ==
  /\ buffer_ = << >> /\ restartPointOffsets_ = << >> /\ recordNum_ = 0
  /\ lastRestartPointKey_ = << >>
  /\ page = << >> /\ added = << >> /\ checked = TRUE /\ stable = TRUE
  /\ finishes = 0

-----------------------------------------------------------------------------
(* Mutant: only the byte at n is compared, not those before it.            *)
LastCommonByte(key, lastKey) ==
  Max({0} \cup { n \in 1..Min({Len(key), Len(lastKey)}) :
                   key[n] = lastKey[n] })

CommonPrefix(key, lastKey) ==
  Max({ n \in 0..Min({Len(key), Len(lastKey)}) :
          \A i \in 1..n : key[i] = lastKey[i] })

EstimateEntrySize(key, value) ==
  VarintLength(Len(key)) + Len(key) + VarintLength(Len(value)) + Len(value)
    + U32Size

(* Mutant: the footer is forgotten.                                        *)
EstimateWithoutFooter ==
  Len(buffer_) + U32Size + (1 + Len(restartPointOffsets_)) * U32Size

EstimateSize ==
  Len(buffer_) + FooterSize + U32Size
    + (1 + Len(restartPointOffsets_)) * U32Size

(* The bytes of an entry that shares the first prefixLen bytes of its key. *)
Entry(prefixLen, key, value) ==
  EncodeVarint32(prefixLen) \o EncodeVarint32(Len(key) - prefixLen)
    \o EncodeVarint32(Len(value))
    \o SubSeq(key, prefixLen + 1, Len(key)) \o value

(* What a Slice over memory that held `old` shows once `new` was written   *)
(* to that memory: its pointer and its length are still those of `old`.    *)
Overwritten(old, new) ==
  [ i \in 1..Len(old) |-> IF i <= Len(new) THEN new[i] ELSE old[i] ]

(* The memory of the last restart key as add() finds it.                   *)
RestartKeyInMemory(key, reuse) ==
  IF reuse THEN Overwritten(lastRestartPointKey_, key)
  ELSE lastRestartPointKey_

AtRestartPoint == recordNum_ % RestartPointInterval = 0

Add(key, value, reuse) ==
  /\ recordNum_ < MaxRecords
  /\ \/ /\ AtRestartPoint
        /\ lastRestartPointKey_' = key
        /\ restartPointOffsets_' = Append(restartPointOffsets_, Len(buffer_))
        /\ buffer_' = buffer_ \o Entry(0, key, value)
     \/ /\ ~AtRestartPoint
        /\ lastRestartPointKey_' = RestartKeyInMemory(key, reuse)
        /\ buffer_' = buffer_ \o
             Entry(CommonPrefix(key, lastRestartPointKey_'), key, value)
        /\ UNCHANGED restartPointOffsets_
  /\ recordNum_' = recordNum_ + 1
  /\ added' = Append(added,
                     [key |-> key, value |-> value, at |-> Len(buffer_)])
  /\ checked' = (/\ checked
                 /\ EstimateSize + EstimateEntrySize(key, value) <= PageSize)
  /\ stable' = (stable /\ (reuse => AtRestartPoint))
  /\ UNCHANGED << page, finishes >>

(* Mutant: the number of restart points precedes their offsets.            *)
FinishCountFirst ==
  /\ finishes < MaxFinishes
  /\ LET offsets == << Len(restartPointOffsets_) >> \o restartPointOffsets_
     IN  buffer_' = Sealed(buffer_ \o Fixed32Array(offsets), PageType)
  /\ page' = buffer_'
  /\ finishes' = finishes + 1
  /\ UNCHANGED << restartPointOffsets_, recordNum_, lastRestartPointKey_,
                  added, checked, stable >>

Finish ==
  /\ finishes < MaxFinishes
  /\ LET offsets == Append(restartPointOffsets_, Len(restartPointOffsets_))
     IN  buffer_' = Sealed(buffer_ \o Fixed32Array(offsets), PageType)
  /\ page' = buffer_'
  /\ finishes' = finishes + 1
  /\ UNCHANGED << restartPointOffsets_, recordNum_, lastRestartPointKey_,
                  added, checked, stable >>

(* Mutant: the restart offsets survive.                                    *)
ResetKeepsOffsets ==
  /\ buffer_' = << >> /\ recordNum_' = 0
  /\ page' = << >> /\ added' = << >> /\ checked' = TRUE
  /\ stable' = TRUE /\ finishes' = 0
  /\ UNCHANGED << restartPointOffsets_, lastRestartPointKey_ >>

(* reset() leaves lastRestartPointKey_ alone.  The page of the earlier     *)
(* finish() was a view of buffer_: the caller is done with it.             *)
Reset ==
  /\ buffer_' = << >> /\ restartPointOffsets_' = << >> /\ recordNum_' = 0
  /\ page' = << >> /\ added' = << >> /\ checked' = TRUE
  /\ stable' = TRUE /\ finishes' = 0
  /\ UNCHANGED lastRestartPointKey_

BuilderNext ==
  \/ \E key \in Keys, value \in RecordValues, reuse \in KeyMemoryReuse :
       Add(key, value, reuse)
  \/ Finish
  \/ Reset

BuilderSpec == BuilderInit /\ [][BuilderNext]_builderVars

-----------------------------------------------------------------------------
(* The page was made by the documented use: adds, then one finish().       *)
WholePage == page # << >> /\ finishes = 1 /\ page = buffer_

(* The restart point that record j of a page belongs to.                   *)
RestartOf(j) == (j - 1) \div RestartPointInterval

(* If the caller checked estimateSize() + estimateEntrySize() against      *)
(* pageSize() before every add(), as data_page_test.cpp:48 does, then the  *)
(* finished page is within that size (data_page_test.cpp:56).              *)
PageFits == WholePage /\ checked /\ added # << >> => Len(page) <= PageSize

(* A finished page can be walked: the entries follow one another from the  *)
(* first byte up to the restart array, each restart point names the entry  *)
(* that opens its block, the checksum matches, and every value reads back  *)
(* (data_page_test.cpp:59-77).  The memory of keys plays no part in this.  *)
PageWalks ==
  WholePage =>
    LET data  == PageData(page)
        n     == Len(added)
        at(j) == IF j > n THEN RestartPointStart(data) ELSE added[j].at
    IN  /\ CheckCRC32C(page) /\ GetPageType(page) = PageType
        /\ at(1) = 0
        /\ \A j \in 1..n :
             /\ at(j) + EntrySize(data, at(j)) = at(j + 1)
             /\ ValueAt(data, at(j)) = added[j].value
        /\ RestartPointNum(data) = IF n = 0 THEN 0 ELSE RestartOf(n) + 1
        /\ \A r \in 0..(RestartPointNum(data) - 1) :
             RestartPointEntry(data, r) = at(r * RestartPointInterval + 1)

(* If the caller left the memory of each restart key alone until the next  *)
(* restart point, every key reads back as it was added.                    *)
KeysReadBack ==
  WholePage /\ stable =>
    \A j \in 1..Len(added) :
      KeyAt(PageData(page), added[j].at, RestartOf(j)) = added[j].key
=============================================================================
