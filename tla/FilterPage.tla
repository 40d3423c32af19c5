----------------------------- MODULE FilterPage -----------------------------
(***************************************************************************)
(* storage/filter_page.cpp: FilterPageBuilder collects the keys of the     *)
(* blocks of a table, one filter for every FilterBase bytes of blocks, and *)
(* FilterPageReader asks the filter of a block whether it may hold a key.  *)
(*                                                                         *)
(*   filter*  filter-offset*  array-offset  base-lg  |  page-type checksum *)
(*                                                                         *)
(* The filter policy is a parameter, as it is in the code.  A query to the *)
(* reader changes nothing: KeyMayMatch is an operator on the page.         *)
(***************************************************************************)
EXTENDS Page

CONSTANTS
  Policies,                 \* the filter policies there are
  PolicyCreateFilter(_, _), \* what a policy's CreateFilter appends
  PolicyKeyMayMatch(_, _),  \* policy_->KeyMayMatch of a key and a filter
  PolicyMatches(_, _, _),   \* what it is to answer for a list and a key
  Keys,                     \* the byte strings that are added and asked for
  FilterBaseLg, FilterBase, \* kFilterBaseLg (11) and kFilterBase (2048)
  FilterPageType,           \* PageType::kFilterPage
  Offsets,                  \* the block offsets the caller passes
  MaxKeys                   \* bound: the keys of one filter

ASSUME FilterAssumption ==
  /\ FilterBaseLg \in Byte
  /\ FilterBase \in Nat \ {0} /\ FilterBase = 2 ^ FilterBaseLg
  /\ FilterPageType \in Byte
  /\ Offsets \subseteq Nat
  /\ Keys \subseteq Seq(Byte)
  /\ MaxKeys \in Nat

VARIABLES
  policy_,
  buffer_, filter_offsets_,
  keys_, start_,   \* the keys of the current filter, flattened
  page,            \* what Finish() returned, << >> before
  block,           \* history: the offset of the last StartBlock()
  rangeKeys        \* history: the keys added in each range, in order

builderVars == << buffer_, filter_offsets_, keys_, start_ >>
vars == << policy_, builderVars, page, block, rangeKeys >>

NoBlock == -1

(* The range of FilterBase bytes that a block starts in, and the ranges    *)
(* that blocks start in.                                                   *)
RangeOf(offset) == offset \div FilterBase

Ranges == { RangeOf(offset) : offset \in Offsets }

(* What a filter holds for a list of keys: nothing if there are none.      *)
FilterOf(policy, list) ==
  IF list = << >> THEN << >> ELSE PolicyCreateFilter(policy, list)

TypeOK ==
  /\ policy_ \in Policies
  /\ buffer_ \in Seq(Byte)
  /\ filter_offsets_ \in Seq(0..Len(buffer_))
  /\ keys_ \in Seq(Byte)
  /\ start_ \in Seq(0..Len(keys_))
  /\ page \in Seq(Byte)
  /\ block \in Offsets \cup {NoBlock}
  /\ rangeKeys \in [Ranges -> Seq(Keys)]

Init ==
  /\ policy_ \in Policies
  /\ buffer_ = << >> /\ filter_offsets_ = << >>
  /\ keys_ = << >> /\ start_ = << >>
  /\ page = << >> /\ block = NoBlock
  /\ rangeKeys = [ range \in Ranges |-> << >> ]

-----------------------------------------------------------------------------
(* tmp_keys_: the keys, cut out of keys_ again.                            *)
TmpKeys ==
  LET start == Append(start_, Len(keys_))
  IN  [ i \in 1..Len(start_) |->
          Bytes(keys_, start[i], start[i + 1] - start[i]) ]

(* Mutant: start_ is not emptied.                                          *)
KeptStart(start) == start

EmptiedStart(start) == << >>

(* GenerateFilter() called n > 0 times: the first call makes the filter of *)
(* the keys, if there are any, and each of the others an empty range.      *)
GenerateFilters(n) ==
  /\ buffer_' = buffer_ \o FilterOf(policy_, TmpKeys)
  /\ filter_offsets_' =
       filter_offsets_ \o [ i \in 1..n |-> IF i = 1 THEN Len(buffer_)
                                           ELSE Len(buffer_') ]
  /\ keys_' = << >> /\ start_' = EmptiedStart(start_)

(* Mutant: a block is put in the range that it ends before.                *)
FilterIndexRoundedUp(offset) == (offset + FilterBase - 1) \div FilterBase

FilterIndex(offset) == offset \div FilterBase

(* Mutant: the loop makes one filter too many.                             *)
OneTooMany(offset) == FilterIndex(offset) - Len(filter_offsets_) + 1

(* The rounds of the loop of StartBlock().                                 *)
Missing(offset) == FilterIndex(offset) - Len(filter_offsets_)

StartBlock(offset) ==
  /\ page = << >> /\ offset >= block
  /\ \/ Missing(offset) > 0 /\ GenerateFilters(Missing(offset))
     \/ Missing(offset) <= 0 /\ UNCHANGED builderVars
  /\ block' = offset
  /\ UNCHANGED << policy_, page, rangeKeys >>

AddKey(key) ==
  /\ page = << >> /\ block # NoBlock /\ Len(start_) < MaxKeys
  /\ start_' = Append(start_, Len(keys_))
  /\ keys_' = keys_ \o key
  /\ rangeKeys' = [rangeKeys EXCEPT ![RangeOf(block)] = Append(@, key)]
  /\ UNCHANGED << policy_, buffer_, filter_offsets_, page, block >>

Finish ==
  /\ page = << >>
  /\ \/ start_ # << >> /\ GenerateFilters(1)
     \/ start_ = << >> /\ UNCHANGED builderVars
  /\ page' = Sealed(Append(buffer_' \o
               Fixed32Array(Append(filter_offsets_', Len(buffer_'))),
               FilterBaseLg), FilterPageType)
  /\ UNCHANGED << policy_, block, rangeKeys >>

Next ==
  \/ \E offset \in Offsets : StartBlock(offset)
  \/ \E key \in Keys : AddKey(key)
  \/ Finish

Spec == Init /\ [][Next]_vars

-----------------------------------------------------------------------------
(* FilterPageReader over a page: the constructor and KeyMayMatch.          *)
LastWord(contents) == DecodeFixed32(contents, Len(contents) - 5)

(* Mutant: the last offset of the array counts as the end of the filters.  *)
NumFiltersButLast(contents) ==
  IF Len(contents) < 5 \/ LastWord(contents) > Len(contents) - 5 THEN 0
  ELSE (Len(contents) - 5 - LastWord(contents)) \div U32Size - 1

NumFilters(contents) ==
  IF Len(contents) < 5 \/ LastWord(contents) > Len(contents) - 5 THEN 0
  ELSE (Len(contents) - 5 - LastWord(contents)) \div U32Size

KeyMayMatch(contents, offset, key) ==
  LET index == offset \div (2 ^ contents[Len(contents)])
      array == LastWord(contents)
      start == Fixed32At(contents, array, index)
      limit == Fixed32At(contents, array, index + 1)
  IN  index < NumFilters(contents) =>
        IF start <= limit /\ limit <= array
        THEN PolicyKeyMayMatch(key, Bytes(contents, start, limit - start))
        ELSE start # limit

-----------------------------------------------------------------------------
(* What common/filter_policy.h:35-50 asks of a policy, on the lists that a *)
(* filter can be made of: a filter is made of bytes, a key of the list     *)
(* matches it, and an answer is what PolicyMatches says of the list; no    *)
(* key matches the filter of no keys unless it matches the empty list.     *)
KeepsContract(policy) ==
  \A n \in 0..MaxKeys : \A list \in [1..n -> Keys] :
    /\ FilterOf(policy, list) \in Seq(Byte)
    /\ \A i \in 1..n : PolicyMatches(policy, list, list[i])
    /\ \A key \in Keys : PolicyKeyMayMatch(key, FilterOf(policy, list))
                           <=> PolicyMatches(policy, list, key)

(* The policy that a new builder is given, and never changes, keeps that   *)
(* contract: its filters are asked about the bits that were set in them.   *)
PolicyContract == block = NoBlock => KeepsContract(policy_)

(* filter_page.cpp:28: with offsets that do not decrease, StartBlock()     *)
(* never meets more filters than the new block's index.                    *)
AssertHolds ==
  page = << >> =>
    \A offset \in Offsets :
      offset >= block => FilterIndex(offset) >= Len(filter_offsets_)

(* The reader never turns away a key that was added in the range of the    *)
(* block it is asked about: a false negative would lose the key.           *)
NoFalseNegative ==
  page # << >> =>
    \A offset \in Offsets :
      \A i \in 1..Len(rangeKeys[RangeOf(offset)]) :
        KeyMayMatch(PageData(page), offset, rangeKeys[RangeOf(offset)][i])

(* What the reader answers is what the policy promises of exactly the keys *)
(* of that range, what it promises of no keys for a range that was         *)
(* skipped, and TRUE beyond the last range that has a filter: no filter    *)
(* mixes the keys of two ranges, whatever blocks were skipped, and none    *)
(* turns away less than it should.                                         *)
OneFilterPerRange ==
  page # << >> =>
    \A offset \in Offsets, key \in Keys :
      KeyMayMatch(PageData(page), offset, key) <=>
        \/ RangeOf(offset) >= Len(filter_offsets_)
        \/ PolicyMatches(policy_, rangeKeys[RangeOf(offset)], key)
=============================================================================
