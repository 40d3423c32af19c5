-------------------------- MODULE DataPageIterator --------------------------
(***************************************************************************)
(* storage/data_page_reader.cpp over the pages DataPageBuilder makes: the  *)
(* page a finish() returned is opened by newIterator(), and the iterator   *)
(* is then moved by its six positioning operations.                        *)
(*                                                                         *)
(* cur_ is a byte offset and curRestartPoint_ the restart point whose key  *)
(* key() completes the entry at cur_ with; the two are updated separately. *)
(* The page is not written while the iterator is open.  Key is what key()  *)
(* returns, a view of the string key_ that the next key() overwrites; only *)
(* SeekOwnKey still uses it after that.                                    *)
(***************************************************************************)
EXTENDS DataPageBuilder

CONSTANTS
  SeekTargets,  \* the byte strings seek() is called with; {} leaves seek() out
  WildOffsets   \* what a read before the start of the page may return

ASSUME IteratorAssumption ==
  SeekTargets \subseteq Seq(Byte) /\ WildOffsets \subseteq Nat

VARIABLES
  data_,             \* the page without its footer, << >> before newIterator()
  restartPointNum_, restartPointStart_,
  cur_, curRestartPoint_,
  value_             \* what the last value() copied

iterVars == << data_, restartPointNum_, restartPointStart_,
               cur_, curRestartPoint_, value_ >>
vars     == << builderVars, iterVars >>

IteratorTypeOK ==
  /\ BuilderTypeOK
  /\ data_ \in Seq(Byte)
  /\ restartPointNum_ \in 0..MaxRecords /\ restartPointStart_ \in 0..Len(data_)
  /\ cur_ \in Nat
  /\ curRestartPoint_ \in -1..Max({0, restartPointNum_ - 1})
  /\ value_ \in Seq(Byte)

Init ==
  /\ BuilderInit
  /\ data_ = << >> /\ restartPointNum_ = 0 /\ restartPointStart_ = 0
  /\ cur_ = 0 /\ curRestartPoint_ = 0 /\ value_ = << >>

-----------------------------------------------------------------------------
Opened == data_ # << >>
Valid  == cur_ < restartPointStart_
Key    == KeyAt(data_, cur_, curRestartPoint_)

At(cur, restart) == [cur |-> cur, restart |-> restart]

Here == At(cur_, curRestartPoint_)

MoveTo(position) ==
  /\ cur_' = position.cur
  /\ curRestartPoint_' = position.restart
  /\ UNCHANGED << builderVars, data_, restartPointNum_, restartPointStart_,
                  value_ >>

(* An entry takes a byte or more and ends before the restart array.  That  *)
(* is why the loops below end; on other bytes the model leaves them.       *)
Onward(from, to) == to \in (from + 1)..restartPointStart_

(* Mutant: an entry that ends at limit does not end the loop.              *)
LastEntryThrough(r, limit) ==
  LET walk[entry \in Nat] ==
        LET after == entry + EntrySize(data_, entry)
        IN  IF Onward(entry, after) /\ after <= limit THEN walk[after]
            ELSE entry
  IN  walk[RestartPointEntry(data_, r)]

(* The loops of seekToLast and prev: the last entry, from that of restart  *)
(* point r on, that ends at limit or beyond it.                            *)
LastEntryBefore(r, limit) ==
  LET walk[entry \in Nat] ==
        LET after == entry + EntrySize(data_, entry)
        IN  IF Onward(entry, after) /\ after < limit THEN walk[after]
            ELSE entry
  IN  walk[RestartPointEntry(data_, r)]

LastPosition ==
  At(LastEntryBefore(restartPointNum_ - 1, restartPointStart_),
     restartPointNum_ - 1)

(* Mutant: the header of the entry is not stepped over.                    *)
NextWithoutHeader(p) ==
  LET h == EntryHeader(data_, p.cur)
  IN  At(p.cur + h.suffix + h.value, p.restart)

(* next() compares the offset it moved to with a place in the restart      *)
(* array, not with the entry that place points to.                         *)
NextPosition(p) ==
  LET cur == p.cur + EntrySize(data_, p.cur)
  IN  At(cur, IF cur = RestartPointOffset(data_, p.restart + 1)
              THEN p.restart + 1 ELSE p.restart)

(* Mutant: the restart point stays when its entry is left.                 *)
PrevKeepsRestartPoint(p) ==
  At(LastEntryBefore(p.restart, p.cur), p.restart)

PrevPosition(p) ==
  LET r == IF p.cur = RestartPointEntry(data_, p.restart)
           THEN p.restart - 1 ELSE p.restart
  IN  At(LastEntryBefore(r, p.cur), r)

(* The binary search of seek().                                            *)
SearchedRestartPoint(target) ==
  LET search[s \in [left : Nat, right : Nat]] ==
        LET mid == (s.left + s.right) \div 2
        IN  IF s.left >= s.right THEN s.left
            ELSE search[IF SliceLess(RestartPointKey(data_, mid), target)
                        THEN [s EXCEPT !.left = mid + 1]
                        ELSE [s EXCEPT !.right = mid]]
  IN  search[[left |-> 0, right |-> restartPointNum_ - 1]]

(* Mutant: the scan starts at the restart point that was found.            *)
FoundRestartPoint(target) == SearchedRestartPoint(target)

(* The restart point from whose entry seek() scans when left is not 0.     *)
ScannedRestartPoint(target) ==
  LET left == SearchedRestartPoint(target)
  IN  IF left = restartPointNum_ - 1
           /\ SliceLess(RestartPointKey(data_, left), target)
      THEN left ELSE left - 1

(* The scan completes the keys with the restart point of before the call,  *)
(* r; that of the positions of scan is moved by next() alone.              *)
Scanned(left, r, Below(_)) ==
  LET scan[p \in [cur : Nat, restart : Int]] ==
        LET next == NextPosition(p)
        IN  IF /\ p.cur < restartPointStart_
               /\ Below(KeyAt(data_, p.cur, p.restart))
               /\ Onward(p.cur, next.cur)
            THEN scan[next] ELSE p
  IN  scan[At(RestartPointEntry(data_, left), r)]

SeekPosition(target, r) ==
  IF SearchedRestartPoint(target) = 0 THEN At(0, 0)
  ELSE Scanned(ScannedRestartPoint(target), r,
               LAMBDA key : SliceLess(key, target))

(* seek(key()): from the first key() of the scan on, what is compared with *)
(* the target is the same memory, and their lengths decide.                *)
OwnKeyPosition ==
  IF SearchedRestartPoint(Key) = 0 THEN At(0, 0)
  ELSE Scanned(ScannedRestartPoint(Key), curRestartPoint_,
               LAMBDA key : Len(key) < Len(Key))

-----------------------------------------------------------------------------
NewIterator ==
  /\ ~Opened /\ WholePage
  /\ data_' = PageData(page)
  /\ restartPointNum_' = RestartPointNum(data_')
  /\ restartPointStart_' = RestartPointStart(data_')
  /\ cur_' = 0 /\ curRestartPoint_' = 0
  /\ UNCHANGED << builderVars, value_ >>

SeekToFirst == Opened /\ MoveTo(At(0, 0))

SeekToLast == Opened /\ restartPointNum_ > 0 /\ MoveTo(LastPosition)

(* On a page without restart points the offset of the last one is read     *)
(* from the four bytes before the page.                                    *)
SeekToLastOfNone ==
  /\ Opened /\ restartPointNum_ = 0
  /\ \E wild \in WildOffsets : MoveTo(At(wild, -1))

Next == Opened /\ Valid /\ MoveTo(NextPosition(Here))

(* Mutants: the restart point, or the offset, is past the last one.        *)
PastTheLastRestartPoint == At(restartPointStart_, restartPointNum_)
PastTheRestartArray     == At(Len(data_) - U32Size, restartPointNum_ - 1)

PastTheFront == At(restartPointStart_, restartPointNum_ - 1)

PrevOffTheFront == Opened /\ Valid /\ cur_ = 0 /\ MoveTo(PastTheFront)

Prev == Opened /\ Valid /\ cur_ # 0 /\ MoveTo(PrevPosition(Here))

Seek(target) ==
  /\ Opened /\ restartPointNum_ > 0
  /\ MoveTo(SeekPosition(target, curRestartPoint_))

SeekOwnKey ==
  /\ Opened /\ Valid /\ SeekTargets # {}
  /\ MoveTo(OwnKeyPosition)

ReadValue ==
  /\ Opened /\ Valid
  /\ value_' = ValueAt(data_, cur_)
  /\ UNCHANGED << builderVars, data_, restartPointNum_, restartPointStart_,
                  cur_, curRestartPoint_ >>

IteratorNext ==
  \/ ~Opened /\ BuilderNext /\ UNCHANGED iterVars
  \/ NewIterator
  \/ SeekToFirst
  \/ SeekToLast
  \/ SeekToLastOfNone
  \/ Next
  \/ PrevOffTheFront
  \/ Prev
  \/ \E target \in SeekTargets : Seek(target)
  \/ SeekOwnKey
  \/ ReadValue

Spec == Init /\ [][IteratorNext]_vars

-----------------------------------------------------------------------------
(* The record whose entry starts at an offset, and where the iterator      *)
(* stands: Len(added) + 1 when it is not valid.                            *)
RecordAt(offset) == CHOOSE j \in 1..Len(added) : added[j].at = offset

Past     == Len(added) + 1
Position == IF Valid THEN RecordAt(cur_) ELSE Past

(* The position of record j with its own restart point.                    *)
Place(j) == At(added[j].at, RestartOf(j))

InSync == Opened /\ Valid /\ Here = Place(Position)

SortedRecords ==
  \A i \in 1..Len(added), j \in 1..Len(added) :
    i < j => ~SliceLess(added[j].key, added[i].key)

LowerBound(target) ==
  Min({ j \in 1..Len(added) : ~SliceLess(added[j].key, target) } \cup {Past})

(* Whatever calls were made, a valid iterator stands on the first byte of  *)
(* a record, and no call moves it into the middle of one (iterator.h).     *)
StandsOnRecord ==
  Opened /\ Valid => \E j \in 1..Len(added) : cur_ = added[j].at

(* An iterator that is not valid stands on the first byte of the restart   *)
(* array, where the call of key() with which the scan of seek() ends finds *)
(* the empty key, and so does a caller who does not ask valid() first.     *)
PastKeyHarmless ==
  Opened /\ added # << >> /\ ~Valid =>
    cur_ = restartPointStart_ /\ Key = << >>

(* Going backwards is safe: seekToLast() gets the restart point of the     *)
(* last record right, and from a position whose restart point is right     *)
(* prev() leads to the record before it, with its restart point right, so  *)
(* that key() is the key of the record all along a backward scan           *)
(* (data_page_test.cpp:79-93).                                             *)
BackwardScanRight ==
  Opened /\ added # << >> =>
    /\ LastPosition = Place(Len(added))
    /\ InSync => Key = added[Position].key
    /\ InSync /\ cur_ # 0 => PrevPosition(Here) = Place(Position - 1)

(* When seek() is right: on sorted records, with at least two restart      *)
(* points, it finds the first record whose key is not below the target if  *)
(* that is in front, or if curRestartPoint_ was already the restart point  *)
(* it scans from, because seek() itself never sets it.                     *)
SeekFindsLowerBound ==
  Opened /\ SortedRecords /\ restartPointNum_ > 1 =>
    \A target \in SeekTargets :
      \/ SearchedRestartPoint(target) = 0
      \/ curRestartPoint_ = ScannedRestartPoint(target)
      => LET cur == SeekPosition(target, curRestartPoint_).cur
         IN  IF LowerBound(target) = Past THEN cur = restartPointStart_
             ELSE cur = added[LowerBound(target)].at

-----------------------------------------------------------------------------
(* Without seek() the iterator implements a cursor over the records: every *)
(* call moves it as the Iterator of common/iterator.h promises, and        *)
(* value() copies the value of the record it stands on.                    *)
Cursor == INSTANCE RecordCursor WITH
  Contents <- Records,
  records  <- IF Opened THEN added ELSE << >>,
  opened   <- Opened,
  pos      <- IF Opened THEN Position ELSE 1,
  value    <- value_

ImplementsCursor == Cursor!CursorSpec

-----------------------------------------------------------------------------
(* What data_page_test.cpp:71 asserts while it scans forward: key() is the *)
(* key of the record the iterator stands on.                               *)
ForwardKeysRight == Opened /\ Valid => Key = added[Position].key

(* What data_page_test.cpp:99-100 and 113-114 assert: seek() to a key that *)
(* is in the page makes that record the current one.                       *)
SeekFindsKey ==
  Opened /\ SortedRecords =>
    \A j \in 1..Len(added) :
      LET cur == SeekPosition(added[j].key, curRestartPoint_).cur
      IN  /\ cur < restartPointStart_
          /\ added[RecordAt(cur)].key = added[j].key
=============================================================================
