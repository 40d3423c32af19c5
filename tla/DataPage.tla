------------------------------ MODULE DataPage ------------------------------
(***************************************************************************)
(* The bytes of a data page and the accessors with which                   *)
(* storage/data_page_reader.cpp reads them.                                *)
(*                                                                         *)
(*   entry*  restart-offset*  restart-count  |  page-type  checksum        *)
(*                                                                         *)
(* An entry is three varints (shared prefix length, suffix length, value   *)
(* length) followed by the suffix of the key and the value.  The prefix is *)
(* shared with the key of the restart point the entry belongs to, whose    *)
(* entry stores its key in full.  The restart array and its count are      *)
(* fixed32s.  `data` below is the page without the footer behind the bar.  *)
(***************************************************************************)
EXTENDS Page

RestartPointNum(data) == DecodeFixed32(data, Len(data) - U32Size)

RestartPointStart(data) ==
  Len(data) - U32Size - RestartPointNum(data) * U32Size

(* The place of restart point r in the restart array ...                   *)
RestartPointOffset(data, r) == RestartPointStart(data) + r * U32Size

(* ... and the offset of its entry, which is what that place holds.        *)
RestartPointEntry(data, r) == DecodeFixed32(data, RestartPointOffset(data, r))

(* The header of the entry at cur and the offset of the bytes after it.    *)
(* Each length is read from a cell of U32Size bytes and stepped over by    *)
(* varint_length of the value read.                                        *)
EntryHeader(data, cur) ==
  LET prefix == GetVarint32(data, cur, U32Size)
      p1     == cur + VarintLength(prefix)
      suffix == GetVarint32(data, p1, U32Size)
      p2     == p1 + VarintLength(suffix)
      value  == GetVarint32(data, p2, U32Size)
  IN  [prefix |-> prefix, suffix |-> suffix, value |-> value,
       body |-> p2 + VarintLength(value)]

(* The parts of the entry at cur with header h; r is the header of the     *)
(* entry of its restart point.                                             *)
SizeOf(cur, h)    == (h.body - cur) + h.suffix + h.value
SuffixOf(data, h) == Bytes(data, h.body, h.suffix)
KeyOf(data, h, r) == Bytes(data, r.body, h.prefix) \o SuffixOf(data, h)
ValueOf(data, h)  == Bytes(data, h.body + h.suffix, h.value)

EntrySize(data, cur) == SizeOf(cur, EntryHeader(data, cur))

RestartPointHeader(data, r) == EntryHeader(data, RestartPointEntry(data, r))

RestartPointKey(data, r) == SuffixOf(data, RestartPointHeader(data, r))

(* key() takes the prefix from the memory that starts at the key of the    *)
(* restart point, however long that key is.                                *)
KeyAt(data, cur, restart) ==
  KeyOf(data, EntryHeader(data, cur), RestartPointHeader(data, restart))

ValueAt(data, cur) == ValueOf(data, EntryHeader(data, cur))

-----------------------------------------------------------------------------
(* Slice::compare < 0: lexicographic on bytes, a proper prefix first.      *)
SliceLess(a, b) ==
  \/ /\ Len(a) < Len(b) /\ a = SubSeq(b, 1, Len(a))
  \/ \E i \in 1..Min({Len(a), Len(b)}) :
       /\ a[i] < b[i]
       /\ \A j \in 1..(i - 1) : a[j] = b[j]
=============================================================================
