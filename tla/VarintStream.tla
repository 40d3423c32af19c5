---------------------------- MODULE VarintStream ----------------------------
(***************************************************************************)
(* A writer appends varints and texts behind their length to a buffer      *)
(* (put_varint32, put_varint64, put_varint64_varint32 and                  *)
(* put_length_prefixed_slice) and a reader parses the fields back through  *)
(* a Slice over the first bytes of that buffer (the get_varint32 and       *)
(* get_varint64 that take a Slice).  It may end anywhere, in the middle of *)
(* a field too.                                                            *)
(***************************************************************************)
EXTENDS Coding, SequencesExt

CONSTANTS Values,       \* the uint32 values that are written
          Values64,     \* the uint64 values, as their seven-bit groups
          Texts,        \* the byte strings
          MaxPuts       \* bound on the calls of the writer

ASSUME StreamAssumption ==
  /\ MaxPuts \in Nat
  /\ \A v \in Values : IsUint32(v)
  /\ \A groups \in Values64 : IsUint64(groups)
  /\ \A t \in Texts : t \in Seq(Byte) /\ IsUint32(Len(t))

VARIABLES dst,          \* the writer's buffer
          puts,         \* history: how many calls filled it
          input,        \* the reader's Slice: [off, end], or NoSlice
          failed,       \* the last get_varint returned false
          written, got  \* history: the fields put, the fields parsed,
                        \* each with the offset at which it begins

vars == << dst, puts, input, failed, written, got >>

NoSlice == [off |-> 0, end |-> 0]

U32(v, off)  == [kind |-> "u32", value |-> v, off |-> off]
U64(g, off)  == [kind |-> "u64", value |-> g, off |-> off]
Text(t, off) == [kind |-> "text", value |-> t, off |-> off]

Field == [kind : {"u32"}, value : Nat, off : Nat]
           \cup [kind : {"u64", "text"}, value : Seq(Byte), off : Nat]

TypeOK ==
  /\ dst \in Seq(Byte) /\ puts \in 0..MaxPuts
  /\ input \in [off : 0..Len(dst), end : 0..Len(dst)]
  /\ input.off <= input.end
  /\ failed \in BOOLEAN
  /\ written \in Seq(Field) /\ got \in Seq(Field)

Init ==
  /\ dst = << >> /\ puts = 0 /\ input = NoSlice /\ failed = FALSE
  /\ written = << >> /\ got = << >>

-----------------------------------------------------------------------------
Put(bytes, fields) ==
  /\ input = NoSlice /\ puts < MaxPuts
  /\ dst' = dst \o bytes
  /\ written' = written \o fields
  /\ puts' = puts + 1
  /\ UNCHANGED << input, failed, got >>

PutVarint32(v) == Put(EncodeVarint32(v), << U32(v, Len(dst)) >>)
PutVarint64(g) == Put(EncodeVarint64(g), << U64(g, Len(dst)) >>)

PutVarint64Varint32(g, v) ==
  Put(EncodeVarint64(g) \o EncodeVarint32(v),
      << U64(g, Len(dst)), U32(v, Len(dst) + Len(EncodeVarint64(g))) >>)

PutLengthPrefixedSlice(t) ==
  Put(EncodeVarint32(Len(t)) \o t,
      << U32(Len(t), Len(dst)),
         Text(t, Len(dst) + Len(EncodeVarint32(Len(t)))) >>)

-----------------------------------------------------------------------------
OpenSlice(n) ==
  /\ input = NoSlice
  /\ input' = [off |-> 0, end |-> n]
  /\ UNCHANGED << dst, puts, failed, written, got >>

(* The reader knows which fields follow, and asks for one more.            *)
Expects(kind) ==
  /\ input # NoSlice /\ ~failed
  /\ Len(got) < Len(written) => written[Len(got) + 1].kind = kind

Left == input.end - input.off

(* What a get_varint leaves, when r is what decode_varint found.           *)
Got(r, fields) ==
  /\ failed' = ~r.ok
  /\ input' = IF r.ok THEN [input EXCEPT !.off = r.next] ELSE input
  /\ got' = IF r.ok THEN got \o fields ELSE got
  /\ UNCHANGED << dst, puts, written >>

GetVarint32Slice ==
  LET r == DecodeVarint32(dst, input.off, Left)
  IN  Expects("u32") /\ Got(r, << U32(r.value, input.off) >>)

GetVarint64Slice ==
  LET r == DecodeVarint64(dst, input.off, Left)
  IN  Expects("u64") /\ Got(r, << U64(r.value, input.off) >>)

(* The reader takes the bytes of a text out of the Slice, as many as the   *)
(* length in front of them says.                                           *)
TakeText ==
  /\ Expects("text") /\ Len(got) < Len(written)
  /\ LET n == Last(got).value
         r == [ok |-> n <= Left, next |-> input.off + n]
     IN  Got(r, << Text(Bytes(dst, input.off, n), input.off) >>)

Next ==
  \/ \E v \in Values : PutVarint32(v)
  \/ \E g \in Values64 : PutVarint64(g)
  \/ \E g \in Values64, v \in Values : PutVarint64Varint32(g, v)
  \/ \E t \in Texts : PutLengthPrefixedSlice(t)
  \/ \E n \in 1..Len(dst) : OpenSlice(n)
  \/ GetVarint32Slice
  \/ GetVarint64Slice
  \/ TakeText

Spec == Init /\ [][Next]_vars

-----------------------------------------------------------------------------
(* The offset at which the n-th field begins, or would begin.             *)
StartOf(n) == IF n <= Len(written) THEN written[n].off ELSE Len(dst)

(* Whatever is parsed is what was written, in order and from the bytes it  *)
(* was written to, and no part of a field is ever handed out               *)
(* (coding.h:164-166, 189-191).                                            *)
GotIsWritten == IsPrefix(got, written)

(* The reader fails exactly when the rest of the Slice does not hold a     *)
(* whole field, and it has then consumed only whole fields: the failed     *)
(* call leaves the Slice at the start of the field that was cut off.       *)
FailsOnlyWhenCut ==
  failed => /\ input.off = StartOf(Len(got) + 1)
            /\ Len(got) < Len(written) => StartOf(Len(got) + 2) > input.end
            /\ Len(got) = Len(written) => input.end = Len(dst)

(* The reader of a page gives get_varint32 a cell of four bytes            *)
(* (InnerLengthTypeSize in data_page_reader.cpp): it parses every length   *)
(* below 2^28 and no other, although the encoder writes up to five bytes.  *)
FourByteCell ==
  \A i \in 1..Len(written) :
    written[i].kind = "u32" =>
      LET off == StartOf(i)
          r   == DecodeVarint32(dst, off, Min({4, Len(dst) - off}))
      IN  /\ r.ok <=> written[i].value < Pow128[5]
          /\ r.ok => r.value = written[i].value
=============================================================================
