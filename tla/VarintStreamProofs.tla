-------------------------- MODULE VarintStreamProofs --------------------------
(***************************************************************************)
(* A varint decodes to what was encoded wherever it stands in a buffer,    *)
(* and exactly if all of its bytes may be read; so the reader of a stream  *)
(* gets what the writer put, up to the first field that is cut off.        *)
(***************************************************************************)
EXTENDS VarintStream, PageProofs

(* The groups of a uint64 and the continuation bits of its bytes.          *)
LEMMA Varint64Bytes ==
  ASSUME NEW g, IsUint64(g)
  PROVE  /\ Len(EncodeVarint64(g)) = Len(g)
         /\ EncodeVarint64(g) \in Seq(Byte)
         /\ EncodeVarint64(g)[Len(g)] < 128
         /\ \A j \in 1..(Len(g) - 1) : EncodeVarint64(g)[j] >= 128
         /\ \A j \in 1..Len(g) :
              EncodeVarint64(g)[j] % (IF j < 10 THEN 128 ELSE 2) = g[j]
<1> DEFINE n == Len(g)
<1>1. /\ g \in Seq(0..127) /\ n \in 1..10
      /\ n = 10 => g[10] = 1
  BY DEF IsUint64
<1>2. DOMAIN g = 1..n
  BY <1>1
<1>3. ASSUME NEW j \in 1..n PROVE g[j] \in 0..127
  BY <1>1, ElementOfSeq
<1> HIDE DEF n
<1>4. \A j \in 1..n :
        EncodeVarint64(g)[j] = g[j] + (IF j < n THEN 128 ELSE 0)
  BY <1>2 DEF EncodeVarint64, n
<1>5. EncodeVarint64(g) \in [1..n -> Byte]
  <2>1. EncodeVarint64(g)
          = [ j \in 1..n |-> g[j] + (IF j < n THEN 128 ELSE 0) ]
    BY <1>2 DEF EncodeVarint64, n
  <2>2. ASSUME NEW j \in 1..n
        PROVE  g[j] + (IF j < n THEN 128 ELSE 0) \in Byte
    <3>1. g[j] \in 0..127 /\ (IF j < n THEN 128 ELSE 0) \in {0, 128}
      BY <1>3
    <3> QED
      BY <3>1 DEF Byte
  <2> QED
    BY <2>1, <2>2
<1>6. EncodeVarint64(g) \in Seq(Byte) /\ Len(EncodeVarint64(g)) = n
  BY <1>1, <1>5
<1>7. EncodeVarint64(g)[n] < 128
  <2>1. n \in 1..n /\ ~(n < n)
    BY <1>1
  <2>2. g[n] \in 0..127 /\ EncodeVarint64(g)[n] = g[n] + 0
    BY <1>3, <1>4, <2>1
  <2> QED
    BY <2>2
<1>8. \A j \in 1..(n - 1) : EncodeVarint64(g)[j] >= 128
  <2> TAKE j \in 1..(n - 1)
  <2>1. j \in 1..n /\ j < n
    BY <1>1
  <2>2. g[j] \in 0..127 /\ EncodeVarint64(g)[j] = g[j] + 128
    BY <1>3, <1>4, <2>1
  <2> QED
    BY <2>2
<1>9. ASSUME NEW j \in 1..n
      PROVE  EncodeVarint64(g)[j] % (IF j < 10 THEN 128 ELSE 2) = g[j]
  <2>1. CASE j < 10
    BY <1>3, <1>4, <2>1
  <2>2. CASE ~(j < 10)
    <3>1. j = 10 /\ n = 10 /\ g[10] = 1
      BY <1>1, <2>2
    <3>2. EncodeVarint64(g)[j] = 1
      BY <1>4, <3>1
    <3> QED
      BY <2>2, <3>1, <3>2
  <2> QED
    BY <2>1, <2>2
<1> QED
  BY <1>6, <1>7, <1>8, <1>9 DEF n

(* What is left when the groups are read from bytes that make them up.     *)
LEMMA GroupsReadBack ==
  ASSUME NEW g, IsUint64(g), NEW buf, NEW off,
         \A j \in 1..Len(g) :
           buf[off + j] % (IF j < 10 THEN 128 ELSE 2) = g[j]
  PROVE  GroupsAt(buf, off, Len(g)) = g
<1> DEFINE n == Len(g)
           groups == [ i \in 1..n |->
                         buf[off + i] % (IF i < 10 THEN 128 ELSE 2) ]
           S == {1} \cup { i \in 1..n : g[i] # 0 }
<1>1. g \in Seq(0..127) /\ n \in 1..10 /\ (g[n] # 0 \/ n = 1)
  BY DEF IsUint64
<1>2. g = [ i \in 1..n |-> g[i] ]
  BY <1>1
<1>3. groups = [ i \in 1..n |-> g[i] ]
  BY Zenon
<1>4. groups = g
  BY <1>2, <1>3
<1>5. Max(S) = n
  <2> HIDE DEF n
  <2>1. S \subseteq 0..10 /\ S # {} /\ 10 \in Nat
    BY <1>1
  <2>2. Max(S) \in S /\ \A x \in S : x <= Max(S)
    <3> HIDE DEF S
    <3> QED
      BY <2>1, MaxOfBounded
  <2>3. n \in S /\ \A x \in S : x \in Nat /\ x <= n
    BY <1>1
  <2>4. n \in Nat /\ Max(S) \in Nat /\ Max(S) <= n /\ n <= Max(S)
    <3> HIDE DEF S
    <3> QED
      BY <1>1, <2>2, <2>3
  <2> QED
    BY <2>4
<1>6. SubSeq(g, 1, n) = g
  BY <1>1
<1>7. GroupsAt(buf, off, n)
        = SubSeq(groups, 1, Max({1} \cup { i \in 1..n : groups[i] # 0 }))
  BY DEF GroupsAt
<1> HIDE DEF groups, n
<1> QED
  BY <1>4, <1>5, <1>6, <1>7 DEF n

(* decode_varint64_ptr of encode_varint64, for every uint64.               *)
LEMMA Varint64ReadsBack ==
  ASSUME NEW g, IsUint64(g), NEW buf, NEW off \in Nat, NEW avail \in Nat,
         Stands(EncodeVarint64(g), buf, off)
  PROVE  /\ Len(g) <= avail =>
              DecodeVarint64(buf, off, avail) =
                [ok |-> TRUE, value |-> g, next |-> off + Len(g)]
         /\ ~(Len(g) <= avail) =>
              DecodeVarint64(buf, off, avail) =
                [ok |-> FALSE, value |-> << >>, next |-> off]
<1> DEFINE n == Len(g)
           ends == Varint64Ends(buf, off, avail)
<1>1. /\ n \in 1..10 /\ Len(EncodeVarint64(g)) = n
      /\ EncodeVarint64(g) \in Seq(Byte)
  BY Varint64Bytes DEF IsUint64
<1>2. EncodeVarint64(g)[n] < 128
  BY Varint64Bytes
<1>3. \A j \in 1..(n - 1) : EncodeVarint64(g)[j] >= 128
  BY Varint64Bytes
<1>4. \A j \in 1..n :
        EncodeVarint64(g)[j] % (IF j < 10 THEN 128 ELSE 2) = g[j]
  BY Varint64Bytes
<1> HIDE DEF n
<1>5. \A j \in 1..n : /\ buf[off + j] = EncodeVarint64(g)[j]
                      /\ buf[off + j] \in Nat
  <2> TAKE j \in 1..n
  <2>1. EncodeVarint64(g)[j] \in Byte
    BY <1>1, ElementOfSeq
  <2>2. buf[off + j] = EncodeVarint64(g)[j]
    BY <1>1 DEF Stands
  <2> QED
    BY <2>1, <2>2 DEF Byte
<1>6. ends = IF n <= avail THEN {n} ELSE {}
  <2>1. /\ buf[off + n] \in Nat /\ buf[off + n] < 128
        /\ \A j \in 1..(n - 1) : buf[off + j] \in Nat /\ buf[off + j] >= 128
    BY SMTT(30), <1>1, <1>2, <1>3, <1>5
  <2>2. EndsWithin(10, buf, off, avail) = IF n <= avail THEN {n} ELSE {}
    BY <1>1, <2>1, EndsAt
  <2> QED
    BY <2>2 DEF Varint64Ends
<1>7. GroupsAt(buf, off, n) = g
  <2>1. \A j \in 1..n : buf[off + j] % (IF j < 10 THEN 128 ELSE 2) = g[j]
    BY <1>4, <1>5
  <2> QED
    BY <2>1, GroupsReadBack DEF n
<1>8. CASE n <= avail
  <2>1. ends = {n} /\ (CHOOSE m \in ends : TRUE) = n
    BY <1>6, <1>8
  <2> QED
    BY <1>7, <1>8, <2>1 DEF DecodeVarint64, n
<1>9. CASE ~(n <= avail)
  BY <1>6, <1>9 DEF DecodeVarint64, n
<1> QED
  BY <1>8, <1>9 DEF n

-----------------------------------------------------------------------------
(* What a field looks like in the buffer.                                  *)
CodeOf(field) ==
  IF field.kind = "u32" THEN EncodeVarint32(field.value)
  ELSE IF field.kind = "u64" THEN EncodeVarint64(field.value)
  ELSE field.value

WellFormed(field) ==
  /\ field \in Field
  /\ field.kind = "u32" => IsUint32(field.value)
  /\ field.kind = "u64" => IsUint64(field.value)

Start(buf, fields, n) == IF n <= Len(fields) THEN fields[n].off ELSE Len(buf)

(* A text has its length right in front of it.                             *)
LengthBefore(fields, i) ==
  /\ i > 1 /\ fields[i - 1].kind = "u32"
  /\ fields[i - 1].value = Len(fields[i].value)

(* The fields fill the buffer without a gap.                               *)
LaidOut(buf, fields) ==
  /\ Start(buf, fields, 1) = 0
  /\ \A i \in 1..Len(fields) :
       /\ WellFormed(fields[i])
       /\ Stands(CodeOf(fields[i]), buf, fields[i].off)
       /\ Start(buf, fields, i + 1) = fields[i].off + Len(CodeOf(fields[i]))
       /\ fields[i].off + Len(CodeOf(fields[i])) <= Len(buf)
       /\ fields[i].kind = "text" => LengthBefore(fields, i)

(* Until it is cut off the reader stands where a field begins, and there   *)
(* are no fields before there is a Slice.                                  *)
AtField ==
  IF input = NoSlice THEN got = << >> /\ ~failed
  ELSE input.off = StartOf(Len(got) + 1)

StreamInv ==
  /\ TypeOK
  /\ LaidOut(dst, written)
  /\ AtField
  /\ GotIsWritten
  /\ FailsOnlyWhenCut

LEMMA CodeType ==
  ASSUME NEW field, WellFormed(field)
  PROVE  CodeOf(field) \in Seq(Byte) /\ Len(CodeOf(field)) \in Nat
<1>1. CASE field.kind = "u32"
  BY <1>1, Varint32Bytes, LenProperties DEF CodeOf, WellFormed
<1>2. CASE field.kind = "u64"
  BY <1>2, Varint64Bytes, LenProperties DEF CodeOf, WellFormed
<1>3. CASE field.kind = "text"
  BY <1>3, LenProperties DEF CodeOf, WellFormed, Field
<1> QED
  BY <1>1, <1>2, <1>3 DEF WellFormed, Field

LEMMA FieldIs ==
  ASSUME NEW field \in Field
  PROVE  field = [kind |-> field.kind, value |-> field.value,
                  off |-> field.off]
BY DEF Field

(* One more field at the end of the buffer.                                *)
LEMMA LaidOutMore ==
  ASSUME NEW buf \in Seq(Byte), NEW fields \in Seq(Field),
         LaidOut(buf, fields),
         NEW field, WellFormed(field), field.off = Len(buf),
         field.kind = "text" =>
           LengthBefore(Append(fields, field), Len(fields) + 1)
  PROVE  /\ buf \o CodeOf(field) \in Seq(Byte)
         /\ Append(fields, field) \in Seq(Field)
         /\ LaidOut(buf \o CodeOf(field), Append(fields, field))
<1> DEFINE code == CodeOf(field)
           buf2 == buf \o code
           fields2 == Append(fields, field)
           n == Len(fields)
<1>1. code \in Seq(Byte) /\ Len(code) \in Nat
  BY CodeType
<1>2. field \in Field
  BY DEF WellFormed
<1>3. /\ fields2 \in Seq(Field) /\ Len(fields2) = n + 1 /\ n \in Nat
      /\ fields2[n + 1] = field
      /\ \A i \in 1..n : fields2[i] = fields[i]
  BY <1>2, AppendProperties, LenProperties
<1> HIDE DEF code
<1>4. buf2 \in Seq(Byte) /\ Len(buf2) = Len(buf) + Len(code)
        /\ Len(buf) \in Nat
  BY <1>1, ConcatBytes
<1> HIDE DEF buf2, fields2, n
<1>5. ASSUME NEW i \in 1..(n + 1)
      PROVE  Start(buf2, fields2, i) = Start(buf, fields, i)
  <2>1. CASE i <= n
    BY <1>3, <2>1 DEF Start, n
  <2>2. CASE i = n + 1
    BY <1>3, <2>2 DEF Start, n
  <2> QED
    BY <1>3, <2>1, <2>2
<1>6. Start(buf2, fields2, 1) = 0
  BY <1>3, <1>5 DEF LaidOut
<1>7. ASSUME NEW i \in 1..n
      PROVE  /\ WellFormed(fields2[i])
             /\ Stands(CodeOf(fields2[i]), buf2, fields2[i].off)
             /\ Start(buf2, fields2, i + 1)
                  = fields2[i].off + Len(CodeOf(fields2[i]))
             /\ fields2[i].off + Len(CodeOf(fields2[i])) <= Len(buf2)
             /\ fields2[i].kind = "text" => LengthBefore(fields2, i)
  <2> DEFINE f == fields[i]
  <2>1. /\ fields2[i] = f /\ WellFormed(f)
        /\ Stands(CodeOf(f), buf, f.off)
        /\ Start(buf, fields, i + 1) = f.off + Len(CodeOf(f))
        /\ f.off + Len(CodeOf(f)) <= Len(buf)
        /\ f.kind = "text" => LengthBefore(fields, i)
    BY <1>3 DEF LaidOut, n
  <2>2. f.off \in Nat
    BY <2>1 DEF WellFormed, Field
  <2>3. CodeOf(f) \in Seq(Byte) /\ Len(CodeOf(f)) \in Nat
    BY <2>1, CodeType
  <2> HIDE DEF f
  <2>4. Stands(CodeOf(f), buf2, f.off)
    BY <1>1, <2>1, <2>2, <2>3, StandsLonger DEF buf2
  <2>5. Start(buf2, fields2, i + 1) = Start(buf, fields, i + 1)
    <3>1. i + 1 \in 1..(n + 1)
      BY <1>3
    <3> QED
      BY <1>5, <3>1
  <2>6. f.off + Len(CodeOf(f)) <= Len(buf2)
    BY <1>1, <1>4, <2>1, <2>2, <2>3
  <2>7. f.kind = "text" => LengthBefore(fields2, i)
    <3> SUFFICES ASSUME f.kind = "text" PROVE LengthBefore(fields2, i)
      OBVIOUS
    <3>1. i > 1 /\ LengthBefore(fields, i)
      BY <2>1 DEF LengthBefore
    <3>2. i - 1 \in 1..n
      BY <1>3, <3>1
    <3>3. fields2[i - 1] = fields[i - 1] /\ fields2[i] = fields[i]
      BY <1>3, <3>2
    <3> QED
      BY <3>1, <3>3 DEF LengthBefore
  <2> QED
    BY <2>1, <2>4, <2>5, <2>6, <2>7
<1>8. Stands(code, buf2, Len(buf))
  BY <1>1, StandsAtEnd DEF buf2
<1>9. Start(buf2, fields2, (n + 1) + 1) = Len(buf2)
  BY <1>3 DEF Start
<1>10. ASSUME NEW i \in 1..Len(fields2)
       PROVE  /\ WellFormed(fields2[i])
              /\ Stands(CodeOf(fields2[i]), buf2, fields2[i].off)
              /\ Start(buf2, fields2, i + 1)
                   = fields2[i].off + Len(CodeOf(fields2[i]))
              /\ fields2[i].off + Len(CodeOf(fields2[i])) <= Len(buf2)
              /\ fields2[i].kind = "text" => LengthBefore(fields2, i)
  <2>1. CASE i \in 1..n
    BY <1>7, <2>1
  <2>2. CASE i = n + 1
    <3>1. fields2[i] = field /\ CodeOf(fields2[i]) = code
      BY <1>3, <2>2 DEF code
    <3>2. field.kind = "text" => LengthBefore(fields2, i)
      BY <2>2 DEF fields2, n
    <3>3. Len(buf) + Len(code) <= Len(buf2)
      BY <1>1, <1>4
    <3> QED
      BY <1>4, <1>8, <1>9, <2>2, <3>1, <3>2, <3>3
  <2> QED
    BY <1>3, <2>1, <2>2
<1>11. LaidOut(buf2, fields2)
  BY <1>6, <1>10 DEF LaidOut
<1> QED
  BY <1>3, <1>4, <1>11 DEF buf2, fields2, code

-----------------------------------------------------------------------------
LEMMA PrefixIs ==
  ASSUME NEW S, NEW s \in Seq(S), NEW t \in Seq(S)
  PROVE  IsPrefix(s, t) <=> /\ Len(s) <= Len(t)
                            /\ \A i \in 1..Len(s) : s[i] = t[i]
<1> DEFINE n == Len(s)
<1>1. n \in Nat /\ Len(t) \in Nat
  BY LenProperties
<1>2. SubSeq(s, 1, n) = s
  OBVIOUS
<1>3. CASE n <= Len(t)
  <2>1. /\ SubSeq(t, 1, n) \in Seq(S) /\ Len(SubSeq(t, 1, n)) = n
        /\ \A i \in 1..n : SubSeq(t, 1, n)[i] = t[i]
    BY <1>1, <1>3
  <2>2. (\A i \in 1..n : s[i] = t[i]) => s = SubSeq(t, 1, n)
    BY <2>1, SeqEqual
  <2>3. s = SubSeq(t, 1, n) => \A i \in 1..n : s[i] = t[i]
    BY <2>1
  <2> QED
    BY <1>2, <1>3, <2>2, <2>3 DEF IsPrefix
<1>4. CASE ~(n <= Len(t))
  BY <1>4 DEF IsPrefix
<1> QED
  BY <1>3, <1>4

LEMMA EmptyIsPrefix ==
  ASSUME NEW S, NEW t \in Seq(S)
  PROVE  IsPrefix(<< >>, t)
<1>1. << >> \in Seq(S) /\ Len(<< >>) = 0 /\ Len(t) \in Nat
  BY LenProperties
<1>2. 0 <= Len(t) /\ 1..0 = {}
  BY <1>1
<1> QED
  BY <1>1, <1>2, PrefixIs

LEMMA StartOfIs == \A n : StartOf(n) = Start(dst, written, n)
BY DEF StartOf, Start

LEMMA InitHolds == StreamAssumption /\ Init => StreamInv
<1> SUFFICES ASSUME StreamAssumption, Init PROVE StreamInv
  OBVIOUS
<1>1. /\ dst = << >> /\ puts = 0 /\ input = NoSlice /\ failed = FALSE
      /\ written = << >> /\ got = << >> /\ MaxPuts \in Nat
  BY DEF Init, StreamAssumption
<1>2. << >> \in Seq(Byte) /\ << >> \in Seq(Field) /\ Len(<< >>) = 0
  OBVIOUS
<1>3. TypeOK
  <2>1. 0 \in 0..Len(dst) /\ 0 \in 0..MaxPuts
    BY <1>1, <1>2
  <2>2. input \in [off : 0..Len(dst), end : 0..Len(dst)]
          /\ input.off <= input.end
    BY <1>1, <2>1 DEF NoSlice
  <2> QED
    BY <1>1, <1>2, <2>1, <2>2 DEF TypeOK
<1>4. LaidOut(dst, written)
  BY <1>1 DEF LaidOut, Start
<1>5. AtField /\ FailsOnlyWhenCut
  BY <1>1 DEF AtField, FailsOnlyWhenCut
<1>6. GotIsWritten
  BY <1>1, <1>2, EmptyIsPrefix DEF GotIsWritten
<1> QED
  BY <1>3, <1>4, <1>5, <1>6 DEF StreamInv

LEMMA PutKeeps ==
  ASSUME StreamAssumption, StreamInv, NEW bytes, NEW fields,
         Put(bytes, fields),
         dst \o bytes \in Seq(Byte), written \o fields \in Seq(Field),
         LaidOut(dst \o bytes, written \o fields)
  PROVE  StreamInv'
<1>1. /\ input = NoSlice /\ input' = input /\ failed' = failed /\ got' = got
      /\ dst' = dst \o bytes /\ written' = written \o fields
      /\ puts' = puts + 1 /\ puts < MaxPuts
  BY DEF Put
<1>2. MaxPuts \in Nat /\ puts \in Nat /\ got = << >> /\ ~failed
  BY <1>1 DEF StreamAssumption, StreamInv, TypeOK, AtField
<1>3. Len(dst') \in Nat
  BY <1>1, LenProperties
<1>4. TypeOK'
  BY <1>1, <1>2, <1>3 DEF StreamInv, TypeOK, NoSlice
<1>5. LaidOut(dst, written)'
  BY <1>1 DEF LaidOut, Start
<1>6. AtField' /\ FailsOnlyWhenCut'
  BY <1>1, <1>2 DEF AtField, FailsOnlyWhenCut
<1>7. GotIsWritten'
  BY <1>1, <1>2, EmptyIsPrefix DEF GotIsWritten
<1> QED
  BY <1>4, <1>5, <1>6, <1>7 DEF StreamInv

(* One call that puts one field.                                           *)
LEMMA PutOneKeeps ==
  ASSUME StreamAssumption, StreamInv, NEW field, WellFormed(field),
         field.off = Len(dst), field.kind # "text",
         Put(CodeOf(field), << field >>)
  PROVE  StreamInv'
<1>1. dst \in Seq(Byte) /\ written \in Seq(Field) /\ LaidOut(dst, written)
  BY DEF StreamInv, TypeOK
<1>2. field \in Field
  BY DEF WellFormed
<1>3. Append(written, field) = written \o << field >>
  BY <1>1, <1>2, AppendIsConcat
<1>4. /\ dst \o CodeOf(field) \in Seq(Byte)
      /\ Append(written, field) \in Seq(Field)
      /\ LaidOut(dst \o CodeOf(field), Append(written, field))
  BY <1>1, LaidOutMore
<1> QED
  BY <1>3, <1>4, PutKeeps

(* One call that puts two fields, the second right behind the first.       *)
LEMMA PutTwoKeeps ==
  ASSUME StreamAssumption, StreamInv,
         NEW f, WellFormed(f), f.off = Len(dst), f.kind # "text",
         NEW g, WellFormed(g), g.off = Len(dst) + Len(CodeOf(f)),
         g.kind = "text" => f.kind = "u32" /\ f.value = Len(g.value),
         Put(CodeOf(f) \o CodeOf(g), << f, g >>)
  PROVE  StreamInv'
<1> DEFINE buf == dst \o CodeOf(f)
           fields == Append(written, f)
<1>1. dst \in Seq(Byte) /\ written \in Seq(Field) /\ LaidOut(dst, written)
  BY DEF StreamInv, TypeOK
<1>2. f \in Field /\ g \in Field
  BY DEF WellFormed
<1>3. CodeOf(f) \in Seq(Byte) /\ CodeOf(g) \in Seq(Byte)
  BY CodeType
<1>4. buf \in Seq(Byte) /\ fields \in Seq(Field) /\ LaidOut(buf, fields)
  BY <1>1, LaidOutMore
<1>5. Len(buf) = Len(dst) + Len(CodeOf(f))
  BY <1>1, <1>3, ConcatBytes
<1>6. ASSUME g.kind = "text"
      PROVE  LengthBefore(Append(fields, g), Len(fields) + 1)
  <2>1. Len(fields) = Len(written) + 1 /\ Len(written) \in Nat
        /\ fields[Len(fields)] = f
    BY <1>1, <1>2, AppendProperties, LenProperties
  <2> HIDE DEF fields
  <2>2. /\ Append(fields, g)[Len(fields)] = fields[Len(fields)]
        /\ Append(fields, g)[Len(fields) + 1] = g
    BY <1>2, <1>4, <2>1, AppendProperties
  <2>3. (Len(fields) + 1) - 1 = Len(fields) /\ Len(fields) + 1 > 1
    BY <2>1
  <2> QED
    BY <1>6, <2>1, <2>2, <2>3 DEF LengthBefore
<1>7. /\ buf \o CodeOf(g) \in Seq(Byte)
      /\ Append(fields, g) \in Seq(Field)
      /\ LaidOut(buf \o CodeOf(g), Append(fields, g))
  <2> HIDE DEF buf, fields
  <2> QED
    BY <1>4, <1>5, <1>6, LaidOutMore
<1>8. buf \o CodeOf(g) = dst \o (CodeOf(f) \o CodeOf(g))
  BY <1>1, <1>3, ConcatThree
<1>9. Append(fields, g) = written \o << f, g >>
  BY <1>1, <1>2
<1> QED
  BY <1>7, <1>8, <1>9, PutKeeps

-----------------------------------------------------------------------------
LEMMA OpenKeeps ==
  ASSUME StreamInv, NEW n \in 1..Len(dst), OpenSlice(n)
  PROVE  StreamInv'
<1>1. /\ input = NoSlice /\ input' = [off |-> 0, end |-> n]
      /\ dst' = dst /\ puts' = puts /\ failed' = failed
      /\ written' = written /\ got' = got
  BY DEF OpenSlice
<1>2. got = << >> /\ ~failed /\ Len(dst) \in Nat
  BY <1>1, LenProperties DEF StreamInv, AtField, TypeOK
<1>3. 0 \in 0..Len(dst) /\ n \in 0..Len(dst) /\ 0 <= n
  BY <1>2
<1>4. TypeOK'
  BY <1>1, <1>3 DEF StreamInv, TypeOK
<1>5. StartOf(1) = 0 /\ LaidOut(dst, written)
  BY StartOfIs DEF StreamInv, LaidOut
<1>6. AtField'
  <2>1. Len(got') + 1 = 1
    BY <1>1, <1>2
  <2>2. StartOf(1)' = 0 /\ input'.off = 0
    BY <1>1, <1>5 DEF StartOf
  <2>3. input' # NoSlice
    BY <1>1, <1>3 DEF NoSlice
  <2> QED
    BY <2>1, <2>2, <2>3 DEF AtField
<1>7. GotIsWritten' /\ FailsOnlyWhenCut' /\ LaidOut(dst, written)'
  BY <1>1, <1>2, <1>5
     DEF StreamInv, GotIsWritten, FailsOnlyWhenCut, LaidOut, Start
<1> QED
  BY <1>4, <1>6, <1>7 DEF StreamInv

(* What the reader knows where a field begins.                             *)
LEMMA NextField ==
  ASSUME StreamInv, input # NoSlice, ~failed,
         NEW k, k = Len(got) + 1, k <= Len(written)
  PROVE  /\ k \in 1..Len(written) /\ WellFormed(written[k])
         /\ input.off = written[k].off
         /\ Stands(CodeOf(written[k]), dst, input.off)
         /\ StartOf(k + 1) = input.off + Len(CodeOf(written[k]))
         /\ Len(CodeOf(written[k])) \in Nat
<1>1. got \in Seq(Field) /\ written \in Seq(Field)
  BY DEF StreamInv, TypeOK
<1>2. Len(got) \in Nat /\ Len(written) \in Nat
  BY <1>1, LenProperties
<1>3. k \in 1..Len(written)
  BY <1>2
<1>4. input.off = written[k].off
  BY <1>3 DEF StreamInv, AtField, StartOf
<1>5. /\ WellFormed(written[k])
      /\ Stands(CodeOf(written[k]), dst, written[k].off)
      /\ Start(dst, written, k + 1)
           = written[k].off + Len(CodeOf(written[k]))
  BY <1>3 DEF StreamInv, LaidOut
<1> QED
  BY <1>3, <1>4, <1>5, StartOfIs, CodeType

(* A field that was there is parsed, or it was cut.                        *)
LEMMA GotKeeps ==
  ASSUME StreamInv, input # NoSlice, ~failed,
         NEW k, k = Len(got) + 1, k <= Len(written),
         NEW r, NEW fields, Got(r, fields), r.ok \in BOOLEAN,
         r.ok => /\ Len(CodeOf(written[k])) <= Left
                 /\ fields = << written[k] >>
                 /\ r.next = input.off + Len(CodeOf(written[k])),
         ~r.ok => Len(CodeOf(written[k])) > Left
  PROVE  StreamInv'
<1> DEFINE size == Len(CodeOf(written[k]))
<1>1. /\ k \in 1..Len(written) /\ written[k] \in Field
      /\ input.off = written[k].off /\ StartOf(k + 1) = input.off + size
      /\ size \in Nat
  BY NextField DEF WellFormed
<1>2. /\ dst \in Seq(Byte) /\ puts \in 0..MaxPuts
      /\ input \in [off : 0..Len(dst), end : 0..Len(dst)]
      /\ input.off <= input.end
      /\ written \in Seq(Field) /\ got \in Seq(Field)
      /\ LaidOut(dst, written)
  BY DEF StreamInv, TypeOK
<1>3. /\ Len(got) \in Nat /\ Len(written) \in Nat /\ Len(dst) \in Nat
      /\ input.off \in Nat /\ input.end \in Nat
      /\ input.end \in 0..Len(dst)
  BY <1>2, LenProperties
<1>4. dst' = dst /\ puts' = puts /\ written' = written
  BY DEF Got
<1>5. LaidOut(dst, written)'
  BY <1>2, <1>4 DEF LaidOut, Start
<1>6. \A n : StartOf(n)' = StartOf(n)
  BY <1>4 DEF StartOf
<1> HIDE DEF size
<1>7. CASE r.ok
  <2>1. /\ failed' = FALSE /\ input' = [input EXCEPT !.off = r.next]
        /\ got' = got \o << written[k] >>
        /\ r.next = input.off + size /\ size <= input.end - input.off
    BY <1>7 DEF Got, Left, size
  <2>2. got' = Append(got, written[k])
    BY <1>1, <1>2, <2>1, AppendIsConcat
  <2>3. /\ got' \in Seq(Field) /\ Len(got') = k
        /\ got'[k] = written[k] /\ \A i \in 1..Len(got) : got'[i] = got[i]
    BY <1>1, <1>2, <2>2, AppendProperties
  <2>4. r.next \in 0..Len(dst) /\ r.next <= input.end /\ r.next \in Nat
    BY <1>1, <1>3, <2>1
  <2>5. /\ input' \in [off : 0..Len(dst), end : 0..Len(dst)]
        /\ input'.off = r.next /\ input'.end = input.end
    BY <1>2, <2>1, <2>4
  <2>6. TypeOK'
    BY <1>2, <1>4, <2>1, <2>3, <2>4, <2>5 DEF TypeOK
  <2>7. input.end # 0
    <3> SUFFICES ASSUME input.end = 0 PROVE FALSE
      OBVIOUS
    <3>1. input.off = 0
      BY <1>2, <1>3
    <3>2. input = [off |-> 0, end |-> 0]
      BY <1>2, <3>1
    <3> QED
      BY <3>2 DEF NoSlice
  <2>8. AtField'
    <3>1. input' # NoSlice
      BY <2>5, <2>7 DEF NoSlice
    <3>2. input'.off = StartOf(k + 1)'
      BY <1>1, <1>6, <2>1, <2>5
    <3> QED
      BY <2>3, <3>1, <3>2 DEF AtField
  <2>9. GotIsWritten'
    <3>1. Len(got) <= Len(written) /\ \A i \in 1..Len(got) :
            got[i] = written[i]
      BY <1>2, PrefixIs DEF StreamInv, GotIsWritten
    <3>2. \A i \in 1..k : got'[i] = written[i]
      <4> TAKE i \in 1..k
      <4>1. CASE i = k
        BY <2>3, <4>1
      <4>2. CASE i # k
        <5>1. i \in 1..Len(got)
          BY <1>3, <4>2
        <5> QED
          BY <2>3, <3>1, <5>1
      <4> QED
        BY <4>1, <4>2
    <3>3. IsPrefix(got', written)
      BY <1>2, <2>3, <3>2, PrefixIs
    <3> QED
      BY <1>4, <3>3 DEF GotIsWritten
  <2> QED
    BY <1>5, <2>1, <2>6, <2>8, <2>9 DEF StreamInv, FailsOnlyWhenCut
<1>8. CASE ~r.ok
  <2>1. /\ failed' = TRUE /\ input' = input /\ got' = got
        /\ size > input.end - input.off
    BY <1>8 DEF Got, Left, size
  <2>2. TypeOK'
    BY <1>2, <1>4, <2>1 DEF TypeOK
  <2>3. AtField'
    BY <1>6, <2>1 DEF StreamInv, AtField
  <2>4. GotIsWritten'
    BY <1>4, <2>1 DEF StreamInv, GotIsWritten
  <2>5. input.off = StartOf(k)
    BY DEF StreamInv, AtField
  <2>6. StartOf(k + 1) > input.end
    BY <1>1, <1>3, <2>1
  <2>7. FailsOnlyWhenCut'
    <3>1. Len(got') + 1 = k /\ Len(got') + 2 = k + 1
      BY <1>3, <2>1
    <3>2. Len(got') < Len(written')
      BY <1>3, <1>4, <2>1
    <3> QED
      BY <1>6, <2>1, <2>5, <2>6, <3>1, <3>2 DEF FailsOnlyWhenCut
  <2> QED
    BY <1>5, <2>2, <2>3, <2>4, <2>7 DEF StreamInv
<1> QED
  BY <1>7, <1>8

(* Behind the last field nothing is left to parse.                         *)
LEMMA BehindLast ==
  ASSUME StreamInv, input # NoSlice, ~failed, ~(Len(got) < Len(written))
  PROVE  /\ Len(got) = Len(written) /\ input.off = Len(dst)
         /\ input.end = Len(dst) /\ Left = 0
<1>1. /\ input \in [off : 0..Len(dst), end : 0..Len(dst)]
      /\ input.off <= input.end /\ dst \in Seq(Byte)
      /\ written \in Seq(Field) /\ got \in Seq(Field)
  BY DEF StreamInv, TypeOK
<1>2. Len(got) \in Nat /\ Len(written) \in Nat /\ Len(dst) \in Nat
  BY <1>1, LenProperties
<1>3. Len(got) <= Len(written)
  BY DEF StreamInv, GotIsWritten, IsPrefix
<1>4. Len(got) = Len(written)
  BY <1>2, <1>3
<1>5. input.off = Len(dst)
  BY <1>2, <1>4 DEF StreamInv, AtField, StartOf
<1> QED
  BY <1>1, <1>2, <1>4, <1>5 DEF Left

LEMMA EndKeeps ==
  ASSUME StreamInv, input # NoSlice, ~failed, ~(Len(got) < Len(written)),
         NEW r, NEW fields, Got(r, fields), r.ok = FALSE
  PROVE  StreamInv'
<1>1. /\ failed' = TRUE /\ input' = input /\ got' = got
      /\ dst' = dst /\ puts' = puts /\ written' = written
  BY DEF Got
<1>2. /\ Len(got) = Len(written) /\ input.end = Len(dst)
      /\ input.off = StartOf(Len(got) + 1)
  BY BehindLast DEF StreamInv, AtField
<1>3. \A n : StartOf(n)' = StartOf(n)
  BY <1>1 DEF StartOf
<1>4. FailsOnlyWhenCut'
  <2>1. ~(Len(got') < Len(written'))
    BY <1>1
  <2> QED
    BY <1>1, <1>2, <1>3, <2>1 DEF FailsOnlyWhenCut
<1>5. TypeOK' /\ AtField' /\ GotIsWritten' /\ LaidOut(dst, written)'
  BY <1>1, <1>3
     DEF StreamInv, TypeOK, AtField, GotIsWritten, LaidOut, Start
<1> QED
  BY <1>4, <1>5 DEF StreamInv

LEMMA Offsets ==
  ASSUME StreamInv
  PROVE  /\ input.off \in Nat /\ input.end \in Nat /\ Left \in Nat
         /\ Left = input.end - input.off
         /\ Len(got) \in Nat /\ Len(written) \in Nat
<1>1. /\ input \in [off : 0..Len(dst), end : 0..Len(dst)]
      /\ input.off <= input.end /\ dst \in Seq(Byte)
      /\ written \in Seq(Field) /\ got \in Seq(Field)
  BY DEF StreamInv, TypeOK
<1> QED
  BY <1>1, LenProperties DEF Left

LEMMA GetVarint32Keeps ==
  ASSUME StreamInv, GetVarint32Slice
  PROVE  StreamInv'
<1> DEFINE r == DecodeVarint32(dst, input.off, Left)
           fields == << U32(r.value, input.off) >>
           k == Len(got) + 1
<1>1. input # NoSlice /\ ~failed /\ Got(r, fields)
  BY DEF GetVarint32Slice, Expects
<1>2. /\ input.off \in Nat /\ Left \in Nat
      /\ Len(got) \in Nat /\ Len(written) \in Nat
  BY Offsets
<1>3. CASE Len(got) < Len(written)
  <2> DEFINE f == written[k]
  <2>1. f.kind = "u32"
    BY <1>3 DEF GetVarint32Slice, Expects
  <2>2. k <= Len(written)
    BY <1>2, <1>3
  <2>3. /\ WellFormed(f) /\ f.off = input.off
        /\ Stands(CodeOf(f), dst, input.off)
    BY <1>1, <2>2, NextField
  <2>4. /\ f.value \in Nat /\ IsUint32(f.value)
        /\ f = U32(f.value, input.off)
        /\ CodeOf(f) = EncodeVarint32(f.value)
    <3>1. f = [kind |-> f.kind, value |-> f.value, off |-> f.off]
      BY <2>3, FieldIs DEF WellFormed
    <3> HIDE DEF f
    <3> QED
      BY <2>1, <2>3, <3>1 DEF WellFormed, IsUint32, U32, CodeOf
  <2> HIDE DEF f
  <2>5. Len(CodeOf(f)) = VarintLength(f.value)
    BY <2>4, Varint32Bytes
  <2>6. /\ VarintLength(f.value) <= Left =>
             r = [ok |-> TRUE, value |-> f.value,
                  next |-> input.off + VarintLength(f.value)]
        /\ ~(VarintLength(f.value) <= Left) =>
             r = [ok |-> FALSE, value |-> 0, next |-> input.off]
    <3> DEFINE off == input.off
               left == Left
               value == f.value
    <3>1. Stands(EncodeVarint32(value), dst, off)
      BY <2>3, <2>4
    <3>2. off \in Nat /\ left \in Nat /\ IsUint32(value)
      BY <1>2, <2>4
    <3> HIDE DEF off, left, value
    <3>3. DecodeVarint32(dst, off, left) = r
      BY DEF off, left
    <3> HIDE DEF r
    <3> QED
      BY <3>1, <3>2, <3>3, Varint32ReadsBack DEF off, left, value
  <2>7. VarintLength(f.value) \in Nat
    BY <2>4, VarintLengthType
  <2> HIDE DEF r
  <2>8. CASE VarintLength(f.value) <= Left
    <3>1. /\ r.ok = TRUE /\ r.value = f.value
          /\ r.next = input.off + VarintLength(f.value)
      BY <2>6, <2>8
    <3>2. fields = << written[k] >>
      BY <2>4, <3>1 DEF f
    <3> HIDE DEF fields, k
    <3> QED
      BY <1>1, <2>2, <2>5, <2>8, <3>1, <3>2, GotKeeps DEF f, k
  <2>9. CASE ~(VarintLength(f.value) <= Left)
    <3>1. r.ok = FALSE
      BY <2>6, <2>9
    <3>2. VarintLength(f.value) > Left
      BY <1>2, <2>7, <2>9
    <3> HIDE DEF fields, k
    <3> QED
      BY <1>1, <2>2, <2>5, <3>1, <3>2, GotKeeps DEF f, k
  <2> QED
    BY <2>8, <2>9
<1>4. CASE ~(Len(got) < Len(written))
  <2>1. Left = 0
    BY <1>1, <1>4, BehindLast
  <2>2. VarintEnds(dst, input.off, Left) = {}
    BY <2>1 DEF VarintEnds, EndsWithin
  <2>3. r.ok = FALSE
    BY <2>2 DEF DecodeVarint32, Decoded
  <2> HIDE DEF r, fields
  <2> QED
    BY <1>1, <1>4, <2>3, EndKeeps
<1> QED
  BY <1>3, <1>4

LEMMA GetVarint64Keeps ==
  ASSUME StreamInv, GetVarint64Slice
  PROVE  StreamInv'
<1> DEFINE r == DecodeVarint64(dst, input.off, Left)
           fields == << U64(r.value, input.off) >>
           k == Len(got) + 1
<1>1. input # NoSlice /\ ~failed /\ Got(r, fields)
  BY DEF GetVarint64Slice, Expects
<1>2. /\ input.off \in Nat /\ Left \in Nat
      /\ Len(got) \in Nat /\ Len(written) \in Nat
  BY Offsets
<1>3. CASE Len(got) < Len(written)
  <2> DEFINE f == written[k]
  <2>1. f.kind = "u64"
    BY <1>3 DEF GetVarint64Slice, Expects
  <2>2. k <= Len(written)
    BY <1>2, <1>3
  <2>3. /\ WellFormed(f) /\ f.off = input.off
        /\ Stands(CodeOf(f), dst, input.off)
    BY <1>1, <2>2, NextField
  <2>4. /\ IsUint64(f.value) /\ f = U64(f.value, input.off)
        /\ CodeOf(f) = EncodeVarint64(f.value)
    <3>1. f = [kind |-> f.kind, value |-> f.value, off |-> f.off]
      BY <2>3, FieldIs DEF WellFormed
    <3> HIDE DEF f
    <3> QED
      BY <2>1, <2>3, <3>1 DEF WellFormed, U64, CodeOf
  <2> HIDE DEF f
  <2>5. Len(CodeOf(f)) = Len(f.value) /\ Len(f.value) \in Nat
    BY <2>4, Varint64Bytes DEF IsUint64
  <2>6. /\ Len(f.value) <= Left =>
             r = [ok |-> TRUE, value |-> f.value,
                  next |-> input.off + Len(f.value)]
        /\ ~(Len(f.value) <= Left) =>
             r = [ok |-> FALSE, value |-> << >>, next |-> input.off]
    <3> DEFINE off == input.off
               left == Left
               value == f.value
    <3>1. Stands(EncodeVarint64(value), dst, off)
      BY <2>3, <2>4
    <3>2. off \in Nat /\ left \in Nat /\ IsUint64(value)
      BY <1>2, <2>4
    <3> HIDE DEF off, left, value
    <3>3. DecodeVarint64(dst, off, left) = r
      BY DEF off, left
    <3> HIDE DEF r
    <3> QED
      BY <3>1, <3>2, <3>3, Varint64ReadsBack DEF off, left, value
  <2> HIDE DEF r
  <2>7. CASE Len(f.value) <= Left
    <3>1. /\ r.ok = TRUE /\ r.value = f.value
          /\ r.next = input.off + Len(f.value)
      BY <2>6, <2>7
    <3>2. fields = << written[k] >>
      BY <2>4, <3>1 DEF f
    <3> HIDE DEF fields, k
    <3> QED
      BY <1>1, <2>2, <2>5, <2>7, <3>1, <3>2, GotKeeps DEF f, k
  <2>8. CASE ~(Len(f.value) <= Left)
    <3>1. r.ok = FALSE
      BY <2>6, <2>8
    <3>2. Len(f.value) > Left
      BY <1>2, <2>5, <2>8
    <3> HIDE DEF fields, k
    <3> QED
      BY <1>1, <2>2, <2>5, <3>1, <3>2, GotKeeps DEF f, k
  <2> QED
    BY <2>7, <2>8
<1>4. CASE ~(Len(got) < Len(written))
  <2>1. Left = 0
    BY <1>1, <1>4, BehindLast
  <2>2. Varint64Ends(dst, input.off, Left) = {}
    BY <2>1 DEF Varint64Ends, EndsWithin
  <2>3. r.ok = FALSE
    BY <2>2 DEF DecodeVarint64
  <2> HIDE DEF r, fields
  <2> QED
    BY <1>1, <1>4, <2>3, EndKeeps
<1> QED
  BY <1>3, <1>4

LEMMA TakeTextKeeps ==
  ASSUME StreamInv, TakeText
  PROVE  StreamInv'
<1> DEFINE k == Len(got) + 1
           f == written[k]
           n == Last(got).value
           r == [ok |-> n <= Left, next |-> input.off + n]
           fields == << Text(Bytes(dst, input.off, n), input.off) >>
<1>1. /\ input # NoSlice /\ ~failed /\ Got(r, fields)
      /\ Len(got) < Len(written) /\ f.kind = "text"
  BY DEF TakeText, Expects
<1>2. /\ input.off \in Nat /\ Left \in Nat
      /\ Len(got) \in Nat /\ Len(written) \in Nat
      /\ Left = input.end - input.off /\ input.end \in Nat
  BY Offsets
<1>3. k <= Len(written) /\ k \in 1..Len(written)
  BY <1>1, <1>2
<1>4. /\ WellFormed(f) /\ f.off = input.off
      /\ Stands(CodeOf(f), dst, input.off)
  BY <1>1, <1>3, NextField
<1>5. /\ f.value \in Seq(Byte) /\ CodeOf(f) = f.value
      /\ f = Text(f.value, input.off) /\ Len(f.value) \in Nat
  <2>1. f = [kind |-> f.kind, value |-> f.value, off |-> f.off]
    BY <1>4, FieldIs DEF WellFormed
  <2> HIDE DEF f
  <2>2. f.value \in Seq(Byte) /\ CodeOf(f) = f.value
    BY <1>1, <1>4 DEF WellFormed, Field, CodeOf
  <2>3. f = Text(f.value, input.off)
    BY <1>1, <1>4, <2>1 DEF Text
  <2> QED
    BY <2>2, <2>3, LenProperties
<1>6. n = Len(f.value)
  <2>1. LengthBefore(written, k)
    BY <1>1, <1>3 DEF StreamInv, LaidOut
  <2>2. Len(got) >= 1 /\ k - 1 = Len(got)
    BY <1>2, <2>1 DEF LengthBefore
  <2>3. got[Len(got)] = written[Len(got)]
    <3>1. \A i \in 1..Len(got) : got[i] = written[i]
      BY PrefixIs DEF StreamInv, TypeOK, GotIsWritten
    <3> QED
      BY <1>2, <2>2, <3>1
  <2>4. Last(got) = got[Len(got)]
    BY DEF Last
  <2> QED
    BY <2>1, <2>2, <2>3, <2>4 DEF LengthBefore
<1> HIDE DEF f, n
<1>7. CASE n <= Left
  <2>1. Bytes(dst, input.off, n) = f.value
    <3>1. /\ dst \in Seq(Byte) /\ input.end <= Len(dst) /\ Len(dst) \in Nat
      BY LenProperties DEF StreamInv, TypeOK
    <3>2. input.off + Len(f.value) <= Len(dst) /\ n \in 0..Len(f.value)
      BY <1>2, <1>5, <1>6, <1>7, <3>1
    <3>3. Stands(f.value, dst, input.off)
      BY <1>4, <1>5
    <3>4. Bytes(dst, input.off, n) = SubSeq(f.value, 1, n)
      BY <1>2, <1>5, <3>1, <3>2, <3>3, BytesThatStand
    <3>5. SubSeq(f.value, 1, n) = f.value
      BY <1>5, <1>6
    <3> QED
      BY <3>4, <3>5
  <2>2. fields = << written[k] >>
    BY <1>5, <2>1 DEF f
  <2>3. r.ok = TRUE /\ r.next = input.off + Len(CodeOf(f))
    BY <1>5, <1>6, <1>7
  <2> HIDE DEF fields, r, k
  <2> QED
    BY <1>1, <1>3, <1>5, <1>6, <1>7, <2>2, <2>3, GotKeeps DEF f, k
<1>8. CASE ~(n <= Left)
  <2>1. r.ok = FALSE
    <3>1. (n <= Left) = FALSE
      BY <1>8
    <3> QED
      BY <3>1
  <2>2. Len(CodeOf(f)) > Left
    BY <1>2, <1>5, <1>6, <1>8
  <2> HIDE DEF fields, r, k
  <2> QED
    BY <1>1, <1>3, <2>1, <2>2, GotKeeps DEF f, k
<1> QED
  BY <1>7, <1>8

-----------------------------------------------------------------------------
LEMMA Uint32Fields ==
  ASSUME NEW v, IsUint32(v), NEW off \in Nat
  PROVE  /\ WellFormed(U32(v, off)) /\ U32(v, off).off = off
         /\ U32(v, off).kind = "u32" /\ U32(v, off).value = v
         /\ CodeOf(U32(v, off)) = EncodeVarint32(v)
BY DEF WellFormed, U32, Field, CodeOf, IsUint32

LEMMA Uint64Fields ==
  ASSUME NEW g, IsUint64(g), NEW off \in Nat
  PROVE  /\ WellFormed(U64(g, off)) /\ U64(g, off).off = off
         /\ U64(g, off).kind = "u64"
         /\ CodeOf(U64(g, off)) = EncodeVarint64(g)
<1>1. g \in Seq(Byte)
  <2>1. 0..127 \subseteq Byte /\ g \in Seq(0..127)
    BY DEF Byte, IsUint64
  <2> QED
    BY <2>1, SeqMonotonic
<1> QED
  BY <1>1 DEF WellFormed, U64, Field, CodeOf

LEMMA TextFields ==
  ASSUME NEW t \in Seq(Byte), NEW off \in Nat
  PROVE  /\ WellFormed(Text(t, off)) /\ Text(t, off).off = off
         /\ Text(t, off).kind = "text" /\ Text(t, off).value = t
         /\ CodeOf(Text(t, off)) = t
BY DEF WellFormed, Text, Field, CodeOf

LEMMA StreamNext ==
  ASSUME StreamAssumption, StreamInv, [Next]_vars
  PROVE  StreamInv'
<1> DEFINE off == Len(dst)
<1>1. dst \in Seq(Byte) /\ off \in Nat
  BY LenProperties DEF StreamInv, TypeOK
<1> HIDE DEF off
<1>2. ASSUME NEW v \in Values, PutVarint32(v) PROVE StreamInv'
  <2>1. IsUint32(v)
    BY DEF StreamAssumption
  <2> DEFINE f == U32(v, off)
  <2>2. WellFormed(f) /\ f.off = off /\ f.kind # "text"
          /\ CodeOf(f) = EncodeVarint32(v)
    BY <1>1, <2>1, Uint32Fields
  <2>3. Put(EncodeVarint32(v), << f >>)
    BY <1>2 DEF PutVarint32, off
  <2> HIDE DEF f
  <2> QED
    BY <2>2, <2>3, PutOneKeeps DEF off
<1>3. ASSUME NEW g \in Values64, PutVarint64(g) PROVE StreamInv'
  <2>1. IsUint64(g)
    BY DEF StreamAssumption
  <2> DEFINE f == U64(g, off)
  <2>2. WellFormed(f) /\ f.off = off /\ f.kind # "text"
          /\ CodeOf(f) = EncodeVarint64(g)
    BY <1>1, <2>1, Uint64Fields
  <2>3. Put(EncodeVarint64(g), << f >>)
    BY <1>3 DEF PutVarint64, off
  <2> HIDE DEF f
  <2> QED
    BY <2>2, <2>3, PutOneKeeps DEF off
<1>4. ASSUME NEW g \in Values64, NEW v \in Values, PutVarint64Varint32(g, v)
      PROVE  StreamInv'
  <2>1. IsUint64(g) /\ IsUint32(v)
    BY DEF StreamAssumption
  <2> DEFINE f == U64(g, off)
             next == off + Len(EncodeVarint64(g))
             h == U32(v, next)
  <2>2. WellFormed(f) /\ f.off = off /\ f.kind # "text"
          /\ CodeOf(f) = EncodeVarint64(g)
    BY <1>1, <2>1, Uint64Fields
  <2>3. next \in Nat
    BY <1>1, <2>1, Varint64Bytes DEF IsUint64
  <2> HIDE DEF next
  <2>4. WellFormed(h) /\ h.off = next /\ h.kind # "text"
          /\ CodeOf(h) = EncodeVarint32(v)
    BY <2>1, <2>3, Uint32Fields
  <2>5. Put(EncodeVarint64(g) \o EncodeVarint32(v), << f, h >>)
    BY <1>4 DEF PutVarint64Varint32, off, next
  <2> HIDE DEF f, h
  <2> QED
    BY <2>2, <2>4, <2>5, PutTwoKeeps DEF off, next
<1>5. ASSUME NEW t \in Texts, PutLengthPrefixedSlice(t) PROVE StreamInv'
  <2>1. t \in Seq(Byte) /\ IsUint32(Len(t))
    BY DEF StreamAssumption
  <2> DEFINE f == U32(Len(t), off)
             next == off + Len(EncodeVarint32(Len(t)))
             h == Text(t, next)
  <2>2. /\ WellFormed(f) /\ f.off = off /\ f.kind = "u32"
        /\ f.value = Len(t) /\ CodeOf(f) = EncodeVarint32(Len(t))
    BY <1>1, <2>1, Uint32Fields
  <2>3. next \in Nat
    <3>1. Len(EncodeVarint32(Len(t))) \in Nat
      BY <2>1, Varint32Bytes
    <3> QED
      BY <1>1, <3>1
  <2> HIDE DEF next
  <2>4. /\ WellFormed(h) /\ h.off = next /\ h.kind = "text"
        /\ h.value = t /\ CodeOf(h) = t
    BY <2>1, <2>3, TextFields
  <2>5. Put(EncodeVarint32(Len(t)) \o t, << f, h >>)
    BY <1>5 DEF PutLengthPrefixedSlice, off, next
  <2> HIDE DEF f, h
  <2> QED
    BY <2>2, <2>4, <2>5, PutTwoKeeps DEF off, next
<1>6. CASE UNCHANGED vars
  BY <1>6 DEF vars, StreamInv, TypeOK, LaidOut, Start, AtField,
              GotIsWritten, FailsOnlyWhenCut, StartOf
<1> QED
  BY <1>2, <1>3, <1>4, <1>5, <1>6, OpenKeeps, GetVarint32Keeps,
     GetVarint64Keeps, TakeTextKeeps DEF Next

LEMMA StreamAlways == Spec => []StreamInv
<1>1. Init => StreamInv
  BY StreamAssumption, InitHolds
<1>2. StreamInv /\ [Next]_vars => StreamInv'
  BY StreamAssumption, StreamNext
<1> QED
  BY <1>1, <1>2, PTL DEF Spec

(* The reader never leaves its Slice, nor the Slice the buffer             *)
(* (coding.h:164-177, 192-202).                                            *)
THEOREM StreamTypes == Spec => []TypeOK
<1>1. StreamInv => TypeOK
  BY DEF StreamInv
<1> QED
  BY <1>1, StreamAlways, PTL

(* For all uint32s, uint64s and texts, and wherever the Slice ends, the    *)
(* fields that get_varint32 and get_varint64 parse are the first ones that *)
(* were put (coding.h:136-202, coding.cpp).                                *)
THEOREM StreamReadsBack == Spec => []GotIsWritten
<1>1. StreamInv => GotIsWritten
  BY DEF StreamInv
<1> QED
  BY <1>1, StreamAlways, PTL

(* A get_varint fails at the first field that is not all in the Slice, and *)
(* nowhere else (coding.h:164-177, 192-202).                               *)
THEOREM StreamFailsWhenCut == Spec => []FailsOnlyWhenCut
<1>1. StreamInv => FailsOnlyWhenCut
  BY DEF StreamInv
<1> QED
  BY <1>1, StreamAlways, PTL

LEMMA CellOfFour ==
  ASSUME StreamInv, NEW i \in 1..Len(written), written[i].kind = "u32",
         NEW r, r = DecodeVarint32(dst, StartOf(i),
                                   Min({4, Len(dst) - StartOf(i)}))
  PROVE  /\ r.ok <=> written[i].value < Pow128[5]
         /\ r.ok => r.value = written[i].value
<1> DEFINE v == written[i].value
           off == StartOf(i)
           room == Len(dst) - off
           cell == Min({4, room})
           n == VarintLength(v)
<1>1. /\ dst \in Seq(Byte) /\ written \in Seq(Field)
      /\ WellFormed(written[i]) /\ off = written[i].off
      /\ Stands(CodeOf(written[i]), dst, off)
      /\ off + Len(CodeOf(written[i])) <= Len(dst)
  <2>1. Len(written) \in Nat
    BY LenProperties DEF StreamInv, TypeOK
  <2>2. off = written[i].off
    BY <2>1 DEF StartOf
  <2> QED
    BY <2>2 DEF StreamInv, TypeOK, LaidOut
<1>2. /\ IsUint32(v) /\ off \in Nat /\ v \in Nat
      /\ CodeOf(written[i]) = EncodeVarint32(v)
  BY <1>1 DEF WellFormed, Field, CodeOf, IsUint32
<1>3. /\ n \in 1..5 /\ off + n <= Len(dst) /\ Len(dst) \in Nat
      /\ Stands(EncodeVarint32(v), dst, off)
  <2>1. Len(EncodeVarint32(v)) = n /\ n \in 1..5
    BY <1>2, Varint32Bytes
  <2> HIDE DEF n, v, off
  <2> QED
    BY <1>1, <1>2, <2>1, LenProperties
<1>4. n <= 4 <=> v < Pow128[5]
  BY <1>2 DEF VarintLength, Pow128
<1> HIDE DEF n, v, off
<1>5. room \in Nat /\ n <= room
  BY <1>2, <1>3
<1>6. cell \in Nat /\ (n <= cell <=> n <= 4)
  <2> HIDE DEF room
  <2>1. cell \in {4, room} /\ cell <= 4 /\ cell <= room
    BY <1>5, MinOfTwo
  <2> HIDE DEF cell
  <2> QED
    BY <1>3, <1>5, <2>1
<1>7. r = DecodeVarint32(dst, off, cell)
  BY DEF off
<1> HIDE DEF cell
<1>8. CASE n <= cell
  <2>1. r = [ok |-> TRUE, value |-> v, next |-> off + n]
    BY <1>2, <1>3, <1>6, <1>7, <1>8, Varint32ReadsBack DEF n
  <2> QED
    BY <1>4, <1>6, <1>8, <2>1 DEF v
<1>9. CASE ~(n <= cell)
  <2>1. DecodeVarint32(dst, off, cell)
          = [ok |-> FALSE, value |-> 0, next |-> off]
    <3>1. ~(VarintLength(v) <= cell)
      BY <1>9 DEF n
    <3> QED
      BY <1>2, <1>3, <1>6, <3>1, Varint32ReadsBack
  <2>2. r.ok = FALSE
    BY <1>7, <2>1
  <2>3. ~(v < Pow128[5])
    BY <1>4, <1>6, <1>9
  <2> QED
    BY <2>2, <2>3 DEF v
<1> QED
  BY <1>8, <1>9

(* In the four bytes that the reader of a page gives it, get_varint32      *)
(* finds every length below 2^28 and no other                              *)
(* (data_page_reader.cpp, InnerLengthTypeSize).                            *)
THEOREM StreamFourByteCell == Spec => []FourByteCell
<1>1. StreamInv => FourByteCell
  BY CellOfFour, Zenon DEF FourByteCell
<1> QED
  BY <1>1, StreamAlways, PTL
=============================================================================
