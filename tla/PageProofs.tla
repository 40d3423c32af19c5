------------------------------ MODULE PageProofs ------------------------------
(***************************************************************************)
(* Lemmas about the encodings and the page footer: the types and lengths   *)
(* of what they produce, and that a fixed32, an array of them, a varint32  *)
(* and the footer read back.                                               *)
(***************************************************************************)
EXTENDS Page, SequenceTheorems, WellFoundedInduction, TLAPS

(* A non-empty bounded set of naturals has a largest element, which is     *)
(* what Max chooses.                                                       *)
LEMMA MaxOfBounded ==
  ASSUME NEW S, NEW b \in Nat, S \subseteq 0..b, S # {}
  PROVE  Max(S) \in S /\ \A x \in S : x <= Max(S)
<1> DEFINE T == { n \in 0..b : b - n \in S }
<1>1. T \subseteq Nat /\ T # {}
  <2>1. PICK x \in S : TRUE
    OBVIOUS
  <2>2. b - x \in 0..b /\ b - (b - x) = x
    BY <2>1
  <2> QED
    BY <2>1, <2>2
<1>2. PICK m \in T : \A y \in T : << y, m >> \notin OpToRel(<, Nat)
  BY <1>1, NatLessThanWellFounded, WFMin
<1>3. \A y \in T : m <= y
  <2> SUFFICES ASSUME NEW y \in T, y < m PROVE FALSE
    BY <1>1
  <2> QED
    BY <1>1, <1>2 DEF OpToRel
<1>4. b - m \in S /\ \A x \in S : b - m >= x
  <2>1. ASSUME NEW x \in S PROVE b - m >= x
    <3>1. b - x \in T
      <4>1. b - x \in 0..b /\ b - (b - x) = x
        OBVIOUS
      <4> QED
        BY <4>1
    <3> QED
      BY <1>3, <3>1
  <2> QED
    BY <2>1
<1> QED
  BY <1>4 DEF Max

(* Induction.                                                              *)
LEMMA NatInductionOn ==
  ASSUME NEW T, 0 \in T, \A n \in Nat : n \in T => n + 1 \in T
  PROVE  \A n \in Nat : n \in T
<1> DEFINE S == Nat \ T
<1> SUFFICES ASSUME S # {} PROVE FALSE
  OBVIOUS
<1>1. PICK m \in S : \A n \in S : << n, m >> \notin OpToRel(<, Nat)
  BY NatLessThanWellFounded, WFMin
<1>2. m \in Nat /\ m \notin T /\ m # 0
  OBVIOUS
<1>3. m - 1 \in Nat /\ m - 1 < m /\ (m - 1) + 1 = m
  BY <1>2
<1>4. m - 1 \in S
  BY <1>2, <1>3
<1> QED
  BY <1>1, <1>2, <1>3, <1>4 DEF OpToRel

(* From a on by the steps F, n times.                                      *)
Iterates(S, a, F, n) ==
  { f \in [0..n -> S] :
      f[0] = a /\ \A k \in 1..n : f[k] = F[k][f[k - 1]] }

Iteration(S, a, F, f) ==
  /\ f \in [Nat -> S]
  /\ \A k \in Nat : f[k] = IF k = 0 THEN a ELSE F[k][f[k - 1]]

(* A function that is defined by recursion on the naturals exists.         *)
LEMMA IterationExists ==
  ASSUME NEW S, NEW a \in S, NEW F \in [Nat -> [S -> S]]
  PROVE  \E f : Iteration(S, a, F, f)
<1> DEFINE It(n) == Iterates(S, a, F, n)
<1>1. \A n \in Nat : It(n) # {}
  <2> DEFINE T == { n \in Nat : It(n) # {} }
  <2>1. 0 \in T
    <3> DEFINE f == [ k \in 0..0 |-> a ]
    <3>1. f \in It(0)
      BY DEF Iterates
    <3> QED
      BY <3>1
  <2>2. ASSUME NEW n \in Nat, n \in T PROVE n + 1 \in T
    <3>1. PICK f : f \in It(n)
      BY <2>2
    <3> DEFINE g == [ k \in 0..(n + 1) |->
                       IF k = n + 1 THEN F[n + 1][f[n]] ELSE f[k] ]
    <3>2. /\ f \in [0..n -> S] /\ f[0] = a
          /\ \A k \in 1..n : f[k] = F[k][f[k - 1]]
      BY <3>1 DEF Iterates
    <3>3. F[n + 1] \in [S -> S] /\ f[n] \in S
      BY <3>2
    <3>4. g \in [0..(n + 1) -> S]
      BY <3>2, <3>3
    <3>5. g[0] = a
      BY <3>2
    <3>6. ASSUME NEW k \in 1..(n + 1) PROVE g[k] = F[k][g[k - 1]]
      <4>1. CASE k = n + 1
        <5>1. k - 1 = n /\ k - 1 # n + 1 /\ k - 1 \in 0..(n + 1)
          BY <4>1
        <5> QED
          BY <4>1, <5>1
      <4>2. CASE k # n + 1
        <5>1. k \in 1..n /\ k - 1 \in 0..n /\ k - 1 # n + 1
          BY <4>2
        <5> QED
          BY <3>2, <5>1
      <4> QED
        BY <4>1, <4>2
    <3> HIDE DEF g
    <3>7. g \in It(n + 1)
      BY <3>4, <3>5, <3>6 DEF Iterates
    <3> QED
      BY <3>7
  <2> HIDE DEF T
  <2>3. \A n \in Nat : n \in T
    BY <2>1, <2>2, NatInductionOn
  <2> QED
    BY <2>3 DEF T
<1>2. ASSUME NEW n \in Nat, NEW f \in It(n), NEW g \in It(n + 1)
      PROVE  f[n] = g[n]
  <2> DEFINE T == { k \in Nat : k <= n => f[k] = g[k] }
  <2>1. 0 \in T
    BY DEF Iterates
  <2>2. ASSUME NEW k \in Nat, k \in T PROVE k + 1 \in T
    <3>1. SUFFICES ASSUME k + 1 <= n PROVE f[k + 1] = g[k + 1]
      OBVIOUS
    <3>2. /\ k + 1 \in 1..n /\ k + 1 \in 1..(n + 1)
          /\ (k + 1) - 1 = k /\ k <= n
      BY <3>1
    <3>3. f[k] = g[k]
      BY <2>2, <3>2
    <3> QED
      BY <3>2, <3>3 DEF Iterates
  <2> HIDE DEF T
  <2>3. \A k \in Nat : k \in T
    BY <2>1, <2>2, NatInductionOn
  <2> QED
    BY <2>3 DEF T
<1> DEFINE Of(n) == CHOOSE f : f \in It(n)
           h     == [ n \in Nat |-> Of(n)[n] ]
<1>3. \A n \in Nat : Of(n) \in It(n)
  BY <1>1
<1>4. \A n \in Nat : Of(n) \in [0..n -> S] /\ Of(n)[n] \in S
  <2>1. ASSUME NEW n \in Nat
        PROVE  Of(n) \in [0..n -> S] /\ n \in 0..n
    <3> HIDE DEF Of
    <3> QED
      BY <1>3 DEF Iterates
  <2> HIDE DEF Of
  <2> QED
    BY <2>1
<1>5. h[0] = a
  <2> HIDE DEF Of
  <2>1. Of(0)[0] = a
    BY <1>3 DEF Iterates
  <2> QED
    BY <2>1
<1>6. ASSUME NEW n \in Nat PROVE h[n + 1] = F[n + 1][h[n]]
  <2> HIDE DEF Of
  <2>1. Of(n + 1)[n + 1] = F[n + 1][Of(n + 1)[n]]
    <3>1. n + 1 \in 1..(n + 1) /\ (n + 1) - 1 = n
      OBVIOUS
    <3>2. Of(n + 1) \in It(n + 1)
      BY <1>3
    <3> QED
      BY <3>1, <3>2 DEF Iterates
  <2>2. Of(n)[n] = Of(n + 1)[n]
    <3>1. Of(n) \in It(n) /\ Of(n + 1) \in It(n + 1)
      BY <1>3
    <3> HIDE DEF It
    <3> QED
      BY <1>2, <3>1
  <2> QED
    BY <2>1, <2>2
<1>7. h \in [Nat -> S]
  <2> HIDE DEF Of
  <2> QED
    BY <1>4
<1> HIDE DEF h
<1>8. ASSUME NEW k \in Nat, k # 0 PROVE h[k] = F[k][h[k - 1]]
  <2>1. k - 1 \in Nat /\ (k - 1) + 1 = k
    BY <1>8
  <2> QED
    BY <1>6, <2>1
<1> QED
  BY <1>5, <1>7, <1>8 DEF Iteration

LEMMA MinOfTwo ==
  ASSUME NEW a \in Nat, NEW b \in Nat
  PROVE  Min({a, b}) \in {a, b} /\ Min({a, b}) <= a /\ Min({a, b}) <= b
<1>1. \E x \in {a, b} : \A y \in {a, b} : x <= y
  <2>1. CASE a <= b
    BY <2>1
  <2>2. CASE ~(a <= b)
    BY <2>2
  <2> QED
    BY <2>1, <2>2
<1> QED
  BY <1>1 DEF Min

-----------------------------------------------------------------------------
(* Lengths add up, without the elements.                                   *)
LEMMA ConcatBytes ==
  ASSUME NEW s \in Seq(Byte), NEW t \in Seq(Byte)
  PROVE  /\ s \o t \in Seq(Byte)
         /\ Len(s) \in Nat /\ Len(t) \in Nat
         /\ Len(s \o t) = Len(s) + Len(t)
BY ConcatProperties, LenProperties

LEMMA ConcatThree ==
  ASSUME NEW s \in Seq(Byte), NEW t \in Seq(Byte), NEW u \in Seq(Byte)
  PROVE  (s \o t) \o u = s \o (t \o u)
BY ConcatAssociative

LEMMA Fixed32Type ==
  ASSUME NEW v \in Nat
  PROVE  Fixed32(v) \in Seq(Byte) /\ Len(Fixed32(v)) = 4
BY DEF Fixed32, Byte

(* decode_fixed32_le of put_fixed32_le, for every uint32 (coding.h).       *)
LEMMA Fixed32ReadsBack ==
  ASSUME NEW v, IsUint32(v)
  PROVE  DecodeFixed32(Fixed32(v), 0) = v
BY DEF DecodeFixed32, Fixed32, IsUint32, Pow128

LEMMA VarintLengthType ==
  ASSUME NEW v \in Nat
  PROVE  /\ VarintLength(v) \in 1..5
         /\ \A w \in 0..v : VarintLength(w) <= VarintLength(v)
         /\ VarintLength(v) <= v + 1
BY DEF VarintLength, Pow128

LEMMA EncodeVarint32Type ==
  ASSUME NEW v \in Nat
  PROVE  /\ EncodeVarint32(v) \in Seq(Byte)
         /\ Len(EncodeVarint32(v)) = VarintLength(v)
<1>1. VarintLength(v) \in 1..5
  BY VarintLengthType
<1>2. ASSUME NEW i \in 1..VarintLength(v)
      PROVE  ((v \div Pow128[i]) % 128)
               + (IF i < VarintLength(v) THEN 128 ELSE 0) \in Byte
  <2>1. Pow128[i] \in {1, 128, 16384, 2097152, 268435456}
    BY <1>1 DEF Pow128
  <2>2. (v \div Pow128[i]) % 128 \in 0..127
    BY <2>1
  <2> QED
    BY <2>2, <1>1 DEF Byte
<1>3. EncodeVarint32(v) \in [1..VarintLength(v) -> Byte]
  BY <1>2 DEF EncodeVarint32
<1> QED
  BY <1>1, <1>3

-----------------------------------------------------------------------------
(* The bytes code stand in buf from offset off on.                         *)
Stands(code, buf, off) ==
  \A j \in 1..Len(code) : buf[off + j] = code[j]

(* The only position at which a decoding loop ends.                        *)
LEMMA EndsAt ==
  ASSUME NEW max \in Nat, NEW buf, NEW off \in Nat, NEW avail \in Nat,
         NEW n \in 1..max, buf[off + n] \in Nat, buf[off + n] < 128,
         \A j \in 1..(n - 1) : buf[off + j] \in Nat /\ buf[off + j] >= 128
  PROVE  EndsWithin(max, buf, off, avail) = IF n <= avail THEN {n} ELSE {}
<1>1. ASSUME NEW m \in EndsWithin(max, buf, off, avail)
      PROVE  m = n /\ n <= avail
  <2>1. /\ m \in 1..max /\ m <= avail /\ buf[off + m] < 128
        /\ \A j \in 1..(m - 1) : buf[off + j] >= 128
    BY <1>1 DEF EndsWithin
  <2>2. CASE m < n
    <3>1. m \in 1..(n - 1)
      BY <2>1, <2>2
    <3> QED
      BY <2>1, <3>1
  <2>3. CASE m > n
    <3>1. n \in 1..(m - 1)
      BY <2>1, <2>3
    <3> QED
      BY <2>1, <3>1
  <2> QED
    BY <2>1, <2>2, <2>3
<1>2. n <= avail => n \in EndsWithin(max, buf, off, avail)
  BY DEF EndsWithin
<1> QED
  BY <1>1, <1>2

-----------------------------------------------------------------------------
(* The groups of a uint32 and the continuation bits of its bytes.          *)
LEMMA Varint32Bytes ==
  ASSUME NEW v, IsUint32(v)
  PROVE  /\ VarintLength(v) \in 1..5
         /\ Len(EncodeVarint32(v)) = VarintLength(v)
         /\ EncodeVarint32(v) \in Seq(Byte)
         /\ EncodeVarint32(v)[VarintLength(v)] < 128
         /\ \A j \in 1..(VarintLength(v) - 1) : EncodeVarint32(v)[j] >= 128
         /\ \A j \in 1..VarintLength(v) :
              EncodeVarint32(v)[j] % 128 = (v \div Pow128[j]) % 128
<1>1. v \in Nat /\ VarintLength(v) \in 1..5
  BY VarintLengthType DEF IsUint32
<1>2. \A j \in 1..VarintLength(v) :
        /\ (v \div Pow128[j]) % 128 \in 0..127
        /\ EncodeVarint32(v)[j] = ((v \div Pow128[j]) % 128)
                                    + (IF j < VarintLength(v) THEN 128 ELSE 0)
  <2> TAKE j \in 1..VarintLength(v)
  <2>1. Pow128[j] \in {1, 128, 16384, 2097152, 268435456}
    BY <1>1 DEF Pow128
  <2>2. (v \div Pow128[j]) % 128 \in 0..127
    BY <1>1, <2>1
  <2> QED
    BY <2>2 DEF EncodeVarint32
<1>3. ASSUME NEW j \in 1..VarintLength(v)
      PROVE  EncodeVarint32(v)[j] % 128 = (v \div Pow128[j]) % 128
  BY <1>2
<1>4. EncodeVarint32(v)[VarintLength(v)] < 128
  BY <1>1, <1>2
<1>5. \A j \in 1..(VarintLength(v) - 1) : EncodeVarint32(v)[j] >= 128
  BY <1>1, <1>2
<1> QED
  BY <1>1, <1>3, <1>4, <1>5, EncodeVarint32Type

(* The seven-bit groups of a uint32 make it up again.                      *)
LEMMA GroupsOfWord ==
  ASSUME NEW v, IsUint32(v),
         NEW g1, NEW g2, NEW g3, NEW g4, NEW g5,
         g1 = v % 128,
         g2 = IF VarintLength(v) >= 2 THEN (v \div Pow128[2]) % 128 ELSE 0,
         g3 = IF VarintLength(v) >= 3 THEN (v \div Pow128[3]) % 128 ELSE 0,
         g4 = IF VarintLength(v) >= 4 THEN (v \div Pow128[4]) % 128 ELSE 0,
         g5 = IF VarintLength(v) >= 5 THEN (v \div Pow128[5]) % 128 ELSE 0
  PROVE  g1 + g2 * Pow128[2] + g3 * Pow128[3] + g4 * Pow128[4]
           + g5 * Pow128[5] = v
BY DEF IsUint32, VarintLength, Pow128

(* decode_varint32_ptr of encode_varint32, for every uint32 wherever it    *)
(* stands (coding.cpp): it is found if all of its bytes may be read.       *)
LEMMA Varint32ReadsBack ==
  ASSUME NEW v, IsUint32(v), NEW buf, NEW off \in Nat, NEW avail \in Nat,
         Stands(EncodeVarint32(v), buf, off)
  PROVE  /\ VarintLength(v) <= avail =>
              DecodeVarint32(buf, off, avail) =
                [ok |-> TRUE, value |-> v, next |-> off + VarintLength(v)]
         /\ ~(VarintLength(v) <= avail) =>
              DecodeVarint32(buf, off, avail) =
                [ok |-> FALSE, value |-> 0, next |-> off]
<1> DEFINE n == VarintLength(v)
           ends == VarintEnds(buf, off, avail)
<1>1. /\ n \in 1..5 /\ Len(EncodeVarint32(v)) = n
      /\ EncodeVarint32(v) \in Seq(Byte)
  BY Varint32Bytes
<1>2. \A j \in 1..n : /\ buf[off + j] = EncodeVarint32(v)[j]
                      /\ buf[off + j] \in Nat
  <2> TAKE j \in 1..n
  <2>1. EncodeVarint32(v)[j] \in Byte
    BY <1>1, ElementOfSeq
  <2>2. buf[off + j] = EncodeVarint32(v)[j]
    BY <1>1 DEF Stands
  <2> QED
    BY <2>1, <2>2 DEF Byte
<1>3. buf[off + n] < 128 /\ \A j \in 1..(n - 1) : buf[off + j] >= 128
  <2>1. EncodeVarint32(v)[n] < 128
    BY Varint32Bytes
  <2>2. \A j \in 1..(n - 1) : EncodeVarint32(v)[j] >= 128
    BY Varint32Bytes
  <2> HIDE DEF n
  <2>3. n \in 1..n /\ 1..(n - 1) \subseteq 1..n
    BY <1>1
  <2> QED
    BY <1>2, <2>1, <2>2, <2>3
<1>4. \A j \in 1..n : buf[off + j] % 128 = (v \div Pow128[j]) % 128
  BY <1>2, Varint32Bytes
<1> HIDE DEF n
<1>5. ends = IF n <= avail THEN {n} ELSE {}
  <2>1. /\ buf[off + n] \in Nat
        /\ \A j \in 1..(n - 1) : buf[off + j] \in Nat
    BY <1>1, <1>2
  <2>2. EndsWithin(5, buf, off, avail) = IF n <= avail THEN {n} ELSE {}
    BY <1>1, <1>3, <2>1, EndsAt
  <2> QED
    BY <2>2 DEF VarintEnds
<1>6. GroupsValue(buf, off, n) = v
  <2>1. v \in Nat /\ v \div Pow128[1] = v
    BY DEF Pow128, IsUint32
  <2> DEFINE g(j) == IF j <= n THEN buf[off + j] % 128 ELSE 0
  <2>2. g(1) = v % 128
    BY <1>1, <1>4, <2>1
  <2>3. \A j \in 2..5 :
          g(j) = IF n >= j THEN (v \div Pow128[j]) % 128 ELSE 0
    BY <1>1, <1>4
  <2>4. \A j \in 1..5 : g(j) \in Int
    BY <1>2
  <2>5. g(1) + g(2) * Pow128[2] + g(3) * Pow128[3] + g(4) * Pow128[4]
          + g(5) * Pow128[5] = v
    <3> HIDE DEF g
    <3> QED
      BY <2>2, <2>3, GroupsOfWord DEF n
  <2>6. \A j \in 1..5 : (IF j <= n THEN (buf[off + j] % 128) * Pow128[j]
                                   ELSE 0) = g(j) * Pow128[j]
    BY DEF Pow128
  <2>7. g(1) * Pow128[1] = g(1)
    BY <2>4 DEF Pow128
  <2> HIDE DEF g
  <2> QED
    BY <2>5, <2>6, <2>7 DEF GroupsValue
<1>7. CASE n <= avail
  <2>1. ends = {n} /\ (CHOOSE m \in ends : TRUE) = n
    BY <1>5, <1>7
  <2> QED
    BY <1>6, <1>7, <2>1 DEF DecodeVarint32, Decoded, n
<1>8. CASE ~(n <= avail)
  BY <1>5, <1>8 DEF DecodeVarint32, Decoded, n
<1> QED
  BY <1>7, <1>8

(* What stands in a buffer still does when something is appended.          *)
LEMMA StandsLonger ==
  ASSUME NEW code \in Seq(Byte), NEW buf \in Seq(Byte), NEW off \in Nat,
         Stands(code, buf, off), off + Len(code) <= Len(buf),
         NEW more \in Seq(Byte)
  PROVE  Stands(code, buf \o more, off)
<1> SUFFICES ASSUME NEW j \in 1..Len(code)
             PROVE  (buf \o more)[off + j] = code[j]
  BY DEF Stands
<1>1. off + j \in 1..Len(buf)
  BY LenProperties
<1>2. (buf \o more)[off + j] = buf[off + j]
  BY <1>1, ConcatProperties
<1> QED
  BY <1>2 DEF Stands

LEMMA StandsAtEnd ==
  ASSUME NEW code \in Seq(Byte), NEW buf \in Seq(Byte)
  PROVE  Stands(code, buf \o code, Len(buf))
<1> SUFFICES ASSUME NEW j \in 1..Len(code)
             PROVE  (buf \o code)[Len(buf) + j] = code[j]
  BY DEF Stands
<1> QED
  OBVIOUS

(* Bytes of a sequence are bytes of each that it is a prefix of, and what  *)
(* is appended is all that comes after it.                                 *)
LEMMA BytesOfPrefix ==
  ASSUME NEW S, NEW s \in Seq(S), NEW t \in Seq(S),
         NEW from \in Nat, NEW to \in 0..Len(s)
  PROVE  Bytes(s \o t, from, to - from) = Bytes(s, from, to - from)
<1>1. s \o t \in Seq(S) /\ Len(s \o t) = Len(s) + Len(t)
        /\ \A i \in 1..Len(s) : (s \o t)[i] = s[i]
  BY ConcatProperties
<1>2. Len(s) \in Nat /\ Len(t) \in Nat
  BY LenProperties
<1>3. from + (to - from) = to
  OBVIOUS
<1>4. SubSeq(s \o t, from + 1, to) = SubSeq(s, from + 1, to)
  BY <1>1, <1>2
<1> QED
  BY <1>3, <1>4 DEF Bytes

LEMMA BytesOfRest ==
  ASSUME NEW S, NEW s \in Seq(S), NEW t \in Seq(S)
  PROVE  Bytes(s \o t, Len(s), Len(t)) = t
<1>1. s \o t \in Seq(S) /\ Len(s \o t) = Len(s) + Len(t)
        /\ \A i \in Len(s) + 1..Len(s) + Len(t) : (s \o t)[i] = t[i - Len(s)]
  BY ConcatProperties
<1>2. Len(s) \in Nat /\ Len(t) \in Nat
  BY LenProperties
<1>3. SubSeq(s \o t, Len(s) + 1, Len(s) + Len(t)) = t
  BY <1>1, <1>2
<1> QED
  BY <1>3 DEF Bytes

(* Two codes that stand next to one another, taken apart.                  *)
LEMMA StandsApart ==
  ASSUME NEW a \in Seq(Byte), NEW b \in Seq(Byte), NEW buf, NEW off \in Nat,
         Stands(a \o b, buf, off)
  PROVE  Stands(a, buf, off) /\ Stands(b, buf, off + Len(a))
<1>1. /\ Len(a) \in Nat /\ Len(b) \in Nat /\ Len(a \o b) = Len(a) + Len(b)
      /\ \A i \in 1..Len(a) : (a \o b)[i] = a[i]
      /\ \A i \in Len(a) + 1..Len(a) + Len(b) : (a \o b)[i] = b[i - Len(a)]
  BY ConcatProperties, LenProperties
<1>2. Stands(a, buf, off)
  BY <1>1 DEF Stands
<1>3. ASSUME NEW j \in 1..Len(b)
      PROVE  buf[off + Len(a) + j] = b[j]
  <2>1. Len(a) + j \in Len(a) + 1..Len(a) + Len(b) /\ (Len(a) + j) - Len(a) = j
    BY <1>1
  <2>2. buf[off + (Len(a) + j)] = (a \o b)[Len(a) + j]
    <3>1. Len(a) + j \in 1..Len(a \o b)
      BY <1>1
    <3> QED
      BY <3>1 DEF Stands
  <2>3. off + (Len(a) + j) = off + Len(a) + j
    BY <1>1
  <2> QED
    BY <1>1, <2>1, <2>2, <2>3
<1> QED
  BY <1>2, <1>3 DEF Stands

(* The first bytes of what stands somewhere.                               *)
LEMMA BytesThatStand ==
  ASSUME NEW code \in Seq(Byte), NEW buf \in Seq(Byte), NEW off \in Nat,
         Stands(code, buf, off), off + Len(code) <= Len(buf),
         NEW n \in 0..Len(code)
  PROVE  Bytes(buf, off, n) = SubSeq(code, 1, n)
<1>1. Len(buf) \in Nat /\ Len(code) \in Nat
  BY LenProperties
<1>2. ASSUME NEW j \in 1..n PROVE buf[off + j] = code[j]
  BY <1>1 DEF Stands
<1> DEFINE s == SubSeq(buf, off + 1, off + n)
           t == SubSeq(code, 1, n)
<1>3. /\ s \in Seq(Byte) /\ Len(s) = n
      /\ \A j \in 1..n : s[j] = buf[off + j]
  BY <1>1, SubSeqProperties
<1>4. /\ t \in Seq(Byte) /\ Len(t) = n
      /\ \A j \in 1..n : t[j] = code[j]
  BY <1>1, SubSeqProperties
<1> HIDE DEF s, t
<1>5. s = t
  BY <1>2, <1>3, <1>4, SeqEqual
<1> QED
  BY <1>5 DEF s, t, Bytes

(* get_varint32 from a cell of four bytes: enough for what is below 2^28.  *)
LEMMA CellReadsBack ==
  ASSUME NEW v \in Nat, v < Pow128[5], NEW buf, NEW off \in Nat,
         Stands(EncodeVarint32(v), buf, off)
  PROVE  GetVarint32(buf, off, U32Size) = v
<1>1. IsUint32(v) /\ VarintLength(v) <= 4
  BY DEF IsUint32, VarintLength, Pow128
<1>2. DecodeVarint32(buf, off, U32Size)
        = [ok |-> TRUE, value |-> v, next |-> off + VarintLength(v)]
  BY <1>1, Varint32ReadsBack DEF U32Size
<1> QED
  BY <1>2 DEF GetVarint32

-----------------------------------------------------------------------------
LEMMA Crc32cType ==
  ASSUME NEW s
  PROVE  Crc32c(s) \in Seq(Byte) /\ Len(Crc32c(s)) = U32Size
<1> DEFINE Bit(k)   == IF k \in Crc32cBits(s) THEN 1 ELSE 0
           Octet(k) == Bit(k) + 2 * Bit(k + 1) + 4 * Bit(k + 2)
                         + 8 * Bit(k + 3) + 16 * Bit(k + 4)
                         + 32 * Bit(k + 5) + 64 * Bit(k + 6)
                         + 128 * Bit(k + 7)
<1>1. \A k : Bit(k) \in 0..1
  OBVIOUS
<1>2. Crc32c(s) = << Octet(0), Octet(8), Octet(16), Octet(24) >>
  BY Zenon DEF Crc32c, WordBytes
<1> HIDE DEF Bit
<1>3. \A k \in Int : Octet(k) \in Byte
  <2> TAKE k \in Int
  <2>1. /\ Bit(k) \in 0..1 /\ Bit(k + 1) \in 0..1
        /\ Bit(k + 2) \in 0..1 /\ Bit(k + 3) \in 0..1
        /\ Bit(k + 4) \in 0..1 /\ Bit(k + 5) \in 0..1
        /\ Bit(k + 6) \in 0..1 /\ Bit(k + 7) \in 0..1
    BY <1>1
  <2> QED
    BY <2>1 DEF Byte
<1> HIDE DEF Octet
<1> QED
  BY <1>2, <1>3 DEF U32Size

LEMMA SealedType ==
  ASSUME NEW body \in Seq(Byte), NEW type \in Byte
  PROVE  /\ Sealed(body, type) \in Seq(Byte)
         /\ Len(Sealed(body, type)) = Len(body) + FooterSize
<1> DEFINE typed == Append(body, type)
<1>1. typed \in Seq(Byte) /\ Len(typed) = Len(body) + 1
  BY AppendProperties
<1> HIDE DEF typed
<1>2. typed \o Crc32c(typed) \in Seq(Byte)
        /\ Len(typed \o Crc32c(typed)) = Len(typed) + U32Size
  <2>1. Crc32c(typed) \in Seq(Byte) /\ Len(Crc32c(typed)) = U32Size
    BY Crc32cType
  <2> DEFINE sum == Crc32c(typed)
  <2> HIDE DEF sum
  <2>2. typed \o sum \in Seq(Byte) /\ Len(typed \o sum) = Len(typed) + Len(sum)
    BY <1>1, <2>1, ConcatProperties DEF sum
  <2> QED
    BY <2>1, <2>2 DEF sum
<1> QED
  BY <1>1, <1>2 DEF Sealed, typed, U32Size, FooterSize

(* The footer is all that finish() adds.                                   *)
LEMMA SealedReadsBack ==
  ASSUME NEW body \in Seq(Byte), NEW type \in Byte
  PROVE  PageData(Sealed(body, type)) = body
<1> DEFINE typed == Append(body, type)
<1>1. typed \in Seq(Byte) /\ Len(typed) = Len(body) + 1
  BY AppendProperties
<1>2. Len(body) \in 0..Len(typed)
  BY <1>1, LenProperties
<1>3. Bytes(typed, 0, Len(body)) = body
  <2>1. \A i \in 1..Len(body) : typed[i] = body[i]
    BY AppendProperties
  <2>2. Len(body) \in Nat
    BY LenProperties
  <2> QED
    BY <1>1, <2>1, <2>2 DEF Bytes
<1> HIDE DEF typed
<1>4. Bytes(typed \o Crc32c(typed), 0, Len(body) - 0)
        = Bytes(typed, 0, Len(body) - 0)
  BY <1>1, <1>2, Crc32cType, BytesOfPrefix
<1>5. Len(Sealed(body, type)) - FooterSize = Len(body)
  BY SealedType, LenProperties DEF FooterSize
<1>6. Len(body) - 0 = Len(body)
  BY LenProperties
<1> QED
  BY <1>3, <1>4, <1>5, <1>6 DEF PageData, Sealed, typed

(* The checksum and the type of what finish() made are the ones read.      *)
LEMMA FooterReadsBack ==
  ASSUME NEW body \in Seq(Byte), NEW type \in Byte
  PROVE  /\ CheckCRC32C(Sealed(body, type))
         /\ GetPageType(Sealed(body, type)) = type
<1> DEFINE typed == Append(body, type)
           sum == Crc32c(typed)
           whole == typed \o sum
<1>1. /\ typed \in Seq(Byte) /\ Len(typed) = Len(body) + 1
      /\ typed[Len(typed)] = type /\ Len(typed) \in Nat /\ Len(body) \in Nat
  BY AppendProperties, LenProperties
<1>2. sum \in Seq(Byte) /\ Len(sum) = U32Size
  BY Crc32cType
<1>3. Sealed(body, type) = whole
  BY DEF Sealed
<1> HIDE DEF typed
<1>4. whole = typed \o Crc32c(typed)
  OBVIOUS
<1> HIDE DEF sum
<1>5. /\ whole \in Seq(Byte) /\ Len(whole) = Len(typed) + 4
      /\ \A i \in 1..Len(typed) : whole[i] = typed[i]
  <2>1. /\ typed \o sum \in Seq(Byte)
        /\ Len(typed \o sum) = Len(typed) + Len(sum)
    BY <1>1, <1>2, ConcatBytes
  <2>2. \A i \in 1..Len(typed) : (typed \o sum)[i] = typed[i]
    BY <1>1, <1>2, ConcatProperties
  <2> QED
    BY <1>2, <2>1, <2>2 DEF U32Size
<1>6. /\ Len(whole) >= FooterSize /\ Len(whole) - U32Size = Len(typed)
      /\ Len(whole) - FooterSize + 1 = Len(typed)
  BY <1>1, <1>5 DEF FooterSize, U32Size
<1>7. Bytes(whole, 0, Len(typed)) = typed
  <2>1. Bytes(whole, 0, Len(typed) - 0) = Bytes(typed, 0, Len(typed) - 0)
    BY <1>1, <1>2, BytesOfPrefix
  <2>2. Bytes(typed, 0, Len(typed)) = typed
    BY <1>1 DEF Bytes
  <2>3. Len(typed) - 0 = Len(typed)
    BY <1>1
  <2> QED
    BY <2>1, <2>2, <2>3
<1>8. Bytes(whole, Len(typed), U32Size) = sum
  BY <1>1, <1>2, BytesOfRest
<1>9. CheckCRC32C(Sealed(body, type))
  <2> HIDE DEF whole
  <2>1. Crc32c(Bytes(whole, 0, Len(typed)))
          = Bytes(whole, Len(typed), U32Size)
    BY <1>7, <1>8 DEF sum
  <2> QED
    BY <1>3, <1>6, <2>1 DEF CheckCRC32C
<1>10. GetPageType(Sealed(body, type)) = type
  <2>1. Len(typed) \in 1..Len(typed)
    BY <1>1
  <2>2. whole[Len(typed)] = typed[Len(typed)]
    BY <1>5, <2>1
  <2> HIDE DEF whole
  <2> QED
    BY <1>1, <1>3, <1>6, <2>2 DEF GetPageType
<1> QED
  BY <1>9, <1>10

LEMMA Fixed32ArrayType ==
  ASSUME NEW s \in Seq(Nat)
  PROVE  /\ Fixed32Array(s) \in Seq(Byte)
         /\ Len(Fixed32Array(s)) = U32Size * Len(s)
<1>1. ASSUME NEW i \in 1..(U32Size * Len(s))
      PROVE  Fixed32(s[((i - 1) \div U32Size) + 1])[((i - 1) % U32Size) + 1]
               \in Byte
  <2>1. ((i - 1) \div U32Size) + 1 \in 1..Len(s)
    BY DEF U32Size
  <2>2. ((i - 1) % U32Size) + 1 \in 1..4
    BY DEF U32Size
  <2>3. s[((i - 1) \div U32Size) + 1] \in Nat
    BY <2>1
  <2> QED
    BY <2>2, <2>3, Fixed32Type
<1>2. U32Size * Len(s) \in Nat
  BY DEF U32Size
<1>3. Fixed32Array(s) \in [1..(U32Size * Len(s)) -> Byte]
  BY <1>1 DEF Fixed32Array
<1> QED
  BY <1>2, <1>3

(* decode_fixed32_le looks at four bytes only.                             *)
LEMMA DecodeSame ==
  ASSUME NEW b, NEW c, NEW o \in Nat, NEW p \in Nat,
         b[o + 1] = c[p + 1], b[o + 2] = c[p + 2],
         b[o + 3] = c[p + 3], b[o + 4] = c[p + 4]
  PROVE  DecodeFixed32(b, o) = DecodeFixed32(c, p)
BY DEF DecodeFixed32

(* The i-th word of an array reads back wherever the array stands.         *)
LEMMA ArrayReadsBack ==
  ASSUME NEW s \in Seq(Nat), NEW i \in 0..(Len(s) - 1), IsUint32(s[i + 1]),
         NEW buf, NEW off \in Nat, Stands(Fixed32Array(s), buf, off)
  PROVE  Fixed32At(buf, off, i) = s[i + 1]
<1>1. Len(s) \in Nat /\ i + 1 \in 1..Len(s)
  BY LenProperties
<1>2. s[i + 1] \in Nat
  BY <1>1
<1> DEFINE a == Fixed32Array(s)
<1>3. ASSUME NEW k \in 1..4
      PROVE  buf[off + 4 * i + k] = Fixed32(s[i + 1])[0 + k]
  <2>1. 4 * i + k \in 1..(4 * Len(s))
    BY <1>1
  <2>2. (4 * i + k - 1) \div 4 = i /\ (4 * i + k - 1) % 4 = k - 1
    BY <1>1
  <2>3. (k - 1) + 1 = 0 + k
    OBVIOUS
  <2>4. a[4 * i + k] = Fixed32(s[i + 1])[0 + k]
    BY <2>1, <2>2, <2>3 DEF Fixed32Array, U32Size
  <2>5. Len(a) = 4 * Len(s)
    BY Fixed32ArrayType DEF U32Size
  <2> HIDE DEF a
  <2>6. buf[off + (4 * i + k)] = a[4 * i + k]
    BY <2>1, <2>5 DEF Stands, a
  <2>7. off + (4 * i + k) = off + 4 * i + k
    BY <1>1
  <2> QED
    BY <2>4, <2>6, <2>7
<1>4. /\ buf[off + 4 * i + 1] = Fixed32(s[i + 1])[0 + 1]
      /\ buf[off + 4 * i + 2] = Fixed32(s[i + 1])[0 + 2]
      /\ buf[off + 4 * i + 3] = Fixed32(s[i + 1])[0 + 3]
      /\ buf[off + 4 * i + 4] = Fixed32(s[i + 1])[0 + 4]
  BY <1>3
<1>5. DecodeFixed32(buf, off + 4 * i) = DecodeFixed32(Fixed32(s[i + 1]), 0)
  <2>1. off + 4 * i \in Nat
    BY <1>1
  <2> QED
    BY <1>4, <2>1, DecodeSame
<1> QED
  <2>1. DecodeFixed32(Fixed32(s[i + 1]), 0) = s[i + 1]
    BY <1>2, Fixed32ReadsBack
  <2> QED
    BY <1>5, <2>1 DEF Fixed32At, U32Size
=============================================================================
