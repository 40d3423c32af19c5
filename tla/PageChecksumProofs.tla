------------------------- MODULE PageChecksumProofs -------------------------
(***************************************************************************)
(* Extend() computes the CRC-32C of its definition, in every build, for    *)
(* buffers of any length at any address, and a page is refused if bits     *)
(* within 32 adjacent ones were inverted in it.                            *)
(*                                                                         *)
(* A word, or a longer stream of bits, is the set of the positions of its  *)
(* 1 bits, and all rests on the division being linear for Xor.             *)
(***************************************************************************)
EXTENDS PageChecksum, SequenceTheorems, TLAPS

Lemmas == INSTANCE PageProofs WITH Crc32cBits <- Reference

Bits == SUBSET Nat

(* The bits of w, n places higher.                                         *)
Up(w, n) == { i + n : i \in w }

-----------------------------------------------------------------------------
(* Words.                                                                  *)
LEMMA InXor ==
  ASSUME NEW v, NEW w, NEW x
  PROVE  x \in Xor(v, w) <=> (x \in v /\ x \notin w) \/ (x \in w /\ x \notin v)
BY DEF Xor

LEMMA XorType ==
  ASSUME NEW S, NEW v \in SUBSET S, NEW w \in SUBSET S
  PROVE  Xor(v, w) \in SUBSET S
BY DEF Xor

LEMMA XorBits ==
  ASSUME NEW v \in Bits, NEW w \in Bits
  PROVE  Xor(v, w) \in Bits
BY DEF Xor, Bits

LEMMA XorWord ==
  ASSUME NEW v \in Word, NEW w \in Word
  PROVE  Xor(v, w) \in Word
BY DEF Xor, Word

LEMMA XorAssociative ==
  ASSUME NEW u, NEW v, NEW w
  PROVE  /\ Xor(Xor(u, v), w) = Xor(u, Xor(v, w))
         /\ Xor(u, v) = Xor(v, u)
         /\ Xor(u, {}) = u
         /\ Xor(u, u) = {}
         /\ Xor(u, Xor(u, v)) = v
<1>1. \A x : x \in Xor(Xor(u, v), w) <=> x \in Xor(u, Xor(v, w))
  BY InXor
<1>2. \A x : x \in Xor(u, Xor(u, v)) <=> x \in v
  BY InXor
<1> QED
  BY <1>1, <1>2 DEF Xor

LEMMA InShiftRight ==
  ASSUME NEW w \in Bits, NEW n \in Nat
  PROVE  /\ \A x : x \in ShiftRight(w, n) <=> x \in Nat /\ x + n \in w
         /\ ShiftRight(w, n) \in Bits
<1>1. ASSUME NEW x \in ShiftRight(w, n) PROVE x \in Nat /\ x + n \in w
  BY <1>1 DEF ShiftRight, Bits
<1>2. ASSUME NEW x \in Nat, x + n \in w PROVE x \in ShiftRight(w, n)
  <2>1. x + n >= n /\ (x + n) - n = x
    OBVIOUS
  <2> QED
    BY <1>2, <2>1 DEF ShiftRight
<1> QED
  BY <1>1, <1>2 DEF Bits

LEMMA InUp ==
  ASSUME NEW w \in Bits, NEW n \in Nat
  PROVE  /\ \A x : x \in Up(w, n) <=> x \in Nat /\ x >= n /\ x - n \in w
         /\ Up(w, n) \in Bits
<1>1. ASSUME NEW x \in Up(w, n) PROVE x \in Nat /\ x >= n /\ x - n \in w
  <2>1. PICK i \in w : x = i + n
    BY <1>1 DEF Up
  <2>2. i \in Nat
    BY DEF Bits
  <2>3. (i + n) - n = i /\ i + n >= n /\ i + n \in Nat
    BY <2>2
  <2> QED
    BY <2>1, <2>3
<1>2. ASSUME NEW x \in Nat, x >= n, x - n \in w PROVE x \in Up(w, n)
  <2>1. (x - n) + n = x
    OBVIOUS
  <2> QED
    BY <1>2, <2>1 DEF Up
<1> QED
  BY <1>1, <1>2 DEF Bits

LEMMA SameBits ==
  ASSUME NEW v \in Bits, NEW w \in Bits,
         \A x \in Nat : x \in v <=> x \in w
  PROVE  v = w
BY DEF Bits

LEMMA ShiftRightXor ==
  ASSUME NEW v \in Bits, NEW w \in Bits, NEW n \in Nat
  PROVE  ShiftRight(Xor(v, w), n) = Xor(ShiftRight(v, n), ShiftRight(w, n))
<1>1. Xor(v, w) \in Bits
  BY XorBits
<1>2. \A x \in Nat : x \in ShiftRight(Xor(v, w), n)
                       <=> x \in Xor(ShiftRight(v, n), ShiftRight(w, n))
  BY <1>1, InShiftRight, InXor
<1>3. /\ ShiftRight(Xor(v, w), n) \in Bits
      /\ Xor(ShiftRight(v, n), ShiftRight(w, n)) \in Bits
  BY <1>1, InShiftRight, XorBits
<1> QED
  BY <1>2, <1>3, SameBits

LEMMA ShiftRightTwice ==
  ASSUME NEW w \in Bits, NEW m \in Nat, NEW n \in Nat
  PROVE  ShiftRight(ShiftRight(w, m), n) = ShiftRight(w, m + n)
<1>1. ShiftRight(w, m) \in Bits /\ m + n \in Nat
  BY InShiftRight
<1>2. /\ ShiftRight(ShiftRight(w, m), n) \in Bits
      /\ ShiftRight(w, m + n) \in Bits
  BY <1>1, InShiftRight
<1>3. ASSUME NEW x \in Nat
      PROVE  x \in ShiftRight(ShiftRight(w, m), n)
               <=> x \in ShiftRight(w, m + n)
  <2>1. x + n \in Nat /\ (x + n) + m = x + (m + n)
    OBVIOUS
  <2> QED
    BY <1>1, <2>1, InShiftRight
<1> QED
  BY <1>2, <1>3, SameBits

(* What is shifted up and down again, and a stream in its two parts.       *)
LEMMA UpAndDown ==
  ASSUME NEW w \in Bits, NEW n \in Nat
  PROVE  /\ ShiftRight(Up(w, n), n) = w
         /\ \A i \in Up(w, n) : i >= n
<1>1. Up(w, n) \in Bits
  BY InUp
<1>2. ASSUME NEW x \in Nat
      PROVE  x \in ShiftRight(Up(w, n), n) <=> x \in w
  <2>1. x + n \in Nat /\ x + n >= n /\ (x + n) - n = x
    OBVIOUS
  <2>2. x \in ShiftRight(Up(w, n), n) <=> x + n \in Up(w, n)
    BY <1>1, InShiftRight
  <2>3. x + n \in Up(w, n) <=> (x + n) - n \in w
    BY <2>1, InUp
  <2> QED
    BY <2>1, <2>2, <2>3
<1>3. ShiftRight(Up(w, n), n) = w
  BY <1>1, <1>2, InShiftRight, SameBits
<1> QED
  BY <1>3, InUp

Low(w, n) == { i \in w : i < n }

LEMMA Split ==
  ASSUME NEW w \in Bits, NEW n \in Nat
  PROVE  /\ Low(w, n) \in Bits
         /\ w = Xor(Low(w, n), Up(ShiftRight(w, n), n))
<1>1. Low(w, n) \in Bits
  BY DEF Low, Bits
<1>2. ShiftRight(w, n) \in Bits /\ Up(ShiftRight(w, n), n) \in Bits
  BY InShiftRight, InUp
<1>3. ASSUME NEW x \in Nat
      PROVE  x \in w <=> x \in Xor(Low(w, n), Up(ShiftRight(w, n), n))
  <2>1. x \in Up(ShiftRight(w, n), n) <=> x >= n /\ x \in w
    <3>1. x >= n => x - n \in Nat /\ (x - n) + n = x
      OBVIOUS
    <3>2. x \in Up(ShiftRight(w, n), n)
            <=> x >= n /\ x - n \in ShiftRight(w, n)
      BY <1>2, InUp
    <3> QED
      BY <3>1, <3>2, InShiftRight
  <2>2. x \in Low(w, n) <=> x \in w /\ x < n
    BY DEF Low
  <2>3. x < n <=> ~(x >= n)
    OBVIOUS
  <2> QED
    BY <2>1, <2>2, <2>3, InXor
<1>4. Xor(Low(w, n), Up(ShiftRight(w, n), n)) \in Bits
  BY <1>1, <1>2, XorBits
<1> QED
  BY <1>1, <1>3, <1>4, SameBits

-----------------------------------------------------------------------------
(* The division.                                                           *)
LEMMA PolynomialBits == Polynomial \in Bits /\ Polynomial \in Word
BY DEF Polynomial, Bits, Word

LEMMA HalvedType ==
  ASSUME NEW w \in Bits
  PROVE  Halved(w) \in Bits
<1>1. ShiftRight(w, 1) \in Bits
  BY InShiftRight
<1>2. Xor(ShiftRight(w, 1), Polynomial) \in Bits
  BY <1>1, PolynomialBits, XorBits
<1> QED
  BY <1>1, <1>2 DEF Halved

LEMMA HalvedXor ==
  ASSUME NEW v \in Bits, NEW w \in Bits
  PROVE  Halved(Xor(v, w)) = Xor(Halved(v), Halved(w))
<1> DEFINE a == ShiftRight(v, 1)
           b == ShiftRight(w, 1)
<1>1. ShiftRight(Xor(v, w), 1) = Xor(a, b)
  BY ShiftRightXor
<1>2. 0 \in Xor(v, w) <=> (0 \in v /\ 0 \notin w) \/ (0 \in w /\ 0 \notin v)
  BY InXor
<1> HIDE DEF a, b
<1>3. /\ Xor(Xor(a, Polynomial), b) = Xor(Xor(a, b), Polynomial)
      /\ Xor(a, Xor(b, Polynomial)) = Xor(Xor(a, b), Polynomial)
      /\ Xor(Xor(a, Polynomial), Xor(b, Polynomial)) = Xor(a, b)
  <2>1. \A x : x \in Xor(Xor(a, Polynomial), b)
                 <=> x \in Xor(Xor(a, b), Polynomial)
    BY InXor
  <2>2. \A x : x \in Xor(a, Xor(b, Polynomial))
                 <=> x \in Xor(Xor(a, b), Polynomial)
    BY InXor
  <2>3. \A x : x \in Xor(Xor(a, Polynomial), Xor(b, Polynomial))
                 <=> x \in Xor(a, b)
    BY InXor
  <2> QED
    BY <2>1, <2>2, <2>3 DEF Xor
<1>4. /\ Halved(v) = IF 0 \in v THEN Xor(a, Polynomial) ELSE a
      /\ Halved(w) = IF 0 \in w THEN Xor(b, Polynomial) ELSE b
      /\ Halved(Xor(v, w)) = IF 0 \in Xor(v, w)
                              THEN Xor(Xor(a, b), Polynomial) ELSE Xor(a, b)
  BY <1>1 DEF Halved, a, b
<1> QED
  BY <1>2, <1>3, <1>4

(* The recursive function of Divided.                                      *)
LEMMA DividedSteps ==
  ASSUME NEW w \in Bits
  PROVE  /\ Divided(w, 0) = w
         /\ \A n \in Nat : /\ Divided(w, n) \in Bits
                          /\ Divided(w, n + 1) = Halved(Divided(w, n))
<1> DEFINE F == [ k \in Nat |-> [ v \in Bits |-> Halved(v) ] ]
           G(g) == g = [ k \in Nat |->
                           IF k = 0 THEN w ELSE Halved(g[k - 1]) ]
           after == CHOOSE g : G(g)
<1>1. \E g : G(g)
  <2>1. F \in [Nat -> [Bits -> Bits]]
    BY HalvedType
  <2> HIDE DEF F
  <2>2. PICK f : Lemmas!Iteration(Bits, w, F, f)
    BY <2>1, Lemmas!IterationExists
  <2>3. /\ f \in [Nat -> Bits]
        /\ \A k \in Nat : f[k] = IF k = 0 THEN w ELSE F[k][f[k - 1]]
    BY <2>2 DEF Lemmas!Iteration
  <2>4. ASSUME NEW k \in Nat
        PROVE  f[k] = IF k = 0 THEN w ELSE Halved(f[k - 1])
    <3>1. k # 0 => f[k - 1] \in Bits
      BY <2>3
    <3> QED
      BY <2>3, <3>1 DEF F
  <2>5. f = [ k \in Nat |-> f[k] ]
    BY <2>3
  <2> QED
    BY <2>4, <2>5
<1>2. G(after)
  BY <1>1
<1>3. \A n : Divided(w, n) = after[n]
  BY DEF Divided
<1> HIDE DEF after
<1>4. after[0] = w /\ \A n \in Nat : after[n + 1] = Halved(after[n])
  <2>1. \A k \in Nat : after[k] = IF k = 0 THEN w ELSE Halved(after[k - 1])
    BY <1>2
  <2>2. ASSUME NEW n \in Nat PROVE after[n + 1] = Halved(after[n])
    <3>1. n + 1 \in Nat /\ n + 1 # 0 /\ (n + 1) - 1 = n
      OBVIOUS
    <3> QED
      BY <2>1, <3>1
  <2> QED
    BY <2>1, <2>2
<1> DEFINE T == { n \in Nat : after[n] \in Bits }
<1>5. 0 \in T
  BY <1>4
<1>6. \A n \in Nat : n \in T => n + 1 \in T
  BY <1>4, HalvedType
<1> HIDE DEF T
<1>7. \A n \in Nat : n \in T
  BY <1>5, <1>6, Lemmas!NatInductionOn
<1> QED
  BY <1>3, <1>4, <1>7 DEF T

LEMMA DividedXor ==
  ASSUME NEW v \in Bits, NEW w \in Bits, NEW n \in Nat
  PROVE  Divided(Xor(v, w), n) = Xor(Divided(v, n), Divided(w, n))
<1> DEFINE T == { k \in Nat : Divided(Xor(v, w), k)
                               = Xor(Divided(v, k), Divided(w, k)) }
<1>1. Xor(v, w) \in Bits
  BY XorBits
<1>2. 0 \in T
  BY <1>1, DividedSteps
<1>3. ASSUME NEW k \in Nat, k \in T PROVE k + 1 \in T
  <2>1. Divided(v, k) \in Bits /\ Divided(w, k) \in Bits
    BY DividedSteps
  <2>2. /\ Divided(v, k + 1) = Halved(Divided(v, k))
        /\ Divided(w, k + 1) = Halved(Divided(w, k))
        /\ Divided(Xor(v, w), k + 1) = Halved(Divided(Xor(v, w), k))
    BY <1>1, DividedSteps
  <2> QED
    BY <1>3, <2>1, <2>2, HalvedXor
<1> HIDE DEF T
<1>4. \A k \in Nat : k \in T
  BY <1>2, <1>3, Lemmas!NatInductionOn
<1> QED
  BY <1>4 DEF T

LEMMA DividedTwice ==
  ASSUME NEW w \in Bits, NEW m \in Nat, NEW n \in Nat
  PROVE  Divided(Divided(w, m), n) = Divided(w, m + n)
<1> DEFINE T == { k \in Nat :
                    Divided(Divided(w, m), k) = Divided(w, m + k) }
<1>1. Divided(w, m) \in Bits
  BY DividedSteps
<1>2. 0 \in T
  BY <1>1, DividedSteps
<1>3. ASSUME NEW k \in Nat, k \in T PROVE k + 1 \in T
  <2>1. m + k \in Nat /\ (m + k) + 1 = m + (k + 1)
    OBVIOUS
  <2>2. Divided(Divided(w, m), k + 1) = Halved(Divided(Divided(w, m), k))
    BY <1>1, DividedSteps
  <2>3. Divided(w, (m + k) + 1) = Halved(Divided(w, m + k))
    BY <2>1, DividedSteps
  <2> QED
    BY <1>3, <2>1, <2>2, <2>3
<1> HIDE DEF T
<1>4. \A k \in Nat : k \in T
  BY <1>2, <1>3, Lemmas!NatInductionOn
<1> QED
  BY <1>4 DEF T

(* As long as there are zeros it is a shift.                               *)
LEMMA DividedZeros ==
  ASSUME NEW w \in Bits, NEW n \in Nat, \A i \in w : i >= n
  PROVE  Divided(w, n) = ShiftRight(w, n)
<1> DEFINE T == { k \in Nat : k <= n => Divided(w, k) = ShiftRight(w, k) }
<1>1. 0 \in T
  <2>1. ShiftRight(w, 0) = w
    <3>1. \A x \in Nat : x \in ShiftRight(w, 0) <=> x \in w
      BY InShiftRight
    <3> QED
      BY <3>1, InShiftRight, SameBits
  <2> QED
    BY <2>1, DividedSteps
<1>2. ASSUME NEW k \in Nat, k \in T PROVE k + 1 \in T
  <2> SUFFICES ASSUME k + 1 <= n
               PROVE  Divided(w, k + 1) = ShiftRight(w, k + 1)
    OBVIOUS
  <2>1. Divided(w, k) = ShiftRight(w, k)
    BY <1>2
  <2>2. 0 \notin ShiftRight(w, k)
    <3>1. k \notin w /\ 0 + k = k
      OBVIOUS
    <3> QED
      BY <3>1, InShiftRight
  <2>3. Halved(ShiftRight(w, k)) = ShiftRight(w, k + 1)
    BY <2>2, ShiftRightTwice DEF Halved
  <2> QED
    BY <2>1, <2>3, DividedSteps
<1> HIDE DEF T
<1>3. \A k \in Nat : k \in T
  BY <1>1, <1>2, Lemmas!NatInductionOn
<1> QED
  BY <1>3 DEF T

(* A stream in two parts: the first is divided, the second comes down.     *)
LEMMA DividedParts ==
  ASSUME NEW v \in Bits, NEW w \in Bits, NEW n \in Nat
  PROVE  Divided(Xor(v, Up(w, n)), n) = Xor(Divided(v, n), w)
<1>1. Up(w, n) \in Bits
  BY InUp
<1>2. Divided(Up(w, n), n) = w
  BY <1>1, UpAndDown, DividedZeros
<1> QED
  BY <1>1, <1>2, DividedXor

LEMMA DividedSplit ==
  ASSUME NEW w \in Bits, NEW n \in Nat
  PROVE  Divided(w, n) = Xor(Divided(Low(w, n), n), ShiftRight(w, n))
<1>1. Low(w, n) \in Bits /\ ShiftRight(w, n) \in Bits
  BY Split, InShiftRight
<1> QED
  BY <1>1, Split, DividedParts

(* What is divided up to one word stays one, and only zeros become zero.   *)
LEMMA HalvedWord ==
  ASSUME NEW w \in Word
  PROVE  /\ Halved(w) \in Word
         /\ w # {} => Halved(w) # {}
<1>1. w \in Bits
  BY DEF Word, Bits
<1>2. ShiftRight(w, 1) \in SUBSET (0..30)
  <2>1. ASSUME NEW x \in ShiftRight(w, 1) PROVE x \in 0..30
    <3>1. x \in Nat /\ x + 1 \in w
      BY <1>1, InShiftRight
    <3>2. x + 1 \in 0..31
      BY <3>1 DEF Word
    <3> QED
      BY <3>1, <3>2
  <2> QED
    BY <2>1
<1>3. Halved(w) \in Word
  <2>1. ShiftRight(w, 1) \in Word
    BY <1>2 DEF Word
  <2>2. Xor(ShiftRight(w, 1), Polynomial) \in Word
    BY <2>1, PolynomialBits DEF Word, Xor
  <2> QED
    BY <2>1, <2>2 DEF Halved
<1>4. ASSUME w # {} PROVE Halved(w) # {}
  <2>1. CASE 0 \in w
    <3>1. 31 \in Polynomial /\ 31 \notin ShiftRight(w, 1)
      BY <1>2 DEF Polynomial
    <3>2. 31 \in Xor(ShiftRight(w, 1), Polynomial)
      BY <3>1, InXor
    <3> QED
      BY <2>1, <3>2 DEF Halved
  <2>2. CASE 0 \notin w
    <3>1. PICK i \in w : TRUE
      BY <1>4
    <3>2. i - 1 \in Nat /\ (i - 1) + 1 = i
      BY <2>2 DEF Word
    <3>3. i - 1 \in ShiftRight(w, 1)
      BY <1>1, <3>2, InShiftRight
    <3> QED
      BY <2>2, <3>3 DEF Halved
  <2> QED
    BY <2>1, <2>2
<1> QED
  BY <1>3, <1>4

LEMMA DividedWord ==
  ASSUME NEW w \in Word, NEW n \in Nat
  PROVE  /\ Divided(w, n) \in Word
         /\ w # {} => Divided(w, n) # {}
<1> DEFINE T == { k \in Nat : /\ Divided(w, k) \in Word
                              /\ w # {} => Divided(w, k) # {} }
<1>1. w \in Bits
  BY DEF Word, Bits
<1>2. 0 \in T
  BY <1>1, DividedSteps
<1>3. ASSUME NEW k \in Nat, k \in T PROVE k + 1 \in T
  <2>1. Divided(w, k + 1) = Halved(Divided(w, k))
    BY <1>1, DividedSteps
  <2> QED
    BY <1>3, <2>1, HalvedWord
<1> HIDE DEF T
<1>4. \A k \in Nat : k \in T
  BY <1>2, <1>3, Lemmas!NatInductionOn
<1> QED
  BY <1>4 DEF T

-----------------------------------------------------------------------------
(* Octets, the tables and the rounds of eight bits and of 64.              *)
LEMMA OctetsAre ==
  ASSUME NEW w \in Bits
  PROVE  /\ \A n : Octet(w, n) \in Octets
         /\ Octet(w, 0) = Low(w, 8)
         /\ Octets \subseteq Word /\ Word \subseteq Bits
<1>1. \A n : Octet(w, n) \in Octets
  BY DEF Octet, Octets
<1>2. \A x : x \in Octet(w, 0) <=> x \in Low(w, 8)
  <2>1. ASSUME NEW x PROVE x \in Octet(w, 0) <=> x \in 0..7 /\ x \in w
    <3>1. x \in 0..7 => x + 8 * 0 = x
      OBVIOUS
    <3> QED
      BY <3>1 DEF Octet
  <2>2. \A x \in w : x \in 0..7 <=> x < 8
    BY DEF Bits
  <2> QED
    BY <2>1, <2>2 DEF Low
<1>3. Octets \subseteq Word /\ Word \subseteq Bits
  BY DEF Octets, Word, Bits
<1> QED
  BY <1>1, <1>2, <1>3

(* The lowest octet is divided by itself.                                  *)
LEMMA OctetApart ==
  ASSUME NEW w \in Bits, NEW n \in Nat
  PROVE  Divided(w, 8 + n)
           = Xor(Divided(Octet(w, 0), 8 + n), Divided(ShiftRight(w, 8), n))
<1> DEFINE o == Octet(w, 0)
<1>1. o \in Bits /\ ShiftRight(w, 8) \in Bits
  BY OctetsAre, InShiftRight
<1>2. Divided(w, 8) = Xor(Divided(o, 8), ShiftRight(w, 8))
  BY OctetsAre, DividedSplit
<1> HIDE DEF o
<1>3. Divided(o, 8) \in Bits
  BY <1>1, DividedSteps
<1>4. Divided(Divided(w, 8), n)
        = Xor(Divided(Divided(o, 8), n), Divided(ShiftRight(w, 8), n))
  BY <1>1, <1>2, <1>3, DividedXor
<1> QED
  BY <1>1, <1>4, DividedTwice DEF o

LEMMA TableAfterIs ==
  ASSUME NEW table, NEW n \in Nat,
         \A o \in Octets : table[o] = Divided(o, n)
  PROVE  \A o \in Octets : TableAfter(table)[o] = Divided(o, n + 8)
<1> SUFFICES ASSUME NEW o \in Octets
             PROVE  TableAfter(table)[o] = Divided(o, n + 8)
  OBVIOUS
<1> DEFINE w == Divided(o, n)
<1>1. o \in Bits
  BY DEF Octets, Bits
<1>2. w \in Bits
  BY <1>1, DividedSteps
<1>3. Divided(w, 8) = Divided(o, n + 8)
  BY <1>1, DividedTwice
<1>4. table[o] = w
  OBVIOUS
<1> HIDE DEF w
<1>5. Octet(w, 0) \in Octets /\ Octet(w, 0) = Low(w, 8)
  BY <1>2, OctetsAre
<1>6. Divided(w, 8) = Xor(Divided(Octet(w, 0), 8), ShiftRight(w, 8))
  BY <1>2, <1>5, DividedSplit
<1>7. TableAfter(table)[o] = Xor(ShiftRight(w, 8), Table0[Octet(w, 0)])
  BY <1>4 DEF TableAfter
<1>8. Table0[Octet(w, 0)] = Divided(Octet(w, 0), 8)
  BY <1>5 DEF Table0
<1> QED
  BY <1>3, <1>6, <1>7, <1>8, XorAssociative

LEMMA TablesAre ==
  ASSUME NEW o \in Octets
  PROVE  /\ Table0[o] = Divided(o, 8) /\ Table1[o] = Divided(o, 16)
         /\ Table2[o] = Divided(o, 24) /\ Table3[o] = Divided(o, 32)
<1>1. \A i \in Octets : Table0[i] = Divided(i, 8)
  BY DEF Table0
<1>2. \A i \in Octets : Table1[i] = Divided(i, 8 + 8)
  BY <1>1, TableAfterIs DEF Table1
<1>3. \A i \in Octets : Table2[i] = Divided(i, 16 + 8)
  BY <1>2, TableAfterIs DEF Table2
<1>4. \A i \in Octets : Table3[i] = Divided(i, 24 + 8)
  BY <1>3, TableAfterIs DEF Table3
<1> QED
  BY <1>1, <1>2, <1>3, <1>4

LEMMA OneByteDivides ==
  ASSUME NEW w \in Word, NEW o \in Octets
  PROVE  Xor(Table0[Xor(Octet(w, 0), o)], ShiftRight(w, 8))
           = Divided(Xor(w, o), 8)
<1> DEFINE v == Xor(w, o)
<1>1. w \in Bits /\ o \in Bits
  BY DEF Word, Octets, Bits
<1>2. v \in Bits
  BY <1>1, XorBits
<1>3. Octet(v, 0) = Xor(Octet(w, 0), o)
  <2>1. ASSUME NEW x PROVE x \in Octet(v, 0) <=> x \in Xor(Octet(w, 0), o)
    <3>1. x \in 0..7 => x + 8 * 0 = x
      OBVIOUS
    <3>2. x \in o => x \in 0..7
      BY DEF Octets
    <3>3. x \in v <=> (x \in w /\ x \notin o) \/ (x \in o /\ x \notin w)
      BY InXor
    <3>4. x \in Octet(w, 0) <=> x \in 0..7 /\ x \in w
      BY <3>1 DEF Octet
    <3>5. x \in Octet(v, 0) <=> x \in 0..7 /\ x \in v
      BY <3>1 DEF Octet
    <3> QED
      BY <3>2, <3>3, <3>4, <3>5, InXor
  <2> QED
    BY <2>1
<1>4. ShiftRight(v, 8) = ShiftRight(w, 8)
  <2>1. ShiftRight(o, 8) = {}
    <3>1. \A x \in Nat : x + 8 \notin o
      BY DEF Octets
    <3> QED
      BY <1>1, <3>1, InShiftRight
  <2>2. ShiftRight(v, 8) = Xor(ShiftRight(w, 8), ShiftRight(o, 8))
    BY <1>1, ShiftRightXor
  <2> QED
    BY <2>1, <2>2, XorAssociative
<1> HIDE DEF v
<1>5. Octet(v, 0) \in Octets /\ Octet(v, 0) = Low(v, 8)
  BY <1>2, OctetsAre
<1>6. Divided(v, 8) = Xor(Divided(Octet(v, 0), 8), ShiftRight(v, 8))
  BY <1>2, <1>5, DividedSplit
<1>7. Table0[Octet(v, 0)] = Divided(Octet(v, 0), 8)
  BY <1>5, TablesAre
<1> QED
  BY <1>3, <1>4, <1>6, <1>7 DEF v

LEMMA OctetOfShifted ==
  ASSUME NEW w \in Bits, NEW n \in Nat
  PROVE  Octet(w, n) = Octet(ShiftRight(w, 8 * n), 0)
<1>1. ASSUME NEW x \in 0..7
      PROVE  x + 8 * n \in w <=> x + 8 * 0 \in ShiftRight(w, 8 * n)
  <2>1. x \in Nat /\ x + 8 * 0 = x /\ 8 * n \in Nat
    OBVIOUS
  <2> QED
    BY <2>1, InShiftRight
<1> QED
  BY <1>1 DEF Octet

LEMMA SlowRoundDivides ==
  ASSUME NEW c \in Word
  PROVE  SlowRound(c) = Divided(c, 32)
<1> DEFINE o(n) == Octet(c, n)
           S(n) == ShiftRight(c, n)
<1>1. c \in Bits
  BY DEF Word, Bits
<1>2. \A n : o(n) \in Octets
  BY <1>1, OctetsAre
<1>3. /\ S(8) \in Bits /\ S(16) \in Bits /\ S(24) \in Bits
      /\ ShiftRight(S(8), 8) = S(16) /\ ShiftRight(S(16), 8) = S(24)
  <2>1. /\ ShiftRight(c, 8) \in Bits /\ ShiftRight(c, 16) \in Bits
        /\ ShiftRight(c, 24) \in Bits
    BY <1>1, InShiftRight
  <2>2. /\ ShiftRight(ShiftRight(c, 8), 8) = ShiftRight(c, 8 + 8)
        /\ ShiftRight(ShiftRight(c, 16), 8) = ShiftRight(c, 16 + 8)
    BY <1>1, ShiftRightTwice
  <2> QED
    BY <2>1, <2>2
<1>4. /\ o(1) = Octet(S(8), 0) /\ o(2) = Octet(S(16), 0)
      /\ o(3) = Octet(S(24), 0)
  <2>1. 8 * 1 = 8 /\ 8 * 2 = 16 /\ 8 * 3 = 24
    OBVIOUS
  <2> QED
    BY <1>1, <2>1, OctetOfShifted
<1>5. o(3) = S(24)
  <2>1. ASSUME NEW x \in S(24) PROVE x < 8
    <3>1. x \in Nat /\ x + 24 \in c
      BY <1>1, <2>1, InShiftRight
    <3>2. x + 24 \in 0..31
      BY <3>1 DEF Word
    <3> QED
      BY <3>1, <3>2
  <2>2. Low(S(24), 8) = S(24)
    BY <2>1 DEF Low
  <2> QED
    BY <1>3, <1>4, <2>2, OctetsAre
<1>6. Table3[o(0)] = Divided(o(0), 32) /\ Table2[o(1)] = Divided(o(1), 24)
        /\ Table1[o(2)] = Divided(o(2), 16) /\ Table0[o(3)] = Divided(o(3), 8)
  BY <1>2, TablesAre
<1>7. Divided(c, 32) = Xor(Divided(o(0), 32), Divided(S(8), 24))
  <2>1. Divided(c, 8 + 24)
          = Xor(Divided(Octet(c, 0), 8 + 24), Divided(ShiftRight(c, 8), 24))
    BY <1>1, OctetApart
  <2> QED
    BY <2>1
<1> HIDE DEF S, o
<1>8. Divided(S(8), 24) = Xor(Divided(o(1), 24), Divided(S(16), 16))
  <2>1. Divided(S(8), 8 + 16)
          = Xor(Divided(o(1), 8 + 16), Divided(S(16), 16))
    BY <1>3, <1>4, OctetApart
  <2> QED
    BY <2>1
<1>9. Divided(S(16), 16) = Xor(Divided(o(2), 16), Divided(S(24), 8))
  <2>1. Divided(S(16), 8 + 8)
          = Xor(Divided(o(2), 8 + 8), Divided(S(24), 8))
    BY <1>3, <1>4, OctetApart
  <2> QED
    BY <2>1
<1>10. SlowRound(c) = Xor(Xor(Table3[o(0)], Table2[o(1)]),
                          Xor(Table1[o(2)], Table0[o(3)]))
  BY DEF SlowRound, o
<1> QED
  BY <1>5, <1>6, <1>7, <1>8, <1>9, <1>10, XorAssociative

(* The instruction, of four octets.                                        *)
LEMMA Hardware32Divides ==
  ASSUME NEW w \in Bits, NEW data \in Bits
  PROVE  Hardware32(w, data) = Divided(Xor(w, data), 32)
<1> DEFINE d0 == Xor(w, data)
           D  == DividedOctet
<1>1. d0 \in Bits
  BY XorBits
<1> HIDE DEF d0
<1>2. \A v \in Bits : D[v] = Divided(v, 8)
  BY DEF DividedOctet, Bits
<1>3. \A v \in Bits, n \in Nat : Divided(v, n) \in Bits
  BY DividedSteps
<1> HIDE DEF D
<1>4. D[d0] = Divided(d0, 8) /\ D[d0] \in Bits
  BY <1>1, <1>2, <1>3
<1>5. D[D[d0]] = Divided(d0, 8 + 8) /\ D[D[d0]] \in Bits
  BY <1>1, <1>2, <1>3, <1>4, DividedTwice
<1>6. D[D[D[d0]]] = Divided(d0, 16 + 8) /\ D[D[D[d0]]] \in Bits
  BY <1>1, <1>2, <1>3, <1>5, DividedTwice
<1>7. D[D[D[D[d0]]]] = Divided(d0, 24 + 8)
  BY <1>1, <1>2, <1>3, <1>6, DividedTwice
<1> QED
  BY <1>7 DEF Hardware32, D, d0

(* Whatever the build: eight octets.                                       *)
LEMMA Crc32Divides ==
  ASSUME build \in {"slow", "sse42_64", "sse42_32"},
         NEW w \in Word, NEW data \in SUBSET (0..63)
  PROVE  Crc32(w, data) = Divided(Xor(w, data), 64)
<1> DEFINE low  == data \cap (0..31)
           high == ShiftRight(data, 32)
<1>1. data \in Bits /\ w \in Bits
  BY DEF Bits, Word
<1>2. low \in Word /\ low \in Bits /\ low = Low(data, 32)
  <2>1. \A x : x \in low <=> x \in Low(data, 32)
    <3>1. \A x \in data : x \in 0..31 <=> x < 32
      OBVIOUS
    <3> QED
      BY <3>1 DEF Low
  <2> QED
    BY <2>1 DEF Word, Bits
<1>3. high \in Word /\ high \in Bits
  <2>1. ASSUME NEW x \in high PROVE x \in 0..31
    <3>1. x \in Nat /\ x + 32 \in data
      BY <1>1, <2>1, InShiftRight
    <3>2. x + 32 \in 0..63
      BY <3>1
    <3> QED
      BY <3>1, <3>2
  <2> QED
    BY <2>1 DEF Word, Bits
<1>4. data = Xor(low, Up(high, 32))
  BY <1>1, <1>2, Split
<1> HIDE DEF low, high
<1> DEFINE u == Xor(w, low)
           v == Xor(Divided(u, 32), high)
<1>5. u \in Word /\ u \in Bits
  <2>1. u \in Word
    BY <1>2, XorWord
  <2> QED
    BY <2>1 DEF Word, Bits
<1>6. v \in Word
  <2>1. Divided(u, 32) \in Word
    BY <1>5, DividedWord
  <2> QED
    BY <1>3, <2>1, XorWord
<1> HIDE DEF u
<1>7. Divided(Xor(w, data), 64) = Divided(v, 32)
  <2>1. Xor(w, data) = Xor(u, Up(high, 32))
    BY <1>4, XorAssociative DEF u
  <2>2. Divided(Xor(w, data), 32) = v
    BY <1>3, <1>5, <2>1, DividedParts
  <2>3. Xor(w, data) \in Bits
    BY <1>1, XorBits
  <2>4. Divided(Divided(Xor(w, data), 32), 32)
          = Divided(Xor(w, data), 32 + 32)
    BY <2>3, DividedTwice
  <2> QED
    BY <2>2, <2>4
<1> HIDE DEF v
<1>8. Slow(w, data) = Divided(v, 32)
  BY <1>5, <1>6, SlowRoundDivides DEF Slow, low, high, u, v
<1>9. Hardware32(Hardware32(w, data \cap (0..31)), ShiftRight(data, 32))
        = Divided(v, 32)
  <2>1. Hardware32(w, low) = Divided(u, 32)
    BY <1>1, <1>2, Hardware32Divides DEF u
  <2>2. Divided(u, 32) \in Bits
    BY <1>5, DividedSteps
  <2>3. Hardware32(Divided(u, 32), high) = Divided(v, 32)
    BY <1>3, <2>2, Hardware32Divides DEF v
  <2> QED
    BY <2>1, <2>3 DEF low, high
<1>10. Hardware64(w, data) = Divided(v, 32)
  <2>1. Xor(w, data) \in Bits /\ {} \in Bits
    BY <1>1, XorBits DEF Bits
  <2>2. Hardware32(w, data) = Divided(Xor(w, data), 32)
    BY <1>1, Hardware32Divides
  <2>3. Divided(Xor(w, data), 32) \in Bits
    BY <2>1, DividedSteps
  <2>4. Hardware32(Divided(Xor(w, data), 32), {})
          = Divided(Xor(Divided(Xor(w, data), 32), {}), 32)
    BY <2>1, <2>3, Hardware32Divides
  <2>5. Divided(Divided(Xor(w, data), 32), 32)
          = Divided(Xor(w, data), 32 + 32)
    BY <2>1, DividedTwice
  <2> QED
    BY <1>7, <2>2, <2>4, <2>5, XorAssociative DEF Hardware64
<1> QED
  BY <1>7, <1>8, <1>9, <1>10 DEF Crc32

-----------------------------------------------------------------------------
(* The bits of bytes.                                                      *)
Bytes8 == Seq(0..255)

LEMMA BytesOf ==
  ASSUME NEW n \in Nat, NEW f \in [1..n -> 0..255]
  PROVE  f \in Bytes8 /\ Len(f) = n
BY DEF Bytes8

LEMMA OctetOfType ==
  ASSUME NEW b \in 0..255
  PROVE  OctetOf[b] \in Octets /\ \A i \in OctetOf[b] : i \in 0..7
BY DEF OctetOf, Octets

LEMMA InBitsOf ==
  ASSUME NEW s \in Bytes8
  PROVE  /\ BitsOf(s) \in Bits
         /\ \A k \in 1..Len(s), i \in 0..7 :
              i + 8 * (k - 1) \in BitsOf(s) <=> i \in OctetOf[s[k]]
         /\ \A x \in BitsOf(s) : x < 8 * Len(s)
<1>1. ASSUME NEW k \in 1..Len(s) PROVE \A i \in OctetOf[s[k]] : i \in 0..7
  <2>1. s[k] \in 0..255
    BY ElementOfSeq DEF Bytes8
  <2>2. \A b \in 0..255 : \A i \in OctetOf[b] : i \in 0..7
    BY OctetOfType
  <2> QED
    BY <2>1, <2>2, Zenon
<1>2. \A x : x \in BitsOf(s) <=>
        \E k \in 1..Len(s) : \E i \in OctetOf[s[k]] : x = i + 8 * (k - 1)
  <2> DEFINE At8(k) == { i + 8 * (k - 1) : i \in OctetOf[s[k]] }
  <2>1. \A x : x \in BitsOf(s) <=> \E k \in 1..Len(s) : x \in At8(k)
    <3> HIDE DEF At8
    <3>1. BitsOf(s) = UNION { At8(k) : k \in 1..Len(s) }
      BY DEF BitsOf, At8
    <3> QED
      BY <3>1
  <2> QED
    BY <2>1
<1>3. Len(s) \in Nat
  BY DEF Bytes8
<1>4. ASSUME NEW x \in BitsOf(s) PROVE x \in Nat /\ x < 8 * Len(s)
  <2>1. PICK k \in 1..Len(s) : \E i \in OctetOf[s[k]] : x = i + 8 * (k - 1)
    BY <1>2, <1>4
  <2>2. PICK i \in OctetOf[s[k]] : x = i + 8 * (k - 1)
    BY <2>1
  <2>3. i \in 0..7
    BY <1>1
  <2> QED
    BY <1>3, <2>2, <2>3
<1>5. ASSUME NEW k \in 1..Len(s), NEW i \in 0..7
      PROVE  i + 8 * (k - 1) \in BitsOf(s) <=> i \in OctetOf[s[k]]
  <2>1. ASSUME NEW m \in 1..Len(s), NEW j \in OctetOf[s[m]],
               i + 8 * (k - 1) = j + 8 * (m - 1)
        PROVE  i \in OctetOf[s[k]]
    <3>1. j \in 0..7
      BY <1>1
    <3>2. m = k /\ j = i
      BY <1>3, <2>1, <3>1
    <3> QED
      BY <3>2
  <2> QED
    BY <1>2, <2>1
<1> QED
  BY <1>4, <1>5 DEF Bits

(* Each position is one of a byte.                                         *)
LEMMA PositionIn ==
  ASSUME NEW n \in Nat, NEW x \in Nat, x < 8 * n
  PROVE  \E k \in 1..n, i \in 0..7 : x = i + 8 * (k - 1)
<1>1. x \div 8 \in Nat /\ x % 8 \in 0..7 /\ x = (x % 8) + 8 * (x \div 8)
  OBVIOUS
<1>2. x \div 8 + 1 \in 1..n /\ (x \div 8 + 1) - 1 = x \div 8
  BY <1>1
<1> QED
  BY <1>1, <1>2

LEMMA ConcatIs ==
  ASSUME NEW s \in Bytes8, NEW t \in Bytes8
  PROVE  /\ s \o t \in Bytes8 /\ Len(s \o t) = Len(s) + Len(t)
         /\ Len(s) \in Nat /\ Len(t) \in Nat
         /\ \A k \in 1..Len(s) : (s \o t)[k] = s[k]
         /\ \A k \in 1..Len(t) : (s \o t)[Len(s) + k] = t[k]
BY DEF Bytes8

LEMMA BitsOfConcat ==
  ASSUME NEW s \in Bytes8, NEW t \in Bytes8
  PROVE  BitsOf(s \o t) = Xor(BitsOf(s), Up(BitsOf(t), 8 * Len(s)))
<1> DEFINE st == s \o t
           m  == Len(s)
           n  == Len(t)
           up == Up(BitsOf(t), 8 * m)
<1>1. /\ st \in Bytes8 /\ Len(st) = m + n /\ m \in Nat /\ n \in Nat
      /\ 8 * m \in Nat
      /\ \A k \in 1..m : st[k] = s[k]
      /\ \A k \in 1..n : st[m + k] = t[k]
  BY DEF Bytes8
<1>2. /\ BitsOf(s) \in Bits /\ BitsOf(t) \in Bits /\ BitsOf(st) \in Bits
      /\ up \in Bits
      /\ \A x : x \in up <=> x \in Nat /\ x >= 8 * m /\ x - 8 * m \in BitsOf(t)
  <2>1. st \in Bytes8
    BY <1>1
  <2> HIDE DEF st
  <2>2. BitsOf(s) \in Bits /\ BitsOf(t) \in Bits /\ BitsOf(st) \in Bits
    BY <2>1, InBitsOf
  <2> QED
    BY <1>1, <2>2, InUp
<1> HIDE DEF st, m, n, up
<1>3. ASSUME NEW x \in Nat
      PROVE  x \in BitsOf(st) <=> x \in Xor(BitsOf(s), up)
  <2>1. CASE x < 8 * m
    <3>1. PICK k \in 1..m, i \in 0..7 : x = i + 8 * (k - 1)
      BY <1>1, <2>1, PositionIn
    <3>2. k \in 1..Len(st) /\ st[k] = s[k]
      BY <1>1
    <3>3. x \in BitsOf(st) <=> x \in BitsOf(s)
      BY <1>1, <3>1, <3>2, InBitsOf DEF m
    <3>4. x \notin up
      BY <1>1, <1>2, <2>1
    <3> QED
      BY <3>3, <3>4, InXor
  <2>2. CASE x >= 8 * m /\ x < 8 * (m + n)
    <3>1. x - 8 * m \in Nat /\ x - 8 * m < 8 * n
      BY <1>1, <2>2
    <3>2. PICK k \in 1..n, i \in 0..7 : x - 8 * m = i + 8 * (k - 1)
      BY <1>1, <3>1, PositionIn
    <3>3. m + k \in 1..Len(st) /\ x = i + 8 * ((m + k) - 1)
      BY <1>1, <3>2
    <3>4. x \in BitsOf(st) <=> i \in OctetOf[st[m + k]]
      BY <1>1, <3>3, InBitsOf
    <3>5. x - 8 * m \in BitsOf(t) <=> i \in OctetOf[t[k]]
      BY <3>2, InBitsOf DEF n
    <3>6. x \notin BitsOf(s)
      <4>1. ~(x < 8 * m)
        BY <1>1, <2>2
      <4> QED
        BY <4>1, InBitsOf DEF m
    <3> QED
      BY <1>1, <1>2, <2>2, <3>4, <3>5, <3>6, InXor
  <2>3. CASE x >= 8 * (m + n)
    <3>1. ~(x < 8 * Len(st)) /\ ~(x < 8 * m) /\ ~(x - 8 * m < 8 * n)
      BY <1>1, <2>3
    <3>2. x \notin BitsOf(st)
      BY <1>1, <3>1, InBitsOf
    <3>3. x \notin BitsOf(s) /\ x - 8 * m \notin BitsOf(t)
      BY <3>1, InBitsOf DEF m, n
    <3> QED
      BY <1>2, <3>2, <3>3, InXor
  <2> QED
    BY <1>1, <2>1, <2>2, <2>3
<1>4. Xor(BitsOf(s), up) \in Bits
  BY <1>2, XorBits
<1>5. BitsOf(st) = Xor(BitsOf(s), up)
  BY <1>2, <1>3, <1>4, SameBits
<1> QED
  BY <1>5 DEF st, up, m

LEMMA BitsOfOne ==
  ASSUME NEW b \in 0..255
  PROVE  BitsOf(<< b >>) = OctetOf[b]
<1>1. << b >> \in Bytes8 /\ Len(<< b >>) = 1 /\ << b >>[1] = b
  BY DEF Bytes8
<1>2. ASSUME NEW x \in Nat PROVE x \in BitsOf(<< b >>) <=> x \in OctetOf[b]
  <2>1. CASE x \in 0..7
    <3>1. x + 8 * (1 - 1) = x /\ 1 \in 1..Len(<< b >>)
      BY <1>1
    <3>2. x + 8 * (1 - 1) \in BitsOf(<< b >>) <=> x \in OctetOf[<< b >>[1]]
      BY <1>1, <2>1, <3>1, InBitsOf
    <3> QED
      BY <1>1, <3>1, <3>2
  <2>2. CASE x \notin 0..7
    <3>1. ~(x < 8 * 1)
      BY <2>2
    <3> QED
      BY <1>1, <2>2, <3>1, InBitsOf, OctetOfType DEF Octets
  <2> QED
    BY <2>1, <2>2
<1>3. BitsOf(<< b >>) \in Bits /\ OctetOf[b] \in Bits
  <2>1. \A i \in OctetOf[b] : i \in 0..7
    BY OctetOfType
  <2>2. OctetOf[b] \in Bits
    BY <2>1 DEF Bits
  <2> QED
    BY <1>1, <2>2, InBitsOf
<1> QED
  BY <1>2, <1>3, SameBits

-----------------------------------------------------------------------------
(* The register after a stream of bytes, of which the CRC is the           *)
(* complement.                                                             *)
Primed(s) == Xor(BitsOf(s), 0..31)

Register(s) == Divided(Primed(s), 8 * Len(s))

LEMMA PrimedType ==
  ASSUME NEW s \in Bytes8
  PROVE  /\ Primed(s) \in Bits /\ 8 * Len(s) \in Nat /\ Len(s) \in Nat
         /\ Primed(s) \in SUBSET (0..(8 * Len(s) + 31))
<1>1. Len(s) \in Nat /\ 8 * Len(s) \in Nat
  BY DEF Bytes8
<1>2. BitsOf(s) \in Bits /\ 0..31 \in Bits
  BY InBitsOf DEF Bits
<1>3. Primed(s) \in Bits
  BY <1>2, XorBits DEF Primed
<1>4. ASSUME NEW x \in Primed(s) PROVE x <= 8 * Len(s) + 31
  <2>1. x \in BitsOf(s) \/ x \in 0..31
    BY <1>4, InXor DEF Primed
  <2>2. CASE x \in BitsOf(s)
    <3>1. x \in Nat /\ x < 8 * Len(s)
      BY <1>2, <2>2, InBitsOf DEF Bits
    <3> QED
      BY <1>1, <3>1
  <2>3. CASE x \in 0..31
    BY <1>1, <2>3
  <2> QED
    BY <2>1, <2>2, <2>3
<1> QED
  BY <1>1, <1>3, <1>4 DEF Bits

LEMMA DividedDown ==
  ASSUME NEW n \in Nat, NEW w \in SUBSET (0..(n + 31))
  PROVE  Divided(w, n) \in Word
<1> DEFINE T == { k \in Nat :
                    k <= n => Divided(w, k) \in SUBSET (0..(n - k + 31)) }
<1>1. w \in Bits
  BY DEF Bits
<1>2. 0 \in T
  <2>1. n - 0 + 31 = n + 31
    OBVIOUS
  <2> QED
    BY <1>1, <2>1, DividedSteps
<1>3. ASSUME NEW k \in Nat, k \in T PROVE k + 1 \in T
  <2> SUFFICES ASSUME k + 1 <= n
               PROVE  Divided(w, k + 1) \in SUBSET (0..(n - (k + 1) + 31))
    OBVIOUS
  <2> DEFINE v == Divided(w, k)
             m == n - (k + 1) + 31
  <2>1. v \in SUBSET (0..(m + 1)) /\ m \in Nat /\ m >= 31
    BY <1>3
  <2>2. v \in Bits /\ Divided(w, k + 1) = Halved(v)
    BY <1>1, DividedSteps
  <2> HIDE DEF v, m
  <2>3. ASSUME NEW x \in ShiftRight(v, 1) PROVE x \in 0..m
    <3>1. x \in Nat /\ x + 1 \in v
      BY <2>2, <2>3, InShiftRight
    <3>2. x + 1 \in 0..(m + 1)
      BY <2>1, <3>1
    <3> QED
      BY <2>1, <3>1, <3>2
  <2>4. Polynomial \in SUBSET (0..m)
    <3>1. \A x \in 0..31 : x \in 0..m
      BY <2>1
    <3> QED
      BY <3>1, PolynomialBits DEF Word
  <2>5. Halved(v) \in SUBSET (0..m)
    BY <2>3, <2>4 DEF Halved, Xor
  <2> QED
    BY <2>2, <2>5 DEF m
<1> HIDE DEF T
<1>4. \A k \in Nat : k \in T
  BY <1>2, <1>3, Lemmas!NatInductionOn
<1>5. Divided(w, n) \in SUBSET (0..(n - n + 31))
  BY <1>4 DEF T
<1> QED
  BY <1>5 DEF Word

LEMMA RegisterType ==
  ASSUME NEW s \in Bytes8
  PROVE  Register(s) \in Word
BY PrimedType, DividedDown DEF Register

(* A stream goes on where it was left.                                     *)
LEMMA RegisterGoesOn ==
  ASSUME NEW s \in Bytes8, NEW t \in Bytes8
  PROVE  /\ Divided(Primed(s \o t), 8 * Len(s)) = Xor(Register(s), BitsOf(t))
         /\ Register(s \o t)
              = Divided(Xor(Register(s), BitsOf(t)), 8 * Len(t))
<1> DEFINE m == 8 * Len(s)
           n == 8 * Len(t)
<1>1. /\ m \in Nat /\ n \in Nat /\ 8 * Len(s \o t) = m + n
      /\ s \o t \in Bytes8
  BY DEF Bytes8
<1>2. BitsOf(t) \in Bits /\ Primed(s) \in Bits /\ Primed(s \o t) \in Bits
  BY <1>1, InBitsOf, PrimedType
<1>3. Primed(s \o t) = Xor(Primed(s), Up(BitsOf(t), m))
  BY BitsOfConcat, XorAssociative DEF Primed
<1>4. Divided(Primed(s \o t), m) = Xor(Register(s), BitsOf(t))
  BY <1>1, <1>2, <1>3, DividedParts DEF Register
<1>5. Register(s \o t) = Divided(Divided(Primed(s \o t), m), n)
  BY <1>1, <1>2, DividedTwice DEF Register
<1> QED
  BY <1>4, <1>5

-----------------------------------------------------------------------------
(* The division of the definition, from the highest exponent down, is that *)
(* of the register, from bit 0 up.                                         *)
Mirrored(degree, w) == { degree - t : t \in w }

LEMMA InMirrored ==
  ASSUME NEW degree \in Int, NEW w \in Bits
  PROVE  /\ Mirrored(degree, w) \in SUBSET Int
         /\ \A x \in Int : x \in Mirrored(degree, w) <=> degree - x \in w
<1>1. \A t \in w : t \in Int
  BY DEF Bits
<1>2. ASSUME NEW x \in Int
      PROVE  x \in Mirrored(degree, w) <=> degree - x \in w
  <2>1. ASSUME NEW t \in w, x = degree - t PROVE degree - x \in w
    <3>1. degree - x = t
      BY <1>1, <2>1
    <3> QED
      BY <3>1
  <2>2. ASSUME degree - x \in w PROVE x \in Mirrored(degree, w)
    <3>1. x = degree - (degree - x)
      OBVIOUS
    <3> QED
      BY <2>2, <3>1 DEF Mirrored
  <2> QED
    BY <2>1, <2>2 DEF Mirrored
<1> QED
  BY <1>1, <1>2 DEF Mirrored

LEMMA GeneratorIs ==
  ASSUME NEW t \in Int
  PROVE  32 - t \in Generator <=> t = 0 \/ t - 1 \in Polynomial
<1>1. 32 - t \in Generator <=>
        t \in { 0, 4, 5, 6, 7, 9, 10, 12, 13, 14, 18, 19, 21, 22, 23, 24,
               26, 32 }
  BY DEF Generator
<1>2. t - 1 \in Polynomial <=>
        t \in { 32, 26, 24, 23, 22, 21, 19, 18, 14, 13, 12, 10, 9, 7, 6, 5, 4 }
  BY DEF Polynomial
<1> QED
  BY <1>1, <1>2

LEMMA ReducedIsHalved ==
  ASSUME NEW degree \in Int, NEW w \in Bits
  PROVE  Reduced(degree, Mirrored(degree, w)) = Mirrored(degree - 1, Halved(w))
<1> DEFINE d == Mirrored(degree, w)
           g == { degree - 32 + e : e \in Generator }
<1>1. d \in SUBSET Int /\ \A x \in Int : x \in d <=> degree - x \in w
  BY InMirrored
<1>2. Halved(w) \in Bits /\ degree - 1 \in Int
  BY HalvedType
<1>3. /\ Mirrored(degree - 1, Halved(w)) \in SUBSET Int
      /\ \A x \in Int : x \in Mirrored(degree - 1, Halved(w))
                         <=> (degree - 1) - x \in Halved(w)
  BY <1>2, InMirrored
<1>4. /\ g \in SUBSET Int
      /\ \A x \in Int : x \in g <=>
           degree - x = 0 \/ (degree - 1) - x \in Polynomial
  <2>1. \A e \in Generator : e \in Int
    BY DEF Generator
  <2>2. ASSUME NEW x \in Int PROVE x \in g <=> 32 - (degree - x) \in Generator
    <3>1. ASSUME NEW e \in Generator, x = degree - 32 + e
          PROVE  32 - (degree - x) \in Generator
      <4>1. 32 - (degree - x) = e
        BY <2>1, <3>1
      <4> QED
        BY <4>1
    <3>2. x = degree - 32 + (32 - (degree - x))
      OBVIOUS
    <3> QED
      BY <3>1, <3>2
  <2>3. ASSUME NEW x \in Int
        PROVE  32 - (degree - x) \in Generator <=>
                 degree - x = 0 \/ (degree - 1) - x \in Polynomial
    <3>1. degree - x \in Int /\ (degree - x) - 1 = (degree - 1) - x
      OBVIOUS
    <3> QED
      BY <3>1, GeneratorIs
  <2>4. g \in SUBSET Int
    BY <2>1
  <2> HIDE DEF g
  <2> QED
    BY <2>2, <2>3, <2>4
<1>5. Reduced(degree, d) = IF degree \in d THEN Xor(d, g) ELSE d
  BY DEF Reduced
<1>6. degree \in d <=> 0 \in w
  BY <1>1
<1> HIDE DEF d, g
<1>7. Reduced(degree, d) \in SUBSET Int
  BY <1>1, <1>4, <1>5, XorType
<1>8. ASSUME NEW x \in Int
      PROVE  x \in Reduced(degree, d)
               <=> x \in Mirrored(degree - 1, Halved(w))
  <2> DEFINE y == (degree - 1) - x
  <2>1. y \in Int /\ degree - x = y + 1 /\ (degree - x = 0 <=> y = -1)
    OBVIOUS
  <2>2. y \in ShiftRight(w, 1) <=> y \in Nat /\ degree - x \in w
    BY <2>1, InShiftRight
  <2>3. ~(y \in Nat) /\ degree - x \in w => degree - x = 0 /\ 0 \in w
    <3>1. degree - x \in w => degree - x \in Nat
      BY DEF Bits
    <3> QED
      BY <2>1, <3>1
  <2>4. y \in Polynomial => y \in Nat
    BY PolynomialBits DEF Bits
  <2>5. y \in Nat => degree - x # 0
    BY <2>1
  <2>6. /\ x \in d <=> degree - x \in w
        /\ x \in g <=> degree - x = 0 \/ y \in Polynomial
        /\ x \in Mirrored(degree - 1, Halved(w)) <=> y \in Halved(w)
    BY <1>1, <1>3, <1>4
  <2> HIDE DEF y
  <2>7. CASE 0 \in w
    <3>1. y \in Halved(w) <=>
            \/ y \in ShiftRight(w, 1) /\ y \notin Polynomial
            \/ y \in Polynomial /\ y \notin ShiftRight(w, 1)
      BY <2>7, InXor DEF Halved
    <3>2. x \in Reduced(degree, d) <=> (x \in d /\ x \notin g)
                                       \/ (x \in g /\ x \notin d)
      BY <1>5, <1>6, <2>7, InXor
    <3>3. degree - x = 0 => degree - x \in w
      BY <2>7
    <3> QED
      BY <2>2, <2>3, <2>4, <2>5, <2>6, <3>1, <3>2, <3>3
  <2>8. CASE 0 \notin w
    BY <1>5, <1>6, <2>2, <2>3, <2>6, <2>8 DEF Halved
  <2> QED
    BY <2>7, <2>8
<1> QED
  BY <1>3, <1>7, <1>8 DEF d

LEMMA ReducedType ==
  ASSUME NEW degree \in Int, NEW v \in SUBSET Int
  PROVE  Reduced(degree, v) \in SUBSET Int
<1> DEFINE g == { degree - 32 + e : e \in Generator }
<1>1. g \in SUBSET Int
  BY DEF Generator
<1>2. Reduced(degree, v) = IF degree \in v THEN Xor(v, g) ELSE v
  BY DEF Reduced
<1> HIDE DEF g
<1> QED
  BY <1>1, <1>2, XorType

LEMMA ReducedOctetIs ==
  ASSUME NEW degree \in Int, NEW v \in SUBSET Int
  PROVE  /\ ReducedOctet(degree)[v] \in SUBSET Int
         /\ \A w \in Bits : v = Mirrored(degree, w) =>
              ReducedOctet(degree)[v] = Mirrored(degree - 8, Divided(w, 8))
<1> DEFINE F == [ k \in Nat |->
                    [ u \in SUBSET Int |-> Reduced(degree + 1 - k, u) ] ]
           G(g) == g = [ k \in Nat |->
                           IF k = 0 THEN v
                           ELSE Reduced(degree + 1 - k, g[k - 1]) ]
           after == CHOOSE g : G(g)
<1>1. PICK f : Lemmas!Iteration(SUBSET Int, v, F, f)
  <2>1. F \in [Nat -> [SUBSET Int -> SUBSET Int]]
    <3>1. ASSUME NEW k \in Nat, NEW u \in SUBSET Int
          PROVE  Reduced(degree + 1 - k, u) \in SUBSET Int
      <4>1. degree + 1 - k \in Int
        OBVIOUS
      <4> QED
        BY <4>1, ReducedType
    <3> QED
      BY <3>1
  <2> HIDE DEF F
  <2> QED
    BY <2>1, Lemmas!IterationExists
<1>2. G(f)
  <2>1. /\ f \in [Nat -> SUBSET Int]
        /\ \A k \in Nat : f[k] = IF k = 0 THEN v ELSE F[k][f[k - 1]]
    BY <1>1 DEF Lemmas!Iteration
  <2>2. ASSUME NEW k \in Nat
        PROVE  f[k] = IF k = 0 THEN v ELSE Reduced(degree + 1 - k, f[k - 1])
    <3>1. k # 0 => f[k - 1] \in SUBSET Int
      BY <2>1
    <3> QED
      BY <2>1, <3>1 DEF F
  <2>3. f = [ k \in Nat |-> f[k] ]
    BY <2>1
  <2> QED
    BY <2>2, <2>3
<1>3. G(after)
  BY <1>2
<1>4. ReducedOctet(degree)[v] = after[8]
  BY DEF ReducedOctet
<1> HIDE DEF after
<1>5. \A k \in Nat : after[k] = IF k = 0 THEN v
                                ELSE Reduced(degree + 1 - k, after[k - 1])
  BY <1>3
<1>6. ASSUME NEW n \in Nat
      PROVE  /\ n + 1 \in Nat /\ degree + 1 - (n + 1) = degree - n
             /\ degree - n \in Int /\ (degree - n) - 1 = degree - (n + 1)
             /\ after[n + 1] = Reduced(degree - n, after[n])
  <2>1. /\ n + 1 \in Nat /\ n + 1 # 0 /\ (n + 1) - 1 = n
        /\ degree + 1 - (n + 1) = degree - n
        /\ degree - n \in Int /\ (degree - n) - 1 = degree - (n + 1)
    OBVIOUS
  <2>2. after[n + 1] = Reduced(degree + 1 - (n + 1), after[(n + 1) - 1])
    BY <1>5, <2>1
  <2> QED
    BY <2>1, <2>2
<1>7. after[8] \in SUBSET Int
  <2> DEFINE T == { n \in Nat : after[n] \in SUBSET Int }
  <2>1. 0 \in T
    BY <1>5
  <2>2. \A n \in Nat : n \in T => n + 1 \in T
    BY <1>6, ReducedType
  <2> HIDE DEF T
  <2>3. \A n \in Nat : n \in T
    BY <2>1, <2>2, Lemmas!NatInductionOn
  <2> QED
    BY <2>3 DEF T
<1>8. ASSUME NEW w \in Bits, v = Mirrored(degree, w)
      PROVE  after[8] = Mirrored(degree - 8, Divided(w, 8))
  <2> DEFINE T == { n \in Nat :
                      after[n] = Mirrored(degree - n, Divided(w, n)) }
  <2>1. 0 \in T
    <3>1. degree - 0 = degree
      OBVIOUS
    <3> QED
      BY <1>5, <1>8, <3>1, DividedSteps
  <2>2. ASSUME NEW n \in Nat, n \in T PROVE n + 1 \in T
    <3>1. /\ Divided(w, n) \in Bits
          /\ Divided(w, n + 1) = Halved(Divided(w, n))
      BY DividedSteps
    <3>2. after[n] = Mirrored(degree - n, Divided(w, n))
      BY <2>2
    <3>3. after[n + 1] = Mirrored((degree - n) - 1, Halved(Divided(w, n)))
      BY <1>6, <3>1, <3>2, ReducedIsHalved
    <3> QED
      BY <1>6, <3>1, <3>3
  <2> HIDE DEF T
  <2>3. \A n \in Nat : n \in T
    BY <2>1, <2>2, Lemmas!NatInductionOn
  <2> QED
    BY <2>3 DEF T
<1> QED
  BY <1>4, <1>7, <1>8

LEMMA ReferenceIs ==
  ASSUME NEW s \in Bytes8
  PROVE  Reference(s) = Complement(Register(s))
<1> DEFINE n == Len(s)
           first == { 8 * n + 31 - t : t \in Primed(s) }
           F == [ k \in Nat |->
                    [ v \in SUBSET Int |->
                        ReducedOctet(8 * (n - k) + 39)[v] ] ]
           G(g) == g = [ k \in Nat |->
                           IF k = 0 THEN first
                           ELSE ReducedOctet(8 * (n - k) + 39)[g[k - 1]] ]
           rest == CHOOSE g : G(g)
<1>1. /\ n \in Nat /\ Primed(s) \in Bits
      /\ first = Mirrored(8 * n + 31, Primed(s)) /\ first \in SUBSET Int
  BY PrimedType, InMirrored DEF Mirrored
<1>2. Reference(s) = { i \in 0..31 : 31 - i \notin rest[n] }
  BY DEF Reference, Primed
<1> HIDE DEF n, first
<1>3. \E g : G(g)
  <2>1. F \in [Nat -> [SUBSET Int -> SUBSET Int]]
    <3>1. ASSUME NEW k \in Nat, NEW v \in SUBSET Int
          PROVE  ReducedOctet(8 * (n - k) + 39)[v] \in SUBSET Int
      <4>1. 8 * (n - k) + 39 \in Int
        BY <1>1
      <4> QED
        BY <4>1, ReducedOctetIs
    <3> QED
      BY <3>1
  <2> HIDE DEF F
  <2>2. PICK f : Lemmas!Iteration(SUBSET Int, first, F, f)
    BY <1>1, <2>1, Lemmas!IterationExists
  <2>3. /\ f \in [Nat -> SUBSET Int]
        /\ \A k \in Nat : f[k] = IF k = 0 THEN first ELSE F[k][f[k - 1]]
    BY <2>2 DEF Lemmas!Iteration
  <2>4. ASSUME NEW k \in Nat
        PROVE  f[k] = IF k = 0 THEN first
                      ELSE ReducedOctet(8 * (n - k) + 39)[f[k - 1]]
    <3>1. k # 0 => f[k - 1] \in SUBSET Int
      BY <2>3
    <3> QED
      BY <2>3, <3>1 DEF F
  <2>5. f = [ k \in Nat |-> f[k] ]
    BY <2>3
  <2> QED
    BY <2>4, <2>5
<1>4. G(rest)
  BY <1>3
<1> HIDE DEF rest
<1>5. \A k \in Nat : rest[k] = IF k = 0 THEN first
                               ELSE ReducedOctet(8 * (n - k) + 39)[rest[k - 1]]
  BY <1>4
<1> DEFINE T == { k \in Nat : rest[k] = Mirrored(8 * (n - k) + 31,
                                                 Divided(Primed(s), 8 * k)) }
<1>6. 0 \in T
  <2>1. 8 * (n - 0) + 31 = 8 * n + 31 /\ 8 * 0 = 0
    BY <1>1
  <2> QED
    BY <1>1, <1>5, <2>1, DividedSteps
<1>7. ASSUME NEW k \in Nat, k \in T PROVE k + 1 \in T
  <2> DEFINE degree == 8 * (n - k) + 31
             w == Divided(Primed(s), 8 * k)
  <2>1. /\ k + 1 \in Nat /\ k + 1 # 0 /\ (k + 1) - 1 = k
        /\ 8 * (n - (k + 1)) + 39 = degree /\ degree \in Int
        /\ 8 * (n - (k + 1)) + 31 = degree - 8
        /\ 8 * k \in Nat /\ 8 * k + 8 = 8 * (k + 1)
    BY <1>1
  <2>2. rest[k] = Mirrored(degree, w)
    BY <1>7
  <2>3. rest[k + 1] = ReducedOctet(degree)[rest[k]]
    BY <1>5, <2>1
  <2>4. w \in Bits /\ Divided(w, 8) = Divided(Primed(s), 8 * (k + 1))
    <3>1. Divided(w, 8) = Divided(Primed(s), 8 * k + 8)
      BY <1>1, <2>1, DividedTwice
    <3> QED
      BY <1>1, <2>1, <3>1, DividedSteps
  <2> HIDE DEF degree, w
  <2>5. rest[k] \in SUBSET Int
    <3>1. degree \in Int /\ w \in Bits
      BY <2>1, <2>4
    <3>2. Mirrored(degree, w) \in SUBSET Int
      BY <3>1, InMirrored
    <3> QED
      BY <2>2, <3>2
  <2>6. rest[k + 1] = Mirrored(degree - 8, Divided(w, 8))
    BY <2>1, <2>2, <2>3, <2>4, <2>5, ReducedOctetIs
  <2> QED
    BY <2>1, <2>4, <2>6
<1> HIDE DEF T
<1>8. \A k \in Nat : k \in T
  BY <1>6, <1>7, Lemmas!NatInductionOn
<1>9. rest[n] = Mirrored(31, Register(s))
  <2>1. 8 * (n - n) + 31 = 31
    BY <1>1
  <2>2. rest[n] = Mirrored(8 * (n - n) + 31, Divided(Primed(s), 8 * n))
    BY <1>1, <1>8 DEF T
  <2> QED
    BY <2>1, <2>2 DEF Register, n
<1>10. Register(s) \in Word /\ Register(s) \in Bits
  BY RegisterType DEF Word, Bits
<1>11. ASSUME NEW i \in 0..31
       PROVE  31 - i \notin rest[n] <=> i \notin Register(s)
  <2>1. 31 - i \in Int /\ 31 - (31 - i) = i
    OBVIOUS
  <2> QED
    BY <1>9, <1>10, <2>1, InMirrored
<1>12. \A i : i \in Complement(Register(s))
                <=> i \in 0..31 /\ i \notin Register(s)
  BY <1>10, InXor DEF Complement, Word
<1> QED
  BY <1>2, <1>11, <1>12

-----------------------------------------------------------------------------
(* Extend().  The inductive invariant: the register is that of the bytes   *)
(* that p has passed.                                                      *)
Prefix(n) == SubSeq(message, 1, n)

Counting ==
  /\ call.addr \in Nat /\ call.size \in Nat
  /\ done + call.size <= Len(message) /\ p <= call.size
  /\ l = Register(Prefix(done + p))

ExtendInv ==
  /\ message \in Bytes8 /\ build \in Builds
  /\ done \in 0..Len(message) /\ p \in Nat
  /\ crc \in Word /\ l \in Word
  /\ call = Idle => p = 0 /\ crc = Reference(Prefix(done))
  /\ call # Idle => Counting

LEMMA ComplementTwice ==
  ASSUME NEW w \in Word
  PROVE  /\ Complement(w) \in Word
         /\ Complement(Complement(w)) = w
<1>1. 0..31 \in Word
  BY DEF Word
<1>2. Complement(w) \in Word
  BY <1>1, XorWord DEF Complement
<1>3. Complement(Complement(w)) = w
  BY XorAssociative DEF Complement
<1> QED
  BY <1>2, <1>3

LEMMA EmptyReference == Reference(<< >>) = {} /\ Register(<< >>) = 0..31
<1>1. << >> \in Bytes8 /\ 8 * Len(<< >>) = 0
  BY DEF Bytes8
<1>2. BitsOf(<< >>) = {}
  <2>1. \A x : x \notin BitsOf(<< >>)
    BY <1>1, InBitsOf DEF Bits
  <2> QED
    BY <2>1
<1>3. Primed(<< >>) = 0..31
  <2>1. Xor({}, 0..31) = 0..31
    BY DEF Xor
  <2> QED
    BY <1>2, <2>1 DEF Primed
<1>4. Register(<< >>) = 0..31
  BY <1>1, <1>3, PrimedType, DividedSteps DEF Register
<1>5. Complement(0..31) = {}
  BY XorAssociative DEF Complement
<1> QED
  BY <1>1, <1>4, <1>5, ReferenceIs

LEMMA PrefixType ==
  ASSUME message \in Bytes8, NEW n \in 0..Len(message)
  PROVE  /\ Prefix(n) \in Bytes8 /\ Len(Prefix(n)) = n
         /\ \A k \in 1..n : Prefix(n)[k] = message[k]
<1>1. \A k \in 1..n : message[k] \in 0..255
  <2>1. \A k \in 1..n : k \in 1..Len(message)
    BY DEF Bytes8
  <2> QED
    BY <2>1, ElementOfSeq DEF Bytes8
<1>2. /\ 1 \in Int /\ n \in Int /\ n - 1 + 1 = n /\ (~(1 <= n) => n = 0)
      /\ \A k \in 1..n : 1 + k - 1 = k
  BY DEF Bytes8
<1>3. /\ SubSeq(message, 1, n) \in Seq(0..255)
      /\ Len(SubSeq(message, 1, n)) = IF 1 <= n THEN n - 1 + 1 ELSE 0
      /\ \A i \in 1..(n - 1 + 1) :
           SubSeq(message, 1, n)[i] = message[1 + i - 1]
  BY <1>1, <1>2, SubSeqProperties
<1>4. Len(SubSeq(message, 1, n)) = n
  BY <1>2, <1>3
<1>5. \A k \in 1..n : SubSeq(message, 1, n)[k] = message[k]
  BY <1>2, <1>3
<1> QED
  BY <1>3, <1>4, <1>5 DEF Prefix, Bytes8

(* The next n bytes.                                                       *)
Following(m, n) == SubSeq(message, m + 1, m + n)

LEMMA FollowingIs ==
  ASSUME message \in Bytes8, NEW m \in Nat, NEW n \in Nat,
         m + n <= Len(message)
  PROVE  /\ Following(m, n) \in Bytes8 /\ Len(Following(m, n)) = n
         /\ \A k \in 1..n : Following(m, n)[k] = message[m + k]
         /\ Prefix(m + n) = Prefix(m) \o Following(m, n)
<1>1. /\ Len(message) \in Nat /\ m + 1 \in Nat /\ m + n \in Nat
      /\ (m + n) - (m + 1) + 1 = n
      /\ \A k \in 1..n : (m + 1) + k - 1 = m + k
  BY DEF Bytes8
<1>2. /\ Following(m, n) \in Bytes8 /\ Len(Following(m, n)) = n
      /\ \A k \in 1..n : Following(m, n)[k] = message[m + k]
  <2>1. \A k \in (m + 1)..(m + n) : message[k] \in 0..255
    <3>1. \A k \in (m + 1)..(m + n) : k \in 1..Len(message)
      BY <1>1
    <3> QED
      BY <3>1, ElementOfSeq DEF Bytes8
  <2>2. /\ Following(m, n) \in Seq(0..255)
        /\ Len(Following(m, n)) = IF m + 1 <= m + n
                                  THEN (m + n) - (m + 1) + 1 ELSE 0
        /\ \A i \in 1..((m + n) - (m + 1) + 1) :
             Following(m, n)[i] = message[(m + 1) + i - 1]
    BY <1>1, <2>1, SubSeqProperties DEF Following
  <2>3. ~(m + 1 <= m + n) => n = 0
    OBVIOUS
  <2>4. Len(Following(m, n)) = n
    BY <1>1, <2>2, <2>3
  <2> QED
    BY <1>1, <2>2, <2>4 DEF Bytes8
<1>3. /\ Prefix(m) \in Bytes8 /\ Len(Prefix(m)) = m
      /\ \A k \in 1..m : Prefix(m)[k] = message[k]
  <2>1. m \in 0..Len(message)
    BY <1>1
  <2> QED
    BY <2>1, PrefixType
<1>4. /\ Prefix(m + n) \in Bytes8 /\ Len(Prefix(m + n)) = m + n
      /\ \A k \in 1..(m + n) : Prefix(m + n)[k] = message[k]
  <2>1. m + n \in 0..Len(message)
    BY <1>1
  <2> QED
    BY <2>1, PrefixType
<1> DEFINE both == Prefix(m) \o Following(m, n)
<1>5. /\ both \in Bytes8 /\ Len(both) = m + n
      /\ \A k \in 1..m : both[k] = Prefix(m)[k]
      /\ \A k \in 1..n : both[m + k] = Following(m, n)[k]
  <2> DEFINE u == Prefix(m)
             v == Following(m, n)
  <2>1. u \in Bytes8 /\ v \in Bytes8 /\ Len(u) = m /\ Len(v) = n
    BY <1>2, <1>3
  <2> HIDE DEF u, v
  <2>2. /\ u \o v \in Bytes8 /\ Len(u \o v) = Len(u) + Len(v)
        /\ \A k \in 1..Len(u) : (u \o v)[k] = u[k]
        /\ \A k \in 1..Len(v) : (u \o v)[Len(u) + k] = v[k]
    BY <2>1, ConcatIs
  <2>3. /\ u \o v \in Bytes8 /\ Len(u \o v) = m + n
        /\ \A k \in 1..m : (u \o v)[k] = u[k]
        /\ \A k \in 1..n : (u \o v)[m + k] = v[k]
    BY <2>1, <2>2
  <2> QED
    BY <2>3 DEF u, v
<1> HIDE DEF both
<1>6. ASSUME NEW k \in 1..(m + n) PROVE Prefix(m + n)[k] = both[k]
  <2>1. CASE k \in 1..m
    BY <1>3, <1>4, <1>5, <2>1
  <2>2. CASE k \notin 1..m
    <3>1. k - m \in 1..n /\ m + (k - m) = k
      BY <2>2
    <3> QED
      BY <1>2, <1>4, <1>5, <3>1
  <2> QED
    BY <2>1, <2>2
<1>7. Prefix(m + n) = both
  BY <1>4, <1>5, <1>6, SeqEqual DEF Bytes8
<1> QED
  BY <1>2, <1>7 DEF both

(* The register over the next bytes.                                       *)
LEMMA RegisterOfPrefix ==
  ASSUME message \in Bytes8, NEW m \in Nat, NEW n \in Nat,
         m + n <= Len(message)
  PROVE  /\ Register(Prefix(m)) \in Word
         /\ Register(Prefix(m + n))
              = Divided(Xor(Register(Prefix(m)), BitsOf(Following(m, n))),
                        8 * n)
<1>1. m \in 0..Len(message)
  BY DEF Bytes8
<1>2. Prefix(m) \in Bytes8
  BY <1>1, PrefixType
<1>3. /\ Following(m, n) \in Bytes8 /\ Len(Following(m, n)) = n
      /\ Prefix(m + n) = Prefix(m) \o Following(m, n)
  BY FollowingIs
<1>4. Register(Prefix(m) \o Following(m, n))
        = Divided(Xor(Register(Prefix(m)), BitsOf(Following(m, n))),
                  8 * Len(Following(m, n)))
  BY <1>2, <1>3, RegisterGoesOn
<1> QED
  BY <1>2, <1>3, <1>4, RegisterType

LEMMA LoadIs ==
  ASSUME message \in Bytes8, done \in Nat, NEW offset \in Nat,
         done + offset + 8 <= Len(message)
  PROVE  /\ Load(offset) = BitsOf(Following(done + offset, 8))
         /\ Load(offset) \in SUBSET (0..63)
<1> DEFINE m == done + offset
           next == Following(m, 8)
           bytes == [ k \in 1..8 |-> At(offset + k - 1) ]
<1>1. m \in Nat /\ Len(message) \in Nat /\ m + 8 <= Len(message)
  BY DEF Bytes8
<1>2. /\ next \in Bytes8 /\ Len(next) = 8
      /\ \A k \in 1..8 : next[k] = message[m + k]
  BY <1>1, FollowingIs
<1>3. ASSUME NEW k \in 1..8 PROVE At(offset + k - 1) = message[m + k]
  <2>1. /\ done + (offset + k - 1) < Len(message)
        /\ done + (offset + k - 1) + 1 = m + k
    BY <1>1
  <2> QED
    BY <2>1 DEF At
<1> HIDE DEF next, m
<1>4. next = [ k \in 1..8 |-> next[k] ]
  BY <1>2 DEF Bytes8
<1>5. bytes = next
  BY <1>2, <1>3, <1>4
<1> HIDE DEF bytes
<1>6. Load(offset) = BitsOf(next)
  BY <1>5 DEF Load, bytes
<1>7. BitsOf(next) \in SUBSET (0..63)
  <2>1. ASSUME NEW x \in BitsOf(next) PROVE x \in 0..63
    <3>1. x \in Nat /\ x < 8 * 8
      BY <1>2, InBitsOf DEF Bits
    <3> QED
      BY <3>1
  <2> QED
    BY <2>1
<1> QED
  BY <1>6, <1>7 DEF next, m

LEMMA EightBytesDivide ==
  ASSUME message \in Bytes8, build \in Builds, done \in Nat,
         NEW offset \in Nat, done + offset + 8 <= Len(message)
  PROVE  Crc32(Register(Prefix(done + offset)), Load(offset))
           = Register(Prefix(done + offset + 8))
<1>1. build \in {"slow", "sse42_64", "sse42_32"}
  BY Crc32cAssumption
<1>2. done + offset \in Nat /\ 8 * 8 = 64
  OBVIOUS
<1>3. /\ Register(Prefix(done + offset)) \in Word
      /\ Register(Prefix(done + offset + 8))
           = Divided(Xor(Register(Prefix(done + offset)),
                         BitsOf(Following(done + offset, 8))), 8 * 8)
  BY <1>2, RegisterOfPrefix
<1> QED
  BY <1>1, <1>2, <1>3, LoadIs, Crc32Divides

LEMMA OneByteGoesOn ==
  ASSUME ExtendInv, call # Idle, p < call.size, OneByte
  PROVE  p' = p + 1 /\ l' = Register(Prefix(done + p + 1))
<1> USE DEF ExtendInv, Counting
<1> DEFINE m == done + p
           b == message[m + 1]
<1>1. /\ m \in Nat /\ m + 1 <= Len(message) /\ Len(message) \in Nat
      /\ m < Len(message)
  BY DEF Bytes8
<1>2. At(p) = b /\ b \in 0..255
  <2>1. m + 1 \in 1..Len(message)
    BY <1>1
  <2>2. b \in 0..255
    BY <2>1, ElementOfSeq DEF Bytes8
  <2> QED
    BY <1>1, <2>2 DEF At
<1>3. Following(m, 1) = << b >>
  <2>1. /\ Following(m, 1) \in Bytes8 /\ Len(Following(m, 1)) = 1
        /\ \A k \in 1..1 : Following(m, 1)[k] = message[m + k]
    BY <1>1, FollowingIs
  <2>2. 1 \in 1..1
    OBVIOUS
  <2>3. Following(m, 1)[1] = b
    BY <2>1, <2>2
  <2> HIDE DEF m, b
  <2> QED
    BY <2>1, <2>3 DEF Bytes8
<1> HIDE DEF b, m
<1>4. l = Register(Prefix(m)) /\ l \in Word
  BY DEF m
<1>5. Register(Prefix(m + 1)) = Divided(Xor(l, OctetOf[b]), 8)
  <2>1. Register(Prefix(m + 1))
          = Divided(Xor(Register(Prefix(m)), BitsOf(Following(m, 1))), 8 * 1)
    BY <1>1, RegisterOfPrefix
  <2>2. 8 * 1 = 8
    OBVIOUS
  <2> QED
    BY <1>2, <1>3, <1>4, <2>1, <2>2, BitsOfOne
<1>6. Xor(Table0[Xor(Octet(l, 0), OctetOf[b])], ShiftRight(l, 8))
        = Divided(Xor(l, OctetOf[b]), 8)
  BY <1>2, <1>4, OctetOfType, OneByteDivides
<1>7. /\ p' = p + 1
      /\ l' = Xor(Table0[Xor(Octet(l, 0), OctetOf[b])], ShiftRight(l, 8))
  BY <1>2 DEF OneByte, Advance
<1> QED
  BY <1>5, <1>6, <1>7 DEF m

LEMMA ExtendBegins ==
  ASSUME ExtendInv, NEW addr \in Nat, NEW size \in Nat,
         ExtendBegin(addr, size)
  PROVE  ExtendInv'
<1>1. /\ call = Idle /\ done + size <= Len(message)
      /\ call' = [addr |-> addr, size |-> size]
      /\ p' = 0 /\ l' = Complement(crc)
      /\ message' = message /\ build' = build /\ done' = done /\ crc' = crc
  BY DEF ExtendBegin
<1>2. call'.addr = addr /\ call'.size = size /\ call' # Idle
  <2>1. call'.addr = addr /\ call'.size = size
    BY <1>1
  <2>2. size # -1 /\ Idle.size = -1
    BY DEF Idle
  <2> QED
    BY <2>1, <2>2
<1>3. done \in Nat /\ Prefix(done) \in Bytes8
  <2>1. done \in 0..Len(message) /\ Len(message) \in Nat
    BY DEF ExtendInv, Bytes8
  <2> QED
    BY <2>1, PrefixType DEF ExtendInv
<1>4. l' = Register(Prefix(done)) /\ l' \in Word
  <2>1. Reference(Prefix(done)) = Complement(Register(Prefix(done)))
    BY <1>3, ReferenceIs
  <2>2. Register(Prefix(done)) \in Word
    BY <1>3, RegisterType
  <2>3. crc = Reference(Prefix(done))
    BY <1>1 DEF ExtendInv
  <2> QED
    BY <1>1, <2>1, <2>2, <2>3, ComplementTwice
<1>5. (done + p)' = done
  BY <1>1, <1>3
<1>6. Counting'
  <2>1. (l = Register(Prefix(done + p)))'
    BY <1>1, <1>4, <1>5 DEF Prefix
  <2> QED
    BY <1>1, <1>2, <2>1 DEF Counting
<1> QED
  BY <1>1, <1>2, <1>4, <1>6 DEF ExtendInv

(* Between the rounds p is where the code says, and l is the register.     *)
LEMMA Advances ==
  ASSUME ExtendInv, call # Idle, NEW n \in Nat, NEW w, Advance(n, w),
         p + n <= call.size, w = Register(Prefix(done + p + n))
  PROVE  ExtendInv'
<1>1. /\ p' = p + n /\ l' = w
      /\ message' = message /\ build' = build /\ done' = done
      /\ crc' = crc /\ call' = call
  BY DEF Advance
<1>2. /\ done \in Nat /\ p \in Nat /\ Len(message) \in Nat
      /\ Counting /\ message \in Bytes8
  BY DEF ExtendInv, Bytes8
<1>3. done + p + n \in 0..Len(message) /\ (done + p)' = done + p + n
  BY <1>1, <1>2 DEF Counting
<1>4. w \in Word
  BY <1>2, <1>3, PrefixType, RegisterType
<1>5. (l = Register(Prefix(done + p)))'
  BY <1>1, <1>3 DEF Prefix
<1>6. Counting'
  BY <1>1, <1>2, <1>3, <1>5 DEF Counting
<1>7. p' \in Nat
  BY <1>1, <1>2
<1> QED
  BY <1>1, <1>4, <1>6, <1>7 DEF ExtendInv

LEMMA ExtendSteps ==
  ASSUME ExtendInv, ExtendStep
  PROVE  ExtendInv'
<1>1. call # Idle
  BY DEF ExtendStep, AlignStep, SixteenBytes, EightBytes, LastByte, Return
<1>2. /\ done \in Nat /\ p \in Nat /\ Len(message) \in Nat
      /\ message \in Bytes8 /\ build \in Builds /\ Counting
      /\ call.addr \in Nat /\ call.size \in Nat
      /\ done + call.size <= Len(message) /\ p <= call.size
      /\ l = Register(Prefix(done + p))
  BY <1>1 DEF ExtendInv, Bytes8, Counting
<1>3. ASSUME p < call.size, OneByte PROVE ExtendInv'
  <2> DEFINE w == Xor(Table0[Xor(Octet(l, 0), OctetOf[At(p)])],
                      ShiftRight(l, 8))
  <2>1. Advance(1, w)
    BY <1>3 DEF OneByte
  <2>2. l' = w
    BY <2>1 DEF Advance
  <2>3. w = Register(Prefix(done + p + 1))
    BY <1>1, <1>3, <2>2, OneByteGoesOn
  <2>4. p + 1 <= call.size
    BY <1>2, <1>3
  <2> HIDE DEF w
  <2> QED
    BY <1>1, <2>1, <2>3, <2>4, Advances
<1>4. CASE AlignStep
  <2>1. X \in Int
    BY <1>2 DEF X
  <2>2. p < call.size
    BY <1>2, <1>4, <2>1 DEF AlignStep, Aligning
  <2> QED
    BY <1>3, <1>4, <2>2 DEF AlignStep
<1>5. CASE LastByte
  <2>1. p < call.size
    BY <1>2, <1>5 DEF LastByte, Left
  <2> QED
    BY <1>3, <1>5, <2>1 DEF LastByte
<1>6. CASE EightBytes
  <2>1. p + 8 <= call.size
    BY <1>2, <1>6 DEF EightBytes, Left
  <2>2. done + p + 8 <= Len(message)
    BY <1>2, <2>1
  <2>3. Crc32(l, Load(p)) = Register(Prefix(done + p + 8))
    BY <1>2, <2>2, EightBytesDivide
  <2>4. Advance(8, Crc32(l, Load(p)))
    BY <1>6 DEF EightBytes
  <2> QED
    BY <1>1, <2>1, <2>3, <2>4, Advances
<1>7. CASE SixteenBytes
  <2>1. p + 16 <= call.size
    BY <1>2, <1>7 DEF SixteenBytes, Left
  <2>2. /\ done + p + 8 <= Len(message) /\ p + 8 \in Nat
        /\ done + (p + 8) + 8 <= Len(message)
        /\ done + (p + 8) = done + p + 8
        /\ done + (p + 8) + 8 = done + p + 16
    BY <1>2, <2>1
  <2>3. Crc32(l, Load(p)) = Register(Prefix(done + p + 8))
    BY <1>2, <2>2, EightBytesDivide
  <2>4. Crc32(Register(Prefix(done + (p + 8))), Load(p + 8))
          = Register(Prefix(done + (p + 8) + 8))
    BY <1>2, <2>2, EightBytesDivide
  <2>5. Crc32(Crc32(l, Load(p)), Load(p + 8))
          = Register(Prefix(done + p + 16))
    BY <2>2, <2>3, <2>4
  <2>6. Advance(16, Crc32(Crc32(l, Load(p)), Load(p + 8)))
    BY <1>7 DEF SixteenBytes
  <2> QED
    BY <1>1, <2>1, <2>5, <2>6, Advances
<1>8. CASE Return
  <2>1. /\ crc' = Complement(l) /\ done' = done + call.size
        /\ call' = Idle /\ p' = 0 /\ l' = {}
        /\ message' = message /\ build' = build
    BY <1>8 DEF Return
  <2>2. p = call.size
    BY <1>2, <1>8 DEF Return, Left
  <2>3. done' \in 0..Len(message)
    BY <1>2, <2>1
  <2>4. Prefix(done') \in Bytes8
    BY <1>2, <2>3, PrefixType
  <2>5. crc' = Reference(Prefix(done')) /\ crc' \in Word
    <3>1. Reference(Prefix(done')) = Complement(Register(Prefix(done')))
      BY <2>4, ReferenceIs
    <3>2. l = Register(Prefix(done')) /\ l \in Word
      BY <1>2, <2>1, <2>2 DEF ExtendInv
    <3> QED
      BY <2>1, <3>1, <3>2, ComplementTwice
  <2>6. (crc = Reference(Prefix(done)))'
    BY <2>1, <2>5 DEF Prefix
  <2>7. l' \in Word /\ p' \in Nat
    BY <2>1 DEF Word
  <2>8. message' \in Bytes8 /\ build' \in Builds /\ (done \in 0..Len(message))'
    BY <1>2, <2>1, <2>3
  <2> QED
    BY <2>1, <2>5, <2>6, <2>7, <2>8 DEF ExtendInv
<1> QED
  BY <1>4, <1>5, <1>6, <1>7, <1>8 DEF ExtendStep

-----------------------------------------------------------------------------
(* Bytes and their bits, and words as they are stored.                     *)
LEMMA ByteOfOctet ==
  ASSUME NEW o \in Octets
  PROVE  ByteOf(o) \in 0..255 /\ OctetOf[ByteOf(o)] = o
<1> DEFINE c(i) == IF i \in o THEN 1 ELSE 0
           b == ByteOf(o)
<1>1. \A i : c(i) \in 0..1 /\ (c(i) = 1 <=> i \in o)
  OBVIOUS
<1>2. b = c(0) + 2 * c(1) + 4 * c(2) + 8 * c(3) + 16 * c(4) + 32 * c(5)
            + 64 * c(6) + 128 * c(7)
  BY DEF ByteOf
<1> HIDE DEF c, b
<1>3. b \in 0..255
  BY <1>1, <1>2
<1>4. /\ (b \div (2 ^ 0)) % 2 = c(0) /\ (b \div (2 ^ 1)) % 2 = c(1)
      /\ (b \div (2 ^ 2)) % 2 = c(2) /\ (b \div (2 ^ 3)) % 2 = c(3)
      /\ (b \div (2 ^ 4)) % 2 = c(4) /\ (b \div (2 ^ 5)) % 2 = c(5)
      /\ (b \div (2 ^ 6)) % 2 = c(6) /\ (b \div (2 ^ 7)) % 2 = c(7)
  <2>1. (b \div (2 ^ 0)) % 2 = c(0)
    BY <1>1, <1>2
  <2>2. (b \div (2 ^ 1)) % 2 = c(1)
    BY <1>1, <1>2
  <2>3. (b \div (2 ^ 2)) % 2 = c(2)
    BY <1>1, <1>2
  <2>4. (b \div (2 ^ 3)) % 2 = c(3)
    BY <1>1, <1>2
  <2>5. (b \div (2 ^ 4)) % 2 = c(4)
    BY <1>1, <1>2
  <2>6. (b \div (2 ^ 5)) % 2 = c(5)
    BY <1>1, <1>2
  <2>7. (b \div (2 ^ 6)) % 2 = c(6)
    BY <1>1, <1>2
  <2>8. (b \div (2 ^ 7)) % 2 = c(7)
    BY <1>1, <1>2
  <2> QED
    BY <2>1, <2>2, <2>3, <2>4, <2>5, <2>6, <2>7, <2>8
<1>5. \A i \in 0..7 : (b \div (2 ^ i)) % 2 = 1 <=> i \in o
  <2>1. \A i \in 0..7 : i = 0 \/ i = 1 \/ i = 2 \/ i = 3 \/ i = 4 \/ i = 5
                        \/ i = 6 \/ i = 7
    OBVIOUS
  <2> QED
    BY <1>1, <1>4, <2>1
<1>6. OctetOf[b] = { i \in 0..7 : (b \div (2 ^ i)) % 2 = 1 }
  BY <1>3 DEF OctetOf
<1>7. \A i : i \in OctetOf[b] <=> i \in o
  BY <1>5, <1>6 DEF Octets
<1>8. OctetOf[b] = o
  BY <1>7
<1> QED
  BY <1>3, <1>8 DEF b

LEMMA SameOctets ==
  ASSUME NEW b \in 0..255, NEW c \in 0..255, OctetOf[b] = OctetOf[c]
  PROVE  b = c
<1>1. \A i \in 0..7 : (b \div (2 ^ i)) % 2 = 1 <=> (c \div (2 ^ i)) % 2 = 1
  BY DEF OctetOf
<1>2. /\ (b \div (2 ^ 0)) % 2 = (c \div (2 ^ 0)) % 2
      /\ (b \div (2 ^ 1)) % 2 = (c \div (2 ^ 1)) % 2
      /\ (b \div (2 ^ 2)) % 2 = (c \div (2 ^ 2)) % 2
      /\ (b \div (2 ^ 3)) % 2 = (c \div (2 ^ 3)) % 2
      /\ (b \div (2 ^ 4)) % 2 = (c \div (2 ^ 4)) % 2
      /\ (b \div (2 ^ 5)) % 2 = (c \div (2 ^ 5)) % 2
      /\ (b \div (2 ^ 6)) % 2 = (c \div (2 ^ 6)) % 2
      /\ (b \div (2 ^ 7)) % 2 = (c \div (2 ^ 7)) % 2
  <2>1. \A x, y \in Int : (x % 2 = 1 <=> y % 2 = 1) => x % 2 = y % 2
    OBVIOUS
  <2> DEFINE B(i) == b \div (2 ^ i)
             C(i) == c \div (2 ^ i)
  <2>2. /\ B(0) \in Int /\ B(1) \in Int /\ B(2) \in Int /\ B(3) \in Int
        /\ B(4) \in Int /\ B(5) \in Int /\ B(6) \in Int /\ B(7) \in Int
        /\ C(0) \in Int /\ C(1) \in Int /\ C(2) \in Int /\ C(3) \in Int
        /\ C(4) \in Int /\ C(5) \in Int /\ C(6) \in Int /\ C(7) \in Int
    OBVIOUS
  <2>3. \A i \in 0..7 : B(i) % 2 = 1 <=> C(i) % 2 = 1
    BY <1>1
  <2>4. /\ 0 \in 0..7 /\ 1 \in 0..7 /\ 2 \in 0..7 /\ 3 \in 0..7
        /\ 4 \in 0..7 /\ 5 \in 0..7 /\ 6 \in 0..7 /\ 7 \in 0..7
    OBVIOUS
  <2> HIDE DEF B, C
  <2>5. /\ B(0) % 2 = C(0) % 2 /\ B(1) % 2 = C(1) % 2
        /\ B(2) % 2 = C(2) % 2 /\ B(3) % 2 = C(3) % 2
        /\ B(4) % 2 = C(4) % 2 /\ B(5) % 2 = C(5) % 2
        /\ B(6) % 2 = C(6) % 2 /\ B(7) % 2 = C(7) % 2
    BY <2>1, <2>2, <2>3, <2>4
  <2> QED
    BY <2>5 DEF B, C
<1>3. \A a \in 0..255 :
        a = ((a \div (2 ^ 0)) % 2) + 2 * ((a \div (2 ^ 1)) % 2)
              + 4 * ((a \div (2 ^ 2)) % 2) + 8 * ((a \div (2 ^ 3)) % 2)
              + 16 * ((a \div (2 ^ 4)) % 2) + 32 * ((a \div (2 ^ 5)) % 2)
              + 64 * ((a \div (2 ^ 6)) % 2) + 128 * ((a \div (2 ^ 7)) % 2)
  OBVIOUS
<1> QED
  BY <1>2, <1>3

(* Bytes are known by their bits.                                          *)
LEMMA SameBytes ==
  ASSUME NEW s \in Bytes8, NEW t \in Bytes8,
         Len(s) = Len(t), BitsOf(s) = BitsOf(t)
  PROVE  s = t
<1>1. ASSUME NEW k \in 1..Len(s) PROVE s[k] = t[k]
  <2>1. s[k] \in 0..255 /\ t[k] \in 0..255
    BY ElementOfSeq DEF Bytes8
  <2>2. \A i \in 0..7 : i \in OctetOf[s[k]] <=> i \in OctetOf[t[k]]
    BY InBitsOf
  <2>3. OctetOf[s[k]] \in Octets /\ OctetOf[t[k]] \in Octets
    BY <2>1, OctetOfType
  <2>4. OctetOf[s[k]] = OctetOf[t[k]]
    BY <2>2, <2>3 DEF Octets
  <2> QED
    BY <2>1, <2>4, SameOctets
<1> QED
  BY <1>1, SeqEqual DEF Bytes8

LEMMA StoredIs ==
  ASSUME NEW w \in Word
  PROVE  /\ Stored(w) \in Bytes8 /\ Len(Stored(w)) = 4
         /\ BitsOf(Stored(w)) = w
         /\ P!WordBytes(w) = Stored(w)
<1> DEFINE s == Stored(w)
<1>1. w \in Bits
  BY DEF Word, Bits
<1>2. ASSUME NEW k \in 1..4
      PROVE  s[k] \in 0..255 /\ OctetOf[s[k]] = Octet(w, k - 1)
  <2>1. s[k] = ByteOf(Octet(w, k - 1))
    BY DEF Stored
  <2>2. Octet(w, k - 1) \in Octets
    BY <1>1, OctetsAre
  <2> QED
    BY <2>1, <2>2, ByteOfOctet
<1>3. s \in Bytes8 /\ Len(s) = 4
  <2>1. s = [ k \in 1..4 |-> s[k] ]
    BY DEF Stored
  <2> HIDE DEF s
  <2> QED
    BY <1>2, <2>1 DEF Bytes8
<1>4. P!WordBytes(w) = s
  <2>1. ASSUME NEW n \in {0, 1, 2, 3}
        PROVE  ByteOf(Octet(w, n)) =
                 LET Bit(k) == IF k \in w THEN 1 ELSE 0
                 IN  Bit(8 * n) + 2 * Bit(8 * n + 1) + 4 * Bit(8 * n + 2)
                       + 8 * Bit(8 * n + 3) + 16 * Bit(8 * n + 4)
                       + 32 * Bit(8 * n + 5) + 64 * Bit(8 * n + 6)
                       + 128 * Bit(8 * n + 7)
    <3>1. /\ 0 \in Octet(w, n) <=> 8 * n \in w
          /\ 1 \in Octet(w, n) <=> 8 * n + 1 \in w
          /\ 2 \in Octet(w, n) <=> 8 * n + 2 \in w
          /\ 3 \in Octet(w, n) <=> 8 * n + 3 \in w
          /\ 4 \in Octet(w, n) <=> 8 * n + 4 \in w
          /\ 5 \in Octet(w, n) <=> 8 * n + 5 \in w
          /\ 6 \in Octet(w, n) <=> 8 * n + 6 \in w
          /\ 7 \in Octet(w, n) <=> 8 * n + 7 \in w
      BY DEF Octet
    <3> DEFINE o == Octet(w, n)
    <3> HIDE DEF o
    <3>2. ByteOf(o) = (IF 0 \in o THEN 1 ELSE 0) + (IF 1 \in o THEN 2 ELSE 0)
            + (IF 2 \in o THEN 4 ELSE 0) + (IF 3 \in o THEN 8 ELSE 0)
            + (IF 4 \in o THEN 16 ELSE 0) + (IF 5 \in o THEN 32 ELSE 0)
            + (IF 6 \in o THEN 64 ELSE 0) + (IF 7 \in o THEN 128 ELSE 0)
      BY DEF ByteOf
    <3> QED
      BY <3>1, <3>2 DEF o
  <2>2. P!WordBytes(w) = << ByteOf(Octet(w, 0)), ByteOf(Octet(w, 1)),
                            ByteOf(Octet(w, 2)), ByteOf(Octet(w, 3)) >>
    BY <2>1 DEF P!WordBytes
  <2>3. /\ s[1] = ByteOf(Octet(w, 0)) /\ s[2] = ByteOf(Octet(w, 1))
        /\ s[3] = ByteOf(Octet(w, 2)) /\ s[4] = ByteOf(Octet(w, 3))
    BY DEF Stored
  <2> HIDE DEF s
  <2>4. s = << s[1], s[2], s[3], s[4] >>
    BY <1>3 DEF Bytes8
  <2> QED
    BY <2>2, <2>3, <2>4
<1>5. BitsOf(s) = w
  <2>1. ASSUME NEW x \in Nat PROVE x \in BitsOf(s) <=> x \in w
    <3>1. CASE x < 8 * 4
      <4>1. PICK k \in 1..4, i \in 0..7 : x = i + 8 * (k - 1)
        BY <3>1, PositionIn
      <4>2. x \in BitsOf(s) <=> i \in OctetOf[s[k]]
        BY <1>3, <4>1, InBitsOf
      <4>3. i \in Octet(w, k - 1) <=> x \in w
        BY <4>1 DEF Octet
      <4> QED
        BY <1>2, <4>2, <4>3
    <3>2. CASE ~(x < 8 * 4)
      <4>1. x \notin w
        BY <3>2 DEF Word
      <4> QED
        BY <1>3, <3>2, <4>1, InBitsOf
    <3> QED
      BY <3>1, <3>2
  <2>2. BitsOf(s) \in Bits
    BY <1>3, InBitsOf
  <2> QED
    BY <1>1, <2>1, <2>2, SameBits
<1> QED
  BY <1>3, <1>4, <1>5

-----------------------------------------------------------------------------
(* The verdict.  A page is accepted if dividing all but its last 32 bits   *)
(* leaves 32 ones there.                                                   *)
Body(q) == SubSeq(q, 1, Len(q) - 4)
Sum(q)  == SubSeq(q, Len(q) - 3, Len(q))

LEMMA InTwo ==
  ASSUME NEW q \in Bytes8, Len(q) >= 4
  PROVE  /\ Body(q) \in Bytes8 /\ Len(Body(q)) = Len(q) - 4
         /\ Sum(q) \in Bytes8 /\ Len(Sum(q)) = 4
         /\ q = Body(q) \o Sum(q)
<1> DEFINE n == Len(q) - 4
<1>1. Len(q) \in Nat /\ n \in Nat /\ n + 4 = Len(q)
  BY DEF Bytes8
<1>2. \A k \in 1..Len(q) : q[k] \in 0..255
  BY ElementOfSeq DEF Bytes8
<1>3. /\ Body(q) \in Bytes8 /\ Len(Body(q)) = n
      /\ \A k \in 1..n : Body(q)[k] = q[k]
  <2>1. \A k \in 1..n : q[k] \in 0..255
    BY <1>1, <1>2
  <2>2. /\ Body(q) \in Seq(0..255)
        /\ Len(Body(q)) = IF 1 <= n THEN n - 1 + 1 ELSE 0
        /\ \A i \in 1..(n - 1 + 1) : Body(q)[i] = q[1 + i - 1]
    BY <1>1, <2>1, SubSeqProperties DEF Body
  <2>3. ~(1 <= n) => n = 0
    BY <1>1
  <2>4. n - 1 + 1 = n /\ \A i \in 1..n : 1 + i - 1 = i
    BY <1>1
  <2> QED
    BY <2>2, <2>3, <2>4 DEF Bytes8
<1>4. /\ Sum(q) \in Bytes8 /\ Len(Sum(q)) = 4
      /\ \A k \in 1..4 : Sum(q)[k] = q[n + k]
  <2> DEFINE a == Len(q) - 3
  <2>0. a \in Int /\ Len(q) \in Int
    BY <1>1
  <2>1. \A k \in a..Len(q) : q[k] \in 0..255
    BY <1>1, <1>2
  <2>2. Sum(q) = SubSeq(q, a, Len(q))
    BY DEF Sum
  <2>3. /\ a <= Len(q) /\ Len(q) - a + 1 = 4
        /\ \A i \in 1..4 : a + i - 1 = n + i
    BY <1>1
  <2> HIDE DEF a
  <2>4. /\ Sum(q) \in Seq(0..255)
        /\ Len(Sum(q)) = IF a <= Len(q) THEN Len(q) - a + 1 ELSE 0
        /\ \A i \in 1..(Len(q) - a + 1) : Sum(q)[i] = q[a + i - 1]
    BY <2>0, <2>1, <2>2, SubSeqProperties
  <2> QED
    BY <2>3, <2>4 DEF Bytes8
<1> DEFINE both == Body(q) \o Sum(q)
<1>5. /\ both \in Bytes8 /\ Len(both) = Len(q)
      /\ \A k \in 1..n : both[k] = q[k]
      /\ \A k \in 1..4 : both[n + k] = q[n + k]
  <2> DEFINE u == Body(q)
             v == Sum(q)
  <2>1. /\ u \in Bytes8 /\ v \in Bytes8 /\ Len(u) = n /\ Len(v) = 4
        /\ \A k \in 1..n : u[k] = q[k]
        /\ \A k \in 1..4 : v[k] = q[n + k]
    BY <1>3, <1>4
  <2> HIDE DEF u, v
  <2>2. /\ u \o v \in Bytes8 /\ Len(u \o v) = Len(u) + Len(v)
        /\ \A k \in 1..Len(u) : (u \o v)[k] = u[k]
        /\ \A k \in 1..Len(v) : (u \o v)[Len(u) + k] = v[k]
    BY <2>1, ConcatIs
  <2>3. /\ u \o v \in Bytes8 /\ Len(u \o v) = n + 4
        /\ \A k \in 1..n : (u \o v)[k] = q[k]
        /\ \A k \in 1..4 : (u \o v)[n + k] = q[n + k]
    BY <2>1, <2>2
  <2> QED
    BY <1>1, <2>3 DEF u, v
<1> HIDE DEF both
<1>6. ASSUME NEW k \in 1..Len(q) PROVE q[k] = both[k]
  <2>1. CASE k \in 1..n
    BY <1>5, <2>1
  <2>2. CASE k \notin 1..n
    <3>1. k - n \in 1..4 /\ n + (k - n) = k
      BY <1>1, <2>2
    <3> QED
      BY <1>5, <3>1
  <2> QED
    BY <2>1, <2>2
<1>7. q = both
  BY <1>5, <1>6, SeqEqual DEF Bytes8
<1> QED
  BY <1>3, <1>4, <1>7 DEF both

LEMMA VerdictIs ==
  ASSUME NEW q \in Bytes8, Len(q) >= 5
  PROVE  /\ P!CheckCRC32C(q) <=> Reference(Body(q)) = BitsOf(Sum(q))
         /\ P!CheckCRC32C(q)
              <=> Divided(Primed(q), 8 * (Len(q) - 4)) = 0..31
<1> DEFINE s == Body(q)
           t == Sum(q)
           R == Register(s)
<1>1. Len(q) \in Nat
  BY DEF Bytes8
<1>2. /\ s \in Bytes8 /\ Len(s) = Len(q) - 4
      /\ t \in Bytes8 /\ Len(t) = 4 /\ q = s \o t
  BY <1>1, InTwo
<1>3. P!CheckCRC32C(q) <=> P!WordBytes(Reference(s)) = t
  <2>1. /\ 0 + 1 = 1 /\ 0 + (Len(q) - 4) = Len(q) - 4
        /\ (Len(q) - 4) + 1 = Len(q) - 3 /\ (Len(q) - 4) + 4 = Len(q)
    BY <1>1
  <2> QED
    BY <2>1 DEF P!CheckCRC32C, P!FooterSize, P!U32Size, P!Crc32c, P!Bytes,
                Body, Sum
<1> HIDE DEF s, t
<1>4. R \in Word /\ Reference(s) = Xor(R, 0..31) /\ Reference(s) \in Word
  <2>1. R \in Word /\ Reference(s) = Complement(R)
    BY <1>2, RegisterType, ReferenceIs
  <2> QED
    BY <2>1, ComplementTwice DEF Complement
<1>5. P!WordBytes(Reference(s)) = t <=> Reference(s) = BitsOf(t)
  BY <1>2, <1>4, StoredIs, SameBytes
<1>6. Divided(Primed(q), 8 * (Len(q) - 4)) = Xor(R, BitsOf(t))
  BY <1>2, RegisterGoesOn
<1> HIDE DEF R
<1>7. Xor(R, 0..31) = BitsOf(t) <=> Xor(R, BitsOf(t)) = 0..31
  <2> DEFINE F == 0..31
             v == BitsOf(t)
  <2> HIDE DEF F, v
  <2>1. Xor(R, Xor(R, F)) = F /\ Xor(R, Xor(R, v)) = v
    BY XorAssociative
  <2>2. Xor(R, F) = v <=> Xor(R, v) = F
    BY <2>1
  <2> QED
    BY <2>2 DEF F, v
<1> QED
  BY <1>3, <1>4, <1>5, <1>6, <1>7 DEF s, t

(* The page that a sender seals is accepted.                               *)
LEMMA SealedIs ==
  ASSUME NEW s \in Bytes8, Len(s) >= 1
  PROVE  LET q == s \o Stored(Reference(s))
         IN  /\ q \in Bytes8 /\ Len(q) = Len(s) + 4
             /\ q = s \o P!Crc32c(s)
             /\ P!CheckCRC32C(q)
<1> DEFINE w == Reference(s)
           t == Stored(w)
           q == s \o t
<1>1. w \in Word
  BY RegisterType, ReferenceIs, ComplementTwice
<1>2. P!Crc32c(s) = P!WordBytes(w)
  BY DEF P!Crc32c
<1> HIDE DEF w
<1>3. /\ t \in Bytes8 /\ Len(t) = 4 /\ BitsOf(t) = w /\ P!WordBytes(w) = t
  BY <1>1, StoredIs
<1> HIDE DEF t
<1>4. /\ q \in Bytes8 /\ Len(q) = Len(s) + 4 /\ Len(s) \in Nat
      /\ \A k \in 1..Len(s) : q[k] = s[k]
      /\ \A k \in 1..4 : q[Len(s) + k] = t[k]
  <2>1. /\ s \o t \in Bytes8 /\ Len(s \o t) = Len(s) + Len(t)
        /\ Len(s) \in Nat
        /\ \A k \in 1..Len(s) : (s \o t)[k] = s[k]
        /\ \A k \in 1..Len(t) : (s \o t)[Len(s) + k] = t[k]
    BY <1>3, ConcatIs
  <2> QED
    BY <1>3, <2>1
<1>5. Divided(Primed(q), 8 * Len(s)) = Xor(Register(s), w)
  BY <1>3, RegisterGoesOn
<1>6. w = Xor(Register(s), 0..31)
  BY ReferenceIs DEF w, Complement
<1>7. Xor(Register(s), w) = 0..31
  <2> DEFINE F == 0..31
  <2> HIDE DEF F
  <2>1. Xor(Register(s), Xor(Register(s), F)) = F
    BY XorAssociative
  <2> QED
    BY <1>6, <2>1 DEF F
<1> HIDE DEF q
<1>8. Len(q) >= 5 /\ Len(q) - 4 = Len(s)
  BY <1>4
<1>9. P!CheckCRC32C(q)
  BY <1>4, <1>5, <1>7, <1>8, VerdictIs
<1> QED
  BY <1>2, <1>3, <1>4, <1>9 DEF q, t, w

-----------------------------------------------------------------------------
(* The damage.                                                             *)
Flipped(q, bits) ==
  [ k \in DOMAIN q |-> ByteOf(Xor(OctetOf[q[k]], Octet(bits, k - 1))) ]

LEMMA FlippedIs ==
  ASSUME NEW q \in Bytes8, NEW bits \in SUBSET (0..(8 * Len(q) - 1))
  PROVE  /\ Flipped(q, bits) \in Bytes8 /\ Len(Flipped(q, bits)) = Len(q)
         /\ BitsOf(Flipped(q, bits)) = Xor(BitsOf(q), bits)
<1> DEFINE f == Flipped(q, bits)
<1>1. Len(q) \in Nat /\ DOMAIN q = 1..Len(q) /\ bits \in Bits
  BY DEF Bytes8, Bits
<1>2. ASSUME NEW k \in 1..Len(q)
      PROVE  /\ f[k] \in 0..255
             /\ OctetOf[f[k]] = Xor(OctetOf[q[k]], Octet(bits, k - 1))
  <2> DEFINE o == Xor(OctetOf[q[k]], Octet(bits, k - 1))
  <2>1. q[k] \in 0..255
    BY ElementOfSeq DEF Bytes8
  <2>2. OctetOf[q[k]] \in Octets /\ Octet(bits, k - 1) \in Octets
    BY <1>1, <2>1, OctetOfType, OctetsAre
  <2>3. o \in Octets
    BY <2>2 DEF Octets, Xor
  <2>4. f[k] = ByteOf(o)
    BY <1>1 DEF Flipped
  <2> HIDE DEF o
  <2>5. f[k] \in 0..255 /\ OctetOf[f[k]] = o
    BY <2>3, <2>4, ByteOfOctet
  <2> QED
    BY <2>5 DEF o
<1>3. f = [ k \in 1..Len(q) |-> f[k] ]
  BY <1>1 DEF Flipped
<1> HIDE DEF f
<1>4. f \in Bytes8 /\ Len(f) = Len(q)
  <2>1. f \in [1..Len(q) -> 0..255]
    BY <1>2, <1>3, Zenon
  <2> QED
    BY <1>1, <2>1, BytesOf
<1>5. ASSUME NEW x \in Nat
      PROVE  x \in BitsOf(f) <=> x \in Xor(BitsOf(q), bits)
  <2>1. CASE x < 8 * Len(q)
    <3>1. PICK k \in 1..Len(q), i \in 0..7 : x = i + 8 * (k - 1)
      BY <1>1, <2>1, PositionIn
    <3>2. x \in BitsOf(f) <=> i \in OctetOf[f[k]]
      BY <1>4, <3>1, InBitsOf
    <3>3. x \in BitsOf(q) <=> i \in OctetOf[q[k]]
      BY <3>1, InBitsOf
    <3>4. x \in bits <=> i \in Octet(bits, k - 1)
      BY <3>1 DEF Octet
    <3> QED
      BY <1>2, <3>2, <3>3, <3>4, InXor
  <2>2. CASE ~(x < 8 * Len(q))
    <3>1. x \notin bits
      BY <1>1, <2>2
    <3>2. x \notin BitsOf(f) /\ x \notin BitsOf(q)
      BY <1>4, <2>2, InBitsOf
    <3> QED
      BY <3>1, <3>2, InXor
  <2> QED
    BY <2>1, <2>2
<1>6. BitsOf(f) \in Bits /\ Xor(BitsOf(q), bits) \in Bits
  BY <1>1, <1>4, InBitsOf, XorBits
<1>7. BitsOf(f) = Xor(BitsOf(q), bits)
  BY <1>5, <1>6, SameBits
<1> QED
  BY <1>4, <1>7 DEF f

LEMMA Smallest ==
  ASSUME NEW w \in Bits, w # {}
  PROVE  \E a \in w : \A i \in w : i >= a
<1> DEFINE least == \E a \in w : \A i \in w : i >= a
           T == { n \in Nat : (\E i \in w : i <= n) => least }
<1>1. 0 \in T
  <2>1. ASSUME NEW i \in w, i <= 0 PROVE least
    <3>1. i = 0 /\ \A j \in w : j >= i
      BY <2>1 DEF Bits
    <3> QED
      BY <3>1
  <2> HIDE DEF least
  <2> QED
    BY <2>1
<1>2. ASSUME NEW n \in Nat, n \in T PROVE n + 1 \in T
  <2>1. ASSUME NEW i \in w, i <= n + 1 PROVE least
    <3>1. CASE \E j \in w : j <= n
      <4> HIDE DEF least
      <4> QED
        BY <1>2, <3>1
    <3>2. CASE ~ \E j \in w : j <= n
      <4>1. \A j \in w : j >= i
        BY <2>1, <3>2 DEF Bits
      <4> QED
        BY <4>1
    <3> QED
      BY <3>1, <3>2
  <2> HIDE DEF least
  <2> QED
    BY <2>1
<1> HIDE DEF T
<1>3. \A n \in Nat : n \in T
  BY <1>1, <1>2, Lemmas!NatInductionOn
<1>4. PICK i \in w : TRUE
  OBVIOUS
<1>5. i \in Nat /\ i <= i
  BY DEF Bits
<1> HIDE DEF least
<1>6. least
  BY <1>3, <1>5 DEF T
<1> QED
  BY <1>6 DEF least

(* A few bits within 32 leave a rest, however long the division is.        *)
LEMMA BurstLeavesRest ==
  ASSUME NEW bits \in Bits, bits # {}, \A i, j \in bits : i - j < 32,
         NEW n \in Nat
  PROVE  Divided(bits, n) # {}
<1>1. PICK a \in bits : \A i \in bits : i >= a
  BY Smallest
<1>2. a \in Nat
  BY DEF Bits
<1>3. CASE a >= n
  <2>1. \A i \in bits : i >= n
    BY <1>1, <1>2, <1>3 DEF Bits
  <2>2. Divided(bits, n) = ShiftRight(bits, n)
    BY <2>1, DividedZeros
  <2>3. a - n \in Nat /\ (a - n) + n = a
    BY <1>2, <1>3
  <2>4. a - n \in ShiftRight(bits, n)
    BY <2>3, InShiftRight
  <2> QED
    BY <2>2, <2>4
<1>4. CASE a < n
  <2> DEFINE w == ShiftRight(bits, a)
  <2>1. Divided(bits, a) = w
    BY <1>1, <1>2, DividedZeros
  <2>2. 0 \in w
    BY <1>2, InShiftRight
  <2>3. w \in Word
    <3>1. ASSUME NEW x \in w PROVE x \in 0..31
      <4>1. x \in Nat /\ x + a \in bits
        BY <1>2, InShiftRight
      <4>2. (x + a) - a < 32
        BY <4>1
      <4> QED
        BY <1>2, <4>1, <4>2
    <3> HIDE DEF w
    <3> QED
      BY <3>1 DEF Word
  <2> HIDE DEF w
  <2>4. n - a \in Nat /\ a + (n - a) = n
    BY <1>2, <1>4
  <2>5. Divided(bits, n) = Divided(w, n - a)
    BY <1>2, <2>1, <2>4, DividedTwice
  <2> QED
    BY <2>2, <2>3, <2>4, <2>5, DividedWord
<1> QED
  BY <1>2, <1>3, <1>4

LEMMA FlippedIsRefused ==
  ASSUME NEW q \in Bytes8, P!CheckCRC32C(q),
         NEW bits \in SUBSET (0..(8 * Len(q) - 1)), bits # {},
         \A i, j \in bits : i - j < 32
  PROVE  ~P!CheckCRC32C(Flipped(q, bits))
<1> DEFINE f == Flipped(q, bits)
           n == 8 * (Len(q) - 4)
<1>1. Len(q) \in Nat /\ Len(q) >= 5 /\ n \in Nat
  BY DEF P!CheckCRC32C, P!FooterSize, Bytes8
<1>2. f \in Bytes8 /\ Len(f) = Len(q) /\ BitsOf(f) = Xor(BitsOf(q), bits)
  BY FlippedIs
<1>3. bits \in Bits /\ Primed(q) \in Bits
  BY <1>1, PrimedType DEF Bits
<1>4. Primed(f) = Xor(Primed(q), bits)
  BY <1>2, XorAssociative DEF Primed
<1> HIDE DEF f
<1>5. Divided(Primed(f), n) = Xor(Divided(Primed(q), n), Divided(bits, n))
  BY <1>1, <1>3, <1>4, DividedXor
<1>6. Divided(Primed(q), n) = 0..31
  BY <1>1, VerdictIs
<1>7. Divided(bits, n) # {}
  BY <1>1, <1>3, BurstLeavesRest
<1>8. Divided(Primed(f), n) # 0..31
  <2> DEFINE F == 0..31
             d == Divided(bits, n)
  <2> HIDE DEF F, d
  <2>1. Xor(F, Xor(F, d)) = d /\ Xor(F, F) = {}
    BY XorAssociative
  <2>2. Xor(F, d) # F
    BY <1>7, <2>1 DEF d
  <2> QED
    BY <1>5, <1>6, <2>2 DEF F, d
<1>9. ~P!CheckCRC32C(f)
  BY <1>1, <1>2, <1>8, VerdictIs
<1> QED
  BY <1>9 DEF f

-----------------------------------------------------------------------------
(* The page.  The inductive invariant: what finish() leaves is the sealed  *)
(* page and is accepted, the damaged one is not, and the reader sums the   *)
(* body of the page that it has.                                           *)
Typed(s) == \E body \in Bytes8 : s = Append(body, PageType)

Accepted == P!CheckCRC32C(page)

PageInv ==
  /\ stage \in {"slices", "sealing", "stored", "checking", "checked"}
  /\ page \in Bytes8
  /\ damage \in {"none", "bits", "cut"} /\ verdict \in BOOLEAN
  /\ stage = "slices" => message \in Messages
  /\ stage = "sealing" => Typed(message) /\ damage = "none"
  /\ stage = "stored" => call = Idle
  /\ stage = "stored" /\ damage = "none" =>
       Typed(message) /\ page = message \o P!Crc32c(message)
  /\ stage \in {"stored", "checking", "checked"} =>
       (damage = "none" => Accepted) /\ (damage = "bits" => ~Accepted)
  /\ stage = "checking" => Len(page) >= 5 /\ message = Body(page)
  /\ stage = "checked" => (verdict <=> Accepted)

Inv == ExtendInv /\ PageInv

LEMMA TypedIs ==
  ASSUME NEW s, Typed(s)
  PROVE  /\ s \in Bytes8 /\ Len(s) >= 1
         /\ P!Sealed(SubSeq(s, 1, Len(s) - 1), PageType) = s \o P!Crc32c(s)
<1>1. PICK body \in Bytes8 : s = Append(body, PageType)
  BY DEF Typed
<1>2. PageType \in 0..255
  BY PageChecksumAssumption
<1>3. /\ s \in Bytes8 /\ Len(s) = Len(body) + 1 /\ Len(body) \in Nat
      /\ \A k \in 1..Len(body) : s[k] = body[k]
  BY <1>1, <1>2 DEF Bytes8
<1>4. SubSeq(s, 1, Len(s) - 1) = body
  <2> DEFINE n == Len(body)
             t == SubSeq(s, 1, n)
  <2>1. n \in Nat /\ Len(s) - 1 = n /\ n - 1 + 1 = n
        /\ (~(1 <= n) => n = 0) /\ \A i \in 1..n : 1 + i - 1 = i
    BY <1>3
  <2>2. \A k \in 1..n : s[k] \in 0..255
    <3>1. \A k \in 1..n : k \in 1..Len(s)
      BY <1>3
    <3> QED
      BY <1>3, <3>1, ElementOfSeq DEF Bytes8
  <2> HIDE DEF n
  <2>3. /\ t \in Seq(0..255) /\ Len(t) = IF 1 <= n THEN n - 1 + 1 ELSE 0
        /\ \A i \in 1..(n - 1 + 1) : t[i] = s[1 + i - 1]
    BY <2>1, <2>2, SubSeqProperties
  <2>4. t \in Seq(0..255) /\ Len(t) = n /\ \A i \in 1..n : t[i] = s[i]
    BY <2>1, <2>3
  <2>5. body \in Seq(0..255) /\ Len(body) = n /\ \A i \in 1..n : t[i] = body[i]
    BY <1>3, <2>4 DEF n, Bytes8
  <2> HIDE DEF t
  <2>6. t = body
    BY <2>4, <2>5, SeqEqual
  <2> QED
    BY <2>1, <2>6 DEF t
<1>5. P!Sealed(body, PageType) = s \o P!Crc32c(s)
  <2>1. P!Sealed(body, PageType)
          = Append(body, PageType) \o P!Crc32c(Append(body, PageType))
    BY DEF P!Sealed
  <2> QED
    BY <1>1, <2>1
<1>6. Len(s) >= 1
  BY <1>3
<1> QED
  BY <1>3, <1>4, <1>5, <1>6

LEMMA WholePrefix ==
  ASSUME message \in Bytes8
  PROVE  Prefix(Len(message)) = message
<1>1. Len(message) \in Nat /\ Len(message) \in 0..Len(message)
  BY DEF Bytes8
<1>2. /\ Prefix(Len(message)) \in Bytes8
      /\ Len(Prefix(Len(message))) = Len(message)
      /\ \A k \in 1..Len(message) : Prefix(Len(message))[k] = message[k]
  BY <1>1, PrefixType
<1> QED
  BY <1>2, SeqEqual DEF Bytes8

(* What a sum that is complete comes to.                                   *)
LEMMA SummedIs ==
  ASSUME ExtendInv, Summed
  PROVE  crc = Reference(message) /\ message \in Bytes8 /\ call = Idle
BY WholePrefix DEF ExtendInv, Summed

(* Before the first byte.                                                  *)
LEMMA Begins ==
  ASSUME NEW s \in Bytes8, message' = s, build' \in Builds,
         done' = 0, crc' = {}, call' = Idle, p' = 0, l' \in Word
  PROVE  ExtendInv'
<1>1. Len(s) \in Nat /\ 0 \in 0..Len(s)
  BY DEF Bytes8
<1>2. (Prefix(done) = << >>)'
  <2>1. SubSeq(s, 1, 0) = << >>
    BY SubSeqEmpty
  <2> QED
    BY <2>1 DEF Prefix
<1>3. (crc = Reference(Prefix(done)))'
  BY <1>2, EmptyReference
<1>4. crc' \in Word
  BY DEF Word
<1> QED
  BY <1>1, <1>3, <1>4 DEF ExtendInv

LEMMA InitInv == Init => Inv
<1> SUFFICES ASSUME Init PROVE Inv
  OBVIOUS
<1>1. /\ page \in Bytes8 /\ damage = "none" /\ verdict \in BOOLEAN
      /\ stage \in {"slices", "sealing"}
      /\ stage = "slices" => message \in Messages
      /\ stage = "sealing" => Typed(message)
  <2>1. stage = "sealing" => Typed(message)
    <3>1. \A body \in Bodies : body \in Bytes8
      BY PageChecksumAssumption DEF Bytes8
    <3> QED
      BY <3>1 DEF Init, CrcInit, Typed
  <2>2. page = << >> /\ << >> \in Bytes8
    BY EmptySeq DEF Init, Bytes8
  <2>3. stage = "slices" => message \in Messages
    BY DEF Init, CrcInit
  <2> QED
    BY <2>1, <2>2, <2>3 DEF Init
<1>2. PageInv
  BY <1>1 DEF PageInv
<1>3. message \in Bytes8
  <2>1. Messages \subseteq Bytes8
    BY Crc32cAssumption DEF Bytes8
  <2> QED
    BY <1>1, <2>1, TypedIs
<1>4. /\ build \in Builds /\ done = 0 /\ crc = {} /\ call = Idle /\ p = 0
      /\ l = {}
  BY DEF Init, CrcInit
<1>5. ExtendInv
  <2>1. Len(message) \in Nat /\ 0 \in 0..Len(message)
    BY <1>3 DEF Bytes8
  <2>2. Prefix(0) = << >>
    BY SubSeqEmpty DEF Prefix
  <2>3. crc = Reference(Prefix(done))
    BY <1>4, <2>2, EmptyReference
  <2>4. crc \in Word /\ l \in Word
    BY <1>4 DEF Word
  <2> QED
    BY <1>3, <1>4, <2>1, <2>3, <2>4 DEF ExtendInv
<1> QED
  BY <1>2, <1>5 DEF Inv

LEMMA UnchangedExtend ==
  ASSUME ExtendInv, UNCHANGED crcVars
  PROVE  ExtendInv'
BY DEF ExtendInv, crcVars, Counting, Prefix

(* The actions of Extend() leave the page and its stage alone.             *)
LEMMA UnchangedPage ==
  ASSUME PageInv, stage # "stored", message' = message, UNCHANGED pageVars
  PROVE  PageInv'
BY DEF PageInv, pageVars, Accepted, Typed

LEMMA NextInv == Inv /\ [Next]_vars => Inv'
<1> SUFFICES ASSUME Inv, [Next]_vars PROVE Inv'
  OBVIOUS
<1> USE DEF Inv
<1>1. ASSUME NEW addr \in Addresses, NEW size \in Sizes, NextSlice(addr, size)
      PROVE  Inv'
  <2>1. addr \in Nat /\ size \in Nat
    BY Crc32cAssumption
  <2>2. ExtendInv'
    BY <1>1, <2>1, ExtendBegins DEF NextSlice
  <2>3. PageInv'
    BY <1>1, UnchangedPage DEF NextSlice, ExtendBegin
  <2> QED
    BY <2>2, <2>3
<1>2. ASSUME NEW addr \in Addresses, Value(addr) PROVE Inv'
  <2>1. addr \in Nat /\ Len(message) \in Nat
    BY Crc32cAssumption DEF ExtendInv, Bytes8
  <2>2. ExtendInv'
    BY <1>2, <2>1, ExtendBegins DEF Value
  <2>3. PageInv'
    BY <1>2, UnchangedPage DEF Value, ExtendBegin
  <2> QED
    BY <2>2, <2>3
<1>3. CASE Step
  <2>1. ExtendInv'
    BY <1>3, ExtendSteps DEF Step
  <2>2. call # Idle
    BY <1>3 DEF Step, ExtendStep, AlignStep, SixteenBytes, EightBytes,
                LastByte, Return
  <2>3. message' = message
    BY <1>3 DEF Step, ExtendStep, AlignStep, SixteenBytes, EightBytes,
                LastByte, Return, OneByte, Advance
  <2>4. stage # "stored"
    BY <2>2 DEF PageInv
  <2>5. PageInv'
    BY <1>3, <2>3, <2>4, UnchangedPage DEF Step
  <2> QED
    BY <2>1, <2>5
<1>4. CASE Seal
  <2>1. ExtendInv'
    BY <1>4, UnchangedExtend DEF Seal
  <2>2. /\ stage = "sealing" /\ Summed /\ page' = message \o Stored(crc)
        /\ stage' = "stored" /\ damage' = damage /\ verdict' = verdict
        /\ message' = message /\ call' = call
    BY <1>4 DEF Seal, crcVars
  <2>3. Typed(message) /\ damage = "none" /\ verdict \in BOOLEAN
    BY <2>2 DEF PageInv
  <2>4. message \in Bytes8 /\ Len(message) >= 1
    BY <2>3, TypedIs
  <2>5. crc = Reference(message) /\ call = Idle
    BY <2>2, SummedIs
  <2>6. page' = message \o Stored(Reference(message))
    BY <2>2, <2>5
  <2>7. /\ page' \in Bytes8 /\ page' = message \o P!Crc32c(message)
        /\ P!CheckCRC32C(page')
    BY <2>4, <2>6, SealedIs
  <2>8. Typed(message')
    BY <2>2, <2>3
  <2>9. Accepted'
    BY <2>7 DEF Accepted
  <2>10. PageInv'
    BY <2>2, <2>3, <2>5, <2>7, <2>8, <2>9 DEF PageInv, Typed
  <2> QED
    BY <2>1, <2>10
<1>5. ASSUME NEW bits \in Damages, Invert(bits) PROVE Inv'
  <2>1. ExtendInv'
    BY <1>5, UnchangedExtend DEF Invert
  <2>2. /\ stage = "stored" /\ damage = "none"
        /\ bits \in SUBSET (0..(8 * Len(page) - 1))
        /\ page' = Flipped(page, bits)
        /\ damage' = "bits" /\ stage' = stage /\ verdict' = verdict
        /\ message' = message /\ call' = call
    BY <1>5 DEF Invert, crcVars, Flipped
  <2>3. bits # {} /\ \A i, j \in bits : i - j < 32
    BY PageChecksumAssumption
  <2>4. /\ page \in Bytes8 /\ P!CheckCRC32C(page) /\ call = Idle
        /\ verdict \in BOOLEAN
    BY <2>2 DEF PageInv, Accepted
  <2>5. Flipped(page, bits) \in Bytes8
    BY <2>2, <2>4, FlippedIs
  <2>6. ~P!CheckCRC32C(Flipped(page, bits))
    BY <2>2, <2>3, <2>4, FlippedIsRefused
  <2>7. ~Accepted'
    BY <2>2, <2>6 DEF Accepted
  <2>8. PageInv'
    BY <2>2, <2>4, <2>5, <2>7 DEF PageInv
  <2> QED
    BY <2>1, <2>8
<1>6. ASSUME NEW n \in 0..(Len(page) - 1), Cut(n) PROVE Inv'
  <2>1. ExtendInv'
    BY <1>6, UnchangedExtend DEF Cut
  <2>2. /\ stage = "stored" /\ page' = SubSeq(page, 1, n)
        /\ damage' = "cut" /\ stage' = stage /\ verdict' = verdict
        /\ message' = message /\ call' = call
    BY <1>6 DEF Cut, crcVars
  <2>3. page \in Bytes8 /\ call = Idle /\ verdict \in BOOLEAN
    BY <2>2 DEF PageInv
  <2>4. SubSeq(page, 1, n) \in Bytes8
    <3>1. \A k \in 1..n : page[k] \in 0..255
      <4>1. \A k \in 1..n : k \in 1..Len(page)
        BY <2>3 DEF Bytes8
      <4> QED
        BY <2>3, <4>1, ElementOfSeq DEF Bytes8
    <3>2. 1 \in Int /\ n \in Int
      OBVIOUS
    <3> QED
      BY <3>1, <3>2, SubSeqProperties DEF Bytes8
  <2>5. PageInv'
    BY <2>2, <2>3, <2>4 DEF PageInv
  <2> QED
    BY <2>1, <2>5
<1>7. ASSUME NEW newBuild \in Builds, CheckBegin(newBuild) PROVE Inv'
  <2>1. /\ stage = "stored" /\ page' = page /\ damage' = damage
        /\ page \in Bytes8 /\ call = Idle /\ verdict \in BOOLEAN
        /\ Accepted' = Accepted
        /\ damage \in {"none", "bits", "cut"}
        /\ (damage = "none" => Accepted) /\ (damage = "bits" => ~Accepted)
    BY <1>7 DEF CheckBegin, PageInv, Accepted
  <2>2. P!FooterSize = 5 /\ SummedSize(Len(page)) = Len(page) - 4
    BY DEF P!FooterSize, SummedSize, P!U32Size
  <2>3. CASE Len(page) < 5
    <3>1. UNCHANGED crcVars /\ verdict' = FALSE /\ stage' = "checked"
      BY <1>7, <2>1, <2>2, <2>3 DEF CheckBegin, Bytes8
    <3>2. ExtendInv'
      BY <3>1, UnchangedExtend
    <3>3. ~Accepted
      BY <2>1, <2>3 DEF Accepted, P!CheckCRC32C, P!FooterSize, Bytes8
    <3>4. PageInv'
      BY <2>1, <3>1, <3>3 DEF PageInv
    <3> QED
      BY <3>2, <3>4
  <2>4. CASE Len(page) >= 5
    <3>1. /\ message' = Body(page) /\ build' = newBuild
          /\ done' = 0 /\ crc' = {} /\ stage' = "checking"
          /\ call' = call /\ p' = p /\ l' = l /\ verdict' = verdict
      <4>1. ~(Len(page) < 5)
        BY <2>1, <2>4 DEF Bytes8
      <4> QED
        BY <1>7, <2>2, <4>1 DEF CheckBegin, Body
    <3>2. Body(page) \in Bytes8
      <4>1. Len(page) >= 4
        BY <2>1, <2>4 DEF Bytes8
      <4> QED
        BY <2>1, <4>1, InTwo
    <3>3. ExtendInv'
      <4>1. p = 0 /\ l \in Word
        BY <2>1 DEF ExtendInv
      <4> QED
        BY <2>1, <3>1, <3>2, <4>1, Begins
    <3>4. (message = Body(page))'
      BY <2>1, <3>1 DEF Body
    <3>5. PageInv'
      BY <2>1, <2>4, <3>1, <3>4 DEF PageInv
    <3> QED
      BY <3>3, <3>5
  <2> QED
    BY <2>1, <2>3, <2>4 DEF Bytes8
<1>8. CASE CheckEnd
  <2>1. ExtendInv'
    BY <1>8, UnchangedExtend DEF CheckEnd
  <2>2. /\ stage = "checking" /\ Summed /\ stage' = "checked"
        /\ page' = page /\ damage' = damage
        /\ verdict' = (crc = StoredCrc)
    BY <1>8 DEF CheckEnd
  <2>3. /\ page \in Bytes8 /\ Len(page) >= 5 /\ message = Body(page)
        /\ damage \in {"none", "bits", "cut"}
        /\ (damage = "none" => Accepted) /\ (damage = "bits" => ~Accepted)
    BY <2>2 DEF PageInv
  <2>4. crc = Reference(Body(page))
    BY <2>2, <2>3, SummedIs
  <2>5. Accepted <=> crc = StoredCrc
    BY <2>3, <2>4, VerdictIs DEF Accepted, StoredCrc, Sum
  <2>6. verdict' \in BOOLEAN /\ (verdict' <=> Accepted)
    BY <2>2, <2>5
  <2>7. Accepted' <=> Accepted
    BY <2>2 DEF Accepted
  <2>8. PageInv'
    BY <2>2, <2>3, <2>6, <2>7 DEF PageInv
  <2> QED
    BY <2>1, <2>8
<1>9. CASE UNCHANGED vars
  <2>1. ExtendInv'
    BY <1>9, UnchangedExtend DEF vars
  <2>2. PageInv'
    BY <1>9 DEF vars, pageVars, crcVars, PageInv, Accepted, Typed
  <2> QED
    BY <2>1, <2>2
<1> QED
  BY <1>1, <1>2, <1>3, <1>4, <1>5, <1>6, <1>7, <1>8, <1>9 DEF Next

LEMMA Invariance == Spec => []Inv
BY InitInv, NextInv, PTL DEF Spec

(* The state has its types: in every build, for all streams, buffers and   *)
(* pages, a call is for bytes that the stream has.                         *)
THEOREM ChecksumTypes == Spec => []TypeOK
<1>1. Inv => TypeOK
  <2> SUFFICES ASSUME Inv PROVE TypeOK
    OBVIOUS
  <2>1. call # Idle => done + call.size <= Len(message)
    BY DEF Inv, ExtendInv, Counting
  <2> QED
    BY <2>1 DEF Inv, ExtendInv, PageInv, TypeOK, Bytes8
<1> QED
  BY <1>1, Invariance, PTL

(* Extend() reads no byte behind its buffer, wherever the first aligned    *)
(* address lies.                                                           *)
THEOREM ExtendReadsInBounds == Spec => []ReadsInBounds
<1>1. Inv => ReadsInBounds
  BY DEF Inv, ExtendInv, Counting, ReadsInBounds
<1> QED
  BY <1>1, Invariance, PTL

(* Extend() computes the remainder of the definition, by its tables, by    *)
(* the instructions of the processor and byte by byte, for any cut of any  *)
(* stream into buffers at any addresses.                                   *)
THEOREM ExtendIsCrc32c == Spec => []CrcIsReference
<1>1. Inv => CrcIsReference
  <2> SUFFICES ASSUME Inv, stage = "slices"
               PROVE  IF call = Idle THEN crc = References[message][done]
                      ELSE Complement(l) = References[message][done + p]
    BY DEF CrcIsReference
  <2>1. /\ message \in Messages /\ message \in Bytes8
        /\ done \in 0..Len(message) /\ Len(message) \in Nat
    BY DEF Inv, ExtendInv, PageInv, Bytes8
  <2>2. \A n \in 0..Len(message) :
          References[message][n] = Reference(Prefix(n))
    BY <2>1 DEF References, Prefix
  <2>3. CASE call = Idle
    BY <2>1, <2>2, <2>3 DEF Inv, ExtendInv
  <2>4. CASE call # Idle
    <3>1. /\ done + p \in 0..Len(message)
          /\ l = Register(Prefix(done + p))
      BY <2>1, <2>4 DEF Inv, ExtendInv, Counting
    <3>2. Reference(Prefix(done + p)) = Complement(l)
      BY <2>1, <3>1, PrefixType, ReferenceIs
    <3> QED
      BY <2>2, <2>4, <3>1, <3>2
  <2> QED
    BY <2>3, <2>4
<1> QED
  BY <1>1, Invariance, PTL

(* No page that was left alone is refused, and none is accepted in which   *)
(* bits within 32 adjacent ones were inverted, however long it is.         *)
THEOREM DamageIsDetected == Spec => []DamageDetected
<1>1. Inv => DamageDetected
  BY DEF Inv, PageInv, DamageDetected
<1> QED
  BY <1>1, Invariance, PTL

(* finish() and checkCRC32C() are those of Page with the checksum of the   *)
(* definition, for every page, also one that is cut.                       *)
THEOREM PageIsImplemented == Spec => []PageImplemented
<1>1. Inv => PageImplemented
  <2> SUFFICES ASSUME Inv PROVE PageImplemented
    OBVIOUS
  <2>1. stage = "stored" /\ damage = "none" =>
          page = P!Sealed(SubSeq(message, 1, Len(message) - 1), PageType)
    BY TypedIs DEF Inv, PageInv
  <2>2. stage = "checked" => verdict = P!CheckCRC32C(page)
    <3>1. P!CheckCRC32C(page) \in BOOLEAN
      BY DEF P!CheckCRC32C
    <3>2. stage = "checked" => (verdict <=> P!CheckCRC32C(page))
      BY DEF Inv, PageInv, Accepted
    <3>3. verdict \in BOOLEAN
      BY DEF Inv, PageInv
    <3> QED
      BY <3>1, <3>2, <3>3
  <2> QED
    BY <2>1, <2>2 DEF PageImplemented
<1> QED
  BY <1>1, Invariance, PTL
=============================================================================
