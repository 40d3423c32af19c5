---------------------------- MODULE PageChecksum ----------------------------
(***************************************************************************)
(* The checksum of a page from PageBuilder::finish() of page_builder.h to  *)
(* checkCRC32C() of page_reader.h: one build of the library seals a page   *)
(* in a buffer, the storage may damage the page, and another build checks  *)
(* it in another buffer.  Both run the Extend() of Crc32c step by step.    *)
(*                                                                         *)
(* The other user of Extend() is Value() of many slices, here "slices".    *)
(***************************************************************************)
EXTENDS Crc32c

CONSTANTS
  Bodies,    \* bound: what there is in the buffer before finish()
  PageType,  \* its type
  Damages    \* bound: what storage does, the bits of a page it inverts

ASSUME PageChecksumAssumption ==
  /\ Bodies \subseteq Seq(0..255) /\ PageType \in 0..255
  /\ \A bits \in Damages :
       bits \subseteq Nat /\ bits # {} /\ \A i, j \in bits : i - j < 32

VARIABLES
  stage,   \* "slices", or for a page "sealing", "stored", "checking",
           \* "checked"
  page,    \* the page as it is stored
  damage,  \* history: "none", "bits" or "cut"
  verdict  \* what checkCRC32C() returned

pageVars == << stage, page, damage, verdict >>
vars     == << crcVars, pageVars >>

(* Page with the checksum as it is defined.                                *)
P == INSTANCE Page WITH Crc32cBits <- Reference

ByteOf(octet) ==
  LET Bit(i) == IF i \in octet THEN 2 ^ i ELSE 0
  IN  Bit(0) + Bit(1) + Bit(2) + Bit(3) + Bit(4) + Bit(5) + Bit(6) + Bit(7)

TypeOK ==
  /\ message \in Seq(0..255) /\ build \in Builds
  /\ done \in 0..Len(message)
  /\ crc \in Word /\ l \in Word
  /\ call # Idle => done + call.size <= Len(message) /\ p \in Nat
  /\ stage \in {"slices", "sealing", "stored", "checking", "checked"}
  /\ page \in Seq(0..255)
  /\ damage \in {"none", "bits", "cut"} /\ verdict \in BOOLEAN

Init ==
  /\ \/ stage = "slices" /\ CrcInit(Messages)
     \/ stage = "sealing" /\ CrcInit({ Append(b, PageType) : b \in Bodies })
  /\ page = << >> /\ damage = "none" /\ verdict = FALSE

-----------------------------------------------------------------------------
NextSlice(addr, size) ==
  stage = "slices" /\ ExtendBegin(addr, size) /\ UNCHANGED pageVars

(* Value() of one buffer.                                                  *)
Value(addr) ==
  /\ stage \in {"sealing", "checking"} /\ done = 0
  /\ ExtendBegin(addr, Len(message))
  /\ UNCHANGED pageVars

Step == ExtendStep /\ UNCHANGED pageVars

Summed == done = Len(message) /\ call = Idle

(* Mutant: the bytes of the checksum in the other order.                   *)
StoredBigEndian(w) == [ k \in 1..4 |-> ByteOf(Octet(w, 4 - k)) ]

(* A word in the memory of a little-endian machine.                        *)
Stored(w) == [ k \in 1..4 |-> ByteOf(Octet(w, k - 1)) ]

Seal ==
  /\ stage = "sealing" /\ Summed
  /\ page' = message \o Stored(crc)
  /\ stage' = "stored"
  /\ UNCHANGED << crcVars, damage, verdict >>

(* Between the two, a few bits of the page are inverted, all within 32, or *)
(* its end is lost.                                                        *)
Invert(bits) ==
  /\ stage = "stored" /\ damage = "none"
  /\ bits \subseteq 0..(8 * Len(page) - 1)
  /\ page' = [ k \in DOMAIN page |->
                 ByteOf(Xor(OctetOf[page[k]], Octet(bits, k - 1))) ]
  /\ damage' = "bits"
  /\ UNCHANGED << crcVars, stage, verdict >>

Cut(n) ==
  /\ stage = "stored" /\ damage = "none"
  /\ page' = SubSeq(page, 1, n) /\ damage' = "cut"
  /\ UNCHANGED << crcVars, stage, verdict >>

(* Mutant: the page type is taken for a part of the stored checksum.       *)
SummedWithoutType(n) == n - P!FooterSize

SummedSize(n) == n - P!U32Size

CheckBegin(newBuild) ==
  /\ stage = "stored"
  /\ \/ /\ Len(page) < P!FooterSize
        /\ verdict' = FALSE /\ stage' = "checked"
        /\ UNCHANGED crcVars
     \/ /\ Len(page) >= P!FooterSize
        /\ message' = SubSeq(page, 1, SummedSize(Len(page)))
        /\ build' = newBuild /\ done' = 0 /\ crc' = {}
        /\ stage' = "checking"
        /\ UNCHANGED << call, p, l, verdict >>
  /\ UNCHANGED << page, damage >>

(* decode_fixed32_le of the last four bytes.                               *)
StoredCrc == BitsOf(SubSeq(page, Len(page) - 3, Len(page)))

CheckEnd ==
  /\ stage = "checking" /\ Summed
  /\ verdict' = (crc = StoredCrc) /\ stage' = "checked"
  /\ UNCHANGED << crcVars, page, damage >>

Next ==
  \/ \E addr \in Addresses, size \in Sizes : NextSlice(addr, size)
  \/ \E addr \in Addresses : Value(addr)
  \/ Step \/ Seal
  \/ \E bits \in Damages : Invert(bits)
  \/ \E n \in 0..(Len(page) - 1) : Cut(n)
  \/ \E newBuild \in Builds : CheckBegin(newBuild)
  \/ CheckEnd

Spec == Init /\ [][Next]_vars

-----------------------------------------------------------------------------
(* Extend() reads no byte behind its buffer, also where the first aligned  *)
(* address lies there, as crc32c.cpp:200-201 says it may.                  *)
ReadsInBounds == call # Idle => p <= call.size

(* However a stream is cut into buffers, wherever these lie and however    *)
(* the code is built, each call returns the CRC-32C of all the bytes up to *)
(* its end, and between two rounds of its loops l is the one of all bytes  *)
(* that p has passed.                                                      *)
CrcIsReference ==
  stage = "slices" =>
    IF call = Idle THEN crc = References[message][done]
    ELSE Complement(l) = References[message][done + p]

(* A page that was left alone is accepted, whoever sealed it and whoever   *)
(* reads it, and one in which bits within 32 adjacent ones were inverted,  *)
(* those of the page type and of the checksum included, is not.            *)
DamageDetected ==
  stage = "checked" =>
    /\ damage = "none" => verdict
    /\ damage = "bits" => ~verdict

(* The page that finish() leaves is the sealed page of Page, and the       *)
(* verdict on any page is that of Page, on one that is too short as well.  *)
PageImplemented ==
  /\ stage = "stored" /\ damage = "none" =>
       page = P!Sealed(SubSeq(message, 1, Len(message) - 1), PageType)
  /\ stage = "checked" => verdict = P!CheckCRC32C(page)
=============================================================================
