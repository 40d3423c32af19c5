-------------------------------- MODULE Page --------------------------------
(***************************************************************************)
(* What every page has in common: PageBuilder::finish of page_builder.h,   *)
(* which appends the footer, and the PageReader of page_reader.h.          *)
(*                                                                         *)
(*   body  |  page-type  checksum                                          *)
(***************************************************************************)
EXTENDS Coding

CONSTANT Crc32cBits(_)   \* the positions of the 1 bits of crc32c::Value

U32Size    == 4      \* sizeof(uint32_t)
FooterSize == 5      \* sizeof(PageFooter), packed: a type byte and a uint32

(* A word in the four bytes that it is stored in.                          *)
WordBytes(bits) ==
  LET Bit(k)   == IF k \in bits THEN 1 ELSE 0
      Octet(k) == Bit(k) + 2 * Bit(k + 1) + 4 * Bit(k + 2) + 8 * Bit(k + 3)
                    + 16 * Bit(k + 4) + 32 * Bit(k + 5) + 64 * Bit(k + 6)
                    + 128 * Bit(k + 7)
  IN  << Octet(0), Octet(8), Octet(16), Octet(24) >>

Crc32c(s) == WordBytes(Crc32cBits(s))

(* PageBuilder::finish: the type byte, then the checksum of all before it. *)
Sealed(body, type) ==
  LET typed == Append(body, type) IN typed \o Crc32c(typed)

-----------------------------------------------------------------------------
CheckCRC32C(page) ==
  /\ Len(page) >= FooterSize
  /\ LET n == Len(page) - U32Size
     IN  Crc32c(Bytes(page, 0, n)) = Bytes(page, n, U32Size)

GetPageType(page) == page[Len(page) - FooterSize + 1]

(* The page without its footer, as its readers take it.                    *)
PageData(page) == Bytes(page, 0, Len(page) - FooterSize)

-----------------------------------------------------------------------------
(* An array of fixed32s, and the i-th of one at offset off, from 0.        *)
Fixed32Array(s) ==
  [ i \in 1..(U32Size * Len(s)) |->
      Fixed32(s[((i - 1) \div U32Size) + 1])[((i - 1) % U32Size) + 1] ]

Fixed32At(buf, off, i) == DecodeFixed32(buf, off + U32Size * i)
=============================================================================
