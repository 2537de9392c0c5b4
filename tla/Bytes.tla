------------------------------- MODULE Bytes -------------------------------
(***************************************************************************)
(* Numbers in the bytes of a file that libmaxminddb has mapped, most       *)
(* significant byte first.  Offsets count from 0.                          *)
(***************************************************************************)
EXTENDS Integers, Sequences

CONSTANT
  Word \* the number of values of a uint32_t

ASSUME WordAssumption == Word \in Nat /\ Word >= 256

Byte == 0 .. 255

\* A byte, and 0 beyond the end, where a mapping has the rest of its page.
At(mem, o) == IF o + 1 \in DOMAIN mem THEN mem[o + 1] ELSE 0

Get16(mem, o) == At(mem, o) * 256 + At(mem, o + 1)

Get24(mem, o) == At(mem, o) * 65536 + At(mem, o + 1) * 256 + At(mem, o + 2)

\* Of a Word smaller than 2^32 this is the number modulo Word.
Get32(mem, o) == ((Get24(mem, o) % (Word \div 256)) * 256 + At(mem, o + 3)) % Word
=============================================================================
