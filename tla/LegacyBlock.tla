----------------------------- MODULE LegacyBlock -----------------------------
(***************************************************************************)
(* How the legacy programs read a block number from two bytes:             *)
(* (buffer[2] << 8) | buffer[3], with buffer an array of char.             *)
(***************************************************************************)
EXTENDS Integers

CONSTANT ByteMod        \* values of a byte (256)

ASSUME ByteHasValues == ByteMod \in Nat \ {0}

\* A char is signed: the upper half of the byte values are negative, and an
\* integer of one sign-extended byte OR-ed in is negative with it.
SignedChar(byte) == IF 2 * byte >= ByteMod THEN byte - ByteMod ELSE byte
Decode(block) ==
    LET low  == SignedChar(block % ByteMod)
        high == SignedChar(block \div ByteMod)
    IN  IF low < 0 THEN low ELSE high * ByteMod + low

\* What the two bytes of a packet hold of an int: (block >> 8) & 0xFF and
\* block & 0xFF.
OnWire(block) == block % (ByteMod * ByteMod)
=============================================================================
