------------------------------- MODULE Bytes --------------------------------
(* Bytes and their bits, from the lowest, which is number 0, on, as the code *)
(* sees them: Go's operators & and | on bytes are written bit by bit.        *)
EXTENDS Integers, Sequences

Byte == 0..255

Weight == <<1, 2, 4, 8, 16, 32, 64, 128>>
Bit(b, j) == (b \div Weight[j + 1]) % 2

\* The byte with these bits.
Number(s) ==
  s[1] + 2 * s[2] + 4 * s[3] + 8 * s[4] + 16 * s[5] + 32 * s[6] + 64 * s[7] + 128 * s[8]

\* The bits of the operands at j, together.
Both(a, b, j) == IF Bit(a, j) = 1 /\ Bit(b, j) = 1 THEN 1 ELSE 0
Either(a, b, j) == IF Bit(a, j) = 1 \/ Bit(b, j) = 1 THEN 1 ELSE 0

And(a, b) ==
  Number(<<Both(a, b, 0), Both(a, b, 1), Both(a, b, 2), Both(a, b, 3),
           Both(a, b, 4), Both(a, b, 5), Both(a, b, 6), Both(a, b, 7)>>)
Or(a, b) ==
  Number(<<Either(a, b, 0), Either(a, b, 1), Either(a, b, 2), Either(a, b, 3),
           Either(a, b, 4), Either(a, b, 5), Either(a, b, 6), Either(a, b, 7)>>)
=============================================================================
