----------------------------- MODULE MCFormats ------------------------------
(* The built-in configuration, and files with a byte at the first and last  *)
(* place of each field.  Masks and shifts treat each bit by itself, so that *)
(* single bits, and their complements, tell any two of them apart; the      *)
(* others are the bytes that have names in JSON.                            *)
EXTENDS Formats

MCDefault608 ==
  <<106, 0, 0, 1, 133, 0, 130, 0, 133, 32, 133, 32, 133, 32, 198, 70,
    143, 15, 159, 143, 15, 15, 143, 15, 15, 15, 15, 15, 15, 15, 15, 15,
    13, 31, 15, 15, 255, 255, 255, 255, 0, 0, 0, 0, 255, 255, 255, 255,
    0, 0, 0, 0, 0, 0, 3, 247, 0, 105, 118, 0, 0, 0, 0, 0,
    0, 0, 0, 0, 0, 0, 85, 85, 255, 255, 14, 96, 0, 0, 0, 0,
    83, 0, 83, 0, 115, 0, 115, 0, 115, 0, 56, 0, 124, 0, 28, 0,
    60, 0, 26, 0, 60, 0, 48, 0, 60, 0, 48, 0, 18, 0, 48, 0>>

MCPositions == {0, 13, 14, 15, 16, 17, 18, 19, 20, 51, 52, 68, 69, 70, 71, 72,
                84, 85, 86, 87, 88, 89, 90, 91, 92, 95, 96, 127}

MCBytes == {2^i : i \in 0..7} \cup {255 - 2^i : i \in 0..7} \cup {0, 255, 40, 104, 24, 28, 85}

MCFiles ==
  {NoFile} \cup {Hex(112, b) : b \in MCBytes} \cup {Hex(len, 165) : len \in {0, 70, 113}}
    \cup {Bits(165)}

MCChipBytes == {0, 85}

\* The address of the chip as it is delivered, in both formats (one with the
\* lowest bit set), and the second without the flag that says so.
MCAddresses == {<<0, FALSE>>, <<96, FALSE>>, <<193, TRUE>>, <<192, FALSE>>}
=============================================================================
