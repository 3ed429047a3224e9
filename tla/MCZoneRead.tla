----------------------------- MODULE MCZoneRead -----------------------------
(* Ranges around the boundaries of blocks and zones.                        *)
EXTENDS ZoneRead

MCSlots == {0, 8, 15}
MCOffsets == {0, 1, 16, 19, 31, 32, 35, 63, 127}
MCLengths == {0, 1, 2, 4, 5, 16, 17, 33, 36, 64, 112, 128}
MCBlocks == {0, 1, 2}
MCWordOffsets == {0, 5, 7}
=============================================================================
