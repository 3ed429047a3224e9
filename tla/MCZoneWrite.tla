---------------------------- MODULE MCZoneWrite ----------------------------
(* Arguments at the boundaries: of the blocks, the lock word, the zones. *)
EXTENDS ZoneWrite

MCSlots == {0, 8, 15, 16}
MCOffsets == {0, 4, 16, 28, 30, 32, 64, 84, 124, 252}
MCLengths == {0, 4, 6, 28, 32, 36, 40, 64, 72, 128, 164}
=============================================================================
