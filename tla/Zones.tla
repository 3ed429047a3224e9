------------------------------- MODULE Zones -------------------------------
(***************************************************************************)
(* The memory of the chip as the driver addresses it: zones, their sizes   *)
(* (pkg/atecc/atecc.go) and the packed addresses of words                  *)
(* (pkg/atecc/calib.go).                                                   *)
(***************************************************************************)
EXTENDS Naturals

ZoneNames == {"Config", "OTP", "Data"}
atcaWordSize == 4
atcaBlockSize == 32

\* The word with UserExtra, Selector, LockValue and LockConfig (ateccconf).
LockOffsetBlock == 2
LockOffsetWord == 5

\* getZoneSize returns an error for another zone, or another data slot.
HasZoneSize(zone, slot) == zone \in ZoneNames /\ (zone = "Data" => slot < 16)

getZoneSize(zone, slot) ==
  CASE zone = "Config" -> 128
    [] zone = "OTP" -> 64
    [] zone = "Data" /\ slot < 8 -> 36
    [] zone = "Data" /\ slot = 8 -> 416
    [] OTHER -> 72

\* getAddr: the word of a block in the three low bits, above it the block,
\* or for the data zone the slot and then the block in the high byte.
getAddr(zone, slot, block, word) ==
  IF zone = "Data" THEN slot * 8 + (word % 8) + block * 256
                   ELSE block * 8 + (word % 8)
=============================================================================
