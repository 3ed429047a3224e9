----------------------------- MODULE MCExecute -----------------------------
(* Small instances of Execute for TLC. *)
EXTENDS Execute

\* A fast command, and one whose time depends on the divider.
MCOps == {"Read", "GenKey"}

\* The dividers with the shortest and the longest times.
MCChipModes == {"M0", "M2"}

\* A configuration may also hold a reserved divider.
MCAnyModes == {"M0", "M2", "reserved"}
MCModeWrites == {"M2", "reserved"}
=============================================================================
