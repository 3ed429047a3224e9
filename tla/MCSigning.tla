----------------------------- MODULE MCSigning -----------------------------
(* Two slots, two messages; a key may be replaced once.                    *)
EXTENDS Signing

MCSlots == {0, 1}
MCMessages == {"m1", "m2"}
=============================================================================
