---------------------------- MODULE MCProvision ----------------------------
(***************************************************************************)
(* Three configurations: one like Default608 (extra bytes zero, lock bytes *)
(* 0x55), one that sets the extra bytes, and one like                      *)
(* data/config/608/pkcs11, whose bytes 86 and 87 are 0xff.  "moved" is the *)
(* first one with another I2C address, "mixed" a part of one over another. *)
(***************************************************************************)
EXTENDS Provision

MCBodies == {"factory", "default", "moved", "extra", "pkcs11", "mixed"}
MCPrivate(b) == IF b = "extra" THEN {1} ELSE {0, 1}
MCRegenerable(b) == IF b \in {"extra", "mixed"} THEN {} ELSE {0}
MCMixtures(a, b) == IF a = b THEN {} ELSE {"mixed"}
MCReaddressed(b) == IF b = "default" THEN "moved" ELSE b

Default == [body |-> "default", extra |-> Blank, open |-> TRUE]
Extra == [body |-> "extra", extra |-> [b \in ExtraBytes |-> b - 83], open |-> TRUE]
Pkcs11 == [body |-> "pkcs11", extra |-> Blank, open |-> FALSE]

MCAll == {Default, Extra, Pkcs11}
MCShipped == {Pkcs11}
=============================================================================
