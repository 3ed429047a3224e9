---------------------------- MODULE Lifecycle ------------------------------
(***************************************************************************)
(* What atecc config promises of a chip, however often it fails, is killed *)
(* or repeated: the chip is open, then has its configuration zone locked   *)
(* as it was asked for, then is active, and never goes back.               *)
(* cmd/atecc/conf.go implements this (Provision!LifecycleSpec).            *)
(***************************************************************************)
EXTENDS Naturals

CONSTANTS
  Zones,                \* what the configuration zone may hold
  Files,                \* the zones that the operator's files describe
  Kept(_),              \* those that the operator may ask of a chip as it is
  Slots,
  Private(_),           \* slots that a zone makes private keys
  Regenerable(_)        \* those whose key may be replaced on an active chip

VARIABLES
  stage,      \* "open", "configured" or "active"
  zone,       \* the configuration zone
  asked,      \* what the operator asked for last
  keys        \* per slot: "none", "unprinted" or "printed" public key

lvars == <<stage, zone, asked, keys>>

Init ==
  /\ stage = "open" /\ zone \in Zones /\ asked \in Files
  /\ keys = [s \in Slots |-> "none"]

\* The operator names a file, or the chip itself (-input device).
Ask ==
  /\ asked' \in Files \cup Kept(zone)
  /\ UNCHANGED <<stage, zone, keys>>

\* Anything may be written as long as the chip is open.
Write ==
  /\ stage = "open"
  /\ zone' \in Zones
  /\ UNCHANGED <<stage, asked, keys>>

\* Only what was asked for is locked, and all of it.
Configure ==
  /\ stage = "open" /\ zone = asked
  /\ stage' = "configured"
  /\ UNCHANGED <<zone, asked, keys>>

\* Keys are generated for the private slots of a locked configuration; on an
\* active chip only for those that the configuration lets be replaced.
Generate(s) ==
  /\ stage # "open" /\ s \in Private(zone)
  /\ stage = "active" => s \in Regenerable(zone)
  /\ \E k \in {"unprinted", "printed"} : keys' = [keys EXCEPT ![s] = k]
  /\ UNCHANGED <<stage, zone, asked>>

\* A chip is made active when the public key of each private slot is known.
Activate ==
  /\ stage = "configured" /\ \A s \in Private(zone) : keys[s] = "printed"
  /\ stage' = "active"
  /\ UNCHANGED <<zone, asked, keys>>

Next == Ask \/ Write \/ Configure \/ (\E s \in Slots : Generate(s)) \/ Activate

Spec == Init /\ [][Next]_lvars
=============================================================================
