------------------------------ MODULE Command ------------------------------
(***************************************************************************)
(* What Dev.executeResponse promises its caller about one command: it runs *)
(* on the chip a bounded number of times, never after the call returned,   *)
(* and the call reports an answer only if the command ran during the call. *)
(* Nothing is promised the other way round: a call that reports an error   *)
(* may have executed its command, more than once.                          *)
(***************************************************************************)
EXTENDS Naturals

CONSTANT MaxFrames   \* frames a call may transmit

VARIABLES calling, execs, outcome

cvars == <<calling, execs, outcome>>

Init == calling = FALSE /\ execs = 0 /\ outcome = "none"

Begin ==
  /\ ~calling
  /\ calling' = TRUE /\ execs' = 0 /\ outcome' = "none"

Execute ==
  /\ calling
  /\ execs < MaxFrames
  /\ execs' = execs + 1
  /\ UNCHANGED <<calling, outcome>>

\* The answer of the chip, "ok" or a status, comes from an execution.
Answer ==
  /\ calling /\ execs > 0
  /\ calling' = FALSE /\ outcome' \in {"ok", "status"}
  /\ UNCHANGED execs

\* The last frame may execute although the call gives up on it.
Fail ==
  /\ calling
  /\ calling' = FALSE /\ outcome' = "error"
  /\ execs' \in {execs, execs + 1} /\ execs' <= MaxFrames

\* The host process dies: the call never returns.
Crash ==
  /\ calling' = FALSE /\ outcome' = "none"
  /\ UNCHANGED execs

Next == Begin \/ Execute \/ Answer \/ Fail \/ Crash

Spec == Init /\ [][Next]_cvars
=============================================================================
