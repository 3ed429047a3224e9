------------------------------ MODULE Execute ------------------------------
(***************************************************************************)
(* Dev.executeResponse (pkg/atecc/atecc.go), the path of every command,    *)
(* with New/init before it and halI2C (pkg/atecc/hal_i2c.go) below it, on  *)
(* a chip and a bus that may fail.  A call wakes the chip when the driver  *)
(* does not believe it active, transmits the frame until a write succeeds  *)
(* or the attempts run out, waits for the tabulated execution time, reads  *)
(* the answer once, and idles the chip.  The caller may cancel its context *)
(* at any moment, the process may die at any moment.                       *)
(*                                                                         *)
(* The definitions called ...Broken are plausible mistakes in the          *)
(* definition that follows each of them; no other definition uses them.    *)
(***************************************************************************)
EXTENDS Chip

CONSTANT RxRetries   \* IfaceConfig.RxRetries

ASSUME RetriesAssumption == RxRetries \in Nat

VARIABLES
  dstate,     \* Dev.state
  div,        \* Dev.clockDivider
  inited,     \* New has returned this Dev without an error
  pc,         \* where the call in progress is, "ready" between calls
  cmd,        \* the command of the call
  tries,      \* writes that failed: i + 1 of the send loop
  pulses,     \* i of the loop of halI2C.Wake
  cancelled,  \* the context of the call is done
  result,     \* what the call returns, "none" before
  late,       \* ghost: frames written after the context was done
  quiet       \* no bus fault, cancellation or crash happens any more

hostVars == <<dstate, div, inited, pc, cmd, tries, pulses, cancelled, result, late>>
vars == <<hostVars, chipVars, quiet>>

\* The command of Dev.init: read configuration word 4, which holds byte 19.
InitRead == [op |-> "Read", mode |-> "keep"]

Results == {"none", "ok", "stale", "status", "comm", "crc", "read", "send", "ctx", "time"}

TypeOK ==
  /\ ChipTypeOK
  /\ dstate \in {"unknown", "idle", "active"}
  /\ div \in Modes \cup {"M0"}
  /\ inited \in BOOLEAN
  /\ pc \in {"ready", "wake", "send", "backoff", "wait", "read", "defer"}
  /\ cmd \in Commands
  /\ tries \in 0..RxRetries
  /\ pulses \in 0..RxRetries
  /\ cancelled \in BOOLEAN
  /\ result \in Results
  /\ late \in Nat
  /\ quiet \in BOOLEAN

Init ==
  /\ ChipInit
  /\ dstate = "unknown" /\ div = "M0" /\ inited = FALSE
  /\ pc = "ready" /\ cmd = InitRead
  /\ tries = 0 /\ pulses = 0
  /\ cancelled = FALSE /\ result = "none" /\ late = 0
  /\ quiet = FALSE

-----------------------------------------------------------------------------
(* The beginning of a call, and waking the chip.                           *)

\* A caller executes c; before New has succeeded there is only init's read.
Call(c) ==
  /\ pc = "ready"
  /\ inited \/ c = InitRead
  /\ pc' = "wake" /\ cmd' = c
  /\ tries' = 0 /\ pulses' = 0 /\ result' = "none" /\ late' = 0
  /\ cancelled' \in IF quiet THEN {FALSE} ELSE BOOLEAN
  /\ Age
  /\ UNCHANGED <<dstate, div, inited, quiet>>

\* No wake-up for a Dev believed active; and with RxRetries = 0 the loop of
\* halI2C.Wake has no round, so that Wake returns nil.
SkipWake ==
  /\ pc = "wake"
  /\ dstate = "active" \/ RxRetries = 0
  /\ dstate' = "active" /\ pc' = "send"
  /\ UNCHANGED <<div, inited, cmd, tries, pulses, cancelled, result, late, chipVars, quiet>>

\* After the last pulse Wake returns its error, which executeResponse drops.
AfterPulseBroken(token) ==
  IF token \/ pulses + 1 = RxRetries
  THEN pc' = "send" /\ dstate' = "active" /\ UNCHANGED pulses
  ELSE pulses' = pulses + 1 /\ UNCHANGED <<pc, dstate>>
GiveUpOnWakeBroken(token) ==
  \/ token /\ pc' = "send" /\ dstate' = "active" /\ UNCHANGED pulses
  \/ ~token /\ pulses + 1 < RxRetries /\ pulses' = pulses + 1 /\ UNCHANGED <<pc, dstate>>
  \/ ~token /\ pulses + 1 = RxRetries /\ pc' = "backoff" /\ UNCHANGED <<pulses, dstate>>
AfterPulse(token) ==
  \/ token /\ pc' = "send" /\ dstate' = "active" /\ UNCHANGED pulses
  \/ ~token /\ pulses + 1 < RxRetries /\ pulses' = pulses + 1 /\ UNCHANGED <<pc, dstate>>
  \/ ~token /\ pulses + 1 = RxRetries /\ pc' = "send" /\ UNCHANGED <<pulses, dstate>>

\* One round of halI2C.Wake: a pulse, then four bytes that checkWakeUp
\* compares with the token.  A fault may hide the pulse or the token.
WakeRound ==
  /\ pc = "wake" /\ dstate # "active" /\ RxRetries > 0
  /\ \E felt, seen \in IF quiet THEN {TRUE} ELSE BOOLEAN :
       /\ Pulse(felt)
       /\ AfterPulse(seen /\ awake' /\ ~Busy /\ out' = "wake")
  /\ UNCHANGED <<div, inited, cmd, tries, cancelled, result, late, quiet>>

-----------------------------------------------------------------------------
(* The send loop.                                                          *)

\* The call returns r without the deferred Idle.  A Dev whose init failed is
\* dropped: the next New starts from deviceStateUnknown.
Return(r) ==
  /\ pc' = "ready" /\ result' = r
  /\ dstate' = IF inited THEN dstate ELSE "unknown"

\* The write returned no error.  With no table entry, or with the context
\* already done, the wait is not entered; the deferred Idle runs.
Written ==
  /\ dstate' = "active"
  /\ \/ /\ ~HasExecutionTime(div, cmd.op)
        /\ pc' = "defer" /\ result' = "time"
     \/ /\ HasExecutionTime(div, cmd.op) /\ cancelled
        /\ pc' = "defer" /\ result' = "ctx"
     \/ /\ HasExecutionTime(div, cmd.op) /\ ~cancelled
        /\ pc' = "wait" /\ UNCHANGED result

\* The write returned an error: a done context ends the call at once, since
\* the WakeDelay timer has just been started.
NotWrittenBroken == pc' = "backoff" /\ UNCHANGED <<dstate, result>>
NotWritten ==
  \/ cancelled /\ Return("ctx")
  \/ ~cancelled /\ pc' = "backoff" /\ UNCHANGED <<dstate, result>>

\* Every attempt is one frame on the bus, late when the context is done.
Transmit ==
  /\ pc = "send"
  /\ late' = IF cancelled THEN late + 1 ELSE late
  /\ UNCHANGED <<div, inited, cmd, tries, pulses, cancelled, quiet>>

SendAcked == Transmit /\ Accept(cmd) /\ Written
SendGarbled == Transmit /\ ~quiet /\ Reject /\ Written
SendAckLost == Transmit /\ ~quiet /\ Accept(cmd) /\ NotWritten
SendNacked ==
  /\ Transmit
  /\ ~Listening \/ ~quiet
  /\ NotWritten
  /\ UNCHANGED chipVars

\* select between ctx.Done() and the WakeDelay timer, when the context is
\* done while it waits: either may win.
BackoffCancelled ==
  /\ pc = "backoff" /\ cancelled
  /\ Return("ctx")
  /\ UNCHANGED <<div, inited, cmd, tries, pulses, cancelled, late, chipVars, quiet>>

NextTryBroken == tries' = tries
NextTry == tries' = tries + 1

BackoffRetryBroken ==
  /\ pc = "backoff" /\ tries <= RxRetries
  /\ NextTry /\ pulses' = 0 /\ pc' = "wake"
  /\ UNCHANGED <<dstate, div, inited, cmd, cancelled, result, late, chipVars, quiet>>
BackoffRetry ==
  /\ pc = "backoff" /\ tries < RxRetries
  /\ NextTry /\ pulses' = 0 /\ pc' = "wake"
  /\ UNCHANGED <<dstate, div, inited, cmd, cancelled, result, late, chipVars, quiet>>

\* The loop ends with err # nil: the call returns it, before the defer.
OutOfTriesBroken == dstate' = dstate /\ result' = result /\ pc' = "wait"
OutOfTries == Return("send")

BackoffGiveUp ==
  /\ pc = "backoff" /\ tries = RxRetries
  /\ OutOfTries
  /\ UNCHANGED <<div, inited, cmd, tries, pulses, cancelled, late, chipVars, quiet>>

-----------------------------------------------------------------------------
(* Waiting, reading the answer, and the deferred Idle.                     *)

WaitCancelled ==
  /\ pc = "wait" /\ cancelled
  /\ pc' = "defer" /\ result' = "ctx"
  /\ UNCHANGED <<dstate, div, inited, cmd, tries, pulses, cancelled, late, chipVars, quiet>>

\* The timer fires; the chip still executes only if its own time is longer.
WaitOver ==
  /\ pc = "wait"
  /\ Busy => MayOutlast(chipCmd, ExecutionTime(div, cmd.op))
  /\ pc' = "read"
  /\ UNCHANGED <<dstate, div, inited, cmd, tries, pulses, cancelled, result, late, chipVars, quiet>>

\* What a read of the output buffer becomes: an answer of a command, or the
\* error of validateResponseStatusCode.
Outcome ==
  CASE out = "ok" -> "ok"
    [] out = "stale" -> "stale"
    [] out = "comm" -> "comm"
    [] OTHER -> "status"

\* halI2C.Read, once: it fails when the chip does not acknowledge or on a
\* fault; a damaged answer fails the checksum.
ReadAnswer ==
  /\ pc = "read"
  /\ \/ Listening /\ out # "none" /\ result' = Outcome
     \/ (~Listening \/ out = "none" \/ ~quiet) /\ result' = "read"
     \/ Listening /\ out # "none" /\ ~quiet /\ result' = "crc"
  /\ pc' = "defer"
  /\ UNCHANGED <<dstate, div, inited, cmd, tries, pulses, cancelled, late, chipVars, quiet>>

\* Dev.init keeps the divider it has read, once.
LearnDividerBroken == div
LearnDivider == IF ~inited /\ result = "ok" THEN chipDiv ELSE div

\* The deferred Idle, whose error is dropped, and the return.
DeferIdle ==
  /\ pc = "defer"
  /\ \E felt \in IF quiet THEN {TRUE} ELSE BOOLEAN : GoIdle(felt)
  /\ pc' = "ready"
  /\ div' = LearnDivider
  /\ inited' = (inited \/ result = "ok")
  /\ dstate' = IF inited' THEN "idle" ELSE "unknown"
  /\ UNCHANGED <<cmd, tries, pulses, cancelled, result, late, quiet>>

-----------------------------------------------------------------------------
(* What happens around the call.                                           *)

ChipFinish == \E a \in {"ok", "bad"} : Finish(a) /\ UNCHANGED <<hostVars, quiet>>

\* The watchdog: in quiet times a call is shorter than its period.
Watchdog ==
  /\ quiet => pc = "ready"
  /\ Sleep
  /\ UNCHANGED <<hostVars, quiet>>

Cancel ==
  /\ pc # "ready" /\ ~cancelled /\ ~quiet
  /\ cancelled' = TRUE
  /\ UNCHANGED <<dstate, div, inited, pc, cmd, tries, pulses, result, late, chipVars, quiet>>

\* The process dies and a new one calls New; the chip stays as it is.
Restart ==
  /\ ~quiet
  /\ dstate' = "unknown" /\ div' = "M0" /\ inited' = FALSE
  /\ pc' = "ready" /\ result' = "none" /\ cancelled' = FALSE /\ late' = 0
  /\ UNCHANGED <<cmd, tries, pulses, chipVars, quiet>>

BecomeQuiet == ~quiet /\ quiet' = TRUE /\ UNCHANGED <<hostVars, chipVars>>

Host ==
  \/ SkipWake \/ WakeRound
  \/ SendAcked \/ SendGarbled \/ SendAckLost \/ SendNacked
  \/ BackoffCancelled \/ BackoffRetry \/ BackoffGiveUp
  \/ WaitCancelled \/ WaitOver
  \/ ReadAnswer \/ DeferIdle

Next ==
  \/ \E c \in Commands : Call(c)
  \/ Host
  \/ ChipFinish \/ Watchdog \/ Cancel \/ Restart \/ BecomeQuiet

Spec == Init /\ [][Next]_vars

\* The goroutine of the call runs, timers fire, and the chip ends what it
\* executes.  Nothing is assumed of the bus, the caller or the watchdog.
Fairness == WF_vars(Host) /\ WF_vars(ChipFinish)
FairSpec == Spec /\ Fairness

\* A caller that goes on making calls.
BusySpec == FairSpec /\ WF_vars(\E c \in Commands : Call(c))

-----------------------------------------------------------------------------
(* Safety.                                                                 *)

\* A call never takes the answer to an earlier command, left in the chip by
\* a call that was cancelled, failed or died, for the answer to its own.
OwnAnswer == result # "stale"

\* When the answer is read the chip has ended the command ("wait for the
\* operation to finish", atecc.go:374): the divider the wait was computed
\* with is the chip's, although init itself waits without knowing it.
WaitsLongEnough == pc = "read" => ~Busy

\* After its context is done a call puts at most one more frame on the bus,
\* and then it returns the context's error, or that it knows no wait for the
\* command: it never reports what that frame did on the chip.
AfterCancellation ==
  /\ late <= 1
  /\ late = 1 => result \in {"none", "ctx", "time"}
  /\ late = 1 /\ pc = "ready" => result # "none"

\* Dev.state becomes active only when the chip answers on the bus (hal.go:10,
\* "Wake wakes the device up"), at the end of a wake-up or of a write.  With
\* RxRetries = 0 no pulse is ever sent, and the state is active all the same.
ActiveMeansAwake == [][dstate # "active" /\ dstate' = "active" => awake']_vars

\* The calls keep what Command promises, for RxRetries + 1 frames.
OutcomeOf(r) ==
  CASE r \in {"none", "ok", "status"} -> r
    [] OTHER -> "error"

Abstract ==
  INSTANCE Command WITH
    MaxFrames <- RxRetries + 1,
    calling <- pc # "ready",
    execs <- execs,
    outcome <- IF pc = "ready" THEN OutcomeOf(result) ELSE "none"

AbstractSpec == Abstract!Spec

-----------------------------------------------------------------------------
(* Liveness.                                                               *)

\* Every call returns, whatever the bus does.
Returns == pc # "ready" ~> pc = "ready"

\* A Dev that does not believe its chip active gets through to it again once
\* the faults are over, whatever state they left the chip in: asleep, awake
\* with an old answer, or executing an abandoned command.
Recovers ==
  quiet /\ pc = "ready" /\ dstate # "active" /\ result \notin {"ok", "status"}
    ~> result \in {"ok", "status"}
=============
