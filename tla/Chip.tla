-------------------------------- MODULE Chip --------------------------------
(***************************************************************************)
(* The ATECC608 on its I2C bus, as pkg/atecc uses it.  The chip is not     *)
(* part of the repository; it is the environment of the driver.  It sleeps *)
(* until a wake pulse, takes one command at a time while awake, does not   *)
(* acknowledge anything while it executes, keeps its last answer in an     *)
(* output buffer, and goes back to sleep when idled or when its watchdog   *)
(* fires.  Idle and sleep differ only in the volatile buffers they keep,   *)
(* which this module does not look at.                                     *)
(***************************************************************************)
EXTENDS ExecTimes

CONSTANTS
  Ops,         \* opcodes the callers execute
  ChipModes,   \* clock dividers a chip may be configured with
  ModeWrites   \* clock dividers a Write of configuration byte 19 may store

\* The commands: an opcode, and the clock divider that a Write stores.
ASSUME OpsAssumption == Ops \subseteq Opcodes /\ "Read" \in Ops

Modes == ChipModes \cup ModeWrites
Commands == [op : Ops, mode : {"keep"}] \cup [op : {"Write"}, mode : ModeWrites]
NoCommand == [op |-> "none", mode |-> "keep"]

VARIABLES
  awake,     \* the chip answers on the bus
  chipCmd,   \* the command it executes, NoCommand when it executes none
  own,       \* ghost: chipCmd was sent by the call in progress
  out,       \* the output buffer: who the bytes answer
  chipDiv,   \* the clock divider in configuration byte 19
  execs      \* ghost: executions begun during the call in progress

chipVars == <<awake, chipCmd, own, out, chipDiv, execs>>

\* "wake": the wake-up token.  "ok", "bad": the answer, or the error status,
\* of a command of the call in progress.  "comm": the status "I received a
\* frame with a wrong CRC".  "stale": an answer to an earlier call.
Outputs == {"none", "wake", "ok", "bad", "comm", "stale"}

Busy == chipCmd # NoCommand
Listening == awake /\ ~Busy

ChipTypeOK ==
  /\ awake \in BOOLEAN
  /\ chipCmd \in Commands \cup {NoCommand}
  /\ own \in BOOLEAN
  /\ out \in Outputs
  /\ chipDiv \in Modes
  /\ execs \in Nat

ChipInit ==
  /\ awake = FALSE
  /\ chipCmd = NoCommand
  /\ own = FALSE
  /\ out = "none"
  /\ chipDiv \in ChipModes
  /\ execs = 0

\* A frame the chip receives intact: the command starts.
Accept(c) ==
  /\ Listening
  /\ chipCmd' = c
  /\ own' = TRUE
  /\ out' = "none"
  /\ execs' = execs + 1
  /\ UNCHANGED <<awake, chipDiv>>

\* A frame the chip acknowledges and then finds damaged.
Reject ==
  /\ Listening
  /\ out' = "comm"
  /\ UNCHANGED <<awake, chipCmd, own, chipDiv, execs>>

\* The wake pulse: a sleeping chip wakes up and offers the wake-up token; on
\* a chip that is awake, or that misses the pulse, it has no effect.
Pulse(felt) ==
  /\ awake' = (awake \/ felt)
  /\ out' = IF ~awake /\ felt THEN "wake" ELSE out
  /\ UNCHANGED <<chipCmd, own, chipDiv, execs>>

\* The idle word: a listening chip stops listening.
GoIdle(felt) ==
  /\ awake' = (awake /\ ~(felt /\ ~Busy))
  /\ out' = IF awake' THEN out ELSE "none"
  /\ UNCHANGED <<chipCmd, own, chipDiv, execs>>

\* A new call begins: what is in the chip belongs to an earlier one.
Age ==
  /\ own' = FALSE
  /\ out' = IF out \in {"ok", "bad", "comm"} THEN "stale" ELSE out
  /\ execs' = 0
  /\ UNCHANGED <<awake, chipCmd, chipDiv>>

\* The command ends; a Write of byte 19 that succeeds changes the divider.
Finish(answer) ==
  /\ awake /\ Busy
  /\ chipCmd' = NoCommand
  /\ out' = IF own THEN answer ELSE "stale"
  /\ chipDiv' = IF answer = "ok" /\ chipCmd.mode # "keep"
                THEN chipCmd.mode ELSE chipDiv
  /\ UNCHANGED <<awake, own, execs>>

\* The watchdog: the chip sleeps, and drops what it was doing.
Sleep ==
  /\ awake
  /\ awake' = FALSE
  /\ chipCmd' = NoCommand
  /\ out' = "none"
  /\ UNCHANGED <<own, chipDiv, execs>>

\* A timer of t milliseconds started with command c cannot end before the
\* chip does when t covers the chip's own execution time.
MayOutlast(c, t) ==
  HasExecutionTime(chipDiv, c.op) => t < ExecutionTime(chipDiv, c.op)
=============================================================================
