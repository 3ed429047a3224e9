--------------------------- MODULE ExecuteProofs ---------------------------
(***************************************************************************)
(* Proofs about Execute, for any number of retries, any opcodes and any    *)
(* clock dividers.                                                         *)
(***************************************************************************)
EXTENDS Execute, TLAPS

-----------------------------------------------------------------------------
(* Type correctness.                                                       *)

\* What a step of the host leaves to prove of the chip's variables.
LEMMA ChipSteps ==
  ASSUME ChipTypeOK, TypeOK
  PROVE  /\ Age => ChipTypeOK'
         /\ \A c \in Commands : Accept(c) => ChipTypeOK'
         /\ Reject => ChipTypeOK'
         /\ \A b \in BOOLEAN : Pulse(b) => ChipTypeOK'
         /\ \A b \in BOOLEAN : GoIdle(b) => ChipTypeOK'
         /\ \A a \in {"ok", "bad"} : Finish(a) => ChipTypeOK'
         /\ Sleep => ChipTypeOK'
         /\ UNCHANGED chipVars => ChipTypeOK'
<1> USE DEF ChipTypeOK, Outputs, Modes
<1>1. ASSUME Age PROVE ChipTypeOK'
  <2>1. own' \in BOOLEAN
    BY <1>1, Zenon DEF Age
  <2> QED BY <1>1, <2>1 DEF Age
<1>2. \A c \in Commands : Accept(c) => ChipTypeOK'
  BY DEF Accept
<1>3. Reject => ChipTypeOK'
  BY DEF Reject
<1>4. \A b \in BOOLEAN : Pulse(b) => ChipTypeOK'
  BY DEF Pulse
<1>5. \A b \in BOOLEAN : GoIdle(b) => ChipTypeOK'
  BY DEF GoIdle
<1>6. ASSUME NEW a \in {"ok", "bad"}, Finish(a)
      PROVE  ChipTypeOK'
  <2>1. chipCmd \in Commands
    BY <1>6 DEF Finish, Busy
  <2>2. chipCmd.mode # "keep" => chipCmd.mode \in ModeWrites
    BY <2>1 DEF Commands
  <2> QED BY <1>6, <2>2 DEF Finish
<1>7. Sleep => ChipTypeOK'
  BY DEF Sleep
<1>8. UNCHANGED chipVars => ChipTypeOK'
  BY DEF chipVars
<1> QED BY <1>1, <1>2, <1>3, <1>4, <1>5, <1>6, <1>7, <1>8

LEMMA TypeInit ==
  ASSUME Init
  PROVE  TypeOK
<1>1. /\ {awake, own, inited, cancelled, quiet} \subseteq BOOLEAN
      /\ execs = 0 /\ late = 0 /\ tries = 0 /\ pulses = 0
  BY Zenon DEF Init, ChipInit
<1>2. chipCmd = NoCommand /\ cmd \in Commands /\ chipDiv \in Modes
  BY OpsAssumption DEF Init, ChipInit, Commands, InitRead, Modes
<1>3. out \in Outputs /\ dstate = "unknown" /\ div = "M0" /\ pc = "ready" /\ result \in Results
  BY DEF Init, ChipInit, Outputs, Results
<1> QED BY <1>1, <1>2, <1>3, RetriesAssumption DEF TypeOK, ChipTypeOK

LEMMA TypeStep ==
  ASSUME TypeOK, [Next]_vars
  PROVE  TypeOK'
<1>0. ChipTypeOK
  BY DEF TypeOK
<1> USE RetriesAssumption DEF Results
<1>1. ASSUME NEW c \in Commands, Call(c) PROVE TypeOK'
  <2>1. ChipTypeOK'
    BY <1>0, <1>1, ChipSteps DEF Call
  <2>2. cancelled' \in BOOLEAN
    BY <1>1, Zenon DEF Call
  <2>3. pc' = "wake" /\ cmd' = c /\ tries' = 0 /\ pulses' = 0 /\ result' = "none" /\ late' = 0
        /\ UNCHANGED <<dstate, div, inited, quiet>>
    BY <1>1 DEF Call
  <2> QED BY <2>1, <2>2, <2>3 DEF TypeOK
<1>2. CASE SkipWake
  BY <1>0, <1>2, ChipSteps DEF SkipWake, TypeOK
<1>3. CASE WakeRound
  <2>1. ChipTypeOK'
    BY <1>0, <1>3, ChipSteps DEF WakeRound
  <2>2. dstate' \in {"unknown", "idle", "active"} /\ pc' \in {"wake", "send"}
        /\ pulses' \in 0..RxRetries
    BY <1>3 DEF WakeRound, AfterPulse, TypeOK
  <2> QED BY <1>3, <2>1, <2>2 DEF WakeRound, TypeOK
<1>4. CASE SendAcked \/ SendGarbled \/ SendAckLost \/ SendNacked
  <2>1. ChipTypeOK'
    BY <1>0, <1>4, ChipSteps
    DEF SendAcked, SendGarbled, SendAckLost, SendNacked, TypeOK
  <2>2. /\ dstate' \in {"unknown", "idle", "active"}
        /\ pc' \in {"ready", "backoff", "wait", "defer"}
        /\ result' \in Results
    BY <1>4 DEF SendAcked, SendGarbled, SendAckLost, SendNacked, Written,
                NotWritten, Return, TypeOK
  <2>3. Transmit
    BY <1>4 DEF SendAcked, SendGarbled, SendAckLost, SendNacked
  <2> QED BY <2>1, <2>2, <2>3 DEF Transmit, TypeOK
<1>5. CASE BackoffCancelled \/ BackoffRetry \/ BackoffGiveUp
  BY <1>0, <1>5, ChipSteps
  DEF BackoffCancelled, BackoffRetry, BackoffGiveUp, NextTry, OutOfTries, Return, TypeOK
<1>6. CASE WaitCancelled \/ WaitOver \/ ReadAnswer
  BY <1>0, <1>6, ChipSteps DEF WaitCancelled, WaitOver, ReadAnswer, Outcome, TypeOK
<1>7. CASE DeferIdle
  <2>1. ChipTypeOK'
    BY <1>0, <1>7, ChipSteps DEF DeferIdle
  <2> QED BY <1>7, <2>1 DEF DeferIdle, LearnDivider, TypeOK, ChipTypeOK
<1>8. CASE ChipFinish \/ Watchdog
  <2>1. ChipTypeOK'
    BY <1>0, <1>8, ChipSteps DEF ChipFinish, Watchdog
  <2> QED BY <1>8, <2>1 DEF ChipFinish, Watchdog, hostVars, TypeOK
<1>9. CASE Cancel \/ Restart \/ BecomeQuiet
  <2>1. ChipTypeOK'
    BY <1>0, <1>9, ChipSteps DEF Cancel, Restart, BecomeQuiet
  <2>2. {cancelled', inited', quiet'} \subseteq BOOLEAN
    BY <1>9, Zenon DEF Cancel, Restart, BecomeQuiet, hostVars, TypeOK
  <2>3. /\ dstate' \in {dstate, "unknown"} /\ div' \in {div, "M0"} /\ pc' \in {pc, "ready"}
        /\ result' \in {result, "none"} /\ late' \in {late, 0}
        /\ UNCHANGED <<cmd, tries, pulses>>
    BY <1>9 DEF Cancel, Restart, BecomeQuiet, hostVars
  <2> QED BY <2>1, <2>2, <2>3 DEF TypeOK
<1>10. CASE UNCHANGED vars
  BY <1>0, <1>10, ChipSteps DEF vars, hostVars, TypeOK
<1> QED BY <1>1, <1>2, <1>3, <1>4, <1>5, <1>6, <1>7, <1>8, <1>9, <1>10 DEF Next, Host

\* Every variable keeps its type, for any retries, opcodes and dividers.
THEOREM TypeCorrect == Spec => []TypeOK
<1>1. Init => TypeOK
  BY TypeInit
<1>2. TypeOK /\ [Next]_vars => TypeOK'
  BY TypeStep
<1> QED BY <1>1, <1>2, PTL DEF Spec

-----------------------------------------------------------------------------
(* The inductive invariant.  OwnAnswer says nothing of the steps before the *)
(* answer is read; what makes it true is that a write which reports success *)
(* leaves nothing older in the chip (Fresh), and what bounds the executions *)
(* is that a try starts at most one (Counted).                              *)

InCall == pc \in {"wake", "send", "backoff", "wait", "read"}

\* The result is set by the step to the deferred Idle, or by the return.
ResultSet ==
  /\ result # "stale"
  /\ InCall => result = "none"
  /\ pc = "defer" => result # "none"

\* Once a frame was written without an error, the chip executes this call's
\* command or nothing, and its output is about this call.
Fresh ==
  /\ pc \in {"wait", "read"} => out \in {"none", "ok", "bad", "comm"} /\ (Busy => own /\ chipCmd = cmd)
  /\ pc = "wait" => HasExecutionTime(div, cmd.op)

\* A try executes at most once; the chip's answer comes from an execution.
Counted ==
  /\ pc \in {"wake", "send"} => execs <= tries
  /\ pc \in {"backoff", "wait", "read", "defer"} => execs <= tries + 1
  /\ pc # "ready" /\ (own \/ out \in {"ok", "bad"}) => execs > 0
  /\ pc = "defer" /\ result \in {"ok", "status"} => execs > 0

\* A late frame is the last one, and the call ends with it.
LateEnds ==
  /\ InCall => late = 0
  /\ late \in {0, 1}
  /\ late = 1 => result \in {"ctx", "time"}

IInv == TypeOK /\ ResultSet /\ Fresh /\ Counted /\ LateEnds

LEMMA InvInit ==
  ASSUME Init
  PROVE  IInv
<1>1. TypeOK
  BY TypeInit
<1>2. /\ pc = "ready" /\ result = "none" /\ late = 0
  BY DEF Init
<1> QED BY <1>1, <1>2 DEF IInv, ResultSet, Fresh, Counted, LateEnds, InCall

\* Each conjunct is kept by the steps of the call, of the chip and of the
\* environment; the frames are the steps that disturb most of them.
LEMMA InvStep ==
  ASSUME IInv, [Next]_vars
  PROVE  IInv'
<1>0. TypeOK /\ TypeOK'
  BY TypeStep DEF IInv
<1> USE DEF IInv, ResultSet, Fresh, Counted, LateEnds, InCall
<1>1. ASSUME NEW c \in Commands, Call(c) PROVE IInv'
  BY <1>0, <1>1 DEF Call, Age, TypeOK
<1>2. CASE SkipWake
  BY <1>0, <1>2 DEF SkipWake, chipVars, Busy
<1>3. CASE WakeRound
  <2>1. pc = "wake" /\ pc' \in {"wake", "send"} /\ UNCHANGED <<tries, result, late, own, execs>>
    BY <1>3 DEF WakeRound, AfterPulse, Pulse
  <2>2. out' \in {out, "wake"}
    BY <1>3 DEF WakeRound, Pulse
  <2> QED BY <1>0, <2>1, <2>2
<1>4. CASE SendAcked
  BY <1>0, <1>4 DEF SendAcked, Transmit, Accept, Written, TypeOK, ChipTypeOK
<1>5. CASE SendGarbled
  <2>1. ~Busy' /\ out' = "comm" /\ UNCHANGED <<own, execs, tries, cmd, div>>
    BY <1>5 DEF SendGarbled, Transmit, Reject, Listening, Busy
  <2>2. pc = "send" /\ late' \in {0, 1} /\ (late' = 1 => cancelled)
    BY <1>5 DEF SendGarbled, Transmit
  <2>3. Written
    BY <1>5 DEF SendGarbled
  <2> QED BY <1>0, <2>1, <2>2, <2>3 DEF Written, TypeOK, ChipTypeOK
<1>6. CASE SendAckLost
  BY <1>0, <1>6 DEF SendAckLost, Transmit, Accept, NotWritten, Return, TypeOK, ChipTypeOK
<1>7. CASE SendNacked
  BY <1>0, <1>7 DEF SendNacked, Transmit, NotWritten, Return, TypeOK, ChipTypeOK, chipVars
<1>8. CASE BackoffCancelled \/ BackoffRetry \/ BackoffGiveUp
  BY <1>0, <1>8 DEF BackoffCancelled, BackoffRetry, BackoffGiveUp, NextTry, OutOfTries,
                    Return, TypeOK, ChipTypeOK, chipVars
<1>9. CASE WaitCancelled \/ WaitOver
  BY <1>0, <1>9 DEF WaitCancelled, WaitOver, chipVars, Busy
<1>10. CASE ReadAnswer
  BY <1>0, <1>10 DEF ReadAnswer, Outcome, chipVars, Busy
<1>11. CASE DeferIdle
  BY <1>0, <1>11 DEF DeferIdle, GoIdle
<1>12. CASE ChipFinish
  <2>1. PICK a \in {"ok", "bad"} : Finish(a)
    BY <1>12 DEF ChipFinish
  <2> QED BY <1>0, <1>12, <2>1 DEF ChipFinish, Finish, hostVars, Busy
<1>13. CASE Watchdog
  BY <1>0, <1>13 DEF Watchdog, Sleep, hostVars, Busy
<1>14. CASE Cancel \/ Restart
  BY <1>0, <1>14 DEF Cancel, Restart, chipVars, Busy
<1>15. CASE BecomeQuiet \/ UNCHANGED vars
  BY <1>0, <1>15 DEF BecomeQuiet, vars, hostVars, chipVars, Busy
<1> QED BY <1>1, <1>2, <1>3, <1>4, <1>5, <1>6, <1>7, <1>8, <1>9, <1>10, <1>11, <1>12,
           <1>13, <1>14, <1>15 DEF Next, Host

LEMMA Invariance == Spec => []IInv
<1>1. Init => IInv
  BY InvInit
<1>2. IInv /\ [Next]_vars => IInv'
  BY InvStep
<1> QED BY <1>1, <1>2, PTL DEF Spec

-----------------------------------------------------------------------------
(* What follows from the invariant alone.                                  *)

\* No call returns an answer to an earlier command.
THEOREM OwnAnswerAlways == Spec => []OwnAnswer
<1>1. IInv => OwnAnswer
  BY DEF IInv, ResultSet, OwnAnswer
<1> QED BY <1>1, Invariance, PTL

\* A done context lets one more frame out, and no success is reported of it.
THEOREM AfterCancellationAlways == Spec => []AfterCancellation
<1>1. IInv => AfterCancellation
  BY DEF IInv, LateEnds, AfterCancellation
<1> QED BY <1>1, Invariance, PTL

-----------------------------------------------------------------------------
(* The wake-up.                                                            *)

\* With at least one retry, a Dev is believed active only when the chip
\* answered.  With none it is not: SkipWake is the counterexample.
THEOREM ActiveMeansAwakeAlways ==
  ASSUME RxRetries > 0
  PROVE  Spec => ActiveMeansAwake
<1>1. ASSUME [Next]_vars
      PROVE  [dstate # "active" /\ dstate' = "active" => awake']_vars
  <2> SUFFICES ASSUME Next, dstate # "active", dstate' = "active"
               PROVE  awake'
    BY <1>1
  <2>1. CASE WakeRound
    BY <2>1 DEF WakeRound, AfterPulse
  <2>2. CASE SendAcked
    BY <2>2 DEF SendAcked, Accept, Listening
  <2>3. CASE SendGarbled
    BY <2>3 DEF SendGarbled, Reject, Listening
  <2>4. ~SkipWake
    BY DEF SkipWake
  <2>5. ~SendAckLost /\ ~SendNacked
    BY DEF SendAckLost, SendNacked, NotWritten, Return
  <2>6. /\ ~BackoffCancelled /\ ~BackoffRetry /\ ~BackoffGiveUp
        /\ ~WaitCancelled /\ ~WaitOver /\ ~ReadAnswer /\ ~DeferIdle
    BY DEF BackoffCancelled, BackoffRetry, BackoffGiveUp, OutOfTries, Return,
           WaitCancelled, WaitOver, ReadAnswer, DeferIdle
  <2>7. /\ \A c \in Commands : ~Call(c)
        /\ ~ChipFinish /\ ~Watchdog /\ ~Cancel /\ ~Restart /\ ~BecomeQuiet
    BY DEF Call, ChipFinish, Watchdog, Cancel, Restart, BecomeQuiet, hostVars
  <2> QED BY <2>1, <2>2, <2>3, <2>4, <2>5, <2>6, <2>7 DEF Next, Host
<1> QED BY <1>1, PTL DEF Spec, ActiveMeansAwake

-----------------------------------------------------------------------------
(* The wait.                                                               *)

\* What init does before the divider is known: every mode reads in 5 ms.
LEMMA ReadTime ==
  \A d \in Dividers : HasExecutionTime(d, "Read") /\ ExecutionTime(d, "Read") = 5
BY DEF Dividers, HasExecutionTime, ExecutionTime, ExecutionTimes, Opcodes, Slower,
       TimesM0, TimesM1, TimesM2

LEMMA TimesAreNumbers ==
  \A d \in Dividers, op \in Opcodes : ExecutionTime(d, op) \in Nat
<1>1. \A op \in Opcodes : TimesM0[op] \in Nat
  BY DEF Opcodes, TimesM0
<1>2. \A op \in Opcodes : TimesM1[op] \in Nat
  BY <1>1 DEF TimesM1, Slower
<1>3. \A op \in Opcodes : TimesM2[op] \in Nat
  BY <1>2 DEF TimesM2, Slower
<1> QED BY <1>1, <1>2, <1>3 DEF Dividers, ExecutionTime, ExecutionTimes

\* The divider of the host is the chip's, or the command is init's read.
Divider ==
  /\ chipDiv \in Dividers
  /\ inited => div = chipDiv
  /\ ~inited => div = "M0" /\ (pc # "ready" => cmd = InitRead)
  /\ WaitsLongEnough

LEMMA DividerStep ==
  ASSUME ModeWrites = {}, ChipModes \subseteq Dividers,
         IInv, Divider, [Next]_vars
  PROVE  Divider'
<1>0. TypeOK
  BY DEF IInv
<1> USE DEF Divider, WaitsLongEnough
<1>1. \A c \in Commands : c.mode = "keep"
  BY DEF Commands
<1>2. ASSUME NEW c \in Commands, Call(c) PROVE Divider'
  BY <1>2, Zenon DEF Call, Age
<1>3. CASE SkipWake
  BY <1>3 DEF SkipWake, chipVars, Busy
<1>4. CASE WakeRound
  <2>1. pc = "wake" /\ pc' \in {"wake", "send"} /\ UNCHANGED <<chipDiv, inited, div, cmd>>
    BY <1>4 DEF WakeRound, AfterPulse, Pulse
  <2> QED BY <2>1
<1>5. CASE SendAcked \/ SendGarbled \/ SendAckLost \/ SendNacked
  <2>1. pc = "send" /\ UNCHANGED <<chipDiv, inited, div, cmd>>
    BY <1>5 DEF SendAcked, SendGarbled, SendAckLost, SendNacked, Transmit, Accept, Reject, chipVars
  <2>2. pc' \in {"ready", "backoff", "wait", "defer"}
    BY <1>5 DEF SendAcked, SendGarbled, SendAckLost, SendNacked, Written, NotWritten, Return
  <2> QED BY <2>1, <2>2
<1>6. CASE BackoffCancelled \/ BackoffRetry \/ BackoffGiveUp
  BY <1>6 DEF BackoffCancelled, BackoffRetry, BackoffGiveUp, OutOfTries, Return, chipVars
<1>7. CASE WaitCancelled
  BY <1>7 DEF WaitCancelled, chipVars
<1>8. CASE WaitOver
  <2>1. UNCHANGED <<chipDiv, inited, div, cmd, chipCmd>>
    BY <1>8 DEF WaitOver, chipVars
  <2>2. ASSUME Busy PROVE FALSE
    <3>1. /\ chipCmd = cmd /\ HasExecutionTime(div, cmd.op)
          /\ MayOutlast(cmd, ExecutionTime(div, cmd.op))
      BY <1>8, <2>2 DEF WaitOver, IInv, Fresh
    <3>2. cmd.op \in Opcodes /\ HasExecutionTime(chipDiv, cmd.op)
      BY <3>1 DEF HasExecutionTime
    <3>3. ExecutionTime(div, cmd.op) < ExecutionTime(chipDiv, cmd.op)
      BY <3>1, <3>2 DEF MayOutlast
    <3>4. ExecutionTime(div, cmd.op) = ExecutionTime(chipDiv, cmd.op)
      <4>1. CASE inited
        BY <4>1
      <4>2. CASE ~inited
        <5>1. cmd.op = "Read" /\ div = "M0"
          BY <1>8, <4>2 DEF WaitOver, InitRead
        <5> QED BY <5>1, ReadTime DEF Dividers
      <4> QED BY <4>1, <4>2
    <3>5. ExecutionTime(chipDiv, cmd.op) \in Nat
      BY <3>2, TimesAreNumbers
    <3> QED BY <3>3, <3>4, <3>5
  <2>3. ~Busy'
    BY <2>1, <2>2 DEF Busy
  <2> QED BY <1>8, <2>1, <2>3 DEF WaitOver
<1>9. CASE ReadAnswer
  BY <1>9 DEF ReadAnswer, chipVars
<1>10. CASE DeferIdle
  <2>1. UNCHANGED chipDiv /\ pc' = "ready" /\ div' = LearnDivider
    BY <1>10 DEF DeferIdle, GoIdle
  <2>2. inited' <=> (inited \/ result = "ok")
    BY <1>10 DEF DeferIdle
  <2> QED BY <2>1, <2>2 DEF LearnDivider
<1>11. CASE ChipFinish
  <2>1. PICK a \in {"ok", "bad"} : Finish(a)
    BY <1>11 DEF ChipFinish
  <2>2. chipCmd.mode = "keep"
    BY <1>0, <1>1, <2>1 DEF TypeOK, ChipTypeOK, Finish, Busy
  <2> QED BY <1>11, <2>1, <2>2 DEF ChipFinish, Finish, hostVars, Busy
<1>12. CASE Watchdog
  BY <1>12 DEF Watchdog, Sleep, hostVars, Busy
<1>13. CASE Cancel
  BY <1>13 DEF Cancel, chipVars, Busy
<1>14. CASE Restart
  BY <1>14, Zenon DEF Restart, chipVars
<1>15. CASE BecomeQuiet \/ UNCHANGED vars
  BY <1>15 DEF BecomeQuiet, vars, hostVars, chipVars, Busy
<1> QED BY <1>2, <1>3, <1>4, <1>5, <1>6, <1>7, <1>8, <1>9, <1>10, <1>11, <1>12,
           <1>13, <1>14, <1>15 DEF Next, Host

\* On a chip configured with a known divider that no command rewrites, the
\* answer is never read before the chip has ended the command.
THEOREM WaitsLongEnoughAlways ==
  ASSUME ModeWrites = {}, ChipModes \subseteq Dividers
  PROVE  Spec => []WaitsLongEnough
<1>1. ASSUME Init PROVE Divider
  BY <1>1, Zenon DEF Init, ChipInit, Divider, WaitsLongEnough
<1>2. IInv /\ Divider /\ [Next]_vars => Divider'
  BY DividerStep
<1>3. Divider => WaitsLongEnough
  BY DEF Divider
<1> QED BY <1>1, <1>2, <1>3, Invariance, PTL DEF Spec

-----------------------------------------------------------------------------
(* Execute implements Command.                                             *)

LEMMA StepSimulation ==
  ASSUME IInv, [Next]_vars
  PROVE  [Abstract!Next]_(Abstract!cvars)
<1>0. TypeOK
  BY DEF IInv
<1>0a. /\ tries \in Nat /\ RxRetries \in Nat /\ tries <= RxRetries /\ execs \in Nat
  BY <1>0, RetriesAssumption DEF TypeOK, ChipTypeOK
<1>0b. /\ pc = "send" => execs < RxRetries + 1
       /\ pc # "ready" => execs <= RxRetries + 1
  BY <1>0, <1>0a DEF IInv, Counted, TypeOK
<1> USE DEF Abstract!Next, Abstract!cvars
<1>1. ASSUME NEW c \in Commands, Call(c) PROVE Abstract!Begin
  BY <1>1 DEF Call, Age, Abstract!Begin
<1>2. CASE SkipWake \/ WakeRound \/ WaitCancelled \/ WaitOver \/ ReadAnswer
  <2>1. pc # "ready" /\ pc' # "ready" /\ execs' = execs
    BY <1>2 DEF SkipWake, WakeRound, AfterPulse, Pulse, WaitCancelled, WaitOver, ReadAnswer, chipVars
  <2> QED BY <2>1
<1>3. CASE SendAcked
  <2>1. pc = "send" /\ pc' # "ready" /\ execs' = execs + 1
    BY <1>3 DEF SendAcked, Transmit, Accept, Written
  <2> QED BY <1>0b, <2>1 DEF Abstract!Execute
<1>4. CASE SendGarbled
  <2>1. pc = "send" /\ pc' # "ready" /\ execs' = execs
    BY <1>4 DEF SendGarbled, Transmit, Reject, Written
  <2> QED BY <2>1
<1>5. CASE SendAckLost
  <2>1. pc = "send" /\ execs' = execs + 1
    BY <1>5 DEF SendAckLost, Transmit, Accept
  <2>2. CASE pc' = "backoff"
    BY <1>0b, <2>1, <2>2 DEF Abstract!Execute
  <2>3. CASE Return("ctx")
    BY <1>0a, <1>0b, <2>1, <2>3 DEF Return, OutcomeOf, Abstract!Fail
  <2> QED BY <1>5, <2>2, <2>3 DEF SendAckLost, NotWritten
<1>6. CASE SendNacked
  <2>1. pc = "send" /\ execs' = execs
    BY <1>6 DEF SendNacked, Transmit, chipVars
  <2>2. CASE pc' = "backoff"
    BY <2>1, <2>2
  <2>3. CASE Return("ctx")
    BY <1>0a, <1>0b, <2>1, <2>3 DEF Return, OutcomeOf, Abstract!Fail
  <2> QED BY <1>6, <2>2, <2>3 DEF SendNacked, NotWritten
<1>7. CASE BackoffRetry
  BY <1>7 DEF BackoffRetry, chipVars
<1>8. CASE BackoffCancelled \/ BackoffGiveUp
  <2>1. pc = "backoff" /\ execs' = execs /\ pc' = "ready" /\ result' \in {"ctx", "send"}
    BY <1>8 DEF BackoffCancelled, BackoffGiveUp, OutOfTries, Return, chipVars
  <2> QED BY <1>0a, <1>0b, <2>1 DEF OutcomeOf, Abstract!Fail
<1>9. CASE DeferIdle
  <2>1. pc = "defer" /\ execs' = execs /\ pc' = "ready" /\ result' = result
    BY <1>9 DEF DeferIdle, GoIdle
  <2>2. CASE result \in {"ok", "status"}
    BY <2>1, <2>2 DEF IInv, Counted, OutcomeOf, Abstract!Answer
  <2>3. CASE result \notin {"ok", "status"}
    <3>1. result # "none"
      BY <2>1 DEF IInv, ResultSet
    <3> QED BY <1>0a, <1>0b, <2>1, <2>3, <3>1 DEF OutcomeOf, Abstract!Fail
  <2> QED BY <2>2, <2>3
<1>10. CASE Restart
  BY <1>10 DEF Restart, chipVars, OutcomeOf, Abstract!Crash
<1>11. CASE ChipFinish \/ Watchdog \/ Cancel \/ BecomeQuiet \/ UNCHANGED vars
  BY <1>11 DEF ChipFinish, Finish, Watchdog, Sleep, Cancel, BecomeQuiet, vars, hostVars, chipVars
<1> QED BY <1>1, <1>2, <1>3, <1>4, <1>5, <1>6, <1>7, <1>8, <1>9, <1>10, <1>11 DEF Next, Host

\* A call executes its command at most RxRetries + 1 times, never between
\* calls, and answers only if the command ran: Command, under the mapping of
\* Execute!Abstract.
THEOREM Implements == Spec => AbstractSpec
<1>1. Init => Abstract!Init
  BY DEF Init, ChipInit, OutcomeOf, Abstract!Init
<1>2. IInv /\ [Next]_vars => [Abstract!Next]_(Abstract!cvars)
  BY StepSimulation
<1> QED BY <1>1, <1>2, Invariance, PTL DEF Spec, AbstractSpec, Abstract!Spec
-----------------------------------------------------------------------------
(* A call ends.                                                            *)

\* The attempts the send loop has left, and the steps that are left of this
\* one when nothing fails: at most one per pulse, and one per point behind.
Attempts == RxRetries - tries
Steps ==
  CASE pc = "wake" -> (RxRetries - pulses) + 6
    [] pc = "send" -> 5
    [] pc = "backoff" -> 4
    [] pc = "wait" -> 3
    [] pc = "read" -> 2
    [] pc = "defer" -> 1
    [] OTHER -> 0

CloserToReturn ==
  \/ pc' = "ready"
  \/ Attempts' < Attempts
  \/ Attempts' = Attempts /\ Steps' < Steps

\* The steps of the chip, the bus and the caller's context do not prolong it.
NoFurther == pc' = "ready" \/ UNCHANGED <<pc, tries, pulses>>

LEMMA HostCloser ==
  ASSUME TypeOK, Host
  PROVE  CloserToReturn
<1> USE RetriesAssumption DEF CloserToReturn, Attempts, Steps
<1>1. tries \in 0..RxRetries /\ pulses \in 0..RxRetries
  BY DEF TypeOK
<1>2. CASE SkipWake
  BY <1>1, <1>2 DEF SkipWake
<1>3. CASE WakeRound
  <2>1. PICK token \in BOOLEAN : AfterPulse(token)
    BY <1>3, Zenon DEF WakeRound
  <2>2. pc = "wake" /\ tries' = tries
    BY <1>3 DEF WakeRound
  <2> QED BY <1>1, <2>1, <2>2 DEF AfterPulse
<1>4. CASE SendAcked \/ SendGarbled \/ SendAckLost \/ SendNacked
  <2>1. pc = "send" /\ tries' = tries /\ pc' \in {"ready", "backoff", "wait", "defer"}
    BY <1>4 DEF SendAcked, SendGarbled, SendAckLost, SendNacked, Transmit, Written,
                NotWritten, Return
  <2> QED BY <1>1, <2>1
<1>5. CASE BackoffCancelled \/ BackoffGiveUp
  BY <1>5 DEF BackoffCancelled, BackoffGiveUp, OutOfTries, Return
<1>6. CASE BackoffRetry
  BY <1>1, <1>6 DEF BackoffRetry, NextTry
<1>7. CASE WaitCancelled \/ WaitOver \/ ReadAnswer
  BY <1>1, <1>7 DEF WaitCancelled, WaitOver, ReadAnswer
<1>8. CASE DeferIdle
  BY <1>8 DEF DeferIdle
<1> QED BY <1>2, <1>3, <1>4, <1>5, <1>6, <1>7, <1>8 DEF Host

LEMMA OthersNoFurther ==
  ASSUME Next, ~Host, pc # "ready"
  PROVE  NoFurther
<1>1. \A c \in Commands : ~Call(c)
  BY DEF Call
<1>2. ChipFinish \/ Watchdog \/ Cancel \/ Restart \/ BecomeQuiet
  BY <1>1 DEF Next
<1> QED BY <1>2 DEF ChipFinish, Watchdog, Cancel, Restart, BecomeQuiet, hostVars, NoFurther

\* What makes every call return (Execute!Returns), for any RxRetries: two
\* counters, of the loops of executeResponse and of halI2C.Wake, that each
\* step of the goroutine brings down, in this order, and that no fault,
\* cancellation or step of the chip brings up again.
THEOREM CallsRunOut ==
  Spec => /\ [](Attempts \in Nat /\ Steps \in Nat)
          /\ [][/\ Host => CloserToReturn
                /\ pc # "ready" /\ ~Host => NoFurther]_vars
<1>1. TypeOK => Attempts \in Nat /\ Steps \in Nat
  BY RetriesAssumption DEF TypeOK, Attempts, Steps
<1>2. ASSUME TypeOK, [Next]_vars
      PROVE  [/\ Host => CloserToReturn
              /\ pc # "ready" /\ ~Host => NoFurther]_vars
  BY <1>2, HostCloser, OthersNoFurther
<1> QED BY <1>1, <1>2, TypeCorrect, PTL DEF Spec
-----------------------------------------------------------------------------
(* In quiet times a call gets through.                                     *)

\* Faults are over, and the Dev does not believe its chip active: between
\* calls, or in one that has not reached the chip.
Troubled ==
  /\ quiet /\ dstate # "active"
  /\ pc = "ready" \/ (pc \in {"wake", "send", "backoff"} /\ ~cancelled)

\* A call on its way to the answer of the chip.
OnTrack ==
  /\ quiet /\ ~cancelled /\ pc \in {"wake", "send", "wait", "read", "defer"}
  /\ pc = "wake" => dstate # "active" /\ ~Busy
  /\ pc = "send" => Listening
  /\ pc = "wait" => awake /\ (Busy => own) /\ (~Busy => out \in {"ok", "bad"})
  /\ pc = "read" => Listening /\ out \in {"ok", "bad"}
  /\ pc = "defer" => result \in {"ok", "status"}

Reached == pc = "ready" /\ result \in {"ok", "status"}

\* With known dividers the wait is known for every command.
LEMMA TimesKnown ==
  ASSUME ModeWrites = {}, ChipModes \subseteq Dividers, TypeOK, Divider, pc # "ready"
  PROVE  HasExecutionTime(div, cmd.op)
<1>1. cmd.op \in Opcodes
  BY OpsAssumption DEF TypeOK, Commands
<1>2. div \in Dividers
  BY DEF Divider, Dividers
<1> QED BY <1>1, <1>2 DEF HasExecutionTime

\* A Dev that does not believe its chip active wakes it, retries allowing.
LEMMA WakesFirst ==
  ASSUME RxRetries > 0, dstate # "active", pc = "wake", Host
  PROVE  WakeRound
<1>1. ~SkipWake
  <2>1. RxRetries # 0
    BY RetriesAssumption
  <2> QED BY <2>1 DEF SkipWake
<1>2. ~SendAcked /\ ~SendGarbled /\ ~SendAckLost /\ ~SendNacked
  BY DEF SendAcked, SendGarbled, SendAckLost, SendNacked, Transmit
<1>3. ~BackoffCancelled /\ ~BackoffRetry /\ ~BackoffGiveUp /\ ~WaitCancelled /\ ~WaitOver
      /\ ~ReadAnswer /\ ~DeferIdle
  BY DEF BackoffCancelled, BackoffRetry, BackoffGiveUp, WaitCancelled, WaitOver, ReadAnswer,
         DeferIdle
<1> QED BY <1>1, <1>2, <1>3 DEF Host

\* The pulse of a call that the chip can hear.
LEMMA WakeOnTrack ==
  ASSUME RxRetries > 0, quiet, ~cancelled, dstate # "active", WakeRound
  PROVE  /\ ~Busy => OnTrack'
         /\ OnTrack' \/ Troubled'
         /\ UNCHANGED chipCmd
<1>1. PICK token \in BOOLEAN :
        /\ Pulse(TRUE) /\ AfterPulse(token)
        /\ token = (awake' /\ ~Busy /\ out' = "wake")
  BY Zenon DEF WakeRound
<1>2. awake' /\ chipCmd' = chipCmd /\ (~awake => out' = "wake")
  BY <1>1 DEF Pulse
<1>3. UNCHANGED <<quiet, cancelled>> /\ pc = "wake"
  BY DEF WakeRound
<1>4. Busy' = Busy
  BY <1>2 DEF Busy
<1>5. CASE token
  BY <1>1, <1>2, <1>3, <1>4, <1>5 DEF AfterPulse, OnTrack, Listening
<1>6. CASE ~token
  BY <1>1, <1>2, <1>3, <1>4, <1>6 DEF AfterPulse, OnTrack, Troubled, Listening
<1> QED BY <1>2, <1>5, <1>6

\* The frame of a call that the chip can hear.
LEMMA SendOnTrack ==
  ASSUME ModeWrites = {}, ChipModes \subseteq Dividers, TypeOK, Divider,
         quiet, ~cancelled, Host, pc = "send"
  PROVE  /\ Listening => OnTrack'
         /\ ~Listening => SendNacked
         /\ OnTrack' \/ (SendNacked /\ UNCHANGED chipVars)
<1>1. SendAcked \/ SendNacked
  BY DEF Host, SkipWake, WakeRound, SendGarbled, SendAckLost, BackoffCancelled, BackoffRetry,
         BackoffGiveUp, WaitCancelled, WaitOver, ReadAnswer, DeferIdle
<1>2. ASSUME SendAcked PROVE OnTrack' /\ Listening
  <2>1. Listening /\ pc' = "wait" /\ UNCHANGED <<quiet, cancelled>>
    BY <1>2, TimesKnown DEF SendAcked, Transmit, Accept, Written
  <2>2. awake' /\ own' /\ chipCmd' = cmd
    BY <1>2, <2>1 DEF SendAcked, Accept, Listening
  <2>3. Busy'
    <3>1. cmd.op \in Opcodes
      BY OpsAssumption DEF TypeOK, Commands
    <3> QED BY <2>2, <3>1 DEF Busy, NoCommand, Opcodes, TimesM0
  <2> QED BY <2>1, <2>2, <2>3 DEF OnTrack
<1>3. ASSUME SendNacked PROVE ~Listening /\ UNCHANGED chipVars
  BY <1>3 DEF SendNacked
<1> QED BY <1>1, <1>2, <1>3

\* Once on its way a call ends with the answer or the status of the chip.
LEMMA OnTrackStep ==
  ASSUME RxRetries > 0, ModeWrites = {}, ChipModes \subseteq Dividers,
         IInv, Divider, Divider', OnTrack, Next
  PROVE  OnTrack' \/ Reached'
<1>0. TypeOK /\ quiet /\ ~cancelled /\ pc # "ready"
  BY DEF IInv, OnTrack
<1>1. \A c \in Commands : ~Call(c)
  BY <1>0 DEF Call
<1>2. ~Watchdog /\ ~Cancel /\ ~Restart /\ ~BecomeQuiet
  BY <1>0 DEF Watchdog, Cancel, Restart, BecomeQuiet
<1>3. CASE ChipFinish
  <2>1. PICK a \in {"ok", "bad"} : Finish(a)
    BY <1>3 DEF ChipFinish
  <2>2. Busy /\ ~Busy' /\ awake' = awake /\ out' = IF own THEN a ELSE "stale"
    BY <2>1 DEF Finish, Busy
  <2>3. UNCHANGED <<quiet, cancelled, pc, dstate, result>>
    BY <1>3 DEF ChipFinish, hostVars
  <2> QED BY <2>2, <2>3 DEF OnTrack, Listening
<1>4. CASE Host /\ pc = "wake"
  <2>1. WakeRound
    BY <1>4, WakesFirst DEF OnTrack
  <2> QED BY <1>0, <1>4, <2>1, WakeOnTrack DEF OnTrack
<1>5. CASE Host /\ pc = "send"
  BY <1>0, <1>5, SendOnTrack DEF OnTrack
<1>6. CASE Host /\ pc = "wait"
  <2>1. WaitOver
    BY <1>0, <1>6 DEF Host, SkipWake, WakeRound, SendAcked, SendGarbled, SendAckLost, SendNacked,
                Transmit, BackoffCancelled, BackoffRetry, BackoffGiveUp, WaitCancelled, ReadAnswer,
                DeferIdle
  <2>2. pc' = "read" /\ UNCHANGED <<quiet, cancelled, awake, out, chipCmd>>
    BY <2>1 DEF WaitOver, chipVars
  <2>3. ~Busy' /\ ~Busy
    BY <2>2 DEF Divider, WaitsLongEnough, Busy
  <2> QED BY <1>6, <2>2, <2>3 DEF OnTrack, Listening
<1>7. CASE Host /\ pc = "read"
  <2>1. ReadAnswer
    BY <1>7 DEF Host, SkipWake, WakeRound, SendAcked, SendGarbled, SendAckLost, SendNacked,
                Transmit, BackoffCancelled, BackoffRetry, BackoffGiveUp, WaitCancelled, WaitOver,
                DeferIdle
  <2>2. result' = Outcome /\ Outcome \in {"ok", "status"}
    BY <1>0, <1>7, <2>1 DEF ReadAnswer, OnTrack, Outcome
  <2> QED BY <1>0, <2>1, <2>2 DEF ReadAnswer, OnTrack
<1>8. CASE Host /\ pc = "defer"
  <2>1. DeferIdle
    BY <1>8 DEF Host, SkipWake, WakeRound, SendAcked, SendGarbled, SendAckLost, SendNacked,
                Transmit, BackoffCancelled, BackoffRetry, BackoffGiveUp, WaitCancelled, WaitOver,
                ReadAnswer
  <2> QED BY <1>8, <2>1 DEF DeferIdle, OnTrack, Reached
<1> QED BY <1>1, <1>2, <1>3, <1>4, <1>5, <1>6, <1>7, <1>8 DEF Next, OnTrack

\* A call that has not reached the chip ends as it began, or reaches it; and
\* a chip that has ended the command of an abandoned call gets no new one.
LEMMA TroubledStep ==
  ASSUME RxRetries > 0, ModeWrites = {}, ChipModes \subseteq Dividers,
         IInv, Divider, Troubled, Next
  PROVE  /\ Troubled' \/ OnTrack'
         /\ ~Busy => ~Busy' \/ OnTrack'
         /\ pc = "ready" /\ pc' # "ready" /\ ~Busy => OnTrack'
<1>0. TypeOK /\ quiet /\ dstate # "active"
  BY DEF IInv, Troubled
<1>1. ASSUME NEW c \in Commands, Call(c)
      PROVE  Troubled' /\ Busy' = Busy /\ (~Busy => OnTrack')
  <2>1. pc' = "wake" /\ ~cancelled' /\ UNCHANGED <<quiet, dstate>> /\ Age
    BY <1>0, <1>1 DEF Call
  <2>2. Busy' = Busy
    BY <2>1 DEF Age, Busy
  <2> QED BY <1>0, <2>1, <2>2 DEF Troubled, OnTrack
<1>2. CASE ChipFinish
  <2>1. Busy /\ UNCHANGED <<quiet, cancelled, pc, dstate>>
    BY <1>2 DEF ChipFinish, Finish, hostVars
  <2> QED BY <2>1 DEF Troubled
<1>3. CASE Watchdog
  <2>1. ~Busy' /\ UNCHANGED <<quiet, cancelled, pc, dstate>>
    BY <1>3 DEF Watchdog, Sleep, hostVars, Busy
  <2> QED BY <2>1 DEF Troubled
<1>4. ~Restart /\ ~Cancel /\ ~BecomeQuiet
  BY <1>0 DEF Restart, Cancel, BecomeQuiet
<1>5. CASE Host /\ pc = "wake"
  <2>1. WakeRound
    BY <1>0, <1>5, WakesFirst
  <2> QED BY <1>0, <1>5, <2>1, WakeOnTrack DEF Troubled, Busy
<1>6. CASE Host /\ pc = "send"
  <2>1. ~cancelled
    BY <1>6 DEF Troubled
  <2>2. OnTrack' \/ (SendNacked /\ UNCHANGED chipVars)
    BY <1>0, <1>6, <2>1, SendOnTrack
  <2>3. ASSUME SendNacked, UNCHANGED chipVars
        PROVE  Troubled' /\ Busy' = Busy
    BY <1>0, <2>1, <2>3 DEF SendNacked, Transmit, NotWritten, Troubled, chipVars, Busy
  <2> QED BY <1>6, <2>2, <2>3
<1>7. CASE Host /\ pc = "backoff"
  <2>1. BackoffRetry \/ BackoffGiveUp
    BY <1>7 DEF Host, Troubled, SkipWake, WakeRound, SendAcked, SendGarbled, SendAckLost,
                SendNacked, Transmit, BackoffCancelled, WaitCancelled, WaitOver, ReadAnswer, DeferIdle
  <2>2. Busy' = Busy
    BY <2>1 DEF BackoffRetry, BackoffGiveUp, chipVars, Busy
  <2>3. ~cancelled
    BY <1>7 DEF Troubled
  <2>4. CASE BackoffRetry
    <3>1. pc' = "wake" /\ UNCHANGED <<quiet, cancelled, dstate>>
      BY <2>4 DEF BackoffRetry
    <3> QED BY <1>0, <1>7, <2>2, <2>3, <3>1 DEF Troubled
  <2>5. CASE BackoffGiveUp
    <3>1. pc' = "ready" /\ UNCHANGED quiet /\ dstate' \in {dstate, "unknown"}
      BY <2>5 DEF BackoffGiveUp, OutOfTries, Return
    <3> QED BY <1>0, <1>7, <2>2, <3>1 DEF Troubled
  <2> QED BY <2>1, <2>4, <2>5
<1>8. pc = "ready" => ~Host
  BY DEF Host, SkipWake, WakeRound, SendAcked, SendGarbled, SendAckLost, SendNacked, Transmit,
         BackoffCancelled, BackoffRetry, BackoffGiveUp, WaitCancelled, WaitOver, ReadAnswer,
         DeferIdle
<1>9. ChipFinish \/ Watchdog => pc' = pc
  BY DEF ChipFinish, Watchdog, hostVars
<1> QED BY <1>1, <1>2, <1>3, <1>4, <1>5, <1>6, <1>7, <1>8, <1>9 DEF Next, Troubled

\* What makes a Dev get through to its chip again (Execute!Recovers), for any
\* number of retries but none, opcodes and known dividers: once faults are
\* over, a call that begins when the chip executes nothing gets an answer or
\* a status from it, whatever the output buffer holds and whether the chip
\* sleeps or not; and until then no call makes the Dev believe the chip
\* active, or has the chip execute something else.  CallsRunOut has the rest,
\* but for the chip's own end of what it executes.
THEOREM QuietCallsReach ==
  ASSUME RxRetries > 0, ModeWrites = {}, ChipModes \subseteq Dividers
  PROVE  Spec => [][/\ Troubled => /\ Troubled' \/ OnTrack'
                                   /\ ~Busy => ~Busy' \/ OnTrack'
                                   /\ pc = "ready" /\ pc' # "ready" /\ ~Busy => OnTrack'
                    /\ OnTrack => OnTrack' \/ Reached']_vars
<1>1. ASSUME Init PROVE Divider
  BY <1>1, Zenon DEF Init, ChipInit, Divider, WaitsLongEnough
<1>2. IInv /\ Divider /\ [Next]_vars => Divider'
  BY DividerStep
<1> DEFINE Ways == /\ Troubled => /\ Troubled' \/ OnTrack'
                                  /\ ~Busy => ~Busy' \/ OnTrack'
                                  /\ pc = "ready" /\ pc' # "ready" /\ ~Busy => OnTrack'
                   /\ OnTrack => OnTrack' \/ Reached'
<1>3. ASSUME IInv, Divider, [Next]_vars
      PROVE  [Ways]_vars
  <2> SUFFICES ASSUME Next PROVE Ways
    BY <1>3
  <2>1. Divider'
    BY <1>2, <1>3
  <2> QED BY <1>3, <2>1, TroubledStep, OnTrackStep
<1> QED BY <1>1, <1>2, <1>3, Invariance, PTL DEF Spec
=============================================================================
