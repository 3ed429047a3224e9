----------------------------- MODULE ExecTimes -----------------------------
(***************************************************************************)
(* The execution-time tables of pkg/atecc/device.go: how many milliseconds *)
(* the host waits for a command, for each clock divider of the chip.       *)
(***************************************************************************)
EXTENDS Naturals

\* Clock dividers the driver knows (ateccconf.ClockDividerM0, M1 and M2).
Dividers == {"M0", "M1", "M2"}

\* deviceExecutionTimes[deviceExecutionTime608M0], by opcode.
TimesM0 ==
  [AES |-> 27, CheckMac |-> 40, Counter |-> 25, DeriveKey |-> 50,
   ECDH |-> 75, GenDig |-> 25, GenKey |-> 115, Info |-> 5, KDF |-> 165,
   Lock |-> 35, MAC |-> 55, Nonce |-> 20, PrivWrite |-> 50, Random |-> 23,
   Read |-> 5, SecureBoot |-> 80, SelfTest |-> 250, SHA |-> 36,
   Sign |-> 115, UpdateExtra |-> 10, Verify |-> 105, Write |-> 45]

Opcodes == DOMAIN TimesM0

\* The slower dividers change the times of some cryptographic commands only.
Slower(times, changed) ==
  [op \in Opcodes |-> IF op \in DOMAIN changed THEN changed[op] ELSE times[op]]

TimesM1 ==
  Slower(TimesM0, [ECDH |-> 172, GenDig |-> 35, GenKey |-> 215, SecureBoot |-> 160,
                   SelfTest |-> 625, SHA |-> 42, Sign |-> 220, Verify |-> 295])

TimesM2 ==
  Slower(TimesM1, [ECDH |-> 531, GenKey |-> 653, SecureBoot |-> 480,
                   SelfTest |-> 2324, SHA |-> 75, Sign |-> 665, Verify |-> 1085])

\* getDeviceExecutionTime: the table of a divider.
ExecutionTimes(div) ==
  CASE div = "M0" -> TimesM0
    [] div = "M1" -> TimesM1
    [] div = "M2" -> TimesM2

\* getExecutionTime succeeds for a known divider and a listed opcode.
HasExecutionTime(div, op) == div \in Dividers /\ op \in Opcodes

\* getExecutionTime: the wait it returns when it succeeds.
ExecutionTime(div, op) == ExecutionTimes(div)[op]
=============================================================================
