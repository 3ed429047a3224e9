----------------------------- MODULE Provision -----------------------------
(***************************************************************************)
(* The atecc config command (cmd/atecc/conf.go) on a device: write the     *)
(* configuration, compare what is read back, lock the configuration zone,  *)
(* generate the private keys, lock the data zone.  Locking cannot be       *)
(* undone.  Every command may fail, with or without having been executed   *)
(* (Command), the process may be killed, and the operator may run the      *)
(* command again, with another configuration: one of a file, or the one    *)
(* that the chip itself holds, whatever earlier runs have left there.      *)
(*                                                                         *)
(* The definitions called ...Broken are plausible mistakes in the          *)
(* definition that follows each of them; no other definition uses them.    *)
(***************************************************************************)
EXTENDS Naturals, FiniteSets

CONSTANTS
  Bodies,               \* what the writable bytes of the zone may be, without
                        \* the extra bytes and the lock bytes
  Mixtures(_, _),       \* the bodies that a part of one written over another leaves
  Readdressed(_),       \* the body with the I2C address of -new-addr
  Private(_),           \* slots a body makes private keys
  Regenerable(_),       \* those whose key may be replaced on an active chip
  Configs,              \* the configurations of the operator's files, the
                        \* built-in one too, with any address of -new-addr
  LastSlot              \* the key slots are 0..LastSlot (15 in the chip)

Slots == 0..LastSlot

\* UserExtra and UserExtraAdd, which can be set once.
ExtraBytes == {84, 85}
Blank == [b \in ExtraBytes |-> 0]

\* open: the bytes 86 and 87 are 0x55, as in an unlocked chip.
Configuration == [body : Bodies, extra : [ExtraBytes -> 0..255], open : BOOLEAN]

ASSUME ConfigAssumption ==
  /\ LastSlot \in Nat /\ "factory" \in Bodies
  /\ Configs \subseteq Configuration
  /\ \A b \in Bodies : /\ Private(b) \subseteq Slots /\ Regenerable(b) \subseteq Private(b)
                       /\ Readdressed(b) \in Bodies
                       /\ \A c \in Bodies : Mixtures(b, c) \subseteq Bodies
                       /\ Mixtures(b, b) \subseteq {b}

VARIABLES
  \* the chip
  content,        \* the body in the configuration zone
  extra,          \* and the extra bytes in it
  configLocked, dataLocked,
  keys,           \* per slot: "none", "unprinted" or "printed" public key
  \* the command
  pc,
  input,          \* -input: "file", "device", or "moved" for "device" with -new-addr
  conf,           \* provisionConf
  dry, gen,       \* the flags -dry and -gen
  info,           \* deviceInfo: the locks as they were at the beginning
  slot,           \* i of the loop of keyGen
  active,         \* conf.LockValue.IsLocked() as keyGen has read it
  result,         \* "none", "ok" or "error"
  quiet           \* no failure or kill, and no other configuration, any more

chip == <<content, extra, configLocked, dataLocked, keys>>
flags == <<input, conf, dry, gen>>
vars == <<chip, pc, flags, info, slot, active, result, quiet>>

Inputs == {"file", "device", "moved"}
NoInfo == [config |-> FALSE, data |-> FALSE]

Init ==
  /\ content = "factory" /\ extra = Blank
  /\ configLocked = FALSE /\ dataLocked = FALSE
  /\ keys = [s \in Slots |-> "none"]
  /\ pc = "off" /\ input = "file" /\ conf \in Configs /\ dry = TRUE /\ gen = FALSE
  /\ info = NoInfo /\ slot = 0 /\ active = FALSE /\ result = "none"
  /\ quiet = FALSE

\* How a command that changes the chip may end: it was executed or not, and
\* it returned no error or one; without an error it was executed.
Ends == IF quiet THEN {"done"} ELSE {"done", "doneButError", "notDone"}
Executed(e) == e \in {"done", "doneButError"}

\* The command returns: r is what Exec returns.
Exit(r) == pc' = "off" /\ result' = r

Step(here) == pc = here /\ UNCHANGED <<flags, info, quiet>>

-----------------------------------------------------------------------------
(* The beginning.                                                          *)

\* The operator repeats the command as it is, in quiet times.
Run(i, c, d, g) ==
  /\ pc = "off"
  /\ quiet => i = input /\ (i = "file" => c = conf) /\ ~d
  /\ pc' = "info" /\ input' = i /\ dry' = d /\ gen' = g
  /\ conf' = IF i = "file" THEN c ELSE conf
  /\ info' = NoInfo /\ slot' = 0 /\ active' = FALSE /\ result' = "none"
  /\ UNCHANGED <<chip, quiet>>

\* createProvisionConfig with -input device: the configuration of the chip,
\* whatever that is, with the address of -new-addr if there is one.
FromDevice ==
  [body |-> IF input = "moved" THEN Readdressed(content) ELSE content,
   extra |-> extra, open |-> ~configLocked]

\* getDeviceInfo; on an active chip it also reads the public key of slot 0,
\* which fails when slot 0 holds no private key.
ReadInfo ==
  /\ pc = "info"
  /\ dataLocked => 0 \in Private(content)
  /\ info' = [config |-> configLocked, data |-> dataLocked]
  /\ conf' = IF input = "file" THEN conf ELSE FromDevice
  /\ pc' = IF dry THEN "gen?" ELSE IF configLocked THEN "activate" ELSE "write"
  /\ UNCHANGED <<chip, input, dry, gen, slot, active, result, quiet>>

ReadInfoFails ==
  /\ Step("info")
  /\ ~quiet \/ (dataLocked /\ 0 \notin Private(content))
  /\ Exit("error")
  /\ UNCHANGED <<chip, slot, active>>

-----------------------------------------------------------------------------
(* The configuration zone.                                                 *)

\* The chip has the configuration c in full.
Holds(c) == content = c.body /\ extra = c.extra

\* What any part of the writes leaves.  The chip may have lost a store it
\* reported: the command reads the zone back for that.
Torn == {content, conf.body} \cup Mixtures(content, conf.body)

\* WriteConfigZone: the body, then UserExtra, then UserExtraAdd, which the chip
\* refuses to update when they are not zero.
WriteConfig ==
  /\ Step("write")
  /\ UNCHANGED <<configLocked, dataLocked, keys, slot, active>>
  /\ \/ /\ extra = Blank /\ extra' = conf.extra
        /\ content' \in IF quiet THEN {conf.body} ELSE Torn
        /\ pc' = "verify" /\ UNCHANGED result
     \/ /\ ~quiet \/ extra # Blank
        /\ content' \in Torn
        /\ \/ extra' = extra
           \/ extra[84] = 0 /\ extra' = [extra EXCEPT ![84] = conf.extra[84]]
           \/ extra = Blank /\ extra' = conf.extra
        /\ Exit("error")

\* The comparison of everything behind the permanent bytes, lock bytes too.
VerifiedBroken == TRUE
Verified == Holds(conf) /\ conf.open

VerifyConfig ==
  /\ Step("verify")
  /\ \/ Verified /\ pc' = "lockConfig" /\ UNCHANGED result
     \/ (~Verified \/ ~quiet) /\ Exit("error")
  /\ UNCHANGED <<chip, slot, active>>

LockConfig ==
  /\ Step("lockConfig")
  /\ \E e \in Ends :
       /\ configLocked' = (configLocked \/ Executed(e))
       /\ IF e = "done" THEN pc' = "activate" /\ UNCHANGED result ELSE Exit("error")
  /\ UNCHANGED <<content, extra, dataLocked, keys, slot, active>>

\* "Activating Configuration", unless info says it is active already.
ActivateBroken ==
  /\ Step("activate")
  /\ pc' = IF info.data \/ info.config THEN "gen?" ELSE "keys"
  /\ UNCHANGED <<chip, slot, active, result>>
Activate ==
  /\ Step("activate")
  /\ pc' = IF info.data THEN "gen?" ELSE "keys"
  /\ UNCHANGED <<chip, slot, active, result>>

-----------------------------------------------------------------------------
(* keyGen.                                                                 *)

\* keyGen begins by reading the configuration zone again.
ReadKeys(here, loop) ==
  /\ Step(here)
  /\ \/ pc' = loop /\ slot' = 0 /\ active' = dataLocked /\ UNCHANGED result
     \/ ~quiet /\ Exit("error") /\ UNCHANGED <<slot, active>>
  /\ UNCHANGED chip

\* The slots that get a new key; an active chip sets further conditions.
GeneratedBroken(s) == s \in Private(content)
Generated(s) ==
  /\ s \in Private(content)
  /\ active => s \in Regenerable(content)

\* GenerateKey replaces the key; its public key is printed when it is returned.
AfterKeyBroken(e) == slot' = slot + 1 /\ UNCHANGED <<pc, result>>
AfterKey(e) ==
  IF e = "done" THEN slot' = slot + 1 /\ UNCHANGED <<pc, result>>
                ELSE Exit("error") /\ UNCHANGED slot

GenerateKeyDry(loop) ==
  /\ Step(loop)
  /\ slot \in Slots /\ Generated(slot)
  /\ \E e \in Ends :
       /\ keys' = IF Executed(e)
                  THEN [keys EXCEPT ![slot] = IF e = "done" THEN "printed" ELSE "unprinted"]
                  ELSE keys
       /\ AfterKey(e)
  /\ UNCHANGED <<content, extra, configLocked, dataLocked, active>>
GenerateKey(loop) ==
  /\ Step(loop)
  /\ slot \in Slots /\ Generated(slot) /\ ~dry
  /\ \E e \in Ends :
       /\ keys' = IF Executed(e)
                  THEN [keys EXCEPT ![slot] = IF e = "done" THEN "printed" ELSE "unprinted"]
                  ELSE keys
       /\ AfterKey(e)
  /\ UNCHANGED <<content, extra, configLocked, dataLocked, active>>

SkipSlotBroken(loop) ==
  /\ Step(loop)
  /\ slot \in Slots => dry \/ ~Generated(slot)
  /\ slot' = slot + 1
  /\ UNCHANGED <<chip, pc, active, result>>
SkipSlot(loop) ==
  /\ Step(loop)
  /\ slot \in Slots /\ (dry \/ ~Generated(slot))
  /\ slot' = slot + 1
  /\ UNCHANGED <<chip, pc, active, result>>

\* useProvisionConfig goes on to lock the data zone; Exec is at its end.
KeysEnd ==
  /\ Step("keyLoop") /\ slot \notin Slots
  /\ pc' = "lockData"
  /\ UNCHANGED <<chip, slot, active, result>>

GenEnd ==
  /\ Step("genLoop") /\ slot \notin Slots
  /\ Exit("ok")
  /\ UNCHANGED <<chip, slot, active>>

-----------------------------------------------------------------------------
(* The data zone, and the end.                                             *)

LockData ==
  /\ Step("lockData")
  /\ \E e \in Ends :
       /\ dataLocked' = (dataLocked \/ Executed(e))
       /\ IF e = "done" THEN pc' = "gen?" /\ UNCHANGED result ELSE Exit("error")
  /\ UNCHANGED <<content, extra, configLocked, keys, slot, active>>

\* The flag -gen asks for new keys if the chip was active at the beginning.
MaybeGenerate ==
  /\ Step("gen?")
  /\ IF gen /\ info.data THEN pc' = "genKeys" /\ UNCHANGED result ELSE Exit("ok")
  /\ UNCHANGED <<chip, slot, active>>

\* A third interrupt (main.go:42), or a crash: whatever the process was doing is over.
Kill ==
  /\ pc # "off" /\ ~quiet
  /\ Exit("error")
  /\ UNCHANGED <<chip, flags, info, slot, active, quiet>>

BecomeQuiet == ~quiet /\ quiet' = TRUE /\ UNCHANGED <<chip, pc, flags, info, slot, active, result>>

Command ==
  \/ ReadInfo \/ ReadInfoFails
  \/ WriteConfig \/ VerifyConfig \/ LockConfig \/ Activate
  \/ ReadKeys("keys", "keyLoop") \/ GenerateKey("keyLoop") \/ SkipSlot("keyLoop") \/ KeysEnd
  \/ LockData \/ MaybeGenerate
  \/ ReadKeys("genKeys", "genLoop") \/ GenerateKey("genLoop") \/ SkipSlot("genLoop") \/ GenEnd

Next ==
  \/ \E i \in Inputs, c \in Configs, d, g \in BOOLEAN : Run(i, c, d, g)
  \/ Command
  \/ Kill \/ BecomeQuiet

Spec == Init /\ [][Next]_vars

\* The command runs, and the operator repeats it for good in earnest.
FairSpec ==
  /\ Spec
  /\ WF_vars(Command)
  /\ WF_vars(\E i \in Inputs, c \in Configs, g \in BOOLEAN : Run(i, c, FALSE, g))

-----------------------------------------------------------------------------

TypeOK ==
  /\ content \in Bodies /\ extra \in [ExtraBytes -> 0..255]
  /\ configLocked \in BOOLEAN /\ dataLocked \in BOOLEAN
  /\ keys \in [Slots -> {"none", "unprinted", "printed"}]
  /\ pc \in {"off", "info", "write", "verify", "lockConfig", "activate", "keys", "keyLoop",
             "lockData", "gen?", "genKeys", "genLoop"}
  /\ input \in Inputs /\ conf \in Configuration /\ dry \in BOOLEAN /\ gen \in BOOLEAN
  /\ info \in [config : BOOLEAN, data : BOOLEAN]
  /\ slot \in 0..(LastSlot + 1) /\ active \in BOOLEAN
  /\ result \in {"none", "ok", "error"} /\ quiet \in BOOLEAN

\* The configuration zone is only ever locked over what this very run was asked
\* for, in full: with a file over its whole configuration, never over one that
\* an earlier, interrupted run left behind or mixed up.  With -input device it
\* is what the chip held when the run began, which may be such a mixture; what
\* this run's own writes made of it by failing is not locked.
LockedIsVerified ==
  [][~configLocked /\ configLocked' =>
       /\ Holds(conf) /\ ~dry
       /\ input = "file" => conf \in Configs]_vars

\* The data zone is only ever locked when the configuration zone is, and when
\* every private slot has a key whose public half the operator has seen: no
\* key that a failed call generated unseen is sealed in.
ActivatedWithKnownKeys ==
  [][~dataLocked /\ dataLocked' =>
       configLocked /\ \A s \in Private(content) : keys[s] = "printed"]_vars

\* The life of the chip (Lifecycle): whatever runs came before, a configuration
\* is locked only in full, as it was asked for, of a file or of the chip as it
\* was at the beginning of the run; it stays, an active chip stays active, and
\* its keys are only replaced where its own configuration allows it.
ZoneOf(c) == [body |-> c.body, extra |-> c.extra]
FileZones == {ZoneOf(c) : c \in Configs}
KeptZones(z) == {z, [z EXCEPT !.body = Readdressed(@)]}
PrivateIn(z) == Private(z.body)
RegenerableIn(z) == Regenerable(z.body)

L == INSTANCE Lifecycle WITH
       Zones <- [body : Bodies, extra : [ExtraBytes -> 0..255]],
       Files <- FileZones,
       Kept <- KeptZones,
       Private <- PrivateIn,
       Regenerable <- RegenerableIn,
       stage <- IF dataLocked THEN "active" ELSE IF configLocked THEN "configured" ELSE "open",
       zone <- [body |-> content, extra |-> extra],
       asked <- ZoneOf(conf)
LifecycleSpec == L!Spec

\* A run that is not dry and says it succeeded leaves an active chip, however
\* many runs, over whatever configurations, failed before it.
SuccessIsActive == pc = "off" /\ result = "ok" /\ ~dry => configLocked /\ dataLocked

\* "When disabled, data will be committed to device" (conf.go:319): with -dry
\* nothing is, not by -gen either.
DryRunChangesNothing == [][dry /\ pc # "off" => UNCHANGED chip]_vars

\* When failures end, an operator who repeats the command gets an active chip,
\* with a file that sets no extra byte or from what the chip holds, whatever
\* state failures and other configurations left it in; but a chip that has an
\* extra byte set and whose configuration is not locked can never be locked.
Lockable ==
  /\ input = "file" => conf.open /\ conf.extra = Blank
  /\ extra = Blank \/ configLocked

Recovers == quiet /\ Lockable ~> dataLocked

-----------------------------------------------------------------------------
(* What the repository says and the code does not do.                      *)

\* data/README.md:9: data/config/608 has "standard configurations", and the
\* input hex takes them.  Once failures have ended, the command provisions one.
Provisions == quiet ~> dataLocked
=============================================================================
