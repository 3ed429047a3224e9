-------------------------- MODULE ProvisionProofs ---------------------------
(***************************************************************************)
(* atecc config locks only what it verified, and keeps a chip to its life  *)
(* cycle: for any set of configurations, any mixtures that failed writes   *)
(* leave of them, and any number of slots.                                 *)
(***************************************************************************)
EXTENDS Provision, TLAPS

\* The zones are locked in their order.
InOrder == dataLocked => configLocked

\* What the run is to provision is a file's configuration, or what the chip
\* held when the run read it: its lock bytes are open then, and its extra
\* bytes can only stay as they are.
FromInput ==
  /\ input = "file" => conf \in Configs
  /\ input # "file" /\ pc \in {"write", "verify"} => conf.open /\ conf.extra = extra

\* What the command has learnt of the locks still holds where it relies on it.
Phase ==
  /\ pc \in {"write", "verify", "lockConfig"} => ~configLocked
  /\ pc \in {"activate", "keys", "keyLoop", "lockData"} => configLocked
  /\ pc \in {"write", "verify", "lockConfig", "activate"} => info.data = dataLocked
  /\ pc \in {"keys", "keyLoop", "lockData"} => ~info.data /\ ~dataLocked
  /\ pc \in {"genKeys", "genLoop"} => dataLocked
  /\ pc = "gen?" /\ (info.data \/ ~dry) => dataLocked
  /\ pc = "lockConfig" => Holds(conf)

\* Nothing but -gen gets past the information on a dry run.
InEarnest ==
  pc \in {"write", "verify", "lockConfig", "activate", "keys", "keyLoop", "lockData"} => ~dry

\* The loop has printed the keys of the private slots behind it.
Printed ==
  /\ pc = "keyLoop" => ~active /\ \A s \in Private(content) : s < slot => keys[s] = "printed"
  /\ pc = "lockData" => \A s \in Private(content) : keys[s] = "printed"
  /\ pc = "genLoop" => active

Parts == InOrder /\ FromInput /\ Phase /\ InEarnest /\ Printed /\ SuccessIsActive

IInv == TypeOK /\ Parts

LEMMA InitInv == Init => IInv
<1> SUFFICES ASSUME Init PROVE IInv
  OBVIOUS
<1>1. TypeOK
  <2>1. 0 \in 0..(LastSlot + 1)
    BY ConfigAssumption
  <2>2. NoInfo \in [config : BOOLEAN, data : BOOLEAN]
    BY DEF NoInfo
  <2>3. keys \in [Slots -> {"none", "unprinted", "printed"}]
    BY DEF Init
  <2>4. conf \in Configuration /\ content \in Bodies
    BY ConfigAssumption DEF Init
  <2>5. extra \in [ExtraBytes -> 0..255]
    BY DEF Init, Blank
  <2>6. input \in Inputs
    BY DEF Init, Inputs
  <2> QED BY <2>1, <2>2, <2>3, <2>4, <2>5, <2>6 DEF Init, TypeOK
<1>2. Parts
  BY DEF Init, Parts, InOrder, FromInput, Phase, InEarnest, Printed, SuccessIsActive
<1> QED BY <1>1, <1>2 DEF IInv, Parts

LEMMA StutterInv == IInv /\ UNCHANGED vars => IInv'
BY DEF vars, chip, flags, IInv, Parts, TypeOK, InOrder, FromInput, Phase, InEarnest, Printed,
       SuccessIsActive, Holds

-----------------------------------------------------------------------------
(* What the zone may come to hold.                                         *)

\* The configuration of the chip is one that can be asked for.
LEMMA FromDeviceType ==
  ASSUME TypeOK
  PROVE  /\ FromDevice \in Configuration /\ FromDevice.extra = extra
         /\ FromDevice.open = ~configLocked
BY ConfigAssumption DEF TypeOK, FromDevice, Configuration

\* A part of the writes leaves one of the bodies that there may be.
LEMMA TornType ==
  ASSUME TypeOK
  PROVE  Torn \subseteq Bodies
BY ConfigAssumption DEF TypeOK, Torn, Configuration

LEMMA PrivateSlots ==
  ASSUME TypeOK, NEW s \in Private(content)
  PROVE  s \in Slots
BY ConfigAssumption DEF TypeOK

-----------------------------------------------------------------------------
(* The steps, in the order of the command.                                 *)

LEMMA RunStep ==
  ASSUME IInv, NEW i \in Inputs, NEW c \in Configs, NEW d \in BOOLEAN, NEW g \in BOOLEAN,
         Run(i, c, d, g)
  PROVE  IInv'
<1>1. TypeOK'
  <2>1. 0 \in 0..(LastSlot + 1)
    BY ConfigAssumption
  <2>2. NoInfo \in [config : BOOLEAN, data : BOOLEAN]
    BY DEF NoInfo
  <2>3. conf' \in Configuration
    BY ConfigAssumption DEF IInv, TypeOK, Run
  <2> QED BY <2>1, <2>2, <2>3 DEF IInv, TypeOK, Run, chip
<1>2. InOrder' /\ FromInput'
  BY DEF IInv, Parts, InOrder, FromInput, Run, chip
<1>3. Phase' /\ InEarnest' /\ Printed' /\ SuccessIsActive'
  BY DEF Phase, InEarnest, Printed, SuccessIsActive, Run
<1> QED BY <1>1, <1>2, <1>3 DEF IInv, Parts

LEMMA InfoStep == ASSUME IInv, ReadInfo \/ ReadInfoFails PROVE IInv'
<1>0. /\ FromDevice \in Configuration /\ FromDevice.extra = extra
      /\ FromDevice.open = ~configLocked
  BY FromDeviceType DEF IInv
<1>1. TypeOK'
  BY <1>0 DEF IInv, TypeOK, ReadInfo, ReadInfoFails, Exit, Step, chip, flags
<1>2. Parts'
  <2>1. CASE ReadInfo
    <3>1. InOrder' /\ FromInput'
      BY <1>0, <2>1 DEF Parts, IInv, InOrder, FromInput, ReadInfo, chip
    <3>2. Phase' /\ InEarnest' /\ Printed' /\ SuccessIsActive'
      BY <2>1 DEF Parts, IInv, TypeOK, InOrder, Phase, InEarnest, Printed, SuccessIsActive,
                  ReadInfo, chip
    <3> QED BY <3>1, <3>2 DEF Parts
  <2>2. CASE ReadInfoFails
    BY <2>2 DEF Parts, IInv, InOrder, FromInput, Phase, InEarnest, Printed, SuccessIsActive,
                ReadInfoFails, Exit, Step, chip, flags
  <2> QED BY <2>1, <2>2
<1> QED BY <1>1, <1>2 DEF IInv, Parts

\* Before the lock anything may happen to the configuration.
LEMMA WriteStep == ASSUME IInv, WriteConfig PROVE IInv'
<1>1. TypeOK'
  <2>1. content' \in Bodies
    BY TornType DEF IInv, TypeOK, WriteConfig, Configuration
  <2>2. extra' \in [ExtraBytes -> 0..255]
    BY DEF IInv, TypeOK, WriteConfig, Configuration, ExtraBytes
  <2> QED BY <2>1, <2>2 DEF IInv, TypeOK, WriteConfig, Exit, Step, flags
<1>2. Parts'
  BY DEF Parts, IInv, TypeOK, InOrder, FromInput, Phase, InEarnest, Printed, SuccessIsActive,
         WriteConfig, Exit, Step, flags
<1> QED BY <1>1, <1>2 DEF IInv, Parts

LEMMA VerifyStep == ASSUME IInv, VerifyConfig PROVE IInv'
<1>1. TypeOK'
  BY DEF IInv, TypeOK, VerifyConfig, Exit, Step, flags, chip
<1>2. Parts'
  BY DEF Parts, IInv, TypeOK, InOrder, FromInput, Phase, InEarnest, Printed, SuccessIsActive,
         VerifyConfig, Verified, Exit, Step, flags, chip, Holds
<1> QED BY <1>1, <1>2 DEF IInv, Parts

\* What is locked is what was compared in the step before.
LEMMA LockConfigStep == ASSUME IInv, LockConfig PROVE IInv'
<1>1. TypeOK'
  BY DEF IInv, TypeOK, LockConfig, Exit, Step, flags, Ends, Executed
<1>2. Parts'
  BY DEF Parts, IInv, TypeOK, InOrder, FromInput, Phase, InEarnest, Printed, SuccessIsActive,
         LockConfig, Ends, Executed, Exit, Step, flags, Holds
<1> QED BY <1>1, <1>2 DEF IInv, Parts

LEMMA ActivateStep == ASSUME IInv, Activate PROVE IInv'
<1>1. TypeOK'
  BY DEF IInv, TypeOK, Activate, Step, flags, chip
<1>2. Parts'
  BY DEF Parts, IInv, TypeOK, InOrder, FromInput, Phase, InEarnest, Printed, SuccessIsActive,
         Activate, Step, flags, chip, Holds
<1> QED BY <1>1, <1>2 DEF IInv, Parts

\* At the beginning of a loop no slot is behind it.
LEMMA ReadKeysStep ==
  ASSUME IInv, ReadKeys("keys", "keyLoop") \/ ReadKeys("genKeys", "genLoop")
  PROVE  IInv'
<1>1. TypeOK'
  BY ConfigAssumption DEF IInv, TypeOK, ReadKeys, Exit, Step, flags, chip
<1>2. \A s \in Private(content) : s \in Slots
  BY PrivateSlots DEF IInv
<1>3. Parts'
  BY <1>2 DEF Parts, IInv, TypeOK, InOrder, FromInput, Phase, InEarnest, Printed,
              SuccessIsActive, ReadKeys, Exit, Step, flags, chip, Holds, Slots
<1> QED BY <1>1, <1>3 DEF IInv, Parts

LEMMA GenerateStep ==
  ASSUME IInv, GenerateKey("keyLoop") \/ GenerateKey("genLoop")
  PROVE  IInv'
<1>1. TypeOK'
  <2>1. keys' \in [Slots -> {"none", "unprinted", "printed"}]
    BY DEF IInv, TypeOK, GenerateKey
  <2>2. slot' \in 0..(LastSlot + 1)
    BY ConfigAssumption DEF IInv, TypeOK, GenerateKey, AfterKey, Slots
  <2> QED BY <2>1, <2>2 DEF IInv, TypeOK, GenerateKey, AfterKey, Exit, Step, flags
<1>2. \A s \in Private(content) : s \in Slots
  BY PrivateSlots DEF IInv
<1>3. Printed'
  <2>1. CASE pc' = "keyLoop"
    <3>1. /\ pc = "keyLoop" /\ slot' = slot + 1 /\ content' = content /\ active' = active
          /\ keys' = [keys EXCEPT ![slot] = "printed"]
      BY <2>1 DEF GenerateKey, AfterKey, Exit, Step, Executed
    <3>2. ~active /\ \A s \in Private(content) : s < slot => keys[s] = "printed"
      BY <3>1 DEF IInv, Parts, Printed
    <3>3. keys \in [Slots -> {"none", "unprinted", "printed"}] /\ slot \in Nat
      BY ConfigAssumption DEF IInv, TypeOK
    <3>4. ASSUME NEW s \in Private(content), s < slot + 1
          PROVE  keys'[s] = "printed"
      BY <1>2, <3>1, <3>2, <3>3, <3>4 DEF Slots
    <3> QED BY <2>1, <3>1, <3>2, <3>4 DEF Printed
  <2>2. CASE pc' # "keyLoop"
    BY <2>2 DEF IInv, Parts, Printed, GenerateKey, AfterKey, Exit, Step
  <2> QED BY <2>1, <2>2
<1>4. InOrder' /\ FromInput' /\ Phase' /\ InEarnest' /\ SuccessIsActive'
  BY DEF IInv, Parts, TypeOK, InOrder, FromInput, Phase, InEarnest, SuccessIsActive,
         GenerateKey, AfterKey, Exit, Step, flags, Holds
<1> QED BY <1>1, <1>3, <1>4 DEF IInv, Parts

\* Before activation only slots without a private key are skipped.
LEMMA SkipStep ==
  ASSUME IInv, SkipSlot("keyLoop") \/ SkipSlot("genLoop")
  PROVE  IInv'
<1>1. TypeOK'
  <2>1. slot' \in 0..(LastSlot + 1)
    BY ConfigAssumption DEF IInv, TypeOK, SkipSlot, Slots
  <2> QED BY <2>1 DEF IInv, TypeOK, SkipSlot, Step, flags, chip
<1>2. \A s \in Private(content) : s \in Slots
  BY PrivateSlots DEF IInv
<1>3. /\ slot' = slot + 1 /\ slot \in Nat /\ pc' = pc /\ UNCHANGED <<content, keys, active>>
      /\ slot \in Slots => dry \/ ~Generated(slot)
  BY ConfigAssumption DEF IInv, TypeOK, SkipSlot, Step, chip, Slots
<1>4. Printed'
  <2>1. CASE pc = "keyLoop"
    <3>1. ~active /\ ~dry /\ \A s \in Private(content) : s < slot => keys[s] = "printed"
      BY <2>1 DEF IInv, Parts, InEarnest, Printed
    <3>2. slot \notin Private(content)
      BY <1>2, <1>3, <3>1 DEF Generated
    <3>3. \A s \in Private(content) : s < slot + 1 => s < slot
      BY <1>2, <1>3, <3>2 DEF Slots
    <3> QED BY <1>3, <2>1, <3>1, <3>3 DEF Printed
  <2>2. CASE pc # "keyLoop"
    BY <1>3, <2>2 DEF IInv, Parts, Printed, SkipSlot, Step
  <2> QED BY <2>1, <2>2
<1>5. InOrder' /\ FromInput' /\ Phase' /\ InEarnest' /\ SuccessIsActive'
  BY DEF IInv, Parts, TypeOK, InOrder, FromInput, Phase, InEarnest, SuccessIsActive, SkipSlot,
         Step, flags, chip, Holds
<1> QED BY <1>1, <1>4, <1>5 DEF IInv, Parts

LEMMA LoopEndStep == ASSUME IInv, KeysEnd \/ GenEnd PROVE IInv'
<1>1. TypeOK'
  BY DEF IInv, TypeOK, KeysEnd, GenEnd, Exit, Step, flags, chip
<1>2. \A s \in Private(content) : s \in Slots
  BY PrivateSlots DEF IInv
<1>3. pc = "keyLoop" => \A s \in Private(content) : s < slot
  BY <1>2, ConfigAssumption DEF IInv, TypeOK, KeysEnd, GenEnd, Step, Slots
<1>4. Parts'
  BY <1>3 DEF Parts, IInv, TypeOK, InOrder, FromInput, Phase, InEarnest, Printed,
              SuccessIsActive, KeysEnd, GenEnd, Exit, Step, flags, chip, Holds
<1> QED BY <1>1, <1>4 DEF IInv, Parts

LEMMA LockDataStep == ASSUME IInv, LockData PROVE IInv'
<1>1. TypeOK'
  BY DEF IInv, TypeOK, LockData, Exit, Step, flags, Ends, Executed
<1>2. Parts'
  BY DEF Parts, IInv, TypeOK, InOrder, FromInput, Phase, InEarnest, Printed, SuccessIsActive,
         LockData, Ends, Executed, Exit, Step, flags, Holds
<1> QED BY <1>1, <1>2 DEF IInv, Parts

LEMMA EndStep == ASSUME IInv, MaybeGenerate \/ Kill \/ BecomeQuiet PROVE IInv'
<1>1. TypeOK'
  <2>1. CASE MaybeGenerate
    BY <2>1 DEF IInv, TypeOK, MaybeGenerate, Exit, Step, flags, chip
  <2>2. CASE Kill
    BY <2>2 DEF IInv, TypeOK, Kill, Exit, flags, chip
  <2>3. CASE BecomeQuiet
    BY <2>3 DEF IInv, TypeOK, BecomeQuiet, flags, chip
  <2> QED BY <2>1, <2>2, <2>3
<1>2. Parts'
  <2>1. CASE MaybeGenerate
    <3>1. InOrder' /\ FromInput' /\ Printed'
      BY <2>1 DEF IInv, Parts, InOrder, FromInput, Printed, MaybeGenerate, Exit, Step, chip,
                  flags
    <3>2. Phase' /\ InEarnest' /\ SuccessIsActive'
      BY <2>1 DEF IInv, Parts, TypeOK, InOrder, FromInput, Phase, InEarnest, SuccessIsActive,
                  MaybeGenerate, Exit, Step, flags, chip
    <3> QED BY <3>1, <3>2 DEF Parts
  <2>2. CASE Kill
    BY <2>2 DEF Parts, IInv, InOrder, FromInput, Phase, InEarnest, Printed, SuccessIsActive,
                Kill, Exit, flags, chip, Holds
  <2>3. CASE BecomeQuiet
    BY <2>3 DEF Parts, IInv, InOrder, FromInput, Phase, InEarnest, Printed, SuccessIsActive,
                BecomeQuiet,
                flags, chip, Holds
  <2> QED BY <2>1, <2>2, <2>3
<1> QED BY <1>1, <1>2 DEF IInv, Parts

LEMMA NextInv == IInv /\ [Next]_vars => IInv'
<1> SUFFICES ASSUME IInv, Next PROVE IInv'
  BY StutterInv
<1>1. CASE \E i \in Inputs, c \in Configs, d, g \in BOOLEAN : Run(i, c, d, g)
  BY <1>1, RunStep
<1>2. CASE ReadInfo \/ ReadInfoFails
  BY <1>2, InfoStep
<1>3. CASE WriteConfig
  BY <1>3, WriteStep
<1>4. CASE VerifyConfig
  BY <1>4, VerifyStep
<1>5. CASE LockConfig
  BY <1>5, LockConfigStep
<1>6. CASE Activate
  BY <1>6, ActivateStep
<1>7. CASE ReadKeys("keys", "keyLoop") \/ ReadKeys("genKeys", "genLoop")
  BY <1>7, ReadKeysStep
<1>8. CASE GenerateKey("keyLoop") \/ GenerateKey("genLoop")
  BY <1>8, GenerateStep
<1>9. CASE SkipSlot("keyLoop") \/ SkipSlot("genLoop")
  BY <1>9, SkipStep
<1>10. CASE KeysEnd \/ GenEnd
  BY <1>10, LoopEndStep
<1>11. CASE LockData
  BY <1>11, LockDataStep
<1>12. CASE MaybeGenerate \/ Kill \/ BecomeQuiet
  BY <1>12, EndStep
<1> QED BY <1>1, <1>2, <1>3, <1>4, <1>5, <1>6, <1>7, <1>8, <1>9, <1>10, <1>11, <1>12 DEF Next,
                                                                                         Command

-----------------------------------------------------------------------------
(* The theorems.                                                           *)

LEMMA Invariance == Spec => []IInv
BY InitInv, NextInv, PTL DEF Spec

\* Provision is type correct.
THEOREM TypeCorrect == Spec => []TypeOK
<1>1. IInv => TypeOK
  BY DEF IInv
<1> QED BY Invariance, <1>1, PTL

\* A run in earnest that reports success has left an active chip.
THEOREM SuccessIsActiveAlways == Spec => []SuccessIsActive
<1>1. IInv => SuccessIsActive
  BY DEF IInv, Parts
<1> QED BY Invariance, <1>1, PTL

\* The configuration zone is only locked over what this run asked for and has
\* compared in full, whatever interrupted runs left behind: a file's whole
\* configuration, or with -input device what the chip held at its beginning.
THEOREM LockedIsVerifiedAlways == Spec => LockedIsVerified
<1> DEFINE Meant == Holds(conf) /\ ~dry /\ (input = "file" => conf \in Configs)
<1>1. ASSUME IInv, Next, ~configLocked, configLocked'
      PROVE  Meant
  <2>1. LockConfig
    BY <1>1 DEF Next, Command, Run, ReadInfo, ReadInfoFails, WriteConfig, VerifyConfig, Activate,
                ReadKeys, GenerateKey, SkipSlot, KeysEnd, GenEnd, LockData, MaybeGenerate, Kill,
                BecomeQuiet, chip
  <2> QED BY <1>1, <2>1 DEF IInv, Parts, FromInput, Phase, InEarnest, LockConfig, Step
<1>2. IInv /\ [Next]_vars => [~configLocked /\ configLocked' => Meant]_vars
  BY <1>1
<1> QED BY Invariance, <1>2, PTL DEF Spec, LockedIsVerified

\* The data zone is only locked over keys that the operator has seen.
THEOREM ActivatedWithKnownKeysAlways == Spec => ActivatedWithKnownKeys
<1> DEFINE Known == configLocked /\ \A s \in Private(content) : keys[s] = "printed"
<1>1. ASSUME IInv, Next, ~dataLocked, dataLocked'
      PROVE  Known
  <2>1. LockData
    BY <1>1 DEF Next, Command, Run, ReadInfo, ReadInfoFails, WriteConfig, VerifyConfig, Activate,
                ReadKeys, GenerateKey, SkipSlot, KeysEnd, GenEnd, LockConfig, MaybeGenerate,
                Kill, BecomeQuiet, chip
  <2> QED BY <1>1, <2>1 DEF IInv, Parts, InOrder, FromInput, Phase, Printed, LockData, Step
<1>2. IInv /\ [Next]_vars => [~dataLocked /\ dataLocked' => Known]_vars
  BY <1>1
<1> QED BY Invariance, <1>2, PTL DEF Spec, ActivatedWithKnownKeys

\* With -dry no step changes the chip.
THEOREM DryRunChangesNothingAlways == Spec => DryRunChangesNothing
<1>1. ASSUME IInv, Next, dry, pc # "off"
      PROVE  UNCHANGED chip
  <2>1. /\ ~WriteConfig /\ ~LockConfig /\ ~LockData
        /\ ~GenerateKey("keyLoop") /\ ~GenerateKey("genLoop")
    BY <1>1 DEF IInv, Parts, InEarnest, WriteConfig, LockConfig, LockData, GenerateKey, Step
  <2> QED BY <1>1, <2>1 DEF Next, Command, Run, ReadInfo, ReadInfoFails, VerifyConfig, Activate,
                ReadKeys, SkipSlot, KeysEnd, GenEnd, MaybeGenerate, Kill, BecomeQuiet
<1>2. IInv /\ [Next]_vars => [dry /\ pc # "off" => UNCHANGED chip]_vars
  BY <1>1
<1> QED BY Invariance, <1>2, PTL DEF Spec, DryRunChangesNothing

-----------------------------------------------------------------------------
(* The refinement.                                                         *)

Stage == IF dataLocked THEN "active" ELSE IF configLocked THEN "configured" ELSE "open"
Zone == [body |-> content, extra |-> extra]
Asked == ZoneOf(conf)

\* A step that touches neither the chip nor the configuration to provision is
\* a stutter of Lifecycle.
LEMMA Stutters ==
  ASSUME UNCHANGED <<chip, conf>>
  PROVE  UNCHANGED <<Stage, Zone, Asked, keys>>
BY DEF chip, Stage, Zone, Asked, ZoneOf

\* What a file describes may be asked for, and so may what the chip holds, as
\* it is or with another address.
LEMMA AskRefines ==
  ASSUME IInv, UNCHANGED chip,
         conf' \in Configs \/ conf' = conf \/ conf' = FromDevice
  PROVE  L!Ask \/ UNCHANGED <<Stage, Zone, Asked, keys>>
<1>1. UNCHANGED <<Stage, Zone, keys>>
  BY DEF chip, Stage, Zone
<1>2. CASE conf' = conf
  BY <1>1, <1>2 DEF Asked, ZoneOf
<1>3. CASE conf' \in Configs
  <2>1. Asked' \in FileZones
    BY <1>3 DEF Asked, FileZones, ZoneOf
  <2> QED BY <1>1, <2>1 DEF L!Ask, Stage, Zone, Asked
<1>4. CASE conf' = FromDevice
  <2>1. Asked' \in KeptZones(Zone)
    BY <1>4 DEF Asked, KeptZones, Zone, ZoneOf, FromDevice
  <2> QED BY <1>1, <2>1 DEF L!Ask, Stage, Zone, Asked
<1> QED BY <1>2, <1>3, <1>4

LEMMA StepRefines ==
  ASSUME IInv, Next
  PROVE  [L!Next]_(L!lvars)
<1> USE DEF Stage, Zone, Asked
<1>1. CASE WriteConfig
  <2>1. /\ Stage = "open" /\ Stage' = "open" /\ keys' = keys /\ Asked' = Asked
    BY <1>1 DEF IInv, Parts, InOrder, Phase, WriteConfig, Step, flags, ZoneOf
  <2>2. Zone' \in [body : Bodies, extra : [ExtraBytes -> 0..255]]
    BY <1>1, WriteStep DEF IInv, TypeOK
  <2> QED BY <2>1, <2>2 DEF L!Next, L!Write
<1>2. CASE LockConfig
  <2>1. /\ Stage = "open" /\ Stage' \in {"open", "configured"}
        /\ keys' = keys /\ Zone' = Zone /\ Asked' = Asked
    BY <1>2 DEF IInv, Parts, TypeOK, InOrder, Phase, LockConfig, Step, flags, ZoneOf
  <2>2. Zone = Asked
    BY <1>2 DEF IInv, Parts, Phase, LockConfig, Step, Holds, ZoneOf
  <2> QED BY <2>1, <2>2 DEF L!Next, L!Configure, L!lvars
<1>3. CASE GenerateKey("keyLoop") \/ GenerateKey("genLoop")
  <2>1. configLocked /\ UNCHANGED <<Stage, Zone, Asked>>
    BY <1>3 DEF IInv, Parts, InOrder, Phase, GenerateKey, Step, flags, ZoneOf
  <2>2. /\ slot \in Slots /\ slot \in Private(content)
        /\ dataLocked => slot \in Regenerable(content)
    BY <1>3 DEF IInv, Parts, Phase, Printed, GenerateKey, Generated, Step
  <2>3. slot \in PrivateIn(Zone) /\ (dataLocked => slot \in RegenerableIn(Zone))
    BY <2>2 DEF PrivateIn, RegenerableIn
  <2>4. keys' = keys \/ \E k \in {"unprinted", "printed"} : keys' = [keys EXCEPT ![slot] = k]
    BY <1>3 DEF GenerateKey
  <2>5. CASE keys' = keys
    BY <2>1, <2>5 DEF L!lvars
  <2>6. CASE \E k \in {"unprinted", "printed"} : keys' = [keys EXCEPT ![slot] = k]
    <3>1. L!Generate(slot)
      BY <2>1, <2>3, <2>6 DEF L!Generate
    <3> QED BY <2>2, <3>1 DEF L!Next
  <2> QED BY <2>4, <2>5, <2>6
<1>4. CASE LockData
  <2>1. /\ Stage = "configured" /\ Stage' \in {"configured", "active"}
        /\ keys' = keys /\ Zone' = Zone /\ Asked' = Asked
        /\ \A s \in Private(content) : keys[s] = "printed"
    BY <1>4 DEF IInv, Parts, TypeOK, InOrder, Phase, Printed, LockData, Step, flags, ZoneOf
  <2>2. \A s \in PrivateIn(Zone) : keys[s] = "printed"
    BY <2>1 DEF PrivateIn
  <2> QED BY <2>1, <2>2 DEF L!Next, L!Activate, L!lvars
<1>5. CASE ReadInfo \/ \E i \in Inputs, c \in Configs, d, g \in BOOLEAN : Run(i, c, d, g)
  <2>1. UNCHANGED chip /\ (conf' \in Configs \/ conf' = conf \/ conf' = FromDevice)
    BY <1>5 DEF ReadInfo, Run
  <2>2. L!Ask \/ UNCHANGED <<Stage, Zone, Asked, keys>>
    BY <2>1, AskRefines
  <2> QED BY <2>2 DEF L!Next, L!lvars
<1>6. CASE UNCHANGED <<chip, conf>>
  BY <1>6, Stutters DEF L!lvars
<1>7. \/ WriteConfig \/ LockConfig \/ LockData
      \/ GenerateKey("keyLoop") \/ GenerateKey("genLoop")
      \/ ReadInfo \/ \E i \in Inputs, c \in Configs, d, g \in BOOLEAN : Run(i, c, d, g)
      \/ UNCHANGED <<chip, conf>>
  BY DEF Next, Command, ReadInfoFails, VerifyConfig, Activate, ReadKeys, SkipSlot,
         KeysEnd, GenEnd, MaybeGenerate, Kill, BecomeQuiet, Step, flags
<1> QED BY <1>1, <1>2, <1>3, <1>4, <1>5, <1>6, <1>7

\* The command keeps the chip to its life cycle: what it locks is what was
\* asked for last, a file's configuration or the one the chip held.
THEOREM ImplementsLifecycle == Spec => LifecycleSpec
<1>1. Init => L!Init
  BY ConfigAssumption DEF Init, L!Init, FileZones, ZoneOf, Configuration, Blank, ExtraBytes
<1>2. IInv /\ [Next]_vars => [L!Next]_(L!lvars)
  <2>1. UNCHANGED vars => UNCHANGED <<Stage, Zone, Asked, keys>>
    BY Stutters DEF vars, chip, flags
  <2>2. UNCHANGED vars => UNCHANGED L!lvars
    BY <2>1 DEF L!lvars, Stage, Zone, Asked
  <2> QED BY <2>2, StepRefines
<1> QED BY Invariance, <1>1, <1>2, PTL DEF Spec, LifecycleSpec, L!Spec
-----------------------------------------------------------------------------
(* A run ends, and in quiet times it ends with an active chip.             *)

\* The commands that are still ahead of a run, and the slots of its loop.
Ahead ==
  CASE pc = "info" -> 11
    [] pc = "write" -> 10
    [] pc = "verify" -> 9
    [] pc = "lockConfig" -> 8
    [] pc = "activate" -> 7
    [] pc = "keys" -> 6
    [] pc = "keyLoop" -> 5
    [] pc = "lockData" -> 4
    [] pc = "gen?" -> 3
    [] pc = "genKeys" -> 2
    [] pc = "genLoop" -> 1
    [] OTHER -> 0

SlotsAhead == (LastSlot + 1) - slot

CloserToExit ==
  \/ Ahead' < Ahead
  \/ Ahead' = Ahead /\ SlotsAhead' < SlotsAhead

LEMMA CommandCloser ==
  ASSUME TypeOK, Command
  PROVE  CloserToExit
<1> USE DEF CloserToExit, Ahead, SlotsAhead, Exit, Step
<1>1. CASE ReadInfo \/ ReadInfoFails
  BY <1>1 DEF ReadInfo, ReadInfoFails
<1>2. CASE WriteConfig \/ VerifyConfig \/ LockConfig \/ Activate
  BY <1>2 DEF WriteConfig, VerifyConfig, LockConfig, Activate
<1>3. CASE ReadKeys("keys", "keyLoop") \/ ReadKeys("genKeys", "genLoop")
  BY <1>3 DEF ReadKeys
<1>4. ASSUME NEW loop \in {"keyLoop", "genLoop"}, GenerateKey(loop)
      PROVE  CloserToExit
  <2>1. PICK e \in Ends : AfterKey(e)
    BY <1>4 DEF GenerateKey
  <2>2. pc = loop /\ slot \in Slots
    BY <1>4 DEF GenerateKey
  <2> QED BY <2>1, <2>2, ConfigAssumption DEF AfterKey, Slots
<1>5. ASSUME NEW loop \in {"keyLoop", "genLoop"}, SkipSlot(loop)
      PROVE  CloserToExit
  BY <1>5, ConfigAssumption DEF SkipSlot, Slots
<1>6. CASE KeysEnd \/ GenEnd
  BY <1>6 DEF KeysEnd, GenEnd
<1>7. CASE LockData \/ MaybeGenerate
  BY <1>7 DEF LockData, MaybeGenerate
<1> QED BY <1>1, <1>2, <1>3, <1>4, <1>5, <1>6, <1>7 DEF Command

\* Every run of the command comes to its end, whatever fails and however many
\* slots there are: each step brings it closer to it, and only a kill, or the
\* end of the failures, comes between.
THEOREM RunsRunOut ==
  Spec => /\ [](Ahead \in Nat /\ SlotsAhead \in Nat /\ (Ahead = 0 => pc = "off"))
          /\ [][/\ Command => CloserToExit
                /\ pc # "off" /\ ~Command => pc' = "off" \/ UNCHANGED <<pc, slot>>]_vars
<1>1. TypeOK => Ahead \in Nat /\ SlotsAhead \in Nat /\ (Ahead = 0 => pc = "off")
  BY ConfigAssumption DEF TypeOK, Ahead, SlotsAhead
<1>2. ASSUME Next, ~Command, pc # "off"
      PROVE  pc' = "off" \/ UNCHANGED <<pc, slot>>
  <2>1. \A i \in Inputs, c \in Configs, d, g \in BOOLEAN : ~Run(i, c, d, g)
    BY <1>2, Zenon DEF Run
  <2>2. Kill \/ BecomeQuiet
    BY <1>2, <2>1, Zenon DEF Next
  <2> QED BY <2>2 DEF Kill, BecomeQuiet, Exit
<1>3. ASSUME TypeOK, [Next]_vars
      PROVE  [/\ Command => CloserToExit
              /\ pc # "off" /\ ~Command => pc' = "off" \/ UNCHANGED <<pc, slot>>]_vars
  BY <1>2, <1>3, CommandCloser
<1> QED BY <1>1, <1>3, TypeCorrect, PTL DEF Spec

\* Failures are over, and the configuration is one that can be locked.
Hopeful == quiet /\ Lockable

\* A run on its way to an active chip.
OnTrack ==
  /\ Hopeful /\ ~dry /\ ~dataLocked
  /\ pc \in {"info", "write", "verify", "lockConfig", "activate", "keys", "keyLoop", "lockData"}
  /\ pc = "verify" => Verified

LEMMA StillHopeful ==
  ASSUME IInv, Hopeful, [Next]_vars
  PROVE  Hopeful'
<1>1. UNCHANGED <<quiet, input>> /\ (input = "file" => conf' = conf)
  <2>1. ASSUME NEW i \in Inputs, NEW c \in Configs, NEW d \in BOOLEAN, NEW g \in BOOLEAN,
               Run(i, c, d, g)
        PROVE  UNCHANGED <<quiet, input>> /\ (input = "file" => conf' = conf)
    BY <2>1 DEF Run, Hopeful
  <2>2. Command => UNCHANGED <<quiet, input>> /\ (input = "file" => conf' = conf)
    BY DEF Command, ReadInfo, ReadInfoFails, WriteConfig, VerifyConfig, LockConfig, Activate,
           ReadKeys, GenerateKey, SkipSlot, KeysEnd, GenEnd, LockData, MaybeGenerate, Step, flags
  <2>3. ~Kill /\ ~BecomeQuiet
    BY DEF Kill, BecomeQuiet, Hopeful
  <2> QED BY <2>1, <2>2, <2>3 DEF Next, vars, flags
<1>2. extra' = Blank \/ configLocked'
  <2>1. CASE WriteConfig
    <3>1. extra = Blank /\ ~configLocked /\ quiet
      BY <2>1 DEF IInv, Parts, Phase, WriteConfig, Step, Hopeful, Lockable
    <3>2. conf.extra = Blank
      BY <2>1, <3>1 DEF IInv, Parts, FromInput, WriteConfig, Step, Hopeful, Lockable
    <3> QED BY <2>1, <3>1, <3>2 DEF WriteConfig
  <2>2. CASE LockConfig
    BY <2>2 DEF LockConfig, Hopeful, Lockable
  <2>3. CASE UNCHANGED vars \/ (Next /\ ~WriteConfig /\ ~LockConfig)
    <3>1. UNCHANGED <<extra, configLocked>>
      BY <2>3 DEF Next, Command, Run, ReadInfo, ReadInfoFails, VerifyConfig, Activate, ReadKeys,
                  GenerateKey, SkipSlot, KeysEnd, GenEnd, LockData, MaybeGenerate, Kill,
                  BecomeQuiet, chip, vars
    <3> QED BY <3>1 DEF Hopeful, Lockable
  <2> QED BY <2>1, <2>2, <2>3
<1> QED BY <1>1, <1>2 DEF Hopeful, Lockable

LEMMA OnTrackStep ==
  ASSUME IInv, OnTrack, Next
  PROVE  OnTrack' \/ dataLocked'
<1> USE DEF OnTrack
<1>1. Hopeful' /\ quiet /\ quiet'
  BY StillHopeful DEF Hopeful
<1>2. Phase /\ InEarnest /\ Ends = {"done"}
  BY <1>1 DEF IInv, Parts, Ends
<1>3. \A i \in Inputs, c \in Configs, d, g \in BOOLEAN : ~Run(i, c, d, g)
  BY Zenon DEF Run
<1>4. ~Kill /\ ~BecomeQuiet
  BY <1>1 DEF Kill, BecomeQuiet
<1>5. ~ReadInfoFails
  BY <1>1 DEF ReadInfoFails, Step
<1>6. ~MaybeGenerate /\ ~ReadKeys("genKeys", "genLoop") /\ ~GenerateKey("genLoop")
      /\ ~SkipSlot("genLoop") /\ ~GenEnd
  BY DEF MaybeGenerate, ReadKeys, GenerateKey, SkipSlot, GenEnd, Step
<1>7. CASE ReadInfo
  BY <1>1, <1>7 DEF ReadInfo, chip, flags
<1>8. CASE WriteConfig
  <2>1. pc = "write" /\ extra = Blank /\ conf.open
    BY <1>2, <1>8 DEF WriteConfig, Step, Hopeful, Lockable, IInv, Parts, FromInput, Phase
  <2>2. /\ content' = conf.body /\ extra' = conf.extra /\ pc' = "verify"
        /\ UNCHANGED <<conf, dry, dataLocked>>
    BY <1>1, <1>8, <2>1 DEF WriteConfig, Step, flags
  <2> QED BY <1>1, <2>1, <2>2 DEF Verified, Holds
<1>9. CASE VerifyConfig
  BY <1>1, <1>9 DEF VerifyConfig, Step, flags, chip
<1>10. CASE LockConfig
  BY <1>1, <1>2, <1>10 DEF LockConfig, Step, flags
<1>11. CASE Activate
  BY <1>1, <1>2, <1>11 DEF Activate, Step, flags, chip, Phase
<1>12. CASE ReadKeys("keys", "keyLoop")
  BY <1>1, <1>12 DEF ReadKeys, Step, flags, chip
<1>13. CASE GenerateKey("keyLoop") \/ SkipSlot("keyLoop")
  BY <1>1, <1>2, <1>13 DEF GenerateKey, SkipSlot, AfterKey, Step, flags, chip
<1>14. CASE KeysEnd
  BY <1>1, <1>14 DEF KeysEnd, Step, flags, chip
<1>15. CASE LockData
  BY <1>1, <1>2, <1>15 DEF LockData, Executed
<1> QED BY <1>3, <1>4, <1>5, <1>6, <1>7, <1>8, <1>9, <1>10, <1>11, <1>12, <1>13, <1>14, <1>15
        DEF Next, Command

\* What makes the chip active in the end (Provision!Recovers), for any
\* configurations, slots and state that failures and other runs left: once
\* failures are over, a run that begins is on its way, it does not leave the
\* way before the data zone is locked, and the configuration stays one that
\* can be locked.  With RunsRunOut it gets there.
THEOREM QuietRunsActivate ==
  Spec => [][Hopeful =>
               /\ Hopeful'
               /\ pc = "off" /\ ~dataLocked => OnTrack'
               /\ OnTrack => OnTrack' \/ dataLocked']_vars
<1>1. ASSUME IInv, Hopeful, Next, pc = "off", ~dataLocked
      PROVE  OnTrack'
  <2>1. PICK i \in Inputs, c \in Configs, d \in BOOLEAN, g \in BOOLEAN : Run(i, c, d, g)
    <3>1. ~Command /\ ~Kill /\ ~BecomeQuiet
      BY <1>1 DEF Command, ReadInfo, ReadInfoFails, WriteConfig, VerifyConfig, LockConfig,
                  Activate, ReadKeys, GenerateKey, SkipSlot, KeysEnd, GenEnd, LockData,
                  MaybeGenerate, Step, Kill, BecomeQuiet, Hopeful
    <3> QED BY <1>1, <3>1, Zenon DEF Next
  <2>2. quiet /\ pc' = "info" /\ ~d /\ dry' = d /\ dataLocked' = dataLocked
    BY <1>1, <2>1 DEF Run, Hopeful, chip
  <2> QED BY <1>1, <2>2, StillHopeful DEF OnTrack
<1>2. ASSUME IInv, [Next]_vars
      PROVE  [Hopeful =>
                /\ Hopeful'
                /\ pc = "off" /\ ~dataLocked => OnTrack'
                /\ OnTrack => OnTrack' \/ dataLocked']_vars
  BY <1>1, <1>2, StillHopeful, OnTrackStep
<1> QED BY <1>2, Invariance, PTL DEF Spec
=============================================================================
