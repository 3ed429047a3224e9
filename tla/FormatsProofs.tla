---------------------------- MODULE FormatsProofs ---------------------------
(***************************************************************************)
(* Proofs about Formats, for any position, files, chips and addresses.     *)
(***************************************************************************)
EXTENDS Formats, SequenceTheorems, TLAPS

-----------------------------------------------------------------------------
(* Masks and shifts: a mask with bits in one place cuts that place.        *)

LEMMA AndSum ==
  ASSUME NEW a, NEW b
  PROVE  And(a, b) =
           Both(a, b, 0) + 2 * Both(a, b, 1) + 4 * Both(a, b, 2) + 8 * Both(a, b, 3)
           + 16 * Both(a, b, 4) + 32 * Both(a, b, 5) + 64 * Both(a, b, 6) + 128 * Both(a, b, 7)
<1>1. /\ Both(a, b, 0) \in Int /\ Both(a, b, 1) \in Int /\ Both(a, b, 2) \in Int
      /\ Both(a, b, 3) \in Int /\ Both(a, b, 4) \in Int /\ Both(a, b, 5) \in Int
      /\ Both(a, b, 6) \in Int /\ Both(a, b, 7) \in Int
  BY SMT DEF Both
<1> QED BY <1>1 DEF And, Number

LEMMA BitsAre ==
  ASSUME NEW b \in Byte
  PROVE  /\ Bit(b, 0) = b % 2 /\ Bit(b, 1) = (b \div 2) % 2 /\ Bit(b, 2) = (b \div 4) % 2
         /\ Bit(b, 3) = (b \div 8) % 2 /\ Bit(b, 4) = (b \div 16) % 2
         /\ Bit(b, 5) = (b \div 32) % 2 /\ Bit(b, 6) = (b \div 64) % 2
         /\ Bit(b, 7) = (b \div 128) % 2
BY DEF Bit, Weight, Byte

LEMMA Flags ==
  ASSUME NEW b \in Byte
  PROVE  /\ Flag(b, 1) = b % 2 /\ Flag(b, 2) = (b \div 2) % 2 /\ Flag(b, 4) = (b \div 4) % 2
         /\ Flag(b, 8) = (b \div 8) % 2 /\ Flag(b, 16) = (b \div 16) % 2
         /\ Flag(b, 32) = (b \div 32) % 2 /\ Flag(b, 64) = (b \div 64) % 2
         /\ Flag(b, 128) = (b \div 128) % 2
<1>1. {1, 2, 4, 8, 16, 32, 64, 128} \subseteq Byte
  BY DEF Byte
<1>2. Flag(b, 1) = b % 2
  BY <1>1, AndSum, BitsAre DEF Byte, Both, Flag
<1>3. Flag(b, 2) = (b \div 2) % 2
  BY <1>1, AndSum, BitsAre DEF Byte, Both, Flag
<1>4. Flag(b, 4) = (b \div 4) % 2
  BY <1>1, AndSum, BitsAre DEF Byte, Both, Flag
<1>5. Flag(b, 8) = (b \div 8) % 2
  BY <1>1, AndSum, BitsAre DEF Byte, Both, Flag
<1>6. Flag(b, 16) = (b \div 16) % 2
  BY <1>1, AndSum, BitsAre DEF Byte, Both, Flag
<1>7. Flag(b, 32) = (b \div 32) % 2
  BY <1>1, AndSum, BitsAre DEF Byte, Both, Flag
<1>8. Flag(b, 64) = (b \div 64) % 2
  BY <1>1, AndSum, BitsAre DEF Byte, Both, Flag
<1>9. Flag(b, 128) = (b \div 128) % 2
  BY <1>1, AndSum, BitsAre DEF Byte, Both, Flag
<1> QED BY <1>2, <1>3, <1>4, <1>5, <1>6, <1>7, <1>8, <1>9

LEMMA LowBits ==
  ASSUME NEW b \in Byte
  PROVE  And(b, 3) = b % 4 /\ And(b, 15) = b % 16
<1>1. 3 \in Byte /\ 15 \in Byte
  BY DEF Byte
<1> QED BY <1>1, AndSum, BitsAre DEF Byte, Both

LEMMA Fields ==
  ASSUME NEW b \in Byte
  PROVE  /\ Masked(b, 4, 2) = (b \div 4) % 2 /\ Masked(b, 12, 2) = (b \div 4) % 4
         /\ Masked(b, 14, 1) = (b \div 2) % 8 /\ Masked(b, 28, 2) = (b \div 4) % 8
         /\ Masked(b, 112, 4) = (b \div 16) % 8 /\ Masked(b, 192, 6) = (b \div 64) % 4
         /\ Masked(b, 240, 4) = (b \div 16) % 16 /\ Masked(b, 248, 3) = (b \div 8) % 32
<1>1. {4, 12, 14, 28, 112, 192, 240, 248} \subseteq Byte
  BY DEF Byte
<1>2. Masked(b, 4, 2) = (b \div 4) % 2
  BY <1>1, AndSum, BitsAre DEF Byte, Both, Masked, Weight
<1>3. Masked(b, 12, 2) = (b \div 4) % 4
  BY <1>1, AndSum, BitsAre DEF Byte, Both, Masked, Weight
<1>4. Masked(b, 14, 1) = (b \div 2) % 8
  BY <1>1, AndSum, BitsAre DEF Byte, Both, Masked, Weight
<1>5. Masked(b, 28, 2) = (b \div 4) % 8
  BY <1>1, AndSum, BitsAre DEF Byte, Both, Masked, Weight
<1>6. Masked(b, 112, 4) = (b \div 16) % 8
  BY <1>1, AndSum, BitsAre DEF Byte, Both, Masked, Weight
<1>7. Masked(b, 192, 6) = (b \div 64) % 4
  BY <1>1, AndSum, BitsAre DEF Byte, Both, Masked, Weight
<1>8. Masked(b, 240, 4) = (b \div 16) % 16
  BY <1>1, AndSum, BitsAre DEF Byte, Both, Masked, Weight
<1>9. Masked(b, 248, 3) = (b \div 8) % 32
  BY <1>1, AndSum, BitsAre DEF Byte, Both, Masked, Weight
<1> QED BY <1>2, <1>3, <1>4, <1>5, <1>6, <1>7, <1>8, <1>9

-----------------------------------------------------------------------------
(* The accessors.                                                          *)

Agrees(layout, fields, b) ==
  /\ DOMAIN fields = DOMAIN layout
  /\ \A n \in DOMAIN layout \ {"reserved1"} : fields[n] = Shown(n, Cut(b, layout[n]))

LEMMA CutIs ==
  ASSUME NEW b \in Byte
  PROVE  /\ Cut(b, <<0, 1>>) = b % 2 /\ Cut(b, <<1, 1>>) = (b \div 2) % 2
         /\ Cut(b, <<2, 1>>) = (b \div 4) % 2 /\ Cut(b, <<3, 1>>) = (b \div 8) % 2
         /\ Cut(b, <<4, 1>>) = (b \div 16) % 2 /\ Cut(b, <<5, 1>>) = (b \div 32) % 2
         /\ Cut(b, <<6, 1>>) = (b \div 64) % 2 /\ Cut(b, <<7, 1>>) = (b \div 128) % 2
         /\ Cut(b, <<0, 2>>) = b % 4 /\ Cut(b, <<2, 2>>) = (b \div 4) % 4
         /\ Cut(b, <<6, 2>>) = (b \div 64) % 4 /\ Cut(b, <<1, 3>>) = (b \div 2) % 8
         /\ Cut(b, <<2, 3>>) = (b \div 4) % 8 /\ Cut(b, <<4, 3>>) = (b \div 16) % 8
         /\ Cut(b, <<0, 4>>) = b % 16 /\ Cut(b, <<4, 4>>) = (b \div 16) % 16
         /\ Cut(b, <<3, 5>>) = (b \div 8) % 32 /\ Cut(b, <<1, 7>>) = b \div 2
<1>1. /\ Weight[1] = 1 /\ Weight[2] = 2 /\ Weight[3] = 4 /\ Weight[4] = 8
      /\ Weight[5] = 16 /\ Weight[6] = 32 /\ Weight[7] = 64 /\ Weight[8] = 128
  BY DEF Weight
<1>2. /\ b \in Int /\ b \div 1 = b
      /\ (b \div 128) % 2 = b \div 128 /\ (b \div 2) % 128 = b \div 2
  BY DEF Byte
<1> QED BY <1>1, <1>2 DEF Cut

LEMMA SingleBytes ==
  ASSUME NEW b \in Byte
  PROVE  /\ Agrees(Commented.AESEnable[1], AESEnable(b), b)
         /\ Agrees(Commented.I2CEnable[1], I2CEnable(b), b)
         /\ Agrees(Commented.CountMatch[1], CountMatch(b), b)
         /\ Agrees(Commented.ChipMode[1], ChipMode608(b), b)
         /\ Agrees(Commented.UseLock[1], UseLock(b), b)
         /\ Agrees(Commented.VolatileKeyPermission[1], VolatileKeyPermission(b), b)
         /\ Agrees(Commented.X509Format[1], X509Format(b), b)
<1>1. Agrees(Commented.AESEnable[1], AESEnable(b), b)
  BY CutIs, Flags, LowBits, Fields DEF Agrees, Commented, AESEnable, Shown
<1>2. Agrees(Commented.I2CEnable[1], I2CEnable(b), b)
  BY CutIs, Flags, LowBits, Fields DEF Agrees, Commented, I2CEnable, Shown
<1>3. Agrees(Commented.CountMatch[1], CountMatch(b), b)
  BY CutIs, Flags, LowBits, Fields DEF Agrees, Commented, CountMatch, Shown
<1>4. Agrees(Commented.ChipMode[1], ChipMode608(b), b)
  BY CutIs, Flags, LowBits, Fields DEF Agrees, Commented, ChipMode608, Shown
<1>5. Agrees(Commented.UseLock[1], UseLock(b), b)
  BY CutIs, Flags, LowBits, Fields DEF Agrees, Commented, UseLock, Shown
<1>6. Agrees(Commented.VolatileKeyPermission[1], VolatileKeyPermission(b), b)
  BY CutIs, Flags, LowBits, Fields DEF Agrees, Commented, VolatileKeyPermission, Shown
<1>7. Agrees(Commented.X509Format[1], X509Format(b), b)
  BY CutIs, Flags, LowBits, Fields DEF Agrees, Commented, X509Format, Shown
<1> QED BY <1>1, <1>2, <1>3, <1>4, <1>5, <1>6, <1>7

LEMMA BytePairs ==
  ASSUME NEW b \in Byte
  PROVE  /\ Agrees(Commented.SlotConfig[1], SlotConfig1(b), b)
         /\ Agrees(Commented.SlotConfig[2], SlotConfig2(b), b)
         /\ Agrees(Commented.SecureBoot[1], SecureBoot1(b), b)
         /\ Agrees(Commented.SecureBoot[2], SecureBoot2(b), b)
         /\ Agrees(Commented.ChipOptions[1], ChipOptions1(b), b)
         /\ Agrees(Commented.ChipOptions[2], ChipOptions2(b), b)
         /\ Agrees(Commented.KeyConfig[1], KeyConfig1(b), b)
         /\ Agrees(Commented.KeyConfig[2], KeyConfig2(b), b)
<1>1. Agrees(Commented.SlotConfig[1], SlotConfig1(b), b)
  BY CutIs, Flags, LowBits, Fields DEF Agrees, Commented, SlotConfig1, Shown
<1>2. Agrees(Commented.SlotConfig[2], SlotConfig2(b), b)
  <2> DEFINE conf == Masked(b, 240, 4)
  <2>1. conf = (b \div 16) % 16 /\ b \in Int
    BY Fields DEF Byte
  <2>2. conf \in Byte
    BY <2>1 DEF Byte
  <2>3. /\ conf % 2 = (b \div 16) % 2 /\ (conf \div 2) % 2 = (b \div 32) % 2
        /\ conf \div 4 = (b \div 64) % 4
    BY <2>1
  <2>4. Flag(conf, 1) = (b \div 16) % 2 /\ Flag(conf, 2) = (b \div 32) % 2
    BY <2>2, <2>3, Flags
  <2> QED BY <2>3, <2>4, CutIs, LowBits DEF Agrees, Commented, SlotConfig2, Shown
<1>3. Agrees(Commented.SecureBoot[1], SecureBoot1(b), b)
  BY CutIs, Flags, LowBits, Fields DEF Agrees, Commented, SecureBoot1, Shown
<1>4. Agrees(Commented.SecureBoot[2], SecureBoot2(b), b)
  BY CutIs, Flags, LowBits, Fields DEF Agrees, Commented, SecureBoot2, Shown
<1>5. Agrees(Commented.ChipOptions[1], ChipOptions1(b), b)
  BY CutIs, Flags, LowBits, Fields DEF Agrees, Commented, ChipOptions1, Shown
<1>6. Agrees(Commented.ChipOptions[2], ChipOptions2(b), b)
  BY CutIs, Flags, LowBits, Fields DEF Agrees, Commented, ChipOptions2, Shown
<1>7. Agrees(Commented.KeyConfig[1], KeyConfig1(b), b)
  BY CutIs, Flags, LowBits, Fields DEF Agrees, Commented, KeyConfig1, Shown
<1>8. Agrees(Commented.KeyConfig[2], KeyConfig2(b), b)
  BY CutIs, Flags, LowBits, Fields DEF Agrees, Commented, KeyConfig2, Shown
<1> QED BY <1>1, <1>2, <1>3, <1>4, <1>5, <1>6, <1>7, <1>8

\* All the accessors that MarshalJSON calls.
LEMMA AccessorsAgree ==
  ASSUME NEW p, NEW b \in Byte, FieldName(p) \in DOMAIN Commented
  PROVE  LET bytes == Commented[FieldName(p)]
         IN Agrees(bytes[IF Second(p) /\ Len(bytes) = 2 THEN 2 ELSE 1], MarshalJSON(p, b), b)
<1> DEFINE f == FieldName(p)
           bytes == Commented[f]
           k == IF Second(p) /\ Len(bytes) = 2 THEN 2 ELSE 1
<1>1. CASE f \in {"SlotConfig", "SecureBoot", "ChipOptions", "KeyConfig"}
  <2>1. Len(bytes) = 2
    BY <1>1 DEF Commented
  <2>2. CASE Second(p)
    BY <1>1, <2>1, <2>2, BytePairs DEF MarshalJSON
  <2>3. CASE ~Second(p)
    BY <1>1, <2>1, <2>3, BytePairs DEF MarshalJSON
  <2> QED BY <2>2, <2>3
<1>2. CASE f \in {"AESEnable", "I2CEnable", "CountMatch", "ChipMode", "UseLock",
                 "VolatileKeyPermission", "X509Format"}
  <2>1. Len(bytes) = 1
    BY <1>2 DEF Commented
  <2> QED BY <1>2, <2>1, SingleBytes DEF MarshalJSON
<1>3. f \in {"AESEnable", "I2CEnable", "CountMatch", "ChipMode", "SlotConfig", "UseLock",
            "VolatileKeyPermission", "SecureBoot", "ChipOptions", "X509Format", "KeyConfig"}
  BY DEF Commented
<1> QED BY <1>1, <1>2, <1>3

-----------------------------------------------------------------------------
(* Where the address is, and reading.                                      *)

LEMMA SizeIs == Size = 128 /\ PermanentOffset608 = 16 /\ \A i \in 1..112 : Default608[i] \in Byte
<1>1. Len(Default608) = 112 /\ Default608 \in Seq(Byte)
  BY FormatsAssumption
<1>2. \A i \in 1..112 : Default608[i] \in Byte
  BY <1>1, ElementOfSeq
<1> QED BY <1>1, <1>2 DEF Size, PermanentOffset608

LEMMA ConstantsIn ==
  /\ Positions \subseteq 0..127 /\ ChipBytes \subseteq Byte /\ 0 \in Byte
  /\ \A a \in Addresses : a[1] \in Nat /\ a[1] < 65536 /\ a[2] \in BOOLEAN
<1>1. Positions \subseteq 0..(Size - 1)
  BY SMT, FormatsAssumption
<1>2. Size - 1 = 127
  BY SizeIs
<1>3. \A a \in Addresses : a[1] \in Nat /\ a[1] < 65536 /\ a[2] \in BOOLEAN
  BY SMT, FormatsAssumption
<1>4. ChipBytes \subseteq Byte
  BY SMT, FormatsAssumption
<1>5. 0 \in Byte
  BY DEF Byte
<1>6. Positions \subseteq 0..127
  BY <1>1, <1>2
<1> QED BY SMT, <1>3, <1>4, <1>5, <1>6

\* The address is the byte 16 in Config608 too.
LEMMA AddressAt ==
  ASSUME NEW p \in 0..127
  PROVE  FieldName(p) = "I2CAddress" <=> p = 16
<1> DEFINE Holds(f) == Config608[f][1] <= p /\ p <= Config608[f][2]
<1>1. FieldName(p) = CHOOSE f \in DOMAIN Config608 : Holds(f)
  BY DEF FieldName, FieldAt
<1>2. \E f \in DOMAIN Config608 : Holds(f)
  <2>1. p < 20 => \E f \in {"SN03", "RevNum", "SN48", "AESEnable", "I2CEnable", "Reserved15",
                           "I2CAddress", "Reserved17", "CountMatch", "ChipMode"} : Holds(f)
    BY DEF Config608
  <2>2. p \in 20..83 => \E f \in {"SlotConfig", "Counter", "UseLock", "VolatileKeyPermission",
                                 "SecureBoot", "KdfIvLoc", "KdfIvStr", "Reserved68"} : Holds(f)
    BY DEF Config608
  <2>3. p > 83 => \E f \in {"UserExtra", "UserExtraAdd", "LockValue", "LockConfig", "SlotLocked",
                           "ChipOptions", "X509Format", "KeyConfig"} : Holds(f)
    BY DEF Config608
  <2>4. {"SN03", "RevNum", "SN48", "AESEnable", "I2CEnable", "Reserved15", "I2CAddress",
         "Reserved17", "CountMatch", "ChipMode", "SlotConfig", "Counter", "UseLock",
         "VolatileKeyPermission", "SecureBoot", "KdfIvLoc", "KdfIvStr", "Reserved68",
         "UserExtra", "UserExtraAdd", "LockValue", "LockConfig", "SlotLocked", "ChipOptions",
         "X509Format", "KeyConfig"} = DOMAIN Config608
    BY DEF Config608
  <2> HIDE DEF Holds
  <2> QED BY <2>1, <2>2, <2>3, <2>4
<1>3. FieldName(p) \in DOMAIN Config608 /\ Holds(FieldName(p))
  <2> HIDE DEF Holds
  <2> QED BY <1>1, <1>2
<1>4. Holds("I2CAddress") <=> p = 16
  BY DEF Config608
<1>5. ASSUME p = 16, NEW f \in DOMAIN Config608, Holds(f)
      PROVE  f = "I2CAddress"
  BY <1>5 DEF Config608
<1> QED BY <1>3, <1>4, <1>5

\* A file in digits has no byte to say behind its end, and one for the structures
\* says each byte, those before 16 too.
Readable ==
  /\ file.format = "hex" =>
       /\ file = Hex(file.len, file.byte) /\ file.len \in Nat
       /\ pos >= PermanentOffset608 + file.len => want = 0
  /\ file.format = "bits" => file.byte = want

IInv == TypeOK /\ Preserved /\ InstalledAsMeant /\ Readable

LEMMA InitIInv == Init => IInv
<1> SUFFICES ASSUME Init
             PROVE  IInv
  OBVIOUS
<1>1. /\ pos \in Positions /\ chip \in ChipBytes /\ configLocked = FALSE /\ file \in Files
      /\ wantChip = chip /\ result = "none"
  BY DEF Init
<1>2. pos \in 0..127 /\ chip \in Byte /\ PermanentOffset608 = 16 /\ 0 \in Byte
  BY SMT, <1>1, ConstantsIn, SizeIs
<1>3. InstalledAsMeant
  BY <1>1 DEF InstalledAsMeant
<1>4. CASE file = NoFile
  <2>1. file.format = "none" /\ want = 0
    BY <1>4 DEF Init, NoFile
  <2> QED BY <1>1, <1>2, <1>3, <2>1 DEF IInv, TypeOK, Preserved, Readable
<1>5. CASE file.format = "hex"
  <2>1. file = Hex(file.len, file.byte) /\ file.len \in Nat /\ file.byte \in Byte
    BY <1>1, <1>5, FormatsAssumption DEF NoFile, Bits
  <2>2. want = IF pos \notin 16..(15 + file.len) THEN 0 ELSE file.byte
    BY <1>5 DEF Init, NoFile
  <2>3. TypeOK
    BY <1>1, <1>2, <1>5, <2>1, <2>2 DEF TypeOK
  <2>4. Preserved
    BY <1>5, <2>2 DEF Preserved
  <2>5. Readable
    BY <1>2, <1>5, <2>1, <2>2 DEF Readable
  <2> QED BY <1>3, <2>3, <2>4, <2>5 DEF IInv
<1>6. CASE file.format = "bits"
  <2>1. file.byte \in Byte
    BY <1>1, <1>6, FormatsAssumption DEF NoFile, Bits
  <2>2. want = file.byte
    BY <1>6 DEF Init, NoFile
  <2>3. TypeOK
    BY <1>1, <1>2, <1>6, <2>1, <2>2 DEF TypeOK
  <2>4. Preserved /\ Readable
    BY <1>6, <2>2 DEF Preserved, Readable
  <2> QED BY <1>3, <2>3, <2>4 DEF IInv
<1> QED BY <1>1, <1>4, <1>5, <1>6, FormatsAssumption

-----------------------------------------------------------------------------
(* A configuration that is read is the one that is meant.                  *)

LEMMA AddressIs ==
  ASSUME NEW addr \in Nat, addr < 65536, NEW trust \in BOOLEAN
  PROVE  LET i2cAddr == getI2CAddress(addr, trust)
         IN /\ i2cAddr = 0 <=> addr = 0 \/ (trust /\ addr = 1)
            /\ (2 * i2cAddr) % 256 = IF trust THEN ((addr \div 2) % 128) * 2 ELSE (addr % 128) * 2
            /\ (2 * i2cAddr) % 256 \in Byte
<1>1. \A x \in Nat : (2 * x) % 256 = (x % 128) * 2 /\ (2 * x) % 256 \in Byte
  BY DEF Byte
<1>2. addr \div 2 \in Nat
  BY SMT
<1>3. addr \div 2 = 0 <=> addr = 0 \/ addr = 1
  BY SMT
<1>4. CASE trust
  BY SMT, <1>1, <1>2, <1>3, <1>4 DEF getI2CAddress
<1>5. CASE ~trust
  BY SMT, <1>1, <1>5 DEF getI2CAddress
<1> QED BY SMT, <1>4, <1>5

LEMMA ReadAsMeant ==
  ASSUME IInv, NEW input \in Inputs, NEW a \in Addresses, createProvisionConfig(input) # Refused
  PROVE  LET read == createProvisionConfig(input)
         IN /\ Meant(input, a[1], a[2]) \in Byte
            /\ newAddress(read.byte, a[1], a[2]) = Meant(input, a[1], a[2])
            /\ newAddressConf(read.byte, a[1], a[2]) = Meant(input, a[1], a[2])
<1> DEFINE read == createProvisionConfig(input)
           b == CASE input = "default" -> IF pos < 16 THEN 0 ELSE Default608[pos - 15]
                  [] input = "device" -> chip
                  [] OTHER -> IF pos < 16 /\ input = "hex" THEN 0 ELSE want
<1>1. /\ pos \in 0..127 /\ chip \in Byte /\ want \in Byte /\ 0 \in Byte
      /\ file.format \in {"hex", "bits"} => file.byte \in Byte
  BY SMT, ConstantsIn DEF IInv, TypeOK
<1>2. read.byte = b /\ b \in Byte
  <2>1. CASE input = "default"
    <3>1. pos >= 16 => pos - 15 \in 1..112 /\ Default608[pos - 15] \in Byte
      BY <1>1, SizeIs
    <3>2. read = DefaultConfig608 /\ Len(Default608) = 112
      BY <2>1, FormatsAssumption DEF createProvisionConfig
    <3>3. ~(16 + 112 > 128) /\ (pos \in 16..(16 + 112 - 1) <=> pos >= 16)
          /\ pos - 16 + 1 = pos - 15
      BY <1>1
    <3>4. read = Conf(IF pos \in 16..(16 + 112 - 1) THEN IF pos < 16 THEN 0 ELSE Default608[pos - 16 + 1]
                      ELSE 0)
      BY <3>2, <3>3, SizeIs DEF DefaultConfig608, UnmarshalPartial
    <3>5. read.byte = IF pos >= 16 THEN Default608[pos - 15] ELSE 0
      BY <1>1, <3>3, <3>4 DEF Conf
    <3> QED BY <1>1, <2>1, <3>1, <3>5
  <2>2. CASE input = "hex"
    <3>1. file.format = "hex" /\ file.len \in Nat /\ read = UnmarshalPartial(file.len, 16, file.byte)
      BY <2>2, SizeIs DEF createProvisionConfig, IInv, Readable
    <3>2. read = Conf(IF pos \in 16..(16 + file.len - 1) THEN file.byte ELSE 0)
      BY <3>1 DEF UnmarshalPartial
    <3>3. read.byte = IF pos \in 16..(15 + file.len) THEN file.byte ELSE 0
      BY <3>1, <3>2 DEF Conf
    <3>4. pos \in 16..(15 + file.len) => file.byte = want
      BY <3>1 DEF IInv, Preserved
    <3>5. pos >= 16 + file.len => want = 0
      BY <3>1, SizeIs DEF IInv, Readable
    <3> QED BY <1>1, <2>2, <3>1, <3>3, <3>4, <3>5
  <2>3. CASE input = "json"
    <3>1. file.format = "bits" /\ read = Conf(file.byte)
      BY <2>3 DEF createProvisionConfig, DecodeJSON
    <3>2. file.byte = want
      BY <3>1 DEF IInv, Readable
    <3> QED BY <1>1, <2>3, <3>1, <3>2 DEF Conf
  <2>4. CASE input = "device"
    BY <1>1, <2>4 DEF createProvisionConfig, Conf
  <2> QED BY <2>1, <2>2, <2>3, <2>4 DEF Inputs
<1>3. a[1] \in Nat /\ a[1] < 65536 /\ a[2] \in BOOLEAN
  BY SMT, ConstantsIn
<1>4. FieldName(pos) = "I2CAddress" <=> pos = 16
  BY <1>1, AddressAt
<1> HIDE DEF read, b
<1>5. Meant(input, a[1], a[2]) =
        IF pos # 16 \/ a[1] = 0 \/ (a[2] /\ a[1] = 1) THEN b
        ELSE IF a[2] THEN ((a[1] \div 2) % 128) * 2 ELSE (a[1] % 128) * 2
  BY DEF Meant, b
<1>6. newAddress(read.byte, a[1], a[2]) = Meant(input, a[1], a[2])
  BY SMT, <1>2, <1>3, <1>5, AddressIs, SizeIs DEF newAddress
<1>7. newAddressConf(read.byte, a[1], a[2]) = Meant(input, a[1], a[2])
  BY SMT, <1>2, <1>3, <1>4, <1>5, AddressIs DEF newAddressConf
<1>8. Meant(input, a[1], a[2]) \in Byte
  BY SMT, <1>2, <1>3, <1>5, AddressIs
<1> QED BY <1>6, <1>7, <1>8 DEF read

-----------------------------------------------------------------------------
(* Every step.                                                             *)

LEMMA ConvertStep ==
  ASSUME IInv, NEW input \in Inputs, NEW output \in {"hex", "go", "json"}, NEW a \in Addresses,
         Convert(input, output, a[1], a[2])
  PROVE  IInv'
<1> DEFINE read == createProvisionConfig(input)
           meant == Meant(input, a[1], a[2])
<1>1. /\ UNCHANGED <<pos, chip, configLocked, wantChip>> /\ result' \in {"done", "refused"}
      /\ TypeOK
  BY DEF Convert, IInv
<1>2. InstalledAsMeant'
  BY <1>1 DEF InstalledAsMeant
<1>3. CASE read = Refused
  <2>1. UNCHANGED <<file, want>>
    BY <1>3 DEF Convert
  <2>2. TypeOK'
    BY <1>1, <2>1 DEF TypeOK
  <2>3. Preserved' /\ Readable'
    <3>1. \A b : MarshalJSON(pos, b)' = MarshalJSON(pos, b)
      BY <1>1
    <3> QED BY <1>1, <2>1, <3>1 DEF IInv, Preserved, Readable
  <2> QED BY <1>2, <2>2, <2>3 DEF IInv
<1>4. CASE read # Refused
  <2>1. /\ want' = meant /\ meant \in Byte
        /\ file' = CASE output = "hex" -> Hex(Size - PermanentOffset608, meant)
                      [] output = "go" -> Go(meant)
                      [] output = "json" -> Json(MarshalJSON(pos, meant))
    BY <1>4, ReadAsMeant DEF Convert
  <2>2. CASE output = "hex"
    <3>1. file' = Hex(112, meant)
      BY <2>1, <2>2, SizeIs
    <3>2. /\ file'.format = "hex" /\ file'.len = 112 /\ file'.byte = meant
          /\ file' = Hex(file'.len, file'.byte)
      BY <3>1 DEF Hex
    <3>3. pos' \in 0..127
      BY SMT, <1>1, ConstantsIn DEF TypeOK
    <3> QED BY <1>1, <1>2, <2>1, <3>2, <3>3, SizeIs DEF IInv, TypeOK, Preserved, Readable
  <2>3. CASE output = "go"
    <3>1. file'.format = "go" /\ file'.byte = meant
      BY <2>1, <2>3 DEF Go
    <3> QED BY <1>1, <1>2, <2>1, <3>1 DEF IInv, TypeOK, Preserved, Readable
  <2>4. CASE output = "json"
    <3>1. file'.format = "json" /\ file'.fields = MarshalJSON(pos, meant)
      BY <2>1, <2>4 DEF Json
    <3> QED BY <1>1, <1>2, <2>1, <3>1 DEF IInv, TypeOK, Preserved, Readable
  <2> QED BY <2>2, <2>3, <2>4
<1> QED BY <1>3, <1>4

LEMMA FileUntouched ==
  ASSUME IInv, UNCHANGED <<pos, file, want>>
  PROVE  Preserved' /\ Readable'
BY DEF IInv, Preserved, Readable

LEMMA InstallStep ==
  ASSUME IInv, NEW input \in Inputs, NEW a \in Addresses, Install(input, a[1], a[2])
  PROVE  IInv'
<1> DEFINE read == createProvisionConfig(input)
           b == newAddress(read.byte, a[1], a[2])
<1>1. UNCHANGED <<pos, file, want>> /\ TypeOK /\ InstalledAsMeant
  BY DEF Install, IInv
<1>2. Preserved' /\ Readable'
  BY <1>1, FileUntouched
<1>3. CASE UNCHANGED <<chip, configLocked, wantChip>> /\ result' \in {"refused", "skipped"}
  BY <1>1, <1>2, <1>3 DEF IInv, TypeOK, InstalledAsMeant
<1>4. CASE /\ read # Refused /\ wantChip' = Meant(input, a[1], a[2])
           /\ \E held \in {chip} \cup (IF Writable THEN {b} ELSE {}) :
                \/ /\ Matches(held, b) /\ (pos \in {84, 85} => chip = 0)
                   /\ chip' = IF pos = 87 THEN 0 ELSE held
                   /\ configLocked' = TRUE /\ result' = "installed"
                \/ chip' = held /\ result' = "failed" /\ UNCHANGED configLocked
  <2>1. wantChip' = b /\ b \in Byte
    BY <1>4, ReadAsMeant
  <2>2. PICK held \in {chip} \cup (IF Writable THEN {b} ELSE {}) :
          \/ /\ Matches(held, b) /\ (pos \in {84, 85} => chip = 0)
             /\ chip' = IF pos = 87 THEN 0 ELSE held
             /\ configLocked' = TRUE /\ result' = "installed"
          \/ chip' = held /\ result' = "failed" /\ UNCHANGED configLocked
    BY <1>4
  <2>3. held \in Byte
    BY <1>1, <2>1, <2>2 DEF TypeOK
  <2>4. chip' \in Byte /\ configLocked' \in BOOLEAN /\ result' \in {"installed", "failed"}
    <3>1. 0 \in Byte
      BY DEF Byte
    <3>2. configLocked \in BOOLEAN
      BY Zenon, <1>1 DEF TypeOK
    <3>3. chip' \in Byte
      BY <2>2, <2>3, <3>1
    <3> QED BY Zenon, <2>2, <3>2, <3>3
  <2>5. TypeOK'
    BY <1>1, <2>1, <2>4 DEF TypeOK
  <2>6. InstalledAsMeant'
    <3>1. pos \in 0..127
      BY SMT, <1>1, ConstantsIn DEF TypeOK
    <3>2. result' = "installed" /\ pos >= 16 /\ pos \notin {86, 87} => chip' = b
      BY <2>2, <3>1, SizeIs DEF Matches
    <3> QED BY <1>1, <2>1, <3>2, SizeIs DEF InstalledAsMeant
  <2> QED BY <1>2, <2>5, <2>6 DEF IInv
<1> QED BY Zenon, <1>3, <1>4 DEF Install

LEMMA InsertStep ==
  ASSUME IInv, Insert
  PROVE  IInv'
<1>1. /\ UNCHANGED <<pos, file, want>> /\ TypeOK /\ chip' \in ChipBytes
      /\ configLocked' = FALSE /\ wantChip' = chip' /\ result' = "none"
  BY DEF Insert, IInv
<1>2. Preserved' /\ Readable'
  BY <1>1, FileUntouched
<1>3. chip' \in Byte
  BY SMT, <1>1, ConstantsIn
<1> QED BY <1>1, <1>2, <1>3 DEF IInv, TypeOK, InstalledAsMeant

LEMMA Inductive ==
  ASSUME IInv, [Next]_vars
  PROVE  IInv'
<1>1. ASSUME NEW input \in Inputs, NEW output \in {"hex", "go", "json"}, NEW a \in Addresses,
             Convert(input, output, a[1], a[2])
      PROVE  IInv'
  BY <1>1, ConvertStep
<1>2. ASSUME NEW input \in Inputs, NEW a \in Addresses, Install(input, a[1], a[2])
      PROVE  IInv'
  BY <1>2, InstallStep
<1>3. CASE UNCHANGED vars
  BY <1>3, FileUntouched DEF vars, IInv, TypeOK, InstalledAsMeant
<1> QED BY Zenon, <1>1, <1>2, <1>3, InsertStep DEF Next

-----------------------------------------------------------------------------
\* A byte stays a byte through all the formats, the address that a flag sets
\* included (conf.go:119), and the state keeps its type.
THEOREM TypeCorrect == Spec => []TypeOK
<1>1. Init => IInv
  BY InitIInv
<1>2. IInv /\ [Next]_vars => IInv'
  BY Inductive
<1>3. IInv => TypeOK
  BY DEF IInv
<1> QED BY <1>1, <1>2, <1>3, PTL DEF Spec

\* Any chain of runs, on any files and chips, keeps what the operator means
\* (conf.go:57-143), at each of the 128 positions.
THEOREM PreservedAlways == Spec => []Preserved
<1>1. Init => IInv
  BY InitIInv
<1>2. IInv /\ [Next]_vars => IInv'
  BY Inductive
<1>3. IInv => Preserved
  BY DEF IInv
<1> QED BY <1>1, <1>2, <1>3, PTL DEF Spec

\* A chip locked by a run holds what the operator means, whatever was lost on
\* the way to it (conf.go:144-191).
THEOREM InstalledAsMeantAlways == Spec => []InstalledAsMeant
<1>1. Init => IInv
  BY InitIInv
<1>2. IInv /\ [Next]_vars => IInv'
  BY Inductive
<1>3. IInv => InstalledAsMeant
  BY DEF IInv
<1> QED BY <1>1, <1>2, <1>3, PTL DEF Spec

\* The accessors of ateccconf.go cut every byte, not only those of a run, where
\* the comments say.
THEOREM FieldsAsCommentedAlways == Spec => []FieldsAsCommented
<1>1. Init => IInv
  BY InitIInv
<1>2. IInv /\ [Next]_vars => IInv'
  BY Inductive
<1>3. IInv => FieldsAsCommented
  BY AccessorsAgree DEF IInv, TypeOK, FieldsAsCommented, Agrees
<1> QED BY <1>1, <1>2, <1>3, PTL DEF Spec
=============================================================================
