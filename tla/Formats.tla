------------------------------ MODULE Formats -------------------------------
(***************************************************************************)
(* A configuration on its way through runs of atecc config: from the       *)
(* built-in one, a file or a chip, to a file in one of three formats or to  *)
(* a chip (cmd/atecc/conf.go), with the structure, the bit fields and the   *)
(* JSON of pkg/ateccconf, and the flag -new-addr (cmd/atecc/util.go).  The  *)
(* bytes of a configuration do not influence each other here: the model     *)
(* follows one of them, at any position.                                    *)
(*                                                                          *)
(* The definitions called ...Broken are plausible mistakes in the           *)
(* definition that follows each of them; no other definition uses them.     *)
(***************************************************************************)
EXTENDS Bytes

CONSTANTS
  Positions,    \* of the byte that is followed, of 0..127
  Default608,   \* the 112 bytes of the built-in configuration
  Files,        \* what an operator may bring along (see Hex, Bits)
  ChipBytes,    \* what a chip may hold at the position
  Addresses     \* values of -new-addr as written (0 is the flag left out), and
                \* whether in the trust platform's format

PermanentOffset608 == 16
Size == PermanentOffset608 + Len(Default608)

\* A file: text in hexadecimal digits, of len bytes from 16 on; JSON as the
\* command writes it; JSON written by hand for the fields of the structures
\* themselves; an array in Go.
NoFile == [format |-> "none"]
Hex(len, b) == [format |-> "hex", len |-> len, byte |-> b]
Json(fields) == [format |-> "json", fields |-> fields]
Bits(b) == [format |-> "bits", byte |-> b]
Go(b) == [format |-> "go", byte |-> b]

ASSUME FormatsAssumption ==
  /\ Len(Default608) = 112 /\ Default608 \in Seq(Byte) /\ Positions \subseteq 0..(Size - 1)
  /\ \A f \in Files :
       \/ f = NoFile
       \/ f.format = "hex" /\ f = Hex(f.len, f.byte) /\ f.len \in Nat /\ f.byte \in Byte
       \/ f.format = "bits" /\ f = Bits(f.byte) /\ f.byte \in Byte
  /\ ChipBytes \subseteq Byte
  /\ \A a \in Addresses : a[1] \in Nat /\ a[1] < 65536 /\ a[2] \in BOOLEAN

VARIABLES
  pos,      \* the position that is followed
  chip, configLocked,   \* its byte in the chip on the bus; its configuration zone
  file,     \* the file of the last run, or what the operator had before
  want, wantChip,       \* ghosts: the byte that the operator means them to have
  result    \* of the last run

vars == <<pos, chip, configLocked, file, want, wantChip, result>>

-----------------------------------------------------------------------------
(* ateccconf.go: what the accessors give for a byte, by the names they have *)
(* in JSON.  A structure of two bytes has one definition for each.  TRUE    *)
(* and FALSE are written 1 and 0.                                           *)

Flag(b, mask) == IF And(b, mask) = 0 THEN 0 ELSE 1
Masked(b, mask, shift) == And(b, mask) \div Weight[shift + 1]

AESEnable(b) == [enabled |-> Flag(b, 1), reserved |-> b \div 2]
I2CEnable(b) == [enabled |-> Flag(b, 1), reserved |-> b \div 2]

CountMatch(b) == [enabled |-> Flag(b, 1), reserved |-> Masked(b, 14, 1), key |-> Masked(b, 240, 4)]

ClockDivider(c) == CASE c = 0 -> "m0" [] c = 5 -> "m1" [] c = 13 -> "m2" [] OTHER -> "unknown"
ChipMode608(b) ==
  [user_extra_add |-> Flag(b, 1), ttl_enabled |-> Flag(b, 2), watchdog_duration |-> Flag(b, 4),
   clock_divider |-> ClockDivider(Masked(b, 248, 3))]

SlotConfig1(b) ==
  [read_key |-> And(b, 15), no_mac |-> Flag(b, 16), limited_use |-> Flag(b, 32),
   encrypt_read |-> Flag(b, 64), is_secret |-> Flag(b, 128)]
SlotConfig2(b) ==
  LET conf == Masked(b, 240, 4)
  IN [write_key |-> And(b, 15), unknown |-> Flag(conf, 1), gen_key_enabled |-> Flag(conf, 2),
      unknown2 |-> conf \div 4]

UseLock(b) == [use_lock_enable |-> And(b, 15), use_lock_key |-> Masked(b, 240, 4)]

VolatileKeyPermission(b) ==
  [slot |-> And(b, 15), reserved |-> Masked(b, 112, 4), enabled |-> Flag(b, 128)]

SecureBoot1(b) ==
  [mode |-> And(b, 3), reserved0 |-> Masked(b, 4, 2), persistent_enabled |-> Flag(b, 8),
   rand_nonce |-> Flag(b, 16), reserved1 |-> Masked(b, 224, 4)]
SecureBoot2(b) == [sig_dig |-> And(b, 15), public_key |-> Masked(b, 240, 4)]

LockState(b) == [state |-> CASE b = 0 -> "locked" [] b = 85 -> "unlocked" [] OTHER -> "unknown"]

\* A number of two bytes, the high byte first: which slots are locked.
SlotLocked1(b) == [s \in 8..15 |-> IF Flag(b, Weight[s - 7]) = 0 THEN 1 ELSE 0]
SlotLocked2(b) == [s \in 0..7 |-> IF Flag(b, Weight[s + 1]) = 0 THEN 1 ELSE 0]

ChipOptions1(b) ==
  [power_on_self_test |-> Flag(b, 1), io_protection_key_enabled |-> Flag(b, 2),
   kdf_aes_enabled |-> Flag(b, 4), auto_clear_first_fail |-> Flag(b, 8),
   reserved |-> Masked(b, 240, 4)]
ChipOptions2(b) ==
  [ecdh_protection_bits |-> And(b, 3), kdf_protection_bits |-> Masked(b, 12, 2),
   io_protection_key |-> Masked(b, 240, 4)]

X509Format(b) == [public_position |-> And(b, 15), template_length |-> Masked(b, 240, 4)]

KeyType(k) == CASE k = 4 -> "private" [] k = 6 -> "aes" [] k = 7 -> "other" [] OTHER -> "unknown"
KeyConfig1Broken(b) ==
  [private |-> Flag(b, 1), pub_info |-> Flag(b, 2), key_type |-> KeyType(Masked(b, 28, 3)),
   lockable |-> Flag(b, 32), require_random |-> Flag(b, 64), require_auth |-> Flag(b, 128)]
KeyConfig1(b) ==
  [private |-> Flag(b, 1), pub_info |-> Flag(b, 2), key_type |-> KeyType(Masked(b, 28, 2)),
   lockable |-> Flag(b, 32), require_random |-> Flag(b, 64), require_auth |-> Flag(b, 128)]
KeyConfig2(b) ==
  [auth_key |-> And(b, 15), persistent_disable |-> Flag(b, 16), rfu |-> Flag(b, 32),
   x509_id |-> Masked(b, 192, 6)]

\* Config608: the first and the last byte of each field.
Config608 ==
  [SN03 |-> <<0, 3>>, RevNum |-> <<4, 7>>, SN48 |-> <<8, 12>>,
   AESEnable |-> <<13, 13>>, I2CEnable |-> <<14, 14>>, Reserved15 |-> <<15, 15>>,
   I2CAddress |-> <<16, 16>>, Reserved17 |-> <<17, 17>>, CountMatch |-> <<18, 18>>,
   ChipMode |-> <<19, 19>>, SlotConfig |-> <<20, 51>>, Counter |-> <<52, 67>>,
   UseLock |-> <<68, 68>>, VolatileKeyPermission |-> <<69, 69>>,
   SecureBoot |-> <<70, 71>>, KdfIvLoc |-> <<72, 72>>, KdfIvStr |-> <<73, 74>>,
   Reserved68 |-> <<75, 83>>, UserExtra |-> <<84, 84>>, UserExtraAdd |-> <<85, 85>>,
   LockValue |-> <<86, 86>>, LockConfig |-> <<87, 87>>, SlotLocked |-> <<88, 89>>,
   ChipOptions |-> <<90, 91>>, X509Format |-> <<92, 95>>, KeyConfig |-> <<96, 127>>]

FieldAt ==
  [p \in 0..127 |->
     CHOOSE f \in DOMAIN Config608 : Config608[f][1] <= p /\ p <= Config608[f][2]]
FieldName(p) == FieldAt[p]
Second(p) == (p - Config608[FieldName(p)][1]) % 2 = 1

\* The JSON of the byte at p.
MarshalJSON(p, b) ==
  LET f == FieldName(p)
  IN CASE f = "AESEnable" -> AESEnable(b)
       [] f = "I2CEnable" -> I2CEnable(b)
       [] f = "CountMatch" -> CountMatch(b)
       [] f = "ChipMode" -> ChipMode608(b)
       [] f = "SlotConfig" -> IF Second(p) THEN SlotConfig2(b) ELSE SlotConfig1(b)
       [] f = "UseLock" -> UseLock(b)
       [] f = "VolatileKeyPermission" -> VolatileKeyPermission(b)
       [] f = "SecureBoot" -> IF Second(p) THEN SecureBoot2(b) ELSE SecureBoot1(b)
       [] f \in {"LockValue", "LockConfig"} -> LockState(b)
       [] f = "SlotLocked" -> IF Second(p) THEN SlotLocked2(b) ELSE SlotLocked1(b)
       [] f = "ChipOptions" -> IF Second(p) THEN ChipOptions2(b) ELSE ChipOptions1(b)
       [] f = "X509Format" -> X509Format(b)
       [] f = "KeyConfig" -> IF Second(p) THEN KeyConfig2(b) ELSE KeyConfig1(b)
       [] OTHER -> [value |-> b]

-----------------------------------------------------------------------------
(* Reading a configuration.                                                 *)

Refused == [format |-> "refused"]
Conf(b) == [format |-> "conf", byte |-> b]

\* len bytes of input, of which b is the one followed if it is among them:
\* zeros before offset, and behind the input.
UnmarshalPartial(len, offset, b) ==
  IF offset + len > Size THEN Refused
  ELSE Conf(IF pos \in offset..(offset + len - 1) THEN b ELSE 0)

DefaultConfig608 ==
  UnmarshalPartial(Len(Default608), PermanentOffset608,
                   IF pos < PermanentOffset608 THEN 0 ELSE Default608[pos - PermanentOffset608 + 1])

\* The decoder takes Bits for a structure, not the names that MarshalJSON
\* writes, which it skips.  What makes it refuse the JSON of the command are
\* the words and the array where Config608 has numbers, lock_value for one.
DecodeJSONBroken(f) ==
  IF f.format = "bits" THEN Conf(f.byte)
  ELSE IF f.format = "json" THEN Conf(IF "value" \in DOMAIN f.fields THEN f.fields.value ELSE 0)
  ELSE Refused
DecodeJSON(f) == IF f.format = "bits" THEN Conf(f.byte) ELSE Refused

\* The input hex refuses what is not in hexadecimal digits.
createProvisionConfig(input) ==
  CASE input = "default" -> DefaultConfig608
    [] input = "hex" -> IF file.format # "hex" THEN Refused
                        ELSE UnmarshalPartial(file.len, PermanentOffset608, file.byte)
    [] input = "json" -> DecodeJSON(file)
    [] input = "device" -> Conf(chip)

getI2CAddress(addr, trust) == IF trust THEN addr \div 2 ELSE addr

\* useProvisionConfig: the byte in provisionBytes, and in provisionConf.  An
\* address of 0 is the flag left out.
newAddressWide(b, addr, trust) ==
  LET i2cAddr == getI2CAddress(addr, trust)
  IN IF i2cAddr # 0 /\ pos = PermanentOffset608 THEN 2 * i2cAddr ELSE b
newAddress(b, addr, trust) ==
  LET i2cAddr == getI2CAddress(addr, trust)
  IN IF i2cAddr # 0 /\ pos = PermanentOffset608 THEN (2 * i2cAddr) % 256 ELSE b
newAddressConf(b, addr, trust) ==
  LET i2cAddr == getI2CAddress(addr, trust)
  IN IF i2cAddr # 0 /\ FieldName(pos) = "I2CAddress" THEN (2 * i2cAddr) % 256 ELSE b

-----------------------------------------------------------------------------

Init ==
  /\ pos \in Positions /\ chip \in ChipBytes /\ configLocked = FALSE
  /\ file \in Files
  /\ want = IF file = NoFile THEN 0
            ELSE IF file.format = "hex" /\ pos \notin 16..(15 + file.len) THEN 0 ELSE file.byte
  /\ wantChip = chip /\ result = "none"

\* What the operator means by the flags: the address by its seven bits, or in
\* the trust platform's format as the byte that has them on top.
Meant(input, addr, trust) ==
  LET b == CASE input = "default" -> IF pos < 16 THEN 0 ELSE Default608[pos - 15]
             [] input = "device" -> chip
             [] OTHER -> IF pos < 16 /\ input = "hex" THEN 0 ELSE want
  IN IF pos # 16 \/ addr = 0 \/ (trust /\ addr = 1) THEN b
     ELSE IF trust THEN ((addr \div 2) % 128) * 2 ELSE (addr % 128) * 2

\* A run that writes a file, or fails before.
Convert(input, output, addr, trust) ==
  LET read == createProvisionConfig(input)
  IN /\ IF read = Refused THEN result' = "refused" /\ UNCHANGED <<file, want>>
        ELSE /\ result' = "done"
             /\ want' = Meant(input, addr, trust)
             /\ LET b == newAddress(read.byte, addr, trust)
                IN file' = CASE output = "hex" -> Hex(Size - PermanentOffset608, b)
                             [] output = "go" -> Go(b)
                             [] output = "json" ->
                                  Json(MarshalJSON(pos, newAddressConf(read.byte, addr, trust)))
     /\ UNCHANGED <<pos, chip, configLocked, wantChip>>

\* WriteConfigZone: the permanent bytes and the lock bytes are left as they are,
\* and an extra byte (84, 85) can be updated while it is 0.
Writable == pos >= PermanentOffset608 /\ pos \notin {86, 87} /\ (pos \in {84, 85} => chip = 0)

\* The comparison of what the chip holds with provisionBytes.
MatchesBroken(held, b) == pos < 2 * PermanentOffset608 \/ held = b
Matches(held, b) == pos < PermanentOffset608 \/ held = b

\* A run that writes the chip, compares and locks, which changes byte 87.  The
\* chip may have lost a store it reported; the run fails if the byte that is
\* followed cannot be updated or is read back different, and also for another.
Install(input, addr, trust) ==
  LET read == createProvisionConfig(input)
      b == newAddress(read.byte, addr, trust)
  IN /\ IF read = Refused THEN result' = "refused" /\ UNCHANGED <<chip, configLocked, wantChip>>
        ELSE IF configLocked THEN result' = "skipped" /\ UNCHANGED <<chip, configLocked, wantChip>>
        ELSE /\ wantChip' = Meant(input, addr, trust)
             /\ \E held \in {chip} \cup (IF Writable THEN {b} ELSE {}) :
                  \/ /\ Matches(held, b) /\ (pos \in {84, 85} => chip = 0)
                     /\ chip' = IF pos = 87 THEN 0 ELSE held
                     /\ configLocked' = TRUE /\ result' = "installed"
                  \/ chip' = held /\ result' = "failed" /\ UNCHANGED configLocked
     /\ UNCHANGED <<pos, file, want>>

\* Another chip is put on the bus.
Insert ==
  /\ chip' \in ChipBytes /\ configLocked' = FALSE
  /\ wantChip' = chip' /\ result' = "none"
  /\ UNCHANGED <<pos, file, want>>

Inputs == {"default", "hex", "json", "device"}
Next ==
  \/ \E i \in Inputs, o \in {"hex", "go", "json"}, a \in Addresses : Convert(i, o, a[1], a[2])
  \/ \E i \in Inputs, a \in Addresses : Install(i, a[1], a[2])
  \/ Insert

Spec == Init /\ [][Next]_vars

-----------------------------------------------------------------------------
(* Properties.                                                              *)

TypeOK ==
  /\ pos \in Positions /\ chip \in Byte /\ configLocked \in BOOLEAN
  /\ file.format \in {"none", "hex", "json", "bits", "go"}
  /\ file.format \in {"hex", "bits", "go"} => file.byte \in Byte
  /\ want \in Byte /\ wantChip \in Byte
  /\ result \in {"none", "done", "refused", "installed", "skipped", "failed"}

\* "This allow you to convert configurations between different formats"
\* (conf.go:50): through any chain of runs a file says what the operator means
\* it to say, each byte behind the permanent ones and the new address included,
\* whatever the format; a file that cannot be read back, as the JSON of the
\* command, is refused and never taken for something else.
Preserved ==
  /\ file.format \in {"bits", "go"} /\ pos >= PermanentOffset608 => file.byte = want
  /\ file.format = "hex" /\ pos \in 16..(15 + file.len) => file.byte = want
  /\ file.format = "json" => file.fields = MarshalJSON(pos, want)

\* The same to the end: a chip whose configuration was locked by the command
\* has each byte that the command can write as the operator means it, and
\* answers at the address that was asked for.
InstalledAsMeant ==
  result = "installed" /\ pos >= PermanentOffset608 /\ pos \notin {86, 87} => chip = wantChip

\* The comments of the structures in ateccconf.go: the fields of a byte, each
\* with its lowest bit and how many bits it has.
Commented ==
  [AESEnable |-> <<
     [enabled |-> <<0, 1>>, reserved |-> <<1, 7>>]>>,
   I2CEnable |-> <<
     [enabled |-> <<0, 1>>, reserved |-> <<1, 7>>]>>,
   CountMatch |-> <<
     [enabled |-> <<0, 1>>, reserved |-> <<1, 3>>, key |-> <<4, 4>>]>>,
   ChipMode |-> <<
     [user_extra_add |-> <<0, 1>>, ttl_enabled |-> <<1, 1>>,
      watchdog_duration |-> <<2, 1>>, clock_divider |-> <<3, 5>>]>>,
   SlotConfig |-> <<
     [read_key |-> <<0, 4>>, no_mac |-> <<4, 1>>, limited_use |-> <<5, 1>>,
      encrypt_read |-> <<6, 1>>, is_secret |-> <<7, 1>>],
     [write_key |-> <<0, 4>>, unknown |-> <<4, 1>>, gen_key_enabled |-> <<5, 1>>,
      unknown2 |-> <<6, 2>>]>>,
   UseLock |-> <<
     [use_lock_enable |-> <<0, 4>>, use_lock_key |-> <<4, 4>>]>>,
   VolatileKeyPermission |-> <<
     [slot |-> <<0, 4>>, reserved |-> <<4, 3>>, enabled |-> <<7, 1>>]>>,
   SecureBoot |-> <<
     [mode |-> <<0, 2>>, reserved0 |-> <<2, 1>>, persistent_enabled |-> <<3, 1>>,
      rand_nonce |-> <<4, 1>>, reserved1 |-> <<5, 3>>],
     [sig_dig |-> <<0, 4>>, public_key |-> <<4, 4>>]>>,
   ChipOptions |-> <<
     [power_on_self_test |-> <<0, 1>>, io_protection_key_enabled |-> <<1, 1>>,
      kdf_aes_enabled |-> <<2, 1>>, auto_clear_first_fail |-> <<3, 1>>,
      reserved |-> <<4, 4>>],
     [ecdh_protection_bits |-> <<0, 2>>, kdf_protection_bits |-> <<2, 2>>,
      io_protection_key |-> <<4, 4>>]>>,
   X509Format |-> <<
     [public_position |-> <<0, 4>>, template_length |-> <<4, 4>>]>>,
   KeyConfig |-> <<
     [private |-> <<0, 1>>, pub_info |-> <<1, 1>>, key_type |-> <<2, 3>>,
      lockable |-> <<5, 1>>, require_random |-> <<6, 1>>, require_auth |-> <<7, 1>>],
     [auth_key |-> <<0, 4>>, persistent_disable |-> <<4, 1>>, rfu |-> <<5, 1>>,
      x509_id |-> <<6, 2>>]>>]

\* The bits of b at a place in the comments, and how a field with words for its
\* values is written.
Cut(b, place) == (b \div Weight[place[1] + 1]) % Weight[place[2] + 1]
Shown(name, bits) ==
  CASE name = "clock_divider" -> ClockDivider(bits)
    [] name = "key_type" -> KeyType(bits)
    [] OTHER -> bits

\* The masks and shifts of the accessors, which keyGen and the JSON rely on, cut
\* a byte where the comments of its structure say: no field lacks a bit or has
\* one of its neighbour, for each byte and at each position of Config608.
\* reserved1 is the exception: it is shifted by 4 where the comment wants 5
\* (ateccconf.go:395).
FieldsAsCommented ==
  FieldName(pos) \in DOMAIN Commented =>
    LET bytes == Commented[FieldName(pos)]
        layout == bytes[IF Second(pos) /\ Len(bytes) = 2 THEN 2 ELSE 1]
        fields == MarshalJSON(pos, want)
    IN /\ DOMAIN fields = DOMAIN layout
       /\ \A n \in DOMAIN layout \ {"reserved1"} : fields[n] = Shown(n, Cut(want, layout[n]))
=============================================================================
