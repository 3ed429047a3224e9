-------------------------------- MODULE Wire --------------------------------
(***************************************************************************)
(* The bytes of one command and of its answer: the command is built        *)
(* (pkg/atecc/commands.go), encoded with its checksum (packet.go, crc.go), *)
(* understood by the chip, and the answer goes through a HAL (hal_i2c.go   *)
(* or hal_kit.go) into the buffer of Dev.executeResponse (atecc.go).  What *)
(* the bytes mean to the chip, and its checksum, are written from the      *)
(* chip's side, with arithmetic in the place of masks and shifts.          *)
(*                                                                         *)
(* The definitions called ...Broken are plausible mistakes in the          *)
(* definition that follows each of them; no other definition uses them.    *)
(***************************************************************************)
EXTENDS Bytes

CONSTANTS
  Requests,     \* what the library asks of the chip, one record per command
  Fills,        \* first bytes of the data an answer may hold
  Statuses,     \* status codes of an answer other than 0
  Bursts,       \* damage: what is added to a byte and to the next one
  Sizes         \* values a damaged size byte may have

Uint16 == {w \in Nat : w < 65536}
Halves(w) == <<w % 256, w \div 256>>      \* binary.LittleEndian
Word(b) == b[1] + 256 * b[2]

Zone == [config |-> 0, otp |-> 1, data |-> 2]
lockZone == [config |-> 0, data |-> 1, slot |-> 2]
updateMode == [UserExtra |-> 0, UserExtraAdd |-> 1]

\* What the functions of calib.go can ask for.  The library refuses data and
\* keys of the wrong size itself.
Asked ==
  [op : {"info", "random"}] \cup [op : {"lock"}, what : {"config", "data"}, slot : {0}]
    \cup [op : {"lock"}, what : {"slot"}, slot : 0..15]
    \cup [op : {"read"}, zone : DOMAIN Zone, addr : Uint16, block : BOOLEAN]
    \cup [op : {"genkey"}, new : BOOLEAN, slot : Byte] \cup [op : {"sign"}, slot : Uint16]
    \cup [op : {"load"}, data : Seq(Byte)]
    \cup [op : {"verify"}, sig : {s \in Seq(Byte) : Len(s) = 64}, pub : Seq(Byte)]
    \cup [op : {"write"}, zone : DOMAIN Zone, addr : Uint16, data : Seq(Byte)]
    \cup [op : {"extra"}, byte : DOMAIN updateMode, value : Byte]

\* Data of n bytes.
Data(n, fill) == [i \in 1..n |-> (fill + 37 * i) % 256]

ASSUME WireAssumption ==
  /\ Requests \subseteq Asked /\ Fills \subseteq Byte /\ Sizes \subseteq Byte
  /\ Statuses \subseteq Byte \ {0}
  /\ Bursts \subseteq (Byte \X Byte) \ {<<0, 0>>}

VARIABLES
  hal,        \* the interface: "i2c" or "kit"
  pc, cmd,
  bytes,      \* the frame on its way to the chip, or from it
  heard,      \* what the chip took the frame for
  said,       \* ghost: the data or the status the chip answered
  hit,        \* ghost: what was damaged: nothing, request, answer, its size, or
              \* of either frame the data and the checksum
  result      \* what executeResponse returns: data, or an error

vars == <<hal, pc, cmd, bytes, heard, said, hit, result>>

Nothing == [op |-> "none"]
Error(e) == [op |-> e]
Answered(d) == [op |-> "data", data |-> d]

Init ==
  /\ hal \in {"i2c", "kit"} /\ pc = "ready" /\ cmd = Nothing /\ bytes = <<>>
  /\ heard = Nothing /\ said = Nothing /\ hit = "nothing" /\ result = Nothing

-----------------------------------------------------------------------------
(* crc.go: a register of 16 bits, written here from the lowest on, that     *)
(* shifts to the higher ones.  The polynom 0x8005 has bits 0, 2 and 15.     *)

Zeros == <<0, 0, 0, 0, 0, 0, 0, 0, 0, 0, 0, 0, 0, 0, 0, 0>>
Binary == {0, 1}
Register == [1..16 -> Binary]
Flip(b, f) == IF b = f THEN 0 ELSE 1

crcBit(bit) ==
  [crc \in Register |->
     LET f == Flip(crc[16], bit)
     IN <<f, crc[1], Flip(crc[2], f), crc[3], crc[4], crc[5], crc[6], crc[7], crc[8], crc[9],
          crc[10], crc[11], crc[12], crc[13], crc[14], Flip(crc[15], f)>>]

\* The bits of a byte from the lowest on.
crcByte(b) ==
  [crc \in Register |->
     LET c0 == crcBit(Bit(b, 0))[crc]  c1 == crcBit(Bit(b, 1))[c0]
         c2 == crcBit(Bit(b, 2))[c1]  c3 == crcBit(Bit(b, 3))[c2]
         c4 == crcBit(Bit(b, 4))[c3]  c5 == crcBit(Bit(b, 5))[c4]
         c6 == crcBit(Bit(b, 6))[c5]
     IN crcBit(Bit(b, 7))[c6]]

crc16(data) ==
  LET crc[i \in 0..Len(data)] == IF i = 0 THEN Zeros ELSE crcByte(data[i])[crc[i - 1]]
  IN crc[Len(data)]

\* As it is sent: the low byte, then the high one.
CrcBytes(crc) == <<Number(SubSeq(crc, 1, 8)), Number(SubSeq(crc, 9, 16))>>

\* The chip's: the same polynomial in a register that shifts to the lower bits
\* (0xA001: 15, 13 and 0), and is turned round at the end.
ChipBit(bit) ==
  [r \in Register |->
     LET f == Flip(r[1], bit)
     IN <<Flip(r[2], f), r[3], r[4], r[5], r[6], r[7], r[8], r[9], r[10], r[11], r[12], r[13],
          r[14], Flip(r[15], f), r[16], f>>]
ChipByte(b) ==
  [r \in Register |->
     LET r0 == ChipBit(Bit(b, 0))[r]  r1 == ChipBit(Bit(b, 1))[r0]
         r2 == ChipBit(Bit(b, 2))[r1]  r3 == ChipBit(Bit(b, 3))[r2]
         r4 == ChipBit(Bit(b, 4))[r3]  r5 == ChipBit(Bit(b, 5))[r4]
         r6 == ChipBit(Bit(b, 6))[r5]
     IN ChipBit(Bit(b, 7))[r6]]
Turned(r) ==
  <<r[16], r[15], r[14], r[13], r[12], r[11], r[10], r[9], r[8], r[7], r[6], r[5], r[4], r[3],
    r[2], r[1]>>
ChipCrc(data) ==
  LET crc[i \in 0..Len(data)] == IF i = 0 THEN Zeros ELSE ChipByte(data[i])[crc[i - 1]]
  IN Turned(crc[Len(data)])

-----------------------------------------------------------------------------
(* packet.go and commands.go.                                              *)

atcaCmdSizeMax == 151
atcaZoneReadWrite32 == 128

newPacket(opcode, param1, param2, data) ==
  IF Len(data) > atcaCmdSizeMax THEN Nothing
  ELSE [op |-> "packet", opcode |-> opcode, param1 |-> param1, param2 |-> param2, data |-> data]

EncodeBroken(p) ==
  LET b == <<(7 + Len(p.data)) % 256, p.opcode, p.param1, p.param2 % 256, p.param2>> \o p.data
  IN b \o CrcBytes(crc16(b))
Encode(p) ==
  LET b == <<(7 + Len(p.data)) % 256, p.opcode, p.param1>> \o Halves(p.param2) \o p.data
  IN b \o CrcBytes(crc16(b))

newInfoCommand(c) == newPacket(48, 0, 0, <<>>)

\* lockModeNoCRC for a zone; for a slot its number, in a uint8.
lockMode(c) == IF c.what = "slot" THEN (c.slot * 4) % 256 ELSE 128
newLockCommand(c) == newPacket(23, Or(lockZone[c.what], lockMode(c)), 0, <<>>)

newReadCommand(c) ==
  newPacket(2, IF c.block THEN Or(Zone[c.zone], atcaZoneReadWrite32) ELSE Zone[c.zone], c.addr, <<>>)

\* genKeyModePrivate or genKeyModePublic.
newGenKeyCommand(c) == newPacket(64, IF c.new THEN 4 ELSE 0, c.slot, <<>>)

newRandomCommand(c) == newPacket(27, 0, 0, <<>>)

\* nonceModePassthrough, into the message digest buffer.
newNonceCommand(c) ==
  IF Len(c.data) \notin {32, 64} THEN Nothing
  ELSE newPacket(22, Or(Or(3, IF Len(c.data) = 64 THEN 32 ELSE 0), 64), 0, c.data)

\* signModeExternal, from the message digest buffer.
newSignCommandBroken(c) == newPacket(65, And(128, 32), c.slot, <<>>)
newSignCommand(c) == newPacket(65, Or(128, 32), c.slot, <<>>)

\* verifyModeExternal, from the message digest buffer, verifyKeyP256.  The
\* copy into a buffer of atcaCmdSizeMax bytes cuts what does not fit.
newVerifyCommand(c) ==
  LET copied == c.sig \o c.pub
  IN IF Len(c.pub) # 64 THEN Nothing
     ELSE newPacket(69, Or(2, 32), 4, SubSeq(copied, 1, IF Len(copied) < atcaCmdSizeMax
                                                     THEN Len(copied) ELSE atcaCmdSizeMax))

\* The data is always the whole buffer of two blocks.
newWriteCommand(c) ==
  LET padded == c.data \o [i \in 1..(64 - Len(c.data)) |-> 0]
  IN CASE Len(c.data) = 4 -> newPacket(18, Zone[c.zone], c.addr, padded)
       [] Len(c.data) = 32 -> newPacket(18, Or(Zone[c.zone], atcaZoneReadWrite32), c.addr, padded)
       [] OTHER -> Nothing

newUpdateExtraCommand(c) == newPacket(32, updateMode[c.byte], c.value, <<>>)

Packet(c) ==
  CASE c.op = "info" -> newInfoCommand(c)
    [] c.op = "lock" -> newLockCommand(c)
    [] c.op = "read" -> newReadCommand(c)
    [] c.op = "genkey" -> newGenKeyCommand(c)
    [] c.op = "random" -> newRandomCommand(c)
    [] c.op = "load" -> newNonceCommand(c)
    [] c.op = "sign" -> newSignCommand(c)
    [] c.op = "verify" -> newVerifyCommand(c)
    [] c.op = "write" -> newWriteCommand(c)
    [] c.op = "extra" -> newUpdateExtraCommand(c)

-----------------------------------------------------------------------------
(* The chip.                                                               *)

Names(f, v) == CHOOSE n \in DOMAIN f : f[n] = v

\* What a packet asks for; Nothing if the chip would refuse it.
Meaning(p) ==
  LET zone == p.param1 % 4
      block == p.param1 \div 128 = 1
      first(n) == SubSeq(p.data, 1, n)
  IN CASE p.opcode = 48 /\ p.param1 = 0 -> [op |-> "info"]
       [] p.opcode = 23 /\ zone < 2 /\ p.param1 \div 4 = 32 ->
            [op |-> "lock", what |-> Names(lockZone, zone), slot |-> 0]
       [] p.opcode = 23 /\ zone = 2 /\ p.param1 < 64 ->
            [op |-> "lock", what |-> "slot", slot |-> p.param1 \div 4]
       [] p.opcode = 2 /\ zone < 3 ->
            [op |-> "read", zone |-> Names(Zone, zone), addr |-> p.param2, block |-> block]
       [] p.opcode = 64 /\ p.param1 \in {0, 4} ->
            [op |-> "genkey", new |-> p.param1 = 4, slot |-> p.param2]
       [] p.opcode = 27 /\ p.param1 = 0 -> [op |-> "random"]
       [] p.opcode = 22 /\ p.param1 % 32 = 3 /\ p.param1 \div 64 = 1 ->
            [op |-> "load", data |-> first(IF (p.param1 \div 32) % 2 = 1 THEN 64 ELSE 32)]
       [] p.opcode = 65 /\ p.param1 = 160 -> [op |-> "sign", slot |-> p.param2]
       [] p.opcode = 69 /\ p.param1 = 34 /\ p.param2 = 4 /\ Len(p.data) = 128 ->
            [op |-> "verify", sig |-> first(64), pub |-> SubSeq(p.data, 65, 128)]
       [] p.opcode = 18 /\ zone < 3 ->
            [op |-> "write", zone |-> Names(Zone, zone), addr |-> p.param2,
             data |-> first(IF block THEN 32 ELSE 4)]
       [] p.opcode = 32 /\ p.param1 < 2 ->
            [op |-> "extra", byte |-> Names(updateMode, p.param1), value |-> p.param2]
       [] OTHER -> Nothing

\* A frame whose size or checksum is wrong is nothing to the chip.
Hears(f) ==
  LET n == Len(f)
  IN IF f[1] # n \/ SubSeq(f, n - 1, n) # CrcBytes(ChipCrc(SubSeq(f, 1, n - 2))) THEN Nothing
     ELSE Meaning([opcode |-> f[2], param1 |-> f[3], param2 |-> Word(<<f[4], f[5]>>),
                   data |-> SubSeq(f, 6, n - 2)])

\* How much data answers a command; the others are answered by a status.
DataSize(c) ==
  CASE c.op = "info" -> 4
    [] c.op = "read" -> IF c.block THEN 32 ELSE 4
    [] c.op = "random" -> 32
    [] c.op \in {"genkey", "sign"} -> 64
    [] OTHER -> 0

Framed(payload) ==
  LET b == <<Len(payload) + 3>> \o payload IN b \o CrcBytes(ChipCrc(b))

-----------------------------------------------------------------------------
(* Back in the library: the HAL fills a buffer of cap bytes.  Both return   *)
(* what was put there, or an error.                                        *)

\* halI2C.Read: the size byte, then as many bytes as it says; the bus reads
\* as 255 when the chip has no more.
I2CRead(f, cap) ==
  IF f[1] > cap THEN Error("overflow")
  ELSE IF f[1] < 4 THEN Error("size")
  ELSE Answered([i \in 1..f[1] |-> IF i <= Len(f) THEN f[i] ELSE 255])

\* halKit.Read: the kit writes the frame as two status digits, "(", two digits
\* for each byte, ")" and a newline, in packets; the driver reads packets up to
\* the newline, or until its own buffer is full, and needs the ")".
PacketSize == 64
kitRxWrapSize == 38
kitPacketsBroken(cap) == (2 * cap + kitRxWrapSize) \div PacketSize
kitPackets(cap) == (2 * cap + kitRxWrapSize) \div PacketSize + 1
KitRead(f, cap) ==
  LET digits == 2 * Len(f)
  IN IF 3 + digits >= kitPackets(cap) * PacketSize THEN Error("end of frame")
     ELSE IF Len(f) > cap THEN Error("overflow")
     ELSE Answered(f)

HalRead(f, cap) == IF hal = "i2c" THEN I2CRead(f, cap) ELSE KitRead(f, cap)

\* The buffers that the callers of executeResponse pass.
recvSize(c) == IF DataSize(c) = 0 THEN 1 ELSE DataSize(c)

SoundBroken(buf) == TRUE
Sound(buf) ==
  LET size == Len(buf)
  IN CrcBytes(crc16(SubSeq(buf, 1, size - 2))) = SubSeq(buf, size - 1, size)

\* The rest of executeResponse, on what was read into a buffer with room for
\* the size and the checksum.  Slicing a buffer of one byte or none panics.
Respond(read) ==
  IF read.op # "data" THEN read
  ELSE LET buf == read.data  size == Len(buf)
       IN IF size < 2 THEN Error("panic")
          ELSE IF ~Sound(buf) THEN Error("crc")
          ELSE IF size = 4 /\ buf[2] # 0 THEN Error("status")
          ELSE Answered(SubSeq(buf, 2, size - 2))

-----------------------------------------------------------------------------

Issue(c) ==
  /\ pc = "ready"
  /\ LET p == Packet(c)
     IN IF p = Nothing THEN pc' = "done" /\ result' = Error("refused") /\ UNCHANGED bytes
                       ELSE pc' = "request" /\ bytes' = Encode(p) /\ UNCHANGED result
  /\ cmd' = c
  /\ UNCHANGED <<hal, heard, said, hit>>

\* The chip executes what it heard and answers; "crc" stands for its status
\* for a frame that it did not understand, 255.
Execute ==
  /\ pc = "request" /\ pc' = "answer"
  /\ heard' = Hears(bytes)
  /\ \/ /\ heard' # Nothing
        /\ \E fill \in Fills :
             LET data == IF DataSize(heard') = 0 THEN <<0>> ELSE Data(DataSize(heard'), fill)
             IN said' = Answered(data) /\ bytes' = Framed(data)
     \/ /\ \E s \in IF heard' = Nothing THEN {255} ELSE Statuses :
             said' = Error("status") /\ bytes' = Framed(<<s>>)
  /\ UNCHANGED <<hal, cmd, hit, result>>

\* A byte behind the size is damaged, and with it perhaps the next one.  The data
\* goes through the register from its lowest bit on, and the register is sent
\* with the other end first: the 16 bits across that border are no burst.
Damage ==
  /\ pc \in {"request", "answer"} /\ hit = "nothing"
  /\ \E i \in 2..(Len(bytes) - 1), b \in Bursts :
       /\ bytes' = [bytes EXCEPT ![i] = (@ + b[1]) % 256, ![i + 1] = (@ + b[2]) % 256]
       /\ hit' = IF i = Len(bytes) - 2 /\ b[1] # 0 /\ b[2] # 0 THEN "across" ELSE pc
  /\ UNCHANGED <<hal, pc, cmd, heard, said, result>>

\* The size byte of an answer is damaged: on the bus it says how much to read.
DamageSize ==
  /\ pc = "answer" /\ hit = "nothing" /\ hal = "i2c"
  /\ \E s \in Sizes \ {bytes[1]} : bytes' = [bytes EXCEPT ![1] = s]
  /\ hit' = "size"
  /\ UNCHANGED <<hal, pc, cmd, heard, said, result>>

Receive ==
  /\ pc = "answer" /\ pc' = "done"
  /\ result' = Respond(HalRead(bytes, recvSize(cmd) + 3))
  /\ UNCHANGED <<hal, cmd, bytes, heard, said, hit>>

Next == (\E c \in Requests : Issue(c)) \/ Execute \/ Damage \/ DamageSize \/ Receive

Spec == Init /\ [][Next]_vars

-----------------------------------------------------------------------------
(* Properties.                                                             *)

TypeOK ==
  /\ hal \in {"i2c", "kit"} /\ pc \in {"ready", "request", "answer", "done"}
  /\ cmd \in Requests \cup {Nothing} /\ bytes \in Seq(Byte)
  /\ hit \in {"nothing", "request", "answer", "across", "size"}

\* A command that arrives as it was sent means to the chip exactly what the
\* library was asked for: the same operation, zone, slot, address and data,
\* although masks and shifts packed them into one byte of parameters.  One that
\* was damaged on the way, in two neighbouring bytes on one side of the border
\* before the checksum, is not executed as any command at all.
HeardAsAsked ==
  pc \in {"answer", "done"} /\ hit # "across" /\ result # Error("refused") =>
    heard = IF hit = "request" THEN Nothing ELSE cmd

\* An answer that was not damaged reaches the caller whole, on both
\* interfaces: the buffers that the layers make from each other's sizes
\* (atecc.go:386, hal_kit.go:156) have room for each answer there is, and a
\* status becomes an error.
AnswerWhole == pc = "done" /\ hit = "nothing" /\ result # Error("refused") => result = said

\* Damage to an answer is never taken for an answer: of two neighbouring bytes
\* in any way, of the data or of the checksum, or of one byte anywhere.  Nor
\* does executeResponse slice out of range, whatever was damaged and whatever
\* size a damaged answer claims to have (atecc.go:404).
DamageDetected ==
  /\ pc = "done" /\ hit \in {"request", "answer"} => result.op # "data"
  /\ result # Error("panic")
=============================================================================
