------------------------------ MODULE ZoneRead ------------------------------
(***************************************************************************)
(* readBytesZone and readZone (pkg/atecc/calib.go): a range of bytes is    *)
(* read as a sequence of block reads, then of word reads where the zone    *)
(* ends within a block; every read may fail.  ReadZone gives callers one   *)
(* block or word.                                                          *)
(*                                                                         *)
(* The definitions called ...Broken are plausible mistakes in the          *)
(* definition that follows each of them; no other definition uses them.    *)
(***************************************************************************)
EXTENDS Zones

CONSTANTS Slots, Offsets, Lengths, Blocks, WordOffsets

ASSUME ArgumentsAssumption ==
  /\ Slots \subseteq Nat /\ Offsets \subseteq Nat /\ Lengths \subseteq Nat
  /\ Blocks \subseteq 0..255 /\ WordOffsets \subseteq 0..255

VARIABLES
  pc,         \* "ready", "loop", "single" or "done"
  zone, slot, offset, len,
  dataIdx,    \* bytes of the caller's buffer filled
  curBlock, curOffset,
  readSize,   \* len(readBuf): a block, or a word once the zone's tail is reached
  got,        \* where each byte of the buffer comes from: <<index, address, byte>>
  result      \* "none", "ok", "invalid" or "error"

args == <<zone, slot, offset, len>>
vars == <<pc, args, dataIdx, curBlock, curOffset, readSize, got, result>>

Init ==
  /\ pc = "ready"
  /\ zone = "Config" /\ slot = 0 /\ offset = 0 /\ len = 0
  /\ dataIdx = 0 /\ curBlock = 0 /\ curOffset = 0 /\ readSize = atcaBlockSize
  /\ got = {} /\ result = "none"

\* readBytesZone: the size is looked up for slot 0, whatever the slot.
InZone(z, o, n) == o + n <= getZoneSize(z, 0)

ReadBytes(z, s, o, n) ==
  /\ pc = "ready"
  /\ zone' = z /\ slot' = s /\ offset' = o /\ len' = n
  /\ IF n > 0 /\ InZone(z, o, n)
     THEN pc' = "loop" /\ curBlock' = o \div atcaBlockSize /\ result' = "none"
     ELSE /\ pc' = "done" /\ result' = IF n = 0 THEN "ok" ELSE "invalid"
          /\ UNCHANGED curBlock
  /\ UNCHANGED <<dataIdx, curOffset, readSize, got>>

\* ReadZone, readZone: the only check is of the size of the buffer.
ReadZone(z, s, b, w, n) ==
  /\ pc = "ready" /\ n \in {atcaWordSize, atcaBlockSize}
  /\ zone' = z /\ slot' = s /\ curBlock' = b /\ curOffset' = w
  /\ readSize' = n /\ len' = n
  /\ offset' = b * atcaBlockSize + (IF n = atcaWordSize THEN w * atcaWordSize ELSE 0)
  /\ pc' = "single"
  /\ UNCHANGED <<dataIdx, got, result>>

\* What the chip returns as byte i of a read at an address: a block read
\* starts at word 0 of the block.
Source(addr, size, i) ==
  IF size = atcaBlockSize
  THEN <<(addr - (addr % 8)) + (i \div atcaWordSize), i % atcaWordSize>>
  ELSE <<addr, i>>

\* The loop's head: words from here on when the zone ends within this block.
Tail == readSize = atcaBlockSize /\ getZoneSize(zone, 0) - curBlock * atcaBlockSize < atcaBlockSize

\* readBufIdx: what precedes the requested range in the first chunk.
SkippedBroken(readOffset) == 0
Skipped(readOffset) == IF readOffset < offset THEN offset - readOffset ELSE 0

\* copyLength: the rest of the chunk, or as much as is still missing.
CopiedBroken(size, skip) == size - skip
Copied(size, skip) == IF len - dataIdx < size - skip THEN len - dataIdx ELSE size - skip

\* One round of the loop whose read succeeds.
ReadChunk ==
  /\ pc = "loop" /\ dataIdx < len
  /\ LET size == IF Tail THEN atcaWordSize ELSE readSize
         off  == IF Tail THEN ((dataIdx + offset) \div atcaWordSize) % 8 ELSE curOffset
         addr == getAddr(zone, slot, curBlock, off)
         skip == Skipped(curBlock * atcaBlockSize + off * atcaWordSize)
         copy == Copied(size, skip)
         At(i) == Source(addr, size, skip + i)
     IN /\ got' = got \cup {<<dataIdx + i, At(i)[1], At(i)[2]>> : i \in 0..(copy - 1)}
        /\ dataIdx' = dataIdx + copy
        /\ readSize' = size
        /\ IF size = atcaBlockSize
           THEN curBlock' = curBlock + 1 /\ curOffset' = off
           ELSE curOffset' = off + 1 /\ UNCHANGED curBlock
  /\ UNCHANGED <<pc, args, result>>

ReadSingle ==
  /\ pc = "single"
  /\ LET addr == getAddr(zone, slot, curBlock, curOffset)
         At(i) == Source(addr, readSize, i)
     IN got' = {<<i, At(i)[1], At(i)[2]>> : i \in 0..(readSize - 1)}
  /\ dataIdx' = readSize
  /\ pc' = "done" /\ result' = "ok"
  /\ UNCHANGED <<args, curBlock, curOffset, readSize>>

\* A read that fails ends the call, with the bytes read so far.
ReadFails ==
  /\ pc = "single" \/ (pc = "loop" /\ dataIdx < len)
  /\ pc' = "done" /\ result' = "error"
  /\ UNCHANGED <<args, dataIdx, curBlock, curOffset, readSize, got>>

LoopEndsBroken ==
  /\ pc = "loop" /\ dataIdx > 0
  /\ pc' = "done" /\ result' = "ok"
  /\ UNCHANGED <<args, dataIdx, curBlock, curOffset, readSize, got>>
LoopEnds ==
  /\ pc = "loop" /\ dataIdx >= len
  /\ pc' = "done" /\ result' = "ok"
  /\ UNCHANGED <<args, dataIdx, curBlock, curOffset, readSize, got>>

\* The caller takes the result; nothing of the call is kept.
Return ==
  /\ pc = "done"
  /\ pc' = "ready"
  /\ zone' = "Config" /\ slot' = 0 /\ offset' = 0 /\ len' = 0
  /\ dataIdx' = 0 /\ curBlock' = 0 /\ curOffset' = 0 /\ readSize' = atcaBlockSize
  /\ got' = {} /\ result' = "none"

Next ==
  \/ \E z \in ZoneNames, s \in Slots, o \in Offsets, n \in Lengths : ReadBytes(z, s, o, n)
  \/ \E z \in ZoneNames, s \in Slots, b \in Blocks, w \in WordOffsets, n \in {4, 32} :
       ReadZone(z, s, b, w, n)
  \/ ReadChunk \/ ReadSingle \/ ReadFails \/ LoopEnds
  \/ Return

Spec == Init /\ [][Next]_vars

-----------------------------------------------------------------------------

TypeOK ==
  /\ pc \in {"ready", "loop", "single", "done"}
  /\ zone \in ZoneNames /\ slot \in Nat /\ offset \in Nat /\ len \in Nat
  /\ dataIdx \in 0..len
  /\ curBlock \in 0..255 /\ curOffset \in 0..255
  /\ readSize \in {atcaWordSize, atcaBlockSize}
  /\ got \subseteq Nat \X Nat \X (0..3)
  /\ result \in {"none", "ok", "invalid", "error"}

\* Where byte p of the zone, or of the slot, is kept.
Kept(p) ==
  <<getAddr(zone, slot, p \div atcaBlockSize, (p % atcaBlockSize) \div atcaWordSize),
    p % atcaWordSize>>

\* The buffer holds the bytes that were asked for, in order and without a
\* gap, up to the count that the call returns: whichever chunks it took, and
\* wherever a command failed.
RightBytes ==
  got = {<<j, Kept(offset + j)[1], Kept(offset + j)[2]>> : j \in 0..(dataIdx - 1)}

\* A call that succeeds has filled the whole buffer.
Fills == result = "ok" => dataIdx = len
=============================================================================
