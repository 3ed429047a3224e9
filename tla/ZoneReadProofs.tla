--------------------------- MODULE ZoneReadProofs ---------------------------
(***************************************************************************)
(* Proofs about ZoneRead, for any slots, offsets, lengths and blocks.      *)
(***************************************************************************)
EXTENDS ZoneRead, TLAPS

(* Between rounds the counters are where the buffer's index says.  Words   *)
(* are read only in the last block of a data slot, whose size is taken to  *)
(* be 36 bytes, and one word ends the call.                                *)
Position ==
  pc = "loop" =>
    /\ offset + len <= getZoneSize(zone, 0)
    /\ dataIdx < len =>
         /\ readSize = atcaBlockSize /\ curOffset = 0
         /\ curBlock = (offset + dataIdx) \div atcaBlockSize
         /\ dataIdx > 0 => offset + dataIdx = curBlock * atcaBlockSize

\* A call begins with nothing read.
Fresh == pc \in {"ready", "single"} => dataIdx = 0 /\ got = {} /\ result = "none"

\* A single read asks for a word, or for a whole block.
Single ==
  pc = "single" =>
    /\ len = readSize /\ curOffset \in 0..7
    /\ offset = curBlock * atcaBlockSize
                  + (IF len = atcaWordSize THEN curOffset * atcaWordSize ELSE 0)

\* The counters as the code declares them.
Begin == pc = "ready" => curOffset = 0 /\ readSize = atcaBlockSize

\* A single read fills a buffer of the size it reads.
Asked == pc = "single" => readSize = len

IInv == TypeOK /\ Position /\ Fresh /\ Begin /\ Asked /\ Fills
RInv == IInv /\ Single /\ RightBytes

-----------------------------------------------------------------------------
(* Where the bytes of a chunk come from.                                   *)

\* A byte of a word, or of a block, is the one kept at its position.
LEMMA ByteOfWord ==
  ASSUME TypeOK, NEW b \in Nat, NEW w \in 0..7, NEW i \in 0..3
  PROVE  Source(getAddr(zone, slot, b, w), atcaWordSize, i) = Kept(b * 32 + w * 4 + i)
<1> DEFINE p == b * 32 + w * 4 + i
<1>1. p \in Nat /\ p \div 32 = b /\ (p % 32) \div 4 = w /\ p % 4 = i /\ w % 8 = w
  OBVIOUS
<1> QED BY <1>1 DEF Source, Kept, atcaWordSize, atcaBlockSize

LEMMA ByteOfBlock ==
  ASSUME TypeOK, NEW b \in Nat, NEW w \in Nat, NEW i \in 0..31
  PROVE  Source(getAddr(zone, slot, b, w), atcaBlockSize, i) = Kept(b * 32 + i)
<1> DEFINE p == b * 32 + i
           addr == getAddr(zone, slot, b, w)
<1>1. p \in Nat /\ p \div 32 = b /\ (p % 32) \div 4 = i \div 4 /\ p % 4 = i % 4
  OBVIOUS
<1>2. i \div 4 \in 0..7 /\ (i \div 4) % 8 = i \div 4
  OBVIOUS
<1>3. addr - (addr % 8) + (i \div 4) = getAddr(zone, slot, b, i \div 4)
  <2>1. w % 8 \in 0..7
    OBVIOUS
  <2>2. CASE zone = "Data"
    <3> DEFINE base == slot * 8 + b * 256
    <3>1. base \in Nat /\ base % 8 = 0
      BY DEF TypeOK
    <3>2. addr = base + (w % 8) /\ getAddr(zone, slot, b, i \div 4) = base + (i \div 4)
      BY <1>2, <2>1, <2>2 DEF getAddr, TypeOK
    <3> QED BY <1>2, <2>1, <3>1, <3>2
  <2>3. CASE zone # "Data"
    BY <1>2, <2>1, <2>3 DEF getAddr
  <2> QED BY <2>2, <2>3
<1> QED BY <1>1, <1>3 DEF Source, Kept, atcaWordSize, atcaBlockSize

\* Appending a chunk of bytes that are in place keeps the buffer in place.
LEMMA Append ==
  ASSUME TypeOK, RightBytes, NEW copy \in Nat
  PROVE  got \cup {<<dataIdx + i, Kept(offset + dataIdx + i)[1], Kept(offset + dataIdx + i)[2]>> :
                     i \in 0..(copy - 1)}
           = {<<j, Kept(offset + j)[1], Kept(offset + j)[2]>> : j \in 0..(dataIdx + copy - 1)}
<1> DEFINE K(j) == <<j, Kept(offset + j)[1], Kept(offset + j)[2]>>
           New == {<<dataIdx + i, Kept(offset + dataIdx + i)[1], Kept(offset + dataIdx + i)[2]>> :
                     i \in 0..(copy - 1)}
<1>0. dataIdx \in Nat /\ offset \in Nat
  BY DEF TypeOK
<1>1. New = {K(dataIdx + i) : i \in 0..(copy - 1)}
  <2>1. \A i \in 0..(copy - 1) : offset + (dataIdx + i) = offset + dataIdx + i
    BY <1>0
  <2> QED BY <2>1
<1> HIDE DEF K, New
<1>2. {K(dataIdx + i) : i \in 0..(copy - 1)} = {K(j) : j \in dataIdx..(dataIdx + copy - 1)}
  <2>1. ASSUME NEW j \in dataIdx..(dataIdx + copy - 1)
        PROVE  \E i \in 0..(copy - 1) : K(j) = K(dataIdx + i)
    <3>1. j - dataIdx \in 0..(copy - 1) /\ dataIdx + (j - dataIdx) = j
      BY <1>0
    <3> QED BY <3>1
  <2>2. ASSUME NEW i \in 0..(copy - 1)
        PROVE  \E j \in dataIdx..(dataIdx + copy - 1) : K(dataIdx + i) = K(j)
    <3>1. dataIdx + i \in dataIdx..(dataIdx + copy - 1)
      BY <1>0
    <3> QED BY <3>1
  <2> QED BY <2>1, <2>2
<1>3. got = {K(j) : j \in 0..(dataIdx - 1)}
  BY DEF RightBytes, K
<1>4. 0..(dataIdx + copy - 1) = (0..(dataIdx - 1)) \cup (dataIdx..(dataIdx + copy - 1))
  BY <1>0
<1>5. got \cup New = {K(j) : j \in 0..(dataIdx + copy - 1)}
  BY <1>1, <1>2, <1>3, <1>4
<1> QED BY <1>5 DEF K, New

\* The addresses and bytes a read returns are of their types.
LEMMA SourceType ==
  ASSUME TypeOK, NEW b \in Nat, NEW w \in Nat, NEW size \in {4, 32}, NEW i \in Nat
  PROVE  /\ Source(getAddr(zone, slot, b, w), size, i)[1] \in Nat
         /\ i < size => Source(getAddr(zone, slot, b, w), size, i)[2] \in 0..3
<1>1. getAddr(zone, slot, b, w) \in Nat
  BY DEF getAddr, TypeOK
<1>2. \A a \in Nat : a - (a % 8) \in Nat
  OBVIOUS
<1> QED BY <1>1, <1>2 DEF Source, atcaWordSize, atcaBlockSize

-----------------------------------------------------------------------------
(* One round of the loop.                                                  *)

\* The sizes of zones as the loop sees them.
LEMMA ZoneSizes ==
  ASSUME TypeOK
  PROVE  /\ getZoneSize(zone, 0) \in {36, 64, 128}
         /\ getZoneSize(zone, 0) = 36 => zone = "Data"
BY DEF getZoneSize, TypeOK, ZoneNames

\* The chunk that is read begins at or before the next byte wanted, in the
\* same block; a word is read only when it holds all that is still missing.
LEMMA ChunkFacts ==
  ASSUME IInv, pc = "loop", dataIdx < len,
         NEW size, size = IF Tail THEN atcaWordSize ELSE readSize,
         NEW off, off = IF Tail THEN ((dataIdx + offset) \div atcaWordSize) % 8 ELSE curOffset,
         NEW skip, skip = Skipped(curBlock * atcaBlockSize + off * atcaWordSize),
         NEW copy, copy = Copied(size, skip)
  PROVE  /\ size \in {4, 32} /\ off = 0 /\ curBlock \in 0..3
         /\ skip \in Nat /\ copy \in Nat /\ skip + copy <= size
         /\ curBlock * 32 + skip = offset + dataIdx
         /\ dataIdx + copy <= len
         /\ size = 4 => dataIdx + copy = len
         /\ size = 32 /\ dataIdx + copy < len =>
              offset + (dataIdx + copy) = (curBlock + 1) * 32
<1> DEFINE Z == getZoneSize(zone, 0)
<1>1. /\ TypeOK /\ offset + len <= Z /\ readSize = 32 /\ curOffset = 0
      /\ curBlock = (offset + dataIdx) \div 32
      /\ dataIdx > 0 => offset + dataIdx = curBlock * 32
  BY DEF IInv, Position, atcaBlockSize
<1>2. /\ offset \in Nat /\ len \in Nat /\ dataIdx \in Nat /\ curBlock \in Nat
      /\ Z \in {36, 64, 128} /\ offset + dataIdx < Z
  BY <1>1, ZoneSizes DEF TypeOK
<1>3. curBlock * 32 <= offset + dataIdx /\ offset + dataIdx < curBlock * 32 + 32 /\ curBlock \in 0..3
  BY <1>1, <1>2
<1>4. Tail => Z = 36 /\ curBlock = 1
  BY <1>1, <1>2, <1>3 DEF Tail, atcaBlockSize
<1>5. off = 0
  <2>1. CASE Tail
    <3>1. 32 <= dataIdx + offset /\ dataIdx + offset < 36
      BY <1>2, <1>3, <1>4, <2>1
    <3>2. (dataIdx + offset) \div 4 = 8
      BY <1>2, <3>1
    <3> QED BY <2>1, <3>2 DEF atcaWordSize
  <2> QED BY <1>1, <2>1
<1>6. skip = IF curBlock * 32 < offset THEN offset - curBlock * 32 ELSE 0
  BY <1>2, <1>5 DEF Skipped, atcaBlockSize, atcaWordSize
<1>7. curBlock * 32 + skip = offset + dataIdx /\ skip \in Nat /\ skip < 32
  BY <1>1, <1>2, <1>3, <1>6
<1>8. size = IF Tail THEN 4 ELSE 32
  BY <1>1 DEF atcaWordSize
<1>9. skip < size
  BY <1>2, <1>4, <1>7, <1>8
<1>10. copy = IF len - dataIdx < size - skip THEN len - dataIdx ELSE size - skip
  BY DEF Copied
<1>11. size = 4 => dataIdx + copy = len
  BY <1>1, <1>2, <1>4, <1>7, <1>8, <1>10
<1> HIDE DEF Z
<1> QED BY <1>2, <1>3, <1>5, <1>7, <1>8, <1>9, <1>10, <1>11

LEMMA RoundKeepsIInv ==
  ASSUME IInv, ReadChunk
  PROVE  IInv'
<1> DEFINE size == IF Tail THEN atcaWordSize ELSE readSize
           off  == IF Tail THEN ((dataIdx + offset) \div atcaWordSize) % 8 ELSE curOffset
           addr == getAddr(zone, slot, curBlock, off)
           skip == Skipped(curBlock * atcaBlockSize + off * atcaWordSize)
           copy == Copied(size, skip)
           At(i) == Source(addr, size, skip + i)
           new == {<<dataIdx + i, At(i)[1], At(i)[2]>> : i \in 0..(copy - 1)}
<1>0. /\ pc = "loop" /\ dataIdx < len /\ TypeOK
      /\ got' = got \cup new /\ dataIdx' = dataIdx + copy /\ readSize' = size
      /\ IF size = atcaBlockSize
         THEN curBlock' = curBlock + 1 /\ curOffset' = off
         ELSE curOffset' = off + 1 /\ curBlock' = curBlock
      /\ UNCHANGED <<pc, zone, slot, offset, len, result>>
  BY DEF ReadChunk, IInv, args
<1>1. /\ size \in {4, 32} /\ off = 0 /\ curBlock \in 0..3
      /\ skip \in Nat /\ copy \in Nat /\ skip + copy <= size
      /\ curBlock * 32 + skip = offset + dataIdx
      /\ dataIdx + copy <= len
      /\ size = 4 => dataIdx + copy = len
      /\ size = 32 /\ dataIdx + copy < len =>
           offset + (dataIdx + copy) = (curBlock + 1) * 32
  <2> HIDE DEF size, off, skip, copy
  <2> QED BY <1>0, ChunkFacts DEF size, off, skip, copy
<1> HIDE DEF size, off, skip, copy
<1>2. new \subseteq Nat \X Nat \X (0..3)
  <2>1. ASSUME NEW i \in 0..(copy - 1)
        PROVE  dataIdx + i \in Nat /\ At(i)[1] \in Nat /\ At(i)[2] \in 0..3
    <3>1. skip + i \in Nat /\ skip + i < size /\ off \in Nat /\ curBlock \in Nat /\ dataIdx + i \in Nat
      BY <1>0, <1>1 DEF TypeOK
    <3> QED BY <1>0, <1>1, <3>1, SourceType
  <2> HIDE DEF At
  <2> QED BY <2>1
<1> HIDE DEF new
<1>3. TypeOK'
  BY <1>0, <1>1, <1>2 DEF TypeOK, atcaWordSize, atcaBlockSize
<1>4. Position'
  <2>1. offset + len <= getZoneSize(zone, 0) /\ offset \in Nat /\ dataIdx \in Nat /\ len \in Nat
    BY <1>0 DEF IInv, Position, TypeOK
  <2>2. getZoneSize(zone, 0)' = getZoneSize(zone, 0)
    BY <1>0 DEF getZoneSize
  <2>3. ASSUME dataIdx' < len
        PROVE  /\ size = 32 /\ curBlock' = curBlock + 1 /\ curOffset' = 0
               /\ offset + dataIdx' = curBlock' * 32
    BY <1>0, <1>1, <2>1, <2>3 DEF atcaBlockSize
  <2>4. dataIdx' < len => (offset + dataIdx') \div 32 = curBlock'
    BY <1>1, <2>3
  <2> QED BY <1>0, <2>1, <2>2, <2>3, <2>4 DEF Position, atcaBlockSize
<1>5. Fresh' /\ Begin' /\ Asked' /\ Fills'
  BY <1>0 DEF Fresh, Begin, Asked, IInv, Fills, TypeOK
<1> QED BY <1>3, <1>4, <1>5 DEF IInv

LEMMA RoundKeepsRightBytes ==
  ASSUME IInv, RightBytes, ReadChunk
  PROVE  RightBytes'
<1> DEFINE size == IF Tail THEN atcaWordSize ELSE readSize
           off  == IF Tail THEN ((dataIdx + offset) \div atcaWordSize) % 8 ELSE curOffset
           addr == getAddr(zone, slot, curBlock, off)
           skip == Skipped(curBlock * atcaBlockSize + off * atcaWordSize)
           copy == Copied(size, skip)
           At(i) == Source(addr, size, skip + i)
           Want(i) == Kept(offset + dataIdx + i)
           new == {<<dataIdx + i, At(i)[1], At(i)[2]>> : i \in 0..(copy - 1)}
<1>0. /\ pc = "loop" /\ dataIdx < len /\ TypeOK
      /\ got' = got \cup new /\ dataIdx' = dataIdx + copy
      /\ UNCHANGED <<zone, slot, offset>>
  BY DEF ReadChunk, IInv, args
<1>1. /\ size \in {4, 32} /\ off = 0 /\ curBlock \in 0..3
      /\ skip \in Nat /\ copy \in Nat /\ skip + copy <= size
      /\ curBlock * 32 + skip = offset + dataIdx
  <2> HIDE DEF size, off, skip, copy
  <2> QED BY <1>0, ChunkFacts DEF size, off, skip, copy
<1> HIDE DEF size, off, skip, copy
<1>2. ASSUME NEW i \in 0..(copy - 1)
      PROVE  At(i) = Want(i)
  <2>1. /\ skip + i \in 0..(size - 1) /\ curBlock \in Nat /\ offset \in Nat /\ dataIdx \in Nat
        /\ curBlock * 32 + (skip + i) = offset + dataIdx + i
        /\ curBlock * 32 + 0 * 4 + (skip + i) = offset + dataIdx + i
    BY <1>0, <1>1 DEF TypeOK
  <2>2. CASE size = 32
    <3>1. Source(getAddr(zone, slot, curBlock, 0), atcaBlockSize, skip + i) = Kept(curBlock * 32 + (skip + i))
      <4>1. skip + i \in 0..31 /\ 0 \in Nat
        BY <2>1, <2>2
      <4> QED BY Zenon, <1>0, <2>1, <4>1, ByteOfBlock
    <3> QED BY <1>1, <2>1, <2>2, <3>1 DEF atcaBlockSize
  <2>3. CASE size = 4
    <3>1. Source(getAddr(zone, slot, curBlock, 0), atcaWordSize, skip + i) = Kept(curBlock * 32 + 0 * 4 + (skip + i))
      <4>1. skip + i \in 0..3 /\ 0 \in 0..7
        BY <2>1, <2>3
      <4> QED BY Zenon, <1>0, <2>1, <4>1, ByteOfWord
    <3> QED BY <1>1, <2>1, <2>3, <3>1 DEF atcaWordSize
  <2> QED BY <1>1, <2>2, <2>3
<1>3. new = {<<dataIdx + i, Want(i)[1], Want(i)[2]>> : i \in 0..(copy - 1)}
  <2> HIDE DEF At, Want
  <2> QED BY <1>2
<1>4. got' = {<<j, Kept(offset + j)[1], Kept(offset + j)[2]>> : j \in 0..(dataIdx + copy - 1)}
  <2> HIDE DEF new
  <2> QED BY <1>0, <1>1, <1>3, Append
<1> HIDE DEF new, At, Want
<1>5. dataIdx' - 1 = dataIdx + copy - 1
  <2>1. dataIdx' = dataIdx + copy /\ dataIdx \in Nat /\ copy \in Nat
    BY <1>0, <1>1 DEF TypeOK
  <2> QED BY <2>1
<1>6. got' = {<<j, Kept(offset + j)[1], Kept(offset + j)[2]>> : j \in 0..(dataIdx' - 1)}
  BY <1>4, <1>5
<1>7. zone' = zone /\ slot' = slot /\ offset' = offset
  BY <1>0
<1> QED BY Zenon, <1>6, <1>7 DEF RightBytes, Kept

-----------------------------------------------------------------------------
(* The other steps.                                                        *)

LEMMA CallKeepsIInv ==
  ASSUME IInv, NEW z \in ZoneNames, NEW s \in Slots, NEW o \in Offsets, NEW n \in Lengths,
         ReadBytes(z, s, o, n)
  PROVE  IInv'
<1>1. /\ s \in Nat /\ o \in Nat /\ n \in Nat
      /\ TypeOK /\ dataIdx = 0 /\ got = {} /\ curOffset = 0 /\ readSize = atcaBlockSize
  BY ArgumentsAssumption DEF ReadBytes, IInv, Fresh, Begin
<1>2. /\ zone' = z /\ slot' = s /\ offset' = o /\ len' = n
      /\ dataIdx' = 0 /\ got' = {} /\ curOffset' = 0 /\ readSize' = atcaBlockSize
      /\ pc' \in {"loop", "done"}
      /\ pc' = "loop" => n > 0 /\ InZone(z, o, n) /\ curBlock' = o \div atcaBlockSize /\ result' = "none"
      /\ pc' = "done" => curBlock' = curBlock /\ result' = (IF n = 0 THEN "ok" ELSE "invalid")
  BY <1>1 DEF ReadBytes
<1>3. pc' = "loop" => o + n <= getZoneSize(z, 0) /\ o \div 32 \in 0..3
  <2>1. getZoneSize(z, 0) <= 128 /\ getZoneSize(z, 0) \in Nat
    BY DEF getZoneSize, ZoneNames
  <2> QED BY <1>1, <1>2, <2>1 DEF InZone
<1>4. TypeOK'
  BY <1>1, <1>2, <1>3 DEF TypeOK, atcaBlockSize, atcaWordSize
<1>5. Position'
  <2>1. getZoneSize(zone, 0)' = getZoneSize(z, 0)
    BY <1>2 DEF getZoneSize
  <2> QED BY <1>1, <1>2, <1>3, <2>1 DEF Position
<1> QED BY <1>1, <1>2, <1>4, <1>5 DEF IInv, Fresh, Begin, Asked, Fills

LEMMA StepKeepsIInv ==
  ASSUME IInv, [Next]_vars
  PROVE  IInv'
<1>1. ASSUME NEW z \in ZoneNames, NEW s \in Slots, NEW o \in Offsets, NEW n \in Lengths,
             ReadBytes(z, s, o, n)
      PROVE  IInv'
  BY <1>1, CallKeepsIInv
<1>2. ASSUME NEW z \in ZoneNames, NEW s \in Slots, NEW b \in Blocks, NEW w \in WordOffsets,
             NEW n \in {4, 32}, ReadZone(z, s, b, w, n)
      PROVE  IInv'
  <2>1. s \in Nat /\ b \in 0..255 /\ w \in 0..255
    BY <1>2, ArgumentsAssumption
  <2>2. TypeOK'
    BY <1>2, <2>1 DEF ReadZone, IInv, Fresh, TypeOK, atcaWordSize, atcaBlockSize
  <2> QED BY <1>2, <2>2 DEF ReadZone, IInv, Position, Fresh, Begin, Asked, Fills, TypeOK
<1>3. CASE ReadChunk
  BY <1>3, RoundKeepsIInv
<1>4. CASE ReadSingle
  <2> DEFINE At(i) == Source(getAddr(zone, slot, curBlock, curOffset), readSize, i)
             new == {<<i, At(i)[1], At(i)[2]>> : i \in 0..(readSize - 1)}
  <2>1. /\ TypeOK /\ got' = new /\ dataIdx' = readSize /\ pc' = "done" /\ result' = "ok"
        /\ UNCHANGED <<zone, slot, offset, len, curBlock, curOffset, readSize>>
    BY <1>4 DEF ReadSingle, IInv, args
  <2>2. new \subseteq Nat \X Nat \X (0..3)
    <3>1. ASSUME NEW i \in 0..(readSize - 1)
          PROVE  i \in Nat /\ At(i)[1] \in Nat /\ At(i)[2] \in 0..3
      <4>1. i \in Nat /\ i < readSize /\ readSize \in {4, 32} /\ curBlock \in Nat /\ curOffset \in Nat
        BY <2>1 DEF TypeOK, atcaWordSize, atcaBlockSize
      <4> QED BY <2>1, <4>1, SourceType
    <3> HIDE DEF At
    <3> QED BY <3>1
  <2>3. readSize = len
    BY <1>4 DEF IInv, ReadSingle, Asked
  <2> HIDE DEF new
  <2>4. TypeOK'
    BY <2>1, <2>2, <2>3 DEF TypeOK, atcaWordSize, atcaBlockSize
  <2>5. Position' /\ Fresh' /\ Begin' /\ Asked'
    BY <2>1 DEF Position, Fresh, Begin, Asked
  <2>6. Fills'
    BY <2>1, <2>3 DEF Fills
  <2> QED BY <2>4, <2>5, <2>6 DEF IInv
<1>5. CASE ReadFails
  <2>1. TypeOK'
    BY <1>5 DEF ReadFails, IInv, TypeOK, args
  <2> QED BY <1>5, <2>1 DEF ReadFails, IInv, Position, Fresh, Begin, Fills, Asked
<1>6. CASE LoopEnds
  <2>1. TypeOK' /\ dataIdx = len
    BY <1>6 DEF LoopEnds, IInv, TypeOK, args
  <2> QED BY <1>6, <2>1 DEF LoopEnds, IInv, Position, Fresh, Begin, Fills, Asked, args
<1>7. CASE Return
  <2>1. TypeOK'
    BY <1>7 DEF Return, TypeOK, ZoneNames, atcaBlockSize
  <2> QED BY <1>7, <2>1 DEF Return, IInv, Position, Fresh, Begin, Fills, Asked
<1>8. CASE UNCHANGED vars
  <2>1. getZoneSize(zone, 0)' = getZoneSize(zone, 0)
    BY <1>8 DEF vars, args, getZoneSize
  <2> QED BY <1>8, <2>1 DEF vars, args, IInv, TypeOK, Position, Fresh, Begin, Fills, Asked
<1> QED BY <1>1, <1>2, <1>3, <1>4, <1>5, <1>6, <1>7, <1>8 DEF Next

LEMMA InitIInv == Init => IInv /\ Single /\ RightBytes
BY DEF Init, IInv, TypeOK, Position, Fresh, Begin, Asked, Fills, Single, RightBytes,
       ZoneNames, atcaBlockSize

\* Words are asked for within their block: the three bits that getAddr keeps.
WordInBlock == WordOffsets \subseteq 0..7

LEMMA SingleStep ==
  ASSUME RInv, ReadSingle
  PROVE  RightBytes'
<1> DEFINE At(i) == Source(getAddr(zone, slot, curBlock, curOffset), readSize, i)
           new == {<<i, At(i)[1], At(i)[2]>> : i \in 0..(readSize - 1)}
<1>1. /\ TypeOK /\ Single /\ pc = "single" /\ readSize = len
      /\ got' = new /\ dataIdx' = readSize
      /\ zone' = zone /\ slot' = slot /\ offset' = offset
  BY DEF ReadSingle, RInv, IInv, Asked, args
<1>2. ASSUME NEW i \in 0..(readSize - 1)
      PROVE  At(i) = Kept(offset + i)
  <2>1. curBlock \in Nat /\ curOffset \in 0..7 /\ curOffset \in Nat
    BY <1>1 DEF TypeOK, Single
  <2>2. CASE readSize = 4
    <3>1. i \in 0..3 /\ offset + i = curBlock * 32 + curOffset * 4 + i
      BY <1>1, <2>1, <2>2 DEF Single, atcaWordSize, atcaBlockSize
    <3>2. Source(getAddr(zone, slot, curBlock, curOffset), atcaWordSize, i)
            = Kept(curBlock * 32 + curOffset * 4 + i)
      BY Zenon, <1>1, <2>1, <3>1, ByteOfWord
    <3> QED BY <2>2, <3>1, <3>2 DEF atcaWordSize
  <2>3. CASE readSize = 32
    <3>1. i \in 0..31 /\ offset + i = curBlock * 32 + i
      BY <1>1, <2>1, <2>3 DEF Single, atcaWordSize, atcaBlockSize
    <3>2. Source(getAddr(zone, slot, curBlock, curOffset), atcaBlockSize, i)
            = Kept(curBlock * 32 + i)
      BY Zenon, <1>1, <2>1, <3>1, ByteOfBlock
    <3> QED BY <2>3, <3>1, <3>2 DEF atcaBlockSize
  <2> QED BY <1>1, <2>2, <2>3 DEF TypeOK, atcaWordSize, atcaBlockSize
<1>3. new = {<<i, Kept(offset + i)[1], Kept(offset + i)[2]>> : i \in 0..(readSize - 1)}
  <2> HIDE DEF At
  <2> QED BY <1>2
<1> HIDE DEF new, At
<1>4. got' = {<<i, Kept(offset + i)[1], Kept(offset + i)[2]>> : i \in 0..(dataIdx' - 1)}
  BY <1>1, <1>3
<1> QED BY Zenon, <1>1, <1>4 DEF RightBytes, Kept

LEMMA StepKeepsRInv ==
  ASSUME WordInBlock, RInv, [Next]_vars
  PROVE  RInv'
<1>1. IInv'
  BY StepKeepsIInv DEF RInv
<1> SUFFICES Single' /\ RightBytes'
  BY <1>1 DEF RInv
<1>2. ASSUME NEW z \in ZoneNames, NEW s \in Slots, NEW o \in Offsets, NEW n \in Lengths,
             ReadBytes(z, s, o, n)
      PROVE  Single' /\ RightBytes'
  BY <1>2 DEF ReadBytes, RInv, IInv, Fresh, Single, RightBytes
<1>3. ASSUME NEW z \in ZoneNames, NEW s \in Slots, NEW b \in Blocks, NEW w \in WordOffsets,
             NEW n \in {4, 32}, ReadZone(z, s, b, w, n)
      PROVE  Single' /\ RightBytes'
  <2>1. w \in 0..7
    BY DEF WordInBlock
  <2>2. got' = {} /\ dataIdx' = 0
    BY <1>3 DEF ReadZone, RInv, IInv, Fresh
  <2>3. Single'
    BY <1>3, <2>1 DEF ReadZone, Single
  <2> QED BY <2>2, <2>3 DEF RightBytes
<1>4. CASE ReadChunk
  <2>1. RightBytes'
    BY <1>4, RoundKeepsRightBytes DEF RInv
  <2> QED BY <1>4, <2>1 DEF ReadChunk, Single
<1>5. CASE ReadSingle
  <2>1. RightBytes'
    BY <1>5, SingleStep
  <2> QED BY <1>5, <2>1 DEF ReadSingle, Single
<1>6. CASE ReadFails \/ LoopEnds
  <2>1. UNCHANGED <<zone, slot, offset, got, dataIdx>> /\ pc' = "done"
    BY <1>6 DEF ReadFails, LoopEnds, args
  <2> QED BY <2>1 DEF RInv, Single, RightBytes, Kept
<1>7. CASE Return
  BY <1>7 DEF Return, Single, RightBytes
<1>8. CASE UNCHANGED vars
  BY <1>8 DEF vars, args, RInv, Single, RightBytes, Kept
<1> QED BY <1>1, <1>2, <1>3, <1>4, <1>5, <1>6, <1>7, <1>8 DEF Next, RInv

-----------------------------------------------------------------------------
\* readBytesZone and readZone (calib.go:38-114) stay in their types: block
\* and word fit their bytes, and no more is copied than was asked for.
THEOREM TypeCorrect == Spec => []TypeOK
<1>1. Init => IInv
  BY InitIInv
<1>2. IInv /\ [Next]_vars => IInv'
  BY StepKeepsIInv
<1>3. IInv => TypeOK
  BY DEF IInv
<1> QED BY <1>1, <1>2, <1>3, PTL DEF Spec

\* A read that succeeds has filled the caller's buffer (calib.go:93).
THEOREM FillsAlways == Spec => []Fills
<1>1. Init => IInv
  BY InitIInv
<1>2. IInv /\ [Next]_vars => IInv'
  BY StepKeepsIInv
<1>3. IInv => Fills
  BY DEF IInv
<1> QED BY <1>1, <1>2, <1>3, PTL DEF Spec

\* When words are asked for within their block, the buffer holds the bytes of
\* the range in order, for every zone, slot, offset and length, and wherever
\* a command fails (calib.go:60-92).
THEOREM RightBytesAlways ==
  ASSUME WordInBlock
  PROVE  Spec => []RightBytes
<1>1. Init => RInv
  BY InitIInv DEF RInv
<1>2. RInv /\ [Next]_vars => RInv'
  BY StepKeepsRInv
<1>3. RInv => RightBytes
  BY DEF RInv
<1> QED BY <1>1, <1>2, <1>3, PTL DEF Spec
=============================================================================
