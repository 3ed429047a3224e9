-------------------------- MODULE ZoneWriteProofs --------------------------
(***************************************************************************)
(* Proofs about ZoneWrite, for any slots, offsets and lengths.             *)
(***************************************************************************)
EXTENDS ZoneWrite, TLAPS

\* Two words of the chip never share an address: the slots and the words fit
\* in the bits below the block.
THEOREM AddressesDiffer ==
  ASSUME NEW s1 \in 0..15, NEW s2 \in 0..15, NEW b1 \in Nat, NEW b2 \in Nat,
         NEW w1 \in 0..7, NEW w2 \in 0..7,
         getAddr("Data", s1, b1, w1) = getAddr("Data", s2, b2, w2)
  PROVE  s1 = s2 /\ b1 = b2 /\ w1 = w2
BY DEF getAddr

\* A word w of block b, at byte 32 b + 4 w, decomposes in one way.
LEMMA Decompose ==
  ASSUME NEW x \in Nat, NEW b \in Nat, NEW w \in 0..7, x = 32 * b + 4 * w
  PROVE  x \div 32 = b /\ (x % 32) \div 4 = w
OBVIOUS

LEMMA Aligned ==
  ASSUME NEW x \in Nat, x % 4 = 0
  PROVE  /\ x = 32 * (x \div 32) + 4 * ((x % 32) \div 4)
         /\ x \div 32 \in Nat /\ (x % 32) \div 4 \in 0..7
         /\ x = 4 * (x \div 4) /\ x \div 4 \in Nat
OBVIOUS

-----------------------------------------------------------------------------
(* The loop invariant: block and word are where offset + index says, so    *)
(* that the address of a command is computed from the position in the      *)
(* buffer although the code keeps three counters.                          *)

Counters ==
  pc = "loop" => /\ len % 4 = 0 /\ index % 4 = 0 /\ index <= len
                 /\ offset + index = 32 * block + 4 * word

\* In the loop nothing is stored at or beyond index.
Frontier == pc = "loop" => \A s \in written : s[2] * 4 < index

\* The extra bytes follow the data, UserExtra first.
Tail ==
  /\ pc \in {"extra", "extraAdd"} => index = len
  /\ pc = "extraAdd" => 84 \in extras

IInv == TypeOK /\ Counters /\ Frontier /\ Tail /\ RightPlace /\ PrefixStored /\ AllOrError

\* Where the code's counters send word i of the current command.
LEMMA HomeOfStore ==
  ASSUME TypeOK, Counters, pc = "loop", NEW i \in Nat, word + i \in 0..7
  PROVE  /\ Home(index \div 4 + i) = getAddr(zone, slot, block, word + i)
         /\ index \div 4 + i \in Nat
<1> DEFINE b == offset + (index \div 4 + i) * 4
<1>1. index = 4 * (index \div 4) /\ index \div 4 \in Nat
  BY Aligned DEF Counters, TypeOK
<1>2. b = 32 * block + 4 * (word + i) /\ b \in Nat
  BY <1>1 DEF Counters, TypeOK
<1>3. b \div 32 = block /\ (b % 32) \div 4 = word + i
  BY <1>2, Decompose DEF Counters, TypeOK
<1> QED BY <1>1, <1>3 DEF Home, atcaWordSize, atcaBlockSize

\* The stores of a command are in place when none of them is the lock word.
LEMMA StoresInPlace ==
  ASSUME TypeOK, Counters, pc = "loop", NEW count \in {1, 8},
         word + count <= 8, index + 4 * count <= len,
         \A i \in 0..(count - 1) : ~IsLockWord(index \div 4 + i),
         NEW s \in Stores(count)
  PROVE  s[2] \in Words /\ s[1] = Home(s[2]) /\ ~IsLockWord(s[2])
<1>1. PICK i \in 0..(count - 1) :
        s = <<getAddr(zone, slot, block, word + i), index \div 4 + i>>
  BY DEF Stores, atcaWordSize
<1>2. word + i \in 0..7 /\ i \in Nat
  BY DEF Counters, TypeOK
<1>3. s[1] = Home(index \div 4 + i) /\ s[2] = index \div 4 + i
  BY <1>1, <1>2, HomeOfStore
<1>4. index = 4 * (index \div 4) /\ index \div 4 \in Nat
  BY Aligned DEF Counters, TypeOK
<1>5. index \div 4 + i \in Words
  BY <1>4 DEF Words, Counters, TypeOK, atcaWordSize
<1> QED BY <1>3, <1>5

\* The code's test for the lock word finds it, for both sizes of command.
LEMMA NoLockWord ==
  ASSUME TypeOK, Counters, pc = "loop", NEW count \in {1, 8},
         count = 8 => word = 0 /\ ~inLockBlock,
         count = 1 => ~inLockWord
  PROVE  \A i \in 0..(count - 1) : ~IsLockWord(index \div 4 + i)
<1> SUFFICES ASSUME NEW i \in 0..(count - 1), zone = "Config",
                    Home(index \div 4 + i) = LockAddr
             PROVE  FALSE
  BY DEF IsLockWord
<1>1. word + i \in 0..7 /\ i \in Nat
  BY DEF TypeOK
<1>2. block * 8 + (word + i) = 21
  BY <1>1, HomeOfStore DEF LockAddr, getAddr, LockOffsetBlock, LockOffsetWord, TypeOK
<1>3. block = 2 /\ word + i = 5
  BY <1>1, <1>2 DEF TypeOK
<1> QED BY <1>3 DEF inLockBlock, inLockWord, LockOffsetBlock, LockOffsetWord, TypeOK

-----------------------------------------------------------------------------
(* The steps.                                                              *)

\* A call that is refused, or writes nothing, ends; another one starts the
\* loop at the position of its offset.
LEMMA EnterStep ==
  ASSUME NEW c \in BOOLEAN, NEW z \in ZoneNames, NEW s \in Nat, NEW o \in 0..255,
         NEW n \in Nat, c => n > 0, Enter(c, z, s, o, n)
  PROVE  IInv'
<1>1. /\ o \div 32 \in Nat /\ (o % 32) \div 4 \in 0..7
      /\ o % 4 = 0 => o = 32 * (o \div 32) + 4 * ((o % 32) \div 4)
  OBVIOUS
<1>2. TypeOK'
  BY <1>1 DEF Enter, TypeOK, atcaBlockSize, atcaWordSize
<1>3. Counters'
  BY <1>1 DEF Enter, Counters, Valid, atcaBlockSize, atcaWordSize
<1>4. written' = {} /\ extras' = {} /\ index' = 0 /\ len' = n
  BY DEF Enter
<1>4a. Tail'
  BY DEF Enter, Tail
<1>5. Frontier' /\ RightPlace' /\ PrefixStored'
  BY <1>4 DEF Frontier, RightPlace, PrefixStored, Words, atcaWordSize
<1>6. result' = "ok" => n = 0
  BY DEF Enter
<1>7. config' = c
  BY Zenon DEF Enter
<1>8. AllOrError'
  BY <1>4, <1>6, <1>7 DEF AllOrError
<1> QED BY <1>2, <1>3, <1>4a, <1>5, <1>8 DEF IInv

\* One command succeeds: its stores are in place, and reach up to the new index.
LEMMA StoreStep ==
  ASSUME IInv, pc = "loop", NEW count \in {1, 8},
         count = 8 => word = 0 /\ ~inLockBlock,
         count = 1 => ~inLockWord,
         index + 4 * count <= len,
         NEW stored \in {written, written \cup Stores(count)}
  PROVE  /\ \A s \in stored : s[1] \in Nat /\ s[2] \in Nat
         /\ \A s \in stored : s[2] \in Words /\ s[1] = Home(s[2]) /\ ~IsLockWord(s[2])
         /\ \A s \in stored : s[2] * 4 < index + 4 * count
         /\ stored = written \cup Stores(count) =>
              \A k \in Words : k * 4 < index + 4 * count /\ ~IsLockWord(k) => <<Home(k), k>> \in stored
<1>0. TypeOK /\ Counters
  BY DEF IInv
<1>1. word + count <= 8
  BY <1>0 DEF TypeOK
<1>2. \A i \in 0..(count - 1) : ~IsLockWord(index \div 4 + i)
  BY <1>0, NoLockWord
<1>3. index = 4 * (index \div 4) /\ index \div 4 \in Nat
  BY <1>0, Aligned DEF TypeOK, Counters
<1>4. ASSUME NEW s \in Stores(count)
      PROVE  /\ s[1] \in Nat /\ s[2] \in Nat
             /\ s[2] \in Words /\ s[1] = Home(s[2]) /\ ~IsLockWord(s[2])
             /\ s[2] * 4 < index + 4 * count
  <2>1. s[2] \in Words /\ s[1] = Home(s[2]) /\ ~IsLockWord(s[2])
    BY <1>0, <1>1, <1>2, StoresInPlace
  <2>2. PICK i \in 0..(count - 1) :
          s = <<getAddr(zone, slot, block, word + i), index \div 4 + i>>
    BY DEF Stores, atcaWordSize
  <2>3. getAddr(zone, slot, block, word + i) \in Nat
    BY <1>0 DEF getAddr, TypeOK
  <2> QED BY <1>3, <2>1, <2>2, <2>3
<1>5. \A s \in written : /\ s[1] \in Nat /\ s[2] \in Nat
                         /\ s[2] \in Words /\ s[1] = Home(s[2]) /\ ~IsLockWord(s[2])
                         /\ s[2] * 4 < index
  BY DEF IInv, TypeOK, RightPlace, Frontier
<1>6. \A s \in written : s[2] * 4 < index + 4 * count
  BY <1>0, <1>5 DEF TypeOK
<1>7. ASSUME NEW k \in Words, k * 4 < index + 4 * count, ~IsLockWord(k)
      PROVE  <<Home(k), k>> \in written \cup Stores(count)
  <2>0. k \in Nat
    BY DEF Words
  <2>1. CASE k * 4 < index
    BY <1>7, <2>1 DEF IInv, PrefixStored, atcaWordSize
  <2>2. CASE ~(k * 4 < index)
    <3>1. PICK i \in 0..(count - 1) : k = index \div 4 + i
      <4>1. k - index \div 4 \in 0..(count - 1)
        BY <1>3, <1>7, <2>0, <2>2
      <4> QED BY <1>3, <2>0, <4>1
    <3>2. Home(k) = getAddr(zone, slot, block, word + i)
      <4>1. word + i \in 0..7 /\ i \in Nat
        BY <1>0, <1>1 DEF TypeOK
      <4> QED BY <1>0, <3>1, <4>1, HomeOfStore
    <3> QED BY <3>1, <3>2 DEF Stores, atcaWordSize
  <2> QED BY <2>1, <2>2
<1> QED BY <1>4, <1>5, <1>6, <1>7

LEMMA InvStep ==
  ASSUME IInv, [Next]_vars
  PROVE  IInv'
<1>0. TypeOK /\ Counters /\ Frontier /\ Tail /\ RightPlace /\ PrefixStored /\ AllOrError
  BY DEF IInv
<1>0a. pc = "loop" => index = 4 * (index \div 4) /\ index \div 4 \in Nat
  BY <1>0, Aligned DEF TypeOK, Counters
<1> USE DEF atcaWordSize, atcaBlockSize
<1>1. ASSUME NEW z \in ZoneNames, NEW s \in Slots, NEW o \in Offsets, NEW n \in Lengths,
             WriteBytes(z, s, o, n)
      PROVE  IInv'
  <2>1. s \in Nat /\ o \in 0..255 /\ n \in Nat /\ FALSE \in BOOLEAN /\ Enter(FALSE, z, s, o, n)
    BY <1>1, ArgumentsAssumption DEF WriteBytes
  <2> QED BY <2>1, EnterStep
<1>2. CASE WriteConfig
  <2>1. ASSUME NEW c \in BOOLEAN, Enter(c, "Config", 0, 16, 112) PROVE IInv'
    <3>1. "Config" \in ZoneNames /\ 0 \in Nat /\ 16 \in 0..255 /\ 112 \in Nat /\ 112 > 0
      BY DEF ZoneNames
    <3> QED BY <2>1, <3>1, EnterStep
  <2>2. TRUE \in BOOLEAN /\ Enter(TRUE, "Config", 0, 16, 112)
    BY <1>2, Zenon DEF WriteConfig
  <2> QED BY <2>1, <2>2, Zenon
<1>3. CASE WriteBlock
  <2>1. /\ pc = "loop" /\ word = 0 /\ ~inLockBlock /\ index + 32 <= len
        /\ pc' = pc /\ UNCHANGED <<args, word, extras, result>>
        /\ index' = index + 32 /\ block' = block + 1
        /\ written' = written \cup Stores(8)
    BY <1>0, <1>3 DEF WriteBlock, writeBlock, TypeOK
  <2>2. /\ \A s \in written' : s[1] \in Nat /\ s[2] \in Nat
        /\ \A s \in written' : s[2] \in Words /\ s[1] = Home(s[2]) /\ ~IsLockWord(s[2])
        /\ \A s \in written' : s[2] * 4 < index + 32
        /\ \A k \in Words : k * 4 < index + 32 /\ ~IsLockWord(k) => <<Home(k), k>> \in written'
    <3>1. index + 4 * 8 <= len /\ 8 \in {1, 8} /\ 4 * 8 = 32
      BY <2>1
    <3>2. written' \in {written, written \cup Stores(8)}
      BY <2>1
    <3> HIDE DEF atcaWordSize, atcaBlockSize
    <3> QED BY <2>1, <3>1, <3>2, StoreStep
  <2>3. UNCHANGED <<config, zone, slot, offset, len>>
    BY <2>1 DEF args
  <2>4. Words' = Words /\ (\A k : Home(k)' = Home(k) /\ (IsLockWord(k)' <=> IsLockWord(k)))
    BY <2>3 DEF Words, Home, IsLockWord, LockAddr
  <2>5a. TypeOK'
    BY <1>0, <2>1, <2>2, <2>3 DEF TypeOK
  <2>5. Counters'
    <3>1. offset + index = 32 * block + 4 * word /\ len % 4 = 0 /\ index % 4 = 0
      BY <1>0, <2>1 DEF Counters
    <3>2. offset \in Nat /\ index \in Nat /\ block \in Nat /\ word = 0 /\ len \in Nat
      BY <1>0, <2>1 DEF TypeOK
    <3>3. (index + 32) % 4 = 0 /\ offset + (index + 32) = 32 * (block + 1) + 4 * word
      BY <3>1, <3>2
    <3> QED BY <2>1, <2>3, <3>1, <3>3 DEF Counters
  <2>6. Frontier' /\ RightPlace'
    BY <2>1, <2>2, <2>4 DEF Frontier, RightPlace
  <2>7. PrefixStored'
    <3>1. \A s \in written' : s[2] * 4 < index' + 32
      BY <1>0, <2>1, <2>2 DEF TypeOK
    <3> QED BY <2>1, <2>2, <2>4, <3>1 DEF PrefixStored
  <2>8. AllOrError'
    BY <1>0, <2>1, <2>3 DEF AllOrError, TypeOK
  <2> QED BY <2>1, <2>5, <2>5a, <2>6, <2>7, <2>8 DEF IInv, Tail
<1>4. ASSUME pc = "loop", Advance, UNCHANGED <<pc, args, extras, result>>, index < len
      PROVE  /\ Counters' /\ AllOrError' /\ index' = index + 4 /\ index' <= len
             /\ block' \in Nat /\ word' \in 0..7
             /\ UNCHANGED <<config, zone, slot, offset, len>>
             /\ Words' = Words
             /\ \A k : Home(k)' = Home(k) /\ (IsLockWord(k)' <=> IsLockWord(k))
  <2>1. offset + index = 32 * block + 4 * word /\ len % 4 = 0 /\ index % 4 = 0
    BY <1>0, <1>4 DEF Counters
  <2>2. offset \in Nat /\ index \in Nat /\ block \in Nat /\ word \in 0..7 /\ len \in Nat
    BY <1>0 DEF TypeOK
  <2>3. index' = index + 4 /\ (index + 4) % 4 = 0 /\ index + 4 <= len
    BY <1>4, <2>1, <2>2 DEF Advance
  <2>4. block' \in Nat /\ word' \in 0..7 /\ offset + (index + 4) = 32 * block' + 4 * word'
    BY <1>4, <2>1, <2>2 DEF Advance
  <2>5. UNCHANGED <<config, zone, slot, offset, len>>
    BY <1>4 DEF args
  <2>6. Counters'
    BY <2>1, <2>3, <2>4, <2>5 DEF Counters
  <2>7. AllOrError'
    BY <1>0, <1>4, <2>2, <2>3, <2>5 DEF AllOrError
  <2>8. Words' = Words /\ (\A k : Home(k)' = Home(k) /\ (IsLockWord(k)' <=> IsLockWord(k)))
    BY <2>5 DEF Words, Home, IsLockWord, LockAddr
  <2> QED BY <2>3, <2>4, <2>5, <2>6, <2>7, <2>8
<1>5. CASE WriteWord
  <2>1. /\ pc = "loop" /\ index < len /\ ~inLockWord /\ Advance
        /\ UNCHANGED <<pc, args, extras, result>>
        /\ written' = written \cup Stores(1)
    BY <1>5 DEF WriteWord
  <2>2. index + 4 <= len
    BY <1>4, <2>1
  <2>3. /\ \A s \in written' : s[1] \in Nat /\ s[2] \in Nat
        /\ \A s \in written' : s[2] \in Words /\ s[1] = Home(s[2]) /\ ~IsLockWord(s[2])
        /\ \A s \in written' : s[2] * 4 < index + 4
        /\ \A k \in Words : k * 4 < index + 4 /\ ~IsLockWord(k) => <<Home(k), k>> \in written'
    <3>1. index + 4 * 1 <= len /\ 1 \in {1, 8} /\ 4 * 1 = 4
      BY <2>2
    <3>2. written' \in {written, written \cup Stores(1)}
      BY <2>1
    <3> HIDE DEF atcaWordSize, atcaBlockSize
    <3> QED BY <2>1, <3>1, <3>2, StoreStep
  <2>4. TypeOK'
    BY <1>0, <1>4, <2>1, <2>3 DEF TypeOK
  <2>5. Frontier' /\ RightPlace'
    BY <1>4, <2>1, <2>3 DEF Frontier, RightPlace
  <2>6. PrefixStored'
    <3>1. \A s \in written' : s[2] * 4 < index' + 32
      BY <1>0, <1>4, <2>1, <2>3 DEF TypeOK
    <3> QED BY <1>4, <2>1, <2>3, <3>1 DEF PrefixStored
  <2> QED BY <1>4, <2>1, <2>4, <2>5, <2>6 DEF IInv, Tail
<1>6. CASE SkipLockWord
  <2>1. /\ pc = "loop" /\ index < len /\ inLockWord /\ Advance
        /\ UNCHANGED <<pc, args, extras, result>> /\ written' = written
    BY <1>6 DEF SkipLockWord
  <2>2. TypeOK'
    BY <1>0, <1>4, <2>1 DEF TypeOK
  <2>3. Frontier' /\ RightPlace'
    BY <1>0, <1>4, <2>1 DEF Frontier, RightPlace, TypeOK
  <2>4. IsLockWord(index \div 4)
    <3>1. Home(index \div 4 + 0) = getAddr(zone, slot, block, word + 0) /\ word \in 0..7
      <4>1. word + 0 \in 0..7 /\ 0 \in Nat
        BY <1>0 DEF TypeOK
      <4> QED BY <1>0, <2>1, <4>1, HomeOfStore DEF TypeOK
    <3>2. Home(index \div 4) = getAddr(zone, slot, block, word)
      BY <1>0a, <2>1, <3>1
    <3>3. zone = "Config" /\ block = LockOffsetBlock /\ word = LockOffsetWord
      BY <2>1 DEF inLockWord, inLockBlock
    <3> QED BY <3>2, <3>3 DEF IsLockWord, LockAddr, getAddr
  <2>5. \A k \in Words : k * 4 < index + 4 /\ ~IsLockWord(k) => k * 4 < index
    <3> SUFFICES ASSUME NEW k \in Words, k * 4 < index + 4, ~(k * 4 < index)
                 PROVE  IsLockWord(k)
      OBVIOUS
    <3>1. k \in Nat
      BY DEF Words
    <3>2. k = index \div 4
      BY <1>0a, <2>1, <3>1
    <3> QED BY <2>4, <3>2
  <2>6. PrefixStored'
    <3>1. \A s \in written' : s[2] * 4 < index' + 32
      BY <1>0, <1>4, <2>1 DEF TypeOK, PrefixStored
    <3> QED BY <1>0, <1>4, <2>1, <2>5, <3>1 DEF PrefixStored
  <2> QED BY <1>4, <2>1, <2>2, <2>3, <2>6 DEF IInv, Tail
<1>7. ASSUME NEW count \in {1, 8}, pc = "loop", index + 4 * count <= len, StoreFails(count),
             count = 8 => word = 0 /\ ~inLockBlock, count = 1 => ~inLockWord
      PROVE  IInv'
  <2>1. /\ pc' = "done" /\ result' = "error"
        /\ UNCHANGED <<config, zone, slot, offset, len, index, block, word, extras>>
        /\ written' \in {written, written \cup Stores(count)}
    BY <1>7 DEF StoreFails, Abandon, args
  <2>2. /\ \A s \in written' : s[1] \in Nat /\ s[2] \in Nat
        /\ \A s \in written' : s[2] \in Words /\ s[1] = Home(s[2]) /\ ~IsLockWord(s[2])
        /\ \A s \in written' : s[2] * 4 < index + 4 * count
    <3> HIDE DEF atcaWordSize, atcaBlockSize
    <3> QED BY <1>7, <2>1, StoreStep
  <2>3. Words' = Words /\ (\A k : Home(k)' = Home(k) /\ (IsLockWord(k)' <=> IsLockWord(k)))
    BY <2>1 DEF Words, Home, IsLockWord, LockAddr
  <2>4. TypeOK' /\ Counters' /\ Frontier'
    BY <1>0, <2>1, <2>2 DEF TypeOK, Counters, Frontier
  <2>5. RightPlace'
    BY <2>2, <2>3 DEF RightPlace
  <2>6. PrefixStored'
    <3>1. \A s \in written' : s[2] * 4 < index' + 32
      BY <1>0, <2>1, <2>2 DEF TypeOK
    <3> QED BY <1>0, <2>1, <2>3, <3>1 DEF PrefixStored
  <2>7. AllOrError'
    BY <1>0, <2>1 DEF AllOrError
  <2> QED BY <2>1, <2>4, <2>5, <2>6, <2>7 DEF IInv, Tail
<1>8. CASE WriteFails
  <2>1. pc = "loop" /\ index + 4 <= len
    <3>1. pc = "loop" /\ index < len
      BY <1>8 DEF WriteFails
    <3>2. len % 4 = 0 /\ index % 4 = 0 /\ len \in Nat /\ index \in Nat
      BY <1>0, <3>1 DEF Counters, TypeOK
    <3> QED BY <3>1, <3>2
  <2>2. CASE writeBlock /\ StoreFails(8)
    <3>1. word = 0 /\ ~inLockBlock /\ index + 4 * 8 <= len
      BY <1>0, <2>2 DEF writeBlock, TypeOK
    <3> QED BY <1>7, <2>1, <2>2, <3>1
  <2>3. CASE ~inLockWord /\ StoreFails(1)
    BY <1>7, <2>1, <2>3
  <2> QED BY <1>8, <2>2, <2>3 DEF WriteFails
<1>9. ASSUME UNCHANGED <<args, index, block, word, written>>, TypeOK', AllOrError', Tail', pc' # "loop"
      PROVE  IInv'
  <2>1. UNCHANGED <<config, zone, slot, offset, len, index, written>>
    BY <1>9 DEF args
  <2>2. Words' = Words /\ (\A k : Home(k)' = Home(k) /\ (IsLockWord(k)' <=> IsLockWord(k)))
    BY <2>1 DEF Words, Home, IsLockWord, LockAddr
  <2>3. RightPlace' /\ PrefixStored'
    BY <1>0, <2>1, <2>2 DEF RightPlace, PrefixStored
  <2> QED BY <1>9, <2>3 DEF IInv, Counters, Frontier
<1>10. CASE LoopEnds
  <2>1. UNCHANGED <<args, index, block, word, written>> /\ UNCHANGED extras /\ index = len
    BY <1>0, <1>10 DEF LoopEnds, Counters, TypeOK
  <2>2. pc' \in {"extra", "done"} /\ result' \in {result, "ok"} /\ (result' = "ok" => result = "ok" \/ ~config)
    BY <1>10 DEF LoopEnds
  <2>3. TypeOK'
    BY <1>0, <2>1, <2>2 DEF TypeOK, args
  <2>4. AllOrError'
    BY <1>0, <2>1, <2>2 DEF AllOrError, args
  <2>5. Tail'
    BY <2>1, <2>2 DEF Tail, args
  <2> QED BY <1>9, <2>1, <2>2, <2>3, <2>4, <2>5
<1>11. CASE UpdateUserExtra \/ UpdateUserExtraAdd
  <2>1. /\ UNCHANGED <<args, index, block, word, written>>
        /\ UNCHANGED <<config, len>> /\ pc \in {"extra", "extraAdd"}
        /\ extras' \in {extras, extras \cup {84}, extras \cup {85}}
        /\ pc' \in {"extraAdd", "done"} /\ result' \in {"none", "ok", "error"}
    BY <1>11 DEF UpdateUserExtra, UpdateUserExtraAdd, UpdateExtra, Abandon, args
  <2>2. TypeOK'
    BY <1>0, <2>1 DEF TypeOK, args
  <2>3. Tail'
    BY <1>0, <1>11, <2>1 DEF UpdateUserExtra, UpdateUserExtraAdd, UpdateExtra, Abandon, Tail
  <2>4. result' = "ok" => extras' = {84, 85}
    <3>1. result' = "ok" => pc = "extraAdd" /\ extras' = extras \cup {85}
      BY <1>11 DEF UpdateUserExtra, UpdateUserExtraAdd, UpdateExtra, Abandon
    <3>2. pc = "extraAdd" => 84 \in extras
      BY <1>0 DEF Tail
    <3>3. extras \subseteq {84, 85}
      BY <1>0 DEF TypeOK
    <3>4. ASSUME result' = "ok" PROVE \A x : x \in extras' <=> x = 84 \/ x = 85
      <4>1. extras' = extras \cup {85} /\ 84 \in extras
        BY <3>1, <3>2, <3>4
      <4> QED BY <3>3, <4>1
    <3> QED BY <3>4
  <2>5. AllOrError'
    BY <1>0, <2>1, <2>4 DEF AllOrError, Tail
  <2> QED BY <1>9, <2>1, <2>2, <2>3, <2>5
<1>12. CASE Return
  <2>1. TypeOK'
    <3>1. config' \in BOOLEAN
      BY <1>12, Zenon DEF Return
    <3> QED BY <1>12, <3>1 DEF Return, TypeOK, ZoneNames
  <2> QED BY <1>12, <2>1 DEF Return, IInv, Counters, Frontier, Tail, RightPlace,
                             PrefixStored, AllOrError, Words
<1>13. CASE UNCHANGED vars
  <2>1. /\ UNCHANGED <<pc, config, zone, slot, offset, len, index, block, word, written, extras, result>>
    BY <1>13 DEF vars, args
  <2>2. TypeOK' /\ Counters' /\ Frontier' /\ Tail' /\ AllOrError'
    BY <1>0, <2>1 DEF TypeOK, Counters, Frontier, Tail, AllOrError
  <2>3. Words' = Words /\ (\A k : Home(k)' = Home(k) /\ (IsLockWord(k)' <=> IsLockWord(k)))
    BY <2>1 DEF Words, Home, IsLockWord, LockAddr
  <2>4. RightPlace' /\ PrefixStored'
    BY <1>0, <2>1, <2>3 DEF RightPlace, PrefixStored
  <2> QED BY <2>2, <2>4 DEF IInv
<1> QED BY <1>1, <1>2, <1>3, <1>5, <1>6, <1>8, <1>10, <1>11, <1>12, <1>13 DEF Next

LEMMA Invariance == Spec => []IInv
<1>1. ASSUME Init PROVE IInv
  <2>1. config \in BOOLEAN
    BY <1>1, Zenon DEF Init
  <2> QED BY <1>1, <2>1 DEF Init, IInv, TypeOK, ZoneNames, Counters, Frontier, Tail, RightPlace,
                            PrefixStored, AllOrError, Words, atcaWordSize
<1>2. IInv /\ [Next]_vars => IInv'
  BY InvStep
<1> QED BY <1>1, <1>2, PTL DEF Spec

-----------------------------------------------------------------------------

\* Every variable keeps its type.
THEOREM TypeCorrect == Spec => []TypeOK
<1>1. IInv => TypeOK
  BY DEF IInv
<1> QED BY <1>1, Invariance, PTL

\* No word is ever stored at the wrong address or on the lock bytes, for any
\* zone, slot, offset and length.
THEOREM RightPlaceAlways == Spec => []RightPlace
<1>1. IInv => RightPlace
  BY DEF IInv
<1> QED BY <1>1, Invariance, PTL

\* The count a failed call returns is the prefix it has stored.
THEOREM PrefixStoredAlways == Spec => []PrefixStored
<1>1. IInv => PrefixStored
  BY DEF IInv
<1> QED BY <1>1, Invariance, PTL

\* Success means that everything was stored, the extra bytes last.
THEOREM AllOrErrorAlways == Spec => []AllOrError
<1>1. IInv => AllOrError
  BY DEF IInv
<1> QED BY <1>1, Invariance, PTL
-----------------------------------------------------------------------------
(* A call ends.                                                            *)

\* What is left of the buffer, and of the call behind the loop.
Left == len - index
Stage ==
  CASE pc = "loop" -> 3
    [] pc = "extra" -> 2
    [] pc = "extraAdd" -> 1
    [] OTHER -> 0

\* What makes every write end (ZoneWrite!Ends), for every buffer: a round of
\* the loop, the skipped lock word included, or the call of updateExtra,
\* brings it closer to its end, and index does not run past the buffer.
THEOREM WritesRunOut ==
  Spec => /\ [](pc = "loop" => Left \in Nat)
          /\ [][Stage > 0 => Stage' < Stage \/ (Stage' = Stage /\ Left' < Left)]_vars
<1>1. IInv => (pc = "loop" => Left \in Nat)
  BY DEF IInv, TypeOK, Counters, Left
<1>2. ASSUME IInv, [Next]_vars
      PROVE  [Stage > 0 => Stage' < Stage \/ (Stage' = Stage /\ Left' < Left)]_vars
  <2> SUFFICES ASSUME Next, Stage > 0
               PROVE  Stage' < Stage \/ (Stage' = Stage /\ Left' < Left)
    BY <1>2
  <2> USE DEF Stage, Left
  <2>1. TypeOK
    BY <1>2 DEF IInv
  <2>2. /\ \A z \in ZoneNames, s \in Slots, o \in Offsets, n \in Lengths : ~WriteBytes(z, s, o, n)
        /\ ~WriteConfig /\ ~Return
    <3>1. pc # "ready" /\ pc # "done"
      OBVIOUS
    <3> QED BY <3>1, Zenon DEF WriteBytes, WriteConfig, Return
  <2>3. CASE WriteBlock
    BY <2>1, <2>3 DEF WriteBlock, TypeOK, args, atcaBlockSize
  <2>4. CASE WriteWord \/ SkipLockWord
    BY <2>1, <2>4 DEF WriteWord, SkipLockWord, Advance, TypeOK, args, atcaWordSize
  <2>5. CASE WriteFails
    BY <2>5 DEF WriteFails, StoreFails, Abandon
  <2>6. CASE LoopEnds
    BY <2>6 DEF LoopEnds
  <2>7. CASE UpdateUserExtra \/ UpdateUserExtraAdd
    BY <2>7 DEF UpdateUserExtra, UpdateUserExtraAdd, UpdateExtra, Abandon
  <2> QED BY <2>2, <2>3, <2>4, <2>5, <2>6, <2>7 DEF Next
<1> QED BY <1>1, <1>2, Invariance, PTL DEF Spec
=============================================================================
