----------------------------- MODULE WireProofs -----------------------------
(***************************************************************************)
(* Proofs about Wire, for any commands, answers and damage.                *)
(***************************************************************************)
EXTENDS Wire, SequenceTheorems, WellFoundedInduction, TLAPS

-----------------------------------------------------------------------------
(* One bit through the register.                                           *)

\* Registers that agree on their first k bits.
Agree(c, d, k) == \A i \in 1..k : c[i] = d[i]

LEMMA FlipBit == \A b, f \in Binary : Flip(b, f) \in Binary
BY DEF Flip, Binary

LEMMA CrcBitIs ==
  ASSUME NEW c \in Register, NEW x \in Binary
  PROVE  /\ crcBit(x)[c] \in Register
         /\ crcBit(x)[c][1] = Flip(c[16], x)
         /\ crcBit(x)[c][3] = Flip(c[2], Flip(c[16], x))
         /\ crcBit(x)[c][16] = Flip(c[15], Flip(c[16], x))
         /\ \A i \in {2} \cup 4..15 : crcBit(x)[c][i] = c[i - 1]
<1>1. \A i \in 1..16 : c[i] \in Binary
  BY DEF Register
<1>2. /\ Flip(c[16], x) \in Binary /\ Flip(c[2], Flip(c[16], x)) \in Binary
      /\ Flip(c[15], Flip(c[16], x)) \in Binary
  BY <1>1, FlipBit
<1>3. crcBit(x)[c] \in Register
  BY <1>1, <1>2 DEF crcBit, Register
<1>4. \A i \in {2} \cup 4..15 : crcBit(x)[c][i] = c[i - 1]
  BY <1>1 DEF crcBit
<1> QED BY <1>3, <1>4 DEF crcBit

LEMMA Unflip ==
  ASSUME NEW a \in Binary, NEW b \in Binary, NEW f \in Binary, Flip(a, f) = Flip(b, f)
  PROVE  a = b
BY DEF Flip, Binary

\* Back: the bit fed back is in the register, and one bit less is known.
LEMMA BitBack ==
  ASSUME NEW c \in Register, NEW d \in Register, NEW x \in Binary, NEW y \in Binary,
         NEW k \in 0..15, Agree(crcBit(x)[c], crcBit(y)[d], k + 1)
  PROVE  Agree(c, d, k) /\ Flip(c[16], x) = Flip(d[16], y)
<1> DEFINE f == Flip(c[16], x)
<1>1. \A i \in 1..16 : c[i] \in Binary /\ d[i] \in Binary
  BY DEF Register
<1>2. f = Flip(d[16], y) /\ f \in Binary
  <2>1. 1 \in 1..(k + 1)
    OBVIOUS
  <2>2. crcBit(x)[c][1] = crcBit(y)[d][1]
    BY <2>1 DEF Agree
  <2>3. crcBit(x)[c][1] = f /\ crcBit(y)[d][1] = Flip(d[16], y)
    BY CrcBitIs
  <2>4. c[16] \in Binary
    BY <1>1
  <2> QED BY <2>2, <2>3, <2>4, FlipBit
<1>3. ASSUME NEW i \in 1..k
      PROVE  c[i] = d[i]
  <2>1. i + 1 \in 1..(k + 1) /\ crcBit(x)[c][i + 1] = crcBit(y)[d][i + 1] /\ i \in 1..15
    BY DEF Agree
  <2>2. CASE i = 2 \/ i = 15
    BY <1>1, <1>2, <2>1, <2>2, CrcBitIs, Unflip
  <2>3. CASE i # 2 /\ i # 15
    <3>1. i + 1 \in {2} \cup 4..15 /\ (i + 1) - 1 = i
      BY <2>1, <2>3
    <3> QED BY <2>1, <3>1, CrcBitIs
  <2> QED BY <2>2, <2>3
<1> QED BY <1>2, <1>3 DEF Agree

\* Forward: the same bit fed back is the same bit of data, and gives the same.
LEMMA BitForward ==
  ASSUME NEW c \in Register, NEW x \in Binary, NEW y \in Binary, Flip(c[16], x) = Flip(c[16], y)
  PROVE  x = y
<1>1. c[16] \in Binary
  BY DEF Register
<1> QED BY <1>1 DEF Flip, Binary

LEMMA BitInjective ==
  ASSUME NEW c \in Register, NEW d \in Register, NEW x \in Binary, crcBit(x)[c] = crcBit(x)[d]
  PROVE  c = d
<1>1. Agree(c, d, 15) /\ Flip(c[16], x) = Flip(d[16], x)
  BY BitBack DEF Agree
<1>2. c[16] = d[16]
  BY <1>1, Unflip DEF Register
<1>3. \A i \in 1..16 : c[i] = d[i]
  BY <1>1, <1>2 DEF Agree
<1> QED BY <1>3 DEF Register

-----------------------------------------------------------------------------
(* One byte through the register.                                          *)

LEMMA BitsOfByte == \A b \in Byte, j \in 0..7 : Bit(b, j) \in Binary
<1> SUFFICES ASSUME NEW b \in Byte, NEW j \in 0..7
             PROVE  Bit(b, j) \in Binary
  OBVIOUS
<1>1. Weight[j + 1] \in {1, 2, 4, 8, 16, 32, 64, 128}
  BY DEF Weight
<1>2. b \div Weight[j + 1] \in Int
  BY <1>1 DEF Byte
<1> QED BY <1>2 DEF Bit, Binary

\* A byte is its bits.
LEMMA BitsAre ==
  ASSUME NEW b \in Byte
  PROVE  /\ Bit(b, 0) = b % 2 /\ Bit(b, 1) = (b \div 2) % 2 /\ Bit(b, 2) = (b \div 4) % 2
         /\ Bit(b, 3) = (b \div 8) % 2 /\ Bit(b, 4) = (b \div 16) % 2
         /\ Bit(b, 5) = (b \div 32) % 2 /\ Bit(b, 6) = (b \div 64) % 2
         /\ Bit(b, 7) = (b \div 128) % 2
BY DEF Bit, Weight, Byte

LEMMA ByteSum ==
  ASSUME NEW b \in Byte
  PROVE  b = Bit(b, 0) + 2 * Bit(b, 1) + 4 * Bit(b, 2) + 8 * Bit(b, 3) + 16 * Bit(b, 4)
             + 32 * Bit(b, 5) + 64 * Bit(b, 6) + 128 * Bit(b, 7)
BY BitsAre DEF Byte

LEMMA SameBits ==
  ASSUME NEW b \in Byte, NEW e \in Byte, \A j \in 0..7 : Bit(b, j) = Bit(e, j)
  PROVE  b = e
<1>1. /\ Bit(b, 0) = Bit(e, 0) /\ Bit(b, 1) = Bit(e, 1) /\ Bit(b, 2) = Bit(e, 2)
      /\ Bit(b, 3) = Bit(e, 3) /\ Bit(b, 4) = Bit(e, 4) /\ Bit(b, 5) = Bit(e, 5)
      /\ Bit(b, 6) = Bit(e, 6) /\ Bit(b, 7) = Bit(e, 7)
  OBVIOUS
<1> QED BY <1>1, ByteSum

\* The registers on the way through a byte.
Step(b, r, j) == r[j] \in Register /\ r[j + 1] = crcBit(Bit(b, j))[r[j]]
Steps(c, b, r) ==
  /\ r[0] = c /\ Step(b, r, 0) /\ Step(b, r, 1) /\ Step(b, r, 2) /\ Step(b, r, 3)
  /\ Step(b, r, 4) /\ Step(b, r, 5) /\ Step(b, r, 6) /\ Step(b, r, 7) /\ r[8] \in Register

LEMMA ByteSteps ==
  ASSUME NEW c \in Register, NEW b \in Byte
  PROVE  /\ crcByte(b)[c] \in Register
         /\ \E r : Steps(c, b, r) /\ r[8] = crcByte(b)[c]
<1> DEFINE c1 == crcBit(Bit(b, 0))[c]
           c2 == crcBit(Bit(b, 1))[c1]
           c3 == crcBit(Bit(b, 2))[c2]
           c4 == crcBit(Bit(b, 3))[c3]
           c5 == crcBit(Bit(b, 4))[c4]
           c6 == crcBit(Bit(b, 5))[c5]
           c7 == crcBit(Bit(b, 6))[c6]
           c8 == crcBit(Bit(b, 7))[c7]
           r == [j \in 0..8 |-> CASE j = 0 -> c [] j = 1 -> c1 [] j = 2 -> c2 [] j = 3 -> c3
                                  [] j = 4 -> c4 [] j = 5 -> c5 [] j = 6 -> c6 [] j = 7 -> c7
                                  [] j = 8 -> c8]
<1>1. /\ Bit(b, 0) \in Binary /\ Bit(b, 1) \in Binary /\ Bit(b, 2) \in Binary
      /\ Bit(b, 3) \in Binary /\ Bit(b, 4) \in Binary /\ Bit(b, 5) \in Binary
      /\ Bit(b, 6) \in Binary /\ Bit(b, 7) \in Binary
  BY BitsOfByte
<1>2. \A x \in Binary, d \in Register : crcBit(x)[d] \in Register
  BY SMTT(30), CrcBitIs
<1>3. crcByte(b)[c] = c8
  BY Zenon DEF crcByte
<1>4. /\ c1 = crcBit(Bit(b, 0))[c] /\ c2 = crcBit(Bit(b, 1))[c1] /\ c3 = crcBit(Bit(b, 2))[c2]
      /\ c4 = crcBit(Bit(b, 3))[c3] /\ c5 = crcBit(Bit(b, 4))[c4] /\ c6 = crcBit(Bit(b, 5))[c5]
      /\ c7 = crcBit(Bit(b, 6))[c6] /\ c8 = crcBit(Bit(b, 7))[c7]
  OBVIOUS
<1> HIDE DEF c1, c2, c3, c4, c5, c6, c7, c8
<1>5. c1 \in Register /\ c2 \in Register
  BY Zenon, <1>1, <1>2, <1>4
<1>6. c3 \in Register /\ c4 \in Register
  BY Zenon, <1>1, <1>2, <1>4, <1>5
<1>7. c5 \in Register /\ c6 \in Register
  BY Zenon, <1>1, <1>2, <1>4, <1>6
<1>8. c7 \in Register /\ c8 \in Register
  BY Zenon, <1>1, <1>2, <1>4, <1>7
<1>9. /\ r[0] = c /\ r[1] = c1 /\ r[2] = c2 /\ r[3] = c3 /\ r[4] = c4 /\ r[5] = c5
      /\ r[6] = c6 /\ r[7] = c7 /\ r[8] = c8
  OBVIOUS
<1> HIDE DEF r
<1>10. /\ 0 + 1 = 1 /\ 1 + 1 = 2 /\ 2 + 1 = 3 /\ 3 + 1 = 4
       /\ 4 + 1 = 5 /\ 5 + 1 = 6 /\ 6 + 1 = 7 /\ 7 + 1 = 8
  OBVIOUS
<1>11. Steps(c, b, r)
  BY Zenon, <1>4, <1>5, <1>6, <1>7, <1>8, <1>9, <1>10 DEF Steps, Step
<1> QED BY <1>3, <1>8, <1>9, <1>11

\* What is fed back at a step.
Fed(b, r, j) == Flip(r[j][16], Bit(b, j))

LEMMA StepBack ==
  ASSUME NEW b \in Byte, NEW e \in Byte, NEW r, NEW s, NEW j \in 0..7, NEW k \in 0..15,
         Step(b, r, j), Step(e, s, j), Agree(r[j + 1], s[j + 1], k + 1)
  PROVE  Agree(r[j], s[j], k) /\ Fed(b, r, j) = Fed(e, s, j)
<1>1. Bit(b, j) \in Binary /\ Bit(e, j) \in Binary
  BY BitsOfByte
<1>2. r[j] \in Register /\ s[j] \in Register
  BY DEF Step
<1>3. Agree(crcBit(Bit(b, j))[r[j]], crcBit(Bit(e, j))[s[j]], k + 1)
  BY Zenon DEF Step
<1> QED BY <1>1, <1>2, <1>3, BitBack DEF Fed

LEMMA StepForward ==
  ASSUME NEW b \in Byte, NEW e \in Byte, NEW r, NEW s, NEW j \in 0..7,
         Step(b, r, j), Step(e, s, j), r[j] = s[j], Fed(b, r, j) = Fed(e, s, j)
  PROVE  Bit(b, j) = Bit(e, j) /\ r[j + 1] = s[j + 1]
<1>1. Bit(b, j) \in Binary /\ Bit(e, j) \in Binary
  BY BitsOfByte
<1>2. Bit(b, j) = Bit(e, j)
  BY Zenon, <1>1, BitForward DEF Step, Fed
<1> QED BY Zenon, <1>2 DEF Step

LEMMA StepInjective ==
  ASSUME NEW b \in Byte, NEW r, NEW s, NEW j \in 0..7,
         Step(b, r, j), Step(b, s, j), r[j + 1] = s[j + 1]
  PROVE  r[j] = s[j]
<1>1. Bit(b, j) \in Binary
  BY BitsOfByte
<1>2. r[j] \in Register /\ s[j] \in Register
  BY DEF Step
<1>3. crcBit(Bit(b, j))[r[j]] = crcBit(Bit(b, j))[s[j]]
  BY Zenon DEF Step
<1> QED BY <1>1, <1>2, <1>3, BitInjective

SameFed(b, r, e, s) ==
  /\ Fed(b, r, 0) = Fed(e, s, 0) /\ Fed(b, r, 1) = Fed(e, s, 1)
  /\ Fed(b, r, 2) = Fed(e, s, 2) /\ Fed(b, r, 3) = Fed(e, s, 3)
  /\ Fed(b, r, 4) = Fed(e, s, 4) /\ Fed(b, r, 5) = Fed(e, s, 5)
  /\ Fed(b, r, 6) = Fed(e, s, 6) /\ Fed(b, r, 7) = Fed(e, s, 7)

LEMMA StepsBack ==
  ASSUME NEW c, NEW d, NEW b \in Byte, NEW e \in Byte, NEW r, NEW s, NEW k \in 0..8,
         Steps(c, b, r), Steps(d, e, s), Agree(r[8], s[8], k + 8)
  PROVE  Agree(c, d, k) /\ SameFed(b, r, e, s)
<1>1. Agree(r[7], s[7], k + 7) /\ Fed(b, r, 7) = Fed(e, s, 7)
  <2>1. 7 \in 0..7 /\ 7 + 1 = 8 /\ k + 7 \in 0..15 /\ (k + 7) + 1 = k + 8
    OBVIOUS
  <2>2. Agree(r[7 + 1], s[7 + 1], (k + 7) + 1)
    BY Zenon, <2>1
  <2> QED BY <2>1, <2>2, StepBack DEF Steps
<1>2. Agree(r[6], s[6], k + 6) /\ Fed(b, r, 6) = Fed(e, s, 6)
  <2>1. 6 \in 0..7 /\ 6 + 1 = 7 /\ k + 6 \in 0..15 /\ (k + 6) + 1 = k + 7
    OBVIOUS
  <2>2. Agree(r[6 + 1], s[6 + 1], (k + 6) + 1)
    BY Zenon, <2>1, <1>1
  <2> QED BY <2>1, <2>2, StepBack DEF Steps
<1>3. Agree(r[5], s[5], k + 5) /\ Fed(b, r, 5) = Fed(e, s, 5)
  <2>1. 5 \in 0..7 /\ 5 + 1 = 6 /\ k + 5 \in 0..15 /\ (k + 5) + 1 = k + 6
    OBVIOUS
  <2>2. Agree(r[5 + 1], s[5 + 1], (k + 5) + 1)
    BY Zenon, <2>1, <1>2
  <2> QED BY <2>1, <2>2, StepBack DEF Steps
<1>4. Agree(r[4], s[4], k + 4) /\ Fed(b, r, 4) = Fed(e, s, 4)
  <2>1. 4 \in 0..7 /\ 4 + 1 = 5 /\ k + 4 \in 0..15 /\ (k + 4) + 1 = k + 5
    OBVIOUS
  <2>2. Agree(r[4 + 1], s[4 + 1], (k + 4) + 1)
    BY Zenon, <2>1, <1>3
  <2> QED BY <2>1, <2>2, StepBack DEF Steps
<1>5. Agree(r[3], s[3], k + 3) /\ Fed(b, r, 3) = Fed(e, s, 3)
  <2>1. 3 \in 0..7 /\ 3 + 1 = 4 /\ k + 3 \in 0..15 /\ (k + 3) + 1 = k + 4
    OBVIOUS
  <2>2. Agree(r[3 + 1], s[3 + 1], (k + 3) + 1)
    BY Zenon, <2>1, <1>4
  <2> QED BY <2>1, <2>2, StepBack DEF Steps
<1>6. Agree(r[2], s[2], k + 2) /\ Fed(b, r, 2) = Fed(e, s, 2)
  <2>1. 2 \in 0..7 /\ 2 + 1 = 3 /\ k + 2 \in 0..15 /\ (k + 2) + 1 = k + 3
    OBVIOUS
  <2>2. Agree(r[2 + 1], s[2 + 1], (k + 2) + 1)
    BY Zenon, <2>1, <1>5
  <2> QED BY <2>1, <2>2, StepBack DEF Steps
<1>7. Agree(r[1], s[1], k + 1) /\ Fed(b, r, 1) = Fed(e, s, 1)
  <2>1. 1 \in 0..7 /\ 1 + 1 = 2 /\ k + 1 \in 0..15 /\ (k + 1) + 1 = k + 2
    OBVIOUS
  <2>2. Agree(r[1 + 1], s[1 + 1], (k + 1) + 1)
    BY Zenon, <2>1, <1>6
  <2> QED BY <2>1, <2>2, StepBack DEF Steps
<1>8. Agree(r[0], s[0], k + 0) /\ Fed(b, r, 0) = Fed(e, s, 0)
  <2>1. 0 \in 0..7 /\ 0 + 1 = 1 /\ k + 0 \in 0..15 /\ (k + 0) + 1 = k + 1
    OBVIOUS
  <2>2. Agree(r[0 + 1], s[0 + 1], (k + 0) + 1)
    BY Zenon, <2>1, <1>7
  <2> QED BY <2>1, <2>2, StepBack DEF Steps
<1>9. k + 0 = k
  OBVIOUS
<1>10. Agree(c, d, k)
  BY Zenon, <1>8, <1>9 DEF Steps
<1> QED BY Zenon, <1>1, <1>2, <1>3, <1>4, <1>5, <1>6, <1>7, <1>8, <1>10 DEF SameFed

\* The first byte that differs is in the last 8 bits of the register.
LEMMA SameByte ==
  ASSUME NEW c \in Register, NEW b \in Byte, NEW e \in Byte,
         Agree(crcByte(b)[c], crcByte(e)[c], 8)
  PROVE  b = e
<1>1. PICK r : Steps(c, b, r) /\ r[8] = crcByte(b)[c]
  BY ByteSteps
<1>2. PICK s : Steps(c, e, s) /\ s[8] = crcByte(e)[c]
  BY ByteSteps
<1>. PICK k \in 0..8 : k = 0
  OBVIOUS
<1>3. Agree(r[8], s[8], k + 8)
  <2>1. k + 8 = 8
    OBVIOUS
  <2> QED BY Zenon, <1>1, <1>2, <2>1
<1>4. SameFed(b, r, e, s)
  BY Zenon, <1>1, <1>2, <1>3, StepsBack
<1>5. r[0] = s[0]
  BY Zenon, <1>1, <1>2 DEF Steps
<1>6. Bit(b, 0) = Bit(e, 0) /\ r[1] = s[1]
  <2>1. 0 \in 0..7 /\ 0 + 1 = 1
    OBVIOUS
  <2>2. Step(b, r, 0) /\ Step(e, s, 0)
    BY Zenon, <1>1, <1>2 DEF Steps
  <2>3. Bit(b, 0) = Bit(e, 0) /\ r[0 + 1] = s[0 + 1]
    BY <1>4, <1>5, <2>1, <2>2, StepForward DEF SameFed
  <2> QED BY Zenon, <2>1, <2>3
<1>7. Bit(b, 1) = Bit(e, 1) /\ r[2] = s[2]
  <2>1. 1 \in 0..7 /\ 1 + 1 = 2
    OBVIOUS
  <2>2. Step(b, r, 1) /\ Step(e, s, 1)
    BY Zenon, <1>1, <1>2 DEF Steps
  <2>3. Bit(b, 1) = Bit(e, 1) /\ r[1 + 1] = s[1 + 1]
    BY <1>4, <1>6, <2>1, <2>2, StepForward DEF SameFed
  <2> QED BY Zenon, <2>1, <2>3
<1>8. Bit(b, 2) = Bit(e, 2) /\ r[3] = s[3]
  <2>1. 2 \in 0..7 /\ 2 + 1 = 3
    OBVIOUS
  <2>2. Step(b, r, 2) /\ Step(e, s, 2)
    BY Zenon, <1>1, <1>2 DEF Steps
  <2>3. Bit(b, 2) = Bit(e, 2) /\ r[2 + 1] = s[2 + 1]
    BY <1>4, <1>7, <2>1, <2>2, StepForward DEF SameFed
  <2> QED BY Zenon, <2>1, <2>3
<1>9. Bit(b, 3) = Bit(e, 3) /\ r[4] = s[4]
  <2>1. 3 \in 0..7 /\ 3 + 1 = 4
    OBVIOUS
  <2>2. Step(b, r, 3) /\ Step(e, s, 3)
    BY Zenon, <1>1, <1>2 DEF Steps
  <2>3. Bit(b, 3) = Bit(e, 3) /\ r[3 + 1] = s[3 + 1]
    BY <1>4, <1>8, <2>1, <2>2, StepForward DEF SameFed
  <2> QED BY Zenon, <2>1, <2>3
<1>10. Bit(b, 4) = Bit(e, 4) /\ r[5] = s[5]
  <2>1. 4 \in 0..7 /\ 4 + 1 = 5
    OBVIOUS
  <2>2. Step(b, r, 4) /\ Step(e, s, 4)
    BY Zenon, <1>1, <1>2 DEF Steps
  <2>3. Bit(b, 4) = Bit(e, 4) /\ r[4 + 1] = s[4 + 1]
    BY <1>4, <1>9, <2>1, <2>2, StepForward DEF SameFed
  <2> QED BY Zenon, <2>1, <2>3
<1>11. Bit(b, 5) = Bit(e, 5) /\ r[6] = s[6]
  <2>1. 5 \in 0..7 /\ 5 + 1 = 6
    OBVIOUS
  <2>2. Step(b, r, 5) /\ Step(e, s, 5)
    BY Zenon, <1>1, <1>2 DEF Steps
  <2>3. Bit(b, 5) = Bit(e, 5) /\ r[5 + 1] = s[5 + 1]
    BY <1>4, <1>10, <2>1, <2>2, StepForward DEF SameFed
  <2> QED BY Zenon, <2>1, <2>3
<1>12. Bit(b, 6) = Bit(e, 6) /\ r[7] = s[7]
  <2>1. 6 \in 0..7 /\ 6 + 1 = 7
    OBVIOUS
  <2>2. Step(b, r, 6) /\ Step(e, s, 6)
    BY Zenon, <1>1, <1>2 DEF Steps
  <2>3. Bit(b, 6) = Bit(e, 6) /\ r[6 + 1] = s[6 + 1]
    BY <1>4, <1>11, <2>1, <2>2, StepForward DEF SameFed
  <2> QED BY Zenon, <2>1, <2>3
<1>13. Bit(b, 7) = Bit(e, 7) /\ r[8] = s[8]
  <2>1. 7 \in 0..7 /\ 7 + 1 = 8
    OBVIOUS
  <2>2. Step(b, r, 7) /\ Step(e, s, 7)
    BY Zenon, <1>1, <1>2 DEF Steps
  <2>3. Bit(b, 7) = Bit(e, 7) /\ r[7 + 1] = s[7 + 1]
    BY <1>4, <1>12, <2>1, <2>2, StepForward DEF SameFed
  <2> QED BY Zenon, <2>1, <2>3
<1> QED BY <1>6, <1>7, <1>8, <1>9, <1>10, <1>11, <1>12, <1>13, SameBits

LEMMA ByteBack ==
  ASSUME NEW c \in Register, NEW d \in Register, NEW b \in Byte, NEW e \in Byte,
         NEW k \in 0..8, Agree(crcByte(b)[c], crcByte(e)[d], k + 8)
  PROVE  Agree(c, d, k)
<1>1. PICK r : Steps(c, b, r) /\ r[8] = crcByte(b)[c]
  BY ByteSteps
<1>2. PICK s : Steps(d, e, s) /\ s[8] = crcByte(e)[d]
  BY ByteSteps
<1> QED BY Zenon, <1>1, <1>2, StepsBack

LEMMA ByteInjective ==
  ASSUME NEW c \in Register, NEW d \in Register, NEW b \in Byte,
         crcByte(b)[c] = crcByte(b)[d]
  PROVE  c = d
<1>1. PICK r : Steps(c, b, r) /\ r[8] = crcByte(b)[c]
  BY ByteSteps
<1>2. PICK s : Steps(d, b, s) /\ s[8] = crcByte(b)[d]
  BY ByteSteps
<1>3. r[8] = s[8]
  BY <1>1, <1>2
<1>4. r[7] = s[7]
  <2>1. 7 \in 0..7 /\ 7 + 1 = 8
    OBVIOUS
  <2>2. Step(b, r, 7) /\ Step(b, s, 7)
    BY Zenon, <1>1, <1>2 DEF Steps
  <2> QED BY <1>3, <2>1, <2>2, StepInjective
<1>5. r[6] = s[6]
  <2>1. 6 \in 0..7 /\ 6 + 1 = 7
    OBVIOUS
  <2>2. Step(b, r, 6) /\ Step(b, s, 6)
    BY Zenon, <1>1, <1>2 DEF Steps
  <2> QED BY <1>4, <2>1, <2>2, StepInjective
<1>6. r[5] = s[5]
  <2>1. 5 \in 0..7 /\ 5 + 1 = 6
    OBVIOUS
  <2>2. Step(b, r, 5) /\ Step(b, s, 5)
    BY Zenon, <1>1, <1>2 DEF Steps
  <2> QED BY <1>5, <2>1, <2>2, StepInjective
<1>7. r[4] = s[4]
  <2>1. 4 \in 0..7 /\ 4 + 1 = 5
    OBVIOUS
  <2>2. Step(b, r, 4) /\ Step(b, s, 4)
    BY Zenon, <1>1, <1>2 DEF Steps
  <2> QED BY <1>6, <2>1, <2>2, StepInjective
<1>8. r[3] = s[3]
  <2>1. 3 \in 0..7 /\ 3 + 1 = 4
    OBVIOUS
  <2>2. Step(b, r, 3) /\ Step(b, s, 3)
    BY Zenon, <1>1, <1>2 DEF Steps
  <2> QED BY <1>7, <2>1, <2>2, StepInjective
<1>9. r[2] = s[2]
  <2>1. 2 \in 0..7 /\ 2 + 1 = 3
    OBVIOUS
  <2>2. Step(b, r, 2) /\ Step(b, s, 2)
    BY Zenon, <1>1, <1>2 DEF Steps
  <2> QED BY <1>8, <2>1, <2>2, StepInjective
<1>10. r[1] = s[1]
  <2>1. 1 \in 0..7 /\ 1 + 1 = 2
    OBVIOUS
  <2>2. Step(b, r, 1) /\ Step(b, s, 1)
    BY Zenon, <1>1, <1>2 DEF Steps
  <2> QED BY <1>9, <2>1, <2>2, StepInjective
<1>11. r[0] = s[0]
  <2>1. 0 \in 0..7 /\ 0 + 1 = 1
    OBVIOUS
  <2>2. Step(b, r, 0) /\ Step(b, s, 0)
    BY Zenon, <1>1, <1>2 DEF Steps
  <2> QED BY <1>10, <2>1, <2>2, StepInjective
<1> QED BY Zenon, <1>1, <1>2, <1>11 DEF Steps

-----------------------------------------------------------------------------
(* The chip's register is the library's, turned round.                     *)

LEMMA TurnedIs ==
  ASSUME NEW c \in Register
  PROVE  Turned(c) \in Register /\ \A i \in 1..16 : Turned(c)[i] = c[17 - i]
<1>1. \A i \in 1..16 : c[i] \in Binary
  BY DEF Register
<1>2. Turned(c) \in Register
  BY <1>1 DEF Turned, Register
<1>3. \A i \in 1..16 : Turned(c)[i] = c[17 - i]
  BY <1>1 DEF Turned
<1> QED BY <1>2, <1>3

LEMMA SameRegister ==
  ASSUME NEW c \in Register, NEW d \in Register, \A i \in 1..16 : c[i] = d[i]
  PROVE  c = d
BY DEF Register

LEMMA TurnedBack == \A c \in Register : Turned(Turned(c)) = c
<1> SUFFICES ASSUME NEW c \in Register
             PROVE  Turned(Turned(c)) = c
  OBVIOUS
<1>1. Turned(c) \in Register /\ Turned(Turned(c)) \in Register
  BY TurnedIs
<1>2. ASSUME NEW i \in 1..16
      PROVE  Turned(Turned(c))[i] = c[i]
  <2>1. 17 - i \in 1..16 /\ 17 - (17 - i) = i
    OBVIOUS
  <2>2. Turned(Turned(c))[i] = Turned(c)[17 - i]
    BY <1>1, TurnedIs
  <2>3. Turned(c)[17 - i] = c[17 - (17 - i)]
    BY <2>1, TurnedIs
  <2> QED BY <2>1, <2>2, <2>3
<1> QED BY <1>1, <1>2, SameRegister

LEMMA ChipBitIs ==
  ASSUME NEW r \in Register, NEW x \in Binary
  PROVE  /\ ChipBit(x)[r] \in Register
         /\ ChipBit(x)[r][1] = Flip(r[2], Flip(r[1], x))
         /\ ChipBit(x)[r][14] = Flip(r[15], Flip(r[1], x))
         /\ ChipBit(x)[r][16] = Flip(r[1], x)
         /\ \A i \in {15} \cup 2..13 : ChipBit(x)[r][i] = r[i + 1]
<1>1. \A i \in 1..16 : r[i] \in Binary
  BY DEF Register
<1>2. /\ Flip(r[1], x) \in Binary /\ Flip(r[2], Flip(r[1], x)) \in Binary
      /\ Flip(r[15], Flip(r[1], x)) \in Binary
  BY <1>1, FlipBit
<1>3. ChipBit(x)[r] \in Register
  BY <1>1, <1>2 DEF ChipBit, Register
<1>4. \A i \in {15} \cup 2..13 : ChipBit(x)[r][i] = r[i + 1]
  BY <1>1 DEF ChipBit
<1> QED BY <1>3, <1>4 DEF ChipBit

LEMMA ChipBitTurned ==
  ASSUME NEW c \in Register, NEW x \in Binary
  PROVE  ChipBit(x)[Turned(c)] = Turned(crcBit(x)[c])
<1> DEFINE t == Turned(c)
           n == crcBit(x)[c]
<1>1. t \in Register /\ n \in Register /\ Turned(n) \in Register /\ ChipBit(x)[t] \in Register
  BY TurnedIs, CrcBitIs, ChipBitIs
<1>2. /\ t[1] = c[16] /\ t[2] = c[15] /\ t[15] = c[2]
      /\ \A i \in 1..16 : t[i] = c[17 - i] /\ Turned(n)[i] = n[17 - i]
  BY <1>1, TurnedIs
<1>3. ASSUME NEW i \in 1..16
      PROVE  ChipBit(x)[t][i] = Turned(n)[i]
  <2>1. CASE i = 1
    BY <1>1, <1>2, <2>1, ChipBitIs, CrcBitIs
  <2>2. CASE i = 14
    BY <1>1, <1>2, <2>2, ChipBitIs, CrcBitIs
  <2>3. CASE i = 16
    BY <1>1, <1>2, <2>3, ChipBitIs, CrcBitIs
  <2>4. CASE i \in {15} \cup 2..13
    <3>1. /\ i + 1 \in 1..16 /\ 17 - i \in {2} \cup 4..15 /\ 17 - (i + 1) = (17 - i) - 1
      BY <2>4
    <3>2. ChipBit(x)[t][i] = t[i + 1]
      BY <1>1, <2>4, ChipBitIs
    <3>3. t[i + 1] = c[17 - (i + 1)]
      BY <1>2, <3>1
    <3>4. n[17 - i] = c[(17 - i) - 1]
      BY <3>1, CrcBitIs
    <3> QED BY <1>2, <3>1, <3>2, <3>3, <3>4
  <2> QED BY <2>1, <2>2, <2>3, <2>4
<1> QED BY <1>1, <1>3, SameRegister

LEMMA TurnedBit ==
  ASSUME NEW d \in Register, NEW x \in Binary, NEW e, NEW r, NEW s,
         e = crcBit(x)[d], r = Turned(d), s = ChipBit(x)[r]
  PROVE  e \in Register /\ s = Turned(e)
BY CrcBitIs, ChipBitTurned

LEMMA ChipByteTurned ==
  ASSUME NEW c \in Register, NEW b \in Byte
  PROVE  ChipByte(b)[Turned(c)] = Turned(crcByte(b)[c])
<1> DEFINE c1 == crcBit(Bit(b, 0))[c]
           c2 == crcBit(Bit(b, 1))[c1]
           c3 == crcBit(Bit(b, 2))[c2]
           c4 == crcBit(Bit(b, 3))[c3]
           c5 == crcBit(Bit(b, 4))[c4]
           c6 == crcBit(Bit(b, 5))[c5]
           c7 == crcBit(Bit(b, 6))[c6]
           c8 == crcBit(Bit(b, 7))[c7]
           r1 == ChipBit(Bit(b, 0))[Turned(c)]
           r2 == ChipBit(Bit(b, 1))[r1]
           r3 == ChipBit(Bit(b, 2))[r2]
           r4 == ChipBit(Bit(b, 3))[r3]
           r5 == ChipBit(Bit(b, 4))[r4]
           r6 == ChipBit(Bit(b, 5))[r5]
           r7 == ChipBit(Bit(b, 6))[r6]
           r8 == ChipBit(Bit(b, 7))[r7]
<1>1. /\ Bit(b, 0) \in Binary /\ Bit(b, 1) \in Binary /\ Bit(b, 2) \in Binary
      /\ Bit(b, 3) \in Binary /\ Bit(b, 4) \in Binary /\ Bit(b, 5) \in Binary
      /\ Bit(b, 6) \in Binary /\ Bit(b, 7) \in Binary
  BY BitsOfByte
<1>2. crcByte(b)[c] = c8 /\ Turned(c) \in Register
  BY ZenonT(40), TurnedIs DEF crcByte
<1>3. ChipByte(b)[Turned(c)] = r8
  BY Zenon, <1>2 DEF ChipByte
<1>4. /\ c1 = crcBit(Bit(b, 0))[c] /\ c2 = crcBit(Bit(b, 1))[c1] /\ c3 = crcBit(Bit(b, 2))[c2]
      /\ c4 = crcBit(Bit(b, 3))[c3] /\ c5 = crcBit(Bit(b, 4))[c4] /\ c6 = crcBit(Bit(b, 5))[c5]
      /\ c7 = crcBit(Bit(b, 6))[c6] /\ c8 = crcBit(Bit(b, 7))[c7]
  OBVIOUS
<1>5. /\ r1 = ChipBit(Bit(b, 0))[Turned(c)] /\ r2 = ChipBit(Bit(b, 1))[r1]
      /\ r3 = ChipBit(Bit(b, 2))[r2] /\ r4 = ChipBit(Bit(b, 3))[r3]
      /\ r5 = ChipBit(Bit(b, 4))[r4] /\ r6 = ChipBit(Bit(b, 5))[r5]
      /\ r7 = ChipBit(Bit(b, 6))[r6] /\ r8 = ChipBit(Bit(b, 7))[r7]
  OBVIOUS
<1> HIDE DEF c1, c2, c3, c4, c5, c6, c7, c8, r1, r2, r3, r4, r5, r6, r7, r8
<1>6. c1 \in Register /\ r1 = Turned(c1)
  <2>1. Bit(b, 0) \in Binary /\ c1 = crcBit(Bit(b, 0))[c] /\ r1 = ChipBit(Bit(b, 0))[Turned(c)]
    BY Zenon, <1>1, <1>4, <1>5
  <2> QED BY Zenon, <2>1, TurnedBit
<1>7. c2 \in Register /\ r2 = Turned(c2)
  <2>1. Bit(b, 1) \in Binary /\ c2 = crcBit(Bit(b, 1))[c1] /\ r2 = ChipBit(Bit(b, 1))[r1]
    BY Zenon, <1>1, <1>4, <1>5
  <2> QED BY Zenon, <2>1, <1>6, TurnedBit
<1>8. c3 \in Register /\ r3 = Turned(c3)
  <2>1. Bit(b, 2) \in Binary /\ c3 = crcBit(Bit(b, 2))[c2] /\ r3 = ChipBit(Bit(b, 2))[r2]
    BY Zenon, <1>1, <1>4, <1>5
  <2> QED BY Zenon, <2>1, <1>7, TurnedBit
<1>9. c4 \in Register /\ r4 = Turned(c4)
  <2>1. Bit(b, 3) \in Binary /\ c4 = crcBit(Bit(b, 3))[c3] /\ r4 = ChipBit(Bit(b, 3))[r3]
    BY Zenon, <1>1, <1>4, <1>5
  <2> QED BY Zenon, <2>1, <1>8, TurnedBit
<1>10. c5 \in Register /\ r5 = Turned(c5)
  <2>1. Bit(b, 4) \in Binary /\ c5 = crcBit(Bit(b, 4))[c4] /\ r5 = ChipBit(Bit(b, 4))[r4]
    BY Zenon, <1>1, <1>4, <1>5
  <2> QED BY Zenon, <2>1, <1>9, TurnedBit
<1>11. c6 \in Register /\ r6 = Turned(c6)
  <2>1. Bit(b, 5) \in Binary /\ c6 = crcBit(Bit(b, 5))[c5] /\ r6 = ChipBit(Bit(b, 5))[r5]
    BY Zenon, <1>1, <1>4, <1>5
  <2> QED BY Zenon, <2>1, <1>10, TurnedBit
<1>12. c7 \in Register /\ r7 = Turned(c7)
  <2>1. Bit(b, 6) \in Binary /\ c7 = crcBit(Bit(b, 6))[c6] /\ r7 = ChipBit(Bit(b, 6))[r6]
    BY Zenon, <1>1, <1>4, <1>5
  <2> QED BY Zenon, <2>1, <1>11, TurnedBit
<1>13. c8 \in Register /\ r8 = Turned(c8)
  <2>1. Bit(b, 7) \in Binary /\ c8 = crcBit(Bit(b, 7))[c7] /\ r8 = ChipBit(Bit(b, 7))[r7]
    BY Zenon, <1>1, <1>4, <1>5
  <2> QED BY Zenon, <2>1, <1>12, TurnedBit
<1> QED BY Zenon, <1>2, <1>3, <1>13

-----------------------------------------------------------------------------
(* The register along a frame.                                             *)

Less == {ss \in Nat \X Nat : ss[1] < ss[2]}

LEMMA LessWellFounded == IsWellFoundedOn(Less, Nat)
BY NatLessThanWellFounded DEF Less, OpToRel

LEMMA Least ==
  ASSUME NEW T, T \subseteq Nat, T # {}
  PROVE  \E x \in T : \A y \in T : x <= y
<1>1. PICK x \in T : \A y \in T : ~(<<y, x>> \in Less)
  BY LessWellFounded, WFMin
<1>2. ASSUME NEW y \in T
      PROVE  x <= y
  <2>1. x \in Nat /\ y \in Nat /\ <<y, x>> \notin Less
    BY <1>1
  <2> QED BY <2>1 DEF Less
<1> QED BY <1>2

LEMMA ZerosIs == Zeros \in Register /\ Turned(Zeros) = Zeros
BY DEF Zeros, Turned, Register, Binary

\* The functions that crc16 and ChipCrc define, on the first n bytes.
IsCrc(R, data, n) ==
  R = [i \in 0..n |-> IF i = 0 THEN Zeros ELSE crcByte(data[i])[R[i - 1]]]
IsChipCrc(R, data, n) ==
  R = [i \in 0..n |-> IF i = 0 THEN Zeros ELSE ChipByte(data[i])[R[i - 1]]]

LEMMA CrcExists ==
  ASSUME NEW data, NEW n \in Nat
  PROVE  \E R : IsCrc(R, data, n)
<1> DEFINE T == {m \in Nat : ~ \E R : IsCrc(R, data, m)}
<1> SUFFICES ASSUME T # {}
             PROVE  FALSE
  OBVIOUS
<1>1. PICK m \in T : \A y \in T : m <= y
  BY Least
<1>2. CASE m = 0
  <2> DEFINE R == [i \in 0..0 |-> Zeros]
  <2>1. IsCrc(R, data, 0)
    BY DEF IsCrc
  <2> QED BY <1>2, <2>1
<1>3. CASE m # 0
  <2>1. m \in Nat /\ m - 1 \in Nat /\ m - 1 \notin T
    BY <1>1, <1>3
  <2>2. PICK R : IsCrc(R, data, m - 1)
    BY <2>1
  <2> DEFINE Q == [i \in 0..m |-> IF i = 0 THEN Zeros ELSE crcByte(data[i])[R[i - 1]]]
  <2>3. ASSUME NEW i \in 0..(m - 1)
        PROVE  Q[i] = R[i]
    BY <2>1, <2>2 DEF IsCrc
  <2>4. \A i \in 0..m : Q[i] = IF i = 0 THEN Zeros ELSE crcByte(data[i])[Q[i - 1]]
    <3> SUFFICES ASSUME NEW i \in 0..m, i # 0
                 PROVE  Q[i] = crcByte(data[i])[Q[i - 1]]
      BY <2>1
    <3>1. i - 1 \in 0..(m - 1)
      BY <2>1
    <3>2. Q[i - 1] = R[i - 1]
      BY <2>3, <3>1
    <3> QED BY <3>2
  <2>5. IsCrc(Q, data, m)
    <3> DEFINE P == [i \in 0..m |-> IF i = 0 THEN Zeros ELSE crcByte(data[i])[Q[i - 1]]]
    <3>1. DOMAIN Q = 0..m /\ DOMAIN P = 0..m /\ \A i \in 0..m : Q[i] = P[i]
      BY <2>4
    <3>2. Q = P
      BY <3>1
    <3> QED BY <3>2 DEF IsCrc
  <2> QED BY <1>1, <2>5
<1> QED BY <1>2, <1>3

\* The registers along the data.
Run(R, data) ==
  /\ R \in [0..Len(data) -> Register] /\ R[0] = Zeros
  /\ \A i \in 1..Len(data) : R[i] = crcByte(data[i])[R[i - 1]]

LEMMA CrcIsRun ==
  ASSUME NEW data \in Seq(Byte), NEW R, IsCrc(R, data, Len(data))
  PROVE  Run(R, data)
<1> DEFINE T == {m \in 0..Len(data) : R[m] \notin Register}
<1>1. /\ DOMAIN R = 0..Len(data) /\ R[0] = Zeros
      /\ \A i \in 1..Len(data) : R[i] = crcByte(data[i])[R[i - 1]]
  BY DEF IsCrc
<1>2. ASSUME T # {}
      PROVE  FALSE
  <2>1. PICK m \in T : \A y \in T : m <= y
    <3>1. T \subseteq Nat
      OBVIOUS
    <3> HIDE DEF T
    <3> QED BY Zenon, <1>2, <3>1, Least
  <2>2. m \in 1..Len(data) /\ m - 1 \in 0..Len(data) /\ m - 1 \notin T
    BY <1>1, <2>1, ZerosIs
  <2>3. R[m - 1] \in Register /\ data[m] \in Byte
    BY <2>2
  <2> QED BY <1>1, <2>1, <2>2, <2>3, ByteSteps
<1>3. \A m \in 0..Len(data) : R[m] \in Register
  BY <1>2
<1> QED BY <1>1, <1>3 DEF Run, IsCrc

LEMMA CrcRun ==
  ASSUME NEW data \in Seq(Byte)
  PROVE  \E R : Run(R, data) /\ R[Len(data)] = crc16(data)
<1> DEFINE R == CHOOSE R : IsCrc(R, data, Len(data))
<1>1. IsCrc(R, data, Len(data))
  BY CrcExists
<1>2. crc16(data) = R[Len(data)]
  BY DEF crc16, IsCrc
<1> QED BY <1>1, <1>2, CrcIsRun

LEMMA ChipRun ==
  ASSUME NEW data \in Seq(Byte), NEW R, Run(R, data), NEW Q, IsChipCrc(Q, data, Len(data))
  PROVE  Q[Len(data)] = Turned(R[Len(data)])
<1> DEFINE T == {m \in 0..Len(data) : Q[m] # Turned(R[m])}
<1>1. Q[0] = Zeros /\ \A i \in 1..Len(data) : Q[i] = ChipByte(data[i])[Q[i - 1]]
  BY DEF IsChipCrc
<1>2. ASSUME T # {}
      PROVE  FALSE
  <2>1. PICK m \in T : \A y \in T : m <= y
    <3>1. T \subseteq Nat
      OBVIOUS
    <3> HIDE DEF T
    <3> QED BY Zenon, <1>2, <3>1, Least
  <2>2. m \in 1..Len(data) /\ m - 1 \in 0..Len(data) /\ m - 1 \notin T
    BY <1>1, <2>1, ZerosIs DEF Run
  <2>3. Q[m - 1] = Turned(R[m - 1]) /\ R[m - 1] \in Register /\ data[m] \in Byte
    BY <2>2 DEF Run
  <2>4. Q[m] = Turned(crcByte(data[m])[R[m - 1]])
    BY <1>1, <2>2, <2>3, ChipByteTurned
  <2> QED BY <2>1, <2>2, <2>4 DEF Run
<1> QED BY <1>2

\* The chip's checksum is the library's, for any data.
THEOREM SameChecksum == \A data \in Seq(Byte) : ChipCrc(data) = crc16(data)
<1> SUFFICES ASSUME NEW data \in Seq(Byte)
             PROVE  ChipCrc(data) = crc16(data)
  BY Zenon
<1>1. PICK R : Run(R, data) /\ R[Len(data)] = crc16(data)
  BY Zenon, CrcRun
<1> DEFINE n == Len(data)
           P == [i \in 0..n |-> Turned(R[i])]
           Q == CHOOSE Q : IsChipCrc(Q, data, n)
<1>2. \A i \in 0..n : P[i] = IF i = 0 THEN Zeros ELSE ChipByte(data[i])[P[i - 1]]
  <2> SUFFICES ASSUME NEW i \in 0..n
               PROVE  P[i] = IF i = 0 THEN Zeros ELSE ChipByte(data[i])[P[i - 1]]
    OBVIOUS
  <2>1. CASE i = 0
    BY <1>1, <2>1, ZerosIs DEF Run
  <2>2. CASE i # 0
    <3>1. i \in 1..n /\ i - 1 \in 0..n
      BY <2>2
    <3>2. R[i - 1] \in Register /\ data[i] \in Byte /\ R[i] = crcByte(data[i])[R[i - 1]]
      BY <1>1, <3>1 DEF Run
    <3>3. P[i] = Turned(crcByte(data[i])[R[i - 1]]) /\ P[i - 1] = Turned(R[i - 1])
      BY <3>1, <3>2
    <3> QED BY <2>2, <3>2, <3>3, ChipByteTurned
  <2> QED BY <2>1, <2>2
<1>3. IsChipCrc(P, data, n)
  <2> DEFINE C == [i \in 0..n |-> IF i = 0 THEN Zeros ELSE ChipByte(data[i])[P[i - 1]]]
  <2>1. P = C
    BY <1>2
  <2> QED BY <2>1 DEF IsChipCrc
<1>4. IsChipCrc(Q, data, n)
  BY <1>3
<1>5. ChipCrc(data) = Turned(Q[n])
  BY DEF ChipCrc, IsChipCrc
<1>6. ChipCrc(data) = Turned(Turned(R[n])) /\ R[n] \in Register
  BY <1>1, <1>4, <1>5, ChipRun DEF Run
<1> QED BY <1>1, <1>6, TurnedBack

-----------------------------------------------------------------------------
(* Two bytes of the data that are damaged are in the checksum.             *)

LEMMA SamePrefix ==
  ASSUME NEW data, NEW e, NEW R, NEW S, Run(R, data), Run(S, e),
         NEW k \in Nat, k <= Len(data), k <= Len(e), Len(data) \in Nat, Len(e) \in Nat,
         \A i \in 1..k : data[i] = e[i]
  PROVE  R[k] = S[k]
<1> DEFINE T == {m \in 0..k : R[m] # S[m]}
<1>1. ASSUME T # {}
      PROVE  FALSE
  <2>1. PICK m \in T : \A y \in T : m <= y
    <3>1. T \subseteq Nat
      OBVIOUS
    <3> HIDE DEF T
    <3> QED BY Zenon, <1>1, <3>1, Least
  <2>2. m \in 1..k /\ m - 1 \in 0..k /\ m - 1 \notin T
    BY <2>1 DEF Run
  <2>3. R[m - 1] = S[m - 1] /\ data[m] = e[m]
    BY <2>2
  <2>4. R[m] = crcByte(data[m])[R[m - 1]] /\ S[m] = crcByte(e[m])[S[m - 1]]
    BY <2>2 DEF Run
  <2> QED BY <2>1, <2>3, <2>4
<1> QED BY <1>1

LEMMA Backwards ==
  ASSUME NEW n \in Nat, NEW k \in 0..n, NEW R, NEW S, R[n] = S[n],
         \A m \in (k + 1)..n : R[m] = S[m] => R[m - 1] = S[m - 1]
  PROVE  R[k] = S[k]
<1> DEFINE T == {j \in Nat : j <= n - k /\ R[n - j] # S[n - j]}
<1>1. ASSUME T # {}
      PROVE  FALSE
  <2>1. PICK j \in T : \A y \in T : j <= y
    <3>1. T \subseteq Nat
      OBVIOUS
    <3> HIDE DEF T
    <3> QED BY Zenon, <1>1, <3>1, Least
  <2>2. j \in Nat /\ j <= n - k /\ R[n - j] # S[n - j]
    BY <2>1
  <2>3. j # 0
    BY <2>2
  <2>4. j - 1 \in Nat /\ j - 1 <= n - k /\ ~(j <= j - 1)
    BY <2>2, <2>3
  <2>5. R[n - (j - 1)] = S[n - (j - 1)]
    BY <2>1, <2>4
  <2>6. n - (j - 1) \in (k + 1)..n /\ (n - (j - 1)) - 1 = n - j
    BY <2>2, <2>4
  <2> QED BY <2>2, <2>5, <2>6
<1>2. n - k \in Nat /\ n - k <= n - k /\ n - (n - k) = k
  OBVIOUS
<1>3. n - k \notin T
  BY <1>1
<1> QED BY <1>2, <1>3

LEMMA SameSuffix ==
  ASSUME NEW data \in Seq(Byte), NEW e \in Seq(Byte), NEW R, NEW S, Run(R, data), Run(S, e),
         NEW n \in Nat, n = Len(data), n = Len(e), NEW k \in 0..n,
         \A i \in (k + 1)..n : data[i] = e[i], R[n] = S[n]
  PROVE  R[k] = S[k]
<1>1. ASSUME NEW m \in (k + 1)..n, R[m] = S[m]
      PROVE  R[m - 1] = S[m - 1]
  <2>1. m \in 1..n /\ m - 1 \in 0..n
    OBVIOUS
  <2>2. /\ R[m] = crcByte(data[m])[R[m - 1]] /\ S[m] = crcByte(data[m])[S[m - 1]]
        /\ data[m] \in Byte
    <3>1. \A i \in 1..n : R[i] = crcByte(data[i])[R[i - 1]]
      BY Zenon DEF Run
    <3>2. \A i \in 1..n : S[i] = crcByte(e[i])[S[i - 1]]
      BY Zenon DEF Run
    <3>3. data[m] = e[m]
      OBVIOUS
    <3>4. data[m] \in Byte
      BY <2>1
    <3> QED BY Zenon, <2>1, <3>1, <3>2, <3>3, <3>4
  <2>3. R[m - 1] \in Register /\ S[m - 1] \in Register
    BY <2>1 DEF Run
  <2>4. crcByte(data[m])[R[m - 1]] = crcByte(data[m])[S[m - 1]]
    BY Zenon, <1>1, <2>2
  <2> QED BY <2>2, <2>3, <2>4, ByteInjective
<1>2. \A m \in (k + 1)..n : R[m] = S[m] => R[m - 1] = S[m - 1]
  BY <1>1
<1> QED BY <1>2, Backwards

\* Two neighbouring bytes k and k + 1 (or the last one alone) that changed
\* anyhow change the checksum.
THEOREM TwoBytes ==
  ASSUME NEW data \in Seq(Byte), NEW e \in Seq(Byte), Len(data) = Len(e),
         NEW k \in 1..Len(data), \A i \in 1..Len(data) : i \notin {k, k + 1} => data[i] = e[i],
         crc16(data) = crc16(e)
  PROVE  data = e
<1>. PICK n \in Nat : n = Len(data)
  OBVIOUS
<1>. k \in 1..n /\ n = Len(e) /\ \A i \in 1..n : i \notin {k, k + 1} => data[i] = e[i]
  OBVIOUS
<1>1. PICK R : Run(R, data) /\ R[n] = crc16(data)
  BY CrcRun
<1>2. PICK S : Run(S, e) /\ S[n] = crc16(e)
  BY CrcRun
<1>3. R[k - 1] = S[k - 1]
  <2>1. k - 1 \in Nat /\ k - 1 <= n /\ \A i \in 1..(k - 1) : data[i] = e[i]
    OBVIOUS
  <2> QED BY <1>1, <1>2, <2>1, SamePrefix
<1>4. /\ data[k] \in Byte /\ e[k] \in Byte /\ R[k - 1] \in Register /\ R[k] \in Register
      /\ S[k] \in Register
      /\ R[k] = crcByte(data[k])[R[k - 1]] /\ S[k] = crcByte(e[k])[S[k - 1]]
  <2>1. k \in 1..n /\ k \in 0..n /\ k - 1 \in 0..n
    OBVIOUS
  <2>2. data[k] \in Byte /\ e[k] \in Byte
    BY <2>1
  <2>3. /\ R[k - 1] \in Register /\ R[k] \in Register
        /\ R[k] = crcByte(data[k])[R[k - 1]]
    BY <1>1, <2>1 DEF Run
  <2>4. S[k] \in Register /\ S[k] = crcByte(e[k])[S[k - 1]]
    BY <1>2, <2>1 DEF Run
  <2> QED BY <2>2, <2>3, <2>4
<1>5. Agree(R[k], S[k], 8) => data[k] = e[k]
  BY <1>3, <1>4, SameByte
<1>6. CASE k = n
  <2>1. Agree(R[k], S[k], 8)
    <3>1. R[k] = S[k]
      BY <1>1, <1>2, <1>6
    <3> QED BY Zenon, <3>1 DEF Agree
  <2>2. \A i \in 1..n : data[i] = e[i]
    BY <1>5, <1>6, <2>1
  <2> QED BY <2>2, SeqEqual
<1>7. CASE k # n
  <2>1. k + 1 \in 1..n /\ (k + 1) - 1 = k
    BY <1>7
  <2>2. R[k + 1] = S[k + 1]
    <3>1. k + 1 \in 0..n
      BY <2>1
    <3>2. \A i \in ((k + 1) + 1)..n : data[i] = e[i]
      <4> SUFFICES ASSUME NEW i \in ((k + 1) + 1)..n
                   PROVE  data[i] = e[i]
        OBVIOUS
      <4>1. n \in Nat /\ k \in Nat
        OBVIOUS
      <4>2. i \in 1..n /\ i # k /\ i # k + 1
        BY <4>1
      <4> QED BY <4>2
    <3>3. R[n] = S[n]
      BY <1>1, <1>2
    <3> QED BY <1>1, <1>2, <3>1, <3>2, <3>3, SameSuffix
  <2>3. /\ data[k + 1] \in Byte /\ e[k + 1] \in Byte
        /\ R[k + 1] = crcByte(data[k + 1])[R[k]] /\ S[k + 1] = crcByte(e[k + 1])[S[k]]
    BY <1>1, <1>2, <2>1 DEF Run
  <2>4. Agree(R[k], S[k], 8)
    <3>1. Agree(R[k + 1], S[k + 1], 8 + 8)
      BY <2>2 DEF Agree
    <3>2. 8 \in 0..8
      OBVIOUS
    <3> QED BY <1>4, <2>3, <3>1, <3>2, ByteBack
  <2>5. data[k] = e[k] /\ R[k] = S[k]
    BY <1>3, <1>4, <1>5, <2>4
  <2>6. data[k + 1] = e[k + 1]
    <3>1. Agree(crcByte(data[k + 1])[R[k]], crcByte(e[k + 1])[R[k]], 8)
      BY <2>2, <2>3, <2>5 DEF Agree
    <3> QED BY <1>4, <2>3, <3>1, SameByte
  <2>7. \A i \in 1..n : data[i] = e[i]
    BY <2>5, <2>6
  <2> QED BY <2>7, SeqEqual
<1> QED BY <1>6, <1>7

-----------------------------------------------------------------------------
(* Frames: data and its checksum.                                          *)

LEMMA Crc16Type == \A data \in Seq(Byte) : crc16(data) \in Register
<1> SUFFICES ASSUME NEW data \in Seq(Byte)
             PROVE  crc16(data) \in Register
  BY Zenon
<1>1. PICK R : Run(R, data) /\ R[Len(data)] = crc16(data)
  BY Zenon, CrcRun
<1>2. Len(data) \in 0..Len(data)
  OBVIOUS
<1> QED BY <1>1, <1>2 DEF Run

\* Eight bits.
Octet(s) ==
  /\ s[1] \in Binary /\ s[2] \in Binary /\ s[3] \in Binary /\ s[4] \in Binary
  /\ s[5] \in Binary /\ s[6] \in Binary /\ s[7] \in Binary /\ s[8] \in Binary

LEMMA NumberIs ==
  ASSUME NEW s, Octet(s)
  PROVE  Number(s) \in Byte
BY DEF Octet, Number, Byte, Binary

Sum8(a, b, c, d, e, f, g, h) ==
  a + 2 * b + 4 * c + 8 * d + 16 * e + 32 * f + 64 * g + 128 * h
Same8(a1, a2, a3, a4, a5, a6, a7, a8, b1, b2, b3, b4, b5, b6, b7, b8) ==
  a1 = b1 /\ a2 = b2 /\ a3 = b3 /\ a4 = b4 /\ a5 = b5 /\ a6 = b6 /\ a7 = b7 /\ a8 = b8

LEMMA SameSum ==
  ASSUME NEW a1 \in Binary, NEW a2 \in Binary, NEW a3 \in Binary, NEW a4 \in Binary,
         NEW a5 \in Binary, NEW a6 \in Binary, NEW a7 \in Binary, NEW a8 \in Binary,
         NEW b1 \in Binary, NEW b2 \in Binary, NEW b3 \in Binary, NEW b4 \in Binary,
         NEW b5 \in Binary, NEW b6 \in Binary, NEW b7 \in Binary, NEW b8 \in Binary,
         Sum8(a1, a2, a3, a4, a5, a6, a7, a8) = Sum8(b1, b2, b3, b4, b5, b6, b7, b8)
  PROVE  Same8(a1, a2, a3, a4, a5, a6, a7, a8, b1, b2, b3, b4, b5, b6, b7, b8)
BY DEF Binary, Sum8, Same8

LEMMA SameNumber ==
  ASSUME NEW s, NEW t, Octet(s), Octet(t), Number(s) = Number(t)
  PROVE  /\ s[1] = t[1] /\ s[2] = t[2] /\ s[3] = t[3] /\ s[4] = t[4]
         /\ s[5] = t[5] /\ s[6] = t[6] /\ s[7] = t[7] /\ s[8] = t[8]
<1>1. Sum8(s[1], s[2], s[3], s[4], s[5], s[6], s[7], s[8])
        = Sum8(t[1], t[2], t[3], t[4], t[5], t[6], t[7], t[8])
  BY Zenon DEF Number, Sum8
<1>2. Same8(s[1], s[2], s[3], s[4], s[5], s[6], s[7], s[8],
            t[1], t[2], t[3], t[4], t[5], t[6], t[7], t[8])
  BY Zenon, <1>1, SameSum DEF Octet
<1> QED BY Zenon, <1>2 DEF Same8

\* The halves of a register.
LEMMA HalvesAre ==
  ASSUME NEW c \in Register
  PROVE  /\ Octet(SubSeq(c, 1, 8)) /\ Octet(SubSeq(c, 9, 16))
         /\ \A i \in 1..8 : SubSeq(c, 1, 8)[i] = c[i] /\ SubSeq(c, 9, 16)[i] = c[8 + i]
<1>1. c \in [1..16 -> Binary] /\ 16 \in Nat
  BY DEF Register
<1>2. c \in Seq(Binary) /\ Len(c) = 16
  <2>1. c \in Seq(Binary)
    BY <1>1, SeqDef
  <2>2. DOMAIN c = 1..16
    BY <1>1
  <2> QED BY <2>1, <2>2
<1>3. \A i \in 1..8 : SubSeq(c, 1, 8)[i] = c[i] /\ SubSeq(c, 9, 16)[i] = c[8 + i]
  BY <1>2
<1>4. \A i \in 1..8 : SubSeq(c, 1, 8)[i] \in Binary /\ SubSeq(c, 9, 16)[i] \in Binary
  BY <1>1, <1>3
<1> QED BY <1>3, <1>4 DEF Octet

LEMMA CrcBytesAre ==
  ASSUME NEW c \in Register
  PROVE  /\ CrcBytes(c) \in Seq(Byte) /\ Len(CrcBytes(c)) = 2
         /\ CrcBytes(c)[1] = Number(SubSeq(c, 1, 8)) /\ CrcBytes(c)[2] = Number(SubSeq(c, 9, 16))
<1>1. Number(SubSeq(c, 1, 8)) \in Byte /\ Number(SubSeq(c, 9, 16)) \in Byte
  BY HalvesAre, NumberIs
<1> QED BY <1>1 DEF CrcBytes

LEMMA CrcBytesInjective ==
  ASSUME NEW c \in Register, NEW d \in Register,
         CrcBytes(c)[1] = CrcBytes(d)[1], CrcBytes(c)[2] = CrcBytes(d)[2]
  PROVE  c = d
<1> DEFINE s == SubSeq(c, 1, 8)
           t == SubSeq(d, 1, 8)
           x == SubSeq(c, 9, 16)
           y == SubSeq(d, 9, 16)
<1>1. Number(s) = Number(t) /\ Number(x) = Number(y)
  BY CrcBytesAre
<1>2. /\ Octet(s) /\ Octet(t) /\ Octet(x) /\ Octet(y)
      /\ \A i \in 1..8 : s[i] = c[i] /\ t[i] = d[i] /\ x[i] = c[8 + i] /\ y[i] = d[8 + i]
  BY HalvesAre
<1> HIDE DEF s, t, x, y
<1>3. /\ s[1] = t[1] /\ s[2] = t[2] /\ s[3] = t[3] /\ s[4] = t[4]
      /\ s[5] = t[5] /\ s[6] = t[6] /\ s[7] = t[7] /\ s[8] = t[8]
  BY <1>1, <1>2, SameNumber
<1>4. /\ x[1] = y[1] /\ x[2] = y[2] /\ x[3] = y[3] /\ x[4] = y[4]
      /\ x[5] = y[5] /\ x[6] = y[6] /\ x[7] = y[7] /\ x[8] = y[8]
  BY <1>1, <1>2, SameNumber
<1>5. \A i \in 1..8 : s[i] = t[i] /\ x[i] = y[i]
  BY <1>3, <1>4
<1>6. ASSUME NEW i \in 1..16
      PROVE  c[i] = d[i]
  <2>1. CASE i <= 8
    BY <1>2, <1>5, <2>1
  <2>2. CASE i > 8
    <3>1. i - 8 \in 1..8 /\ 8 + (i - 8) = i
      BY <2>2
    <3>2. x[i - 8] = c[8 + (i - 8)] /\ y[i - 8] = d[8 + (i - 8)] /\ x[i - 8] = y[i - 8]
      BY <1>2, <1>5, <3>1
    <3> QED BY <3>1, <3>2
  <2> QED BY <2>1, <2>2
<1> QED BY <1>6, SameRegister

\* A frame: any data, and its checksum.
Frame(data) == data \o CrcBytes(crc16(data))

LEMMA Appended ==
  ASSUME NEW S, NEW data \in Seq(S), NEW t \in Seq(S), Len(t) = 2
  PROVE  /\ data \o t \in Seq(S) /\ Len(data \o t) = Len(data) + 2
         /\ \A i \in 1..Len(data) : (data \o t)[i] = data[i]
         /\ (data \o t)[Len(data) + 1] = t[1] /\ (data \o t)[Len(data) + 2] = t[2]
<1>1. Len(data) \in Nat
  OBVIOUS
<1>2. /\ data \o t \in Seq(S) /\ Len(data \o t) = Len(data) + Len(t)
      /\ \A i \in 1..(Len(data) + Len(t)) :
           (data \o t)[i] = IF i <= Len(data) THEN data[i] ELSE t[i - Len(data)]
  BY ConcatProperties
<1>3. Len(data \o t) = Len(data) + 2
  BY <1>1, <1>2
<1>4. \A i \in 1..Len(data) : (data \o t)[i] = data[i]
  BY <1>1, <1>2
<1>5. /\ Len(data) + 1 \in 1..(Len(data) + Len(t)) /\ ~(Len(data) + 1 <= Len(data))
      /\ (Len(data) + 1) - Len(data) = 1
      /\ Len(data) + 2 \in 1..(Len(data) + Len(t)) /\ ~(Len(data) + 2 <= Len(data))
      /\ (Len(data) + 2) - Len(data) = 2
  BY <1>1
<1>6. (data \o t)[Len(data) + 1] = t[1] /\ (data \o t)[Len(data) + 2] = t[2]
  BY <1>2, <1>5
<1> QED BY <1>2, <1>3, <1>4, <1>6

LEMMA FrameIs ==
  ASSUME NEW data \in Seq(Byte)
  PROVE  /\ Frame(data) \in Seq(Byte) /\ Len(Frame(data)) = Len(data) + 2
         /\ \A i \in 1..Len(data) : Frame(data)[i] = data[i]
         /\ Frame(data)[Len(data) + 1] = CrcBytes(crc16(data))[1]
         /\ Frame(data)[Len(data) + 2] = CrcBytes(crc16(data))[2]
<1>1. CrcBytes(crc16(data)) \in Seq(Byte) /\ Len(CrcBytes(crc16(data))) = 2
  BY Crc16Type, CrcBytesAre
<1> QED BY <1>1, Appended DEF Frame

LEMMA SoundIs ==
  ASSUME NEW f \in Seq(Byte), NEW n \in Nat, Len(f) = n + 2
  PROVE  /\ SubSeq(f, 1, n) \in Seq(Byte) /\ Len(SubSeq(f, 1, n)) = n
         /\ \A i \in 1..n : SubSeq(f, 1, n)[i] = f[i]
         /\ Sound(f) <=> /\ f[n + 1] = CrcBytes(crc16(SubSeq(f, 1, n)))[1]
                         /\ f[n + 2] = CrcBytes(crc16(SubSeq(f, 1, n)))[2]
<1> DEFINE d == SubSeq(f, 1, n)
           t == SubSeq(f, n + 1, n + 2)
<1>1. d \in Seq(Byte) /\ Len(d) = n /\ \A i \in 1..n : d[i] = f[i]
  OBVIOUS
<1>2. t \in Seq(Byte) /\ Len(t) = 2 /\ t[1] = f[n + 1] /\ t[2] = f[n + 2]
  OBVIOUS
<1>3. CrcBytes(crc16(d)) \in Seq(Byte) /\ Len(CrcBytes(crc16(d))) = 2
  BY <1>1, Crc16Type, CrcBytesAre
<1>4. Sound(f) <=> CrcBytes(crc16(d)) = t
  <2>1. Len(f) - 2 = n /\ Len(f) - 1 = n + 1 /\ Len(f) = n + 2
    OBVIOUS
  <2> QED BY <2>1 DEF Sound
<1> HIDE DEF d, t
<1>5. CrcBytes(crc16(d)) = t <=> CrcBytes(crc16(d))[1] = t[1] /\ CrcBytes(crc16(d))[2] = t[2]
  <2> DEFINE x == CrcBytes(crc16(d))
  <2>1. x \in Seq(Byte) /\ Len(x) = 2
    BY <1>3
  <2> HIDE DEF x
  <2>2. x[1] = t[1] /\ x[2] = t[2] => x = t
    <3>1. x[1] = t[1] /\ x[2] = t[2] => \A i \in 1..2 : x[i] = t[i]
      OBVIOUS
    <3> QED BY <1>2, <2>1, <3>1, SeqEqual
  <2> QED BY <2>2 DEF x
<1> QED BY <1>1, <1>2, <1>4, <1>5 DEF d

\* Any frame is sound, and one of which two neighbouring bytes changed is not,
\* unless they are the last of the data and the first of the checksum.
LEMMA FrameSound ==
  ASSUME NEW data \in Seq(Byte)
  PROVE  Sound(Frame(data)) /\ SubSeq(Frame(data), 1, Len(data)) = data
<1> DEFINE f == Frame(data)
<1>. PICK n \in Nat : n = Len(data)
  OBVIOUS
<1>1. /\ f \in Seq(Byte) /\ Len(f) = n + 2 /\ \A i \in 1..n : f[i] = data[i]
      /\ f[n + 1] = CrcBytes(crc16(data))[1] /\ f[n + 2] = CrcBytes(crc16(data))[2]
  BY FrameIs
<1>2. SubSeq(f, 1, n) = data
  <2> HIDE DEF f
  <2>1. SubSeq(f, 1, n) \in Seq(Byte) /\ Len(SubSeq(f, 1, n)) = n
        /\ \A i \in 1..n : SubSeq(f, 1, n)[i] = data[i]
    BY <1>1, SoundIs
  <2> QED BY <2>1, SeqEqual
<1> HIDE DEF f
<1>3. Sound(f)
  BY <1>1, <1>2, SoundIs
<1> QED BY <1>2, <1>3 DEF f

THEOREM DamageSeen ==
  ASSUME NEW data \in Seq(Byte), NEW g \in Seq(Byte), Len(g) = Len(data) + 2, g # Frame(data),
         NEW i \in 1..(Len(data) + 1),
         \A j \in 1..(Len(data) + 2) : j \notin {i, i + 1} => g[j] = Frame(data)[j],
         i = Len(data) => g[i] = Frame(data)[i] \/ g[i + 1] = Frame(data)[i + 1]
  PROVE  ~Sound(g)
<1>. PICK n \in Nat : n = Len(data)
  OBVIOUS
<1> DEFINE f == Frame(data)
           d == SubSeq(g, 1, n)
<1>1. /\ f \in Seq(Byte) /\ Len(f) = n + 2 /\ \A j \in 1..n : f[j] = data[j]
      /\ f[n + 1] = CrcBytes(crc16(data))[1] /\ f[n + 2] = CrcBytes(crc16(data))[2]
  BY FrameIs
<1>2. Len(g) = n + 2 /\ \A j \in 1..(n + 2) : j \notin {i, i + 1} => g[j] = f[j]
  OBVIOUS
<1>3. i \in 1..(n + 1) /\ (i = n => g[i] = f[i] \/ g[i + 1] = f[i + 1])
  OBVIOUS
<1> HIDE DEF f
<1> SUFFICES ASSUME Sound(g)
             PROVE  g = f
  BY DEF f
<1>4. /\ d \in Seq(Byte) /\ Len(d) = n /\ \A j \in 1..n : d[j] = g[j]
      /\ g[n + 1] = CrcBytes(crc16(d))[1] /\ g[n + 2] = CrcBytes(crc16(d))[2]
  BY <1>2, SoundIs
<1> HIDE DEF d
<1>5. CASE d = data
  <2>1. \A j \in 1..n : g[j] = f[j]
    BY <1>1, <1>4, <1>5
  <2>2. g[n + 1] = f[n + 1] /\ g[n + 2] = f[n + 2]
    BY <1>1, <1>4, <1>5
  <2>3. \A j \in 1..(n + 2) : g[j] = f[j]
    BY <2>1, <2>2
  <2> QED BY <1>1, <1>2, <2>3, SeqEqual
<1>6. CASE g[n + 1] = f[n + 1] /\ g[n + 2] = f[n + 2] /\ i <= n
  <2>1. crc16(d) = crc16(data)
    BY <1>1, <1>4, <1>6, Crc16Type, CrcBytesInjective
  <2>2. \A j \in 1..n : j \notin {i, i + 1} => d[j] = data[j]
    BY <1>1, <1>2, <1>4
  <2>3. i \in 1..Len(d) /\ Len(d) = Len(data)
    BY <1>3, <1>4, <1>6
  <2>4. d = data
    BY <1>4, <2>1, <2>2, <2>3, TwoBytes
  <2> QED BY <1>5, <2>4
<1>7. (\A j \in 1..n : d[j] = data[j]) => d = data
  BY <1>4, SeqEqual
<1>8. CASE i = n + 1
  <2>1. \A j \in 1..n : d[j] = data[j]
    BY <1>1, <1>2, <1>4, <1>8
  <2> QED BY <1>5, <1>7, <2>1
<1>9. CASE i = n
  <2>1. g[n + 2] = f[n + 2]
    BY <1>2, <1>9
  <2>2. CASE g[n] = f[n]
    <3>1. \A j \in 1..n : d[j] = data[j]
      BY <1>1, <1>2, <1>4, <1>9, <2>2
    <3> QED BY <1>5, <1>7, <3>1
  <2> QED BY <1>3, <1>6, <1>9, <2>1, <2>2
<1>10. CASE i < n
  <2>1. g[n + 1] = f[n + 1] /\ g[n + 2] = f[n + 2]
    BY <1>2, <1>3, <1>10
  <2> QED BY <1>3, <1>6, <1>10, <2>1
<1> QED BY <1>3, <1>8, <1>9, <1>10

-----------------------------------------------------------------------------
(* What each packet means to the chip.                                     *)

\* Numbers without a bit in common are added by |.
Disjoint(a, b, j) == ~(Bit(a, j) = 1 /\ Bit(b, j) = 1)

LEMMA EitherIs ==
  ASSUME NEW a \in Byte, NEW b \in Byte, NEW j \in 0..7, Disjoint(a, b, j)
  PROVE  Either(a, b, j) = Bit(a, j) + Bit(b, j)
<1>1. Bit(a, j) \in Binary /\ Bit(b, j) \in Binary
  BY BitsOfByte
<1> QED BY <1>1 DEF Either, Disjoint, Binary

LEMMA OrIsSum ==
  ASSUME NEW a \in Byte, NEW b \in Byte, \A j \in 0..7 : Disjoint(a, b, j)
  PROVE  Or(a, b) = a + b
<1>1. \A j \in 0..7 : /\ Either(a, b, j) = Bit(a, j) + Bit(b, j)
                      /\ Bit(a, j) \in Int /\ Bit(b, j) \in Int
  BY EitherIs, BitsOfByte DEF Binary
<1>2. /\ Either(a, b, 0) = Bit(a, 0) + Bit(b, 0) /\ Either(a, b, 1) = Bit(a, 1) + Bit(b, 1)
      /\ Either(a, b, 2) = Bit(a, 2) + Bit(b, 2) /\ Either(a, b, 3) = Bit(a, 3) + Bit(b, 3)
      /\ Either(a, b, 4) = Bit(a, 4) + Bit(b, 4) /\ Either(a, b, 5) = Bit(a, 5) + Bit(b, 5)
      /\ Either(a, b, 6) = Bit(a, 6) + Bit(b, 6) /\ Either(a, b, 7) = Bit(a, 7) + Bit(b, 7)
  BY <1>1
<1>3. Or(a, b) = Either(a, b, 0) + 2 * Either(a, b, 1) + 4 * Either(a, b, 2)
                   + 8 * Either(a, b, 3) + 16 * Either(a, b, 4) + 32 * Either(a, b, 5)
                   + 64 * Either(a, b, 6) + 128 * Either(a, b, 7)
  BY DEF Or, Number
<1>4. /\ Bit(a, 0) \in Int /\ Bit(a, 1) \in Int /\ Bit(a, 2) \in Int /\ Bit(a, 3) \in Int
      /\ Bit(a, 4) \in Int /\ Bit(a, 5) \in Int /\ Bit(a, 6) \in Int /\ Bit(a, 7) \in Int
      /\ Bit(b, 0) \in Int /\ Bit(b, 1) \in Int /\ Bit(b, 2) \in Int /\ Bit(b, 3) \in Int
      /\ Bit(b, 4) \in Int /\ Bit(b, 5) \in Int /\ Bit(b, 6) \in Int /\ Bit(b, 7) \in Int
  BY <1>1
<1>5. /\ a = Bit(a, 0) + 2 * Bit(a, 1) + 4 * Bit(a, 2) + 8 * Bit(a, 3) + 16 * Bit(a, 4)
             + 32 * Bit(a, 5) + 64 * Bit(a, 6) + 128 * Bit(a, 7)
      /\ b = Bit(b, 0) + 2 * Bit(b, 1) + 4 * Bit(b, 2) + 8 * Bit(b, 3) + 16 * Bit(b, 4)
             + 32 * Bit(b, 5) + 64 * Bit(b, 6) + 128 * Bit(b, 7)
  BY ByteSum
<1> QED BY <1>2, <1>3, <1>4, <1>5

LEMMA OrOf ==
  /\ Or(0, 128) = 128 /\ Or(1, 128) = 129 /\ Or(2, 128) = 130
  /\ Or(3, 0) = 3 /\ Or(3, 32) = 35 /\ Or(3, 64) = 67 /\ Or(35, 64) = 99
  /\ Or(128, 32) = 160 /\ Or(2, 32) = 34
<1>1. Or(0, 128) = 128
  <2>1. \A j \in 0..7 : Disjoint(0, 128, j)
    BY DEF Disjoint, Bit, Weight
  <2>2. 0 \in Byte /\ 128 \in Byte /\ 0 + 128 = 128
    BY DEF Byte
  <2>3. Or(0, 128) = 0 + 128
    BY <2>1, <2>2, OrIsSum
  <2> QED BY <2>2, <2>3
<1>2. Or(1, 128) = 129
  <2>1. \A j \in 0..7 : Disjoint(1, 128, j)
    BY DEF Disjoint, Bit, Weight
  <2>2. 1 \in Byte /\ 128 \in Byte /\ 1 + 128 = 129
    BY DEF Byte
  <2>3. Or(1, 128) = 1 + 128
    BY <2>1, <2>2, OrIsSum
  <2> QED BY <2>2, <2>3
<1>3. Or(2, 128) = 130
  <2>1. \A j \in 0..7 : Disjoint(2, 128, j)
    BY DEF Disjoint, Bit, Weight
  <2>2. 2 \in Byte /\ 128 \in Byte /\ 2 + 128 = 130
    BY DEF Byte
  <2>3. Or(2, 128) = 2 + 128
    BY <2>1, <2>2, OrIsSum
  <2> QED BY <2>2, <2>3
<1>4. Or(3, 0) = 3
  <2>1. \A j \in 0..7 : Disjoint(3, 0, j)
    BY DEF Disjoint, Bit, Weight
  <2>2. 3 \in Byte /\ 0 \in Byte /\ 3 + 0 = 3
    BY DEF Byte
  <2>3. Or(3, 0) = 3 + 0
    BY <2>1, <2>2, OrIsSum
  <2> QED BY <2>2, <2>3
<1>5. Or(3, 32) = 35
  <2>1. \A j \in 0..7 : Disjoint(3, 32, j)
    BY DEF Disjoint, Bit, Weight
  <2>2. 3 \in Byte /\ 32 \in Byte /\ 3 + 32 = 35
    BY DEF Byte
  <2>3. Or(3, 32) = 3 + 32
    BY <2>1, <2>2, OrIsSum
  <2> QED BY <2>2, <2>3
<1>6. Or(3, 64) = 67
  <2>1. \A j \in 0..7 : Disjoint(3, 64, j)
    BY DEF Disjoint, Bit, Weight
  <2>2. 3 \in Byte /\ 64 \in Byte /\ 3 + 64 = 67
    BY DEF Byte
  <2>3. Or(3, 64) = 3 + 64
    BY <2>1, <2>2, OrIsSum
  <2> QED BY <2>2, <2>3
<1>7. Or(35, 64) = 99
  <2>1. \A j \in 0..7 : Disjoint(35, 64, j)
    BY DEF Disjoint, Bit, Weight
  <2>2. 35 \in Byte /\ 64 \in Byte /\ 35 + 64 = 99
    BY DEF Byte
  <2>3. Or(35, 64) = 35 + 64
    BY <2>1, <2>2, OrIsSum
  <2> QED BY <2>2, <2>3
<1>8. Or(128, 32) = 160
  <2>1. \A j \in 0..7 : Disjoint(128, 32, j)
    BY DEF Disjoint, Bit, Weight
  <2>2. 128 \in Byte /\ 32 \in Byte /\ 128 + 32 = 160
    BY DEF Byte
  <2>3. Or(128, 32) = 128 + 32
    BY <2>1, <2>2, OrIsSum
  <2> QED BY <2>2, <2>3
<1>9. Or(2, 32) = 34
  <2>1. \A j \in 0..7 : Disjoint(2, 32, j)
    BY DEF Disjoint, Bit, Weight
  <2>2. 2 \in Byte /\ 32 \in Byte /\ 2 + 32 = 34
    BY DEF Byte
  <2>3. Or(2, 32) = 2 + 32
    BY <2>1, <2>2, OrIsSum
  <2> QED BY <2>2, <2>3
<1> QED BY <1>1, <1>2, <1>3, <1>4, <1>5, <1>6, <1>7, <1>8, <1>9

LEMMA OrSlot == \A slot \in 0..15 : (slot * 4) % 256 = 4 * slot /\ Or(2, 4 * slot) = 4 * slot + 2
<1> SUFFICES ASSUME NEW slot \in 0..15
             PROVE  (slot * 4) % 256 = 4 * slot /\ Or(2, 4 * slot) = 4 * slot + 2
  OBVIOUS
<1>1. ASSUME NEW j \in 0..7
      PROVE  Disjoint(2, 4 * slot, j)
  <2>1. CASE j = 1
    <3>1. ((4 * slot) \div 2) % 2 = 0
      OBVIOUS
    <3> QED BY <2>1, <3>1 DEF Disjoint, Bit, Weight
  <2>2. CASE j # 1
    <3>1. Bit(2, j) = 0
      BY <2>2 DEF Bit, Weight
    <3> QED BY <3>1 DEF Disjoint
  <2> QED BY <2>1, <2>2
<1>2. 4 * slot \in Byte /\ 2 \in Byte /\ 2 + 4 * slot = 4 * slot + 2 /\ (slot * 4) % 256 = 4 * slot
  BY DEF Byte
<1> QED BY <1>1, <1>2, OrIsSum

LEMMA NamesAre ==
  /\ \A z \in DOMAIN Zone : Names(Zone, Zone[z]) = z
  /\ Names(lockZone, 0) = "config" /\ Names(lockZone, 1) = "data"
  /\ \A u \in DOMAIN updateMode : Names(updateMode, updateMode[u]) = u
<1>1. \A z \in DOMAIN Zone : Names(Zone, Zone[z]) = z
  BY DEF Names, Zone
<1>2. Names(lockZone, 0) = "config" /\ Names(lockZone, 1) = "data"
  BY DEF Names, lockZone
<1>3. \A u \in DOMAIN updateMode : Names(updateMode, updateMode[u]) = u
  BY DEF Names, updateMode
<1> QED BY <1>1, <1>2, <1>3

Packets ==
  {p \in [op : {"packet"}, opcode : Byte, param1 : Byte, param2 : Uint16, data : Seq(Byte)] :
     Len(p.data) <= atcaCmdSizeMax}
Meant(p, c) == p \in Packets /\ Meaning(p) = c

Is(p, opcode, param1, param2, data) ==
  /\ p \in Packets /\ p.opcode = opcode /\ p.param1 = param1 /\ p.param2 = param2
  /\ p.data = data

LEMMA NewPacket ==
  ASSUME NEW opcode \in Byte, NEW param1 \in Byte, NEW param2 \in Uint16, NEW data \in Seq(Byte),
         Len(data) <= 151
  PROVE  Is(newPacket(opcode, param1, param2, data), opcode, param1, param2, data)
BY DEF newPacket, Packets, atcaCmdSizeMax, Is

LEMMA NoData ==
  ASSUME NEW opcode \in Byte, NEW param1 \in Byte, NEW param2 \in Uint16
  PROVE  Is(newPacket(opcode, param1, param2, <<>>), opcode, param1, param2, <<>>)
<1>1. <<>> \in Seq(Byte) /\ Len(<<>>) <= 151
  OBVIOUS
<1> QED BY <1>1, NewPacket

LEMMA InfoMeant == \A c \in [op : {"info"}] : Meant(newInfoCommand(c), c)
<1> SUFFICES ASSUME NEW c \in [op : {"info"}]
             PROVE  Meant(newInfoCommand(c), c)
  OBVIOUS
<1>1. 48 \in Byte /\ 0 \in Byte /\ 0 \in Uint16
  BY DEF Byte, Uint16
<1> DEFINE p == newInfoCommand(c)
<1>2. Is(p, 48, 0, 0, <<>>)
  BY Zenon, <1>1, NoData DEF newInfoCommand
<1> HIDE DEF p
<1>3. Meaning(p) = [op |-> "info"]
  BY <1>2 DEF Meaning, Is
<1> QED BY <1>2, <1>3 DEF Meant, Is, p

LEMMA RandomMeant == \A c \in [op : {"random"}] : Meant(newRandomCommand(c), c)
<1> SUFFICES ASSUME NEW c \in [op : {"random"}]
             PROVE  Meant(newRandomCommand(c), c)
  OBVIOUS
<1>1. 27 \in Byte /\ 0 \in Byte /\ 0 \in Uint16
  BY DEF Byte, Uint16
<1> DEFINE p == newRandomCommand(c)
<1>2. Is(p, 27, 0, 0, <<>>)
  BY Zenon, <1>1, NoData DEF newRandomCommand
<1> HIDE DEF p
<1>3. Meaning(p) = [op |-> "random"]
  BY <1>2 DEF Meaning, Is
<1> QED BY <1>2, <1>3 DEF Meant, Is, p

LEMMA LockZoneMeant ==
  \A c \in [op : {"lock"}, what : {"config", "data"}, slot : {0}] : Meant(newLockCommand(c), c)
<1> SUFFICES ASSUME NEW c \in [op : {"lock"}, what : {"config", "data"}, slot : {0}]
             PROVE  Meant(newLockCommand(c), c)
  OBVIOUS
<1>1. 23 \in Byte /\ 128 \in Byte /\ 129 \in Byte /\ 0 \in Uint16
  BY DEF Byte, Uint16
<1> DEFINE p == newLockCommand(c)
<1>2. CASE c.what = "config"
  <2>1. p = newPacket(23, 128, 0, <<>>)
    BY <1>2, OrOf DEF newLockCommand, lockMode, lockZone
  <2> HIDE DEF p
  <2>2. Is(p, 23, 128, 0, <<>>)
    BY Zenon, <1>1, <2>1, NoData
  <2>3. Meaning(p) = [op |-> "lock", what |-> "config", slot |-> 0]
    BY <2>2, NamesAre DEF Meaning, Is
  <2> QED BY <1>2, <2>2, <2>3 DEF Meant, Is, p
<1>3. CASE c.what = "data"
  <2>1. p = newPacket(23, 129, 0, <<>>)
    BY <1>3, OrOf DEF newLockCommand, lockMode, lockZone
  <2> HIDE DEF p
  <2>2. Is(p, 23, 129, 0, <<>>)
    BY Zenon, <1>1, <2>1, NoData
  <2>3. Meaning(p) = [op |-> "lock", what |-> "data", slot |-> 0]
    BY <2>2, NamesAre DEF Meaning, Is
  <2> QED BY <1>3, <2>2, <2>3 DEF Meant, Is, p
<1> QED BY <1>2, <1>3

LEMMA LockSlotMeant ==
  \A c \in [op : {"lock"}, what : {"slot"}, slot : 0..15] : Meant(newLockCommand(c), c)
<1> SUFFICES ASSUME NEW c \in [op : {"lock"}, what : {"slot"}, slot : 0..15]
             PROVE  Meant(newLockCommand(c), c)
  OBVIOUS
<1>. PICK slot \in 0..15 : slot = c.slot
  OBVIOUS
<1>1. c.what = "slot" /\ c = [op |-> "lock", what |-> "slot", slot |-> slot]
  OBVIOUS
<1> DEFINE p == newLockCommand(c)
<1>2. p = newPacket(23, 4 * slot + 2, 0, <<>>)
  <2>1. lockMode(c) = 4 * slot /\ lockZone[c.what] = 2
    BY <1>1, OrSlot DEF lockMode, lockZone
  <2>2. Or(lockZone[c.what], lockMode(c)) = 4 * slot + 2
    BY <2>1, OrSlot
  <2> QED BY Zenon, <2>2 DEF newLockCommand
<1> HIDE DEF p
<1>3. 23 \in Byte /\ 4 * slot + 2 \in Byte /\ 0 \in Uint16
  BY DEF Byte, Uint16
<1>4. Is(p, 23, 4 * slot + 2, 0, <<>>)
  BY Zenon, <1>2, <1>3, NoData
<1>5. (4 * slot + 2) % 4 = 2 /\ 4 * slot + 2 < 64 /\ (4 * slot + 2) \div 4 = slot
  OBVIOUS
<1>6. Meaning(p) = [op |-> "lock", what |-> "slot", slot |-> slot]
  BY <1>4, <1>5 DEF Meaning, Is
<1> QED BY <1>1, <1>4, <1>6 DEF Meant, Is, p

LEMMA ReadMeant ==
  \A c \in [op : {"read"}, zone : DOMAIN Zone, addr : Uint16, block : BOOLEAN] :
    Meant(newReadCommand(c), c)
<1> SUFFICES ASSUME NEW c \in [op : {"read"}, zone : DOMAIN Zone, addr : Uint16, block : BOOLEAN]
             PROVE  Meant(newReadCommand(c), c)
  OBVIOUS
<1>. PICK z \in DOMAIN Zone : z = c.zone
  OBVIOUS
<1>. PICK n \in 0..2 : n = Zone[z]
  BY DEF Zone
<1> DEFINE p == newReadCommand(c)
           m == n + IF c.block THEN 128 ELSE 0
<1>1. p = newPacket(2, m, c.addr, <<>>)
  BY OrOf DEF newReadCommand, atcaZoneReadWrite32
<1>2. 2 \in Byte /\ m \in Byte /\ m % 4 = n /\ (m \div 128 = 1 <=> c.block) /\ c.addr \in Uint16
  BY DEF Byte
<1> HIDE DEF p, m
<1>3. Is(p, 2, m, c.addr, <<>>)
  BY Zenon, <1>1, <1>2, NoData
<1>4. Names(Zone, n) = z
  BY NamesAre
<1>5. Meaning(p) = [op |-> "read", zone |-> z, addr |-> c.addr, block |-> m \div 128 = 1]
  BY <1>2, <1>3, <1>4 DEF Meaning, Is
<1>6. Meaning(p) = c
  BY <1>2, <1>5
<1> QED BY <1>3, <1>6 DEF Meant, Is, p

LEMMA GenKeyMeant ==
  \A c \in [op : {"genkey"}, new : BOOLEAN, slot : Byte] : Meant(newGenKeyCommand(c), c)
<1> SUFFICES ASSUME NEW c \in [op : {"genkey"}, new : BOOLEAN, slot : Byte]
             PROVE  Meant(newGenKeyCommand(c), c)
  OBVIOUS
<1> DEFINE p == newGenKeyCommand(c)
           m == IF c.new THEN 4 ELSE 0
<1>1. p = newPacket(64, m, c.slot, <<>>)
  BY DEF newGenKeyCommand
<1>2. 64 \in Byte /\ m \in Byte /\ m \in {0, 4} /\ (m = 4 <=> c.new) /\ c.slot \in Uint16
  BY DEF Byte, Uint16
<1> HIDE DEF p, m
<1>3. Is(p, 64, m, c.slot, <<>>)
  BY Zenon, <1>1, <1>2, NoData
<1>4. Meaning(p) = [op |-> "genkey", new |-> m = 4, slot |-> c.slot]
  BY <1>2, <1>3 DEF Meaning, Is
<1>5. Meaning(p) = c
  BY <1>2, <1>4
<1> QED BY <1>3, <1>5 DEF Meant, Is, p

LEMMA SignMeant == \A c \in [op : {"sign"}, slot : Uint16] : Meant(newSignCommand(c), c)
<1> SUFFICES ASSUME NEW c \in [op : {"sign"}, slot : Uint16]
             PROVE  Meant(newSignCommand(c), c)
  OBVIOUS
<1> DEFINE p == newSignCommand(c)
<1>1. p = newPacket(65, 160, c.slot, <<>>)
  BY OrOf DEF newSignCommand
<1>2. 65 \in Byte /\ 160 \in Byte /\ c.slot \in Uint16
  BY DEF Byte
<1> HIDE DEF p
<1>3. Is(p, 65, 160, c.slot, <<>>)
  BY Zenon, <1>1, <1>2, NoData
<1>4. Meaning(p) = [op |-> "sign", slot |-> c.slot]
  BY <1>3 DEF Meaning, Is
<1> QED BY <1>3, <1>4 DEF Meant, Is, p

LEMMA ExtraMeant ==
  \A c \in [op : {"extra"}, byte : DOMAIN updateMode, value : Byte] :
    Meant(newUpdateExtraCommand(c), c)
<1> SUFFICES ASSUME NEW c \in [op : {"extra"}, byte : DOMAIN updateMode, value : Byte]
             PROVE  Meant(newUpdateExtraCommand(c), c)
  OBVIOUS
<1>. PICK n \in 0..1 : n = updateMode[c.byte]
  BY DEF updateMode
<1> DEFINE p == newUpdateExtraCommand(c)
<1>1. p = newPacket(32, n, c.value, <<>>)
  BY DEF newUpdateExtraCommand
<1>2. 32 \in Byte /\ n \in Byte /\ c.value \in Uint16
  BY DEF Byte, Uint16
<1> HIDE DEF p
<1>3. Is(p, 32, n, c.value, <<>>)
  BY Zenon, <1>1, <1>2, NoData
<1>4. Names(updateMode, n) = c.byte
  BY NamesAre
<1>5. Meaning(p) = [op |-> "extra", byte |-> c.byte, value |-> c.value]
  BY <1>3, <1>4 DEF Meaning, Is
<1> QED BY <1>3, <1>5 DEF Meant, Is, p

\* Data that is two pieces of data.
Made(u, s, t) ==
  /\ u \in Seq(Byte) /\ Len(u) = Len(s) + Len(t)
  /\ SubSeq(u, 1, Len(s)) = s /\ SubSeq(u, Len(s) + 1, Len(s) + Len(t)) = t

LEMMA Pieces ==
  ASSUME NEW s \in Seq(Byte), NEW t \in Seq(Byte)
  PROVE  Made(s \o t, s, t)
<1>. PICK m \in Nat : m = Len(s)
  OBVIOUS
<1>. PICK n \in Nat : n = Len(t)
  OBVIOUS
<1>. PICK u : u = s \o t
  OBVIOUS
<1>1. /\ u \in Seq(Byte) /\ Len(u) = m + n
      /\ \A i \in 1..(m + n) : u[i] = IF i <= m THEN s[i] ELSE t[i - m]
  BY ConcatProperties
<1>2. SubSeq(u, 1, m) = s
  <2>1. /\ SubSeq(u, 1, m) \in Seq(Byte) /\ Len(SubSeq(u, 1, m)) = m
        /\ \A i \in 1..m : SubSeq(u, 1, m)[i] = u[i]
    BY <1>1
  <2>2. \A i \in 1..m : SubSeq(u, 1, m)[i] = s[i]
    BY <1>1, <2>1
  <2> QED BY <2>1, <2>2, SeqEqual
<1>3. SubSeq(u, m + 1, m + n) = t
  <2>. PICK v : v = SubSeq(u, m + 1, m + n)
    OBVIOUS
  <2>1. v \in Seq(Byte) /\ Len(v) = n /\ \A i \in 1..n : v[i] = u[m + i]
    BY <1>1
  <2>2. ASSUME NEW i \in 1..n
        PROVE  v[i] = t[i]
    <3>1. m + i \in 1..(m + n) /\ ~(m + i <= m) /\ (m + i) - m = i
      OBVIOUS
    <3> QED BY <1>1, <2>1, <3>1
  <2> QED BY <2>1, <2>2, SeqEqual
<1> QED BY <1>1, <1>2, <1>3 DEF Made

LEMMA LoadMeant ==
  \A c \in [op : {"load"}, data : Seq(Byte)] :
    newNonceCommand(c) = Nothing \/ Meant(newNonceCommand(c), c)
<1> SUFFICES ASSUME NEW c \in [op : {"load"}, data : Seq(Byte)], Len(c.data) \in {32, 64}
             PROVE  Meant(newNonceCommand(c), c)
  BY DEF newNonceCommand
<1>. PICK d \in Seq(Byte) : d = c.data
  OBVIOUS
<1>1. c = [op |-> "load", data |-> d] /\ Len(d) \in {32, 64}
  OBVIOUS
<1>2. 22 \in Byte /\ 99 \in Byte /\ 67 \in Byte /\ 0 \in Uint16
  BY DEF Byte, Uint16
<1> DEFINE p == newNonceCommand(c)
<1>3. SubSeq(d, 1, Len(d)) = d
  BY SubSeqFull
<1>4. CASE Len(d) = 64
  <2>1. p = newPacket(22, 99, 0, d)
    <3>1. c.data = d /\ Len(d) \in {32, 64}
      BY <1>1
    <3>2. (IF Len(d) = 64 THEN 32 ELSE 0) = 32
      BY <1>4
    <3>3. Or(Or(3, 32), 64) = 99
      BY Zenon, OrOf
    <3> QED BY Zenon, <3>1, <3>2, <3>3 DEF newNonceCommand
  <2> HIDE DEF p
  <2>2. Len(d) <= 151
    BY <1>4
  <2>3. Is(p, 22, 99, 0, d)
    BY Zenon, <1>2, <2>1, <2>2, NewPacket
  <2>4. SubSeq(d, 1, 64) = d
    BY <1>3, <1>4
  <2>5. Meaning(p) = [op |-> "load", data |-> SubSeq(d, 1, 64)]
    BY <2>3 DEF Meaning, Is
  <2> QED BY <1>1, <2>3, <2>4, <2>5 DEF Meant, Is, p
<1>5. CASE Len(d) = 32
  <2>1. p = newPacket(22, 67, 0, d)
    <3>1. c.data = d /\ Len(d) \in {32, 64}
      BY <1>1
    <3>2. (IF Len(d) = 64 THEN 32 ELSE 0) = 0
      BY <1>5
    <3>3. Or(Or(3, 0), 64) = 67
      BY Zenon, OrOf
    <3> QED BY Zenon, <3>1, <3>2, <3>3 DEF newNonceCommand
  <2> HIDE DEF p
  <2>2. Len(d) <= 151
    BY <1>5
  <2>3. Is(p, 22, 67, 0, d)
    BY Zenon, <1>2, <2>1, <2>2, NewPacket
  <2>4. SubSeq(d, 1, 32) = d
    BY <1>3, <1>5
  <2>5. Meaning(p) = [op |-> "load", data |-> SubSeq(d, 1, 32)]
    BY <2>3 DEF Meaning, Is
  <2> QED BY <1>1, <2>3, <2>4, <2>5 DEF Meant, Is, p
<1> QED BY <1>1, <1>4, <1>5

\* A signature and a public key in one buffer.
Joined(u, s, t) ==
  /\ u \in Seq(Byte) /\ Len(u) = 128 /\ SubSeq(u, 1, 64) = s /\ SubSeq(u, 65, 128) = t
  /\ SubSeq(u, 1, 128) = u

LEMMA SignatureAndKey ==
  ASSUME NEW s \in Seq(Byte), NEW t \in Seq(Byte), Len(s) = 64, Len(t) = 64
  PROVE  Joined(s \o t, s, t)
<1>1. Len(s) = 64 /\ Len(s) + 1 = 65 /\ Len(s) + Len(t) = 128
  BY 64 + 1 = 65, 64 + 64 = 128
<1>2. Made(s \o t, s, t)
  BY Zenon, Pieces
<1>3. /\ s \o t \in Seq(Byte) /\ Len(s \o t) = 128
      /\ SubSeq(s \o t, 1, 64) = s /\ SubSeq(s \o t, 65, 128) = t
  BY Zenon, <1>1, <1>2 DEF Made
<1>4. SubSeq(s \o t, 1, Len(s \o t)) = s \o t
  BY Zenon, <1>3, SubSeqFull
<1> QED BY Zenon, <1>3, <1>4 DEF Joined

LEMMA VerifyMeant ==
  \A c \in [op : {"verify"}, sig : {s \in Seq(Byte) : Len(s) = 64}, pub : Seq(Byte)] :
    newVerifyCommand(c) = Nothing \/ Meant(newVerifyCommand(c), c)
<1> SUFFICES ASSUME NEW c \in [op : {"verify"}, sig : {s \in Seq(Byte) : Len(s) = 64},
                               pub : Seq(Byte)],
                    Len(c.pub) = 64
             PROVE  Meant(newVerifyCommand(c), c)
  BY DEF newVerifyCommand
<1>1. PICK s \in Seq(Byte) : s = c.sig /\ Len(s) = 64
  OBVIOUS
<1>2. PICK t \in Seq(Byte) : t = c.pub /\ Len(t) = 64
  OBVIOUS
<1>3. c = [op |-> "verify", sig |-> s, pub |-> t]
  BY <1>1, <1>2
<1>4. 69 \in Byte /\ 34 \in Byte /\ 4 \in Uint16
  BY DEF Byte, Uint16
<1>5. PICK u : u = s \o t
  OBVIOUS
<1>6. Joined(u, s, t)
  BY Zenon, <1>1, <1>2, <1>5, SignatureAndKey
<1>7. /\ u \in Seq(Byte) /\ Len(u) = 128 /\ SubSeq(u, 1, 64) = s /\ SubSeq(u, 65, 128) = t
      /\ SubSeq(u, 1, 128) = u
  BY Zenon, <1>6 DEF Joined
<1> DEFINE p == newVerifyCommand(c)
<1>8. p = newPacket(69, 34, 4, SubSeq(u, 1, 128))
  <2>1. c.sig \o c.pub = u /\ Len(c.pub) = 64
    BY Zenon, <1>1, <1>2, <1>5
  <2>2. (IF Len(u) < atcaCmdSizeMax THEN Len(u) ELSE atcaCmdSizeMax) = 128
    BY <1>7 DEF atcaCmdSizeMax
  <2>3. Or(2, 32) = 34
    BY Zenon, OrOf
  <2> QED BY <2>1, <2>2, <2>3 DEF newVerifyCommand
<1> HIDE DEF p
<1>9. Is(p, 69, 34, 4, u)
  <2>1. p = newPacket(69, 34, 4, u)
    BY Zenon, <1>7, <1>8
  <2>2. Len(u) <= 151 /\ u \in Seq(Byte)
    BY <1>7
  <2> QED BY Zenon, <1>4, <2>1, <2>2, NewPacket
<1>10. Meaning(p) = [op |-> "verify", sig |-> SubSeq(u, 1, 64), pub |-> SubSeq(u, 65, 128)]
  BY <1>7, <1>9 DEF Meaning, Is
<1> QED BY <1>3, <1>7, <1>9, <1>10 DEF Meant, Is, p

LEMMA WriteMeant ==
  \A c \in [op : {"write"}, zone : DOMAIN Zone, addr : Uint16, data : Seq(Byte)] :
    newWriteCommand(c) = Nothing \/ Meant(newWriteCommand(c), c)
<1> SUFFICES ASSUME NEW c \in [op : {"write"}, zone : DOMAIN Zone, addr : Uint16,
                               data : Seq(Byte)],
                    Len(c.data) \in {4, 32}
             PROVE  Meant(newWriteCommand(c), c)
  BY DEF newWriteCommand
<1>. PICK d \in Seq(Byte) : d = c.data
  OBVIOUS
<1>1. PICK z \in DOMAIN Zone : c = [op |-> "write", zone |-> z, addr |-> c.addr, data |-> d]
  OBVIOUS
<1>2. PICK n \in 0..2 : n = Zone[z]
  BY DEF Zone
<1>3. PICK k \in {4, 32} : k = Len(d)
  OBVIOUS
<1>4. k \in Nat /\ 64 - k \in Nat /\ k + (64 - k) = 64
  OBVIOUS
<1> DEFINE pad == [i \in 1..(64 - k) |-> 0]
           u == d \o pad
           m == n + IF k = 32 THEN 128 ELSE 0
           p == newWriteCommand(c)
<1>5. pad \in Seq(Byte) /\ Len(pad) = 64 - k
  <2>1. pad \in [1..(64 - k) -> Byte]
    BY DEF Byte
  <2> HIDE DEF pad
  <2>2. pad \in Seq(Byte)
    BY <1>4, <2>1, SeqDef
  <2> QED BY <1>4, <2>1, <2>2
<1>6. p = newPacket(18, m, c.addr, u)
  <2>1. Zone[c.zone] = n /\ c.data = d /\ Len(d) = k
    BY <1>1, <1>2, <1>3
  <2>2. CASE k = 4
    <3>1. m = n
      BY <2>2
    <3> HIDE DEF m
    <3> QED BY <2>1, <2>2, <3>1 DEF newWriteCommand
  <2>3. CASE k = 32
    <3>1. Or(n, 128) = m
      BY <2>3, OrOf
    <3> HIDE DEF m
    <3> QED BY <2>1, <2>3, <3>1 DEF newWriteCommand, atcaZoneReadWrite32
  <2> QED BY <2>2, <2>3
<1>7. /\ 18 \in Byte /\ m \in Byte /\ m % 4 = n /\ k = (IF m \div 128 = 1 THEN 32 ELSE 4)
      /\ c.addr \in Uint16
  BY DEF Byte
<1> HIDE DEF pad
<1>8. u \in Seq(Byte) /\ Len(u) <= 151 /\ SubSeq(u, 1, k) = d
  <2>1. u \in Seq(Byte) /\ Len(u) = Len(d) + Len(pad) /\ SubSeq(u, 1, Len(d)) = d
    BY <1>5, Pieces DEF Made
  <2> QED BY <1>3, <1>4, <1>5, <2>1
<1> HIDE DEF u, m, p
<1>9. Is(p, 18, m, c.addr, u)
  BY Zenon, <1>6, <1>7, <1>8, NewPacket
<1>10. Names(Zone, n) = z
  BY <1>2, NamesAre
<1>11. Meaning(p) = [op |-> "write", zone |-> z, addr |-> c.addr, data |-> SubSeq(u, 1, k)]
  BY <1>7, <1>9, <1>10 DEF Meaning, Is
<1> QED BY <1>1, <1>8, <1>9, <1>11 DEF Meant, Is, p

\* Whatever may be asked, the packet made for it means that to the chip.
THEOREM PacketMeansAsked ==
  \A c \in Asked : Packet(c) = Nothing \/ (Packet(c) \in Packets /\ Meaning(Packet(c)) = c)
<1> SUFFICES ASSUME NEW c \in Asked
             PROVE  Packet(c) = Nothing \/ Meant(Packet(c), c)
  BY DEF Meant
<1>1. CASE c \in [op : {"info", "random"}]
  <2>1. CASE c \in [op : {"info"}]
    BY <2>1, InfoMeant DEF Packet
  <2>2. CASE c \in [op : {"random"}]
    BY <2>2, RandomMeant DEF Packet
  <2> QED BY <1>1, <2>1, <2>2
<1>2. CASE c \in [op : {"lock"}, what : {"config", "data"}, slot : {0}]
  BY <1>2, LockZoneMeant DEF Packet
<1>3. CASE c \in [op : {"lock"}, what : {"slot"}, slot : 0..15]
  BY <1>3, LockSlotMeant DEF Packet
<1>4. CASE c \in [op : {"read"}, zone : DOMAIN Zone, addr : Uint16, block : BOOLEAN]
  BY <1>4, ReadMeant DEF Packet
<1>5. CASE c \in [op : {"genkey"}, new : BOOLEAN, slot : Byte]
  BY <1>5, GenKeyMeant DEF Packet
<1>6. CASE c \in [op : {"sign"}, slot : Uint16]
  BY <1>6, SignMeant DEF Packet
<1>7. CASE c \in [op : {"load"}, data : Seq(Byte)]
  BY <1>7, LoadMeant DEF Packet
<1>8. CASE c \in [op : {"verify"}, sig : {s \in Seq(Byte) : Len(s) = 64}, pub : Seq(Byte)]
  BY <1>8, VerifyMeant DEF Packet
<1>9. CASE c \in [op : {"write"}, zone : DOMAIN Zone, addr : Uint16, data : Seq(Byte)]
  BY <1>9, WriteMeant DEF Packet
<1>10. CASE c \in [op : {"extra"}, byte : DOMAIN updateMode, value : Byte]
  BY <1>10, ExtraMeant DEF Packet
<1> QED BY <1>1, <1>2, <1>3, <1>4, <1>5, <1>6, <1>7, <1>8, <1>9, <1>10 DEF Asked

-----------------------------------------------------------------------------
(* The frame of a packet, and of an answer.                                *)

\* What the chip reads in an undamaged frame.
Carries(f, p) ==
  /\ f[2] = p.opcode /\ f[3] = p.param1 /\ Word(<<f[4], f[5]>>) = p.param2
  /\ SubSeq(f, 6, Len(f) - 2) = p.data

LEMMA HalvesOfWord ==
  ASSUME NEW w \in Uint16
  PROVE  Halves(w) = <<w % 256, w \div 256>> /\ w % 256 \in Byte /\ w \div 256 \in Byte
         /\ Word(<<w % 256, w \div 256>>) = w
<1>1. w \in Nat /\ w < 65536
  BY DEF Uint16
<1>2. w % 256 \in Byte /\ w \div 256 \in Byte /\ (w % 256) + 256 * (w \div 256) = w
  BY <1>1 DEF Byte
<1> QED BY <1>2 DEF Halves, Word

\* One sequence behind another.
Behind(b, h, d, k, n) ==
  /\ b \in Seq(Byte) /\ Len(b) = k + n
  /\ \A i \in 1..k : b[i] = h[i]
  /\ \A i \in 1..n : b[k + i] = d[i]

LEMMA HeadAndData ==
  ASSUME NEW h \in Seq(Byte), NEW d \in Seq(Byte), NEW k \in Nat, NEW n \in Nat,
         Len(h) = k, Len(d) = n
  PROVE  Behind(h \o d, h, d, k, n)
<1>1. PICK b : b = h \o d
  OBVIOUS
<1>2. /\ b \in Seq(Byte) /\ Len(b) = k + n
      /\ \A i \in 1..(k + n) : b[i] = IF i <= k THEN h[i] ELSE d[i - k]
  <2>1. /\ h \o d \in Seq(Byte) /\ Len(h \o d) = Len(h) + Len(d)
        /\ \A i \in 1..(Len(h) + Len(d)) :
             (h \o d)[i] = IF i <= Len(h) THEN h[i] ELSE d[i - Len(h)]
    BY ConcatProperties
  <2> QED BY Zenon, <1>1, <2>1
<1>3. \A i \in 1..k : b[i] = h[i]
  <2>1. \A i \in 1..k : i \in 1..(k + n) /\ i <= k
    OBVIOUS
  <2> QED BY Zenon, <1>2, <2>1
<1>4. ASSUME NEW i \in 1..n
      PROVE  b[k + i] = d[i]
  <2>1. k + i \in 1..(k + n) /\ ~(k + i <= k) /\ (k + i) - k = i
    OBVIOUS
  <2> QED BY Zenon, <1>2, <2>1
<1> QED BY Zenon, <1>1, <1>2, <1>3, <1>4 DEF Behind

LEMMA FiveBytes ==
  ASSUME NEW a \in Byte, NEW b \in Byte, NEW c \in Byte, NEW d \in Byte, NEW e \in Byte
  PROVE  <<a, b, c>> \o <<d, e>> = <<a, b, c, d, e>>
<1>1. PICK s : s = <<a, b, c>>
  OBVIOUS
<1>2. PICK t : t = <<d, e>>
  OBVIOUS
<1>3. PICK u : u = <<a, b, c, d, e>>
  OBVIOUS
<1>4. s \in Seq(Byte) /\ Len(s) = 3 /\ s[1] = a /\ s[2] = b /\ s[3] = c
  BY <1>1
<1>5. t \in Seq(Byte) /\ Len(t) = 2 /\ t[1] = d /\ t[2] = e
  BY <1>2
<1>6. /\ u \in Seq(Byte) /\ Len(u) = 5
      /\ u[1] = a /\ u[2] = b /\ u[3] = c /\ u[4] = d /\ u[5] = e
  BY <1>3
<1>7. PICK v : v = s \o t
  OBVIOUS
<1>8. v \in Seq(Byte) /\ Len(v) = 5 /\ v[1] = a /\ v[2] = b /\ v[3] = c /\ v[4] = d /\ v[5] = e
  <2>1. /\ 3 \in Nat /\ 2 \in Nat /\ 3 + 2 = 5 /\ 3 + 1 = 4
        /\ 1 \in 1..3 /\ 2 \in 1..3 /\ 3 \in 1..3 /\ 1 \in 1..2 /\ 2 \in 1..2
    OBVIOUS
  <2>2. Behind(v, s, t, 3, 2)
    BY Zenon, <1>4, <1>5, <1>7, <2>1, HeadAndData
  <2> QED BY Zenon, <1>4, <1>5, <2>1, <2>2 DEF Behind
<1>9. \A i \in 1..5 : v[i] = u[i]
  BY <1>6, <1>8
<1>10. v = u
  BY <1>6, <1>8, <1>9, SeqEqual
<1> QED BY Zenon, <1>1, <1>2, <1>3, <1>7, <1>10

LEMMA EncodeIs ==
  ASSUME NEW p \in Packets
  PROVE  \E b \in Seq(Byte) :
           /\ Encode(p) = Frame(b) /\ Len(b) = Len(p.data) + 5 /\ b[1] = Len(b) + 2
           /\ Len(b) + 2 \in Byte /\ Carries(Frame(b), p)
<1>1. /\ p.opcode \in Byte /\ p.param1 \in Byte /\ p.param2 \in Uint16 /\ p.data \in Seq(Byte)
      /\ Len(p.data) <= 151
  BY DEF Packets, atcaCmdSizeMax
<1>2. PICK d \in Seq(Byte) : d = p.data
  BY <1>1
<1>3. PICK n \in Nat : n = Len(d)
  BY <1>2
<1>16. n <= 151
  BY Zenon, <1>1, <1>2, <1>3
<1> DEFINE lo == p.param2 % 256
           hi == p.param2 \div 256
           h == <<7 + n, p.opcode, p.param1, lo, hi>>
           b == h \o d
<1>4. Halves(p.param2) = <<lo, hi>> /\ lo \in Byte /\ hi \in Byte /\ Word(<<lo, hi>>) = p.param2
  BY <1>1, HalvesOfWord
<1> HIDE DEF lo, hi
<1>5. <<(7 + Len(p.data)) % 256, p.opcode, p.param1>> \o Halves(p.param2) = h
  <2>1. (7 + n) % 256 = 7 + n
    BY <1>16
  <2>2. <<7 + n, p.opcode, p.param1>> \o <<lo, hi>> = h
    <3>1. 7 + n \in Byte
      BY <1>16 DEF Byte
    <3>2. p.opcode \in Byte /\ p.param1 \in Byte
      BY <1>1
    <3>3. lo \in Byte /\ hi \in Byte
      BY <1>4
    <3> QED BY <3>1, <3>2, <3>3, FiveBytes
  <2> QED BY Zenon, <1>2, <1>3, <1>4, <2>1, <2>2
<1>6. Encode(p) = Frame(b)
  BY Zenon, <1>2, <1>5 DEF Encode, Frame
<1>7. h \in Seq(Byte) /\ Len(h) = 5
  <2>1. 7 + n \in Byte
    BY <1>16 DEF Byte
  <2> QED BY <1>1, <1>4, <2>1
<1>8. h[1] = 7 + n /\ h[2] = p.opcode /\ h[3] = p.param1 /\ h[4] = lo /\ h[5] = hi
  OBVIOUS
<1> HIDE DEF h
<1>9. /\ b \in Seq(Byte) /\ Len(b) = n + 5
      /\ \A i \in 1..5 : b[i] = h[i]
      /\ \A i \in 1..n : b[5 + i] = d[i]
  <2>1. 5 \in Nat /\ 5 + n = n + 5
    OBVIOUS
  <2>2. Behind(b, h, d, 5, n)
    BY Zenon, <1>3, <1>7, <2>1, HeadAndData
  <2> QED BY Zenon, <2>1, <2>2 DEF Behind
<1> HIDE DEF b
<1>10. PICK f : f = Frame(b)
  OBVIOUS
<1>11. f \in Seq(Byte) /\ Len(f) = n + 7 /\ \A i \in 1..(n + 5) : f[i] = b[i]
  <2>1. (n + 5) + 2 = n + 7
    OBVIOUS
  <2>2. f \in Seq(Byte) /\ Len(f) = Len(b) + 2 /\ \A i \in 1..Len(b) : f[i] = b[i]
    BY <1>9, <1>10, FrameIs
  <2> QED BY Zenon, <1>9, <2>1, <2>2
<1>12. f[2] = p.opcode /\ f[3] = p.param1 /\ f[4] = lo /\ f[5] = hi
  BY <1>8, <1>9, <1>11
<1>13. SubSeq(f, 6, Len(f) - 2) = d
  <2>1. PICK s : s = SubSeq(f, 6, Len(f) - 2)
    OBVIOUS
  <2>2. s \in Seq(Byte) /\ Len(s) = n /\ \A i \in 1..n : s[i] = f[5 + i]
    BY <1>11, <2>1
  <2>3. \A i \in 1..n : s[i] = d[i]
    BY <1>9, <1>11, <2>2
  <2> QED BY <1>3, <2>1, <2>2, <2>3, SeqEqual
<1>14. Carries(f, p)
  BY Zenon, <1>2, <1>4, <1>12, <1>13 DEF Carries
<1>15. Len(b) = Len(p.data) + 5 /\ b[1] = Len(b) + 2 /\ Len(b) + 2 \in Byte
  <2>1. b[1] = 7 + n
    BY <1>8, <1>9
  <2>2. n + 5 + 2 = 7 + n /\ 7 + n \in Byte
    BY <1>16 DEF Byte
  <2> QED BY Zenon, <1>2, <1>3, <1>9, <2>1, <2>2
<1> QED BY <1>6, <1>9, <1>10, <1>14, <1>15

\* The checksum is the same for both, so that the chip refuses what is not
\* sound, and takes a sound frame of the right size for the packet it carries.
LEMMA HearsUnsound ==
  ASSUME NEW f \in Seq(Byte), Len(f) >= 2, ~Sound(f)
  PROVE  Hears(f) = Nothing
<1>1. SubSeq(f, 1, Len(f) - 2) \in Seq(Byte)
  OBVIOUS
<1>2. SubSeq(f, Len(f) - 1, Len(f)) # CrcBytes(ChipCrc(SubSeq(f, 1, Len(f) - 2)))
  BY <1>1, SameChecksum DEF Sound
<1> QED BY <1>2 DEF Hears

LEMMA MeaningOf ==
  ASSUME NEW p, NEW q, p.opcode = q.opcode, p.param1 = q.param1, p.param2 = q.param2,
         p.data = q.data
  PROVE  Meaning(p) = Meaning(q)
BY ZenonT(60) DEF Meaning

LEMMA HearsFrame ==
  ASSUME NEW b \in Seq(Byte), Len(b) >= 5, b[1] = Len(b) + 2, NEW p, Carries(Frame(b), p)
  PROVE  Hears(Frame(b)) = Meaning(p)
<1>1. PICK f : f = Frame(b)
  OBVIOUS
<1>2. PICK n \in Nat : n = Len(b)
  OBVIOUS
<1>3. f \in Seq(Byte) /\ Len(f) = n + 2 /\ f[1] = n + 2 /\ Sound(f) /\ SubSeq(f, 1, n) = b
  <2>1. f \in Seq(Byte) /\ Len(f) = Len(b) + 2 /\ \A i \in 1..Len(b) : f[i] = b[i]
    BY <1>1, FrameIs
  <2>2. Sound(f) /\ SubSeq(f, 1, Len(b)) = b
    BY Zenon, <1>1, FrameSound
  <2>3. 1 \in 1..n
    BY <1>2
  <2> QED BY Zenon, <1>2, <2>1, <2>2, <2>3
<1>4. Len(f) - 2 = n /\ f[1] = Len(f)
  BY <1>3
<1>5. SubSeq(f, Len(f) - 1, Len(f)) = CrcBytes(ChipCrc(SubSeq(f, 1, Len(f) - 2)))
  BY <1>3, <1>4, SameChecksum DEF Sound
<1>6. Hears(f) = Meaning([opcode |-> f[2], param1 |-> f[3], param2 |-> Word(<<f[4], f[5]>>),
                          data |-> SubSeq(f, 6, Len(f) - 2)])
  BY Zenon, <1>4, <1>5 DEF Hears
<1>. PICK q : q = [opcode |-> f[2], param1 |-> f[3], param2 |-> Word(<<f[4], f[5]>>),
                   data |-> SubSeq(f, 6, Len(f) - 2)]
  OBVIOUS
<1>7. q.opcode = f[2] /\ q.param1 = f[3] /\ q.param2 = Word(<<f[4], f[5]>>)
      /\ q.data = SubSeq(f, 6, Len(f) - 2)
  OBVIOUS
<1>8. q.opcode = p.opcode /\ q.param1 = p.param1 /\ q.param2 = p.param2 /\ q.data = p.data
  BY Zenon, <1>1, <1>7 DEF Carries
<1> QED BY Zenon, <1>1, <1>6, <1>8, MeaningOf

LEMMA SizeIsByte ==
  ASSUME NEW n \in 1..64
  PROVE  n + 3 \in Byte
BY DEF Byte

\* An answer.
LEMMA FramedIs ==
  ASSUME NEW d \in Seq(Byte), NEW n \in 1..64, n = Len(d)
  PROVE  \E b \in Seq(Byte) :
           /\ Framed(d) = Frame(b) /\ Len(b) = Len(d) + 1 /\ b[1] = Len(b) + 2
           /\ Len(b) + 2 \in Byte /\ Sound(Frame(b))
           /\ Frame(b)[2] = d[1] /\ SubSeq(Frame(b), 2, Len(Frame(b)) - 2) = d
<1>1. n = Len(d) /\ n \in Nat
  OBVIOUS
<1> DEFINE h == <<n + 3>>
           b == h \o d
<1>2. h \in Seq(Byte) /\ Len(h) = 1 /\ h[1] = n + 3 /\ n + 3 \in Byte
  <2>1. n + 3 \in Byte
    BY Zenon, SizeIsByte
  <2> QED BY <2>1
<1>13. Framed(d) = b \o CrcBytes(ChipCrc(b))
  BY <1>1 DEF Framed
<1> HIDE DEF h
<1>3. /\ b \in Seq(Byte) /\ Len(b) = n + 1 /\ b[1] = n + 3
      /\ \A i \in 1..n : b[i + 1] = d[i]
  <2>1. 1 \in Nat /\ 1 \in 1..1 /\ 1 + n = n + 1
    OBVIOUS
  <2>2. Behind(b, h, d, 1, n)
    BY Zenon, <1>1, <1>2, <2>1, HeadAndData
  <2>3. b \in Seq(Byte) /\ Len(b) = n + 1 /\ b[1] = n + 3
    BY Zenon, <1>2, <2>1, <2>2 DEF Behind
  <2>4. \A i \in 1..n : b[i + 1] = d[i]
    <3>1. \A i \in 1..n : i + 1 = 1 + i
      OBVIOUS
    <3> QED BY Zenon, <2>2, <3>1 DEF Behind
  <2> QED BY <2>3, <2>4
<1>4. ChipCrc(b) = crc16(b)
  BY <1>3, SameChecksum
<1>5. Framed(d) = Frame(b)
  BY Zenon, <1>4, <1>13 DEF Frame
<1> HIDE DEF b
<1>6. PICK f : f = Frame(b)
  OBVIOUS
<1>7. f \in Seq(Byte) /\ Len(f) = n + 3 /\ \A i \in 1..(n + 1) : f[i] = b[i]
  <2>1. (n + 1) + 2 = n + 3
    OBVIOUS
  <2>2. f \in Seq(Byte) /\ Len(f) = Len(b) + 2 /\ \A i \in 1..Len(b) : f[i] = b[i]
    BY <1>3, <1>6, FrameIs
  <2> QED BY Zenon, <1>3, <2>1, <2>2
<1>8. Sound(f)
  BY <1>3, <1>6, FrameSound
<1>9. \A i \in 1..n : f[i + 1] = d[i]
  BY <1>3, <1>7
<1>10. f[2] = d[1]
  <2>1. 1 \in 1..n /\ 1 + 1 = 2
    OBVIOUS
  <2> QED BY <1>9, <2>1
<1>11. SubSeq(f, 2, Len(f) - 2) = d
  <2>1. PICK s : s = SubSeq(f, 2, Len(f) - 2)
    OBVIOUS
  <2>2. s \in Seq(Byte) /\ Len(s) = n /\ \A i \in 1..n : s[i] = f[i + 1]
    BY <1>7, <2>1
  <2>3. \A i \in 1..n : s[i] = d[i]
    BY <1>9, <2>2
  <2> QED BY <1>1, <2>1, <2>2, <2>3, SeqEqual
<1>12. Len(b) = Len(d) + 1 /\ b[1] = Len(b) + 2 /\ Len(b) + 2 \in Byte
  <2>1. (n + 1) + 2 = n + 3
    OBVIOUS
  <2> QED BY Zenon, <1>1, <1>2, <1>3, <2>1
<1> QED BY <1>3, <1>5, <1>6, <1>8, <1>10, <1>11, <1>12

\* What Damage does to a frame.
Adds(u, x, y) == u \in Byte /\ (u = x <=> y = 0)

LEMMA Added ==
  ASSUME NEW x \in Byte, NEW y \in Byte
  PROVE  Adds((x + y) % 256, x, y)
<1>1. x \in 0..255 /\ y \in 0..255
  BY DEF Byte
<1>2. CASE x + y < 256
  <2>1. (x + y) % 256 = x + y
    BY <1>1, <1>2
  <2> QED BY <1>1, <1>2, <2>1 DEF Byte, Adds
<1>3. CASE ~(x + y < 256)
  <2>1. (x + y) % 256 = x + y - 256
    BY <1>1, <1>3
  <2> QED BY <1>1, <1>3, <2>1 DEF Byte, Adds
<1> QED BY <1>2, <1>3

Touched(g, f, i, u, v, n) ==
  /\ g \in Seq(Byte) /\ Len(g) = n /\ g[i] = u /\ g[i + 1] = v
  /\ \A j \in 1..n : j \notin {i, i + 1} => g[j] = f[j]

LEMMA TwoTouched ==
  ASSUME NEW f \in Seq(Byte), NEW n \in Nat, Len(f) = n, NEW i \in 1..n, i + 1 \in 1..n,
         NEW u \in Byte, NEW v \in Byte, NEW g, g = [f EXCEPT ![i] = u, ![i + 1] = v]
  PROVE  Touched(g, f, i, u, v, n)
<1>1. f \in [1..n -> Byte]
  OBVIOUS
<1>2. g \in [1..n -> Byte]
  BY <1>1
<1>3. g[i] = u /\ g[i + 1] = v /\ \A j \in 1..n : j \notin {i, i + 1} => g[j] = f[j]
  <2>1. i # i + 1
    OBVIOUS
  <2> QED BY Zenon, <1>1, <2>1
<1>4. g \in Seq(Byte) /\ Len(g) = n
  BY <1>2, SeqDef
<1> QED BY <1>3, <1>4 DEF Touched

Differs(g, data, i) ==
  /\ g \in Seq(Byte) /\ Len(g) = Len(data) + 2 /\ g # Frame(data) /\ i \in 1..(Len(data) + 1)
  /\ \A j \in 1..(Len(data) + 2) : j \notin {i, i + 1} => g[j] = Frame(data)[j]
  /\ i = Len(data) => g[i] = Frame(data)[i] \/ g[i + 1] = Frame(data)[i + 1]

LEMMA DifferenceSeen ==
  ASSUME NEW data \in Seq(Byte), NEW g, NEW i, Differs(g, data, i)
  PROVE  ~Sound(g)
BY Zenon, DamageSeen DEF Differs

Marred(g, b, i, x, n) ==
  /\ g \in Seq(Byte) /\ Len(g) = n + 2 /\ g[1] = Frame(b)[1]
  /\ ~(i = n /\ x[1] # 0 /\ x[2] # 0) => ~Sound(g)

LEMMA DamageIs ==
  ASSUME NEW b \in Seq(Byte), NEW n \in Nat, Len(b) = n, NEW i \in 2..(n + 1), NEW x \in Bursts,
         NEW g, g = [Frame(b) EXCEPT ![i] = (@ + x[1]) % 256, ![i + 1] = (@ + x[2]) % 256]
  PROVE  Marred(g, b, i, x, n)
<1> DEFINE f == Frame(b)
<1>2. f \in Seq(Byte) /\ Len(f) = n + 2
  BY Zenon, FrameIs
<1>3. /\ n + 2 \in Nat /\ i \in 1..(n + 2) /\ i + 1 \in 1..(n + 2) /\ 1 \in 1..(n + 2)
      /\ 1 \notin {i, i + 1} /\ i \in 1..(n + 1) /\ n + 1 \in Nat
  OBVIOUS
<1>4. f[i] \in Byte /\ f[i + 1] \in Byte
  <2> HIDE DEF f
  <2> QED BY <1>2, <1>3
<1>5. /\ x[1] \in Byte /\ x[2] \in Byte /\ (x[1] # 0 \/ x[2] # 0)
  <2>1. x \in Byte \X Byte /\ x # <<0, 0>>
    BY WireAssumption
  <2> QED BY <2>1
<1> DEFINE u == (f[i] + x[1]) % 256
           v == (f[i + 1] + x[2]) % 256
<1>7. g = [f EXCEPT ![i] = u, ![i + 1] = v]
  OBVIOUS
<1> HIDE DEF f
<1>6. /\ u \in Byte /\ (u = f[i] <=> x[1] = 0)
      /\ v \in Byte /\ (v = f[i + 1] <=> x[2] = 0)
  <2>1. Adds(u, f[i], x[1])
    BY Zenon, <1>4, <1>5, Added
  <2>2. Adds(v, f[i + 1], x[2])
    BY Zenon, <1>4, <1>5, Added
  <2> QED BY Zenon, <2>1, <2>2 DEF Adds
<1> HIDE DEF u, v
<1>8. Touched(g, f, i, u, v, n + 2)
  BY Zenon, <1>2, <1>3, <1>6, <1>7, TwoTouched
<1>9. g \in Seq(Byte) /\ Len(g) = n + 2 /\ g[1] = f[1]
  BY Zenon, <1>3, <1>8 DEF Touched
<1>10. ASSUME ~(i = n /\ x[1] # 0 /\ x[2] # 0)
       PROVE  ~Sound(g)
  <2>1. g # f
    BY Zenon, <1>5, <1>6, <1>8 DEF Touched
  <2>2. i = n => g[i] = f[i] \/ g[i + 1] = f[i + 1]
    BY Zenon, <1>6, <1>8, <1>10 DEF Touched
  <2>3. \A j \in 1..(n + 2) : j \notin {i, i + 1} => g[j] = f[j]
    BY Zenon, <1>8 DEF Touched
  <2>4. Differs(g, b, i)
    BY Zenon, <1>3, <1>9, <2>1, <2>2, <2>3 DEF f, Differs
  <2> QED BY Zenon, <2>4, DifferenceSeen
<1> QED BY Zenon, <1>9, <1>10 DEF f, Marred

-----------------------------------------------------------------------------
(* The inductive invariant: what is known of the frame on its way, to the   *)
(* chip and back, by what was damaged.                                     *)

Fresh == pc = "ready" => hit = "nothing" /\ result = Nothing

OnItsWay(f, p) ==
  /\ hit = "nothing" => f = Encode(p)
  /\ hit = "request" => Len(f) >= 2 /\ ~Sound(f)

Sent ==
  pc = "request" =>
    /\ cmd \in Requests /\ Packet(cmd) # Nothing /\ result = Nothing
    /\ hit \in {"nothing", "request", "across"}
    /\ OnItsWay(bytes, Packet(cmd))

\* The payload d carries what the chip, which heard h, says.
Says(d, h, s) ==
  /\ d \in Seq(Byte) /\ Len(d) \in 1..64
  /\ \/ s = Error("status") /\ Len(d) = 1 /\ d[1] # 0
     \/ s = Answered(d) /\ h # Nothing /\ Len(d) = recvSize(h) /\ (Len(d) = 1 => d[1] = 0)

Payload(f) == SubSeq(f, 2, Len(f) - 2)
Answering(f, h, s) == f = Framed(Payload(f)) /\ Says(Payload(f), h, s)

Sized(f) == f \in Seq(Byte) /\ Len(f) >= 4 /\ f[1] = Len(f)

OnItsWayBack(f) ==
  /\ hit \in {"nothing", "request"} => Answering(f, heard, said)
  /\ hit = "answer" => ~Sound(f)
  /\ hit = "size" => hal = "i2c" /\ Len(f) >= 1
  /\ hit # "size" => Sized(f)

Returned ==
  pc = "answer" =>
    /\ cmd \in Requests /\ result = Nothing
    /\ hit # "across" => heard = IF hit = "request" THEN Nothing ELSE cmd
    /\ OnItsWayBack(bytes)

IInv ==
  /\ TypeOK /\ Fresh /\ Sent /\ Returned
  /\ HeardAsAsked /\ AnswerWhole /\ DamageDetected

-----------------------------------------------------------------------------
(* To the chip.                                                            *)

LEMMA HearsEncode ==
  ASSUME NEW p \in Packets
  PROVE  Encode(p) \in Seq(Byte) /\ Hears(Encode(p)) = Meaning(p)
<1>1. PICK b \in Seq(Byte) :
        /\ Encode(p) = Frame(b) /\ Len(b) = Len(p.data) + 5 /\ b[1] = Len(b) + 2
        /\ Len(b) + 2 \in Byte /\ Carries(Frame(b), p)
  BY Zenon, EncodeIs
<1>2. Len(b) >= 5
  <2>1. p.data \in Seq(Byte)
    BY DEF Packets
  <2>2. PICK n \in Nat : n = Len(p.data)
    BY <2>1
  <2>3. n + 5 >= 5
    OBVIOUS
  <2> QED BY Zenon, <1>1, <2>2, <2>3
<1>3. Hears(Frame(b)) = Meaning(p)
  BY Zenon, <1>1, <1>2, HearsFrame
<1>4. Frame(b) \in Seq(Byte)
  BY FrameIs
<1> QED BY Zenon, <1>1, <1>3, <1>4

\* How far an undamaged request got: what was asked is heard, what was damaged
\* is not.
LEMMA Heard ==
  ASSUME NEW c \in Asked, Packet(c) # Nothing, NEW f \in Seq(Byte), OnItsWay(f, Packet(c)),
         hit \in {"nothing", "request"}
  PROVE  Hears(f) = IF hit = "request" THEN Nothing ELSE c
<1>1. Packet(c) \in Packets /\ Meaning(Packet(c)) = c
  BY Zenon, PacketMeansAsked
<1>2. CASE hit = "nothing"
  <2>1. f = Encode(Packet(c))
    BY <1>2 DEF OnItsWay
  <2>2. Hears(f) = c
    BY Zenon, <1>1, <2>1, HearsEncode
  <2> QED BY Zenon, <1>2, <2>2
<1>3. CASE hit = "request"
  <2>1. Len(f) >= 2 /\ ~Sound(f)
    BY <1>3 DEF OnItsWay
  <2>2. Hears(f) = Nothing
    BY Zenon, <2>1, HearsUnsound
  <2> QED BY Zenon, <1>3, <2>2
<1> QED BY <1>2, <1>3

-----------------------------------------------------------------------------
(* Back from it.                                                           *)

LEMMA Room ==
  ASSUME NEW c
  PROVE  recvSize(c) \in {1, 4, 32, 64} /\ (recvSize(c) = 1 <=> DataSize(c) = 0)
         /\ (recvSize(c) # 1 => recvSize(c) = DataSize(c))
<1>1. DataSize(c) \in {0, 4, 32, 64}
  BY DEF DataSize
<1> QED BY <1>1 DEF recvSize

LEMMA DataIs ==
  ASSUME NEW n \in {4, 32, 64}, NEW fill \in Byte
  PROVE  Data(n, fill) \in Seq(Byte) /\ Len(Data(n, fill)) = n
<1>1. Data(n, fill) \in [1..n -> Byte]
  BY DEF Data, Byte
<1>2. n \in Nat
  OBVIOUS
<1> QED BY <1>1, <1>2, SeqDef

LEMMA AnswerIs ==
  ASSUME NEW d, NEW h, NEW s, Says(d, h, s)
  PROVE  /\ Answering(Framed(d), h, s) /\ Sized(Framed(d)) /\ Sound(Framed(d))
         /\ Framed(d)[2] = d[1] /\ Len(Framed(d)) = Len(d) + 3
<1>1. d \in Seq(Byte) /\ Len(d) \in 1..64
  BY DEF Says
<1>2. PICK n \in 1..64 : n = Len(d)
  BY <1>1
<1>3. PICK b \in Seq(Byte) :
        /\ Framed(d) = Frame(b) /\ Len(b) = Len(d) + 1 /\ b[1] = Len(b) + 2
        /\ Len(b) + 2 \in Byte /\ Sound(Frame(b))
        /\ Frame(b)[2] = d[1] /\ SubSeq(Frame(b), 2, Len(Frame(b)) - 2) = d
  BY Zenon, <1>1, <1>2, FramedIs
<1>4. PICK f : f = Framed(d)
  OBVIOUS
<1>5. Payload(f) = d
  BY Zenon, <1>3, <1>4 DEF Payload
<1>6. Answering(f, h, s)
  BY Zenon, <1>4, <1>5 DEF Answering
<1>7. f \in Seq(Byte) /\ Len(f) = Len(b) + 2 /\ \A i \in 1..Len(b) : f[i] = b[i]
  BY <1>3, <1>4, FrameIs
<1>8. Len(b) = n + 1 /\ 1 \in 1..(n + 1) /\ (n + 1) + 2 >= 4
  <2>1. 1 \in 1..(n + 1) /\ (n + 1) + 2 >= 4
    OBVIOUS
  <2> QED BY Zenon, <1>2, <1>3, <2>1
<1>9. Sized(f)
  BY Zenon, <1>3, <1>7, <1>8 DEF Sized
<1>10. Len(f) = Len(d) + 3
  <2>1. (n + 1) + 2 = n + 3
    OBVIOUS
  <2> QED BY Zenon, <1>2, <1>7, <1>8, <2>1
<1> QED BY Zenon, <1>3, <1>4, <1>6, <1>9, <1>10

\* A frame as long as it says is read whole, where there is room for it.
Fetched(r, f, cap) ==
  \/ Len(f) <= cap /\ r = Answered(f)
  \/ ~(Len(f) <= cap) /\ \E e \in {"overflow", "end of frame"} : r = Error(e)

LEMMA PacketsSuffice ==
  ASSUME NEW n \in Nat, NEW cap \in Nat, n <= cap
  PROVE  ~(3 + 2 * n >= kitPackets(cap) * PacketSize)
<1>1. \A x \in Nat : x < (x \div 64 + 1) * 64
  OBVIOUS
<1>2. 2 * cap + 38 \in Nat /\ 3 + 2 * n < 2 * cap + 38
  OBVIOUS
<1>3. 2 * cap + 38 < ((2 * cap + 38) \div 64 + 1) * 64
  BY <1>1, <1>2
<1> DEFINE k == ((2 * cap + 38) \div 64 + 1) * 64
<1>4. k \in Int
  OBVIOUS
<1> HIDE DEF k
<1>5. ~(3 + 2 * n >= k)
  BY <1>2, <1>3, <1>4 DEF k
<1> QED BY <1>5 DEF kitPackets, kitRxWrapSize, PacketSize, k

LEMMA ReadWhole ==
  ASSUME NEW f, Sized(f), NEW cap \in Nat, hal \in {"i2c", "kit"}
  PROVE  Fetched(HalRead(f, cap), f, cap)
<1>1. PICK n \in Nat : n = Len(f)
  BY DEF Sized
<1>2. f \in Seq(Byte) /\ Len(f) = n /\ f[1] = n /\ n >= 4
  BY Zenon, <1>1 DEF Sized
<1>3. CASE hal = "i2c"
  <2>1. CASE n <= cap
    <3>1. [i \in 1..f[1] |-> IF i <= Len(f) THEN f[i] ELSE 255] = f
      BY <1>2
    <3>2. ~(f[1] > cap) /\ ~(f[1] < 4)
      BY <1>2, <2>1
    <3>3. I2CRead(f, cap) = Answered(f)
      BY Zenon, <3>1, <3>2 DEF I2CRead
    <3> QED BY Zenon, <1>2, <1>3, <2>1, <3>3 DEF HalRead, Fetched
  <2>2. CASE ~(n <= cap)
    <3>1. f[1] > cap
      BY <1>2, <2>2
    <3>2. I2CRead(f, cap) = Error("overflow")
      BY Zenon, <3>1 DEF I2CRead
    <3> QED BY Zenon, <1>2, <1>3, <2>2, <3>2 DEF HalRead, Fetched
  <2> QED BY <2>1, <2>2
<1>4. CASE hal = "kit"
  <2>1. HalRead(f, cap) = KitRead(f, cap)
    BY <1>4 DEF HalRead
  <2>2. CASE n <= cap
    <3>1. ~(3 + 2 * Len(f) >= kitPackets(cap) * PacketSize)
      BY Zenon, <1>2, <2>2, PacketsSuffice
    <3>2. ~(Len(f) > cap)
      BY <1>2, <2>2
    <3>3. KitRead(f, cap) = Answered(f)
      BY Zenon, <3>1, <3>2 DEF KitRead
    <3> QED BY Zenon, <1>2, <2>1, <2>2, <3>3 DEF Fetched
  <2>3. CASE ~(n <= cap)
    <3>1. Len(f) > cap
      BY <1>2, <2>3
    <3>2. KitRead(f, cap) \in {Error("end of frame"), Error("overflow")}
      BY Zenon, <3>1 DEF KitRead
    <3> QED BY Zenon, <1>2, <2>1, <2>3, <3>2 DEF Fetched
  <2> QED BY <2>2, <2>3
<1> QED BY <1>3, <1>4

\* What executeResponse makes of it.
LEMMA NotAnAnswer ==
  ASSUME NEW f, Sized(f), ~Sound(f), NEW cap \in Nat, hal \in {"i2c", "kit"}
  PROVE  \E e \in {"overflow", "end of frame", "crc"} : Respond(HalRead(f, cap)) = Error(e)
<1>1. PICK r : r = HalRead(f, cap)
  OBVIOUS
<1>2. Fetched(r, f, cap)
  BY Zenon, <1>1, ReadWhole
<1>3. CASE r = Answered(f)
  <2>1. ~(Len(f) < 2)
    <3>1. PICK n \in Nat : n = Len(f)
      BY DEF Sized
    <3>2. n >= 4
      BY Zenon, <3>1 DEF Sized
    <3>3. ~(n < 2)
      BY <3>2
    <3> QED BY Zenon, <3>1, <3>3
  <2>2. r.op = "data" /\ r.data = f
    BY <1>3 DEF Answered
  <2>3. Respond(r) = Error("crc")
    BY Zenon, <2>1, <2>2 DEF Respond
  <2> QED BY Zenon, <1>1, <2>3
<1>4. ASSUME NEW e \in {"overflow", "end of frame"}, r = Error(e)
      PROVE  Respond(r) = r
  <2>1. r.op # "data"
    BY Zenon, <1>4 DEF Error
  <2> QED BY Zenon, <2>1 DEF Respond
<1> QED BY Zenon, <1>1, <1>2, <1>3, <1>4 DEF Fetched

LEMMA FirstIsNumber ==
  ASSUME NEW f \in Seq(Byte), NEW n \in Nat, Len(f) = n, n >= 1
  PROVE  f[1] \in Nat
<1>1. f[1] \in Byte
  OBVIOUS
<1>2. Byte \subseteq Nat
  BY DEF Byte
<1> QED BY Zenon, <1>1, <1>2

LEMMA NoPanic ==
  ASSUME NEW f \in Seq(Byte), NEW cap \in Nat,
         (hal = "i2c" /\ Len(f) >= 1) \/ (hal = "kit" /\ Sized(f))
  PROVE  Respond(HalRead(f, cap)) # Error("panic")
<1>1. PICK r : r = HalRead(f, cap)
  OBVIOUS
<1>2. ASSUME NEW buf, NEW m \in Nat, Len(buf) = m, m >= 4
      PROVE  Respond(Answered(buf)) # Error("panic")
  <2>1. ~(Len(buf) < 2)
    BY <1>2
  <2>2. Answered(buf).op = "data" /\ Answered(buf).data = buf
    BY DEF Answered
  <2>3. \/ Respond(Answered(buf)) \in {Error("crc"), Error("status")}
        \/ Respond(Answered(buf)) = Answered(SubSeq(buf, 2, Len(buf) - 2))
    BY Zenon, <2>1, <2>2 DEF Respond
  <2> QED BY <2>3 DEF Error, Answered
<1>3. ASSUME NEW e \in {"overflow", "size", "end of frame"}
      PROVE  Respond(Error(e)) # Error("panic")
  <2>1. Error(e).op # "data" /\ Error(e) # Error("panic")
    BY Zenon DEF Error
  <2> QED BY Zenon, <2>1 DEF Respond
<1>4. CASE hal = "i2c" /\ Len(f) >= 1
  <2>1. PICK m : m = f[1]
    OBVIOUS
  <2>2. m \in Nat
    <3>1. PICK n \in Nat : n = Len(f)
      OBVIOUS
    <3>2. n >= 1
      BY Zenon, <1>4, <3>1
    <3> QED BY Zenon, <2>1, <3>1, <3>2, FirstIsNumber
  <2> DEFINE buf == [i \in 1..m |-> IF i <= Len(f) THEN f[i] ELSE 255]
  <2>3. r = Error("overflow") \/ r = Error("size") \/ (~(m < 4) /\ r = Answered(buf))
    BY Zenon, <1>1, <1>4, <2>1 DEF HalRead, I2CRead
  <2>4. ~(m < 4) => m >= 4 /\ Len(buf) = m
    BY <2>2
  <2> HIDE DEF buf
  <2> QED BY Zenon, <1>1, <1>2, <1>3, <2>2, <2>3, <2>4
<1>5. CASE hal = "kit" /\ Sized(f)
  <2>1. Fetched(r, f, cap)
    BY Zenon, <1>1, <1>5, ReadWhole
  <2>2. PICK m \in Nat : m = Len(f)
    OBVIOUS
  <2>3. m >= 4
    BY Zenon, <1>5, <2>2 DEF Sized
  <2> QED BY Zenon, <1>1, <1>2, <1>3, <2>1, <2>2, <2>3 DEF Fetched
<1> QED BY <1>4, <1>5

LEMMA Whole ==
  ASSUME NEW f, NEW h, NEW s, Answering(f, h, s), NEW n \in Nat, Len(Payload(f)) <= n,
         hal \in {"i2c", "kit"}
  PROVE  Respond(HalRead(f, n + 3)) = s
<1>1. PICK d : d = Payload(f)
  OBVIOUS
<1>2. f = Framed(d) /\ Says(d, h, s)
  BY Zenon, <1>1 DEF Answering
<1>3. Sized(f) /\ Sound(f) /\ f[2] = d[1] /\ Len(f) = Len(d) + 3
  BY Zenon, <1>2, AnswerIs
<1>4. PICK k \in 1..64 : k = Len(d)
  BY <1>2 DEF Says
<1>5. k <= n
  BY Zenon, <1>1, <1>4
<1>6. n + 3 \in Nat /\ k + 3 <= n + 3 /\ ~(k + 3 < 2) /\ (k + 3 = 4 <=> k = 1)
  BY <1>5
<1>7. Len(f) <= n + 3 /\ ~(Len(f) < 2) /\ (Len(f) = 4 <=> Len(d) = 1)
  BY Zenon, <1>3, <1>4, <1>6
<1>8. HalRead(f, n + 3) = Answered(f)
  <2>1. Fetched(HalRead(f, n + 3), f, n + 3)
    BY Zenon, <1>3, <1>6, ReadWhole
  <2> QED BY Zenon, <1>7, <2>1 DEF Fetched
<1>9. Answered(f).op = "data" /\ Answered(f).data = f
  BY DEF Answered
<1>10. Respond(Answered(f)) =
         IF Len(f) = 4 /\ f[2] # 0 THEN Error("status") ELSE Answered(Payload(f))
  BY Zenon, <1>3, <1>7, <1>9 DEF Respond, Payload
<1>11. CASE s = Error("status") /\ Len(d) = 1 /\ d[1] # 0
  BY Zenon, <1>3, <1>7, <1>8, <1>10, <1>11
<1>12. CASE s = Answered(d) /\ (Len(d) = 1 => d[1] = 0)
  BY Zenon, <1>1, <1>3, <1>7, <1>8, <1>10, <1>12
<1> QED BY Zenon, <1>2, <1>11, <1>12 DEF Says

-----------------------------------------------------------------------------
(* The steps keep the invariant.                                           *)

LEMMA InitIInv == Init => IInv
<1> SUFFICES ASSUME Init
             PROVE  IInv
  OBVIOUS
<1>1. /\ hal \in {"i2c", "kit"} /\ pc = "ready" /\ cmd = Nothing /\ bytes = <<>>
      /\ hit = "nothing" /\ result = Nothing
  BY DEF Init
<1>2. TypeOK
  BY <1>1 DEF TypeOK
<1>3. Nothing # Error("panic")
  BY DEF Nothing, Error
<1> QED BY <1>1, <1>2, <1>3
        DEF IInv, Fresh, Sent, Returned, HeardAsAsked, AnswerWhole, DamageDetected

LEMMA IssueStep ==
  ASSUME IInv, NEW c \in Requests, Issue(c)
  PROVE  IInv'
<1>1. /\ pc = "ready" /\ cmd' = c /\ hal' = hal /\ hit' = hit
      /\ hit = "nothing" /\ result = Nothing
  BY DEF Issue, IInv, Fresh
<1>2. TypeOK
  BY DEF IInv
<1>3. CASE Packet(c) = Nothing
  <2>1. pc' = "done" /\ result' = Error("refused") /\ bytes' = bytes
    BY <1>3 DEF Issue
  <2>2. TypeOK'
    BY <1>1, <1>2, <2>1 DEF TypeOK
  <2>3. result' # Error("panic")
    BY Zenon, <2>1 DEF Error
  <2> QED BY <1>1, <2>1, <2>2, <2>3
          DEF IInv, Fresh, Sent, Returned, HeardAsAsked, AnswerWhole, DamageDetected
<1>4. CASE Packet(c) # Nothing
  <2>1. pc' = "request" /\ bytes' = Encode(Packet(c)) /\ result' = result
    BY <1>4 DEF Issue
  <2>2. Packet(c) \in Packets
    <3>1. c \in Asked
      BY WireAssumption
    <3> QED BY Zenon, <1>4, <3>1, PacketMeansAsked
  <2>3. bytes' \in Seq(Byte)
    BY Zenon, <2>1, <2>2, HearsEncode
  <2>4. TypeOK'
    BY <1>1, <1>2, <2>1, <2>3 DEF TypeOK
  <2>5. result' # Error("panic")
    BY Zenon, <1>1, <2>1 DEF Error, Nothing
  <2>6. Sent'
    BY Zenon, <1>1, <1>4, <2>1 DEF Sent, OnItsWay
  <2> QED BY <1>1, <2>1, <2>4, <2>5, <2>6
          DEF IInv, Fresh, Returned, HeardAsAsked, AnswerWhole, DamageDetected
<1> QED BY <1>3, <1>4

AnswerData(n, fill) == IF n = 0 THEN <<0>> ELSE Data(n, fill)

LEMMA ExecuteStep ==
  ASSUME IInv, Execute
  PROVE  IInv'
<1>1. /\ pc = "request" /\ pc' = "answer" /\ heard' = Hears(bytes)
      /\ hal' = hal /\ cmd' = cmd /\ hit' = hit /\ result' = result
  BY DEF Execute
<1>2. /\ cmd \in Requests /\ Packet(cmd) # Nothing /\ result = Nothing
      /\ hit \in {"nothing", "request", "across"} /\ OnItsWay(bytes, Packet(cmd))
  BY <1>1 DEF IInv, Sent
<1>3. TypeOK /\ bytes \in Seq(Byte)
  BY DEF IInv, TypeOK
<1>4. cmd \in Asked
  BY <1>2, WireAssumption
<1>5. hit # "across" => heard' = IF hit = "request" THEN Nothing ELSE cmd
  <2> SUFFICES ASSUME hit # "across"
               PROVE  heard' = IF hit = "request" THEN Nothing ELSE cmd
    OBVIOUS
  <2>1. hit \in {"nothing", "request"}
    BY <1>2
  <2> QED BY Zenon, <1>1, <1>2, <1>3, <1>4, <2>1, Heard
<1>6. \E d : bytes' = Framed(d) /\ Says(d, heard', said')
  <2>1. ASSUME heard' # Nothing, NEW fill \in Fills, NEW d,
               d = AnswerData(DataSize(heard'), fill),
               said' = Answered(d), bytes' = Framed(d)
        PROVE  Says(d, heard', said')
    <3>1. /\ recvSize(heard') \in {1, 4, 32, 64}
          /\ (recvSize(heard') = 1 <=> DataSize(heard') = 0)
          /\ (recvSize(heard') # 1 => recvSize(heard') = DataSize(heard'))
      BY Zenon, Room
    <3>2. CASE recvSize(heard') = 1
      <4>1. d = <<0>>
        BY Zenon, <2>1, <3>1, <3>2 DEF AnswerData
      <4>2. d \in Seq(Byte) /\ Len(d) = 1 /\ d[1] = 0 /\ 1 \in 1..64
        BY <4>1 DEF Byte
      <4> QED BY Zenon, <2>1, <3>2, <4>2 DEF Says
    <3>3. CASE recvSize(heard') # 1
      <4>1. PICK n \in {4, 32, 64} : n = recvSize(heard')
        BY <3>1, <3>3
      <4>2. d = Data(n, fill)
        BY Zenon, <2>1, <3>1, <3>3, <4>1 DEF AnswerData
      <4>3. fill \in Byte
        BY WireAssumption
      <4>4. d \in Seq(Byte) /\ Len(d) = n
        BY Zenon, <4>2, <4>3, DataIs
      <4>5. n \in 1..64 /\ n # 1
        OBVIOUS
      <4> QED BY Zenon, <2>1, <4>1, <4>4, <4>5 DEF Says
    <3> QED BY <3>2, <3>3
  <2>2. ASSUME NEW s \in Byte \ {0}, said' = Error("status"), bytes' = Framed(<<s>>)
        PROVE  Says(<<s>>, heard', said')
    <3>1. PICK d : d = <<s>>
      OBVIOUS
    <3>2. d \in Seq(Byte) /\ Len(d) = 1 /\ d[1] # 0 /\ 1 \in 1..64
      BY <3>1
    <3> QED BY Zenon, <2>2, <3>1, <3>2 DEF Says
  <2>3. \A s \in IF heard' = Nothing THEN {255} ELSE Statuses : s \in Byte \ {0}
    BY WireAssumption DEF Byte
  <2>4. CASE /\ heard' # Nothing
             /\ \E fill \in Fills :
                  LET data == IF DataSize(heard') = 0 THEN <<0>> ELSE Data(DataSize(heard'), fill)
                  IN said' = Answered(data) /\ bytes' = Framed(data)
    BY Zenon, <2>1, <2>4 DEF AnswerData
  <2>5. CASE \E s \in IF heard' = Nothing THEN {255} ELSE Statuses :
               said' = Error("status") /\ bytes' = Framed(<<s>>)
    BY Zenon, <2>2, <2>3, <2>5
  <2> QED BY Zenon, <2>4, <2>5 DEF Execute
<1>7. Answering(bytes', heard', said') /\ Sized(bytes')
  BY Zenon, <1>6, AnswerIs
<1>8. bytes' \in Seq(Byte)
  BY Zenon, <1>7 DEF Sized
<1>9. TypeOK'
  BY <1>1, <1>3, <1>8 DEF TypeOK
<1>10. Returned'
  <2>1. OnItsWayBack(bytes)'
    BY <1>1, <1>2, <1>7 DEF OnItsWayBack
  <2> QED BY <1>1, <1>2, <1>5, <2>1 DEF Returned
<1>11. result' # Error("panic")
  BY Zenon, <1>1, <1>2 DEF Error, Nothing
<1>12. HeardAsAsked'
  BY Zenon, <1>1, <1>5 DEF HeardAsAsked
<1> QED BY <1>1, <1>9, <1>10, <1>11, <1>12 DEF IInv, Fresh, Sent, AnswerWhole, DamageDetected

\* A frame that was not damaged yet is the frame of some data.
LEMMA Undamaged ==
  ASSUME IInv, pc \in {"request", "answer"}, hit = "nothing"
  PROVE  \E b \in Seq(Byte) : bytes = Frame(b) /\ Len(b) >= 2
<1>1. CASE pc = "request"
  <2>1. cmd \in Requests /\ Packet(cmd) # Nothing /\ bytes = Encode(Packet(cmd))
    BY <1>1 DEF IInv, Sent, OnItsWay
  <2>2. PICK p \in Packets : bytes = Encode(p)
    <3>1. cmd \in Asked
      BY <2>1, WireAssumption
    <3> QED BY Zenon, <2>1, <3>1, PacketMeansAsked
  <2>3. PICK b \in Seq(Byte) :
          /\ Encode(p) = Frame(b) /\ Len(b) = Len(p.data) + 5 /\ b[1] = Len(b) + 2
          /\ Len(b) + 2 \in Byte /\ Carries(Frame(b), p)
    BY Zenon, EncodeIs
  <2>4. PICK n \in Nat : n = Len(p.data)
    BY DEF Packets
  <2>5. n + 5 >= 2
    OBVIOUS
  <2> QED BY Zenon, <2>2, <2>3, <2>4, <2>5
<1>2. CASE pc = "answer"
  <2>1. OnItsWayBack(bytes)
    BY <1>2 DEF IInv, Returned
  <2>2. PICK d : bytes = Framed(d) /\ Says(d, heard, said)
    BY Zenon, <2>1 DEF OnItsWayBack, Answering
  <2>3. d \in Seq(Byte) /\ Len(d) \in 1..64
    BY Zenon, <2>2 DEF Says
  <2>4. PICK n \in 1..64 : n = Len(d)
    BY <2>3
  <2>5. PICK b \in Seq(Byte) :
          /\ Framed(d) = Frame(b) /\ Len(b) = Len(d) + 1 /\ b[1] = Len(b) + 2
          /\ Len(b) + 2 \in Byte /\ Sound(Frame(b))
          /\ Frame(b)[2] = d[1] /\ SubSeq(Frame(b), 2, Len(Frame(b)) - 2) = d
    BY Zenon, <2>3, <2>4, FramedIs
  <2>6. n + 1 >= 2
    OBVIOUS
  <2> QED BY Zenon, <2>2, <2>4, <2>5, <2>6
<1> QED BY <1>1, <1>2

LEMMA DamageStep ==
  ASSUME IInv, Damage
  PROVE  IInv'
<1>1. /\ pc \in {"request", "answer"} /\ hit = "nothing" /\ hal' = hal /\ pc' = pc
      /\ cmd' = cmd /\ heard' = heard /\ said' = said /\ result' = result
  BY DEF Damage
<1>2. PICK b \in Seq(Byte) : bytes = Frame(b) /\ Len(b) >= 2
  BY Zenon, <1>1, Undamaged
<1>3. PICK n \in Nat : n = Len(b)
  OBVIOUS
<1>4. n >= 2
  BY Zenon, <1>2, <1>3
<1>5. Len(bytes) = n + 2
  BY Zenon, <1>2, <1>3, FrameIs
<1>6. PICK i \in 2..(Len(bytes) - 1), x \in Bursts :
        /\ bytes' = [bytes EXCEPT ![i] = (@ + x[1]) % 256, ![i + 1] = (@ + x[2]) % 256]
        /\ hit' = IF i = Len(bytes) - 2 /\ x[1] # 0 /\ x[2] # 0 THEN "across" ELSE pc
  BY Zenon DEF Damage
<1>7. (n + 2) - 1 = n + 1 /\ (n + 2) - 2 = n
  OBVIOUS
<1>8. i \in 2..(n + 1) /\ hit' = IF i = n /\ x[1] # 0 /\ x[2] # 0 THEN "across" ELSE pc
  BY Zenon, <1>5, <1>6, <1>7
<1>9. PICK g : g = [Frame(b) EXCEPT ![i] = (@ + x[1]) % 256, ![i + 1] = (@ + x[2]) % 256]
  OBVIOUS
<1>10. bytes' = g
  BY Zenon, <1>2, <1>6, <1>9
<1>11. /\ g \in Seq(Byte) /\ Len(g) = n + 2 /\ g[1] = Frame(b)[1]
       /\ ~(i = n /\ x[1] # 0 /\ x[2] # 0) => ~Sound(g)
  <2>1. Marred(g, b, i, x, n)
    BY Zenon, <1>3, <1>8, <1>9, DamageIs
  <2> QED BY Zenon, <2>1 DEF Marred
<1>12. /\ bytes' \in Seq(Byte) /\ Len(bytes') = Len(bytes) /\ bytes'[1] = bytes[1]
       /\ hit' = "across" \/ (hit' = pc /\ ~Sound(bytes'))
  BY Zenon, <1>2, <1>5, <1>8, <1>10, <1>11
<1>13. Len(bytes') >= 2
  <2>1. n + 2 >= 2
    OBVIOUS
  <2> QED BY Zenon, <1>5, <1>12, <2>1
<1>14. TypeOK'
  BY <1>1, <1>12 DEF TypeOK, IInv
<1>15. CASE pc = "request"
  <2>1. /\ cmd \in Requests /\ Packet(cmd) # Nothing /\ result = Nothing
    BY <1>15 DEF IInv, Sent
  <2>2. hit' = "across" \/ (hit' = "request" /\ ~Sound(bytes'))
    BY Zenon, <1>12, <1>15
  <2>3. Sent'
    BY <1>1, <1>13, <1>15, <2>1, <2>2 DEF Sent, OnItsWay
  <2>4. result' # Error("panic")
    BY Zenon, <1>1, <2>1 DEF Error, Nothing
  <2> QED BY <1>1, <1>14, <1>15, <2>3, <2>4
          DEF IInv, Fresh, Returned, HeardAsAsked, AnswerWhole, DamageDetected
<1>16. CASE pc = "answer"
  <2>1. /\ cmd \in Requests /\ result = Nothing /\ heard = cmd /\ Sized(bytes)
    BY <1>1, <1>16 DEF IInv, Returned, OnItsWayBack
  <2>2. hit' = "across" \/ (hit' = "answer" /\ ~Sound(bytes'))
    BY Zenon, <1>12, <1>16
  <2>3. Sized(bytes')
    BY Zenon, <1>12, <2>1 DEF Sized
  <2>4. Returned'
    BY <1>1, <1>16, <2>1, <2>2, <2>3 DEF Returned, OnItsWayBack
  <2>5. result' # Error("panic")
    BY Zenon, <1>1, <2>1 DEF Error, Nothing
  <2>6. HeardAsAsked'
    BY <1>1, <2>1, <2>2 DEF HeardAsAsked
  <2> QED BY <1>1, <1>14, <1>16, <2>4, <2>5, <2>6
          DEF IInv, Fresh, Sent, AnswerWhole, DamageDetected
<1> QED BY <1>1, <1>15, <1>16

Long(g, n) == g \in Seq(Byte) /\ Len(g) = n

LEMMA OneTouched ==
  ASSUME NEW f \in Seq(Byte), NEW n \in Nat, n = Len(f), NEW s \in Byte,
         NEW g, g = [f EXCEPT ![1] = s]
  PROVE  Long(g, n)
<1>1. f \in [1..n -> Byte]
  OBVIOUS
<1>2. g \in [1..n -> Byte]
  BY <1>1
<1> QED BY <1>2, SeqDef DEF Long

LEMMA DamageSizeStep ==
  ASSUME IInv, DamageSize
  PROVE  IInv'
<1>1. /\ pc = "answer" /\ hit = "nothing" /\ hal = "i2c" /\ hit' = "size" /\ hal' = hal
      /\ pc' = pc /\ cmd' = cmd /\ heard' = heard /\ said' = said /\ result' = result
  BY DEF DamageSize
<1>2. cmd \in Requests /\ result = Nothing /\ heard = cmd
  BY <1>1 DEF IInv, Returned
<1>3. PICK s \in Byte : bytes' = [bytes EXCEPT ![1] = s]
  BY WireAssumption DEF DamageSize
<1>4. bytes \in Seq(Byte)
  BY DEF IInv, TypeOK
<1>5. bytes' \in Seq(Byte) /\ Len(bytes') >= 1
  <2>1. PICK n \in Nat : n = Len(bytes)
    BY <1>4
  <2>2. n >= 4
    BY <1>1, <2>1 DEF IInv, Returned, OnItsWayBack, Sized
  <2>3. Long(bytes', n)
    BY Zenon, <1>3, <1>4, <2>1, OneTouched
  <2>4. n >= 1
    BY <2>2
  <2> QED BY Zenon, <2>3, <2>4 DEF Long
<1>6. TypeOK'
  BY <1>1, <1>5 DEF TypeOK, IInv
<1>7. Returned'
  BY <1>1, <1>2, <1>5 DEF Returned, OnItsWayBack
<1>8. result' # Error("panic")
  BY Zenon, <1>1, <1>2 DEF Error, Nothing
<1>9. HeardAsAsked'
  BY <1>1, <1>2 DEF HeardAsAsked
<1> QED BY <1>1, <1>6, <1>7, <1>8, <1>9 DEF IInv, Fresh, Sent, AnswerWhole, DamageDetected

LEMMA ReceiveStep ==
  ASSUME IInv, Receive
  PROVE  IInv'
<1>1. /\ pc = "answer" /\ pc' = "done" /\ result' = Respond(HalRead(bytes, recvSize(cmd) + 3))
      /\ hal' = hal /\ cmd' = cmd /\ bytes' = bytes /\ heard' = heard /\ said' = said
      /\ hit' = hit
  BY DEF Receive
<1>2. /\ cmd \in Requests /\ OnItsWayBack(bytes)
      /\ hit # "across" => heard = IF hit = "request" THEN Nothing ELSE cmd
  BY <1>1 DEF IInv, Returned
<1>3. TypeOK /\ bytes \in Seq(Byte) /\ hal \in {"i2c", "kit"}
  BY DEF IInv, TypeOK
<1>4. PICK m \in {1, 4, 32, 64} : m = recvSize(cmd)
  BY Room
<1>5. m \in Nat /\ m + 3 \in Nat
  OBVIOUS
<1>6. result' = Respond(HalRead(bytes, m + 3))
  BY Zenon, <1>1, <1>4
<1>7. ASSUME hit \in {"nothing", "request"}
      PROVE  result' = said
  <2>1. Answering(bytes, heard, said)
    BY Zenon, <1>2, <1>7 DEF OnItsWayBack
  <2>2. PICK d : d = Payload(bytes)
    OBVIOUS
  <2>3. Says(d, heard, said)
    BY Zenon, <2>1, <2>2 DEF Answering
  <2>4. Len(d) <= m
    <3>1. CASE Len(d) = 1
      <4>1. 1 <= m
        OBVIOUS
      <4> QED BY Zenon, <3>1, <4>1
    <3>2. CASE Len(d) = recvSize(heard) /\ heard # Nothing
      <4>1. heard = cmd
        BY <1>2, <1>7, <3>2
      <4>2. m <= m
        OBVIOUS
      <4> QED BY Zenon, <1>4, <3>2, <4>1, <4>2
    <3> QED BY Zenon, <2>3, <3>1, <3>2 DEF Says
  <2> QED BY Zenon, <1>3, <1>5, <1>6, <2>1, <2>2, <2>4, Whole
<1>8. ASSUME hit = "request"
      PROVE  result'.op # "data"
  <2>1. Answering(bytes, heard, said) /\ heard = Nothing
    BY <1>2, <1>8 DEF OnItsWayBack
  <2>2. said = Error("status")
    BY Zenon, <2>1 DEF Answering, Says
  <2>3. result' = Error("status")
    BY <1>7, <1>8, <2>2
  <2> QED BY Zenon, <2>3 DEF Error
<1>9. ASSUME hit = "answer"
      PROVE  result'.op # "data"
  <2>1. Sized(bytes) /\ ~Sound(bytes)
    BY <1>2, <1>9 DEF OnItsWayBack
  <2>2. PICK e \in {"overflow", "end of frame", "crc"} : result' = Error(e)
    BY Zenon, <1>3, <1>5, <1>6, <2>1, NotAnAnswer
  <2> QED BY Zenon, <2>2 DEF Error
<1>10. result' # Error("panic")
  <2>1. (hal = "i2c" /\ Len(bytes) >= 1) \/ (hal = "kit" /\ Sized(bytes))
    <3>1. CASE hit = "size"
      <4>1. OnItsWayBack(bytes)
        BY <1>2
      <4>2. hal = "i2c" /\ Len(bytes) >= 1
        BY <3>1, <4>1 DEF OnItsWayBack
      <4> QED BY Zenon, <4>2
    <3>2. CASE hit # "size"
      <4>1. Sized(bytes)
        BY Zenon, <1>2, <3>2 DEF OnItsWayBack
      <4>2. PICK n \in Nat : n = Len(bytes)
        BY <1>3
      <4>3. n >= 4
        BY Zenon, <4>1, <4>2 DEF Sized
      <4>4. n >= 1
        BY <4>3
      <4> QED BY Zenon, <1>3, <4>1, <4>2, <4>4
    <3> QED BY <3>1, <3>2
  <2> QED BY Zenon, <1>3, <1>5, <1>6, <2>1, NoPanic
<1>11. TypeOK'
  BY <1>1, <1>3 DEF TypeOK
<1>12. HeardAsAsked'
  BY Zenon, <1>1, <1>2 DEF HeardAsAsked
<1>13. AnswerWhole'
  BY Zenon, <1>1, <1>7 DEF AnswerWhole
<1>14. DamageDetected'
  BY Zenon, <1>1, <1>8, <1>9, <1>10 DEF DamageDetected
<1> QED BY <1>1, <1>11, <1>12, <1>13, <1>14 DEF IInv, Fresh, Sent, Returned

LEMMA Inductive ==
  ASSUME IInv, [Next]_vars
  PROVE  IInv'
<1>1. ASSUME NEW c \in Requests, Issue(c)
      PROVE  IInv'
  BY <1>1, IssueStep
<1>2. CASE UNCHANGED vars
  BY <1>2 DEF vars, IInv, TypeOK, Fresh, Sent, OnItsWay, Returned, OnItsWayBack,
              HeardAsAsked, AnswerWhole, DamageDetected
<1> QED BY Zenon, <1>1, <1>2, ExecuteStep, DamageStep, DamageSizeStep, ReceiveStep DEF Next

-----------------------------------------------------------------------------
\* The state keeps its type: what is sent and read are bytes, the size byte of a
\* packet (packet.go:38) and the two halves of the checksum included.
THEOREM TypeCorrect == Spec => []TypeOK
<1>1. Init => IInv
  BY InitIInv
<1>2. IInv /\ [Next]_vars => IInv'
  BY Inductive
<1>3. IInv => TypeOK
  BY DEF IInv
<1> QED BY <1>1, <1>2, <1>3, PTL DEF Spec

\* Whatever may be asked of the library, the chip executes that or, where the
\* command was damaged, nothing (commands.go, packet.go, crc.go).
THEOREM HeardAsAskedAlways == Spec => []HeardAsAsked
<1>1. Init => IInv
  BY InitIInv
<1>2. IInv /\ [Next]_vars => IInv'
  BY Inductive
<1>3. IInv => HeardAsAsked
  BY DEF IInv
<1> QED BY <1>1, <1>2, <1>3, PTL DEF Spec

\* Every answer that was not damaged reaches the caller of executeResponse whole
\* through the buffers of both HALs (atecc.go:376-413, hal_kit.go:150-200).
THEOREM AnswerWholeAlways == Spec => []AnswerWhole
<1>1. Init => IInv
  BY InitIInv
<1>2. IInv /\ [Next]_vars => IInv'
  BY Inductive
<1>3. IInv => AnswerWhole
  BY DEF IInv
<1> QED BY <1>1, <1>2, <1>3, PTL DEF Spec

\* No damaged answer is taken for one, for any data and any damage of two
\* neighbouring bytes, and nothing makes executeResponse slice out of range
\* (atecc.go:390-413).
THEOREM DamageDetectedAlways == Spec => []DamageDetected
<1>1. Init => IInv
  BY InitIInv
<1>2. IInv /\ [Next]_vars => IInv'
  BY Inductive
<1>3. IInv => DamageDetected
  BY DEF IInv
<1> QED BY <1>1, <1>2, <1>3, PTL DEF Spec
=============================================================================
