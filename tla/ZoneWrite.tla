----------------------------- MODULE ZoneWrite -----------------------------
(***************************************************************************)
(* writeBytesZone and writeConfigZone (pkg/atecc/calib.go): a buffer is    *)
(* written as a sequence of block and word commands around the word that   *)
(* holds the lock bytes, any of which may fail with or without having been *)
(* executed; writeConfigZone then sets the two extra bytes.                *)
(*                                                                         *)
(* The definitions called ...Broken, ...Wide, ...NoCarry, ...Stuck and     *)
(* ...Unchecked are plausible mistakes in the definition that follows      *)
(* each of them; no other definition uses them.                            *)
(***************************************************************************)
EXTENDS Zones

CONSTANTS
  Slots, Offsets, Lengths   \* the arguments callers pass

ASSUME ArgumentsAssumption ==
  Slots \subseteq Nat /\ Offsets \subseteq 0..255 /\ Lengths \subseteq Nat

VARIABLES
  pc,         \* "ready", "loop", "extra", "extraAdd" or "done"
  config,     \* the call is writeConfigZone
  zone, slot, offset, len,
  index,      \* bytes of the buffer behind us; what the call returns
  block, word,
  written,    \* ghost: the stores of this call, address and buffer word
  extras,     \* ghost: the extra bytes this call has updated
  result      \* "none", "ok", "invalid" or "error"

args == <<config, zone, slot, offset, len>>
vars == <<pc, args, index, block, word, written, extras, result>>

Init ==
  /\ pc = "ready" /\ config = FALSE
  /\ zone = "Config" /\ slot = 0 /\ offset = 0 /\ len = 0
  /\ index = 0 /\ block = 0 /\ word = 0
  /\ written = {} /\ extras = {} /\ result = "none"

-----------------------------------------------------------------------------
(* Entering a call.                                                        *)

\* The checks of writeBytesZone, after those for an empty buffer.
Valid(z, s, o, n) ==
  /\ HasZoneSize(z, s)
  /\ o % atcaWordSize = 0
  /\ n % atcaWordSize = 0
  /\ o + n <= getZoneSize(z, s)

Enter(c, z, s, o, n) ==
  /\ config' = c /\ zone' = z /\ slot' = s /\ offset' = o /\ len' = n
  /\ index' = 0 /\ written' = {} /\ extras' = {}
  /\ block' = o \div atcaBlockSize
  /\ word' = (o % atcaBlockSize) \div atcaWordSize
  /\ IF n > 0 /\ Valid(z, s, o, n)
     THEN pc' = "loop" /\ result' = "none"
     ELSE pc' = "done" /\ result' = IF n = 0 /\ (z = "Data" => s < 16) THEN "ok" ELSE "invalid"

WriteBytes(z, s, o, n) == pc = "ready" /\ Enter(FALSE, z, s, o, n)

\* writeConfigZone takes 128 bytes and skips the 16 permanent ones.
WriteConfig == pc = "ready" /\ Enter(TRUE, "Config", 0, 16, 112)

-----------------------------------------------------------------------------
(* The loop.                                                               *)

inLockBlock == zone = "Config" /\ block = LockOffsetBlock
inLockWordBroken == inLockBlock /\ word = LockOffsetWord - 1
inLockWordWide == inLockBlock
inLockWord == inLockBlock /\ word = LockOffsetWord

writeBlock == word = 0 /\ len - index >= atcaBlockSize /\ ~inLockBlock

\* The stores of one Write command: count words from the current one.
Stores(count) ==
  {<<getAddr(zone, slot, block, word + i), index \div atcaWordSize + i>> : i \in 0..(count - 1)}

\* The end of a data write that failed: the call returns index.
Abandon == pc' = "done" /\ result' = "error"

\* One Write command.  When it reports an error its stores may have happened.
StoreFails(count) ==
  /\ written' \in {written, written \cup Stores(count)}
  /\ Abandon
  /\ UNCHANGED <<args, index, block, word, extras>>

WriteBlock ==
  /\ pc = "loop" /\ index < len /\ writeBlock
  /\ written' = written \cup Stores(8)
  /\ index' = index + atcaBlockSize
  /\ block' = block + 1
  /\ UNCHANGED <<pc, args, word, extras, result>>

\* word += 1, and the carry into the block.
AdvanceNoCarry ==
  /\ index' = index + atcaWordSize
  /\ word' = word + 1
  /\ UNCHANGED block
AdvanceStuck ==
  /\ word' = (word + 1) % 8
  /\ UNCHANGED <<index, block>>
Advance ==
  /\ index' = index + atcaWordSize
  /\ IF word + 1 = 8 THEN word' = 0 /\ block' = block + 1
                     ELSE word' = word + 1 /\ UNCHANGED block

WriteWord ==
  /\ pc = "loop" /\ index < len /\ ~writeBlock /\ ~inLockWord
  /\ written' = written \cup Stores(1)
  /\ Advance
  /\ UNCHANGED <<pc, args, extras, result>>

SkipLockWord ==
  /\ pc = "loop" /\ index < len /\ ~writeBlock /\ inLockWord
  /\ Advance
  /\ UNCHANGED <<pc, args, written, extras, result>>

WriteFails ==
  /\ pc = "loop" /\ index < len
  /\ \/ writeBlock /\ StoreFails(8)
     \/ ~writeBlock /\ ~inLockWord /\ StoreFails(1)

LoopEnds ==
  /\ pc = "loop" /\ index >= len
  /\ IF config THEN pc' = "extra" /\ UNCHANGED result
               ELSE pc' = "done" /\ result' = "ok"
  /\ UNCHANGED <<args, index, block, word, written, extras>>

-----------------------------------------------------------------------------
(* The extra bytes of writeConfigZone, and the end of a call.              *)

\* updateExtra for UserExtra (84), then for UserExtraAdd (85).
UpdateExtraUnchecked(here, byte, next, r) ==
  /\ pc = here
  /\ extras' \in {extras, extras \cup {byte}} /\ pc' = next /\ result' = r
  /\ UNCHANGED <<args, index, block, word, written>>
UpdateExtra(here, byte, next, r) ==
  /\ pc = here
  /\ \/ extras' = extras \cup {byte} /\ pc' = next /\ result' = r
     \/ extras' \in {extras, extras \cup {byte}} /\ Abandon
  /\ UNCHANGED <<args, index, block, word, written>>

UpdateUserExtra == UpdateExtra("extra", 84, "extraAdd", "none")
UpdateUserExtraAdd == UpdateExtra("extraAdd", 85, "done", "ok")

\* The caller takes the result; nothing of the call is kept.
Return ==
  /\ pc = "done"
  /\ pc' = "ready" /\ config' = FALSE
  /\ zone' = "Config" /\ slot' = 0 /\ offset' = 0 /\ len' = 0
  /\ index' = 0 /\ block' = 0 /\ word' = 0
  /\ written' = {} /\ extras' = {} /\ result' = "none"

Next ==
  \/ \E z \in ZoneNames, s \in Slots, o \in Offsets, n \in Lengths : WriteBytes(z, s, o, n)
  \/ WriteConfig
  \/ WriteBlock \/ WriteWord \/ SkipLockWord \/ WriteFails \/ LoopEnds
  \/ UpdateUserExtra \/ UpdateUserExtraAdd
  \/ Return

Spec == Init /\ [][Next]_vars

\* The loop runs: each command returns (Execute!Returns).
Progress ==
  WriteBlock \/ WriteWord \/ SkipLockWord \/ LoopEnds \/ UpdateUserExtra \/ UpdateUserExtraAdd
FairSpec == Spec /\ WF_vars(Progress)

-----------------------------------------------------------------------------
(* Properties.                                                             *)

TypeOK ==
  /\ pc \in {"ready", "loop", "extra", "extraAdd", "done"}
  /\ config \in BOOLEAN
  /\ zone \in ZoneNames /\ slot \in Nat /\ offset \in 0..255 /\ len \in Nat
  /\ index \in Nat /\ block \in Nat /\ word \in 0..7
  /\ \A s \in written : s[1] \in Nat /\ s[2] \in Nat
  /\ extras \subseteq {84, 85}
  /\ result \in {"none", "ok", "invalid", "error"}

\* Where word k of the buffer belongs.
Home(k) ==
  LET b == offset + k * atcaWordSize
  IN getAddr(zone, slot, b \div atcaBlockSize, (b % atcaBlockSize) \div atcaWordSize)

LockAddr == getAddr("Config", 0, LockOffsetBlock, LockOffsetWord)
IsLockWord(k) == zone = "Config" /\ Home(k) = LockAddr

Words == {k \in 0..len : k * atcaWordSize < len}

\* Every store puts a word of the buffer where it belongs, and none of them
\* touches the word with the lock bytes ("Makes sure we skip writing to the
\* selector, user extra, and lock bytes", calib.go:389), however block and
\* word writes alternate and wherever a command fails.
RightPlace ==
  \A s \in written : s[2] \in Words /\ s[1] = Home(s[2]) /\ ~IsLockWord(s[2])

\* A call that fails tells how far it got: the buffer up to the returned
\* count is stored, except the lock word, and nothing is stored beyond the
\* one command that failed.
PrefixStored ==
  /\ \A k \in Words : k * atcaWordSize < index /\ ~IsLockWord(k) => <<Home(k), k>> \in written
  /\ \A s \in written : s[2] * atcaWordSize < index + atcaBlockSize

\* A successful call has stored the whole buffer, and writeConfigZone both
\* extra bytes; these are only touched once all else is stored ("also writes
\* the UserExtraData if all other data was written successfully",
\* atecc.go:316).
AllOrError ==
  /\ result = "ok" => index = len
  /\ result = "ok" /\ config => extras = {84, 85}
  /\ extras # {} => index = len

\* Every call ends.
Ends == pc # "ready" ~> pc \in {"done", "ready"}
=============================================================================
