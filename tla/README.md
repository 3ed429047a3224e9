# go-atecc in TLA+

Specifications of the driver and the provisioning command of `northvolt/go-atecc`,
model-checked with TLC and, all but the liveness properties, proved with TLAPS for
every value of the constants. Paths below are
relative to the repository; `atecc.go` and its neighbours are in `pkg/atecc`,
`conf.go`, `info.go`, `sign.go` and `util.go` in `cmd/atecc`, `ateccconf.go` in
`pkg/ateccconf`.

## 1. The system

| Component | State | Operations | Hard parts |
|---|---|---|---|
| `Dev`, command execution (`atecc.go`, `device.go`, `error.go`) | `state` (unknown, idle, active), `clockDivider` | `New`/`init`, `execute`, `executeResponse` | lost frames and acknowledgements, retries that execute twice, cancellation, answers left over from dead calls, waits computed from a divider that may be stale |
| I2C HAL (`hal_i2c.go`) | none of its own | `Wake`, `Write`, `Read`, `Idle` | wake-up that the chip misses or answers too late |
| Zone writes (`calib.go` 339-457) | position in the buffer (index, block, word) | `WriteBytesZone`, `WriteConfigZone` | skipping the lock word, mixed block and word writes, failure in the middle |
| Zone reads (`calib.go` 38-142) | position (dataIdx, block, offset) | `ReadZone`, `ReadConfigZone`, `readBytesZone` | switch from blocks to words at a zone's end, unaligned ranges |
| `atecc config` (`conf.go`, `info.go`) | none; what it read of the chip | write, compare, lock, generate keys, activate, `-gen`, `-dry` | irreversible steps, interruption and rerun, stale lock state |
| Kit HAL (`hal_kit.go`), HID (`hal_hid.go`) | a reply queue in the device, a part of a request in the kit | discovery, request and reply | replies that come one call late, requests cut in two, foreign devices |
| Keys and signatures (`calib.go` 164-310, `atecc.go` 201-303, `sign.go`) | key slots and message digest buffer of the chip; a `privateKey` caches its public key | `GenerateKey`, `PublicKey`, `PrivateKey`, `Sign`, `VerifyExtern`, `atecc sign` | several commands that must stay together, on a buffer that earlier calls left filled |
| Packets, CRC (`packet.go`, `crc.go`, `commands.go`) | none | one constructor per command, `Encode`, `crc16` | flags, zones and slots packed into one byte; buffers of one layer sized from those of another; damage that looks sound |
| Configuration formats (`ateccconf.go`, `conf.go` 108-143, 273-304) | none; files and chips between runs | `Marshal`, `UnmarshalPartial`, the accessors and `MarshalJSON`, inputs and outputs, `-new-addr` | masks and shifts by hand, input that is skipped, an address changed in two places |
| Logging, other commands of the tool, examples | none | | |

A call of the API becomes one or several commands; each of them is one
`executeResponse`, which drives a HAL, which drives the chip. Calls are
synchronous: what runs concurrently is the chip (executing, its watchdog), the
caller's context, and the process that may die. `Dev` has no lock and is used
by one goroutine; two calls at a time on one `Dev` are not modelled.

## 2. The modules

```
ExecTimes <- Chip <- Execute <- MCExecute, ExecuteProofs     Execute implements Command
Zones <- ZoneWrite <- MCZoneWrite, ZoneWriteProofs
Zones <- ZoneRead  <- MCZoneRead, ZoneReadProofs
Lifecycle <- Provision <- MCProvision, ProvisionProofs       Provision implements Lifecycle
Bytes <- Formats <- MCFormats, FormatsProofs
Kit <- MCKit, KitProofs
Signing <- MCSigning, SigningProofs
Bytes <- Wire <- MCWire, WireProofs
```

Definitions whose names end in `Broken` (in `ZoneWrite` also `Wide`, `NoCarry`,
`Stuck`, `Unchecked`, in `Provision` `GenerateKeyDry`, in `Formats`
`newAddressWide`) are plausible mistakes,
each in the definition that follows it. No specification uses them; putting one
in the place of the definition makes the property named in `PROJECT.json` fail,
which shows that the property says something about that code.

### Command execution

`ExecTimes` holds the three tables of `device.go`. `Chip` is the environment:
an ATECC608 as the driver uses it. It listens only while awake and not
executing, keeps its last answer in an output buffer until it sleeps, is woken
by a pulse, drops everything on idle and when its watchdog fires. Whose answer
the buffer holds is a ghost.

`Execute` has one program counter for the call in progress:

| `pc` | code |
|---|---|
| `wake` | `hal.Wake` (`atecc.go` 346-350, `hal_i2c.go` 78-108), one `WakeRound` per pulse |
| `send` | `hal.Write` (352-355): acknowledged, damaged, acknowledgement lost, refused |
| `backoff` | the select of 357-361 |
| `wait` | the select of 379-383 |
| `read` | 386-418 and `validateResponseStatusCode` |
| `defer` | the deferred `Idle` of 369-372 |

`pulses` is the loop counter of `Wake`, `tries` the number of failed writes.
`dstate`, `div` are `Dev.state` and `Dev.clockDivider`; `inited` says that `New`
has returned without an error (until then the only command is the read of
`init`, and a failed `init` drops the `Dev`). `Restart` is the death of the
process at any point: the chip keeps its state. `late` counts the frames sent
after the context was done. `quiet` is a ghost: once it is set no fault,
cancellation or crash happens any more; the liveness property needs it.

A command is an opcode and, for a Write to configuration byte 19, the clock
divider it stores. The bytes of answers are reduced to: an answer or an error
status of a command of this call, of an earlier call, the wake-up token, the
status of a damaged frame. Milliseconds enter only through the tables: a timer
of at least the chip's own execution time ends after the chip does.

`Command` is what `executeResponse` promises: at most `RxRetries + 1`
executions, an answer or a status only if the command was executed during the
call, an error whatever happened. It is deliberately not "at most once": a lost
acknowledgement makes the driver transmit again. After an error one execution
may still be begun in the step that returns, because the call returns an error
at once when the acknowledgement of a frame is lost and the context is done.

### Zones

`Zones` has `getZoneSize` and `getAddr` with its packed addresses. In
`ZoneWrite` one action is one round of the loop of `writeBytesZone`
(`WriteBlock`, `WriteWord`, `SkipLockWord`, `WriteFails`, `LoopEnds`) and one of
the two updates of the extra bytes. The ghost `written` relates addresses to
words of the buffer. A command that fails may have been executed, as `Execute`
shows. `ZoneRead` has one action per read; `got` says where each byte of the
caller's buffer came from.

### Bytes on the wire

`Wire` is one command and its answer, byte by byte, between the places where
`Execute` and `Kit` only speak of "a command" and "an answer":

| `pc` | code |
|---|---|
| `ready` | a constructor of `commands.go` for what the library asks (`Issue`), `newPacket`, `Encode` with `crc16` |
| `request` | the frame on its way; the chip checks it and takes it for a command (`Hears`, `Meaning`) |
| `answer` | the frame of the answer; `halI2C.Read` or `halKit.Read` puts it into a buffer of the size the caller gave (`HalRead`), and the rest of `executeResponse` judges it (`Respond`) |

The chip's side is written independently of the code: `Meaning` takes the
parameters apart by division where `commands.go` builds them with masks and
shifts, and `ChipCrc` computes the checksum with the register that shifts the
other way. `crcBit` is one round of the inner loop of `crc16`: a register of 16 bits,
of which the shift moves each one place and the polynom flips three. `Asked` is all
that the functions of `calib.go` can ask for; `Requests` is any part of it. `Bytes`
has Go's `&` and `|` on bytes, bit by bit.

`Damage` changes two neighbouring bytes of a frame anywhere behind the size,
`DamageSize` the size byte, which on the I2C bus says how much is read. An exchange
ends in `done`, so this run does not check for deadlock.

There is one place where the checksum does not see two neighbouring bytes, and the
model names it (`"across"`): the last byte of the data together with the first byte of
the checksum. A byte of data enters the register with its lowest bit first, at the
high end; the register is sent with its low end first. A burst within the data, or
within the checksum, changes 16 neighbouring bits of the polynomial's text; one over
the border does not, and some of them cancel: the last of the damages in `MCWire` is
one that the checksum misses across the border of an info command.

### Provisioning

`Provision` is a run of `atecc config -output device`, with the flags `-dry`
and `-gen`, and any number of further runs, with other inputs, after it. A step is
one call of the library, whose possible ends are those of `Execute` and
`ZoneWrite`: done, done but reported as an error, not done. A key is absent, known
to the operator (printed) or not. `info` is what `getDeviceInfo` read at the
beginning, used until the end of the run.

The configuration zone is a body (the bytes that can be written over and over: a
configuration's, the factory's, or a mixture, which a partial write or a lost store
leaves), the two extra bytes 84 and 85, each of which can be set once, and the lock
bytes. `input` says where the configuration to provision, `conf`, comes from:

- `"file"`: one of `Configs`, the configurations of the operator's files and the
  built-in one (`default`, `hex`, `json`);
- `"device"`: what the chip itself holds when the run begins (`FromDevice`);
- `"moved"`: the same with the address of `-new-addr`.

`Lifecycle` is what the command promises of a chip, whatever runs fail, are killed
or repeated. The operator asks for a file's zone or for the one the chip holds (with
or without another address); the chip is open, then configured, with exactly what
was asked for last, then active; keys appear in the private slots of a locked
configuration, and on an active chip only where the configuration lets them be
replaced. `Provision!LifecycleSpec` maps the chip's zone, without the lock bytes, to
`zone` and `conf` to `asked`.

What this does not promise: that a locked configuration is a file's. After an
interrupted run with a file the zone may hold a mixture, and a run with
`-input device -output device -dry=false` then asks for this mixture, writes it,
compares it with itself (`conf.go:179`) and locks it, if the extra bytes are still
zero. `LockedIsVerified` and `Lifecycle` allow that, since it is what the operator
asked for; they rule out that anything else is locked, a mixture in a run with a
file above all, or a zone that a write of this run has changed in any other way.

### Configurations and their formats

`Formats` follows one byte of a configuration (`pos`) through runs of `atecc config`:
from the built-in configuration, a file or a chip (`createProvisionConfig`), with
or without `-new-addr`, to a file (`Convert`) or to a chip (`Install`, the write, the
comparison and the lock of `useProvisionConfig`). The bytes do not influence each
other on this way, so one of them, at any position, says all. `MarshalJSON` gives
the fields that the accessors of `ateccconf.go` cut out of the byte. `want` and
`wantChip` are ghosts: the byte that the operator means the file and the chip to
have, from the flags of the runs (`Meant`). What `Provision` calls a body is here its bytes; what `Formats` calls a run that failed is there a
failure at each of its steps.

### Kit protocol

`Kit` is the other HAL: the same call of `executeResponse` (its program counter
has the values of `Execute`) over requests and replies in USB packets, after the
discovery of `halKit.init` (`scan`, `interface`, `select`). `failed` means that
the process gave up or panicked; `Reopen` is the next process, for which the HID
device has dropped what was queued for the old handle.

`queue` holds the reports that the kit has sent and nobody has read. A kit
answers every request, in order; a reply says nothing about its request, and the
driver takes what comes next, up to a newline or to the size of its buffer
(`Taken`). Whose reply a report is part of is a ghost (`of`, `own`); the result
`stale` is an answer, valid in itself, to a command of an earlier call. A short
answer has one report, the one of GenKey three. A reply that was meant for
another request is judged as the code would judge it (`Parsed`, `Outcome`): the
wake-up token is an error status to `executeResponse`, an empty reply makes it
slice out of range, a part of a reply has no end of frame or no status.

A long request takes several packets as well (`Packets`). When a transfer fails
after the first of them the kit keeps what it has (`partial`): the next request,
whatever it is, ends it with its newline, and the kit refuses the two as
nonsense. `missed` is a ghost: the driver has gone on without the reply to a
request (a call cancelled after it was sent, or a receive that failed). Faults
are cancellations, failed transfers and errors of the kit. An exchange of the
discovery is one step, because nothing else is under way then.

### Keys and signatures

In `Signing` one step is one command of `generateKey`, `publicKey`, `sign`
(random, nonce, sign), `verifyExtern` (nonce, verify) or of `atecc sign`, with
the possible ends of a command in `Execute`: done, done but reported as an
error, not done. The chip keeps the key of each slot and the message digest
buffer, which survives a call and its process and is lost when the chip sleeps.
A key pair is a number; a signature is the pair of the key and the message it
was made of, so that "the signature is valid" is an equality. `msg`, `slot` are
the arguments of the call, `sig` and `pub` its arguments or results.

## 3. The runs

| Run | Bounds | What it shows |
|---|---|---|
| `exec_safety` | `RxRetries` = 2, two callers' opcodes and Writes of byte 19, dividers M0, M2 and a reserved one | `OwnAnswer`: no call takes an older answer. `AfterCancellation`: at most one frame after the context is done, and an error. `ActiveMeansAwake`. `AbstractSpec`: refinement of `Command` |
| `exec_live` | `RxRetries` = 1, known dividers, byte 19 not written | `WaitsLongEnough`; `Returns`: every call ends; `Recovers`: after the faults end, a `Dev` that does not believe its chip active gets through |
| `zone_write` | offsets and lengths around blocks, lock word and zone ends; slots 0, 8, 15, 16 | `RightPlace`, `PrefixStored`, `AllOrError`, `Ends` |
| `zone_read` | the same for reads, unaligned too | `RightBytes`, `Fills` |
| `provision` | three kinds of files (plain, with extra bytes, with closed lock bytes), the device as input, with and without another address, mixtures, two slots, any number of runs | `SuccessIsActive`, `LockedIsVerified`, `ActivatedWithKnownKeys`, `DryRunChangesNothing`; `LifecycleSpec`: refinement of `Lifecycle`; `Recovers` |
| `kit` | three boards, eight configurations of the discovery, two lengths (one and three packets) of requests and of answers, `RxRetries` = 1, three faults after which the reports are followed up to `MaxQueue` = 6 | `FirstMatch`: discovery selects the first wanted device. `InStep`: as long as no reply is left behind, each call gets its own answer and leaves nothing, whatever requests fail or are cut in two. `AnswerQueued` and `Returns`: no read waits for an answer that was never asked for, and each call ends |
| `sign` | two slots, two messages, two generated keys | `SignsOwnMessage`, `VerifiedIsValid`, `ToolAgrees` |
| `wire` | each command, with the slots 0 to 15, addresses and data sizes at which a parameter could run into its neighbour; two fills and one error status for answers; six damages at every place behind the size, seven sizes | `HeardAsAsked`: the chip executes what was asked, or nothing. `AnswerWhole`: an intact answer arrives whole over both HALs. `DamageDetected`: a damaged one is an error, and no size it claims makes `executeResponse` panic |
| `formats` | 28 positions, the first and last of each kind of field; 23 byte values; four values of `-new-addr`; any number of runs | `Preserved`: a file says what the operator means through any chain of conversions, or is refused. `InstalledAsMeant`: so does a locked chip. `FieldsAsCommented`: the accessors cut bytes as the comments of their structures say |

Why the bounds are enough. In `Execute` an attempt depends on earlier ones only
through `dstate`, the chip and the counters; two retries give a first, a middle
and a last attempt and wake round. GenKey has times that differ between the
dividers, Read has not. The state spaces are finite without constraints: the
ghosts are bounded by the attempts. In `Zones` all effects are at the
boundaries, and the proofs cover every other argument. In `Provision` a slot
influences the others only by the order of the loop, so two slots (one private
or both) show the first, the last and a skipped one; the files differ
in the three ways the command can tell apart, all mixtures are one body, and one body
has another address to move to. In `Kit` one fault puts the driver
behind by a reply, two by another kind of reply, and the third meets a driver
that is behind already; the boards have a wanted device first, last, after an
empty index, after a foreign one and after one on an unknown interface. In
`Wire` each bit of the packed parameters is set by some command and clear in
another, and both lengths of a Nonce, of a Read and of a Write occur; the longest
answers have 64 bytes, three packets of the kit. Damage is
the ends, the middle and all of a burst of 16 bits, and one that the border hides;
the proofs cover every burst, place, request and answer. In `Formats` masks and shifts treat
each bit by itself: the single bits and their complements tell any two of them
apart. In `Signing` the second message is the one left over, the second key the
replacement; the proofs cover all other numbers.

Fairness. `Execute!Fairness` is weak fairness of the goroutine of the call (its
selects have timers, I2C transactions end) and of the end of a command in the
chip. Nothing is assumed of bus, watchdog or context. `BusySpec` adds a caller
that goes on calling, for `Recovers`. `ZoneWrite` assumes that the loop runs,
which `Returns` justifies for each command. `Provision` assumes that the
command runs and that the operator repeats it, not dry, while there are no more
faults. `Kit` assumes weak fairness of the goroutine only: a transfer either ends
or fails, and a receive ends if a report is queued, which `AnswerQueued` shows;
a receive with an empty queue would be a stuck call and violate `Returns`.

### Disagreements between text and code

Each has a run that expects the violation; `findings` in `PROJECT.json` quotes
the lines.

- `stale_divider`: after a Write to byte 19 the wait may be too short.
- `kit_answer`: over the kit protocol, one cancelled call is enough for a later
  call to return the answer to an earlier command as its own.
- `provision_shipped`: `data/config/608/pkcs11` cannot be provisioned.

Others are hazards or notes without a run of their own, since the model repeats the
line in question and a run would only show it again:

- A call that fails in the send loop returns before the deferred `Idle`
  (`atecc.go:363`, against the comment at 367): the chip stays awake.
- A device of a type the driver does not know ends discovery (`hal_kit.go:99`) and so
  hides the target behind it, which line 94 says is looked for.
- `SecureBoot.Reserved1` is shifted by 4 (`ateccconf.go:395`) where the comment of the
  structure leaves five bits below it. `FieldsAsCommented` excepts that field.
- The JSON that the command writes is refused as its input. `Preserved` shows that it
  is refused, and never read as zeros.
- `iface.go:33` and `error.go:30` speak of retries when receiving; one failed receive
  ends the call. `calib.go:344` speaks of checks that `getAddr` leaves out.
- `atecc.go:308` says that offset and length of `WriteBytesZone` must be multiples of
  32 or the write will fail; the code checks that they are multiples of 4
  (`calib.go:369`, below a TODO that asks for 32), and `ZoneWrite` does as the code.
- An address of 0x80 or more given to `-new-addr` loses its top bit (`conf.go:120`).
  `Formats!Meant` drops it as the code does, because a bus has addresses of seven bits:
  `Preserved` and `InstalledAsMeant` are about where the address goes, not about that
  bit.
- `verifyExtern` returns true with an error (`calib.go:259`). Its caller looks at the
  error first (`sign.go:117`), and `Signing` takes the pair as the error.
- A reply of fewer than three characters would make `kitParseRsp` panic
  (`hal_kit.go:299`); the kit is taken to follow its protocol.
- `privateKey` keeps the public key of the time it was made (`atecc.go:449`), and
  replacing a key in use is the caller's act. A rerun with another configuration on
  a locked chip skips the comparison and activates the old one (`conf.go:189`), as
  its output says; in `Provision` and `Formats` it is the same.

## 4. The proofs

The eight proof modules are checked by TLAPS for every value of the constants under
the assumptions of the modules (`RetriesAssumption`, `OpsAssumption`,
`ArgumentsAssumption`, `ConfigAssumption`, `KitAssumption`, `SigningAssumption`,
`FormatsAssumption`, `WireAssumption`), which TLC evaluates in each run. Each safety
invariant, action property and refinement of the runs that pass has its theorem, and
so has the argument behind each of their liveness properties.

`ExecuteProofs`. `TypeOK` is inductive (`TypeStep`, by `ChipSteps` for the chip's
part). `OwnAnswer`, `AfterCancellation` and the refinement need a strengthening,
the invariant of `InvStep`: between the accepted write and the read what the
buffer holds, and the command in the chip, belong to this call; `execs` is
positive from then on; `tries` bounds `execs`; `late` is positive only on the
way out. `StepSimulation` maps each action to a step of `Command` or a stutter
and `Implements` concludes `Spec => AbstractSpec`. `ActiveMeansAwakeAlways`
assumes `RxRetries > 0`: with 0 the loop of `Wake` has no round and the property
is false. `WaitsLongEnoughAlways` assumes that byte 19 is not written and that
the dividers are known, the assumptions that the run `stale_divider` shows to be
needed; it rests on `TimesAreNumbers`, `ReadTime` (a Read takes the same time
with every divider, so that `init` may wait without knowing it) and `DividerStep`.

`ZoneWriteProofs`. Its inductive invariant says that block and word are the
quotient and the remainder of `offset + index`, so that `Stores` hits the home
of each word; that below `index` everything but the lock word is stored; and
that the loop has passed the end before extra bytes are touched. `RightPlace`,
`PrefixStored` and `AllOrError` follow, for all slots, offsets and lengths.
`AddressesDiffer` shows that packed addresses of the data zone do not collide,
without which "in the right place" would not separate slots.

`SigningProofs`. The invariant adds to the properties which calls make which
commands (`CallsAt`), that after a load that succeeded the digest buffer holds
the message of the call or nothing (`Loaded`: this is what checking the error of
`nonceLoad` gives), and that `atecc sign` still has the public key of the slot
when it signs (`Printed`). `BeginInv`, `FailInv` and `GoOnInv` say once what a
step that begins, ends or continues a call must show.

`ZoneReadProofs`. The same quotients for reads: block and word are where the next
chunk begins, and after the first chunk one begins where the copied bytes end
(`Position`); the counters start as the code declares them (`Begin`, `Fresh`), and a
single read has a buffer of the size it reads (`Asked`). `Fills` follows. `RightBytes` needs in addition that a
single read keeps to its word or block (`Single`), and the assumption
`WordInBlock`: `ReadZone` is called with word offsets of a block, 0 to 7, which
`getAddr` does not check.

`ProvisionProofs`. The parts of the invariant: the data zone is not locked first
(`InOrder`); what the run is to provision comes from its input (`FromInput`: a file's
configuration, or one whose extra bytes the chip has already and whose lock bytes are
open); what the command read of the locks at its beginning is still true where it
relies on it, and what it is about to lock is what it has compared (`Phase`: its own
steps are the only ones that change them); and behind the loop of `keyGen` the keys
are printed (`Printed`). They give the safety properties and `ImplementsLifecycle`,
in which `AskRefines` maps the choice of an input to `Ask` and the lock to
`Configure`: for any set of configurations and mixtures, any addresses and number of
slots, killed at any point.

`KitProofs`. `Lockstep` says for each point of a call what is in the queue if no reply
was missed: nothing, or exactly the reply to the command that was sent. `TakesReply`
is the reason why the exchanges keep it: a reply in an otherwise empty queue is
taken whole, for every number of packets that the buffer has room for. `FirstMatch`
rests on `Scanned` (nothing before `index` is wanted), `AnswerQueued` needs no such
assumption: the answer to the last command is the end of the queue, in step or
behind.

`FormatsProofs`. Bytes are handled as their eight bits: `AccessorsAgree` compares what
an accessor cuts out with what the comment of its structure says, for all 256 values
and 128 positions, and `AndSum`, `Flags`, `LowBits` and `Fields` say what `And` with a
mask leaves of a byte. The invariant adds `Readable` to the properties: a hexadecimal
file says nothing behind its end, and one for the structures says each byte.
`ConvertStep` and `InstallStep` follow the byte through a run.

`WireProofs` has four parts.

1. The checksum. One bit through the register is a map of registers that can be undone
   (`BitInjective`) and commutes with turning the register round (`TurnedBit`); so is a
   byte. `crc16` is a function over the prefixes of the data; that it exists
   (`CrcExists`), and everything that goes along the data, is shown by the least
   counterexample (`Least`), which stands for induction here. `SameChecksum` says that
   the two registers give the same checksum for data of any length. `TwoBytes` is the
   burst: if two neighbouring bytes differ, the registers before them are equal
   (`SamePrefix`) and the ones behind them too, since bytes can be undone
   (`SameSuffix`); 16 bits into a register of 16 bits are a bijection. `DamageSeen` adds
   the checksum's own two bytes.
2. The commands. `PacketMeansAsked`, by one lemma per constructor (`ReadMeant`,
   `LockSlotMeant`, ...): masks and flags of a packed parameter are disjoint, so that
   `Or` is a sum (`OrIsSum`), which division takes apart again.
3. Frames and buffers. `HearsEncode` and `HearsUnsound` for the way to the chip;
   `ReadWhole`, `PacketsSuffice` (the kit's packets hold each answer that fits the
   buffer), `NotAnAnswer`, `Whole` and `NoPanic` for the way back.
4. The protocol. `IInv` adds to the four properties what is known of the frame on its
   way by what was damaged: `Sent` (the encoded packet, or a frame that is not sound)
   and `Returned` (the frame of what the chip says, a frame that is not sound, or one
   that at least has the size it claims). Without `Sized`, for a frame whose content is
   unknown, `executeResponse` might slice out of range.

The liveness properties themselves (`Returns` and `Recovers` of the calls, `Recovers`
of provisioning, `Returns` over the kit, `Ends`) are only model-checked, because
fairness and `ENABLED` are out of the prover's reach. What they rest on is proved:

- That what has begun ends. `CallsRunOut` of `ExecuteProofs` and of `KitProofs`,
  `WritesRunOut` and `RunsRunOut` each give a pair of natural numbers that every step
  of the program brings down in lexicographic order (attempts left, then pulses and
  points of the call; points of the call, then bytes or slots), and show that no other
  step takes the program back. `WritesRunOut` needs the loop invariant: without
  `len % 4 = 0` the index might pass the end.
- That when it ends in quiet times it has succeeded. `QuietCallsReach`: a Dev that does
  not believe its chip active (`Troubled`) either stays so or has a call on its way
  (`OnTrack`), which ends with an answer or a status; if the chip executes nothing when
  a call begins, that call is on its way. It assumes a retry, known dividers and
  that byte 19 is not written. `QuietRunsActivate`: a run of the command that begins in
  quiet times with a configuration that can be locked (`Hopeful`) does not leave its
  way before the data zone is locked.

TLC adds that the steps which are assumed to be fair are enabled until then: that no
call, write or run is left waiting for something nobody does.

## 5. Not modelled, and the plan

What could come next, in this order:

1. `Execute` under a HAL that may be either of the two: an abstract HAL of four
   calls, with the I2C HAL and the kit as its implementations.
2. Two goroutines on one `Dev`, at the level of whole commands: `Dev` has no lock,
   and one call idles the chip under the other. The repository uses one.
3. `getHIDDeviceIdentity` and the format of a kit's addresses, once it is written
   down what a kit reports.

Left out for good: USB enumeration, logging, formatting, flags and the examples
(no state of their own, or code of other projects); the exit status of the tool;
what the chip's data sheet says and the repository does not (which slot each bit of
`SlotLocked` is for); slots that the chip does not have, from which `lockMode` and
`getAddr` would make the addresses of others.
