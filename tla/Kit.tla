-------------------------------- MODULE Kit --------------------------------
(***************************************************************************)
(* The kit protocol (pkg/atecc/hal_kit.go) over HID, with the calls of     *)
(* Dev.executeResponse (pkg/atecc/atecc.go) above it.  A kit answers every *)
(* request with one reply, in order; the HID device queues the reports of  *)
(* the replies.  Nothing in a reply says which request it answers: the     *)
(* driver takes the next one that comes.  A long request takes several     *)
(* packets, up to the newline; the kit keeps the packets of one that was   *)
(* cut off, and the next request ends it, as nonsense.                     *)
(*                                                                         *)
(* The definitions called ...Broken are plausible mistakes in the          *)
(* definition that follows each of them; no other definition uses them.    *)
(***************************************************************************)
EXTENDS Naturals, Sequences

CONSTANTS
  RxRetries,    \* IfaceConfig.RxRetries, 0 in ConfigATECCX08A_KitHIDDefault
  Ops,          \* the commands callers execute
  Packets,      \* per command, the USB packets of the request
  Reports,      \* and those of its answer
  Boards,       \* what may be on a kit, by scan index: the kit's description
                \* of a device, [id, iface, address], or NoDevice
  Configs,      \* HIDConfig: DevIndex, KitType and DevIdentity
  MaxFaults,    \* bound: cancellations and failed transfers
  MaxQueue      \* bound: no call begins with more reports in the queue

kitMaxScanCount == 8
Indexes == 0..(kitMaxScanCount - 1)

\* The names the driver knows: of its device type, and of the interfaces.
KitIds == {"ECC608A", "ECC608B", "ECC608C", "ECC608"}
KitTypes == {"i2c", "swi", "spi"}
kitTypeFromKitIface == [TWI |-> "i2c", SWI |-> "swi", SPI |-> "spi"]

NoDevice == [id |-> "no_device", iface |-> "none", address |-> 0]

ASSUME KitAssumption ==
  /\ RxRetries \in Nat /\ MaxFaults \in Nat /\ MaxQueue \in Nat
  /\ Packets \in [Ops -> Nat \ {0}] /\ Reports \in [Ops -> Nat \ {0}]
  /\ \A b \in Boards : DOMAIN b = Indexes
  /\ \A c \in Configs : c.kitType \in {"auto"} \cup KitTypes

VARIABLES
  board, cfg,
  index,      \* i of the scan
  chosen,     \* the index of the selected device, kitMaxScanCount before
  pc,
  queue,      \* the reports waiting in the HID device
  partial,    \* the kit holds the first packets of a request that was cut off
  inited,     \* New has returned this Dev without an error
  dstate,     \* Dev.state
  op, tries, cancelled, result,   \* the call in progress, as in Execute
  faults,     \* ghost: faults so far, since the HID device was opened
  missed      \* ghost: the driver has gone on without the reply to a request

setup == <<board, cfg>>
scan == <<index, chosen>>
call == <<inited, op, tries, cancelled>>
io == <<queue, partial, missed>>
vars == <<setup, scan, pc, io, call, dstate, result, faults>>

\* One report: the request it answers ("wake", "talk" or "idle"), whether
\* that request is one of the call in progress, the outcome, and its place.
Report == [of : {"wake", "talk", "idle"}, own : BOOLEAN, out : {"ok", "status", "kit"},
           first : BOOLEAN, last : BOOLEAN]

Reply(of, out, n) ==
  [k \in 1..n |-> [of |-> of, own |-> TRUE, out |-> out, first |-> k = 1, last |-> k = n]]

Closed ==
  /\ index = 0 /\ chosen = kitMaxScanCount
  /\ pc = "scan" /\ queue = <<>> /\ inited = FALSE /\ dstate = "unknown"
  /\ tries = 0 /\ cancelled = FALSE /\ result = "none" /\ faults = 0 /\ missed = FALSE

Init == board \in Boards /\ cfg \in Configs /\ op \in Ops /\ partial = FALSE /\ Closed

-----------------------------------------------------------------------------
(* Discovery.  Each step is an exchange: a request and its reply.  None    *)
(* has the reply it needs while the kit holds a part of a request.         *)

NoDeviceAt(i) == board[i] = NoDevice

\* parseKitDevice understands the description of the device at index i.
Known(i) == board[i].id \in KitIds /\ board[i].iface \in DOMAIN kitTypeFromKitIface

\* That device is one the configuration asks for.
Wanted(i) ==
  /\ Known(i)
  /\ cfg.devIndex \in {0, i}
  /\ cfg.devIdentity \in {0, board[i].address}
  /\ cfg.kitType \in {"auto", kitTypeFromKitIface[board[i].iface]}

Discovering(here) ==
  /\ pc = here /\ ~partial
  /\ UNCHANGED <<setup, io, call, dstate, result, faults>>

ScanNext ==
  /\ Discovering("scan") /\ index \in Indexes
  /\ NoDeviceAt(index) \/ Known(index)
  /\ ~Wanted(index)
  /\ index' = index + 1
  /\ UNCHANGED <<pc, chosen>>

ScanMatchBroken ==
  /\ Discovering("scan") /\ index \in Indexes
  /\ Known(index)
  /\ pc' = IF cfg.kitType = "auto" THEN "select" ELSE "interface"
  /\ UNCHANGED scan
ScanMatch ==
  /\ Discovering("scan") /\ index \in Indexes
  /\ Wanted(index)
  /\ pc' = IF cfg.kitType = "auto" THEN "select" ELSE "interface"
  /\ UNCHANGED scan

\* parseKitDevice does not know the device, or no index is left.
ScanFails ==
  /\ Discovering("scan")
  /\ index \in Indexes => ~NoDeviceAt(index) /\ ~Known(index)
  /\ pc' = "failed"
  /\ UNCHANGED scan

SelectInterface == Discovering("interface") /\ pc' = "select" /\ UNCHANGED scan

\* selectDevice; New then makes the first call.
SelectDevice == Discovering("select") /\ pc' = "ready" /\ chosen' = index /\ UNCHANGED index

\* A transfer fails, or the kit reports an error, as it does for the request
\* that ends a part of another.
DiscoveryFails ==
  /\ pc \in {"scan", "interface", "select"}
  /\ \/ partial /\ partial' = FALSE /\ UNCHANGED faults
     \/ faults < MaxFaults /\ faults' = faults + 1 /\ UNCHANGED partial
  /\ pc' = "failed"
  /\ UNCHANGED <<setup, scan, queue, missed, call, dstate, result>>

-----------------------------------------------------------------------------
(* Exchanges of a call.                                                    *)

\* phyRecv into a buffer of max packets: up to the end of a reply, the
\* newline, or until the buffer is full.
Taken(q, max) ==
  CHOOSE n \in 1..max : (q[n].last \/ n = max) /\ \A m \in 1..(n - 1) : ~q[m].last

Rest(q, max) == SubSeq(q, Taken(q, max) + 1, Len(q))

\* kitParseRsp accepts what was received: a reply from its first packet to
\* its last, with the status 00 of the kit.
Parsed(q, max) == q[1].first /\ q[Taken(q, max)].last /\ q[1].out # "kit"

Fault == faults < MaxFaults /\ faults' = faults + 1
NoFault == UNCHANGED faults

\* The reply to a request that is sent whole: the kit understands it unless
\* it is holding a part of another.
Answer(of, out, n) == IF partial THEN Reply(of, "kit", 1) ELSE Reply(of, out, n)
Replied(reply) == queue' = queue \o reply /\ partial' = FALSE

\* One exchange, for Wake or Idle: woken says that the reply the driver took,
\* whoever it is for, holds the wake-up token.  The kit may report an error,
\* the request (of one packet) not be sent, or the reply not be received.
Exchange(of, woken) ==
  LET Received(q) == /\ queue' = Rest(q, 1) /\ woken = (Parsed(q, 1) /\ q[1].of = "wake")
                     /\ partial' = FALSE /\ UNCHANGED missed
  IN \/ NoFault /\ Received(queue \o Answer(of, "ok", 1))
     \/ Fault /\ Received(queue \o Reply(of, "kit", 1))
     \/ Fault /\ ~woken /\ UNCHANGED io
     \/ Fault /\ ~woken /\ Replied(Answer(of, "ok", 1)) /\ missed' = TRUE

-----------------------------------------------------------------------------
(* A call: Dev.executeResponse.                                            *)

\* Before New has succeeded there is only the call of Dev.init.
Call(o) ==
  /\ pc = "ready" /\ Len(queue) <= MaxQueue
  /\ pc' = "wake" /\ op' = o /\ tries' = 0 /\ result' = "none" /\ cancelled' = FALSE
  /\ queue' = [k \in 1..Len(queue) |-> [queue[k] EXCEPT !.own = FALSE]]
  /\ UNCHANGED <<setup, scan, partial, missed, inited, dstate, faults>>

\* Its error is dropped.
Wake ==
  /\ pc = "wake" /\ pc' = "send"
  /\ \/ dstate = "active" /\ UNCHANGED <<io, dstate, faults>>
     \/ /\ dstate # "active"
        /\ \E woken \in BOOLEAN :
             Exchange("wake", woken) /\ dstate' = IF woken THEN "active" ELSE dstate
  /\ UNCHANGED <<setup, scan, call, result>>

\* The call returns r without the deferred Idle; a Dev without init is dropped.
Return(r) == pc' = (IF inited THEN "ready" ELSE "failed") /\ result' = r

\* halKit.Write sends the command and takes no reply: the chip's answer, its
\* error status, or the kit's error will be there to read.  (A divider without
\* execution times would end the call here too: Execute has that.)
Sent ==
  /\ pc = "send"
  /\ \/ NoFault /\ \E r \in {Answer("talk", "ok", Reports[op]), Answer("talk", "status", 1)} : Replied(r)
     \/ Fault /\ Replied(Reply("talk", "kit", 1))
  /\ dstate' = "active" /\ missed' = (missed \/ cancelled)
  /\ IF cancelled THEN pc' = "idle" /\ result' = "ctx" ELSE pc' = "wait" /\ UNCHANGED result
  /\ UNCHANGED <<setup, scan, call>>

\* phySend: a transfer fails, the first one or a later one.
NotSent ==
  /\ pc = "send" /\ Fault
  /\ partial' \in {partial} \cup (IF Packets[op] > 1 THEN {TRUE} ELSE {})
  /\ \/ cancelled /\ Return("ctx")
     \/ ~cancelled /\ pc' = "backoff" /\ UNCHANGED result
  /\ UNCHANGED <<setup, scan, queue, missed, call, dstate>>

BackoffCancelled ==
  /\ pc = "backoff" /\ cancelled
  /\ Return("ctx")
  /\ UNCHANGED <<setup, scan, io, call, dstate, faults>>

BackoffRetryBroken ==
  /\ pc = "backoff" /\ tries <= RxRetries
  /\ tries' = tries + 1 /\ pc' = "wake"
  /\ UNCHANGED <<setup, scan, io, inited, op, cancelled, dstate, result, faults>>
BackoffRetry ==
  /\ pc = "backoff" /\ tries < RxRetries
  /\ tries' = tries + 1 /\ pc' = "wake"
  /\ UNCHANGED <<setup, scan, io, inited, op, cancelled, dstate, result, faults>>

OutOfTriesBroken == pc' = "wait" /\ UNCHANGED result
OutOfTries == Return("send")

BackoffGiveUp ==
  /\ pc = "backoff" /\ tries = RxRetries
  /\ OutOfTries
  /\ UNCHANGED <<setup, scan, io, call, dstate, faults>>

WaitCancelled ==
  /\ pc = "wait" /\ cancelled
  /\ pc' = "idle" /\ result' = "ctx" /\ missed' = TRUE
  /\ UNCHANGED <<setup, scan, queue, partial, call, dstate, faults>>

WaitOver ==
  /\ pc = "wait" /\ pc' = "read"
  /\ UNCHANGED <<setup, scan, io, call, dstate, result, faults>>

\* What the reports taken as the answer become.  The token of a wake-up is a
\* valid answer with an error status; the empty reply to an idle has no size
\* byte, and slicing it panics.
Outcome(q, max) ==
  CASE ~Parsed(q, max) -> "read"
    [] Parsed(q, max) /\ q[1].of = "wake" -> "status"
    [] Parsed(q, max) /\ q[1].of = "idle" -> "panic"
    [] OTHER -> IF ~q[1].own THEN "stale" ELSE q[1].out

\* halKit.Read: with room for the answer to this command.  It waits without a
\* limit for a report.
Read ==
  /\ pc = "read" /\ queue # <<>>
  /\ \/ /\ NoFault /\ UNCHANGED missed
        /\ result' = Outcome(queue, Reports[op]) /\ queue' = Rest(queue, Reports[op])
     \/ Fault /\ result' = "read" /\ missed' = TRUE /\ UNCHANGED queue
  /\ pc' = "idle"
  /\ UNCHANGED <<setup, scan, partial, call, dstate>>

\* The deferred Idle, whatever it returns; then the call returns or panics.
IdleBroken == pc = "idle" /\ NoFault /\ Replied(Answer("idle", "ok", 1)) /\ UNCHANGED missed
Idle == pc = "idle" /\ \E woken \in BOOLEAN : Exchange("idle", woken)

DeferIdle ==
  /\ Idle
  /\ inited' = (inited \/ result = "ok")
  /\ pc' = IF inited' /\ result # "panic" THEN "ready" ELSE "failed"
  /\ dstate' = "idle"
  /\ UNCHANGED <<setup, scan, op, tries, cancelled, result>>

Calling == pc \in {"wake", "send", "backoff", "wait", "read"}

Cancel ==
  /\ Calling /\ ~cancelled /\ Fault
  /\ cancelled' = TRUE
  /\ UNCHANGED <<setup, scan, pc, io, inited, op, tries, dstate, result>>

\* The process gives up or dies, and another opens the HID device: what was
\* queued for the old handle is gone; what the kit holds of a request is not.
Reopen ==
  /\ index' = 0 /\ chosen' = kitMaxScanCount
  /\ pc' = "scan" /\ queue' = <<>> /\ inited' = FALSE /\ dstate' = "unknown"
  /\ tries' = 0 /\ cancelled' = FALSE /\ result' = "none" /\ faults' = 0 /\ missed' = FALSE
  /\ UNCHANGED <<setup, op, partial>>

Host ==
  \/ ScanNext \/ ScanMatch \/ ScanFails \/ SelectInterface \/ SelectDevice
  \/ Wake \/ Sent \/ NotSent
  \/ BackoffCancelled \/ BackoffRetry \/ BackoffGiveUp
  \/ WaitCancelled \/ WaitOver \/ Read \/ DeferIdle

Next ==
  \/ \E o \in Ops : Call(o)
  \/ Host
  \/ DiscoveryFails \/ Cancel \/ Reopen

Spec == Init /\ [][Next]_vars

\* The goroutine of the caller runs; nothing is assumed of the transfers.
FairSpec == Spec /\ WF_vars(Host)

-----------------------------------------------------------------------------
(* Properties.                                                             *)

TypeOK ==
  /\ board \in Boards /\ cfg \in Configs
  /\ index \in 0..kitMaxScanCount /\ chosen \in 0..kitMaxScanCount
  /\ pc \in {"scan", "interface", "select", "failed", "ready",
             "wake", "send", "backoff", "wait", "read", "idle"}
  /\ queue \in Seq(Report) /\ partial \in BOOLEAN /\ missed \in BOOLEAN
  /\ inited \in BOOLEAN /\ dstate \in {"unknown", "idle", "active"}
  /\ op \in Ops /\ tries \in 0..RxRetries /\ cancelled \in BOOLEAN
  /\ result \in {"none", "ok", "stale", "status", "panic", "read", "send", "ctx"}
  /\ faults \in 0..MaxFaults

\* The device that is used is one the configuration asks for, and the first.
FirstMatch ==
  chosen # kitMaxScanCount => Wanted(chosen) /\ \A i \in 0..(chosen - 1) : ~Wanted(i)

\* As long as no reply was left behind the driver and the kit stay in step,
\* whatever the sizes of requests and answers, and whatever else fails:
\* requests that are not sent, or cut off in the middle, and errors of the kit
\* cost the calls they happen in, and the one after, but between calls no
\* report is left, no call gets an answer to another, and nothing panics.
InStep ==
  ~missed =>
    /\ pc = "ready" => queue = <<>>
    /\ result \notin {"stale", "panic"}

\* The read, which has no time limit and does not look at the context
\* (hal_kit.go:273), is only made when the answer has been requested and is
\* still to come: in step or behind, it cannot block for good.
AnswerQueued ==
  pc \in {"wait", "read"} =>
    /\ queue # <<>>
    /\ LET r == queue[Len(queue)] IN r.own /\ r.of = "talk" /\ r.last

\* Every call returns.
Returns == Calling ~> ~Calling

-----------------------------------------------------------------------------
(* What the repository says and the code does not do.                      *)

\* atecc.go:221: "PublicKey returns the public key in the specific slot": the
\* answer of a call is the answer to its own command, not to one that an
\* earlier call sent.  One cancelled call with a long answer is enough.
OwnAnswer == result # "stale"
=============================================================================
