----------------------------- MODULE KitProofs -----------------------------
(***************************************************************************)
(* Proofs about Kit, for any boards, configurations, requests and answers. *)
(***************************************************************************)
EXTENDS Kit, SequenceTheorems, WellFoundedInduction, TLAPS

\* The scan has found nothing before its index, and selects what it found.
Scanned ==
  /\ pc \in {"scan", "interface", "select"} =>
       chosen = kitMaxScanCount /\ \A i \in 0..(index - 1) : ~Wanted(i)
  /\ pc \in {"interface", "select"} => index \in Indexes /\ Wanted(index)

Outs == {"ok", "status", "kit"}

\* In step, the queue is empty but between a request and the read of its reply.
Lockstep ==
  ~missed =>
    /\ pc \notin {"wait", "read"} => queue = <<>>
    /\ pc \in {"wait", "read"} =>
         \E out \in Outs, n \in 1..Reports[op] : queue = Reply("talk", out, n)
    /\ result \notin {"stale", "panic"}

IInv == TypeOK /\ Scanned /\ FirstMatch /\ Lockstep /\ AnswerQueued

-----------------------------------------------------------------------------
(* The least of a set of numbers, for the end of a reply.                  *)

Less == {ss \in Nat \X Nat : ss[1] < ss[2]}

LEMMA LessWellFounded == IsWellFoundedOn(Less, Nat)
BY NatLessThanWellFounded DEF Less, OpToRel

LEMMA Least ==
  ASSUME NEW T, T \subseteq Nat, T # {}
  PROVE  \E x \in T : \A y \in T : x <= y
<1>1. PICK x \in T : \A y \in T : ~(<<y, x>> \in Less)
  BY LessWellFounded, WFMin
<1>2. ASSUME NEW y \in T
      PROVE  x <= y
  <2>1. x \in Nat /\ y \in Nat /\ <<y, x>> \notin Less
    BY <1>1
  <2> QED BY <2>1 DEF Less
<1> QED BY <1>2

-----------------------------------------------------------------------------
(* Replies and what is taken of the queue.                                 *)

LEMMA ReplyType ==
  ASSUME NEW of \in {"wake", "talk", "idle"}, NEW out \in Outs, NEW n \in Nat \ {0}
  PROVE  /\ Reply(of, out, n) \in Seq(Report) /\ Len(Reply(of, out, n)) = n
         /\ \A k \in 1..n : Reply(of, out, n)[k] =
              [of |-> of, own |-> TRUE, out |-> out, first |-> k = 1, last |-> k = n]
<1>1. \A k \in 1..n :
        [of |-> of, own |-> TRUE, out |-> out, first |-> k = 1, last |-> k = n] \in Report
  BY DEF Report, Outs
<1>2. Reply(of, out, n) \in [1..n -> Report]
  BY <1>1 DEF Reply
<1>3. Reply(of, out, n) \in Seq(Report)
  BY <1>2, SeqDef
<1> QED BY <1>2, <1>3 DEF Reply

LEMMA AnswerIsReply ==
  ASSUME NEW of, NEW out \in Outs, NEW n \in Nat \ {0}
  PROVE  \E o \in Outs, k \in 1..n : Answer(of, out, n) = Reply(of, o, k)
<1>1. 1 \in 1..n /\ n \in 1..n /\ "kit" \in Outs
  BY DEF Outs
<1> QED BY <1>1 DEF Answer

LEMMA TakenType ==
  ASSUME NEW q, NEW max \in Nat \ {0}
  PROVE  Taken(q, max) \in 1..max
<1> DEFINE T == {n \in 1..max : q[n].last \/ n = max}
<1>1. T \subseteq Nat /\ max \in T
  OBVIOUS
<1>2. PICK n \in T : \A m \in T : n <= m
  BY <1>1, Least
<1>3. \A m \in 1..(n - 1) : ~q[m].last
  BY <1>1, <1>2
<1>4. \E k \in 1..max : (q[k].last \/ k = max) /\ \A m \in 1..(k - 1) : ~q[m].last
  BY <1>2, <1>3
<1> QED BY <1>4 DEF Taken

LEMMA RestType ==
  ASSUME NEW q \in Seq(Report), NEW max \in Nat \ {0}
  PROVE  Rest(q, max) \in Seq(Report)
<1>1. Taken(q, max) + 1 \in Int /\ Taken(q, max) + 1 >= 1
  BY TakenType
<1>2. Len(q) \in Int /\ \A i \in (Taken(q, max) + 1)..Len(q) : q[i] \in Report
  BY <1>1, ElementOfSeq, LenProperties
<1> QED BY <1>1, <1>2, SubSeqProperties DEF Rest

\* A reply that is alone in the queue is taken whole.
LEMMA TakesReply ==
  ASSUME NEW of \in {"wake", "talk", "idle"}, NEW out \in Outs, NEW max \in Nat \ {0},
         NEW n \in 1..max
  PROVE  Taken(Reply(of, out, n), max) = n /\ Rest(Reply(of, out, n), max) = <<>>
<1> DEFINE q == Reply(of, out, n)
           t == Taken(q, max)
<1>0. n \in Nat \ {0}
  OBVIOUS
<1>1. Len(q) = n
  BY <1>0, ReplyType
<1>1a. ASSUME NEW k \in 1..n
       PROVE  q[k].last <=> k = n
  <2>1. q[k] = [of |-> of, own |-> TRUE, out |-> out, first |-> k = 1, last |-> k = n]
    BY <1>0, ReplyType
  <2> DEFINE e == k = n
  <2>2. e \in BOOLEAN
    OBVIOUS
  <2>3. q[k] = [of |-> of, own |-> TRUE, out |-> out, first |-> k = 1, last |-> e]
    BY <2>1
  <2> HIDE DEF q, e
  <2>4. q[k].last = e
    BY <2>3
  <2> QED BY <2>4 DEF e
<1>1b. \A m \in 1..(n - 1) : ~q[m].last
  <2> SUFFICES ASSUME NEW m \in 1..(n - 1)
               PROVE  ~q[m].last
    OBVIOUS
  <2>1. m \in 1..n /\ m # n
    BY <1>0
  <2> QED BY <1>1a, <2>1
<1>1c. n \in 1..n /\ q[n].last
  BY <1>0, <1>1a
<1>2. \E k \in 1..max : (q[k].last \/ k = max) /\ \A m \in 1..(k - 1) : ~q[m].last
  BY <1>1b, <1>1c
<1>3. t \in 1..max /\ (q[t].last \/ t = max) /\ \A m \in 1..(t - 1) : ~q[m].last
  BY <1>2 DEF Taken
<1> HIDE DEF q, t
<1>4. t = n
  <2>1. ~(t < n)
    <3> SUFFICES ASSUME t < n
                 PROVE  FALSE
      OBVIOUS
    <3>1. t \in 1..(n - 1) /\ t # max
      BY <1>3
    <3> QED BY <1>1b, <1>3, <3>1
  <2>2. ~(n < t)
    <3> SUFFICES ASSUME n < t
                 PROVE  FALSE
      OBVIOUS
    <3>1. n \in 1..(t - 1)
      BY <1>3
    <3> QED BY <1>1c, <1>3, <3>1
  <2> QED BY <1>3, <2>1, <2>2
<1>5. SubSeq(q, n + 1, n) = <<>>
  BY <1>1, SubSeqEmpty
<1> QED BY <1>1, <1>4, <1>5 DEF Rest, q, t

\* Every answer, whole or to nonsense, is a reply that fits the type.
LEMMA AnswerType ==
  ASSUME NEW of \in {"wake", "talk", "idle"}, NEW out \in Outs, NEW n \in Nat \ {0}
  PROVE  /\ Answer(of, out, n) \in Seq(Report)
         /\ \E o \in Outs, k \in 1..n : Answer(of, out, n) = Reply(of, o, k)
<1>1. PICK o \in Outs, k \in 1..n : Answer(of, out, n) = Reply(of, o, k)
  BY AnswerIsReply
<1>2. k \in Nat \ {0}
  OBVIOUS
<1> QED BY <1>1, <1>2, ReplyType

\* An exchange keeps the types, and in step it leaves nothing behind.
LEMMA ExchangeStep ==
  ASSUME TypeOK, NEW of \in {"wake", "idle"}, NEW woken \in BOOLEAN, Exchange(of, woken)
  PROVE  /\ queue' \in Seq(Report) /\ partial' \in BOOLEAN /\ missed' \in BOOLEAN
         /\ faults' \in 0..MaxFaults
         /\ ~missed' => ~missed
         /\ ~missed' /\ queue = <<>> => queue' = <<>>
<1> DEFINE Received(q) == /\ queue' = Rest(q, 1) /\ woken = (Parsed(q, 1) /\ q[1].of = "wake")
                          /\ partial' = FALSE /\ UNCHANGED missed
<1>0. queue \in Seq(Report) /\ of \in {"wake", "talk", "idle"} /\ MaxFaults \in Nat /\ faults \in 0..MaxFaults
  BY KitAssumption DEF TypeOK
<1>1. Answer(of, "ok", 1) \in Seq(Report) /\ \E o \in Outs : Answer(of, "ok", 1) = Reply(of, o, 1)
  <2>1. "ok" \in Outs /\ 1 \in Nat \ {0}
    BY DEF Outs
  <2>2. \E o \in Outs, k \in 1..1 : Answer(of, "ok", 1) = Reply(of, o, k)
    BY <1>0, <2>1, AnswerType
  <2>3. PICK o \in Outs, k \in 1..1 : Answer(of, "ok", 1) = Reply(of, o, k)
    BY <2>2
  <2>4. k = 1
    OBVIOUS
  <2> QED BY <1>0, <2>1, <2>3, <2>4, AnswerType
<1>2. ASSUME NEW reply \in Seq(Report), \E o \in Outs : reply = Reply(of, o, 1),
             Received(queue \o reply)
      PROVE  /\ queue' \in Seq(Report)
             /\ queue = <<>> => queue' = <<>>
  <2>1. queue \o reply \in Seq(Report)
    BY <1>0, ConcatProperties
  <2>2. queue' = Rest(queue \o reply, 1)
    BY <1>2
  <2>3. queue' \in Seq(Report)
    <3>1. 1 \in Nat \ {0}
      OBVIOUS
    <3> QED BY Zenon, <2>1, <2>2, <3>1, RestType
  <2>4. ASSUME queue = <<>>
        PROVE  queue' = <<>>
    <3>1. queue \o reply = reply
      BY <2>4, ConcatEmptySeq
    <3>2. PICK o \in Outs : reply = Reply(of, o, 1)
      BY <1>2
    <3>3. 1 \in Nat \ {0} /\ 1 \in 1..1
      OBVIOUS
    <3>4. Rest(Reply(of, o, 1), 1) = <<>>
      BY <1>0, <3>3, TakesReply
    <3> QED BY <2>2, <3>1, <3>2, <3>4
  <2> QED BY <2>3, <2>4
<1>3. Reply(of, "kit", 1) \in Seq(Report) /\ "kit" \in Outs
  BY <1>0, ReplyType DEF Outs
<1>4. CASE NoFault /\ Received(queue \o Answer(of, "ok", 1))
  BY <1>0, <1>1, <1>2, <1>4 DEF NoFault, TypeOK
<1>5. CASE Fault /\ Received(queue \o Reply(of, "kit", 1))
  <2>1. queue' \in Seq(Report) /\ (queue = <<>> => queue' = <<>>)
    BY <1>2, <1>3, <1>5
  <2>2. partial' = FALSE /\ missed' = missed
    BY <1>5
  <2>3. faults' \in 0..MaxFaults
    BY <1>0, <1>5 DEF Fault
  <2> QED BY Zenon, <2>1, <2>2, <2>3 DEF TypeOK
<1>6. CASE Fault /\ ~woken /\ UNCHANGED io
  <2>1. queue' = queue /\ partial' = partial /\ missed' = missed
    BY <1>6 DEF io
  <2>2. faults' \in 0..MaxFaults
    BY <1>0, <1>6 DEF Fault
  <2> QED BY Zenon, <2>1, <2>2 DEF TypeOK
<1>7. CASE Fault /\ ~woken /\ Replied(Answer(of, "ok", 1)) /\ missed' = TRUE
  <2>1. queue' \in Seq(Report)
    BY <1>0, <1>1, <1>7, ConcatProperties DEF Replied
  <2>2. partial' = FALSE /\ missed' = TRUE
    BY <1>7 DEF Replied
  <2>3. faults' \in 0..MaxFaults
    BY <1>0, <1>7 DEF Fault
  <2> QED BY Zenon, <2>1, <2>2, <2>3
<1> QED BY Zenon, <1>4, <1>5, <1>6, <1>7 DEF Exchange

-----------------------------------------------------------------------------
(* The steps.  Most of them leave the queue, or the scan, alone.           *)

LEMMA InitIInv == Init => IInv
<1> SUFFICES ASSUME Init
             PROVE  IInv
  OBVIOUS
<1>1. <<>> \in Seq(Report)
  BY EmptySeq
<1>2. TypeOK
  <2>1. index \in 0..8 /\ chosen \in 0..8 /\ tries \in 0..RxRetries /\ faults \in 0..MaxFaults
    BY KitAssumption DEF Init, Closed, kitMaxScanCount
  <2>2. /\ inited \in BOOLEAN /\ cancelled \in BOOLEAN /\ missed \in BOOLEAN /\ partial \in BOOLEAN
        /\ queue = <<>>
    BY Zenon DEF Init, Closed
  <2>3. /\ board \in Boards /\ cfg \in Configs /\ op \in Ops
        /\ pc = "scan" /\ dstate = "unknown" /\ result = "none"
    BY Zenon DEF Init, Closed
  <2> QED BY <1>1, <2>1, <2>2, <2>3 DEF TypeOK, kitMaxScanCount
<1> QED BY <1>2 DEF Init, Closed, IInv, Scanned, FirstMatch, Lockstep, AnswerQueued,
               kitMaxScanCount

LEMMA WantedUnchanged ==
  ASSUME UNCHANGED setup
  PROVE  \A i : Wanted(i)' = Wanted(i)
BY Zenon DEF setup, Wanted, Known

\* A step that does not touch the scan, on the way out of it or after it.
LEMMA ScanUntouched ==
  ASSUME IInv, UNCHANGED <<setup, scan>>,
         pc' \in {"scan", "interface", "select"} => UNCHANGED pc
  PROVE  Scanned' /\ FirstMatch'
<1>1. \A i : Wanted(i)' = Wanted(i)
  BY WantedUnchanged
<1>2. index' = index /\ chosen' = chosen
  BY DEF scan
<1> QED BY <1>1, <1>2 DEF IInv, Scanned, FirstMatch

LEMMA DiscoveryStep ==
  ASSUME IInv,
         ScanNext \/ ScanMatch \/ ScanFails \/ SelectInterface \/ SelectDevice \/ DiscoveryFails
  PROVE  IInv'
<1>1. /\ TypeOK /\ pc \in {"scan", "interface", "select"}
      /\ UNCHANGED <<setup, queue, missed, call, dstate, result>>
      /\ partial' \in BOOLEAN /\ faults' \in 0..MaxFaults
  <2>1. TypeOK /\ MaxFaults \in Nat
    BY KitAssumption DEF IInv
  <2>2. CASE DiscoveryFails
    <3>1. pc \in {"scan", "interface", "select"}
          /\ UNCHANGED <<setup, queue, missed, call, dstate, result>>
      BY <2>2 DEF DiscoveryFails
    <3>2. partial' \in BOOLEAN
      BY Zenon, <2>1, <2>2 DEF DiscoveryFails, TypeOK
    <3>3. faults' \in 0..MaxFaults
      BY <2>1, <2>2 DEF DiscoveryFails, TypeOK
    <3> QED BY <2>1, <3>1, <3>2, <3>3
  <2>3. CASE ScanNext \/ ScanMatch \/ ScanFails \/ SelectInterface \/ SelectDevice
    BY <2>1, <2>3 DEF ScanNext, ScanMatch, ScanFails, SelectInterface, SelectDevice,
                      Discovering, io, TypeOK
  <2> QED BY <2>2, <2>3
<1>2. \A i : Wanted(i)' = Wanted(i)
  BY <1>1, WantedUnchanged
<1>3. /\ pc' \in {"scan", "interface", "select", "failed", "ready"}
      /\ index' \in 0..kitMaxScanCount /\ chosen' \in 0..kitMaxScanCount
      /\ Scanned' /\ FirstMatch'
  <2>1. CASE ScanNext
    <3>1. index' = index + 1 /\ chosen' = chosen /\ pc' = "scan" /\ index \in 0..7 /\ ~Wanted(index)
      BY <2>1 DEF ScanNext, Discovering, Indexes, kitMaxScanCount
    <3>2. chosen = kitMaxScanCount /\ \A i \in 0..(index - 1) : ~Wanted(i)
      BY <1>1 DEF IInv, Scanned
    <3>3. \A i \in 0..(index' - 1) : ~Wanted(i)
      BY <3>1, <3>2
    <3> QED BY <1>2, <3>1, <3>2, <3>3 DEF Scanned, FirstMatch, kitMaxScanCount
  <2>2. CASE ScanMatch
    <3>1. index' = index /\ chosen' = chosen /\ pc' \in {"interface", "select"}
          /\ index \in Indexes /\ Wanted(index)
      BY <2>2 DEF ScanMatch, Discovering, scan
    <3> QED BY <1>1, <1>2, <3>1 DEF IInv, Scanned, FirstMatch, TypeOK
  <2>3. CASE ScanFails \/ DiscoveryFails
    <3>1. index' = index /\ chosen' = chosen /\ pc' = "failed"
      BY <2>3 DEF ScanFails, DiscoveryFails, Discovering, scan
    <3> QED BY <1>1, <1>2, <3>1 DEF IInv, Scanned, FirstMatch, TypeOK
  <2>4. CASE SelectInterface
    <3>1. index' = index /\ chosen' = chosen /\ pc' = "select" /\ pc = "interface"
      BY <2>4 DEF SelectInterface, Discovering, scan
    <3> QED BY <1>1, <1>2, <3>1 DEF IInv, Scanned, FirstMatch, TypeOK
  <2>5. CASE SelectDevice
    <3>1. index' = index /\ chosen' = index /\ pc' = "ready" /\ pc = "select"
      BY <2>5 DEF SelectDevice, Discovering
    <3>2. index \in Indexes /\ Wanted(index) /\ \A i \in 0..(index - 1) : ~Wanted(i)
      BY <3>1 DEF IInv, Scanned
    <3> QED BY <1>1, <1>2, <3>1, <3>2 DEF Scanned, FirstMatch, TypeOK
  <2> QED BY <2>1, <2>2, <2>3, <2>4, <2>5
<1>4. TypeOK'
  BY <1>1, <1>3 DEF TypeOK, setup, call
<1>5. Lockstep' /\ AnswerQueued'
  BY <1>1, <1>3 DEF IInv, Lockstep, AnswerQueued
<1> QED BY <1>3, <1>4, <1>5 DEF IInv

LEMMA CallStep ==
  ASSUME IInv, NEW o \in Ops, Call(o)
  PROVE  IInv'
<1>1. /\ TypeOK /\ pc = "ready" /\ pc' = "wake" /\ op' = o /\ tries' = 0 /\ result' = "none"
      /\ cancelled' = FALSE
      /\ queue' = [k \in 1..Len(queue) |-> [queue[k] EXCEPT !.own = FALSE]]
      /\ UNCHANGED <<setup, scan, partial, missed, inited, dstate, faults>>
  BY DEF Call, IInv
<1>2. queue' \in Seq(Report)
  <2>1. queue \in Seq(Report) /\ Len(queue) \in Nat
    BY <1>1, LenProperties DEF TypeOK
  <2>2. \A k \in 1..Len(queue) : queue[k] \in Report
    BY <2>1, ElementOfSeq
  <2>3. \A k \in 1..Len(queue) : [queue[k] EXCEPT !.own = FALSE] \in Report
    BY <2>2 DEF Report
  <2>4. queue' \in [1..Len(queue) -> Report]
    BY <1>1, <2>3
  <2> QED BY <2>1, <2>4, SeqDef
<1>3. TypeOK'
  <2>1. tries' \in 0..RxRetries /\ cancelled' \in BOOLEAN
    <3>1. 0 \in 0..RxRetries
      BY KitAssumption
    <3> QED BY Zenon, <1>1, <3>1
  <2> QED BY <1>1, <1>2, <2>1 DEF TypeOK, setup, scan
<1>4. Scanned' /\ FirstMatch'
  BY <1>1, ScanUntouched
<1>5. Lockstep'
  <2>1. ASSUME ~missed
        PROVE  queue' = <<>>
    <3>1. queue = <<>>
      BY <1>1, <2>1 DEF IInv, Lockstep
    <3> QED BY <1>1, <3>1
  <2> QED BY <1>1, <2>1 DEF Lockstep
<1>6. AnswerQueued'
  BY <1>1 DEF AnswerQueued
<1> QED BY <1>3, <1>4, <1>5, <1>6 DEF IInv

LEMMA WakeStep ==
  ASSUME IInv, Wake
  PROVE  IInv'
<1>1. TypeOK /\ pc = "wake" /\ pc' = "send" /\ UNCHANGED <<setup, scan, call, result>>
  BY DEF Wake, IInv
<1>2. /\ queue' \in Seq(Report) /\ partial' \in BOOLEAN /\ missed' \in BOOLEAN
      /\ faults' \in 0..MaxFaults /\ dstate' \in {"unknown", "idle", "active"}
      /\ ~missed' => ~missed
      /\ ~missed' /\ queue = <<>> => queue' = <<>>
  <2>1. CASE dstate = "active" /\ UNCHANGED <<io, dstate, faults>>
    <3>1. /\ queue' = queue /\ partial' = partial /\ missed' = missed
          /\ dstate' = dstate /\ faults' = faults
      BY <2>1 DEF io
    <3> QED BY Zenon, <1>1, <3>1 DEF TypeOK
  <2>2. ASSUME NEW woken \in BOOLEAN, Exchange("wake", woken),
               dstate' = IF woken THEN "active" ELSE dstate
        PROVE  /\ queue' \in Seq(Report) /\ partial' \in BOOLEAN /\ missed' \in BOOLEAN
               /\ faults' \in 0..MaxFaults /\ dstate' \in {"unknown", "idle", "active"}
               /\ ~missed' => ~missed
               /\ ~missed' /\ queue = <<>> => queue' = <<>>
    <3>1. dstate' \in {"unknown", "idle", "active"}
      BY <1>1, <2>2 DEF TypeOK
    <3> QED BY Zenon, <1>1, <2>2, <3>1, ExchangeStep
  <2> QED BY Zenon, <2>1, <2>2 DEF Wake
<1>3. TypeOK'
  BY <1>1, <1>2 DEF TypeOK, setup, scan, call
<1>4. Scanned' /\ FirstMatch'
  BY <1>1, ScanUntouched
<1>5. Lockstep'
  BY <1>1, <1>2 DEF Lockstep, IInv
<1>6. AnswerQueued'
  BY <1>1 DEF AnswerQueued
<1> QED BY <1>3, <1>4, <1>5, <1>6 DEF IInv

\* What a request that is sent whole leaves in the queue.
LEMMA SentReply ==
  ASSUME TypeOK, Sent
  PROVE  \E o \in Outs, k \in 1..Reports[op] : queue' = queue \o Reply("talk", o, k)
<1>1. Reports[op] \in Nat \ {0} /\ 1 \in Nat \ {0}
  BY KitAssumption DEF TypeOK
<1>2. "ok" \in Outs /\ "status" \in Outs /\ "kit" \in Outs
  BY DEF Outs
<1>3. \E o \in Outs, k \in 1..Reports[op] : Answer("talk", "ok", Reports[op]) = Reply("talk", o, k)
  BY <1>1, <1>2, AnswerIsReply
<1>4. \E o \in Outs, k \in 1..1 : Answer("talk", "status", 1) = Reply("talk", o, k)
  BY <1>1, <1>2, AnswerIsReply
<1>5. \A k \in 1..1 : k \in 1..Reports[op]
  BY <1>1
<1>6. 1 \in 1..Reports[op]
  BY <1>1
<1>7. \E r \in {Answer("talk", "ok", Reports[op]), Answer("talk", "status", 1), Reply("talk", "kit", 1)} :
        queue' = queue \o r
  BY Zenon DEF Sent, Replied
<1> QED BY <1>2, <1>3, <1>4, <1>5, <1>6, <1>7

LEMMA SentStep ==
  ASSUME IInv, Sent
  PROVE  IInv'
<1>1. /\ TypeOK /\ pc = "send" /\ dstate' = "active" /\ partial' = FALSE
      /\ missed' = (missed \/ cancelled)
      /\ IF cancelled THEN pc' = "idle" /\ result' = "ctx" ELSE pc' = "wait" /\ UNCHANGED result
      /\ UNCHANGED <<setup, scan, call>>
  BY DEF Sent, IInv, Replied
<1>2. faults' \in 0..MaxFaults
  BY <1>1, KitAssumption DEF Sent, Fault, NoFault, TypeOK
<1>3. PICK o \in Outs, k \in 1..Reports[op] : queue' = queue \o Reply("talk", o, k)
  BY <1>1, SentReply
<1>4. /\ k \in Nat \ {0} /\ queue \in Seq(Report)
      /\ Reply("talk", o, k) \in Seq(Report) /\ Len(Reply("talk", o, k)) = k
      /\ Reply("talk", o, k)[k] =
           [of |-> "talk", own |-> TRUE, out |-> o, first |-> k = 1, last |-> TRUE]
  <2>1. Reports[op] \in Nat \ {0}
    BY <1>1, KitAssumption DEF TypeOK
  <2>2. k \in Nat \ {0} /\ k \in 1..k /\ (k = k) = TRUE
    BY <2>1
  <2>3. \A j \in 1..k : Reply("talk", o, k)[j] =
          [of |-> "talk", own |-> TRUE, out |-> o, first |-> j = 1, last |-> j = k]
    BY <2>2, ReplyType
  <2>4. Reply("talk", o, k)[k] =
          [of |-> "talk", own |-> TRUE, out |-> o, first |-> k = 1, last |-> k = k]
    BY <2>2, <2>3
  <2>5. Reply("talk", o, k) \in Seq(Report) /\ Len(Reply("talk", o, k)) = k
    BY <2>2, ReplyType
  <2>6. queue \in Seq(Report)
    BY <1>1 DEF TypeOK
  <2> QED BY Zenon, <2>2, <2>4, <2>5, <2>6
<1>5. queue' \in Seq(Report) /\ Len(queue') = Len(queue) + k /\ Len(queue) \in Nat
      /\ queue'[Len(queue')] = Reply("talk", o, k)[k]
  <2> DEFINE r == Reply("talk", o, k)
  <2> HIDE DEF r
  <2>1. queue' = queue \o r /\ r \in Seq(Report) /\ queue \in Seq(Report) /\ Len(r) = k
    BY <1>3, <1>4 DEF r
  <2>2. /\ queue \o r \in Seq(Report) /\ Len(queue \o r) = Len(queue) + Len(r)
        /\ \A i \in 1 .. Len(queue) + Len(r) :
             (queue \o r)[i] = IF i <= Len(queue) THEN queue[i] ELSE r[i - Len(queue)]
    BY <2>1, ConcatProperties
  <2>3. Len(queue) \in Nat /\ k \in Nat \ {0}
    BY <1>4, <2>1, LenProperties
  <2>4. (queue \o r)[Len(queue) + k] = r[k]
    BY <2>1, <2>2, <2>3
  <2> QED BY Zenon, <2>1, <2>2, <2>3, <2>4 DEF r
<1>6. missed' \in BOOLEAN /\ partial' \in BOOLEAN
  BY Zenon, <1>1
<1>7. pc' \in {"idle", "wait"} /\ result' \in {"ctx", result}
  BY <1>1
<1>8. TypeOK'
  BY <1>1, <1>2, <1>5, <1>6, <1>7 DEF TypeOK, setup, scan, call
<1>9. Scanned' /\ FirstMatch'
  BY <1>1, <1>7, ScanUntouched
<1>10. Lockstep'
  <2> SUFFICES ASSUME ~missed'
               PROVE  /\ pc' = "wait" /\ result' \notin {"stale", "panic"}
                      /\ queue' = Reply("talk", o, k) /\ op' = op
    BY DEF Lockstep
  <2>1. ~missed /\ ~cancelled
    BY <1>1
  <2>2. queue = <<>> /\ result \notin {"stale", "panic"}
    BY <1>1, <2>1 DEF IInv, Lockstep
  <2>3. queue' = Reply("talk", o, k)
    BY <1>3, <1>4, <2>2, ConcatEmptySeq
  <2> QED BY <1>1, <2>1, <2>2, <2>3 DEF call
<1>11. AnswerQueued'
  <2>1. queue' # <<>>
    BY <1>4, <1>5, EmptySeq
  <2> QED BY <1>4, <1>5, <2>1 DEF AnswerQueued
<1> QED BY <1>8, <1>9, <1>10, <1>11 DEF IInv

\* A step of a call that leaves the queue alone.
LEMMA QueueUntouched ==
  ASSUME IInv, UNCHANGED <<setup, scan, queue, inited, op, dstate>>,
         pc' \in {"failed", "ready", "wake", "send", "backoff", "wait", "read", "idle"},
         pc \notin {"scan", "interface", "select"},
         partial' \in BOOLEAN, missed' \in BOOLEAN, tries' \in 0..RxRetries,
         cancelled' \in BOOLEAN, result' \in {result, "ctx", "send"}, faults' \in 0..MaxFaults,
         ~missed' => ~missed /\ (pc' \in {"wait", "read"} <=> pc \in {"wait", "read"}),
         pc' \in {"wait", "read"} => pc \in {"wait", "read"}
  PROVE  IInv'
<1>1. TypeOK
  BY DEF IInv
<1>2. result' \in {"none", "ok", "stale", "status", "panic", "read", "send", "ctx"}
  BY <1>1 DEF TypeOK
<1>3. TypeOK'
  <2>1. /\ board' \in Boards /\ cfg' \in Configs /\ op' \in Ops /\ queue' \in Seq(Report)
        /\ index' \in 0..kitMaxScanCount /\ chosen' \in 0..kitMaxScanCount
        /\ dstate' \in {"unknown", "idle", "active"}
    BY <1>1 DEF TypeOK, setup, scan
  <2>2. inited' \in BOOLEAN
    BY Zenon, <1>1 DEF TypeOK
  <2>3. pc' \in {"scan", "interface", "select", "failed", "ready",
                 "wake", "send", "backoff", "wait", "read", "idle"}
    OBVIOUS
  <2> QED BY Zenon, <1>2, <2>1, <2>2, <2>3 DEF TypeOK
<1>4. Scanned' /\ FirstMatch'
  BY ScanUntouched
<1>5. Lockstep'
  <2> SUFFICES ASSUME ~missed'
               PROVE  /\ pc' \notin {"wait", "read"} => queue' = <<>>
                      /\ pc' \in {"wait", "read"} =>
                           \E out \in Outs, n \in 1..Reports[op'] : queue' = Reply("talk", out, n)
                      /\ result' \notin {"stale", "panic"}
    BY DEF Lockstep
  <2>1. /\ pc \notin {"wait", "read"} => queue = <<>>
        /\ pc \in {"wait", "read"} =>
             \E out \in Outs, n \in 1..Reports[op] : queue = Reply("talk", out, n)
        /\ result \notin {"stale", "panic"}
    BY DEF IInv, Lockstep
  <2> QED BY <2>1
<1>6. AnswerQueued'
  BY DEF IInv, AnswerQueued
<1> QED BY <1>3, <1>4, <1>5, <1>6 DEF IInv

LEMMA QuietStep ==
  ASSUME IInv,
         \/ NotSent \/ BackoffCancelled \/ BackoffRetry \/ BackoffGiveUp
         \/ WaitCancelled \/ WaitOver \/ Cancel
  PROVE  IInv'
<1>1. /\ TypeOK /\ RxRetries \in Nat /\ MaxFaults \in Nat /\ tries \in 0..RxRetries
      /\ faults \in 0..MaxFaults /\ partial \in BOOLEAN /\ missed \in BOOLEAN
      /\ cancelled \in BOOLEAN
  BY KitAssumption DEF IInv, TypeOK
<1>2. CASE NotSent
  <2>1. /\ pc = "send" /\ pc' \in {"ready", "failed", "backoff"} /\ result' \in {result, "ctx", "send"}
        /\ UNCHANGED <<setup, scan, queue, missed, inited, op, tries, cancelled, dstate>>
    BY <1>2 DEF NotSent, Return, call
  <2>2. partial' \in BOOLEAN
    <3>1. partial' \in {partial, TRUE}
      BY <1>2 DEF NotSent
    <3> QED BY Zenon, <1>1, <3>1
  <2>3. faults' \in 0..MaxFaults
    BY <1>1, <1>2 DEF NotSent, Fault
  <2> QED BY <1>1, <2>1, <2>2, <2>3, QueueUntouched
<1>3. CASE BackoffCancelled \/ BackoffGiveUp
  <2>1. /\ pc = "backoff" /\ pc' \in {"ready", "failed"} /\ result' \in {result, "ctx", "send"}
        /\ UNCHANGED <<setup, scan, queue, partial, missed, inited, op, tries, cancelled, dstate, faults>>
    BY <1>3 DEF BackoffCancelled, BackoffGiveUp, OutOfTries, Return, call, io
  <2> QED BY <1>1, <2>1, QueueUntouched
<1>4. CASE BackoffRetry
  <2>1. /\ pc = "backoff" /\ pc' = "wake" /\ result' = result
        /\ UNCHANGED <<setup, scan, queue, partial, missed, inited, op, cancelled, dstate, faults>>
    BY <1>4 DEF BackoffRetry, io
  <2>2. tries' \in 0..RxRetries
    BY <1>1, <1>4 DEF BackoffRetry
  <2> QED BY <1>1, <2>1, <2>2, QueueUntouched
<1>5. CASE WaitCancelled
  <2>1. /\ pc = "wait" /\ pc' = "idle" /\ result' = "ctx" /\ missed' = TRUE
        /\ UNCHANGED <<setup, scan, queue, partial, inited, op, tries, cancelled, dstate, faults>>
    BY <1>5 DEF WaitCancelled, call
  <2> QED BY <1>1, <2>1, QueueUntouched
<1>6. CASE WaitOver
  <2>1. /\ pc = "wait" /\ pc' = "read" /\ result' = result
        /\ UNCHANGED <<setup, scan, queue, partial, missed, inited, op, tries, cancelled, dstate, faults>>
    BY <1>6 DEF WaitOver, call, io
  <2> QED BY <1>1, <2>1, QueueUntouched
<1>7. CASE Cancel
  <2>1. /\ pc \in {"wake", "send", "backoff", "wait", "read"} /\ pc' = pc /\ result' = result
        /\ cancelled' = TRUE
        /\ UNCHANGED <<setup, scan, queue, partial, missed, inited, op, tries, dstate>>
    BY <1>7 DEF Cancel, Calling, io
  <2>2. faults' \in 0..MaxFaults
    BY <1>1, <1>7 DEF Cancel, Fault
  <2> QED BY <1>1, <2>1, <2>2, QueueUntouched
<1> QED BY <1>2, <1>3, <1>4, <1>5, <1>6, <1>7

\* What a read of one's own reply becomes.
LEMMA OutcomeInStep ==
  ASSUME NEW out \in Outs, NEW max \in Nat \ {0}, NEW n \in 1..max
  PROVE  Outcome(Reply("talk", out, n), max) \in {"ok", "status", "read"}
<1> DEFINE q == Reply("talk", out, n)
<1>1. n \in Nat \ {0} /\ 1 \in 1..n
  OBVIOUS
<1>2. q[1] = [of |-> "talk", own |-> TRUE, out |-> out, first |-> 1 = 1, last |-> 1 = n]
  BY <1>1, ReplyType
<1> HIDE DEF q
<1>3. q[1].of = "talk" /\ q[1].own = TRUE /\ q[1].out = out
  BY <1>2
<1>4. Parsed(q, max) => out # "kit"
  BY <1>3 DEF Parsed
<1>5. Outcome(q, max) \in {"ok", "status", "read"}
  <2>1. CASE ~Parsed(q, max)
    BY <2>1 DEF Outcome
  <2>2. CASE Parsed(q, max)
    <3>1. q[1].of # "wake" /\ q[1].of # "idle" /\ q[1].own
      BY <1>3
    <3>2. Outcome(q, max) = q[1].out
      BY Zenon, <2>2, <3>1 DEF Outcome
    <3> QED BY <1>3, <1>4, <2>2, <3>2 DEF Outs
  <2> QED BY <2>1, <2>2
<1> QED BY <1>5 DEF q

LEMMA OutcomeType ==
  ASSUME NEW q \in Seq(Report), q # <<>>, NEW max
  PROVE  Outcome(q, max) \in {"ok", "stale", "status", "panic", "read"}
<1>1. q[1] \in Report
  <2>1. 1 \in 1..Len(q)
    BY EmptySeq
  <2> QED BY <2>1, ElementOfSeq
<1>2. q[1].out \in {"ok", "status", "kit"} /\ (Parsed(q, max) => q[1].out # "kit")
  BY <1>1 DEF Report, Parsed
<1>3. CASE ~Parsed(q, max)
  BY <1>3 DEF Outcome
<1>4. CASE Parsed(q, max)
  <2>1. Outcome(q, max) \in {"status", "panic", "stale", q[1].out}
    BY <1>4 DEF Outcome
  <2> QED BY <1>2, <1>4, <2>1
<1> QED BY <1>3, <1>4

LEMMA ReadStep ==
  ASSUME IInv, Read
  PROVE  IInv'
<1> DEFINE max == Reports[op]
<1>1. /\ TypeOK /\ pc = "read" /\ pc' = "idle" /\ queue # <<>> /\ queue \in Seq(Report)
      /\ UNCHANGED <<setup, scan, partial, call, dstate>>
      /\ faults' \in 0..MaxFaults /\ max \in Nat \ {0}
  <2>1. TypeOK /\ MaxFaults \in Nat /\ max \in Nat \ {0}
    BY KitAssumption DEF IInv, TypeOK
  <2>2. faults' \in 0..MaxFaults
    BY <2>1 DEF Read, Fault, NoFault, TypeOK
  <2> QED BY <2>1, <2>2 DEF Read, TypeOK
<1>2. \/ missed' = missed /\ result' = Outcome(queue, max) /\ queue' = Rest(queue, max)
      \/ missed' = TRUE /\ result' = "read" /\ queue' = queue
  BY DEF Read
<1> HIDE DEF max
<1>3. queue' \in Seq(Report) /\ result' \in {"ok", "stale", "status", "panic", "read"}
  BY <1>1, <1>2, RestType, OutcomeType
<1>4. TypeOK'
  <2>1. missed' \in BOOLEAN
    BY Zenon, <1>1, <1>2 DEF TypeOK
  <2>2. partial' \in BOOLEAN /\ inited' \in BOOLEAN /\ cancelled' \in BOOLEAN
    BY Zenon, <1>1 DEF TypeOK, call
  <2>3. /\ board' \in Boards /\ cfg' \in Configs /\ op' \in Ops
        /\ index' \in 0..kitMaxScanCount /\ chosen' \in 0..kitMaxScanCount
        /\ dstate' \in {"unknown", "idle", "active"} /\ tries' \in 0..RxRetries
    BY <1>1 DEF TypeOK, setup, scan, call
  <2> QED BY <1>1, <1>3, <2>1, <2>2, <2>3 DEF TypeOK
<1>5. Scanned' /\ FirstMatch'
  BY <1>1, ScanUntouched
<1>6. Lockstep'
  <2> SUFFICES ASSUME ~missed'
               PROVE  queue' = <<>> /\ result' \notin {"stale", "panic"}
    BY <1>1 DEF Lockstep
  <2>1. ~missed /\ result' = Outcome(queue, max) /\ queue' = Rest(queue, max)
    BY <1>2
  <2>2. PICK out \in Outs, n \in 1..max : queue = Reply("talk", out, n)
    BY <1>1, <2>1 DEF IInv, Lockstep, max
  <2>3. Rest(Reply("talk", out, n), max) = <<>>
    BY <1>1, TakesReply
  <2>4. Outcome(Reply("talk", out, n), max) \in {"ok", "status", "read"}
    BY <1>1, OutcomeInStep
  <2> QED BY <2>1, <2>2, <2>3, <2>4
<1>7. AnswerQueued'
  BY <1>1 DEF AnswerQueued
<1> QED BY <1>4, <1>5, <1>6, <1>7 DEF IInv

LEMMA IdleStep ==
  ASSUME IInv, DeferIdle
  PROVE  IInv'
<1>1. /\ TypeOK /\ pc = "idle" /\ pc' \in {"ready", "failed"} /\ dstate' = "idle"
      /\ UNCHANGED <<setup, scan, op, tries, cancelled, result>>
  BY DEF DeferIdle, Idle, IInv
<1>2. PICK woken \in BOOLEAN : Exchange("idle", woken)
  BY DEF DeferIdle, Idle
<1>3. /\ queue' \in Seq(Report) /\ partial' \in BOOLEAN /\ missed' \in BOOLEAN
      /\ faults' \in 0..MaxFaults
      /\ ~missed' => ~missed
      /\ ~missed' /\ queue = <<>> => queue' = <<>>
  BY Zenon, <1>1, <1>2, ExchangeStep
<1>4. inited' \in BOOLEAN
  BY Zenon DEF DeferIdle
<1>5. TypeOK'
  BY <1>1, <1>3, <1>4 DEF TypeOK, setup, scan
<1>6. Scanned' /\ FirstMatch'
  BY <1>1, ScanUntouched
<1>7. Lockstep' /\ AnswerQueued'
  BY <1>1, <1>3 DEF IInv, Lockstep, AnswerQueued
<1> QED BY <1>5, <1>6, <1>7 DEF IInv

LEMMA ReopenStep ==
  ASSUME IInv, Reopen
  PROVE  IInv'
<1>1. /\ index' = 0 /\ chosen' = kitMaxScanCount /\ pc' = "scan" /\ queue' = <<>>
      /\ dstate' = "unknown" /\ tries' = 0 /\ result' = "none" /\ faults' = 0
      /\ UNCHANGED <<setup, op, partial>> /\ TypeOK
  BY DEF Reopen, IInv
<1>2. inited' \in BOOLEAN /\ cancelled' \in BOOLEAN /\ missed' \in BOOLEAN /\ partial' \in BOOLEAN
  BY Zenon DEF Reopen, IInv, TypeOK
<1>3. tries' \in 0..RxRetries /\ faults' \in 0..MaxFaults /\ index' \in 0..8
      /\ chosen' \in 0..8
  BY <1>1, KitAssumption DEF kitMaxScanCount
<1>4. queue' \in Seq(Report)
  BY <1>1, EmptySeq
<1>5. TypeOK'
  BY <1>1, <1>2, <1>3, <1>4 DEF TypeOK, setup, kitMaxScanCount
<1>6. Scanned' /\ FirstMatch' /\ Lockstep' /\ AnswerQueued'
  BY <1>1 DEF Scanned, FirstMatch, Lockstep, AnswerQueued
<1> QED BY <1>5, <1>6 DEF IInv

LEMMA Inductive ==
  ASSUME IInv, [Next]_vars
  PROVE  IInv'
<1>1. ASSUME NEW o \in Ops, Call(o)
      PROVE  IInv'
  BY <1>1, CallStep
<1>2. CASE UNCHANGED vars
  <2>1. /\ UNCHANGED <<setup, scan, queue, inited, op, dstate>>
        /\ UNCHANGED <<pc, partial, missed, tries, cancelled, result, faults>>
    BY <1>2 DEF vars, io, call
  <2>2. \A i : Wanted(i)' = Wanted(i)
    BY <2>1, WantedUnchanged
  <2>3. Scanned' /\ FirstMatch'
    BY <2>1, ScanUntouched
  <2>4. TypeOK'
    BY <2>1 DEF IInv, TypeOK, setup, scan
  <2>5. Lockstep' /\ AnswerQueued'
    BY <2>1 DEF IInv, Lockstep, AnswerQueued
  <2> QED BY <2>3, <2>4, <2>5 DEF IInv
<1> QED BY Zenon, <1>1, <1>2, DiscoveryStep, WakeStep, SentStep, QuietStep, ReadStep,
           IdleStep, ReopenStep DEF Next, Host

-----------------------------------------------------------------------------
\* Discovery, requests and replies (hal_kit.go) stay in their types, for
\* queues of any length.
THEOREM TypeCorrect == Spec => []TypeOK
<1>1. Init => IInv
  BY InitIInv
<1>2. IInv /\ [Next]_vars => IInv'
  BY Inductive
<1>3. IInv => TypeOK
  BY DEF IInv
<1> QED BY <1>1, <1>2, <1>3, PTL DEF Spec

\* The scan (hal_kit.go:94-126) selects the first device that the
\* configuration asks for, whatever is on the board.
THEOREM FirstMatchAlways == Spec => []FirstMatch
<1>1. Init => IInv
  BY InitIInv
<1>2. IInv /\ [Next]_vars => IInv'
  BY Inductive
<1>3. IInv => FirstMatch
  BY DEF IInv
<1> QED BY <1>1, <1>2, <1>3, PTL DEF Spec

\* As long as the driver has read the reply to each request it sent whole, no
\* report is left between calls, no call reads another's answer, and none
\* panics: for requests and answers of any size (hal_kit.go:148-166).
THEOREM InStepAlways == Spec => []InStep
<1>1. Init => IInv
  BY InitIInv
<1>2. IInv /\ [Next]_vars => IInv'
  BY Inductive
<1>3. IInv => InStep
  BY DEF IInv, Lockstep, InStep
<1> QED BY <1>1, <1>2, <1>3, PTL DEF Spec

\* The read without a time limit (hal_kit.go:273) is made only with the own
\* answer at the end of the queue.
THEOREM AnswerQueuedAlways == Spec => []AnswerQueued
<1>1. Init => IInv
  BY InitIInv
<1>2. IInv /\ [Next]_vars => IInv'
  BY Inductive
<1>3. IInv => AnswerQueued
  BY DEF IInv
<1> QED BY <1>1, <1>2, <1>3, PTL DEF Spec
-----------------------------------------------------------------------------
(* A call ends.                                                            *)

\* The attempts the send loop has left, and the steps that are left of this
\* one when nothing fails.
Attempts == RxRetries - tries
Steps ==
  CASE pc = "wake" -> 5
    [] pc = "send" -> 4
    [] pc = "backoff" -> 3
    [] pc = "wait" -> 2
    [] pc = "read" -> 1
    [] OTHER -> 0

CloserToReturn ==
  \/ ~Calling'
  \/ Attempts' < Attempts
  \/ Attempts' = Attempts /\ Steps' < Steps

NoFurther == ~Calling' \/ UNCHANGED <<pc, tries>>

\* What makes every call over the kit return (Kit!Returns), for any RxRetries
\* and however many transfers fail: each step of the goroutine brings it
\* closer to its end, and no other step takes it back.  AnswerQueued has the
\* rest, that the read is not one that waits for ever.
THEOREM CallsRunOut ==
  Spec => /\ [](Attempts \in Nat /\ Steps \in Nat)
          /\ [][Calling => (Host => CloserToReturn) /\ (~Host => NoFurther)]_vars
<1> USE KitAssumption
<1>1. TypeOK => Attempts \in Nat /\ Steps \in Nat
  BY DEF TypeOK, Attempts, Steps
<1>2. ASSUME TypeOK, Calling, Host
      PROVE  CloserToReturn
  <2> USE DEF CloserToReturn, Attempts, Steps, Calling
  <2>1. tries \in 0..RxRetries
    BY <1>2 DEF TypeOK
  <2>2. ~ScanNext /\ ~ScanMatch /\ ~ScanFails /\ ~SelectInterface /\ ~SelectDevice /\ ~DeferIdle
    BY <1>2 DEF ScanNext, ScanMatch, ScanFails, SelectInterface, SelectDevice, Discovering,
                DeferIdle, Idle
  <2>3. CASE Wake
    BY <2>1, <2>3 DEF Wake, call
  <2>4. CASE Sent
    BY <2>1, <2>4 DEF Sent, call
  <2>5. CASE NotSent
    BY <2>1, <2>5 DEF NotSent, Return, call
  <2>6. CASE BackoffCancelled \/ BackoffGiveUp
    BY <2>6 DEF BackoffCancelled, BackoffGiveUp, OutOfTries, Return
  <2>7. CASE BackoffRetry
    BY <2>1, <2>7 DEF BackoffRetry
  <2>8. CASE WaitCancelled \/ WaitOver \/ Read
    BY <2>1, <2>8 DEF WaitCancelled, WaitOver, Read, call
  <2> QED BY <1>2, <2>2, <2>3, <2>4, <2>5, <2>6, <2>7, <2>8 DEF Host
<1>3. ASSUME Next, Calling, ~Host
      PROVE  NoFurther
  <2>1. \A o \in Ops : ~Call(o)
    BY <1>3 DEF Call, Calling
  <2>2. DiscoveryFails \/ Cancel \/ Reopen
    BY <1>3, <2>1 DEF Next
  <2> QED BY <2>2 DEF DiscoveryFails, Cancel, Reopen, NoFurther, Calling
<1>4. ASSUME TypeOK, [Next]_vars
      PROVE  [Calling => (Host => CloserToReturn) /\ (~Host => NoFurther)]_vars
  BY <1>2, <1>3, <1>4
<1> QED BY <1>1, <1>4, TypeCorrect, PTL DEF Spec
=============================================================================
