------------------------------ MODULE Signing ------------------------------
(***************************************************************************)
(* Keys and signatures: GenerateKey, PublicKey, PrivateKey and its Sign,   *)
(* Sign and VerifyExtern (pkg/atecc/atecc.go, calib.go), and the command   *)
(* atecc sign (cmd/atecc/sign.go).  Signing and verifying are sequences of *)
(* commands that meet in the chip's message digest buffer, which a call    *)
(* before may have left filled and which the chip loses when it sleeps.    *)
(* One step is one command; each may fail, executed or not (Command).      *)
(*                                                                         *)
(* A key pair is a number, and a signature the key and message it is of.   *)
(* The definitions called ...Broken are plausible mistakes in the          *)
(* definition that follows each of them; no other definition uses them.    *)
(***************************************************************************)
EXTENDS Naturals

CONSTANTS
  Slots,       \* key slots
  Messages,    \* message digests
  NoMessage,   \* an empty digest buffer
  MaxKeys      \* bound: key pairs that the chip generates

ASSUME SigningAssumption == MaxKeys \in Nat /\ NoMessage \notin Messages

NoKey == 0
HostKey == MaxKeys + 1      \* the key pair of atecc sign -signer host
Keys == 1..MaxKeys

Signature(k, m) == [key |-> k, msg |-> m]
NoSignature == [key |-> NoKey]
Signatures == [key : Keys \cup {HostKey}, msg : Messages]
NoHandle == [pub |-> NoKey]

VARIABLES
  \* the chip
  locked,           \* the configuration zone is locked
  keys, made,       \* the key of each slot, and how many have been generated
  digest,           \* the message digest buffer
  \* the process: a call and its arguments, what it returned or has so far
  pc, op, slot, msg, sig, pub,
  signer, verifier, \* flags of atecc sign
  handle,           \* a privateKey that PrivateKey has returned
  result

chip == <<locked, keys, made, digest>>
flags == <<signer, verifier>>
args == <<op, slot, msg>>
vars == <<chip, pc, args, sig, pub, flags, handle, result>>

Places == {"device", "host"}

Init ==
  /\ locked \in BOOLEAN /\ keys = [s \in Slots |-> NoKey] /\ made = 0
  /\ digest = NoMessage
  /\ pc = "idle" /\ op = "none" /\ slot \in Slots /\ msg \in Messages
  /\ sig = NoSignature /\ pub = NoKey
  /\ signer = "device" /\ verifier = "host" /\ handle = NoHandle /\ result = "none"

-----------------------------------------------------------------------------
(* Calls.                                                                  *)

Begin(o, here, s, m) ==
  /\ pc = "idle" /\ pc' = here
  /\ op' = o /\ slot' = s /\ msg' = m /\ result' = "none"
  /\ UNCHANGED <<chip, handle>>

\* A call that takes no signature and no public key.
BeginPlain(o, here, s, m) ==
  /\ Begin(o, here, s, m)
  /\ sig' = NoSignature /\ pub' = NoKey /\ UNCHANGED flags

GenerateKey(s) == BeginPlain("GenerateKey", "generate", s, msg)
PublicKey(s) == BeginPlain("PublicKey", "public", s, msg)
PrivateKey(s) == BeginPlain("PrivateKey", "public", s, msg)
Sign(s, m) == BeginPlain("Sign", "random", s, m)
PrivateKeySign(m) == handle # NoHandle /\ BeginPlain("Sign", "random", handle.slot, m)

VerifyExtern(m, g, p) ==
  /\ Begin("VerifyExtern", "verifyLoad", slot, m)
  /\ sig' = g /\ pub' = p /\ UNCHANGED flags

\* atecc sign: a process of its own, which looks at the lock if it uses the device.
SignCommand(s, m, by, with) ==
  /\ handle = NoHandle
  /\ Begin("atecc sign", IF "device" \in {by, with} THEN "isLocked" ELSE "key", s, m)
  /\ sig' = NoSignature /\ pub' = NoKey /\ signer' = by /\ verifier' = with

-----------------------------------------------------------------------------
(* Commands.  How one may end: a chip that refuses a command does not      *)
(* execute it; without an error it was executed.                           *)

Ends(accepted) == IF accepted THEN {"done", "doneButError", "notDone"} ELSE {"notDone"}
Executed(e) == e # "notDone"

Return(r) == pc' = "idle" /\ result' = r
GoOn(there) == pc' = there /\ UNCHANGED result

\* The command at here ended with e: its error is returned, or the code goes on.
Check(e, there) == IF e = "done" THEN GoOn(there) ELSE Return("error")

At(here) == pc = here /\ UNCHANGED <<args, flags>>

HasKey == locked /\ keys[slot] # NoKey

\* generateKey
Generate ==
  /\ At("generate")
  /\ \E e \in Ends(locked /\ made < MaxKeys) :
       /\ IF Executed(e) THEN keys' = [keys EXCEPT ![slot] = made + 1] /\ made' = made + 1
                         ELSE UNCHANGED <<keys, made>>
       /\ IF e = "done" THEN pub' = made + 1 /\ Return("ok")
                        ELSE UNCHANGED pub /\ Return("error")
  /\ UNCHANGED <<locked, digest, sig, handle>>

\* publicKey, and what its caller does next.
GotPublic ==
  CASE op = "PublicKey"  -> Return("ok") /\ UNCHANGED handle
    [] op = "PrivateKey" -> Return("ok") /\ handle' = [slot |-> slot, pub |-> keys[slot]]
    [] op = "atecc sign" -> GoOn("random") /\ UNCHANGED handle

PublicBroken ==
  /\ At("public")
  /\ pub' = keys[slot] /\ GotPublic
  /\ UNCHANGED <<chip, sig>>
Public ==
  /\ At("public")
  /\ \E e \in Ends(HasKey) :
       IF e = "done" THEN pub' = keys[slot] /\ GotPublic
                     ELSE UNCHANGED <<pub, handle>> /\ Return("error")
  /\ UNCHANGED <<chip, sig>>

\* random, so that the chip renews its seed.
Random ==
  /\ At("random")
  /\ \E e \in Ends(TRUE) : Check(e, "load")
  /\ UNCHANGED <<chip, sig, pub, handle>>

\* nonceLoad, for sign and for verifyExtern.
Load(here, there) ==
  /\ At(here)
  /\ \E e \in Ends(TRUE) :
       /\ digest' = IF Executed(e) THEN msg ELSE digest
       /\ Check(e, there)
  /\ UNCHANGED <<locked, keys, made, sig, pub, handle>>

SignLoadBroken ==
  /\ At("load") /\ GoOn("sign")
  /\ digest' \in {digest, msg}
  /\ UNCHANGED <<locked, keys, made, sig, pub, handle>>
SignLoad == Load("load", "sign")

VerifyLoadBroken ==
  /\ At("verifyLoad") /\ GoOn("verify")
  /\ digest' \in {digest, msg}
  /\ UNCHANGED <<locked, keys, made, sig, pub, handle>>
VerifyLoad == Load("verifyLoad", "verify")

\* signBase
SignBaseBroken ==
  /\ At("sign")
  /\ sig' = IF HasKey /\ digest # NoMessage THEN Signature(keys[slot], digest) ELSE sig
  /\ IF op = "atecc sign" THEN GoOn("verdict") ELSE Return("ok")
  /\ UNCHANGED <<chip, pub, handle>>
SignBase ==
  /\ At("sign")
  /\ \E e \in Ends(HasKey /\ digest # NoMessage) :
       IF e = "done"
       THEN /\ sig' = Signature(keys[slot], digest)
            /\ IF op = "atecc sign" THEN GoOn("verdict") ELSE Return("ok")
       ELSE UNCHANGED sig /\ Return("error")
  /\ UNCHANGED <<chip, pub, handle>>

\* The end of verifyExtern.  A signature that does not match ends the command
\* with a status, hence an error; (false, nil) is never returned.
Verify ==
  /\ At("verify")
  /\ \E e \in Ends(digest # NoMessage /\ sig = Signature(pub, digest)) :
       Return(IF e = "done" THEN "valid" ELSE "error")
  /\ UNCHANGED <<chip, sig, pub, handle>>

-----------------------------------------------------------------------------
(* The other steps of atecc sign.                                          *)

IsLocked ==
  /\ At("isLocked")
  /\ \E e \in Ends(TRUE) : IF locked THEN Check(e, "key") ELSE Return("error")
  /\ UNCHANGED <<chip, sig, pub, handle>>

KeyOnDevice ==
  /\ At("key") /\ signer = "device"
  /\ GoOn("public")
  /\ UNCHANGED <<chip, sig, pub, handle>>

SignOnHost ==
  /\ At("key") /\ signer = "host"
  /\ pub' = HostKey /\ sig' = Signature(HostKey, msg)
  /\ GoOn("verdict")
  /\ UNCHANGED <<chip, handle>>

VerifyOnDevice ==
  /\ At("verdict") /\ verifier = "device"
  /\ GoOn("verifyLoad")
  /\ UNCHANGED <<chip, sig, pub, handle>>

VerifyOnHost ==
  /\ At("verdict") /\ verifier = "host"
  /\ Return(IF sig = Signature(pub, msg) THEN "valid" ELSE "invalid")
  /\ UNCHANGED <<chip, sig, pub, handle>>

-----------------------------------------------------------------------------
(* The environment.                                                        *)

\* The watchdog, or a chip that was not idled: it sleeps.
Sleep ==
  /\ digest # NoMessage /\ digest' = NoMessage
  /\ UNCHANGED <<locked, keys, made, pc, args, sig, pub, flags, handle, result>>

\* The process ends, in a call or between two.
Kill ==
  /\ pc # "idle" \/ handle # NoHandle
  /\ Return("none") /\ handle' = NoHandle
  /\ UNCHANGED <<chip, args, sig, pub, flags>>

Calls ==
  \/ \E s \in Slots : GenerateKey(s) \/ PublicKey(s) \/ PrivateKey(s)
  \/ \E m \in Messages : PrivateKeySign(m) \/ \E s \in Slots : Sign(s, m)
  \/ \E m \in Messages, g \in Signatures, p \in Keys : VerifyExtern(m, g, p)
  \/ \E s \in Slots, m \in Messages, by \in Places, with \in Places :
       SignCommand(s, m, by, with)

Next ==
  \/ Calls
  \/ Generate \/ Public \/ Random \/ SignLoad \/ SignBase \/ VerifyLoad \/ Verify
  \/ IsLocked \/ KeyOnDevice \/ SignOnHost \/ VerifyOnDevice \/ VerifyOnHost
  \/ Sleep \/ Kill

Spec == Init /\ [][Next]_vars

-----------------------------------------------------------------------------
(* Properties.                                                             *)

TypeOK ==
  /\ locked \in BOOLEAN /\ keys \in [Slots -> Keys \cup {NoKey}] /\ made \in 0..MaxKeys
  /\ digest \in Messages \cup {NoMessage}
  /\ pc \in {"idle", "generate", "public", "random", "load", "sign", "verifyLoad",
             "verify", "isLocked", "key", "verdict"}
  /\ op \in {"none", "GenerateKey", "PublicKey", "PrivateKey", "Sign", "VerifyExtern",
             "atecc sign"}
  /\ slot \in Slots /\ msg \in Messages
  /\ sig \in Signatures \cup {NoSignature} /\ pub \in Keys \cup {HostKey, NoKey}
  /\ signer \in Places /\ verifier \in Places
  /\ handle \in [slot : Slots, pub : Keys] \cup {NoHandle}
  /\ result \in {"none", "ok", "error", "valid", "invalid"}

\* A signature that Sign returns is of the message it was given, by the key in
\* the slot: not of one that an earlier call left in the chip.
SignsOwnMessage ==
  op = "Sign" /\ result = "ok" => sig = Signature(keys[slot], msg)

\* Without an error VerifyExtern has verified this signature of this message
\* with this key.
VerifiedIsValid ==
  op = "VerifyExtern" /\ result = "valid" => sig = Signature(pub, msg)

\* What atecc sign prints agrees: when it comes to verify, its signature is of
\* the message read, by the key it printed before.  It never finds its own
\* signature invalid, on the device or on the host.
ToolAgrees ==
  op = "atecc sign" =>
    /\ pc \in {"verdict", "verifyLoad", "verify"} => sig = Signature(pub, msg)
    /\ result # "invalid"
=============================================================================
