--------------------------- MODULE SigningProofs ---------------------------
(***************************************************************************)
(* Signatures are of the message and the key that were asked for, for      *)
(* every set of slots and messages and any number of keys.                 *)
(***************************************************************************)
EXTENDS Signing, TLAPS

\* The calls in which each command is made.
CallsAt ==
  /\ pc = "generate" => op = "GenerateKey"
  /\ pc = "public" => op \in {"PublicKey", "PrivateKey", "atecc sign"}
  /\ pc \in {"random", "load", "sign"} => op \in {"Sign", "atecc sign"}
  /\ pc \in {"verifyLoad", "verify"} => op \in {"VerifyExtern", "atecc sign"}
  /\ pc \in {"isLocked", "key", "verdict"} => op = "atecc sign"

\* After the load the buffer holds the message of the call, or is empty.
Loaded == pc \in {"sign", "verify"} => digest \in {msg, NoMessage}

\* atecc sign has printed the key that it is going to sign with.
Printed == op = "atecc sign" /\ pc \in {"random", "load", "sign"} => pub = keys[slot]

Running == pc # "idle" => result = "none"

Inv ==
  /\ TypeOK /\ CallsAt /\ Loaded /\ Printed /\ Running
  /\ SignsOwnMessage /\ VerifiedIsValid /\ ToolAgrees

\* The properties, as parts of the invariant.
Properties == SignsOwnMessage /\ VerifiedIsValid /\ ToolAgrees

LEMMA InitInv == Init => Inv
<1>. SUFFICES ASSUME Init PROVE Inv
  OBVIOUS
<1>1. TypeOK
  BY SigningAssumption DEF Init, TypeOK, Places
<1>2. CallsAt /\ Loaded /\ Printed /\ Running /\ Properties
  BY DEF Init, CallsAt, Loaded, Printed, Running, Properties, SignsOwnMessage,
         VerifiedIsValid, ToolAgrees
<1>. QED
  BY <1>1, <1>2 DEF Inv, Properties

LEMMA StutterInv == Inv /\ UNCHANGED vars => Inv'
BY DEF Inv, vars, chip, flags, args, TypeOK, CallsAt, Loaded, Printed, Running,
       SignsOwnMessage, VerifiedIsValid, ToolAgrees, HasKey

\* A call that begins establishes the invariant, whatever came before.
LEMMA BeginInv ==
  ASSUME Inv, NEW o, NEW here, NEW s \in Slots, NEW m \in Messages,
         Begin(o, here, s, m),
         sig' \in Signatures \cup {NoSignature}, pub' \in Keys \cup {HostKey, NoKey},
         signer' \in Places, verifier' \in Places,
         <<o, here>> \in {<<"GenerateKey", "generate">>, <<"PublicKey", "public">>,
                          <<"PrivateKey", "public">>, <<"Sign", "random">>,
                          <<"VerifyExtern", "verifyLoad">>, <<"atecc sign", "isLocked">>,
                          <<"atecc sign", "key">>}
  PROVE  Inv'
<1>1. TypeOK'
  BY DEF Inv, TypeOK, Begin, chip
<1>2. CallsAt' /\ Loaded' /\ Printed' /\ Running'
  BY DEF Begin, CallsAt, Loaded, Printed, Running
<1>3. Properties'
  BY DEF Begin, Properties, SignsOwnMessage, VerifiedIsValid, ToolAgrees
<1>. QED
  BY <1>1, <1>2, <1>3 DEF Inv, Properties

LEMMA CallsInv == Inv /\ Calls => Inv'
<1>. SUFFICES ASSUME Inv, Calls PROVE Inv'
  OBVIOUS
<1>. USE SigningAssumption
<1>0. /\ msg \in Messages /\ slot \in Slots /\ signer \in Places /\ verifier \in Places
      /\ handle # NoHandle => handle.slot \in Slots
  BY DEF Inv, TypeOK
<1>1. ASSUME NEW s \in Slots, GenerateKey(s) \/ PublicKey(s) \/ PrivateKey(s) PROVE Inv'
  BY <1>0, <1>1, BeginInv DEF GenerateKey, PublicKey, PrivateKey, BeginPlain, flags
<1>2. ASSUME NEW m \in Messages, PrivateKeySign(m) PROVE Inv'
  BY <1>0, <1>2, BeginInv DEF PrivateKeySign, BeginPlain, flags
<1>3. ASSUME NEW s \in Slots, NEW m \in Messages, Sign(s, m) PROVE Inv'
  BY <1>0, <1>3, BeginInv DEF Sign, BeginPlain, flags
<1>4. ASSUME NEW m \in Messages, NEW g \in Signatures, NEW p \in Keys, VerifyExtern(m, g, p)
      PROVE Inv'
  BY <1>0, <1>4, BeginInv DEF VerifyExtern, flags
<1>5. ASSUME NEW s \in Slots, NEW m \in Messages, NEW by \in Places, NEW with \in Places,
             SignCommand(s, m, by, with)
      PROVE Inv'
  BY <1>0, <1>5, BeginInv DEF SignCommand
<1>. QED
  BY <1>1, <1>2, <1>3, <1>4, <1>5 DEF Calls

LEMMA KeyTypes ==
  ASSUME TypeOK
  PROVE  /\ HasKey => keys[slot] \in Keys
         /\ \A k \in Keys \cup {HostKey}, m \in Messages : Signature(k, m) \in Signatures
BY DEF TypeOK, HasKey, Signature, Signatures

LEMMA EndsFacts ==
  ASSUME NEW b, NEW e \in Ends(b)
  PROVE  /\ Executed(e) => b
         /\ e = "done" => Executed(e)
BY DEF Ends, Executed

LEMMA TypeStep == TypeOK /\ CallsAt /\ Next /\ ~Calls => TypeOK'
<1>. SUFFICES ASSUME TypeOK, CallsAt, Next, ~Calls PROVE TypeOK'
  OBVIOUS
<1>. USE SigningAssumption
<1>1. CASE Generate
  <2>1. PICK e \in Ends(locked /\ made < MaxKeys) :
          /\ IF Executed(e) THEN keys' = [keys EXCEPT ![slot] = made + 1] /\ made' = made + 1
                            ELSE UNCHANGED <<keys, made>>
          /\ IF e = "done" THEN pub' = made + 1 /\ Return("ok")
                           ELSE UNCHANGED pub /\ Return("error")
    BY <1>1 DEF Generate
  <2>2. Executed(e) => made < MaxKeys
    BY EndsFacts
  <2>3. made' \in 0..MaxKeys /\ (Executed(e) => made + 1 \in Keys)
    <3>1. made' = made \/ (made < MaxKeys /\ made' = made + 1)
      BY <2>1, <2>2
    <3>2. made \in 0..MaxKeys
      BY DEF TypeOK
    <3>. QED
      BY <2>2, <3>1, <3>2 DEF Keys
  <2>4. keys' \in [Slots -> Keys \cup {NoKey}]
    BY <2>1, <2>3 DEF TypeOK
  <2>5. pub' \in Keys \cup {HostKey, NoKey} /\ pc' = "idle" /\ result' \in {"ok", "error"}
    BY <2>1, <2>3, EndsFacts DEF TypeOK, Return
  <2>. QED
    BY <1>1, <2>3, <2>4, <2>5 DEF Generate, At, TypeOK, args, flags
<1>2. CASE Public
  <2>1. PICK e \in Ends(HasKey) :
          IF e = "done" THEN pub' = keys[slot] /\ GotPublic
                        ELSE UNCHANGED <<pub, handle>> /\ Return("error")
    BY <1>2 DEF Public
  <2>2. CASE e = "done"
    <3>1. HasKey
      BY <2>2, EndsFacts
    <3>2. keys[slot] \in Keys /\ pub' = keys[slot] /\ slot \in Slots
      BY <2>1, <2>2, <3>1, KeyTypes DEF TypeOK
    <3>3. op \in {"PublicKey", "PrivateKey", "atecc sign"}
      BY <1>2 DEF Public, At, CallsAt
    <3>4. handle' = handle \/ handle' = [slot |-> slot, pub |-> keys[slot]]
      BY <2>1, <2>2, <3>3 DEF GotPublic
    <3>5. [slot |-> slot, pub |-> keys[slot]] \in [slot : Slots, pub : Keys]
      BY <3>2
    <3>6. handle \in [slot : Slots, pub : Keys] \cup {NoHandle}
      BY DEF TypeOK
    <3>7. handle' \in [slot : Slots, pub : Keys] \cup {NoHandle}
      BY <3>4, <3>5, <3>6
    <3>8. pc' \in {"idle", "random"} /\ result' \in {result, "ok"}
      BY <2>1, <2>2, <3>3 DEF GotPublic, Return, GoOn
    <3>. QED
      BY <1>2, <3>2, <3>7, <3>8 DEF Public, At, TypeOK, args, flags, chip
  <2>3. CASE e # "done"
    BY <1>2, <2>1, <2>3 DEF Public, At, Return, TypeOK, args, flags, chip
  <2>. QED
    BY <2>2, <2>3
<1>3. CASE Random
  <2>1. pc' \in {"load", "idle"} /\ result' \in {result, "error"}
    BY <1>3 DEF Random, Check, GoOn, Return
  <2>. QED
    BY <1>3, <2>1 DEF Random, At, TypeOK, args, flags, chip
<1>4. CASE SignLoad \/ VerifyLoad
  <2>1. /\ pc' \in {"sign", "verify", "idle"} /\ result' \in {result, "error"}
        /\ digest' \in {msg, digest}
    BY <1>4 DEF SignLoad, VerifyLoad, Load, Check, GoOn, Return
  <2>. QED
    BY <1>4, <2>1 DEF SignLoad, VerifyLoad, Load, At, TypeOK, args, flags
<1>5. CASE SignBase
  <2>1. /\ sig' = sig \/ (HasKey /\ digest # NoMessage /\ sig' = Signature(keys[slot], digest))
        /\ pc' \in {"idle", "verdict"} /\ result' \in {result, "ok", "error"}
    BY <1>5, EndsFacts DEF SignBase, GoOn, Return
  <2>2. sig' \in Signatures \cup {NoSignature}
    <3>1. CASE sig' = sig
      BY <3>1 DEF TypeOK
    <3>2. CASE HasKey /\ digest # NoMessage /\ sig' = Signature(keys[slot], digest)
      <4>1. keys[slot] \in Keys /\ digest \in Messages
        BY <3>2, KeyTypes DEF TypeOK
      <4>. QED
        BY <3>2, <4>1, KeyTypes
    <3>. QED
      BY <2>1, <3>1, <3>2
  <2>. QED
    BY <1>5, <2>1, <2>2 DEF SignBase, At, TypeOK, args, flags, chip
<1>6. CASE Verify \/ IsLocked \/ KeyOnDevice \/ VerifyOnDevice \/ VerifyOnHost
  <2>1. pc' \in {"idle", "key", "public", "verifyLoad"}
    BY <1>6 DEF Verify, IsLocked, KeyOnDevice, VerifyOnDevice, VerifyOnHost, Check, GoOn, Return
  <2>2. result' \in {result, "error", "valid", "invalid"}
    BY <1>6 DEF Verify, IsLocked, KeyOnDevice, VerifyOnDevice, VerifyOnHost, Check, GoOn, Return
  <2>3. UNCHANGED <<chip, sig, pub, handle, args, flags>>
    BY <1>6 DEF Verify, IsLocked, KeyOnDevice, VerifyOnDevice, VerifyOnHost, At
  <2>4. result' \in {"none", "ok", "error", "valid", "invalid"}
    BY <2>2 DEF TypeOK
  <2>. QED
    BY <2>1, <2>3, <2>4 DEF TypeOK, args, flags, chip
<1>7. CASE SignOnHost
  <2>1. sig' \in Signatures
    BY <1>7, KeyTypes DEF SignOnHost, TypeOK
  <2>. QED
    BY <1>7, <2>1 DEF SignOnHost, At, GoOn, TypeOK, args, flags, chip
<1>8. CASE Sleep \/ Kill
  BY <1>8 DEF Sleep, Kill, Return, TypeOK, args, flags, chip
<1>. QED
  BY <1>1, <1>2, <1>3, <1>4, <1>5, <1>6, <1>7, <1>8 DEF Next

\* A step that ends the call without success.
LEMMA FailInv ==
  ASSUME Inv, TypeOK', Return("error") \/ Return("none"), UNCHANGED op
  PROVE  Inv'
BY DEF Inv, CallsAt, Loaded, Printed, Running, Return, SignsOwnMessage, VerifiedIsValid, ToolAgrees

\* A step that goes on with the call.
LEMMA GoOnInv ==
  ASSUME Inv, TypeOK', pc # "idle", UNCHANGED <<op, result>>,
         CallsAt', Loaded', Printed',
         op = "atecc sign" /\ pc' \in {"verdict", "verifyLoad", "verify"}
           => sig' = Signature(pub', msg')
  PROVE  Inv'
BY DEF Inv, CallsAt, Running, SignsOwnMessage, VerifiedIsValid, ToolAgrees

LEMMA StepInv == Inv /\ Next => Inv'
<1>. SUFFICES ASSUME Inv, Next, ~Calls PROVE Inv'
  BY CallsInv
<1>0. TypeOK'
  BY TypeStep DEF Inv
<1>. USE DEF CallsAt, Loaded, Printed
<1>1. CASE Generate
  <2>1. /\ pc' = "idle" /\ result' \in {"ok", "error"} /\ op' = op /\ op = "GenerateKey"
    BY <1>1 DEF Generate, Return, At, args, Inv
  <2>. QED
    BY <1>0, <2>1 DEF Inv, Running, SignsOwnMessage, VerifiedIsValid, ToolAgrees
<1>2. CASE Public
  <2>1. UNCHANGED <<chip, sig, args>> /\ pc = "public"
    BY <1>2 DEF Public, At
  <2>2. CASE Return("error")
    BY <1>0, <2>1, <2>2, FailInv DEF args
  <2>3. CASE pub' = keys[slot] /\ GotPublic
    <3>1. CASE op = "atecc sign"
      <4>1. pc' = "random" /\ UNCHANGED result
        BY <2>3, <3>1 DEF GotPublic, GoOn
      <4>. QED
        BY <1>0, <2>1, <2>3, <3>1, <4>1, GoOnInv DEF chip, args
    <3>2. CASE op \in {"PublicKey", "PrivateKey"}
      <4>1. pc' = "idle" /\ op' = op
        BY <2>1, <2>3, <3>2 DEF GotPublic, Return, args
      <4>. QED
        BY <1>0, <3>2, <4>1 DEF Inv, Running, SignsOwnMessage, VerifiedIsValid, ToolAgrees
    <3>. QED
      BY <2>1, <3>1, <3>2 DEF Inv
  <2>. QED
    BY <1>2, <2>2, <2>3 DEF Public
<1>3. CASE Random
  <2>1. UNCHANGED <<chip, sig, pub, args>> /\ pc = "random"
    BY <1>3 DEF Random, At
  <2>2. CASE Return("error")
    BY <1>0, <2>1, <2>2, FailInv DEF args
  <2>3. CASE GoOn("load")
    BY <1>0, <2>1, <2>3, GoOnInv DEF GoOn, chip, args, Inv
  <2>. QED
    BY <1>3, <2>2, <2>3 DEF Random, Check
<1>4. CASE SignLoad \/ VerifyLoad
  <2>1. PICK here \in {"load", "verifyLoad"}, there \in {"sign", "verify"} :
          Load(here, there) /\ (here = "load" <=> there = "sign")
    BY <1>4 DEF SignLoad, VerifyLoad
  <2>2. PICK e \in Ends(TRUE) :
          digest' = (IF Executed(e) THEN msg ELSE digest) /\ Check(e, there)
    BY <2>1 DEF Load
  <2>3. UNCHANGED <<keys, sig, pub, op, slot, msg>> /\ pc = here
    BY <2>1 DEF Load, At, args
  <2>4. CASE e = "done"
    <3>1. digest' = msg /\ pc' = there /\ UNCHANGED result
      BY <2>2, <2>4, EndsFacts DEF Check, GoOn
    <3>2. CallsAt' /\ Loaded' /\ Printed'
      BY <2>1, <2>3, <3>1 DEF Inv
    <3>3. op = "atecc sign" /\ pc' \in {"verdict", "verifyLoad", "verify"}
            => sig' = Signature(pub', msg')
      BY <2>1, <2>3, <3>1 DEF Inv, ToolAgrees
    <3>. QED
      BY <1>0, <2>3, <3>1, <3>2, <3>3, GoOnInv
  <2>5. CASE e # "done"
    BY <1>0, <2>2, <2>3, <2>5, FailInv DEF Check
  <2>. QED
    BY <2>4, <2>5
<1>5. CASE SignBase
  <2>1. UNCHANGED <<chip, pub, args>> /\ pc = "sign"
    BY <1>5 DEF SignBase, At
  <2>2. CASE Return("error")
    BY <1>0, <2>1, <2>2, FailInv DEF args
  <2>3. CASE /\ HasKey /\ digest # NoMessage /\ sig' = Signature(keys[slot], digest)
             /\ IF op = "atecc sign" THEN GoOn("verdict") ELSE Return("ok")
    <3>1. digest = msg /\ sig' = Signature(keys[slot], msg)
      BY <2>1, <2>3 DEF Inv
    <3>2. CASE op = "atecc sign"
      <4>1. pc' = "verdict" /\ UNCHANGED result
        BY <2>3, <3>2 DEF GoOn
      <4>2. sig' = Signature(pub', msg')
        BY <2>1, <3>1, <3>2 DEF Inv, args
      <4>. QED
        BY <1>0, <2>1, <3>2, <4>1, <4>2, GoOnInv DEF args
    <3>3. CASE op # "atecc sign"
      <4>1. pc' = "idle" /\ op' = "Sign" /\ sig' = Signature(keys'[slot'], msg')
        BY <2>1, <2>3, <3>1, <3>3 DEF Inv, Return, args, chip
      <4>. QED
        BY <1>0, <4>1 DEF Inv, Running, SignsOwnMessage, VerifiedIsValid, ToolAgrees
    <3>. QED
      BY <3>2, <3>3
  <2>. QED
    BY <1>5, <2>2, <2>3, EndsFacts DEF SignBase
<1>6. CASE Verify
  <2>1. UNCHANGED <<chip, sig, pub, args>> /\ pc = "verify"
    BY <1>6 DEF Verify, At
  <2>2. CASE Return("error")
    BY <1>0, <2>1, <2>2, FailInv DEF args
  <2>3. CASE digest # NoMessage /\ sig = Signature(pub, digest) /\ Return("valid")
    <3>1. digest = msg
      BY <2>1, <2>3 DEF Inv
    <3>2. pc' = "idle" /\ result' = "valid" /\ sig' = Signature(pub', msg')
      BY <2>1, <2>3, <3>1 DEF Return, args
    <3>3. op' \in {"VerifyExtern", "atecc sign"}
      BY <2>1 DEF Inv, args
    <3>. QED
      BY <1>0, <3>2, <3>3 DEF Inv, Running, SignsOwnMessage, VerifiedIsValid, ToolAgrees
  <2>. QED
    BY <1>6, <2>2, <2>3, EndsFacts DEF Verify
<1>7. CASE IsLocked
  <2>1. UNCHANGED <<chip, sig, pub, args>> /\ pc = "isLocked"
    BY <1>7 DEF IsLocked, At
  <2>2. CASE Return("error")
    BY <1>0, <2>1, <2>2, FailInv DEF args
  <2>3. CASE GoOn("key")
    BY <1>0, <2>1, <2>3, GoOnInv DEF GoOn, args, Inv
  <2>. QED
    BY <1>7, <2>2, <2>3 DEF IsLocked, Check
<1>8. CASE KeyOnDevice
  BY <1>0, <1>8, GoOnInv DEF KeyOnDevice, At, GoOn, args, Inv
<1>9. CASE SignOnHost
  BY <1>0, <1>9, GoOnInv DEF SignOnHost, At, GoOn, args, Inv
<1>10. CASE VerifyOnDevice
  BY <1>0, <1>10, GoOnInv DEF VerifyOnDevice, At, GoOn, args, Inv, ToolAgrees
<1>11. CASE VerifyOnHost
  <2>1. sig = Signature(pub, msg) /\ op = "atecc sign"
    BY <1>11 DEF VerifyOnHost, At, Inv, ToolAgrees
  <2>2. pc' = "idle" /\ result' = "valid" /\ op' = op
    BY <1>11, <2>1 DEF VerifyOnHost, At, Return, args
  <2>. QED
    BY <1>0, <2>1, <2>2 DEF Inv, Running, SignsOwnMessage, VerifiedIsValid, ToolAgrees
<1>12. CASE Sleep
  BY <1>0, <1>12 DEF Sleep, args, Inv, Running, SignsOwnMessage, VerifiedIsValid, ToolAgrees
<1>13. CASE Kill
  BY <1>0, <1>13, FailInv DEF Kill, args
<1>. QED
  BY <1>1, <1>2, <1>3, <1>4, <1>5, <1>6, <1>7, <1>8, <1>9, <1>10, <1>11, <1>12, <1>13 DEF Next

LEMMA InvAlways == Spec => []Inv
<1>1. Inv /\ [Next]_vars => Inv'
  BY StepInv, StutterInv
<1>. QED
  BY InitInv, <1>1, PTL DEF Spec

\* The types hold for every set of slots and messages.
THEOREM TypeCorrect == Spec => []TypeOK
<1>1. Inv => TypeOK
  BY DEF Inv
<1>. QED
  BY InvAlways, <1>1, PTL

\* Sign returns a signature of the message it was given, by the key in the slot.
THEOREM SignsOwnMessageAlways == Spec => []SignsOwnMessage
<1>1. Inv => SignsOwnMessage
  BY DEF Inv
<1>. QED
  BY InvAlways, <1>1, PTL

\* VerifyExtern without an error has verified what it was given.
THEOREM VerifiedIsValidAlways == Spec => []VerifiedIsValid
<1>1. Inv => VerifiedIsValid
  BY DEF Inv
<1>. QED
  BY InvAlways, <1>1, PTL

\* atecc sign verifies a signature of the message it read by the key it printed.
THEOREM ToolAgreesAlways == Spec => []ToolAgrees
<1>1. Inv => ToolAgrees
  BY DEF Inv
<1>. QED
  BY InvAlways, <1>1, PTL
=============================================================================
