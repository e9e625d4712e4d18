----------------------------- MODULE CASERecovery -----------------------------
(***************************************************************************)
(* Recovery of CASE session keys from handshakes in which a party uses the *)
(* generator of the curve as its ECDH public key.  The dissectors of the   *)
(* handshake's messages meet in a CASEExchangeRecord: the request creates  *)
(* it, the response and the key confirmation find it by walking back in    *)
(* the list of their exchange, and the response makes it yield a key.      *)
(*                                                                         *)
(* A frame holds one unencrypted message, so the records of an exchange    *)
(* are in frame order (MessageTracker, ListsInFrameOrder) and walking back *)
(* is going to smaller frame numbers.  Hashes and HKDF are injective: a    *)
(* session key is named by what it is derived from.                        *)
(***************************************************************************)
EXTENDS KeyMap, Sequences

CONSTANTS
  Message,    \* the messages of a capture, records of MessageType
  Points,     \* points of a curve other than its generator
  MaxFrames   \* bound on the frames of a capture

G == "generator"
Null == 0

kCASEConfigs == 0..3
kCASEConfig_Supported == {1, 2}
kMatterCurves == {"prime192v1", "secp224r1", "prime256v1", "secp160r1"}
kMatterCurves_Supported == kMatterCurves \ {"secp160r1"}
kMatterEncryptionType_AES128CCM == 1

(***************************************************************************)
(* What the dissectors read of a message.  ecdh is the public key, with    *)
(* the curve it lies on, which determines its length; complete says that   *)
(* the dissector reaches the end of the message: it is long enough, and    *)
(* its certificates and its signature can be decoded.  Fields that a kind  *)
(* of message does not have are not read; body stands for the rest.        *)
(***************************************************************************)
PublicKey == [curve : kMatterCurves, point : Points \cup {G}]

NoPublicKey == [curve |-> "none", point |-> "none"]
NoMessage   == [kind |-> "none"]

MessageType ==
  [kind : {"BeginSessionRequest", "BeginSessionResponse", "InitiatorKeyConfirm", "Other"},
   exchange : Nat, complete : BOOLEAN, config : kCASEConfigs, curve : kMatterCurves,
   encType : 0..15, sessionId : KeyIds, ecdh : PublicKey, body : Nat]

ASSUME CASEAssumption ==
  /\ Message \subseteq MessageType
  /\ G \notin Points /\ MaxFrames \in Nat

VARIABLES
  frames,      \* the frames read so far
  passed,      \* how many of them have a record
  caseRec,     \* frame -> caseExchangeRec of its record, named by the
               \* frame of the request that created it
  exchangeRec  \* frame of a request -> its CASEExchangeRecord

vars == <<frames, passed, caseRec, exchangeRec, keyTable>>
-----------------------------------------------------------------------------
(***************************************************************************)
(* ECDH, with the X coordinate of a point standing for the point: the      *)
(* generator's private key is 1, so the secret that it shares with a point *)
(* is the point.  What two other points share, nobody else knows.          *)
(***************************************************************************)
SharedSecret(p, q) ==
  IF p.point = G THEN q ELSE IF q.point = G THEN p ELSE <<p, q>>

\* The session key that the parties of a handshake derive.
SessionKey(req, resp) ==
  [config |-> req.config, request |-> req, response |-> resp,
   secret |-> SharedSecret(req.ecdh, resp.ecdh)]

IsCurveGenerator(curve, key) == curve \in kMatterCurves_Supported /\ key = [curve |-> curve, point |-> G]

(***************************************************************************)
(* RecoverCASESessionKey on an exchange record that has both messages: can *)
(* it tell the secret, and which point is it?                              *)
(***************************************************************************)
\* Mutation: only the initiator's key is compared with the generator.
RecoversFromInitiator(r) ==
  /\ r.config \in kCASEConfig_Supported /\ r.curve \in kMatterCurves_Supported
  /\ r.sessionType = kMatterEncryptionType_AES128CCM
  /\ r.reqECDHPublicKey.curve = r.respECDHPublicKey.curve
  /\ IsCurveGenerator(r.curve, r.reqECDHPublicKey)

Recovers(r) ==
  /\ r.config \in kCASEConfig_Supported /\ r.curve \in kMatterCurves_Supported
  /\ r.sessionType = kMatterEncryptionType_AES128CCM
  /\ r.reqECDHPublicKey.curve = r.respECDHPublicKey.curve
  /\ \/ IsCurveGenerator(r.curve, r.reqECDHPublicKey)
     \/ IsCurveGenerator(r.curve, r.respECDHPublicKey)

\* Mutation: the secret is always taken from the initiator's key.
InitiatorsPoint(r) == r.reqECDHPublicKey

KnownSecret(r) ==
  IF IsCurveGenerator(r.curve, r.reqECDHPublicKey)
    THEN r.respECDHPublicKey ELSE r.reqECDHPublicKey

\* DeriveCASESessionKey
DerivedKey(r) ==
  [config |-> r.config, request |-> r.reqMsgHash, response |-> r.respMsgHash,
   secret |-> KnownSecret(r)]

\* Mutation: the new key takes the place of all others.
OnlyTheNewKey(r) ==
  IF Recovers(r) THEN [x \in {<<r.keyId, DerivedKey(r)>>} |-> 0] ELSE keyTable

\* A recovered key is filed without a source.
RecoverCASESessionKey(r) ==
  IF Recovers(r) THEN AddKey(keyTable, r.keyId, DerivedKey(r), 0) ELSE keyTable
-----------------------------------------------------------------------------
(***************************************************************************)
(* The dissectors, on frame f.                                             *)
(***************************************************************************)
NewExchangeRecord(m) ==
  [config |-> m.config, curve |-> m.curve, keyId |-> m.sessionId, sessionType |-> m.encType,
   reqECDHPublicKey |-> m.ecdh, reqMsgHash |-> m, respECDHPublicKey |-> NoPublicKey,
   respMsgHash |-> NoMessage, beginRespMsg |-> Null, keyConfirmMsg |-> Null]

WithResponse(r, f, m) ==
  [r EXCEPT !.respECDHPublicKey = m.ecdh, !.respMsgHash = m, !.beginRespMsg = f]
WithKeyConfirm(r, f) == [r EXCEPT !.keyConfirmMsg = f]

Greatest(S) == CHOOSE x \in S : \A y \in S : y <= x

\* The records at or before f in its exchange that have a CASE record.
Candidates(f) ==
  {g \in DOMAIN caseRec : /\ g <= f /\ frames[g].exchange = frames[f].exchange
                          /\ caseRec[g] # Null}

FindCASEExchangeRecord(f) ==
  IF Candidates(f) = {} THEN Null ELSE caseRec[Greatest(Candidates(f))]

BeginSessionRequest(f) ==
  /\ caseRec' = [caseRec EXCEPT ![f] = f]
  /\ exchangeRec' = [g \in DOMAIN exchangeRec \cup {f} |->
                       IF g = f THEN NewExchangeRecord(frames[f]) ELSE exchangeRec[g]]
  /\ UNCHANGED keyTable

BeginSessionResponse(f) ==
  LET id == FindCASEExchangeRecord(f)
      r  == WithResponse(exchangeRec[id], f, frames[f])
  IN  IF id = Null THEN UNCHANGED <<caseRec, exchangeRec, keyTable>>
      ELSE /\ caseRec' = [caseRec EXCEPT ![f] = id]
           /\ exchangeRec' = [exchangeRec EXCEPT ![id] = r]
           /\ keyTable' = RecoverCASESessionKey(r)

InitiatorKeyConfirm(f) ==
  LET id == FindCASEExchangeRecord(f)
  IN  /\ UNCHANGED keyTable
      /\ IF id = Null THEN UNCHANGED <<caseRec, exchangeRec>>
         ELSE /\ caseRec' = [caseRec EXCEPT ![f] = id]
              /\ exchangeRec' = [exchangeRec EXCEPT ![id] = WithKeyConfirm(exchangeRec[id], f)]

\* Mutation: a frame that has a CASE record is dissected like a new one.
DissectAgain(f) ==
  LET m == frames[f]
  IN  \/ m.complete /\ m.kind = "BeginSessionRequest"  /\ BeginSessionRequest(f)
      \/ m.complete /\ m.kind = "BeginSessionResponse" /\ BeginSessionResponse(f)
      \/ m.complete /\ m.kind = "InitiatorKeyConfirm"  /\ InitiatorKeyConfirm(f)
      \/ ~ m.complete /\ UNCHANGED <<caseRec, exchangeRec, keyTable>>
      \/ m.kind = "Other" /\ UNCHANGED <<caseRec, exchangeRec, keyTable>>

\* A dissector that gives up early, or whose frame has a CASE record, leaves
\* all state alone.
DissectMatterSecurity(f) ==
  LET m    == frames[f]
      acts == m.complete /\ caseRec[f] = Null /\ m.kind # "Other"
  IN  \/ acts /\ m.kind = "BeginSessionRequest"  /\ BeginSessionRequest(f)
      \/ acts /\ m.kind = "BeginSessionResponse" /\ BeginSessionResponse(f)
      \/ acts /\ m.kind = "InitiatorKeyConfirm"  /\ InitiatorKeyConfirm(f)
      \/ ~ acts /\ UNCHANGED <<caseRec, exchangeRec, keyTable>>

\* The sequential pass reaches its next frame.
FirstPass ==
  /\ passed < Len(frames)
  /\ passed' = passed + 1
  /\ DissectMatterSecurity(passed + 1)
  /\ UNCHANGED frames

\* Another frame is read from the file or captured.
ReadFrame(m) ==
  /\ passed = Len(frames) /\ passed < MaxFrames
  /\ frames' = Append(frames, m)
  /\ caseRec' = [f \in 1..Len(frames') |-> IF f \in DOMAIN caseRec THEN caseRec[f] ELSE Null]
  /\ UNCHANGED <<passed, exchangeRec, keyTable>>

\* Wireshark dissects a frame again.
Redissect(f) ==
  /\ f <= passed
  /\ DissectMatterSecurity(f)
  /\ UNCHANGED <<frames, passed>>

\* Mutation: the CASE records outlive the file.
EndFileScopeKeepingRecords ==
  /\ passed' = 0
  /\ caseRec' = [f \in 1..Len(frames') |-> Null]
  /\ UNCHANGED <<exchangeRec, keyTable>>

\* The records die with the file scope; the key table lives on.
EndFileScope ==
  /\ passed' = 0
  /\ caseRec' = [f \in 1..Len(frames') |-> Null]
  /\ exchangeRec' = [g \in {} |-> Null]
  /\ UNCHANGED keyTable

OpenFile   == frames' = << >> /\ EndFileScope
RescanFile == frames' = frames /\ EndFileScope

Init ==
  /\ MapInit
  /\ frames = << >> /\ passed = 0
  /\ caseRec = << >>
  /\ exchangeRec = [g \in {} |-> Null]

Next ==
  \/ FirstPass
  \/ \E m \in Message : ReadFrame(m)
  \/ \E f \in 1..passed : Redissect(f)
  \/ OpenFile
  \/ RescanFile

Spec == Init /\ [][Next]_vars
-----------------------------------------------------------------------------
(***************************************************************************)
(* Properties.                                                             *)
(***************************************************************************)
ExchangeRecordType ==
  [config : kCASEConfigs, curve : kMatterCurves, keyId : KeyIds, sessionType : 0..15,
   reqECDHPublicKey : PublicKey, reqMsgHash : Message,
   respECDHPublicKey : PublicKey \cup {NoPublicKey},
   respMsgHash : Message \cup {NoMessage},
   beginRespMsg : Nat, keyConfirmMsg : Nat]

\* Every variable has its type; CASE records are those of passed requests.
TypeOK ==
  /\ frames \in Seq(Message)
  /\ passed \in 0..Len(frames)
  /\ DOMAIN exchangeRec \subseteq 1..passed
  /\ exchangeRec \in [DOMAIN exchangeRec -> ExchangeRecordType]
  /\ caseRec \in [1..Len(frames) -> DOMAIN exchangeRec \cup {Null}]

(***************************************************************************)
(* A key that recovery files is the one that the parties of a handshake    *)
(* derived, filed under the session id that the request proposed: nothing  *)
(* is mixed from two handshakes or computed from the wrong point.          *)
(***************************************************************************)
KeysAreSessionKeys ==
  \A x \in DOMAIN keyTable :
    LET req == x[2].request   resp == x[2].response
    IN  /\ req.kind = "BeginSessionRequest" /\ resp.kind = "BeginSessionResponse"
        /\ req.exchange = resp.exchange
        /\ x = <<req.sessionId, SessionKey(req, resp)>>
        /\ G \in {req.ecdh.point, resp.ecdh.point}

(***************************************************************************)
(* If the parties support what recovery supports and one of them uses the  *)
(* generator, the session key is in the key table once the response was    *)
(* dissected, whatever was retransmitted, dissected again or rescanned,    *)
(* unless another request comes between request and response.              *)
(***************************************************************************)
Requests(f) ==
  {g \in 1..f : /\ frames[g].exchange = frames[f].exchange
                /\ frames[g].kind = "BeginSessionRequest" /\ frames[g].complete}

Recoverable(req, resp) ==
  /\ resp.kind = "BeginSessionResponse" /\ resp.complete
  /\ req.config \in kCASEConfig_Supported /\ req.curve \in kMatterCurves_Supported
  /\ req.encType = kMatterEncryptionType_AES128CCM
  /\ req.ecdh.curve = req.curve /\ resp.ecdh.curve = req.curve
  /\ G \in {req.ecdh.point, resp.ecdh.point}

SessionsRecovered ==
  \A f \in 1..passed : Requests(f) # {} =>
    LET req == frames[Greatest(Requests(f))]
    IN  Recoverable(req, frames[f]) =>
          <<req.sessionId, SessionKey(req, frames[f])>> \in DOMAIN keyTable

(***************************************************************************)
(* The dissectors leave nothing to do for a second pass: dissecting frames *)
(* again, in whatever order, changes no CASE record and finds no key.      *)
(***************************************************************************)
RedissectionChangesNothing ==
  [][frames' = frames /\ passed' = passed => UNCHANGED <<caseRec, exchangeRec, keyTable>>]_vars

\* Recovery treats the key table as a map that remembers: no recovered key is
\* lost or replaced, across handshakes, rescans and files.
ImplementsKeyMap == MapSpec
=============================================================================
