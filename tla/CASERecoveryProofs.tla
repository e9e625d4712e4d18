-------------------------- MODULE CASERecoveryProofs --------------------------
(***************************************************************************)
(* Proofs about CASERecovery, for any messages and captures.               *)
(***************************************************************************)
EXTENDS CASERecovery, WellFoundedInduction, TLAPS

-----------------------------------------------------------------------------
(***************************************************************************)
(* The greatest number of a bounded set.                                   *)
(***************************************************************************)
LEMMA GreatestExists ==
  ASSUME NEW n \in Nat, NEW S, S \subseteq 1..n, S # {}
  PROVE  Greatest(S) \in S /\ \A y \in S : y <= Greatest(S)
<1> DEFINE T == {k \in Nat : n - k \in S}
<1>1. T # {}
  <2>1. PICK x \in S : x \in 1..n
    OBVIOUS
  <2>2. n - x \in Nat /\ n - (n - x) = x
    BY <2>1
  <2> QED BY <2>1, <2>2
<1>2. PICK t \in T : \A u \in T : ~ (<<u, t>> \in OpToRel(<, Nat))
  BY <1>1, NatLessThanWellFounded, WFMin
<1>3. \A u \in T : ~ (u < t)
  BY <1>2 DEF OpToRel
<1>4. n - t \in S /\ t \in Nat
  BY <1>2
<1>5. ASSUME NEW y \in S
      PROVE  y <= n - t
  <2>1. y \in 1..n /\ n - y \in Nat /\ n - (n - y) = y
    OBVIOUS
  <2>2. ~ (n - y < t)
    BY <1>3, <2>1
  <2> QED BY <1>4, <2>1, <2>2
<1> QED BY <1>4, <1>5 DEF Greatest
-----------------------------------------------------------------------------
(***************************************************************************)
(* What every CASE record is.                                              *)
(***************************************************************************)
IsRequest(f) == frames[f].complete /\ frames[f].kind = "BeginSessionRequest"
Joins(f) == frames[f].complete /\ frames[f].kind \in {"BeginSessionResponse", "InitiatorKeyConfirm"}

\* The case record that a passed frame has: its own, that of the last request
\* before it in its exchange, or none.
ExpectedRec(f) ==
  IF IsRequest(f) THEN f
  ELSE IF Joins(f) /\ Requests(f) # {} THEN Greatest(Requests(f))
  ELSE Null

Attached ==
  /\ \A f \in 1..passed : caseRec[f] = ExpectedRec(f)
  /\ \A f \in (passed + 1)..Len(frames) : caseRec[f] = Null

RequestPart(g) ==
  LET r == exchangeRec[g]   m == frames[g]
  IN  /\ r.config = m.config /\ r.curve = m.curve /\ r.keyId = m.sessionId
      /\ r.sessionType = m.encType /\ r.reqECDHPublicKey = m.ecdh /\ r.reqMsgHash = m

RecordsOfRequests ==
  /\ DOMAIN exchangeRec = {g \in 1..passed : IsRequest(g)}
  /\ \A g \in DOMAIN exchangeRec : RequestPart(g)

IInv == TypeOK /\ Attached /\ RecordsOfRequests /\ KeysAreSessionKeys /\ SessionsRecovered

LEMMA FrameTypes ==
  ASSUME TypeOK
  PROVE  /\ passed \in Nat /\ Len(frames) \in Nat /\ passed <= Len(frames)
         /\ DOMAIN frames = 1..Len(frames) /\ DOMAIN caseRec = 1..Len(frames)
         /\ \A f \in 1..Len(frames) : frames[f] \in Message
BY DEF TypeOK

LEMMA RequestsBelow ==
  ASSUME NEW f \in Nat
  PROVE  Requests(f) \subseteq 1..f
BY DEF Requests

\* A walk back in the exchange ends at the record of its last request.
LEMMA WalkBack ==
  ASSUME TypeOK, Attached, NEW f \in 1..Len(frames), f <= passed + 1,
         caseRec[f] = Null, Joins(f)
  PROVE  FindCASEExchangeRecord(f) =
           IF Requests(f) = {} THEN Null ELSE Greatest(Requests(f))
<1>0. /\ passed \in Nat /\ Len(frames) \in Nat /\ passed <= Len(frames)
      /\ DOMAIN caseRec = 1..Len(frames) /\ f \in Nat
  BY FrameTypes
<1>1. ASSUME NEW h \in Candidates(f)
      PROVE  /\ h \in 1..passed /\ h < f /\ frames[h].exchange = frames[f].exchange
             /\ caseRec[h] = ExpectedRec(h) /\ caseRec[h] # Null
  <2>1. h \in 1..Len(frames) /\ h <= f /\ caseRec[h] # Null /\ frames[h].exchange = frames[f].exchange
    BY <1>0 DEF Candidates
  <2>2. h # f
    BY <2>1
  <2> QED BY <1>0, <2>1, <2>2 DEF Attached
<1>2. \A g \in Requests(f) : g \in Candidates(f) /\ caseRec[g] = g
  <2> SUFFICES ASSUME NEW g \in Requests(f)
               PROVE  g \in Candidates(f) /\ caseRec[g] = g
    OBVIOUS
  <2>1. g \in 1..f /\ IsRequest(g) /\ frames[g].exchange = frames[f].exchange
    BY DEF Requests, IsRequest
  <2>2. g # f
    BY <2>1 DEF Joins, IsRequest
  <2>3. g \in 1..passed
    BY <1>0, <2>1, <2>2
  <2>4. caseRec[g] = g
    BY <2>1, <2>3 DEF Attached, ExpectedRec
  <2> QED BY <1>0, <2>1, <2>3, <2>4 DEF Candidates, Null
<1>3. ASSUME NEW h \in Candidates(f)
      PROVE  \/ IsRequest(h) /\ h \in Requests(f)
             \/ Requests(h) # {} /\ Requests(h) \subseteq Requests(f)
                /\ caseRec[h] = Greatest(Requests(h))
  <2>1. CASE IsRequest(h)
    BY <1>0, <1>1, <2>1 DEF Requests, IsRequest
  <2>2. CASE ~ IsRequest(h)
    <3>1. Requests(h) # {} /\ caseRec[h] = Greatest(Requests(h))
      BY <1>1, <2>2 DEF ExpectedRec
    <3>2. Requests(h) \subseteq Requests(f)
      BY <1>0, <1>1 DEF Requests
    <3> QED BY <3>1, <3>2
  <2> QED BY <2>1, <2>2
<1>4. CASE Requests(f) = {}
  <2>1. Candidates(f) = {}
    BY <1>3, <1>4
  <2> QED BY <1>4, <2>1 DEF FindCASEExchangeRecord
<1>5. CASE Requests(f) # {}
  <2> DEFINE r == Greatest(Requests(f))
             c == Greatest(Candidates(f))
  <2>1. r \in Requests(f) /\ \A g \in Requests(f) : g <= r
    BY <1>0, <1>5, RequestsBelow, GreatestExists
  <2>2. Candidates(f) \subseteq 1..f /\ Candidates(f) # {}
    BY <1>0, <1>2, <2>1 DEF Candidates
  <2>3. c \in Candidates(f) /\ \A g \in Candidates(f) : g <= c
    BY <1>0, <2>2, GreatestExists
  <2>4. FindCASEExchangeRecord(f) = caseRec[c]
    BY <2>2 DEF FindCASEExchangeRecord
  <2> HIDE DEF r, c
  <2>5. r <= c
    BY <1>2, <2>1, <2>3
  <2>6. CASE IsRequest(c) /\ c \in Requests(f)
    <3>1. r \in 1..f /\ c \in 1..f
      BY <2>1, <2>6 DEF Requests
    <3>2. c = r
      BY <2>1, <2>5, <2>6, <3>1
    <3> QED BY <1>2, <1>5, <2>4, <2>6, <3>2 DEF r
  <2>7. CASE Requests(c) \subseteq Requests(f) /\ caseRec[c] = Greatest(Requests(c))
    <3>1. c \in 1..f /\ r \in 1..f /\ c \in Nat /\ frames[c].exchange = frames[f].exchange
      BY <1>0, <1>1, <2>1, <2>2, <2>3 DEF Requests
    <3>2. \A g \in Requests(f) : g \in 1..c
      BY <2>1, <2>5, <3>1 DEF Requests
    <3>3. Requests(f) \subseteq Requests(c)
      BY <3>1, <3>2 DEF Requests
    <3>4. Requests(f) = Requests(c)
      BY <2>7, <3>3
    <3> QED BY <1>5, <2>4, <2>7, <3>4
  <2> QED BY <1>3, <2>3, <2>6, <2>7
<1> QED BY <1>4, <1>5

-----------------------------------------------------------------------------
(***************************************************************************)
(* Reading a frame leaves what is known of earlier frames.                 *)
(***************************************************************************)
LEMMA ReadFrameStep ==
  ASSUME IInv, NEW m \in Message, ReadFrame(m)
  PROVE  IInv'
<1>0. /\ passed = Len(frames) /\ Len(frames) \in Nat /\ passed' = passed
      /\ exchangeRec' = exchangeRec /\ keyTable' = keyTable
      /\ DOMAIN caseRec = 1..Len(frames)
  BY FrameTypes DEF ReadFrame, IInv
<1>1. /\ Len(frames') = Len(frames) + 1 /\ frames' \in Seq(Message)
      /\ \A f \in 1..Len(frames) : frames'[f] = frames[f]
  BY DEF ReadFrame, IInv, TypeOK
<1>2. /\ \A f \in 1..Len(frames) : caseRec'[f] = caseRec[f]
      /\ caseRec'[Len(frames) + 1] = Null
      /\ DOMAIN caseRec' = 1..Len(frames')
      /\ caseRec' \in [1..Len(frames') -> DOMAIN exchangeRec' \cup {Null}]
  BY <1>0, <1>1 DEF ReadFrame, IInv, TypeOK
<1>3. TypeOK'
  BY <1>0, <1>1, <1>2 DEF IInv, TypeOK
<1>4. \A f \in 1..passed : Requests(f)' = Requests(f)
  BY <1>0, <1>1 DEF Requests
<1>5. Attached'
  <2>1. \A f \in 1..passed : ExpectedRec(f)' = ExpectedRec(f)
    BY <1>0, <1>1, <1>4 DEF ExpectedRec, IsRequest, Joins
  <2>2. \A f \in 1..passed : caseRec[f] = ExpectedRec(f)
    BY DEF IInv, Attached
  <2>3. \A f \in 1..passed' : caseRec'[f] = ExpectedRec(f)'
    BY <1>0, <1>2, <2>1, <2>2
  <2> QED BY <1>0, <1>1, <1>2, <2>3 DEF Attached
<1>6. RecordsOfRequests'
  <2>1. DOMAIN exchangeRec = {g \in 1..passed : IsRequest(g)}
        /\ \A g \in DOMAIN exchangeRec : RequestPart(g)
    BY DEF IInv, RecordsOfRequests
  <2>2. \A g \in 1..passed : (IsRequest(g)' <=> IsRequest(g)) /\ (RequestPart(g) => RequestPart(g)')
    BY <1>0, <1>1 DEF IsRequest, RequestPart
  <2> QED BY <1>0, <2>1, <2>2 DEF RecordsOfRequests
<1>7. KeysAreSessionKeys'
  BY <1>0 DEF IInv, KeysAreSessionKeys
<1>8. SessionsRecovered'
  <2> SUFFICES ASSUME NEW f \in 1..passed, Requests(f)' # {},
                      Recoverable(frames'[Greatest(Requests(f)')], frames'[f])
               PROVE  <<frames'[Greatest(Requests(f)')].sessionId,
                        SessionKey(frames'[Greatest(Requests(f)')], frames'[f])>> \in DOMAIN keyTable
    BY <1>0 DEF SessionsRecovered
  <2> DEFINE r == Greatest(Requests(f))
  <2>1. Requests(f)' = Requests(f)
    BY <1>4
  <2>2. r \in Requests(f)
    BY <1>0, <2>1, RequestsBelow, GreatestExists
  <2>3. r \in 1..Len(frames) /\ f \in 1..Len(frames)
    BY <1>0, <2>2 DEF Requests
  <2>4. frames'[r] = frames[r] /\ frames'[f] = frames[f]
    BY <1>1, <2>3
  <2> QED BY <2>1, <2>4 DEF IInv, SessionsRecovered
<1> QED BY <1>3, <1>5, <1>6, <1>7, <1>8 DEF IInv

\* The file scope ends: no frame has a record.
LEMMA EndFileScopeStep ==
  ASSUME IInv, EndFileScope, frames' \in Seq(Message)
  PROVE  IInv'
<1>1. passed' = 0 /\ keyTable' = keyTable /\ DOMAIN exchangeRec' = {}
      /\ caseRec' = [f \in 1..Len(frames') |-> Null] /\ Len(frames') \in Nat
  BY DEF EndFileScope
<1>2. TypeOK'
  BY <1>1 DEF EndFileScope, TypeOK
<1>3. Attached' /\ RecordsOfRequests' /\ SessionsRecovered'
  BY <1>1 DEF Attached, RecordsOfRequests, SessionsRecovered
<1>4. KeysAreSessionKeys'
  BY <1>1 DEF IInv, KeysAreSessionKeys
<1> QED BY <1>2, <1>3, <1>4 DEF IInv

LEMMA InitIInv == Init => IInv
<1> SUFFICES ASSUME Init PROVE IInv
  OBVIOUS
<1>1. frames = << >> /\ passed = 0 /\ caseRec = << >> /\ DOMAIN exchangeRec = {} /\ DOMAIN keyTable = {}
  BY DEF Init, MapInit
<1>2. TypeOK
  BY <1>1 DEF Init, TypeOK
<1>3. Attached /\ RecordsOfRequests /\ KeysAreSessionKeys /\ SessionsRecovered
  BY <1>1 DEF Attached, RecordsOfRequests, KeysAreSessionKeys, SessionsRecovered
<1> QED BY <1>2, <1>3 DEF IInv

\* Dissecting a frame again changes nothing.
LEMMA RedissectStep ==
  ASSUME IInv, NEW f \in 1..passed, DissectMatterSecurity(f)
  PROVE  UNCHANGED <<caseRec, exchangeRec, keyTable>>
<1>0. /\ passed \in Nat /\ passed <= Len(frames) /\ f \in 1..Len(frames) /\ f \in Nat
      /\ frames[f] \in Message /\ caseRec[f] = ExpectedRec(f) /\ f <= passed + 1
  BY FrameTypes DEF IInv, Attached
<1>1. CASE ~ (frames[f].complete /\ caseRec[f] = Null /\ frames[f].kind # "Other")
  BY <1>1 DEF DissectMatterSecurity
<1>2. CASE frames[f].complete /\ caseRec[f] = Null /\ frames[f].kind # "Other"
  <2>1. ~ IsRequest(f)
    BY <1>0, <1>2 DEF ExpectedRec, Null
  <2>2. CASE Joins(f)
    <3>1. Requests(f) = {}
      <4>1. Requests(f) # {} => Greatest(Requests(f)) \in 1..f
        BY <1>0, RequestsBelow, GreatestExists
      <4> QED BY <1>0, <1>2, <2>1, <2>2, <4>1 DEF ExpectedRec, Null
    <3>2. FindCASEExchangeRecord(f) = Null
      BY <1>0, <1>2, <2>2, <3>1, WalkBack DEF IInv
    <3> QED
      BY <1>2, <2>2, <3>2 DEF DissectMatterSecurity, BeginSessionResponse, InitiatorKeyConfirm, Joins
  <2>3. CASE ~ Joins(f)
    BY <1>2, <2>1, <2>3 DEF DissectMatterSecurity, IsRequest, Joins
  <2> QED BY <2>2, <2>3
<1> QED BY <1>1, <1>2

-----------------------------------------------------------------------------
(***************************************************************************)
(* What a response does to the CASE record of its request.                 *)
(***************************************************************************)
LEMMA MessageFields ==
  ASSUME NEW m \in Message
  PROVE  /\ m.config \in kCASEConfigs /\ m.curve \in kMatterCurves /\ m.sessionId \in KeyIds
         /\ m.encType \in 0..15 /\ m.ecdh \in PublicKey /\ m.exchange \in Nat
BY CASEAssumption DEF MessageType

LEMMA NewRecordType ==
  ASSUME NEW m \in Message
  PROVE  NewExchangeRecord(m) \in ExchangeRecordType
BY MessageFields DEF NewExchangeRecord, ExchangeRecordType, Null

LEMMA WithKeyConfirmEffect ==
  ASSUME NEW r \in ExchangeRecordType, NEW f \in Nat
  PROVE  LET s == WithKeyConfirm(r, f)
         IN  /\ s \in ExchangeRecordType
             /\ s.config = r.config /\ s.curve = r.curve /\ s.keyId = r.keyId
             /\ s.sessionType = r.sessionType /\ s.reqECDHPublicKey = r.reqECDHPublicKey
             /\ s.reqMsgHash = r.reqMsgHash
BY DEF WithKeyConfirm, ExchangeRecordType

\* Recovery finds exactly the key of the parties, and finds it if it can.
LEMMA RecoveryIsRight ==
  ASSUME NEW req \in Message, NEW resp \in Message, NEW r,
         r.config = req.config, r.curve = req.curve, r.sessionType = req.encType,
         r.reqECDHPublicKey = req.ecdh, r.respECDHPublicKey = resp.ecdh,
         r.reqMsgHash = req, r.respMsgHash = resp
  PROVE  /\ Recoverable(req, resp) => Recovers(r)
         /\ Recovers(r) => /\ DerivedKey(r) = SessionKey(req, resp)
                           /\ G \in {req.ecdh.point, resp.ecdh.point}
<1>1. /\ req.ecdh = [curve |-> req.ecdh.curve, point |-> req.ecdh.point]
      /\ resp.ecdh = [curve |-> resp.ecdh.curve, point |-> resp.ecdh.point]
  BY MessageFields DEF PublicKey
<1>2. ASSUME Recoverable(req, resp)
      PROVE  Recovers(r)
  BY <1>1, <1>2 DEF Recoverable, Recovers, IsCurveGenerator
<1>3. ASSUME Recovers(r)
      PROVE  /\ KnownSecret(r) = SharedSecret(req.ecdh, resp.ecdh)
             /\ G \in {req.ecdh.point, resp.ecdh.point}
  <2>1. req.ecdh.curve = resp.ecdh.curve
    BY <1>3 DEF Recovers
  <2>2. CASE IsCurveGenerator(r.curve, req.ecdh)
    <3>1. req.ecdh.point = G
      BY <2>2 DEF IsCurveGenerator
    <3> QED BY <2>2, <3>1 DEF KnownSecret, SharedSecret
  <2>3. CASE ~ IsCurveGenerator(r.curve, req.ecdh)
    <3>1. IsCurveGenerator(r.curve, resp.ecdh)
      BY <1>3, <2>3 DEF Recovers
    <3>2. resp.ecdh.point = G /\ resp.ecdh.curve = r.curve
      BY <3>1 DEF IsCurveGenerator
    <3>3. req.ecdh.point # G
      BY <1>1, <2>1, <2>3, <3>1, <3>2 DEF IsCurveGenerator
    <3> QED BY <2>3, <3>2, <3>3 DEF KnownSecret, SharedSecret
  <2> QED BY <2>2, <2>3
<1>4. KnownSecret(r) = SharedSecret(req.ecdh, resp.ecdh) => DerivedKey(r) = SessionKey(req, resp)
  BY DEF DerivedKey, SessionKey
<1> QED BY <1>2, <1>3, <1>4
-----------------------------------------------------------------------------
(***************************************************************************)
(* The sequential pass.  Its effect on frame f, whatever the message is.   *)
(***************************************************************************)
LastRequest(f) == frames[Greatest(Requests(f))]

RecordsAfter(f) ==
  /\ DOMAIN exchangeRec' = {g \in 1..f : IsRequest(g)}
  /\ exchangeRec' \in [DOMAIN exchangeRec' -> ExchangeRecordType]
  /\ \A g \in DOMAIN exchangeRec' : RequestPart(g)'

\* The entry that the response in frame f adds, when it adds one.
EntryFrom(f) == <<LastRequest(f).sessionId, SessionKey(LastRequest(f), frames[f])>>

KeysAfter(f) ==
  /\ DOMAIN keyTable \subseteq DOMAIN keyTable'
  /\ \A x \in DOMAIN keyTable' \ DOMAIN keyTable :
       /\ x = EntryFrom(f) /\ Requests(f) # {} /\ frames[f].kind = "BeginSessionResponse"
       /\ G \in {LastRequest(f).ecdh.point, frames[f].ecdh.point}
  /\ Requests(f) # {} /\ Recoverable(LastRequest(f), frames[f]) => EntryFrom(f) \in DOMAIN keyTable'
  /\ \/ keyTable' = keyTable
     \/ /\ Requests(f) # {}
        /\ keyTable' = AddKey(keyTable, LastRequest(f).sessionId,
                              SessionKey(LastRequest(f), frames[f]), 0)

LEMMA DissectNext ==
  ASSUME IInv, passed < Len(frames), frames' = frames,
         NEW f, f = passed + 1, DissectMatterSecurity(f)
  PROVE  /\ caseRec' = [caseRec EXCEPT ![f] = ExpectedRec(f)]
         /\ RecordsAfter(f) /\ KeysAfter(f)
<1> DEFINE m == frames[f]
<1>id. PICK id : id = Greatest(Requests(f))
  OBVIOUS
<1>0. /\ passed \in Nat /\ Len(frames) \in Nat /\ f \in 1..Len(frames) /\ f <= passed + 1 /\ f \in Nat /\ f # Null
      /\ m \in Message /\ caseRec[f] = Null /\ DOMAIN caseRec = 1..Len(frames)
      /\ caseRec = [caseRec EXCEPT ![f] = Null]
  BY FrameTypes DEF IInv, Attached, TypeOK, Null
<1>1. /\ DOMAIN exchangeRec = {g \in 1..passed : IsRequest(g)} /\ f \notin DOMAIN exchangeRec
      /\ exchangeRec \in [DOMAIN exchangeRec -> ExchangeRecordType]
      /\ \A g \in DOMAIN exchangeRec : RequestPart(g)
  BY <1>0 DEF IInv, RecordsOfRequests, TypeOK
<1>2. Requests(f) # {} /\ ~ IsRequest(f) =>
        /\ id \in DOMAIN exchangeRec /\ id # Null /\ id \in Nat /\ frames[id] \in Message
        /\ RequestPart(id) /\ exchangeRec[id] \in ExchangeRecordType
  <2> SUFFICES ASSUME Requests(f) # {}, ~ IsRequest(f)
               PROVE  /\ id \in DOMAIN exchangeRec /\ id # Null /\ id \in Nat /\ frames[id] \in Message
                      /\ RequestPart(id) /\ exchangeRec[id] \in ExchangeRecordType
    OBVIOUS
  <2>1. id \in Requests(f)
    BY <1>0, <1>id, RequestsBelow, GreatestExists
  <2>2. id \in 1..f /\ IsRequest(id)
    BY <2>1 DEF Requests, IsRequest
  <2>3. id \in 1..passed
    BY <1>0, <2>2
  <2>4. frames[id] \in Message
    BY <1>0, <2>2, FrameTypes DEF IInv
  <2> QED BY <1>1, <2>2, <2>3, <2>4 DEF Null
<1>3. \A g \in 1..passed : (exchangeRec'[g] = exchangeRec[g] /\ RequestPart(g)) => RequestPart(g)'
  BY DEF RequestPart
<1>4. CASE IsRequest(f)
  <2>1. ~ (Requests(f) # {} /\ Recoverable(LastRequest(f), m))
    BY <1>4 DEF IsRequest, Recoverable
  <2>2. caseRec' = [caseRec EXCEPT ![f] = f] /\ keyTable' = keyTable
        /\ exchangeRec' = [g \in DOMAIN exchangeRec \cup {f} |->
                             IF g = f THEN NewExchangeRecord(m) ELSE exchangeRec[g]]
    BY <1>0, <1>4 DEF DissectMatterSecurity, BeginSessionRequest, IsRequest
  <2>3. NewExchangeRecord(m) \in ExchangeRecordType
    BY <1>0, NewRecordType
  <2>4. RequestPart(f)'
    BY <2>2 DEF RequestPart, NewExchangeRecord
  <2>5. DOMAIN exchangeRec' = {g \in 1..f : IsRequest(g)}
    BY <1>0, <1>1, <1>4, <2>2
  <2>6. exchangeRec' \in [DOMAIN exchangeRec' -> ExchangeRecordType]
    BY <1>1, <2>2, <2>3
  <2>7. \A g \in DOMAIN exchangeRec' : RequestPart(g)'
    BY <1>1, <1>3, <2>2, <2>4
  <2>8. RecordsAfter(f)
    BY <2>5, <2>6, <2>7 DEF RecordsAfter
  <2> QED BY <1>4, <2>1, <2>2, <2>8 DEF ExpectedRec, KeysAfter
<1>5. ASSUME ~ IsRequest(f), exchangeRec' = exchangeRec
      PROVE  RecordsAfter(f)
  BY <1>0, <1>1, <1>3, <1>5 DEF RecordsAfter
<1>6. CASE ~ IsRequest(f) /\ ~ Joins(f)
  <2>1. UNCHANGED <<caseRec, exchangeRec, keyTable>>
    BY <1>6 DEF DissectMatterSecurity, IsRequest, Joins
  <2>2. ExpectedRec(f) = Null /\ ~ Recoverable(LastRequest(f), m)
    BY <1>6 DEF ExpectedRec, Recoverable, Joins
  <2> QED BY <1>0, <1>5, <1>6, <2>1, <2>2 DEF KeysAfter
<1>7. CASE Joins(f) /\ Requests(f) = {}
  <2>1. FindCASEExchangeRecord(f) = Null /\ ~ IsRequest(f) /\ ExpectedRec(f) = Null
    BY <1>0, <1>7, WalkBack DEF IInv, Joins, IsRequest, ExpectedRec
  <2>2. UNCHANGED <<caseRec, exchangeRec, keyTable>>
    BY <1>7, <2>1
    DEF DissectMatterSecurity, Joins, BeginSessionResponse, InitiatorKeyConfirm
  <2> QED BY <1>0, <1>5, <1>7, <2>1, <2>2 DEF KeysAfter
<1>8. CASE Joins(f) /\ Requests(f) # {}
  <2>1. FindCASEExchangeRecord(f) = id /\ ~ IsRequest(f) /\ ExpectedRec(f) = id
    BY <1>0, <1>8, <1>id, WalkBack DEF IInv, Joins, IsRequest, ExpectedRec
  <2>2. /\ id \in DOMAIN exchangeRec /\ id # Null /\ id \in Nat /\ frames[id] \in Message
        /\ RequestPart(id) /\ exchangeRec[id] \in ExchangeRecordType /\ LastRequest(f) = frames[id]
    BY <1>2, <1>8, <1>id, <2>1 DEF LastRequest
  <2>3. ASSUME NEW r \in ExchangeRecordType, exchangeRec' = [exchangeRec EXCEPT ![id] = r],
               r.config = exchangeRec[id].config, r.curve = exchangeRec[id].curve,
               r.keyId = exchangeRec[id].keyId, r.sessionType = exchangeRec[id].sessionType,
               r.reqECDHPublicKey = exchangeRec[id].reqECDHPublicKey,
               r.reqMsgHash = exchangeRec[id].reqMsgHash
        PROVE  RecordsAfter(f)
    <3>1. /\ DOMAIN exchangeRec' = DOMAIN exchangeRec /\ exchangeRec'[id] = r
          /\ \A g \in DOMAIN exchangeRec \ {id} : exchangeRec'[g] = exchangeRec[g]
          /\ exchangeRec' \in [DOMAIN exchangeRec' -> ExchangeRecordType]
      BY <1>1, <2>2, <2>3
    <3>2. RequestPart(id)'
      BY <2>2, <2>3, <3>1 DEF RequestPart
    <3>3. \A g \in DOMAIN exchangeRec' : RequestPart(g)'
      BY <1>1, <1>3, <3>1, <3>2
    <3>4. DOMAIN exchangeRec' = {g \in 1..f : IsRequest(g)}
      BY <1>0, <1>1, <2>1, <3>1
    <3> QED BY <3>1, <3>3, <3>4 DEF RecordsAfter
  <2>4. CASE m.kind = "InitiatorKeyConfirm"
    <3>1. /\ caseRec' = [caseRec EXCEPT ![f] = id] /\ keyTable' = keyTable
          /\ exchangeRec' = [exchangeRec EXCEPT ![id] = WithKeyConfirm(exchangeRec[id], f)]
      BY <1>0, <1>8, <2>1, <2>2, <2>4 DEF DissectMatterSecurity, InitiatorKeyConfirm, Joins
    <3>2. RecordsAfter(f)
      BY <1>0, <2>2, <2>3, <3>1, WithKeyConfirmEffect, ZenonT(30)
    <3>3. ~ Recoverable(LastRequest(f), m)
      BY <2>4 DEF Recoverable
    <3> QED BY <2>1, <3>1, <3>2, <3>3 DEF KeysAfter
  <2>5. CASE m.kind = "BeginSessionResponse"
    <3>r. PICK r : r = WithResponse(exchangeRec[id], f, m)
      OBVIOUS
    <3>1. /\ caseRec' = [caseRec EXCEPT ![f] = id] /\ keyTable' = RecoverCASESessionKey(r)
          /\ exchangeRec' = [exchangeRec EXCEPT ![id] = r]
      BY <1>0, <1>8, <2>1, <2>2, <2>5, <3>r DEF DissectMatterSecurity, BeginSessionResponse, Joins
    <3>2. /\ r \in ExchangeRecordType
          /\ r.config = exchangeRec[id].config /\ r.curve = exchangeRec[id].curve
          /\ r.keyId = exchangeRec[id].keyId /\ r.sessionType = exchangeRec[id].sessionType
          /\ r.reqECDHPublicKey = exchangeRec[id].reqECDHPublicKey
          /\ r.reqMsgHash = exchangeRec[id].reqMsgHash /\ r.respMsgHash = m
          /\ r.respECDHPublicKey = m.ecdh
      <4>1. PICK q \in ExchangeRecordType : q = exchangeRec[id]
        BY <2>2
      <4>2. PICK n \in Message : n = m
        BY <1>0
      <4>3. r = WithResponse(q, f, n)
        BY <3>r, <4>1, <4>2
      <4>4. /\ r \in ExchangeRecordType
            /\ r.config = q.config /\ r.curve = q.curve /\ r.keyId = q.keyId
            /\ r.sessionType = q.sessionType /\ r.reqECDHPublicKey = q.reqECDHPublicKey
            /\ r.reqMsgHash = q.reqMsgHash /\ r.respMsgHash = n /\ r.respECDHPublicKey = n.ecdh
        BY <1>0, <4>3, MessageFields DEF WithResponse, ExchangeRecordType
      <4> QED BY <4>1, <4>2, <4>4
    <3>3. RecordsAfter(f)
      BY <2>3, <3>1, <3>2
    <3>4. /\ Recoverable(frames[id], m) => Recovers(r)
          /\ Recovers(r) => /\ <<r.keyId, DerivedKey(r)>> = EntryFrom(f)
                            /\ G \in {frames[id].ecdh.point, m.ecdh.point}
      <4>1. /\ r.config = frames[id].config /\ r.curve = frames[id].curve
            /\ r.sessionType = frames[id].encType /\ r.reqECDHPublicKey = frames[id].ecdh
            /\ r.reqMsgHash = frames[id] /\ r.keyId = frames[id].sessionId
        BY <2>2, <3>2 DEF RequestPart
      <4>2. /\ Recoverable(frames[id], m) => Recovers(r)
            /\ Recovers(r) => /\ DerivedKey(r) = SessionKey(frames[id], m)
                              /\ G \in {frames[id].ecdh.point, m.ecdh.point}
        BY <1>0, <2>2, <3>2, <4>1, RecoveryIsRight
      <4> QED BY <2>2, <4>1, <4>2 DEF EntryFrom
    <3>5. KeysAfter(f)
      <4>1. CASE ~ Recovers(r)
        <5>1. keyTable' = keyTable
          BY <3>1, <4>1 DEF RecoverCASESessionKey
        <5> QED BY <2>2, <3>4, <4>1, <5>1 DEF KeysAfter
      <4>2. CASE Recovers(r)
        <5>1. keyTable' = AddKey(keyTable, r.keyId, DerivedKey(r), 0)
          BY <3>1, <4>2 DEF RecoverCASESessionKey
        <5>2. DOMAIN keyTable' = DOMAIN keyTable \cup {EntryFrom(f)}
          BY <3>4, <4>2, <5>1 DEF AddKey
        <5>3. keyTable' = AddKey(keyTable, LastRequest(f).sessionId,
                                 SessionKey(LastRequest(f), frames[f]), 0)
          BY <3>4, <4>2, <5>1 DEF EntryFrom
        <5> QED BY <1>8, <2>2, <2>5, <3>4, <4>2, <5>2, <5>3 DEF KeysAfter
      <4> QED BY <4>1, <4>2
    <3> QED BY <2>1, <3>1, <3>3, <3>5
  <2> QED BY <1>8, <2>4, <2>5 DEF Joins
<1> QED BY <1>4, <1>6, <1>7, <1>8

LEMMA FirstPassStep ==
  ASSUME IInv, FirstPass
  PROVE  IInv'
<1>1. PICK f : f = passed + 1
  OBVIOUS
<1>2. /\ passed \in Nat /\ Len(frames) \in Nat /\ passed < Len(frames) /\ f \in 1..Len(frames)
      /\ frames' = frames /\ passed' = f /\ f \in Nat /\ DOMAIN caseRec = 1..Len(frames)
  BY <1>1, FrameTypes DEF FirstPass, IInv
<1>3. /\ caseRec' = [caseRec EXCEPT ![f] = ExpectedRec(f)] /\ RecordsAfter(f) /\ KeysAfter(f)
  BY <1>1, <1>2, DissectNext DEF FirstPass
<1>4. Requests(f) # {} => /\ Greatest(Requests(f)) \in 1..f /\ LastRequest(f) \in Message
                          /\ LastRequest(f).kind = "BeginSessionRequest"
                          /\ LastRequest(f).exchange = frames[f].exchange
                          /\ IsRequest(Greatest(Requests(f)))
  <2> SUFFICES ASSUME Requests(f) # {}
               PROVE  /\ Greatest(Requests(f)) \in 1..f /\ LastRequest(f) \in Message
                      /\ LastRequest(f).kind = "BeginSessionRequest"
                      /\ LastRequest(f).exchange = frames[f].exchange
                      /\ IsRequest(Greatest(Requests(f)))
    OBVIOUS
  <2>1. PICK g : g = Greatest(Requests(f))
    OBVIOUS
  <2>2. g \in Requests(f)
    BY <1>2, <2>1, RequestsBelow, GreatestExists
  <2>3. /\ g \in 1..f /\ frames[g].exchange = frames[f].exchange
        /\ frames[g].kind = "BeginSessionRequest" /\ frames[g].complete
    BY <2>2 DEF Requests
  <2>4. frames[g] \in Message
    BY <1>2, <2>3, FrameTypes DEF IInv
  <2> QED BY <2>1, <2>3, <2>4 DEF LastRequest, IsRequest
<1>5. ExpectedRec(f) \in DOMAIN exchangeRec' \cup {Null}
  BY <1>2, <1>3, <1>4 DEF ExpectedRec, RecordsAfter
<1>6. \A g \in 1..Len(frames) : /\ Requests(g)' = Requests(g) /\ ExpectedRec(g)' = ExpectedRec(g)
                                /\ IsRequest(g)' = IsRequest(g)
  BY <1>2 DEF Requests, ExpectedRec, IsRequest, Joins
<1>7. DOMAIN exchangeRec \subseteq DOMAIN exchangeRec'
  BY <1>1, <1>2, <1>3 DEF IInv, RecordsOfRequests, RecordsAfter
<1>8. TypeOK'
  <2>1. frames' \in Seq(Message) /\ passed' \in 0..Len(frames')
    BY <1>2 DEF IInv, TypeOK
  <2>2. DOMAIN exchangeRec' \subseteq 1..passed' /\ exchangeRec' \in [DOMAIN exchangeRec' -> ExchangeRecordType]
    BY <1>2, <1>3 DEF RecordsAfter
  <2>3. caseRec' \in [1..Len(frames') -> DOMAIN exchangeRec' \cup {Null}]
    BY <1>2, <1>3, <1>5, <1>7 DEF IInv, TypeOK
  <2> QED BY <2>1, <2>2, <2>3 DEF TypeOK
<1>9. Attached'
  <2>1. \A g \in 1..passed' : caseRec'[g] = ExpectedRec(g)'
    BY <1>1, <1>2, <1>3, <1>6 DEF IInv, Attached
  <2>2. \A g \in (passed' + 1)..Len(frames') : caseRec'[g] = Null
    BY <1>1, <1>2, <1>3 DEF IInv, Attached
  <2> QED BY <2>1, <2>2 DEF Attached
<1>10. RecordsOfRequests'
  BY <1>2, <1>3, <1>6 DEF RecordsAfter, RecordsOfRequests
<1>11. KeysAreSessionKeys'
  <2> SUFFICES ASSUME NEW x \in DOMAIN keyTable'
               PROVE  LET req == x[2].request   resp == x[2].response
                      IN  /\ req.kind = "BeginSessionRequest" /\ resp.kind = "BeginSessionResponse"
                          /\ req.exchange = resp.exchange
                          /\ x = <<req.sessionId, SessionKey(req, resp)>>
                          /\ G \in {req.ecdh.point, resp.ecdh.point}
    BY DEF KeysAreSessionKeys
  <2>1. CASE x \in DOMAIN keyTable
    BY <2>1 DEF IInv, KeysAreSessionKeys
  <2>2. CASE x \notin DOMAIN keyTable
    <3>1. /\ x = EntryFrom(f) /\ Requests(f) # {} /\ frames[f].kind = "BeginSessionResponse"
          /\ G \in {LastRequest(f).ecdh.point, frames[f].ecdh.point}
      BY <1>3, <2>2 DEF KeysAfter
    <3>2. x[2].request = LastRequest(f) /\ x[2].response = frames[f]
          /\ x = <<LastRequest(f).sessionId, SessionKey(LastRequest(f), frames[f])>>
      BY <3>1 DEF EntryFrom, SessionKey
    <3> QED BY <1>4, <3>1, <3>2
  <2> QED BY <2>1, <2>2
<1>12. SessionsRecovered'
  <2> SUFFICES ASSUME NEW g \in 1..f, Requests(g) # {}, Recoverable(LastRequest(g), frames[g])
               PROVE  EntryFrom(g) \in DOMAIN keyTable'
    BY <1>2, <1>6 DEF SessionsRecovered, LastRequest, EntryFrom
  <2>1. CASE g = f
    BY <1>3, <2>1 DEF KeysAfter
  <2>2. CASE g # f
    <3>1. g \in 1..passed
      BY <1>1, <1>2, <2>2
    <3>2. EntryFrom(g) \in DOMAIN keyTable
      BY <3>1 DEF IInv, SessionsRecovered, LastRequest, EntryFrom
    <3> QED BY <1>3, <3>2 DEF KeysAfter
  <2> QED BY <2>1, <2>2
<1> QED BY <1>8, <1>9, <1>10, <1>11, <1>12 DEF IInv
-----------------------------------------------------------------------------
LEMMA StutterIInv ==
  ASSUME IInv, UNCHANGED vars
  PROVE  IInv'
<1>1. TypeOK'
  BY DEF vars, IInv, TypeOK
<1>2. Attached' = Attached
  BY DEF vars, Attached, ExpectedRec, IsRequest, Joins, Requests
<1>3. RecordsOfRequests' = RecordsOfRequests
  BY DEF vars, RecordsOfRequests, IsRequest, RequestPart
<1>4. KeysAreSessionKeys' = KeysAreSessionKeys
  BY DEF vars, KeysAreSessionKeys
<1>5. SessionsRecovered' = SessionsRecovered
  BY DEF vars, SessionsRecovered, Requests
<1> QED BY <1>1, <1>2, <1>3, <1>4, <1>5 DEF IInv

LEMMA NextIInv ==
  ASSUME IInv, [Next]_vars
  PROVE  IInv'
<1>1. CASE FirstPass
  BY <1>1, FirstPassStep
<1>2. ASSUME NEW m \in Message, ReadFrame(m)
      PROVE  IInv'
  BY <1>2, ReadFrameStep
<1>3. ASSUME NEW f \in 1..passed, Redissect(f)
      PROVE  IInv'
  <2>1. UNCHANGED vars
    BY <1>3, RedissectStep DEF Redissect, vars
  <2> QED BY <2>1, StutterIInv
<1>4. CASE OpenFile
  BY <1>4, EndFileScopeStep DEF OpenFile
<1>5. CASE RescanFile
  BY <1>5, EndFileScopeStep DEF RescanFile, IInv, TypeOK
<1>6. CASE UNCHANGED vars
  BY <1>6, StutterIInv
<1> QED BY <1>1, <1>2, <1>3, <1>4, <1>5, <1>6 DEF Next

LEMMA Invariance == Spec => []IInv
<1>1. Init => IInv
  BY InitIInv
<1>2. IInv /\ [Next]_vars => IInv'
  BY NextIInv
<1> QED BY <1>1, <1>2, PTL DEF Spec

(***************************************************************************)
(* In particular every CASE record in use is that of a request that the    *)
(* sequential pass has dissected in this file scope.                       *)
(***************************************************************************)
THEOREM CASETypeCorrect == Spec => []TypeOK
<1>1. IInv => TypeOK
  BY DEF IInv
<1> QED BY <1>1, Invariance, PTL

(***************************************************************************)
(* RecoverCASESessionKey files nothing but keys that the parties of one    *)
(* handshake derived, under the session id that its request proposed.      *)
(***************************************************************************)
THEOREM OnlySessionKeys == Spec => []KeysAreSessionKeys
<1>1. IInv => KeysAreSessionKeys
  BY DEF IInv
<1> QED BY <1>1, Invariance, PTL

(***************************************************************************)
(* When one of the parties uses the generator as its ECDH public key, and  *)
(* the handshake is of a kind that recovery supports, its session key is   *)
(* in the key table from the response on.                                  *)
(***************************************************************************)
THEOREM WellKnownSessionsRecovered == Spec => []SessionsRecovered
<1>1. IInv => SessionsRecovered
  BY DEF IInv
<1> QED BY <1>1, Invariance, PTL

(***************************************************************************)
(* The CASE records and the key table do not depend on which frames        *)
(* Wireshark dissects again and when.                                      *)
(***************************************************************************)
THEOREM RedissectionIdle == Spec => RedissectionChangesNothing
<1> DEFINE Idle == frames' = frames /\ passed' = passed => UNCHANGED <<caseRec, exchangeRec, keyTable>>
<1>1. ASSUME IInv, [Next]_vars
      PROVE  [Idle]_vars
  <2> SUFFICES ASSUME frames' = frames, passed' = passed, ~ UNCHANGED vars
               PROVE  UNCHANGED <<caseRec, exchangeRec, keyTable>>
    OBVIOUS
  <2>1. passed \in Nat /\ Len(frames) \in Nat
    BY <1>1, FrameTypes DEF IInv
  <2>2. ~ FirstPass
    BY <2>1 DEF FirstPass
  <2>3. ASSUME NEW m \in Message, ReadFrame(m)
        PROVE  FALSE
    <3>1. Len(frames') = Len(frames) + 1
      BY <1>1, <2>3 DEF ReadFrame, IInv, TypeOK
    <3> QED BY <2>1, <3>1
  <2>4. ASSUME NEW f \in 1..passed, Redissect(f)
        PROVE  UNCHANGED <<caseRec, exchangeRec, keyTable>>
    BY <1>1, <2>4, RedissectStep DEF Redissect
  <2>5. ASSUME OpenFile \/ RescanFile
        PROVE  UNCHANGED <<caseRec, exchangeRec, keyTable>>
    <3>1. /\ passed = 0 /\ passed' = 0 /\ keyTable' = keyTable
          /\ caseRec' = [f \in 1..Len(frames') |-> Null] /\ exchangeRec' = [g \in {} |-> Null]
      BY <2>5 DEF OpenFile, RescanFile, EndFileScope
    <3>2. DOMAIN exchangeRec = {} /\ exchangeRec = exchangeRec'
      <4>1. /\ DOMAIN exchangeRec \subseteq 1..passed
            /\ exchangeRec \in [DOMAIN exchangeRec -> ExchangeRecordType]
        BY <1>1 DEF IInv, TypeOK
      <4>2. 1..passed = {}
        BY <3>1
      <4>3. DOMAIN exchangeRec = {}
        BY <4>1, <4>2
      <4> QED BY <3>1, <4>1, <4>3
    <3>3. caseRec = caseRec'
      BY <1>1, <2>1, <3>1 DEF IInv, TypeOK, Attached
    <3> QED BY <3>1, <3>2, <3>3
  <2> QED BY <1>1, <2>2, <2>3, <2>4, <2>5 DEF Next
<1> QED BY <1>1, Invariance, PTL DEF Spec, RedissectionChangesNothing

(***************************************************************************)
(* Recovery adds to the key table and does nothing else with it: no key    *)
(* that was filed is lost, replaced or filed twice.  NodeIds holds the     *)
(* number that stands for an unknown source, and Keys what recovery        *)
(* derives.                                                                *)
(***************************************************************************)
THEOREM RecoveryImplementsKeyMap ==
  ASSUME \A m, n \in Message : SessionKey(m, n) \in Keys,
         0 \in NodeIds
  PROVE  Spec => ImplementsKeyMap
<1>1. Init => MapInit
  BY DEF Init
<1>2. ASSUME IInv, [Next]_vars
      PROVE  [MapNext]_keyTable
  <2>1. CASE FirstPass
    <3>1. PICK f : f = passed + 1
      OBVIOUS
    <3>2. /\ passed \in Nat /\ passed < Len(frames) /\ f \in 1..Len(frames) /\ f \in Nat
          /\ frames' = frames /\ frames[f] \in Message
      BY <1>2, <2>1, <3>1, FrameTypes DEF FirstPass, IInv
    <3>3. KeysAfter(f)
      BY <1>2, <2>1, <3>1, <3>2, DissectNext DEF FirstPass
    <3>4. CASE Requests(f) # {} /\ keyTable' = AddKey(keyTable, LastRequest(f).sessionId,
                                                      SessionKey(LastRequest(f), frames[f]), 0)
      <4>1. Greatest(Requests(f)) \in 1..f
        BY <3>2, <3>4, RequestsBelow, GreatestExists
      <4>2. LastRequest(f) \in Message
        BY <1>2, <3>2, <4>1, FrameTypes DEF LastRequest, IInv
      <4>3. LastRequest(f).sessionId \in KeyIds /\ SessionKey(LastRequest(f), frames[f]) \in Keys
        BY <3>2, <4>2, MessageFields
      <4> QED BY <3>4, <4>3 DEF MapNext
    <3>5. CASE keyTable' = keyTable
      BY <3>5
    <3> QED BY <3>3, <3>4, <3>5 DEF KeysAfter
  <2>2. ASSUME NEW f \in 1..passed, Redissect(f)
        PROVE  keyTable' = keyTable
    BY <1>2, <2>2, RedissectStep DEF Redissect
  <2>3. ASSUME (\E m \in Message : ReadFrame(m)) \/ OpenFile \/ RescanFile \/ UNCHANGED vars
        PROVE  keyTable' = keyTable
    BY <2>3 DEF ReadFrame, OpenFile, RescanFile, EndFileScope, vars
  <2> QED BY <1>2, <2>1, <2>2, <2>3 DEF Next
<1> QED BY <1>1, <1>2, Invariance, PTL DEF Spec, ImplementsKeyMap, MapSpec
=============================================================================
