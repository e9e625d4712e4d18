------------------------- MODULE MessageTrackerProofs -------------------------
(***************************************************************************)
(* Proofs about MessageTracker, for every set of messages and captures:    *)
(* what its records hold, then what DissectMatter shows for a frame that   *)
(* has a record, the frame that acked it, its retransmissions, the first   *)
(* user of its message counter and the start of its exchange.              *)
(***************************************************************************)
EXTENDS MessageTracker, FiniteSetTheorems, TLAPS

(***************************************************************************)
(* No record ever carries an IM subscription: AssociateWithIMSubscription  *)
(* only copies subscriptions between records and nothing else sets one.    *)
(***************************************************************************)
NoSubscription == \A f \in DOMAIN rec : rec[f].imSubscription = 0

IInv == TypeOK /\ RecordsFiledOnce /\ NoSubscription
-----------------------------------------------------------------------------
(***************************************************************************)
(* Facts about frames and records.                                         *)
(***************************************************************************)
\* PDU i of frame f of a capture is a message.
LEMMA PduIsMessage ==
  ASSUME NEW c \in Captures, NEW f \in 1..Len(c), NEW i \in 1..Len(c[f])
  PROVE  c[f][i] \in Message
<1>1. c \in Seq(Frame)
  BY CapturesAssumption
<1>2. c[f] \in Frame
  BY <1>1
<1>3. c[f] \in Seq(Message)
  BY <1>2 DEF Frame
<1> QED BY <1>3

\* Every frame of a capture has a first PDU.
LEMMA FrameNotEmpty ==
  ASSUME NEW c \in Captures, NEW f \in 1..Len(c)
  PROVE  Len(c[f]) \in Nat /\ 1 \in 1..Len(c[f])
<1>1. c \in Seq(Frame)
  BY CapturesAssumption
<1>2. c[f] \in Frame
  BY <1>1
<1>3. c[f] \in Seq(Message) /\ c[f] # << >>
  BY <1>2 DEF Frame
<1> QED BY <1>3

\* A new record has the type of a record.
LEMMA NewRecordType ==
  ASSUME NEW m \in Message
  PROVE  NewRecord(m) \in RecordType /\ NewRecord(m).imSubscription = 0
<1>1. m.initiator \in BOOLEAN
  BY MessageAssumption DEF MessageType
<1> QED BY <1>1 DEF NewRecord, RecordType, MsgIdKeys, ExchangeKeys, Null

\* What the two updates of a record change and what they keep.
LEMMA RecordUpdates ==
  ASSUME NEW r \in RecordType, NEW x \in Nat
  PROVE  /\ WithAckedBy(r, x) \in RecordType
         /\ WithAckedBy(r, x).ackedBy = x
         /\ WithAckedBy(r, x).imSubscription = r.imSubscription
         /\ SameIdentity(r, WithAckedBy(r, x))
         /\ r.imSubscription = x => WithSubscription(r, x) = r
         /\ SameIdentity(r, r)
BY DEF RecordType, WithAckedBy, WithSubscription, SameIdentity

\* A list found in a table of lists is a list; so is one not found.
LEMMA LookupType ==
  ASSUME NEW table, NEW k, \A x \in DOMAIN table : table[x] \in Seq(Nat)
  PROVE  Lookup(table, k) \in Seq(Nat)
BY DEF Lookup

\* The elements of a list after an append.
LEMMA AppendElements ==
  ASSUME NEW list \in Seq(Nat), NEW f \in Nat
  PROVE  /\ Elements(Append(list, f)) = Elements(list) \cup {f}
         /\ Injective(list) /\ f \notin Elements(list) => Injective(Append(list, f))
<1>1. /\ Len(Append(list, f)) = Len(list) + 1 /\ Len(list) \in Nat
      /\ \A i \in 1..Len(list) : Append(list, f)[i] = list[i]
      /\ Append(list, f)[Len(list) + 1] = f
  OBVIOUS
<1>2. 1..Len(Append(list, f)) = 1..Len(list) \cup {Len(list) + 1}
  BY <1>1
<1>3. Elements(Append(list, f)) = Elements(list) \cup {f}
  BY <1>1, <1>2 DEF Elements
<1>4. ASSUME Injective(list), f \notin Elements(list)
      PROVE  Injective(Append(list, f))
  <2> SUFFICES ASSUME NEW i \in 1..Len(Append(list, f)), NEW j \in 1..Len(Append(list, f)),
                      Append(list, f)[i] = Append(list, f)[j]
               PROVE  i = j
    BY DEF Injective
  <2>1. CASE i \in 1..Len(list) /\ j \in 1..Len(list)
    BY <2>1, <1>1, <1>4 DEF Injective
  <2>2. CASE i = Len(list) + 1 /\ j \in 1..Len(list)
    BY <2>2, <1>1, <1>4 DEF Elements
  <2>3. CASE j = Len(list) + 1 /\ i \in 1..Len(list)
    BY <2>3, <1>1, <1>4 DEF Elements
  <2> QED BY <2>1, <2>2, <2>3, <1>2
<1> QED BY <1>3, <1>4
-----------------------------------------------------------------------------
(***************************************************************************)
(* What dissecting a readable message does, in terms of the old state.     *)
(***************************************************************************)
OldAckedBy(g) == IF g \in DOMAIN rec THEN rec[g].ackedBy ELSE Null

\* The lists of a table hold records of D only, each at most once.
WellFiled(table, D) ==
  \A x \in DOMAIN table :
    table[x] \in Seq(Nat) /\ Injective(table[x]) /\ Elements(table[x]) \subseteq D

\* Filing one more record keeps a table's lists free of strangers and copies.
LEMMA FiledOnce ==
  ASSUME NEW table, NEW k, NEW f \in Nat, NEW D, f \notin D, WellFiled(table, D)
  PROVE  /\ AddToList(table, k, f)[k] \in Seq(Nat)
         /\ Injective(AddToList(table, k, f)[k])
         /\ Elements(AddToList(table, k, f)[k]) = Elements(Lookup(table, k)) \cup {f}
         /\ Elements(Lookup(table, k)) \subseteq D
<1>1. Lookup(table, k) \in Seq(Nat)
  BY LookupType DEF WellFiled
<1>2. Injective(Lookup(table, k)) /\ Elements(Lookup(table, k)) \subseteq D
  BY DEF Lookup, Injective, Elements, WellFiled
<1>3. AddToList(table, k, f)[k] = Append(Lookup(table, k), f)
  BY DEF AddToList
<1>4. Append(Lookup(table, k), f) \in Seq(Nat)
  BY <1>1
<1>5. /\ Injective(Append(Lookup(table, k), f))
      /\ Elements(Append(Lookup(table, k), f)) = Elements(Lookup(table, k)) \cup {f}
  BY <1>1, <1>2, AppendElements
<1> QED BY <1>2, <1>3, <1>4, <1>5

LEMMA DissectReadableEffect ==
  ASSUME IInv, NEW f \in Nat, NEW m \in Message, DissectReadable(f, m)
  PROVE  /\ rec' \in [DOMAIN rec \cup {f} -> RecordType]
         /\ NoSubscription'
         /\ \A g \in DOMAIN rec : SameIdentity(rec[g], rec'[g])
         /\ f \notin DOMAIN rec => SameIdentity(NewRecord(m), rec'[f])
         /\ \A g \in DOMAIN rec' :
              rec'[g].ackedBy = IF g \in AckedMessages(msgIdTable', f, m)
                                  THEN EarlierAck(OldAckedBy(g), f)
                                  ELSE OldAckedBy(g)
         /\ f \in DOMAIN rec => UNCHANGED <<msgIdTable, exchangeTable>>
         /\ f \notin DOMAIN rec =>
              /\ msgIdTable' = AddToList(msgIdTable, MsgIdKey(m), f)
              /\ exchangeTable' = AddToList(exchangeTable, ExchangeKey(m), f)
<1> DEFINE found == FindOrCreateMessageRecord(f, m)
           acked == FindAckedMessages(found.rec, found.msgs, f, m)
           list  == found.exch[acked[f].exchangeKey]
<1> USE DEF IInv
<1>1. /\ found.rec = IF f \in DOMAIN rec THEN rec
                     ELSE [g \in DOMAIN rec \cup {f} |-> IF g = f THEN NewRecord(m) ELSE rec[g]]
      /\ f \in DOMAIN rec => found.msgs = msgIdTable /\ found.exch = exchangeTable
      /\ f \notin DOMAIN rec =>
              /\ found.msgs = AddToList(msgIdTable, MsgIdKey(m), f)
              /\ found.exch = AddToList(exchangeTable, ExchangeKey(m), f)
  BY DEF FindOrCreateMessageRecord, FindMessageRecord, AddMessageToMessageIdTable,
         AddMessageToExchangeTable
<1>2. /\ found.rec \in [DOMAIN rec \cup {f} -> RecordType]
      /\ \A g \in DOMAIN rec : found.rec[g] = rec[g]
      /\ f \notin DOMAIN rec => found.rec[f] = NewRecord(m)
      /\ \A g \in DOMAIN rec \cup {f} : found.rec[g].imSubscription = 0
  BY <1>1, NewRecordType DEF TypeOK, NoSubscription
<1>3. \A old, new \in Nat : EarlierAck(old, new) \in Nat
  BY DEF EarlierAck
<1>4. /\ acked \in [DOMAIN rec \cup {f} -> RecordType]
      /\ \A g \in DOMAIN rec \cup {f} :
           /\ SameIdentity(found.rec[g], acked[g])
           /\ acked[g].imSubscription = 0
           /\ acked[g].ackedBy = IF g \in AckedMessages(found.msgs, f, m)
                                   THEN EarlierAck(found.rec[g].ackedBy, f)
                                   ELSE found.rec[g].ackedBy
  <2>1. \A g \in DOMAIN rec \cup {f} : found.rec[g] \in RecordType /\ found.rec[g].ackedBy \in Nat
    BY <1>2 DEF RecordType
  <2>2. acked = [g \in DOMAIN rec \cup {f} |->
                   IF g \in AckedMessages(found.msgs, f, m)
                     THEN WithAckedBy(found.rec[g], EarlierAck(found.rec[g].ackedBy, f))
                     ELSE found.rec[g]]
    BY <1>2 DEF FindAckedMessages
  <2> SUFFICES ASSUME NEW g \in DOMAIN rec \cup {f}
               PROVE  /\ acked[g] \in RecordType
                      /\ SameIdentity(found.rec[g], acked[g])
                      /\ acked[g].imSubscription = 0
                      /\ acked[g].ackedBy = IF g \in AckedMessages(found.msgs, f, m)
                                              THEN EarlierAck(found.rec[g].ackedBy, f)
                                              ELSE found.rec[g].ackedBy
    BY <2>2
  <2> DEFINE r == found.rec[g]
  <2>3. r \in RecordType /\ EarlierAck(r.ackedBy, f) \in Nat /\ r.imSubscription = 0
    BY <2>1, <1>2, <1>3
  <2>4. /\ WithAckedBy(r, EarlierAck(r.ackedBy, f)) \in RecordType
        /\ WithAckedBy(r, EarlierAck(r.ackedBy, f)).ackedBy = EarlierAck(r.ackedBy, f)
        /\ WithAckedBy(r, EarlierAck(r.ackedBy, f)).imSubscription = 0
        /\ SameIdentity(r, WithAckedBy(r, EarlierAck(r.ackedBy, f)))
        /\ SameIdentity(r, r)
    BY <2>3, RecordUpdates
  <2>5. acked[g] = IF g \in AckedMessages(found.msgs, f, m)
                     THEN WithAckedBy(r, EarlierAck(r.ackedBy, f)) ELSE r
    BY <2>2
  <2> HIDE DEF acked, found, r
  <2> QED BY <2>3, <2>4, <2>5 DEF r
<1>5. \A i \in 1..Len(list) : acked[list[i]].imSubscription = 0
  <2>1. CASE f \in DOMAIN rec
    <3>1. acked[f].exchangeKey = rec[f].exchangeKey
      BY <2>1, <1>2, <1>4 DEF SameIdentity
    <3>2. list = exchangeTable[rec[f].exchangeKey] /\ rec[f].exchangeKey \in DOMAIN exchangeTable
      BY <2>1, <3>1, <1>1 DEF RecordsFiledOnce
    <3>3. \A i \in 1..Len(list) : list[i] \in DOMAIN rec
      BY <3>2 DEF RecordsFiledOnce, Elements
    <3> QED BY <3>3, <1>4
  <2>2. CASE f \notin DOMAIN rec
    <3>1. acked[f].exchangeKey = ExchangeKey(m)
      BY <2>2, <1>2, <1>4 DEF SameIdentity, NewRecord
    <3>2. list = AddToList(exchangeTable, ExchangeKey(m), f)[ExchangeKey(m)]
      BY <2>2, <3>1, <1>1
    <3>3. WellFiled(exchangeTable, DOMAIN rec)
      BY DEF RecordsFiledOnce, TypeOK, WellFiled
    <3>4. Elements(list) \subseteq DOMAIN rec \cup {f}
      BY <2>2, <3>2, <3>3, FiledOnce
    <3>5. \A i \in 1..Len(list) : list[i] \in DOMAIN rec \cup {f}
      BY <3>4 DEF Elements
    <3> QED BY <3>5, <1>4
  <2> QED BY <2>1, <2>2
<1>6. NearestSubscription(acked, list, f) = 0
  BY <1>5 DEF NearestSubscription
<1>7. rec' = acked
  <2>1. rec' = AssociateWithIMSubscription(acked, found.exch, f, m)
    BY DEF DissectReadable
  <2>2. CASE m.kind \in {"StatusReport", "StandaloneAck"}
    <3>1. rec' = [acked EXCEPT ![f] = WithSubscription(acked[f], 0)]
      BY <2>1, <2>2, <1>6 DEF AssociateWithIMSubscription
    <3>2. acked[f].imSubscription = 0 /\ acked[f] \in RecordType
      BY <1>4
    <3>3. WithSubscription(acked[f], 0) = acked[f]
      BY <3>2, RecordUpdates
    <3> QED BY <3>1, <3>3, <1>4
  <2>3. CASE m.kind \notin {"StatusReport", "StandaloneAck"}
    BY <2>1, <2>3 DEF AssociateWithIMSubscription
  <2> QED BY <2>2, <2>3
<1>8. msgIdTable' = found.msgs /\ exchangeTable' = found.exch
  BY DEF DissectReadable
<1>9. \A g \in DOMAIN rec \cup {f} : found.rec[g].ackedBy = OldAckedBy(g)
  BY <1>2 DEF OldAckedBy, NewRecord
<1>10. DOMAIN rec' = DOMAIN rec \cup {f}
  BY <1>7, <1>4
<1>11. NoSubscription'
  BY <1>7, <1>4, <1>10 DEF NoSubscription
<1>12. \A g \in DOMAIN rec : SameIdentity(rec[g], rec'[g])
  BY <1>7, <1>4, <1>2
<1>13. f \notin DOMAIN rec => SameIdentity(NewRecord(m), rec'[f])
  BY <1>7, <1>4, <1>2
<1>14. \A g \in DOMAIN rec' :
              rec'[g].ackedBy = IF g \in AckedMessages(msgIdTable', f, m)
                                  THEN EarlierAck(OldAckedBy(g), f)
                                  ELSE OldAckedBy(g)
  BY <1>7, <1>8, <1>9, <1>10, <1>4
<1>15. /\ f \in DOMAIN rec => UNCHANGED <<msgIdTable, exchangeTable>>
       /\ f \notin DOMAIN rec =>
              /\ msgIdTable' = AddToList(msgIdTable, MsgIdKey(m), f)
              /\ exchangeTable' = AddToList(exchangeTable, ExchangeKey(m), f)
  BY <1>1, <1>8
<1> QED BY <1>4, <1>7, <1>11, <1>12, <1>13, <1>14, <1>15
-----------------------------------------------------------------------------
(***************************************************************************)
(* IInv is inductive.                                                      *)
(***************************************************************************)
LEMMA DissectReadableInv ==
  ASSUME IInv, NEW f \in 1..passed', passed' \in 0..Len(frames), passed <= passed',
         frames' = frames, known' = known,
         NEW m \in Message, DissectReadable(f, m)
  PROVE  /\ DOMAIN rec' \subseteq 1..passed'
         /\ rec' \in [DOMAIN rec' -> RecordType]
         /\ DOMAIN msgIdTable' \subseteq MsgIdKeys
         /\ msgIdTable' \in [DOMAIN msgIdTable' -> Seq(Nat)]
         /\ DOMAIN exchangeTable' \subseteq ExchangeKeys
         /\ exchangeTable' \in [DOMAIN exchangeTable' -> Seq(Nat)]
         /\ RecordsFiledOnce'
         /\ NoSubscription'
<1> USE DEF IInv
<1>0. f \in Nat /\ passed \in Nat /\ passed' \in Nat
  BY FrameNotEmpty DEF TypeOK
<1>1. /\ rec' \in [DOMAIN rec \cup {f} -> RecordType]
      /\ NoSubscription'
      /\ \A g \in DOMAIN rec : SameIdentity(rec[g], rec'[g])
      /\ f \notin DOMAIN rec => SameIdentity(NewRecord(m), rec'[f])
      /\ f \in DOMAIN rec => UNCHANGED <<msgIdTable, exchangeTable>>
      /\ f \notin DOMAIN rec =>
              /\ msgIdTable' = AddToList(msgIdTable, MsgIdKey(m), f)
              /\ exchangeTable' = AddToList(exchangeTable, ExchangeKey(m), f)
  BY <1>0, DissectReadableEffect
<1>2. DOMAIN rec' = DOMAIN rec \cup {f} /\ DOMAIN rec' \subseteq 1..passed'
  BY <1>0, <1>1 DEF TypeOK
<1>3. CASE f \in DOMAIN rec
  <2>1. DOMAIN rec' = DOMAIN rec /\ UNCHANGED <<msgIdTable, exchangeTable>>
    BY <1>1, <1>2, <1>3
  <2>2. \A g \in DOMAIN rec : /\ rec'[g].msgIdKey = rec[g].msgIdKey
                              /\ rec'[g].exchangeKey = rec[g].exchangeKey
    BY <1>1 DEF SameIdentity
  <2>3. RecordsFiledOnce'
    BY <2>1, <2>2 DEF RecordsFiledOnce, MsgIdList, ExchangeList
  <2> QED BY <1>1, <1>2, <2>1, <2>3 DEF TypeOK
<1>4. CASE f \notin DOMAIN rec
  <2>1. /\ \A g \in DOMAIN rec : /\ rec'[g].msgIdKey = rec[g].msgIdKey
                                 /\ rec'[g].exchangeKey = rec[g].exchangeKey
        /\ rec'[f].msgIdKey = MsgIdKey(m)
        /\ rec'[f].exchangeKey = ExchangeKey(m)
    BY <1>1, <1>4 DEF SameIdentity, NewRecord
  <2>2. WellFiled(msgIdTable, DOMAIN rec) /\ WellFiled(exchangeTable, DOMAIN rec)
    BY DEF RecordsFiledOnce, TypeOK, WellFiled
  <2> DEFINE k == MsgIdKey(m)
             x == ExchangeKey(m)
  <2>3. /\ DOMAIN msgIdTable' = DOMAIN msgIdTable \cup {k}
        /\ msgIdTable'[k] \in Seq(Nat) /\ Injective(msgIdTable'[k])
        /\ Elements(msgIdTable'[k]) = Elements(Lookup(msgIdTable, k)) \cup {f}
        /\ \A y \in DOMAIN msgIdTable : y # k => msgIdTable'[y] = msgIdTable[y]
    <3>1. /\ msgIdTable'[k] \in Seq(Nat) /\ Injective(msgIdTable'[k])
          /\ Elements(msgIdTable'[k]) = Elements(Lookup(msgIdTable, k)) \cup {f}
      BY <1>0, <1>1, <1>4, <2>2, FiledOnce
    <3> QED BY <3>1, <1>1, <1>4 DEF AddToList
  <2>4. /\ DOMAIN exchangeTable' = DOMAIN exchangeTable \cup {x}
        /\ exchangeTable'[x] \in Seq(Nat) /\ Injective(exchangeTable'[x])
        /\ Elements(exchangeTable'[x]) = Elements(Lookup(exchangeTable, x)) \cup {f}
        /\ \A y \in DOMAIN exchangeTable : y # x => exchangeTable'[y] = exchangeTable[y]
    <3>1. /\ exchangeTable'[x] \in Seq(Nat) /\ Injective(exchangeTable'[x])
          /\ Elements(exchangeTable'[x]) = Elements(Lookup(exchangeTable, x)) \cup {f}
      BY <1>0, <1>1, <1>4, <2>2, FiledOnce
    <3> QED BY <3>1, <1>1, <1>4 DEF AddToList
  <2>5. k \in MsgIdKeys /\ x \in ExchangeKeys
    BY DEF MsgIdKeys, ExchangeKeys
  <2>6. /\ k \in DOMAIN msgIdTable => Lookup(msgIdTable, k) = msgIdTable[k]
        /\ k \notin DOMAIN msgIdTable => Elements(Lookup(msgIdTable, k)) = {}
        /\ x \in DOMAIN exchangeTable => Lookup(exchangeTable, x) = exchangeTable[x]
        /\ x \notin DOMAIN exchangeTable => Elements(Lookup(exchangeTable, x)) = {}
    BY DEF Lookup, Elements
  <2> HIDE DEF k, x
  <2>7. \A y \in DOMAIN msgIdTable' :
          /\ Injective(msgIdTable'[y])
          /\ \A g \in Elements(msgIdTable'[y]) : g \in DOMAIN rec' /\ rec'[g].msgIdKey = y
    <3> TAKE y \in DOMAIN msgIdTable'
    <3>1. CASE y # k
      BY <3>1, <1>2, <2>1, <2>3 DEF RecordsFiledOnce
    <3>2. CASE y = k
      <4>1. Injective(msgIdTable'[k]) /\ rec'[f].msgIdKey = k
        BY <2>1, <2>3 DEF k
      <4>2. \A g \in Elements(Lookup(msgIdTable, k)) : g \in DOMAIN rec /\ rec[g].msgIdKey = k
        BY <2>6 DEF RecordsFiledOnce
      <4> QED BY <3>2, <4>1, <4>2, <1>2, <2>1, <2>3
    <3> QED BY <3>1, <3>2
  <2>8. \A y \in DOMAIN exchangeTable' :
          /\ Injective(exchangeTable'[y])
          /\ \A g \in Elements(exchangeTable'[y]) : g \in DOMAIN rec' /\ rec'[g].exchangeKey = y
    <3> TAKE y \in DOMAIN exchangeTable'
    <3>1. CASE y # x
      BY <3>1, <1>2, <2>1, <2>4 DEF RecordsFiledOnce
    <3>2. CASE y = x
      <4>1. Injective(exchangeTable'[x]) /\ rec'[f].exchangeKey = x
        BY <2>1, <2>4 DEF x
      <4>2. \A g \in Elements(Lookup(exchangeTable, x)) : g \in DOMAIN rec /\ rec[g].exchangeKey = x
        BY <2>6 DEF RecordsFiledOnce
      <4> QED BY <3>2, <4>1, <4>2, <1>2, <2>1, <2>4
    <3> QED BY <3>1, <3>2
  <2>9. \A g \in DOMAIN rec' :
          /\ rec'[g].msgIdKey \in DOMAIN msgIdTable'
          /\ g \in Elements(msgIdTable'[rec'[g].msgIdKey])
    BY <1>2, <2>1, <2>3, <2>6, SMTT(20) DEF RecordsFiledOnce, MsgIdList, k
  <2>10. \A g \in DOMAIN rec' :
          /\ rec'[g].exchangeKey \in DOMAIN exchangeTable'
          /\ g \in Elements(exchangeTable'[rec'[g].exchangeKey])
    BY <1>2, <2>1, <2>4, <2>6, SMTT(20) DEF RecordsFiledOnce, ExchangeList, x
  <2>11. RecordsFiledOnce'
    BY <2>7, <2>8, <2>9, <2>10 DEF RecordsFiledOnce, MsgIdList, ExchangeList
  <2>12. /\ DOMAIN msgIdTable' \subseteq MsgIdKeys
         /\ msgIdTable' \in [DOMAIN msgIdTable' -> Seq(Nat)]
    <3>1. msgIdTable' = [y \in DOMAIN msgIdTable' |-> msgIdTable'[y]]
      BY <1>1, <1>4 DEF AddToList
    <3>2. \A y \in DOMAIN msgIdTable' : msgIdTable'[y] \in Seq(Nat)
      BY <2>2, <2>3 DEF WellFiled
    <3> QED BY <3>1, <3>2, <2>3, <2>5 DEF TypeOK
  <2>13. /\ DOMAIN exchangeTable' \subseteq ExchangeKeys
         /\ exchangeTable' \in [DOMAIN exchangeTable' -> Seq(Nat)]
    <3>1. exchangeTable' = [y \in DOMAIN exchangeTable' |-> exchangeTable'[y]]
      BY <1>1, <1>4 DEF AddToList
    <3>2. \A y \in DOMAIN exchangeTable' : exchangeTable'[y] \in Seq(Nat)
      BY <2>2, <2>4 DEF WellFiled
    <3> QED BY <3>1, <3>2, <2>4, <2>5 DEF TypeOK
  <2> QED BY <1>1, <1>2, <2>11, <2>12, <2>13
<1> QED BY <1>3, <1>4

LEMMA DissectMatterInv ==
  ASSUME IInv, NEW f \in 1..passed', passed' \in 0..Len(frames), passed <= passed',
         frames' = frames, known' = known,
         NEW i \in 1..Len(frames[f]), DissectMatter(f, i)
  PROVE  IInv'
<1> DEFINE m == frames[f][i]
<1> USE DEF IInv
<1>0. /\ frames \in Captures /\ Len(frames) \in Nat /\ passed \in Nat /\ passed' \in Nat
      /\ f \in 1..Len(frames)
  BY CapturesAssumption DEF TypeOK
<1>1. m \in Message
  BY <1>0, PduIsMessage
<1>2. job' = Idle \/ \E g \in 1..passed' : \E j \in 1..Len(frames[g]) : job' = <<g, j>>
  <2>1. Len(frames[f]) \in Nat
    BY <1>0, FrameNotEmpty
  <2>2. CASE i < Len(frames[f])
    <3>1. i + 1 \in 1..Len(frames[f]) /\ job' = <<f, i + 1>>
      BY <2>1, <2>2 DEF DissectMatter
    <3> QED BY <3>1
  <2>3. CASE ~ (i < Len(frames[f]))
    BY <2>3 DEF DissectMatter
  <2> QED BY <2>2, <2>3
<1>3. CASE Readable(m)
  <2>1. DissectReadable(f, m)
    BY <1>3 DEF DissectMatter
  <2>2. /\ DOMAIN rec' \subseteq 1..passed'
        /\ rec' \in [DOMAIN rec' -> RecordType]
        /\ DOMAIN msgIdTable' \subseteq MsgIdKeys
        /\ msgIdTable' \in [DOMAIN msgIdTable' -> Seq(Nat)]
        /\ DOMAIN exchangeTable' \subseteq ExchangeKeys
        /\ exchangeTable' \in [DOMAIN exchangeTable' -> Seq(Nat)]
        /\ RecordsFiledOnce'
        /\ NoSubscription'
    BY <1>1, <2>1, DissectReadableInv
  <2> QED BY <1>0, <1>2, <2>2 DEF TypeOK
<1>4. CASE ~ Readable(m)
  <2>1. UNCHANGED tracker
    BY <1>4 DEF DissectMatter
  <2>2. TypeOK'
    BY <1>0, <1>2, <2>1 DEF TypeOK, tracker
  <2>3. RecordsFiledOnce' /\ NoSubscription'
    BY <2>1 DEF RecordsFiledOnce, NoSubscription, tracker, MsgIdList, ExchangeList
  <2> QED BY <2>2, <2>3
<1> QED BY <1>3, <1>4

LEMMA InitInv == Init => IInv
<1> SUFFICES ASSUME Init PROVE IInv
  OBVIOUS
<1>1. Len(frames) \in Nat
  BY CapturesAssumption DEF Init
<1>2. DOMAIN rec = {} /\ DOMAIN msgIdTable = {} /\ DOMAIN exchangeTable = {}
  BY DEF Init, EmptyTable
<1>3. TypeOK
  BY <1>1 DEF Init, TypeOK, EmptyTable
<1>4. RecordsFiledOnce /\ NoSubscription
  BY <1>2 DEF RecordsFiledOnce, NoSubscription
<1> QED BY <1>3, <1>4 DEF IInv

LEMMA EndFileScopeInv ==
  ASSUME IInv, EndFileScope, frames' \in Captures
  PROVE  IInv'
<1>1. Len(frames') \in Nat
  BY CapturesAssumption
<1>2. DOMAIN rec' = {} /\ DOMAIN msgIdTable' = {} /\ DOMAIN exchangeTable' = {}
  BY DEF EndFileScope, EmptyTable
<1>3. TypeOK'
  BY <1>1 DEF IInv, TypeOK, EndFileScope, EmptyTable
<1>4. RecordsFiledOnce' /\ NoSubscription'
  BY <1>2 DEF RecordsFiledOnce, NoSubscription
<1> QED BY <1>3, <1>4 DEF IInv

LEMMA NextInv == IInv /\ [Next]_vars => IInv'
<1> SUFFICES ASSUME IInv, [Next]_vars PROVE IInv'
  OBVIOUS
<1>0. frames \in Captures /\ Len(frames) \in Nat /\ passed \in 0..Len(frames)
  BY CapturesAssumption DEF IInv, TypeOK
<1>1. CASE FirstPass
  <2>1. passed + 1 \in 1..passed' /\ passed' \in 0..Len(frames) /\ passed <= passed'
    BY <1>0, <1>1 DEF FirstPass
  <2>2. 1 \in 1..Len(frames[passed + 1])
    BY <1>0, <2>1, FrameNotEmpty DEF FirstPass
  <2> QED BY <1>1, <2>1, <2>2, DissectMatterInv DEF FirstPass
<1>2. ASSUME NEW f \in 1..passed, Redissect(f) PROVE IInv'
  <2>1. f \in 1..Len(frames) /\ passed' = passed /\ passed <= passed'
    BY <1>0, <1>2 DEF Redissect
  <2>2. 1 \in 1..Len(frames[f])
    BY <1>0, <2>1, FrameNotEmpty
  <2> QED BY <1>0, <1>2, <2>1, <2>2, DissectMatterInv DEF Redissect
<1>3. CASE NextPDU
  <2>1. PICK f \in 1..passed : \E i \in 1..Len(frames[f]) : job = <<f, i>>
    BY <1>3 DEF IInv, TypeOK, NextPDU
  <2>2. PICK i \in 1..Len(frames[f]) : job = <<f, i>>
    BY <2>1
  <2>3. job[1] = f /\ job[2] = i
    BY <2>2
  <2>4. DissectMatter(f, i) /\ passed' = passed /\ frames' = frames /\ known' = known
    BY <1>3, <2>3 DEF NextPDU
  <2>5. f \in 1..passed' /\ passed' \in 0..Len(frames) /\ passed <= passed'
    BY <1>0, <2>1, <2>4
  <2> QED BY <2>2, <2>4, <2>5, DissectMatterInv
<1>4. ASSUME NEW s \in LateSessions, LearnKey(s) PROVE IInv'
  BY <1>4 DEF LearnKey, IInv, TypeOK, RecordsFiledOnce, NoSubscription, MsgIdList, ExchangeList
<1>5. CASE RescanFile
  BY <1>0, <1>5, EndFileScopeInv DEF RescanFile
<1>6. ASSUME NEW c \in Captures, OpenFile(c) PROVE IInv'
  BY <1>6, EndFileScopeInv DEF OpenFile
<1>7. CASE UNCHANGED vars
  BY <1>7 DEF vars, IInv, TypeOK, RecordsFiledOnce, NoSubscription, MsgIdList, ExchangeList
<1> QED BY <1>1, <1>2, <1>3, <1>4, <1>5, <1>6, <1>7 DEF Next

LEMMA Invariance == Spec => []IInv
BY InitInv, NextInv, PTL DEF Spec

(***************************************************************************)
(* TypeOK is an invariant of the tracker, for every set of messages,       *)
(* captures and sessions.                                                  *)
(***************************************************************************)
THEOREM TypeCorrect == Spec => []TypeOK
<1>1. IInv => TypeOK
  BY DEF IInv
<1> QED BY <1>1, Invariance, PTL

(***************************************************************************)
(* Redissection, rescans, late keys and file changes never leave a record  *)
(* off its lists, on a list twice, or a list with a stale entry.           *)
(***************************************************************************)
THEOREM FiledOnceAlways == Spec => []RecordsFiledOnce
<1>1. IInv => RecordsFiledOnce
  BY DEF IInv
<1> QED BY <1>1, Invariance, PTL
-----------------------------------------------------------------------------
(***************************************************************************)
(* Acknowledgements.                                                       *)
(***************************************************************************)
\* A frame marked by FindAckedMessages holds a record that the message acks.
LEMMA AckedMessagesAreFiled ==
  ASSUME RecordsFiledOnce', NEW f \in Nat, NEW m, NEW g \in AckedMessages(msgIdTable', f, m)
  PROVE  AckIsTracked(m) /\ g < f /\ g \in DOMAIN rec' /\ rec'[g].msgIdKey = AckKey(m)
<1>1. AckIsTracked(m) /\ g < f /\ g \in Elements(Lookup(msgIdTable', AckKey(m)))
  BY DEF AckedMessages
<1>2. AckKey(m) \in DOMAIN msgIdTable' /\ g \in Elements(msgIdTable'[AckKey(m)])
  BY <1>1 DEF Lookup, Elements
<1> QED BY <1>1, <1>2 DEF RecordsFiledOnce

\* Dissecting a readable PDU keeps every ackedBy pointer right.
LEMMA DissectKeepsAcks ==
  ASSUME IInv, IInv', AckedByLaterAck, frames' = frames, known' = known,
         NEW f \in 1..Len(frames), NEW i \in 1..Len(frames[f]), DissectMatter(f, i)
  PROVE  AckedByLaterAck'
<1> DEFINE m == frames[f][i]
<1>0. f \in Nat /\ f # 0 /\ m \in Message
  BY PduIsMessage, CapturesAssumption DEF IInv, TypeOK
<1>1. CASE ~ Readable(m)
  BY <1>1 DEF DissectMatter, tracker, AckedByLaterAck, Acks, Readable
<1>2. CASE Readable(m)
  <2>1. /\ rec' \in [DOMAIN rec \cup {f} -> RecordType]
        /\ \A g \in DOMAIN rec : SameIdentity(rec[g], rec'[g])
        /\ \A g \in DOMAIN rec' :
              rec'[g].ackedBy = IF g \in AckedMessages(msgIdTable', f, m)
                                  THEN EarlierAck(OldAckedBy(g), f)
                                  ELSE OldAckedBy(g)
    <3>1. DissectReadable(f, m)
      BY <1>2 DEF DissectMatter
    <3> HIDE DEF m
    <3> QED BY <1>0, <3>1, DissectReadableEffect
  <2> SUFFICES ASSUME NEW p \in DOMAIN rec', NEW q, q = rec'[p].ackedBy, q # Null
               PROVE  q \in DOMAIN rec' /\ p < q /\ Acks(q, p)'
    BY DEF AckedByLaterAck
  <2>2. CASE q = f /\ p \in AckedMessages(msgIdTable', f, m)
    <3>1. AckIsTracked(m) /\ p < f /\ rec'[p].msgIdKey = AckKey(m)
      BY <1>0, <2>2, AckedMessagesAreFiled DEF IInv
    <3>2. Readable(m)'
      BY <1>2 DEF Readable
    <3>3. Acks(f, p)'
      BY <3>1, <3>2 DEF Acks
    <3> QED BY <2>1, <2>2, <3>1, <3>3
  <2>3. CASE p \in DOMAIN rec /\ q = rec[p].ackedBy
    <3>1. /\ q \in DOMAIN rec /\ p < q
          /\ Acks(q, p)
      BY <2>3 DEF AckedByLaterAck
    <3>2. rec'[p].msgIdKey = rec[p].msgIdKey
      BY <2>1, <2>3 DEF SameIdentity
    <3>3. Acks(q, p)'
      BY <2>3, <3>1, <3>2 DEF Acks, Readable
    <3> QED BY <2>1, <2>3, <3>1, <3>3
  <2>4. \/ q = f /\ p \in AckedMessages(msgIdTable', f, m)
        \/ p \in DOMAIN rec /\ q = rec[p].ackedBy
    BY <2>1 DEF EarlierAck, OldAckedBy
  <2> QED BY <2>2, <2>3, <2>4
<1> QED BY <1>1, <1>2

LEMMA NextKeepsAcks == IInv /\ AckedByLaterAck /\ [Next]_vars => AckedByLaterAck'
<1> SUFFICES ASSUME IInv, AckedByLaterAck, [Next]_vars PROVE AckedByLaterAck'
  OBVIOUS
<1>0. frames \in Captures /\ Len(frames) \in Nat /\ passed \in 0..Len(frames)
  BY CapturesAssumption DEF IInv, TypeOK
<1>1. IInv'
  BY NextInv
<1>2. ASSUME NEW f \in 1..Len(frames), NEW i \in 1..Len(frames[f]), DissectMatter(f, i),
             frames' = frames, known' = known
      PROVE  AckedByLaterAck'
  BY <1>1, <1>2, DissectKeepsAcks
<1>3. CASE FirstPass
  <2>1. passed + 1 \in 1..Len(frames)
    BY <1>0, <1>3 DEF FirstPass
  <2>2. 1 \in 1..Len(frames[passed + 1])
    BY <1>0, <2>1, FrameNotEmpty
  <2> QED BY <1>2, <1>3, <2>1, <2>2 DEF FirstPass
<1>4. ASSUME NEW f \in 1..passed, Redissect(f) PROVE AckedByLaterAck'
  <2>1. f \in 1..Len(frames)
    BY <1>0
  <2>2. 1 \in 1..Len(frames[f])
    BY <1>0, <2>1, FrameNotEmpty
  <2> QED BY <1>2, <1>4, <2>1, <2>2 DEF Redissect
<1>5. CASE NextPDU
  <2>1. PICK f \in 1..passed : \E i \in 1..Len(frames[f]) : job = <<f, i>>
    BY <1>5 DEF IInv, TypeOK, NextPDU
  <2>2. PICK i \in 1..Len(frames[f]) : job = <<f, i>>
    BY <2>1
  <2>3. job[1] = f /\ job[2] = i /\ f \in 1..Len(frames)
    BY <1>0, <2>2
  <2> QED BY <1>2, <1>5, <2>2, <2>3 DEF NextPDU
<1>6. ASSUME NEW s \in LateSessions, LearnKey(s) PROVE AckedByLaterAck'
  BY <1>6 DEF LearnKey, AckedByLaterAck, Acks, Readable
<1>7. CASE RescanFile
  BY <1>7 DEF RescanFile, EndFileScope, EmptyTable, AckedByLaterAck
<1>8. ASSUME NEW c \in Captures, OpenFile(c) PROVE AckedByLaterAck'
  BY <1>8 DEF OpenFile, EndFileScope, EmptyTable, AckedByLaterAck
<1>9. CASE UNCHANGED vars
  BY <1>9 DEF vars, AckedByLaterAck, Acks, Readable
<1> QED BY <1>3, <1>4, <1>5, <1>6, <1>7, <1>8, <1>9 DEF Next

(***************************************************************************)
(* "Acked by frame q" always names a later, recorded frame with a readable *)
(* ack for that very message, also when records are created late.          *)
(***************************************************************************)
THEOREM AckPointersRight == Spec => []AckedByLaterAck
<1>1. Init => AckedByLaterAck
  BY DEF Init, EmptyTable, AckedByLaterAck
<1> QED BY <1>1, Invariance, NextKeepsAcks, PTL DEF Spec
-----------------------------------------------------------------------------
(***************************************************************************)
(* Frame order.  When no key is learnt once the pass is under way, a frame *)
(* without a record can only get one while the pass is at that very frame. *)
(***************************************************************************)
\* PDU i of frame f has been dissected, or f is not the frame being passed.
Swept(f, i) == ~ (job # Idle /\ job[1] = f /\ f = passed /\ job[2] <= i)

SweptFramesRecorded ==
  \A f \in 1..passed : \A i \in 1..Len(frames[f]) :
    Swept(f, i) /\ Readable(frames[f][i]) => f \in DOMAIN rec

RecordsHaveReadable == \A f \in DOMAIN rec : HasReadable(f)

OrderInv == SweptFramesRecorded /\ RecordsHaveReadable /\ ListsInFrameOrder

\* Appending a frame later than all of a list keeps the list ascending.
LEMMA AppendAscending ==
  ASSUME NEW list \in Seq(Nat), NEW f \in Nat, Ascending(list),
         \A g \in Elements(list) : g < f
  PROVE  Ascending(Append(list, f))
<1>1. /\ Len(Append(list, f)) = Len(list) + 1 /\ Len(list) \in Nat
      /\ \A i \in 1..Len(list) : Append(list, f)[i] = list[i] /\ list[i] \in Nat
      /\ Append(list, f)[Len(list) + 1] = f
  OBVIOUS
<1> SUFFICES ASSUME NEW i \in 1..Len(Append(list, f)), NEW j \in 1..Len(Append(list, f)), i < j
             PROVE  Append(list, f)[i] < Append(list, f)[j]
  BY DEF Ascending
<1>2. CASE j \in 1..Len(list)
  BY <1>1, <1>2 DEF Ascending
<1>3. CASE j = Len(list) + 1
  BY <1>1, <1>3 DEF Elements
<1> QED BY <1>1, <1>2, <1>3, SMTT(20)

\* A table whose lists are ascending, with all of their frames before f, stays so.
SortedTable(table, f) ==
  \A x \in DOMAIN table :
    table[x] \in Seq(Nat) /\ Ascending(table[x]) /\ \A g \in Elements(table[x]) : g < f

LEMMA AddToListAscending ==
  ASSUME NEW table, NEW k, NEW f \in Nat, SortedTable(table, f)
  PROVE  \A x \in DOMAIN AddToList(table, k, f) : Ascending(AddToList(table, k, f)[x])
<1>1. /\ Lookup(table, k) \in Seq(Nat) /\ Ascending(Lookup(table, k))
      /\ \A g \in Elements(Lookup(table, k)) : g < f
  BY DEF SortedTable, Lookup, Ascending, Elements
<1>2. Ascending(Append(Lookup(table, k), f))
  BY <1>1, AppendAscending
<1> QED BY <1>2 DEF AddToList, SortedTable

\* Dissecting one PDU keeps the order, given where a new record may appear.
LEMMA DissectKeepsOrder ==
  ASSUME IInv, IInv', RecordsHaveReadable, ListsInFrameOrder,
         frames' = frames, known' = known,
         NEW f \in 1..Len(frames), NEW i \in 1..Len(frames[f]), DissectMatter(f, i),
         f \notin DOMAIN rec /\ Readable(frames[f][i]) => \A g \in DOMAIN rec : g < f
  PROVE  /\ ListsInFrameOrder' /\ RecordsHaveReadable'
         /\ DOMAIN rec \subseteq DOMAIN rec'
         /\ Readable(frames[f][i]) => f \in DOMAIN rec'
<1> DEFINE m == frames[f][i]
<1>0. f \in Nat /\ m \in Message
  BY PduIsMessage, CapturesAssumption DEF IInv, TypeOK
<1>1. CASE ~ Readable(m)
  BY <1>1 DEF DissectMatter, tracker, ListsInFrameOrder, RecordsHaveReadable, HasReadable, Readable
<1>2. CASE Readable(m)
  <2>0. DissectReadable(f, m)
    BY <1>2 DEF DissectMatter
  <2>1. /\ rec' \in [DOMAIN rec \cup {f} -> RecordType]
        /\ f \in DOMAIN rec => UNCHANGED <<msgIdTable, exchangeTable>>
        /\ f \notin DOMAIN rec =>
              /\ msgIdTable' = AddToList(msgIdTable, MsgIdKey(m), f)
              /\ exchangeTable' = AddToList(exchangeTable, ExchangeKey(m), f)
    <3> HIDE DEF m
    <3> QED BY <1>0, <2>0, DissectReadableEffect
  <2>2. DOMAIN rec' = DOMAIN rec \cup {f}
    BY <2>1
  <2>3. RecordsHaveReadable'
    <3>1. HasReadable(f)'
      BY <1>2 DEF HasReadable, Readable
    <3> QED BY <2>2, <3>1 DEF RecordsHaveReadable, HasReadable, Readable
  <2>4. CASE f \in DOMAIN rec
    BY <2>1, <2>2, <2>3, <2>4 DEF ListsInFrameOrder
  <2>5. CASE f \notin DOMAIN rec
    <3>1. \A g \in DOMAIN rec : g < f
      BY <1>2, <2>5
    <3>2. SortedTable(msgIdTable, f)
      BY <3>1 DEF SortedTable, IInv, TypeOK, RecordsFiledOnce, ListsInFrameOrder
    <3>3. SortedTable(exchangeTable, f)
      BY <3>1 DEF SortedTable, IInv, TypeOK, RecordsFiledOnce, ListsInFrameOrder
    <3>4. \A x \in DOMAIN msgIdTable' : Ascending(msgIdTable'[x])
      <4>1. msgIdTable' = AddToList(msgIdTable, MsgIdKey(m), f)
        BY <2>1, <2>5
      <4> HIDE DEF m
      <4> QED BY <1>0, <3>2, <4>1, AddToListAscending
    <3>5. \A x \in DOMAIN exchangeTable' : Ascending(exchangeTable'[x])
      <4>1. exchangeTable' = AddToList(exchangeTable, ExchangeKey(m), f)
        BY <2>1, <2>5
      <4> HIDE DEF m
      <4> QED BY <1>0, <3>3, <4>1, AddToListAscending
    <3> QED BY <2>2, <2>3, <3>4, <3>5 DEF ListsInFrameOrder
  <2> QED BY <2>4, <2>5
<1> QED BY <1>1, <1>2

LEMMA NextKeepsOrder ==
  ASSUME LateSessions = {}, IInv, OrderInv, [Next]_vars
  PROVE  OrderInv'
<1> USE DEF OrderInv
<1>0. /\ frames \in Captures /\ Len(frames) \in Nat /\ passed \in 0..Len(frames)
      /\ DOMAIN rec \subseteq 1..passed
      /\ job = Idle \/ \E f \in 1..passed : \E i \in 1..Len(frames[f]) : job = <<f, i>>
  BY CapturesAssumption DEF IInv, TypeOK
<1>1. IInv'
  BY NextInv
<1>2. CASE FirstPass
  <2> DEFINE f == passed + 1
  <2>1. f \in 1..Len(frames) /\ passed' = f /\ DissectMatter(f, 1)
        /\ frames' = frames /\ known' = known /\ job = Idle
    BY <1>0, <1>2 DEF FirstPass
  <2>2. 1 \in 1..Len(frames[f]) /\ Len(frames[f]) \in Nat
    BY <1>0, <2>1, FrameNotEmpty
  <2>3. \A g \in DOMAIN rec : g < f
    BY <1>0
  <2>4. /\ ListsInFrameOrder' /\ RecordsHaveReadable'
        /\ DOMAIN rec \subseteq DOMAIN rec'
        /\ Readable(frames[f][1]) => f \in DOMAIN rec'
    <3> HIDE DEF f
    <3> QED BY <1>1, <2>1, <2>2, <2>3, DissectKeepsOrder
  <2>5. SweptFramesRecorded'
    <3> SUFFICES ASSUME NEW g \in 1..f, NEW i \in 1..Len(frames[g]), Swept(g, i)',
                        Readable(frames[g][i])
                 PROVE  g \in DOMAIN rec'
      BY <2>1 DEF SweptFramesRecorded, Readable
    <3>1. CASE g \in 1..passed
      BY <3>1, <2>1, <2>4 DEF SweptFramesRecorded, Swept
    <3>2. CASE g = f
      <4>1. i = 1
        BY <2>1, <2>2, <3>2 DEF Swept, DissectMatter, Idle
      <4> QED BY <4>1, <3>2, <2>4
    <3> QED BY <3>1, <3>2, <1>0
  <2> QED BY <2>4, <2>5
<1>3. ASSUME NEW f \in 1..passed, Redissect(f) PROVE OrderInv'
  <2>1. f \in 1..Len(frames) /\ passed' = passed /\ DissectMatter(f, 1)
        /\ frames' = frames /\ known' = known /\ job = Idle
    BY <1>0, <1>3 DEF Redissect
  <2>2. 1 \in 1..Len(frames[f]) /\ Len(frames[f]) \in Nat
    BY <1>0, <2>1, FrameNotEmpty
  <2>3. \A g \in 1..passed : \A i \in 1..Len(frames[g]) : Readable(frames[g][i]) => g \in DOMAIN rec
    BY <2>1 DEF SweptFramesRecorded, Swept
  <2>4. /\ ListsInFrameOrder' /\ RecordsHaveReadable'
        /\ DOMAIN rec \subseteq DOMAIN rec'
    BY <1>1, <2>1, <2>2, <2>3, DissectKeepsOrder
  <2>5. SweptFramesRecorded'
    BY <2>1, <2>3, <2>4 DEF SweptFramesRecorded, Readable
  <2> QED BY <2>4, <2>5
<1>4. CASE NextPDU
  <2>1. PICK f \in 1..passed : \E i \in 1..Len(frames[f]) : job = <<f, i>>
    BY <1>0, <1>4 DEF NextPDU
  <2>2. PICK i \in 1..Len(frames[f]) : job = <<f, i>>
    BY <2>1
  <2>3. job[1] = f /\ job[2] = i /\ f \in 1..Len(frames) /\ job # Idle
    BY <1>0, <2>2 DEF Idle
  <2>4. DissectMatter(f, i) /\ passed' = passed /\ frames' = frames /\ known' = known
    BY <1>4, <2>3 DEF NextPDU
  <2>5. Len(frames[f]) \in Nat
    BY <1>0, <2>3, FrameNotEmpty
  <2>6. f \notin DOMAIN rec /\ Readable(frames[f][i]) => \A g \in DOMAIN rec : g < f
    <3>1. CASE f = passed
      <4>1. f \notin DOMAIN rec => \A g \in DOMAIN rec : g \in 1..passed /\ g # passed
        BY <1>0, <3>1
      <4> QED BY <4>1, <3>1, <1>0
    <3>2. CASE f # passed
      BY <2>1, <2>2, <2>3, <3>2 DEF SweptFramesRecorded, Swept
    <3> QED BY <3>1, <3>2
  <2>7. /\ ListsInFrameOrder' /\ RecordsHaveReadable'
        /\ DOMAIN rec \subseteq DOMAIN rec'
        /\ Readable(frames[f][i]) => f \in DOMAIN rec'
    BY <1>1, <2>2, <2>3, <2>4, <2>6, DissectKeepsOrder
  <2>8. SweptFramesRecorded'
    <3> SUFFICES ASSUME NEW g \in 1..passed, NEW j \in 1..Len(frames[g]), Swept(g, j)',
                        Readable(frames[g][j])
                 PROVE  g \in DOMAIN rec'
      BY <2>4 DEF SweptFramesRecorded, Readable
    <3>1. CASE Swept(g, j)
      BY <3>1, <2>7 DEF SweptFramesRecorded
    <3>2. CASE ~ Swept(g, j)
      <4>1. g = f /\ f = passed /\ i <= j
        BY <2>3, <3>2 DEF Swept
      <4>2. job' = (IF i < Len(frames[f]) THEN <<f, i + 1>> ELSE Idle)
        BY <2>4 DEF DissectMatter
      <4>3. j = i
        <5>1. CASE i < Len(frames[f])
          <6>1. job' = <<f, i + 1>> /\ job'[1] = f /\ job'[2] = i + 1 /\ job' # Idle
            BY <4>2, <5>1 DEF Idle
          <6>2. ~ (i + 1 <= j)
            BY <6>1, <4>1, <2>4 DEF Swept
          <6> QED BY <6>2, <4>1, <2>2, <2>5
        <5>2. CASE ~ (i < Len(frames[f]))
          BY <4>1, <5>2, <2>2, <2>5
        <5> QED BY <5>1, <5>2
      <4> QED BY <4>1, <4>3, <2>7
    <3> QED BY <3>1, <3>2
  <2> QED BY <2>7, <2>8
<1>5. CASE RescanFile
  BY <1>5 DEF RescanFile, EndFileScope, EmptyTable, SweptFramesRecorded, RecordsHaveReadable,
              ListsInFrameOrder
<1>6. ASSUME NEW c \in Captures, OpenFile(c) PROVE OrderInv'
  BY <1>6 DEF OpenFile, EndFileScope, EmptyTable, SweptFramesRecorded, RecordsHaveReadable,
              ListsInFrameOrder
<1>7. CASE UNCHANGED vars
  BY <1>7 DEF vars, SweptFramesRecorded, RecordsHaveReadable, ListsInFrameOrder, Swept,
              HasReadable, Readable
<1> QED BY <1>2, <1>3, <1>4, <1>5, <1>6, <1>7 DEF Next

LEMMA InitOrder == Init => OrderInv
BY DEF Init, EmptyTable, OrderInv, SweptFramesRecorded, RecordsHaveReadable, ListsInFrameOrder

(***************************************************************************)
(* With no key learnt late, AddToList's appends keep every list in frame   *)
(* order although it never compares frame numbers: all redissections find  *)
(* the record they need.                                                   *)
(***************************************************************************)
THEOREM FrameOrder ==
  ASSUME LateSessions = {}
  PROVE  Spec => []ListsInFrameOrder
<1>1. IInv /\ OrderInv /\ [Next]_vars => OrderInv'
  BY NextKeepsOrder
<1>2. OrderInv => ListsInFrameOrder
  BY DEF OrderInv
<1> QED BY <1>1, <1>2, InitOrder, Invariance, PTL DEF Spec

(***************************************************************************)
(* With no key learnt late, the frames that have a record are exactly the  *)
(* passed ones with a readable message: no redissection is needed to find  *)
(* a message and none invents one.                                         *)
(***************************************************************************)
THEOREM RecordsComplete ==
  ASSUME LateSessions = {}
  PROVE  Spec => []ReadableFramesRecorded
<1>1. IInv /\ OrderInv /\ [Next]_vars => OrderInv'
  BY NextKeepsOrder
<1>2. OrderInv => ReadableFramesRecorded
  BY DEF OrderInv, ReadableFramesRecorded, SweptFramesRecorded, RecordsHaveReadable, Swept, HasReadable
<1> QED BY <1>1, <1>2, InitOrder, Invariance, PTL DEF Spec
-----------------------------------------------------------------------------
(***************************************************************************)
(* The earliest ack.                                                       *)
(***************************************************************************)
\* Every ack dissected so far in a frame later than p bounds p's ackedBy.
AckBound ==
  \A p \in DOMAIN rec : \A q \in p+1..passed : \A i \in 1..Len(frames[q]) :
    /\ Swept(q, i)
    /\ Readable(frames[q][i])
    /\ AckIsTracked(frames[q][i])
    /\ AckKey(frames[q][i]) = rec[p].msgIdKey
    => rec[p].ackedBy # Null /\ rec[p].ackedBy <= q

\* A record filed under the message that m acks, in an earlier frame, is marked.
LEMMA FiledMessagesAreAcked ==
  ASSUME RecordsFiledOnce', NEW f, NEW m, AckIsTracked(m),
         NEW p \in DOMAIN rec', rec'[p].msgIdKey = AckKey(m), p < f
  PROVE  p \in AckedMessages(msgIdTable', f, m)
<1>1. AckKey(m) \in DOMAIN msgIdTable' /\ p \in Elements(msgIdTable'[AckKey(m)])
  BY DEF RecordsFiledOnce, MsgIdList
<1> QED BY <1>1 DEF AckedMessages, Lookup

\* Dissecting PDU i of frame f keeps the bounds and adds those of the PDU.
LEMMA DissectKeepsBound ==
  ASSUME IInv, IInv', frames' = frames, known' = known,
         NEW f \in 1..Len(frames), NEW i \in 1..Len(frames[f]), DissectMatter(f, i)
  PROVE  /\ \A p \in DOMAIN rec :
              /\ p \in DOMAIN rec' /\ rec'[p].msgIdKey = rec[p].msgIdKey
              /\ rec[p].ackedBy # Null =>
                   rec'[p].ackedBy # Null /\ rec'[p].ackedBy <= rec[p].ackedBy
         /\ \A p \in DOMAIN rec' : p \in DOMAIN rec \/ p = f
         /\ \A p \in DOMAIN rec' :
              /\ p < f
              /\ Readable(frames[f][i])
              /\ AckIsTracked(frames[f][i])
              /\ AckKey(frames[f][i]) = rec'[p].msgIdKey
              => rec'[p].ackedBy # Null /\ rec'[p].ackedBy <= f
<1> DEFINE m == frames[f][i]
<1>0. f \in Nat /\ f # Null /\ m \in Message /\ \A p \in DOMAIN rec : rec[p].ackedBy \in Nat
  BY PduIsMessage, CapturesAssumption DEF IInv, TypeOK, RecordType, Null
<1>1. CASE ~ Readable(m)
  BY <1>0, <1>1 DEF DissectMatter, tracker
<1>2. CASE Readable(m)
  <2>1. /\ rec' \in [DOMAIN rec \cup {f} -> RecordType]
        /\ \A g \in DOMAIN rec : SameIdentity(rec[g], rec'[g])
        /\ \A g \in DOMAIN rec' :
              rec'[g].ackedBy = IF g \in AckedMessages(msgIdTable', f, m)
                                  THEN EarlierAck(OldAckedBy(g), f)
                                  ELSE OldAckedBy(g)
    <3>1. DissectReadable(f, m)
      BY <1>2 DEF DissectMatter
    <3> HIDE DEF m
    <3> QED BY <1>0, <3>1, DissectReadableEffect
  <2>2. \A p \in DOMAIN rec :
              /\ p \in DOMAIN rec' /\ rec'[p].msgIdKey = rec[p].msgIdKey
              /\ rec[p].ackedBy # Null =>
                   rec'[p].ackedBy # Null /\ rec'[p].ackedBy <= rec[p].ackedBy
    <3> SUFFICES ASSUME NEW p \in DOMAIN rec
                 PROVE  /\ p \in DOMAIN rec' /\ rec'[p].msgIdKey = rec[p].msgIdKey
                        /\ rec[p].ackedBy # Null =>
                             rec'[p].ackedBy # Null /\ rec'[p].ackedBy <= rec[p].ackedBy
      OBVIOUS
    <3>1. p \in DOMAIN rec' /\ rec'[p].msgIdKey = rec[p].msgIdKey
      BY <2>1 DEF SameIdentity
    <3>2. \/ rec'[p].ackedBy = EarlierAck(rec[p].ackedBy, f)
          \/ rec'[p].ackedBy = rec[p].ackedBy
      BY <2>1, <3>1 DEF OldAckedBy
    <3> HIDE DEF m
    <3> QED BY <1>0, <3>1, <3>2 DEF EarlierAck
  <2>3. \A p \in DOMAIN rec' : p \in DOMAIN rec \/ p = f
    BY <2>1
  <2>4. ASSUME NEW p \in DOMAIN rec', p < f, AckIsTracked(m), AckKey(m) = rec'[p].msgIdKey
        PROVE  rec'[p].ackedBy # Null /\ rec'[p].ackedBy <= f
    <3>1. p \in AckedMessages(msgIdTable', f, m)
      <4> HIDE DEF m
      <4> QED BY <1>0, <2>4, FiledMessagesAreAcked DEF IInv
    <3>2. rec'[p].ackedBy = EarlierAck(OldAckedBy(p), f)
      BY <2>1, <3>1
    <3>3. OldAckedBy(p) \in Nat
      BY <1>0 DEF OldAckedBy, Null
    <3> HIDE DEF m
    <3> QED BY <1>0, <3>2, <3>3 DEF EarlierAck
  <2> QED BY <2>2, <2>3, <2>4
<1> QED BY <1>1, <1>2

\* The bounds survive the dissection of one PDU that only adds itself to what is swept.
LEMMA BoundStep ==
  ASSUME IInv, IInv', AckBound, frames' = frames, known' = known,
         NEW f \in 1..Len(frames), NEW i \in 1..Len(frames[f]), DissectMatter(f, i),
         passed \in Nat, f <= passed', passed' = passed \/ passed' = f,
         f \notin DOMAIN rec /\ f \in DOMAIN rec' => f = passed',
         \A q \in 1..passed' : \A j \in 1..Len(frames[q]) :
            Swept(q, j)' => (q <= passed /\ Swept(q, j)) \/ (q = f /\ j = i)
  PROVE  AckBound'
<1>1. /\ \A p \in DOMAIN rec :
              /\ p \in DOMAIN rec' /\ rec'[p].msgIdKey = rec[p].msgIdKey
              /\ rec[p].ackedBy # Null =>
                   rec'[p].ackedBy # Null /\ rec'[p].ackedBy <= rec[p].ackedBy
      /\ \A p \in DOMAIN rec' : p \in DOMAIN rec \/ p = f
      /\ \A p \in DOMAIN rec' :
              /\ p < f
              /\ Readable(frames[f][i])
              /\ AckIsTracked(frames[f][i])
              /\ AckKey(frames[f][i]) = rec'[p].msgIdKey
              => rec'[p].ackedBy # Null /\ rec'[p].ackedBy <= f
  BY DissectKeepsBound
<1> SUFFICES ASSUME NEW p \in DOMAIN rec', NEW q \in p+1..passed', NEW j \in 1..Len(frames[q]),
                    Swept(q, j)', Readable(frames[q][j]), AckIsTracked(frames[q][j]),
                    AckKey(frames[q][j]) = rec'[p].msgIdKey
             PROVE  rec'[p].ackedBy # Null /\ rec'[p].ackedBy <= q
  BY DEF AckBound, Readable
<1>2. /\ p \in 1..passed' /\ passed' \in Nat /\ rec'[p].ackedBy \in Nat
      /\ \A g \in DOMAIN rec : rec[g].ackedBy \in Nat
  <2>1. DOMAIN rec' \subseteq 1..passed' /\ \A g \in DOMAIN rec' : rec'[g] \in RecordType
    BY DEF IInv, TypeOK
  <2>2. \A g \in DOMAIN rec : rec[g] \in RecordType
    BY DEF IInv, TypeOK
  <2> QED BY <2>1, <2>2 DEF RecordType
<1>3. p < q /\ q \in 1..passed' /\ q \in Int
  BY <1>2
<1>4. CASE q = f /\ j = i
  BY <1>1, <1>3, <1>4
<1>5. CASE q <= passed /\ Swept(q, j)
  <2>1. p \in DOMAIN rec
    <3>1. CASE p = f /\ f \notin DOMAIN rec
      BY <1>2, <1>3, <3>1
    <3> QED BY <1>1, <3>1
  <2>2. q \in p+1..passed
    BY <1>2, <1>3, <1>5
  <2>3. rec[p].ackedBy # Null /\ rec[p].ackedBy <= q
    BY <1>1, <1>5, <2>1, <2>2 DEF AckBound
  <2> QED BY <1>1, <1>2, <1>3, <2>1, <2>3
<1> QED BY <1>3, <1>4, <1>5

LEMMA NextKeepsBound ==
  ASSUME LateSessions = {}, IInv, OrderInv, AckBound, [Next]_vars
  PROVE  AckBound'
<1>0. /\ frames \in Captures /\ Len(frames) \in Nat /\ passed \in 0..Len(frames)
      /\ DOMAIN rec \subseteq 1..passed
      /\ job = Idle \/ \E f \in 1..passed : \E i \in 1..Len(frames[f]) : job = <<f, i>>
  BY CapturesAssumption DEF IInv, TypeOK
<1>1. IInv'
  BY NextInv
<1>2. CASE FirstPass
  <2> DEFINE f == passed + 1
  <2>1. f \in 1..Len(frames) /\ passed' = f /\ DissectMatter(f, 1)
        /\ frames' = frames /\ known' = known /\ job = Idle /\ f \notin 1..passed
    BY <1>0, <1>2 DEF FirstPass
  <2>2. 1 \in 1..Len(frames[f]) /\ Len(frames[f]) \in Nat
    BY <1>0, <2>1, FrameNotEmpty
  <2>3. ASSUME NEW q \in 1..passed', NEW j \in 1..Len(frames[q]), Swept(q, j)'
        PROVE  (q <= passed /\ Swept(q, j)) \/ (q = f /\ j = 1)
    <3>1. CASE q <= passed
      BY <2>1, <3>1 DEF Swept
    <3>2. CASE q = f
      BY <2>1, <2>2, <2>3, <3>2 DEF Swept, DissectMatter, Idle
    <3> QED BY <1>0, <2>1, <3>1, <3>2
  <2> HIDE DEF f
  <2> QED BY <1>0, <1>1, <2>1, <2>2, <2>3, BoundStep
<1>3. ASSUME NEW f \in 1..passed, Redissect(f) PROVE AckBound'
  <2>1. f \in 1..Len(frames) /\ passed' = passed /\ DissectMatter(f, 1)
        /\ frames' = frames /\ known' = known /\ job = Idle
    BY <1>0, <1>3 DEF Redissect
  <2>2. 1 \in 1..Len(frames[f])
    BY <1>0, <2>1, FrameNotEmpty
  <2>3. \A q \in 1..passed : \A j \in 1..Len(frames[q]) : q <= passed /\ Swept(q, j)
    BY <1>0, <2>1 DEF Swept
  <2>4. f \notin DOMAIN rec => f \notin DOMAIN rec'
    <3>1. SUFFICES ASSUME f \notin DOMAIN rec PROVE f \notin DOMAIN rec'
      OBVIOUS
    <3>2. ~ Readable(frames[f][1])
      BY <2>2, <2>3, <3>1 DEF OrderInv, SweptFramesRecorded
    <3> QED BY <2>1, <3>1, <3>2 DEF DissectMatter, tracker
  <2> QED BY <1>0, <1>1, <2>1, <2>2, <2>3, <2>4, BoundStep
<1>4. CASE NextPDU
  <2>1. PICK f \in 1..passed : \E i \in 1..Len(frames[f]) : job = <<f, i>>
    BY <1>0, <1>4 DEF NextPDU
  <2>2. PICK i \in 1..Len(frames[f]) : job = <<f, i>>
    BY <2>1
  <2>3. job[1] = f /\ job[2] = i /\ f \in 1..Len(frames) /\ job # Idle
    BY <1>0, <2>2 DEF Idle
  <2>4. DissectMatter(f, i) /\ passed' = passed /\ frames' = frames /\ known' = known
    BY <1>4, <2>3 DEF NextPDU
  <2>5. Len(frames[f]) \in Nat
    BY <1>0, <2>3, FrameNotEmpty
  <2>6. f \notin DOMAIN rec /\ f \in DOMAIN rec' => f = passed'
    <3> SUFFICES ASSUME f \notin DOMAIN rec, f # passed PROVE f \notin DOMAIN rec'
      BY <2>4
    <3>1. ~ Readable(frames[f][i])
      BY <2>1, <2>2, <2>3 DEF OrderInv, SweptFramesRecorded, Swept
    <3> QED BY <2>4, <3>1 DEF DissectMatter, tracker
  <2>7. ASSUME NEW q \in 1..passed', NEW j \in 1..Len(frames[q]), Swept(q, j)'
        PROVE  (q <= passed /\ Swept(q, j)) \/ (q = f /\ j = i)
    <3>1. SUFFICES ASSUME ~ Swept(q, j) PROVE q = f /\ j = i
      BY <1>0, <2>4
    <3>2. q = f /\ f = passed /\ i <= j
      BY <2>3, <3>1 DEF Swept
    <3>3. job' = (IF i < Len(frames[f]) THEN <<f, i + 1>> ELSE Idle)
      BY <2>4 DEF DissectMatter
    <3>4. CASE i < Len(frames[f])
      <4>1. job' = <<f, i + 1>> /\ job'[1] = f /\ job'[2] = i + 1 /\ job' # Idle
        BY <3>3, <3>4 DEF Idle
      <4>2. ~ (i + 1 <= j)
        BY <4>1, <2>4, <2>7, <3>2 DEF Swept
      <4> QED BY <4>2, <3>2, <2>2, <2>5
    <3>5. CASE ~ (i < Len(frames[f]))
      BY <3>2, <3>5, <2>2, <2>5
    <3> QED BY <3>4, <3>5
  <2> QED BY <1>0, <1>1, <2>2, <2>3, <2>4, <2>6, <2>7, BoundStep
<1>5. CASE RescanFile
  BY <1>5 DEF RescanFile, EndFileScope, EmptyTable, AckBound
<1>6. ASSUME NEW c \in Captures, OpenFile(c) PROVE AckBound'
  BY <1>6 DEF OpenFile, EndFileScope, EmptyTable, AckBound
<1>7. CASE UNCHANGED vars
  BY <1>7 DEF vars, AckBound, Swept, Readable
<1> QED BY <1>2, <1>3, <1>4, <1>5, <1>6, <1>7 DEF Next

\* Between two frames the bounds leave only the earliest ack.
LEMMA BoundIsEarliest ==
  ASSUME IInv, AckedByLaterAck, AckBound
  PROVE  AckedByEarliestAck
<1> SUFFICES ASSUME job = Idle, NEW p \in DOMAIN rec
             PROVE  rec[p].ackedBy = LeastOrNull({q \in p+1..passed : Acks(q, p)})
  BY DEF AckedByEarliestAck
<1> DEFINE S == {q \in p+1..passed : Acks(q, p)}
<1>1. p \in 1..passed /\ passed \in Nat /\ \A q \in DOMAIN rec : q \in 1..passed
  BY CapturesAssumption DEF IInv, TypeOK
<1>2. rec[p].ackedBy # Null => rec[p].ackedBy \in S
  BY <1>1 DEF AckedByLaterAck
<1>3. \A q \in S : rec[p].ackedBy # Null /\ rec[p].ackedBy <= q
  <2> SUFFICES ASSUME NEW q \in S PROVE rec[p].ackedBy # Null /\ rec[p].ackedBy <= q
    OBVIOUS
  <2>1. PICK i \in 1..Len(frames[q]) : /\ Readable(frames[q][i])
                                       /\ AckIsTracked(frames[q][i])
                                       /\ AckKey(frames[q][i]) = rec[p].msgIdKey
    BY DEF Acks
  <2>2. Swept(q, i)
    BY DEF Swept
  <2> QED BY <2>1, <2>2 DEF AckBound
<1>4. CASE S = {}
  BY <1>2, <1>4 DEF LeastOrNull
<1>5. CASE S # {}
  <2>1. rec[p].ackedBy \in S /\ \A q \in S : rec[p].ackedBy <= q
    BY <1>2, <1>3, <1>5
  <2>2. \A q \in S : q \in Int
    BY <1>1
  <2>3. Least(S) = rec[p].ackedBy
    <3> HIDE DEF S
    <3>1. Least(S) \in S /\ \A q \in S : Least(S) <= q
      BY <2>1 DEF Least
    <3> QED BY <2>1, <2>2, <3>1
  <2> QED BY <1>5, <2>3 DEF LeastOrNull
<1> QED BY <1>4, <1>5

(***************************************************************************)
(* With no key learnt late, "acked by" is the earliest later ack of the    *)
(* capture as far as it was passed: FindAckedMessages only ever compares   *)
(* the ack at hand with the pointer it finds, and that is enough whatever  *)
(* order frames are dissected again in.                                    *)
(***************************************************************************)
THEOREM EarliestAckShown ==
  ASSUME LateSessions = {}
  PROVE  Spec => []AckedByEarliestAck
<1>1. Init => AckBound
  BY DEF Init, EmptyTable, AckBound
<1>2. IInv /\ OrderInv /\ [Next]_vars => OrderInv'
  BY NextKeepsOrder
<1>3. IInv /\ OrderInv /\ AckBound /\ [Next]_vars => AckBound'
  BY NextKeepsBound
<1>4. IInv /\ AckedByLaterAck /\ AckBound => AckedByEarliestAck
  BY BoundIsEarliest
<1> QED BY <1>1, <1>2, <1>3, <1>4, InitOrder, Invariance, AckPointersRight, PTL DEF Spec
-----------------------------------------------------------------------------
(***************************************************************************)
(* Least and greatest elements, and positions in a list without copies.    *)
(***************************************************************************)
LEMMA LeastIn ==
  ASSUME NEW S \in SUBSET Nat, S # {}
  PROVE  Least(S) \in S /\ \A y \in S : Least(S) <= y
<1>1. PICK x \in S : \A y \in S : ~ (<<y, x>> \in OpToRel(<, Nat))
  BY NatLessThanWellFounded, WFMin
<1>2. \A y \in S : ~ (y < x)
  BY <1>1 DEF OpToRel
<1>3. \A y \in S : x <= y
  BY <1>2
<1> QED BY <1>3 DEF Least

LEMMA LeastIs ==
  ASSUME NEW S \in SUBSET Int, NEW x \in S, \A y \in S : x <= y
  PROVE  Least(S) = x
<1>1. Least(S) \in S /\ \A y \in S : Least(S) <= y
  BY DEF Least
<1>2. Least(S) \in Int /\ x \in Int /\ Least(S) <= x /\ x <= Least(S)
  BY <1>1
<1> QED BY <1>2

LEMMA GreatestIn ==
  ASSUME NEW n \in Nat, NEW S \in SUBSET (1..n), S # {}
  PROVE  Greatest(S) \in S /\ \A y \in S : y <= Greatest(S)
<1> DEFINE T == {t \in 0..n : n - t \in S}
<1>1. \A y \in S : y \in 1..n /\ n - y \in T
  BY DEF T
<1>2. PICK t \in T : \A y \in T : t <= y
  <2>1. T \in SUBSET Nat /\ T # {}
    <3>1. PICK y \in S : TRUE
      OBVIOUS
    <3>2. n - y \in T
      BY <1>1
    <3>3. \A t \in T : t \in Nat
      BY DEF T
    <3> HIDE DEF T
    <3> QED BY <3>2, <3>3
  <2> HIDE DEF T
  <2> QED BY <2>1, LeastIn
<1>3. t \in 0..n /\ n - t \in S
  BY <1>2 DEF T
<1>4. \A y \in S : y <= n - t
  <2> TAKE y \in S
  <2>1. y \in 1..n /\ t <= n - y
    BY <1>1, <1>2
  <2> HIDE DEF T
  <2> QED BY <2>1, <1>3
<1> QED BY <1>3, <1>4 DEF Greatest

LEMMA GreatestIs ==
  ASSUME NEW S \in SUBSET Int, NEW x \in S, \A y \in S : y <= x
  PROVE  Greatest(S) = x
<1>1. Greatest(S) \in S /\ \A y \in S : y <= Greatest(S)
  BY DEF Greatest
<1>2. Greatest(S) \in Int /\ x \in Int /\ Greatest(S) <= x /\ x <= Greatest(S)
  BY <1>1
<1> QED BY <1>2

\* A list without copies has each of its elements at one position.
LEMMA PositionIs ==
  ASSUME NEW list, Injective(list), NEW i \in 1..Len(list)
  PROVE  Position(list, list[i]) = i
BY DEF Position, Injective

LEMMA PositionOf ==
  ASSUME NEW list, NEW f \in Elements(list)
  PROVE  Position(list, f) \in 1..Len(list) /\ list[Position(list, f)] = f
BY DEF Position, Elements

\* The records of one message id key are on one list, without copies.
LEMMA MsgIdListOf ==
  ASSUME IInv, NEW f \in DOMAIN rec
  PROVE  /\ MsgIdList(f) \in Seq(Nat) /\ Injective(MsgIdList(f))
         /\ f \in Elements(MsgIdList(f)) /\ rec[f].msgIdKey \in DOMAIN msgIdTable
         /\ \A g \in Elements(MsgIdList(f)) : g \in DOMAIN rec /\ MsgIdList(g) = MsgIdList(f)
BY DEF IInv, TypeOK, RecordsFiledOnce, MsgIdList

\* The records of one exchange are on one list, without copies.
LEMMA ExchangeListOf ==
  ASSUME IInv, NEW f \in DOMAIN rec
  PROVE  /\ ExchangeList(f) \in Seq(Nat) /\ Injective(ExchangeList(f))
         /\ f \in Elements(ExchangeList(f)) /\ rec[f].exchangeKey \in DOMAIN exchangeTable
         /\ \A g \in Elements(ExchangeList(f)) :
              g \in DOMAIN rec /\ ExchangeList(g) = ExchangeList(f)
BY DEF IInv, TypeOK, RecordsFiledOnce, ExchangeList
-----------------------------------------------------------------------------
(***************************************************************************)
(* The start of the exchange.                                              *)
(***************************************************************************)
\* The positions of the initiator messages at or before position i of a list.
InitiatorsUpTo(list, i) == {j \in 1..i : rec[list[j]].isInitiator}
\* The positions from which a run of one initiator message leads up to g.
RunStarts(list, g) == {j \in 1..g : SameInitiatorRun(list, j, g)}
\* Where the exchange of the frame at position i starts.
StartPosition(list, i) ==
  IF InitiatorsUpTo(list, i) = {} THEN 1
  ELSE Least(RunStarts(list, Greatest(InitiatorsUpTo(list, i))))

LEMMA StartPositionRight ==
  ASSUME NEW list \in Seq(Nat), NEW i \in 1..Len(list)
  PROVE  /\ StartPosition(list, i) \in 1..i
         /\ InitiatorsUpTo(list, i) # {} =>
              /\ Greatest(InitiatorsUpTo(list, i)) \in InitiatorsUpTo(list, i)
              /\ \A j \in InitiatorsUpTo(list, i) : j <= Greatest(InitiatorsUpTo(list, i))
              /\ StartPosition(list, i) \in RunStarts(list, Greatest(InitiatorsUpTo(list, i)))
              /\ \A j \in RunStarts(list, Greatest(InitiatorsUpTo(list, i))) :
                   StartPosition(list, i) <= j
<1> DEFINE I == InitiatorsUpTo(list, i)
           g == Greatest(I)
           R == RunStarts(list, g)
<1>1. i \in Nat /\ I \in SUBSET (1..i)
  BY DEF InitiatorsUpTo
<1>2. CASE I = {}
  BY <1>1, <1>2 DEF StartPosition
<1>3. CASE I # {}
  <2>1. g \in I /\ \A j \in I : j <= g
    <3> HIDE DEF I
    <3> QED BY <1>1, <1>3, GreatestIn
  <2>2. g \in 1..i /\ rec[list[g]].isInitiator
    BY <2>1 DEF InitiatorsUpTo
  <2>3. g \in R
    BY <2>2 DEF RunStarts, SameInitiatorRun
  <2>4. R \in SUBSET Nat /\ \A j \in R : j \in 1..g
    BY <2>2 DEF RunStarts
  <2>5. Least(R) \in R /\ \A j \in R : Least(R) <= j
    <3> HIDE DEF R
    <3> QED BY <2>3, <2>4, LeastIn
  <2>6. StartPosition(list, i) = Least(R)
    BY <1>3 DEF StartPosition
  <2>7. Least(R) \in 1..i
    <3>1. Least(R) \in 1..g
      BY <2>4, <2>5
    <3> HIDE DEF R, g
    <3> QED BY <3>1, <2>2, <1>1
  <2> QED BY <2>1, <2>5, <2>6, <2>7
<1> QED BY <1>2, <1>3

LEMMA FindStartOfExchangeIs ==
  ASSUME NEW f
  PROVE  FindStartOfExchange(f) =
           ExchangeList(f)[StartPosition(ExchangeList(f), Position(ExchangeList(f), f))]
BY DEF FindStartOfExchange, StartPosition, InitiatorsUpTo, RunStarts

(***************************************************************************)
(* Everything from the start of an exchange up to position i has the same  *)
(* start: before the last initiator message only its retransmissions are   *)
(* left, and after it there is no initiator message.                       *)
(***************************************************************************)
LEMMA SameStartPosition ==
  ASSUME NEW list \in Seq(Nat), NEW i \in 1..Len(list),
         NEW k \in StartPosition(list, i)..i
  PROVE  StartPosition(list, k) = StartPosition(list, i)
<1> DEFINE I == InitiatorsUpTo(list, i)
           g == Greatest(I)
           s == StartPosition(list, i)
<1>1. s \in 1..i /\ k \in 1..i /\ k \in 1..Len(list) /\ s <= k
  BY StartPositionRight
<1>2. InitiatorsUpTo(list, k) = {j \in I : j <= k}
  BY <1>1 DEF InitiatorsUpTo
<1>3. CASE I = {}
  BY <1>2, <1>3 DEF StartPosition
<1>4. CASE I # {}
  <2>1. g \in I /\ \A j \in I : j <= g
    BY <1>4, StartPositionRight
  <2>2. s \in RunStarts(list, g) /\ \A j \in RunStarts(list, g) : s <= j
    BY <1>4, StartPositionRight
  <2>3. g \in 1..i /\ rec[list[g]].isInitiator
    BY <2>1 DEF InitiatorsUpTo
  <2>4. s \in 1..g /\ SameInitiatorRun(list, s, g)
    BY <2>2 DEF RunStarts
  <2>5. CASE g <= k
    <3>1. \A j \in I : j <= k
      <4> TAKE j \in I
      <4>1. j \in Int /\ j <= g /\ g \in Int /\ k \in Int
        BY <1>1, <2>1, <2>3 DEF InitiatorsUpTo
      <4> HIDE DEF g, I
      <4> QED BY <4>1, <2>5
    <3>2. InitiatorsUpTo(list, k) = I
      BY <1>2, <3>1
    <3> QED BY <3>2 DEF StartPosition
  <2>6. CASE k < g
    <3>1. k \in s..g
      <4>1. k \in Int /\ s \in Int /\ g \in Int /\ s <= k
        BY <1>1, <2>3
      <4> HIDE DEF s, g
      <4> QED BY <4>1, <2>6
    <3>2. /\ rec[list[k]].isInitiator
          /\ rec[list[k]].fingerprint = rec[list[g]].fingerprint
      BY <3>1, <2>4 DEF SameInitiatorRun
    <3>3. Greatest(InitiatorsUpTo(list, k)) = k
      <4>1. k \in InitiatorsUpTo(list, k) /\ \A j \in InitiatorsUpTo(list, k) : j <= k
        BY <1>1, <3>2 DEF InitiatorsUpTo
      <4>2. InitiatorsUpTo(list, k) \in SUBSET Int
        BY DEF InitiatorsUpTo
      <4> QED BY <4>1, <4>2, GreatestIs
    <3>4. \A j \in 1..k : SameInitiatorRun(list, j, k) <=> SameInitiatorRun(list, j, g)
      <4> TAKE j \in 1..k
      <4>1. ASSUME SameInitiatorRun(list, j, k) PROVE SameInitiatorRun(list, j, g)
        <5> SUFFICES ASSUME NEW x \in j..g
                     PROVE  /\ rec[list[x]].isInitiator
                            /\ rec[list[x]].fingerprint = rec[list[g]].fingerprint
          BY DEF SameInitiatorRun
        <5>1. CASE x \in j..k
          BY <4>1, <5>1, <3>2 DEF SameInitiatorRun
        <5>2. CASE x \in s..g
          BY <5>2, <2>4 DEF SameInitiatorRun
        <5> QED BY <5>1, <5>2, <1>1, <2>4
      <4>2. ASSUME SameInitiatorRun(list, j, g) PROVE SameInitiatorRun(list, j, k)
        <5> SUFFICES ASSUME NEW x \in j..k
                     PROVE  /\ rec[list[x]].isInitiator
                            /\ rec[list[x]].fingerprint = rec[list[k]].fingerprint
          BY DEF SameInitiatorRun
        <5>1. x \in j..g
          BY <1>1, <2>3, <2>6
        <5> QED BY <5>1, <4>2, <3>2 DEF SameInitiatorRun
      <4> QED BY <4>1, <4>2
    <3>5. s \in RunStarts(list, k)
      BY <1>1, <2>4, <3>4 DEF RunStarts
    <3>6. \A j \in RunStarts(list, k) : s <= j
      <4> TAKE j \in RunStarts(list, k)
      <4>1. j \in 1..k /\ SameInitiatorRun(list, j, g)
        BY <3>4 DEF RunStarts
      <4>2. j \in RunStarts(list, g)
        BY <4>1, <1>1, <2>3, <2>6 DEF RunStarts
      <4> QED BY <4>2, <2>2
    <3>7. Least(RunStarts(list, k)) = s
      <4>1. RunStarts(list, k) \in SUBSET Int
        BY DEF RunStarts
      <4> HIDE DEF s
      <4> QED BY <4>1, <3>5, <3>6, LeastIs
    <3>8. InitiatorsUpTo(list, k) # {}
      BY <1>1, <3>2 DEF InitiatorsUpTo
    <3> QED BY <3>3, <3>7, <3>8 DEF StartPosition
  <2> QED BY <2>3, <2>5, <2>6, <1>1
<1> QED BY <1>3, <1>4

LEMMA StartOfNeighbours ==
  ASSUME IInv
  PROVE  ExchangeFilterIsContiguous
<1> SUFFICES ASSUME NEW f \in DOMAIN rec,
                    NEW k \in Position(ExchangeList(f), FindStartOfExchange(f))
                                ..Position(ExchangeList(f), f)
             PROVE  ExchangeList(f)[k] \in ExchangeFilter(f)
  BY DEF ExchangeFilterIsContiguous
<1> DEFINE list == ExchangeList(f)
           i == Position(list, f)
           s == StartPosition(list, i)
<1>1. /\ list \in Seq(Nat) /\ Injective(list) /\ f \in Elements(list)
      /\ \A g \in Elements(list) : g \in DOMAIN rec /\ ExchangeList(g) = list
  BY ExchangeListOf
<1>2. i \in 1..Len(list) /\ Len(list) \in Nat
  BY <1>1, PositionOf
<1>3. FindStartOfExchange(f) = list[s]
  BY FindStartOfExchangeIs
<1>4. s \in 1..i
  <2> HIDE DEF list, i
  <2> QED BY <1>1, <1>2, StartPositionRight
<1>5. Position(list, list[s]) = s
  <2>1. s \in 1..Len(list)
    <3> HIDE DEF s, i, list
    <3> QED BY <1>2, <1>4
  <2> HIDE DEF s, list
  <2> QED BY <2>1, <1>1, PositionIs
<1>6. k \in s..i /\ k \in 1..Len(list)
  <2>1. k \in s..i
    BY <1>3, <1>5
  <2> HIDE DEF s, i, list
  <2> QED BY <2>1, <1>2, <1>4
<1>7. StartPosition(list, k) = s
  <2> HIDE DEF list, i
  <2> QED BY <1>1, <1>2, <1>6, SameStartPosition
<1>8. list[k] \in DOMAIN rec /\ ExchangeList(list[k]) = list /\ Position(list, list[k]) = k
  <2> HIDE DEF list
  <2>1. list[k] \in Elements(list)
    BY <1>6 DEF Elements
  <2> QED BY <2>1, <1>1, <1>6, PositionIs
<1>9. FindStartOfExchange(list[k]) = list[s]
  BY <1>7, <1>8, FindStartOfExchangeIs
<1> QED BY <1>3, <1>8, <1>9 DEF ExchangeFilter

(***************************************************************************)
(* The exchange filter of a frame selects the whole stretch of the list    *)
(* from the start that FindStartOfExchange names to the frame itself, also *)
(* when records were created late and the list is not in frame order.      *)
(***************************************************************************)
THEOREM ExchangeFilterContiguous == Spec => []ExchangeFilterIsContiguous
BY Invariance, StartOfNeighbours, PTL

LEMMA AscendingShowsEarlier ==
  ASSUME IInv, ListsInFrameOrder
  PROVE  ShownFramesAreEarlier
<1> SUFFICES ASSUME NEW f \in DOMAIN rec
             PROVE  /\ RetransOf(f) # Null => RetransOf(f) < f
                    /\ ReusesMsgCntrFrom(f) # Null => ReusesMsgCntrFrom(f) < f
                    /\ FindStartOfExchange(f) <= f
  BY DEF ShownFramesAreEarlier
<1>1. ASSUME NEW S, S \subseteq Before(MsgIdList(f), f), LeastOrNull(S) # Null
      PROVE  LeastOrNull(S) < f
  <2> DEFINE list == MsgIdList(f)
  <2>1. /\ list \in Seq(Nat) /\ f \in Elements(list)
        /\ rec[f].msgIdKey \in DOMAIN msgIdTable
    BY MsgIdListOf
  <2>2. Ascending(list)
    BY <2>1 DEF ListsInFrameOrder, MsgIdList
  <2>3. Position(list, f) \in 1..Len(list) /\ list[Position(list, f)] = f
    BY <2>1, PositionOf
  <2>4. \A p \in Before(list, f) : p \in Nat /\ p < f
    <3> HIDE DEF list
    <3> QED BY <2>1, <2>2, <2>3 DEF Before, Ascending
  <2>5. S # {} /\ S \in SUBSET Nat
    BY <1>1, <2>4 DEF LeastOrNull
  <2>6. LeastOrNull(S) \in S
    BY <2>5, LeastIn DEF LeastOrNull
  <2> QED BY <1>1, <2>4, <2>6
<1>2. RetransOf(f) # Null => RetransOf(f) < f
  BY <1>1 DEF RetransOf, SameMessage
<1>3. ReusesMsgCntrFrom(f) # Null => ReusesMsgCntrFrom(f) < f
  BY <1>1 DEF ReusesMsgCntrFrom, OtherMessage
<1>4. FindStartOfExchange(f) <= f
  <2> DEFINE list == ExchangeList(f)
             i == Position(list, f)
             s == StartPosition(list, i)
  <2>1. /\ list \in Seq(Nat) /\ f \in Elements(list)
        /\ rec[f].exchangeKey \in DOMAIN exchangeTable
    BY ExchangeListOf
  <2>2. Ascending(list)
    BY <2>1 DEF ListsInFrameOrder, ExchangeList
  <2>3. i \in 1..Len(list) /\ list[i] = f /\ Len(list) \in Nat
    BY <2>1, PositionOf
  <2>4. s \in 1..i
    <3> HIDE DEF list, i
    <3> QED BY <2>1, <2>3, StartPositionRight
  <2>5. FindStartOfExchange(f) = list[s]
    BY FindStartOfExchangeIs
  <2>6. list[s] <= list[i]
    <3> HIDE DEF list, i, s
    <3>1. s \in 1..Len(list) /\ list[s] \in Nat /\ list[i] \in Nat
      BY <2>1, <2>3, <2>4
    <3> QED BY <3>1, <2>2, <2>3, <2>4 DEF Ascending
  <2> QED BY <2>3, <2>5, <2>6
<1> QED BY <1>2, <1>3, <1>4

(***************************************************************************)
(* With no key learnt late, no frame is shown as the retransmission of, as *)
(* reusing the counter of, or as continuing the exchange of a later frame. *)
(***************************************************************************)
THEOREM EarlierFramesShown ==
  ASSUME LateSessions = {}
  PROVE  Spec => []ShownFramesAreEarlier
BY FrameOrder, Invariance, AscendingShowsEarlier, PTL
-----------------------------------------------------------------------------
(***************************************************************************)
(* Retransmissions.                                                        *)
(***************************************************************************)
\* The copies of f filed before g, and after g.
EarlierCopies(f, g) == SameMessage(Before(MsgIdList(f), g), f)
LaterCopies(f, g)   == SameMessage(After(MsgIdList(f), g), f)

\* A copy of f numbers itself by the copies of f before and after it.
LEMMA NumbersOfCopies ==
  ASSUME IInv, NEW f \in DOMAIN rec, NEW g \in Copies(f)
  PROVE  /\ RetransNum(g) = Cardinality(EarlierCopies(f, g))
         /\ TotalRetrans(g) = Cardinality(EarlierCopies(f, g)) + Cardinality(LaterCopies(f, g))
<1>1. /\ g \in Elements(MsgIdList(f)) /\ rec[g].fingerprint = rec[f].fingerprint
  BY DEF Copies, SameMessage
<1>2. MsgIdList(g) = MsgIdList(f)
  BY <1>1, MsgIdListOf
<1>3. \A S : SameMessage(S, g) = SameMessage(S, f)
  BY <1>1 DEF SameMessage
<1>4. /\ SameMessage(Before(MsgIdList(g), g), g) = EarlierCopies(f, g)
      /\ SameMessage(After(MsgIdList(g), g), g) = LaterCopies(f, g)
  BY <1>2, <1>3 DEF EarlierCopies, LaterCopies
<1> QED BY <1>4 DEF RetransNum, TotalRetrans

\* The other copies split into the earlier ones and the later ones.
LEMMA CopiesSplit ==
  ASSUME IInv, NEW f \in DOMAIN rec, NEW g \in Copies(f)
  PROVE  /\ EarlierCopies(f, g) \cup LaterCopies(f, g) = Copies(f) \ {g}
         /\ EarlierCopies(f, g) \cap LaterCopies(f, g) = {}
         /\ \A h \in Copies(f) \ {g} :
              h \notin EarlierCopies(f, g)
              => g \in EarlierCopies(f, h) /\ EarlierCopies(f, g) \subseteq EarlierCopies(f, h)
         /\ \A h \in EarlierCopies(f, g) : g \notin EarlierCopies(f, h)
<1> DEFINE list == MsgIdList(f)
           at(h) == Position(list, h)
<1>1. list \in Seq(Nat) /\ Injective(list) /\ Len(list) \in Nat
  BY MsgIdListOf
<1>2. /\ \A h \in Elements(list) : at(h) \in 1..Len(list) /\ list[at(h)] = h
      /\ \A j \in 1..Len(list) : at(list[j]) = j /\ list[j] \in Elements(list)
  <2>1. \A h \in Elements(list) : at(h) \in 1..Len(list) /\ list[at(h)] = h
    BY PositionOf
  <2>2. \A j \in 1..Len(list) : at(list[j]) = j
    BY <1>1, PositionIs
  <2> QED BY <2>1, <2>2 DEF Elements
<1>3. \A h \in Elements(list) :
        /\ Before(list, h) = {x \in Elements(list) : at(x) < at(h)}
        /\ After(list, h) = {x \in Elements(list) : at(x) > at(h)}
  <2> TAKE h \in Elements(list)
  <2> HIDE DEF list
  <2>1. Before(list, h) = {x \in Elements(list) : at(x) < at(h)}
    BY <1>2 DEF Before
  <2>2. After(list, h) = {x \in Elements(list) : at(x) > at(h)}
    BY <1>2 DEF After
  <2> QED BY <2>1, <2>2
<1> DEFINE C == Copies(f)
<1>4. C \subseteq Elements(list) /\ C = SameMessage(Elements(list), f)
  BY DEF Copies, SameMessage
<1>5. \A h \in C : /\ EarlierCopies(f, h) = {x \in C : at(x) < at(h)}
                    /\ LaterCopies(f, h) = {x \in C : at(x) > at(h)}
  <2> TAKE h \in C
  <2>1. h \in Elements(list)
    BY <1>4
  <2>2. /\ EarlierCopies(f, h) = SameMessage(Before(list, h), f)
        /\ LaterCopies(f, h) = SameMessage(After(list, h), f)
    BY DEF EarlierCopies, LaterCopies
  <2> HIDE DEF list, C, at
  <2> QED BY <1>3, <1>4, <2>1, <2>2 DEF SameMessage
<1>6. \A h \in C : at(h) \in Int /\ list[at(h)] = h
  <2> HIDE DEF list, C, at
  <2> QED BY <1>1, <1>2, <1>4
<1>7. g \in C
  OBVIOUS
<1> HIDE DEF list, C, at
<1>8. EarlierCopies(f, g) \cup LaterCopies(f, g) = C \ {g}
  <2>1. \A h \in C : h # g <=> at(h) # at(g)
    BY <1>6, <1>7
  <2> QED BY <1>5, <1>6, <1>7, <2>1
<1>9. /\ EarlierCopies(f, g) \cap LaterCopies(f, g) = {}
      /\ \A h \in EarlierCopies(f, g) : g \notin EarlierCopies(f, h)
  BY <1>5, <1>6, <1>7
<1>10. ASSUME NEW h \in C \ {g}, h \notin EarlierCopies(f, g)
       PROVE  g \in EarlierCopies(f, h) /\ EarlierCopies(f, g) \subseteq EarlierCopies(f, h)
  <2>1. at(g) # at(h) /\ ~ (at(h) < at(g))
    BY <1>5, <1>6, <1>7, <1>10
  <2>2. at(g) < at(h)
    BY <1>6, <1>7, <2>1
  <2> QED BY <1>5, <1>6, <1>7, <2>2
<1> QED BY <1>8, <1>9, <1>10 DEF C

LEMMA CopiesNumbered ==
  ASSUME IInv
  PROVE  RetransmissionsNumbered
<1> SUFFICES ASSUME NEW f \in DOMAIN rec
             PROVE  /\ {RetransNum(g) : g \in Copies(f)} = 0..TotalRetrans(f)
                    /\ \A g \in Copies(f) : TotalRetrans(g) = TotalRetrans(f)
  BY DEF RetransmissionsNumbered
<1> DEFINE C == Copies(f)
           n == Cardinality(C)
           num == [g \in C |-> Cardinality(EarlierCopies(f, g))]
<1>1. f \in C /\ IsFiniteSet(C)
  <2>1. f \in C
    BY MsgIdListOf DEF Copies, SameMessage
  <2>2. C \subseteq DOMAIN rec
    BY MsgIdListOf DEF Copies, SameMessage
  <2>3. C \in SUBSET (1..passed) /\ passed \in Int
    BY <2>2 DEF IInv, TypeOK
  <2> HIDE DEF C
  <2> QED BY <2>1, <2>3, FS_Interval, FS_Subset
<1>2. n \in Nat /\ n # 0
  <2> HIDE DEF C
  <2> QED BY <1>1, FS_CardinalityType, FS_EmptySet
<1>3. ASSUME NEW g \in C
      PROVE  /\ IsFiniteSet(EarlierCopies(f, g)) /\ num[g] \in 0..n-1
             /\ RetransNum(g) = num[g] /\ TotalRetrans(g) = n - 1
  <2> DEFINE E == EarlierCopies(f, g)
             L == LaterCopies(f, g)
  <2>1. E \cup L = C \ {g} /\ E \cap L = {}
    BY CopiesSplit
  <2>2. IsFiniteSet(C \ {g}) /\ Cardinality(C \ {g}) = n - 1
    <3> HIDE DEF C
    <3> QED BY <1>1, FS_RemoveElement
  <2>3. RetransNum(g) = Cardinality(E) /\ TotalRetrans(g) = Cardinality(E) + Cardinality(L)
    BY NumbersOfCopies
  <2> HIDE DEF C, E, L, n
  <2>4. /\ IsFiniteSet(E) /\ IsFiniteSet(L)
        /\ Cardinality(E) \in Nat /\ Cardinality(L) \in Nat
    <3>1. E \in SUBSET (C \ {g}) /\ L \in SUBSET (C \ {g})
      BY <2>1
    <3>2. IsFiniteSet(E) /\ IsFiniteSet(L)
      BY <2>2, <3>1, FS_Subset
    <3> QED BY <3>2, FS_CardinalityType
  <2>5. Cardinality(E) + Cardinality(L) = n - 1
    <3>1. Cardinality(E \cup L) = Cardinality(E) + Cardinality(L) - Cardinality(E \cap L)
      BY <2>4, FS_Union
    <3>2. Cardinality(E \cap L) = 0
      BY <2>1, FS_EmptySet
    <3>3. Cardinality(E \cup L) = n - 1
      BY <2>1, <2>2, Zenon
    <3>4. Cardinality(E) + Cardinality(L) - 0 = n - 1
      BY <3>1, <3>2, <3>3, Zenon
    <3> QED BY <1>2, <2>4, <3>4
  <2>6. num[g] = Cardinality(E)
    BY <1>3 DEF E
  <2>7. Cardinality(E) \in 0..n-1
    BY <1>2, <2>4, <2>5
  <2> QED BY <2>3, <2>4, <2>5, <2>6, <2>7 DEF E
<1>4. ASSUME NEW g \in C, NEW h \in C, h # g, h \notin EarlierCopies(f, g)
      PROVE  num[g] < num[h]
  <2> DEFINE E == EarlierCopies(f, g)
             F == EarlierCopies(f, h)
  <2>1. g \in F /\ E \subseteq F /\ g \notin E /\ h \in C \ {g}
    BY <1>4, CopiesSplit
  <2>2. IsFiniteSet(E) /\ IsFiniteSet(F)
    BY <1>3
  <2>3. num[g] = Cardinality(E) /\ num[h] = Cardinality(F)
    OBVIOUS
  <2> HIDE DEF E, F, num
  <2>4. Cardinality(E \cup {g}) = Cardinality(E) + 1 /\ Cardinality(E) \in Nat
    BY <2>1, <2>2, FS_AddElement, FS_CardinalityType
  <2>5. Cardinality(E \cup {g}) <= Cardinality(F)
    <3>1. E \cup {g} \in SUBSET F
      BY <2>1
    <3> QED BY <2>2, <3>1, FS_Subset
  <2> QED BY <2>2, <2>3, <2>4, <2>5, FS_CardinalityType
<1>5. num \in Injection(C, 0..n-1)
  <2>1. num \in [C -> 0..n-1]
    BY <1>3
  <2>2. ASSUME NEW g \in C, NEW h \in C, g # h PROVE num[g] # num[h]
    <3>1. h \notin EarlierCopies(f, g) \/ g \notin EarlierCopies(f, h)
      BY CopiesSplit
    <3>2. num[g] \in Int /\ num[h] \in Int
      BY <2>1
    <3> HIDE DEF num, n, C
    <3> QED BY <1>4, <2>2, <3>1, <3>2
  <2> HIDE DEF num, C, n
  <2> QED BY <2>1, <2>2 DEF Injection, IsInjective
<1>6. num \in Surjection(C, 0..n-1)
  <2> HIDE DEF num, C
  <2>1. IsFiniteSet(0..n-1) /\ Cardinality(0..n-1) = n
    <3> HIDE DEF n
    <3> QED BY <1>2, FS_Interval
  <2> QED BY <1>1, <1>5, <2>1, FS_Injection
<1>7. {num[g] : g \in C} = 0..n-1
  <2> HIDE DEF num, C, n
  <2> QED BY <1>6 DEF Surjection
<1>8. {RetransNum(g) : g \in C} = {num[g] : g \in C}
  <2> HIDE DEF num, C, n
  <2> QED BY <1>3
<1>9. TotalRetrans(f) = n - 1
  <2> HIDE DEF num, C, n
  <2> QED BY <1>1, <1>3
<1> QED BY <1>3, <1>7, <1>8, <1>9

(***************************************************************************)
(* The copies of a message are numbered from 0 without gaps and agree on   *)
(* how many retransmissions there are, in whatever order their records     *)
(* were created (FindRetransmissions).                                     *)
(***************************************************************************)
THEOREM RetransmissionsCounted == Spec => []RetransmissionsNumbered
BY Invariance, CopiesNumbered, PTL
-----------------------------------------------------------------------------
(***************************************************************************)
(* What a step may change.                                                 *)
(***************************************************************************)
LEMMA AddToListExtends ==
  ASSUME NEW table, NEW k, NEW f, NEW x \in DOMAIN table, table[x] \in Seq(Nat)
  PROVE  Extends(table[x], Lookup(AddToList(table, k, f), x))
<1>1. Lookup(AddToList(table, k, f), x) = IF x = k THEN Append(table[k], f) ELSE table[x]
  BY DEF Lookup, AddToList
<1>2. Extends(table[x], table[x])
  BY DEF Extends
<1>3. Extends(table[x], Append(table[x], f))
  BY DEF Extends
<1> QED BY <1>1, <1>2, <1>3

LEMMA DissectGrows ==
  ASSUME IInv, IInv', frames' = frames, known' = known,
         NEW f \in 1..Len(frames), NEW i \in 1..Len(frames[f]), DissectMatter(f, i)
  PROVE  GrowsOnly
<1> DEFINE m == frames[f][i]
<1>0. f \in Nat /\ m \in Message
  BY PduIsMessage, CapturesAssumption DEF IInv, TypeOK
<1>1. /\ \A k \in DOMAIN msgIdTable : msgIdTable[k] \in Seq(Nat)
      /\ \A k \in DOMAIN exchangeTable : exchangeTable[k] \in Seq(Nat)
  BY DEF IInv, TypeOK
<1>2. \A p \in DOMAIN rec :
        /\ p \in DOMAIN rec'
        /\ rec[p].ackedBy # Null => rec'[p].ackedBy # Null /\ rec'[p].ackedBy <= rec[p].ackedBy
  BY DissectKeepsBound
<1>3. \/ UNCHANGED tracker
      \/ Readable(m) /\ DissectReadable(f, m)
  BY DEF DissectMatter
<1>4. \A p \in DOMAIN rec : SameIdentity(rec[p], rec'[p])
  <2>1. CASE UNCHANGED tracker
    BY <2>1 DEF tracker, SameIdentity
  <2>2. CASE DissectReadable(f, m)
    <3> HIDE DEF m
    <3> QED BY <1>0, <2>2, DissectReadableEffect
  <2> QED BY <1>3, <2>1, <2>2
<1>5. \/ UNCHANGED <<msgIdTable, exchangeTable>>
      \/ /\ msgIdTable' = AddToList(msgIdTable, MsgIdKey(m), f)
         /\ exchangeTable' = AddToList(exchangeTable, ExchangeKey(m), f)
  <2>1. CASE UNCHANGED tracker
    BY <2>1 DEF tracker
  <2>2. CASE DissectReadable(f, m)
    <3> HIDE DEF m
    <3> QED BY <1>0, <2>2, DissectReadableEffect
  <2> QED BY <1>3, <2>1, <2>2
<1>6. /\ \A k \in DOMAIN msgIdTable : Extends(msgIdTable[k], Lookup(msgIdTable', k))
      /\ \A k \in DOMAIN exchangeTable : Extends(exchangeTable[k], Lookup(exchangeTable', k))
  <2>1. CASE UNCHANGED <<msgIdTable, exchangeTable>>
    BY <1>1, <2>1 DEF Extends, Lookup
  <2>2. CASE /\ msgIdTable' = AddToList(msgIdTable, MsgIdKey(m), f)
             /\ exchangeTable' = AddToList(exchangeTable, ExchangeKey(m), f)
    BY <1>1, <2>2, AddToListExtends
  <2> QED BY <1>5, <2>1, <2>2
<1> QED BY <1>2, <1>4, <1>6 DEF GrowsOnly

LEMMA StepGrows ==
  ASSUME IInv, [Next]_vars, passed' >= passed, frames' = frames
  PROVE  GrowsOnly
<1>0. frames \in Captures /\ Len(frames) \in Nat /\ passed \in 0..Len(frames)
  BY CapturesAssumption DEF IInv, TypeOK
<1>1. IInv'
  BY NextInv
<1>2. ASSUME NEW f \in 1..Len(frames), NEW i \in 1..Len(frames[f]), DissectMatter(f, i),
             known' = known
      PROVE  GrowsOnly
  BY <1>1, <1>2, DissectGrows
<1>3. ASSUME UNCHANGED tracker PROVE GrowsOnly
  BY <1>3 DEF GrowsOnly, tracker, Extends, Lookup, SameIdentity, IInv, TypeOK, RecordType
<1>4. CASE FirstPass
  <2>1. passed + 1 \in 1..Len(frames)
    BY <1>0, <1>4 DEF FirstPass
  <2>2. 1 \in 1..Len(frames[passed + 1])
    BY <1>0, <2>1, FrameNotEmpty
  <2> QED BY <1>2, <1>4, <2>1, <2>2 DEF FirstPass
<1>5. ASSUME NEW f \in 1..passed, Redissect(f) PROVE GrowsOnly
  <2>1. f \in 1..Len(frames)
    BY <1>0
  <2>2. 1 \in 1..Len(frames[f])
    BY <1>0, <2>1, FrameNotEmpty
  <2> QED BY <1>2, <1>5, <2>1, <2>2 DEF Redissect
<1>6. CASE NextPDU
  <2>1. PICK f \in 1..passed : \E i \in 1..Len(frames[f]) : job = <<f, i>>
    BY <1>6 DEF IInv, TypeOK, NextPDU
  <2>2. PICK i \in 1..Len(frames[f]) : job = <<f, i>>
    BY <2>1
  <2>3. job[1] = f /\ job[2] = i /\ f \in 1..Len(frames)
    BY <1>0, <2>2
  <2> QED BY <1>2, <1>6, <2>2, <2>3 DEF NextPDU
<1>7. ASSUME NEW s \in LateSessions, LearnKey(s) PROVE GrowsOnly
  BY <1>3, <1>7 DEF LearnKey, tracker
<1>8. CASE RescanFile
  BY <1>0, <1>8 DEF RescanFile, EndFileScope
<1>9. ASSUME NEW c \in Captures, OpenFile(c) PROVE GrowsOnly
  BY <1>9 DEF OpenFile
<1>10. CASE UNCHANGED vars
  BY <1>3, <1>10 DEF vars, tracker
<1> QED BY <1>4, <1>5, <1>6, <1>7, <1>8, <1>9, <1>10 DEF Next

(***************************************************************************)
(* Within one file scope lists only grow at their ends, records keep their *)
(* identity, and an ackedBy pointer only moves to an earlier ack.          *)
(***************************************************************************)
THEOREM HistoryGrows == Spec => HistoryOnlyGrows
<1>1. IInv /\ [Next]_vars => [passed' >= passed /\ frames' = frames => GrowsOnly]_vars
  BY StepGrows
<1> QED BY <1>1, Invariance, PTL DEF Spec, HistoryOnlyGrows
=============================================================================
