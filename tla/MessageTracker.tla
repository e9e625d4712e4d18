---------------------------- MODULE MessageTracker ----------------------------
(***************************************************************************)
(* MatterMessageTracker and the part of DissectMatter that drives it.      *)
(*                                                                         *)
(* Wireshark dissects the frames of a capture once in order, and then any  *)
(* frame again, in any order, whenever it needs to show or to filter it.   *)
(* The first time a frame yields a readable message the tracker creates a  *)
(* MatterMessageRecord, attaches it to the frame and appends it to two     *)
(* lists: the records with the same message id key and the records of the  *)
(* same exchange.  Both tables, and all records, die with the file scope.  *)
(*                                                                         *)
(* A record is named by its frame number; 0 is the null pointer.  A list   *)
(* linked by next/prevByMsgCntr or next/prevByExchange is the sequence of  *)
(* its frame numbers.                                                      *)
(***************************************************************************)
EXTENDS MatterMessage, FiniteSets

CONSTANTS
  Sessions,     \* the session ids whose keys may be known from the start
  LateSessions  \* the session ids whose keys may become known later

ASSUME SessionsAssumption == Sessions \cup LateSessions \subseteq Nat

VARIABLES
  frames,        \* the capture being dissected, a sequence of frames
  passed,        \* how many frames the sequential pass has reached
  job,           \* <<frame, pdu>> still to be dissected in the current frame
  known,         \* the sessions whose messages can be decrypted
  rec,           \* frame number -> its MatterMessageRecord
  msgIdTable,    \* message id key -> list of records
  exchangeTable  \* exchange key -> list of records

tracker == <<rec, msgIdTable, exchangeTable>>
vars == <<frames, passed, job, known, rec, msgIdTable, exchangeTable>>

Null == 0
Idle == << >>
EmptyTable == [k \in {} |-> << >>]
-----------------------------------------------------------------------------
(***************************************************************************)
(* Lists of records.                                                       *)
(***************************************************************************)
\* wmem_tree_lookup32_array: the list filed under k, none if there is none.
Lookup(table, k) == IF k \in DOMAIN table THEN table[k] ELSE << >>

\* Mutations: the new record becomes the head; the new record replaces the list.
AddToListAsHead(table, k, f) ==
  [x \in DOMAIN table \cup {k} |->
     IF x = k THEN <<f>> \o Lookup(table, k) ELSE table[x]]
AddToListReplacing(table, k, f) ==
  [x \in DOMAIN table \cup {k} |-> IF x = k THEN <<f>> ELSE table[x]]

\* Append f to the list filed under k, or file a new list with f as its head.
AddToList(table, k, f) ==
  [x \in DOMAIN table \cup {k} |->
     IF x = k THEN Append(Lookup(table, k), f) ELSE table[x]]

AddMessageToMessageIdTable(table, m, f) == AddToList(table, MsgIdKey(m), f)
AddMessageToExchangeTable(table, m, f)  == AddToList(table, ExchangeKey(m), f)

Elements(list) == {list[i] : i \in 1..Len(list)}
Position(list, f) == CHOOSE i \in 1..Len(list) : list[i] = f
Before(list, f) == {list[i] : i \in {j \in 1..Len(list) : j < Position(list, f)}}
After(list, f)  == {list[i] : i \in {j \in 1..Len(list) : j > Position(list, f)}}

Least(S)    == CHOOSE x \in S : \A y \in S : x <= y
Greatest(S) == CHOOSE x \in S : \A y \in S : y <= x
LeastOrNull(S)    == IF S = {} THEN Null ELSE Least(S)
GreatestOrNull(S) == IF S = {} THEN Null ELSE Greatest(S)

MsgIdList(f)    == msgIdTable[rec[f].msgIdKey]
ExchangeList(f) == exchangeTable[rec[f].exchangeKey]
-----------------------------------------------------------------------------
(***************************************************************************)
(* FindOrCreateMessageRecord.  The keys stand for the lists that the       *)
(* record's next and prev pointers thread it on.                           *)
(***************************************************************************)
NewRecord(m) ==
  [fingerprint    |-> ComputeMessageFingerprint(m),
   isInitiator    |-> m.initiator,
   imSubscription |-> 0,
   ackedBy        |-> Null,
   msgIdKey       |-> MsgIdKey(m),
   exchangeKey    |-> ExchangeKey(m)]

FindMessageRecord(f) == f \in DOMAIN rec

FindOrCreateMessageRecord(f, m) ==
  IF FindMessageRecord(f)
    THEN [rec |-> rec, msgs |-> msgIdTable, exch |-> exchangeTable]
    ELSE [rec  |-> [g \in DOMAIN rec \cup {f} |->
                      IF g = f THEN NewRecord(m) ELSE rec[g]],
          msgs |-> AddMessageToMessageIdTable(msgIdTable, m, f),
          exch |-> AddMessageToExchangeTable(exchangeTable, m, f)]

(***************************************************************************)
(* FindAckedMessages: the earlier messages that m, in frame f, acks.  Every *)
(* one of them remembers the earliest frame that acked it.                 *)
(***************************************************************************)
AckIsTracked(m) == ~ m.tcp /\ m.msgVersion > 1 /\ m.ack

\* Mutation: the scan does not compare frame numbers.
AckedMessagesAnywhere(table, f, m) ==
  IF AckIsTracked(m) THEN Elements(Lookup(table, AckKey(m))) ELSE {}

AckedMessages(table, f, m) ==
  IF AckIsTracked(m) THEN {p \in Elements(Lookup(table, AckKey(m))) : p < f}
                     ELSE {}

WithAckedBy(r, q) == [r EXCEPT !.ackedBy = q]
\* Mutation: the ack dissected last wins.
LastAckDissected(old, f) == f
EarlierAck(old, f) == IF old = Null \/ f < old THEN f ELSE old

FindAckedMessages(records, table, f, m) ==
  [g \in DOMAIN records |->
     IF g \in AckedMessages(table, f, m)
       THEN WithAckedBy(records[g], EarlierAck(records[g].ackedBy, f))
       ELSE records[g]]

(***************************************************************************)
(* AssociateWithIMSubscription, which the StatusReport and StandaloneAck   *)
(* dissectors call: take the subscription of the nearest record backward   *)
(* in the exchange that has one, else of the nearest one forward.          *)
(***************************************************************************)
NearestSubscription(records, list, f) ==
  LET here == Position(list, f)
      with == {i \in 1..Len(list) : records[list[i]].imSubscription # 0}
      back == {i \in with : i <= here}
      forw == {i \in with : i > here}
  IN  IF back # {} THEN records[list[Greatest(back)]].imSubscription
      ELSE IF forw # {} THEN records[list[Least(forw)]].imSubscription
      ELSE 0

WithSubscription(r, s) == [r EXCEPT !.imSubscription = s]

AssociateWithIMSubscription(records, table, f, m) ==
  IF m.kind \in {"StatusReport", "StandaloneAck"}
    THEN [records EXCEPT ![f] = WithSubscription(@,
            NearestSubscription(records, table[records[f].exchangeKey], f))]
    ELSE records
-----------------------------------------------------------------------------
(***************************************************************************)
(* What DissectMatter shows for a frame that has a record.                 *)
(***************************************************************************)
SameMessage(S, f) == {p \in S : rec[p].fingerprint = rec[f].fingerprint}
OtherMessage(S, f) == S \ SameMessage(S, f)

\* Mutations: the scans follow the wrong pointer, or skip the fingerprint test.
RetransOfLater(f)       == LeastOrNull(SameMessage(After(MsgIdList(f), f), f))
RetransNumAnyMessage(f) == Cardinality(Before(MsgIdList(f), f))

\* FindRetransmissions
RetransOf(f)    == LeastOrNull(SameMessage(Before(MsgIdList(f), f), f))
RetransNum(f)   == Cardinality(SameMessage(Before(MsgIdList(f), f), f))
TotalRetrans(f) == RetransNum(f) + Cardinality(SameMessage(After(MsgIdList(f), f), f))

\* FindReusedMessageIds
ReusesMsgCntrFrom(f) == LeastOrNull(OtherMessage(Before(MsgIdList(f), f), f))

\* The message that FindAckedMessages reports as acked by m, in frame f.
AckedMsg(f, m) == GreatestOrNull(AckedMessages(msgIdTable, f, m))

(***************************************************************************)
(* FindStartOfExchange: the nearest initiator message at or before f in    *)
(* its exchange list, moved back over the retransmissions right before it; *)
(* the oldest record of the list when there is no initiator message.       *)
(***************************************************************************)
\* Mutation: the fold jumps over the messages in between.
SameInitiatorEnds(list, i, j) ==
  \A k \in {i, j} : /\ rec[list[k]].isInitiator
                    /\ rec[list[k]].fingerprint = rec[list[j]].fingerprint

SameInitiatorRun(list, i, j) ==
  \A k \in i..j : /\ rec[list[k]].isInitiator
                  /\ rec[list[k]].fingerprint = rec[list[j]].fingerprint

FindStartOfExchange(f) ==
  LET list == ExchangeList(f)
      init == {i \in 1..Position(list, f) : rec[list[i]].isInitiator}
  IN  IF init = {} THEN list[1]
      ELSE list[Least({i \in 1..Greatest(init) :
                         SameInitiatorRun(list, i, Greatest(init))})]

\* MatterExchangeFilter: the frames whose exchange_start_frame is that of f.
ExchangeFilter(f) ==
  {g \in DOMAIN rec : FindStartOfExchange(g) = FindStartOfExchange(f)}

\* IMSubscriptionFilter_IsValid
IMSubscriptionFilterIsValid(f) ==
  FindMessageRecord(f) /\ rec[f].imSubscription # 0
-----------------------------------------------------------------------------
Readable(m) == MessageIsEncrypted(m) => m.sessionId \in known

(***************************************************************************)
(* DissectMatter on PDU i of frame f.  A message that cannot be read       *)
(* leaves no record; a readable one runs the tracker and its subdissector. *)
(***************************************************************************)
DissectReadable(f, m) ==
  LET found == FindOrCreateMessageRecord(f, m)
      acked == FindAckedMessages(found.rec, found.msgs, f, m)
  IN  /\ rec' = AssociateWithIMSubscription(acked, found.exch, f, m)
      /\ msgIdTable' = found.msgs
      /\ exchangeTable' = found.exch

\* Mutations: one PDU too many; only the first PDU of a frame.
DissectMatterPastEnd(f, i) ==
  /\ job' = IF i <= Len(frames[f]) THEN <<f, i + 1>> ELSE Idle
  /\ IF Readable(frames[f][i]) THEN DissectReadable(f, frames[f][i])
                               ELSE UNCHANGED tracker
DissectMatterFirstPdu(f, i) ==
  /\ job' = Idle
  /\ IF Readable(frames[f][i]) THEN DissectReadable(f, frames[f][i])
                               ELSE UNCHANGED tracker

DissectMatter(f, i) ==
  /\ job' = IF i < Len(frames[f]) THEN <<f, i + 1>> ELSE Idle
  /\ IF Readable(frames[f][i]) THEN DissectReadable(f, frames[f][i])
                               ELSE UNCHANGED tracker

\* The sequential pass reaches its next frame.
FirstPass ==
  /\ job = Idle /\ passed < Len(frames)
  /\ passed' = passed + 1
  /\ DissectMatter(passed + 1, 1)
  /\ UNCHANGED <<frames, known>>

\* Wireshark dissects a frame again.
Redissect(f) ==
  /\ job = Idle /\ f <= passed
  /\ DissectMatter(f, 1)
  /\ UNCHANGED <<frames, passed, known>>

\* tcp_dissect_pdus hands over the next PDU of the frame.
NextPDU ==
  /\ job # Idle
  /\ DissectMatter(job[1], job[2])
  /\ UNCHANGED <<frames, passed, known>>

\* A hint file, a secrets block or a recovered session makes a key known.
LearnKey(s) ==
  /\ s \notin known
  /\ known' = known \cup {s}
  /\ UNCHANGED <<frames, passed, job, rec, msgIdTable, exchangeTable>>

\* Mutation: the tables are not autoreset.
EndFileScopeKeepingTables ==
  /\ job = Idle
  /\ passed' = 0
  /\ rec' = EmptyTable
  /\ UNCHANGED <<job, known, msgIdTable, exchangeTable>>

\* The file scope ends: the tables reset themselves and the records are freed.
EndFileScope ==
  /\ job = Idle
  /\ passed' = 0
  /\ rec' = EmptyTable /\ msgIdTable' = EmptyTable /\ exchangeTable' = EmptyTable
  /\ UNCHANGED <<job, known>>

\* A changed preference makes Wireshark dissect the capture from scratch.
RescanFile == passed > 0 /\ EndFileScope /\ UNCHANGED frames

\* Another capture is opened; the keys survive.
OpenFile(c) == c # frames /\ EndFileScope /\ frames' = c

Init ==
  /\ frames \in Captures
  /\ passed = 0
  /\ job = Idle
  /\ known \in SUBSET Sessions
  /\ rec = EmptyTable /\ msgIdTable = EmptyTable /\ exchangeTable = EmptyTable

Next ==
  \/ FirstPass
  \/ \E f \in 1..passed : Redissect(f)
  \/ NextPDU
  \/ \E s \in LateSessions : LearnKey(s)
  \/ RescanFile
  \/ \E c \in Captures : OpenFile(c)

Spec == Init /\ [][Next]_vars
-----------------------------------------------------------------------------
(***************************************************************************)
(* Properties.                                                             *)
(***************************************************************************)
MsgIdKeys    == {MsgIdKey(m) : m \in Message}
ExchangeKeys == {ExchangeKey(m) : m \in Message}

RecordType ==
  [fingerprint : {ComputeMessageFingerprint(m) : m \in Message},
   isInitiator : BOOLEAN, imSubscription : Nat, ackedBy : Nat,
   msgIdKey : MsgIdKeys, exchangeKey : ExchangeKeys]

\* Every variable has its type; records exist for frames of the capture only.
TypeOK ==
  /\ frames \in Captures
  /\ passed \in 0..Len(frames)
  /\ job = Idle \/ \E f \in 1..passed : \E i \in 1..Len(frames[f]) : job = <<f, i>>
  /\ known \subseteq Sessions \cup LateSessions
  /\ DOMAIN rec \subseteq 1..passed
  /\ rec \in [DOMAIN rec -> RecordType]
  /\ DOMAIN msgIdTable \subseteq MsgIdKeys
  /\ msgIdTable \in [DOMAIN msgIdTable -> Seq(Nat)]
  /\ DOMAIN exchangeTable \subseteq ExchangeKeys
  /\ exchangeTable \in [DOMAIN exchangeTable -> Seq(Nat)]

(***************************************************************************)
(* Every record is threaded exactly once on the list of its message id key *)
(* and exactly once on the list of its exchange, and the lists hold        *)
(* nothing else: no dangling frame of an earlier file, no record that a    *)
(* redissection filed a second time (FindOrCreateMessageRecord).           *)
(***************************************************************************)
Injective(list) == \A i, j \in 1..Len(list) : list[i] = list[j] => i = j

RecordsFiledOnce ==
  /\ \A k \in DOMAIN msgIdTable :
       /\ Injective(msgIdTable[k])
       /\ \A f \in Elements(msgIdTable[k]) : f \in DOMAIN rec /\ rec[f].msgIdKey = k
  /\ \A k \in DOMAIN exchangeTable :
       /\ Injective(exchangeTable[k])
       /\ \A f \in Elements(exchangeTable[k]) : f \in DOMAIN rec /\ rec[f].exchangeKey = k
  /\ \A f \in DOMAIN rec :
       /\ rec[f].msgIdKey \in DOMAIN msgIdTable
       /\ f \in Elements(MsgIdList(f))
       /\ rec[f].exchangeKey \in DOMAIN exchangeTable
       /\ f \in Elements(ExchangeList(f))

(***************************************************************************)
(* An ackedBy pointer leads forward: to a recorded frame that is later     *)
(* than the acked one and holds an ack for it (FindAckedMessages).         *)
(***************************************************************************)
Acks(q, p) ==
  \E i \in 1..Len(frames[q]) :
    /\ Readable(frames[q][i])
    /\ AckIsTracked(frames[q][i])
    /\ AckKey(frames[q][i]) = rec[p].msgIdKey

AckedByLaterAck ==
  \A p \in DOMAIN rec : rec[p].ackedBy # Null =>
    /\ rec[p].ackedBy \in DOMAIN rec
    /\ p < rec[p].ackedBy
    /\ Acks(rec[p].ackedBy, p)

(***************************************************************************)
(* "Retransmission k of n": the copies of a message are numbered 0..n      *)
(* without gaps and all of them show the same n, whatever the order their  *)
(* records were created in (FindRetransmissions).                          *)
(***************************************************************************)
Copies(f) == SameMessage(Elements(MsgIdList(f)), f)

RetransmissionsNumbered ==
  \A f \in DOMAIN rec :
    /\ {RetransNum(g) : g \in Copies(f)} = 0..TotalRetrans(f)
    /\ \A g \in Copies(f) : TotalRetrans(g) = TotalRetrans(f)

(***************************************************************************)
(* The frame that the exchange filter of f names as the start is itself    *)
(* selected by that filter, and so is everything on the exchange list      *)
(* between the start and f (FindStartOfExchange).                          *)
(***************************************************************************)
ExchangeFilterIsContiguous ==
  \A f \in DOMAIN rec :
    LET list == ExchangeList(f)
        from == Position(list, FindStartOfExchange(f))
    IN  \A i \in from..Position(list, f) : list[i] \in ExchangeFilter(f)

(***************************************************************************)
(* Every frame that DissectMatter points back at - the original of a       *)
(* retransmission, the first user of a message counter, the start of the   *)
(* exchange - is not later than the frame it is shown for.                 *)
(***************************************************************************)
ShownFramesAreEarlier ==
  \A f \in DOMAIN rec :
    /\ RetransOf(f) # Null => RetransOf(f) < f
    /\ ReusesMsgCntrFrom(f) # Null => ReusesMsgCntrFrom(f) < f
    /\ FindStartOfExchange(f) <= f

(***************************************************************************)
(* With no key learnt after the pass began, the lists are in frame order   *)
(* however often frames are dissected again (AddToList appends).           *)
(***************************************************************************)
Ascending(list) == \A i, j \in 1..Len(list) : i < j => list[i] < list[j]

ListsInFrameOrder ==
  /\ \A k \in DOMAIN msgIdTable : Ascending(msgIdTable[k])
  /\ \A k \in DOMAIN exchangeTable : Ascending(exchangeTable[k])

(***************************************************************************)
(* Between two frames, a frame the pass has reached has a record exactly   *)
(* when one of its messages is readable (DissectMatter).                   *)
(***************************************************************************)
HasReadable(f) == \E i \in 1..Len(frames[f]) : Readable(frames[f][i])

ReadableFramesRecorded ==
  job = Idle => \A f \in 1..passed : f \in DOMAIN rec <=> HasReadable(f)

(***************************************************************************)
(* Between two frames, ackedBy is exactly the earliest later frame with an *)
(* ack, whatever was dissected again in between (FindAckedMessages).       *)
(***************************************************************************)
AckedByEarliestAck ==
  job = Idle => \A p \in DOMAIN rec :
    rec[p].ackedBy = LeastOrNull({q \in p+1..passed : Acks(q, p)})

(***************************************************************************)
(* Within one file scope a step only appends to the lists, never drops or  *)
(* changes a record's identity, and moves an ackedBy pointer only to an    *)
(* earlier ack (FindOrCreateMessageRecord, FindAckedMessages).             *)
(***************************************************************************)
Extends(old, new) == Len(old) <= Len(new) /\ \A i \in 1..Len(old) : new[i] = old[i]

SameIdentity(old, new) ==
  /\ new.fingerprint = old.fingerprint
  /\ new.isInitiator = old.isInitiator
  /\ new.msgIdKey = old.msgIdKey /\ new.exchangeKey = old.exchangeKey

GrowsOnly ==
  /\ \A k \in DOMAIN msgIdTable : Extends(msgIdTable[k], Lookup(msgIdTable', k))
  /\ \A k \in DOMAIN exchangeTable : Extends(exchangeTable[k], Lookup(exchangeTable', k))
  /\ \A f \in DOMAIN rec :
       /\ f \in DOMAIN rec'
       /\ SameIdentity(rec[f], rec'[f])
       /\ rec[f].ackedBy # Null =>
            rec'[f].ackedBy # Null /\ rec'[f].ackedBy <= rec[f].ackedBy

HistoryOnlyGrows ==
  [][passed' >= passed /\ frames' = frames => GrowsOnly]_vars
=============================================================================
