----------------------------- MODULE TCPFraming -----------------------------
(***************************************************************************)
(* How a stream of TCP is cut into messages.  tcp_dissect_pdus goes        *)
(* through a buffer, which holds a segment or what was put together of     *)
(* several; it asks GetMatterTCPMessageLength how long the message at an   *)
(* offset is, and that reads the length at the start of the buffer.  If    *)
(* the message is not whole, TCP waits for what is missing and starts over *)
(* with a buffer that begins with the message.                             *)
(***************************************************************************)
EXTENDS TCPStream

CONSTANTS
  Streams,
  Lengths    \* what the bytes of a message may say, taken for a length field

ASSUME StreamsAreStreams == \A s \in Streams : IsStream(s)
ASSUME LengthsAreLengths == Lengths \subseteq Nat

VARIABLES
  stream,
  received,   \* bytes that have been captured
  buffer,     \* the positions in the stream where it begins and ends
  at,         \* where tcp_dissect_pdus is
  need,       \* the position that has to be received before it goes on, or 0
  exact,      \* it goes on with the bytes up to need, not with all there are
  pdus        \* what was given to DissectMatter

vars == <<stream, received, buffer, at, need, exact, pdus>>

Init ==
  /\ stream \in Streams /\ received = 0
  /\ buffer = [from |-> 0, to |-> 0] /\ at = 0 /\ need = 0 /\ exact = FALSE /\ pdus = << >>

\* The values of a length field in the message k that begins here, or of other bytes.
LengthField(p) ==
  LET k == {n \in 1..Len(stream.ends) : StartOf(stream, n) = p}
  IN  IF k = {} THEN Lengths ELSE {SizeOf(stream, n) - LengthFieldSize : n \in k}

\* Mutation: the length field is not counted.
LengthWithoutField(tvb, offset) == LengthField(tvb.from)

\* GetMatterTCPMessageLength does not look at offset.
MessageLength(tvb, offset) == {length + LengthFieldSize : length \in LengthField(tvb.from)}
-----------------------------------------------------------------------------
Idle == at = buffer.to /\ need = 0 /\ buffer.to = received
Waits == need > received

\* A segment ends at the next of the cuts.
Segment ==
  /\ Idle \/ Waits
  /\ \E c \in stream.cuts :
       /\ c > received /\ \A d \in stream.cuts : d > received => c <= d
       /\ received' = c
  /\ UNCHANGED <<stream, buffer, at, need, exact, pdus>>

\* What no message that is put together has taken of a segment is dissected.
Rest ==
  /\ need = 0 /\ at = buffer.to /\ buffer.to < received
  /\ buffer' = [from |-> buffer.to, to |-> received]
  /\ UNCHANGED <<stream, received, at, need, exact, pdus>>

Reassemble ==
  /\ need # 0 /\ need <= received
  /\ buffer' = [from |-> at, to |-> IF exact THEN need ELSE received]
  /\ need' = 0
  /\ UNCHANGED <<stream, received, at, exact, pdus>>

Dissecting == need = 0 /\ at < buffer.to

\* Too little is left for a length field: DESEGMENT_ONE_MORE_SEGMENT.
AskForSegment ==
  /\ Dissecting /\ buffer.to - at < LengthFieldSize
  /\ need' = buffer.to + 1 /\ exact' = FALSE
  /\ UNCHANGED <<stream, received, buffer, at, pdus>>

\* Mutation: a message is handed over although its end is missing.
HandOverPart ==
  /\ Dissecting /\ buffer.to - at >= LengthFieldSize
  /\ \E length \in MessageLength(buffer, at) :
       /\ pdus' = Append(pdus, [from |-> at, to |-> at + length])
       /\ at' = at + length
  /\ UNCHANGED <<stream, received, buffer, need, exact>>

\* Mutation: a message that ends with the buffer is waited for.
WaitForNext ==
  /\ Dissecting /\ buffer.to - at >= LengthFieldSize
  /\ \E length \in MessageLength(buffer, at) :
       IF buffer.to - at <= length
       THEN need' = at + length + 1 /\ exact' = TRUE /\ UNCHANGED <<at, pdus>>
       ELSE /\ pdus' = Append(pdus, [from |-> at, to |-> at + length])
            /\ at' = at + length
            /\ UNCHANGED <<need, exact>>
  /\ UNCHANGED <<stream, received, buffer>>

\* Mutation: the next message is looked for as if this one had no length field.
GoOnWithField ==
  /\ Dissecting /\ buffer.to - at >= LengthFieldSize
  /\ \E length \in MessageLength(buffer, at) :
       IF buffer.to - at < length
       THEN need' = at + length /\ exact' = TRUE /\ UNCHANGED <<at, pdus>>
       ELSE /\ pdus' = Append(pdus, [from |-> at, to |-> at + length])
            /\ at' = at + length - LengthFieldSize
            /\ UNCHANGED <<need, exact>>
  /\ UNCHANGED <<stream, received, buffer>>

DissectPDU ==
  /\ Dissecting /\ buffer.to - at >= LengthFieldSize
  /\ \E length \in MessageLength(buffer, at) :
       IF buffer.to - at < length
       THEN need' = at + length /\ exact' = TRUE /\ UNCHANGED <<at, pdus>>
       ELSE /\ pdus' = Append(pdus, [from |-> at, to |-> at + length])
            /\ at' = at + length
            /\ UNCHANGED <<need, exact>>
  /\ UNCHANGED <<stream, received, buffer>>

DissectSegment == Rest \/ Reassemble \/ AskForSegment \/ DissectPDU

Next == Segment \/ DissectSegment

\* What has been captured is dissected; the capture may end at any time.
Spec == Init /\ [][Next]_vars /\ WF_vars(DissectSegment)
-----------------------------------------------------------------------------
(***************************************************************************)
(* Properties.                                                             *)
(***************************************************************************)
\* Every variable has its type, and what is dissected has been received.
TypeOK ==
  /\ IsStream(stream) /\ received \in Nat
  /\ buffer \in [from : Nat, to : Nat] /\ at \in buffer.from..buffer.to /\ buffer.to <= received
  /\ need \in Nat /\ exact \in BOOLEAN
  /\ pdus \in Seq([from : Nat, to : Nat])

(***************************************************************************)
(* No byte is given to DissectMatter twice, or passed over, whatever the   *)
(* lengths are that are read: each PDU begins where the last one ended.    *)
(***************************************************************************)
PdusAdjoin ==
  /\ \A k \in 1..Len(pdus) : pdus[k].from = IF k = 1 THEN 0 ELSE pdus[k - 1].to
  /\ at = IF pdus = << >> THEN 0 ELSE pdus[Len(pdus)].to

(***************************************************************************)
(* The PDUs are the messages of the stream in their order, none of them    *)
(* incomplete, up to the first segment that has messages of different      *)
(* sizes: of those the length field of the first is taken for all.         *)
(***************************************************************************)
Framing == INSTANCE MessageStream WITH delivered <- pdus

FramesMessages == Framing!StreamSpec
=============================================================================
