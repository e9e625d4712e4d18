---------------------------- MODULE MatterMessage ----------------------------
(***************************************************************************)
(* A Matter message as DissectMatter sees it once its header and, when the *)
(* payload could be read, its exchange header have been parsed, and the    *)
(* constant-level decisions the dissector takes on it: is it encrypted,    *)
(* under which table and key is it tracked, and what does its fingerprint  *)
(* cover.                                                                  *)
(*                                                                         *)
(* The payload is one opaque value, `body'; two messages with equal fields *)
(* are byte-for-byte the same message (a retransmission).                  *)
(***************************************************************************)
EXTENDS MatterSession, Sequences

CONSTANTS
  Message,   \* the messages a capture may hold, records of MessageType
  Captures   \* the capture files: sequences of frames

(***************************************************************************)
(* The fields of MatterMessageInfo that the tracker reads.  tcp and stream *)
(* come from the packet (PT_TCP and the TCP conversation); srcNodeId and   *)
(* destNodeId are 0 when the header omits them; `kind' is what the         *)
(* protocol id and the opcode select.                                      *)
(***************************************************************************)
Kinds == {"StatusReport", "StandaloneAck", "SubscribeResponse", "Other"}

MessageType ==
  [tcp : BOOLEAN, stream : Nat, msgVersion : 0..15,
   srcNodeId : Nat, destNodeId : Nat, sessionType : 0..3, sessionId : Nat,
   msgId : Nat, initiator : BOOLEAN, exchId : Nat,
   ack : BOOLEAN, ackMsgCntr : Nat, kind : Kinds, body : Nat]

\* A frame is one datagram, or a TCP segment that completes several PDUs.
Frame == {p \in Seq(Message) : p # << >> /\ (Len(p) > 1 => \A i \in 1..Len(p) : p[i].tcp)}

ASSUME MessageAssumption == Message \subseteq MessageType
ASSUME CapturesAssumption == Captures \subseteq Seq(Frame) /\ Captures # {}

(***************************************************************************)
(* GetMessageIdTableAndKey.  The table is chosen by the session type that  *)
(* the caller passes for the encryption type and by the type of the        *)
(* session id; table and key together identify one list of records.        *)
(***************************************************************************)
GetMessageIdTableAndKey(src, msgId, encType, sessionId, tcp, stream) ==
  LET base == IF tcp THEN <<src, msgId, stream>> ELSE <<src, msgId>>
  IN  IF encType = kMatterEncryptionType_None
        THEN <<"Unencrypted", tcp, base>>
      ELSE IF GetType(sessionId) = kType_Session
        THEN <<"SessionEncrypted", tcp, Append(base, sessionId)>>
      ELSE <<"GroupEncrypted", tcp, base>>

\* The key under which the record of a message is filed.
MsgIdKey(m) ==
  GetMessageIdTableAndKey(m.srcNodeId, m.msgId, m.sessionType, m.sessionId,
                          m.tcp, IF m.tcp THEN m.stream ELSE 0)

\* The key under which the message that m acknowledges is looked up.
AckKey(m) ==
  GetMessageIdTableAndKey(m.destNodeId, m.ackMsgCntr, m.sessionType,
                          m.sessionId, FALSE, 0)

\* The initiator is the sender exactly when the I flag is set.
ExchangeKey(m) ==
  IF m.initiator THEN <<m.srcNodeId, m.destNodeId, m.exchId>>
                 ELSE <<m.destNodeId, m.srcNodeId, m.exchId>>

(***************************************************************************)
(* ComputeMessageFingerprint: a CRC of every header field and of all the   *)
(* bytes that follow the header, so of the whole message but the transport *)
(* it came by.  The CRC is taken to be injective.                          *)
(***************************************************************************)
ComputeMessageFingerprint(m) ==
  <<m.msgVersion, m.srcNodeId, m.destNodeId, m.sessionType, m.sessionId,
    m.msgId, m.initiator, m.exchId, m.ack, m.ackMsgCntr, m.kind, m.body>>
=============================================================================
