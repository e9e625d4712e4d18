--------------------------- MODULE MCMessageTracker ---------------------------
(***************************************************************************)
(* Small captures for MessageTracker.  Node 1 is the initiator, node 2 the *)
(* responder of every exchange.                                            *)
(***************************************************************************)
EXTENDS MessageTracker

Base ==
  [tcp |-> FALSE, stream |-> 0, msgVersion |-> 2,
   srcNodeId |-> 1, destNodeId |-> 2,
   sessionType |-> kMatterSessionType_Unicast,
   sessionId |-> kMatterSessionId_Unsecured,
   msgId |-> 10, initiator |-> TRUE, exchId |-> 1,
   ack |-> FALSE, ackMsgCntr |-> 0, kind |-> "Other", body |-> 1]

Answer == [Base EXCEPT !.srcNodeId = 2, !.destNodeId = 1, !.msgId = 20,
                       !.initiator = FALSE]

request   == Base
reused    == [Base EXCEPT !.body = 2]
ackOf     == [Answer EXCEPT !.ack = TRUE, !.ackMsgCntr = 10, !.kind = "StandaloneAck"]
secret    == [Base EXCEPT !.sessionId = 5]
secretAck == [ackOf EXCEPT !.sessionId = 5, !.msgId = 21]
groupMsg  == [secret EXCEPT !.sessionType = kMatterSessionType_Group]
pdu1      == [Base EXCEPT !.tcp = TRUE, !.stream = 7]
pdu2      == [Answer EXCEPT !.tcp = TRUE, !.stream = 7, !.sessionId = 5,
                            !.exchId = 2, !.kind = "StatusReport"]

AllMessages == {request, reused, ackOf, secret, secretAck, groupMsg, pdu1, pdu2}

\* Every capture of three frames, TCP frames with several PDUs among them.
MixedFrames == { <<request>>, <<reused>>, <<ackOf>>, <<secret>>, <<secretAck>>,
                 <<groupMsg>>, <<pdu2, pdu1>> }
MixedCaptures == [1..3 -> MixedFrames]

\* Longer captures of few messages: long lists, repeated acks.
LongFrames == { <<request>>, <<ackOf>>, <<secret>> }
LongCaptures == [1..5 -> LongFrames]
=============================================================================
