--------------------------- MODULE MCTrackerClaims ---------------------------
(***************************************************************************)
(* What the README and the tracker's own comments say of the tracker,      *)
(* stated over captures of one ordinary conversation each.  Node ids are   *)
(* absent (0) and the message version is 0, as in Matter unicast traffic,  *)
(* unless a capture needs otherwise.                                       *)
(***************************************************************************)
EXTENDS MessageTracker

Request ==
  [tcp |-> FALSE, stream |-> 0, msgVersion |-> 0,
   srcNodeId |-> 0, destNodeId |-> 0,
   sessionType |-> kMatterSessionType_Unicast, sessionId |-> 5,
   msgId |-> 10, initiator |-> TRUE, exchId |-> 1,
   ack |-> FALSE, ackMsgCntr |-> 0, kind |-> "Other", body |-> 1]

Response == [Request EXCEPT !.msgId = 20, !.initiator = FALSE]

\* One exchange of four messages, alternately from initiator and responder.
request1  == Request
response1 == [Response EXCEPT !.ack = TRUE, !.ackMsgCntr = 10]
request2  == [Request EXCEPT !.msgId = 11, !.ack = TRUE, !.ackMsgCntr = 20,
                             !.kind = "StatusReport"]
response2 == [Response EXCEPT !.msgId = 21, !.ack = TRUE, !.ackMsgCntr = 11,
                              !.kind = "SubscribeResponse"]
OneExchange == << <<request1>>, <<response1>>, <<request2>>, <<response2>> >>

\* Two sessions whose senders happen to use the same message counter.
otherSession == [Request EXCEPT !.sessionId = 6, !.exchId = 2, !.body = 2]
TwoSessions == << <<request1>>, <<otherSession>> >>

ClaimMessages == {request1, response1, request2, response2, otherSession}

OneExchangeCaptures == {OneExchange}
TwoSessionsCaptures == {TwoSessions}
-----------------------------------------------------------------------------
PduMessages(f) == {frames[f][i] : i \in 1..Len(frames[f])}

(***************************************************************************)
(* README.md:19, "Identifying Matter Message Reliability Protocol (MRP)    *)
(* acknowledgements": a readable UDP message that acks an earlier readable *)
(* message of its session and exchange is shown with the message it acks.  *)
(***************************************************************************)
AckOf(m, n) ==
  /\ m.ack /\ m.ackMsgCntr = n.msgId /\ m.initiator # n.initiator
  /\ m.sessionId = n.sessionId /\ m.exchId = n.exchId

AcknowledgementsIdentified ==
  job = Idle => \A f, g \in DOMAIN rec :
    g < f => \A m \in PduMessages(f), n \in PduMessages(g) :
      ~ m.tcp /\ AckOf(m, n) => AckedMsg(f, m) # Null

(***************************************************************************)
(* README.md:289, the Matter IM Subscription filter can be opened on "the  *)
(* SubscribeRequest/Response ... or any one of the StatusReports or        *)
(* StandAloneACKs associated with the subscription".                       *)
(***************************************************************************)
SubscriptionFilterOffered ==
  job = Idle => \A f \in DOMAIN rec : \A m \in PduMessages(f) :
    m.kind = "SubscribeResponse" => IMSubscriptionFilterIsValid(f)

(***************************************************************************)
(* A message counter belongs to one session: a message is reported as      *)
(* reusing the counter of a frame only if that frame holds a message of    *)
(* the same session (GetMessageIdTableAndKey's session tables, keyed by    *)
(* the session id).                                                        *)
(***************************************************************************)
ReuseWithinSession ==
  \A f \in DOMAIN rec : ReusesMsgCntrFrom(f) # Null =>
    \E m \in PduMessages(f), n \in PduMessages(ReusesMsgCntrFrom(f)) :
      m.sessionId = n.sessionId
=============================================================================
