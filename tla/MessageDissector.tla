-------------------------- MODULE MessageDissector --------------------------
(***************************************************************************)
(* How the payload of a message is dissected.  A dissector goes through    *)
(* the elements of a container in one pass; by its rules it shows each,    *)
(* refuses it, or calls another dissector for what is in it.  All of them  *)
(* share one TLVDissector, which knows the containers that were entered;   *)
(* the calls that are under way are kept apart from it, in frames, since a *)
(* call that fails does not leave the containers that it entered.          *)
(* What is encoded in a byte string is a message of its own here, as it    *)
(* has its own TLVDissector and its caller ignores how it went.            *)
(***************************************************************************)
EXTENDS IMRules, SecureChannelRules, UDCRules, EmbeddedRules

CONSTANT Messages

VARIABLES
  msg,
  at,      \* the token that the next call of Next reads
  elem,    \* the element that the TLVDissector is on, or 0
  open,    \* the containers that it has entered
  frames,  \* the calls that are under way
  lines,   \* the items shown
  status   \* what the innermost call does, or how the message was left

vars == <<msg, at, elem, open, frames, lines, status>>

InteractionModel ==
  {"StatusResponse", "ReadRequest", "ReportData", "SubscribeRequest", "SubscribeResponse",
   "WriteRequest", "WriteResponse", "CommandRequest", "CommandResponse", "TimedRequest"}
SecureChannel ==
  {"PBKDFParamRequest", "PBKDFParamResponse", "PasePake1", "PasePake2", "PasePake3",
   "CaseSigma1", "CaseSigma2", "CaseSigma3", "CaseSigma2Resume"}
UserDirected == {"IdentificationDeclaration"}
Embedded == {"MatterCertificate", "AttestationElements", "NOCSRElements"}
Kinds == InteractionModel \cup SecureChannel \cup UserDirected \cup Embedded

ASSUME MessagesAreMessages == \A m \in Messages : IsMessage(m) /\ m.kind \in Kinds

\* What AddListItem calls for every element of a list.
ListElement ==
  [AttributePaths     |-> Path("Attribute"),
   EventPaths         |-> Path("Event"),
   EventFilters       |-> Enter("EventFilterIB"),
   DataVersionFilters |-> Enter("DataVersionFilterIB"),
   AttributeReports   |-> Enter("AttributeReportIB"),
   EventReports       |-> Enter("EventReportIB"),
   WriteRequests      |-> Enter("AttributeDataIB"),
   WriteResponses     |-> Enter("AttributeStatusIB"),
   CommandList        |-> Enter("CommandDataOfRequest"),
   InvokeResponses    |-> Enter("InvokeResponseIB"),
   TargetApps         |-> Enter("TargetApp")]

Lists == DOMAIN ListElement

Frame(r, c) == [does |-> r.arg, of |-> c, orElse |-> r.orElse, after |-> r.after, ids |-> r.ids]

MessageRule(f, t) ==
  CASE f.does = "StatusResponse"     -> StatusResponse(t)
    [] f.does = "ReadRequest"        -> ReadRequest(t)
    [] f.does = "ReportData"         -> ReportData(t)
    [] f.does = "SubscribeRequest"   -> SubscribeRequest(t)
    [] f.does = "SubscribeResponse"  -> SubscribeResponse(t)
    [] f.does = "WriteRequest"       -> WriteRequest(t)
    [] f.does = "WriteResponse"      -> WriteResponse(t)
    [] f.does = "CommandRequest"     -> CommandRequest(t)
    [] f.does = "CommandResponse"    -> CommandResponse(t)
    [] f.does = "TimedRequest"       -> TimedRequest(t)
    [] f.does = "PBKDFParamRequest"  -> PBKDFParamRequest(t)
    [] f.does = "PBKDFParamResponse" -> PBKDFParamResponse(t)
    [] f.does = "PasePake1"          -> PasePake1(t)
    [] f.does = "PasePake2"          -> PasePake2(t)
    [] f.does = "PasePake3"          -> PasePake3(t)
    [] f.does = "CaseSigma1"         -> CaseSigma1(t)
    [] f.does = "CaseSigma2"         -> CaseSigma2(t)
    [] f.does = "CaseSigma3"         -> CaseSigma3(t)
    [] f.does = "CaseSigma2Resume"   -> CaseSigma2Resume(t)
    [] f.does = "IdentificationDeclaration" -> IdentificationDeclaration(t)
    [] f.does = "MatterCertificate"   -> MatterCertificate(t)
    [] f.does = "AttestationElements" -> AttestationElements(t)
    [] f.does = "NOCSRElements"       -> NOCSRElements(t)

BlockRule(f, t) ==
  CASE f.does = "EventFilterIB"         -> EventFilterIB(t)
    [] f.does = "DataVersionFilterIB"   -> DataVersionFilterIB(t)
    [] f.does = "StatusIB"              -> StatusIB(t)
    [] f.does = "AttributeStatusIB"     -> AttributeStatusIB(t)
    [] f.does = "AttributeReportIB"     -> AttributeReportIB(t)
    [] f.does = "AttributeDataIB"       -> AttributeDataIB(t, f.ids)
    [] f.does = "EventReportIB"         -> EventReportIB(t)
    [] f.does = "CommandDataOfRequest"  -> CommandDataIB(t, f.ids, "RequestFields")
    [] f.does = "CommandDataOfResponse" -> CommandDataIB(t, f.ids, "ResponseFields")
    [] f.does = "CommandStatusIB"       -> CommandStatusIB(t)
    [] f.does = "InvokeResponseIB"      -> InvokeResponseIB(t)
    [] f.does = "SessionParameters"     -> SessionParameters(t)
    [] f.does = "PBKDFParameterSet"     -> PBKDFParameterSet(t)
    [] f.does = "TargetApp"             -> TargetApp(t)
    [] f.does = "CertificateDN"         -> CertificateDN(t)
    [] f.does = "ECDSASignature"        -> ECDSASignature(t)
    [] f.does = "CertificateExtensions" -> CertificateExtensions(t)
    [] f.does = "BasicConstraints"      -> BasicConstraints(t)
    [] f.does = "ExtendedKeyUsage"      -> ExtendedKeyUsage(t)
    [] f.does \in {"AttributeStruct", "RequestFields", "ResponseFields"} -> FieldOf(t, f.does, f.ids)

RuleFor(f, t) ==
  IF f.does \in Kinds THEN MessageRule(f, t)
  ELSE IF f.does \in Lists THEN ListElement[f.does] ELSE BlockRule(f, t)

\* The types that a callee accepts; the others are entered if they can be.
Accepts(does) ==
  IF does \in Lists \cup {"ExtendedKeyUsage"} THEN {"array", "path"}
  ELSE IF does \in {"CommandDataOfRequest", "CommandDataOfResponse", "InvokeResponseIB"} THEN Containers
  ELSE IF does \in {"CertificateDN", "CertificateExtensions"} THEN {"path", "structure"}
  ELSE {"structure"}
-----------------------------------------------------------------------------
Top == frames[Len(frames)]
Rest(s) == SubSeq(s, 1, Len(s) - 1)

\* An item for element i, with all that is in it unless another dissector goes on in it.
Line(i, as, whole, ids) ==
  [from |-> i, to |-> IF whole THEN msg.last[i] ELSE i, as |-> as, ids |-> ids]

\* What the TLVDissector is on after element i was shown; it leaves containers.
OnAfter(i) == IF IsContainerAt(msg, i) THEN 0 ELSE i

Init ==
  /\ msg \in Messages
  /\ at = 1 /\ elem = 0 /\ open = << >> /\ frames = << >> /\ lines = << >> /\ status = "start"

\* The handshakes enter what they find, the others an anonymous structure; that
\* of a certificate may be tagged as one.
Opens ==
  IF msg.kind \in SecureChannel THEN IsContainerAt(msg, 1)
  ELSE /\ TypeAt(msg, 1) = "structure"
       /\ \/ Tok(msg, 1).tag = "anonymous"
          \/ msg.kind = "MatterCertificate" /\ Tok(msg, 1).tag = "profile" /\ Tok(msg, 1).num = 1

Begin ==
  /\ status = "start"
  /\ IF Opens
     THEN /\ at' = 2 /\ open' = <<1>> /\ frames' = <<Frame(Enter(msg.kind), 1)>> /\ status' = "running"
     ELSE at' = After(msg, 1) /\ status' = "error" /\ UNCHANGED <<open, frames>>
  /\ elem' = 0 /\ UNCHANGED <<msg, lines>>

\* What the innermost call does with the element that Next reads.
Rule == RuleFor(Top, Tok(msg, at))

OnElement == status = "running" /\ Tok(msg, at).type # "end"
OnEnd     == status = "running" /\ Tok(msg, at).type = "end"

Fails(i) == status' = "failing" /\ elem' = i /\ UNCHANGED <<open, frames, lines>>

Shows(i, as, ids) ==
  /\ lines' = Append(lines, Line(i, as, TRUE, ids))
  /\ elem' = OnAfter(i) /\ UNCHANGED <<open, frames, status>>

\* Wireshark throws when an item is added in a field of another type.
Throws(i) == status' = "exception" /\ elem' = i /\ UNCHANGED <<open, frames, lines>>

RejectElement(i, r) == r.do = "reject" /\ Fails(i)

ShowElement(i, r) ==
  /\ r.do \in {"text", "generic", "named"}
  /\ IF r.field = "none" THEN Throws(i)
     ELSE Shows(i, IF r.do = "named" THEN r.arg ELSE r.do, r.ids)

\* AddTypedItem looks at the type of the element, and of the field only for integers.
ShowTyped(i, r) ==
  LET type == TypeAt(msg, i)
  IN  /\ r.do = "typed"
      /\ IF type = r.field THEN Shows(i, "typed", NoIds)
         ELSE IF type \in Containers \cup {"uint", "sint"} THEN Fails(i)
         ELSE Throws(i)

\* The elements of a path are read before it is known what there is to show.
ShowPath(i, r) ==
  /\ r.do = "path"
  /\ IF TypeAt(msg, i) \notin {"path", "structure"}
     THEN IF r.orElse = "generic" THEN Shows(i, "generic", NoIds) ELSE Fails(i)
     ELSE IF ~HasPathPart(msg, i, r.arg) THEN Fails(0)
     ELSE /\ lines' = Append(lines, Line(i, "path", TRUE, NoIds))
          /\ frames' = [frames EXCEPT ![Len(frames)].ids = IdsOf(msg, i, r.arg, @)]
          /\ elem' = 0 /\ UNCHANGED <<open, status>>

LeaveElement(i, r) == r.do = "leave" /\ Fails(0)

NextElement ==
  /\ OnElement
  /\ \E r \in {Rule} :
       RejectElement(at, r) \/ ShowElement(at, r) \/ ShowTyped(at, r) \/ ShowPath(at, r) \/ LeaveElement(at, r)
  /\ at' = After(msg, at) /\ UNCHANGED msg

\* AddInvokeResponseIB adds no item for its structure, the others do.
EnteredLine(i, r) ==
  IF r.arg = "InvokeResponseIB" THEN << >> ELSE <<Line(i, r.arg, FALSE, r.ids)>>

\* AddCommandDataIB adds its item before it enters the element.
FailsToEnter(i, r) ==
  /\ status' = "failing" /\ elem' = i /\ UNCHANGED <<open, frames>>
  /\ lines' = IF r.arg \in {"CommandDataOfRequest", "CommandDataOfResponse"}
              THEN Append(lines, Line(i, r.arg, FALSE, r.ids)) ELSE lines

EnterElement ==
  /\ OnElement
  /\ \E r \in {Rule} :
       /\ r.do = "enter"
       /\ IF TypeAt(msg, at) \in Accepts(r.arg)
          THEN /\ at' = at + 1 /\ elem' = 0
               /\ open' = Append(open, at) /\ frames' = Append(frames, Frame(r, at))
               /\ lines' = lines \o EnteredLine(at, r)
               /\ UNCHANGED status
          ELSE at' = After(msg, at) /\ FailsToEnter(at, r)
  /\ UNCHANGED msg

\* Mutation: the loop of a dissector does not end with its container.
StayAtEnd == OnEnd /\ UNCHANGED vars

\* Mutation: the container stays on the stack.
EndWithoutPop ==
  /\ OnEnd
  /\ at' = at + 1 /\ elem' = 0
  /\ frames' = Rest(frames)
  /\ status' = IF Len(frames) = 1 THEN "done" ELSE "running"
  /\ UNCHANGED <<msg, open, lines>>

\* END_OF_TLV: the caller goes on in the container around the one that is left.
EndContainer ==
  /\ OnEnd
  /\ at' = at + 1 /\ elem' = 0
  /\ open' = Rest(open) /\ frames' = Rest(frames)
  /\ status' = IF Len(frames) = 1 THEN "done"
               ELSE IF Top.after = "generic" THEN "failing" ELSE "running"
  /\ UNCHANGED <<msg, lines>>

\* Mutation: the caller goes on as if there had been no error.
ForgetError ==
  /\ status = "failing"
  /\ frames' = Rest(frames)
  /\ status' = IF Len(frames) = 1 THEN "error" ELSE IF Top.orElse = "generic" THEN "running" ELSE "failing"
  /\ UNCHANGED <<msg, at, elem, open, lines>>

\* Mutation: the caller shows the element that it had called for.
ShowBlockAgain ==
  /\ status = "failing"
  /\ frames' = Rest(frames)
  /\ IF Len(frames) > 1 /\ Top.orElse = "generic"
     THEN lines' = Append(lines, Line(Top.of, "generic", TRUE, NoIds)) /\ status' = "running"
     ELSE status' = (IF Len(frames) = 1 THEN "error" ELSE "failing") /\ UNCHANGED lines
  /\ UNCHANGED <<msg, at, elem, open>>

\* A call that failed returns to its caller, which fails too, or shows the
\* element that it is on, if there is one.  Containers are not left.
ReturnError ==
  /\ status = "failing"
  /\ frames' = Rest(frames)
  /\ IF Len(frames) > 1 /\ Top.orElse = "generic" /\ elem # 0
     THEN /\ lines' = Append(lines, Line(elem, "generic", TRUE, NoIds))
          /\ elem' = OnAfter(elem) /\ status' = "running"
     ELSE /\ status' = IF Len(frames) = 1 THEN "error" ELSE "failing"
          /\ UNCHANGED <<elem, lines>>
  /\ UNCHANGED <<msg, at, open>>

Next == Begin \/ NextElement \/ EnterElement \/ EndContainer \/ ReturnError

\* A message is dissected in one call.
Spec == Init /\ [][Next]_vars /\ WF_vars(Next)
-----------------------------------------------------------------------------
(***************************************************************************)
(* Properties.                                                             *)
(***************************************************************************)
Statuses == {"start", "running", "failing", "done", "error", "exception"}
Left == {"done", "error", "exception"}

Tokens(m) == 1..Len(m.toks)

Blocks == {"EventFilterIB", "DataVersionFilterIB", "StatusIB", "AttributeStatusIB", "AttributeReportIB",
           "AttributeDataIB", "EventReportIB", "CommandDataOfRequest", "CommandDataOfResponse",
           "CommandStatusIB", "InvokeResponseIB", "SessionParameters", "PBKDFParameterSet",
           "AttributeStruct", "RequestFields", "ResponseFields", "TargetApp", "CertificateDN",
           "ECDSASignature", "CertificateExtensions", "BasicConstraints", "ExtendedKeyUsage"}

IdsType(m) == (0..Len(m.toks)) \X (0..Len(m.toks))

FrameType(m) ==
  [does : Kinds \cup Lists \cup Blocks, of : Tokens(m), orElse : {"fail", "generic"},
   after : {"return", "generic"}, ids : IdsType(m)]

ItemLooks == {"text", "generic", "typed", "path", "Value", "AttributeValue"} \cup Blocks \cup Lists
LineType(m) == [from : Tokens(m), to : Tokens(m), as : ItemLooks, ids : IdsType(m)]

\* Every variable has its type.
TypeOK ==
  /\ msg.kind \in Kinds
  /\ at \in 1..Len(msg.toks) + 1 /\ elem \in 0..Len(msg.toks)
  /\ open \in Seq(Tokens(msg)) /\ frames \in Seq(FrameType(msg)) /\ lines \in Seq(LineType(msg))
  /\ status \in Statuses

(***************************************************************************)
(* The containers that the TLVDissector has entered are those around the   *)
(* element that it reads next, whatever has failed; a call under way has   *)
(* one of them to leave.                                                   *)
(***************************************************************************)
OpenIsAround ==
  /\ status \in {"running", "failing"} =>
       /\ frames # << >> /\ Len(frames) <= Len(open)
       /\ at \in Tokens(msg) /\ msg.parent[at] = open[Len(open)]
  /\ \A k \in 1..Len(open) : msg.parent[open[k]] = IF k = 1 THEN 0 ELSE open[k - 1]

(***************************************************************************)
(* Items come in the order of the encoding and none is shown twice, not    *)
(* even when one dissector fails and its caller shows the element instead. *)
(***************************************************************************)
ShownOnce ==
  \A k \in 1..Len(lines) - 1 : lines[k].to < lines[k + 1].from

(***************************************************************************)
(* Nothing is passed over silently: as long as there was no error that is  *)
(* left to be reported, every value before the element that is read next   *)
(* is in an item, be it that of a path or of a container around it.        *)
(***************************************************************************)
IsShown(i) == \E k \in 1..Len(lines) : lines[k].from <= i /\ i <= lines[k].to

NothingPassedOver ==
  status \in {"running", "done"} =>
    \A i \in 1..at - 1 : Tok(msg, i).type \in Scalars => IsShown(i)

\* Blocks in blocks are what the callers show in another way when they fail.
HasNestedBlock ==
  \E i \in 2..Len(msg.toks) :
    Tok(msg, i).type = "structure" /\ Tok(msg, i).tag \notin {"context", "anonymous"}

(***************************************************************************)
(* Each call reads the members of the container that it was called for,    *)
(* and a message that is done is read to its end.  A nested block that     *)
(* fails and is shown by its caller is the exception: the caller goes on   *)
(* in the middle of it.                                                    *)
(***************************************************************************)
KeepsPlace ==
  ~HasNestedBlock =>
    /\ status = "running" => open = [k \in 1..Len(frames) |-> frames[k].of]
    /\ status = "done" => at = Len(msg.toks) + 1

(***************************************************************************)
(* A value that is shown with the name of a field is named by the path in  *)
(* the same block, which comes before it, and by a request or a response   *)
(* according to the message.                                               *)
(***************************************************************************)
IsField(l) == l.as \in {"AttributeValue", "AttributeStruct", "RequestFields", "ResponseFields"}

\* The block of a value, or of the structure of fields that the value is in.
BlockOf(l) ==
  LET p == msg.parent[l.from]
  IN  IF \E k \in 1..Len(lines) : lines[k].from = p /\ lines[k].to = p /\ lines[k].as = l.as
      THEN msg.parent[p] ELSE p

OwnPath ==
  ~HasNestedBlock => \A n \in 1..Len(lines) : IsField(lines[n]) =>
    LET l == lines[n]
    IN  /\ \E p \in MembersOf(msg, BlockOf(l)) :
             p < l.from /\ l.ids[1] \in MembersOf(msg, p) /\ l.ids[2] \in MembersOf(msg, p)
        /\ l.as = "RequestFields" => msg.kind = "CommandRequest"
        /\ l.as = "ResponseFields" => msg.kind = "CommandResponse"

(***************************************************************************)
(* The dissection of a message returns.                                    *)
(***************************************************************************)
Returns == <>(status \in Left)
=============================================================================
