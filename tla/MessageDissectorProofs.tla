------------------------ MODULE MessageDissectorProofs ------------------------
(***************************************************************************)
(* That the dissectors keep their place, show nothing twice and pass over  *)
(* nothing, that the values of fields are named by the path in their own   *)
(* block, and by a request or a response as the message has it, and that   *)
(* what Matter defines is dissected to its end, in a bounded number of     *)
(* steps, for any well-formed messages and whatever fields have names.     *)
(***************************************************************************)
EXTENDS ConformingMessages, SequenceTheorems, WellFoundedInduction, TLAPS

(***************************************************************************)
(* The rules.  What all of them have in common, in a frame that remembers  *)
(* ids, for an element with the token t.                                   *)
(***************************************************************************)
Dos == {"reject", "text", "typed", "generic", "named", "path", "enter", "leave"}
FieldNames == {"Value", "AttributeValue", "AttributeStruct", "RequestFields", "ResponseFields"}

IsRule(r, t, ids) ==
  /\ r.do \in Dos
  /\ r.orElse \in {"fail", "generic"} /\ r.after \in {"return", "generic"}
  /\ r.ids \in {NoIds, ids}
  /\ r.do = "enter" => r.arg \in Lists \cup Blocks
  /\ r.do = "named" => r.arg \in FieldNames

\* A rule whose callee's failure is made up for enters a nested block.
FailsOrNests(r, t, f) ==
  r.do = "enter" /\ r.orElse = "generic" =>
    t.type = "structure" /\ t.tag # "context" /\ f.does \in {"AttributeStatusIB", "AttributeDataIB"}

\* What the operators on rules make of one.
LEMMA RuleFields ==
  ASSUME NEW do, NEW arg, NEW ids
  PROVE  /\ RuleOf(do, arg) = [do |-> do, arg |-> arg, field |-> "string", ids |-> NoIds,
                               orElse |-> "fail", after |-> "return"]
         /\ [RuleOf(do, arg) EXCEPT !.ids = ids] =
              [do |-> do, arg |-> arg, field |-> "string", ids |-> ids,
               orElse |-> "fail", after |-> "return"]
  BY DEF RuleOf

LEMMA FieldFields ==
  ASSUME NEW do, NEW arg, NEW field
  PROVE  [RuleOf(do, arg) EXCEPT !.field = field] =
           [do |-> do, arg |-> arg, field |-> field, ids |-> NoIds,
            orElse |-> "fail", after |-> "return"]
  BY DEF RuleOf

LEMMA OrGenericFields ==
  ASSUME NEW do, NEW arg
  PROVE  OrGeneric(RuleOf(do, arg)) =
           [do |-> do, arg |-> arg, field |-> "string", ids |-> NoIds,
            orElse |-> "generic", after |-> "return"]
  BY DEF OrGeneric, RuleOf

Good(r, t, f) == IsRule(r, t, f.ids) /\ FailsOrNests(r, t, f)

\* The simple rules.
LEMMA SimpleRules ==
  ASSUME NEW t, NEW f
  PROVE  /\ Good(Reject, t, f) /\ Good(Text, t, f) /\ Good(Generic, t, f)
         /\ Good(GenericInNone, t, f) /\ Good(Leave, t, f)
<1> USE DEF Good, IsRule, FailsOrNests, Dos
<1>1. Good(Reject, t, f)
  BY DEF Reject, RuleOf
<1>2. Good(Text, t, f)
  BY DEF Text, RuleOf
<1>3. Good(Generic, t, f)
  BY DEF Generic, RuleOf
<1>4. Good(GenericInNone, t, f)
  <2>1. GenericInNone = [do |-> "generic", arg |-> "none", field |-> "none", ids |-> NoIds,
                         orElse |-> "fail", after |-> "return"]
    BY FieldFields DEF GenericInNone, Generic
  <2> QED BY <2>1
<1>5. Good(Leave, t, f)
  BY DEF Leave, RuleOf
<1> QED BY <1>1, <1>2, <1>3, <1>4, <1>5

LEMMA TypedRules ==
  ASSUME NEW t, NEW f, NEW type
  PROVE  Good(Typed(type), t, f) /\ Good(Strict(t, type), t, f) /\ Good(UIntOrGeneric(t), t, f)
<1>1. Typed(type) = [do |-> "typed", arg |-> "none", field |-> type, ids |-> NoIds,
                     orElse |-> "fail", after |-> "return"]
  BY FieldFields DEF Typed
<1>2. Good(Typed(type), t, f)
  BY <1>1 DEF Good, IsRule, FailsOrNests, Dos
<1> QED BY <1>2, SimpleRules DEF Strict, UIntOrGeneric

LEMMA PathRules ==
  ASSUME NEW t, NEW f, NEW kind
  PROVE  Good(Path(kind), t, f) /\ Good(OrGeneric(Path(kind)), t, f)
<1>1. Path(kind) = [do |-> "path", arg |-> kind, field |-> "string", ids |-> NoIds,
                    orElse |-> "fail", after |-> "return"]
  BY RuleFields DEF Path
<1>2. OrGeneric(Path(kind)) = [do |-> "path", arg |-> kind, field |-> "string", ids |-> NoIds,
                               orElse |-> "generic", after |-> "return"]
  BY OrGenericFields DEF Path
<1> QED BY <1>1, <1>2 DEF Good, IsRule, FailsOrNests, Dos

LEMMA NamedRules ==
  ASSUME NEW t, NEW f, NEW what \in FieldNames
  PROVE  Good(Named(what, f.ids), t, f) /\ Good(Named(what, NoIds), t, f)
<1>1. ASSUME NEW i
      PROVE  Named(what, i) = [do |-> "named", arg |-> what, field |-> "string", ids |-> i,
                               orElse |-> "fail", after |-> "return"]
  BY RuleFields DEF Named
<1> QED BY <1>1 DEF Good, IsRule, FailsOrNests, Dos

LEMMA EnterRules ==
  ASSUME NEW t, NEW f, NEW h \in Lists \cup Blocks
  PROVE  /\ Good(Enter(h), t, f) /\ Good(EnterWith(h, f.ids), t, f)
         /\ Good(ListOr(t, h), t, f) /\ Good(ThenGeneric(ListOr(t, h)), t, f)
<1>1. Enter(h) = [do |-> "enter", arg |-> h, field |-> "string", ids |-> NoIds,
                  orElse |-> "fail", after |-> "return"]
  BY RuleFields DEF Enter
<1>2. EnterWith(h, f.ids) = [do |-> "enter", arg |-> h, field |-> "string", ids |-> f.ids,
                           orElse |-> "fail", after |-> "return"]
  BY RuleFields DEF EnterWith, Enter
<1>3. ThenGeneric(Enter(h)) = [do |-> "enter", arg |-> h, field |-> "string", ids |-> NoIds,
                               orElse |-> "fail", after |-> "generic"]
  BY <1>1 DEF ThenGeneric
<1>4. GenericInNone = [do |-> "generic", arg |-> "none", field |-> "none", ids |-> NoIds,
                       orElse |-> "fail", after |-> "return"]
  BY FieldFields DEF GenericInNone, Generic
<1>5. ThenGeneric(GenericInNone) = [do |-> "generic", arg |-> "none", field |-> "none", ids |-> NoIds,
                                    orElse |-> "fail", after |-> "generic"]
  BY <1>4 DEF ThenGeneric
<1>6. Good(Enter(h), t, f) /\ Good(EnterWith(h, f.ids), t, f) /\ Good(ThenGeneric(Enter(h)), t, f)
  BY <1>1, <1>2, <1>3 DEF Good, IsRule, FailsOrNests, Dos
<1>7. Good(GenericInNone, t, f) /\ Good(ThenGeneric(GenericInNone), t, f)
  BY <1>4, <1>5 DEF Good, IsRule, FailsOrNests, Dos
<1> QED BY <1>6, <1>7 DEF ListOr

LEMMA NestedRules ==
  ASSUME NEW t, NEW f, NEW h \in Blocks, t.tag # "context",
         f.does \in {"AttributeStatusIB", "AttributeDataIB"}
  PROVE  Good(Nested(t, h), t, f)
<1>1. OrGeneric(Enter(h)) = [do |-> "enter", arg |-> h, field |-> "string", ids |-> NoIds,
                             orElse |-> "generic", after |-> "return"]
  BY OrGenericFields DEF Enter
<1>2. CASE t.type = "structure"
  BY <1>1, <1>2 DEF Nested, Good, IsRule, FailsOrNests, Dos, Blocks
<1>3. CASE t.type # "structure"
  BY <1>3, SimpleRules DEF Nested
<1> QED BY <1>2, <1>3

LEMMA ContextualRules ==
  ASSUME NEW t, NEW f, NEW r, NEW other, t.tag = "context" => Good(r, t, f)
  PROVE  /\ Good(Contextual(t, r), t, f)
         /\ (t.tag # "context" => Good(other, t, f)) => Good(ContextualOr(t, other, r), t, f)
  BY SimpleRules DEF Contextual, ContextualOr

\* What the dissectors of certificates use.
LEMMA CertificateRules ==
  ASSUME NEW t, NEW f
  PROVE  /\ Good(NamedValue, t, f) /\ Good(EnumOrRaw(t), t, f) /\ Good(KeyUsage(t), t, f)
         /\ \A r : Good(r, t, f) => Good(Tagged(t, r), t, f)
<1>1. Good(NamedValue, t, f)
  BY NamedRules DEF NamedValue, FieldNames
<1> QED BY <1>1, SimpleRules DEF EnumOrRaw, KeyUsage, Tagged
-----------------------------------------------------------------------------
\* The names of the lists and of the blocks, as they are used in the rules.
LEMMA Callees ==
  /\ Lists = {"AttributePaths", "EventPaths", "EventFilters", "DataVersionFilters", "AttributeReports",
              "EventReports", "WriteRequests", "WriteResponses", "CommandList", "InvokeResponses", "TargetApps"}
  /\ Blocks = {"EventFilterIB", "DataVersionFilterIB", "StatusIB", "AttributeStatusIB", "AttributeReportIB",
               "AttributeDataIB", "EventReportIB", "CommandDataOfRequest", "CommandDataOfResponse",
               "CommandStatusIB", "InvokeResponseIB", "SessionParameters", "PBKDFParameterSet",
               "AttributeStruct", "RequestFields", "ResponseFields", "TargetApp", "CertificateDN",
               "ECDSASignature", "CertificateExtensions", "BasicConstraints", "ExtendedKeyUsage"}
  BY DEF Lists, ListElement, Blocks

LEMMA MessageRulesGood ==
  ASSUME NEW f, NEW t, f.does \in Kinds
  PROVE  Good(MessageRule(f, t), t, f)
<1>1. Good(StatusResponse(t), t, f)
  BY SimpleRules, ContextualRules DEF StatusResponse
<1>2. Good(ReadRequest(t), t, f)
  BY SimpleRules, EnterRules, ContextualRules, Callees DEF ReadRequest
<1>3. Good(ReportData(t), t, f)
  BY SimpleRules, EnterRules, ContextualRules, Callees DEF ReportData
<1>4. Good(SubscribeRequest(t), t, f)
  BY SimpleRules, EnterRules, ContextualRules, Callees DEF SubscribeRequest
<1>5. Good(SubscribeResponse(t), t, f)
  BY SimpleRules, ContextualRules DEF SubscribeResponse
<1>6. Good(WriteRequest(t), t, f)
  BY SimpleRules, EnterRules, ContextualRules, Callees DEF WriteRequest
<1>7. Good(WriteResponse(t), t, f)
  BY SimpleRules, EnterRules, ContextualRules, Callees DEF WriteResponse
<1>8. Good(CommandRequest(t), t, f)
  BY SimpleRules, TypedRules, EnterRules, ContextualRules, Callees DEF CommandRequest
<1>9. Good(CommandResponse(t), t, f)
  BY SimpleRules, EnterRules, ContextualRules, Callees DEF CommandResponse
<1>10. Good(TimedRequest(t), t, f)
  BY SimpleRules, TypedRules, ContextualRules DEF TimedRequest
<1>11. Good(PBKDFParamRequest(t), t, f)
  BY SimpleRules, TypedRules, EnterRules, ContextualRules, Callees DEF PBKDFParamRequest
<1>12. Good(PBKDFParamResponse(t), t, f)
  BY SimpleRules, TypedRules, EnterRules, ContextualRules, Callees DEF PBKDFParamResponse
<1>13. Good(PasePake1(t), t, f) /\ Good(PasePake2(t), t, f) /\ Good(PasePake3(t), t, f)
  BY SimpleRules, TypedRules, ContextualRules DEF PasePake1, PasePake2, PasePake3
<1>14. Good(CaseSigma1(t), t, f)
  BY SimpleRules, TypedRules, EnterRules, ContextualRules, Callees DEF CaseSigma1
<1>15. Good(CaseSigma2(t), t, f)
  BY SimpleRules, TypedRules, EnterRules, ContextualRules, Callees DEF CaseSigma2, Encrypted
<1>16. Good(CaseSigma3(t), t, f)
  BY SimpleRules, ContextualRules DEF CaseSigma3, Encrypted
<1>17. Good(CaseSigma2Resume(t), t, f)
  BY SimpleRules, TypedRules, EnterRules, ContextualRules, Callees DEF CaseSigma2Resume
<1>18. Good(IdentificationDeclaration(t), t, f)
  BY SimpleRules, TypedRules, EnterRules, ContextualRules, Callees DEF IdentificationDeclaration
<1>19. Good(MatterCertificate(t), t, f)
  BY SimpleRules, CertificateRules, EnterRules, Callees DEF MatterCertificate
<1>20. Good(AttestationElements(t), t, f)
  BY SimpleRules, CertificateRules DEF AttestationElements
<1>21. Good(NOCSRElements(t), t, f)
  BY SimpleRules, CertificateRules, ContextualRules DEF NOCSRElements
<1>22. Good(MessageRule(f, t), t, f)
  BY <1>1, <1>2, <1>3, <1>4, <1>5, <1>6, <1>7, <1>8, <1>9, <1>10, <1>11, <1>12, <1>13, <1>14, <1>15,
     <1>16, <1>17, <1>18, <1>19, <1>20, <1>21
     DEF MessageRule, Kinds, InteractionModel, SecureChannel, UserDirected, Embedded
<1> QED BY <1>22

LEMMA BlockRulesGood ==
  ASSUME NEW f, NEW t, f.does \in Blocks
  PROVE  Good(BlockRule(f, t), t, f)
<1>1. Good(EventFilterIB(t), t, f)
  BY SimpleRules, TypedRules, ContextualRules DEF EventFilterIB
<1>2. Good(DataVersionFilterIB(t), t, f)
  BY SimpleRules, TypedRules, PathRules, ContextualRules DEF DataVersionFilterIB
<1>3. Good(StatusIB(t), t, f)
  BY SimpleRules, TypedRules, ContextualRules DEF StatusIB
<1>4. f.does = "AttributeStatusIB" => Good(AttributeStatusIB(t), t, f)
  BY SimpleRules, PathRules, EnterRules, NestedRules, ContextualRules, Callees DEF AttributeStatusIB
<1>5. Good(AttributeReportIB(t), t, f)
  BY SimpleRules, EnterRules, ContextualRules, Callees DEF AttributeReportIB
<1>6. f.does = "AttributeDataIB" => Good(AttributeDataIB(t, f.ids), t, f)
  <2>1. Good(AttributeValue(t, f.ids), t, f)
    BY NamedRules, EnterRules, Callees DEF AttributeValue, FieldNames
  <2> QED BY <2>1, SimpleRules, TypedRules, PathRules, NestedRules, ContextualRules DEF AttributeDataIB
<1>7. Good(EventReportIB(t), t, f)
  BY SimpleRules DEF EventReportIB
<1>8. ASSUME NEW fields \in {"RequestFields", "ResponseFields"}
      PROVE  Good(CommandDataIB(t, f.ids, fields), t, f)
  BY SimpleRules, PathRules, EnterRules, ContextualRules, Callees DEF CommandDataIB
<1>9. Good(CommandStatusIB(t), t, f)
  BY SimpleRules, TypedRules, PathRules, EnterRules, ContextualRules, Callees DEF CommandStatusIB
<1>10. Good(InvokeResponseIB(t), t, f)
  BY SimpleRules, EnterRules, ContextualRules, Callees DEF InvokeResponseIB
<1>11. Good(SessionParameters(t), t, f) /\ Good(PBKDFParameterSet(t), t, f)
  BY SimpleRules, TypedRules, ContextualRules DEF SessionParameters, PBKDFParameterSet
<1>12. ASSUME NEW fields \in FieldNames
       PROVE  Good(FieldOf(t, fields, f.ids), t, f)
  BY SimpleRules, NamedRules, ContextualRules DEF FieldOf
<1>13. Good(TargetApp(t), t, f)
  BY SimpleRules, TypedRules, ContextualRules DEF TargetApp
<1>14. Good(CertificateDN(t), t, f) /\ Good(ECDSASignature(t), t, f)
  BY SimpleRules, CertificateRules, ContextualRules DEF CertificateDN, ECDSASignature
<1>15. Good(CertificateExtensions(t), t, f)
  BY SimpleRules, CertificateRules, EnterRules, Callees DEF CertificateExtensions
<1>16. Good(BasicConstraints(t), t, f) /\ Good(ExtendedKeyUsage(t), t, f)
  BY SimpleRules, CertificateRules DEF BasicConstraints, ExtendedKeyUsage
<1>17. Good(BlockRule(f, t), t, f)
  BY <1>1, <1>2, <1>3, <1>4, <1>5, <1>6, <1>7, <1>8, <1>9, <1>10, <1>11, <1>12, <1>13, <1>14, <1>15, <1>16
     DEF BlockRule, Blocks, FieldNames
<1> QED BY <1>17

LEMMA ListRulesGood ==
  ASSUME NEW does \in Lists, NEW t, NEW f
  PROVE  Good(ListElement[does], t, f)
<1>1. Good(Path("Attribute"), t, f) /\ Good(Path("Event"), t, f)
  BY PathRules
<1>2. /\ Good(Enter("EventFilterIB"), t, f) /\ Good(Enter("DataVersionFilterIB"), t, f)
      /\ Good(Enter("AttributeReportIB"), t, f) /\ Good(Enter("EventReportIB"), t, f)
      /\ Good(Enter("AttributeDataIB"), t, f) /\ Good(Enter("AttributeStatusIB"), t, f)
      /\ Good(Enter("CommandDataOfRequest"), t, f) /\ Good(Enter("InvokeResponseIB"), t, f)
      /\ Good(Enter("TargetApp"), t, f)
  BY EnterRules, Callees
<1> QED BY <1>1, <1>2 DEF ListElement, Lists

\* Whatever a frame does, its rules are good ones.
LEMMA RulesGood ==
  ASSUME NEW f, NEW t, f.does \in Kinds \cup Lists \cup Blocks
  PROVE  Good(RuleFor(f, t), t, f)
<1>1. CASE f.does \in Kinds
  BY <1>1, MessageRulesGood DEF RuleFor
<1>2. CASE f.does \notin Kinds /\ f.does \in Lists
  BY <1>2, ListRulesGood DEF RuleFor
<1>3. CASE f.does \notin Kinds /\ f.does \notin Lists
  BY <1>3, BlockRulesGood DEF RuleFor
<1> QED BY <1>1, <1>2, <1>3

LEMMA AcceptsContainers == ASSUME NEW does PROVE Accepts(does) \subseteq Containers
  BY DEF Accepts, Containers
-----------------------------------------------------------------------------
(***************************************************************************)
(* The rules.  Who calls for the blocks that fields are in, and what is    *)
(* named by the ids that a frame remembers.                                *)
(***************************************************************************)
FieldBlocks == {"AttributeStruct", "RequestFields", "ResponseFields"}

CallerOf ==
  [CommandList           |-> "CommandRequest",
   CommandDataOfRequest  |-> "CommandList",
   RequestFields         |-> "CommandDataOfRequest",
   InvokeResponses       |-> "CommandResponse",
   InvokeResponseIB      |-> "InvokeResponses",
   CommandDataOfResponse |-> "InvokeResponseIB",
   ResponseFields        |-> "CommandDataOfResponse",
   AttributeStruct       |-> "AttributeDataIB"]

LEMMA Called ==
  DOMAIN CallerOf = {"CommandList", "CommandDataOfRequest", "RequestFields", "InvokeResponses",
                     "InvokeResponseIB", "CommandDataOfResponse", "ResponseFields", "AttributeStruct"}
  BY DEF CallerOf

NamesByPath(r, f) ==
  \/ r.arg = "Value"
  \/ r.arg = "AttributeValue" /\ f.does = "AttributeDataIB" /\ r.ids = f.ids /\ f.ids # NoIds
  \/ r.arg = f.does /\ f.does \in FieldBlocks /\ r.ids = f.ids

PassesPath(r, f) ==
  /\ r.arg \in DOMAIN CallerOf => f.does = CallerOf[r.arg]
  /\ r.arg \in FieldBlocks => r.ids = f.ids /\ f.ids # NoIds
  /\ r.arg \notin FieldBlocks => r.ids = NoIds

Fits(r, f) ==
  /\ r.do = "named" => NamesByPath(r, f)
  /\ r.do = "enter" => PassesPath(r, f)
  /\ r.do = "path" => f.does \notin FieldBlocks

LEMMA SimpleFit ==
  ASSUME NEW f, NEW t, NEW type
  PROVE  /\ Fits(Reject, f) /\ Fits(Text, f) /\ Fits(Generic, f) /\ Fits(GenericInNone, f)
         /\ Fits(Leave, f) /\ Fits(Typed(type), f) /\ Fits(Strict(t, type), f)
         /\ Fits(UIntOrGeneric(t), f) /\ Fits(NamedValue, f)
<1>1. Fits(Reject, f) /\ Fits(Text, f) /\ Fits(Generic, f) /\ Fits(Leave, f)
  BY DEF Fits, Reject, Text, Generic, Leave, RuleOf
<1>2. /\ GenericInNone = [do |-> "generic", arg |-> "none", field |-> "none", ids |-> NoIds,
                           orElse |-> "fail", after |-> "return"]
      /\ Typed(type) = [do |-> "typed", arg |-> "none", field |-> type, ids |-> NoIds,
                        orElse |-> "fail", after |-> "return"]
  BY FieldFields DEF GenericInNone, Generic, Typed
<1>3. Fits(GenericInNone, f) /\ Fits(Typed(type), f)
  BY <1>2 DEF Fits
<1>4. NamedValue = [do |-> "named", arg |-> "Value", field |-> "string", ids |-> NoIds,
                    orElse |-> "fail", after |-> "return"]
  BY RuleFields DEF NamedValue, Named
<1>5. Fits(NamedValue, f)
  BY <1>4 DEF Fits, NamesByPath
<1> QED BY <1>1, <1>3, <1>5 DEF Strict, UIntOrGeneric

LEMMA PathFits ==
  ASSUME NEW f, NEW kind, f.does \notin FieldBlocks
  PROVE  Fits(Path(kind), f) /\ Fits(OrGeneric(Path(kind)), f)
<1>1. Path(kind) = [do |-> "path", arg |-> kind, field |-> "string", ids |-> NoIds,
                    orElse |-> "fail", after |-> "return"]
  BY RuleFields DEF Path
<1>2. OrGeneric(Path(kind)) = [do |-> "path", arg |-> kind, field |-> "string", ids |-> NoIds,
                               orElse |-> "generic", after |-> "return"]
  BY OrGenericFields DEF Path
<1> QED BY <1>1, <1>2 DEF Fits

\* A callee that is none of those that lead to fields is called without ids.
LEMMA EnterFits ==
  ASSUME NEW f, NEW t, NEW h, h \notin FieldBlocks, h \in DOMAIN CallerOf => f.does = CallerOf[h]
  PROVE  /\ Fits(Enter(h), f) /\ Fits(ListOr(t, h), f) /\ Fits(ThenGeneric(ListOr(t, h)), f)
         /\ Fits(OrGeneric(Enter(h)), f) /\ Fits(Nested(t, h), f)
<1>1. Enter(h) = [do |-> "enter", arg |-> h, field |-> "string", ids |-> NoIds,
                  orElse |-> "fail", after |-> "return"]
  BY RuleFields DEF Enter
<1>2. ThenGeneric(Enter(h)) = [do |-> "enter", arg |-> h, field |-> "string", ids |-> NoIds,
                               orElse |-> "fail", after |-> "generic"]
  BY <1>1 DEF ThenGeneric
<1>3. OrGeneric(Enter(h)) = [do |-> "enter", arg |-> h, field |-> "string", ids |-> NoIds,
                             orElse |-> "generic", after |-> "return"]
  BY OrGenericFields DEF Enter
<1>4. Fits(Enter(h), f) /\ Fits(ThenGeneric(Enter(h)), f) /\ Fits(OrGeneric(Enter(h)), f)
  BY <1>1, <1>2, <1>3 DEF Fits, PassesPath
<1>5. GenericInNone = [do |-> "generic", arg |-> "none", field |-> "none", ids |-> NoIds,
                       orElse |-> "fail", after |-> "return"]
  BY FieldFields DEF GenericInNone, Generic
<1>6. ThenGeneric(GenericInNone) = [do |-> "generic", arg |-> "none", field |-> "none", ids |-> NoIds,
                                    orElse |-> "fail", after |-> "generic"]
  BY <1>5 DEF ThenGeneric
<1>7. Fits(ThenGeneric(GenericInNone), f)
  BY <1>6 DEF Fits
<1> QED BY <1>4, <1>7, SimpleFit DEF ListOr, Nested

\* The blocks of fields are entered with the ids of the path, if there was one.
LEMMA EnterWithFits ==
  ASSUME NEW f, NEW h \in FieldBlocks, f.does = CallerOf[h], f.ids # NoIds
  PROVE  Fits(EnterWith(h, f.ids), f)
<1>1. EnterWith(h, f.ids) = [do |-> "enter", arg |-> h, field |-> "string", ids |-> f.ids,
                             orElse |-> "fail", after |-> "return"]
  BY RuleFields DEF EnterWith, Enter
<1> QED BY <1>1 DEF Fits, PassesPath

LEMMA NamedFits ==
  ASSUME NEW f, NEW what,
         \/ f.does \in FieldBlocks /\ what = f.does
         \/ f.does = "AttributeDataIB" /\ what = "AttributeValue" /\ f.ids # NoIds
  PROVE  Fits(Named(what, f.ids), f)
<1>1. Named(what, f.ids) = [do |-> "named", arg |-> what, field |-> "string", ids |-> f.ids,
                            orElse |-> "fail", after |-> "return"]
  BY RuleFields DEF Named
<1> QED BY <1>1 DEF Fits, NamesByPath

LEMMA ContextualFits ==
  ASSUME NEW f, NEW t, NEW r, NEW other, Fits(r, f)
  PROVE  /\ Fits(Contextual(t, r), f) /\ Fits(Tagged(t, r), f)
         /\ Fits(other, f) => Fits(ContextualOr(t, other, r), f)
  BY SimpleFit DEF Contextual, ContextualOr, Tagged

LEMMA CertificatesFit ==
  ASSUME NEW f, NEW t PROVE Fits(EnumOrRaw(t), f) /\ Fits(KeyUsage(t), f)
  BY SimpleFit DEF EnumOrRaw, KeyUsage
-----------------------------------------------------------------------------
\* The messages whose rules lead to no fields.
LEMMA OtherMessagesFit ==
  ASSUME NEW f, NEW t
  PROVE  /\ Fits(StatusResponse(t), f) /\ Fits(ReadRequest(t), f) /\ Fits(ReportData(t), f)
         /\ Fits(SubscribeRequest(t), f) /\ Fits(SubscribeResponse(t), f) /\ Fits(WriteRequest(t), f)
         /\ Fits(WriteResponse(t), f) /\ Fits(TimedRequest(t), f)
         /\ Fits(PBKDFParamRequest(t), f) /\ Fits(PBKDFParamResponse(t), f) /\ Fits(PasePake1(t), f)
         /\ Fits(PasePake2(t), f) /\ Fits(PasePake3(t), f) /\ Fits(CaseSigma1(t), f)
         /\ Fits(CaseSigma2(t), f) /\ Fits(CaseSigma3(t), f) /\ Fits(CaseSigma2Resume(t), f)
         /\ Fits(IdentificationDeclaration(t), f) /\ Fits(MatterCertificate(t), f)
         /\ Fits(AttestationElements(t), f) /\ Fits(NOCSRElements(t), f)
<1>1. Fits(StatusResponse(t), f) /\ Fits(SubscribeResponse(t), f)
  BY SimpleFit, ContextualFits DEF StatusResponse, SubscribeResponse
<1> DEFINE Uncalled == {"AttributePaths", "EventPaths", "EventFilters", "DataVersionFilters",
                        "AttributeReports", "EventReports", "WriteRequests", "WriteResponses",
                        "TargetApps", "SessionParameters", "PBKDFParameterSet", "CertificateDN",
                        "CertificateExtensions", "ECDSASignature"}
<1>2. ASSUME NEW h \in Uncalled
      PROVE  h \notin FieldBlocks /\ h \notin DOMAIN CallerOf
  BY Called DEF FieldBlocks
<1>3. ASSUME NEW h \in Uncalled
      PROVE  Fits(Enter(h), f) /\ Fits(ListOr(t, h), f) /\ Fits(ThenGeneric(ListOr(t, h)), f)
  BY <1>2, EnterFits
<1>4. Fits(ReadRequest(t), f)
  BY <1>3, SimpleFit, ContextualFits DEF ReadRequest
<1>5. Fits(ReportData(t), f)
  BY <1>3, SimpleFit, ContextualFits DEF ReportData
<1>6. Fits(SubscribeRequest(t), f)
  BY <1>3, SimpleFit, ContextualFits DEF SubscribeRequest
<1>7. Fits(WriteRequest(t), f) /\ Fits(WriteResponse(t), f)
  BY <1>3, SimpleFit, ContextualFits DEF WriteRequest, WriteResponse
<1>8. Fits(TimedRequest(t), f)
  BY SimpleFit, ContextualFits DEF TimedRequest
<1>9. Fits(PBKDFParamRequest(t), f) /\ Fits(PBKDFParamResponse(t), f)
  BY <1>3, SimpleFit, ContextualFits DEF PBKDFParamRequest, PBKDFParamResponse
<1>10. Fits(PasePake1(t), f) /\ Fits(PasePake2(t), f) /\ Fits(PasePake3(t), f)
  BY SimpleFit, ContextualFits DEF PasePake1, PasePake2, PasePake3
<1>11. Fits(CaseSigma1(t), f) /\ Fits(CaseSigma2Resume(t), f)
  BY <1>3, SimpleFit, ContextualFits DEF CaseSigma1, CaseSigma2Resume
<1>12. Fits(CaseSigma2(t), f) /\ Fits(CaseSigma3(t), f)
  BY <1>3, SimpleFit, ContextualFits DEF CaseSigma2, CaseSigma3, Encrypted
<1>13. Fits(IdentificationDeclaration(t), f)
  BY <1>3, SimpleFit, ContextualFits DEF IdentificationDeclaration
<1>14. Fits(MatterCertificate(t), f)
  BY <1>3, SimpleFit, CertificatesFit, ContextualFits DEF MatterCertificate
<1>15. Fits(AttestationElements(t), f) /\ Fits(NOCSRElements(t), f)
  BY SimpleFit, ContextualFits DEF AttestationElements, NOCSRElements
<1> QED BY <1>1, <1>4, <1>5, <1>6, <1>7, <1>8, <1>9, <1>10, <1>11, <1>12, <1>13, <1>14, <1>15

LEMMA CommandsFit ==
  ASSUME NEW f, NEW t
  PROVE  /\ f.does = "CommandRequest" => Fits(CommandRequest(t), f)
         /\ f.does = "CommandResponse" => Fits(CommandResponse(t), f)
<1>1. /\ "CommandList" \notin FieldBlocks /\ CallerOf["CommandList"] = "CommandRequest"
      /\ "InvokeResponses" \notin FieldBlocks /\ CallerOf["InvokeResponses"] = "CommandResponse"
  BY DEF FieldBlocks, CallerOf
<1>2. ASSUME f.does = "CommandRequest" PROVE Fits(CommandRequest(t), f)
  <2>1. Fits(Enter("CommandList"), f)
    BY <1>1, <1>2, EnterFits
  <2> QED BY <2>1, SimpleFit, ContextualFits DEF CommandRequest
<1>3. ASSUME f.does = "CommandResponse" PROVE Fits(CommandResponse(t), f)
  <2>1. Fits(Enter("InvokeResponses"), f)
    BY <1>1, <1>3, EnterFits
  <2> QED BY <2>1, SimpleFit, ContextualFits DEF CommandResponse
<1> QED BY <1>2, <1>3

LEMMA MessageRulesFit ==
  ASSUME NEW f, NEW t, f.does \in Kinds
  PROVE  Fits(MessageRule(f, t), f)
  BY OtherMessagesFit, CommandsFit
     DEF MessageRule, Kinds, InteractionModel, SecureChannel, UserDirected, Embedded

\* The blocks that neither hold a path for fields nor lead to one that does.
LEMMA OtherBlocksFit ==
  ASSUME NEW f, NEW t, f.does \notin FieldBlocks
  PROVE  /\ Fits(EventFilterIB(t), f) /\ Fits(DataVersionFilterIB(t), f) /\ Fits(StatusIB(t), f)
         /\ Fits(AttributeStatusIB(t), f) /\ Fits(AttributeReportIB(t), f) /\ Fits(EventReportIB(t), f)
         /\ Fits(CommandStatusIB(t), f) /\ Fits(SessionParameters(t), f) /\ Fits(PBKDFParameterSet(t), f)
         /\ Fits(TargetApp(t), f) /\ Fits(CertificateDN(t), f) /\ Fits(ECDSASignature(t), f)
         /\ Fits(CertificateExtensions(t), f) /\ Fits(BasicConstraints(t), f)
         /\ Fits(ExtendedKeyUsage(t), f)
<1> DEFINE Uncalled == {"StatusIB", "AttributeStatusIB", "AttributeDataIB", "BasicConstraints",
                        "ExtendedKeyUsage"}
<1>1. ASSUME NEW h \in Uncalled
      PROVE  h \notin FieldBlocks /\ h \notin DOMAIN CallerOf
  BY Called DEF FieldBlocks
<1>2. ASSUME NEW h \in Uncalled
      PROVE  Fits(Enter(h), f) /\ Fits(Nested(t, h), f)
  BY <1>1, EnterFits
<1>3. Fits(EventFilterIB(t), f) /\ Fits(DataVersionFilterIB(t), f) /\ Fits(StatusIB(t), f)
  BY SimpleFit, PathFits, ContextualFits DEF EventFilterIB, DataVersionFilterIB, StatusIB
<1>4. Fits(AttributeStatusIB(t), f)
  BY <1>2, SimpleFit, PathFits, ContextualFits DEF AttributeStatusIB
<1>5. Fits(AttributeReportIB(t), f) /\ Fits(EventReportIB(t), f)
  BY <1>2, SimpleFit, ContextualFits DEF AttributeReportIB, EventReportIB
<1>6. Fits(CommandStatusIB(t), f)
  BY <1>2, SimpleFit, PathFits, ContextualFits DEF CommandStatusIB
<1>7. Fits(SessionParameters(t), f) /\ Fits(PBKDFParameterSet(t), f) /\ Fits(TargetApp(t), f)
  BY SimpleFit, ContextualFits DEF SessionParameters, PBKDFParameterSet, TargetApp
<1>8. Fits(CertificateDN(t), f) /\ Fits(ECDSASignature(t), f)
  BY SimpleFit, ContextualFits DEF CertificateDN, ECDSASignature
<1>9. Fits(CertificateExtensions(t), f)
  BY <1>2, SimpleFit, CertificatesFit, ContextualFits DEF CertificateExtensions
<1>10. Fits(BasicConstraints(t), f) /\ Fits(ExtendedKeyUsage(t), f)
  BY SimpleFit, ContextualFits DEF BasicConstraints, ExtendedKeyUsage
<1> QED BY <1>3, <1>4, <1>5, <1>6, <1>7, <1>8, <1>9, <1>10

LEMMA AttributesFit ==
  ASSUME NEW f, NEW t, f.does = "AttributeDataIB"
  PROVE  Fits(AttributeDataIB(t, f.ids), f)
<1>1. f.does \notin FieldBlocks /\ "AttributeDataIB" \notin DOMAIN CallerOf
      /\ CallerOf["AttributeStruct"] = "AttributeDataIB" /\ "AttributeDataIB" \notin FieldBlocks
  BY Called DEF FieldBlocks, CallerOf
<1>2. Fits(Nested(t, "AttributeDataIB"), f) /\ Fits(OrGeneric(Path("AttributeIds")), f)
  BY <1>1, EnterFits, PathFits
<1>3. f.ids # NoIds => Fits(EnterWith("AttributeStruct", f.ids), f) /\ Fits(Named("AttributeValue", f.ids), f)
  BY <1>1, EnterWithFits, NamedFits DEF FieldBlocks
<1>4. Named("Value", NoIds) = NamedValue
  BY DEF NamedValue
<1>5. Fits(AttributeValue(t, f.ids), f)
  BY <1>3, <1>4, SimpleFit DEF AttributeValue
<1> QED BY <1>2, <1>5, SimpleFit, ContextualFits DEF AttributeDataIB

LEMMA CommandBlocksFit ==
  ASSUME NEW f, NEW t
  PROVE  /\ f.does = "CommandDataOfRequest" => Fits(CommandDataIB(t, f.ids, "RequestFields"), f)
         /\ f.does = "CommandDataOfResponse" => Fits(CommandDataIB(t, f.ids, "ResponseFields"), f)
         /\ f.does = "InvokeResponseIB" => Fits(InvokeResponseIB(t), f)
<1>1. ASSUME NEW fields \in FieldBlocks, f.does = CallerOf[fields], f.does \notin FieldBlocks
      PROVE  Fits(CommandDataIB(t, f.ids, fields), f)
  <2>1. f.ids # NoIds => Fits(EnterWith(fields, f.ids), f)
    BY <1>1, EnterWithFits
  <2> QED BY <1>1, <2>1, SimpleFit, PathFits, ContextualFits DEF CommandDataIB
<1>2. ASSUME f.does = "InvokeResponseIB"
      PROVE  Fits(InvokeResponseIB(t), f)
  <2>1. /\ "CommandDataOfResponse" \notin FieldBlocks /\ "CommandStatusIB" \notin FieldBlocks
        /\ CallerOf["CommandDataOfResponse"] = "InvokeResponseIB" /\ "CommandStatusIB" \notin DOMAIN CallerOf
    BY Called DEF FieldBlocks, CallerOf
  <2>2. Fits(Enter("CommandDataOfResponse"), f) /\ Fits(Enter("CommandStatusIB"), f)
    BY <1>2, <2>1, EnterFits
  <2> QED BY <2>2, SimpleFit, ContextualFits DEF InvokeResponseIB
<1>3. /\ CallerOf["RequestFields"] = "CommandDataOfRequest"
      /\ CallerOf["ResponseFields"] = "CommandDataOfResponse"
  BY DEF CallerOf
<1> QED BY <1>1, <1>2, <1>3 DEF FieldBlocks

LEMMA FieldsFit ==
  ASSUME NEW f, NEW t, f.does \in FieldBlocks
  PROVE  Fits(FieldOf(t, f.does, f.ids), f)
  BY SimpleFit, NamedFits, ContextualFits DEF FieldOf

LEMMA BlockRulesFit ==
  ASSUME NEW f, NEW t, f.does \in Blocks
  PROVE  Fits(BlockRule(f, t), f)
<1>1. CASE f.does \in FieldBlocks
  BY <1>1, FieldsFit DEF BlockRule, FieldBlocks
<1>2. CASE f.does \notin FieldBlocks
  BY <1>2, OtherBlocksFit, AttributesFit, CommandBlocksFit DEF BlockRule, Blocks, FieldBlocks
<1> QED BY <1>1, <1>2

LEMMA ListRulesFit ==
  ASSUME NEW f, f.does \in Lists
  PROVE  Fits(ListElement[f.does], f)
<1>1. f.does \notin FieldBlocks
  BY Callees DEF FieldBlocks
<1>2. Fits(Path("Attribute"), f) /\ Fits(Path("Event"), f)
  BY <1>1, PathFits
<1> DEFINE Uncalled == {"EventFilterIB", "DataVersionFilterIB", "AttributeReportIB", "EventReportIB",
                        "AttributeDataIB", "AttributeStatusIB", "TargetApp"}
<1>3. ASSUME NEW h \in Uncalled
      PROVE  h \notin FieldBlocks /\ h \notin DOMAIN CallerOf
  BY Called DEF FieldBlocks
<1>4. ASSUME NEW h \in Uncalled
      PROVE  Fits(Enter(h), f)
  BY <1>3, EnterFits
<1>5. /\ "CommandDataOfRequest" \notin FieldBlocks /\ CallerOf["CommandDataOfRequest"] = "CommandList"
      /\ "InvokeResponseIB" \notin FieldBlocks /\ CallerOf["InvokeResponseIB"] = "InvokeResponses"
  BY DEF FieldBlocks, CallerOf
<1>6. /\ f.does = "CommandList" => Fits(Enter("CommandDataOfRequest"), f)
      /\ f.does = "InvokeResponses" => Fits(Enter("InvokeResponseIB"), f)
  BY <1>5, EnterFits
<1> QED BY <1>2, <1>4, <1>6 DEF ListElement, Lists

\* Whatever a frame does, its rules name by its ids and pass them on.
LEMMA RulesFit ==
  ASSUME NEW f, NEW t, f.does \in Kinds \cup Lists \cup Blocks
  PROVE  Fits(RuleFor(f, t), f)
<1>1. CASE f.does \in Kinds
  BY <1>1, MessageRulesFit DEF RuleFor
<1>2. CASE f.does \notin Kinds /\ f.does \in Lists
  BY <1>2, ListRulesFit DEF RuleFor
<1>3. CASE f.does \notin Kinds /\ f.does \notin Lists
  BY <1>3, BlockRulesFit DEF RuleFor
<1> QED BY <1>1, <1>2, <1>3
-----------------------------------------------------------------------------
(***************************************************************************)
(* Messages.                                                               *)
(***************************************************************************)
LEMMA LengthOf == ASSUME NEW m, IsMessage(m) PROVE Len(m.toks) \in Nat
<1>1. m.toks \in Seq([type : TokenTypes, tag : Tags, num : Nat, head : {1}, len : {0}])
  BY DEF IsMessage
<1> QED BY <1>1

LEMMA TokenFacts ==
  ASSUME NEW m, IsMessage(m), NEW i \in Tokens(m)
  PROVE  /\ m.last[i] \in Tokens(m) /\ m.last[i] >= i
         /\ m.parent[i] \in 0..Len(m.toks) /\ m.parent[i] < i /\ (m.parent[i] = 0 <=> i = 1)
         /\ m.toks[i].type \in TokenTypes
         /\ m.toks[i].type \in Containers => m.toks[m.last[i]].type = "end" /\ m.last[i] > i
         /\ m.toks[i].type \notin Containers => m.last[i] = i
         /\ i > 1 => m.toks[m.parent[i]].type \in Containers /\ i <= m.last[m.parent[i]]
         /\ i > 1 /\ m.toks[i].type = "end" => m.last[m.parent[i]] = i
         /\ i > 1 /\ m.toks[i].type # "end" => m.last[i] < m.last[m.parent[i]]
         /\ i > 1 /\ m.toks[i].type # "end" => TagFits(m.toks[m.parent[i]].type, m.toks[i].tag)
<1> DEFINE T == [type : TokenTypes, tag : Tags, num : Nat, head : {1}, len : {0}]
<1>0. m.toks \in Seq(T)
  BY DEF IsMessage
<1>1. m.toks[i] \in T
  <2> HIDE DEF T
  <2> QED BY <1>0 DEF Tokens
<1>2. /\ m.last[i] \in 1..Len(m.toks) /\ m.parent[i] \in 0..Len(m.toks)
      /\ m.last[i] >= i
      /\ m.toks[i].type \in Containers => m.toks[m.last[i]].type = "end" /\ m.last[i] > i
      /\ m.toks[i].type \notin Containers => m.last[i] = i
      /\ m.parent[i] < i /\ (m.parent[i] = 0 <=> i = 1)
      /\ i > 1 => m.toks[m.parent[i]].type \in Containers /\ i <= m.last[m.parent[i]]
      /\ i > 1 /\ m.toks[i].type = "end" => m.last[m.parent[i]] = i
      /\ i > 1 /\ m.toks[i].type # "end" => m.last[i] < m.last[m.parent[i]]
  BY DEF IsMessage, Tokens
<1>3. i > 1 /\ m.toks[i].type # "end" => TagFits(m.toks[m.parent[i]].type, m.toks[i].tag)
  <2>1. m.toks[i].type # "end" =>
          TagFits(IF i = 1 THEN "none" ELSE m.toks[m.parent[i]].type, m.toks[i].tag)
    BY DEF IsMessage, Tokens
  <2> QED BY <2>1 DEF Tokens
<1> QED BY <1>1, <1>2, <1>3 DEF Tokens

\* What is in an element ends with it, and is in nothing around it.
LEMMA Inside ==
  ASSUME NEW m, IsMessage(m), NEW i \in Tokens(m), NEW j \in i + 1..m.last[i]
  PROVE  m.parent[j] >= i /\ m.last[j] <= m.last[i] /\ j \in Tokens(m)
<1>1. m.last[i] \in Tokens(m) /\ Len(m.toks) \in Nat
  BY TokenFacts, LengthOf
<1>2. m.parent[j] >= i /\ m.last[j] <= m.last[i]
  BY DEF IsMessage, Tokens
<1> QED BY <1>1, <1>2 DEF Tokens

\* The first token in a container.
LEMMA FirstInside ==
  ASSUME NEW m, IsMessage(m), NEW i \in Tokens(m), m.toks[i].type \in Containers
  PROVE  i + 1 \in Tokens(m) /\ m.parent[i + 1] = i
<1>1. m.last[i] \in Tokens(m) /\ m.last[i] > i /\ Len(m.toks) \in Nat
  BY TokenFacts, LengthOf
<1>2. i + 1 \in i + 1..m.last[i]
  BY <1>1 DEF Tokens
<1>3. m.parent[i + 1] >= i /\ i + 1 \in Tokens(m)
  BY <1>2, Inside
<1>4. m.parent[i + 1] \in 0..Len(m.toks) /\ m.parent[i + 1] < i + 1
  BY <1>3, TokenFacts
<1> QED BY <1>1, <1>3, <1>4 DEF Tokens

\* What follows an element is in the same container.
LEMMA AfterElement ==
  ASSUME NEW m, IsMessage(m), NEW i \in Tokens(m), i > 1, m.toks[i].type # "end"
  PROVE  After(m, i) \in Tokens(m) /\ m.parent[After(m, i)] = m.parent[i]
<1> DEFINE p == m.parent[i]
           a == m.last[i] + 1
           q == m.parent[a]
<1>1. /\ p \in 0..Len(m.toks) /\ p # 0 /\ p < i
      /\ m.last[i] \in Tokens(m) /\ m.last[i] >= i /\ m.last[i] < m.last[p]
  BY TokenFacts DEF Tokens
<1>2. p \in Tokens(m) /\ Len(m.toks) \in Nat
  BY <1>1, LengthOf DEF Tokens
<1>3. m.last[p] \in Tokens(m)
  BY <1>2, TokenFacts
<1>4. a \in p + 1..m.last[p]
  BY <1>1, <1>2, <1>3 DEF Tokens
<1>5. q >= p /\ a \in Tokens(m)
  BY <1>2, <1>4, Inside
<1>6. a > 1
  BY <1>1 DEF Tokens
<1>7. q \in 0..Len(m.toks) /\ q < a /\ a <= m.last[q]
  BY <1>5, <1>6, TokenFacts
<1>8. q # i
  BY <1>1, <1>7 DEF Tokens
<1>9. ~(q > i)
  <2>1. SUFFICES ASSUME q > i PROVE FALSE
    OBVIOUS
  <2>2. q \in i + 1..m.last[i]
    BY <2>1, <1>1, <1>7 DEF Tokens
  <2>3. m.last[q] <= m.last[i] /\ q \in Tokens(m)
    BY <2>2, Inside
  <2>4. m.last[q] \in Tokens(m)
    BY <2>3, TokenFacts
  <2> QED BY <2>3, <2>4, <1>1, <1>7 DEF Tokens
<1>10. ~(p < q /\ q < i)
  <2>1. SUFFICES ASSUME p < q, q < i PROVE FALSE
    OBVIOUS
  <2>2. q \in Tokens(m)
    BY <2>1, <1>1, <1>7 DEF Tokens
  <2>3. m.last[q] \in Tokens(m)
    BY <2>2, TokenFacts
  <2>4. i \in q + 1..m.last[q]
    BY <2>1, <2>2, <2>3, <1>1, <1>7 DEF Tokens
  <2>5. m.parent[i] >= q
    BY <2>2, <2>4, Inside
  <2> QED BY <2>1, <2>2, <2>5, <1>1 DEF Tokens
<1>11. q = p
  BY <1>1, <1>5, <1>7, <1>8, <1>9, <1>10, <1>2 DEF Tokens
<1> QED BY <1>5, <1>11 DEF After

\* The end of a container is followed by what follows the container.
LEMMA AfterEnd ==
  ASSUME NEW m, IsMessage(m), NEW i \in Tokens(m), i > 1, m.toks[i].type = "end"
  PROVE  LET p == m.parent[i]
         IN  /\ p \in Tokens(m) /\ m.last[p] = i
             /\ p = 1 => i = Len(m.toks)
             /\ p # 1 => i + 1 \in Tokens(m) /\ m.parent[i + 1] = m.parent[p]
<1> DEFINE p == m.parent[i]
<1>1. p \in Tokens(m) /\ m.last[p] = i /\ m.toks[p].type \in Containers
  BY TokenFacts DEF Tokens
<1>2. p = 1 => i = Len(m.toks)
  BY <1>1 DEF IsMessage
<1>3. p # 1 => After(m, p) \in Tokens(m) /\ m.parent[After(m, p)] = m.parent[p]
  BY <1>1, AfterElement DEF Tokens, Containers
<1> QED BY <1>1, <1>2, <1>3 DEF After
-----------------------------------------------------------------------------
(***************************************************************************)
(* The ids of a path.                                                      *)
(***************************************************************************)
LEMMA LeastExists ==
  ASSUME NEW S, S \subseteq Nat, S # {}
  PROVE  Least(S) \in S
<1>1. PICK i \in S : \A j \in S : ~ (<<j, i>> \in OpToRel(<, Nat))
  BY NatLessThanWellFounded, WFMin
<1>2. \A j \in S : ~ (j < i)
  BY <1>1 DEF OpToRel
<1>3. \E x \in S : \A j \in S : x <= j
  BY <1>2
<1> QED BY <1>3 DEF Least

LEMMA GreatestExists ==
  ASSUME NEW n \in Nat, NEW S, S \subseteq 0..n, S # {}
  PROVE  Greatest(S) \in S
<1> DEFINE T == {n - x : x \in S}
<1>1. T # {} /\ T \subseteq Nat
  <2>1. \A x \in S : n - x \in Nat
    OBVIOUS
  <2>2. PICK x \in S : TRUE
    OBVIOUS
  <2>3. n - x \in T
    OBVIOUS
  <2> QED BY <2>1, <2>3
<1>2. PICK i \in T : \A j \in T : ~ (<<j, i>> \in OpToRel(<, Nat))
  BY <1>1, NatLessThanWellFounded, WFMin
<1>3. \A j \in T : ~ (j < i)
  BY <1>1, <1>2 DEF OpToRel
<1>4. PICK x \in S : i = n - x
  OBVIOUS
<1>5. ASSUME NEW y \in S PROVE y <= x
  <2>1. n - y \in T
    OBVIOUS
  <2>2. ~ (n - y < n - x)
    BY <2>1, <1>3, <1>4
  <2>3. x \in 0..n /\ y \in 0..n
    OBVIOUS
  <2> QED BY <2>2, <2>3
<1> QED BY <1>5 DEF Greatest

LEMMA IdsTyped ==
  ASSUME NEW m, IsMessage(m), NEW i \in Tokens(m), NEW kind, NEW ids \in IdsType(m)
  PROVE  IdsOf(m, i, kind, ids) \in IdsType(m)
<1>1. Len(m.toks) \in Nat /\ m.last[i] \in Tokens(m)
  BY LengthOf, TokenFacts
<1>2. ASSUME NEW k
      PROVE  PathPart(m, i, kind, k) \in 0..Len(m.toks)
  <2>1. PathParts(m, i, kind, k) \subseteq 0..Len(m.toks)
    BY <1>1 DEF PathParts, MembersOf, Tokens
  <2>2. CASE PathParts(m, i, kind, k) = {}
    BY <1>1, <2>2 DEF PathPart
  <2>3. CASE PathParts(m, i, kind, k) # {} /\ Extracts(kind)
    BY <1>1, <2>1, <2>3, GreatestExists DEF PathPart
  <2>4. CASE PathParts(m, i, kind, k) # {} /\ ~Extracts(kind)
    <3>1. PathParts(m, i, kind, k) \subseteq Nat
      BY <1>1, <2>1
    <3>2. Least(PathParts(m, i, kind, k)) \in PathParts(m, i, kind, k)
      BY <2>4, <3>1, LeastExists
    <3> QED BY <2>1, <2>4, <3>2 DEF PathPart
  <2> QED BY <2>2, <2>3, <2>4
<1>3. PathPart(m, i, kind, 2) \in 0..Len(m.toks) /\ PathPart(m, i, kind, 3) \in 0..Len(m.toks)
  BY <1>2
<1> QED BY <1>3 DEF IdsOf, IdsType
-----------------------------------------------------------------------------
(***************************************************************************)
(* What the steps do.                                                      *)
(***************************************************************************)
Fresh ==
  status = "start" =>
    at = 1 /\ elem = 0 /\ open = << >> /\ frames = << >> /\ lines = << >>

WellTyped == msg \in Messages /\ TypeOK /\ Fresh

LEMMA TheMessage ==
  ASSUME WellTyped
  PROVE  IsMessage(msg) /\ msg.kind \in Kinds /\ Len(msg.toks) \in Nat /\ 1 \in Tokens(msg)
<1>1. IsMessage(msg) /\ msg.kind \in Kinds
  BY MessagesAreMessages DEF WellTyped
<1>2. Len(msg.toks) > 0
  BY <1>1 DEF IsMessage
<1> QED BY <1>1, <1>2, LengthOf DEF Tokens

\* The innermost call and the container that it is in.
LEMMA Innermost ==
  ASSUME WellTyped, OpenIsAround, status \in {"running", "failing"}
  PROVE  /\ at \in Tokens(msg) /\ at > 1
         /\ Len(open) \in Nat /\ Len(open) > 0 /\ open[Len(open)] = msg.parent[at]
         /\ frames # << >> /\ Len(frames) \in Nat /\ Len(frames) > 0 /\ Len(frames) <= Len(open)
         /\ Top \in FrameType(msg)
<1>1. /\ at \in Tokens(msg) /\ frames # << >> /\ Len(frames) <= Len(open)
      /\ msg.parent[at] = open[Len(open)]
  BY DEF OpenIsAround
<1>2. frames \in Seq(FrameType(msg)) /\ open \in Seq(Tokens(msg))
  BY DEF WellTyped, TypeOK
<1>3. Len(frames) \in Nat /\ Len(frames) > 0 /\ Len(open) \in Nat
  <2> HIDE DEF WellTyped, OpenIsAround
  <2> QED BY <1>1, <1>2
<1>4. Top \in FrameType(msg)
  BY <1>2, <1>3 DEF Top
<1>5. open[Len(open)] \in Tokens(msg)
  BY <1>1, <1>2, <1>3
<1>6. at # 1
  BY <1>1, <1>5, TheMessage, TokenFacts DEF Tokens
<1> QED BY <1>1, <1>3, <1>4, <1>6 DEF Tokens

\* The element that Next reads.
LEMMA TheElement ==
  ASSUME WellTyped, OpenIsAround, OnElement
  PROVE  /\ TypeAt(msg, at) = Tok(msg, at).type /\ Tok(msg, at).type # "end"
         /\ msg.last[at] \in Tokens(msg) /\ msg.last[at] >= at
         /\ After(msg, at) = msg.last[at] + 1 /\ After(msg, at) \in Tokens(msg)
         /\ msg.parent[After(msg, at)] = msg.parent[at]
         /\ Good(Rule, Tok(msg, at), Top)
<1>1. status = "running" /\ Tok(msg, at).type # "end"
  BY DEF OnElement
<1>2. at \in Tokens(msg) /\ at > 1 /\ Top \in FrameType(msg)
  BY <1>1, Innermost
<1>3. TypeAt(msg, at) = Tok(msg, at).type
  BY <1>2 DEF TypeAt, Tok
<1>4. After(msg, at) \in Tokens(msg) /\ msg.parent[After(msg, at)] = msg.parent[at]
  BY <1>1, <1>2, TheMessage, AfterElement DEF Tok
<1>5. msg.last[at] \in Tokens(msg) /\ msg.last[at] >= at
  BY <1>2, TheMessage, TokenFacts
<1>6. Top.does \in Kinds \cup Lists \cup Blocks
  BY <1>2 DEF FrameType
<1>7. Good(Rule, Tok(msg, at), Top)
  BY <1>6, RulesGood DEF Rule
<1> QED BY <1>1, <1>3, <1>4, <1>5, <1>7 DEF After

\* The innermost call remembers other ids, or the same.
Remembers(ids) == [frames EXCEPT ![Len(frames)].ids = ids]

LEMMA Remembered ==
  ASSUME frames \in Seq(FrameType(msg)), frames # << >>, NEW ids \in IdsType(msg)
  PROVE  /\ Remembers(ids) \in Seq(FrameType(msg))
         /\ Len(Remembers(ids)) = Len(frames)
         /\ \A k \in 1..Len(frames) : /\ Remembers(ids)[k].does = frames[k].does
                                      /\ Remembers(ids)[k].of = frames[k].of
                                      /\ Remembers(ids)[k].orElse = frames[k].orElse
<1> DEFINE n == Len(frames)
           top == [frames[n] EXCEPT !.ids = ids]
<1>1. n \in Nat /\ n > 0
  OBVIOUS
<1>2. Remembers(ids) = [frames EXCEPT ![n] = top]
  BY DEF Remembers
<1>3. frames[n] \in FrameType(msg)
  BY <1>1
<1>4. /\ top \in FrameType(msg)
      /\ top.does = frames[n].does /\ top.of = frames[n].of /\ top.orElse = frames[n].orElse
  BY <1>3 DEF FrameType
<1> HIDE DEF top
<1>5. Len(Remembers(ids)) = n /\ Remembers(ids) \in Seq(FrameType(msg))
  BY <1>1, <1>2, <1>4
<1>6. ASSUME NEW k \in 1..n
      PROVE  Remembers(ids)[k] = IF k = n THEN top ELSE frames[k]
  BY <1>1, <1>2
<1> QED BY <1>4, <1>5, <1>6

\* An item for an element.
LEMMA LineTyped ==
  ASSUME IsMessage(msg), NEW i \in Tokens(msg), NEW as \in ItemLooks, NEW ids \in IdsType(msg)
  PROVE  /\ Line(i, as, TRUE, ids) \in LineType(msg)
         /\ Line(i, as, TRUE, ids).from = i /\ Line(i, as, TRUE, ids).to = msg.last[i]
<1>1. msg.last[i] \in Tokens(msg)
  BY TokenFacts
<1> QED BY <1>1 DEF Line, LineType

LEMMA HeadLineTyped ==
  ASSUME IsMessage(msg), NEW i \in Tokens(msg), NEW as \in ItemLooks, NEW ids \in IdsType(msg)
  PROVE  /\ Line(i, as, FALSE, ids) \in LineType(msg)
         /\ Line(i, as, FALSE, ids).from = i /\ Line(i, as, FALSE, ids).to = i
  BY DEF Line, LineType

LEMMA NoIdsTyped == ASSUME NEW m, IsMessage(m) PROVE NoIds \in IdsType(m)
<1>1. Len(m.toks) \in Nat
  BY LengthOf
<1> QED BY <1>1 DEF NoIds, IdsType

\* What is shown, and how the frames change when something is.
ShowsIt ==
  /\ \E l \in LineType(msg) :
       l.from = at /\ l.to = msg.last[at] /\ lines' = Append(lines, l)
  /\ frames' = frames \/ \E ids \in IdsType(msg) : frames' = Remembers(ids)
  /\ elem' \in {0, at} /\ open' = open /\ status' = "running"

FailsOn == status' = "failing" /\ elem' \in {0, at} /\ open' = open /\ frames' = frames /\ lines' = lines

\* AddCommandDataIB shows what it cannot enter.
CommandBlocks == {"CommandDataOfRequest", "CommandDataOfResponse"}

FailsShown ==
  /\ status' = "failing" /\ elem' = at /\ open' = open /\ frames' = frames
  /\ Tok(msg, at).type \notin Containers
  /\ \E h \in CommandBlocks :
       /\ Top.does = CallerOf[h]
       /\ \E l \in LineType(msg) : l.from = at /\ l.to = at /\ l.as = h /\ lines' = Append(lines, l)

ThrowsOn == status' = "exception" /\ elem' = at /\ open' = open /\ frames' = frames /\ lines' = lines

LEMMA ShowsEffect ==
  ASSUME WellTyped, OpenIsAround, OnElement, NEW as \in ItemLooks, NEW ids \in IdsType(msg),
         Shows(at, as, ids)
  PROVE  ShowsIt
<1>1. status = "running" /\ at \in Tokens(msg)
  BY Innermost DEF OnElement
<1>2. elem' \in {0, at}
  BY DEF Shows, OnAfter
<1>3. /\ Line(at, as, TRUE, ids) \in LineType(msg)
      /\ Line(at, as, TRUE, ids).from = at /\ Line(at, as, TRUE, ids).to = msg.last[at]
  BY <1>1, TheMessage, LineTyped
<1> QED BY <1>1, <1>2, <1>3 DEF ShowsIt, Shows

LEMMA ElementEffect ==
  ASSUME WellTyped, OpenIsAround, NextElement
  PROVE  OnElement /\ at' = After(msg, at) /\ msg' = msg /\ (ShowsIt \/ FailsOn \/ ThrowsOn)
<1>1. OnElement /\ at' = After(msg, at) /\ msg' = msg
  BY DEF NextElement
<1> SUFFICES ShowsIt \/ FailsOn \/ ThrowsOn
  BY <1>1
<1>2. status = "running" /\ at \in Tokens(msg) /\ Top \in FrameType(msg) /\ frames # << >>
  BY <1>1, Innermost DEF OnElement
<1>3. IsMessage(msg) /\ NoIds \in IdsType(msg) /\ Top.ids \in IdsType(msg)
  BY <1>2, TheMessage, NoIdsTyped DEF FrameType
<1> DEFINE r == Rule
<1>4. /\ r.do \in Dos /\ r.ids \in IdsType(msg)
      /\ r.do = "named" => r.arg \in ItemLooks
  <2>1. Good(r, Tok(msg, at), Top)
    BY <1>1, TheElement
  <2> HIDE DEF r
  <2> QED BY <2>1, <1>3 DEF Good, IsRule, FieldNames, ItemLooks, Blocks
<1>5. RejectElement(at, r) \/ ShowElement(at, r) \/ ShowTyped(at, r) \/ ShowPath(at, r) \/ LeaveElement(at, r)
  BY DEF NextElement
<1> HIDE DEF r
<1>6. CASE RejectElement(at, r)
  BY <1>6, <1>2 DEF RejectElement, Fails, FailsOn
<1>7. CASE LeaveElement(at, r)
  BY <1>7, <1>2 DEF LeaveElement, Fails, FailsOn
<1>8. CASE ShowElement(at, r)
  <2>1. CASE r.field = "none"
    BY <1>8, <2>1 DEF ShowElement, Throws, ThrowsOn
  <2>2. CASE r.field # "none"
    <3>1. (IF r.do = "named" THEN r.arg ELSE r.do) \in ItemLooks
      BY <1>4, <1>8 DEF ShowElement, ItemLooks
    <3>2. Shows(at, IF r.do = "named" THEN r.arg ELSE r.do, r.ids)
      BY <1>8, <2>2 DEF ShowElement
    <3> QED BY <3>1, <3>2, <1>1, <1>4, ShowsEffect
  <2> QED BY <2>1, <2>2
<1>9. CASE ShowTyped(at, r)
  <2>1. Shows(at, "typed", NoIds) \/ Fails(at) \/ Throws(at)
    BY <1>9 DEF ShowTyped
  <2>2. "typed" \in ItemLooks
    BY DEF ItemLooks
  <2>3. Shows(at, "typed", NoIds) => ShowsIt
    BY <2>2, <1>1, <1>3, ShowsEffect
  <2>4. Fails(at) => FailsOn
    BY DEF Fails, FailsOn
  <2>5. Throws(at) => ThrowsOn
    BY DEF Throws, ThrowsOn
  <2> QED BY <2>1, <2>3, <2>4, <2>5
<1>10. CASE ShowPath(at, r)
  <2>1. CASE TypeAt(msg, at) \notin {"path", "structure"}
    <3>1. Shows(at, "generic", NoIds) \/ Fails(at)
      BY <1>10, <2>1 DEF ShowPath
    <3>2. "generic" \in ItemLooks
      BY DEF ItemLooks
    <3>3. Shows(at, "generic", NoIds) => ShowsIt
      BY <3>2, <1>1, <1>3, ShowsEffect
    <3>4. Fails(at) => FailsOn
      BY DEF Fails, FailsOn
    <3> QED BY <3>1, <3>3, <3>4
  <2>2. CASE TypeAt(msg, at) \in {"path", "structure"} /\ ~HasPathPart(msg, at, r.arg)
    <3>1. Fails(0)
      BY <1>10, <2>2 DEF ShowPath
    <3> QED BY <3>1 DEF Fails, FailsOn
  <2>3. CASE TypeAt(msg, at) \in {"path", "structure"} /\ HasPathPart(msg, at, r.arg)
    <3>1. /\ lines' = Append(lines, Line(at, "path", TRUE, NoIds))
          /\ frames' = [frames EXCEPT ![Len(frames)].ids = IdsOf(msg, at, r.arg, @)]
          /\ elem' = 0 /\ open' = open /\ status' = status
      BY <1>10, <2>3 DEF ShowPath
    <3>2. "path" \in ItemLooks
      BY DEF ItemLooks
    <3>3. /\ Line(at, "path", TRUE, NoIds) \in LineType(msg)
          /\ Line(at, "path", TRUE, NoIds).from = at
          /\ Line(at, "path", TRUE, NoIds).to = msg.last[at]
      BY <3>2, <1>2, <1>3, LineTyped
    <3>4. IdsOf(msg, at, r.arg, Top.ids) \in IdsType(msg)
      BY <1>2, <1>3, IdsTyped
    <3>5. frames' = Remembers(IdsOf(msg, at, r.arg, Top.ids))
      BY <3>1 DEF Remembers, Top
    <3> QED BY <3>1, <3>3, <3>4, <3>5, <1>2 DEF ShowsIt
  <2> QED BY <2>1, <2>2, <2>3
<1> QED BY <1>5, <1>6, <1>7, <1>8, <1>9, <1>10

\* A block or a list is entered, for a call fr.
Enters(fr) ==
  /\ at' = at + 1 /\ elem' = 0 /\ status' = "running"
  /\ open' = Append(open, at) /\ frames' = Append(frames, fr)
  /\ lines' = lines \/ \E l \in LineType(msg) : l.from = at /\ l.to = at /\ lines' = Append(lines, l)

\* The call is for what is in the element that was read; what it makes of its
\* failure is as the rules have it.
IsCall(fr) ==
  /\ fr \in FrameType(msg) /\ fr.of = at
  /\ fr.does \notin Kinds /\ Tok(msg, at).type \in Accepts(fr.does)
  /\ fr.orElse = "generic" =>
       /\ Tok(msg, at).type = "structure" /\ Tok(msg, at).tag # "context"
       /\ Top.does \in {"AttributeStatusIB", "AttributeDataIB"}
  /\ fr.does \in DOMAIN CallerOf => Top.does = CallerOf[fr.does]

LEMMA EnterEffect ==
  ASSUME WellTyped, OpenIsAround, EnterElement
  PROVE  /\ OnElement /\ msg' = msg
         /\ \/ at' = After(msg, at) /\ (FailsOn \/ FailsShown)
            \/ \E fr \in FrameType(msg) : IsCall(fr) /\ Enters(fr)
<1> DEFINE r == Rule
<1>1. /\ OnElement /\ msg' = msg /\ r.do = "enter"
      /\ IF TypeAt(msg, at) \in Accepts(r.arg)
         THEN /\ at' = at + 1 /\ elem' = 0
              /\ open' = Append(open, at) /\ frames' = Append(frames, Frame(r, at))
              /\ lines' = lines \o EnteredLine(at, r)
              /\ UNCHANGED status
         ELSE at' = After(msg, at) /\ FailsToEnter(at, r)
  BY DEF EnterElement
<1>2. status = "running" /\ at \in Tokens(msg) /\ Top \in FrameType(msg) /\ frames # << >>
  BY <1>1, Innermost DEF OnElement
<1>3. IsMessage(msg) /\ NoIds \in IdsType(msg) /\ Top.ids \in IdsType(msg)
  BY <1>2, TheMessage, NoIdsTyped DEF FrameType
<1>4. Good(r, Tok(msg, at), Top) /\ Fits(r, Top) /\ TypeAt(msg, at) = Tok(msg, at).type
  <2>1. Top.does \in Kinds \cup Lists \cup Blocks
    BY <1>2 DEF FrameType
  <2> QED BY <1>1, <2>1, TheElement, RulesFit DEF Rule
<1> HIDE DEF r
<1>5. /\ r.orElse \in {"fail", "generic"} /\ r.after \in {"return", "generic"}
      /\ r.ids \in IdsType(msg) /\ r.arg \in Lists \cup Blocks
  BY <1>1, <1>3, <1>4 DEF Good, IsRule
<1>6. r.arg \in DOMAIN CallerOf => Top.does = CallerOf[r.arg]
  BY <1>1, <1>4 DEF Fits, PassesPath
<1>7. CASE TypeAt(msg, at) \notin Accepts(r.arg)
  <2>1. at' = After(msg, at) /\ FailsToEnter(at, r)
    BY <1>1, <1>7
  <2>2. CASE r.arg \notin CommandBlocks
    <3>1. FailsOn
      BY <2>1, <2>2 DEF FailsToEnter, FailsOn, CommandBlocks
    <3> QED BY <1>1, <2>1, <3>1
  <2>3. CASE r.arg \in CommandBlocks
    <3>1. Top.does = CallerOf[r.arg]
      BY <1>6, <2>3, Called DEF CommandBlocks
    <3>2. Tok(msg, at).type \notin Containers
      <4>1. Accepts(r.arg) = Containers
        BY <2>3 DEF Accepts, CommandBlocks, Lists, ListElement
      <4> QED BY <1>4, <1>7, <4>1
    <3>3. r.arg \in ItemLooks
      BY <1>5 DEF ItemLooks
    <3> DEFINE l == Line(at, r.arg, FALSE, r.ids)
    <3>4. l \in LineType(msg) /\ l.from = at /\ l.to = at
      BY <3>3, <1>2, <1>3, <1>5, HeadLineTyped
    <3>5. l.as = r.arg
      BY DEF Line
    <3>6. /\ status' = "failing" /\ elem' = at /\ open' = open /\ frames' = frames
          /\ lines' = Append(lines, l)
      BY <2>1, <2>3 DEF FailsToEnter, CommandBlocks
    <3> HIDE DEF l
    <3>7. FailsShown
      BY <2>3, <3>1, <3>2, <3>4, <3>5, <3>6 DEF FailsShown
    <3> QED BY <1>1, <2>1, <3>7
  <2> QED BY <2>2, <2>3
<1>8. CASE TypeAt(msg, at) \in Accepts(r.arg)
  <2> DEFINE fr == Frame(r, at)
  <2>1. /\ fr \in FrameType(msg) /\ fr.of = at /\ fr.does = r.arg /\ fr.orElse = r.orElse
    BY <1>2, <1>5 DEF Frame, FrameType
  <2>2. fr.does \notin Kinds
    BY <2>1, <1>5 DEF Lists, ListElement, Blocks, Kinds, InteractionModel, SecureChannel, UserDirected, Embedded
  <2>3. fr.orElse = "generic" =>
          /\ Tok(msg, at).type = "structure" /\ Tok(msg, at).tag # "context"
          /\ Top.does \in {"AttributeStatusIB", "AttributeDataIB"}
    BY <2>1, <1>1, <1>4 DEF Good, FailsOrNests
  <2>4. IsCall(fr)
    BY <2>1, <2>2, <2>3, <1>4, <1>8, <1>6 DEF IsCall
  <2>5. lines' = lines \/ \E l \in LineType(msg) : l.from = at /\ l.to = at /\ lines' = Append(lines, l)
    <3>1. lines \in Seq(LineType(msg))
      BY DEF WellTyped, TypeOK
    <3>2. CASE r.arg = "InvokeResponseIB"
      BY <1>1, <1>8, <3>1, <3>2 DEF EnteredLine
    <3>3. CASE r.arg # "InvokeResponseIB"
      <4>1. lines' = lines \o <<Line(at, r.arg, FALSE, r.ids)>>
        BY <1>1, <1>8, <3>3 DEF EnteredLine
      <4>2. r.arg \in ItemLooks
        BY <1>5 DEF ItemLooks
      <4>3. /\ Line(at, r.arg, FALSE, r.ids) \in LineType(msg)
            /\ Line(at, r.arg, FALSE, r.ids).from = at /\ Line(at, r.arg, FALSE, r.ids).to = at
        BY <4>2, <1>2, <1>3, <1>5, HeadLineTyped
      <4>4. lines' = Append(lines, Line(at, r.arg, FALSE, r.ids))
        BY <3>1, <4>1, <4>3, AppendIsConcat
      <4> QED BY <4>3, <4>4
    <3> QED BY <3>2, <3>3
  <2>6. Enters(fr)
    BY <1>1, <1>2, <1>8, <2>5 DEF Enters
  <2> QED BY <1>1, <2>1, <2>4, <2>6
<1> QED BY <1>7, <1>8

LEMMA AnotherLine ==
  ASSUME lines \in Seq(LineType(msg)),
         lines' = lines \/ \E l \in LineType(msg) : lines' = Append(lines, l)
  PROVE  lines' \in Seq(LineType(msg))
<1>1. CASE lines' = lines
  BY <1>1
<1>2. ASSUME NEW l \in LineType(msg), lines' = Append(lines, l)
      PROVE  lines' \in Seq(LineType(msg))
  <2>1. Append(lines, l) \in Seq(LineType(msg))
    BY AppendProperties
  <2> QED BY <1>2, <2>1
<1> QED BY <1>1, <1>2

\* What is left of a sequence without its last element.
LEMMA RestOf ==
  ASSUME NEW S, NEW s \in Seq(S), s # << >>
  PROVE  /\ Rest(s) \in Seq(S) /\ Len(Rest(s)) = Len(s) - 1
         /\ Len(s) \in Nat /\ Len(s) > 0
         /\ \A k \in 1..Len(s) - 1 : Rest(s)[k] = s[k]
<1>1. Len(s) \in Nat /\ Len(s) > 0 /\ \A i \in 1..Len(s) - 1 : s[i] \in S
  OBVIOUS
<1>2. /\ Rest(s) \in Seq(S)
      /\ Len(Rest(s)) = IF 1 <= Len(s) - 1 THEN Len(s) - 1 - 1 + 1 ELSE 0
      /\ \A i \in 1..Len(s) - 1 - 1 + 1 : Rest(s)[i] = s[1 + i - 1]
  BY <1>1, SubSeqProperties DEF Rest
<1>3. Len(Rest(s)) = Len(s) - 1
  <2>1. CASE Len(s) = 1
    BY <1>1, <1>2, <2>1
  <2>2. CASE Len(s) > 1
    BY <1>1, <1>2, <2>2
  <2>3. Len(s) = 1 \/ Len(s) > 1
    <3>1. \A n \in Nat : n > 0 => n = 1 \/ n > 1
      OBVIOUS
    <3> HIDE DEF Rest
    <3> QED BY <1>1, <3>1
  <2> QED BY <2>1, <2>2, <2>3
<1>4. ASSUME NEW k \in 1..Len(s) - 1
      PROVE  Rest(s)[k] = s[k]
  <2>1. k \in 1..Len(s) - 1 - 1 + 1 /\ 1 + k - 1 = k
    BY <1>1
  <2> QED BY <2>1, <1>2
<1> QED BY <1>1, <1>2, <1>3, <1>4
-----------------------------------------------------------------------------
(***************************************************************************)
(* The variables keep their types.                                         *)
(***************************************************************************)
LEMMA InitTyped == Init => WellTyped
<1> SUFFICES ASSUME Init PROVE WellTyped
  OBVIOUS
<1>1. msg \in Messages /\ Fresh
  BY DEF Init, Fresh
<1>2. IsMessage(msg) /\ msg.kind \in Kinds
  BY <1>1, MessagesAreMessages
<1>3. Len(msg.toks) \in Nat
  BY <1>2, LengthOf
<1>4. TypeOK
  BY <1>2, <1>3 DEF Init, TypeOK, Statuses
<1> QED BY <1>1, <1>4 DEF WellTyped

LEMMA KindFrame ==
  ASSUME WellTyped
  PROVE  LET fr == Frame(Enter(msg.kind), 1)
         IN  fr \in FrameType(msg) /\ fr.of = 1 /\ fr.does = msg.kind /\ fr.orElse = "fail"
<1>1. Enter(msg.kind) = [do |-> "enter", arg |-> msg.kind, field |-> "string", ids |-> NoIds,
                         orElse |-> "fail", after |-> "return"]
  BY RuleFields DEF Enter
<1>2. msg.kind \in Kinds /\ 1 \in Tokens(msg) /\ NoIds \in IdsType(msg)
  BY TheMessage, NoIdsTyped
<1> QED BY <1>1, <1>2 DEF Frame, FrameType

\* What a step has to keep, when it is one of the dissectors.
KeepsTypes ==
  /\ at' \in 1..Len(msg.toks) + 1 /\ elem' \in 0..Len(msg.toks)
  /\ open' \in Seq(Tokens(msg)) /\ frames' \in Seq(FrameType(msg)) /\ lines' \in Seq(LineType(msg))
  /\ status' \in Statuses \ {"start"} /\ msg' = msg

LEMMA KeptTypes == WellTyped /\ KeepsTypes => WellTyped'
<1> SUFFICES ASSUME WellTyped, KeepsTypes PROVE WellTyped'
  OBVIOUS
<1>1. msg' \in Messages /\ TypeOK'
  BY DEF WellTyped, TypeOK, KeepsTypes
<1>2. Fresh'
  BY DEF Fresh, KeepsTypes
<1> QED BY <1>1, <1>2 DEF WellTyped

LEMMA StepTyped ==
  ASSUME WellTyped, OpenIsAround, [Next]_vars
  PROVE  WellTyped'
<1>1. /\ msg.kind \in Kinds /\ open \in Seq(Tokens(msg)) /\ frames \in Seq(FrameType(msg))
      /\ lines \in Seq(LineType(msg)) /\ at \in 1..Len(msg.toks) + 1 /\ elem \in 0..Len(msg.toks)
      /\ status \in Statuses /\ msg \in Messages
  BY DEF WellTyped, TypeOK
<1>2. IsMessage(msg) /\ Len(msg.toks) \in Nat /\ 1 \in Tokens(msg)
  BY TheMessage
<1>3. CASE Begin
  <2>1. /\ status = "start" /\ elem' = 0 /\ msg' = msg /\ lines' = lines
        /\ \/ /\ at' = 2 /\ open' = <<1>> /\ frames' = <<Frame(Enter(msg.kind), 1)>>
              /\ status' = "running" /\ Opens
           \/ at' = After(msg, 1) /\ status' = "error" /\ open' = open /\ frames' = frames
    BY <1>3 DEF Begin
  <2>2. msg.last[1] \in Tokens(msg)
    BY <1>2, TokenFacts
  <2>3. Opens => 2 \in Tokens(msg)
    <3>1. Opens => msg.toks[1].type \in Containers
      BY <1>2 DEF Opens, TypeAt, IsContainerAt, Containers, Tokens
    <3>2. msg.toks[1].type \in Containers => 1 + 1 \in Tokens(msg)
      BY <1>2, FirstInside
    <3> QED BY <3>1, <3>2
  <2>4. at' \in 1..Len(msg.toks) + 1
    BY <1>2, <2>1, <2>2, <2>3 DEF After, Tokens
  <2>5. <<1>> \in Seq(Tokens(msg)) /\ <<Frame(Enter(msg.kind), 1)>> \in Seq(FrameType(msg))
    BY <1>2, KindFrame
  <2>6. open' \in Seq(Tokens(msg)) /\ frames' \in Seq(FrameType(msg)) /\ lines' \in Seq(LineType(msg))
    BY <1>1, <2>1, <2>5
  <2>7. status' \in Statuses \ {"start"} /\ elem' \in 0..Len(msg.toks) /\ msg' = msg
    BY <1>2, <2>1 DEF Statuses
  <2>8. KeepsTypes
    BY <2>4, <2>6, <2>7 DEF KeepsTypes
  <2> QED BY <2>8, KeptTypes
<1>4. CASE NextElement
  <2>1. OnElement /\ at' = After(msg, at) /\ msg' = msg /\ (ShowsIt \/ FailsOn \/ ThrowsOn)
    BY <1>4, ElementEffect
  <2>2. After(msg, at) \in Tokens(msg) /\ at \in Tokens(msg) /\ frames # << >>
    BY <2>1, TheElement, Innermost DEF OnElement
  <2>3. frames' \in Seq(FrameType(msg))
    <3>1. CASE ShowsIt
      BY <3>1, <1>1, <2>2, Remembered DEF ShowsIt
    <3>2. CASE FailsOn \/ ThrowsOn
      BY <3>2, <1>1 DEF FailsOn, ThrowsOn
    <3> QED BY <2>1, <3>1, <3>2
  <2>4. lines' \in Seq(LineType(msg)) /\ status' \in Statuses \ {"start"} /\ open' = open
    <3>1. lines' = lines \/ \E l \in LineType(msg) : lines' = Append(lines, l)
      BY <2>1 DEF ShowsIt, FailsOn, ThrowsOn
    <3>2. lines' \in Seq(LineType(msg))
      BY <1>1, <3>1, AnotherLine
    <3>3. status' \in Statuses \ {"start"} /\ open' = open
      BY <2>1 DEF ShowsIt, FailsOn, ThrowsOn, Statuses
    <3> QED BY <3>2, <3>3
  <2>5. elem' \in 0..Len(msg.toks) /\ at' \in 1..Len(msg.toks) + 1
    BY <2>1, <2>2, <1>2 DEF ShowsIt, FailsOn, ThrowsOn, Tokens
  <2>6. KeepsTypes
    BY <1>1, <2>1, <2>3, <2>4, <2>5 DEF KeepsTypes
  <2> QED BY <2>6, KeptTypes
<1>5. CASE EnterElement
  <2>1. /\ OnElement /\ msg' = msg
        /\ \/ at' = After(msg, at) /\ (FailsOn \/ FailsShown)
           \/ \E fr \in FrameType(msg) : IsCall(fr) /\ Enters(fr)
    BY <1>5, EnterEffect
  <2>2. After(msg, at) \in Tokens(msg) /\ at \in Tokens(msg)
    BY <2>1, TheElement, Innermost DEF OnElement
  <2>3. CASE at' = After(msg, at) /\ (FailsOn \/ FailsShown)
    <3>1. lines' = lines \/ \E l \in LineType(msg) : lines' = Append(lines, l)
      BY <2>3 DEF FailsOn, FailsShown
    <3>2. lines' \in Seq(LineType(msg))
      BY <1>1, <3>1, AnotherLine
    <3>3. status' = "failing" /\ elem' \in {0, at} /\ open' = open /\ frames' = frames
      BY <2>3 DEF FailsOn, FailsShown
    <3>4. KeepsTypes
      BY <1>1, <1>2, <2>1, <2>2, <2>3, <3>2, <3>3 DEF KeepsTypes, Statuses, Tokens
    <3> QED BY <3>4, KeptTypes
  <2>4. ASSUME NEW fr \in FrameType(msg), Enters(fr)
        PROVE  WellTyped'
    <3>1. /\ at' = at + 1 /\ elem' = 0 /\ status' = "running"
          /\ open' \in Seq(Tokens(msg)) /\ frames' \in Seq(FrameType(msg))
      BY <1>1, <2>2, <2>4 DEF Enters
    <3>2. lines' \in Seq(LineType(msg))
      BY <1>1, <2>4, AnotherLine DEF Enters
    <3>3. KeepsTypes
      BY <1>2, <2>1, <2>2, <3>1, <3>2 DEF KeepsTypes, Statuses, Tokens
    <3> QED BY <3>3, KeptTypes
  <2> QED BY <2>1, <2>3, <2>4
<1>6. CASE EndContainer
  <2>1. /\ at' = at + 1 /\ elem' = 0 /\ open' = Rest(open) /\ frames' = Rest(frames)
        /\ status' \in {"done", "failing", "running"} /\ msg' = msg /\ lines' = lines
        /\ status = "running"
    BY <1>6 DEF EndContainer, OnEnd
  <2>2. at \in Tokens(msg) /\ frames # << >> /\ open # << >>
    BY <2>1, Innermost
  <2>3. open' \in Seq(Tokens(msg)) /\ frames' \in Seq(FrameType(msg))
    BY <1>1, <2>1, <2>2, RestOf
  <2>4. KeepsTypes
    BY <1>1, <1>2, <2>1, <2>2, <2>3 DEF KeepsTypes, Statuses, Tokens
  <2> QED BY <2>4, KeptTypes
<1>7. CASE ReturnError
  <2>1. /\ frames' = Rest(frames) /\ msg' = msg /\ at' = at /\ open' = open /\ status = "failing"
        /\ \/ /\ elem # 0 /\ status' = "running" /\ elem' = OnAfter(elem)
              /\ lines' = Append(lines, Line(elem, "generic", TRUE, NoIds))
           \/ status' \in {"error", "failing"} /\ elem' = elem /\ lines' = lines
    BY <1>7 DEF ReturnError
  <2>2. frames # << >>
    BY <2>1, Innermost
  <2>3. frames' \in Seq(FrameType(msg))
    BY <1>1, <2>1, <2>2, RestOf
  <2>4. elem' \in 0..Len(msg.toks)
    <3>1. OnAfter(elem) \in {0, elem}
      BY DEF OnAfter
    <3>2. elem' \in {0, elem}
      BY <2>1, <3>1
    <3>3. 0 \in 0..Len(msg.toks)
      BY <1>2
    <3> QED BY <1>1, <3>2, <3>3
  <2>5. lines' \in Seq(LineType(msg))
    <3>1. "generic" \in ItemLooks /\ NoIds \in IdsType(msg)
      BY <1>2, NoIdsTyped DEF ItemLooks
    <3>2. elem # 0 => elem \in Tokens(msg)
      BY <1>1, <1>2 DEF Tokens
    <3>3. elem # 0 => Line(elem, "generic", TRUE, NoIds) \in LineType(msg)
      BY <1>2, <3>1, <3>2, LineTyped
    <3> QED BY <1>1, <2>1, <3>3, AnotherLine
  <2>6. KeepsTypes
    BY <1>1, <2>1, <2>3, <2>4, <2>5 DEF KeepsTypes, Statuses
  <2> QED BY <2>6, KeptTypes
<1>8. CASE UNCHANGED vars
  BY <1>8 DEF vars, WellTyped, TypeOK, Fresh
<1> QED BY <1>3, <1>4, <1>5, <1>6, <1>7, <1>8 DEF Next
-----------------------------------------------------------------------------
(***************************************************************************)
(* The containers that were entered are those around the element.          *)
(***************************************************************************)
LEMMA InitAround == Init => OpenIsAround
  BY DEF Init, OpenIsAround

\* OpenIsAround for the next state, in terms of what a step makes of the variables.
LEMMA ElementsStayAround ==
  ASSUME OpenIsAround, msg' = msg, open' = open, Len(frames') = Len(frames), frames # << >>,
         frames' # << >>, status = "running", at' \in Tokens(msg), msg.parent[at'] = msg.parent[at]
  PROVE  OpenIsAround'
  BY DEF OpenIsAround

LEMMA StepAround ==
  ASSUME WellTyped, OpenIsAround, [Next]_vars
  PROVE  OpenIsAround'
<1>1. /\ open \in Seq(Tokens(msg)) /\ frames \in Seq(FrameType(msg))
  BY DEF WellTyped, TypeOK
<1>2. IsMessage(msg) /\ Len(msg.toks) \in Nat /\ 1 \in Tokens(msg)
  BY TheMessage
<1>3. CASE Begin
  <2>1. /\ status = "start" /\ msg' = msg
        /\ \/ /\ at' = 2 /\ open' = <<1>> /\ frames' = <<Frame(Enter(msg.kind), 1)>>
              /\ Opens
           \/ status' = "error" /\ open' = open
    BY <1>3 DEF Begin
  <2>2. CASE status' = "error" /\ open' = open
    <3>1. open = << >>
      BY <2>1 DEF WellTyped, Fresh
    <3> QED BY <2>2, <3>1 DEF OpenIsAround
  <2>3. CASE at' = 2 /\ open' = <<1>> /\ frames' = <<Frame(Enter(msg.kind), 1)>> /\ Opens
    <3>1. msg.toks[1].type \in Containers
      BY <1>2, <2>3 DEF Opens, TypeAt, IsContainerAt, Containers, Tokens
    <3>2. 1 + 1 \in Tokens(msg) /\ msg.parent[1 + 1] = 1
      BY <1>2, <3>1, FirstInside
    <3>3. msg.parent[1] = 0
      BY <1>2, TokenFacts
    <3> QED BY <2>1, <2>3, <3>2, <3>3 DEF OpenIsAround
  <2> QED BY <2>1, <2>2, <2>3
<1>4. CASE NextElement
  <2>1. OnElement /\ at' = After(msg, at) /\ msg' = msg /\ (ShowsIt \/ FailsOn \/ ThrowsOn)
    BY <1>4, ElementEffect
  <2>2. /\ status = "running" /\ After(msg, at) \in Tokens(msg) /\ frames # << >>
        /\ msg.parent[After(msg, at)] = msg.parent[at] /\ Len(frames) > 0
    BY <2>1, TheElement, Innermost DEF OnElement
  <2>3. Len(frames') = Len(frames) /\ open' = open
    <3>1. CASE ShowsIt
      BY <3>1, <1>1, <2>2, Remembered DEF ShowsIt
    <3>2. CASE FailsOn \/ ThrowsOn
      BY <3>2 DEF FailsOn, ThrowsOn
    <3> QED BY <2>1, <3>1, <3>2
  <2>4. frames' # << >>
    BY <2>2, <2>3
  <2> QED BY <2>1, <2>2, <2>3, <2>4, ElementsStayAround
<1>5. CASE EnterElement
  <2>1. /\ OnElement /\ msg' = msg
        /\ \/ at' = After(msg, at) /\ (FailsOn \/ FailsShown)
           \/ \E fr \in FrameType(msg) : IsCall(fr) /\ Enters(fr)
    BY <1>5, EnterEffect
  <2>2. /\ status = "running" /\ After(msg, at) \in Tokens(msg) /\ frames # << >>
        /\ msg.parent[After(msg, at)] = msg.parent[at]
        /\ at \in Tokens(msg) /\ Len(frames) \in Nat /\ Len(open) \in Nat /\ Len(open) > 0
        /\ Len(frames) <= Len(open)
    BY <2>1, TheElement, Innermost DEF OnElement
  <2>3. CASE at' = After(msg, at) /\ (FailsOn \/ FailsShown)
    <3>1. open' = open /\ frames' = frames
      BY <2>3 DEF FailsOn, FailsShown
    <3> QED BY <2>1, <2>2, <2>3, <3>1, ElementsStayAround
  <2>4. ASSUME NEW fr \in FrameType(msg), IsCall(fr), Enters(fr)
        PROVE  OpenIsAround'
    <3>1. at' = at + 1 /\ open' = Append(open, at) /\ frames' = Append(frames, fr)
      BY <2>4 DEF Enters
    <3>2. msg.toks[at].type \in Containers
      BY <2>4, AcceptsContainers DEF IsCall, Tok
    <3>3. at + 1 \in Tokens(msg) /\ msg.parent[at + 1] = at
      BY <1>2, <2>2, <3>2, FirstInside
    <3>4. /\ Len(open') = Len(open) + 1 /\ open'[Len(open) + 1] = at
          /\ \A k \in 1..Len(open) : open'[k] = open[k]
      BY <1>1, <2>2, <3>1, AppendProperties
    <3>5. Len(frames') = Len(frames) + 1 /\ frames' # << >>
      BY <1>1, <2>2, <3>1, AppendProperties
    <3>6. msg.parent[at] = open[Len(open)]
      BY <2>2 DEF OpenIsAround
    <3>7. ASSUME NEW k \in 1..Len(open')
          PROVE  msg.parent[open'[k]] = IF k = 1 THEN 0 ELSE open'[k - 1]
      <4>1. CASE k = Len(open) + 1
        BY <2>2, <3>4, <3>6, <4>1
      <4>2. CASE k \in 1..Len(open)
        <5>1. open'[k] = open[k] /\ (k # 1 => open'[k - 1] = open[k - 1])
          BY <2>2, <3>4, <4>2
        <5> QED BY <4>2, <5>1 DEF OpenIsAround
      <4> QED BY <2>2, <3>4, <4>1, <4>2
    <3>8. Len(frames') <= Len(open') /\ at' \in Tokens(msg) /\ msg.parent[at'] = open'[Len(open')]
      BY <2>2, <3>1, <3>3, <3>4, <3>5
    <3> QED BY <2>1, <3>5, <3>7, <3>8 DEF OpenIsAround
  <2> QED BY <2>1, <2>3, <2>4
<1>6. CASE EndContainer
  <2>1. /\ at' = at + 1 /\ open' = Rest(open) /\ frames' = Rest(frames) /\ msg' = msg
        /\ status = "running" /\ Tok(msg, at).type = "end"
        /\ Len(frames) = 1 => status' = "done"
    BY <1>6 DEF EndContainer, OnEnd
  <2>2. /\ at \in Tokens(msg) /\ at > 1 /\ frames # << >> /\ open # << >>
        /\ Len(open) \in Nat /\ Len(open) > 0 /\ open[Len(open)] = msg.parent[at]
        /\ Len(frames) \in Nat /\ Len(frames) > 0 /\ Len(frames) <= Len(open)
    BY <2>1, Innermost
  <2>3. /\ Len(open') = Len(open) - 1 /\ \A k \in 1..Len(open) - 1 : open'[k] = open[k]
        /\ Len(frames') = Len(frames) - 1
    BY <1>1, <2>1, <2>2, RestOf
  <2>4. ASSUME NEW k \in 1..Len(open')
        PROVE  msg.parent[open'[k]] = IF k = 1 THEN 0 ELSE open'[k - 1]
    <3>1. open'[k] = open[k] /\ (k # 1 => open'[k - 1] = open[k - 1]) /\ k \in 1..Len(open)
      BY <2>2, <2>3
    <3> QED BY <3>1 DEF OpenIsAround
  <2>5. ASSUME Len(frames) # 1
        PROVE  /\ frames' # << >> /\ Len(frames') <= Len(open')
               /\ at' \in Tokens(msg) /\ msg.parent[at'] = open'[Len(open')]
    <3>1. Len(open) > 1 /\ Len(frames') > 0 /\ Len(frames') <= Len(open')
      BY <2>2, <2>3, <2>5
    <3>2. msg.parent[open[Len(open)]] = open[Len(open) - 1] /\ open[Len(open) - 1] \in Tokens(msg)
      BY <1>1, <2>2, <3>1 DEF OpenIsAround
    <3>3. open[Len(open)] # 1
      BY <1>2, <3>2, TokenFacts DEF Tokens
    <3>4. at + 1 \in Tokens(msg) /\ msg.parent[at + 1] = msg.parent[open[Len(open)]]
      BY <1>2, <2>1, <2>2, <3>3, AfterEnd DEF Tok
    <3>5. open'[Len(open')] = open[Len(open) - 1]
      BY <2>2, <2>3, <3>1
    <3> QED BY <2>1, <3>1, <3>2, <3>4, <3>5
  <2> QED BY <2>1, <2>4, <2>5 DEF OpenIsAround
<1>7. CASE ReturnError
  <2>1. /\ frames' = Rest(frames) /\ msg' = msg /\ at' = at /\ open' = open /\ status = "failing"
        /\ Len(frames) = 1 => status' = "error"
    <3>1. Len(frames) = 1 => ~(Len(frames) > 1)
      OBVIOUS
    <3> QED BY <1>7, <3>1 DEF ReturnError
  <2>2. /\ frames # << >> /\ Len(frames) \in Nat /\ Len(frames) > 0 /\ Len(frames) <= Len(open)
        /\ Len(open) \in Nat
    BY <2>1, Innermost
  <2>3. Len(frames') = Len(frames) - 1
    BY <1>1, <2>1, <2>2, RestOf
  <2>4. Len(frames) # 1 => frames' # << >> /\ Len(frames') <= Len(open)
    BY <2>2, <2>3
  <2> QED BY <2>1, <2>4 DEF OpenIsAround
<1>8. CASE UNCHANGED vars
  BY <1>8 DEF vars, OpenIsAround
<1> QED BY <1>3, <1>4, <1>5, <1>6, <1>7, <1>8 DEF Next
-----------------------------------------------------------------------------
(***************************************************************************)
(* Nothing is made up for around the data of a command: those who call for *)
(* it are called only by each other.                                       *)
(***************************************************************************)
CommandCallers == {"CommandRequest", "CommandList", "CommandResponse", "InvokeResponses", "InvokeResponseIB"}

AllFail(k) == \A j \in 1..k : frames[j].orElse = "fail"

CommandsFail == \A k \in 1..Len(frames) : frames[k].does \in CommandCallers => AllFail(k)

LEMMA InitCommandsFail == Init => CommandsFail
<1> SUFFICES ASSUME Init PROVE CommandsFail
  OBVIOUS
<1>1. frames = << >> /\ Len(frames) = 0
  BY DEF Init
<1> QED BY <1>1 DEF CommandsFail

LEMMA StepCommandsFail ==
  ASSUME WellTyped, OpenIsAround, CommandsFail, [Next]_vars
  PROVE  CommandsFail'
<1>1. frames \in Seq(FrameType(msg)) /\ Len(frames) \in Nat
  BY DEF WellTyped, TypeOK
<1>2. ASSUME Len(frames') \in Nat, Len(frames') <= Len(frames),
             \A k \in 1..Len(frames') : /\ frames'[k].does = frames[k].does
                                        /\ frames'[k].orElse = frames[k].orElse
      PROVE  CommandsFail'
  <2>1. SUFFICES ASSUME NEW k \in 1..Len(frames'), frames'[k].does \in CommandCallers, NEW j \in 1..k
                 PROVE  frames'[j].orElse = "fail"
    BY DEF CommandsFail, AllFail
  <2>2. k \in 1..Len(frames) /\ j \in 1..Len(frames')
    BY <1>1, <1>2
  <2>3. frames[j].orElse = "fail"
    BY <1>2, <2>1, <2>2 DEF CommandsFail, AllFail
  <2> QED BY <1>2, <2>2, <2>3
<1>3. CASE Begin
  <2> DEFINE fr == Frame(Enter(msg.kind), 1)
  <2>1. status = "start" /\ (frames' = frames \/ frames' = <<fr>>)
    BY <1>3 DEF Begin
  <2>2. frames = << >> /\ fr.orElse = "fail"
    BY <2>1, KindFrame DEF WellTyped, Fresh
  <2> HIDE DEF fr
  <2>3. \A j \in 1..Len(frames') : frames'[j] = fr
    BY <2>1, <2>2
  <2>4. Len(frames') \in Nat
    BY <2>1, <2>2
  <2>5. ASSUME NEW k \in 1..Len(frames'), NEW j \in 1..k PROVE frames'[j].orElse = "fail"
    <3>1. j \in 1..Len(frames')
      BY <2>4
    <3> QED BY <2>2, <2>3, <3>1
  <2> QED BY <2>5 DEF CommandsFail, AllFail
<1>4. CASE NextElement
  <2>1. OnElement /\ (ShowsIt \/ FailsOn \/ ThrowsOn)
    BY <1>4, ElementEffect
  <2>2. frames # << >>
    BY <2>1, Innermost DEF OnElement
  <2>3. /\ Len(frames') = Len(frames)
        /\ \A k \in 1..Len(frames) : /\ frames'[k].does = frames[k].does
                                     /\ frames'[k].orElse = frames[k].orElse
    <3>1. CASE ShowsIt
      BY <3>1, <1>1, <2>2, Remembered DEF ShowsIt
    <3>2. CASE FailsOn \/ ThrowsOn
      BY <3>2 DEF FailsOn, ThrowsOn
    <3> QED BY <2>1, <3>1, <3>2
  <2> QED BY <1>1, <1>2, <2>3
<1>5. CASE EnterElement
  <2>1. /\ OnElement
        /\ \/ FailsOn \/ FailsShown
           \/ \E fr \in FrameType(msg) : IsCall(fr) /\ Enters(fr)
    BY <1>5, EnterEffect
  <2>2. Len(frames) > 0
    BY <2>1, Innermost DEF OnElement
  <2>3. CASE FailsOn \/ FailsShown
    <3>1. frames' = frames
      BY <2>3 DEF FailsOn, FailsShown
    <3> QED BY <1>1, <1>2, <3>1
  <2>4. ASSUME NEW fr \in FrameType(msg), IsCall(fr), Enters(fr)
        PROVE  CommandsFail'
    <3>1. frames' = Append(frames, fr)
      BY <2>4 DEF Enters
    <3>2. /\ Len(frames') = Len(frames) + 1 /\ frames'[Len(frames) + 1] = fr
          /\ \A k \in 1..Len(frames) : frames'[k] = frames[k]
      BY <1>1, <3>1, AppendProperties
    <3>3. ASSUME fr.does \in CommandCallers PROVE Top.does \in CommandCallers /\ fr.orElse = "fail"
      <4>1. fr.does \notin Kinds
        BY <2>4 DEF IsCall
      <4>2. fr.does \in {"CommandList", "InvokeResponses", "InvokeResponseIB"}
        BY <3>3, <4>1 DEF CommandCallers, Kinds, InteractionModel
      <4>3. Top.does = CallerOf[fr.does]
        BY <2>4, <4>2, Called DEF IsCall
      <4>4. Top.does \in CommandCallers
        BY <4>2, <4>3 DEF CallerOf, CommandCallers
      <4>5. fr.orElse # "generic"
        BY <2>4, <4>4 DEF IsCall, CommandCallers
      <4> QED BY <4>4, <4>5 DEF FrameType
    <3>4. Top.does \in CommandCallers => AllFail(Len(frames))
      BY <1>1, <2>2 DEF CommandsFail, Top
    <3>5. ASSUME NEW k \in 1..Len(frames'), frames'[k].does \in CommandCallers, NEW j \in 1..k
          PROVE  frames'[j].orElse = "fail"
      <4>1. CASE k \in 1..Len(frames)
        <5>1. j \in 1..Len(frames)
          BY <1>1, <4>1
        <5> QED BY <3>2, <3>5, <4>1, <5>1 DEF CommandsFail, AllFail
      <4>2. CASE k = Len(frames) + 1
        <5>1. fr.does \in CommandCallers
          BY <3>2, <3>5, <4>2
        <5>2. fr.orElse = "fail" /\ AllFail(Len(frames))
          BY <3>3, <3>4, <5>1
        <5>3. j = Len(frames) + 1 \/ j \in 1..Len(frames)
          BY <1>1, <4>2
        <5> QED BY <3>2, <5>2, <5>3 DEF AllFail
      <4>3. k \in 1..Len(frames) \/ k = Len(frames) + 1
        BY <1>1, <3>2
      <4> QED BY <4>1, <4>2, <4>3
    <3> QED BY <3>5 DEF CommandsFail, AllFail
  <2> QED BY <2>1, <2>3, <2>4
<1>6. CASE EndContainer \/ ReturnError
  <2>1. frames' = Rest(frames) /\ status \in {"running", "failing"}
    BY <1>6 DEF EndContainer, ReturnError, OnEnd
  <2>2. frames # << >> /\ Len(frames) > 0
    BY <2>1, Innermost
  <2>3. Len(frames') = Len(frames) - 1 /\ \A k \in 1..Len(frames) - 1 : frames'[k] = frames[k]
    BY <1>1, <2>1, <2>2, RestOf
  <2>4. Len(frames') \in Nat /\ Len(frames') <= Len(frames)
    BY <1>1, <2>2, <2>3
  <2> QED BY <1>2, <2>3, <2>4
<1>7. CASE UNCHANGED vars
  BY <1>7 DEF vars, CommandsFail, AllFail
<1> QED BY <1>3, <1>4, <1>5, <1>6, <1>7 DEF Next
-----------------------------------------------------------------------------
(***************************************************************************)
(* Nothing is shown twice, and nothing is passed over.                     *)
(***************************************************************************)
\* What is shown is before the element that is read next; and as long as a
\* call has failed at an element, that one comes right before, and is not shown
\* unless nothing makes up for the failure.
ShownBefore ==
  /\ lines # << >> => lines[Len(lines)].to < at
  /\ status = "failing" /\ elem # 0 =>
       /\ at = msg.last[elem] + 1
       /\ (lines # << >> => lines[Len(lines)].to < elem) \/ AllFail(Len(frames))

\* All up to the element at which a call has failed is shown.
PassedBefore ==
  status = "failing" /\ elem # 0 =>
    \A i \in 1..elem - 1 : Tok(msg, i).type \in Scalars => IsShown(i)

\* The items after a step: none more, or one for the tokens from a to b.
OneMore(a, b) ==
  \E l \in LineType(msg) : l.from = a /\ l.to = b /\ lines' = Append(lines, l)

LEMMA NewItem ==
  ASSUME lines \in Seq(LineType(msg)), NEW a, NEW b, OneMore(a, b), msg' = msg,
         lines # << >> => lines[Len(lines)].to < a, ShownOnce
  PROVE  /\ ShownOnce' /\ lines' # << >> /\ lines'[Len(lines')].to = b
         /\ \A i : IsShown(i) => IsShown(i)'
         /\ \A i : a <= i /\ i <= b => IsShown(i)'
<1>1. PICK l \in LineType(msg) : l.from = a /\ l.to = b /\ lines' = Append(lines, l)
  BY DEF OneMore
<1> DEFINE n == Len(lines)
<1>2. n \in Nat
  OBVIOUS
<1>3. /\ lines' # << >> /\ Len(lines') = n + 1 /\ lines'[n + 1] = l
      /\ \A k \in 1..n : lines'[k] = lines[k]
  BY <1>1, AppendProperties
<1> HIDE DEF n
<1>4. ASSUME NEW k \in 1..Len(lines') - 1
      PROVE  lines'[k].to < lines'[k + 1].from
  <2>1. CASE k = n
    <3>1. n > 0 /\ lines'[k] = lines[n] /\ lines'[k + 1] = l
      BY <1>2, <1>3, <2>1
    <3>2. lines # << >>
      BY <3>1 DEF n
    <3> QED BY <1>1, <3>1, <3>2 DEF n
  <2>2. CASE k # n
    <3>1. k \in 1..n - 1 /\ lines'[k] = lines[k] /\ lines'[k + 1] = lines[k + 1]
      BY <1>2, <1>3, <2>2
    <3> QED BY <3>1 DEF ShownOnce, n
  <2> QED BY <2>1, <2>2
<1>5. ShownOnce'
  BY <1>4 DEF ShownOnce
<1>6. lines'[Len(lines')].to = b
  BY <1>1, <1>3
<1>7. ASSUME NEW i, IsShown(i)
      PROVE  IsShown(i)'
  <2>1. PICK k \in 1..n : lines[k].from <= i /\ i <= lines[k].to
    BY <1>7 DEF IsShown, n
  <2>2. k \in 1..Len(lines') /\ lines'[k] = lines[k]
    BY <1>2, <1>3, <2>1
  <2> QED BY <2>1, <2>2 DEF IsShown
<1>8. ASSUME NEW i, a <= i, i <= b
      PROVE  IsShown(i)'
  <2>1. n + 1 \in 1..Len(lines')
    BY <1>2, <1>3
  <2> QED BY <1>1, <1>3, <1>8, <2>1 DEF IsShown
<1> QED BY <1>3, <1>5, <1>6, <1>7, <1>8

LEMMA NoItem ==
  ASSUME lines' = lines, msg' = msg
  PROVE  /\ ShownOnce => ShownOnce'
         /\ \A i : IsShown(i) => IsShown(i)'
  BY DEF ShownOnce, IsShown

Shown == ShownOnce /\ ShownBefore /\ NothingPassedOver /\ PassedBefore

\* What the steps on an element do, for what is shown.
ItemOrNot ==
  /\ msg' = msg /\ at \in Tokens(msg) /\ status = "running"
  /\ \/ /\ \E b \in Int : OneMore(at, b) /\ at' = b + 1 /\ b >= at
        /\ status' # "failing"
     \/ /\ lines' = lines /\ elem' \in {0, at} /\ status' \in {"failing", "exception"}
        /\ at' = msg.last[at] + 1 /\ at' > at /\ at' \in Int
     \/ /\ OneMore(at, at) /\ elem' = at /\ status' = "failing"
        /\ at' = msg.last[at] + 1 /\ at' > at /\ at' \in Int
        /\ AllFail(Len(frames)) /\ frames' = frames
     \/ /\ lines' = lines /\ at' = at + 1 /\ Tok(msg, at).type \notin Scalars
        /\ status' # "failing" \/ elem' = 0

LEMMA ItemOrNotShown ==
  ASSUME WellTyped, Shown, ItemOrNot
  PROVE  Shown'
<1>1. lines \in Seq(LineType(msg)) /\ Len(msg.toks) \in Nat
  BY TheMessage DEF WellTyped, TypeOK
<1>2. /\ lines # << >> => lines[Len(lines)].to < at
      /\ msg' = msg /\ at \in Tokens(msg) /\ status = "running" /\ at \in Int
      /\ ShownOnce /\ \A i \in 1..at - 1 : Tok(msg, i).type \in Scalars => IsShown(i)
  BY DEF Shown, ShownBefore, NothingPassedOver, ItemOrNot, Tokens
<1>3. lines # << >> => lines[Len(lines)].to \in Int
  <2>1. ASSUME lines # << >> PROVE lines[Len(lines)] \in LineType(msg)
    BY <1>1, <2>1
  <2> QED BY <1>1, <2>1 DEF LineType, Tokens
<1>4. ASSUME NEW b \in Int, OneMore(at, b), at' = b + 1, b >= at, status' # "failing"
      PROVE  Shown'
  <2>1. /\ ShownOnce' /\ lines' # << >> /\ lines'[Len(lines')].to = b
        /\ \A i : IsShown(i) => IsShown(i)'
        /\ \A i : at <= i /\ i <= b => IsShown(i)'
    BY <1>1, <1>2, <1>4, NewItem
  <2>2. ShownBefore'
    BY <1>4, <2>1 DEF ShownBefore
  <2>3. ASSUME NEW i \in 1..b, Tok(msg, i).type \in Scalars
        PROVE  IsShown(i)'
    <3>1. at \in Int
      BY <1>2
    <3>2. i \in 1..at - 1 \/ (at <= i /\ i <= b)
      BY <3>1
    <3> QED BY <1>2, <2>1, <2>3, <3>2
  <2>4. at' - 1 = b
    BY <1>4
  <2>5. NothingPassedOver' /\ PassedBefore'
    BY <1>2, <1>4, <2>3, <2>4 DEF NothingPassedOver, PassedBefore, Tok
  <2> QED BY <2>1, <2>2, <2>5 DEF Shown
<1>5. CASE /\ lines' = lines /\ elem' \in {0, at} /\ status' \in {"failing", "exception"}
           /\ at' = msg.last[at] + 1 /\ at' > at /\ at' \in Int
  <2>1. ShownOnce' /\ \A i : IsShown(i) => IsShown(i)'
    BY <1>2, <1>5, NoItem
  <2>2. ShownBefore'
    BY <1>2, <1>3, <1>5 DEF ShownBefore
  <2>3. NothingPassedOver'
    BY <1>5 DEF NothingPassedOver
  <2>4. PassedBefore'
    BY <1>2, <1>5, <2>1 DEF PassedBefore, Tok
  <2> QED BY <2>1, <2>2, <2>3, <2>4 DEF Shown
<1>6. CASE /\ lines' = lines /\ at' = at + 1 /\ Tok(msg, at).type \notin Scalars
           /\ status' # "failing" \/ elem' = 0
  <2>1. ShownOnce' /\ \A i : IsShown(i) => IsShown(i)'
    BY <1>2, <1>6, NoItem
  <2>2. ShownBefore'
    BY <1>2, <1>3, <1>6 DEF ShownBefore
  <2>3. ASSUME NEW i \in 1..at' - 1, Tok(msg, i).type \in Scalars
        PROVE  IsShown(i)'
    <3>1. i # at /\ i \in 1..at
      BY <1>2, <1>6, <2>3
    <3>2. i \in 1..at - 1
      BY <1>2, <3>1
    <3> QED BY <1>2, <2>1, <2>3, <3>2
  <2>4. NothingPassedOver' /\ PassedBefore'
    BY <1>2, <1>6, <2>3 DEF NothingPassedOver, PassedBefore, Tok
  <2> QED BY <2>1, <2>2, <2>4 DEF Shown
<1>7. CASE /\ OneMore(at, at) /\ elem' = at /\ status' = "failing"
           /\ at' = msg.last[at] + 1 /\ at' > at /\ at' \in Int
           /\ AllFail(Len(frames)) /\ frames' = frames
  <2>1. /\ ShownOnce' /\ lines' # << >> /\ lines'[Len(lines')].to = at
        /\ \A i : IsShown(i) => IsShown(i)'
    BY <1>1, <1>2, <1>7, NewItem
  <2>2. AllFail(Len(frames))'
    BY <1>7 DEF AllFail
  <2>3. ShownBefore'
    BY <1>2, <1>7, <2>1, <2>2 DEF ShownBefore
  <2>4. NothingPassedOver'
    BY <1>7 DEF NothingPassedOver
  <2>5. PassedBefore'
    BY <1>2, <1>7, <2>1 DEF PassedBefore, Tok
  <2> QED BY <2>1, <2>3, <2>4, <2>5 DEF Shown
<1> QED BY <1>4, <1>5, <1>6, <1>7 DEF ItemOrNot

LEMMA InitShown == Init => Shown
<1> SUFFICES ASSUME Init PROVE Shown
  OBVIOUS
<1>1. lines = << >> /\ status = "start" /\ Len(lines) = 0
  BY DEF Init
<1> QED BY <1>1 DEF Shown, ShownOnce, ShownBefore, NothingPassedOver, PassedBefore

LEMMA StepShown ==
  ASSUME WellTyped, OpenIsAround, CommandsFail, Shown, [Next]_vars
  PROVE  Shown'
<1>1. /\ lines \in Seq(LineType(msg)) /\ elem \in 0..Len(msg.toks)
  BY DEF WellTyped, TypeOK
<1>2. IsMessage(msg) /\ Len(msg.toks) \in Nat /\ 1 \in Tokens(msg)
  BY TheMessage
<1>3. CASE Begin
  <2>1. /\ status = "start" /\ msg' = msg /\ lines' = lines /\ elem' = 0
        /\ \/ at' = 2 /\ Opens
           \/ status' = "error"
    BY <1>3 DEF Begin
  <2>2. lines = << >> /\ Len(lines) = 0
    BY <2>1 DEF WellTyped, Fresh
  <2>3. ShownOnce' /\ ShownBefore' /\ PassedBefore'
    BY <2>1, <2>2 DEF ShownOnce, ShownBefore, PassedBefore
  <2>4. Opens => Tok(msg, 1).type \notin Scalars
    BY <1>2 DEF Opens, TypeAt, IsContainerAt, Containers, Tokens, Tok, Scalars
  <2>5. ASSUME at' = 2, Opens, NEW i \in 1..at' - 1
        PROVE  Tok(msg, i).type \notin Scalars
    <3>1. i = 1
      BY <2>5
    <3> QED BY <2>4, <2>5, <3>1
  <2>6. NothingPassedOver'
    BY <2>1, <2>5 DEF NothingPassedOver, Tok
  <2> QED BY <2>3, <2>6 DEF Shown
<1>4. CASE NextElement
  <2>1. OnElement /\ at' = After(msg, at) /\ msg' = msg /\ (ShowsIt \/ FailsOn \/ ThrowsOn)
    BY <1>4, ElementEffect
  <2>2. /\ status = "running" /\ at \in Tokens(msg)
        /\ After(msg, at) = msg.last[at] + 1 /\ msg.last[at] \in Tokens(msg) /\ msg.last[at] >= at
    BY <2>1, TheElement, Innermost DEF OnElement
  <2>3. at' = msg.last[at] + 1 /\ at' \in Int /\ at' > at /\ msg.last[at] \in Int
    BY <1>2, <2>1, <2>2 DEF Tokens
  <2>4. CASE ShowsIt
    <3>1. OneMore(at, msg.last[at]) /\ status' # "failing"
      BY <2>4 DEF ShowsIt, OneMore
    <3>2. ItemOrNot
      BY <2>1, <2>2, <2>3, <3>1 DEF ItemOrNot
    <3> QED BY <3>2, ItemOrNotShown
  <2>5. CASE FailsOn \/ ThrowsOn
    <3>1. ItemOrNot
      BY <2>1, <2>2, <2>3, <2>5 DEF ItemOrNot, FailsOn, ThrowsOn
    <3> QED BY <3>1, ItemOrNotShown
  <2> QED BY <2>1, <2>4, <2>5
<1>5. CASE EnterElement
  <2>1. /\ OnElement /\ msg' = msg
        /\ \/ at' = After(msg, at) /\ (FailsOn \/ FailsShown)
           \/ \E fr \in FrameType(msg) : IsCall(fr) /\ Enters(fr)
    BY <1>5, EnterEffect
  <2>2. /\ status = "running" /\ at \in Tokens(msg)
        /\ After(msg, at) = msg.last[at] + 1 /\ msg.last[at] \in Tokens(msg) /\ msg.last[at] >= at
    BY <2>1, TheElement, Innermost DEF OnElement
  <2>3. CASE at' = After(msg, at) /\ FailsOn
    <3>1. at' = msg.last[at] + 1 /\ at' \in Int /\ at' > at
      BY <1>2, <2>2, <2>3 DEF Tokens
    <3>2. ItemOrNot
      BY <2>1, <2>2, <2>3, <3>1 DEF ItemOrNot, FailsOn
    <3> QED BY <3>2, ItemOrNotShown
  <2>4. CASE at' = After(msg, at) /\ FailsShown
    <3>1. at' = msg.last[at] + 1 /\ at' \in Int /\ at' > at
      BY <1>2, <2>2, <2>4 DEF Tokens
    <3>2. OneMore(at, at) /\ elem' = at /\ status' = "failing" /\ frames' = frames
      BY <2>4 DEF FailsShown, OneMore
    <3>3. Top.does \in CommandCallers
      BY <2>4 DEF FailsShown, CommandBlocks, CallerOf, CommandCallers
    <3>4. AllFail(Len(frames))
      BY <2>2, <3>3, Innermost DEF CommandsFail, Top
    <3>5. ItemOrNot
      BY <2>1, <2>2, <3>1, <3>2, <3>4 DEF ItemOrNot
    <3> QED BY <3>5, ItemOrNotShown
  <2>5. ASSUME NEW fr \in FrameType(msg), IsCall(fr), Enters(fr)
        PROVE  Shown'
    <3>1. /\ at' = at + 1 /\ elem' = 0 /\ status' = "running"
          /\ lines' = lines \/ OneMore(at, at)
      BY <2>5 DEF Enters, OneMore
    <3>2. Tok(msg, at).type \notin Scalars
      BY <2>5, AcceptsContainers DEF IsCall, Containers, Scalars
    <3>3. at \in Int /\ at' = at + 1
      BY <1>2, <2>2, <3>1 DEF Tokens
    <3>4. ItemOrNot
      BY <2>1, <2>2, <3>1, <3>2, <3>3 DEF ItemOrNot
    <3> QED BY <3>4, ItemOrNotShown
  <2> QED BY <2>1, <2>3, <2>4, <2>5
<1>6. CASE EndContainer
  <2>1. /\ at' = at + 1 /\ elem' = 0 /\ msg' = msg /\ lines' = lines
        /\ status = "running" /\ Tok(msg, at).type = "end"
    BY <1>6 DEF EndContainer, OnEnd
  <2>2. at \in Tokens(msg)
    BY <2>1, Innermost
  <2>3. ItemOrNot
    BY <2>1, <2>2 DEF ItemOrNot, Scalars
  <2> QED BY <2>3, ItemOrNotShown
<1>7. CASE ReturnError
  <2>1. /\ msg' = msg /\ at' = at /\ status = "failing"
        /\ \/ /\ elem # 0 /\ status' = "running" /\ Top.orElse = "generic"
              /\ lines' = Append(lines, Line(elem, "generic", TRUE, NoIds))
           \/ status' \in {"error", "failing"} /\ elem' = elem /\ lines' = lines
        /\ frames' = Rest(frames)
    BY <1>7 DEF ReturnError
  <2>2. at \in Tokens(msg) /\ at \in Int
    BY <2>1, <1>2, Innermost DEF Tokens
  <2>3. CASE status' \in {"error", "failing"} /\ elem' = elem /\ lines' = lines
    <3>1. ShownOnce' /\ \A i : IsShown(i) => IsShown(i)'
      BY <2>1, <2>3, NoItem DEF Shown
    <3>2. AllFail(Len(frames)) => AllFail(Len(frames))'
      <4>1. frames \in Seq(FrameType(msg)) /\ frames # << >> /\ Len(frames) \in Nat
        BY <2>1, Innermost DEF WellTyped, TypeOK
      <4>2. Len(frames') = Len(frames) - 1 /\ \A k \in 1..Len(frames) - 1 : frames'[k] = frames[k]
        BY <2>1, <4>1, RestOf
      <4>3. ASSUME AllFail(Len(frames)), NEW j \in 1..Len(frames') PROVE frames'[j].orElse = "fail"
        <5>1. j \in 1..Len(frames) - 1 /\ j \in 1..Len(frames)
          BY <4>1, <4>2
        <5> QED BY <4>2, <4>3, <5>1 DEF AllFail
      <4> QED BY <4>3 DEF AllFail
    <3>3. ShownBefore' /\ NothingPassedOver'
      BY <2>1, <2>3, <3>2 DEF Shown, ShownBefore, NothingPassedOver
    <3>4. PassedBefore'
      BY <2>1, <2>3, <3>1 DEF Shown, PassedBefore, Tok
    <3> QED BY <3>1, <3>3, <3>4 DEF Shown
  <2>4. CASE /\ elem # 0 /\ status' = "running" /\ Top.orElse = "generic"
             /\ lines' = Append(lines, Line(elem, "generic", TRUE, NoIds))
    <3>1. elem \in Tokens(msg) /\ msg.last[elem] \in Tokens(msg) /\ elem \in Int
      BY <1>1, <1>2, <2>4, TokenFacts DEF Tokens
    <3>2. at = msg.last[elem] + 1 /\ (lines # << >> => lines[Len(lines)].to < elem) /\ ShownOnce
      <4>1. Len(frames) \in Nat /\ Len(frames) > 0
        BY <2>1, Innermost
      <4>2. ~AllFail(Len(frames))
        BY <2>4, <4>1 DEF AllFail, Top
      <4> QED BY <2>1, <2>4, <4>2 DEF Shown, ShownBefore
    <3>3. OneMore(elem, msg.last[elem])
      <4>1. "generic" \in ItemLooks /\ NoIds \in IdsType(msg)
        BY <1>2, NoIdsTyped DEF ItemLooks
      <4>2. /\ Line(elem, "generic", TRUE, NoIds) \in LineType(msg)
            /\ Line(elem, "generic", TRUE, NoIds).from = elem
            /\ Line(elem, "generic", TRUE, NoIds).to = msg.last[elem]
        BY <1>2, <3>1, <4>1, LineTyped
      <4> QED BY <2>4, <4>2 DEF OneMore
    <3>4. /\ ShownOnce' /\ lines' # << >> /\ lines'[Len(lines')].to = msg.last[elem]
          /\ \A i : IsShown(i) => IsShown(i)'
          /\ \A i : elem <= i /\ i <= msg.last[elem] => IsShown(i)'
      BY <1>1, <2>1, <3>2, <3>3, NewItem
    <3>5. msg.last[elem] \in Int /\ msg.last[elem] < at'
      BY <1>2, <2>1, <3>1, <3>2 DEF Tokens
    <3>6. ShownBefore' /\ PassedBefore'
      BY <2>4, <3>4, <3>5 DEF ShownBefore, PassedBefore
    <3>7. ASSUME NEW i \in 1..at' - 1, Tok(msg, i).type \in Scalars
          PROVE  IsShown(i)'
      <4>1. i \in 1..elem - 1 \/ (elem <= i /\ i <= msg.last[elem])
        BY <2>1, <2>2, <3>1, <3>2, <3>5
      <4>2. \A j \in 1..elem - 1 : Tok(msg, j).type \in Scalars => IsShown(j)
        BY <2>1, <2>4 DEF Shown, PassedBefore
      <4> QED BY <3>4, <3>7, <4>1, <4>2
    <3>8. NothingPassedOver'
      BY <2>1, <3>7 DEF NothingPassedOver, Tok
    <3> QED BY <3>4, <3>6, <3>8 DEF Shown
  <2> QED BY <2>1, <2>3, <2>4
<1>8. CASE UNCHANGED vars
  BY <1>8 DEF vars, Shown, ShownOnce, ShownBefore, NothingPassedOver, PassedBefore, IsShown, Tok, AllFail
<1> QED BY <1>3, <1>4, <1>5, <1>6, <1>7, <1>8 DEF Next
-----------------------------------------------------------------------------
(***************************************************************************)
(* Without nested blocks no failure is made up for, so that each call is   *)
(* for the container that its elements are in.                             *)
(***************************************************************************)
NoneIsMadeUpFor ==
  \A k \in 1..Len(frames) :
    /\ frames[k].orElse = "fail"
    /\ frames[k].does \in {"AttributeStatusIB", "AttributeDataIB"} => TypeAt(msg, frames[k].of) = "structure"

CallsMatch ==
  status = "running" =>
    Len(open) = Len(frames) /\ \A k \in 1..Len(frames) : open[k] = frames[k].of

Placed == (~HasNestedBlock => NoneIsMadeUpFor /\ CallsMatch) /\ KeepsPlace

LEMMA NestedKept == ASSUME msg' = msg PROVE HasNestedBlock' <=> HasNestedBlock
  BY DEF HasNestedBlock, Tok

\* A structure in a structure has a tag, and is a nested block if it is not a
\* context tag.
LEMMA NestedBlock ==
  ASSUME WellTyped, OpenIsAround, status = "running", Tok(msg, at).type = "structure",
         Tok(msg, at).tag # "context", TypeAt(msg, msg.parent[at]) = "structure"
  PROVE  HasNestedBlock
<1>1. IsMessage(msg) /\ at \in Tokens(msg) /\ at > 1 /\ Len(msg.toks) \in Nat
  BY TheMessage, Innermost
<1>2. msg.parent[at] # 0 /\ TagFits(msg.toks[msg.parent[at]].type, msg.toks[at].tag)
  BY <1>1, TokenFacts DEF Tok, Tokens
<1>3. msg.toks[msg.parent[at]].type = "structure"
  BY <1>2 DEF TypeAt
<1>4. Tok(msg, at).tag # "anonymous"
  BY <1>2, <1>3 DEF TagFits, Tok
<1>5. at \in 2..Len(msg.toks)
  BY <1>1 DEF Tokens
<1> QED BY <1>4, <1>5 DEF HasNestedBlock

LEMMA CallsThatMatch ==
  ASSUME WellTyped, CallsMatch, Len(open) = Len(frames), status = "running"
  PROVE  open = [k \in 1..Len(frames) |-> frames[k].of]
<1>1. open \in Seq(Tokens(msg))
  BY DEF WellTyped, TypeOK
<1>2. \A k \in 1..Len(frames) : open[k] = frames[k].of
  BY DEF CallsMatch
<1> QED BY <1>1, <1>2

LEMMA InitPlaced == Init => Placed
<1> SUFFICES ASSUME Init PROVE Placed
  OBVIOUS
<1>1. frames = << >> /\ status = "start" /\ Len(frames) = 0
  BY DEF Init
<1> QED BY <1>1 DEF Placed, NoneIsMadeUpFor, CallsMatch, KeepsPlace

\* It is enough to show the first part while the dissection goes on.
LEMMA StillPlaced ==
  ASSUME WellTyped', msg' = msg, status' # "done",
         ~HasNestedBlock => NoneIsMadeUpFor' /\ CallsMatch'
  PROVE  Placed'
<1>1. HasNestedBlock' <=> HasNestedBlock
  BY NestedKept
<1>2. ASSUME ~HasNestedBlock, status' = "running"
      PROVE  (open = [k \in 1..Len(frames) |-> frames[k].of])'
  <2>1. open' \in Seq(Tokens(msg'))
    BY DEF WellTyped, TypeOK
  <2>2. Len(open') = Len(frames') /\ \A k \in 1..Len(frames') : open'[k] = frames'[k].of
    BY <1>2 DEF CallsMatch
  <2> QED BY <2>1, <2>2
<1>3. KeepsPlace'
  BY <1>1, <1>2 DEF KeepsPlace
<1> QED BY <1>1, <1>3 DEF Placed

LEMMA StepPlaced ==
  ASSUME WellTyped, OpenIsAround, Placed, WellTyped', [Next]_vars
  PROVE  Placed'
<1>1. open \in Seq(Tokens(msg)) /\ frames \in Seq(FrameType(msg))
  BY DEF WellTyped, TypeOK
<1>2. IsMessage(msg) /\ msg.kind \in Kinds /\ Len(msg.toks) \in Nat /\ 1 \in Tokens(msg)
  BY TheMessage
<1>3. CASE Begin
  <2>1. /\ status = "start" /\ msg' = msg
        /\ \/ /\ open' = <<1>> /\ frames' = <<Frame(Enter(msg.kind), 1)>> /\ status' = "running"
           \/ status' = "error" /\ frames' = frames
    BY <1>3 DEF Begin
  <2>2. CASE status' = "error" /\ frames' = frames
    <3>1. frames = << >> /\ Len(frames) = 0
      BY <2>1 DEF WellTyped, Fresh
    <3>2. NoneIsMadeUpFor' /\ CallsMatch'
      BY <2>2, <3>1 DEF NoneIsMadeUpFor, CallsMatch
    <3> QED BY <2>1, <2>2, <3>2, StillPlaced
  <2>3. CASE open' = <<1>> /\ frames' = <<Frame(Enter(msg.kind), 1)>> /\ status' = "running"
    <3> DEFINE fr == Frame(Enter(msg.kind), 1)
    <3>1. fr.of = 1 /\ fr.does = msg.kind /\ fr.orElse = "fail"
      BY KindFrame
    <3>2. fr.does \notin {"AttributeStatusIB", "AttributeDataIB"}
      BY <1>2, <3>1 DEF Kinds, InteractionModel, SecureChannel, UserDirected, Embedded
    <3> HIDE DEF fr
    <3>3. frames' = <<fr>> /\ Len(frames') = 1 /\ frames'[1] = fr
      BY <2>3 DEF fr
    <3>4. NoneIsMadeUpFor'
      BY <3>1, <3>2, <3>3 DEF NoneIsMadeUpFor
    <3>5. CallsMatch'
      BY <2>3, <3>1, <3>3 DEF CallsMatch
    <3> QED BY <2>1, <2>3, <3>4, <3>5, StillPlaced
  <2> QED BY <2>1, <2>2, <2>3
<1>4. CASE NextElement
  <2>1. OnElement /\ msg' = msg /\ (ShowsIt \/ FailsOn \/ ThrowsOn)
    BY <1>4, ElementEffect
  <2>2. status = "running" /\ frames # << >>
    BY <2>1, Innermost DEF OnElement
  <2>3. /\ Len(frames') = Len(frames) /\ open' = open /\ status' # "done"
        /\ \A k \in 1..Len(frames) : /\ frames'[k].does = frames[k].does
                                     /\ frames'[k].of = frames[k].of
                                     /\ frames'[k].orElse = frames[k].orElse
    <3>1. CASE ShowsIt
      BY <3>1, <1>1, <2>2, Remembered DEF ShowsIt
    <3>2. CASE FailsOn \/ ThrowsOn
      BY <3>2 DEF FailsOn, ThrowsOn
    <3> QED BY <2>1, <3>1, <3>2
  <2>4. ASSUME ~HasNestedBlock
        PROVE  NoneIsMadeUpFor' /\ CallsMatch'
    <3>1. NoneIsMadeUpFor /\ CallsMatch
      BY <2>4 DEF Placed
    <3> QED BY <2>1, <2>2, <2>3, <3>1 DEF NoneIsMadeUpFor, CallsMatch, TypeAt
  <2> QED BY <2>1, <2>3, <2>4, StillPlaced
<1>5. CASE EnterElement
  <2>1. /\ OnElement /\ msg' = msg
        /\ \/ at' = After(msg, at) /\ (FailsOn \/ FailsShown)
           \/ \E fr \in FrameType(msg) : IsCall(fr) /\ Enters(fr)
    BY <1>5, EnterEffect
  <2>2. /\ status = "running" /\ frames # << >> /\ Len(frames) \in Nat /\ Len(frames) > 0
        /\ open[Len(open)] = msg.parent[at] /\ at \in Tokens(msg)
    BY <2>1, Innermost DEF OnElement
  <2>3. CASE FailsOn \/ FailsShown
    <3>1. frames' = frames /\ status' = "failing"
      BY <2>3 DEF FailsOn, FailsShown
    <3>2. ASSUME ~HasNestedBlock
          PROVE  NoneIsMadeUpFor' /\ CallsMatch'
      BY <2>1, <3>1, <3>2 DEF Placed, NoneIsMadeUpFor, CallsMatch, TypeAt
    <3> QED BY <2>1, <3>1, <3>2, StillPlaced
  <2>4. ASSUME NEW fr \in FrameType(msg), IsCall(fr), Enters(fr)
        PROVE  Placed'
    <3>1. open' = Append(open, at) /\ frames' = Append(frames, fr) /\ status' = "running"
      BY <2>4 DEF Enters
    <3>2. ASSUME ~HasNestedBlock
          PROVE  NoneIsMadeUpFor' /\ CallsMatch'
      <4>1. /\ NoneIsMadeUpFor /\ Len(open) = Len(frames)
            /\ \A k \in 1..Len(frames) : open[k] = frames[k].of
        BY <2>2, <3>2 DEF Placed, CallsMatch
      <4>2. Top.of = msg.parent[at]
        BY <2>2, <4>1 DEF Top
      <4>3. Top.does \in {"AttributeStatusIB", "AttributeDataIB"} => TypeAt(msg, Top.of) = "structure"
        BY <2>2, <4>1 DEF NoneIsMadeUpFor, Top
      <4>4. fr.orElse # "generic"
        <5>1. SUFFICES ASSUME fr.orElse = "generic" PROVE FALSE
          OBVIOUS
        <5>2. /\ Tok(msg, at).type = "structure" /\ Tok(msg, at).tag # "context"
              /\ Top.does \in {"AttributeStatusIB", "AttributeDataIB"}
          BY <2>4, <5>1 DEF IsCall
        <5>3. TypeAt(msg, msg.parent[at]) = "structure"
          BY <4>2, <4>3, <5>2
        <5>4. HasNestedBlock
          BY <2>2, <5>2, <5>3, NestedBlock
        <5> QED BY <3>2, <5>4
      <4>5. fr.orElse = "fail" /\ fr.of = at
        BY <2>4, <4>4 DEF FrameType, IsCall
      <4>6. fr.does \in {"AttributeStatusIB", "AttributeDataIB"} => TypeAt(msg, fr.of) = "structure"
        <5>1. SUFFICES ASSUME fr.does \in {"AttributeStatusIB", "AttributeDataIB"}
                       PROVE  Tok(msg, at).type = "structure"
          BY <2>2, <4>5 DEF TypeAt, Tok, Tokens
        <5>2. Accepts(fr.does) = {"structure"}
          BY <5>1 DEF Accepts, Lists, ListElement
        <5> QED BY <2>4, <5>2 DEF IsCall
      <4>7. /\ Len(frames') = Len(frames) + 1 /\ frames'[Len(frames) + 1] = fr
            /\ \A k \in 1..Len(frames) : frames'[k] = frames[k]
        BY <1>1, <3>1, AppendProperties
      <4>8. /\ Len(open') = Len(open) + 1 /\ open'[Len(open) + 1] = at
            /\ \A k \in 1..Len(open) : open'[k] = open[k]
        BY <1>1, <2>2, <3>1, AppendProperties
      <4>9. ASSUME NEW k \in 1..Len(frames')
            PROVE  /\ frames'[k].orElse = "fail"
                   /\ frames'[k].does \in {"AttributeStatusIB", "AttributeDataIB"} =>
                        TypeAt(msg', frames'[k].of) = "structure"
                   /\ open'[k] = frames'[k].of
        <5>1. CASE k = Len(frames) + 1
          BY <2>1, <4>1, <4>5, <4>6, <4>7, <4>8, <5>1
        <5>2. CASE k \in 1..Len(frames)
          BY <2>1, <4>1, <4>7, <4>8, <5>2 DEF NoneIsMadeUpFor
        <5> QED BY <2>2, <4>7, <5>1, <5>2
      <4>10. Len(open') = Len(frames')
        BY <4>1, <4>7, <4>8
      <4> QED BY <4>9, <4>10 DEF NoneIsMadeUpFor, CallsMatch, TypeAt
    <3> QED BY <2>1, <3>1, <3>2, StillPlaced
  <2> QED BY <2>1, <2>3, <2>4
<1>6. CASE EndContainer
  <2>1. /\ at' = at + 1 /\ open' = Rest(open) /\ frames' = Rest(frames) /\ msg' = msg
        /\ status = "running" /\ Tok(msg, at).type = "end"
        /\ Len(frames) # 1 => status' # "done"
    BY <1>6 DEF EndContainer, OnEnd
  <2>2. /\ at \in Tokens(msg) /\ at > 1 /\ frames # << >> /\ open # << >>
        /\ Len(open) \in Nat /\ Len(open) > 0 /\ open[Len(open)] = msg.parent[at]
        /\ Len(frames) \in Nat /\ Len(frames) > 0
    BY <2>1, Innermost
  <2>3. /\ Len(open') = Len(open) - 1 /\ \A k \in 1..Len(open) - 1 : open'[k] = open[k]
        /\ Len(frames') = Len(frames) - 1 /\ \A k \in 1..Len(frames) - 1 : frames'[k] = frames[k]
    BY <1>1, <2>1, <2>2, RestOf
  <2>4. ASSUME ~HasNestedBlock
        PROVE  NoneIsMadeUpFor' /\ CallsMatch'
    <3>1. /\ NoneIsMadeUpFor /\ Len(open) = Len(frames)
          /\ \A k \in 1..Len(frames) : open[k] = frames[k].of
      BY <2>1, <2>4 DEF Placed, CallsMatch
    <3>2. ASSUME NEW k \in 1..Len(frames')
          PROVE  /\ frames'[k].orElse = "fail"
                 /\ frames'[k].does \in {"AttributeStatusIB", "AttributeDataIB"} =>
                      TypeAt(msg', frames'[k].of) = "structure"
                 /\ open'[k] = frames'[k].of
      <4>1. k \in 1..Len(frames) /\ k \in 1..Len(frames) - 1 /\ k \in 1..Len(open) - 1
        BY <2>2, <2>3, <3>1
      <4> QED BY <2>1, <2>3, <3>1, <4>1 DEF NoneIsMadeUpFor
    <3>3. Len(open') = Len(frames')
      BY <2>3, <3>1
    <3> QED BY <3>2, <3>3 DEF NoneIsMadeUpFor, CallsMatch, TypeAt
  <2>5. CASE Len(frames) # 1
    BY <2>1, <2>4, <2>5, StillPlaced
  <2>6. CASE Len(frames) = 1
    <3>1. status' = "done"
      BY <1>6, <2>6 DEF EndContainer
    <3>2. ASSUME ~HasNestedBlock
          PROVE  at' = Len(msg.toks) + 1
      <4>1. Len(open) = 1
        BY <2>1, <2>6, <3>2 DEF Placed, CallsMatch
      <4>2. msg.parent[open[1]] = 0 /\ open[1] \in Tokens(msg)
        <5>1. 1 \in 1..Len(open)
          BY <4>1
        <5> QED BY <1>1, <5>1 DEF OpenIsAround
      <4>3. msg.parent[at] = 1
        BY <1>2, <2>2, <4>1, <4>2, TokenFacts
      <4>4. at = Len(msg.toks)
        BY <1>2, <2>1, <2>2, <4>3, AfterEnd DEF Tok
      <4> QED BY <2>1, <4>4
    <3>3. HasNestedBlock' <=> HasNestedBlock
      BY <2>1, NestedKept
    <3>4. KeepsPlace'
      BY <2>1, <3>1, <3>2, <3>3 DEF KeepsPlace
    <3> QED BY <2>4, <3>3, <3>4 DEF Placed
  <2> QED BY <2>5, <2>6
<1>7. CASE ReturnError
  <2>1. frames' = Rest(frames) /\ msg' = msg /\ status = "failing"
    BY <1>7 DEF ReturnError
  <2>2. /\ Top.orElse = "generic" \/ status' \in {"error", "failing"}
        /\ status' # "done"
    BY <1>7 DEF ReturnError
  <2>3. frames # << >> /\ Len(frames) \in Nat /\ Len(frames) > 0
    BY <2>1, Innermost
  <2>4. Len(frames') = Len(frames) - 1 /\ \A k \in 1..Len(frames) - 1 : frames'[k] = frames[k]
    BY <1>1, <2>1, <2>3, RestOf
  <2>5. ASSUME ~HasNestedBlock
        PROVE  NoneIsMadeUpFor' /\ CallsMatch'
    <3>1. NoneIsMadeUpFor
      BY <2>5 DEF Placed
    <3>2. Top.orElse = "fail"
      BY <2>3, <3>1 DEF NoneIsMadeUpFor, Top
    <3>3. CallsMatch'
      BY <2>2, <3>2 DEF CallsMatch
    <3>4. ASSUME NEW k \in 1..Len(frames')
          PROVE  /\ frames'[k].orElse = "fail"
                 /\ frames'[k].does \in {"AttributeStatusIB", "AttributeDataIB"} =>
                      TypeAt(msg', frames'[k].of) = "structure"
      <4>1. k \in 1..Len(frames) /\ k \in 1..Len(frames) - 1
        BY <2>3, <2>4
      <4> QED BY <2>1, <2>4, <3>1, <4>1 DEF NoneIsMadeUpFor
    <3> QED BY <3>3, <3>4 DEF NoneIsMadeUpFor, TypeAt
  <2> QED BY <2>1, <2>2, <2>5, StillPlaced
<1>8. CASE UNCHANGED vars
  <2>1. /\ msg' = msg /\ frames' = frames /\ open' = open /\ status' = status /\ at' = at
    BY <1>8 DEF vars
  <2>2. HasNestedBlock' <=> HasNestedBlock
    BY <2>1, NestedKept
  <2>3. (NoneIsMadeUpFor /\ CallsMatch) => NoneIsMadeUpFor' /\ CallsMatch'
    BY <2>1 DEF NoneIsMadeUpFor, CallsMatch, TypeAt
  <2>4. KeepsPlace'
    BY <2>1, <2>2 DEF Placed, KeepsPlace
  <2> QED BY <2>2, <2>3, <2>4 DEF Placed
<1> QED BY <1>3, <1>4, <1>5, <1>6, <1>7, <1>8 DEF Next
-----------------------------------------------------------------------------
(***************************************************************************)
(* The inductive invariant.                                                *)
(***************************************************************************)
IInv == WellTyped /\ OpenIsAround /\ CommandsFail /\ Shown /\ Placed

LEMMA InitIInv == Init => IInv
  BY InitTyped, InitAround, InitCommandsFail, InitShown, InitPlaced DEF IInv

LEMMA NextIInv == IInv /\ [Next]_vars => IInv'
<1> SUFFICES ASSUME IInv, [Next]_vars PROVE IInv'
  OBVIOUS
<1>1. WellTyped'
  BY StepTyped DEF IInv
<1>2. OpenIsAround'
  BY StepAround DEF IInv
<1>3. CommandsFail'
  BY StepCommandsFail DEF IInv
<1>4. Shown'
  BY StepShown DEF IInv
<1>5. Placed'
  BY <1>1, StepPlaced DEF IInv
<1> QED BY <1>1, <1>2, <1>3, <1>4, <1>5 DEF IInv

\* While a message is dissected, containers are entered and shown as the calls
\* of the dissectors of the interaction model, open and closed, say.
THEOREM Inductive == Spec => []IInv
  BY InitIInv, NextIInv, PTL DEF Spec

(***************************************************************************)
(* Every variable has its type, for any well-formed messages: no call is   *)
(* ever returned from that was not made, no container left that was not    *)
(* entered, and ids come from the message.                                 *)
(***************************************************************************)
THEOREM TypeCorrect == Spec => []TypeOK
<1>1. IInv => TypeOK
  BY DEF IInv, WellTyped
<1> QED BY <1>1, Inductive, PTL

(***************************************************************************)
(* Whatever has failed, the containers that the TLVDissector is in are     *)
(* those around the element that it reads next (EnterContainer,            *)
(* PushContainer and PopContainer), and every call has one to leave.       *)
(***************************************************************************)
THEOREM ContainersAreAround == Spec => []OpenIsAround
<1>1. IInv => OpenIsAround
  BY DEF IInv
<1> QED BY <1>1, Inductive, PTL

(***************************************************************************)
(* Items come in the order of the encoding and none is shown twice, though *)
(* a caller may show what its callee has failed to.                        *)
(***************************************************************************)
THEOREM NothingShownTwice == Spec => []ShownOnce
<1>1. IInv => ShownOnce
  BY DEF IInv, Shown
<1> QED BY <1>1, Inductive, PTL

(***************************************************************************)
(* No value is passed over unless an error is reported, not even one at    *)
(* which a dissector has failed and whose caller goes on.                  *)
(***************************************************************************)
THEOREM NothingLost == Spec => []NothingPassedOver
<1>1. IInv => NothingPassedOver
  BY DEF IInv, Shown
<1> QED BY <1>1, Inductive, PTL

(***************************************************************************)
(* In messages without nested blocks each call reads the container that it *)
(* was made for, and a message that is done was read to its end.           *)
(***************************************************************************)
THEOREM PlaceKept == Spec => []KeepsPlace
<1>1. IInv => KeepsPlace
  BY DEF IInv, Placed
<1> QED BY <1>1, Inductive, PTL
-----------------------------------------------------------------------------
(***************************************************************************)
(* What is true of the items shown, of the calls under way and of the      *)
(* place i that was reached in message m.                                  *)
(***************************************************************************)
PathHolders == {"AttributeDataIB", "CommandDataOfRequest", "CommandDataOfResponse"}
RequestPart  == {"CommandList", "CommandDataOfRequest", "RequestFields"}
ResponsePart == {"InvokeResponses", "InvokeResponseIB", "CommandDataOfResponse", "ResponseFields"}

\* The ids are those of a path in block b, which comes before token i.
IdsBefore(m, b, ids, i) ==
  \E p \in MembersOf(m, b) : p < i /\ ids[1] \in MembersOf(m, p) /\ ids[2] \in MembersOf(m, p)

\* What BlockOf is with the items ls.
OwnBlock(m, l, ls) ==
  LET p == m.parent[l.from]
  IN  IF \E k \in 1..Len(ls) : ls[k].from = p /\ ls[k].to = p /\ ls[k].as = l.as
      THEN m.parent[p] ELSE p

FieldNamed(m, l, ls) ==
  IsField(l) =>
    /\ IdsBefore(m, OwnBlock(m, l, ls), l.ids, l.from)
    /\ l.as = "RequestFields" => m.kind = "CommandRequest"
    /\ l.as = "ResponseFields" => m.kind = "CommandResponse"

Directed(m, f) ==
  /\ f.does \in Kinds => f.does = m.kind
  /\ f.does \in RequestPart => m.kind = "CommandRequest"
  /\ f.does \in ResponsePart => m.kind = "CommandResponse"

\* A call remembers the ids of its path, or is in the fields that the path is of.
Remembering(m, f, ls, i) ==
  /\ f.of < i /\ Directed(m, f)
  /\ f.does \in PathHolders =>
       /\ f.ids = NoIds \/ IdsBefore(m, f.of, f.ids, i)
       /\ \A n \in 1..Len(ls) : ls[n].from = f.of => ~IsField(ls[n])
  /\ f.does \in FieldBlocks =>
       /\ \E n \in 1..Len(ls) : ls[n].from = f.of /\ ls[n].to = f.of /\ ls[n].as = f.does
       /\ IdsBefore(m, m.parent[f.of], f.ids, i)

LinesBefore(ls, i) == \A n \in 1..Len(ls) : ls[n].from < i

LEMMA IdsStayBefore ==
  ASSUME NEW m, IsMessage(m), NEW i \in Nat, NEW j \in Nat, i <= j, NEW b, NEW ids, IdsBefore(m, b, ids, i)
  PROVE  IdsBefore(m, b, ids, j)
<1>1. PICK p \in MembersOf(m, b) :
        p < i /\ ids[1] \in MembersOf(m, p) /\ ids[2] \in MembersOf(m, p)
  BY DEF IdsBefore
<1>2. p \in Int
  BY DEF MembersOf
<1>3. p < j
  BY <1>1, <1>2
<1> QED BY <1>1, <1>3 DEF IdsBefore

\* Nothing is forgotten when the dissection goes on and nothing is shown.
LEMMA GoesOn ==
  ASSUME NEW m, IsMessage(m), NEW ls \in Seq(LineType(m)), NEW i \in Nat, NEW j \in Nat, i <= j
  PROVE  /\ LinesBefore(ls, i) => LinesBefore(ls, j)
         /\ \A f \in FrameType(m) : Remembering(m, f, ls, i) => Remembering(m, f, ls, j)
<1>1. ASSUME LinesBefore(ls, i) PROVE LinesBefore(ls, j)
  <2>1. SUFFICES ASSUME NEW n \in 1..Len(ls) PROVE ls[n].from < j
    BY DEF LinesBefore
  <2>2. ls[n] \in LineType(m)
    OBVIOUS
  <2>3. ls[n].from \in Nat /\ ls[n].from < i
    BY <1>1, <2>2 DEF LinesBefore, LineType, Tokens
  <2> QED BY <2>3
<1>2. ASSUME NEW f \in FrameType(m), Remembering(m, f, ls, i) PROVE Remembering(m, f, ls, j)
  <2>1. f.of \in Nat
    BY DEF FrameType, Tokens
  <2>2. f.of < j
    BY <1>2, <2>1 DEF Remembering
  <2> QED BY <1>2, <2>2, IdsStayBefore DEF Remembering
<1> QED BY <1>1, <1>2

\* Nor when an item is shown for token i.
LEMMA ShowsMore ==
  ASSUME NEW m, IsMessage(m), NEW ls \in Seq(LineType(m)), NEW i \in Tokens(m), NEW j \in Nat, i < j,
         NEW l \in LineType(m), l.from = i, LinesBefore(ls, i)
  PROVE  LET new == Append(ls, l)
         IN  /\ Len(new) = Len(ls) + 1 /\ new[Len(ls) + 1] = l /\ \A n \in 1..Len(ls) : new[n] = ls[n]
             /\ LinesBefore(new, j)
             /\ \A f \in FrameType(m) : Remembering(m, f, ls, i) => Remembering(m, f, new, j)
             /\ \A n \in 1..Len(ls) : FieldNamed(m, ls[n], ls) => FieldNamed(m, new[n], new)
<1> DEFINE new == Append(ls, l)
<1>1. /\ Len(new) = Len(ls) + 1 /\ new[Len(ls) + 1] = l /\ \A n \in 1..Len(ls) : new[n] = ls[n]
      /\ Len(ls) \in Nat
  BY AppendProperties
<1> HIDE DEF new
<1>2. i \in Nat /\ LinesBefore(ls, j) /\ \A f \in FrameType(m) : Remembering(m, f, ls, i) => Remembering(m, f, ls, j)
  BY GoesOn DEF Tokens
<1>3. LinesBefore(new, j)
  <2>1. SUFFICES ASSUME NEW n \in 1..Len(new) PROVE new[n].from < j
    BY DEF LinesBefore
  <2>2. CASE n \in 1..Len(ls)
    BY <1>1, <1>2, <2>2 DEF LinesBefore
  <2>3. CASE n = Len(ls) + 1
    BY <1>1, <2>3
  <2> QED BY <1>1, <2>2, <2>3
<1>4. ASSUME NEW f \in FrameType(m), Remembering(m, f, ls, i) PROVE Remembering(m, f, new, j)
  <2>1. Remembering(m, f, ls, j) /\ f.of < i /\ f.of \in Nat
    BY <1>2, <1>4 DEF Remembering, FrameType, Tokens
  <2>2. ASSUME \A n \in 1..Len(ls) : ls[n].from = f.of => ~IsField(ls[n]),
               NEW n \in 1..Len(new), new[n].from = f.of
        PROVE  ~IsField(new[n])
    <3>1. n # Len(ls) + 1
      BY <1>1, <1>2, <2>1, <2>2
    <3>2. n \in 1..Len(ls)
      BY <1>1, <3>1
    <3> QED BY <1>1, <2>2, <3>2
  <2>3. ASSUME NEW n \in 1..Len(ls), ls[n].from = f.of, ls[n].to = f.of, ls[n].as = f.does
        PROVE  \E k \in 1..Len(new) : new[k].from = f.of /\ new[k].to = f.of /\ new[k].as = f.does
    <3>1. n \in 1..Len(new)
      BY <1>1
    <3> QED BY <1>1, <2>3, <3>1
  <2> QED BY <2>1, <2>2, <2>3 DEF Remembering
<1>5. ASSUME NEW n \in 1..Len(ls), FieldNamed(m, ls[n], ls) PROVE FieldNamed(m, new[n], new)
  <2> DEFINE x == ls[n]
             p == m.parent[x.from]
  <2>1. x \in LineType(m) /\ x.from < i
    BY DEF LinesBefore
  <2>2. x.from \in Tokens(m)
    BY <2>1 DEF LineType
  <2>3. p < x.from /\ p \in 0..Len(m.toks)
    BY <2>2, TokenFacts
  <2>4. p # i
    BY <1>2, <2>1, <2>2, <2>3 DEF Tokens
  <2> HIDE DEF p
  <2>5. (\E k \in 1..Len(new) : new[k].from = p /\ new[k].to = p /\ new[k].as = x.as) <=>
        (\E k \in 1..Len(ls) : ls[k].from = p /\ ls[k].to = p /\ ls[k].as = x.as)
    <3>1. ASSUME NEW k \in 1..Len(new), new[k].from = p
          PROVE  k \in 1..Len(ls)
      <4>1. k # Len(ls) + 1
        BY <1>1, <2>4, <3>1
      <4> QED BY <1>1, <4>1
    <3>2. \A k \in 1..Len(ls) : k \in 1..Len(new)
      BY <1>1
    <3> QED BY <1>1, <3>1, <3>2
  <2>6. OwnBlock(m, x, new) = OwnBlock(m, x, ls)
    BY <2>5 DEF OwnBlock, p
  <2> QED BY <1>1, <1>5, <2>6 DEF FieldNamed
<1> QED BY <1>1, <1>3, <1>4, <1>5 DEF new

(***************************************************************************)
(* The items that are shown with the name of a field.                      *)
(***************************************************************************)
\* In the block that has the path, or for the structure of the fields.
LEMMA NamedInBlock ==
  ASSUME NEW m, IsMessage(m), NEW ls \in Seq(LineType(m)), NEW i \in Tokens(m),
         NEW l \in LineType(m), l.from = i, LinesBefore(ls, i),
         NEW f \in FrameType(m), f.of = m.parent[i], Remembering(m, f, ls, i),
         f.does \in PathHolders, f.ids # NoIds, l.ids = f.ids, IsField(l),
         l.as = "RequestFields" => f.does = "CommandDataOfRequest",
         l.as = "ResponseFields" => f.does = "CommandDataOfResponse"
  PROVE  FieldNamed(m, l, Append(ls, l))
<1> DEFINE new == Append(ls, l)
           p   == m.parent[i]
<1>1. /\ Len(new) = Len(ls) + 1 /\ new[Len(ls) + 1] = l /\ \A n \in 1..Len(ls) : new[n] = ls[n]
      /\ Len(ls) \in Nat
  BY AppendProperties
<1> HIDE DEF new
<1>2. p # i
  BY TokenFacts DEF Tokens
<1>3. ~ \E k \in 1..Len(new) : new[k].from = p /\ new[k].to = p /\ new[k].as = l.as
  <2>1. SUFFICES ASSUME NEW k \in 1..Len(new), new[k].from = p, new[k].as = l.as PROVE FALSE
    OBVIOUS
  <2>2. k # Len(ls) + 1
    BY <1>1, <1>2, <2>1
  <2>3. k \in 1..Len(ls)
    BY <1>1, <2>2
  <2>4. ~IsField(ls[k])
    BY <1>1, <2>1, <2>3 DEF Remembering
  <2> QED BY <1>1, <2>1, <2>3, <2>4 DEF IsField
<1>4. OwnBlock(m, l, new) = f.of
  BY <1>3 DEF OwnBlock
<1>5. IdsBefore(m, f.of, f.ids, i) /\ Directed(m, f)
  BY DEF Remembering
<1>6. FieldNamed(m, l, new)
  BY <1>4, <1>5 DEF FieldNamed, Directed, RequestPart, ResponsePart
<1> QED BY <1>6 DEF new

\* In the structure of the fields.
LEMMA NamedInFields ==
  ASSUME NEW m, IsMessage(m), NEW ls \in Seq(LineType(m)), NEW i \in Tokens(m),
         NEW l \in LineType(m), l.from = i,
         NEW f \in FrameType(m), f.of = m.parent[i], Remembering(m, f, ls, i),
         f.does \in FieldBlocks, l.ids = f.ids, l.as = f.does
  PROVE  FieldNamed(m, l, Append(ls, l))
<1> DEFINE new == Append(ls, l)
<1>1. /\ Len(new) = Len(ls) + 1 /\ \A n \in 1..Len(ls) : new[n] = ls[n]
      /\ Len(ls) \in Nat
  BY AppendProperties
<1> HIDE DEF new
<1>2. PICK n \in 1..Len(ls) : ls[n].from = f.of /\ ls[n].to = f.of /\ ls[n].as = f.does
  BY DEF Remembering
<1>3. n \in 1..Len(new) /\ new[n].from = f.of /\ new[n].to = f.of /\ new[n].as = f.does
  BY <1>1, <1>2
<1>4. OwnBlock(m, l, new) = m.parent[f.of]
  BY <1>3 DEF OwnBlock
<1>5. IdsBefore(m, m.parent[f.of], f.ids, i) /\ Directed(m, f)
  BY DEF Remembering
<1>6. FieldNamed(m, l, new)
  BY <1>4, <1>5 DEF FieldNamed, Directed, RequestPart, ResponsePart
<1> QED BY <1>6 DEF new

(***************************************************************************)
(* The ids that a path gives.                                              *)
(***************************************************************************)
LEMMA IdsInPath ==
  ASSUME NEW m, IsMessage(m), NEW i \in Tokens(m), NEW kind, NEW ids
  PROVE  \/ IdsOf(m, i, kind, ids) = ids
         \/ /\ IdsOf(m, i, kind, ids)[1] \in MembersOf(m, i)
            /\ IdsOf(m, i, kind, ids)[2] \in MembersOf(m, i)
<1>1. Len(m.toks) \in Nat /\ m.last[i] \in Tokens(m)
  BY LengthOf, TokenFacts
<1>2. ASSUME NEW k, PathPart(m, i, kind, k) # 0
      PROVE  PathPart(m, i, kind, k) \in MembersOf(m, i)
  <2>1. PathParts(m, i, kind, k) \subseteq 0..Len(m.toks) /\ PathParts(m, i, kind, k) \subseteq MembersOf(m, i)
    BY <1>1 DEF PathParts, MembersOf, Tokens
  <2>2. PathParts(m, i, kind, k) # {}
    BY <1>2 DEF PathPart
  <2>3. CASE Extracts(kind)
    BY <1>1, <2>1, <2>2, <2>3, GreatestExists DEF PathPart
  <2>4. CASE ~Extracts(kind)
    <3>1. PathParts(m, i, kind, k) \subseteq Nat
      BY <1>1, <2>1
    <3>2. Least(PathParts(m, i, kind, k)) \in PathParts(m, i, kind, k)
      BY <2>2, <3>1, LeastExists
    <3> QED BY <2>1, <2>2, <2>4, <3>2 DEF PathPart
  <2> QED BY <2>3, <2>4
<1> QED BY <1>2 DEF IdsOf

\* A path gives its ids to the call that reads its block.
LEMMA PathRemembered ==
  ASSUME NEW m, IsMessage(m), NEW ls, NEW i \in Tokens(m), i > 1, m.toks[i].type # "end",
         NEW j \in Nat, i < j, NEW kind,
         NEW f \in FrameType(m), f.of = m.parent[i], Remembering(m, f, ls, j), f.does \notin FieldBlocks
  PROVE  Remembering(m, [f EXCEPT !.ids = IdsOf(m, i, kind, f.ids)], ls, j)
<1> DEFINE ids == IdsOf(m, i, kind, f.ids)
           g == [f EXCEPT !.ids = ids]
<1>1. g.does = f.does /\ g.of = f.of /\ g.ids = ids
  BY DEF FrameType
<1> HIDE DEF g, ids
<1>2. ASSUME ids = f.ids PROVE Remembering(m, g, ls, j)
  BY <1>1, <1>2 DEF Remembering, Directed
<1>3. ASSUME ids[1] \in MembersOf(m, i), ids[2] \in MembersOf(m, i)
      PROVE  Remembering(m, g, ls, j)
  <2>1. /\ m.parent[i] \in 0..Len(m.toks) /\ m.parent[i] # 0 /\ m.parent[i] < i
        /\ m.last[i] >= i /\ m.last[i] < m.last[m.parent[i]] /\ m.last[i] \in Tokens(m)
    BY TokenFacts DEF Tokens
  <2>2. m.parent[i] \in Tokens(m)
    BY <2>1, LengthOf DEF Tokens
  <2>3. m.last[m.parent[i]] \in Tokens(m)
    BY <2>2, TokenFacts
  <2>4. i \in MembersOf(m, m.parent[i])
    BY <2>1, <2>2, <2>3 DEF MembersOf, Tokens
  <2>5. IdsBefore(m, g.of, ids, j)
    BY <1>1, <1>3, <2>4 DEF IdsBefore
  <2> QED BY <1>1, <2>5 DEF Remembering, Directed
<1>4. ids = f.ids \/ (ids[1] \in MembersOf(m, i) /\ ids[2] \in MembersOf(m, i))
  BY IdsInPath DEF ids
<1>5. Remembering(m, g, ls, j)
  BY <1>2, <1>3, <1>4
<1> QED BY <1>5 DEF g, ids
-----------------------------------------------------------------------------
(***************************************************************************)
(* The steps, with what they show and remember of ids.                     *)
(***************************************************************************)
\* An item for the element that was read, with a name that f may give it.
NamedFor(l, f) ==
  IsField(l) =>
    /\ l.ids = f.ids
    /\ \/ l.as = "AttributeValue" /\ f.does = "AttributeDataIB" /\ f.ids # NoIds
       \/ l.as = f.does /\ f.does \in FieldBlocks

ShowsNamed ==
  /\ frames' = frames
  /\ \E l \in LineType(msg) : l.from = at /\ lines' = Append(lines, l) /\ NamedFor(l, Top)

ShowsPath ==
  /\ \E l \in LineType(msg) : l.from = at /\ lines' = Append(lines, l) /\ ~IsField(l)
  /\ \E kind : frames' = Remembers(IdsOf(msg, at, kind, Top.ids))
  /\ Top.does \notin FieldBlocks

ShowsNothing == frames' = frames /\ lines' = lines

LEMMA ShownWithIds ==
  ASSUME WellTyped, OpenIsAround, NextElement
  PROVE  ShowsNamed \/ ShowsPath \/ ShowsNothing
<1>1. OnElement
  BY DEF NextElement
<1>2. at \in Tokens(msg) /\ Top \in FrameType(msg) /\ IsMessage(msg) /\ NoIds \in IdsType(msg)
  BY <1>1, Innermost, TheMessage, NoIdsTyped DEF OnElement
<1>3. Top.ids \in IdsType(msg) /\ Top.does \in Kinds \cup Lists \cup Blocks
  BY <1>2 DEF FrameType
<1> DEFINE r == Rule
<1>4. Good(r, Tok(msg, at), Top) /\ Fits(r, Top)
  BY <1>1, <1>3, TheElement, RulesFit DEF Rule
<1>5. RejectElement(at, r) \/ ShowElement(at, r) \/ ShowTyped(at, r) \/ ShowPath(at, r) \/ LeaveElement(at, r)
  BY DEF NextElement
<1> HIDE DEF r
<1>6. r.ids \in IdsType(msg) /\ (r.do = "named" => r.arg \in ItemLooks)
  BY <1>2, <1>3, <1>4 DEF Good, IsRule, FieldNames, ItemLooks, Blocks
<1>7. ASSUME NEW as \in {"text", "generic", "typed"}, NEW ids \in IdsType(msg), Shows(at, as, ids)
      PROVE  ShowsNamed
  <2>1. as \in ItemLooks
    BY DEF ItemLooks
  <2>2. Line(at, as, TRUE, ids) \in LineType(msg) /\ Line(at, as, TRUE, ids).from = at
    BY <1>2, <2>1, LineTyped
  <2>3. ~IsField(Line(at, as, TRUE, ids))
    BY DEF Line, IsField
  <2> QED BY <1>7, <2>2, <2>3 DEF Shows, ShowsNamed, NamedFor
<1>8. CASE RejectElement(at, r) \/ LeaveElement(at, r)
  BY <1>8 DEF RejectElement, LeaveElement, Fails, ShowsNothing
<1>9. CASE ShowElement(at, r)
  <2>1. CASE r.field = "none"
    BY <1>9, <2>1 DEF ShowElement, Throws, ShowsNothing
  <2>2. CASE r.field # "none" /\ r.do # "named"
    <3>1. Shows(at, r.do, r.ids) /\ r.do \in {"text", "generic"}
      BY <1>9, <2>2 DEF ShowElement
    <3> QED BY <3>1, <1>6, <1>7
  <2>3. CASE r.field # "none" /\ r.do = "named"
    <3> DEFINE l == Line(at, r.arg, TRUE, r.ids)
    <3>1. lines' = Append(lines, l) /\ frames' = frames
      BY <1>9, <2>3 DEF ShowElement, Shows
    <3>2. l \in LineType(msg) /\ l.from = at
      <4>1. r.arg \in ItemLooks
        BY <1>6, <2>3
      <4> QED BY <1>2, <1>6, <4>1, LineTyped
    <3>3. l.as = r.arg /\ l.ids = r.ids
      BY DEF Line
    <3>4. NamedFor(l, Top)
      <4> HIDE DEF l
      <4> QED BY <1>4, <2>3, <3>3 DEF Fits, NamesByPath, NamedFor, IsField
    <3> QED BY <3>1, <3>2, <3>4 DEF ShowsNamed
  <2> QED BY <2>1, <2>2, <2>3
<1>10. CASE ShowTyped(at, r)
  <2>1. Shows(at, "typed", NoIds) \/ Fails(at) \/ Throws(at)
    BY <1>10 DEF ShowTyped
  <2>2. Shows(at, "typed", NoIds) => ShowsNamed
    BY <1>2, <1>7
  <2> QED BY <2>1, <2>2 DEF Fails, Throws, ShowsNothing
<1>11. CASE ShowPath(at, r)
  <2>1. CASE TypeAt(msg, at) \notin {"path", "structure"}
    <3>1. Shows(at, "generic", NoIds) \/ Fails(at)
      BY <1>11, <2>1 DEF ShowPath
    <3>2. Shows(at, "generic", NoIds) => ShowsNamed
      BY <1>2, <1>7
    <3> QED BY <3>1, <3>2 DEF Fails, ShowsNothing
  <2>2. CASE TypeAt(msg, at) \in {"path", "structure"} /\ ~HasPathPart(msg, at, r.arg)
    BY <1>11, <2>2 DEF ShowPath, Fails, ShowsNothing
  <2>3. CASE TypeAt(msg, at) \in {"path", "structure"} /\ HasPathPart(msg, at, r.arg)
    <3> DEFINE l == Line(at, "path", TRUE, NoIds)
    <3>1. /\ lines' = Append(lines, l)
          /\ frames' = [frames EXCEPT ![Len(frames)].ids = IdsOf(msg, at, r.arg, @)]
      BY <1>11, <2>3 DEF ShowPath
    <3>2. frames' = Remembers(IdsOf(msg, at, r.arg, Top.ids))
      BY <3>1 DEF Remembers, Top
    <3>3. "path" \in ItemLooks
      BY DEF ItemLooks
    <3>4. l \in LineType(msg) /\ l.from = at
      BY <1>2, <3>3, LineTyped
    <3>5. ~IsField(l)
      BY DEF Line, IsField
    <3>6. Top.does \notin FieldBlocks
      BY <1>4, <1>11 DEF Fits, ShowPath
    <3> QED BY <3>1, <3>2, <3>4, <3>5, <3>6 DEF ShowsPath
  <2> QED BY <2>1, <2>2, <2>3
<1> QED BY <1>5, <1>8, <1>9, <1>10, <1>11

\* The head of a block that is entered, which is shown but for one of them.
ShowsHead(fr) ==
  \E l \in LineType(msg) :
    l.from = at /\ l.to = at /\ l.as = fr.does /\ l.ids = fr.ids /\ lines' = Append(lines, l)

EntersWithIds(fr) ==
  /\ fr.of = at /\ at' = at + 1 /\ frames' = Append(frames, fr)
  /\ fr.does \in Lists \cup Blocks
  /\ fr.does \in DOMAIN CallerOf => Top.does = CallerOf[fr.does]
  /\ fr.does \in FieldBlocks => fr.ids = Top.ids /\ Top.ids # NoIds
  /\ fr.does \notin FieldBlocks => fr.ids = NoIds
  /\ IF fr.does = "InvokeResponseIB" THEN lines' = lines ELSE ShowsHead(fr)

LEMMA EnteredWithIds ==
  ASSUME WellTyped, OpenIsAround, EnterElement
  PROVE  \/ at' = After(msg, at) /\ (ShowsNothing \/ ShowsNamed)
         \/ \E fr \in FrameType(msg) : EntersWithIds(fr)
<1> DEFINE r == Rule
<1>1. /\ OnElement /\ r.do = "enter"
      /\ IF TypeAt(msg, at) \in Accepts(r.arg)
         THEN /\ at' = at + 1
              /\ frames' = Append(frames, Frame(r, at))
              /\ lines' = lines \o EnteredLine(at, r)
         ELSE at' = After(msg, at) /\ FailsToEnter(at, r)
  BY DEF EnterElement
<1>2. at \in Tokens(msg) /\ Top \in FrameType(msg) /\ IsMessage(msg) /\ NoIds \in IdsType(msg)
  BY <1>1, Innermost, TheMessage, NoIdsTyped DEF OnElement
<1>3. Top.ids \in IdsType(msg) /\ Top.does \in Kinds \cup Lists \cup Blocks
  BY <1>2 DEF FrameType
<1>4. Good(r, Tok(msg, at), Top) /\ Fits(r, Top)
  BY <1>1, <1>3, TheElement, RulesFit DEF Rule
<1> HIDE DEF r
<1>5. /\ r.orElse \in {"fail", "generic"} /\ r.after \in {"return", "generic"}
      /\ r.ids \in IdsType(msg) /\ r.arg \in Lists \cup Blocks
  BY <1>1, <1>2, <1>3, <1>4 DEF Good, IsRule
<1>6. CASE TypeAt(msg, at) \notin Accepts(r.arg)
  <2>1. at' = After(msg, at) /\ FailsToEnter(at, r)
    BY <1>1, <1>6
  <2>2. CASE r.arg \notin CommandBlocks
    BY <2>1, <2>2 DEF FailsToEnter, ShowsNothing, CommandBlocks
  <2>3. CASE r.arg \in CommandBlocks
    <3> DEFINE l == Line(at, r.arg, FALSE, r.ids)
    <3>1. frames' = frames /\ lines' = Append(lines, l)
      BY <2>1, <2>3 DEF FailsToEnter, CommandBlocks
    <3>2. r.arg \in ItemLooks
      BY <1>5 DEF ItemLooks
    <3>3. l \in LineType(msg) /\ l.from = at
      BY <1>2, <1>5, <3>2, HeadLineTyped
    <3>4. ~IsField(l)
      BY <2>3 DEF Line, IsField, CommandBlocks
    <3> HIDE DEF l
    <3>5. ShowsNamed
      BY <3>1, <3>3, <3>4 DEF ShowsNamed, NamedFor
    <3> QED BY <2>1, <3>5
  <2> QED BY <2>2, <2>3
<1>7. CASE TypeAt(msg, at) \in Accepts(r.arg)
  <2> DEFINE fr == Frame(r, at)
  <2>1. fr \in FrameType(msg) /\ fr.of = at /\ fr.does = r.arg /\ fr.ids = r.ids
    BY <1>2, <1>5 DEF Frame, FrameType
  <2>2. lines \in Seq(LineType(msg))
    BY DEF WellTyped, TypeOK
  <2>3. frames' = Append(frames, fr) /\ at' = at + 1 /\ lines' = lines \o EnteredLine(at, r)
    BY <1>1, <1>7
  <2> HIDE DEF fr
  <2>4. PassesPath(r, Top)
    BY <1>1, <1>4 DEF Fits
  <2>5. ASSUME r.arg = "InvokeResponseIB" PROVE lines' = lines
    BY <2>2, <2>3, <2>5 DEF EnteredLine
  <2>6. ASSUME r.arg # "InvokeResponseIB" PROVE ShowsHead(fr)
    <3> DEFINE l == Line(at, r.arg, FALSE, r.ids)
    <3>1. r.arg \in ItemLooks
      BY <1>5 DEF ItemLooks
    <3>2. l \in LineType(msg) /\ l.from = at /\ l.to = at
      BY <1>2, <1>5, <3>1, HeadLineTyped
    <3>3. l.as = r.arg /\ l.ids = r.ids
      BY DEF Line
    <3>4. lines' = lines \o <<l>>
      BY <2>3, <2>6 DEF EnteredLine
    <3> HIDE DEF l
    <3>5. lines' = Append(lines, l)
      BY <2>2, <3>2, <3>4, AppendIsConcat
    <3> QED BY <2>1, <3>2, <3>3, <3>5 DEF ShowsHead
  <2>7. EntersWithIds(fr)
    BY <1>5, <2>1, <2>3, <2>4, <2>5, <2>6 DEF EntersWithIds, PassesPath
  <2> QED BY <2>1, <2>7
<1> QED BY <1>6, <1>7
-----------------------------------------------------------------------------
(***************************************************************************)
(* The inductive invariant.  That calls remember the ids of their own path *)
(* rests on their being in the container that they were made for (Placed). *)
(***************************************************************************)
PathsRemembered ==
  /\ LinesBefore(lines, at)
  /\ \A k \in 1..Len(frames) : Remembering(msg, frames[k], lines, at)
  /\ \A n \in 1..Len(lines) : FieldNamed(msg, lines[n], lines)

PathInv == IInv /\ (~HasNestedBlock => PathsRemembered)

LEMMA InitPathInv == Init => PathInv
<1> SUFFICES ASSUME Init PROVE PathInv
  OBVIOUS
<1>1. frames = << >> /\ lines = << >>
  BY DEF Init
<1>2. PathsRemembered
  BY <1>1 DEF PathsRemembered, LinesBefore
<1> QED BY <1>2, InitIInv DEF PathInv

\* The first call is for the message itself.
LEMMA FirstCall ==
  ASSUME WellTyped, OpenIsAround, Begin
  PROVE  PathsRemembered'
<1>1. /\ lines' = lines /\ status = "start" /\ msg' = msg
      /\ \/ at' = 2 /\ frames' = <<Frame(Enter(msg.kind), 1)>>
         \/ frames' = frames
  BY DEF Begin
<1>2. lines = << >> /\ frames = << >>
  BY <1>1 DEF WellTyped, Fresh
<1>3. LinesBefore(lines', at') /\ \A n \in 1..Len(lines') : FieldNamed(msg', lines'[n], lines')
  BY <1>1, <1>2 DEF LinesBefore
<1>4. ASSUME NEW k \in 1..Len(frames')
      PROVE  Remembering(msg', frames'[k], lines', at')
  <2> DEFINE fr == Frame(Enter(msg.kind), 1)
  <2>1. at' = 2 /\ frames' = <<fr>>
    BY <1>1, <1>2
  <2>2. fr.of = 1 /\ fr.does = msg.kind /\ msg.kind \in Kinds
    BY KindFrame, TheMessage
  <2> HIDE DEF fr
  <2>3. frames'[k] = fr
    BY <2>1
  <2>4. /\ fr.does \notin PathHolders /\ fr.does \notin FieldBlocks
        /\ fr.does \notin RequestPart /\ fr.does \notin ResponsePart
    BY <2>2 DEF Kinds, InteractionModel, SecureChannel, UserDirected, Embedded,
                PathHolders, FieldBlocks, RequestPart, ResponsePart
  <2> QED BY <1>1, <2>1, <2>2, <2>3, <2>4 DEF Remembering, Directed
<1> QED BY <1>3, <1>4 DEF PathsRemembered

\* The innermost call is in the container that it was made for.
LEMMA OfInnermost ==
  ASSUME WellTyped, OpenIsAround, Placed, ~HasNestedBlock, status = "running"
  PROVE  Top.of = msg.parent[at] /\ Top = frames[Len(frames)] /\ Len(frames) \in 1..Len(frames)
<1>1. Len(open) = Len(frames) /\ \A k \in 1..Len(frames) : open[k] = frames[k].of
  BY DEF Placed, CallsMatch
<1> QED BY <1>1, Innermost DEF Top

LEMMA StillRemembered ==
  ASSUME WellTyped, OpenIsAround, Placed, ~HasNestedBlock, PathsRemembered,
         OnElement, at' = After(msg, at), msg' = msg, ShowsNothing \/ ShowsNamed
  PROVE  PathsRemembered'
<1>1. OnElement /\ at' = After(msg, at) /\ msg' = msg
  OBVIOUS
<1>2. /\ at \in Tokens(msg) /\ at > 1 /\ Top \in FrameType(msg) /\ IsMessage(msg)
      /\ frames # << >> /\ Len(frames) \in Nat /\ Len(frames) > 0
  BY <1>1, Innermost, TheMessage DEF OnElement
<1>3. at \in Nat /\ at' \in Nat /\ at < at' /\ msg.toks[at].type # "end"
  BY <1>1, <1>2, TheElement DEF Tokens, Tok
<1>4. lines \in Seq(LineType(msg)) /\ frames \in Seq(FrameType(msg))
  BY DEF WellTyped, TypeOK
<1>5. Top.of = msg.parent[at] /\ Top = frames[Len(frames)] /\ Len(frames) \in 1..Len(frames)
  BY <1>1, OfInnermost DEF OnElement
<1>6. /\ LinesBefore(lines, at)
      /\ \A k \in 1..Len(frames) : frames[k] \in FrameType(msg) /\ Remembering(msg, frames[k], lines, at)
      /\ Remembering(msg, Top, lines, at)
  BY <1>4, <1>5 DEF PathsRemembered
<1>7. CASE ShowsNothing
  <2>1. LinesBefore(lines, at') /\ \A k \in 1..Len(frames) : Remembering(msg, frames[k], lines, at')
    BY <1>2, <1>3, <1>4, <1>6, GoesOn
  <2> QED BY <1>1, <1>7, <2>1 DEF ShowsNothing, PathsRemembered
<1>8. CASE ShowsNamed
  <2>1. PICK l \in LineType(msg) : l.from = at /\ lines' = Append(lines, l) /\ NamedFor(l, Top)
    BY <1>8 DEF ShowsNamed
  <2>2. /\ Len(lines') = Len(lines) + 1 /\ lines'[Len(lines) + 1] = l
        /\ LinesBefore(lines', at')
        /\ \A f \in FrameType(msg) : Remembering(msg, f, lines, at) => Remembering(msg, f, lines', at')
        /\ \A n \in 1..Len(lines) : FieldNamed(msg, lines[n], lines) => FieldNamed(msg, lines'[n], lines')
    BY <1>2, <1>3, <1>4, <1>6, <2>1, ShowsMore
  <2>3. FieldNamed(msg, l, lines')
    <3>1. CASE ~IsField(l)
      BY <3>1 DEF FieldNamed
    <3>2. CASE IsField(l) /\ l.as = "AttributeValue" /\ Top.does = "AttributeDataIB" /\ Top.ids # NoIds
      <4>1. Top.does \in PathHolders /\ l.ids = Top.ids
        BY <2>1, <3>2 DEF PathHolders, NamedFor
      <4> QED BY <1>2, <1>4, <1>5, <1>6, <2>1, <3>2, <4>1, NamedInBlock
    <3>3. CASE IsField(l) /\ l.as = Top.does /\ Top.does \in FieldBlocks
      BY <1>2, <1>4, <1>5, <1>6, <2>1, <3>3, NamedInFields DEF NamedFor
    <3> QED BY <2>1, <3>1, <3>2, <3>3 DEF NamedFor
  <2>4. ASSUME NEW n \in 1..Len(lines') PROVE FieldNamed(msg, lines'[n], lines')
    <3>1. n \in 1..Len(lines) \/ n = Len(lines) + 1
      BY <1>4, <2>2
    <3> QED BY <2>2, <2>3, <3>1 DEF PathsRemembered
  <2>5. \A k \in 1..Len(frames) : Remembering(msg, frames[k], lines', at')
    BY <1>6, <2>2
  <2> QED BY <1>1, <1>8, <2>2, <2>4, <2>5 DEF ShowsNamed, PathsRemembered
<1> QED BY <1>7, <1>8

LEMMA ElementRemembered ==
  ASSUME WellTyped, OpenIsAround, Placed, ~HasNestedBlock, PathsRemembered, NextElement
  PROVE  PathsRemembered'
<1>1. OnElement /\ at' = After(msg, at) /\ msg' = msg
  BY DEF NextElement
<1>2. /\ at \in Tokens(msg) /\ at > 1 /\ Top \in FrameType(msg) /\ IsMessage(msg)
      /\ frames # << >> /\ Len(frames) \in Nat /\ Len(frames) > 0
  BY <1>1, Innermost, TheMessage DEF OnElement
<1>3. at \in Nat /\ at' \in Nat /\ at < at' /\ msg.toks[at].type # "end"
  BY <1>1, <1>2, TheElement DEF Tokens, Tok
<1>4. lines \in Seq(LineType(msg)) /\ frames \in Seq(FrameType(msg))
  BY DEF WellTyped, TypeOK
<1>5. Top.of = msg.parent[at] /\ Top = frames[Len(frames)] /\ Len(frames) \in 1..Len(frames)
  BY <1>1, OfInnermost DEF OnElement
<1>6. /\ LinesBefore(lines, at)
      /\ \A k \in 1..Len(frames) : frames[k] \in FrameType(msg) /\ Remembering(msg, frames[k], lines, at)
      /\ Remembering(msg, Top, lines, at)
  BY <1>4, <1>5 DEF PathsRemembered
<1>7. CASE ShowsNothing \/ ShowsNamed
  BY <1>1, <1>7, StillRemembered
<1>8. CASE ShowsPath
  <2>1. PICK l \in LineType(msg) : l.from = at /\ lines' = Append(lines, l) /\ ~IsField(l)
    BY <1>8 DEF ShowsPath
  <2>2. PICK kind : frames' = Remembers(IdsOf(msg, at, kind, Top.ids))
    BY <1>8 DEF ShowsPath
  <2>3. /\ Len(lines') = Len(lines) + 1 /\ lines'[Len(lines) + 1] = l
        /\ LinesBefore(lines', at')
        /\ \A f \in FrameType(msg) : Remembering(msg, f, lines, at) => Remembering(msg, f, lines', at')
        /\ \A n \in 1..Len(lines) : FieldNamed(msg, lines[n], lines) => FieldNamed(msg, lines'[n], lines')
    BY <1>2, <1>3, <1>4, <1>6, <2>1, ShowsMore
  <2>4. ASSUME NEW n \in 1..Len(lines') PROVE FieldNamed(msg, lines'[n], lines')
    <3>1. n \in 1..Len(lines) \/ n = Len(lines) + 1
      BY <1>4, <2>3
    <3>2. FieldNamed(msg, l, lines')
      BY <2>1 DEF FieldNamed
    <3> QED BY <2>3, <3>1, <3>2 DEF PathsRemembered
  <2> DEFINE g == [Top EXCEPT !.ids = IdsOf(msg, at, kind, Top.ids)]
  <2>5. Remembering(msg, Top, lines', at')
    BY <1>2, <1>6, <2>3
  <2>6. Remembering(msg, g, lines', at')
    BY <1>2, <1>3, <1>5, <1>8, <2>5, PathRemembered DEF ShowsPath
  <2>7. frames' = [frames EXCEPT ![Len(frames)] = g]
    BY <1>5, <2>2 DEF Remembers
  <2> HIDE DEF g
  <2>8. /\ Len(frames') = Len(frames)
        /\ \A k \in 1..Len(frames) : frames'[k] = IF k = Len(frames) THEN g ELSE frames[k]
    BY <1>4, <1>5, <2>7
  <2>9. \A k \in 1..Len(frames') : Remembering(msg, frames'[k], lines', at')
    BY <1>6, <2>3, <2>6, <2>8
  <2> QED BY <1>1, <2>3, <2>4, <2>9 DEF PathsRemembered
<1> QED BY <1>7, <1>8, ShownWithIds

\* What a call for the element that was read starts with.
LEMMA CallRemembers ==
  ASSUME WellTyped, OpenIsAround, ~HasNestedBlock, NEW fr \in FrameType(msg),
         at \in Tokens(msg), IsMessage(msg), Top \in FrameType(msg), Top.of = msg.parent[at],
         lines \in Seq(LineType(msg)), LinesBefore(lines, at), Remembering(msg, Top, lines, at),
         EntersWithIds(fr)
  PROVE  Remembering(msg, fr, lines', at')
<1>1. /\ fr.of = at /\ at' = at + 1 /\ at \in Nat /\ Directed(msg, Top)
      /\ fr.does \in Lists \cup Blocks
      /\ fr.does \in DOMAIN CallerOf => Top.does = CallerOf[fr.does]
  BY DEF EntersWithIds, Tokens, Remembering
<1>2. Directed(msg, fr)
  <2>1. fr.does \notin Kinds
    BY <1>1, Callees DEF Kinds, InteractionModel, SecureChannel, UserDirected, Embedded
  <2>2. /\ "CommandRequest" \in Kinds /\ "CommandResponse" \in Kinds
    BY DEF Kinds, InteractionModel
  <2>3. fr.does \in RequestPart => msg.kind = "CommandRequest"
    <3>1. /\ CallerOf["CommandList"] = "CommandRequest" /\ CallerOf["CommandDataOfRequest"] = "CommandList"
          /\ CallerOf["RequestFields"] = "CommandDataOfRequest"
      BY DEF CallerOf
    <3> QED BY <1>1, <2>2, <3>1, Called DEF Directed, RequestPart
  <2>4. fr.does \in ResponsePart => msg.kind = "CommandResponse"
    <3>1. /\ CallerOf["InvokeResponses"] = "CommandResponse" /\ CallerOf["InvokeResponseIB"] = "InvokeResponses"
          /\ CallerOf["CommandDataOfResponse"] = "InvokeResponseIB"
          /\ CallerOf["ResponseFields"] = "CommandDataOfResponse"
      BY DEF CallerOf
    <3> QED BY <1>1, <2>2, <3>1, Called DEF Directed, ResponsePart
  <2> QED BY <2>1, <2>3, <2>4 DEF Directed
<1>3. CASE fr.does = "InvokeResponseIB"
  BY <1>1, <1>2, <1>3 DEF Remembering, PathHolders, FieldBlocks
<1>4. CASE fr.does # "InvokeResponseIB"
  <2>1. PICK l \in LineType(msg) :
          l.from = at /\ l.to = at /\ l.as = fr.does /\ l.ids = fr.ids /\ lines' = Append(lines, l)
    BY <1>4 DEF EntersWithIds, ShowsHead
  <2>2. /\ Len(lines') = Len(lines) + 1 /\ lines'[Len(lines) + 1] = l
        /\ \A n \in 1..Len(lines) : lines'[n] = lines[n]
        /\ Len(lines) \in Nat
    BY <2>1, AppendProperties
  <2>3. ASSUME fr.does \in PathHolders
        PROVE  /\ fr.ids = NoIds
               /\ \A n \in 1..Len(lines') : lines'[n].from = fr.of => ~IsField(lines'[n])
    <3>1. fr.ids = NoIds
      BY <2>3 DEF EntersWithIds, PathHolders, FieldBlocks
    <3>2. ASSUME NEW n \in 1..Len(lines'), lines'[n].from = fr.of
          PROVE  ~IsField(lines'[n])
      <4>1. CASE n \in 1..Len(lines)
        <5>1. lines[n] \in LineType(msg) /\ lines[n].from < at
          BY <4>1 DEF LinesBefore
        <5>2. lines[n].from = at
          BY <1>1, <2>2, <3>2, <4>1
        <5> QED BY <1>1, <5>1, <5>2
      <4>2. CASE n = Len(lines) + 1
        BY <2>1, <2>2, <2>3, <4>2 DEF IsField, PathHolders
      <4> QED BY <2>2, <4>1, <4>2
    <3> QED BY <3>1, <3>2
  <2>4. ASSUME fr.does \in FieldBlocks
        PROVE  /\ \E n \in 1..Len(lines') :
                    lines'[n].from = fr.of /\ lines'[n].to = fr.of /\ lines'[n].as = fr.does
               /\ IdsBefore(msg, msg.parent[fr.of], fr.ids, at')
    <3>1. Len(lines) + 1 \in 1..Len(lines')
      BY <2>2
    <3>2. fr.ids = Top.ids /\ Top.ids # NoIds
      BY <2>4 DEF EntersWithIds
    <3>3. Top.does \in PathHolders
      <4>1. /\ CallerOf["AttributeStruct"] = "AttributeDataIB"
            /\ CallerOf["RequestFields"] = "CommandDataOfRequest"
            /\ CallerOf["ResponseFields"] = "CommandDataOfResponse"
        BY DEF CallerOf
      <4> QED BY <1>1, <2>4, <4>1, Called DEF FieldBlocks, PathHolders
    <3>4. IdsBefore(msg, Top.of, Top.ids, at)
      BY <3>2, <3>3 DEF Remembering
    <3>5. IdsBefore(msg, Top.of, Top.ids, at')
      BY <1>1, <3>4, IdsStayBefore
    <3> QED BY <1>1, <2>1, <2>2, <3>1, <3>2, <3>5
  <2> QED BY <1>1, <1>2, <2>3, <2>4 DEF Remembering
<1> QED BY <1>3, <1>4

LEMMA EnteredRemembered ==
  ASSUME WellTyped, OpenIsAround, Placed, ~HasNestedBlock, PathsRemembered, EnterElement
  PROVE  PathsRemembered'
<1>1. OnElement /\ msg' = msg
  BY DEF EnterElement
<1>2. /\ at \in Tokens(msg) /\ Top \in FrameType(msg) /\ IsMessage(msg)
      /\ Len(frames) \in Nat /\ Len(frames) > 0
  BY <1>1, Innermost, TheMessage DEF OnElement
<1>3. lines \in Seq(LineType(msg)) /\ frames \in Seq(FrameType(msg)) /\ at \in Nat
  BY <1>2 DEF WellTyped, TypeOK, Tokens
<1>4. Top.of = msg.parent[at] /\ Top = frames[Len(frames)] /\ Len(frames) \in 1..Len(frames)
  BY <1>1, OfInnermost DEF OnElement
<1>5. /\ LinesBefore(lines, at)
      /\ \A k \in 1..Len(frames) : frames[k] \in FrameType(msg) /\ Remembering(msg, frames[k], lines, at)
      /\ Remembering(msg, Top, lines, at)
  BY <1>3, <1>4 DEF PathsRemembered
<1>6. CASE at' = After(msg, at) /\ (ShowsNothing \/ ShowsNamed)
  BY <1>1, <1>6, StillRemembered
<1>7. ASSUME NEW fr \in FrameType(msg), EntersWithIds(fr)
      PROVE  PathsRemembered'
  <2>1. Remembering(msg, fr, lines', at')
    BY <1>2, <1>3, <1>4, <1>5, <1>7, CallRemembers
  <2>2. at' = at + 1 /\ frames' = Append(frames, fr) /\ at' \in Nat /\ at < at'
    BY <1>3, <1>7 DEF EntersWithIds
  <2>3. /\ LinesBefore(lines', at')
        /\ \A f \in FrameType(msg) : Remembering(msg, f, lines, at) => Remembering(msg, f, lines', at')
        /\ \A n \in 1..Len(lines') : FieldNamed(msg, lines'[n], lines')
    <3>1. CASE fr.does = "InvokeResponseIB"
      <4>1. lines' = lines
        BY <1>7, <3>1 DEF EntersWithIds
      <4>2. /\ LinesBefore(lines, at')
            /\ \A f \in FrameType(msg) : Remembering(msg, f, lines, at) => Remembering(msg, f, lines, at')
        BY <1>2, <1>3, <1>5, <2>2, GoesOn
      <4> QED BY <4>1, <4>2 DEF PathsRemembered
    <3>2. CASE fr.does # "InvokeResponseIB"
      <4>1. PICK l \in LineType(msg) :
              l.from = at /\ l.to = at /\ l.as = fr.does /\ l.ids = fr.ids /\ lines' = Append(lines, l)
        BY <1>7, <3>2 DEF EntersWithIds, ShowsHead
      <4>2. /\ Len(lines') = Len(lines) + 1 /\ lines'[Len(lines) + 1] = l
            /\ LinesBefore(lines', at')
            /\ \A f \in FrameType(msg) : Remembering(msg, f, lines, at) => Remembering(msg, f, lines', at')
            /\ \A n \in 1..Len(lines) : FieldNamed(msg, lines[n], lines) => FieldNamed(msg, lines'[n], lines')
        BY <1>2, <1>3, <1>5, <2>2, <4>1, ShowsMore, ZenonT(30)
      <4>3. FieldNamed(msg, l, lines')
        <5>1. CASE ~IsField(l)
          BY <5>1 DEF FieldNamed
        <5>2. CASE IsField(l)
          <6>1. fr.does \in FieldBlocks
            <7>1. fr.does \in Lists \cup Blocks
              BY <1>7 DEF EntersWithIds
            <7> QED BY <4>1, <5>2, <7>1, Callees DEF IsField, FieldBlocks
          <6>2. /\ fr.ids = Top.ids /\ Top.ids # NoIds /\ Top.does = CallerOf[fr.does]
            BY <1>7, <6>1, Called DEF EntersWithIds, FieldBlocks
          <6>3. /\ CallerOf["AttributeStruct"] = "AttributeDataIB"
                /\ CallerOf["RequestFields"] = "CommandDataOfRequest"
                /\ CallerOf["ResponseFields"] = "CommandDataOfResponse"
            BY DEF CallerOf
          <6>4. /\ Top.does \in PathHolders
                /\ l.as = "RequestFields" => Top.does = "CommandDataOfRequest"
                /\ l.as = "ResponseFields" => Top.does = "CommandDataOfResponse"
            BY <4>1, <6>1, <6>2, <6>3 DEF FieldBlocks, PathHolders
          <6> QED BY <1>2, <1>3, <1>4, <1>5, <4>1, <5>2, <6>2, <6>4, NamedInBlock
        <5> QED BY <5>1, <5>2
      <4>4. ASSUME NEW n \in 1..Len(lines') PROVE FieldNamed(msg, lines'[n], lines')
        <5>1. n \in 1..Len(lines) \/ n = Len(lines) + 1
          BY <1>3, <4>2
        <5> QED BY <4>2, <4>3, <5>1 DEF PathsRemembered
      <4> QED BY <4>2, <4>4
    <3> QED BY <3>1, <3>2
  <2>4. /\ Len(frames') = Len(frames) + 1 /\ frames'[Len(frames) + 1] = fr
        /\ \A k \in 1..Len(frames) : frames'[k] = frames[k]
    BY <1>3, <2>2, AppendProperties
  <2>5. ASSUME NEW k \in 1..Len(frames') PROVE Remembering(msg, frames'[k], lines', at')
    <3>1. k \in 1..Len(frames) \/ k = Len(frames) + 1
      BY <1>2, <2>4
    <3> QED BY <1>5, <2>1, <2>3, <2>4, <3>1
  <2> QED BY <1>1, <2>3, <2>5 DEF PathsRemembered
<1> QED BY <1>6, <1>7, EnteredWithIds

\* A call that returns, and one that has failed, take what they remember away.
LEMMA ReturnRemembered ==
  ASSUME WellTyped, OpenIsAround, Placed, ~HasNestedBlock, PathsRemembered, EndContainer \/ ReturnError
  PROVE  PathsRemembered'
<1>1. /\ frames' = Rest(frames) /\ msg' = msg /\ status \in {"running", "failing"}
      /\ at' = at \/ at' = at + 1
  BY DEF EndContainer, OnEnd, ReturnError
<1>2. at \in Tokens(msg) /\ IsMessage(msg) /\ frames # << >> /\ Len(frames) \in Nat /\ Len(frames) > 0
  BY <1>1, Innermost, TheMessage
<1>3. lines \in Seq(LineType(msg)) /\ frames \in Seq(FrameType(msg)) /\ at \in Nat
  BY <1>2 DEF WellTyped, TypeOK, Tokens
<1>4. lines' = lines
  <2>1. Top.orElse = "fail"
    BY <1>2 DEF Placed, NoneIsMadeUpFor, Top
  <2> QED BY <2>1 DEF EndContainer, ReturnError
<1>5. at' \in Nat /\ at <= at'
  BY <1>1, <1>3
<1>6. LinesBefore(lines, at') /\ \A k \in 1..Len(frames) : Remembering(msg, frames[k], lines, at')
  BY <1>2, <1>3, <1>5, GoesOn DEF PathsRemembered
<1>7. Len(frames') = Len(frames) - 1 /\ \A k \in 1..Len(frames) - 1 : frames'[k] = frames[k]
  BY <1>1, <1>2, <1>3, RestOf
<1>8. ASSUME NEW k \in 1..Len(frames') PROVE Remembering(msg, frames'[k], lines, at')
  <2>1. k \in 1..Len(frames) /\ k \in 1..Len(frames) - 1
    BY <1>2, <1>7
  <2> QED BY <1>6, <1>7, <2>1
<1> QED BY <1>1, <1>4, <1>6, <1>8 DEF PathsRemembered

LEMMA NextPathInv == PathInv /\ [Next]_vars => PathInv'
<1> SUFFICES ASSUME PathInv, [Next]_vars PROVE PathInv'
  OBVIOUS
<1>1. IInv' /\ WellTyped /\ OpenIsAround /\ Placed
  BY NextIInv DEF PathInv, IInv
<1>2. msg' = msg
  BY DEF Next, Begin, NextElement, EnterElement, EndContainer, ReturnError, vars
<1>3. ASSUME ~HasNestedBlock PROVE PathsRemembered'
  <2>1. PathsRemembered
    BY <1>3 DEF PathInv
  <2>2. CASE UNCHANGED vars
    BY <2>1, <2>2 DEF vars, PathsRemembered
  <2> QED BY <1>1, <1>3, <2>1, <2>2, FirstCall, ElementRemembered, EnteredRemembered, ReturnRemembered
          DEF Next
<1>4. HasNestedBlock' <=> HasNestedBlock
  BY <1>2, NestedKept
<1> QED BY <1>1, <1>3, <1>4 DEF PathInv

(***************************************************************************)
(* A value of a field or the structure of fields is named by the ids of a  *)
(* path that comes before it in its own block (AddAttributeDataIB,         *)
(* AddCommandDataIB), and command fields by the direction of the message,  *)
(* whatever the other blocks of the message hold.                          *)
(***************************************************************************)
THEOREM FieldsNamedByOwnPath == Spec => []OwnPath
<1>1. PathInv => OwnPath
  <2> SUFFICES ASSUME PathInv, ~HasNestedBlock, NEW n \in 1..Len(lines), IsField(lines[n])
               PROVE  LET l == lines[n]
                      IN  /\ \E p \in MembersOf(msg, BlockOf(l)) :
                               p < l.from /\ l.ids[1] \in MembersOf(msg, p) /\ l.ids[2] \in MembersOf(msg, p)
                          /\ l.as = "RequestFields" => msg.kind = "CommandRequest"
                          /\ l.as = "ResponseFields" => msg.kind = "CommandResponse"
    BY DEF OwnPath
  <2>1. FieldNamed(msg, lines[n], lines)
    BY DEF PathInv, PathsRemembered
  <2>2. OwnBlock(msg, lines[n], lines) = BlockOf(lines[n])
    BY DEF OwnBlock, BlockOf
  <2> QED BY <2>1, <2>2 DEF FieldNamed, IdsBefore
<1> QED BY <1>1, InitPathInv, NextPathInv, PTL DEF Spec
-----------------------------------------------------------------------------
(***************************************************************************)
(* The shapes of a message, from the outermost element inwards.            *)
(***************************************************************************)
ShapeFrom(m, s, i) ==
  IF i = 1 THEN m.kind
  ELSE IF m.toks[i].type = "end" THEN "none" ELSE ShapeIn(s[m.parent[i]], m.toks[i])

AreShapes(m, n, s) == s = [i \in 1..n |-> ShapeFrom(m, s, i)]

\* The shapes of one token more, when all before it have theirs.
LEMMA NextShape ==
  ASSUME NEW m, IsMessage(m), NEW n \in Tokens(m), NEW g, AreShapes(m, n - 1, g)
  PROVE  \E s : AreShapes(m, n, s)
<1> DEFINE s == [i \in 1..n |-> IF i = n THEN ShapeFrom(m, g, n) ELSE g[i]]
<1>1. n \in Nat /\ n > 0 /\ Len(m.toks) \in Nat
  BY LengthOf DEF Tokens
<1>2. ASSUME NEW i \in 1..n
      PROVE  s[i] = ShapeFrom(m, s, i)
  <2>1. i \in Tokens(m) /\ i \in Nat /\ i > 0 /\ i <= n
    BY <1>1 DEF Tokens
  <2>2. m.parent[i] \in 0..Len(m.toks) /\ m.parent[i] < i /\ (m.parent[i] = 0 <=> i = 1)
    BY <2>1, TokenFacts
  <2>3. i # 1 => m.parent[i] \in 1..n - 1
    BY <1>1, <2>1, <2>2
  <2>4. i # 1 => s[m.parent[i]] = g[m.parent[i]]
    BY <1>1, <2>3
  <2>5. ShapeFrom(m, s, i) = ShapeFrom(m, g, i)
    <3> HIDE DEF s
    <3> QED BY <2>4 DEF ShapeFrom
  <2>6. s[i] = ShapeFrom(m, g, i)
    <3>1. CASE i = n
      BY <3>1
    <3>2. CASE i # n
      <4>1. i \in 1..n - 1
        BY <1>1, <2>1, <3>2
      <4>2. g[i] = ShapeFrom(m, g, i)
        BY <4>1 DEF AreShapes
      <4> QED BY <3>2, <4>2
    <3> QED BY <3>1, <3>2
  <2> QED BY <2>5, <2>6
<1>3. AreShapes(m, n, s)
  <2>1. s = [i \in 1..n |-> s[i]]
    OBVIOUS
  <2> HIDE DEF s
  <2>2. s = [i \in 1..n |-> ShapeFrom(m, s, i)]
    BY <1>2, <2>1
  <2> QED BY <2>2 DEF AreShapes
<1> QED BY <1>3

\* Of a least number of tokens that have no shapes there is none.
LEMMA ShapesExist ==
  ASSUME NEW m, IsMessage(m)
  PROVE  \E s : AreShapes(m, Len(m.toks), s)
<1> DEFINE S == {n \in 0..Len(m.toks) : ~ \E s : AreShapes(m, n, s)}
<1>1. Len(m.toks) \in Nat
  BY LengthOf
<1>2. SUFFICES ASSUME S # {} PROVE FALSE
  BY <1>1
<1>3. PICK n \in S : \A j \in S : ~ (<<j, n>> \in OpToRel(<, Nat))
  <2>1. S \subseteq Nat
    BY <1>1
  <2> HIDE DEF S
  <2> QED BY <1>2, <2>1, NatLessThanWellFounded, WFMin
<1>4. n \in 0..Len(m.toks) /\ ~ \E s : AreShapes(m, n, s)
  OBVIOUS
<1>5. CASE n = 0
  <2> DEFINE s == [i \in 1..0 |-> "none"]
  <2>1. s = [i \in 1..0 |-> ShapeFrom(m, s, i)]
    OBVIOUS
  <2>2. AreShapes(m, 0, s)
    BY <2>1 DEF AreShapes
  <2> QED BY <1>4, <1>5, <2>2
<1>6. CASE n # 0
  <2>1. n \in Tokens(m) /\ n - 1 \in 0..Len(m.toks) /\ n - 1 \in Nat /\ n \in Nat /\ n - 1 < n
    BY <1>1, <1>4, <1>6 DEF Tokens
  <2>2. n - 1 \notin S
    <3> HIDE DEF S
    <3> QED BY <1>3, <2>1 DEF OpToRel
  <2>3. PICK g : AreShapes(m, n - 1, g)
    BY <2>1, <2>2
  <2> QED BY <1>4, <2>1, <2>3, NextShape
<1> QED BY <1>5, <1>6

LEMMA ShapesUnfold ==
  ASSUME NEW m, IsMessage(m), NEW i \in Tokens(m)
  PROVE  Shapes(m)[i] = ShapeFrom(m, Shapes(m), i)
<1>1. Shapes(m) = CHOOSE s : AreShapes(m, Len(m.toks), s)
  BY DEF Shapes, AreShapes, ShapeFrom
<1>2. AreShapes(m, Len(m.toks), Shapes(m))
  BY <1>1, ShapesExist
<1> QED BY <1>2 DEF AreShapes, Tokens
-----------------------------------------------------------------------------
(***************************************************************************)
(* The schema: what an element that is not wrong may be, shape by shape.   *)
(***************************************************************************)
LEMMA SchemaDomains ==
  /\ DOMAIN OfInteractionModel = InteractionModel
  /\ DOMAIN OfHandshakes = SecureChannel \cup {"MRPParameters", "PBKDFParameters"}
  /\ DOMAIN OfUserDirected = UserDirected \cup {"TargetApp"}
  /\ DOMAIN Elements = Lists
<1>1. DOMAIN OfInteractionModel = InteractionModel
  BY DEF OfInteractionModel, InteractionModel
<1>2. DOMAIN OfHandshakes = SecureChannel \cup {"MRPParameters", "PBKDFParameters"}
  BY DEF OfHandshakes, SecureChannel
<1>3. DOMAIN OfUserDirected = UserDirected \cup {"TargetApp"}
  BY DEF OfUserDirected, UserDirected
<1>4. DOMAIN Elements = Lists
  BY DEF Elements, Lists, ListElement
<1> QED BY <1>1, <1>2, <1>3, <1>4

LEMMA BlockDomain ==
  DOMAIN InformationBlocks =
    {"AttributePathIB", "EventPathIB", "ClusterPathIB", "CommandPathIB", "EventFilterIB",
     "DataVersionFilterIB", "AttributeReportIB", "AttributeStatusIB", "AttributeDataIB",
     "EventReportIB", "CommandDataIB", "InvokeResponseIB", "CommandStatusIB", "StatusIB"}
  BY DEF InformationBlocks

\* An element that is not wrong is one of the fields of its block.
IsTheField(t, f, shape) == t.tag = "context" /\ f.num = t.num /\ f.type = t.type /\ f.shape = shape

LEMMA FieldOfShape ==
  ASSUME NEW shape, NEW t, shape # "any", shape \notin Lists, ShapeIn(shape, t) # "wrong"
  PROVE  \E f \in FieldsIn(shape) : IsTheField(t, f, ShapeIn(shape, t))
<1> DEFINE fits == {f \in FieldsIn(shape) : t.tag = "context" /\ f.num = t.num /\ f.type = t.type}
<1>1. shape \notin DOMAIN Elements
  BY SchemaDomains
<1>2. ShapeIn(shape, t) = IF fits = {} THEN "wrong" ELSE (CHOOSE f \in fits : TRUE).shape
  BY <1>1 DEF ShapeIn
<1>3. fits # {} /\ ShapeIn(shape, t) = (CHOOSE f \in fits : TRUE).shape
  BY <1>2
<1>4. (CHOOSE f \in fits : TRUE) \in fits
  BY <1>3
<1> QED BY <1>3, <1>4 DEF IsTheField

LEMMA ElementOfList ==
  ASSUME NEW shape \in Lists, NEW t, ShapeIn(shape, t) # "wrong"
  PROVE  /\ t.tag = "anonymous" /\ t.type = Elements[shape][1]
         /\ ShapeIn(shape, t) = Elements[shape][2]
<1>1. shape \in DOMAIN Elements /\ shape # "any"
  BY SchemaDomains DEF Lists, ListElement
<1>2. ShapeIn(shape, t) = IF t.tag = "anonymous" /\ t.type = Elements[shape][1]
                          THEN Elements[shape][2] ELSE "wrong"
  BY <1>1 DEF ShapeIn
<1> QED BY <1>2

\* What the fields of the shapes are.  No shape is in two of the tables.
LEMMA TablesDisjoint ==
  ASSUME NEW shape
  PROVE  /\ shape \in InteractionModel =>
              shape \notin DOMAIN OfHandshakes /\ shape \notin DOMAIN OfUserDirected
              /\ shape \notin DOMAIN InformationBlocks
         /\ shape \in DOMAIN OfHandshakes =>
              shape \notin DOMAIN OfUserDirected /\ shape \notin DOMAIN InformationBlocks
         /\ shape \in DOMAIN OfUserDirected => shape \notin DOMAIN InformationBlocks
<1>1. shape \in InteractionModel =>
        shape \notin DOMAIN OfHandshakes /\ shape \notin DOMAIN OfUserDirected
        /\ shape \notin DOMAIN InformationBlocks
  BY SchemaDomains, BlockDomain DEF InteractionModel, SecureChannel, UserDirected
<1>2. shape \in DOMAIN OfHandshakes =>
        shape \notin DOMAIN OfUserDirected /\ shape \notin DOMAIN InformationBlocks
  BY SchemaDomains, BlockDomain DEF SecureChannel, UserDirected
<1>3. shape \in DOMAIN OfUserDirected => shape \notin DOMAIN InformationBlocks
  BY SchemaDomains, BlockDomain DEF UserDirected
<1> QED BY <1>1, <1>2, <1>3

LEMMA FieldsOfShape ==
  ASSUME NEW shape
  PROVE  /\ shape \in InteractionModel =>
              FieldsIn(shape) = OfInteractionModel[shape] \cup {InteractionModelRevision}
         /\ shape \in DOMAIN OfHandshakes => FieldsIn(shape) = OfHandshakes[shape]
         /\ shape \in DOMAIN OfUserDirected => FieldsIn(shape) = OfUserDirected[shape]
         /\ shape \in DOMAIN InformationBlocks => FieldsIn(shape) = InformationBlocks[shape]
<1>1. CASE shape \in InteractionModel
  BY <1>1, SchemaDomains, TablesDisjoint DEF FieldsIn
<1>2. CASE shape \in DOMAIN OfHandshakes
  BY <1>2, SchemaDomains, TablesDisjoint DEF FieldsIn
<1>3. CASE shape \in DOMAIN OfUserDirected
  BY <1>3, SchemaDomains, TablesDisjoint DEF FieldsIn
<1>4. CASE shape \in DOMAIN InformationBlocks
  BY <1>4, SchemaDomains, TablesDisjoint DEF FieldsIn
<1> QED BY <1>1, <1>2, <1>3, <1>4, TablesDisjoint, SchemaDomains

LEMMA NoOtherFields ==
  ASSUME NEW shape,
         shape \notin InteractionModel \cup SecureChannel \cup UserDirected
                      \cup {"MRPParameters", "PBKDFParameters", "TargetApp"},
         shape \notin DOMAIN InformationBlocks
  PROVE  FieldsIn(shape) = {}
  BY SchemaDomains DEF FieldsIn

\* The fields of each message and block, as their tokens have them.
HasShape(t, num, type, shape, s) == t.tag = "context" /\ t.num = num /\ t.type = type /\ s = shape

LEMMA AsToken ==
  ASSUME NEW t, NEW num, NEW type, NEW shape, NEW s
  PROVE  /\ IsTheField(t, In(num, type, shape), s) <=> HasShape(t, num, type, shape, s)
         /\ IsTheField(t, Of(num, type), s) <=> HasShape(t, num, type, "none", s)
  BY DEF IsTheField, HasShape, In, Of

ShapeOf(does) ==
  CASE does \in {"CommandDataOfRequest", "CommandDataOfResponse"} -> "CommandDataIB"
    [] does \in FieldBlocks         -> "any"
    [] does = "SessionParameters" -> "MRPParameters"
    [] does = "PBKDFParameterSet" -> "PBKDFParameters"
    [] OTHER                      -> does

PathKinds == {"Attribute", "AttributeIds", "Event", "Cluster", "Command", "CommandIds"}

PathShape(kind) ==
  CASE kind \in {"Attribute", "AttributeIds"} -> "AttributePathIB"
    [] kind = "Event"                         -> "EventPathIB"
    [] kind = "Cluster"                       -> "ClusterPathIB"
    [] kind \in {"Command", "CommandIds"}     -> "CommandPathIB"

\* A rule that shows an element of shape s, or calls for what is in it.
Suits(r, t, s) ==
  \/ r.do \in {"text", "generic", "named"} /\ r.field # "none"
  \/ r.do = "typed" /\ t.type = r.field
  \/ r.do = "path" /\ t.type = "path" /\ r.arg \in PathKinds /\ s = PathShape(r.arg)
  \/ r.do = "enter" /\ t.type \in Accepts(r.arg) /\ s = ShapeOf(r.arg) /\ r.after = "return"

LEMMA PlainSuits ==
  ASSUME NEW t, NEW s, NEW what, NEW ids
  PROVE  Suits(Text, t, s) /\ Suits(Generic, t, s) /\ Suits(Named(what, ids), t, s)
<1>1. Suits(Text, t, s) /\ Suits(Generic, t, s)
  BY DEF Suits, Text, Generic, RuleOf
<1>2. Suits(Named(what, ids), t, s)
  <2>1. Named(what, ids) = [do |-> "named", arg |-> what, field |-> "string", ids |-> ids,
                            orElse |-> "fail", after |-> "return"]
    BY RuleFields DEF Named
  <2> QED BY <2>1 DEF Suits
<1> QED BY <1>1, <1>2

LEMMA TypedSuits ==
  ASSUME NEW t, NEW s, NEW type, t.type = type
  PROVE  Suits(Typed(type), t, s) /\ Suits(Strict(t, type), t, s)
<1>1. Typed(type) = [do |-> "typed", arg |-> "none", field |-> type, ids |-> NoIds,
                     orElse |-> "fail", after |-> "return"]
  BY FieldFields DEF Typed
<1> QED BY <1>1 DEF Suits, Strict

LEMMA UIntSuits ==
  ASSUME NEW t, NEW s
  PROVE  Suits(UIntOrGeneric(t), t, s)
  BY PlainSuits DEF UIntOrGeneric

LEMMA PathSuits ==
  ASSUME NEW t, NEW kind \in PathKinds, t.type = "path"
  PROVE  Suits(Path(kind), t, PathShape(kind)) /\ Suits(OrGeneric(Path(kind)), t, PathShape(kind))
<1>1. Path(kind) = [do |-> "path", arg |-> kind, field |-> "string", ids |-> NoIds,
                    orElse |-> "fail", after |-> "return"]
  BY RuleFields DEF Path
<1>2. OrGeneric(Path(kind)) = [do |-> "path", arg |-> kind, field |-> "string", ids |-> NoIds,
                               orElse |-> "generic", after |-> "return"]
  BY OrGenericFields DEF Path
<1> QED BY <1>1, <1>2 DEF Suits

LEMMA EnterSuits ==
  ASSUME NEW t, NEW h, NEW ids, t.type \in Accepts(h)
  PROVE  Suits(Enter(h), t, ShapeOf(h)) /\ Suits(EnterWith(h, ids), t, ShapeOf(h))
<1>1. Enter(h) = [do |-> "enter", arg |-> h, field |-> "string", ids |-> NoIds,
                  orElse |-> "fail", after |-> "return"]
  BY RuleFields DEF Enter
<1>2. EnterWith(h, ids) = [do |-> "enter", arg |-> h, field |-> "string", ids |-> ids,
                           orElse |-> "fail", after |-> "return"]
  BY RuleFields DEF EnterWith, Enter
<1> QED BY <1>1, <1>2 DEF Suits

LEMMA ListSuits ==
  ASSUME NEW t, NEW h \in Lists, t.type = "array"
  PROVE  Suits(ListOr(t, h), t, h) /\ Suits(Enter(h), t, h)
<1>1. ShapeOf(h) = h
  BY DEF ShapeOf, FieldBlocks, Lists, ListElement
<1>2. t.type \in Accepts(h)
  BY DEF Accepts
<1>3. Suits(Enter(h), t, ShapeOf(h))
  BY <1>2, EnterSuits
<1> QED BY <1>1, <1>3 DEF ListOr

LEMMA TableFields ==
  ASSUME NEW shape, NEW t, NEW s, s = ShapeIn(shape, t), s # "wrong"
  PROVE  /\ shape \in InteractionModel =>
              \E f \in OfInteractionModel[shape] \cup {Of(255, "uint")} : IsTheField(t, f, s)
         /\ shape \in DOMAIN OfHandshakes => \E f \in OfHandshakes[shape] : IsTheField(t, f, s)
         /\ shape \in DOMAIN OfUserDirected => \E f \in OfUserDirected[shape] : IsTheField(t, f, s)
         /\ shape \in DOMAIN InformationBlocks => \E f \in InformationBlocks[shape] : IsTheField(t, f, s)
<1>1. CASE shape = "any" \/ shape \in Lists
  <2>1. shape \notin InteractionModel
    BY <1>1 DEF InteractionModel, Lists, ListElement
  <2>2. shape \notin DOMAIN OfHandshakes
    BY <1>1, SchemaDomains DEF SecureChannel, Lists, ListElement
  <2>3. shape \notin DOMAIN OfUserDirected
    BY <1>1, SchemaDomains DEF UserDirected, Lists, ListElement
  <2>4. shape \notin DOMAIN InformationBlocks
    BY <1>1, BlockDomain DEF Lists, ListElement
  <2> QED BY <2>1, <2>2, <2>3, <2>4
<1>2. CASE shape # "any" /\ shape \notin Lists
  <2>1. \E f \in FieldsIn(shape) : IsTheField(t, f, s)
    BY <1>2, FieldOfShape
  <2> QED BY <2>1, FieldsOfShape DEF InteractionModelRevision
<1> QED BY <1>1, <1>2

\* The messages of the interaction model.
LEMMA StatusResponseSuits ==
  ASSUME NEW t, NEW s, s = ShapeIn("StatusResponse", t), s # "wrong"
  PROVE  Suits(StatusResponse(t), t, s)
<1>1. "StatusResponse" \in InteractionModel
  BY DEF InteractionModel
<1>2. PICK f \in OfInteractionModel["StatusResponse"] \cup {Of(255, "uint")} : IsTheField(t, f, s)
  BY <1>1, TableFields
<1>3. \/ HasShape(t, 0, "uint", "none", s) \/ HasShape(t, 255, "uint", "none", s)
  BY <1>2, AsToken DEF OfInteractionModel
<1> QED BY <1>3, PlainSuits DEF StatusResponse, Contextual, HasShape

LEMMA ReadRequestSuits ==
  ASSUME NEW t, NEW s, s = ShapeIn("ReadRequest", t), s # "wrong"
  PROVE  Suits(ReadRequest(t), t, s)
<1>1. "ReadRequest" \in InteractionModel
  BY DEF InteractionModel
<1>2. PICK f \in OfInteractionModel["ReadRequest"] \cup {Of(255, "uint")} : IsTheField(t, f, s)
  BY <1>1, TableFields
<1>3. \/ HasShape(t, 0, "array", "AttributePaths", s) \/ HasShape(t, 1, "array", "EventPaths", s)
      \/ HasShape(t, 2, "array", "EventFilters", s) \/ HasShape(t, 4, "array", "DataVersionFilters", s)
      \/ HasShape(t, 3, "bool", "none", s) \/ HasShape(t, 255, "uint", "none", s)
  BY <1>2, AsToken DEF OfInteractionModel, RequestPaths
<1>4. {"AttributePaths", "DataVersionFilters", "EventFilters", "EventPaths"} \subseteq Lists
  BY DEF Lists, ListElement
<1> QED BY <1>3, <1>4, PlainSuits, ListSuits DEF ReadRequest, Contextual, HasShape

LEMMA ReportDataSuits ==
  ASSUME NEW t, NEW s, s = ShapeIn("ReportData", t), s # "wrong"
  PROVE  Suits(ReportData(t), t, s)
<1>1. "ReportData" \in InteractionModel
  BY DEF InteractionModel
<1>2. PICK f \in OfInteractionModel["ReportData"] \cup {Of(255, "uint")} : IsTheField(t, f, s)
  BY <1>1, TableFields
<1>3. \/ HasShape(t, 0, "uint", "none", s) \/ HasShape(t, 1, "array", "AttributeReports", s)
      \/ HasShape(t, 2, "array", "EventReports", s) \/ HasShape(t, 3, "bool", "none", s)
      \/ HasShape(t, 4, "bool", "none", s) \/ HasShape(t, 255, "uint", "none", s)
  BY <1>2, AsToken DEF OfInteractionModel
<1>4. {"AttributeReports", "EventReports"} \subseteq Lists
  BY DEF Lists, ListElement
<1> QED BY <1>3, <1>4, PlainSuits, ListSuits DEF ReportData, Contextual, HasShape

LEMMA SubscribeRequestSuits ==
  ASSUME NEW t, NEW s, s = ShapeIn("SubscribeRequest", t), s # "wrong"
  PROVE  Suits(SubscribeRequest(t), t, s)
<1>1. "SubscribeRequest" \in InteractionModel
  BY DEF InteractionModel
<1>2. PICK f \in OfInteractionModel["SubscribeRequest"] \cup {Of(255, "uint")} : IsTheField(t, f, s)
  BY <1>1, TableFields
<1>3. \/ HasShape(t, 3, "array", "AttributePaths", s) \/ HasShape(t, 4, "array", "EventPaths", s)
      \/ HasShape(t, 5, "array", "EventFilters", s) \/ HasShape(t, 8, "array", "DataVersionFilters", s)
      \/ HasShape(t, 0, "bool", "none", s) \/ HasShape(t, 1, "uint", "none", s)
      \/ HasShape(t, 2, "uint", "none", s) \/ HasShape(t, 7, "bool", "none", s)
      \/ HasShape(t, 255, "uint", "none", s)
  BY <1>2, AsToken DEF OfInteractionModel, RequestPaths
<1>4. {"AttributePaths", "DataVersionFilters", "EventFilters", "EventPaths"} \subseteq Lists
  BY DEF Lists, ListElement
<1> QED BY <1>3, <1>4, PlainSuits, ListSuits DEF SubscribeRequest, Contextual, HasShape

LEMMA SubscribeResponseSuits ==
  ASSUME NEW t, NEW s, s = ShapeIn("SubscribeResponse", t), s # "wrong"
  PROVE  Suits(SubscribeResponse(t), t, s)
<1>1. "SubscribeResponse" \in InteractionModel
  BY DEF InteractionModel
<1>2. PICK f \in OfInteractionModel["SubscribeResponse"] \cup {Of(255, "uint")} : IsTheField(t, f, s)
  BY <1>1, TableFields
<1>3. \/ HasShape(t, 0, "uint", "none", s) \/ HasShape(t, 2, "uint", "none", s)
      \/ HasShape(t, 255, "uint", "none", s)
  BY <1>2, AsToken DEF OfInteractionModel
<1> QED BY <1>3, PlainSuits DEF SubscribeResponse, Contextual, HasShape

LEMMA WriteRequestSuits ==
  ASSUME NEW t, NEW s, s = ShapeIn("WriteRequest", t), s # "wrong", s # "WriteRequests"
  PROVE  Suits(WriteRequest(t), t, s)
<1>1. "WriteRequest" \in InteractionModel
  BY DEF InteractionModel
<1>2. PICK f \in OfInteractionModel["WriteRequest"] \cup {Of(255, "uint")} : IsTheField(t, f, s)
  BY <1>1, TableFields
<1>3. \/ HasShape(t, 0, "bool", "none", s) \/ HasShape(t, 1, "bool", "none", s)
      \/ HasShape(t, 2, "array", "WriteRequests", s) \/ HasShape(t, 3, "bool", "none", s)
      \/ HasShape(t, 255, "uint", "none", s)
  BY <1>2, AsToken DEF OfInteractionModel
<1>4. {"WriteRequests"} \subseteq Lists
  BY DEF Lists, ListElement
<1> QED BY <1>3, <1>4, PlainSuits, ListSuits DEF WriteRequest, Contextual, HasShape

LEMMA WriteResponseSuits ==
  ASSUME NEW t, NEW s, s = ShapeIn("WriteResponse", t), s # "wrong", s # "WriteResponses"
  PROVE  Suits(WriteResponse(t), t, s)
<1>1. "WriteResponse" \in InteractionModel
  BY DEF InteractionModel
<1>2. PICK f \in OfInteractionModel["WriteResponse"] \cup {Of(255, "uint")} : IsTheField(t, f, s)
  BY <1>1, TableFields
<1>3. \/ HasShape(t, 0, "array", "WriteResponses", s) \/ HasShape(t, 255, "uint", "none", s)
  BY <1>2, AsToken DEF OfInteractionModel
<1>4. {"WriteResponses"} \subseteq Lists
  BY DEF Lists, ListElement
<1> QED BY <1>3, <1>4, PlainSuits, ListSuits DEF WriteResponse, Contextual, HasShape

LEMMA CommandRequestSuits ==
  ASSUME NEW t, NEW s, s = ShapeIn("CommandRequest", t), s # "wrong"
  PROVE  Suits(CommandRequest(t), t, s)
<1>1. "CommandRequest" \in InteractionModel
  BY DEF InteractionModel
<1>2. PICK f \in OfInteractionModel["CommandRequest"] \cup {Of(255, "uint")} : IsTheField(t, f, s)
  BY <1>1, TableFields
<1>3. \/ HasShape(t, 0, "bool", "none", s) \/ HasShape(t, 1, "bool", "none", s)
      \/ HasShape(t, 2, "array", "CommandList", s) \/ HasShape(t, 255, "uint", "none", s)
  BY <1>2, AsToken DEF OfInteractionModel
<1>4. {"CommandList"} \subseteq Lists
  BY DEF Lists, ListElement
<1> QED BY <1>3, <1>4, PlainSuits, TypedSuits, ListSuits DEF CommandRequest, Contextual, HasShape

LEMMA CommandResponseSuits ==
  ASSUME NEW t, NEW s, s = ShapeIn("CommandResponse", t), s # "wrong"
  PROVE  Suits(CommandResponse(t), t, s)
<1>1. "CommandResponse" \in InteractionModel
  BY DEF InteractionModel
<1>2. PICK f \in OfInteractionModel["CommandResponse"] \cup {Of(255, "uint")} : IsTheField(t, f, s)
  BY <1>1, TableFields
<1>3. \/ HasShape(t, 0, "bool", "none", s) \/ HasShape(t, 1, "array", "InvokeResponses", s)
      \/ HasShape(t, 255, "uint", "none", s)
  BY <1>2, AsToken DEF OfInteractionModel
<1>4. {"InvokeResponses"} \subseteq Lists
  BY DEF Lists, ListElement
<1> QED BY <1>3, <1>4, PlainSuits, ListSuits DEF CommandResponse, Contextual, HasShape

LEMMA TimedRequestSuits ==
  ASSUME NEW t, NEW s, s = ShapeIn("TimedRequest", t), s # "wrong"
  PROVE  Suits(TimedRequest(t), t, s)
<1>1. "TimedRequest" \in InteractionModel
  BY DEF InteractionModel
<1>2. PICK f \in OfInteractionModel["TimedRequest"] \cup {Of(255, "uint")} : IsTheField(t, f, s)
  BY <1>1, TableFields
<1>3. \/ HasShape(t, 0, "uint", "none", s) \/ HasShape(t, 255, "uint", "none", s)
  BY <1>2, AsToken DEF OfInteractionModel
<1> QED BY <1>3, PlainSuits, TypedSuits DEF TimedRequest, Contextual, HasShape

\* The parameters of a session or of PBKDF, and the apps of a declaration.
LEMMA ParametersSuit ==
  ASSUME NEW t, t.type = "structure"
  PROVE  /\ Suits(Enter("SessionParameters"), t, "MRPParameters")
         /\ Suits(Enter("PBKDFParameterSet"), t, "PBKDFParameters")
<1>1. /\ ShapeOf("SessionParameters") = "MRPParameters" /\ ShapeOf("PBKDFParameterSet") = "PBKDFParameters"
      /\ "structure" \in Accepts("SessionParameters") /\ "structure" \in Accepts("PBKDFParameterSet")
  BY DEF ShapeOf, FieldBlocks, Accepts, Lists, ListElement
<1> QED BY <1>1, EnterSuits

\* The messages of the handshakes.
LEMMA PBKDFParamRequestSuits ==
  ASSUME NEW t, NEW s, s = ShapeIn("PBKDFParamRequest", t), s # "wrong"
  PROVE  Suits(PBKDFParamRequest(t), t, s)
<1>1. "PBKDFParamRequest" \in DOMAIN OfHandshakes
  BY SchemaDomains DEF SecureChannel
<1>2. PICK f \in OfHandshakes["PBKDFParamRequest"] : IsTheField(t, f, s)
  BY <1>1, TableFields
<1>3. \/ HasShape(t, 1, "bytes", "none", s) \/ HasShape(t, 2, "uint", "none", s)
      \/ HasShape(t, 3, "uint", "none", s) \/ HasShape(t, 4, "bool", "none", s)
      \/ HasShape(t, 5, "structure", "MRPParameters", s)
  BY <1>2, AsToken DEF OfHandshakes
<1> QED BY <1>3, TypedSuits, ParametersSuit DEF PBKDFParamRequest, Contextual, HasShape

LEMMA PBKDFParamResponseSuits ==
  ASSUME NEW t, NEW s, s = ShapeIn("PBKDFParamResponse", t), s # "wrong"
  PROVE  Suits(PBKDFParamResponse(t), t, s)
<1>1. "PBKDFParamResponse" \in DOMAIN OfHandshakes
  BY SchemaDomains DEF SecureChannel
<1>2. PICK f \in OfHandshakes["PBKDFParamResponse"] : IsTheField(t, f, s)
  BY <1>1, TableFields
<1>3. \/ HasShape(t, 1, "bytes", "none", s) \/ HasShape(t, 2, "bytes", "none", s)
      \/ HasShape(t, 3, "uint", "none", s) \/ HasShape(t, 4, "structure", "PBKDFParameters", s)
      \/ HasShape(t, 5, "structure", "MRPParameters", s)
  BY <1>2, AsToken DEF OfHandshakes
<1> QED BY <1>3, TypedSuits, ParametersSuit DEF PBKDFParamResponse, Contextual, HasShape

LEMMA PasePake1Suits ==
  ASSUME NEW t, NEW s, s = ShapeIn("PasePake1", t), s # "wrong"
  PROVE  Suits(PasePake1(t), t, s)
<1>1. "PasePake1" \in DOMAIN OfHandshakes
  BY SchemaDomains DEF SecureChannel
<1>2. PICK f \in OfHandshakes["PasePake1"] : IsTheField(t, f, s)
  BY <1>1, TableFields
<1>3. \/ HasShape(t, 1, "bytes", "none", s)
  BY <1>2, AsToken DEF OfHandshakes
<1> QED BY <1>3, TypedSuits DEF PasePake1, Contextual, HasShape

LEMMA PasePake2Suits ==
  ASSUME NEW t, NEW s, s = ShapeIn("PasePake2", t), s # "wrong"
  PROVE  Suits(PasePake2(t), t, s)
<1>1. "PasePake2" \in DOMAIN OfHandshakes
  BY SchemaDomains DEF SecureChannel
<1>2. PICK f \in OfHandshakes["PasePake2"] : IsTheField(t, f, s)
  BY <1>1, TableFields
<1>3. \/ HasShape(t, 1, "bytes", "none", s) \/ HasShape(t, 2, "bytes", "none", s)
  BY <1>2, AsToken DEF OfHandshakes
<1> QED BY <1>3, TypedSuits DEF PasePake2, Contextual, HasShape

LEMMA PasePake3Suits ==
  ASSUME NEW t, NEW s, s = ShapeIn("PasePake3", t), s # "wrong"
  PROVE  Suits(PasePake3(t), t, s)
<1>1. "PasePake3" \in DOMAIN OfHandshakes
  BY SchemaDomains DEF SecureChannel
<1>2. PICK f \in OfHandshakes["PasePake3"] : IsTheField(t, f, s)
  BY <1>1, TableFields
<1>3. \/ HasShape(t, 1, "bytes", "none", s)
  BY <1>2, AsToken DEF OfHandshakes
<1> QED BY <1>3, TypedSuits DEF PasePake3, Contextual, HasShape

LEMMA CaseSigma1Suits ==
  ASSUME NEW t, NEW s, s = ShapeIn("CaseSigma1", t), s # "wrong"
  PROVE  Suits(CaseSigma1(t), t, s)
<1>1. "CaseSigma1" \in DOMAIN OfHandshakes
  BY SchemaDomains DEF SecureChannel
<1>2. PICK f \in OfHandshakes["CaseSigma1"] : IsTheField(t, f, s)
  BY <1>1, TableFields
<1>3. \/ HasShape(t, 1, "bytes", "none", s) \/ HasShape(t, 3, "bytes", "none", s)
      \/ HasShape(t, 4, "bytes", "none", s) \/ HasShape(t, 6, "bytes", "none", s)
      \/ HasShape(t, 7, "bytes", "none", s) \/ HasShape(t, 2, "uint", "none", s)
      \/ HasShape(t, 5, "structure", "MRPParameters", s)
  BY <1>2, AsToken DEF OfHandshakes
<1> QED BY <1>3, TypedSuits, ParametersSuit DEF CaseSigma1, Contextual, HasShape

LEMMA CaseSigma2Suits ==
  ASSUME NEW t, NEW s, s = ShapeIn("CaseSigma2", t), s # "wrong"
  PROVE  Suits(CaseSigma2(t), t, s)
<1>1. "CaseSigma2" \in DOMAIN OfHandshakes
  BY SchemaDomains DEF SecureChannel
<1>2. PICK f \in OfHandshakes["CaseSigma2"] : IsTheField(t, f, s)
  BY <1>1, TableFields
<1>3. \/ HasShape(t, 1, "bytes", "none", s) \/ HasShape(t, 3, "bytes", "none", s)
      \/ HasShape(t, 4, "bytes", "none", s) \/ HasShape(t, 2, "uint", "none", s)
      \/ HasShape(t, 5, "structure", "MRPParameters", s)
  BY <1>2, AsToken DEF OfHandshakes
<1> QED BY <1>3, PlainSuits, TypedSuits, ParametersSuit DEF CaseSigma2, Encrypted, Contextual, HasShape

LEMMA CaseSigma3Suits ==
  ASSUME NEW t, NEW s, s = ShapeIn("CaseSigma3", t), s # "wrong"
  PROVE  Suits(CaseSigma3(t), t, s)
<1>1. "CaseSigma3" \in DOMAIN OfHandshakes
  BY SchemaDomains DEF SecureChannel
<1>2. PICK f \in OfHandshakes["CaseSigma3"] : IsTheField(t, f, s)
  BY <1>1, TableFields
<1>3. \/ HasShape(t, 1, "bytes", "none", s)
  BY <1>2, AsToken DEF OfHandshakes
<1> QED BY <1>3, PlainSuits, TypedSuits DEF CaseSigma3, Encrypted, Contextual, HasShape

LEMMA CaseSigma2ResumeSuits ==
  ASSUME NEW t, NEW s, s = ShapeIn("CaseSigma2Resume", t), s # "wrong"
  PROVE  Suits(CaseSigma2Resume(t), t, s)
<1>1. "CaseSigma2Resume" \in DOMAIN OfHandshakes
  BY SchemaDomains DEF SecureChannel
<1>2. PICK f \in OfHandshakes["CaseSigma2Resume"] : IsTheField(t, f, s)
  BY <1>1, TableFields
<1>3. \/ HasShape(t, 1, "bytes", "none", s) \/ HasShape(t, 2, "bytes", "none", s)
      \/ HasShape(t, 3, "uint", "none", s) \/ HasShape(t, 4, "structure", "MRPParameters", s)
  BY <1>2, AsToken DEF OfHandshakes
<1> QED BY <1>3, TypedSuits, ParametersSuit DEF CaseSigma2Resume, Contextual, HasShape

LEMMA SessionParametersSuits ==
  ASSUME NEW t, NEW s, s = ShapeIn("MRPParameters", t), s # "wrong"
  PROVE  Suits(SessionParameters(t), t, s)
<1>1. "MRPParameters" \in DOMAIN OfHandshakes
  BY SchemaDomains DEF SecureChannel
<1>2. PICK f \in OfHandshakes["MRPParameters"] : IsTheField(t, f, s)
  BY <1>1, TableFields
<1>3. \/ HasShape(t, 1, "uint", "none", s) \/ HasShape(t, 2, "uint", "none", s)
  BY <1>2, AsToken DEF OfHandshakes, MRPParameters
<1> QED BY <1>3, TypedSuits DEF SessionParameters, Contextual, HasShape

LEMMA PBKDFParameterSetSuits ==
  ASSUME NEW t, NEW s, s = ShapeIn("PBKDFParameters", t), s # "wrong"
  PROVE  Suits(PBKDFParameterSet(t), t, s)
<1>1. "PBKDFParameters" \in DOMAIN OfHandshakes
  BY SchemaDomains DEF SecureChannel
<1>2. PICK f \in OfHandshakes["PBKDFParameters"] : IsTheField(t, f, s)
  BY <1>1, TableFields
<1>3. \/ HasShape(t, 1, "uint", "none", s) \/ HasShape(t, 2, "bytes", "none", s)
  BY <1>2, AsToken DEF OfHandshakes
<1> QED BY <1>3, TypedSuits DEF PBKDFParameterSet, Contextual, HasShape

\* User directed commissioning.
LEMMA IdentificationDeclarationSuits ==
  ASSUME NEW t, NEW s, s = ShapeIn("IdentificationDeclaration", t), s # "wrong"
  PROVE  Suits(IdentificationDeclaration(t), t, s)
<1>1. "IdentificationDeclaration" \in DOMAIN OfUserDirected
  BY SchemaDomains DEF UserDirected
<1>2. PICK f \in OfUserDirected["IdentificationDeclaration"] : IsTheField(t, f, s)
  BY <1>1, TableFields
<1>3. \/ \E n \in {1, 2, 4, 6, 8, 18} : HasShape(t, n, "uint", "none", s)
      \/ \E n \in {3, 5} : HasShape(t, n, "utf8", "none", s)
      \/ \E n \in 13..17 : HasShape(t, n, "bool", "none", s)
      \/ HasShape(t, 7, "bytes", "none", s) \/ HasShape(t, 9, "array", "TargetApps", s)
  BY <1>2, AsToken DEF OfUserDirected
<1>4. "TargetApps" \in Lists
  BY DEF Lists, ListElement
<1> QED BY <1>3, <1>4, TypedSuits, ListSuits DEF IdentificationDeclaration, Contextual, HasShape

LEMMA TargetAppSuits ==
  ASSUME NEW t, NEW s, s = ShapeIn("TargetApp", t), s # "wrong"
  PROVE  Suits(TargetApp(t), t, s)
<1>1. "TargetApp" \in DOMAIN OfUserDirected
  BY SchemaDomains
<1>2. PICK f \in OfUserDirected["TargetApp"] : IsTheField(t, f, s)
  BY <1>1, TableFields
<1>3. HasShape(t, 11, "uint", "none", s) \/ HasShape(t, 12, "uint", "none", s)
  BY <1>2, AsToken DEF OfUserDirected
<1> QED BY <1>3, TypedSuits DEF TargetApp, Contextual, HasShape

\* Nothing is defined to be in the messages that are embedded in others.
LEMMA EmbeddedIsEmpty ==
  ASSUME NEW shape \in Embedded \cup {"CertificateDN", "ECDSASignature", "CertificateExtensions",
                                      "BasicConstraints", "ExtendedKeyUsage"},
         NEW t
  PROVE  ShapeIn(shape, t) = "wrong"
<1>1. shape # "any" /\ shape \notin Lists
  BY DEF Embedded, Lists, ListElement
<1>2. /\ shape \notin InteractionModel \cup SecureChannel \cup UserDirected
                      \cup {"MRPParameters", "PBKDFParameters", "TargetApp"}
      /\ shape \notin DOMAIN InformationBlocks
  BY BlockDomain DEF Embedded, InteractionModel, SecureChannel, UserDirected
<1> QED BY <1>1, <1>2, NoOtherFields, FieldOfShape

\* What is called for a block, and the shape of a path.
LEMMA BlockSuits ==
  ASSUME NEW t, t.type = "structure",
         NEW h \in {"EventFilterIB", "DataVersionFilterIB", "StatusIB", "AttributeStatusIB",
                   "AttributeReportIB", "AttributeDataIB", "EventReportIB", "CommandStatusIB",
                   "InvokeResponseIB", "TargetApp"}
  PROVE  Suits(Enter(h), t, h)
<1>1. ShapeOf(h) = h
  BY DEF ShapeOf, FieldBlocks
<1>2. "structure" \in Accepts(h)
  BY DEF Accepts, Lists, ListElement, Containers
<1> QED BY <1>1, <1>2, EnterSuits

LEMMA CommandDataSuits ==
  ASSUME NEW t, t.type = "structure", NEW h \in {"CommandDataOfRequest", "CommandDataOfResponse"}
  PROVE  Suits(Enter(h), t, "CommandDataIB")
<1>1. ShapeOf(h) = "CommandDataIB"
  BY DEF ShapeOf, FieldBlocks
<1>2. "structure" \in Accepts(h)
  BY DEF Accepts, Lists, ListElement, Containers
<1> QED BY <1>1, <1>2, EnterSuits

LEMMA FieldBlockSuits ==
  ASSUME NEW t, t.type = "structure", NEW h \in FieldBlocks, NEW ids
  PROVE  Suits(EnterWith(h, ids), t, "any")
<1>1. ShapeOf(h) = "any"
  BY DEF ShapeOf, FieldBlocks
<1>2. "structure" \in Accepts(h)
  BY DEF Accepts, Lists, ListElement, FieldBlocks
<1> QED BY <1>1, <1>2, EnterSuits

LEMMA PathShapes ==
  ASSUME NEW t, t.type = "path"
  PROVE  /\ Suits(Path("Attribute"), t, "AttributePathIB") /\ Suits(Path("Event"), t, "EventPathIB")
         /\ Suits(Path("Command"), t, "CommandPathIB") /\ Suits(Path("CommandIds"), t, "CommandPathIB")
         /\ Suits(OrGeneric(Path("Attribute")), t, "AttributePathIB")
         /\ Suits(OrGeneric(Path("AttributeIds")), t, "AttributePathIB")
         /\ Suits(OrGeneric(Path("Cluster")), t, "ClusterPathIB")
<1>1. /\ PathShape("Attribute") = "AttributePathIB" /\ PathShape("AttributeIds") = "AttributePathIB"
      /\ PathShape("Event") = "EventPathIB" /\ PathShape("Cluster") = "ClusterPathIB"
      /\ PathShape("Command") = "CommandPathIB" /\ PathShape("CommandIds") = "CommandPathIB"
      /\ {"Attribute", "AttributeIds", "Event", "Cluster", "Command", "CommandIds"} = PathKinds
  BY DEF PathShape, PathKinds
<1> QED BY <1>1, PathSuits

\* The information blocks.
LEMMA EventFilterIBSuits ==
  ASSUME NEW t, NEW s, s = ShapeIn("EventFilterIB", t), s # "wrong"
  PROVE  Suits(EventFilterIB(t), t, s)
<1>1. "EventFilterIB" \in DOMAIN InformationBlocks
  BY BlockDomain
<1>2. PICK f \in InformationBlocks["EventFilterIB"] : IsTheField(t, f, s)
  BY <1>1, TableFields
<1>3. \/ HasShape(t, 0, "uint", "none", s) \/ HasShape(t, 1, "uint", "none", s)
  BY <1>2, AsToken DEF InformationBlocks
<1> QED BY <1>3, UIntSuits DEF EventFilterIB, ContextualOr, HasShape

LEMMA DataVersionFilterIBSuits ==
  ASSUME NEW t, NEW s, s = ShapeIn("DataVersionFilterIB", t), s # "wrong"
  PROVE  Suits(DataVersionFilterIB(t), t, s)
<1>1. "DataVersionFilterIB" \in DOMAIN InformationBlocks
  BY BlockDomain
<1>2. PICK f \in InformationBlocks["DataVersionFilterIB"] : IsTheField(t, f, s)
  BY <1>1, TableFields
<1>3. \/ HasShape(t, 0, "path", "ClusterPathIB", s) \/ HasShape(t, 1, "uint", "none", s)
  BY <1>2, AsToken DEF InformationBlocks
<1> QED BY <1>3, UIntSuits, PathShapes DEF DataVersionFilterIB, ContextualOr, HasShape

LEMMA StatusIBSuits ==
  ASSUME NEW t, NEW s, s = ShapeIn("StatusIB", t), s # "wrong"
  PROVE  Suits(StatusIB(t), t, s)
<1>1. "StatusIB" \in DOMAIN InformationBlocks
  BY BlockDomain
<1>2. PICK f \in InformationBlocks["StatusIB"] : IsTheField(t, f, s)
  BY <1>1, TableFields
<1>3. \/ HasShape(t, 0, "uint", "none", s) \/ HasShape(t, 1, "uint", "none", s)
  BY <1>2, AsToken DEF InformationBlocks
<1> QED BY <1>3, TypedSuits DEF StatusIB, ContextualOr, HasShape

LEMMA AttributeStatusIBSuits ==
  ASSUME NEW t, NEW s, s = ShapeIn("AttributeStatusIB", t), s # "wrong"
  PROVE  Suits(AttributeStatusIB(t), t, s)
<1>1. "AttributeStatusIB" \in DOMAIN InformationBlocks
  BY BlockDomain
<1>2. PICK f \in InformationBlocks["AttributeStatusIB"] : IsTheField(t, f, s)
  BY <1>1, TableFields
<1>3. \/ HasShape(t, 0, "path", "AttributePathIB", s) \/ HasShape(t, 1, "structure", "StatusIB", s)
  BY <1>2, AsToken DEF InformationBlocks
<1> QED BY <1>3, PathShapes, BlockSuits DEF AttributeStatusIB, ContextualOr, HasShape

LEMMA AttributeReportIBSuits ==
  ASSUME NEW t, NEW s, s = ShapeIn("AttributeReportIB", t), s # "wrong"
  PROVE  Suits(AttributeReportIB(t), t, s)
<1>1. "AttributeReportIB" \in DOMAIN InformationBlocks
  BY BlockDomain
<1>2. PICK f \in InformationBlocks["AttributeReportIB"] : IsTheField(t, f, s)
  BY <1>1, TableFields
<1>3. \/ HasShape(t, 0, "structure", "AttributeStatusIB", s) \/ HasShape(t, 1, "structure", "AttributeDataIB", s)
  BY <1>2, AsToken DEF InformationBlocks
<1> QED BY <1>3, BlockSuits DEF AttributeReportIB, ContextualOr, HasShape

LEMMA CommandStatusIBSuits ==
  ASSUME NEW t, NEW s, s = ShapeIn("CommandStatusIB", t), s # "wrong"
  PROVE  Suits(CommandStatusIB(t), t, s)
<1>1. "CommandStatusIB" \in DOMAIN InformationBlocks
  BY BlockDomain
<1>2. PICK f \in InformationBlocks["CommandStatusIB"] : IsTheField(t, f, s)
  BY <1>1, TableFields
<1>3. \/ HasShape(t, 0, "path", "CommandPathIB", s) \/ HasShape(t, 1, "structure", "StatusIB", s)
      \/ HasShape(t, 2, "uint", "none", s)
  BY <1>2, AsToken DEF InformationBlocks
<1> QED BY <1>3, PathShapes, BlockSuits, TypedSuits DEF CommandStatusIB, Contextual, HasShape

LEMMA InvokeResponseIBSuits ==
  ASSUME NEW t, NEW s, s = ShapeIn("InvokeResponseIB", t), s # "wrong"
  PROVE  Suits(InvokeResponseIB(t), t, s)
<1>1. "InvokeResponseIB" \in DOMAIN InformationBlocks
  BY BlockDomain
<1>2. PICK f \in InformationBlocks["InvokeResponseIB"] : IsTheField(t, f, s)
  BY <1>1, TableFields
<1>3. \/ HasShape(t, 0, "structure", "CommandDataIB", s) \/ HasShape(t, 1, "structure", "CommandStatusIB", s)
  BY <1>2, AsToken DEF InformationBlocks
<1> QED BY <1>3, BlockSuits, CommandDataSuits DEF InvokeResponseIB, Contextual, HasShape

LEMMA AttributeDataIBSuits ==
  ASSUME NEW t, NEW s, NEW ids, s = ShapeIn("AttributeDataIB", t), s # "wrong"
  PROVE  Suits(AttributeDataIB(t, ids), t, s)
<1>1. "AttributeDataIB" \in DOMAIN InformationBlocks
  BY BlockDomain
<1>2. PICK f \in InformationBlocks["AttributeDataIB"] : IsTheField(t, f, s)
  BY <1>1, TableFields
<1>3. \/ HasShape(t, 0, "uint", "none", s) \/ HasShape(t, 1, "path", "AttributePathIB", s)
      \/ \E type \in Scalars \cup Containers : HasShape(t, 2, type, "any", s)
  BY <1>2, AsToken DEF InformationBlocks
<1>4. t.num = 2 /\ s = "any" => Suits(AttributeValue(t, ids), t, s)
  BY PlainSuits, FieldBlockSuits DEF AttributeValue, FieldBlocks
<1> QED BY <1>3, <1>4, UIntSuits, PathShapes DEF AttributeDataIB, ContextualOr, HasShape

LEMMA CommandDataIBSuits ==
  ASSUME NEW t, NEW s, NEW ids, NEW fields \in FieldBlocks, t.num = 1 => ids # NoIds,
         s = ShapeIn("CommandDataIB", t), s # "wrong"
  PROVE  /\ Suits(CommandDataIB(t, ids, fields), t, s)
         /\ t.num = 0 => s = "CommandPathIB" /\ CommandDataIB(t, ids, fields) = Path("CommandIds")
<1>1. "CommandDataIB" \in DOMAIN InformationBlocks
  BY BlockDomain
<1>2. PICK f \in InformationBlocks["CommandDataIB"] : IsTheField(t, f, s)
  BY <1>1, TableFields
<1>3. HasShape(t, 0, "path", "CommandPathIB", s) \/ HasShape(t, 1, "structure", "any", s)
  BY <1>2, AsToken DEF InformationBlocks
<1> QED BY <1>3, PathShapes, FieldBlockSuits DEF CommandDataIB, Contextual, HasShape

LEMMA AnythingSuits ==
  ASSUME NEW t, NEW s, NEW ids, NEW fields
  PROVE  Suits(FieldOf(t, fields, ids), t, s)
  BY PlainSuits DEF FieldOf, ContextualOr

LEMMA ListElementSuits ==
  ASSUME NEW l \in Lists, NEW t, NEW s, s = ShapeIn(l, t), s # "wrong"
  PROVE  Suits(ListElement[l], t, s)
<1>1. t.type = Elements[l][1] /\ s = Elements[l][2]
  BY ElementOfList
<1>2. CASE l \in {"AttributePaths", "EventPaths"}
  BY <1>1, <1>2, PathShapes DEF Elements, ListElement
<1>3. CASE l = "CommandList"
  BY <1>1, <1>3, CommandDataSuits DEF Elements, ListElement
<1>4. CASE l \notin {"AttributePaths", "EventPaths", "CommandList"}
  <2>1. t.type = "structure" /\ ListElement[l] = Enter(s)
    BY <1>1, <1>4 DEF Elements, ListElement, Lists
  <2>2. s \in {"EventFilterIB", "DataVersionFilterIB", "AttributeStatusIB", "AttributeReportIB",
               "AttributeDataIB", "EventReportIB", "InvokeResponseIB", "TargetApp"}
    BY <1>1, <1>4 DEF Elements, Lists, ListElement
  <2> QED BY <2>1, <2>2, BlockSuits
<1> QED BY <1>2, <1>3, <1>4
-----------------------------------------------------------------------------
\* What the four contents come to: a list of writes, and an event.
UnshownShapes == {"WriteRequests", "WriteResponses", "EventReportIB"}

LEMMA MessageRulesSuit ==
  ASSUME NEW f, f.does \in Kinds, NEW t, NEW s, s = ShapeIn(f.does, t), s # "wrong", s \notin UnshownShapes
  PROVE  Suits(MessageRule(f, t), t, s)
<1>1. f.does = "StatusResponse" => Suits(StatusResponse(t), t, s)
  BY StatusResponseSuits
<1>2. f.does = "ReadRequest" => Suits(ReadRequest(t), t, s)
  BY ReadRequestSuits
<1>3. f.does = "ReportData" => Suits(ReportData(t), t, s)
  BY ReportDataSuits
<1>4. f.does = "SubscribeRequest" => Suits(SubscribeRequest(t), t, s)
  BY SubscribeRequestSuits
<1>5. f.does = "SubscribeResponse" => Suits(SubscribeResponse(t), t, s)
  BY SubscribeResponseSuits
<1>6. f.does = "WriteRequest" => Suits(WriteRequest(t), t, s)
  BY WriteRequestSuits DEF UnshownShapes
<1>7. f.does = "WriteResponse" => Suits(WriteResponse(t), t, s)
  BY WriteResponseSuits DEF UnshownShapes
<1>8. f.does = "CommandRequest" => Suits(CommandRequest(t), t, s)
  BY CommandRequestSuits
<1>9. f.does = "CommandResponse" => Suits(CommandResponse(t), t, s)
  BY CommandResponseSuits
<1>10. f.does = "TimedRequest" => Suits(TimedRequest(t), t, s)
  BY TimedRequestSuits
<1>11. f.does = "PBKDFParamRequest" => Suits(PBKDFParamRequest(t), t, s)
  BY PBKDFParamRequestSuits
<1>12. f.does = "PBKDFParamResponse" => Suits(PBKDFParamResponse(t), t, s)
  BY PBKDFParamResponseSuits
<1>13. f.does = "PasePake1" => Suits(PasePake1(t), t, s)
  BY PasePake1Suits
<1>14. f.does = "PasePake2" => Suits(PasePake2(t), t, s)
  BY PasePake2Suits
<1>15. f.does = "PasePake3" => Suits(PasePake3(t), t, s)
  BY PasePake3Suits
<1>16. f.does = "CaseSigma1" => Suits(CaseSigma1(t), t, s)
  BY CaseSigma1Suits
<1>17. f.does = "CaseSigma2" => Suits(CaseSigma2(t), t, s)
  BY CaseSigma2Suits
<1>18. f.does = "CaseSigma3" => Suits(CaseSigma3(t), t, s)
  BY CaseSigma3Suits
<1>19. f.does = "CaseSigma2Resume" => Suits(CaseSigma2Resume(t), t, s)
  BY CaseSigma2ResumeSuits
<1>20. f.does = "IdentificationDeclaration" => Suits(IdentificationDeclaration(t), t, s)
  BY IdentificationDeclarationSuits
<1>21. f.does \notin Embedded
  BY EmbeddedIsEmpty
<1> QED BY <1>1, <1>2, <1>3, <1>4, <1>5, <1>6, <1>7, <1>8, <1>9, <1>10, <1>11, <1>12,
           <1>13, <1>14, <1>15, <1>16, <1>17, <1>18, <1>19, <1>20, <1>21
        DEF MessageRule, Kinds, InteractionModel, SecureChannel, UserDirected

LEMMA BlockRulesSuit ==
  ASSUME NEW f, f.does \in Blocks, NEW t, NEW s, s = ShapeIn(ShapeOf(f.does), t), s # "wrong",
         f.does # "EventReportIB", f.does \in CommandBlocks /\ t.num = 1 => f.ids # NoIds
  PROVE  Suits(BlockRule(f, t), t, s)
<1>1. f.does = "EventFilterIB" => Suits(EventFilterIB(t), t, s)
  BY EventFilterIBSuits DEF ShapeOf, FieldBlocks
<1>2. f.does = "DataVersionFilterIB" => Suits(DataVersionFilterIB(t), t, s)
  BY DataVersionFilterIBSuits DEF ShapeOf, FieldBlocks
<1>3. f.does = "StatusIB" => Suits(StatusIB(t), t, s)
  BY StatusIBSuits DEF ShapeOf, FieldBlocks
<1>4. f.does = "AttributeStatusIB" => Suits(AttributeStatusIB(t), t, s)
  BY AttributeStatusIBSuits DEF ShapeOf, FieldBlocks
<1>5. f.does = "AttributeReportIB" => Suits(AttributeReportIB(t), t, s)
  BY AttributeReportIBSuits DEF ShapeOf, FieldBlocks
<1>6. f.does = "CommandStatusIB" => Suits(CommandStatusIB(t), t, s)
  BY CommandStatusIBSuits DEF ShapeOf, FieldBlocks
<1>7. f.does = "InvokeResponseIB" => Suits(InvokeResponseIB(t), t, s)
  BY InvokeResponseIBSuits DEF ShapeOf, FieldBlocks
<1>8. f.does = "SessionParameters" => Suits(SessionParameters(t), t, s)
  BY SessionParametersSuits DEF ShapeOf, FieldBlocks
<1>9. f.does = "PBKDFParameterSet" => Suits(PBKDFParameterSet(t), t, s)
  BY PBKDFParameterSetSuits DEF ShapeOf, FieldBlocks
<1>10. f.does = "TargetApp" => Suits(TargetApp(t), t, s)
  BY TargetAppSuits DEF ShapeOf, FieldBlocks
<1>11. f.does = "AttributeDataIB" => Suits(AttributeDataIB(t, f.ids), t, s)
  BY AttributeDataIBSuits DEF ShapeOf, FieldBlocks
<1>12. f.does = "CommandDataOfRequest" => Suits(CommandDataIB(t, f.ids, "RequestFields"), t, s)
  BY CommandDataIBSuits DEF ShapeOf, FieldBlocks, CommandBlocks
<1>13. f.does = "CommandDataOfResponse" => Suits(CommandDataIB(t, f.ids, "ResponseFields"), t, s)
  BY CommandDataIBSuits DEF ShapeOf, FieldBlocks, CommandBlocks
<1>14. f.does \in FieldBlocks => Suits(FieldOf(t, f.does, f.ids), t, s)
  BY AnythingSuits
<1>15. f.does \notin {"CertificateDN", "ECDSASignature", "CertificateExtensions", "BasicConstraints",
                   "ExtendedKeyUsage"}
  BY EmbeddedIsEmpty DEF ShapeOf, FieldBlocks
<1> QED BY <1>1, <1>2, <1>3, <1>4, <1>5, <1>6, <1>7, <1>8, <1>9, <1>10, <1>11, <1>12,
           <1>13, <1>14, <1>15 DEF BlockRule, Blocks, FieldBlocks

\* Whatever a call does, its rule suits an element that is not wrong.
LEMMA RulesSuit ==
  ASSUME NEW f, f.does \in Kinds \cup Lists \cup Blocks, NEW t, NEW s,
         s = ShapeIn(ShapeOf(f.does), t), s # "wrong", s \notin UnshownShapes,
         f.does # "EventReportIB", f.does \in CommandBlocks /\ t.num = 1 => f.ids # NoIds
  PROVE  Suits(RuleFor(f, t), t, s)
<1>1. CASE f.does \in Kinds
  <2>1. ShapeOf(f.does) = f.does
    BY <1>1 DEF ShapeOf, FieldBlocks, Kinds, InteractionModel, SecureChannel, UserDirected, Embedded
  <2> QED BY <1>1, <2>1, MessageRulesSuit DEF RuleFor
<1>2. CASE f.does \notin Kinds /\ f.does \in Lists
  <2>1. ShapeOf(f.does) = f.does
    BY <1>2, Callees DEF ShapeOf, FieldBlocks
  <2> QED BY <1>2, <2>1, ListElementSuits DEF RuleFor
<1>3. CASE f.does \notin Kinds /\ f.does \notin Lists
  BY <1>3, BlockRulesSuit DEF RuleFor
<1> QED BY <1>1, <1>2, <1>3

\* The ids of a path are where Matter defines a path, and the rule for it.
LEMMA CommandPathRule ==
  ASSUME NEW f, f.does \in CommandBlocks, NEW t, NEW s,
         s = ShapeIn(ShapeOf(f.does), t), s # "wrong",
         t.num = 1 => f.ids # NoIds, t.num = 0
  PROVE  s = "CommandPathIB" /\ RuleFor(f, t) = Path("CommandIds")
<1>1. ShapeOf(f.does) = "CommandDataIB"
  BY DEF ShapeOf, CommandBlocks, FieldBlocks
<1>2. \A fields \in FieldBlocks : s = "CommandPathIB" /\ CommandDataIB(t, f.ids, fields) = Path("CommandIds")
  BY <1>1, CommandDataIBSuits
<1>3. f.does \notin Kinds /\ f.does \notin Lists
  BY Callees DEF CommandBlocks, Kinds, InteractionModel, SecureChannel, UserDirected, Embedded
<1> QED BY <1>2, <1>3 DEF RuleFor, BlockRule, CommandBlocks, FieldBlocks
-----------------------------------------------------------------------------
(***************************************************************************)
(* A message that conforms: its shapes, and the ids in its paths.          *)
(***************************************************************************)
LEMMA ShapeOfElement ==
  ASSUME NEW m, IsMessage(m), Conforms(m), NEW i \in Tokens(m), m.toks[i].type # "end"
  PROVE  /\ Shapes(m)[i] # "wrong"
         /\ i = 1 => Shapes(m)[i] = m.kind
         /\ i > 1 => Shapes(m)[i] = ShapeIn(Shapes(m)[m.parent[i]], m.toks[i])
<1>1. Shapes(m)[i] = ShapeFrom(m, Shapes(m), i)
  BY ShapesUnfold
<1>2. Shapes(m)[i] # "wrong"
  BY DEF Conforms, Tokens
<1>3. i > 1 => i # 1
  BY DEF Tokens
<1> QED BY <1>1, <1>2, <1>3 DEF ShapeFrom

LEMMA ShapeOfMember ==
  ASSUME NEW m, IsMessage(m), Conforms(m), NEW i \in Tokens(m), NEW j \in MembersOf(m, i)
  PROVE  /\ j \in Tokens(m) /\ j > i /\ j > 0 /\ m.toks[j].type # "end" /\ m.parent[j] = i
         /\ Shapes(m)[j] = ShapeIn(Shapes(m)[i], m.toks[j]) /\ Shapes(m)[j] # "wrong"
<1>1. j \in i + 1..m.last[i] /\ m.parent[j] = i /\ m.toks[j].type # "end"
  BY DEF MembersOf
<1>2. j \in Tokens(m)
  BY <1>1, Inside
<1>3. m.last[i] \in Tokens(m)
  BY TokenFacts
<1>4. j > i /\ j > 1 /\ j > 0
  BY <1>1, <1>2, <1>3 DEF Tokens
<1> QED BY <1>1, <1>2, <1>4, ShapeOfElement

LEMMA FieldOfPath ==
  ASSUME NEW kind \in PathKinds, NEW t, ShapeIn(PathShape(kind), t) # "wrong"
  PROVE  t.tag = "context" /\ t.type = "uint" /\ \E k \in DOMAIN PathTags(kind) : t.num = PathTags(kind)[k]
<1>1. PathShape(kind) \in DOMAIN InformationBlocks
  BY BlockDomain DEF PathShape, PathKinds
<1>2. PICK f \in InformationBlocks[PathShape(kind)] : IsTheField(t, f, ShapeIn(PathShape(kind), t))
  BY <1>1, TableFields
<1>3. CASE kind \in {"Attribute", "AttributeIds"}
  <2>1. PathShape(kind) = "AttributePathIB" /\ PathTags(kind) = <<2, 3, 4>>
    BY <1>3 DEF PathShape, PathTags
  <2>2. \E n \in 2..4 : f = Of(n, "uint")
    BY <1>2, <2>1 DEF InformationBlocks
  <2>3. t.tag = "context" /\ t.type = "uint" /\ t.num \in {2, 3, 4}
    BY <1>2, <2>2 DEF IsTheField, Of, In
  <2>4. 1 \in DOMAIN PathTags(kind) /\ 2 \in DOMAIN PathTags(kind) /\ 3 \in DOMAIN PathTags(kind)
    BY <2>1
  <2> QED BY <2>1, <2>3, <2>4
<1>4. CASE kind = "Event"
  <2>1. PathShape(kind) = "EventPathIB" /\ PathTags(kind) = <<1, 2, 3>>
    BY <1>4 DEF PathShape, PathTags
  <2>2. \E n \in 1..3 : f = Of(n, "uint")
    BY <1>2, <2>1 DEF InformationBlocks
  <2>3. t.tag = "context" /\ t.type = "uint" /\ t.num \in {1, 2, 3}
    BY <1>2, <2>2 DEF IsTheField, Of, In
  <2>4. 1 \in DOMAIN PathTags(kind) /\ 2 \in DOMAIN PathTags(kind) /\ 3 \in DOMAIN PathTags(kind)
    BY <2>1
  <2> QED BY <2>1, <2>3, <2>4
<1>5. CASE kind = "Cluster"
  <2>1. PathShape(kind) = "ClusterPathIB" /\ PathTags(kind) = <<1, 2>>
    BY <1>5 DEF PathShape, PathTags
  <2>2. \E n \in 1..2 : f = Of(n, "uint")
    BY <1>2, <2>1 DEF InformationBlocks
  <2>3. t.tag = "context" /\ t.type = "uint" /\ t.num \in {1, 2}
    BY <1>2, <2>2 DEF IsTheField, Of, In
  <2>4. 1 \in DOMAIN PathTags(kind) /\ 2 \in DOMAIN PathTags(kind)
    BY <2>1
  <2> QED BY <2>1, <2>3, <2>4
<1>6. CASE kind \in {"Command", "CommandIds"}
  <2>1. PathShape(kind) = "CommandPathIB" /\ PathTags(kind) = <<0, 1, 2>>
    BY <1>6 DEF PathShape, PathTags
  <2>2. \E n \in 0..2 : f = Of(n, "uint")
    BY <1>2, <2>1 DEF InformationBlocks
  <2>3. t.tag = "context" /\ t.type = "uint" /\ t.num \in {0, 1, 2}
    BY <1>2, <2>2 DEF IsTheField, Of, In
  <2>4. 1 \in DOMAIN PathTags(kind) /\ 2 \in DOMAIN PathTags(kind) /\ 3 \in DOMAIN PathTags(kind)
    BY <2>1
  <2> QED BY <2>1, <2>3, <2>4
<1> QED BY <1>3, <1>4, <1>5, <1>6 DEF PathKinds

\* What may hold a part of a path is found.
LEMMA PartFound ==
  ASSUME NEW m, IsMessage(m), NEW i \in Tokens(m), NEW kind, NEW k, PathParts(m, i, kind, k) # {}
  PROVE  PathPart(m, i, kind, k) # 0
<1>1. Len(m.toks) \in Nat /\ m.last[i] \in Tokens(m)
  BY LengthOf, TokenFacts
<1>2. PathParts(m, i, kind, k) \subseteq 0..Len(m.toks) /\ 0 \notin PathParts(m, i, kind, k)
  BY <1>1 DEF PathParts, MembersOf, Tokens
<1>3. Greatest(PathParts(m, i, kind, k)) \in PathParts(m, i, kind, k)
  BY <1>1, <1>2, GreatestExists
<1>4. Least(PathParts(m, i, kind, k)) \in PathParts(m, i, kind, k)
  <2>1. PathParts(m, i, kind, k) \subseteq Nat
    BY <1>1, <1>2
  <2> QED BY <2>1, LeastExists
<1> QED BY <1>2, <1>3, <1>4 DEF PathPart

LEMMA PathHasPart ==
  ASSUME NEW m, IsMessage(m), Conforms(m), ~HasWildcardPath(m), NEW i \in Tokens(m),
         NEW kind \in PathKinds, Shapes(m)[i] = PathShape(kind)
  PROVE  HasPathPart(m, i, kind)
<1>1. MembersOf(m, i) # {}
  <2>1. PathShape(kind) \in {"AttributePathIB", "EventPathIB", "ClusterPathIB", "CommandPathIB"}
    BY DEF PathShape, PathKinds
  <2> QED BY <2>1 DEF HasWildcardPath
<1>2. PICK j \in MembersOf(m, i) : TRUE
  BY <1>1
<1>3. ShapeIn(PathShape(kind), m.toks[j]) # "wrong"
  BY ShapeOfMember
<1>4. PICK k \in DOMAIN PathTags(kind) :
        m.toks[j].tag = "context" /\ m.toks[j].type = "uint" /\ m.toks[j].num = PathTags(kind)[k]
  BY <1>3, FieldOfPath
<1>5. j \in PathParts(m, i, kind, k)
  BY <1>4 DEF PathParts, Tok
<1>6. PathPart(m, i, kind, k) # 0
  BY <1>5, PartFound
<1> QED BY <1>6 DEF HasPathPart

LEMMA CommandNamed ==
  ASSUME NEW m, IsMessage(m), Conforms(m), NEW i \in Tokens(m), Shapes(m)[i] = "CommandPathIB",
         NamesCommand(m, i), NEW ids
  PROVE  IdsOf(m, i, "CommandIds", ids) # NoIds
<1>1. "CommandIds" \in PathKinds /\ PathShape("CommandIds") = "CommandPathIB"
      /\ PathTags("CommandIds") = <<0, 1, 2>> /\ Extracts("CommandIds")
  BY DEF PathKinds, PathShape, PathTags, Extracts
<1>2. PICK j1 \in MembersOf(m, i), j2 \in MembersOf(m, i) : m.toks[j1].num = 1 /\ m.toks[j2].num = 2
  BY DEF NamesCommand, Tok
<1>3. /\ m.toks[j1].tag = "context" /\ m.toks[j1].type = "uint"
      /\ m.toks[j2].tag = "context" /\ m.toks[j2].type = "uint"
  <2>1. ShapeIn(PathShape("CommandIds"), m.toks[j1]) # "wrong" /\ ShapeIn(PathShape("CommandIds"), m.toks[j2]) # "wrong"
    BY <1>1, ShapeOfMember
  <2> QED BY <1>1, <2>1, FieldOfPath
<1>4. j1 \in PathParts(m, i, "CommandIds", 2) /\ j2 \in PathParts(m, i, "CommandIds", 3)
  <2>1. PathTags("CommandIds")[2] = 1 /\ PathTags("CommandIds")[3] = 2
    BY <1>1
  <2> QED BY <1>2, <1>3, <2>1 DEF PathParts, Tok
<1>5. PathPart(m, i, "CommandIds", 2) # 0 /\ PathPart(m, i, "CommandIds", 3) # 0
  BY <1>4, PartFound
<1> QED BY <1>1, <1>5 DEF IdsOf, NoIds

LEMMA IdsStay ==
  ASSUME NEW m, NEW i, NEW kind, NEW ids, ids # NoIds
  PROVE  IdsOf(m, i, kind, ids) # NoIds
  BY DEF IdsOf, NoIds
-----------------------------------------------------------------------------
(***************************************************************************)
(* While a message that conforms is read, each call is for the container   *)
(* that its shape is for, and none fails.                                  *)
(***************************************************************************)
Meets(m) == Conforms(m) /\ ~HasUnshown(m)

\* The call is for container c, whose fields it knows.
IsFor(m, f, c) == f.of = c /\ Shapes(m)[c] = ShapeOf(f.does) /\ f.after = "return"

\* Once the path of a command was read, its ids are remembered.
KnowsCommand(m, f, i) ==
  f.does \in CommandBlocks =>
    \A p \in MembersOf(m, f.of) : p < i /\ Tok(m, p).num = 0 /\ NamesCommand(m, p) => f.ids # NoIds

\* The element of container open[k] that is being read.
ReadIn(k) == IF k = Len(open) THEN at ELSE open[k + 1]

ReadsOn ==
  /\ status \in {"start", "running", "done"}
  /\ Len(open) = Len(frames)
  /\ \A k \in 1..Len(frames) : IsFor(msg, frames[k], open[k]) /\ KnowsCommand(msg, frames[k], ReadIn(k))
  /\ status = "done" => at = Len(msg.toks) + 1

ConformingInv == IInv /\ (Meets(msg) => ReadsOn)

LEMMA NothingUnshown ==
  ASSUME NEW m, Meets(m), NEW i \in Tokens(m)
  PROVE  Shapes(m)[i] \notin UnshownShapes
  BY DEF Meets, HasUnshown, HasEvents, HasWrites, UnshownShapes

\* The rule for the element that is read next.
LEMMA TheRuleSuits ==
  ASSUME IInv, Meets(msg), ReadsOn, OnElement
  PROVE  /\ IsMessage(msg) /\ Conforms(msg) /\ at \in Tokens(msg) /\ at > 1
         /\ Len(frames) \in 1..Len(frames) /\ Len(frames) \in Nat /\ Top = frames[Len(frames)]
         /\ Top \in FrameType(msg) /\ Top.of \in Tokens(msg) /\ Top.of = msg.parent[at]
         /\ at \in MembersOf(msg, Top.of)
         /\ Shapes(msg)[at] = ShapeIn(ShapeOf(Top.does), Tok(msg, at)) /\ Shapes(msg)[at] # "wrong"
         /\ Top.does \in CommandBlocks /\ Tok(msg, at).num = 1 => Top.ids # NoIds
         /\ Suits(Rule, Tok(msg, at), Shapes(msg)[at])
<1>1. WellTyped /\ OpenIsAround /\ status = "running" /\ Tok(msg, at).type # "end"
  BY DEF IInv, OnElement
<1>2. /\ at \in Tokens(msg) /\ at > 1 /\ open[Len(open)] = msg.parent[at]
      /\ Len(frames) \in Nat /\ Len(frames) > 0 /\ Top \in FrameType(msg)
  BY <1>1, Innermost
<1>3. IsMessage(msg) /\ Conforms(msg)
  BY <1>1, TheMessage DEF Meets
<1>4. Len(frames) \in 1..Len(frames) /\ Top = frames[Len(frames)]
  BY <1>2 DEF Top
<1>5. IsFor(msg, Top, msg.parent[at]) /\ KnowsCommand(msg, Top, at)
  <2>1. Len(open) = Len(frames)
    BY DEF ReadsOn
  <2>2. IsFor(msg, Top, open[Len(frames)]) /\ KnowsCommand(msg, Top, ReadIn(Len(frames)))
    BY <1>4 DEF ReadsOn
  <2> QED BY <1>2, <2>1, <2>2 DEF ReadIn
<1>6. Top.of = msg.parent[at] /\ Shapes(msg)[Top.of] = ShapeOf(Top.does)
  BY <1>5 DEF IsFor
<1>7. Top.of \in Tokens(msg)
  BY <1>2 DEF FrameType
<1>8. at \in MembersOf(msg, Top.of)
  <2>1. msg.last[Top.of] \in Tokens(msg) /\ msg.parent[at] < at /\ at <= msg.last[msg.parent[at]]
    BY <1>2, <1>3, <1>7, TokenFacts
  <2>2. at \in Top.of + 1..msg.last[Top.of]
    BY <1>2, <1>6, <1>7, <2>1 DEF Tokens
  <2> QED BY <1>1, <1>6, <2>2 DEF MembersOf, Tok
<1>9. Shapes(msg)[at] = ShapeIn(ShapeOf(Top.does), Tok(msg, at)) /\ Shapes(msg)[at] # "wrong"
  BY <1>1, <1>2, <1>3, <1>6, ShapeOfElement DEF Tok
<1>10. ASSUME Top.does \in CommandBlocks, Tok(msg, at).num = 1
       PROVE  Top.ids # NoIds
  <2>1. Shapes(msg)[Top.of] = "CommandDataIB"
    BY <1>6, <1>10 DEF ShapeOf, CommandBlocks, FieldBlocks
  <2>2. PICK p \in MembersOf(msg, Top.of) : p < at /\ Tok(msg, p).num = 0 /\ NamesCommand(msg, p)
    BY <1>7, <1>8, <1>10, <2>1 DEF Meets, HasUnshown, HasUnnamedFields
  <2> QED BY <1>5, <1>10, <2>2 DEF KnowsCommand
<1>11. Top.does \in Kinds \cup Lists \cup Blocks
  BY <1>2 DEF FrameType
<1>12. Top.does # "EventReportIB"
  <2>1. ShapeOf("EventReportIB") = "EventReportIB"
    BY DEF ShapeOf, FieldBlocks
  <2>2. Shapes(msg)[Top.of] # "EventReportIB"
    BY <1>7, NothingUnshown DEF UnshownShapes
  <2> QED BY <1>6, <2>1, <2>2
<1>13. Suits(Rule, Tok(msg, at), Shapes(msg)[at])
  BY <1>2, <1>9, <1>10, <1>11, <1>12, NothingUnshown, RulesSuit DEF Rule
<1> QED BY <1>2, <1>3, <1>4, <1>6, <1>7, <1>8, <1>9, <1>10, <1>13

\* An element that a rule suits is shown.
LEMMA ElementIsShown ==
  ASSUME IInv, Meets(msg), ReadsOn, NextElement
  PROVE  /\ status' = "running" /\ open' = open /\ at' = After(msg, at) /\ msg' = msg
         /\ \/ frames' = frames /\ Rule # Path("CommandIds")
            \/ \E kind : frames' = Remembers(IdsOf(msg, at, kind, Top.ids))
                         /\ (Rule = Path("CommandIds") => kind = "CommandIds")
<1> DEFINE r == Rule
           s == Shapes(msg)[at]
<1>1. OnElement /\ at' = After(msg, at) /\ msg' = msg /\ status = "running"
  BY DEF NextElement, OnElement
<1>2. /\ Suits(r, Tok(msg, at), s) /\ Conforms(msg) /\ IsMessage(msg) /\ at \in Tokens(msg)
  BY <1>1, TheRuleSuits
<1>3. TypeAt(msg, at) = Tok(msg, at).type
  BY <1>1, TheElement DEF IInv
<1>4. RejectElement(at, r) \/ ShowElement(at, r) \/ ShowTyped(at, r) \/ ShowPath(at, r) \/ LeaveElement(at, r)
  BY DEF NextElement
<1>5. Path("CommandIds").do = "path" /\ Path("CommandIds").arg = "CommandIds"
  BY DEF Path, RuleOf
<1>6. ~HasWildcardPath(msg)
  BY DEF Meets, HasUnshown
<1> HIDE DEF r, s
<1>7. SUFFICES /\ status' = "running" /\ open' = open
               /\ \/ frames' = frames /\ r # Path("CommandIds")
                  \/ \E kind : frames' = Remembers(IdsOf(msg, at, kind, Top.ids))
                               /\ (r = Path("CommandIds") => kind = "CommandIds")
  BY <1>1 DEF r
<1>8. CASE RejectElement(at, r) \/ LeaveElement(at, r)
  BY <1>2, <1>8 DEF RejectElement, LeaveElement, Suits
<1>9. CASE ShowElement(at, r)
  <2>1. r.field # "none" /\ r.do # "path"
    BY <1>2, <1>9 DEF ShowElement, Suits
  <2> QED BY <1>1, <1>5, <1>9, <2>1 DEF ShowElement, Shows
<1>10. CASE ShowTyped(at, r)
  <2>1. Tok(msg, at).type = r.field /\ r.do # "path"
    BY <1>2, <1>10 DEF ShowTyped, Suits
  <2> QED BY <1>1, <1>3, <1>5, <1>10, <2>1 DEF ShowTyped, Shows
<1>11. CASE ShowPath(at, r)
  <2>1. Tok(msg, at).type = "path" /\ r.arg \in PathKinds /\ s = PathShape(r.arg)
    BY <1>2, <1>11 DEF ShowPath, Suits
  <2>2. HasPathPart(msg, at, r.arg)
    BY <1>2, <1>6, <2>1, PathHasPart DEF s
  <2>3. /\ frames' = [frames EXCEPT ![Len(frames)].ids = IdsOf(msg, at, r.arg, @)]
        /\ open' = open /\ status' = status
    BY <1>3, <1>11, <2>1, <2>2 DEF ShowPath
  <2>4. frames' = Remembers(IdsOf(msg, at, r.arg, Top.ids))
    BY <2>3 DEF Remembers, Top
  <2> QED BY <1>1, <1>5, <2>3, <2>4
<1> QED BY <1>4, <1>8, <1>9, <1>10, <1>11
-----------------------------------------------------------------------------
\* The calls remember their containers, whatever ids the innermost one has.
LEMMA RememberedIds ==
  ASSUME frames \in Seq(FrameType(msg)), frames # << >>, NEW ids
  PROVE  /\ Len(Remembers(ids)) = Len(frames)
         /\ \A k \in 1..Len(frames) :
              /\ Remembers(ids)[k].does = frames[k].does /\ Remembers(ids)[k].of = frames[k].of
              /\ Remembers(ids)[k].after = frames[k].after
              /\ Remembers(ids)[k].ids = IF k = Len(frames) THEN ids ELSE frames[k].ids
<1> DEFINE n == Len(frames)
           top == [frames[n] EXCEPT !.ids = ids]
<1>1. n \in Nat /\ n > 0
  OBVIOUS
<1>2. Remembers(ids) = [frames EXCEPT ![n] = top]
  BY DEF Remembers
<1>3. frames[n] \in FrameType(msg)
  BY <1>1
<1>4. /\ top.does = frames[n].does /\ top.of = frames[n].of
      /\ top.after = frames[n].after /\ top.ids = ids
  BY <1>3 DEF FrameType
<1> HIDE DEF top
<1>5. Len(Remembers(ids)) = n
  BY <1>1, <1>2
<1>6. ASSUME NEW k \in 1..n
      PROVE  Remembers(ids)[k] = IF k = n THEN top ELSE frames[k]
  BY <1>1, <1>2
<1> QED BY <1>4, <1>5, <1>6

\* Between an element of a container and what follows it there is no other one
\* of the container.
LEMMA NoMemberBetween ==
  ASSUME NEW m, IsMessage(m), NEW c \in Tokens(m), NEW i \in MembersOf(m, c), NEW p \in MembersOf(m, c),
         p <= m.last[i], ~(p < i)
  PROVE  p = i
<1>1. i \in c + 1..m.last[c] /\ p \in c + 1..m.last[c] /\ m.parent[i] = c /\ m.parent[p] = c
  BY DEF MembersOf
<1>2. i \in Tokens(m) /\ p \in Tokens(m)
  BY <1>1, Inside
<1>3. SUFFICES ASSUME p # i PROVE FALSE
  OBVIOUS
<1>4. p \in i + 1..m.last[i] /\ i > c
  <2>1. m.last[i] \in Tokens(m) /\ m.last[c] \in Tokens(m)
    BY <1>2, TokenFacts
  <2> QED BY <1>1, <1>2, <1>3, <2>1 DEF Tokens
<1>5. m.parent[p] >= i
  BY <1>2, <1>4, Inside
<1> QED BY <1>1, <1>2, <1>4, <1>5 DEF Tokens

LEMMA BeginReadsOn ==
  ASSUME IInv, Meets(msg), Begin
  PROVE  ReadsOn'
<1> DEFINE fr == Frame(Enter(msg.kind), 1)
<1>1. WellTyped /\ IsMessage(msg) /\ msg.kind \in Kinds /\ 1 \in Tokens(msg) /\ Conforms(msg)
  BY TheMessage DEF IInv, Meets
<1>2. Opens
  <2>1. Tok(msg, 1).type = "structure" /\ Tok(msg, 1).tag = "anonymous"
    BY <1>1 DEF Conforms
  <2> QED BY <2>1 DEF Opens, IsContainerAt, TypeAt, Tok, Containers
<1>3. at' = 2 /\ open' = <<1>> /\ frames' = <<fr>> /\ status' = "running" /\ msg' = msg
  BY <1>2 DEF Begin
<1>4. fr.of = 1 /\ fr.does = msg.kind /\ fr.after = "return"
  <2>1. Enter(msg.kind) = [do |-> "enter", arg |-> msg.kind, field |-> "string", ids |-> NoIds,
                           orElse |-> "fail", after |-> "return"]
    BY RuleFields DEF Enter
  <2> QED BY <2>1 DEF Frame
<1>5. Shapes(msg)[1] = ShapeOf(msg.kind) /\ msg.kind \notin CommandBlocks
  <2>1. ShapeOf(msg.kind) = msg.kind /\ msg.kind \notin CommandBlocks
    BY <1>1 DEF ShapeOf, FieldBlocks, CommandBlocks, Kinds, InteractionModel, SecureChannel, UserDirected, Embedded
  <2>2. Tok(msg, 1).type = "structure"
    BY <1>1 DEF Conforms
  <2>3. msg.toks[1].type # "end"
    BY <2>2 DEF Tok
  <2> QED BY <1>1, <2>1, <2>3, ShapeOfElement
<1> HIDE DEF fr
<1>6. Len(open') = 1 /\ Len(frames') = 1 /\ frames'[1] = fr /\ open'[1] = 1
  BY <1>3
<1>7. IsFor(msg, fr, 1) /\ \A i : KnowsCommand(msg, fr, i)
  BY <1>4, <1>5 DEF IsFor, KnowsCommand
<1> QED BY <1>3, <1>6, <1>7 DEF ReadsOn

\* ReadsOn in the next state, in terms of what a step makes of the variables.
LEMMA StillReadsOn ==
  ASSUME msg' = msg, status' = "running", Len(open') = Len(frames'),
         \A k \in 1..Len(frames') :
           IsFor(msg, frames'[k], open'[k]) /\ KnowsCommand(msg, frames'[k], ReadIn(k)')
  PROVE  ReadsOn'
  BY DEF ReadsOn

LEMMA ElementReadsOn ==
  ASSUME IInv, Meets(msg), ReadsOn, NextElement
  PROVE  ReadsOn'
<1>1. OnElement
  BY DEF NextElement
<1>2. /\ status' = "running" /\ open' = open /\ at' = After(msg, at) /\ msg' = msg
      /\ \/ frames' = frames /\ Rule # Path("CommandIds")
         \/ \E kind : frames' = Remembers(IdsOf(msg, at, kind, Top.ids))
                      /\ (Rule = Path("CommandIds") => kind = "CommandIds")
  BY ElementIsShown
<1>3. /\ IsMessage(msg) /\ Conforms(msg) /\ at \in Tokens(msg) /\ at > 1
      /\ Len(frames) \in 1..Len(frames) /\ Len(frames) \in Nat /\ Top = frames[Len(frames)]
      /\ Top.of \in Tokens(msg) /\ at \in MembersOf(msg, Top.of) /\ Top \in FrameType(msg)
      /\ Shapes(msg)[at] = ShapeIn(ShapeOf(Top.does), Tok(msg, at)) /\ Shapes(msg)[at] # "wrong"
      /\ Top.does \in CommandBlocks /\ Tok(msg, at).num = 1 => Top.ids # NoIds
  BY <1>1, TheRuleSuits
<1>4. frames \in Seq(FrameType(msg)) /\ frames # << >>
  <2>1. frames \in Seq(FrameType(msg))
    BY DEF IInv, WellTyped, TypeOK
  <2> QED BY <1>3, <2>1
<1>5. /\ Len(open) = Len(frames)
      /\ \A k \in 1..Len(frames) : IsFor(msg, frames[k], open[k]) /\ KnowsCommand(msg, frames[k], ReadIn(k))
  BY DEF ReadsOn
<1>6. PICK ids : /\ frames' = Remembers(ids) \/ (frames' = frames /\ ids = Top.ids)
                 /\ Top.ids # NoIds => ids # NoIds
                 /\ Rule = Path("CommandIds") => \E old : ids = IdsOf(msg, at, "CommandIds", old)
  <2>1. CASE frames' = frames /\ Rule # Path("CommandIds")
    BY <2>1
  <2>2. ASSUME NEW kind, frames' = Remembers(IdsOf(msg, at, kind, Top.ids)),
               Rule = Path("CommandIds") => kind = "CommandIds"
        PROVE  \E ids : /\ frames' = Remembers(ids) \/ (frames' = frames /\ ids = Top.ids)
                        /\ Top.ids # NoIds => ids # NoIds
                        /\ Rule = Path("CommandIds") => \E old : ids = IdsOf(msg, at, "CommandIds", old)
    <3>1. Top.ids # NoIds => IdsOf(msg, at, kind, Top.ids) # NoIds
      BY IdsStay
    <3>2. WITNESS IdsOf(msg, at, kind, Top.ids)
    <3> QED BY <2>2, <3>1
  <2> QED BY <1>2, <2>1, <2>2
<1>7. /\ Len(frames') = Len(frames)
      /\ \A k \in 1..Len(frames) :
           /\ frames'[k].does = frames[k].does /\ frames'[k].of = frames[k].of
           /\ frames'[k].after = frames[k].after
           /\ frames'[k].ids = IF k = Len(frames) THEN ids ELSE frames[k].ids
  <2>1. CASE frames' = Remembers(ids)
    BY <1>4, <2>1, RememberedIds
  <2>2. CASE frames' = frames /\ ids = Top.ids
    BY <1>3, <2>2
  <2> QED BY <1>6, <2>1, <2>2
<1>8. ASSUME NEW k \in 1..Len(frames')
      PROVE  IsFor(msg, frames'[k], open'[k]) /\ KnowsCommand(msg, frames'[k], ReadIn(k)')
  <2>1. k \in 1..Len(frames)
    BY <1>7
  <2>2. IsFor(msg, frames'[k], open'[k])
    BY <1>2, <1>5, <1>7, <2>1 DEF IsFor
  <2>3. CASE k # Len(frames)
    <3>1. ReadIn(k)' = ReadIn(k) /\ frames'[k].ids = frames[k].ids
      BY <1>2, <1>5, <1>7, <2>1, <2>3 DEF ReadIn
    <3>2. KnowsCommand(msg, frames[k], ReadIn(k))
      BY <1>5, <2>1
    <3>3. frames'[k].does = frames[k].does /\ frames'[k].of = frames[k].of
      BY <1>7, <2>1
    <3> QED BY <2>2, <3>1, <3>2, <3>3 DEF KnowsCommand
  <2>4. CASE k = Len(frames)
    <3>1. ReadIn(k)' = After(msg, at) /\ ReadIn(k) = at
      BY <1>2, <1>5, <2>4 DEF ReadIn
    <3>2. KnowsCommand(msg, Top, at)
      BY <1>3, <1>5, <2>4, <3>1
    <3>3. frames'[k].does = Top.does /\ frames'[k].of = Top.of /\ frames'[k].ids = ids
      BY <1>3, <1>7, <2>1, <2>4
    <3>4. ASSUME Top.does \in CommandBlocks, NEW p \in MembersOf(msg, Top.of), p < After(msg, at),
                 Tok(msg, p).num = 0, NamesCommand(msg, p)
          PROVE  ids # NoIds
      <4>1. CASE p < at
        BY <1>6, <3>2, <3>4, <4>1 DEF KnowsCommand
      <4>2. CASE ~(p < at)
        <5>1. p \in Tokens(msg) /\ msg.last[at] \in Tokens(msg)
          BY <1>3, <3>4, ShapeOfMember, TokenFacts
        <5>2. p <= msg.last[at]
          BY <3>4, <5>1 DEF After, Tokens
        <5>3. p = at
          BY <1>3, <3>4, <4>2, <5>2, NoMemberBetween
        <5>4. Shapes(msg)[at] = "CommandPathIB" /\ Rule = Path("CommandIds")
          BY <1>3, <3>4, <5>3, CommandPathRule DEF Rule
        <5> QED BY <1>3, <1>6, <3>4, <5>3, <5>4, CommandNamed
      <4> QED BY <4>1, <4>2
    <3>5. KnowsCommand(msg, frames'[k], After(msg, at))
      BY <3>3, <3>4 DEF KnowsCommand
    <3> QED BY <2>2, <3>1, <3>5
  <2> QED BY <2>3, <2>4
<1> QED BY <1>2, <1>5, <1>7, <1>8, StillReadsOn
-----------------------------------------------------------------------------
\* A call that is entered is for an element of the shape that it reads.
LEMMA EnterReadsOn ==
  ASSUME IInv, Meets(msg), ReadsOn, EnterElement
  PROVE  ReadsOn'
<1> DEFINE r == Rule
           fr == Frame(r, at)
           n == Len(frames)
<1>1. /\ OnElement /\ msg' = msg /\ r.do = "enter" /\ status = "running"
      /\ IF TypeAt(msg, at) \in Accepts(r.arg)
         THEN /\ at' = at + 1 /\ elem' = 0
              /\ open' = Append(open, at) /\ frames' = Append(frames, Frame(r, at))
              /\ lines' = lines \o EnteredLine(at, r)
              /\ UNCHANGED status
         ELSE at' = After(msg, at) /\ FailsToEnter(at, r)
  BY DEF EnterElement, OnElement
<1>2. /\ IsMessage(msg) /\ at \in Tokens(msg) /\ n \in Nat
      /\ Suits(r, Tok(msg, at), Shapes(msg)[at])
  BY <1>1, TheRuleSuits
<1>3. TypeAt(msg, at) = Tok(msg, at).type
  BY <1>1, TheElement DEF IInv
<1>4. open \in Seq(Tokens(msg)) /\ frames \in Seq(FrameType(msg))
  BY DEF IInv, WellTyped, TypeOK
<1> HIDE DEF r
<1>5. Tok(msg, at).type \in Accepts(r.arg) /\ Shapes(msg)[at] = ShapeOf(r.arg) /\ r.after = "return"
  BY <1>1, <1>2 DEF Suits
<1>6. at' = at + 1 /\ open' = Append(open, at) /\ frames' = Append(frames, fr) /\ status' = "running"
  BY <1>1, <1>3, <1>5
<1>7. fr.of = at /\ fr.does = r.arg /\ fr.after = "return"
  BY <1>5 DEF Frame
<1> HIDE DEF fr
<1>8. /\ Len(open) = n
      /\ \A k \in 1..n : IsFor(msg, frames[k], open[k]) /\ KnowsCommand(msg, frames[k], ReadIn(k))
  BY DEF ReadsOn
<1>9. /\ Len(frames') = n + 1 /\ frames'[n + 1] = fr /\ \A k \in 1..n : frames'[k] = frames[k]
      /\ Len(open') = n + 1 /\ open'[n + 1] = at /\ \A k \in 1..n : open'[k] = open[k]
  BY <1>4, <1>6, <1>8, AppendProperties
<1> HIDE DEF n
<1>10. IsFor(msg, fr, at)
  BY <1>5, <1>7 DEF IsFor
<1>11. KnowsCommand(msg, fr, at + 1)
  <2>1. \A p \in MembersOf(msg, at) : ~(p < at + 1)
    <3>1. msg.last[at] \in Tokens(msg)
      BY <1>2, TokenFacts
    <3> QED BY <1>2, <3>1 DEF MembersOf, Tokens
  <2> QED BY <1>7, <2>1 DEF KnowsCommand
<1>12. ASSUME NEW k \in 1..n + 1
       PROVE  IsFor(msg, frames'[k], open'[k]) /\ KnowsCommand(msg, frames'[k], ReadIn(k)')
  <2>1. CASE k = n + 1
    <3>1. ReadIn(k)' = at + 1
      BY <1>6, <1>9, <2>1 DEF ReadIn
    <3> QED BY <1>9, <1>10, <1>11, <2>1, <3>1
  <2>2. CASE k \in 1..n
    <3>1. ReadIn(k)' = ReadIn(k)
      <4>1. k # n + 1
        BY <1>2, <2>2
      <4>2. CASE k = n
        BY <1>8, <1>9, <4>1, <4>2 DEF ReadIn
      <4>3. CASE k # n
        <5>1. k + 1 \in 1..n
          BY <1>2, <2>2, <4>3
        <5> QED BY <1>8, <1>9, <4>1, <4>3, <5>1 DEF ReadIn
      <4> QED BY <4>2, <4>3
    <3> QED BY <1>8, <1>9, <2>2, <3>1
  <2> QED BY <1>2, <2>1, <2>2
<1> QED BY <1>1, <1>6, <1>9, <1>12, StillReadsOn

\* A call that ends was for a block or a list, and not for the path of a command.
LEMMA EndReadsOn ==
  ASSUME IInv, Meets(msg), ReadsOn, EndContainer
  PROVE  ReadsOn'
<1> DEFINE n == Len(frames)
<1>1. /\ at' = at + 1 /\ open' = Rest(open) /\ frames' = Rest(frames) /\ msg' = msg
      /\ status = "running" /\ Tok(msg, at).type = "end"
      /\ status' = IF Len(frames) = 1 THEN "done"
                   ELSE IF Top.after = "generic" THEN "failing" ELSE "running"
  BY DEF EndContainer, OnEnd
<1>2. /\ IsMessage(msg) /\ Conforms(msg) /\ at \in Tokens(msg) /\ at > 1
      /\ frames # << >> /\ open # << >> /\ n \in Nat /\ n > 0
      /\ open[Len(open)] = msg.parent[at] /\ Top \in FrameType(msg)
  BY <1>1, TheMessage, Innermost DEF IInv, Meets
<1>3. open \in Seq(Tokens(msg)) /\ frames \in Seq(FrameType(msg))
  BY DEF IInv, WellTyped, TypeOK
<1>4. /\ Len(open) = n
      /\ \A k \in 1..n : IsFor(msg, frames[k], open[k]) /\ KnowsCommand(msg, frames[k], ReadIn(k))
  BY DEF ReadsOn
<1>5. /\ Len(open') = n - 1 /\ \A k \in 1..n - 1 : open'[k] = open[k]
      /\ Len(frames') = n - 1 /\ \A k \in 1..n - 1 : frames'[k] = frames[k]
  BY <1>1, <1>2, <1>3, <1>4, RestOf
<1>6. \A k \in 1..n : msg.parent[open[k]] = IF k = 1 THEN 0 ELSE open[k - 1]
  BY <1>4 DEF IInv, OpenIsAround
<1>7. Top = frames[n] /\ n \in 1..n
  BY <1>2 DEF Top
<1> HIDE DEF n
<1> DEFINE c == open[n]
<1>8. IsFor(msg, Top, c) /\ c \in Tokens(msg) /\ msg.parent[at] = c
  BY <1>2, <1>3, <1>4, <1>7
<1>9. msg.last[c] = at /\ (c = 1 => at = Len(msg.toks))
  BY <1>1, <1>2, <1>8, AfterEnd DEF Tok
<1>10. Top.after # "generic"
  BY <1>8 DEF IsFor
<1>11. CASE n = 1
  <2>1. status' = "done" /\ Len(open') = 0 /\ Len(frames') = 0
    BY <1>1, <1>5, <1>11 DEF n
  <2>2. c = 1
    <3>1. msg.parent[c] = 0
      BY <1>6, <1>7, <1>11
    <3> QED BY <1>2, <1>8, <3>1, TokenFacts
  <2>3. at' = Len(msg'.toks) + 1
    BY <1>1, <1>9, <2>2
  <2> QED BY <2>1, <2>3 DEF ReadsOn
<1>12. CASE n # 1
  <2> DEFINE g == frames[n - 1]
             d == open[n - 1]
  <2> HIDE DEF g, d
  <2>1. n - 1 \in 1..n /\ n - 1 # n
    <3>1. n \in Nat /\ n > 0
      BY <1>2
    <3> QED BY <3>1, <1>12
  <2>0. status' = "running"
    BY <1>1, <1>10, <1>12 DEF n
  <2> USE DEF g, d
  <2>2. /\ IsFor(msg, g, d) /\ KnowsCommand(msg, g, ReadIn(n - 1)) /\ d \in Tokens(msg)
        /\ ReadIn(n - 1) = c /\ msg.parent[c] = d
    <3>1. ReadIn(n - 1) = c
      BY <1>2, <1>4, <2>1 DEF ReadIn
    <3>2. msg.parent[c] = d
      BY <1>6, <1>7, <1>12
    <3>3. d \in Tokens(msg)
      BY <1>3, <1>4, <2>1
    <3> QED BY <1>4, <2>1, <3>1, <3>2, <3>3
  <2>3. g.of = d /\ Top.of = c /\ Shapes(msg)[d] = ShapeOf(g.does) /\ Shapes(msg)[c] = ShapeOf(Top.does)
    BY <1>8, <2>2 DEF IsFor
  <2>4. c \in MembersOf(msg, d)
    <3>1. d # 0
      BY <2>2 DEF Tokens
    <3>2. c > 1
      BY <1>2, <1>8, <2>2, <3>1, TokenFacts DEF Tokens
    <3>3. d < c /\ c <= msg.last[d] /\ msg.last[d] \in Tokens(msg)
      BY <1>2, <1>8, <2>2, <3>2, TokenFacts
    <3>4. msg.toks[c].type # "end"
      <4>1. msg.toks[msg.parent[at]].type \in Containers
        BY <1>2, TokenFacts
      <4> QED BY <1>8, <4>1 DEF Containers
    <3>5. c \in d + 1..msg.last[d]
      BY <1>8, <2>2, <3>3 DEF Tokens
    <3> QED BY <2>2, <3>4, <3>5 DEF MembersOf
  <2>5. ASSUME g.does \in CommandBlocks
        PROVE  Tok(msg, c).num # 0
    <3>1. SUFFICES ASSUME Tok(msg, c).num = 0 PROVE FALSE
      OBVIOUS
    <3>2. Shapes(msg)[c] = ShapeIn(ShapeOf(g.does), Tok(msg, c)) /\ Shapes(msg)[c] # "wrong"
      BY <1>2, <2>2, <2>3, <2>4, ShapeOfMember DEF Tok
    <3>3. Tok(msg, c).num = 1 => g.ids # NoIds
      BY <3>1
    <3>4. Shapes(msg)[c] = "CommandPathIB"
      BY <2>5, <3>1, <3>2, <3>3, CommandPathRule
    <3>5. Top.does \in Kinds \cup Lists \cup Blocks
      BY <1>2 DEF FrameType
    <3>6. ShapeOf(Top.does) # "CommandPathIB"
      <4>1. Top.does # "CommandPathIB"
        BY <3>5, Callees DEF Kinds, InteractionModel, SecureChannel, UserDirected, Embedded
      <4> QED BY <4>1 DEF ShapeOf, FieldBlocks
    <3> QED BY <2>3, <3>4, <3>6
  <2>6. KnowsCommand(msg, g, at + 1)
    <3>1. SUFFICES ASSUME g.does \in CommandBlocks, NEW p \in MembersOf(msg, g.of), p < at + 1,
                          Tok(msg, p).num = 0, NamesCommand(msg, p)
                   PROVE  g.ids # NoIds
      BY DEF KnowsCommand
    <3>2. CASE p < c
      BY <2>2, <3>1, <3>2 DEF KnowsCommand
    <3>3. CASE ~(p < c)
      <4>1. p \in Tokens(msg)
        BY <1>2, <2>2, <2>3, <3>1, ShapeOfMember
      <4>2. p <= msg.last[c]
        BY <1>2, <1>9, <3>1, <4>1 DEF Tokens
      <4>3. p = c
        BY <1>2, <2>2, <2>3, <2>4, <3>1, <3>3, <4>2, NoMemberBetween
      <4> QED BY <2>5, <3>1, <4>3
    <3> QED BY <3>2, <3>3
  <2>7. ASSUME NEW k \in 1..n - 1
        PROVE  IsFor(msg, frames'[k], open'[k]) /\ KnowsCommand(msg, frames'[k], ReadIn(k)')
    <3>1. k \in 1..n
      BY <1>2, <2>7
    <3>2. IsFor(msg, frames'[k], open'[k]) /\ frames'[k] = frames[k]
      BY <1>4, <1>5, <2>7, <3>1
    <3>3. CASE k = n - 1
      <4>1. ReadIn(k)' = at + 1
        BY <1>1, <1>5, <3>3 DEF ReadIn
      <4> QED BY <2>6, <3>2, <3>3, <4>1
    <3>4. CASE k # n - 1
      <4>1. k + 1 \in 1..n - 1 /\ k # n
        BY <1>2, <2>7, <3>4
      <4>2. ReadIn(k)' = ReadIn(k)
        BY <1>4, <1>5, <3>4, <4>1 DEF ReadIn
      <4> QED BY <1>4, <3>1, <3>2, <4>2
    <3> QED BY <3>3, <3>4
  <2> QED BY <1>1, <1>5, <2>0, <2>7, StillReadsOn
<1> QED BY <1>11, <1>12

\* A conforming message is read on by every step.
LEMMA InitConforming == Init => ConformingInv
<1> SUFFICES ASSUME Init PROVE ConformingInv
  OBVIOUS
<1>1. open = << >> /\ frames = << >> /\ status = "start"
  BY DEF Init
<1>2. ReadsOn
  BY <1>1 DEF ReadsOn
<1> QED BY <1>2, InitIInv DEF ConformingInv

LEMMA NextConforming == ConformingInv /\ [Next]_vars => ConformingInv'
<1> SUFFICES ASSUME ConformingInv, [Next]_vars PROVE ConformingInv'
  OBVIOUS
<1>1. IInv /\ IInv' /\ msg' = msg
  <2>1. IInv'
    BY NextIInv DEF ConformingInv
  <2>2. msg' = msg
    BY DEF Next, vars, Begin, NextElement, EnterElement, EndContainer, ReturnError
  <2> QED BY <2>1, <2>2 DEF ConformingInv
<1>2. SUFFICES ASSUME Meets(msg) PROVE ReadsOn'
  BY <1>1 DEF ConformingInv
<1>3. ReadsOn
  BY <1>2 DEF ConformingInv
<1>4. CASE Begin
  BY <1>1, <1>2, <1>4, BeginReadsOn
<1>5. CASE NextElement
  BY <1>1, <1>2, <1>3, <1>5, ElementReadsOn
<1>6. CASE EnterElement
  BY <1>1, <1>2, <1>3, <1>6, EnterReadsOn
<1>7. CASE EndContainer
  BY <1>1, <1>2, <1>3, <1>7, EndReadsOn
<1>8. CASE ReturnError
  BY <1>3, <1>8 DEF ReadsOn, ReturnError
<1>9. CASE UNCHANGED vars
  BY <1>3, <1>9 DEF vars, ReadsOn, ReadIn
<1> QED BY <1>4, <1>5, <1>6, <1>7, <1>8, <1>9 DEF Next

(***************************************************************************)
(* A message that Matter defines, without the four contents that the       *)
(* dissectors do not show, is dissected to its end: no dissector returns   *)
(* an error and no item is added in a field of another type, in any such   *)
(* message.                                                                *)
(***************************************************************************)
THEOREM ConformingAreShown == Spec => []ConformingShown
<1>1. ConformingInv => ConformingShown
  BY DEF ConformingInv, ConformingShown, Meets, ReadsOn
<1> QED BY <1>1, InitConforming, NextConforming, PTL DEF Spec
-----------------------------------------------------------------------------
(***************************************************************************)
(* A conforming message that was dissected has all of its values in items: *)
(* every value of its encoding is in the item of an element, of a path or  *)
(* of a container (what GenericTLVDissector::AddGenericTLVItem and the     *)
(* items that the dissectors add cover).                                   *)
(***************************************************************************)
AllIsShown ==
  Conforms(msg) /\ ~HasUnshown(msg) /\ status = "done" =>
    \A i \in Tokens(msg) : Tok(msg, i).type \in Scalars => IsShown(i)

THEOREM ConformingValuesShown == Spec => []AllIsShown
<1>1. ConformingShown /\ NothingPassedOver /\ TypeOK => AllIsShown
  <2> SUFFICES ASSUME ConformingShown, NothingPassedOver, TypeOK,
                      Conforms(msg), ~HasUnshown(msg), status = "done",
                      NEW i \in Tokens(msg), Tok(msg, i).type \in Scalars
               PROVE  IsShown(i)
    BY DEF AllIsShown
  <2>1. at = Len(msg.toks) + 1
    BY DEF ConformingShown
  <2>2. at \in 1..Len(msg.toks) + 1
    BY DEF TypeOK
  <2>3. i \in 1..at - 1
    <3> HIDE DEF ConformingShown, NothingPassedOver, TypeOK
    <3>1. i \in 1..Len(msg.toks)
      BY DEF Tokens
    <3> QED BY <2>1, <2>2, <3>1
  <2> QED BY <2>3 DEF NothingPassedOver
<1> QED BY <1>1, ConformingAreShown, NothingLost, TypeCorrect, PTL
-----------------------------------------------------------------------------
(***************************************************************************)
(* How much is left to do: each token may be entered once, and each call   *)
(* that was entered returns once.                                          *)
(***************************************************************************)
Measure == 2 * (Len(msg.toks) + 1 - at) + Len(frames)

LEMMA MeasureIsNatural ==
  ASSUME IInv
  PROVE  Measure \in Nat
<1>1. at \in 1..Len(msg.toks) + 1 /\ Len(msg.toks) \in Nat /\ Len(frames) \in Nat
  <2>1. WellTyped
    BY DEF IInv
  <2>2. frames \in Seq(FrameType(msg))
    BY <2>1 DEF WellTyped, TypeOK
  <2>3. Len(frames) \in Nat
    BY <2>2
  <2>4. at \in 1..Len(msg.toks) + 1
    BY <2>1 DEF WellTyped, TypeOK
  <2> QED BY <2>1, <2>3, <2>4, TheMessage
<1> QED BY <1>1 DEF Measure

LEMMA StepAdvances ==
  ASSUME IInv, Next
  PROVE  Measure' \in Nat /\ Measure' < Measure
<1> DEFINE N == Len(msg.toks)
           n == Len(frames)
<1>1. /\ WellTyped /\ OpenIsAround /\ WellTyped'
      /\ msg' = msg /\ IsMessage(msg)
  <2>1. IInv'
    BY NextIInv
  <2>2. msg' = msg
    BY DEF Next, Begin, NextElement, EnterElement, EndContainer, ReturnError
  <2> QED BY <2>1, <2>2, TheMessage DEF IInv
<1>2. /\ N \in Nat /\ n \in Nat /\ Len(frames') \in Nat
      /\ at \in 1..N + 1 /\ at' \in 1..N + 1
  <2>1. frames \in Seq(FrameType(msg)) /\ frames' \in Seq(FrameType(msg'))
    BY <1>1 DEF WellTyped, TypeOK
  <2>2. n \in Nat /\ Len(frames') \in Nat
    BY <2>1
  <2>3. at \in 1..N + 1 /\ at' \in 1..N + 1
    BY <1>1 DEF WellTyped, TypeOK
  <2> QED BY <1>1, <2>2, <2>3, TheMessage
<1>3. Measure = 2 * (N + 1 - at) + n /\ Measure' = 2 * (N + 1 - at') + Len(frames')
  BY <1>1 DEF Measure
<1>4. SUFFICES \/ at' > at /\ Len(frames') <= n + 1
               \/ at' = at /\ Len(frames') < n
  <2> HIDE DEF N, n
  <2> QED BY <1>2, <1>3
<1>5. ASSUME status = "running"
      PROVE  /\ at \in Tokens(msg) /\ After(msg, at) > at
             /\ frames # << >> /\ frames \in Seq(FrameType(msg))
  <2>1. at \in Tokens(msg) /\ frames # << >>
    BY <1>1, <1>5, Innermost
  <2>2. msg.last[at] \in Tokens(msg) /\ msg.last[at] >= at
    BY <1>1, <2>1, TokenFacts
  <2>3. After(msg, at) > at
    <3> HIDE DEF N, n
    <3> QED BY <2>1, <2>2 DEF After, Tokens
  <2> QED BY <1>1, <2>1, <2>3 DEF WellTyped, TypeOK
<1>6. CASE Begin
  <2>1. at = 1 /\ frames = << >>
    BY <1>1, <1>6 DEF WellTyped, Fresh, Begin
  <2>2. CASE Opens
    <3>1. at' = 2 /\ frames' = <<Frame(Enter(msg.kind), 1)>>
      BY <1>6, <2>2 DEF Begin
    <3>2. Len(frames') = 1 /\ n = 0
      BY <2>1, <3>1
    <3> QED BY <2>1, <3>1, <3>2
  <2>3. CASE ~Opens
    <3>1. at' = After(msg, 1) /\ frames' = frames
      BY <1>6, <2>3 DEF Begin
    <3>2. 1 \in Tokens(msg) /\ msg.last[1] \in Tokens(msg) /\ msg.last[1] >= 1
      BY <1>1, TheMessage, TokenFacts
    <3>3. at' > at
      BY <2>1, <3>1, <3>2 DEF After, Tokens
    <3> QED BY <1>2, <3>1, <3>3
  <2> QED BY <2>2, <2>3
<1>7. CASE NextElement
  <2>1. at' = After(msg, at) /\ status = "running"
    BY <1>7 DEF NextElement, OnElement
  <2>2. Len(frames') = n
    <3>1. ShowsIt \/ FailsOn \/ ThrowsOn
      BY <1>1, <1>7, ElementEffect
    <3>2. CASE frames' = frames
      BY <3>2
    <3>3. CASE \E ids \in IdsType(msg) : frames' = Remembers(ids)
      BY <1>5, <2>1, <3>3 DEF Remembers
    <3> QED BY <3>1, <3>2, <3>3 DEF ShowsIt, FailsOn, ThrowsOn
  <2> QED BY <1>2, <1>5, <2>1, <2>2
<1>8. CASE EnterElement
  <2>1. status = "running"
    BY <1>8 DEF EnterElement, OnElement
  <2>2. CASE at' = After(msg, at) /\ frames' = frames
    BY <1>2, <1>5, <2>1, <2>2
  <2>3. CASE at' = at + 1 /\ \E fr : frames' = Append(frames, fr)
    <3>1. Len(frames') = n + 1
      <4>1. PICK fr : frames' = Append(frames, fr)
        BY <2>3
      <4> QED BY <1>5, <2>1, <4>1
    <3> QED BY <1>2, <2>3, <3>1
  <2>4. \/ at' = After(msg, at) /\ frames' = frames
        \/ at' = at + 1 /\ \E fr : frames' = Append(frames, fr)
    BY <1>8 DEF EnterElement, FailsToEnter
  <2> QED BY <2>2, <2>3, <2>4
<1>9. CASE EndContainer
  <2>1. at' = at + 1 /\ frames' = Rest(frames) /\ status = "running"
    BY <1>9 DEF EndContainer, OnEnd
  <2>2. Len(frames') = n - 1
    BY <1>5, <2>1, RestOf
  <2> QED BY <1>2, <2>1, <2>2
<1>10. CASE ReturnError
  <2>1. at' = at /\ frames' = Rest(frames) /\ status = "failing"
    BY <1>10 DEF ReturnError
  <2>2. frames # << >> /\ frames \in Seq(FrameType(msg))
    BY <1>1, <2>1, Innermost DEF WellTyped, TypeOK
  <2>3. Len(frames') = n - 1
    BY <2>1, <2>2, RestOf
  <2> QED BY <1>2, <2>1, <2>3
<1> QED BY <1>6, <1>7, <1>8, <1>9, <1>10 DEF Next

(***************************************************************************)
(* Every step of a dissection, those of a failure that is returned from    *)
(* call to call included, leaves less to do, and never less than nothing:  *)
(* no message makes Next, EnterContainer, ExitContainer and the returns    *)
(* go on for more than twice as many steps as it has tokens.               *)
(***************************************************************************)
Advances == Measure \in Nat /\ Measure' \in Nat /\ Measure' < Measure

THEOREM EveryStepAdvances == Spec => [][Advances]_vars
<1>1. IInv /\ [Next]_vars => [Advances]_vars
  BY MeasureIsNatural, StepAdvances DEF Advances
<1> QED BY <1>1, Inductive, PTL DEF Spec
=============================================================================
