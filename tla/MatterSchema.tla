---------------------------- MODULE MatterSchema ----------------------------
(***************************************************************************)
(* The messages that Matter defines: what may be in them, as the comments  *)
(* on the tags of the interaction model and on the handshakes say, and the *)
(* fields that are registered for user directed commissioning.             *)
(***************************************************************************)
EXTENDS TLVMessage

\* An element with a context tag: its number, its type, and for a container
\* the shape of what is in it.  In "any" there may be anything.
In(num, type, shape) == [num |-> num, type |-> type, shape |-> shape]
Of(num, type) == In(num, type, "none")

InteractionModelRevision == Of(255, "uint")

RequestPaths(attributes, events, filters, versions) ==
  {In(attributes, "array", "AttributePaths"), In(events, "array", "EventPaths"),
   In(filters, "array", "EventFilters"), In(versions, "array", "DataVersionFilters")}

OfInteractionModel ==
  [StatusResponse    |-> {Of(0, "uint")},
   ReadRequest       |-> RequestPaths(0, 1, 2, 4) \cup {Of(3, "bool")},
   ReportData        |-> {Of(0, "uint"), In(1, "array", "AttributeReports"), In(2, "array", "EventReports"),
                          Of(3, "bool"), Of(4, "bool")},
   SubscribeRequest  |-> RequestPaths(3, 4, 5, 8) \cup {Of(0, "bool"), Of(1, "uint"), Of(2, "uint"), Of(7, "bool")},
   SubscribeResponse |-> {Of(0, "uint"), Of(2, "uint")},
   WriteRequest      |-> {Of(0, "bool"), Of(1, "bool"), In(2, "array", "WriteRequests"), Of(3, "bool")},
   WriteResponse     |-> {In(0, "array", "WriteResponses")},
   CommandRequest    |-> {Of(0, "bool"), Of(1, "bool"), In(2, "array", "CommandList")},
   CommandResponse   |-> {Of(0, "bool"), In(1, "array", "InvokeResponses")},
   TimedRequest      |-> {Of(0, "uint")}]

MRPParameters == {Of(1, "uint"), Of(2, "uint")}

OfHandshakes ==
  [PBKDFParamRequest  |-> {Of(1, "bytes"), Of(2, "uint"), Of(3, "uint"), Of(4, "bool"),
                           In(5, "structure", "MRPParameters")},
   PBKDFParamResponse |-> {Of(1, "bytes"), Of(2, "bytes"), Of(3, "uint"),
                           In(4, "structure", "PBKDFParameters"), In(5, "structure", "MRPParameters")},
   PasePake1          |-> {Of(1, "bytes")},
   PasePake2          |-> {Of(1, "bytes"), Of(2, "bytes")},
   PasePake3          |-> {Of(1, "bytes")},
   CaseSigma1         |-> {Of(n, "bytes") : n \in {1, 3, 4, 6, 7}}
                          \cup {Of(2, "uint"), In(5, "structure", "MRPParameters")},
   CaseSigma2         |-> {Of(n, "bytes") : n \in {1, 3, 4}}
                          \cup {Of(2, "uint"), In(5, "structure", "MRPParameters")},
   CaseSigma3         |-> {Of(1, "bytes")},
   CaseSigma2Resume   |-> {Of(1, "bytes"), Of(2, "bytes"), Of(3, "uint"), In(4, "structure", "MRPParameters")},
   MRPParameters      |-> MRPParameters,
   PBKDFParameters    |-> {Of(1, "uint"), Of(2, "bytes")}]

OfUserDirected ==
  [IdentificationDeclaration |-> {Of(n, "uint") : n \in {1, 2, 4, 6, 8, 18}} \cup {Of(n, "utf8") : n \in {3, 5}}
                                 \cup {Of(n, "bool") : n \in 13..17}
                                 \cup {Of(7, "bytes"), In(9, "array", "TargetApps")},
   TargetApp                 |-> {Of(11, "uint"), Of(12, "uint")}]

InformationBlocks ==
  [AttributePathIB     |-> {Of(n, "uint") : n \in 2..4},
   EventPathIB         |-> {Of(n, "uint") : n \in 1..3},
   ClusterPathIB       |-> {Of(n, "uint") : n \in 1..2},
   CommandPathIB       |-> {Of(n, "uint") : n \in 0..2},
   EventFilterIB       |-> {Of(0, "uint"), Of(1, "uint")},
   DataVersionFilterIB |-> {In(0, "path", "ClusterPathIB"), Of(1, "uint")},
   AttributeReportIB   |-> {In(0, "structure", "AttributeStatusIB"), In(1, "structure", "AttributeDataIB")},
   AttributeStatusIB   |-> {In(0, "path", "AttributePathIB"), In(1, "structure", "StatusIB")},
   AttributeDataIB     |-> {Of(0, "uint"), In(1, "path", "AttributePathIB")}
                           \cup {In(2, type, "any") : type \in Scalars \cup Containers},
   EventReportIB       |-> {In(0, "structure", "any"), In(1, "structure", "any")},
   CommandDataIB       |-> {In(0, "path", "CommandPathIB"), In(1, "structure", "any")},
   InvokeResponseIB    |-> {In(0, "structure", "CommandDataIB"), In(1, "structure", "CommandStatusIB")},
   CommandStatusIB     |-> {In(0, "path", "CommandPathIB"), In(1, "structure", "StatusIB"), Of(2, "uint")},
   StatusIB            |-> {Of(0, "uint"), Of(1, "uint")}]

\* The type and the shape of the elements of an array.
Elements ==
  [AttributePaths     |-> <<"path", "AttributePathIB">>,
   EventPaths         |-> <<"path", "EventPathIB">>,
   EventFilters       |-> <<"structure", "EventFilterIB">>,
   DataVersionFilters |-> <<"structure", "DataVersionFilterIB">>,
   AttributeReports   |-> <<"structure", "AttributeReportIB">>,
   EventReports       |-> <<"structure", "EventReportIB">>,
   WriteRequests      |-> <<"structure", "AttributeDataIB">>,
   WriteResponses     |-> <<"structure", "AttributeStatusIB">>,
   CommandList        |-> <<"structure", "CommandDataIB">>,
   InvokeResponses    |-> <<"structure", "InvokeResponseIB">>,
   TargetApps         |-> <<"structure", "TargetApp">>]

FieldsIn(shape) ==
  CASE shape \in DOMAIN OfInteractionModel -> OfInteractionModel[shape] \cup {InteractionModelRevision}
    [] shape \in DOMAIN OfHandshakes       -> OfHandshakes[shape]
    [] shape \in DOMAIN OfUserDirected     -> OfUserDirected[shape]
    [] shape \in DOMAIN InformationBlocks  -> InformationBlocks[shape]
    [] OTHER                               -> {}

\* The shape that an element with the token t has in one of this shape.
ShapeIn(shape, t) ==
  LET fits == {f \in FieldsIn(shape) : t.tag = "context" /\ f.num = t.num /\ f.type = t.type}
  IN  CASE shape = "any" -> "any"
        [] shape \in DOMAIN Elements ->
             IF t.tag = "anonymous" /\ t.type = Elements[shape][1] THEN Elements[shape][2] ELSE "wrong"
        [] OTHER -> IF fits = {} THEN "wrong" ELSE (CHOOSE f \in fits : TRUE).shape

Shapes(m) ==
  LET shape[i \in 1..Len(m.toks)] ==
        IF i = 1 THEN m.kind
        ELSE IF m.toks[i].type = "end" THEN "none" ELSE ShapeIn(shape[m.parent[i]], m.toks[i])
  IN  shape

Conforms(m) ==
  /\ Tok(m, 1).type = "structure" /\ Tok(m, 1).tag = "anonymous"
  /\ LET shapes == Shapes(m) IN \A i \in 1..Len(m.toks) : shapes[i] # "wrong"
=============================================================================
