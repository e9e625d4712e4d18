------------------------------- MODULE IMRules -------------------------------
(***************************************************************************)
(* The dissectors of the interaction model, each as what it does with an   *)
(* element t of the container that it reads.  A dissector of a list does   *)
(* the same with every element; ids is what the dissector remembers of a   *)
(* path that it has seen.                                                  *)
(***************************************************************************)
EXTENDS DissectorRules

CONSTANT KnownFields   \* tags of fields that the generated tables name

(***************************************************************************)
(* Messages.                                                               *)
(***************************************************************************)
StatusResponse(t) == Contextual(t, Generic)

ReadRequest(t) ==
  Contextual(t, CASE t.num = 0 -> ListOr(t, "AttributePaths")
                  [] t.num = 1 -> ListOr(t, "EventPaths")
                  [] t.num = 2 -> ListOr(t, "EventFilters")
                  [] t.num = 4 -> ListOr(t, "DataVersionFilters")
                  [] OTHER     -> Generic)

ReportData(t) ==
  Contextual(t, CASE t.num = 1 -> ListOr(t, "AttributeReports")
                  [] t.num = 2 -> ListOr(t, "EventReports")
                  [] OTHER     -> Generic)

SubscribeRequest(t) ==
  Contextual(t, CASE t.num = 3 -> ListOr(t, "AttributePaths")
                  [] t.num = 4 -> ListOr(t, "EventPaths")
                  [] t.num = 5 -> ListOr(t, "EventFilters")
                  [] t.num = 8 -> ListOr(t, "DataVersionFilters")
                  [] OTHER     -> Generic)

SubscribeResponse(t) == Contextual(t, Generic)

\* After the list, AddGenericTLVItem is called for it once more.
WriteRequest(t) ==
  Contextual(t, IF t.num = 2 THEN ThenGeneric(ListOr(t, "WriteRequests")) ELSE Generic)

WriteResponse(t) ==
  Contextual(t, IF t.num = 0 THEN ThenGeneric(ListOr(t, "WriteResponses")) ELSE Generic)

CommandRequest(t) ==
  Contextual(t, CASE t.num \in {0, 1} -> Strict(t, "bool")
                  [] t.num = 2 -> IF t.type = "array" THEN Enter("CommandList") ELSE Reject
                  [] OTHER     -> Generic)

CommandResponse(t) ==
  Contextual(t, IF t.num # 1 THEN Generic
                ELSE IF t.type = "array" THEN Enter("InvokeResponses") ELSE Reject)

TimedRequest(t) == Contextual(t, IF t.num = 0 THEN Typed("uint") ELSE Generic)
-----------------------------------------------------------------------------
(***************************************************************************)
(* Information blocks.                                                     *)
(***************************************************************************)
EventFilterIB(t) == ContextualOr(t, Generic, IF t.num \in {0, 1} THEN UIntOrGeneric(t) ELSE Generic)

DataVersionFilterIB(t) ==
  ContextualOr(t, Generic, CASE t.num = 0 -> OrGeneric(Path("Cluster"))
                             [] t.num = 1 -> UIntOrGeneric(t)
                             [] OTHER     -> Generic)

StatusIB(t) == ContextualOr(t, Generic, IF t.num \in {0, 1} THEN Typed("uint") ELSE Generic)

\* A block in a block, which has no context tag, is tried as one of its kind.
Nested(t, h) == IF t.type = "structure" THEN OrGeneric(Enter(h)) ELSE Generic

AttributeStatusIB(t) ==
  ContextualOr(t, Nested(t, "AttributeStatusIB"),
    CASE t.num = 0 -> OrGeneric(Path("Attribute"))
      [] t.num = 1 -> IF t.type = "structure" THEN Enter("StatusIB") ELSE Generic
      [] OTHER     -> Generic)

\* DetectAttributeIBKind reads what is in a nested block and leaves it, and no
\* dissector finds an element then.
AttributeReportIB(t) ==
  ContextualOr(t, IF t.type = "structure" THEN Leave ELSE Generic,
    CASE t.num = 0 -> IF t.type = "structure" THEN Enter("AttributeStatusIB") ELSE Generic
      [] t.num = 1 -> IF t.type = "structure" THEN Enter("AttributeDataIB") ELSE Generic
      [] OTHER     -> Generic)

\* Mutation: fields are named although there was no path.
AttributeValueWithoutPath(t, ids) ==
  IF t.type = "structure" THEN EnterWith("AttributeStruct", ids) ELSE Named("AttributeValue", ids)

AttributeValue(t, ids) ==
  CASE ids # NoIds /\ t.type = "structure"       -> EnterWith("AttributeStruct", ids)
    [] ids # NoIds /\ t.type \in {"uint", "sint"} -> Named("AttributeValue", ids)
    [] OTHER                                     -> Named("Value", NoIds)

AttributeDataIB(t, ids) ==
  ContextualOr(t, Nested(t, "AttributeDataIB"),
    CASE t.num = 0 -> UIntOrGeneric(t)
      [] t.num = 1 -> OrGeneric(Path("AttributeIds"))
      [] t.num = 2 -> AttributeValue(t, ids)
      [] OTHER     -> Generic)

\* AddNamedStructItem for events.  Of a path or a structure the ids of an event
\* are read first, which leaves the element; neither AddNamedPathItem nor
\* AddSubTreeItem nor AddGenericTLVItem finds one then.
EventReportIB(t) == IF t.type \in {"path", "structure"} THEN Leave ELSE GenericInNone

\* CommandDataIB in a request or in a response.
CommandDataIB(t, ids, fields) ==
  Contextual(t,
    CASE t.num = 0 -> IF t.type \in {"path", "structure"} THEN Path("CommandIds") ELSE Reject
      [] t.num = 1 -> IF ids # NoIds /\ t.type = "structure" THEN EnterWith(fields, ids) ELSE GenericInNone
      [] OTHER     -> Generic)

\* Mutation: a status that is not as it should be is shown as any structure is.
CommandStatusIBOrGeneric(t) ==
  Contextual(t, CASE t.num = 0 -> Path("Command")
                  [] t.num = 1 -> OrGeneric(Enter("StatusIB"))
                  [] t.num = 2 -> Typed("uint")
                  [] OTHER     -> Generic)

CommandStatusIB(t) ==
  Contextual(t, CASE t.num = 0 -> Path("Command")
                  [] t.num = 1 -> Enter("StatusIB")
                  [] t.num = 2 -> Typed("uint")
                  [] OTHER     -> Generic)

InvokeResponseIB(t) ==
  Contextual(t, IF t.num \notin {0, 1} THEN Generic
                ELSE IF t.type # "structure" THEN Reject
                ELSE Enter(IF t.num = 0 THEN "CommandDataOfResponse" ELSE "CommandStatusIB"))

\* The fields of a command, of its response, or of an attribute that is a structure.
FieldOf(t, fields, ids) ==
  ContextualOr(t, Generic, IF t.num \in KnownFields THEN Named(fields, ids) ELSE Generic)

(***************************************************************************)
(* The ids in a path.                                                      *)
(***************************************************************************)
\* The tags of the endpoint, the cluster and the item.
PathTags(kind) ==
  CASE kind \in {"Command", "CommandIds"}     -> <<0, 1, 2>>
    [] kind \in {"Attribute", "AttributeIds"} -> <<2, 3, 4>>
    [] kind = "Event"                         -> <<1, 2, 3>>
    [] kind = "Cluster"                       -> <<1, 2>>

Extracts(kind) == kind \in {"CommandIds", "AttributeIds"}

\* The elements of path i of message m that may hold part k of it.
PathParts(m, i, kind, k) ==
  {j \in MembersOf(m, i) : /\ Tok(m, j).tag = "context" /\ Tok(m, j).num = PathTags(kind)[k]
                           /\ Tok(m, j).type = "uint"}

\* AddNamedPathItem takes the first, Add...PathItemAndExtractIds the last one.
PathPart(m, i, kind, k) ==
  LET parts == PathParts(m, i, kind, k)
  IN  IF parts = {} THEN 0 ELSE IF Extracts(kind) THEN Greatest(parts) ELSE Least(parts)

HasPathPart(m, i, kind) == \E k \in DOMAIN PathTags(kind) : PathPart(m, i, kind, k) # 0

\* found is set only if both are there.
IdsOf(m, i, kind, ids) ==
  LET cluster == PathPart(m, i, kind, 2)   item == PathPart(m, i, kind, 3)
  IN  IF Extracts(kind) /\ cluster # 0 /\ item # 0 THEN <<cluster, item>> ELSE ids
=============================================================================
