------------------------- MODULE ConformingMessages -------------------------
(***************************************************************************)
(* The dissection of the messages that Matter defines.                     *)
(***************************************************************************)
EXTENDS MessageDissector, MatterSchema

(***************************************************************************)
(* Four things that Matter defines and the dissectors do not show.         *)
(***************************************************************************)
HasEvents(m) == \E i \in Tokens(m) : Shapes(m)[i] = "EventReportIB"

HasWrites(m) == \E i \in Tokens(m) : Shapes(m)[i] \in {"WriteRequests", "WriteResponses"}

HasWildcardPath(m) ==
  \E i \in Tokens(m) : /\ Shapes(m)[i] \in {"AttributePathIB", "EventPathIB", "ClusterPathIB", "CommandPathIB"}
                       /\ MembersOf(m, i) = {}

\* Fields of a command are not preceded by the ids of its cluster and of itself.
NamesCommand(m, p) == \A num \in {1, 2} : \E j \in MembersOf(m, p) : Tok(m, j).num = num

HasUnnamedFields(m) ==
  \E i \in Tokens(m) : /\ Shapes(m)[i] = "CommandDataIB"
                       /\ \E j \in MembersOf(m, i) :
                            /\ Tok(m, j).num = 1
                            /\ \A p \in MembersOf(m, i) : p < j /\ Tok(m, p).num = 0 => ~NamesCommand(m, p)

HasUnshown(m) == HasEvents(m) \/ HasWrites(m) \/ HasWildcardPath(m) \/ HasUnnamedFields(m)

(***************************************************************************)
(* Every other message that Matter defines is dissected to its end,        *)
(* without an error of a dissector or an exception of Wireshark.           *)
(***************************************************************************)
ConformingShown ==
  Conforms(msg) /\ ~HasUnshown(msg) =>
    /\ status \notin {"error", "exception", "failing"}
    /\ status = "done" => at = Len(msg.toks) + 1
=============================================================================
