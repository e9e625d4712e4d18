--------------------------- MODULE DissectorRules ---------------------------
(***************************************************************************)
(* What a dissector does with one element of the container it reads.       *)
(***************************************************************************)
EXTENDS TLVMessage

NoIds == <<0, 0>>   \* the elements that hold the cluster and the item of a path

\* field is what the field of Wireshark it is shown in was registered for: the
\* type of a value, "string", or "none".  orElse is what the caller does when
\* what it called fails, and after what it does when that returns.
RuleOf(do, arg) == [do |-> do, arg |-> arg, field |-> "string", ids |-> NoIds,
                    orElse |-> "fail", after |-> "return"]

Reject == RuleOf("reject", "none")
Text   == RuleOf("text", "none")                  \* AddStringItemF, AddSubTreeItem
Typed(type)  == [RuleOf("typed", "none") EXCEPT !.field = type]
Generic      == RuleOf("generic", "none")         \* in a field for strings
GenericInNone == [Generic EXCEPT !.field = "none"]
Named(what, ids) == [RuleOf("named", what) EXCEPT !.ids = ids]
Path(kind)   == RuleOf("path", kind)
Enter(h)     == RuleOf("enter", h)
EnterWith(h, ids) == [Enter(h) EXCEPT !.ids = ids]
OrGeneric(r) == [r EXCEPT !.orElse = "generic"]
ThenGeneric(r) == [r EXCEPT !.after = "generic"]
Leave        == RuleOf("leave", "none")           \* enters the element and exits it

Contextual(t, r) == IF t.tag = "context" THEN r ELSE Reject
ContextualOr(t, other, r) == IF t.tag = "context" THEN r ELSE other

Strict(t, type) == IF t.type = type THEN Typed(type) ELSE Reject
ListOr(t, h) == IF t.type \in {"array", "path"} THEN Enter(h) ELSE GenericInNone
UIntOrGeneric(t) == IF t.type = "uint" THEN Text ELSE Generic
=============================================================================
