----------------------------- MODULE TLVDissector -----------------------------
(***************************************************************************)
(* TLVDissector: a TLVReader that knows where its element starts and ends  *)
(* in the message, which item of Wireshark's tree stands for it, and which *)
(* containers it has entered, under calls in any order that a dissector of *)
(* a message may make: it gives up at the first error, except for the end  *)
(* of a container, and leaves only containers that it entered.             *)
(***************************************************************************)
EXTENDS TLVReader

CONSTANTS
  Documents,       \* the documents that may be dissected
  Expected,        \* pairs of a type and a tag, to expect of the next element
  FirstStackSize,  \* containers that the first allocated stack holds
  MaxCalls         \* bound on the calls on one document

ASSUME DocumentsAssumption == \A x \in Documents : IsDocument(x)
ASSUME StackAssumption == FirstStackSize \in Nat \ {0}
ASSUME CallsAssumption == MaxCalls \in Nat

VARIABLES
  call,     \* the last call
  calls,    \* how many there were
  d,        \* the dissector
  err,      \* what the last call returned
  shown,    \* the items that it added, with their depth of indentation
  task,     \* the call that is showing members of containers, if there is one
  within    \* how many containers it has entered and not left

vars == <<doc, call, calls, d, err, shown, task, within>>

Idle == "none"

NoItem == [start |-> 0, len |-> 0, added |-> FALSE]

\* An item stands for the bytes that it was added for.
Item(x) == [start |-> x.start, len |-> x.len, added |-> TRUE]

InitDissector ==
  [reader |-> InitReader, start |-> 0, len |-> 0, item |-> NoItem, stack |-> << >>, room |-> 0]

WithReader(x, r) == [x EXCEPT !.reader = r]

\* Continue with the dissector x and what became of its reader.
Reading(x, o, Continue(_)) ==
  IF o.err = NoError THEN Continue(WithReader(x, o.val)) ELSE Outcome(WithReader(x, o.val), o.err)

MarkElemStart(x) == [x EXCEPT !.start = x.reader.at]

\* A copy of the reader skips the element; the reader stays.
MarkElemLength(x) ==
  LET o == Skip(x.reader)
  IN  IF o.err = NoError THEN OK([x EXCEPT !.len = o.val.at - x.start]) ELSE Outcome(x, o.err)

NextBy(x, Advance(_)) ==
  Reading([x EXCEPT !.item = NoItem], Skip(x.reader), LAMBDA y :
    Reading(MarkElemStart(y), Advance(y.reader), LAMBDA z : MarkElemLength(z)))

\* Mutation: the item of the element before is kept.
NextKeepingItem(x) == LET o == NextBy(x, ReaderNext) IN [o EXCEPT !.val.item = x.item]

DissectorNext(x) == NextBy(x, ReaderNext)
DissectorNextOf(x, type, tag) == NextBy(x, LAMBDA r : ReaderNextOf(r, type, tag))

\* Mutation: a full stack is not enlarged.
RoomForOne(x) == IF x.room = 0 THEN FirstStackSize ELSE x.room

Room(x) ==
  IF x.room = 0 THEN FirstStackSize
  ELSE IF x.room = Len(x.stack) THEN 2 * x.room ELSE x.room

\* The container that is entered, and the type of the one that it is in.
PushContainer(x, type) ==
  [x EXCEPT !.room = Room(x),
            !.stack = Append(x.stack, [outer |-> type, item |-> x.item, start |-> x.start, len |-> x.len])]

\* Mutation: the extent of the container is not restored.
PopContainerType(x) == [x EXCEPT !.stack = SubSeq(x.stack, 1, Len(x.stack) - 1)]

PopContainer(x) ==
  LET c == x.stack[Len(x.stack)]
  IN  [x EXCEPT !.stack = SubSeq(x.stack, 1, Len(x.stack) - 1),
                !.item = c.item, !.start = c.start, !.len = c.len]

DissectorEnter(x) ==
  Reading(x, EnterContainer(x.reader), LAMBDA y : OK(PushContainer(y, x.reader.container)))

DissectorExit(x) ==
  Reading(PopContainer(x), ExitContainer(x.reader, x.stack[Len(x.stack)].outer), LAMBDA y : OK(y))
-----------------------------------------------------------------------------
(***************************************************************************)
(* What is displayed.  These operators return [val, err, shown].           *)
(***************************************************************************)
Line(x, depth) == [start |-> x.start, len |-> x.len, depth |-> depth]

AddItem(x) == [x EXCEPT !.item = Item(x)]

Showing(o, lines) == [val |-> o.val, err |-> o.err, shown |-> lines]

\* An integer is refused if the field that the caller names is of no integer type
\* of its sign: fits says whether a number is of this kind.  (Other values make
\* Wireshark throw if the field is of another type, and no call follows.)
AddTypedItem(x, fits) ==
  IF x.reader.elem.type = "number" /\ ~ fits THEN Showing(Outcome(x, "INVALID_ARGUMENT"), << >>)
  ELSE LET o == Reading(x, GetValue(x.reader), LAMBDA y : OK(AddItem(y)))
       IN  Showing(o, IF o.err = NoError THEN <<Line(x, 0)>> ELSE << >>)

AddSubTreeItem(x) ==
  IF x.reader.elem.type \in {"none", "end"} THEN Showing(Outcome(x, "INCORRECT_STATE"), << >>)
  ELSE Showing(OK(AddItem(x)), <<Line(x, 0)>>)

\* Nothing was written to the text of the element: no indentation, which nested
\* elements have, no tag, and no bytes.
HasNoText(x, depth, suppressTag) ==
  LET e == x.reader.elem
  IN  depth = 0 /\ (suppressTag \/ e.tag = "anonymous") /\ e.type = "bytes" /\ e.len = 0

\* AddGenericTLVItem up to the first member of a container.  The text is emptied
\* after it was shown, even if there is no buffer with it.
AddGenericTLVItem(x, depth, suppressTag) ==
  LET o == IF IsOnContainer(x.reader) THEN DissectorEnter(AddItem(x))
           ELSE Reading(x, GetValue(x.reader), LAMBDA y : OK(AddItem(y)))
  IN  IF o.err # NoError THEN Showing(o, << >>)
      ELSE IF HasNoText(x, depth, suppressTag) THEN Showing(Outcome(o.val, Crash), <<Line(x, depth)>>)
      ELSE Showing(o, <<Line(x, depth)>>)

\* AddListItem up to the first member, with AddGenericTLVItem in the place of the
\* handlers of elements.
AddListItem(x) ==
  IF x.reader.elem.type \notin {"array", "path"} THEN Showing(Outcome(x, "INCORRECT_STATE"), << >>)
  ELSE Showing(DissectorEnter(AddItem(x)), <<Line(x, 0)>>)

\* Mutation: the container is left without its stack.
LeaveWithoutStack(x, depth) ==
  LET o == Reading(x, ExitContainer(x.reader, x.stack[Len(x.stack)].outer), LAMBDA y : OK(y))
  IN  IF o.err # NoError \/ depth < 0 THEN Showing(o, << >>)
      ELSE Showing(OK(AddItem(o.val)), <<Line(o.val, depth)>>)

\* The container ends and is left.  A list has no line for it.
LeaveContainer(x, depth) ==
  LET o == DissectorExit(x)
  IN  IF o.err # NoError \/ depth < 0 THEN Showing(o, << >>)
      ELSE Showing(OK(AddItem(o.val)), <<Line(o.val, depth)>>)
-----------------------------------------------------------------------------
Init ==
  /\ doc \in Documents
  /\ call = [op |-> "Init"] /\ calls = 0
  /\ d = InitDissector /\ err = NoError /\ shown = << >>
  /\ task = Idle /\ within = 0

\* A dissector goes on after success, and at the end of a container leaves it.
MayCall(op) ==
  /\ task = Idle /\ calls < MaxCalls
  /\ err = NoError \/ (err = EndOfTLV /\ call.op = "Next" /\ op = "Exit")

Called(c, o) ==
  /\ MayCall(c.op)
  /\ call' = c /\ calls' = calls + 1
  /\ d' = o.val /\ err' = o.err /\ UNCHANGED <<doc, task, within>>

\* The call op goes on in n containers, or returns if it is in none or has failed.
GoesOn(op, o, n) ==
  /\ d' = o.val /\ err' = o.err /\ UNCHANGED doc
  /\ IF o.err = NoError /\ n > 0 THEN task' = op /\ within' = n /\ UNCHANGED call
     ELSE task' = Idle /\ within' = 0 /\ call' = [op |-> op]

Shows(op, o) ==
  /\ MayCall(op) /\ calls' = calls + 1 /\ shown' = o.shown
  /\ GoesOn(op, o, IF IsOnContainer(d.reader) THEN 1 ELSE 0)

\* The elements of a list are not indented.
MemberDepth == IF task = "List" THEN within - 1 ELSE within

\* A turn of the loop over the members of the innermost container entered.
ShowMember ==
  LET o == DissectorNext(d)
      p == IF o.err = EndOfTLV THEN LeaveContainer(o.val, MemberDepth - 1)
           ELSE IF o.err # NoError THEN Showing(o, << >>)
           ELSE AddGenericTLVItem(o.val, MemberDepth, FALSE)
  IN  /\ task # Idle /\ UNCHANGED calls
      /\ shown' = shown \o p.shown
      /\ GoesOn(task, p, IF o.err = EndOfTLV THEN within - 1
                         ELSE IF IsOnContainer(o.val.reader) THEN within + 1 ELSE within)

Next ==
  \/ Called([op |-> "Next"], DissectorNext(d)) /\ shown' = << >>
  \/ Called([op |-> "Enter"], DissectorEnter(d)) /\ shown' = << >>
  \/ d.stack # << >> /\ Called([op |-> "Exit"], DissectorExit(d)) /\ shown' = << >>
  \/ \E e \in Expected :
       /\ Called([op |-> "NextOf", type |-> e[1], tag |-> e[2]], DissectorNextOf(d, e[1], e[2]))
       /\ shown' = << >>
  \/ \E fits \in BOOLEAN :
       LET o == AddTypedItem(d, fits)
       IN  Called([op |-> "AddTyped", fits |-> fits], o) /\ shown' = o.shown
  \/ LET o == AddSubTreeItem(d) IN Called([op |-> "AddSubTree"], o) /\ shown' = o.shown
  \/ \E suppressTag \in BOOLEAN : Shows("Generic", AddGenericTLVItem(d, 0, suppressTag))
  \/ Shows("List", AddListItem(d))
  \/ ShowMember

Spec == Init /\ [][Next]_vars
-----------------------------------------------------------------------------
(***************************************************************************)
(* Properties.                                                             *)
(***************************************************************************)
ItemType == [start : Nat, len : Nat, added : BOOLEAN]

\* Every variable has its type; the stack has room for what is on it.
TypeOK ==
  /\ calls \in 0..MaxCalls /\ err \in Errors
  /\ d.reader \in ReaderType /\ d.item \in ItemType
  /\ d.start \in 0..doc.len /\ d.len \in 0..doc.len
  /\ \A k \in 1..Len(d.stack) :
       /\ d.stack[k].outer \in ContainerTypes \ {"unknown"} /\ d.stack[k].item \in ItemType
       /\ d.stack[k].start + d.stack[k].len <= doc.len
  /\ Len(d.stack) <= d.room
  /\ task \in {Idle, "Generic", "List"} /\ within \in 0..Len(d.stack)

TokenAt(p) == CHOOSE i \in 1..Len(doc.toks) : doc.start[i] = p

(***************************************************************************)
(* ElemStart and ElemLength are those of one whole element, through nested *)
(* containers, skipped or shown or left in the middle: what is highlighted *)
(* in the bytes of the message is what the item says.                      *)
(***************************************************************************)
ExtentsAreElements ==
  err = NoError /\ d.len > 0 =>
    /\ d.start \in {doc.start[i] : i \in 1..Len(doc.toks)}
    /\ Complete(doc, TokenAt(d.start))
    /\ [start |-> d.start, len |-> d.len] = Extent(doc, TokenAt(d.start))

(***************************************************************************)
(* LastItem is the item of the element that the dissector is on or has     *)
(* just entered or left; text that is appended to it belongs there.        *)
(***************************************************************************)
LastItemIsOfElement ==
  err = NoError /\ d.item.added => d.item.start = d.start /\ d.item.len = d.len

(***************************************************************************)
(* AddGenericTLVItem shows every element in the one it is given, in order, *)
(* with its own bytes and at its own depth, and a closing bracket for each *)
(* container with the bytes of the container.  So does AddListItem, with   *)
(* the list as the parent of its elements.                                 *)
(***************************************************************************)
Closed(k) == CHOOSE i \in 1..k - 1 : IsContainer(doc, i) /\ LastToken(doc, i) = k

TokenLine(i, k) ==
  LET e == IF doc.toks[k].type = "end" THEN Extent(doc, Closed(k)) ELSE Extent(doc, k)
  IN  [start |-> e.start, len |-> e.len,
       depth |-> IF doc.toks[k].type = "end" THEN Depth(doc, i, k) ELSE Depth(doc, i, k - 1)]

LinesOf(i, from, to) == [n \in 1..to - from + 1 |-> TokenLine(i, from + n - 1)]

ShowsWholeElement ==
  LET i == TokenAt(d.start)   last == LastToken(doc, i)
  IN  /\ err = NoError /\ task = Idle /\ call.op = "Generic" => shown = LinesOf(i, i, last)
      /\ err = NoError /\ task = Idle /\ call.op = "List" =>
           shown = <<TokenLine(i, i)>> \o LinesOf(i + 1, i + 1, last - 1)

(***************************************************************************)
(* In between these calls the dissector is a cursor over the tree of       *)
(* elements, which fails only where TLVCursor may.                         *)
(***************************************************************************)
AtEndOfContainer ==
  /\ err = EndOfTLV /\ call.op = "Next"
  /\ \/ d.reader.elem.type = "end"
     \/ d.stack = << >> /\ d.reader = [InitReader EXCEPT !.at = doc.len]

Entered(k) == IF k = 0 THEN 0 ELSE TokenAt(d.stack[k].start)

Visited(c) ==
  LET before == {i \in Members(doc, c) : doc.start[i] < d.reader.at}
  IN  IF before = {} THEN 0 ELSE CHOOSE i \in before : \A j \in before : j <= i

CursorState == IF AtEndOfContainer THEN "end" ELSE IF d.reader.elem = NoElement THEN "between" ELSE "on"

\* A call that shows members stays on the element that it was given.
CursorFrames ==
  LET n == Len(d.stack) - within
  IN  [k \in 1..n + 1 |->
         IF k <= n \/ task # Idle THEN [container |-> Entered(k - 1), at |-> Entered(k), state |-> "on"]
         ELSE [container |-> Entered(n), at |-> Visited(Entered(n)), state |-> CursorState]]

Cursor == INSTANCE TLVCursor
            WITH cursor <- IF err = NoError \/ AtEndOfContainer THEN CursorFrames ELSE << >>

ImplementsCursor == Cursor!CursorSpec
=============================================================================
