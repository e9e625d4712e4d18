------------------------------ MODULE TLVCursor ------------------------------
(***************************************************************************)
(* What a dissector of a message relies on: a cursor over the tree of      *)
(* elements.  It moves among the members of one container, enters the one  *)
(* that it is on, and leaves a container from wherever it is in it, to go  *)
(* on behind it.  It may fail only if the encoding is broken, or if it was *)
(* asked for something that is not there or that the field cannot hold.    *)
(***************************************************************************)
EXTENDS TLVDocument

VARIABLES
  doc,      \* the document that is read
  call,     \* the last request
  cursor    \* the containers that were entered, outermost first, each with
            \* its last visited member; << >> after a failure

Between == "between"   On == "on"   AtEnd == "end"

Frame(c, at, state) == [container |-> c, at |-> at, state |-> state]

Top == cursor[Len(cursor)]
Becomes(frame) == cursor' = [cursor EXCEPT ![Len(cursor)] = frame]
Stays == UNCHANGED cursor

CInit == call = [op |-> "Init"] /\ cursor = <<Frame(0, 0, Between)>>

\* The members of the container that follow the last visited one.
Behind == {i \in Members(doc, Top.container) : i > Top.at}

MoveTo(i) == Complete(doc, i) /\ Becomes(Frame(Top.container, i, On))

CNext == IF Behind = {} THEN Becomes([Top EXCEPT !.state = AtEnd]) ELSE MoveTo(Least(Behind))

Follows(type, tag) ==
  Behind # {} /\ LET t == doc.toks[Least(Behind)] IN t.type = type /\ t.tag = tag

OnElement == Top.state = On
OnContainer == OnElement /\ IsContainer(doc, Top.at)
OnList == OnContainer /\ doc.toks[Top.at].type \in {"array", "path"}
\* An empty byte string may have no first byte to point at, and no text.
IsEmptyBytes(i) == doc.toks[i].type = "bytes" /\ doc.toks[i].len = 0
OnEmptyBytes == OnElement /\ IsEmptyBytes(Top.at)
\* The element is an integer, and the field that it is to be shown in holds none.
OnUnfitNumber == OnElement /\ doc.toks[Top.at].type = "number" /\ ~ call'.fits
OfEmptyBytes == \E i \in Members(doc, Top.at) : IsEmptyBytes(i)

CEnter == cursor' = Append(cursor, Frame(Top.at, 0, Between))

Leave(c) == [c EXCEPT ![Len(c)].state = Between]

CExit == cursor' = Leave(SubSeq(cursor, 1, Len(cursor) - 1))

\* Showing an element passes it if it is a container.
Done(op) ==
  \/ op = "Next"                                /\ CNext
  \/ op = "NextOf" /\ Follows(call'.type, call'.tag) /\ MoveTo(Least(Behind))
  \/ op = "Enter" /\ OnContainer                /\ CEnter
  \/ op = "Exit"  /\ Len(cursor) > 1            /\ CExit
  \/ op = "AddTyped" /\ OnElement /\ ~ OnContainer /\ ~ OnUnfitNumber /\ Stays
  \/ op = "AddSubTree" /\ OnElement             /\ Stays
  \/ op = "Generic" /\ OnElement                /\ cursor' = IF OnContainer THEN Leave(cursor) ELSE cursor
  \/ op = "List" /\ OnList                      /\ cursor' = Leave(cursor)

MayFail(op) ==
  \/ ~ WellFormed(doc)
  \/ op = "NextOf"                /\ ~ Follows(call'.type, call'.tag)
  \/ op = "Enter"                 /\ ~ OnContainer
  \/ op = "AddTyped"              /\ (~ OnElement \/ OnContainer \/ OnEmptyBytes \/ OnUnfitNumber)
  \/ op = "AddSubTree"            /\ ~ OnElement
  \/ op = "Generic"               /\ (~ OnElement \/ OnEmptyBytes)
  \/ op = "List"                  /\ (~ OnList \/ OfEmptyBytes)

CursorNext ==
  /\ UNCHANGED doc
  /\ \/ cursor # << >> /\ Done(call'.op)
     \/ cursor # << >> /\ MayFail(call'.op) /\ cursor' = << >>
     \/ cursor = << >> /\ Stays

CursorSpec == CInit /\ [][CursorNext]_<<doc, call, cursor>>
=============================================================================
