------------------------------ MODULE TLVReader ------------------------------
(***************************************************************************)
(* TLVReader over one buffer, the only kind that the dissector makes: there*)
(* is no GetNextBuffer and no second reader on a container.  Operations    *)
(* are functions from a reader to an outcome, the reader and an error.     *)
(*                                                                         *)
(* The bytes are a document of TLVDocument, of which the reader uses no    *)
(* more than what the bytes at its read point are as a head of an element. *)
(* Lengths of strings are below 2^32.                                      *)
(***************************************************************************)
EXTENDS TLVDocument

CONSTANT ImplicitProfileKnown   \* whether ImplicitProfileId is specified

VARIABLE doc

NoError  == "NO_ERROR"
EndOfTLV == "END_OF_TLV"
Crash    == "CRASH"             \* the process ends

Errors == {NoError, EndOfTLV, Crash, "TLV_UNDERRUN", "INVALID_TLV_ELEMENT", "INVALID_TLV_TAG",
           "UNKNOWN_IMPLICIT_TLV_TAG", "UNEXPECTED_TLV_ELEMENT", "WRONG_TLV_TYPE",
           "INCORRECT_STATE", "INVALID_ARGUMENT"}

\* mControlByte is kTLVControlByte_NotSpecified: the reader is on no element.
NoElement == [type |-> "none", tag |-> "anonymous", head |-> 0, len |-> 0]

ContainerTypes == Containers \cup {"none", "unknown"}

\* at is mLenRead, and mReadPoint from the start of the buffer; elem is what
\* the control byte, mElemTag and mElemLenOrVal say.
ReaderType == [at : 0..doc.len, elem : HeadType \cup {NoElement}, container : ContainerTypes]

Outcome(x, err) == [val |-> x, err |-> err]
OK(x) == Outcome(x, NoError)

\* SuccessOrExit: go on with the outcome of the last call, or return its error.
Then(o, Continue(_)) == IF o.err = NoError THEN Continue(o.val) ELSE o

InitReader == [at |-> 0, elem |-> NoElement, container |-> "none"]
ClearElementState(r) == [r EXCEPT !.elem = NoElement]

\* ReadData: n bytes, or what is left of the buffer and an error.
ReadData(r, n) ==
  IF n <= doc.len - r.at THEN OK([r EXCEPT !.at = r.at + n])
  ELSE Outcome([r EXCEPT !.at = doc.len], "TLV_UNDERRUN")

SkipData(r) == IF r.elem.type \in Strings THEN ReadData(r, r.elem.len) ELSE OK(r)

VerifyTag(r) ==
  CASE r.elem.tag = "implicit" /\ ~ ImplicitProfileKnown          -> "UNKNOWN_IMPLICIT_TLV_TAG"
    [] r.container # "unknown" /\ ~ TagFits(r.container, r.elem.tag) -> "INVALID_TLV_TAG"
    [] OTHER                                                       -> NoError

VerifyElement(r) ==
  IF r.elem.type = "end"
  THEN IF r.container = "none" THEN "INVALID_TLV_ELEMENT"
       ELSE IF r.elem.tag # "anonymous" THEN "INVALID_TLV_TAG" ELSE NoError
  ELSE IF VerifyTag(r) # NoError THEN VerifyTag(r)
  ELSE IF r.elem.type \in Strings /\ doc.len - r.at < r.elem.len THEN "TLV_UNDERRUN"
  ELSE NoError

ReadElement(r) ==
  IF r.at = doc.len THEN Outcome(r, EndOfTLV)
  ELSE LET h == doc.head[r.at]
           s == [r EXCEPT !.elem = h]
       IN  IF h.type = "invalid" THEN Outcome(s, "INVALID_TLV_ELEMENT")
           ELSE Then(ReadData(s, h.head), LAMBDA t : Outcome(t, VerifyElement(t)))

\* Mutation: the type of the container that has just ended goes on to hold.
ContainerStillInner(r, outer, nest) ==
  IF r.elem.type \in Containers THEN r.elem.type ELSE r.container

\* Only the outermost container's type is known again once a nested one ended.
ContainerAfter(r, outer, nest) ==
  IF r.elem.type \in Containers THEN r.elem.type
  ELSE IF r.elem.type # "end" THEN r.container
  ELSE IF nest = 0 THEN outer ELSE "unknown"

\* One turn of the loop of SkipToEndOfContainer, in a container of type outer:
\* s has the reader and the error, how deep it is, and whether the loop has ended.
SkipTurn(s, outer) ==
  LET n == s.nest + Nesting(s.val.elem)
      r == [s.val EXCEPT !.container = ContainerAfter(s.val, outer, n)]
      o == Then(SkipData(r), ReadElement)
  IN  IF s.done \/ n < 0 THEN [s EXCEPT !.done = TRUE]
      ELSE [val |-> o.val, err |-> o.err, nest |-> n, done |-> o.err # NoError]

\* Every turn but the last reads a byte.
SkipToEndOfContainer(r) ==
  LET turns[n \in Nat] ==
        IF n = 0 THEN [val |-> r, err |-> NoError, nest |-> 0, done |-> FALSE]
        ELSE SkipTurn(turns[n - 1], r.container)
      s == turns[doc.len - r.at + 1]
  IN  Outcome(s.val, s.err)

IsOnContainer(r) == r.elem.type \in Containers

EnterContainer(r) ==
  IF IsOnContainer(r) THEN OK(ClearElementState([r EXCEPT !.container = r.elem.type]))
  ELSE Outcome(r, "INCORRECT_STATE")

ExitContainer(r, outer) ==
  Then(SkipToEndOfContainer(r), LAMBDA s : OK(ClearElementState([s EXCEPT !.container = outer])))

Skip(r) ==
  IF r.elem.type = "end" THEN Outcome(r, EndOfTLV)
  ELSE IF IsOnContainer(r)
  THEN Then(EnterContainer(r), LAMBDA s : ExitContainer(s, r.container))
  ELSE Then(SkipData(r), LAMBDA s : OK(ClearElementState(s)))

ReaderNext(r) ==
  Then(Skip(r), LAMBDA s :
    Then(ReadElement(s), LAMBDA t :
      Outcome(t, IF t.elem.type = "end" THEN EndOfTLV ELSE NoError)))

\* Next(expectedType, expectedTag)
ReaderNextOf(r, type, tag) ==
  Then(ReaderNext(r), LAMBDA s :
    Outcome(s, IF s.elem.type # type THEN "WRONG_TLV_TYPE"
               ELSE IF s.elem.tag # tag THEN "UNEXPECTED_TLV_ELEMENT" ELSE NoError))

\* DupString reads the bytes and leaves an empty string behind.
DupString(r) ==
  Then(ReadData(r, r.elem.len), LAMBDA s : OK([s EXCEPT !.elem.len = 0]))

\* GetDataPtr points at the bytes and leaves them unread.
GetDataPtr(r) ==
  IF r.at = doc.len \/ doc.len - r.at < r.elem.len THEN Outcome(r, "TLV_UNDERRUN") ELSE OK(r)

\* The value of the element is fetched, as its type demands.
GetValue(r) ==
  CASE r.elem.type = "number" -> OK(r)
    [] r.elem.type = "utf8"   -> DupString(r)
    [] r.elem.type = "bytes"  -> GetDataPtr(r)
    [] OTHER                  -> Outcome(r, "UNEXPECTED_TLV_ELEMENT")
=============================================================================
