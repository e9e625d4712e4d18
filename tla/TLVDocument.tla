----------------------------- MODULE TLVDocument -----------------------------
(***************************************************************************)
(* What a TLV encoding means, told without a reader.  An encoding is a     *)
(* sequence of tokens: the heads of elements, each with the bytes of its   *)
(* string if it has one, and the markers that end containers.  A document  *)
(* is what a buffer holds of an encoding, all of it or its first bytes.    *)
(***************************************************************************)
EXTENDS Integers, Sequences, FiniteSets

Containers == {"structure", "array", "path"}
Strings    == {"utf8", "bytes"}
\* "number" stands for all types whose value is in the head or that have none.
ElementTypes == {"number", "end", "invalid"} \cup Containers \cup Strings
Tags == {"anonymous", "context", "profile", "implicit"}

HeadType == [type : ElementTypes, tag : Tags, head : 1..17, len : Nat]

Least(S) == CHOOSE x \in S : \A y \in S : x <= y

Size(t) == t.head + t.len

\* What other bytes look like when they are taken for a head.
Garbage == [type |-> "invalid", tag |-> "anonymous", head |-> 1, len |-> 0]

\* How many containers a token opens.
Nesting(t) == IF t.type \in Containers THEN 1 ELSE IF t.type = "end" THEN -1 ELSE 0

\* Where each token starts, and the bytes end.
Starts(toks) ==
  LET start[i \in 1..Len(toks) + 1] == IF i = 1 THEN 0 ELSE start[i - 1] + Size(toks[i - 1])
  IN  start

\* How many containers tokens 1 to i leave open.
Depths(toks) ==
  LET depth[i \in 0..Len(toks)] == IF i = 0 THEN 0 ELSE depth[i - 1] + Nesting(toks[i])
  IN  depth

\* The tokens of which the first ends the element that starts with token i.
Closing(toks, i) ==
  IF toks[i].type \in Containers
  THEN {j \in i + 1..Len(toks) : Depths(toks)[j] = Depths(toks)[i - 1]} ELSE {i}

\* The first n bytes of the encoding with the tokens toks.  last[i] is the last
\* token of the element that starts with token i, or 0 if it never ends; head[p]
\* is what the byte at p is, taken for the first of a head.
Document(toks, n) ==
  LET start == Starts(toks)
      tokenAt(p) == {i \in 1..Len(toks) : start[i] = p}
  IN  [toks |-> toks, start |-> start, depth |-> Depths(toks), len |-> n,
       last |-> [i \in 1..Len(toks) |-> IF Closing(toks, i) = {} THEN 0 ELSE Least(Closing(toks, i))],
       head |-> [p \in 0..n - 1 |-> IF tokenAt(p) = {} THEN Garbage
                                    ELSE toks[CHOOSE i \in tokenAt(p) : TRUE]]]

ByteLength(toks) == Starts(toks)[Len(toks) + 1]

\* Only strings have bytes behind their head.
IsEncoding(toks) ==
  toks \in Seq(HeadType) /\ \A i \in 1..Len(toks) : toks[i].len > 0 => toks[i].type \in Strings

IsDocument(x) ==
  IsEncoding(x.toks) /\ x.len \in 0..ByteLength(x.toks) /\ x = Document(x.toks, x.len)
-----------------------------------------------------------------------------
IsContainer(doc, i) == doc.toks[i].type \in Containers

\* How many containers are opened in tokens i to j and not closed.
Depth(doc, i, j) == doc.depth[j] - doc.depth[i - 1]

LastToken(doc, i) == doc.last[i]

\* The whole element that starts with token i is in the document.
Complete(doc, i) == doc.last[i] # 0 /\ doc.start[doc.last[i] + 1] <= doc.len

Extent(doc, i) == [start |-> doc.start[i], len |-> doc.start[doc.last[i] + 1] - doc.start[i]]

\* The elements of container c; 0 stands for the outermost level.
Members(doc, c) ==
  LET end == IF c = 0 THEN Len(doc.toks) + 1 ELSE LastToken(doc, c)
  IN  {i \in c + 1..end - 1 : /\ doc.toks[i].type # "end" /\ doc.start[i] < doc.len
                              /\ Depth(doc, c + 1, i - 1) = 0}

\* Whether an element with this tag may be in a container of this type.
TagFits(container, tag) ==
  CASE container = "none"                  -> tag # "context"
    [] container \in {"structure", "path"} -> tag # "anonymous"
    [] container = "array"                 -> tag = "anonymous"

Holders(doc, i) == {0} \cup {c \in 1..i - 1 : IsContainer(doc, c) /\ Complete(doc, c)}
Parents(doc, i) == {c \in Holders(doc, i) : i \in Members(doc, c)}

WellFormed(doc) ==
  /\ doc.len = doc.start[Len(doc.toks) + 1]
  /\ \A i \in 1..Len(doc.toks) :
       LET t == doc.toks[i]
       IN  /\ t.type # "invalid" /\ t.tag # "implicit"
           /\ t.type = "end" => t.tag = "anonymous" /\ Depth(doc, 1, i) >= 0
           /\ t.type # "end" =>
                /\ Complete(doc, i)
                /\ \E c \in Parents(doc, i) :
                     TagFits(IF c = 0 THEN "none" ELSE doc.toks[c].type, t.tag)
=============================================================================
