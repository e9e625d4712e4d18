-------------------------- MODULE TLVDissectorProofs --------------------------
(***************************************************************************)
(* Proofs about TLVDissector, for every set of documents.                  *)
(***************************************************************************)
EXTENDS TLVDissector, TLVReaderProofs

-----------------------------------------------------------------------------
(***************************************************************************)
(* The invariant.  A dissector that has not failed is inside the innermost *)
(* container on its stack, on one of its members or behind one, and its    *)
(* containers lie in each other.                                           *)
(***************************************************************************)
Entry == [outer : ContainerTypes \ {"unknown"}, item : ItemType, start : Nat, len : Nat]

DissectorType ==
  [reader : ReaderType, start : 0..doc.len, len : 0..doc.len, item : ItemType,
   stack : Seq(Entry), room : Nat]

Typed(x) ==
  /\ x \in DissectorType /\ Len(x.stack) <= x.room
  /\ \A k \in 1..Len(x.stack) : x.stack[k].start + x.stack[k].len <= doc.len

\* The container that is entered k deep, and the innermost one.
Container(x, k) == IF k = 0 THEN 0 ELSE TokenAt(x.stack[k].start)
Innermost(x) == Container(x, Len(x.stack))

IsExtentOf(start, len, i) ==
  /\ i \in 1..Len(doc.toks) /\ Complete(doc, i)
  /\ start = doc.start[i] /\ len = Extent(doc, i).len

ItemAgrees(item, start, len) == item.added => item.start = start /\ item.len = len

\* e stands for the container c, which is entered k deep in the container p.
Stands(e, c, k, p) ==
  /\ IsExtentOf(e.start, e.len, c) /\ IsContainer(doc, c)
  /\ ItemAgrees(e.item, e.start, e.len)
  /\ e.outer = Kind(p)
  /\ p < c /\ doc.depth[c] = k /\ \A i \in p..c - 1 : doc.depth[i] >= k - 1

StackOK(x) == \A k \in 1..Len(x.stack) : Stands(x.stack[k], Container(x, k), k, Container(x, k - 1))

Inside(x, j) == IsIn(x.reader, Innermost(x), Len(x.stack), j)

OnOrBetween(x, j) ==
  /\ Inside(x, j) /\ x.reader.elem.type # "end"
  /\ x.reader.elem # NoElement => IsExtentOf(x.start, x.len, j)

Running(x) ==
  /\ Typed(x) /\ StackOK(x) /\ ItemAgrees(x.item, x.start, x.len)
  /\ x.len > 0 => \E i \in 1..Len(doc.toks) : IsExtentOf(x.start, x.len, i)
  /\ x.start + x.len <= doc.len
  /\ \E j : OnOrBetween(x, j)

\* The reader is on the token that ends the innermost container.
Ended(x) == Typed(x) /\ StackOK(x) /\ \E j : Inside(x, j) /\ x.reader.elem.type = "end"
-----------------------------------------------------------------------------
(***************************************************************************)
(* Extents and containers.                                                 *)
(***************************************************************************)
LEMMA TokenAtStart ==
  ASSUME IsDocument(doc), NEW i \in 1..Len(doc.toks)
  PROVE  TokenAt(doc.start[i]) = i
<1>1. \A k \in 1..Len(doc.toks) : doc.start[k] = doc.start[i] => k = i
  <2> TAKE k \in 1..Len(doc.toks)
  <2>1. i \in 1..Len(doc.toks) + 1 /\ k \in 1..Len(doc.toks) + 1
    BY DocumentTypes
  <2>2. doc.start[i] \in Nat
    BY <2>1, DocumentTypes
  <2>3. (i < k => doc.start[i] < doc.start[k]) /\ (k < i => doc.start[k] < doc.start[i])
    BY <2>1, DocumentTypes
  <2> QED BY <2>2, <2>3
<1> QED BY <1>1 DEF TokenAt

\* The bytes of an element.
LEMMA ExtentType ==
  ASSUME IsDocument(doc), NEW start, NEW len, NEW i, IsExtentOf(start, len, i)
  PROVE  /\ start \in Nat /\ len \in Nat \ {0} /\ start + len <= doc.len
         /\ start + len = doc.start[doc.last[i] + 1]
         /\ i = TokenAt(start) /\ [start |-> start, len |-> len] = Extent(doc, i)
         /\ doc.last[i] \in i..Len(doc.toks)
<1> DEFINE N == Len(doc.toks)
<1>1. /\ i \in 1..N /\ N \in Nat /\ doc.last[i] # 0 /\ doc.start[doc.last[i] + 1] <= doc.len
      /\ start = doc.start[i] /\ len = doc.start[doc.last[i] + 1] - doc.start[i]
  BY DocumentTypes DEF IsExtentOf, Complete, Extent
<1>2. doc.last[i] \in i..N
  <2>1. CASE doc.toks[i].type \in Containers
    <3>1. doc.last[i] \in i + 1..N
      BY <1>1, <2>1, LastOfContainer
    <3> QED BY <1>1, <3>1
  <2>2. CASE doc.toks[i].type \notin Containers
    BY <1>1, <2>2, LastOfOther
  <2> QED BY <2>1, <2>2
<1>3. i \in 1..N + 1 /\ doc.last[i] + 1 \in 1..N + 1 /\ i < doc.last[i] + 1
  BY <1>1, <1>2
<1>4. /\ doc.start[i] \in Nat /\ doc.start[doc.last[i] + 1] \in Nat
      /\ doc.start[i] < doc.start[doc.last[i] + 1]
  BY <1>3, DocumentTypes
<1>5. start \in Nat /\ len \in Nat \ {0} /\ start + len = doc.start[doc.last[i] + 1]
  BY <1>1, <1>4
<1>6. i = TokenAt(start)
  BY <1>1, TokenAtStart
<1>7. [start |-> start, len |-> len] = Extent(doc, i)
  BY <1>1 DEF Extent
<1> QED BY <1>1, <1>2, <1>5, <1>6, <1>7

\* What a dissector is made of.
LEMMA DissectorFields ==
  ASSUME NEW x \in DissectorType
  PROVE  /\ x.reader \in ReaderType /\ x.start \in 0..doc.len /\ x.len \in 0..doc.len
         /\ x.item \in ItemType /\ x.stack \in Seq(Entry) /\ x.room \in Nat
         /\ Len(x.stack) \in Nat
BY DEF DissectorType

\* Another reader in the same dissector.
LEMMA OtherReader ==
  ASSUME NEW x, Typed(x), NEW r \in ReaderType, NEW y, y = WithReader(x, r)
  PROVE  /\ Typed(y) /\ y.reader = r /\ y.start = x.start /\ y.len = x.len /\ y.item = x.item
         /\ y.stack = x.stack /\ y.room = x.room
<1>1. x \in DissectorType /\ y = [x EXCEPT !.reader = r]
  BY DEF Typed, WithReader
<1>2. /\ y \in DissectorType /\ y.reader = r /\ y.start = x.start /\ y.len = x.len /\ y.item = x.item
      /\ y.stack = x.stack /\ y.room = x.room
  BY <1>1 DEF DissectorType
<1> QED BY <1>2 DEF Typed

\* The containers depend on the stack alone.
LEMMA SameStack ==
  ASSUME NEW x, NEW y, y.stack = x.stack
  PROVE  /\ \A k : Container(y, k) = Container(x, k)
         /\ Innermost(y) = Innermost(x)
         /\ StackOK(x) => StackOK(y)
<1>1. \A k : Container(y, k) = Container(x, k)
  BY DEF Container
<1>2. Innermost(y) = Innermost(x)
  BY <1>1 DEF Innermost
<1>3. StackOK(x) => StackOK(y)
  BY <1>1 DEF StackOK
<1> QED BY <1>1, <1>2, <1>3

\* The innermost container is as deep as the stack, and not a token behind it.
LEMMA InnermostIs ==
  ASSUME IsDocument(doc), NEW x \in DissectorType, StackOK(x)
  PROVE  LET c == Innermost(x)
         IN  /\ c \in 0..Len(doc.toks) /\ doc.depth[c] = Len(x.stack)
             /\ x.stack # << >> => Stands(x.stack[Len(x.stack)], c, Len(x.stack), Container(x, Len(x.stack) - 1))
             /\ x.stack # << >> <=> c # 0
<1>1. x.stack \in Seq(Entry) /\ Len(x.stack) \in Nat
  BY DissectorFields
<1>2. CASE Len(x.stack) = 0
  <2>1. Innermost(x) = 0 /\ x.stack = << >>
    BY <1>1, <1>2 DEF Innermost, Container
  <2> QED BY <1>2, <2>1, DocumentTypes
<1>3. CASE Len(x.stack) # 0
  <2>1. Len(x.stack) \in 1..Len(x.stack) /\ x.stack # << >>
    BY <1>1, <1>3
  <2>2. Stands(x.stack[Len(x.stack)], Innermost(x), Len(x.stack), Container(x, Len(x.stack) - 1))
    BY <2>1 DEF StackOK, Innermost
  <2>3. Innermost(x) \in 1..Len(doc.toks) /\ doc.depth[Innermost(x)] = Len(x.stack)
    BY <2>2 DEF Stands, IsExtentOf
  <2> QED BY <2>1, <2>2, <2>3, DocumentTypes
<1> QED BY <1>2, <1>3
-----------------------------------------------------------------------------
(***************************************************************************)
(* Skip and Next inside a container.                                       *)
(***************************************************************************)
\* Skip stays in the container.
LEMMA SkipStaysIn ==
  ASSUME IsDocument(doc), NEW r \in ReaderType, NEW c, NEW b, NEW j, Whole(c, b), IsIn(r, c, b, j),
         r.elem.type # "end", NEW o, o = Skip(r)
  PROVE  /\ o.val \in ReaderType /\ o.err \in Errors /\ o.err # Crash /\ o.val.at >= r.at
         /\ o.err = NoError =>
              /\ o.val.elem = NoElement
              /\ \E i \in j..Len(doc.toks) :
                   /\ IsIn(o.val, c, b, i) /\ o.val.at = doc.start[i + 1]
                   /\ r.elem = NoElement => i = j
                   /\ r.elem # NoElement => i >= 1 /\ i = doc.last[j]
         /\ o.err = EndOfTLV => c = 0
<1> DEFINE N == Len(doc.toks)
<1>1. /\ N \in Nat /\ j \in 0..N /\ c \in 0..N /\ c <= j /\ b = LevelAt(r, j) /\ b \in Int
      /\ Passed(r, j) /\ \A k \in c..j - 1 : doc.depth[k] >= b
  <2>1. N \in Nat
    BY DocumentTypes
  <2>2. Passed(r, j) /\ c <= j /\ b = LevelAt(r, j) /\ \A k \in c..j - 1 : doc.depth[k] >= b
    BY DEF IsIn
  <2>3. j \in 0..N
    BY <2>2 DEF Passed
  <2>4. c \in 0..N /\ b = doc.depth[c]
    BY DEF Whole
  <2>5. b \in Int
    BY <2>4, DocumentTypes
  <2> QED BY <2>1, <2>2, <2>3, <2>4, <2>5
<1>2. /\ o.val \in ReaderType /\ o.err \in Errors /\ o.err # Crash /\ o.val.at >= r.at
      /\ o.err = NoError =>
           /\ o.val.elem = NoElement /\ o.val.container = r.container
           /\ \E i \in j..N :
                /\ Passed(o.val, i) /\ doc.depth[i] = b
                /\ \A k \in j..i : doc.depth[k] >= b
                /\ r.elem = NoElement => i = j
                /\ r.elem # NoElement => i >= 1 /\ i = doc.last[j]
      /\ o.err = EndOfTLV => \E i \in j..N : doc.start[i + 1] = doc.len /\ \A k \in j..i : doc.depth[k] > b
  BY <1>1, SkipPasses
<1>3. ASSUME o.err = NoError
      PROVE  \E i \in j..N :
               /\ IsIn(o.val, c, b, i) /\ o.val.at = doc.start[i + 1]
               /\ r.elem = NoElement => i = j
               /\ r.elem # NoElement => i >= 1 /\ i = doc.last[j]
  <2>1. PICK i \in j..N :
          /\ Passed(o.val, i) /\ doc.depth[i] = b
          /\ \A k \in j..i : doc.depth[k] >= b
          /\ r.elem = NoElement => i = j
          /\ r.elem # NoElement => i >= 1 /\ i = doc.last[j]
    BY <1>2, <1>3
  <2>2. \A k \in c..i - 1 : doc.depth[k] >= b
    <3>1. \A k \in c..i - 1 : k \in c..j - 1 \/ k \in j..i
      BY <1>1
    <3> QED BY <1>1, <2>1, <3>1
  <2>3. LevelAt(o.val, i) = b
    BY <1>2, <1>3, <2>1 DEF LevelAt
  <2>4. o.val.container = Kind(c)
    BY <1>2, <1>3 DEF IsIn
  <2>5. o.val.at = doc.start[i + 1]
    <3>1. Unread(o.val) = 0
      BY <1>2, <1>3 DEF Unread, NoElement, Strings
    <3>2. o.val.at \in Nat
      BY <1>2, UnreadType
    <3> QED BY <2>1, <3>1, <3>2 DEF Passed
  <2>6. IsIn(o.val, c, b, i)
    BY <1>1, <1>2, <1>3, <2>1, <2>2, <2>3, <2>4 DEF IsIn
  <2> QED BY <2>1, <2>5, <2>6
<1>4. ASSUME o.err = EndOfTLV, c # 0 PROVE FALSE
  <2>1. PICK i \in j..N : doc.start[i + 1] = doc.len /\ \A k \in j..i : doc.depth[k] > b
    BY <1>2, <1>4
  <2>2. i \in c..N /\ \A k \in c..i : doc.depth[k] >= b
    <3>1. \A k \in c..i : k \in c..j - 1 \/ k \in j..i
      BY <1>1
    <3>2. \A k \in j..i : doc.depth[k] >= b
      <4>1. \A k \in j..i : k \in 0..N
        BY <1>1
      <4>2. \A k \in j..i : doc.depth[k] \in Int
        BY <4>1, DocumentTypes
      <4> QED BY <1>1, <2>1, <4>2
    <3> QED BY <1>1, <3>1, <3>2
  <2>3. doc.start[i + 1] < doc.len
    BY <1>4, <2>2, NotCutOff
  <2> QED BY <2>1, <2>3, DocumentTypes
<1> QED BY <1>2, <1>3, <1>4

\* And so does Next, unless it reads the end of the container.
LEMMA AdvanceStaysIn ==
  ASSUME IsDocument(doc), NEW r \in ReaderType, NEW c, NEW b, NEW j, Whole(c, b), IsIn(r, c, b, j),
         r.elem = NoElement, NEW q, Advanced(r, j, q)
  PROVE  /\ q.err = NoError => IsIn(q.val, c, b, j + 1)
         /\ q.err = EndOfTLV =>
              \/ IsIn(q.val, c, b, j + 1) /\ c # 0 /\ q.val.elem.type = "end"
                 /\ j < Len(doc.toks) /\ q.val.elem = doc.toks[j + 1]
              \/ c = 0 /\ q.val = r /\ r.at = doc.len
<1> DEFINE N == Len(doc.toks)
<1>1. /\ N \in Nat /\ j \in 0..N /\ c \in 0..N /\ c <= j /\ b \in Int /\ doc.depth[j] = b
      /\ \A k \in c..j - 1 : doc.depth[k] >= b
  BY DocumentTypes, LevelType DEF IsIn, Passed, Whole, LevelAt
<1>2. \A k \in c..j : doc.depth[k] >= b
  <2>1. \A k \in c..j : k = j \/ k \in c..j - 1
    BY <1>1
  <2> QED BY <1>1, <2>1
<1>3. ASSUME Passed(q.val, j + 1), q.val.elem # NoElement, q.val.container = r.container
      PROVE  IsIn(q.val, c, b, j + 1)
  <2>1. LevelAt(q.val, j + 1) = b
    BY <1>1, <1>3 DEF LevelAt
  <2>2. \A k \in c..j + 1 - 1 : doc.depth[k] >= b
    BY <1>1, <1>2
  <2> QED BY <1>1, <1>3, <2>1, <2>2 DEF IsIn
<1>4. q.val.container = r.container /\ r.container = Kind(c)
  BY DEF Advanced, IsIn
<1>5. q.err = NoError => IsIn(q.val, c, b, j + 1)
  BY <1>3, <1>4 DEF Advanced
<1>6. CASE q.err = EndOfTLV
  <2>1. CASE /\ j < N /\ q.val.elem = doc.toks[j + 1] /\ q.val.elem # NoElement
             /\ Passed(q.val, j + 1) /\ q.val.elem.type = "end" /\ r.container # "none"
    BY <1>3, <1>4, <1>5, <2>1 DEF Kind
  <2>2. CASE q.val = r /\ r.at = doc.len
    <3>1. CASE c # 0
      <4>1. doc.start[j + 1] < doc.len
        <5>1. j \in c..N
          BY <1>1
        <5> QED BY <1>2, <3>1, <5>1, NotCutOff
      <4>2. Unread(r) = 0 /\ r.at \in Nat
        BY UnreadType DEF Unread, NoElement, Strings
      <4>3. r.at = doc.start[j + 1]
        BY <4>2 DEF IsIn, Passed
      <4> QED BY <2>2, <4>1, <4>2, <4>3
    <3> QED BY <1>5, <2>2, <3>1
  <2> QED BY <1>6, <2>1, <2>2 DEF Advanced
<1> QED BY <1>5, <1>6
-----------------------------------------------------------------------------
(***************************************************************************)
(* The operations of the dissector.                                        *)
(***************************************************************************)
LEMMA InnermostWhole ==
  ASSUME IsDocument(doc), NEW x \in DissectorType, StackOK(x)
  PROVE  Whole(Innermost(x), Len(x.stack))
<1>1. Innermost(x) \in 0..Len(doc.toks) /\ doc.depth[Innermost(x)] = Len(x.stack)
  BY InnermostIs
<1>2. Innermost(x) # 0 => IsContainer(doc, Innermost(x)) /\ Complete(doc, Innermost(x))
  <2>1. HAVE Innermost(x) # 0
  <2>2. Stands(x.stack[Len(x.stack)], Innermost(x), Len(x.stack), Container(x, Len(x.stack) - 1))
    BY <2>1, InnermostIs
  <2> QED BY <2>2 DEF Stands, IsExtentOf
<1> QED BY <1>1, <1>2 DEF Whole

\* One field at a time.
LEMMA OtherItem ==
  ASSUME NEW x, Typed(x), NEW t \in ItemType, NEW y, y = [x EXCEPT !.item = t]
  PROVE  /\ Typed(y) /\ y.reader = x.reader /\ y.start = x.start /\ y.len = x.len /\ y.item = t
         /\ y.stack = x.stack
<1>1. x \in DissectorType
  BY DEF Typed
<1>2. /\ y \in DissectorType /\ y.reader = x.reader /\ y.start = x.start /\ y.len = x.len
      /\ y.item = t /\ y.stack = x.stack /\ y.room = x.room
  BY <1>1 DEF DissectorType
<1> QED BY <1>2 DEF Typed

\* Another start of the element.
LEMMA OtherStart ==
  ASSUME NEW x, Typed(x), NEW y, y = MarkElemStart(x)
  PROVE  /\ Typed(y) /\ y.reader = x.reader /\ y.start = x.reader.at /\ y.len = x.len
         /\ y.item = x.item /\ y.stack = x.stack
<1>1. x \in DissectorType /\ x.reader.at \in 0..doc.len /\ y = [x EXCEPT !.start = x.reader.at]
  BY DEF Typed, MarkElemStart, DissectorType, ReaderType
<1>2. /\ y \in DissectorType /\ y.reader = x.reader /\ y.start = x.reader.at /\ y.len = x.len
      /\ y.item = x.item /\ y.stack = x.stack /\ y.room = x.room
  BY <1>1 DEF DissectorType
<1> QED BY <1>2 DEF Typed

\* Another length of the element.
LEMMA OtherLength ==
  ASSUME NEW x, Typed(x), NEW n \in 0..doc.len, NEW y, y = [x EXCEPT !.len = n]
  PROVE  /\ Typed(y) /\ y.reader = x.reader /\ y.start = x.start /\ y.len = n
         /\ y.item = x.item /\ y.stack = x.stack
<1>1. x \in DissectorType
  BY DEF Typed
<1>2. /\ y \in DissectorType /\ y.reader = x.reader /\ y.start = x.start /\ y.len = n
      /\ y.item = x.item /\ y.stack = x.stack /\ y.room = x.room
  BY <1>1 DEF DissectorType
<1> QED BY <1>2 DEF Typed

\* The dissector is on the element of token j.
On(x, j) == Running(x) /\ OnOrBetween(x, j) /\ x.reader.elem # NoElement /\ x.reader.elem = doc.toks[j]

\* The reader is on token j, which ends the innermost container.
AtEnd(x, j) == Ended(x) /\ Inside(x, j) /\ x.reader.elem = doc.toks[j]

\* The token behind the element that a dissector is on, or behind token j.
TokenBehind(x, j) == IF x.reader.elem = NoElement THEN j + 1 ELSE doc.last[j] + 1

\* What Next does to the dissector x.
Advances(x, j, o) ==
  /\ Typed(o.val) /\ o.err \in Errors /\ o.err # Crash /\ o.val.stack = x.stack
  /\ o.err = NoError => On(o.val, TokenBehind(x, j)) /\ o.val.item = NoItem
  /\ o.err = EndOfTLV =>
       \/ x.stack # << >> /\ AtEnd(o.val, TokenBehind(x, j))
       \/ x.stack = << >>

\* The item of an element that got none.
LEMMA NoItemType == NoItem \in ItemType /\ ~ NoItem.added
BY DEF NoItem, ItemType

\* The length of the element that the reader was advanced to.
LEMMA MarkLengthSteps ==
  ASSUME IsDocument(doc), NEW x, Typed(x), StackOK(x), NEW j, Inside(x, j), x.start <= x.reader.at,
         x.item = NoItem, x.reader.elem # NoElement, x.reader.elem.type # "end",
         x.start = doc.start[j], NEW o, o = MarkElemLength(x)
  PROVE  /\ Typed(o.val) /\ o.err \in Errors /\ o.err # Crash /\ o.val.stack = x.stack
         /\ o.err = EndOfTLV => x.stack = << >>
         /\ o.err = NoError => /\ Running(o.val) /\ OnOrBetween(o.val, j)
                               /\ o.val.item = NoItem /\ o.val.reader = x.reader
<1> DEFINE c == Innermost(x)
           b == Len(x.stack)
           p == Skip(x.reader)
<1>1. /\ x \in DissectorType /\ x.reader \in ReaderType /\ x.start \in 0..doc.len /\ doc.len \in Nat
      /\ Whole(c, b) /\ IsIn(x.reader, c, b, j)
  BY DissectorFields, InnermostWhole, DocumentTypes DEF Typed, Inside
<1>2. /\ p.val \in ReaderType /\ p.err \in Errors /\ p.err # Crash /\ p.val.at >= x.reader.at
      /\ p.err = NoError =>
           \E i \in j..Len(doc.toks) :
             IsIn(p.val, c, b, i) /\ p.val.at = doc.start[i + 1] /\ i >= 1 /\ i = doc.last[j]
      /\ p.err = EndOfTLV => c = 0
  BY <1>1, SkipStaysIn
<1>3. CASE p.err # NoError
  <2>1. o.val = x /\ o.err = p.err
    BY <1>3 DEF MarkElemLength, Outcome
  <2>2. o.err = EndOfTLV => x.stack = << >>
    BY <1>1, <1>2, <2>1, InnermostIs
  <2> QED BY <1>2, <1>3, <2>1, <2>2
<1>4. CASE p.err = NoError
  <2> DEFINE n == p.val.at - x.start
  <2>1. o.val = [x EXCEPT !.len = n] /\ o.err = NoError
    BY <1>4 DEF MarkElemLength, OK, Outcome
  <2>2. p.val.at \in 0..doc.len /\ x.reader.at \in 0..doc.len
    BY <1>1, <1>2 DEF ReaderType
  <2>3. n \in 0..doc.len /\ x.start + n = p.val.at
    BY <1>1, <1>2, <2>2
  <2>4. /\ Typed(o.val) /\ o.val.reader = x.reader /\ o.val.start = x.start /\ o.val.len = n
        /\ o.val.item = x.item /\ o.val.stack = x.stack
    BY <2>1, <2>3, OtherLength
  <2>5. PICK i \in j..Len(doc.toks) :
          IsIn(p.val, c, b, i) /\ p.val.at = doc.start[i + 1] /\ i >= 1 /\ i = doc.last[j]
    BY <1>2, <1>4
  <2>6. j \in 1..Len(doc.toks)
    <3>1. Passed(x.reader, j)
      BY <1>1 DEF IsIn
    <3> QED BY <3>1, LevelType
  <2>7. Complete(doc, j)
    <3>1. doc.start[doc.last[j] + 1] <= doc.len
      BY <2>5 DEF IsIn, Passed
    <3>2. doc.last[j] # 0
      BY <2>5
    <3> QED BY <3>1, <3>2 DEF Complete
  <2>8. IsExtentOf(o.val.start, o.val.len, j)
    BY <2>4, <2>5, <2>6, <2>7 DEF IsExtentOf, Extent
  <2>9. StackOK(o.val) /\ Inside(o.val, j)
    BY <2>4, SameStack DEF Inside
  <2>10. OnOrBetween(o.val, j)
    BY <2>4, <2>8, <2>9 DEF OnOrBetween
  <2>11. o.val.start + o.val.len <= doc.len
    BY <2>2, <2>3, <2>4
  <2>12. ItemAgrees(o.val.item, o.val.start, o.val.len)
    BY <2>4, NoItemType DEF ItemAgrees
  <2>13. Running(o.val)
    BY <2>4, <2>6, <2>8, <2>9, <2>10, <2>11, <2>12 DEF Running
  <2>14. o.err \in Errors /\ o.err # Crash /\ o.err # EndOfTLV
    BY <2>1 DEF Errors, NoError, Crash, EndOfTLV
  <2> QED BY <2>4, <2>10, <2>13, <2>14
<1> QED BY <1>3, <1>4

\* Next with q as what becomes of the reader that has skipped the element.
NextWith(x, q) ==
  Reading([x EXCEPT !.item = NoItem], Skip(x.reader), LAMBDA y :
    Reading(MarkElemStart(y), q, LAMBDA z : MarkElemLength(z)))

\* Next and its form for an expected element, from what the reader does behind the skipped one.
LEMMA NextWithSteps ==
  ASSUME IsDocument(doc), NEW x, Running(x), NEW j, OnOrBetween(x, j), NEW q,
         \A i : Skip(x.reader).err = NoError /\ Skip(x.reader).val.elem = NoElement /\ Passed(Skip(x.reader).val, i)
                => Advanced(Skip(x.reader).val, i, q),
         NEW o, o = NextWith(x, q)
  PROVE  Advances(x, j, o)
<1> DEFINE c == Innermost(x)
           b == Len(x.stack)
           p == Skip(x.reader)
           y == [x EXCEPT !.item = NoItem]
           y1 == WithReader(y, p.val)
           y2 == MarkElemStart(y1)
           z == WithReader(y2, q.val)
<1>1. /\ x \in DissectorType /\ x.reader \in ReaderType /\ doc.len \in Nat /\ Typed(x) /\ StackOK(x)
      /\ Whole(c, b) /\ IsIn(x.reader, c, b, j) /\ x.reader.elem.type # "end"
  BY DissectorFields, InnermostWhole, DocumentTypes DEF Running, Typed, OnOrBetween, Inside
<1>2. /\ p.val \in ReaderType /\ p.err \in Errors /\ p.err # Crash
      /\ p.err = NoError =>
           /\ p.val.elem = NoElement
           /\ \E i \in j..Len(doc.toks) :
                /\ IsIn(p.val, c, b, i) /\ p.val.at = doc.start[i + 1]
                /\ x.reader.elem = NoElement => i = j
                /\ x.reader.elem # NoElement => i >= 1 /\ i = doc.last[j]
      /\ p.err = EndOfTLV => c = 0
  BY <1>1, SkipStaysIn
<1>3. Typed(y) /\ y.item = NoItem /\ y.stack = x.stack
  BY <1>1, OtherItem, NoItemType
<1>4. Typed(y1) /\ y1.reader = p.val /\ y1.item = NoItem /\ y1.stack = x.stack
  <2> HIDE DEF y
  <2> QED BY <1>2, <1>3, OtherReader
<1>5. Typed(y2) /\ y2.start = p.val.at /\ y2.item = NoItem /\ y2.stack = x.stack
  BY <1>4, OtherStart
<1>6. CASE p.err # NoError
  <2>1. o.val = y1 /\ o.err = p.err
    BY <1>6 DEF NextWith, Reading, Outcome
  <2>2. o.err = EndOfTLV => x.stack = << >>
    BY <1>1, <1>2, <2>1, InnermostIs
  <2> QED BY <1>2, <1>4, <1>6, <2>1, <2>2 DEF Advances
<1>7. CASE p.err = NoError
  <2>1. PICK i \in j..Len(doc.toks) :
          /\ IsIn(p.val, c, b, i) /\ p.val.at = doc.start[i + 1]
          /\ x.reader.elem = NoElement => i = j
          /\ x.reader.elem # NoElement => i >= 1 /\ i = doc.last[j]
    BY <1>2, <1>7
  <2>2. p.val.elem = NoElement /\ i + 1 = TokenBehind(x, j)
    BY <1>2, <1>7, <2>1 DEF TokenBehind
  <2>3. Advanced(p.val, i, q)
    <3>1. Passed(p.val, i)
      BY <2>1 DEF IsIn
    <3> QED BY <1>7, <2>2, <3>1
  <2>4. /\ q.err = NoError => IsIn(q.val, c, b, i + 1)
        /\ q.err = EndOfTLV =>
             \/ IsIn(q.val, c, b, i + 1) /\ c # 0 /\ q.val.elem.type = "end" /\ q.val.elem = doc.toks[i + 1]
             \/ c = 0
    BY <1>1, <1>2, <2>1, <2>2, <2>3, AdvanceStaysIn
  <2>5. /\ q.val \in ReaderType /\ q.err \in Errors /\ q.err # Crash /\ q.val.at >= p.val.at
        /\ q.err = NoError =>
             q.val.elem = doc.toks[i + 1] /\ q.val.elem # NoElement /\ q.val.elem.type # "end"
    BY <2>3 DEF Advanced
  <2>6. Typed(z) /\ z.reader = q.val /\ z.start = doc.start[i + 1] /\ z.item = NoItem /\ z.stack = x.stack
    BY <1>5, <2>1, <2>5, OtherReader
  <2>7. StackOK(z) /\ Innermost(z) = c /\ Len(z.stack) = b
    BY <1>1, <2>6, SameStack
  <2>8. CASE q.err # NoError
    <3>1. o.val = z /\ o.err = q.err
      BY <1>7, <2>8 DEF NextWith, Reading, Outcome
    <3>2. ASSUME o.err = EndOfTLV, x.stack # << >> PROVE AtEnd(o.val, i + 1)
      <4>1. c # 0
        BY <1>1, <3>2, InnermostIs
      <4>2. Inside(z, i + 1) /\ z.reader.elem.type = "end" /\ z.reader.elem = doc.toks[i + 1]
        BY <2>4, <2>6, <2>7, <3>1, <3>2, <4>1 DEF Inside
      <4> QED BY <2>6, <2>7, <3>1, <4>2 DEF AtEnd, Ended
    <3> QED BY <2>2, <2>5, <2>6, <2>8, <3>1, <3>2 DEF Advances
  <2>9. CASE q.err = NoError
    <3>1. o = MarkElemLength(z)
      BY <1>7, <2>9 DEF NextWith, Reading
    <3>2. Inside(z, i + 1) /\ z.start <= z.reader.at
      BY <2>1, <2>4, <2>5, <2>6, <2>7, <2>9 DEF Inside
    <3>3. z.reader.elem # NoElement /\ z.reader.elem.type # "end" /\ z.reader.elem = doc.toks[i + 1]
      BY <2>5, <2>6, <2>9
    <3> HIDE DEF z
    <3>4. /\ Typed(o.val) /\ o.err \in Errors /\ o.err # Crash /\ o.val.stack = x.stack
          /\ o.err = EndOfTLV => x.stack = << >>
          /\ o.err = NoError => /\ Running(o.val) /\ OnOrBetween(o.val, i + 1)
                                /\ o.val.item = NoItem /\ o.val.reader = z.reader
      BY <2>6, <2>7, <3>1, <3>2, <3>3, MarkLengthSteps
    <3>5. o.err = NoError => On(o.val, i + 1)
      BY <3>3, <3>4 DEF On
    <3> QED BY <2>2, <3>4, <3>5 DEF Advances
  <2> QED BY <2>8, <2>9
<1> QED BY <1>6, <1>7

\* Next and NextOf.
LEMMA DissectorNextSteps ==
  ASSUME IsDocument(doc), NEW x, Running(x), NEW j, OnOrBetween(x, j)
  PROVE  Advances(x, j, DissectorNext(x))
<1> DEFINE p == Skip(x.reader)
<1>1. DissectorNext(x) = NextWith(x, ReaderNext(p.val))
  BY DEF DissectorNext, NextBy, NextWith, Reading, MarkElemStart, WithReader
<1>2. p.val \in ReaderType
  BY DissectorFields, SkipStaysIn, InnermostWhole DEF Running, Typed, OnOrBetween, Inside
<1>3. \A i : p.err = NoError /\ p.val.elem = NoElement /\ Passed(p.val, i)
             => Advanced(p.val, i, ReaderNext(p.val))
  BY <1>2, ReaderNextAdvances
<1> QED BY <1>1, <1>3, NextWithSteps

\* Next for an element of an expected type and tag.
LEMMA DissectorNextOfSteps ==
  ASSUME IsDocument(doc), NEW x, Running(x), NEW j, OnOrBetween(x, j), NEW type, NEW tag
  PROVE  Advances(x, j, DissectorNextOf(x, type, tag))
<1> DEFINE p == Skip(x.reader)
<1>1. DissectorNextOf(x, type, tag) = NextWith(x, ReaderNextOf(p.val, type, tag))
  BY DEF DissectorNextOf, NextBy, NextWith, Reading, MarkElemStart, WithReader
<1>2. p.val \in ReaderType
  BY DissectorFields, SkipStaysIn, InnermostWhole DEF Running, Typed, OnOrBetween, Inside
<1>3. \A i : p.err = NoError /\ p.val.elem = NoElement /\ Passed(p.val, i)
             => Advanced(p.val, i, ReaderNextOf(p.val, type, tag))
  BY <1>2, ReaderNextOfAdvances
<1> QED BY <1>1, <1>3, NextWithSteps

\* What is kept of a container that was entered.
LEMMA EntryFields ==
  ASSUME NEW x, Typed(x), NEW k \in 1..Len(x.stack)
  PROVE  /\ x.stack[k] \in Entry /\ x.stack[k].outer \in ContainerTypes \ {"unknown"}
         /\ x.stack[k].item \in ItemType /\ x.stack[k].start \in Nat /\ x.stack[k].len \in Nat
<1>1. x.stack \in Seq(Entry) /\ Len(x.stack) \in Nat
  BY DissectorFields DEF Typed
<1>2. x.stack[k] \in Entry
  BY <1>1
<1> QED BY <1>2 DEF Entry

\* The stack has room for one more container.
LEMMA RoomIsEnough ==
  ASSUME NEW x, Typed(x)
  PROVE  Room(x) \in Nat /\ Len(x.stack) + 1 <= Room(x)
<1>1. x.room \in Nat /\ Len(x.stack) \in Nat /\ Len(x.stack) <= x.room
  BY DissectorFields DEF Typed
<1>2. FirstStackSize \in Nat /\ FirstStackSize >= 1
  BY StackAssumption
<1>3. CASE x.room = 0
  BY <1>1, <1>2, <1>3 DEF Room
<1>4. CASE x.room # 0 /\ x.room = Len(x.stack)
  BY <1>1, <1>4 DEF Room
<1>5. CASE x.room # 0 /\ x.room # Len(x.stack)
  BY <1>1, <1>5 DEF Room
<1> QED BY <1>3, <1>4, <1>5

\* What the push of a container leaves.
LEMMA PushSteps ==
  ASSUME NEW x, Typed(x), NEW type \in ContainerTypes \ {"unknown"}, x.start + x.len <= doc.len,
         IsDocument(doc), NEW y, y = PushContainer(x, type)
  PROVE  /\ Typed(y) /\ y.reader = x.reader /\ y.start = x.start /\ y.len = x.len /\ y.item = x.item
         /\ Len(y.stack) = Len(x.stack) + 1
         /\ \A k \in 1..Len(x.stack) : y.stack[k] = x.stack[k]
         /\ y.stack[Len(x.stack) + 1] = [outer |-> type, item |-> x.item, start |-> x.start, len |-> x.len]
<1> DEFINE e == [outer |-> type, item |-> x.item, start |-> x.start, len |-> x.len]
<1>1. /\ x \in DissectorType /\ x.start \in 0..doc.len /\ x.len \in 0..doc.len /\ x.item \in ItemType
      /\ x.stack \in Seq(Entry) /\ x.room \in Nat /\ Len(x.stack) \in Nat /\ doc.len \in Nat
  BY DissectorFields, DocumentTypes DEF Typed
<1>2. e \in Entry
  BY <1>1 DEF Entry
<1>3. y = [x EXCEPT !.room = Room(x), !.stack = Append(x.stack, e)]
  BY DEF PushContainer
<1> HIDE DEF e
<1>4. /\ Append(x.stack, e) \in Seq(Entry) /\ Len(Append(x.stack, e)) = Len(x.stack) + 1
      /\ \A k \in 1..Len(x.stack) : Append(x.stack, e)[k] = x.stack[k]
      /\ Append(x.stack, e)[Len(x.stack) + 1] = e
  BY <1>1, <1>2
<1>5. Room(x) \in Nat /\ Len(x.stack) + 1 <= Room(x)
  BY RoomIsEnough
<1>6. /\ y \in DissectorType /\ y.reader = x.reader /\ y.start = x.start /\ y.len = x.len
      /\ y.item = x.item /\ y.stack = Append(x.stack, e) /\ y.room = Room(x)
  BY <1>1, <1>3, <1>4, <1>5 DEF DissectorType
<1>7. e.start + e.len <= doc.len
  BY DEF e
<1>8. \A k \in 1..Len(y.stack) : y.stack[k].start + y.stack[k].len <= doc.len
  <2> TAKE k \in 1..Len(y.stack)
  <2>1. k \in 1..Len(x.stack) \/ k = Len(x.stack) + 1
    BY <1>1, <1>4, <1>6
  <2> QED BY <1>4, <1>6, <1>7, <2>1 DEF Typed
<1>9. Typed(y)
  BY <1>4, <1>5, <1>6, <1>8 DEF Typed
<1> QED BY <1>4, <1>6, <1>9 DEF e

\* EnterContainer goes into the container that the dissector is on.
LEMMA DissectorEnterSteps ==
  ASSUME IsDocument(doc), NEW x, Running(x), NEW j, OnOrBetween(x, j), NEW o, o = DissectorEnter(x)
  PROVE  /\ Typed(o.val) /\ o.err \in Errors /\ o.err # Crash /\ o.err # EndOfTLV
         /\ IF IsOnContainer(x.reader)
            THEN /\ o.err = NoError /\ Running(o.val) /\ OnOrBetween(o.val, j)
                 /\ o.val.reader.elem = NoElement
                 /\ Len(o.val.stack) = Len(x.stack) + 1
                 /\ Container(o.val, Len(x.stack) + 1) = j
                 /\ \A k \in 1..Len(x.stack) : Container(o.val, k) = Container(x, k)
                 /\ o.val.start = x.start /\ o.val.len = x.len
            ELSE o.err # NoError /\ o.val.stack = x.stack
<1> DEFINE c == Innermost(x)
           b == Len(x.stack)
           p == EnterContainer(x.reader)
           y == WithReader(x, p.val)
<1>1. /\ Typed(x) /\ StackOK(x) /\ x.reader \in ReaderType /\ b \in Nat /\ x.start + x.len <= doc.len
      /\ Whole(c, b) /\ IsIn(x.reader, c, b, j) /\ ItemAgrees(x.item, x.start, x.len)
  BY DissectorFields, InnermostWhole DEF Running, Typed, OnOrBetween, Inside
<1>2. /\ p.val \in ReaderType
      /\ IF IsOnContainer(x.reader)
         THEN /\ p.err = NoError /\ p.val.elem = NoElement /\ p.val.container = x.reader.elem.type
              /\ \A i : Passed(x.reader, i) => Passed(p.val, i)
         ELSE p.err = "INCORRECT_STATE" /\ p.val = x.reader
  BY <1>1, EnterSteps DEF IsOnContainer
<1>3. /\ Typed(y) /\ y.reader = p.val /\ y.start = x.start /\ y.len = x.len /\ y.item = x.item
      /\ y.stack = x.stack
  BY <1>1, <1>2, OtherReader
<1>4. CASE ~ IsOnContainer(x.reader)
  <2>1. o.val = y /\ o.err = "INCORRECT_STATE"
    BY <1>2, <1>4 DEF DissectorEnter, Reading, Outcome, NoError
  <2> QED BY <1>3, <1>4, <2>1 DEF Errors, NoError, Crash, EndOfTLV
<1>5. CASE IsOnContainer(x.reader)
  <2> DEFINE type == x.reader.container
             e == [outer |-> type, item |-> x.item, start |-> x.start, len |-> x.len]
  <2>1. o.val = PushContainer(y, type) /\ o.err = NoError
    BY <1>2, <1>5 DEF DissectorEnter, Reading, OK, Outcome
  <2>2. type = Kind(c) /\ type \in ContainerTypes \ {"unknown"}
    <3>1. type = Kind(c)
      BY <1>1 DEF IsIn
    <3>2. c # 0 => doc.toks[c].type \in Containers
      BY <1>1 DEF Whole, IsContainer
    <3> QED BY <3>1, <3>2 DEF Kind, ContainerTypes, Containers
  <2> HIDE DEF y, type
  <2>3. /\ Typed(o.val) /\ o.val.reader = p.val /\ o.val.start = x.start /\ o.val.len = x.len
        /\ o.val.item = x.item /\ Len(o.val.stack) = b + 1
        /\ \A k \in 1..b : o.val.stack[k] = x.stack[k]
        /\ o.val.stack[b + 1] = e
    BY <1>1, <1>3, <2>1, <2>2, PushSteps
  <2>4. x.reader.elem # NoElement /\ x.reader.elem.type \in Containers
    BY <1>5 DEF IsOnContainer, NoElement, Containers
  <2>5. /\ IsExtentOf(x.start, x.len, j) /\ Passed(x.reader, j) /\ c < j /\ doc.depth[j - 1] = b
        /\ \A k \in c..j - 1 : doc.depth[k] >= b
    BY <1>1, <2>4 DEF OnOrBetween, IsIn, LevelAt
  <2>6. /\ j \in 1..Len(doc.toks) /\ x.reader.elem.type = doc.toks[j].type
        /\ doc.depth[j] = b + 1
    <3>1. /\ j \in 1..Len(doc.toks) /\ x.reader.elem.type = doc.toks[j].type
          /\ doc.depth[j] = LevelAt(x.reader, j) + Nesting(x.reader.elem)
      BY <2>4, <2>5, LevelType
    <3>2. LevelAt(x.reader, j) = b /\ Nesting(x.reader.elem) = 1
      BY <1>1, <2>4 DEF IsIn, Nesting
    <3> QED BY <3>1, <3>2
  <2>7. \A k \in 0..b : Container(o.val, k) = Container(x, k)
    <3> TAKE k \in 0..b
    <3>1. k = 0 \/ k \in 1..b
      BY <1>1
    <3> QED BY <2>3, <3>1 DEF Container
  <2>8. Container(o.val, b + 1) = j
    <3>1. Container(o.val, b + 1) = TokenAt(x.start)
      BY <1>1, <2>3 DEF Container
    <3> QED BY <2>5, <3>1, ExtentType
  <2>9. Stands(e, j, b + 1, c)
    <3>1. doc.depth[j] = b + 1 /\ b + 1 - 1 = b
      BY <1>1, <2>6
    <3>2. IsContainer(doc, j)
      BY <2>4, <2>6 DEF IsContainer
    <3>3. e.start = x.start /\ e.len = x.len /\ e.item = x.item /\ e.outer = Kind(c)
      BY <2>2
    <3> HIDE DEF e
    <3> QED BY <1>1, <2>5, <3>1, <3>2, <3>3 DEF Stands
  <2>10. StackOK(o.val)
    <3> SUFFICES ASSUME NEW k \in 1..Len(o.val.stack)
                 PROVE  Stands(o.val.stack[k], Container(o.val, k), k, Container(o.val, k - 1))
      BY DEF StackOK
    <3>1. CASE k = b + 1
      <4>1. Container(o.val, k - 1) = c
        BY <1>1, <2>7, <3>1 DEF Innermost
      <4> QED BY <2>3, <2>8, <2>9, <3>1, <4>1
    <3>2. CASE k \in 1..b
      <4>1. k \in 0..b /\ k - 1 \in 0..b
        BY <1>1, <3>2
      <4>2. Stands(x.stack[k], Container(x, k), k, Container(x, k - 1))
        BY <1>1, <3>2 DEF StackOK
      <4> QED BY <2>3, <2>7, <3>2, <4>1, <4>2
    <3> QED BY <1>1, <2>3, <3>1, <3>2
  <2>11. Innermost(o.val) = j
    BY <2>3, <2>8 DEF Innermost
  <2>12. Inside(o.val, j)
    <3>1. Passed(p.val, j) /\ p.val.elem = NoElement /\ p.val.container = doc.toks[j].type
      BY <1>2, <1>5, <2>5, <2>6
    <3>2. LevelAt(p.val, j) = b + 1 /\ p.val.container = Kind(j) /\ j <= j
      BY <2>6, <3>1 DEF LevelAt, Kind
    <3>3. \A k \in j..j - 1 : doc.depth[k] >= b + 1
      BY <2>6
    <3>4. IsIn(p.val, j, b + 1, j)
      BY <3>1, <3>2, <3>3 DEF IsIn
    <3> QED BY <2>3, <2>11, <3>4 DEF Inside
  <2>13. OnOrBetween(o.val, j) /\ o.val.reader.elem = NoElement
    <3>1. o.val.reader.elem = NoElement /\ NoElement.type # "end"
      BY <1>2, <1>5, <2>3 DEF NoElement
    <3> QED BY <2>12, <3>1 DEF OnOrBetween
  <2>14. Running(o.val)
    BY <1>1, <2>3, <2>5, <2>6, <2>10, <2>13 DEF Running
  <2>15. o.err \in Errors /\ o.err # Crash /\ o.err # EndOfTLV
    BY <2>1 DEF Errors, NoError, Crash, EndOfTLV
  <2>16. \A k \in 1..b : Container(o.val, k) = Container(x, k)
    <3>1. \A k \in 1..b : k \in 0..b
      BY <1>1
    <3> QED BY <2>7, <3>1
  <2> QED BY <1>5, <2>1, <2>3, <2>8, <2>13, <2>14, <2>15, <2>16
<1> QED BY <1>4, <1>5

\* What the pop of a container leaves.
LEMMA PopSteps ==
  ASSUME NEW x, Typed(x), x.stack # << >>, IsDocument(doc), NEW y, y = PopContainer(x)
  PROVE  LET e == x.stack[Len(x.stack)]
         IN  /\ Typed(y) /\ y.reader = x.reader /\ y.start = e.start /\ y.len = e.len /\ y.item = e.item
             /\ Len(y.stack) = Len(x.stack) - 1
             /\ \A k \in 1..Len(x.stack) - 1 : y.stack[k] = x.stack[k]
             /\ y.start + y.len <= doc.len
<1> DEFINE b == Len(x.stack)
           e == x.stack[b]
           s == SubSeq(x.stack, 1, b - 1)
<1>1. /\ x \in DissectorType /\ x.stack \in Seq(Entry) /\ b \in Nat /\ x.room \in Nat /\ b <= x.room
      /\ doc.len \in Nat
  BY DissectorFields, DocumentTypes DEF Typed
<1>2. b >= 1 /\ b \in 1..b
  BY <1>1
<1>3. e.item \in ItemType /\ e.start \in Nat /\ e.len \in Nat /\ e.start + e.len <= doc.len
  BY <1>2, EntryFields DEF Typed
<1>4. e.start \in 0..doc.len /\ e.len \in 0..doc.len
  BY <1>1, <1>3
<1>5. s \in Seq(Entry) /\ Len(s) = b - 1 /\ \A k \in 1..b - 1 : s[k] = x.stack[k]
  BY <1>1, <1>2
<1>6. y = [x EXCEPT !.stack = s, !.item = e.item, !.start = e.start, !.len = e.len]
  BY DEF PopContainer
<1> HIDE DEF e, s, b
<1>7. /\ y \in DissectorType /\ y.reader = x.reader /\ y.start = e.start /\ y.len = e.len
      /\ y.item = e.item /\ y.stack = s /\ y.room = x.room
  BY <1>1, <1>3, <1>4, <1>5, <1>6 DEF DissectorType
<1>8. \A k \in 1..Len(y.stack) : y.stack[k].start + y.stack[k].len <= doc.len
  <2> TAKE k \in 1..Len(y.stack)
  <2>1. k \in 1..b - 1 /\ k \in 1..b
    BY <1>1, <1>5, <1>7
  <2>2. x.stack[k].start + x.stack[k].len <= doc.len
    BY <2>1 DEF Typed, b
  <2> QED BY <1>5, <1>7, <2>1, <2>2
<1>9. Typed(y)
  BY <1>1, <1>5, <1>7, <1>8 DEF Typed
<1> QED BY <1>3, <1>5, <1>7, <1>9 DEF e, b

\* ExitContainer goes behind the innermost container and back to what is known of it.
LEMMA DissectorExitSteps ==
  ASSUME IsDocument(doc), NEW x, Typed(x), StackOK(x), x.stack # << >>, NEW j, Inside(x, j),
         NEW o, o = DissectorExit(x)
  PROVE  /\ Typed(o.val) /\ o.err \in Errors /\ o.err # Crash
         /\ Len(o.val.stack) = Len(x.stack) - 1
         /\ o.err = NoError =>
              /\ Running(o.val) /\ o.val.reader.elem = NoElement
              /\ OnOrBetween(o.val, doc.last[Innermost(x)])
              /\ IsExtentOf(o.val.start, o.val.len, Innermost(x))
              /\ \A k \in 0..Len(x.stack) - 1 : Container(o.val, k) = Container(x, k)
              /\ doc.last[Innermost(x)] >= j
              /\ \A k \in j..doc.last[Innermost(x)] - 1 : doc.depth[k] >= Len(x.stack)
<1> DEFINE c == Innermost(x)
           b == Len(x.stack)
           e == x.stack[b]
           f == Container(x, b - 1)
           p == ExitContainer(x.reader, e.outer)
           y == PopContainer(x)
           z == WithReader(y, p.val)
<1>1. /\ x.reader \in ReaderType /\ b \in Nat /\ b >= 1 /\ b \in 1..b
      /\ Whole(c, b) /\ IsIn(x.reader, c, b, j) /\ c # 0 /\ Stands(e, c, b, f)
  <2>1. x \in DissectorType /\ x.stack \in Seq(Entry) /\ x.reader \in ReaderType /\ b \in Nat
    BY DissectorFields DEF Typed
  <2>2. b >= 1
    BY <2>1
  <2>3. Whole(c, b) /\ IsIn(x.reader, c, b, j) /\ c # 0 /\ Stands(e, c, b, f)
    BY <2>1, InnermostWhole, InnermostIs DEF Inside
  <2> QED BY <2>1, <2>2, <2>3
<1>2. /\ Typed(y) /\ y.reader = x.reader /\ y.start = e.start /\ y.len = e.len /\ y.item = e.item
      /\ Len(y.stack) = b - 1 /\ \A k \in 1..b - 1 : y.stack[k] = x.stack[k]
      /\ y.start + y.len <= doc.len
  BY PopSteps
<1>3. e.outer \in ContainerTypes \ {"unknown"}
  BY <1>1, EntryFields
<1>4. Passed(x.reader, j) /\ b = LevelAt(x.reader, j) /\ c <= j /\ \A k \in c..j - 1 : doc.depth[k] >= b
  BY <1>1 DEF IsIn
<1>5. /\ p.val \in ReaderType /\ p.err \in Errors /\ p.err # Crash
      /\ p.err = NoError =>
           /\ p.val.elem = NoElement /\ p.val.container = e.outer
           /\ \E i \in j..Len(doc.toks) :
                /\ i >= 1 /\ Passed(p.val, i) /\ doc.toks[i].type = "end" /\ doc.depth[i] = b - 1
                /\ \A k \in j..i - 1 : doc.depth[k] >= b
  <2>1. e.outer \in ContainerTypes
    BY <1>3
  <2> HIDE DEF e, b
  <2> QED BY <1>1, <1>4, <2>1, ExitPasses
<1>6. o.val = z /\ o.err = p.err
  BY DEF DissectorExit, Reading, OK, Outcome, WithReader, NoError
<1> HIDE DEF y
<1>7. /\ Typed(z) /\ z.reader = p.val /\ z.start = e.start /\ z.len = e.len /\ z.item = e.item
      /\ z.stack = y.stack
  BY <1>2, <1>5, OtherReader
<1>8. ASSUME p.err = NoError
      PROVE  /\ Running(z) /\ z.reader.elem = NoElement /\ OnOrBetween(z, doc.last[c])
             /\ IsExtentOf(z.start, z.len, c)
             /\ \A k \in 0..b - 1 : Container(z, k) = Container(x, k)
             /\ doc.last[c] >= j
             /\ \A k \in j..doc.last[c] - 1 : doc.depth[k] >= b
  <2>1. PICK i \in j..Len(doc.toks) :
          /\ i >= 1 /\ Passed(p.val, i) /\ doc.toks[i].type = "end" /\ doc.depth[i] = b - 1
          /\ \A k \in j..i - 1 : doc.depth[k] >= b
    BY <1>5, <1>8
  <2>2. j \in Nat /\ c \in 1..Len(doc.toks) /\ Len(doc.toks) \in Nat
    <3>1. j \in Nat
      BY <1>4, LevelType
    <3> QED BY <1>1, <3>1, DocumentTypes DEF Whole
  <2>3. \A k \in c..i - 1 : doc.depth[k] >= b
    <3>1. \A k \in c..i - 1 : k \in c..j - 1 \/ k \in j..i - 1
      BY <2>1, <2>2
    <3> QED BY <1>4, <2>1, <3>1
  <2>4. i = doc.last[c]
    <3>1. c \in 1..Len(doc.toks) /\ doc.toks[c].type \in Containers /\ doc.depth[c] = b
      BY <1>1, <2>2 DEF Whole, IsContainer
    <3>2. i # c
      BY <2>1, <3>1 DEF Containers
    <3>3. i \in c + 1..Len(doc.toks)
      BY <1>4, <2>1, <2>2, <3>2
    <3>4. doc.depth[i] = doc.depth[c] - 1 /\ \A k \in c + 1..i - 1 : doc.depth[k] # doc.depth[c] - 1
      <4>1. \A k \in c + 1..i - 1 : doc.depth[k] >= b
        BY <2>2, <2>3
      <4>2. \A k \in c + 1..i - 1 : doc.depth[k] # b - 1
        <5>1. \A k \in c + 1..i - 1 : k \in 0..Len(doc.toks)
          BY <2>1, <2>2
        <5>2. \A k \in c + 1..i - 1 : doc.depth[k] \in Int
          BY <5>1, DocumentTypes
        <5> QED BY <1>1, <4>1, <5>2
      <4> QED BY <2>1, <3>1, <4>2
    <3> QED BY <3>1, <3>3, <3>4, LastOfContainer
  <2>5. \A k \in 0..b - 1 : Container(z, k) = Container(x, k)
    <3> TAKE k \in 0..b - 1
    <3>1. k = 0 \/ k \in 1..b - 1
      BY <1>1
    <3> QED BY <1>2, <1>7, <3>1 DEF Container
  <2>6. StackOK(z)
    <3> SUFFICES ASSUME NEW k \in 1..Len(z.stack)
                 PROVE  Stands(z.stack[k], Container(z, k), k, Container(z, k - 1))
      BY DEF StackOK
    <3>1. k \in 1..b /\ k \in 1..b - 1 /\ k \in 0..b - 1 /\ k - 1 \in 0..b - 1
      BY <1>1, <1>2, <1>7
    <3>2. Stands(x.stack[k], Container(x, k), k, Container(x, k - 1))
      BY <3>1 DEF StackOK
    <3> QED BY <1>2, <1>7, <2>5, <3>1, <3>2
  <2>7. Innermost(z) = f /\ Len(z.stack) = b - 1
    BY <1>1, <1>2, <1>7, <2>5 DEF Innermost
  <2>8. /\ IsExtentOf(e.start, e.len, c) /\ ItemAgrees(e.item, e.start, e.len) /\ e.outer = Kind(f)
        /\ f < c /\ \A k \in f..c - 1 : doc.depth[k] >= b - 1
    BY <1>1 DEF Stands
  <2>9. f \in 0..Len(doc.toks)
    <3>1. CASE b = 1
      BY <2>2, <3>1 DEF Container
    <3>2. CASE b > 1
      <4>1. b - 1 \in 1..b
        BY <1>1, <3>2
      <4>2. Stands(x.stack[b - 1], f, b - 1, Container(x, b - 1 - 1))
        BY <4>1 DEF StackOK
      <4> QED BY <2>2, <4>2 DEF Stands, IsExtentOf
    <3>3. b = 1 \/ b > 1
      <4>1. b \in Nat /\ b >= 1
        BY <1>1
      <4> HIDE DEF b
      <4> QED BY <4>1
    <3> QED BY <3>1, <3>2, <3>3
  <2>10. IsIn(p.val, f, b - 1, i)
    <3>1. f <= i
      BY <1>4, <2>1, <2>2, <2>8, <2>9
    <3>2. p.val.elem = NoElement /\ LevelAt(p.val, i) = b - 1 /\ p.val.container = Kind(f)
      BY <1>5, <1>8, <2>1, <2>8 DEF LevelAt
    <3>3. \A k \in f..i - 1 : doc.depth[k] >= b - 1
      <4> TAKE k \in f..i - 1
      <4>1. k \in f..c - 1 \/ k \in c..i - 1
        BY <2>1, <2>2, <2>9
      <4>2. k \in 0..Len(doc.toks)
        BY <2>1, <2>2, <2>9
      <4>3. doc.depth[k] \in Int
        BY <4>2, DocumentTypes
      <4> QED BY <1>1, <2>3, <2>8, <4>1, <4>3
    <3> QED BY <2>1, <3>1, <3>2, <3>3 DEF IsIn
  <2>11. OnOrBetween(z, i) /\ z.reader.elem = NoElement
    <3>1. z.reader.elem = NoElement /\ NoElement.type # "end"
      BY <1>5, <1>7, <1>8 DEF NoElement
    <3> QED BY <1>7, <2>7, <2>10, <3>1 DEF OnOrBetween, Inside
  <2>12. IsExtentOf(z.start, z.len, c) /\ ItemAgrees(z.item, z.start, z.len) /\ z.start + z.len <= doc.len
    BY <1>2, <1>7, <2>8
  <2>13. Running(z)
    BY <1>7, <2>2, <2>6, <2>11, <2>12 DEF Running
  <2> HIDE DEF z
  <2> QED BY <2>1, <2>2, <2>4, <2>5, <2>11, <2>12, <2>13
<1> HIDE DEF z
<1> QED BY <1>2, <1>5, <1>6, <1>7, <1>8
-----------------------------------------------------------------------------
(***************************************************************************)
(* The operations that add items.                                          *)
(***************************************************************************)
LEMMA AddItemKeeps ==
  ASSUME NEW x, Typed(x), NEW y, y = AddItem(x)
  PROVE  /\ Typed(y) /\ y.reader = x.reader /\ y.start = x.start /\ y.len = x.len /\ y.stack = x.stack
         /\ ItemAgrees(y.item, y.start, y.len)
         /\ \A k : Container(y, k) = Container(x, k)
         /\ \A j : OnOrBetween(x, j) => OnOrBetween(y, j)
         /\ Running(x) => Running(y)
<1>1. Item(x) \in ItemType /\ ItemAgrees(Item(x), x.start, x.len)
  <2>1. x.start \in 0..doc.len /\ x.len \in 0..doc.len
    BY DissectorFields DEF Typed
  <2>2. x.start \in Nat /\ x.len \in Nat
    BY <2>1
  <2> QED BY <2>2 DEF Item, ItemType, ItemAgrees
<1>2. /\ Typed(y) /\ y.reader = x.reader /\ y.start = x.start /\ y.len = x.len /\ y.stack = x.stack
      /\ y.item = Item(x)
  BY <1>1, OtherItem DEF AddItem
<1>3. /\ \A k : Container(y, k) = Container(x, k)
      /\ Innermost(y) = Innermost(x) /\ (StackOK(x) => StackOK(y))
  BY <1>2, SameStack
<1>4. \A j : OnOrBetween(x, j) => OnOrBetween(y, j)
  BY <1>2, <1>3 DEF OnOrBetween, Inside
<1>5. Running(x) => Running(y)
  BY <1>1, <1>2, <1>3, <1>4 DEF Running
<1> QED BY <1>1, <1>2, <1>3, <1>4, <1>5

\* The value of the element is fetched and an item added.
AddValue(x) == Reading(x, GetValue(x.reader), LAMBDA y : OK(AddItem(y)))

\* Such a call fails or leaves the dissector on its element.
LEMMA AddValueSteps ==
  ASSUME IsDocument(doc), NEW x, Running(x), NEW j, OnOrBetween(x, j), NEW o, o = AddValue(x)
  PROVE  /\ Typed(o.val) /\ o.err \in Errors /\ o.err # Crash /\ o.err # EndOfTLV
         /\ o.val.stack = x.stack /\ o.val.start = x.start /\ o.val.len = x.len
         /\ \A k : Container(o.val, k) = Container(x, k)
         /\ o.err = NoError =>
              /\ Running(o.val) /\ OnOrBetween(o.val, j)
              /\ x.reader.elem # NoElement /\ x.reader.elem.type \notin Containers
              /\ o.val.reader.elem.type \notin Containers /\ o.val.reader.elem # NoElement
<1> DEFINE p == GetValue(x.reader)
           y == WithReader(x, p.val)
<1>1. Typed(x) /\ StackOK(x) /\ x.reader \in ReaderType /\ x.start + x.len <= doc.len
  BY DissectorFields DEF Running, Typed
<1>2. /\ p.val \in ReaderType /\ p.err \in Errors /\ p.err # Crash /\ p.err # EndOfTLV
      /\ p.err = NoError =>
           /\ p.val.container = x.reader.container /\ p.val.elem.type = x.reader.elem.type
           /\ x.reader.elem.type \in {"number", "utf8", "bytes"}
           /\ (p.val.elem = NoElement) = (x.reader.elem = NoElement)
           /\ Passed(x.reader, j) => Passed(p.val, j) /\ LevelAt(p.val, j) = LevelAt(x.reader, j)
  BY <1>1, GetValueKeeps
<1>3. /\ Typed(y) /\ y.reader = p.val /\ y.start = x.start /\ y.len = x.len /\ y.item = x.item
      /\ y.stack = x.stack
  BY <1>1, <1>2, OtherReader
<1>4. Innermost(y) = Innermost(x) /\ StackOK(y) /\ \A k : Container(y, k) = Container(x, k)
  BY <1>1, <1>3, SameStack
<1>5. CASE p.err # NoError
  <2>1. o.val = y /\ o.err = p.err
    BY <1>5 DEF AddValue, Reading, Outcome
  <2> QED BY <1>2, <1>3, <1>4, <1>5, <2>1
<1>6. CASE p.err = NoError
  <2>1. o.val = AddItem(y) /\ o.err = NoError
    BY <1>6 DEF AddValue, Reading, OK, Outcome
  <2>2. x.reader.elem # NoElement /\ p.val.elem # NoElement /\ p.val.elem.type \notin Containers \cup {"end"}
    <3>1. x.reader.elem # NoElement
      BY <1>2, <1>6 DEF NoElement
    <3>2. p.val.elem # NoElement
      BY <1>2, <1>6, <3>1
    <3>3. p.val.elem.type \in {"number", "utf8", "bytes"}
      BY <1>2, <1>6
    <3> QED BY <3>1, <3>2, <3>3 DEF Containers
  <2>3. Inside(y, j)
    <3>1. IsIn(x.reader, Innermost(x), Len(x.stack), j)
      BY DEF OnOrBetween, Inside
    <3>2. IsIn(p.val, Innermost(x), Len(x.stack), j)
      BY <1>2, <1>6, <2>2, <3>1 DEF IsIn
    <3> QED BY <1>3, <1>4, <3>2 DEF Inside
  <2>4. OnOrBetween(y, j)
    <3>1. IsExtentOf(x.start, x.len, j)
      BY <2>2 DEF OnOrBetween
    <3> QED BY <1>3, <2>2, <2>3, <3>1 DEF OnOrBetween
  <2>5. Running(y)
    <3>1. ItemAgrees(x.item, x.start, x.len) /\ (x.len > 0 => \E i \in 1..Len(doc.toks) : IsExtentOf(x.start, x.len, i))
      BY DEF Running
    <3> QED BY <1>1, <1>3, <1>4, <2>4, <3>1 DEF Running
  <2> HIDE DEF y
  <2>6. /\ Typed(o.val) /\ o.val.reader = y.reader /\ o.val.start = y.start /\ o.val.len = y.len
        /\ o.val.stack = y.stack /\ \A k : Container(o.val, k) = Container(y, k)
        /\ OnOrBetween(o.val, j) /\ Running(o.val)
    BY <1>3, <2>1, <2>4, <2>5, AddItemKeeps
  <2>7. o.err \in Errors /\ o.err # Crash /\ o.err # EndOfTLV
    BY <2>1 DEF Errors, NoError, Crash, EndOfTLV
  <2>8. x.reader.elem.type \notin Containers
    BY <1>2, <1>6, <2>2
  <2> QED BY <1>3, <1>4, <2>2, <2>6, <2>7, <2>8
<1> QED BY <1>5, <1>6

\* The element of token j got its item and, if it is a container, was entered.
Opens(x, j, o) ==
  /\ Typed(o.val) /\ o.err \in Errors /\ o.err # EndOfTLV
  /\ o.err = NoError =>
       /\ Running(o.val) /\ OnOrBetween(o.val, j) /\ o.val.reader.elem.type \notin Containers
       /\ x.reader.elem # NoElement /\ o.val.start = x.start /\ o.val.len = x.len
       /\ \A k \in 0..Len(x.stack) : Container(o.val, k) = Container(x, k)
       /\ IF IsOnContainer(x.reader)
          THEN Len(o.val.stack) = Len(x.stack) + 1 /\ Container(o.val, Len(x.stack) + 1) = j
          ELSE Len(o.val.stack) = Len(x.stack)

\* A container gets its item and is entered.
LEMMA EnterOpens ==
  ASSUME IsDocument(doc), NEW x, Running(x), NEW j, OnOrBetween(x, j), IsOnContainer(x.reader)
  PROVE  Opens(x, j, DissectorEnter(AddItem(x))) /\ DissectorEnter(AddItem(x)).err = NoError
<1> DEFINE y == AddItem(x)
           o == DissectorEnter(y)
<1>1. /\ y.reader = x.reader /\ y.start = x.start /\ y.len = x.len /\ y.stack = x.stack
      /\ \A k : Container(y, k) = Container(x, k)
      /\ OnOrBetween(y, j) /\ Running(y)
  BY AddItemKeeps DEF Running
<1>2. IsOnContainer(y.reader) /\ x.reader.elem # NoElement
  BY <1>1 DEF IsOnContainer, NoElement, Containers
<1> HIDE DEF y
<1>3. /\ Typed(o.val) /\ o.err \in Errors /\ o.err # EndOfTLV
      /\ o.err = NoError /\ Running(o.val) /\ OnOrBetween(o.val, j)
      /\ o.val.reader.elem = NoElement
      /\ Len(o.val.stack) = Len(y.stack) + 1
      /\ Container(o.val, Len(y.stack) + 1) = j
      /\ \A k \in 1..Len(y.stack) : Container(o.val, k) = Container(y, k)
      /\ o.val.start = y.start /\ o.val.len = y.len
  BY <1>1, <1>2, DissectorEnterSteps
<1>4. \A k \in 0..Len(x.stack) : Container(o.val, k) = Container(x, k)
  <2>1. \A k \in 0..Len(x.stack) : k = 0 \/ k \in 1..Len(y.stack)
    BY <1>1, DissectorFields DEF Running, Typed
  <2> QED BY <1>1, <1>3, <2>1 DEF Container
<1>5. NoElement.type \notin Containers
  BY DEF NoElement, Containers
<1> HIDE DEF o
<1>6. Opens(x, j, o)
  BY <1>1, <1>2, <1>3, <1>4, <1>5 DEF Opens
<1> QED BY <1>3, <1>6 DEF o, y

\* One element of AddGenericTLVItem.
LEMMA GenericSteps ==
  ASSUME IsDocument(doc), NEW x, Running(x), NEW j, OnOrBetween(x, j), NEW depth, NEW suppressTag,
         NEW o, o = AddGenericTLVItem(x, depth, suppressTag)
  PROVE  Opens(x, j, o) /\ (o.err = NoError => o.shown = <<Line(x, depth)>>)
<1> DEFINE p == IF IsOnContainer(x.reader) THEN DissectorEnter(AddItem(x)) ELSE AddValue(x)
<1>1. Opens(x, j, p)
  <2>1. CASE IsOnContainer(x.reader)
    BY <2>1, EnterOpens
  <2>2. CASE ~ IsOnContainer(x.reader)
    <3> DEFINE q == AddValue(x)
    <3>1. /\ Typed(q.val) /\ q.err \in Errors /\ q.err # EndOfTLV
          /\ q.val.stack = x.stack /\ q.val.start = x.start /\ q.val.len = x.len
          /\ \A k : Container(q.val, k) = Container(x, k)
          /\ q.err = NoError =>
               /\ Running(q.val) /\ OnOrBetween(q.val, j)
               /\ x.reader.elem # NoElement /\ q.val.reader.elem.type \notin Containers
      BY AddValueSteps
    <3> HIDE DEF q
    <3>2. Opens(x, j, q)
      BY <2>2, <3>1 DEF Opens
    <3> QED BY <2>2, <3>2 DEF q
  <2> QED BY <2>1, <2>2
<1>2. /\ o = IF p.err # NoError THEN Showing(p, << >>)
             ELSE IF HasNoText(x, depth, suppressTag) THEN Showing(Outcome(p.val, Crash), <<Line(x, depth)>>)
             ELSE Showing(p, <<Line(x, depth)>>)
  BY DEF AddGenericTLVItem, AddValue, Reading, OK, Outcome, AddItem, WithReader
<1> HIDE DEF p
<1>3. o.val = p.val /\ (o.err = p.err \/ o.err = Crash) /\ (o.err = NoError => o.shown = <<Line(x, depth)>>)
  BY <1>2 DEF Showing, Outcome, Crash, NoError
<1>4. CASE o.err = p.err
  BY <1>1, <1>3, <1>4 DEF Opens
<1>5. CASE o.err = Crash
  <2>1. Crash \in Errors /\ Crash # EndOfTLV /\ Crash # NoError
    BY DEF Errors, Crash, EndOfTLV, NoError
  <2> QED BY <1>1, <1>3, <1>5, <2>1 DEF Opens
<1> QED BY <1>3, <1>4, <1>5

\* The list of AddListItem.
LEMMA ListSteps ==
  ASSUME IsDocument(doc), NEW x, Running(x), NEW j, OnOrBetween(x, j), NEW o, o = AddListItem(x)
  PROVE  /\ Opens(x, j, o) /\ (o.err = NoError => o.shown = <<Line(x, 0)>>)
         /\ o.err = NoError => IsOnContainer(x.reader)
<1>1. CASE x.reader.elem.type \notin {"array", "path"}
  <2>1. o.val = x /\ o.err = "INCORRECT_STATE"
    BY <1>1 DEF AddListItem, Showing, Outcome
  <2>2. "INCORRECT_STATE" \in Errors /\ "INCORRECT_STATE" # EndOfTLV /\ "INCORRECT_STATE" # NoError
    BY DEF Errors, EndOfTLV, NoError
  <2> QED BY <2>1, <2>2 DEF Opens, Running
<1>2. CASE x.reader.elem.type \in {"array", "path"}
  <2> DEFINE p == DissectorEnter(AddItem(x))
  <2>1. IsOnContainer(x.reader)
    BY <1>2 DEF IsOnContainer, Containers
  <2>2. Opens(x, j, p)
    BY <2>1, EnterOpens
  <2>3. o = Showing(p, <<Line(x, 0)>>)
    BY <1>2 DEF AddListItem
  <2> HIDE DEF p
  <2>4. o.val = p.val /\ o.err = p.err /\ o.shown = <<Line(x, 0)>>
    BY <2>3 DEF Showing
  <2> QED BY <2>1, <2>2, <2>4 DEF Opens
<1> QED BY <1>1, <1>2

\* The innermost container ends with token j and is left.
LEMMA LeaveSteps ==
  ASSUME IsDocument(doc), NEW x, NEW j, AtEnd(x, j), x.stack # << >>, NEW depth \in Int,
         NEW o, o = LeaveContainer(x, depth)
  PROVE  /\ Typed(o.val) /\ o.err \in Errors /\ o.err # Crash
         /\ Len(o.val.stack) = Len(x.stack) - 1
         /\ o.err = NoError =>
              /\ Running(o.val) /\ OnOrBetween(o.val, j) /\ o.val.reader.elem = NoElement
              /\ j = doc.last[Innermost(x)] /\ IsExtentOf(o.val.start, o.val.len, Innermost(x))
              /\ \A k \in 0..Len(x.stack) - 1 : Container(o.val, k) = Container(x, k)
              /\ o.shown = IF depth < 0 THEN << >> ELSE <<Line(o.val, depth)>>
<1> DEFINE p == DissectorExit(x)
           l == doc.last[Innermost(x)]
           b == Len(x.stack)
<1>1. Typed(x) /\ StackOK(x) /\ Inside(x, j) /\ x.reader.elem.type = "end"
  BY DEF AtEnd, Ended
<1>2. /\ Typed(p.val) /\ p.err \in Errors /\ p.err # Crash
      /\ Len(p.val.stack) = b - 1
      /\ p.err = NoError =>
           /\ Running(p.val) /\ p.val.reader.elem = NoElement
           /\ OnOrBetween(p.val, l)
           /\ IsExtentOf(p.val.start, p.val.len, Innermost(x))
           /\ \A k \in 0..b - 1 : Container(p.val, k) = Container(x, k)
           /\ l >= j
           /\ \A k \in j..l - 1 : doc.depth[k] >= b
  BY <1>1, DissectorExitSteps
<1> HIDE DEF p
<1>3. ASSUME p.err = NoError PROVE j = l
  <2>1. Passed(x.reader, j) /\ LevelAt(x.reader, j) = b
    BY <1>1 DEF Inside, IsIn
  <2>2. j \in Nat /\ doc.depth[j] = b + Nesting(x.reader.elem)
    BY <2>1, LevelType
  <2>3. Nesting(x.reader.elem) = -1
    BY <1>1 DEF Nesting, Containers
  <2>4. b \in Nat
    BY <1>1, DissectorFields DEF Typed
  <2>5. l \in Nat
    <3>1. l \in Innermost(x)..Len(doc.toks) /\ Innermost(x) \in 1..Len(doc.toks)
      BY <1>2, <1>3, ExtentType DEF IsExtentOf
    <3> QED BY <3>1, DocumentTypes
  <2>6. ~ (doc.depth[j] >= b)
    BY <2>2, <2>3, <2>4
  <2>7. j \notin j..l - 1
    BY <1>2, <1>3, <2>6
  <2> HIDE DEF l
  <2> QED BY <1>2, <1>3, <2>2, <2>5, <2>7
<1>4. CASE p.err # NoError
  <2>1. o.val = p.val /\ o.err = p.err
    BY <1>4 DEF LeaveContainer, Showing, p
  <2> QED BY <1>2, <1>4, <2>1
<1>5. CASE p.err = NoError /\ depth < 0
  <2>1. o.val = p.val /\ o.err = p.err /\ o.shown = << >>
    BY <1>5 DEF LeaveContainer, Showing, p
  <2> QED BY <1>2, <1>3, <1>5, <2>1
<1>6. CASE p.err = NoError /\ ~ (depth < 0)
  <2>1. o.val = AddItem(p.val) /\ o.err = p.err /\ o.shown = <<Line(p.val, depth)>>
    BY <1>6 DEF LeaveContainer, Showing, OK, Outcome, p
  <2>2. /\ Typed(o.val) /\ o.val.reader = p.val.reader /\ o.val.start = p.val.start
        /\ o.val.len = p.val.len /\ o.val.stack = p.val.stack
        /\ \A k : Container(o.val, k) = Container(p.val, k)
        /\ OnOrBetween(o.val, l) /\ Running(o.val)
    BY <1>2, <1>6, <2>1, AddItemKeeps
  <2>3. Line(p.val, depth) = Line(o.val, depth)
    BY <2>2 DEF Line
  <2>4. OnOrBetween(o.val, j) /\ j = doc.last[Innermost(x)]
    BY <1>3, <1>6, <2>2
  <2>5. IsExtentOf(o.val.start, o.val.len, Innermost(x)) /\ o.val.reader.elem = NoElement
    BY <1>2, <1>6, <2>2
  <2>6. \A k \in 0..b - 1 : Container(o.val, k) = Container(x, k)
    BY <1>2, <1>6, <2>2
  <2>7. o.shown = IF depth < 0 THEN << >> ELSE <<Line(o.val, depth)>>
    BY <1>6, <2>1, <2>3
  <2>8. Len(o.val.stack) = b - 1 /\ o.err \in Errors /\ o.err # Crash
    BY <1>2, <2>1, <2>2
  <2> QED BY <2>2, <2>4, <2>5, <2>6, <2>7, <2>8
<1> QED BY <1>4, <1>5, <1>6
-----------------------------------------------------------------------------
(***************************************************************************)
(* The inductive invariant: a dissector that has not failed is Running, at *)
(* the end of a container it is Ended, and members are shown only in       *)
(* containers that are on the stack.                                       *)
(***************************************************************************)
Inv ==
  /\ doc \in Documents /\ calls \in 0..MaxCalls /\ err \in Errors
  /\ task \in {Idle, "Generic", "List"} /\ within \in 0..Len(d.stack)
  /\ task # Idle <=> within > 0
  /\ task # Idle => err = NoError
  /\ Typed(d)
  /\ err = NoError => Running(d)
  /\ err = EndOfTLV /\ call.op = "Next" /\ d.stack # << >> => Ended(d)

\* TLVDissector::Init has entered no container and is before the first element.
LEMMA InitInv == Init => Inv
<1> SUFFICES ASSUME Init PROVE Inv
  OBVIOUS
<1>1. /\ IsDocument(doc) /\ doc \in Documents /\ calls = 0 /\ err = NoError /\ task = Idle /\ within = 0
      /\ d = InitDissector
  BY DocumentsAssumption DEF Init
<1>2. doc.len \in Nat
  BY <1>1, DocumentTypes
<1>3. InitReader \in ReaderType /\ InitReader.elem = NoElement
  BY <1>2 DEF InitReader, ReaderType, ContainerTypes
<1>4. d \in DissectorType /\ d.stack = << >> /\ Len(d.stack) = 0 /\ d.room = 0 /\ d.len = 0 /\ d.start = 0
      /\ d.reader = InitReader /\ d.item = NoItem
  <2>1. << >> \in Seq(Entry) /\ Len(<< >>) = 0
    OBVIOUS
  <2> QED BY <1>1, <1>2, <1>3, <2>1, NoItemType DEF InitDissector, DissectorType
<1>5. Typed(d) /\ StackOK(d) /\ Innermost(d) = 0
  BY <1>4 DEF Typed, StackOK, Innermost, Container
<1>6. OnOrBetween(d, 0)
  <2>1. Passed(InitReader, 0)
    <3>1. InitReader.at = 0 /\ Unread(InitReader) = 0
      BY DEF InitReader, Unread, NoElement, Strings
    <3>2. doc.start[0 + 1] = 0 /\ 0 \in 0..Len(doc.toks) /\ 0 <= doc.len
      BY <1>1, <1>2, DocumentTypes
    <3> QED BY <1>3, <3>1, <3>2 DEF Passed
  <2>2. LevelAt(InitReader, 0) = 0
    BY <1>1, <1>3, DocumentTypes DEF LevelAt
  <2>3. InitReader.container = Kind(0)
    BY DEF InitReader, Kind
  <2>4. IsIn(InitReader, 0, 0, 0)
    BY <1>3, <2>1, <2>2, <2>3 DEF IsIn
  <2>5. NoElement.type # "end"
    BY DEF NoElement
  <2> QED BY <1>3, <1>4, <1>5, <2>4, <2>5 DEF OnOrBetween, Inside
<1>7. Running(d)
  BY <1>2, <1>4, <1>5, <1>6, NoItemType DEF Running, ItemAgrees
<1>8. calls \in 0..MaxCalls /\ err \in Errors /\ within \in 0..Len(d.stack) /\ err # EndOfTLV
  BY <1>1, <1>4, CallsAssumption DEF Errors, NoError, EndOfTLV
<1> QED BY <1>1, <1>5, <1>7, <1>8 DEF Inv

\* The document stays the same in every step, and with it what is said of a dissector.
LEMMA SameDocument ==
  ASSUME doc' = doc, NEW x
  PROVE  /\ Typed(x)' <=> Typed(x)
         /\ Running(x)' <=> Running(x)
         /\ Ended(x)' <=> Ended(x)
         /\ \A j : OnOrBetween(x, j)' <=> OnOrBetween(x, j)
         /\ \A k : Container(x, k)' = Container(x, k)
<1>1. Typed(x)' <=> Typed(x)
  BY DEF Typed, DissectorType, ReaderType
<1>2. \A p : TokenAt(p)' = TokenAt(p)
  BY DEF TokenAt
<1>3. \A k : Container(x, k)' = Container(x, k)
  BY <1>2 DEF Container
<1>4. \A start, len, i : IsExtentOf(start, len, i)' <=> IsExtentOf(start, len, i)
  BY DEF IsExtentOf
<1>5. \A c : Kind(c)' = Kind(c)
  BY DEF Kind
<1>6. \A e, c, k, p : Stands(e, c, k, p)' <=> Stands(e, c, k, p)
  BY <1>4, <1>5 DEF Stands
<1>7. StackOK(x)' <=> StackOK(x)
  BY <1>3, <1>6 DEF StackOK
<1>8. Innermost(x)' = Innermost(x)
  BY <1>3 DEF Innermost
<1>9. \A r, j : /\ Passed(r, j)' <=> Passed(r, j)
                /\ LevelAt(r, j)' = LevelAt(r, j)
  BY DEF Passed, LevelAt
<1>10. \A r, c, b, j : IsIn(r, c, b, j)' <=> IsIn(r, c, b, j)
  BY <1>5, <1>9 DEF IsIn
<1>11. \A j : Inside(x, j)' <=> Inside(x, j)
  BY <1>8, <1>10 DEF Inside
<1>12. \A j : OnOrBetween(x, j)' <=> OnOrBetween(x, j)
  BY <1>4, <1>11 DEF OnOrBetween
<1>13. Running(x)' <=> Running(x)
  BY <1>1, <1>4, <1>7, <1>12 DEF Running
<1>14. Ended(x)' <=> Ended(x)
  BY <1>1, <1>7, <1>11 DEF Ended
<1> QED BY <1>1, <1>3, <1>12, <1>13, <1>14

\* A step to the outcome o of the operation op.
LEMMA StepInv ==
  ASSUME Inv, doc' = doc, NEW o, d' = o.val, err' = o.err, Typed(o.val), o.err \in Errors,
         o.err = NoError => Running(o.val),
         calls' \in 0..MaxCalls, within' \in 0..Len(o.val.stack), task' \in {Idle, "Generic", "List"},
         task' # Idle <=> within' > 0, task' # Idle => o.err = NoError,
         o.err = EndOfTLV /\ call'.op = "Next" /\ o.val.stack # << >> => Ended(o.val)
  PROVE  Inv'
<1>1. Typed(d)' /\ (err' = NoError => Running(d)')
  BY SameDocument
<1>2. err' = EndOfTLV /\ call'.op = "Next" /\ d'.stack # << >> => Ended(d)'
  BY SameDocument
<1> QED BY <1>1, <1>2 DEF Inv

\* A call that is over at once.
LEMMA CalledInv ==
  ASSUME Inv, NEW c, NEW o, Called(c, o), Typed(o.val), o.err \in Errors,
         o.err = NoError => Running(o.val),
         o.err = EndOfTLV /\ c.op = "Next" /\ o.val.stack # << >> => Ended(o.val)
  PROVE  Inv'
<1>1. /\ call' = c /\ calls' = calls + 1 /\ d' = o.val /\ err' = o.err /\ doc' = doc /\ task' = Idle
      /\ within' = within /\ task = Idle /\ calls < MaxCalls
  BY DEF Called, MayCall
<1>2. calls' \in 0..MaxCalls
  BY <1>1, CallsAssumption DEF Inv
<1>3. within' = 0 /\ within' \in 0..Len(o.val.stack)
  <2>1. Len(o.val.stack) \in Nat
    BY DissectorFields DEF Typed
  <2>2. within = 0
    <3>1. within \in 0..Len(d.stack) /\ ~ (within > 0)
      BY <1>1 DEF Inv
    <3>2. Len(d.stack) \in Nat
      BY DissectorFields DEF Inv, Typed
    <3> QED BY <3>1, <3>2
  <2> QED BY <1>1, <2>1, <2>2
<1> QED BY <1>1, <1>2, <1>3, StepInv

\* A call that goes on in n containers.
LEMMA GoesOnInv ==
  ASSUME Inv, NEW op \in {"Generic", "List"}, NEW o, NEW n \in Nat, GoesOn(op, o, n),
         Typed(o.val), o.err \in Errors, calls' \in 0..MaxCalls,
         o.err = NoError => Running(o.val) /\ n <= Len(o.val.stack)
  PROVE  Inv'
<1>1. d' = o.val /\ err' = o.err /\ doc' = doc /\ Len(o.val.stack) \in Nat
  BY DissectorFields DEF GoesOn, Typed
<1>2. CASE o.err = NoError /\ n > 0
  <2>1. task' = op /\ within' = n /\ o.err # EndOfTLV /\ op # Idle
    BY <1>2 DEF GoesOn, NoError, EndOfTLV, Idle
  <2> QED BY <1>1, <1>2, <2>1, StepInv
<1>3. CASE ~ (o.err = NoError /\ n > 0)
  <2>1. task' = Idle /\ within' = 0 /\ call'.op # "Next"
    BY <1>3 DEF GoesOn
  <2>2. within' \in 0..Len(o.val.stack) /\ ~ (within' > 0)
    BY <1>1, <2>1
  <2> QED BY <1>1, <2>1, <2>2, StepInv
<1> QED BY <1>2, <1>3

\* Where a call finds the dissector: behind a call that has not failed, or, in
\* order to leave a container, at its end.
LEMMA CallFinds ==
  ASSUME Inv, NEW op, MayCall(op)
  PROVE  /\ IsDocument(doc) /\ calls + 1 \in 0..MaxCalls /\ d.stack \in Seq(Entry)
         /\ op # "Exit" => err = NoError /\ Running(d) /\ \E j : OnOrBetween(d, j)
         /\ d.stack # << >> => StackOK(d) /\ Typed(d) /\ \E j : Inside(d, j)
<1>1. IsDocument(doc) /\ calls + 1 \in 0..MaxCalls /\ d.stack \in Seq(Entry)
  BY DocumentsAssumption, CallsAssumption, DissectorFields DEF Inv, MayCall, Typed
<1>2. err = NoError => Running(d) /\ \E j : OnOrBetween(d, j)
  BY DEF Inv, Running
<1>3. op # "Exit" => err = NoError
  BY DEF MayCall
<1>4. ASSUME d.stack # << >> PROVE StackOK(d) /\ Typed(d) /\ \E j : Inside(d, j)
  <2>1. CASE err = NoError
    BY <1>2, <2>1 DEF Running, OnOrBetween
  <2>2. CASE err # NoError
    <3>1. Ended(d)
      BY <1>4, <2>2 DEF MayCall, Inv
    <3> QED BY <3>1 DEF Ended
  <2> QED BY <2>1, <2>2
<1> QED BY <1>1, <1>2, <1>3, <1>4

\* A turn of the loop over members keeps the invariant.
LEMMA ShowMemberInv ==
  ASSUME Inv, ShowMember
  PROVE  Inv'
<1> DEFINE o == DissectorNext(d)
           p == IF o.err = EndOfTLV THEN LeaveContainer(o.val, MemberDepth - 1)
                ELSE IF o.err # NoError THEN Showing(o, << >>)
                ELSE AddGenericTLVItem(o.val, MemberDepth, FALSE)
           n == IF o.err = EndOfTLV THEN within - 1
                ELSE IF IsOnContainer(o.val.reader) THEN within + 1 ELSE within
<1>1. /\ task \in {"Generic", "List"} /\ within \in 1..Len(d.stack) /\ Len(d.stack) \in Nat
      /\ d.stack # << >> /\ Running(d) /\ IsDocument(doc) /\ calls' \in 0..MaxCalls
  <2>1. task # Idle /\ calls' = calls /\ Len(d.stack) \in Nat
    BY DissectorFields DEF ShowMember, Inv, Typed
  <2>2. within \in 1..Len(d.stack)
    BY <2>1 DEF Inv
  <2> QED BY <2>1, <2>2, DocumentsAssumption DEF Inv
<1>2. GoesOn(task, p, n)
  BY DEF ShowMember
<1>3. PICK j : OnOrBetween(d, j)
  BY <1>1 DEF Running
<1>4. Advances(d, j, o)
  BY <1>1, <1>3, DissectorNextSteps
<1> HIDE DEF o
<1> DEFINE k == TokenBehind(d, j)
<1> HIDE DEF k
<1>5. CASE o.err = EndOfTLV
  <2>1. AtEnd(o.val, k) /\ o.val.stack = d.stack
    BY <1>1, <1>4, <1>5 DEF Advances, k
  <2>2. MemberDepth - 1 \in Int
    BY <1>1 DEF MemberDepth
  <2>3. p = LeaveContainer(o.val, MemberDepth - 1) /\ n = within - 1 /\ n \in Nat
    BY <1>1, <1>5
  <2> HIDE DEF p, n
  <2>4. /\ Typed(p.val) /\ p.err \in Errors /\ Len(p.val.stack) = Len(d.stack) - 1
        /\ p.err = NoError => Running(p.val)
    <3>1. o.val.stack # << >> /\ Len(o.val.stack) = Len(d.stack)
      BY <1>1, <2>1
    <3> DEFINE m == MemberDepth - 1
    <3>2. m \in Int /\ p = LeaveContainer(o.val, m)
      BY <2>2, <2>3
    <3> HIDE DEF m
    <3>3. /\ Typed(p.val) /\ p.err \in Errors /\ p.err # Crash
          /\ Len(p.val.stack) = Len(o.val.stack) - 1
          /\ p.err = NoError => Running(p.val)
      BY <1>1, <2>1, <3>1, <3>2, LeaveSteps
    <3> QED BY <3>1, <3>3
  <2>5. n <= Len(p.val.stack)
    BY <1>1, <2>3, <2>4
  <2> QED BY <1>1, <1>2, <2>3, <2>4, <2>5, GoesOnInv
<1>6. CASE o.err # EndOfTLV /\ o.err # NoError
  <2>1. p.val = o.val /\ p.err = o.err /\ n \in Nat
    BY <1>1, <1>6 DEF Showing
  <2> HIDE DEF p, n
  <2>2. Typed(p.val) /\ p.err \in Errors /\ p.err # NoError
    BY <1>4, <1>6, <2>1 DEF Advances
  <2> QED BY <1>1, <1>2, <2>1, <2>2, GoesOnInv
<1>7. CASE o.err = NoError
  <2>1. On(o.val, k) /\ o.val.stack = d.stack
    BY <1>4, <1>7 DEF Advances, k
  <2>2. p = AddGenericTLVItem(o.val, MemberDepth, FALSE) /\ n \in Nat
        /\ n = IF IsOnContainer(o.val.reader) THEN within + 1 ELSE within
    BY <1>1, <1>7 DEF NoError, EndOfTLV
  <2> HIDE DEF p, n
  <2>3. Opens(o.val, k, p)
    BY <1>1, <2>1, <2>2, GenericSteps DEF On
  <2>4. /\ Typed(p.val) /\ p.err \in Errors
        /\ p.err = NoError => Running(p.val) /\ n <= Len(p.val.stack)
    <3>1. Typed(p.val) /\ p.err \in Errors /\ (p.err = NoError => Running(p.val))
      BY <2>3 DEF Opens
    <3>2. p.err = NoError =>
            Len(p.val.stack) = IF IsOnContainer(o.val.reader) THEN Len(d.stack) + 1 ELSE Len(d.stack)
      BY <2>1, <2>3 DEF Opens
    <3>3. p.err = NoError => n <= Len(p.val.stack)
      <4>1. CASE IsOnContainer(o.val.reader)
        <5>1. n = within + 1 /\ (p.err = NoError => Len(p.val.stack) = Len(d.stack) + 1)
          BY <2>2, <3>2, <4>1
        <5> QED BY <1>1, <5>1
      <4>2. CASE ~ IsOnContainer(o.val.reader)
        <5>1. n = within /\ (p.err = NoError => Len(p.val.stack) = Len(d.stack))
          BY <2>2, <3>2, <4>2
        <5> QED BY <1>1, <5>1
      <4> QED BY <4>1, <4>2
    <3> QED BY <3>1, <3>3
  <2> QED BY <1>1, <1>2, <2>2, <2>4, GoesOnInv
<1> QED BY <1>5, <1>6, <1>7

\* So does the call that starts such a loop.
LEMMA ShowsInv ==
  ASSUME Inv, NEW op \in {"Generic", "List"}, NEW o, Shows(op, o), NEW j, Opens(d, j, o)
  PROVE  Inv'
<1> DEFINE n == IF IsOnContainer(d.reader) THEN 1 ELSE 0
<1>1. GoesOn(op, o, n) /\ calls' \in 0..MaxCalls /\ n \in Nat /\ Len(d.stack) \in Nat
  BY CallFinds, DissectorFields DEF Shows, Inv, Typed
<1>2. o.err = NoError => Running(o.val) /\ n <= Len(o.val.stack)
  BY <1>1 DEF Opens
<1> HIDE DEF n
<1>3. Typed(o.val) /\ o.err \in Errors
  BY DEF Opens
<1> QED BY <1>1, <1>2, <1>3, GoesOnInv

\* AddTypedItem adds the value, or refuses an integer for its field.
LEMMA TypedItemIs ==
  ASSUME NEW x, NEW fits
  PROVE  LET o == AddTypedItem(x, fits)
             unfit == x.reader.elem.type = "number" /\ ~ fits
         IN  /\ ~ unfit => o.val = AddValue(x).val /\ o.err = AddValue(x).err
             /\ unfit => o.val = x /\ o.err = "INVALID_ARGUMENT"
BY DEF AddTypedItem, AddValue, Showing, Reading, OK, Outcome, AddItem, WithReader

\* Every call keeps the invariant.
LEMMA NextInv ==
  ASSUME Inv, [Next]_vars
  PROVE  Inv'
<1>1. CASE Called([op |-> "Next"], DissectorNext(d))
  <2>1. MayCall("Next")
    BY <1>1 DEF Called
  <2>2. PICK j : Running(d) /\ OnOrBetween(d, j) /\ IsDocument(doc)
    BY <2>1, CallFinds
  <2>3. Advances(d, j, DissectorNext(d))
    BY <2>2, DissectorNextSteps
  <2> QED BY <1>1, <2>3, CalledInv DEF Advances, On, AtEnd
<1>2. CASE Called([op |-> "Enter"], DissectorEnter(d))
  <2>1. MayCall("Enter")
    BY <1>2 DEF Called
  <2>2. PICK j : Running(d) /\ OnOrBetween(d, j) /\ IsDocument(doc)
    BY <2>1, CallFinds
  <2> DEFINE o == DissectorEnter(d)
  <2>3. Typed(o.val) /\ o.err \in Errors /\ o.err # EndOfTLV /\ (o.err = NoError => Running(o.val))
    BY <2>2, DissectorEnterSteps
  <2> HIDE DEF o
  <2> QED BY <1>2, <2>3, CalledInv DEF o
<1>3. CASE d.stack # << >> /\ Called([op |-> "Exit"], DissectorExit(d))
  <2>1. MayCall("Exit")
    BY <1>3 DEF Called
  <2>2. PICK j : StackOK(d) /\ Typed(d) /\ Inside(d, j) /\ IsDocument(doc)
    BY <1>3, <2>1, CallFinds
  <2> DEFINE o == DissectorExit(d)
  <2>3. Typed(o.val) /\ o.err \in Errors /\ (o.err = NoError => Running(o.val))
    BY <1>3, <2>2, DissectorExitSteps
  <2> HIDE DEF o
  <2> QED BY <1>3, <2>3, CalledInv DEF o
<1>4. ASSUME NEW e \in Expected,
             Called([op |-> "NextOf", type |-> e[1], tag |-> e[2]], DissectorNextOf(d, e[1], e[2]))
      PROVE  Inv'
  <2>1. MayCall("NextOf")
    BY <1>4 DEF Called
  <2>2. PICK j : Running(d) /\ OnOrBetween(d, j) /\ IsDocument(doc)
    BY <2>1, CallFinds
  <2>3. Advances(d, j, DissectorNextOf(d, e[1], e[2]))
    BY <2>2, DissectorNextOfSteps
  <2> QED BY <1>4, <2>3, CalledInv DEF Advances, On
<1>5. ASSUME NEW fits \in BOOLEAN,
             LET o == AddTypedItem(d, fits)
             IN  Called([op |-> "AddTyped", fits |-> fits], o) /\ shown' = o.shown
      PROVE  Inv'
  <2> DEFINE o == AddTypedItem(d, fits)
             p == AddValue(d)
  <2>1. MayCall("AddTyped")
    BY <1>5 DEF Called
  <2>2. PICK j : Running(d) /\ OnOrBetween(d, j) /\ IsDocument(doc)
    BY <2>1, CallFinds
  <2>3. Typed(p.val) /\ p.err \in Errors /\ (p.err = NoError => Running(p.val))
    BY <2>2, AddValueSteps
  <2>4. \/ o.val = p.val /\ o.err = p.err
        \/ o.val = d /\ o.err = "INVALID_ARGUMENT"
    BY TypedItemIs
  <2>5. Typed(d) /\ "INVALID_ARGUMENT" \in Errors /\ "INVALID_ARGUMENT" # NoError
    BY <2>2 DEF Running, Errors, NoError
  <2>6. Called([op |-> "AddTyped", fits |-> fits], o)
    BY <1>5
  <2> HIDE DEF o, p
  <2>7. Typed(o.val) /\ o.err \in Errors /\ (o.err = NoError => Running(o.val))
    BY <2>3, <2>4, <2>5
  <2> QED BY <2>6, <2>7, CalledInv
<1>6. CASE LET o == AddSubTreeItem(d) IN Called([op |-> "AddSubTree"], o) /\ shown' = o.shown
  <2> DEFINE o == AddSubTreeItem(d)
  <2>1. MayCall("AddSubTree")
    BY <1>6 DEF Called
  <2>2. Running(d) /\ Typed(d)
    BY <2>1, CallFinds DEF Running
  <2>3. Running(AddItem(d)) /\ Typed(AddItem(d))
    BY <2>2, AddItemKeeps
  <2>4. \/ o.val = d /\ o.err = "INCORRECT_STATE"
        \/ o.val = AddItem(d) /\ o.err = NoError
    BY DEF AddSubTreeItem, Showing, OK, Outcome
  <2>5. "INCORRECT_STATE" \in Errors /\ NoError \in Errors
    BY DEF Errors
  <2>6. Called([op |-> "AddSubTree"], o)
    BY <1>6
  <2> HIDE DEF o
  <2> QED BY <2>2, <2>3, <2>4, <2>5, <2>6, CalledInv
<1>7. ASSUME NEW suppressTag \in BOOLEAN, Shows("Generic", AddGenericTLVItem(d, 0, suppressTag))
      PROVE  Inv'
  <2>1. MayCall("Generic")
    BY <1>7 DEF Shows
  <2>2. PICK j : Running(d) /\ OnOrBetween(d, j) /\ IsDocument(doc)
    BY <2>1, CallFinds
  <2>3. Opens(d, j, AddGenericTLVItem(d, 0, suppressTag))
    BY <2>2, GenericSteps
  <2> QED BY <1>7, <2>3, ShowsInv
<1>8. CASE Shows("List", AddListItem(d))
  <2>1. MayCall("List")
    BY <1>8 DEF Shows
  <2>2. PICK j : Running(d) /\ OnOrBetween(d, j) /\ IsDocument(doc)
    BY <2>1, CallFinds
  <2>3. Opens(d, j, AddListItem(d))
    BY <2>2, ListSteps
  <2> QED BY <1>8, <2>3, ShowsInv
<1>9. CASE ShowMember
  BY <1>9, ShowMemberInv
<1>10. CASE UNCHANGED vars
  <2>1. /\ doc' = doc /\ d' = d /\ call' = call /\ err' = err /\ calls' = calls /\ task' = task
        /\ within' = within
    BY <1>10 DEF vars
  <2>2. /\ Typed(d)' <=> Typed(d)
        /\ Running(d)' <=> Running(d)
        /\ Ended(d)' <=> Ended(d)
    BY <2>1, SameDocument
  <2> QED BY <2>1, <2>2 DEF Inv
<1> QED BY <1>1, <1>2, <1>3, <1>4, <1>5, <1>6, <1>7, <1>8, <1>9, <1>10 DEF Next

\* A dissector that has not failed is on an element or behind one, inside the containers on its stack.
THEOREM Invariance == Spec => []Inv
<1>1. Init => Inv
  BY InitInv
<1>2. Inv /\ [Next]_vars => Inv'
  BY NextInv
<1> QED BY <1>1, <1>2, PTL DEF Spec
-----------------------------------------------------------------------------
\* The invariant says of every variable what type it has.
LEMMA InvTypeOK == Inv => TypeOK
<1> SUFFICES ASSUME Inv PROVE TypeOK
  OBVIOUS
<1>1. Typed(d) /\ d \in DissectorType
  BY DEF Inv, Typed
<1>2. /\ d.reader \in ReaderType /\ d.start \in 0..doc.len /\ d.len \in 0..doc.len
      /\ d.item \in ItemType
  BY <1>1, DissectorFields
<1>3. \A k \in 1..Len(d.stack) :
        /\ d.stack[k].outer \in ContainerTypes \ {"unknown"} /\ d.stack[k].item \in ItemType
        /\ d.stack[k].start + d.stack[k].len <= doc.len
  <2>1. \A k \in 1..Len(d.stack) :
          d.stack[k].outer \in ContainerTypes \ {"unknown"} /\ d.stack[k].item \in ItemType
    BY <1>1, EntryFields
  <2>2. \A k \in 1..Len(d.stack) : d.stack[k].start + d.stack[k].len <= doc.len
    BY <1>1 DEF Typed
  <2> QED BY <2>1, <2>2
<1>4. Len(d.stack) <= d.room
  BY <1>1 DEF Typed
<1>5. /\ calls \in 0..MaxCalls /\ err \in Errors
      /\ task \in {Idle, "Generic", "List"} /\ within \in 0..Len(d.stack)
  BY DEF Inv
<1> QED BY <1>2, <1>3, <1>4, <1>5 DEF TypeOK

(***************************************************************************)
(* Type correctness of TLVDissector: among others, every extent on the     *)
(* stack of containers lies in the message, the stack never holds more     *)
(* than was allocated for it, and no container is left that was not        *)
(* entered.                                                                *)
(***************************************************************************)
THEOREM TypeCorrect == Spec => []TypeOK
BY Invariance, InvTypeOK, PTL

(***************************************************************************)
(* ElemStart and ElemLength of a dissector that has not failed are always  *)
(* those of one whole element, whatever was skipped, shown or left.        *)
(***************************************************************************)
THEOREM ExtentsCorrect == Spec => []ExtentsAreElements
<1>1. Inv => ExtentsAreElements
  <2> SUFFICES ASSUME Inv, err = NoError, d.len > 0
               PROVE  /\ d.start \in {doc.start[i] : i \in 1..Len(doc.toks)}
                      /\ Complete(doc, TokenAt(d.start))
                      /\ [start |-> d.start, len |-> d.len] = Extent(doc, TokenAt(d.start))
    BY DEF ExtentsAreElements
  <2>1. IsDocument(doc) /\ Running(d)
    BY DocumentsAssumption DEF Inv
  <2>2. PICK i \in 1..Len(doc.toks) : IsExtentOf(d.start, d.len, i)
    BY <2>1 DEF Running
  <2>3. i = TokenAt(d.start) /\ [start |-> d.start, len |-> d.len] = Extent(doc, i)
    BY <2>1, <2>2, ExtentType
  <2> QED BY <2>2, <2>3 DEF IsExtentOf
<1> QED BY <1>1, Invariance, PTL

(***************************************************************************)
(* LastItem of a dissector that has not failed is the item of the element  *)
(* that ElemStart and ElemLength tell of.                                  *)
(***************************************************************************)
THEOREM ItemStaysWithElement == Spec => []LastItemIsOfElement
<1>1. Inv => LastItemIsOfElement
  BY DEF Inv, Running, ItemAgrees, LastItemIsOfElement
<1> QED BY <1>1, Invariance, PTL
-----------------------------------------------------------------------------
(***************************************************************************)
(* What is displayed.                                                      *)
(***************************************************************************)
\* The container that ends with token k is the only one that does.
LEMMA ClosedIs ==
  ASSUME IsDocument(doc), NEW c \in 1..Len(doc.toks), IsContainer(doc, c), doc.last[c] # 0,
         NEW k, k = doc.last[c]
  PROVE  Closed(k) = c
<1> DEFINE N == Len(doc.toks)
           Is(i) == IsContainer(doc, i) /\ LastToken(doc, i) = k
<1>1. /\ N \in Nat /\ k \in c + 1..N /\ \A i \in 0..N : doc.depth[i] \in Int
      /\ \A i \in 1..N : IsContainer(doc, i) => doc.depth[i - 1] = doc.depth[i] - 1
  <2>1. N \in Nat /\ \A i \in 0..N : doc.depth[i] \in Int
    BY DocumentTypes
  <2>2. k \in c + 1..N
    BY LastOfContainer DEF IsContainer
  <2>3. ASSUME NEW i \in 1..N, IsContainer(doc, i) PROVE doc.depth[i - 1] = doc.depth[i] - 1
    <3>1. Nesting(doc.toks[i]) = 1
      BY <2>3 DEF IsContainer, Nesting
    <3>2. doc.depth[i] = doc.depth[i - 1] + 1 /\ i - 1 \in 0..N
      BY <2>1, <3>1, DocumentTypes
    <3> QED BY <2>1, <3>2
  <2> QED BY <2>1, <2>2, <2>3
<1>2. ASSUME NEW i \in 1..k - 1, NEW j \in 1..k - 1, i < j, Is(i), Is(j) PROVE FALSE
  <2>1. i \in 1..N /\ j \in 1..N /\ k \in Nat /\ k # 0
    BY <1>1
  <2>2. /\ doc.depth[k] = doc.depth[i] - 1 /\ doc.depth[k] = doc.depth[j] - 1
        /\ \A m \in i + 1..k - 1 : doc.depth[m] # doc.depth[i] - 1
    <3>1. /\ doc.toks[i].type \in Containers /\ doc.last[i] = k
          /\ doc.toks[j].type \in Containers /\ doc.last[j] = k
      BY <1>2 DEF IsContainer, LastToken
    <3>2. /\ doc.depth[k] = doc.depth[i] - 1
          /\ \A m \in i + 1..k - 1 : doc.depth[m] # doc.depth[i] - 1
      BY <2>1, <3>1, LastOfContainer
    <3>3. doc.depth[k] = doc.depth[j] - 1
      BY <2>1, <3>1, LastOfContainer
    <3> QED BY <3>2, <3>3
  <2>3. doc.depth[j - 1] = doc.depth[k] /\ doc.depth[i] \in Int
    BY SMTT(20), <1>1, <1>2, <2>1, <2>2
  <2>4. CASE j - 1 = i
    BY <2>2, <2>3, <2>4
  <2>5. CASE j - 1 # i
    <3>1. j - 1 \in i + 1..k - 1
      BY <1>2, <2>1, <2>5
    <3> QED BY <2>2, <2>3, <3>1
  <2> QED BY <2>4, <2>5
<1>3. c \in 1..k - 1 /\ Is(c)
  BY <1>1 DEF LastToken
<1>4. \A i \in 1..k - 1 : Is(i) => i = c
  <2> SUFFICES ASSUME NEW i \in 1..k - 1, Is(i), i # c PROVE FALSE
    OBVIOUS
  <2>1. i < c \/ c < i
    BY <1>1
  <2> HIDE DEF Is
  <2> QED BY <1>2, <1>3, <2>1
<1>5. Closed(k) = CHOOSE i \in 1..k - 1 : Is(i)
  BY DEF Closed
<1> HIDE DEF Is
<1> QED BY <1>3, <1>4, <1>5

\* The line of an element, in what is shown of one that starts with token m.
LEMMA LineOfElement ==
  ASSUME IsDocument(doc), NEW x, NEW j, OnOrBetween(x, j), x.reader.elem # NoElement, NEW m,
         NEW depth, depth = Len(x.stack) - doc.depth[m - 1]
  PROVE  Line(x, depth) = TokenLine(m, j)
<1>1. /\ IsExtentOf(x.start, x.len, j) /\ Passed(x.reader, j) /\ LevelAt(x.reader, j) = Len(x.stack)
      /\ x.reader.elem.type # "end"
  BY DEF OnOrBetween, Inside, IsIn
<1>2. doc.depth[j - 1] = Len(x.stack) /\ doc.toks[j].type # "end"
  BY <1>1, LevelType DEF LevelAt
<1>3. x.start = Extent(doc, j).start /\ x.len = Extent(doc, j).len
  BY <1>1 DEF IsExtentOf, Extent
<1> QED BY <1>2, <1>3 DEF Line, TokenLine, Depth

\* The line of the end of the innermost container.
LEMMA LineOfEnd ==
  ASSUME IsDocument(doc), NEW x, NEW j, AtEnd(x, j), NEW c, IsContainer(doc, c), j = doc.last[c],
         NEW y, IsExtentOf(y.start, y.len, c), NEW m,
         NEW depth, depth = Len(x.stack) - 1 - doc.depth[m - 1]
  PROVE  Line(y, depth) = TokenLine(m, j)
<1>1. /\ Passed(x.reader, j) /\ LevelAt(x.reader, j) = Len(x.stack) /\ x.reader.elem.type = "end"
      /\ Len(x.stack) \in Nat
  BY DissectorFields DEF AtEnd, Ended, Inside, IsIn, Typed
<1>2. doc.depth[j] = Len(x.stack) - 1 /\ doc.toks[j].type = "end"
  <2>1. x.reader.elem # NoElement /\ Nesting(x.reader.elem) = -1
    BY <1>1 DEF NoElement, Nesting, Containers
  <2>2. doc.toks[j].type = "end" /\ doc.depth[j] = Len(x.stack) + (-1)
    BY <1>1, <2>1, LevelType
  <2> QED BY <1>1, <2>2
<1>3. Closed(j) = c
  BY ClosedIs DEF IsExtentOf, Complete
<1>4. y.start = Extent(doc, c).start /\ y.len = Extent(doc, c).len
  BY DEF IsExtentOf, Extent
<1> QED BY <1>2, <1>3, <1>4 DEF Line, TokenLine, Depth

\* The lines of elements are a sequence, one for every token.
LEMMA LinesAreSequence ==
  ASSUME NEW m \in Int, NEW j \in Int, m - 1 <= j
  PROVE  /\ LinesOf(m, m, j) \in Seq({TokenLine(m, k) : k \in Int})
         /\ Len(LinesOf(m, m, j)) = j - m + 1
<1> DEFINE l == j - m + 1
           T == {TokenLine(m, k) : k \in Int}
<1>1. l \in Nat
  OBVIOUS
<1>2. LinesOf(m, m, j) = [n \in 1..l |-> TokenLine(m, m + n - 1)]
  BY DEF LinesOf
<1>3. \A n \in 1..l : TokenLine(m, m + n - 1) \in T
  OBVIOUS
<1>4. LinesOf(m, m, j) \in [1..l -> T]
  BY <1>2, <1>3
<1> HIDE DEF l, T
<1>5. LinesOf(m, m, j) \in Seq(T) /\ Len(LinesOf(m, m, j)) = l
  BY <1>1, <1>4
<1> QED BY <1>5 DEF l, T

\* One more line.
LEMMA MoreLines ==
  ASSUME NEW m \in Int, NEW j \in Int, m - 1 <= j
  PROVE  LinesOf(m, m, j) \o <<TokenLine(m, j + 1)>> = LinesOf(m, m, j + 1)
<1> DEFINE l == j - m + 1
           T == {TokenLine(m, k) : k \in Int}
           s == LinesOf(m, m, j)
           t == LinesOf(m, m, j + 1)
           e == TokenLine(m, j + 1)
<1>1. l \in Nat /\ s \in Seq(T) /\ Len(s) = l /\ t \in Seq(T) /\ Len(t) = l + 1
  <2>1. s \in Seq(T) /\ Len(s) = l
    BY LinesAreSequence
  <2> DEFINE q == j + 1
  <2>2. q \in Int /\ m - 1 <= q /\ t = LinesOf(m, m, q) /\ q - m + 1 = l + 1 /\ l \in Nat
    OBVIOUS
  <2> HIDE DEF q
  <2>3. LinesOf(m, m, q) \in Seq(T) /\ Len(LinesOf(m, m, q)) = q - m + 1
    BY <2>2, LinesAreSequence
  <2> QED BY <2>1, <2>2, <2>3
<1>2. \A n \in 1..l : t[n] = s[n]
  BY DEF LinesOf
<1>3. t[l + 1] = e
  BY <1>1 DEF LinesOf
<1>4. e \in T
  OBVIOUS
<1> HIDE DEF l, T, s, t, e
<1>5. s \o <<e>> = t
  <2>1. s \o <<e>> = Append(s, e) /\ Append(s, e) \in Seq(T) /\ Len(Append(s, e)) = l + 1
    BY <1>1, <1>4
  <2>2. \A n \in 1..l + 1 : Append(s, e)[n] = t[n]
    BY <1>1, <1>2, <1>3
  <2> QED BY <1>1, <2>1, <2>2
<1> QED BY <1>5 DEF s, e, t

\* The lines of op for the element of token i, as far as token j, and the last
\* token that has a line.  The elements of a list count their depth from its first.
Base(op, i) == IF op = "List" THEN i + 1 ELSE i
ShownOf(op, i, j) ==
  IF op = "List" THEN <<TokenLine(i, i)>> \o LinesOf(i + 1, i + 1, j) ELSE LinesOf(i, i, j)
LastShown(op, i) == IF op = "List" THEN LastToken(doc, i) - 1 ELSE LastToken(doc, i)

\* What is shown, and what it becomes with one more line.
LEMMA ShownAreLines ==
  ASSUME NEW op, NEW i \in Int, NEW j \in Int, i <= j
  PROVE  /\ ShownOf(op, i, i) = <<TokenLine(i, i)>>
         /\ ShownOf(op, i, j) \o <<TokenLine(Base(op, i), j + 1)>> = ShownOf(op, i, j + 1)
         /\ ShownOf(op, i, j) \o << >> = ShownOf(op, i, j)
<1> DEFINE T(m) == {TokenLine(m, k) : k \in Int}
           f == <<TokenLine(i, i)>>
<1>1. LinesOf(i, i, i) = f
  <2>1. i - i + 1 = 1 /\ i + 1 - 1 = i
    OBVIOUS
  <2>2. LinesOf(i, i, i) = [n \in 1..1 |-> TokenLine(i, i + n - 1)]
    BY <2>1 DEF LinesOf
  <2>3. LinesOf(i, i, i) \in Seq(T(i)) /\ Len(LinesOf(i, i, i)) = 1
    <3>1. i - 1 <= i
      OBVIOUS
    <3>2. LinesOf(i, i, i) \in Seq({TokenLine(i, k) : k \in Int}) /\ Len(LinesOf(i, i, i)) = i - i + 1
      BY <3>1, LinesAreSequence
    <3> QED BY <2>1, <3>2
  <2>4. LinesOf(i, i, i)[1] = TokenLine(i, i)
    BY <2>1, <2>2
  <2>5. f \in Seq(T(i)) /\ Len(f) = 1 /\ f[1] = TokenLine(i, i)
    OBVIOUS
  <2> HIDE DEF f, T
  <2> QED BY <2>3, <2>4, <2>5
<1>2. CASE op # "List"
  <2>1. ShownOf(op, i, i) = f /\ Base(op, i) = i
    BY <1>1, <1>2 DEF ShownOf, Base
  <2>2. LinesOf(i, i, j) \o <<TokenLine(i, j + 1)>> = LinesOf(i, i, j + 1)
    BY MoreLines
  <2>3. LinesOf(i, i, j) \in Seq(T(i))
    BY LinesAreSequence
  <2>4. LinesOf(i, i, j) \o << >> = LinesOf(i, i, j)
    BY <2>3
  <2> QED BY <1>2, <2>1, <2>2, <2>4 DEF ShownOf
<1>3. CASE op = "List"
  <2> DEFINE m == i + 1
             g == LinesOf(m, m, i)
             s == LinesOf(m, m, j)
             e == TokenLine(m, j + 1)
             U == T(i) \cup T(m)
  <2>1. m \in Int /\ m - 1 <= i /\ m - 1 <= j /\ i - m + 1 = 0 /\ Base(op, i) = m
    BY <1>3 DEF Base
  <2>2. e \in U /\ f \in Seq(U)
    OBVIOUS
  <2> HIDE DEF m
  <2>3. g \in Seq(T(m)) /\ Len(g) = 0
    BY <2>1, LinesAreSequence
  <2>4. s \in Seq(T(m))
    BY <2>1, LinesAreSequence
  <2>5. s \o <<e>> = LinesOf(m, m, j + 1)
    BY <2>1, MoreLines
  <2>6. /\ ShownOf(op, i, i) = f \o g /\ ShownOf(op, i, j) = f \o s
        /\ ShownOf(op, i, j + 1) = f \o LinesOf(m, m, j + 1)
    BY <1>3 DEF ShownOf, m
  <2> HIDE DEF f, g, s, e
  <2>7. f \o g = f
    BY <2>2, <2>3
  <2>8. s \in Seq(U)
    BY <2>4
  <2> HIDE DEF U, T
  <2>9. (f \o s) \o <<e>> = f \o (s \o <<e>>) /\ (f \o s) \o << >> = f \o s
    BY <2>2, <2>8
  <2> QED BY <2>1, <2>5, <2>6, <2>7, <2>9 DEF e, f
<1> QED BY <1>2, <1>3

\* The invariant of the display: a call that is showing members has shown the
\* lines of the element that it was given, as far as the token that the reader has
\* passed; one that is over has shown all.
ShownInv ==
  /\ task # Idle =>
       LET i == Container(d, Len(d.stack) - within + 1)
       IN  \E j \in Nat : /\ OnOrBetween(d, j) /\ d.reader.elem.type \notin Containers
                          /\ i <= j /\ shown = ShownOf(task, i, j)
  /\ \A op \in {"Generic", "List"} :
       err = NoError /\ task = Idle /\ call.op = op =>
         shown = ShownOf(op, TokenAt(d.start), LastShown(op, TokenAt(d.start)))

\* What is shown of a document depends on the document alone.
LEMMA SameLines ==
  ASSUME doc' = doc
  PROVE  /\ \A op, i, j : ShownOf(op, i, j)' = ShownOf(op, i, j)
         /\ \A op, i : LastShown(op, i)' = LastShown(op, i)
         /\ \A p : TokenAt(p)' = TokenAt(p)
<1>1. \A k : Closed(k)' = Closed(k)
  BY DEF Closed
<1>2. \A i, k : TokenLine(i, k)' = TokenLine(i, k)
  BY <1>1 DEF TokenLine
<1>3. \A i, j, k : LinesOf(i, j, k)' = LinesOf(i, j, k)
  BY <1>2 DEF LinesOf
<1>4. \A op, i, j : ShownOf(op, i, j)' = ShownOf(op, i, j)
  BY <1>2, <1>3 DEF ShownOf
<1>5. \A op, i : LastShown(op, i)' = LastShown(op, i)
  BY DEF LastShown
<1>6. \A p : TokenAt(p)' = TokenAt(p)
  BY DEF TokenAt
<1> QED BY <1>4, <1>5, <1>6

\* The call op goes on, or is over.
LEMMA StillShowing ==
  ASSUME doc' = doc, NEW y, d' = y, NEW op, task' = op, op # Idle, NEW n, within' = n,
         NEW j \in Nat, OnOrBetween(y, j), y.reader.elem.type \notin Containers,
         NEW i, i = Container(y, Len(y.stack) - n + 1), i <= j, shown' = ShownOf(op, i, j)
  PROVE  ShownInv'
<1>1. Container(d, Len(d.stack) - within + 1)' = i
  BY SameDocument
<1>2. OnOrBetween(d, j)'
  BY SameDocument
<1>3. shown' = ShownOf(task, i, j)'
  BY SameLines
<1> QED BY <1>1, <1>2, <1>3 DEF ShownInv

\* The call is over.
LEMMA DoneShowing ==
  ASSUME doc' = doc, NEW y, d' = y, task' = Idle, NEW op, call'.op = op,
         err' = NoError /\ op \in {"Generic", "List"} =>
           shown' = ShownOf(op, TokenAt(y.start), LastShown(op, TokenAt(y.start)))
  PROVE  ShownInv'
<1>1. TokenAt(d.start)' = TokenAt(y.start)
  BY SameLines
<1>2. ShownOf(op, TokenAt(d.start), LastShown(op, TokenAt(d.start)))'
        = ShownOf(op, TokenAt(y.start), LastShown(op, TokenAt(y.start)))
  BY <1>1, SameLines
<1> QED BY <1>2 DEF ShownInv

\* The depth that lines are indented from.
LEMMA BaseDepth ==
  ASSUME IsDocument(doc), NEW x, Typed(x), StackOK(x), NEW k \in 1..Len(x.stack),
         NEW i, i = Container(x, k), NEW op
  PROVE  /\ i \in 1..Len(doc.toks) /\ IsContainer(doc, i)
         /\ doc.depth[Base(op, i) - 1] = IF op = "List" THEN k ELSE k - 1
<1>1. Stands(x.stack[k], i, k, Container(x, k - 1))
  BY DEF StackOK
<1>2. i \in 1..Len(doc.toks) /\ IsContainer(doc, i) /\ doc.depth[i] = k
  BY <1>1 DEF Stands, IsExtentOf
<1>3. Nesting(doc.toks[i]) = 1
  BY <1>2 DEF IsContainer, Nesting
<1>4. i \in Int /\ doc.depth[i] = doc.depth[i - 1] + 1 /\ doc.depth[i - 1] \in Int
  <2>1. i - 1 \in 0..Len(doc.toks) /\ i \in Int
    BY <1>2, DocumentTypes
  <2> QED BY <1>2, <1>3, <2>1, DocumentTypes
<1>5. doc.depth[i - 1] = k - 1
  BY <1>2, <1>4
<1> QED BY <1>2, <1>4, <1>5 DEF Base

\* What a turn finds: the element i that is shown, k deep, and token j.
Turn(i, k, j) ==
  /\ IsDocument(doc) /\ Running(d) /\ Typed(d) /\ StackOK(d) /\ Len(d.stack) \in Nat /\ d.stack # << >>
  /\ task \in {"Generic", "List"} /\ within \in 1..Len(d.stack)
  /\ k = Len(d.stack) - within + 1 /\ k \in 1..Len(d.stack) /\ i = Container(d, k)
  /\ i \in 1..Len(doc.toks) /\ IsContainer(doc, i)
  /\ j \in Nat /\ OnOrBetween(d, j) /\ i <= j /\ shown = ShownOf(task, i, j)
  /\ TokenBehind(d, j) = j + 1
  /\ MemberDepth = Len(d.stack) - doc.depth[Base(task, i) - 1]

\* The containers that a turn is in, and the tokens shown.
LEMMA TurnNumbers ==
  ASSUME NEW i, NEW k, NEW j, Turn(i, k, j)
  PROVE  /\ task \in {"Generic", "List"} /\ Len(d.stack) \in Nat /\ within \in Int /\ 1 <= within
         /\ within <= Len(d.stack) /\ k = Len(d.stack) - within + 1
         /\ i \in Nat /\ j \in Nat /\ i <= j
<1>1. /\ task \in {"Generic", "List"} /\ Len(d.stack) \in Nat /\ within \in 1..Len(d.stack)
      /\ k = Len(d.stack) - within + 1 /\ i \in 1..Len(doc.toks) /\ j \in Nat /\ i <= j
  BY DEF Turn
<1> QED BY <1>1

\* Where a turn of the loop finds the dissector.
LEMMA TurnFinds ==
  ASSUME Inv, ShownInv, task # Idle
  PROVE  \E i, k, j : Turn(i, k, j)
<1> DEFINE k == Len(d.stack) - within + 1
           i == Container(d, k)
<1>1. /\ IsDocument(doc) /\ Running(d) /\ Typed(d) /\ StackOK(d) /\ Len(d.stack) \in Nat
      /\ task \in {"Generic", "List"} /\ within \in 1..Len(d.stack)
  <2>1. Typed(d) /\ Len(d.stack) \in Nat
    BY DissectorFields DEF Inv, Typed
  <2> QED BY <2>1, DocumentsAssumption DEF Inv, Running
<1>2. k \in 1..Len(d.stack) /\ d.stack # << >>
  BY <1>1
<1>3. PICK j \in Nat : /\ OnOrBetween(d, j) /\ d.reader.elem.type \notin Containers
                       /\ i <= j /\ shown = ShownOf(task, i, j)
  BY DEF ShownInv
<1>4. TokenBehind(d, j) = j + 1
  <2>1. CASE d.reader.elem = NoElement
    BY <2>1 DEF TokenBehind
  <2>2. CASE d.reader.elem # NoElement
    <3>1. Passed(d.reader, j)
      BY <1>3 DEF OnOrBetween, Inside, IsIn
    <3>2. j \in 1..Len(doc.toks) /\ doc.toks[j].type \notin Containers
      BY <1>1, <1>3, <2>2, <3>1, LevelType
    <3> QED BY <1>1, <2>2, <3>2, LastOfOther DEF TokenBehind
  <2> QED BY <2>1, <2>2
<1> HIDE DEF i
<1>5. /\ i \in 1..Len(doc.toks) /\ IsContainer(doc, i)
      /\ doc.depth[Base(task, i) - 1] = IF task = "List" THEN k ELSE k - 1
  <2> HIDE DEF k
  <2> QED BY <1>1, <1>2, BaseDepth DEF i
<1>6. MemberDepth = Len(d.stack) - doc.depth[Base(task, i) - 1]
  <2>1. CASE task = "List"
    BY <1>1, <1>5, <2>1 DEF MemberDepth
  <2>2. CASE task # "List"
    BY <1>1, <1>5, <2>2 DEF MemberDepth
  <2> QED BY <2>1, <2>2
<1> HIDE DEF k
<1>7. k = Len(d.stack) - within + 1
  BY DEF k
<1>8. Turn(i, k, j)
  BY <1>1, <1>2, <1>3, <1>4, <1>5, <1>6, <1>7 DEF Turn, i
<1> QED BY <1>8

\* A turn that leaves the innermost container.
LEMMA LeavingShown ==
  ASSUME Inv, NEW i, NEW k, NEW j, Turn(i, k, j), doc' = doc,
         NEW x, AtEnd(x, j + 1), x.stack = d.stack,
         NEW p, p = LeaveContainer(x, MemberDepth - 1), GoesOn(task, p, within - 1),
         shown' = shown \o p.shown
  PROVE  ShownInv'
<1> DEFINE b == Len(d.stack)
           c == Innermost(x)
           m == Base(task, i)
           depth == MemberDepth - 1
<1>1. /\ IsDocument(doc) /\ Typed(d) /\ StackOK(d) /\ b \in Nat /\ x.stack # << >>
      /\ task \in {"Generic", "List"} /\ within \in 1..b /\ k = b - within + 1 /\ k \in 1..b
      /\ i = Container(d, k) /\ i \in 1..Len(doc.toks) /\ j \in Nat /\ i <= j
      /\ shown = ShownOf(task, i, j) /\ MemberDepth = b - doc.depth[m - 1]
  BY DEF Turn
<1>2. /\ task \in {"Generic", "List"} /\ b \in Int /\ within \in Int /\ 1 <= within /\ within <= b
      /\ k = b - within + 1
  BY TurnNumbers
<1>3. i \in Nat /\ j \in Nat /\ i <= j
  BY TurnNumbers
<1> HIDE DEF m
<1>4. MemberDepth = (IF task = "List" THEN within - 1 ELSE within) /\ depth \in Int
  BY <1>1 DEF MemberDepth
<1>5. d' = p.val /\ err' = p.err
  BY DEF GoesOn
<1> HIDE DEF depth
<1>6. /\ Len(p.val.stack) = b - 1
      /\ p.err = NoError =>
           /\ OnOrBetween(p.val, j + 1) /\ p.val.reader.elem = NoElement
           /\ j + 1 = doc.last[c] /\ IsExtentOf(p.val.start, p.val.len, c)
           /\ \A n \in 0..b - 1 : Container(p.val, n) = Container(x, n)
           /\ p.shown = IF depth < 0 THEN << >> ELSE <<Line(p.val, depth)>>
  <2> DEFINE l == j + 1
  <2>1. p = LeaveContainer(x, depth) /\ AtEnd(x, l) /\ IsDocument(doc) /\ x.stack # << >> /\ depth \in Int
    BY <1>1, <1>4 DEF depth
  <2> HIDE DEF l, b, c
  <2>2. /\ Len(p.val.stack) = Len(x.stack) - 1
        /\ p.err = NoError =>
             /\ OnOrBetween(p.val, l) /\ p.val.reader.elem = NoElement
             /\ l = doc.last[Innermost(x)] /\ IsExtentOf(p.val.start, p.val.len, Innermost(x))
             /\ \A n \in 0..Len(x.stack) - 1 : Container(p.val, n) = Container(x, n)
             /\ p.shown = IF depth < 0 THEN << >> ELSE <<Line(p.val, depth)>>
    BY <2>1, LeaveSteps, SMTT(20)
  <2> QED BY <2>2 DEF l, b, c
<1>7. \A n : Container(x, n) = Container(d, n)
  BY SameStack
<1>8. c = Container(d, b) /\ IsContainer(doc, c)
  <2>1. c = Container(d, b)
    BY <1>7 DEF Innermost
  <2>2. b \in 1..Len(d.stack)
    BY <1>2
  <2>3. Stands(d.stack[b], c, b, Container(d, b - 1))
    BY <1>1, <2>1, <2>2 DEF StackOK
  <2> QED BY <2>1, <2>3 DEF Stands
<1>9. ASSUME p.err = NoError, ~ (depth < 0)
      PROVE  shown' = ShownOf(task, i, j + 1)
  <2> DEFINE D == doc.depth[m - 1]
  <2>1. depth = MemberDepth - 1 /\ MemberDepth = b - D /\ D \in Int /\ b \in Nat
    <3>1. D = IF task = "List" THEN k ELSE k - 1
      <4>1. IsDocument(doc) /\ Typed(d) /\ StackOK(d) /\ k \in 1..Len(d.stack) /\ i = Container(d, k)
        BY <1>1
      <4>2. doc.depth[Base(task, i) - 1] = IF task = "List" THEN k ELSE k - 1
        BY <4>1, BaseDepth
      <4> QED BY <4>2 DEF m
    <3>2. D \in Int
      BY <1>1, <3>1
    <3> QED BY <1>1, <3>2 DEF depth
  <2>2. depth = Len(x.stack) - 1 - doc.depth[m - 1]
    <3> HIDE DEF D
    <3>1. depth = b - 1 - D
      BY <2>1
    <3> QED BY <3>1 DEF D
  <2> HIDE DEF m, b, c
  <2>3. Line(p.val, depth) = TokenLine(m, j + 1)
    <3> DEFINE l == j + 1
    <3>1. AtEnd(x, l) /\ l = doc.last[c] /\ IsExtentOf(p.val.start, p.val.len, c)
      BY <1>6, <1>9
    <3> HIDE DEF l
    <3>2. IsDocument(doc) /\ IsContainer(doc, c)
      BY <1>1, <1>8
    <3>3. Line(p.val, depth) = TokenLine(m, l)
      BY <2>2, <3>1, <3>2, LineOfEnd, SMTT(20)
    <3> QED BY <3>3 DEF l
  <2>4. shown' = ShownOf(task, i, j) \o <<TokenLine(m, j + 1)>>
    BY <1>1, <1>6, <1>9, <2>3
  <2>5. i \in Int /\ j \in Int
    BY <1>3
  <2>6. ShownOf(task, i, j) \o <<TokenLine(m, j + 1)>> = ShownOf(task, i, j + 1)
    BY <1>1, <2>5, ShownAreLines DEF m
  <2> QED BY <2>4, <2>6
<1>10. CASE p.err = NoError /\ within > 1
  <2> DEFINE n == within - 1
             l == j + 1
  <2>1. task' = task /\ within' = n /\ n > 0 /\ task # Idle
    BY <1>2, <1>10 DEF GoesOn, Idle
  <2>2. ~ (depth < 0)
    BY <1>2, <1>4, <1>10 DEF depth
  <2>3. shown' = ShownOf(task, i, l)
    BY <1>9, <1>10, <2>2
  <2>4. i = Container(p.val, Len(p.val.stack) - n + 1)
    <3>1. Len(p.val.stack) - n + 1 = k /\ k \in 0..b - 1
      <4>1. /\ b \in Nat /\ within \in 1..b /\ k = b - within + 1 /\ Len(p.val.stack) = b - 1
            /\ within > 1 /\ n = within - 1
        BY <1>1, <1>6, <1>10
      <4>2. /\ b \in Int /\ within \in Int /\ within <= b
        BY <4>1
      <4> DEFINE q == Len(p.val.stack)
      <4>3. q = b - 1
        BY <4>1
      <4> HIDE DEF b, n, q
      <4>4. q - n + 1 = k
        BY <4>1, <4>2, <4>3
      <4>5. k \in 0..b - 1
        BY <4>1, <4>2
      <4> QED BY <4>4, <4>5 DEF q
    <3> QED BY <1>1, <1>6, <1>7, <1>10, <3>1
  <2>5. OnOrBetween(p.val, l) /\ p.val.reader.elem.type \notin Containers /\ l \in Nat /\ i <= l
    <3>1. OnOrBetween(p.val, l) /\ p.val.reader.elem = NoElement
      BY <1>6, <1>10
    <3>2. i \in Nat /\ j \in Nat /\ i <= j
      BY <1>3
    <3>3. l \in Nat /\ i <= l
      BY <3>2
    <3> QED BY <3>1, <3>3 DEF NoElement, Containers
  <2> HIDE DEF n, l
  <2> QED BY <1>5, <2>1, <2>3, <2>4, <2>5, StillShowing
<1>11. CASE ~ (p.err = NoError /\ within > 1)
  <2>1. task' = Idle /\ call'.op = task
    BY <1>2, <1>11 DEF GoesOn
  <2>2. ASSUME p.err = NoError
        PROVE  shown' = ShownOf(task, TokenAt(p.val.start), LastShown(task, TokenAt(p.val.start)))
    <3>1. within = 1 /\ k = b
      BY <1>2, <1>11, <2>2
    <3>2. c = i
      BY <1>1, <1>8, <3>1
    <3>3. TokenAt(p.val.start) = i
      BY <1>1, <1>6, <2>2, <3>2, ExtentType
    <3>4. CASE task = "List"
      <4>1. depth < 0
        BY <1>4, <3>1, <3>4 DEF depth
      <4>2. shown' = ShownOf(task, i, j) \o << >>
        BY <1>1, <1>6, <2>2, <4>1
      <4>3. i \in Int /\ j \in Int
        BY <1>3
      <4>4. shown' = ShownOf(task, i, j)
        BY <1>1, <4>2, <4>3, ShownAreLines
      <4>5. LastShown(task, i) = j
        <5>1. LastShown(task, i) = doc.last[i] - 1
          BY <3>4 DEF LastShown, LastToken
        <5>2. doc.last[i] = j + 1
          BY <1>6, <2>2, <3>2
        <5>3. j \in Nat
          BY <1>1
        <5> QED BY <5>1, <5>2, <5>3
      <4> QED BY <3>3, <4>4, <4>5
    <3>5. CASE task # "List"
      <4>1. ~ (depth < 0)
        BY <1>4, <3>1, <3>5 DEF depth
      <4>2. shown' = ShownOf(task, i, j + 1)
        BY <1>9, <2>2, <4>1
      <4>3. LastShown(task, i) = j + 1
        BY <1>6, <2>2, <3>2, <3>5 DEF LastShown, LastToken
      <4> QED BY <3>3, <4>2, <4>3
    <3> QED BY <3>4, <3>5
  <2> QED BY <1>5, <2>1, <2>2, DoneShowing
<1> QED BY <1>10, <1>11

\* A turn that shows a member.
LEMMA MemberShown ==
  ASSUME Inv, NEW i, NEW k, NEW j, Turn(i, k, j), doc' = doc,
         NEW x, On(x, j + 1), x.stack = d.stack,
         NEW p, p = AddGenericTLVItem(x, MemberDepth, FALSE),
         GoesOn(task, p, IF IsOnContainer(x.reader) THEN within + 1 ELSE within),
         shown' = shown \o p.shown
  PROVE  ShownInv'
<1> DEFINE b == Len(d.stack)
           m == Base(task, i)
           l == j + 1
           n == IF IsOnContainer(x.reader) THEN within + 1 ELSE within
<1>1. /\ IsDocument(doc) /\ b \in Nat /\ task \in {"Generic", "List"} /\ within \in 1..b
      /\ k = b - within + 1 /\ k \in 1..b /\ i = Container(d, k) /\ i \in 1..Len(doc.toks)
      /\ j \in Nat /\ i <= j /\ shown = ShownOf(task, i, j) /\ MemberDepth = b - doc.depth[m - 1]
  BY DEF Turn
<1>2. d' = p.val /\ err' = p.err /\ task # Idle
  BY <1>1 DEF GoesOn, Idle
<1>3. l \in Nat /\ i <= l /\ i \in Int /\ j \in Int
  <2>1. i \in Nat /\ j \in Nat /\ i <= j
    BY TurnNumbers
  <2> QED BY <2>1
<1>4. Running(x) /\ OnOrBetween(x, l) /\ x.reader.elem # NoElement
  BY DEF On
<1> HIDE DEF l, m
<1>5. Opens(x, l, p) /\ (p.err = NoError => p.shown = <<Line(x, MemberDepth)>>)
  BY <1>1, <1>4, GenericSteps
<1>6. CASE p.err # NoError
  <2>1. task' = Idle /\ call'.op = task
    BY <1>6 DEF GoesOn
  <2> QED BY <1>2, <1>6, <2>1, DoneShowing
<1>7. CASE p.err = NoError
  <2>1. task' = task /\ within' = n
    <3>1. n > 0
      BY <1>1
    <3> QED BY <1>7, <3>1 DEF GoesOn
  <2>2. Line(x, MemberDepth) = TokenLine(m, l)
    <3> DEFINE D == MemberDepth
    <3>1. D = Len(x.stack) - doc.depth[m - 1]
      BY <1>1
    <3> HIDE DEF D
    <3>2. Line(x, D) = TokenLine(m, l)
      BY <1>1, <1>4, <3>1, LineOfElement
    <3> QED BY <3>2 DEF D
  <2>3. shown' = ShownOf(task, i, l)
    <3>1. shown' = ShownOf(task, i, j) \o <<TokenLine(m, l)>>
      BY <1>1, <1>5, <1>7, <2>2
    <3>2. ShownOf(task, i, j) \o <<TokenLine(m, l)>> = ShownOf(task, i, l)
      BY <1>1, <1>3, ShownAreLines DEF m, l
    <3> QED BY <3>1, <3>2
  <2>4. /\ OnOrBetween(p.val, l) /\ p.val.reader.elem.type \notin Containers
        /\ \A q \in 0..b : Container(p.val, q) = Container(x, q)
        /\ Len(p.val.stack) = IF IsOnContainer(x.reader) THEN b + 1 ELSE b
    BY <1>5, <1>7 DEF Opens
  <2>5. Len(p.val.stack) - n + 1 = k
    <3> DEFINE q == Len(p.val.stack)
    <3>1. /\ b \in Int /\ within \in Int /\ k = b - within + 1
          /\ \/ q = b + 1 /\ n = within + 1
             \/ q = b /\ n = within
      <4>1. b \in Int /\ within \in Int /\ k = b - within + 1
        BY <1>1
      <4>2. CASE IsOnContainer(x.reader)
        <5>1. q = b + 1 /\ n = within + 1
          BY <2>4, <4>2
        <5> QED BY <4>1, <5>1
      <4>3. CASE ~ IsOnContainer(x.reader)
        <5>1. q = b /\ n = within
          BY <2>4, <4>3
        <5> QED BY <4>1, <5>1
      <4> QED BY <4>2, <4>3
    <3> HIDE DEF q, b, n
    <3>2. q - n + 1 = k
      BY <3>1
    <3> QED BY <3>2 DEF q
  <2>6. i = Container(p.val, k)
    <3>1. Container(x, k) = Container(d, k)
      BY SameStack
    <3>2. k \in 0..b
      BY <1>1
    <3> QED BY <1>1, <2>4, <3>1, <3>2
  <2> HIDE DEF n
  <2> QED BY <1>2, <1>3, <2>1, <2>3, <2>4, <2>5, <2>6, StillShowing
<1> QED BY <1>6, <1>7

\* A turn of the loop over members shows the next line.
LEMMA ShowMemberShown ==
  ASSUME Inv, ShownInv, ShowMember
  PROVE  ShownInv'
<1> DEFINE o == DissectorNext(d)
           p == IF o.err = EndOfTLV THEN LeaveContainer(o.val, MemberDepth - 1)
                ELSE IF o.err # NoError THEN Showing(o, << >>)
                ELSE AddGenericTLVItem(o.val, MemberDepth, FALSE)
           n == IF o.err = EndOfTLV THEN within - 1
                ELSE IF IsOnContainer(o.val.reader) THEN within + 1 ELSE within
<1>1. task # Idle /\ GoesOn(task, p, n) /\ doc' = doc /\ shown' = shown \o p.shown
  BY DEF ShowMember, GoesOn
<1>2. PICK i, k, j : Turn(i, k, j)
  BY <1>1, TurnFinds
<1>3. Advances(d, j, o) /\ TokenBehind(d, j) = j + 1 /\ d.stack # << >>
  BY <1>2, DissectorNextSteps DEF Turn
<1> HIDE DEF o
<1>4. CASE o.err = EndOfTLV
  <2>1. AtEnd(o.val, j + 1) /\ o.val.stack = d.stack
    BY <1>3, <1>4 DEF Advances
  <2>2. p = LeaveContainer(o.val, MemberDepth - 1) /\ n = within - 1
    BY <1>4
  <2> HIDE DEF p, n
  <2>3. GoesOn(task, p, within - 1)
    BY <1>1, <2>2
  <2> QED BY <1>1, <1>2, <2>1, <2>2, <2>3, LeavingShown
<1>5. CASE o.err # EndOfTLV /\ o.err # NoError
  <2>1. p.err # NoError
    BY <1>5 DEF Showing
  <2> HIDE DEF p, n
  <2>2. task' = Idle /\ call'.op = task /\ d' = p.val /\ err' = p.err
    BY <1>1, <2>1 DEF GoesOn
  <2> QED BY <1>1, <2>1, <2>2, DoneShowing
<1>6. CASE o.err = NoError
  <2>1. On(o.val, j + 1) /\ o.val.stack = d.stack
    BY <1>3, <1>6 DEF Advances
  <2>2. /\ p = AddGenericTLVItem(o.val, MemberDepth, FALSE)
        /\ n = IF IsOnContainer(o.val.reader) THEN within + 1 ELSE within
    BY <1>6 DEF NoError, EndOfTLV
  <2> HIDE DEF p, n
  <2>3. GoesOn(task, p, IF IsOnContainer(o.val.reader) THEN within + 1 ELSE within)
    BY <1>1, <2>2
  <2> QED BY <1>1, <1>2, <2>1, <2>2, <2>3, MemberShown
<1> QED BY <1>4, <1>5, <1>6

\* The first turn of a call that shows members.
LEMMA ShowsShown ==
  ASSUME Inv, NEW op \in {"Generic", "List"}, NEW o, Shows(op, o), NEW j, OnOrBetween(d, j),
         Opens(d, j, o), o.err = NoError => o.shown = <<Line(d, 0)>>,
         o.err = NoError /\ op = "List" => IsOnContainer(d.reader)
  PROVE  ShownInv'
<1> DEFINE n == IF IsOnContainer(d.reader) THEN 1 ELSE 0
<1>1. GoesOn(op, o, n) /\ doc' = doc /\ d' = o.val /\ err' = o.err /\ shown' = o.shown /\ op # Idle
  BY DEF Shows, GoesOn, Idle
<1>2. IsDocument(doc) /\ Len(d.stack) \in Nat
  BY DocumentsAssumption, DissectorFields DEF Inv, Typed
<1>3. CASE o.err # NoError
  <2>1. task' = Idle /\ call'.op = op
    BY <1>1, <1>3 DEF GoesOn
  <2> QED BY <1>1, <1>3, <2>1, DoneShowing
<1>4. CASE o.err = NoError
  <2>1. d.reader.elem # NoElement /\ OnOrBetween(o.val, j) /\ o.val.reader.elem.type \notin Containers
        /\ o.val.start = d.start
    BY <1>4 DEF Opens
  <2>2. IsExtentOf(d.start, d.len, j) /\ j \in 1..Len(doc.toks)
    BY <2>1 DEF OnOrBetween, IsExtentOf
  <2>3. Passed(d.reader, j) /\ LevelAt(d.reader, j) = Len(d.stack)
    BY DEF OnOrBetween, Inside, IsIn
  <2>4. TokenAt(o.val.start) = j
    BY <1>2, <2>1, <2>2, ExtentType
  <2>5. shown' = ShownOf(op, j, j)
    <3> DEFINE z == Len(d.stack) - doc.depth[j - 1]
    <3>1. z = 0
      BY <1>2, <2>1, <2>3 DEF LevelAt
    <3> HIDE DEF z
    <3>2. Line(d, z) = TokenLine(j, j)
      BY <1>2, <2>1, LineOfElement DEF z
    <3>3. j \in Int /\ j <= j
      BY <2>2
    <3>4. ShownOf(op, j, j) = <<TokenLine(j, j)>>
      BY <3>3, ShownAreLines
    <3> QED BY <1>1, <1>4, <3>1, <3>2, <3>4
  <2>6. CASE IsOnContainer(d.reader)
    <3>1. task' = op /\ within' = 1
      BY <1>1, <1>4, <2>6 DEF GoesOn
    <3>2. j = Container(o.val, Len(o.val.stack) - 1 + 1)
      <4>1. Len(o.val.stack) = Len(d.stack) + 1 /\ Container(o.val, Len(d.stack) + 1) = j
        BY <1>4, <2>6 DEF Opens
      <4>2. Len(o.val.stack) - 1 + 1 = Len(d.stack) + 1
        BY <1>2, <4>1
      <4> QED BY <4>1, <4>2
    <3>3. j \in Nat /\ j <= j
      BY <2>2
    <3> QED BY <1>1, <2>1, <2>5, <3>1, <3>2, <3>3, StillShowing
  <2>7. CASE ~ IsOnContainer(d.reader)
    <3>1. task' = Idle /\ call'.op = op /\ op # "List"
      BY <1>1, <1>4, <2>7 DEF GoesOn
    <3>2. doc.toks[j].type \notin Containers
      BY <1>2, <2>1, <2>3, <2>7, LevelType DEF IsOnContainer
    <3>3. LastShown(op, j) = j
      BY <1>2, <2>2, <3>1, <3>2, LastOfOther DEF LastShown, LastToken
    <3> QED BY <1>1, <2>4, <2>5, <3>1, <3>3, DoneShowing
  <2> QED BY <2>6, <2>7
<1> QED BY <1>3, <1>4

\* Every call keeps what is known of the lines that were shown.
LEMMA NextShown ==
  ASSUME Inv, ShownInv, [Next]_vars
  PROVE  ShownInv'
<1>1. ASSUME NEW c, NEW o, Called(c, o), c.op \notin {"Generic", "List"}
      PROVE  ShownInv'
  <2>1. doc' = doc /\ d' = o.val /\ task' = Idle /\ call'.op = c.op
    BY <1>1 DEF Called, MayCall
  <2> QED BY <1>1, <2>1, DoneShowing
<1>2. ASSUME NEW suppressTag \in BOOLEAN, Shows("Generic", AddGenericTLVItem(d, 0, suppressTag))
      PROVE  ShownInv'
  <2>1. MayCall("Generic")
    BY <1>2 DEF Shows
  <2>2. PICK j : Running(d) /\ OnOrBetween(d, j) /\ IsDocument(doc)
    BY <2>1, CallFinds
  <2> DEFINE o == AddGenericTLVItem(d, 0, suppressTag)
  <2>3. Opens(d, j, o) /\ (o.err = NoError => o.shown = <<Line(d, 0)>>)
    BY <2>2, GenericSteps
  <2> HIDE DEF o
  <2> QED BY <1>2, <2>2, <2>3, ShowsShown DEF o
<1>3. CASE Shows("List", AddListItem(d))
  <2>1. MayCall("List")
    BY <1>3 DEF Shows
  <2>2. PICK j : Running(d) /\ OnOrBetween(d, j) /\ IsDocument(doc)
    BY <2>1, CallFinds
  <2> DEFINE o == AddListItem(d)
  <2>3. /\ Opens(d, j, o) /\ (o.err = NoError => o.shown = <<Line(d, 0)>>)
        /\ o.err = NoError => IsOnContainer(d.reader)
    BY <2>2, ListSteps
  <2> HIDE DEF o
  <2> QED BY <1>3, <2>2, <2>3, ShowsShown DEF o
<1>4. CASE ShowMember
  BY <1>4, ShowMemberShown
<1>5. CASE UNCHANGED vars
  <2>1. /\ doc' = doc /\ d' = d /\ call' = call /\ err' = err /\ task' = task
        /\ within' = within /\ shown' = shown
    BY <1>5 DEF vars
  <2>2. CASE task # Idle
    <3>1. PICK i, k, j : Turn(i, k, j)
      BY <2>2, TurnFinds
    <3>2. PICK l \in Nat :
             LET e == Container(d, Len(d.stack) - within + 1)
             IN  OnOrBetween(d, l) /\ d.reader.elem.type \notin Containers
                 /\ e <= l /\ shown = ShownOf(task, e, l)
      BY <2>2 DEF ShownInv
    <3> QED BY <2>1, <2>2, <3>2, StillShowing
  <2>3. CASE task = Idle
    <3>1. \A op \in {"Generic", "List"} :
            err = NoError /\ call.op = op =>
              shown = ShownOf(op, TokenAt(d.start), LastShown(op, TokenAt(d.start)))
      BY <2>3 DEF ShownInv
    <3> QED BY <2>1, <2>3, <3>1, DoneShowing
  <2> QED BY <2>2, <2>3
<1>6. CASE Called([op |-> "Next"], DissectorNext(d)) \/ Called([op |-> "Enter"], DissectorEnter(d))
           \/ Called([op |-> "Exit"], DissectorExit(d))
  BY <1>1, <1>6
<1>7. ASSUME NEW e \in Expected,
             Called([op |-> "NextOf", type |-> e[1], tag |-> e[2]], DissectorNextOf(d, e[1], e[2]))
      PROVE  ShownInv'
  BY <1>1, <1>7
<1>8. ASSUME NEW fits \in BOOLEAN, Called([op |-> "AddTyped", fits |-> fits], AddTypedItem(d, fits))
      PROVE  ShownInv'
  BY <1>1, <1>8
<1>9. CASE Called([op |-> "AddSubTree"], AddSubTreeItem(d))
  BY <1>1, <1>9
<1> QED BY <1>2, <1>3, <1>4, <1>5, <1>6, <1>7, <1>8, <1>9 DEF Next

(***************************************************************************)
(* AddGenericTLVItem and AddListItem show every element in the one they    *)
(* are given, in order, with its bytes and at its depth, and the end of    *)
(* every container with the bytes of the container.                        *)
(***************************************************************************)
THEOREM ElementsShownWhole == Spec => []ShowsWholeElement
<1>1. Init => Inv /\ ShownInv
  <2> SUFFICES ASSUME Init PROVE Inv /\ ShownInv
    OBVIOUS
  <2>1. call.op = "Init" /\ task = Idle
    BY DEF Init
  <2> QED BY <2>1, InitInv DEF ShownInv
<1>2. Inv /\ ShownInv /\ [Next]_vars => Inv' /\ ShownInv'
  BY NextInv, NextShown
<1>3. ShownInv => ShowsWholeElement
  BY DEF ShownInv, ShowsWholeElement, ShownOf, LastShown
<1> QED BY <1>1, <1>2, <1>3, PTL DEF Spec
-----------------------------------------------------------------------------
(***************************************************************************)
(* When operations fail.                                                   *)
(***************************************************************************)
\* Where Next has skipped the element that a dissector is on.
LEMMA SkippedElement ==
  ASSUME IsDocument(doc), NEW x, Running(x), NEW j, OnOrBetween(x, j), NEW p, p = Skip(x.reader),
         p.err = NoError, NEW i, i = TokenBehind(x, j) - 1
  PROVE  /\ p.val \in ReaderType /\ p.val.elem = NoElement
         /\ IsIn(p.val, Innermost(x), Len(x.stack), i) /\ Whole(Innermost(x), Len(x.stack))
         /\ i \in j..Len(doc.toks) /\ i + 1 = TokenBehind(x, j) /\ p.val.at = doc.start[i + 1]
<1> DEFINE c == Innermost(x)   b == Len(x.stack)
<1>1. /\ x.reader \in ReaderType /\ Whole(c, b) /\ IsIn(x.reader, c, b, j) /\ x.reader.elem.type # "end"
  BY DissectorFields, InnermostWhole DEF Running, Typed, OnOrBetween, Inside
<1>2. /\ p.val \in ReaderType /\ p.val.elem = NoElement
      /\ \E k \in j..Len(doc.toks) :
           /\ IsIn(p.val, c, b, k) /\ p.val.at = doc.start[k + 1]
           /\ x.reader.elem = NoElement => k = j
           /\ x.reader.elem # NoElement => k >= 1 /\ k = doc.last[j]
  BY <1>1, SkipStaysIn
<1>3. PICK k \in j..Len(doc.toks) :
        /\ IsIn(p.val, c, b, k) /\ p.val.at = doc.start[k + 1]
        /\ x.reader.elem = NoElement => k = j
        /\ x.reader.elem # NoElement => k >= 1 /\ k = doc.last[j]
  BY <1>2
<1>4. TokenBehind(x, j) = k + 1
  BY <1>3 DEF TokenBehind
<1>5. i = k
  BY <1>3, <1>4
<1> QED BY <1>1, <1>2, <1>3, <1>4, <1>5

\* Next fails in a well formed document only as the reader does behind the skipped element.
LEMMA NextWithFails ==
  ASSUME IsDocument(doc), NEW x, Running(x), NEW j, OnOrBetween(x, j), NEW q,
         \A i : Skip(x.reader).err = NoError /\ Skip(x.reader).val.elem = NoElement /\ Passed(Skip(x.reader).val, i)
                => Advanced(Skip(x.reader).val, i, q),
         NEW o, o = NextWith(x, q)
  PROVE  /\ o.err = NoError => q.err = NoError /\ o.val.reader = q.val
         /\ WellFormed(doc) => o.err = q.err
         /\ o.err = EndOfTLV /\ x.stack = << >> =>
              \/ /\ o.val.reader = [InitReader EXCEPT !.at = doc.len]
                 /\ doc.start[TokenBehind(x, j)] = doc.len
              \/ o.val.reader.elem # NoElement /\ o.val.reader.elem.type # "end" /\ ~ WellFormed(doc)
<1> DEFINE c == Innermost(x)
           b == Len(x.stack)
           p == Skip(x.reader)
           i == TokenBehind(x, j) - 1
           y == [x EXCEPT !.item = NoItem]
           y1 == WithReader(y, p.val)
           y2 == MarkElemStart(y1)
           z == WithReader(y2, q.val)
<1>1. /\ x.reader \in ReaderType /\ Whole(c, b) /\ IsIn(x.reader, c, b, j) /\ x.reader.elem.type # "end"
      /\ x.reader.elem # NoElement => Complete(doc, j)
  BY DissectorFields, InnermostWhole DEF Running, Typed, OnOrBetween, Inside, IsExtentOf
<1>2. p.err # EndOfTLV
  BY <1>1, SkipNotCutOff DEF IsIn
<1>3. WellFormed(doc) => p.err = NoError
  BY <1>1, SkipSucceeds
<1>4. CASE p.err # NoError
  <2>1. o.err = p.err
    BY <1>4 DEF NextWith, Reading, Outcome
  <2> QED BY <1>2, <1>3, <1>4, <2>1
<1>5. CASE p.err = NoError
  <2>1. /\ p.val \in ReaderType /\ p.val.elem = NoElement /\ IsIn(p.val, c, b, i)
        /\ i + 1 = TokenBehind(x, j) /\ p.val.at = doc.start[i + 1]
    BY <1>5, SkippedElement
  <2>2. Advanced(p.val, i, q)
    <3>1. Passed(p.val, i)
      BY <2>1 DEF IsIn
    <3> QED BY <1>5, <2>1, <3>1
  <2>3. IsIn(q.val, c, b, i + 1) \/ q.err # NoError
    BY <1>1, <2>1, <2>2, AdvanceStaysIn
  <2> HIDE DEF i
  <2>4. Typed(z) /\ z.reader = q.val
    <3>1. Typed(y)
      BY OtherItem, NoItemType DEF Running
    <3>2. Typed(y1)
      <4> HIDE DEF y
      <4> QED BY <2>1, <3>1, OtherReader
    <3>3. Typed(y2)
      BY <3>2, OtherStart
    <3>4. q.val \in ReaderType
      BY <2>2 DEF Advanced
    <3> HIDE DEF y2
    <3> QED BY <3>3, <3>4, OtherReader
  <2>5. CASE q.err # NoError
    <3>1. o.val = z /\ o.err = q.err
      BY <1>5, <2>5 DEF NextWith, Reading, Outcome
    <3>2. ASSUME o.err = EndOfTLV, x.stack = << >>
          PROVE  o.val.reader = [InitReader EXCEPT !.at = doc.len] /\ doc.start[TokenBehind(x, j)] = doc.len
      <4>1. c = 0
        BY <3>2 DEF Innermost, Container
      <4>2. p.val.container = "none"
        BY <2>1, <4>1 DEF IsIn, Kind
      <4>3. q.val = p.val /\ p.val.at = doc.len
        BY <2>2, <3>1, <3>2, <4>2 DEF Advanced
      <4> HIDE DEF p
      <4>4. p.val = [InitReader EXCEPT !.at = doc.len]
        BY <2>1, <4>2, <4>3 DEF ReaderType, InitReader
      <4> QED BY <2>1, <2>4, <3>1, <4>3, <4>4
    <3> QED BY <2>5, <3>1, <3>2
  <2>6. CASE q.err = NoError
    <3> DEFINE s == Skip(z.reader)
    <3>1. o = MarkElemLength(z)
      BY <1>5, <2>6 DEF NextWith, Reading
    <3>2. q.val.elem # NoElement /\ q.val.elem.type # "end" /\ q.val \in ReaderType
      BY <2>2, <2>6 DEF Advanced
    <3> HIDE DEF z
    <3>3. o.err = s.err
      BY <3>1 DEF MarkElemLength, OK, Outcome
    <3>4. o.val.reader = z.reader
      <4>1. CASE s.err = NoError
        <5>1. o.val = [z EXCEPT !.len = s.val.at - z.start]
          BY <3>1, <4>1 DEF MarkElemLength, OK, Outcome
        <5>2. z \in DissectorType
          BY <2>4 DEF Typed
        <5> QED BY <5>1, <5>2 DEF DissectorType
      <4>2. CASE s.err # NoError
        BY <3>1, <4>2 DEF MarkElemLength, Outcome
      <4> QED BY <4>1, <4>2
    <3>5. WellFormed(doc) => s.err = NoError
      BY <1>1, <2>3, <2>4, <2>6, <3>2, SkipSucceeds
    <3>6. EndOfTLV # NoError
      BY DEF EndOfTLV, NoError
    <3> QED BY <2>4, <2>6, <3>2, <3>3, <3>4, <3>5, <3>6
  <2> QED BY <2>5, <2>6
<1> QED BY <1>4, <1>5

\* In a document that is well formed, Next fails only at the end of a container.
LEMMA DissectorNextFails ==
  ASSUME IsDocument(doc), NEW x, Running(x), NEW j, OnOrBetween(x, j),
         NEW o, o = DissectorNext(x), NEW m, m = TokenBehind(x, j)
  PROVE  /\ WellFormed(doc) =>
              o.err = IF m <= Len(doc.toks) /\ doc.toks[m].type # "end" THEN NoError ELSE EndOfTLV
         /\ o.err = EndOfTLV /\ x.stack = << >> =>
              \/ o.val.reader = [InitReader EXCEPT !.at = doc.len] /\ doc.start[m] = doc.len
              \/ o.val.reader.elem # NoElement /\ o.val.reader.elem.type # "end" /\ ~ WellFormed(doc)
<1> DEFINE p == Skip(x.reader)
           q == ReaderNext(p.val)
<1>1. o = NextWith(x, q)
  BY DEF DissectorNext, NextBy, NextWith, Reading, MarkElemStart, WithReader
<1>2. p.val \in ReaderType
  BY DissectorFields, SkipStaysIn, InnermostWhole DEF Running, Typed, OnOrBetween, Inside
<1>3. \A i : p.err = NoError /\ p.val.elem = NoElement /\ Passed(p.val, i) => Advanced(p.val, i, q)
  BY <1>2, ReaderNextAdvances
<1>4. /\ WellFormed(doc) => o.err = q.err
      /\ o.err = EndOfTLV /\ x.stack = << >> =>
           \/ o.val.reader = [InitReader EXCEPT !.at = doc.len] /\ doc.start[m] = doc.len
           \/ o.val.reader.elem # NoElement /\ o.val.reader.elem.type # "end" /\ ~ WellFormed(doc)
  <2> HIDE DEF q
  <2> QED BY <1>1, <1>3, NextWithFails
<1>5. ASSUME WellFormed(doc)
      PROVE  q.err = IF m <= Len(doc.toks) /\ doc.toks[m].type # "end" THEN NoError ELSE EndOfTLV
  <2> DEFINE i == m - 1
  <2>1. p.err = NoError
    BY <1>5, DissectorFields, InnermostWhole, SkipSucceeds DEF Running, Typed, OnOrBetween, Inside
  <2>2. /\ p.val.elem = NoElement /\ IsIn(p.val, Innermost(x), Len(x.stack), i)
        /\ Whole(Innermost(x), Len(x.stack)) /\ i \in j..Len(doc.toks) /\ i + 1 = m
    BY <2>1, SkippedElement
  <2>3. i < Len(doc.toks) <=> m <= Len(doc.toks)
    BY <2>2, DocumentTypes
  <2> HIDE DEF i, p
  <2>4. q.err = IF i < Len(doc.toks) /\ doc.toks[i + 1].type # "end" THEN NoError ELSE EndOfTLV
    BY <1>2, <1>5, <2>2, NextSucceeds
  <2> QED BY <2>2, <2>3, <2>4
<1> QED BY <1>4, <1>5

\* NextOf finds what is expected, and in a well formed document does not miss it.
LEMMA DissectorNextOfFails ==
  ASSUME IsDocument(doc), NEW x, Running(x), NEW j, OnOrBetween(x, j), NEW type, NEW tag,
         NEW o, o = DissectorNextOf(x, type, tag), NEW m, m = TokenBehind(x, j)
  PROVE  /\ o.err = NoError => o.val.reader.elem.type = type /\ o.val.reader.elem.tag = tag
         /\ WellFormed(doc) /\ m <= Len(doc.toks) /\ doc.toks[m].type = type /\ doc.toks[m].tag = tag
            /\ type # "end" => o.err = NoError
<1> DEFINE p == Skip(x.reader)
           q == ReaderNextOf(p.val, type, tag)
<1>1. o = NextWith(x, q)
  BY DEF DissectorNextOf, NextBy, NextWith, Reading, MarkElemStart, WithReader
<1>2. p.val \in ReaderType
  BY DissectorFields, SkipStaysIn, InnermostWhole DEF Running, Typed, OnOrBetween, Inside
<1>3. \A i : p.err = NoError /\ p.val.elem = NoElement /\ Passed(p.val, i) => Advanced(p.val, i, q)
  BY <1>2, ReaderNextOfAdvances
<1>4. /\ o.err = NoError => q.err = NoError /\ o.val.reader = q.val
      /\ WellFormed(doc) => o.err = q.err
  <2> HIDE DEF q
  <2> QED BY <1>1, <1>3, NextWithFails
<1>5. q.err = NoError => q.val.elem.type = type /\ q.val.elem.tag = tag
  BY DEF ReaderNextOf, Then, Outcome, NoError
<1>6. ASSUME WellFormed(doc), m <= Len(doc.toks), doc.toks[m].type = type, doc.toks[m].tag = tag,
             type # "end"
      PROVE  q.err = NoError
  <2> DEFINE i == m - 1
  <2>1. p.err = NoError
    BY <1>6, DissectorFields, InnermostWhole, SkipSucceeds DEF Running, Typed, OnOrBetween, Inside
  <2>2. /\ p.val.elem = NoElement /\ IsIn(p.val, Innermost(x), Len(x.stack), i)
        /\ Whole(Innermost(x), Len(x.stack)) /\ i \in j..Len(doc.toks) /\ i + 1 = m
    BY <2>1, SkippedElement
  <2>3. i < Len(doc.toks)
    BY <1>6, <2>2, DocumentTypes
  <2> HIDE DEF i, p
  <2>4. doc.toks[i + 1].type = type /\ doc.toks[i + 1].tag = tag
    BY <1>6, <2>2
  <2> QED BY <1>2, <1>6, <2>2, <2>3, <2>4, NextOfSucceeds
<1> QED BY <1>4, <1>5, <1>6

\* Containers of a well formed document can be left from wherever the dissector is in them.
LEMMA LeaveSucceeds ==
  ASSUME IsDocument(doc), WellFormed(doc), NEW x, Typed(x), StackOK(x), x.stack # << >>,
         NEW j, Inside(x, j), NEW depth
  PROVE  DissectorExit(x).err = NoError /\ LeaveContainer(x, depth).err = NoError
<1> DEFINE e == ExitContainer(x.reader, x.stack[Len(x.stack)].outer)
<1>1. e.err = NoError
  <2>1. Innermost(x) # 0 /\ Whole(Innermost(x), Len(x.stack)) /\ x.reader \in ReaderType
    BY DissectorFields, InnermostIs, InnermostWhole DEF Typed
  <2>2. IsIn(x.reader, Innermost(x), Len(x.stack), j)
    BY DEF Inside
  <2> QED BY <2>1, <2>2, ExitSucceeds
<1>2. DissectorExit(x).err = NoError
  <2> HIDE DEF e
  <2> QED BY <1>1 DEF DissectorExit, Reading, OK, Outcome, e
<1>3. LeaveContainer(x, depth).err = NoError
  BY <1>2 DEF LeaveContainer, Showing, OK, Outcome
<1> QED BY <1>2, <1>3

\* The value of an element is fetched, unless it has none or is an empty byte
\* string at the end of the buffer.
EmptyBytes(i) == doc.toks[i].type = "bytes" /\ doc.toks[i].len = 0

\* Values cannot be fetched between elements, of containers, of what is no TLV and, at the end of the document, of no bytes.
LEMMA ValueFails ==
  ASSUME IsDocument(doc), NEW x, Running(x), NEW j, OnOrBetween(x, j), AddValue(x).err # NoError
  PROVE  \/ x.reader.elem = NoElement \/ IsOnContainer(x.reader)
         \/ doc.toks[j].type = "invalid"
         \/ EmptyBytes(j) /\ doc.start[j + 1] = doc.len
<1> DEFINE r == x.reader
           g == GetValue(r)
<1>1. r \in ReaderType /\ Passed(r, j) /\ r.elem.type # "end"
  BY DissectorFields DEF Running, Typed, OnOrBetween, Inside, IsIn
<1>2. g.err # NoError
  BY DEF AddValue, Reading, OK, Outcome
<1>3. /\ r.at \in Nat /\ r.elem.len \in Nat /\ doc.len \in Nat /\ r.elem \in HeadType \cup {NoElement}
      /\ r.at + Unread(r) = doc.start[j + 1] /\ doc.start[j + 1] <= doc.len
      /\ r.elem # NoElement => OfToken(r.elem, doc.toks[j])
  BY <1>1, UnreadType, DocumentTypes DEF Passed, ReaderType
<1> SUFFICES ASSUME r.elem # NoElement, ~ IsOnContainer(r), doc.toks[j].type # "invalid"
             PROVE  EmptyBytes(j) /\ doc.start[j + 1] = doc.len
  OBVIOUS
<1>4. r.elem.type \in {"number", "utf8", "bytes"} /\ r.elem.type = doc.toks[j].type
  BY <1>1, <1>3 DEF OfToken, HeadType, ElementTypes, IsOnContainer, Strings
<1> HIDE DEF r
<1>5. r.elem.type # "number"
  BY <1>2 DEF GetValue, OK, Outcome
<1>6. Unread(r) = r.elem.len
  BY <1>4, <1>5 DEF Unread, Strings
<1>7. r.elem.type # "utf8"
  <2> SUFFICES ASSUME r.elem.type = "utf8" PROVE FALSE
    OBVIOUS
  <2>1. ReadData(r, r.elem.len).err = NoError
    <3>1. r.elem.len <= doc.len - r.at
      BY <1>3, <1>6
    <3> QED BY <3>1 DEF ReadData, OK, Outcome
  <2> QED BY <1>2, <2>1 DEF GetValue, DupString, Then, OK, Outcome
<1>8. r.elem.type = "bytes" /\ r.elem.len = doc.toks[j].len
  BY <1>3, <1>4, <1>5, <1>7 DEF OfToken
<1>9. r.at = doc.len
  <2>1. ~ (doc.len - r.at < r.elem.len)
    BY <1>3, <1>6
  <2> QED BY <1>2, <1>8, <2>1 DEF GetValue, GetDataPtr, OK, Outcome
<1>10. r.elem.len = 0 /\ doc.start[j + 1] = doc.len
  BY <1>3, <1>6, <1>9
<1> QED BY <1>4, <1>8, <1>10 DEF EmptyBytes

\* And it is shown, if it has a text.
LEMMA GenericFails ==
  ASSUME IsDocument(doc), NEW x, Running(x), NEW j, OnOrBetween(x, j), NEW depth, NEW suppressTag,
         AddGenericTLVItem(x, depth, suppressTag).err # NoError
  PROVE  \/ x.reader.elem = NoElement
         \/ doc.toks[j].type = "invalid"
         \/ EmptyBytes(j) /\ (depth = 0 \/ doc.start[j + 1] = doc.len)
<1>1. CASE IsOnContainer(x.reader)
  <2>1. ~ HasNoText(x, depth, suppressTag)
    BY <1>1 DEF HasNoText, IsOnContainer, Containers
  <2>2. DissectorEnter(AddItem(x)).err = NoError
    BY <1>1, EnterOpens
  <2> QED BY <1>1, <2>1, <2>2 DEF AddGenericTLVItem, Showing
<1>2. CASE ~ IsOnContainer(x.reader)
  <2>1. AddValue(x).err # NoError \/ HasNoText(x, depth, suppressTag)
    BY <1>2 DEF AddGenericTLVItem, AddValue, Showing
  <2>2. CASE AddValue(x).err # NoError
    BY <1>2, <2>2, ValueFails
  <2>3. CASE HasNoText(x, depth, suppressTag)
    <3>1. depth = 0 /\ x.reader.elem.type = "bytes" /\ x.reader.elem.len = 0
      BY <2>3 DEF HasNoText
    <3>2. x.reader.elem # NoElement => OfToken(x.reader.elem, doc.toks[j])
      BY DEF OnOrBetween, Inside, IsIn, Passed
    <3> QED BY <3>1, <3>2 DEF OfToken, EmptyBytes
  <2> QED BY <2>1, <2>2, <2>3
<1> QED BY <1>1, <1>2

\* AddListItem fails on what is no list.
LEMMA ListFails ==
  ASSUME IsDocument(doc), NEW x, Running(x), NEW j, OnOrBetween(x, j), AddListItem(x).err # NoError
  PROVE  x.reader.elem.type \notin {"array", "path"}
<1> SUFFICES ASSUME x.reader.elem.type \in {"array", "path"} PROVE FALSE
  OBVIOUS
<1>1. IsOnContainer(x.reader)
  BY DEF IsOnContainer, Containers
<1>2. DissectorEnter(AddItem(x)).err = NoError
  BY <1>1, EnterOpens
<1> QED BY <1>2 DEF AddListItem, Showing
-----------------------------------------------------------------------------
(***************************************************************************)
(* The members of the containers that a dissector has entered.             *)
(***************************************************************************)
VisitedBy(r, c) ==
  LET before == {i \in Members(doc, c) : doc.start[i] < r.at}
  IN  IF before = {} THEN 0 ELSE CHOOSE i \in before : \A j \in before : j <= i

\* The tokens in front of the read point are those that the reader has passed.
LEMMA StartsBefore ==
  ASSUME IsDocument(doc), NEW r \in ReaderType, NEW j, Passed(r, j), NEW i \in 1..Len(doc.toks)
  PROVE  doc.start[i] < r.at <=> i <= j
<1> DEFINE N == Len(doc.toks)
<1>1. /\ N \in Nat /\ j \in 0..N /\ i \in 1..N /\ r.at \in Nat /\ Unread(r) \in Nat
      /\ r.at + Unread(r) = doc.start[j + 1]
      /\ r.elem # NoElement => j >= 1 /\ OfToken(r.elem, doc.toks[j])
  BY DocumentTypes, UnreadType DEF Passed
<1>2. i \in 1..N + 1 /\ j + 1 \in 1..N + 1
  BY <1>1
<1>3. doc.start[i] \in Nat /\ doc.start[j + 1] \in Nat
  BY <1>2, DocumentTypes
<1>4. CASE i <= j
  <2>1. j \in 1..N /\ j \in 1..N + 1 /\ j < j + 1
    BY <1>1, <1>4
  <2>2. doc.start[j] \in Nat /\ doc.start[j] < doc.start[j + 1] /\ doc.toks[j] \in HeadType
    <3>1. doc.start[j] \in Nat /\ doc.toks[j] \in HeadType
      BY <2>1, DocumentTypes
    <3>2. doc.start[j] < doc.start[j + 1]
      BY <1>2, <2>1, DocumentTypes
    <3> QED BY <3>1, <3>2
  <2>3. doc.start[i] <= doc.start[j]
    <3>1. CASE i = j
      BY <1>3, <3>1
    <3>2. CASE i # j
      <4>1. i < j
        BY <1>1, <1>4, <3>2
      <4>2. doc.start[i] < doc.start[j]
        BY <1>2, <2>1, <4>1, DocumentTypes
      <4> QED BY <1>3, <2>2, <4>2
    <3> QED BY <3>1, <3>2
  <2>4. doc.start[j] < r.at
    <3>1. CASE r.elem = NoElement
      <4>1. Unread(r) = 0
        BY <3>1 DEF Unread, NoElement, Strings
      <4> QED BY <1>1, <2>2, <4>1
    <3>2. CASE r.elem # NoElement
      <4>1. doc.start[j + 1] = doc.start[j] + Size(doc.toks[j])
        BY <2>1, DocumentTypes
      <4>2. doc.toks[j].head \in Nat \ {0} /\ doc.toks[j].len \in Nat
        BY <2>2, SizeType
      <4>3. Unread(r) <= doc.toks[j].len
        <5>1. r.elem.len = doc.toks[j].len \/ r.elem.len = 0
          BY <1>1, <3>2 DEF OfToken
        <5> QED BY <4>2, <5>1 DEF Unread
      <4> DEFINE h == doc.toks[j].head   l == doc.toks[j].len
      <4>4. doc.start[j + 1] = doc.start[j] + (h + l)
        BY <4>1 DEF Size
      <4>5. r.at + Unread(r) = doc.start[j + 1] /\ r.at \in Nat /\ Unread(r) \in Nat
        BY <1>1
      <4>6. doc.start[j] \in Nat
        BY <2>2
      <4>7. h \in Nat \ {0} /\ l \in Nat /\ Unread(r) <= l
        BY <4>2, <4>3
      <4> HIDE DEF h, l
      <4> QED BY <4>4, <4>5, <4>6, <4>7
    <3> QED BY <3>1, <3>2
  <2> QED BY <1>1, <1>3, <1>4, <2>2, <2>3, <2>4
<1>5. CASE ~ (i <= j)
  <2>1. doc.start[j + 1] <= doc.start[i]
    <3>1. CASE i = j + 1
      BY <1>3, <3>1
    <3>2. CASE i # j + 1
      <4>1. j + 1 < i
        BY <1>1, <1>5, <3>2
      <4>2. doc.start[j + 1] < doc.start[i]
        BY <1>2, <4>1, DocumentTypes
      <4> QED BY <1>3, <4>2
    <3> QED BY <3>1, <3>2
  <2> QED BY <1>1, <1>3, <1>5, <2>1
<1> QED BY <1>4, <1>5

\* The last visited member is the last one that the reader has passed.
LEMMA VisitedIs ==
  ASSUME IsDocument(doc), NEW r \in ReaderType, NEW j, Passed(r, j), NEW c, NEW b, Whole(c, b),
         NEW v, v = VisitedBy(r, c)
  PROVE  /\ v = 0 \/ (v \in Members(doc, c) /\ v <= j)
         /\ \A i \in Members(doc, c) : i <= j => i <= v
<1> DEFINE M == Members(doc, c)
           before == {i \in M : doc.start[i] < r.at}
           S == {j - i : i \in before}
<1>1. j \in Nat /\ Len(doc.toks) \in Nat /\ c \in Nat
  BY DocumentTypes DEF Passed, Whole
<1>2. \A i \in M : i \in 1..Len(doc.toks) /\ i > c
  <2> TAKE i \in M
  <2>1. i \in c + 1..Len(doc.toks)
    <3> HIDE DEF M
    <3> QED BY MemberIs DEF M
  <2> QED BY <1>1, <2>1
<1> HIDE DEF M
<1>3. \A i \in M : i \in before <=> i <= j
  BY <1>2, StartsBefore
<1>4. v = IF before = {} THEN 0 ELSE CHOOSE i \in before : \A k \in before : k <= i
  BY DEF VisitedBy, M
<1>5. CASE before = {}
  BY <1>2, <1>3, <1>4, <1>5 DEF M
<1>6. CASE before # {}
  <2>1. S \subseteq Nat /\ S # {}
    <3>1. \A i \in before : i \in M /\ i \in Int /\ i <= j
      BY <1>2, <1>3
    <3> HIDE DEF before
    <3>2. \A i \in before : j - i \in Nat
      BY <1>1, <3>1
    <3> QED BY <1>6, <3>2
  <2>2. Least(S) \in S /\ \A k \in S : Least(S) <= k
    BY <2>1, LeastExists
  <2>3. PICK i \in before : Least(S) = j - i
    BY <2>2
  <2>4. \A k \in before : k <= i
    <3> TAKE k \in before
    <3>1. j - k \in S
      OBVIOUS
    <3>2. j - i <= j - k
      BY <2>2, <2>3, <3>1
    <3>3. k \in Int /\ i \in Int
      BY <1>2
    <3> QED BY <1>1, <3>2, <3>3
  <2> HIDE DEF before
  <2>5. v \in before /\ \A k \in before : k <= v
    BY <1>4, <1>6, <2>4
  <2>6. v \in M /\ v <= j
    BY <1>3, <2>5 DEF before
  <2> QED BY <1>3, <2>5, <2>6 DEF M
<1> QED BY <1>5, <1>6

\* How to find the last member visited.
LEMMA VisitedIsThat ==
  ASSUME IsDocument(doc), NEW r \in ReaderType, NEW j, Passed(r, j), NEW c, NEW b, Whole(c, b)
  PROVE  /\ \A w \in Members(doc, c) : w <= j /\ (\A i \in Members(doc, c) : i <= j => i <= w)
              => VisitedBy(r, c) = w
         /\ (\A i \in Members(doc, c) : ~ (i <= j)) => VisitedBy(r, c) = 0
<1> DEFINE v == VisitedBy(r, c)
<1>1. /\ v = 0 \/ (v \in Members(doc, c) /\ v <= j)
      /\ \A i \in Members(doc, c) : i <= j => i <= v
  BY VisitedIs
<1>2. c \in Nat /\ \A i \in Members(doc, c) : i \in Nat /\ i > c
  <2>1. c \in Nat
    BY DocumentTypes DEF Whole
  <2>2. \A i \in Members(doc, c) : i \in c + 1..Len(doc.toks)
    BY MemberIs
  <2> QED BY <2>1, <2>2, DocumentTypes
<1> HIDE DEF v
<1>3. ASSUME NEW w \in Members(doc, c), w <= j, \A i \in Members(doc, c) : i <= j => i <= w
      PROVE  v = w
  <2>1. w <= v /\ w \in Nat /\ w > c
    BY <1>1, <1>2, <1>3
  <2>2. v \in Members(doc, c) /\ v <= j
    BY <1>1, <1>2, <2>1
  <2>3. v <= w /\ v \in Nat
    BY <1>2, <1>3, <2>2
  <2> QED BY <2>1, <2>3
<1> QED BY <1>1, <1>3 DEF v

\* Every container that was entered is a member of the one around it.
LEMMA ContainerWhole ==
  ASSUME IsDocument(doc), NEW x, Typed(x), StackOK(x), NEW k \in 0..Len(x.stack)
  PROVE  Whole(Container(x, k), k)
<1>1. Len(x.stack) \in Nat
  BY DissectorFields DEF Typed
<1>2. CASE k = 0
  BY <1>2, DocumentTypes DEF Whole, Container
<1>3. CASE k # 0
  <2>1. Stands(x.stack[k], Container(x, k), k, Container(x, k - 1))
    BY <1>1, <1>3 DEF StackOK
  <2> QED BY <2>1, DocumentTypes DEF Stands, IsExtentOf, Whole
<1> QED BY <1>2, <1>3

\* Every container on the stack is a member of the one below it.
LEMMA ContainerIsMember ==
  ASSUME IsDocument(doc), NEW x, Typed(x), StackOK(x), NEW k \in 1..Len(x.stack)
  PROVE  /\ Container(x, k) \in Members(doc, Container(x, k - 1))
         /\ Container(x, k) \in 1..Len(doc.toks) /\ IsContainer(doc, Container(x, k))
         /\ Complete(doc, Container(x, k)) /\ doc.depth[Container(x, k) - 1] = k - 1
<1> DEFINE N == Len(doc.toks)   c == Container(x, k)   p == Container(x, k - 1)   b == k - 1
<1>1. Len(x.stack) \in Nat /\ k - 1 \in 0..Len(x.stack) /\ N \in Nat /\ k \in Nat
  BY DissectorFields, DocumentTypes DEF Typed
<1>2. Stands(x.stack[k], c, k, p)
  BY DEF StackOK
<1>3. Whole(p, b)
  BY <1>1, ContainerWhole
<1>4. /\ c \in 1..N /\ Complete(doc, c) /\ IsContainer(doc, c) /\ p < c /\ doc.depth[c] = k
      /\ \A i \in p..c - 1 : doc.depth[i] >= b
  BY <1>2 DEF Stands, IsExtentOf
<1>5. p \in 0..N
  BY <1>3 DEF Whole
<1> HIDE DEF c, p, b
<1>6. doc.depth[c - 1] = b
  BY <1>1, <1>4, ContainerOpens DEF b
<1>7. doc.start[c] < doc.len
  <2>1. doc.last[c] \in c + 1..N /\ doc.start[doc.last[c] + 1] <= doc.len
    BY <1>4, LastOfContainer DEF IsContainer, Complete
  <2>2. c \in 1..N + 1 /\ doc.last[c] + 1 \in 1..N + 1 /\ c < doc.last[c] + 1
    BY <1>1, <1>4, <2>1
  <2>3. doc.start[c] \in Nat /\ doc.start[doc.last[c] + 1] \in Nat /\ doc.start[c] < doc.start[doc.last[c] + 1]
    BY <2>2, DocumentTypes
  <2> QED BY <2>1, <2>3, DocumentTypes
<1>8. p # 0 => c < doc.last[p]
  <2> HAVE p # 0
  <2>1. c \in p..N
    BY <1>4, <1>5
  <2>2. \A i \in p..c : doc.depth[i] >= b
    <3>1. \A i \in p..c : i = c \/ i \in p..c - 1
      BY <1>4, <1>5
    <3>2. doc.depth[c] >= b
      BY <1>1, <1>4 DEF b
    <3> QED BY <1>4, <3>1, <3>2
  <2> QED BY <1>3, <2>1, <2>2, NotCutOff
<1>9. doc.toks[c].type # "end"
  BY <1>4 DEF IsContainer, Containers
<1>10. c \in p + 1..N
  BY <1>4, <1>5
<1>11. c \in Members(doc, p)
  BY <1>3, <1>6, <1>7, <1>8, <1>9, <1>10, MemberIs
<1> QED BY <1>4, <1>6, <1>11 DEF c, p, b

\* There is no member of a container inside another member.
LEMMA NoneInElement ==
  ASSUME IsDocument(doc), NEW c, NEW b, Whole(c, b), NEW j \in 1..Len(doc.toks), doc.depth[j - 1] = b,
         doc.last[j] # 0, NEW i \in Members(doc, c), j < i
  PROVE  i > doc.last[j]
<1> DEFINE N == Len(doc.toks)   l == doc.last[j]
<1>1. N \in Nat /\ i \in c + 1..N /\ doc.depth[i - 1] = b /\ c \in 0..N /\ b \in Int
  <2>1. i \in c + 1..N /\ doc.depth[i - 1] = b
    BY MemberIs
  <2>2. N \in Nat /\ \A k \in 0..N : doc.depth[k] \in Int
    BY DocumentTypes
  <2>3. c \in 0..N /\ doc.depth[c] = b
    BY DEF Whole
  <2> QED BY <2>1, <2>2, <2>3
<1>2. CASE doc.toks[j].type \notin Containers
  BY <1>2, LastOfOther
<1>3. CASE doc.toks[j].type \in Containers
  <2>1. l \in j + 1..N /\ \A k \in j + 1..l - 1 : doc.depth[k] # doc.depth[j] - 1
    BY <1>3, LastOfContainer
  <2>2. doc.depth[j] - 1 = b /\ doc.depth[j] \in Int
    BY <1>3, ContainerOpens DEF IsContainer
  <2> HIDE DEF l
  <2> SUFFICES ASSUME i <= l PROVE FALSE
    BY <1>1, <2>1 DEF l
  <2>3. i - 1 # j
    <3> SUFFICES ASSUME i - 1 = j PROVE FALSE
      OBVIOUS
    <3>1. doc.depth[j] = b
      BY <1>1
    <3> QED BY <2>2, <3>1
  <2>4. i - 1 \in j + 1..l - 1
    BY <1>1, <2>1, <2>3
  <2> QED BY <1>1, <2>1, <2>2, <2>4
<1> QED BY <1>2, <1>3

\* The element that a dissector is on is a member of the innermost container.
LEMMA OnMember ==
  ASSUME IsDocument(doc), NEW x, Running(x), NEW j, OnOrBetween(x, j), x.reader.elem # NoElement
  PROVE  /\ j \in Members(doc, Innermost(x)) /\ doc.depth[j - 1] = Len(x.stack)
         /\ j \in 1..Len(doc.toks) /\ Complete(doc, j) /\ doc.last[j] \in j..Len(doc.toks)
<1> DEFINE N == Len(doc.toks)   c == Innermost(x)   b == Len(x.stack)
<1>1. Whole(c, b) /\ IsIn(x.reader, c, b, j) /\ IsExtentOf(x.start, x.len, j) /\ N \in Nat /\ b \in Nat
  BY DissectorFields, InnermostWhole, DocumentTypes DEF Running, Typed, OnOrBetween, Inside
<1>2. /\ c < j /\ j \in 1..N /\ doc.depth[j - 1] = b /\ \A k \in c..j - 1 : doc.depth[k] >= b
  <2>1. c < j /\ LevelAt(x.reader, j) = b /\ \A k \in c..j - 1 : doc.depth[k] >= b
    BY <1>1 DEF IsIn
  <2>2. j \in 1..N
    BY <1>1 DEF IsExtentOf
  <2> QED BY <2>1, <2>2 DEF LevelAt
<1>3. c \in 0..N /\ doc.depth[j] \in Int /\ doc.depth[j - 1] \in Int
  BY <1>1, <1>2, DocumentTypes DEF Whole
<1>4. doc.toks[j].type # "end" /\ x.reader.elem.type = doc.toks[j].type
  <2>1. Passed(x.reader, j)
    BY <1>1 DEF IsIn
  <2> QED BY <2>1, LevelType DEF OnOrBetween
<1>5. Complete(doc, j) /\ doc.last[j] \in j..N
  BY <1>1, ExtentType DEF IsExtentOf
<1> HIDE DEF c, b
<1>6. doc.start[j] < doc.len
  <2>1. j \in 1..N + 1 /\ doc.last[j] + 1 \in 1..N + 1 /\ j < doc.last[j] + 1
    BY <1>1, <1>2, <1>5
  <2>2. /\ doc.start[j] \in Nat /\ doc.start[doc.last[j] + 1] \in Nat
        /\ doc.start[j] < doc.start[doc.last[j] + 1]
    BY <2>1, DocumentTypes
  <2>3. doc.start[doc.last[j] + 1] <= doc.len
    BY <1>5 DEF Complete
  <2> QED BY <2>2, <2>3, DocumentTypes
<1>7. c # 0 => j < doc.last[c]
  <2> HAVE c # 0
  <2>1. doc.depth[j] >= b
    <3>1. Nesting(doc.toks[j]) \in {0, 1} /\ doc.depth[j] = doc.depth[j - 1] + Nesting(doc.toks[j])
      BY <1>2, <1>4, DocumentTypes DEF Nesting
    <3> QED BY <1>1, <1>2, <3>1 DEF b
  <2>2. \A k \in c..j : doc.depth[k] >= b
    <3>1. \A k \in c..j : k = j \/ k \in c..j - 1
      BY <1>2, <1>3
    <3> QED BY <1>2, <2>1, <3>1
  <2>3. j \in c..N
    BY <1>2, <1>3
  <2> QED BY <1>1, <2>2, <2>3, NotCutOff DEF c, b
<1>8. j \in c + 1..N
  BY <1>2, <1>3
<1>9. j \in Members(doc, c)
  BY <1>1, <1>2, <1>4, <1>6, <1>7, <1>8, MemberIs DEF c, b
<1> QED BY <1>2, <1>5, <1>9 DEF c, b
-----------------------------------------------------------------------------
(***************************************************************************)
(* The cursor that a dissector is.                                         *)
(***************************************************************************)
OnFrame(x, k) == [container |-> Container(x, k - 1), at |-> Container(x, k), state |-> "on"]
PlaceFrame(x, state) ==
  [container |-> Innermost(x), at |-> VisitedBy(x.reader, Innermost(x)), state |-> state]

\* The frames of n containers that x has entered, and the one on top of them.
Frames(x, n, top) == [k \in 1..n + 1 |-> IF k <= n THEN OnFrame(x, k) ELSE top]

CursorBar == IF err = NoError \/ AtEndOfContainer THEN CursorFrames ELSE << >>

\* Whether the reader is on an element or between two.
Place(x) == IF x.reader.elem = NoElement THEN "between" ELSE "on"

\* The frames are a sequence.
LEMMA FramesAre ==
  ASSUME NEW x, NEW n \in Nat, NEW top
  PROVE  /\ Len(Frames(x, n, top)) = n + 1 /\ Frames(x, n, top) # << >>
         /\ Frames(x, n, top)[n + 1] = top
<1> DEFINE F == Frames(x, n, top)
           S == {OnFrame(x, k) : k \in Int} \cup {top}
<1>1. \A k \in 1..n + 1 : (IF k <= n THEN OnFrame(x, k) ELSE top) \in S
  OBVIOUS
<1>2. F \in [1..n + 1 -> S]
  <2> HIDE DEF S
  <2> QED BY <1>1 DEF Frames
<1>3. F \in Seq(S) /\ Len(F) = n + 1
  <2> HIDE DEF F, S
  <2> QED BY <1>2
<1>4. F[n + 1] = top
  BY DEF Frames
<1>5. F # << >>
  <2> HIDE DEF F, S
  <2> QED BY <1>3
<1> QED BY <1>3, <1>4, <1>5

\* Another frame on top.
LEMMA FramesReplace ==
  ASSUME NEW x, NEW n \in Nat, NEW top, NEW f
  PROVE  [Frames(x, n, top) EXCEPT ![n + 1] = f] = Frames(x, n, f)
<1> DEFINE F == Frames(x, n, top)
<1>1. [F EXCEPT ![n + 1] = f] = [k \in 1..n + 1 |-> IF k = n + 1 THEN f ELSE F[k]]
  <2>1. F = [k \in 1..n + 1 |-> F[k]] /\ DOMAIN F = 1..n + 1
    BY DEF Frames
  <2> HIDE DEF F
  <2> QED BY <2>1
<1>2. \A k \in 1..n + 1 : (IF k = n + 1 THEN f ELSE F[k]) = IF k <= n THEN OnFrame(x, k) ELSE f
  BY DEF Frames
<1> HIDE DEF F
<1> QED BY <1>1, <1>2 DEF Frames, F

\* One more container.
LEMMA FramesAppend ==
  ASSUME NEW x, NEW n \in Nat, NEW f
  PROVE  Append(Frames(x, n, OnFrame(x, n + 1)), f) = Frames(x, n + 1, f)
<1> DEFINE F == Frames(x, n, OnFrame(x, n + 1))
           G == Frames(x, n + 1, f)
           S == {OnFrame(x, k) : k \in Int}
<1>1. \A k \in 1..n + 1 : F[k] = OnFrame(x, k)
  <2> TAKE k \in 1..n + 1
  <2>1. k <= n \/ k = n + 1
    OBVIOUS
  <2> QED BY <2>1 DEF Frames
<1>2. F \in Seq(S) /\ Len(F) = n + 1
  <2>1. \A k \in 1..n + 1 : F[k] \in S
    BY <1>1
  <2>2. F = [k \in 1..n + 1 |-> F[k]]
    BY DEF Frames
  <2> HIDE DEF F, S
  <2>3. F \in [1..n + 1 -> S]
    BY <2>1, <2>2
  <2> QED BY <2>3
<1>3. Append(F, f) = [k \in 1..n + 2 |-> IF k <= n + 1 THEN F[k] ELSE f]
  <2>1. F = [k \in 1..n + 1 |-> F[k]]
    BY DEF Frames
  <2> HIDE DEF F, S
  <2> QED BY <1>2, <2>1
<1>4. G = [k \in 1..n + 2 |-> IF k <= n + 1 THEN OnFrame(x, k) ELSE f]
  BY DEF Frames
<1> HIDE DEF F, G
<1>5. \A k \in 1..n + 2 : (IF k <= n + 1 THEN F[k] ELSE f) = IF k <= n + 1 THEN OnFrame(x, k) ELSE f
  BY <1>1
<1> QED BY <1>3, <1>4, <1>5 DEF F, G

\* One container less.
LEMMA FramesShorten ==
  ASSUME NEW x, NEW n \in Nat \ {0}, NEW top
  PROVE  SubSeq(Frames(x, n, top), 1, n) = Frames(x, n - 1, OnFrame(x, n))
<1> DEFINE F == Frames(x, n, top)
           S == {OnFrame(x, k) : k \in Int} \cup {top}
<1>1. Len(F) = n + 1 /\ F = [k \in 1..n + 1 |-> IF k <= n THEN OnFrame(x, k) ELSE top]
  BY FramesAre DEF Frames
<1>2. F \in Seq(S)
  <2>1. \A k \in 1..n + 1 : (IF k <= n THEN OnFrame(x, k) ELSE top) \in S
    OBVIOUS
  <2> HIDE DEF S
  <2>2. F \in [1..n + 1 -> S]
    BY <2>1 DEF Frames
  <2> HIDE DEF F
  <2> QED BY <2>2
<1>3. SubSeq(F, 1, n) = [k \in 1..n |-> F[k]]
  <2> HIDE DEF F, S
  <2> QED BY <1>1, <1>2
<1>4. \A k \in 1..n : F[k] = IF k <= n - 1 THEN OnFrame(x, k) ELSE OnFrame(x, n)
  BY <1>1
<1> HIDE DEF F
<1>5. Frames(x, n - 1, OnFrame(x, n)) = [k \in 1..n |-> IF k <= n - 1 THEN OnFrame(x, k) ELSE OnFrame(x, n)]
  BY DEF Frames
<1> QED BY <1>3, <1>4, <1>5 DEF F

\* The same containers, the same frames.
LEMMA SameFrames ==
  ASSUME NEW x, NEW n \in Nat, NEW y, \A k \in 0..n : Container(y, k) = Container(x, k), NEW top
  PROVE  Frames(y, n, top) = Frames(x, n, top)
<1>1. \A k \in 1..n + 1 : k <= n => OnFrame(y, k) = OnFrame(x, k)
  <2> TAKE k \in 1..n + 1
  <2> HAVE k <= n
  <2>1. k \in 0..n /\ k - 1 \in 0..n
    OBVIOUS
  <2> QED BY <2>1 DEF OnFrame
<1>2. \A k \in 1..n + 1 :
        (IF k <= n THEN OnFrame(y, k) ELSE top) = IF k <= n THEN OnFrame(x, k) ELSE top
  BY <1>1
<1> QED BY <1>2 DEF Frames

\* The frames below the one on top.
Below == Len(d.stack) - within

\* What cursor the dissector is.
CursorForm ==
  /\ Below \in Nat /\ (AtEndOfContainer => err # NoError)
  /\ err # NoError \/ task = Idle => within = 0 /\ Below = Len(d.stack)
  /\ err = NoError /\ task = Idle => CursorBar = Frames(d, Below, PlaceFrame(d, Place(d)))
  /\ err = NoError /\ task # Idle => CursorBar = Frames(d, Below, OnFrame(d, Below + 1))
  /\ AtEndOfContainer => CursorBar = Frames(d, Below, PlaceFrame(d, "end"))
  /\ err # NoError /\ ~ AtEndOfContainer => CursorBar = << >>

\* The cursor, case by case.
LEMMA CursorIs == Inv => CursorForm
<1> SUFFICES ASSUME Inv PROVE CursorForm
  OBVIOUS
<1> DEFINE n == Below
<1>1. /\ Len(d.stack) \in Nat /\ within \in 0..Len(d.stack) /\ (task # Idle <=> within > 0)
      /\ task # Idle => err = NoError
  BY DissectorFields DEF Inv, Typed
<1>2. n \in Nat /\ (err # NoError \/ task = Idle => within = 0 /\ n = Len(d.stack))
  BY <1>1 DEF Below
<1>3. AtEndOfContainer => err # NoError
  BY DEF AtEndOfContainer, EndOfTLV, NoError
<1>4. /\ \A k : Entered(k) = Container(d, k)
      /\ \A c : Visited(c) = VisitedBy(d.reader, c)
  BY DEF Entered, Container, Visited, VisitedBy
<1>5. CursorFrames = [k \in 1..n + 1 |->
                        IF k <= n \/ task # Idle THEN OnFrame(d, k)
                        ELSE [container |-> Container(d, n), at |-> VisitedBy(d.reader, Container(d, n)),
                              state |-> CursorState]]
  BY <1>4 DEF CursorFrames, OnFrame, Below
<1>6. ASSUME task # Idle
      PROVE  CursorFrames = Frames(d, n, OnFrame(d, n + 1))
  <2>1. \A k \in 1..n + 1 : (IF k <= n THEN OnFrame(d, k) ELSE OnFrame(d, n + 1)) = OnFrame(d, k)
    <3> TAKE k \in 1..n + 1
    <3>1. k <= n \/ k = n + 1
      BY <1>2
    <3> QED BY <3>1
  <2> QED BY <1>5, <1>6, <2>1 DEF Frames
<1>7. ASSUME task = Idle
      PROVE  CursorFrames = Frames(d, n, PlaceFrame(d, CursorState))
  BY <1>2, <1>5, <1>7 DEF Frames, PlaceFrame, Innermost
<1>8. CursorState = IF AtEndOfContainer THEN "end" ELSE Place(d)
  BY DEF CursorState, Place
<1>9. CursorBar = IF err = NoError \/ AtEndOfContainer THEN CursorFrames ELSE << >>
  BY DEF CursorBar
<1> QED BY <1>1, <1>2, <1>3, <1>6, <1>7, <1>8, <1>9 DEF CursorForm

\* And what it becomes.
LEMMA FormThen == Inv' => CursorForm'
BY CursorIs, PTL

\* The cursor after a step to the dissector y.
LEMMA CursorThen ==
  ASSUME doc' = doc, Inv', NEW y, d' = y, NEW n, n = Len(y.stack) - within'
  PROVE  /\ n \in Nat
         /\ err' # NoError \/ task' = Idle => within' = 0 /\ n = Len(y.stack)
         /\ err' = NoError /\ task' = Idle => CursorBar' = Frames(y, n, PlaceFrame(y, Place(y)))
         /\ err' = NoError /\ task' # Idle => CursorBar' = Frames(y, n, OnFrame(y, n + 1))
         /\ AtEndOfContainer' => CursorBar' = Frames(y, n, PlaceFrame(y, "end"))
         /\ err' # NoError /\ ~ AtEndOfContainer' => CursorBar' = << >>
<1>1. CursorForm'
  BY FormThen
<1>2. Below' = n
  BY DEF Below
<1>3. \A k : Container(d, k)' = Container(y, k)
  BY SameDocument
<1>4. \A k : OnFrame(d, k)' = OnFrame(y, k)
  BY <1>3 DEF OnFrame
<1>5. \A s : PlaceFrame(d, s)' = PlaceFrame(y, s)
  <2>1. \A c : VisitedBy(d.reader, c)' = VisitedBy(y.reader, c)
    BY DEF VisitedBy, Members, LastToken, Depth
  <2> QED BY <1>3, <2>1 DEF PlaceFrame, Innermost
<1>6. Place(d)' = Place(y)
  BY DEF Place
<1>7. \A top : Frames(d, Below, top)' = Frames(y, n, top)
  BY <1>2, <1>4 DEF Frames
<1> QED BY <1>1, <1>2, <1>4, <1>5, <1>6, <1>7 DEF CursorForm
-----------------------------------------------------------------------------
(***************************************************************************)
(* Where on the tree of elements a dissector is.                           *)
(***************************************************************************)
LEMMA TokenBehindType ==
  ASSUME IsDocument(doc), NEW x, Running(x), NEW j, OnOrBetween(x, j)
  PROVE  TokenBehind(x, j) \in j + 1..Len(doc.toks) + 1 /\ j \in 0..Len(doc.toks)
<1>1. Len(doc.toks) \in Nat /\ j \in 0..Len(doc.toks)
  BY DocumentTypes DEF OnOrBetween, Inside, IsIn, Passed
<1>2. CASE x.reader.elem = NoElement
  BY <1>1, <1>2 DEF TokenBehind
<1>3. CASE x.reader.elem # NoElement
  <2>1. doc.last[j] \in j..Len(doc.toks)
    BY <1>3, OnMember
  <2> QED BY <1>1, <1>3, <2>1 DEF TokenBehind
<1> QED BY <1>2, <1>3

\* The reader moves on, but not as far as the next member.
LEMMA VisitedStays ==
  ASSUME IsDocument(doc), NEW r \in ReaderType, NEW j, Passed(r, j), NEW c, NEW b, Whole(c, b),
         NEW v, v = 0 \/ v \in Members(doc, c), \A i \in Members(doc, c) : i <= v /\ i <= j
  PROVE  VisitedBy(r, c) = v
<1>1. CASE v \in Members(doc, c)
  BY <1>1, VisitedIsThat
<1>2. CASE v = 0 /\ v \notin Members(doc, c)
  <2>1. \A i \in Members(doc, c) : i \in Nat /\ i > 0
    <3>1. c \in Nat /\ Len(doc.toks) \in Nat
      BY DocumentTypes DEF Whole
    <3>2. \A i \in Members(doc, c) : i \in c + 1..Len(doc.toks)
      BY MemberIs
    <3> QED BY <3>1, <3>2
  <2>2. \A i \in Members(doc, c) : ~ (i <= j)
    BY <1>2, <2>1
  <2> QED BY <1>2, <2>2, VisitedIsThat
<1> QED BY <1>1, <1>2

\* What the cursor of a dissector that is on an element or between two looks at.
LEMMA BehindIs ==
  ASSUME IsDocument(doc), NEW x, Running(x), NEW j, OnOrBetween(x, j), NEW c, c = Innermost(x),
         NEW v, v = VisitedBy(x.reader, c), NEW m, m = TokenBehind(x, j)
  PROVE  /\ v = 0 \/ v \in Members(doc, c)
         /\ \A i \in Members(doc, c) : i > v <=> i >= m
         /\ \A i \in Members(doc, c) : ~ (i > v) => i <= v /\ i < m
         /\ x.reader.elem # NoElement => v = j
<1>1. x.reader \in ReaderType /\ Passed(x.reader, j) /\ Whole(c, Len(x.stack))
  BY DissectorFields, InnermostWhole DEF Running, Typed, OnOrBetween, Inside, IsIn
<1>2. /\ v = 0 \/ (v \in Members(doc, c) /\ v <= j)
      /\ \A i \in Members(doc, c) : i <= j => i <= v
  BY <1>1, VisitedIs
<1>3. m \in j + 1..Len(doc.toks) + 1 /\ j \in 0..Len(doc.toks) /\ Len(doc.toks) \in Nat
  BY TokenBehindType, DocumentTypes
<1>4. \A i \in Members(doc, c) : i \in Nat /\ i > 0
  <2>1. c \in Nat /\ Len(doc.toks) \in Nat
    BY <1>1, DocumentTypes DEF Whole
  <2>2. \A i \in Members(doc, c) : i \in c + 1..Len(doc.toks)
    BY <1>1, MemberIs
  <2> QED BY <2>1, <2>2
<1>5. CASE x.reader.elem = NoElement
  <2>1. m = j + 1
    BY <1>5 DEF TokenBehind
  <2>2. \A i \in Members(doc, c) : i > v <=> i >= m
    BY <1>2, <1>3, <1>4, <2>1
  <2> QED BY <1>2, <1>3, <1>4, <1>5, <2>1, <2>2
<1>6. CASE x.reader.elem # NoElement
  <2>1. /\ j \in Members(doc, c) /\ doc.depth[j - 1] = Len(x.stack)
        /\ j \in 1..Len(doc.toks) /\ doc.last[j] \in j..Len(doc.toks)
    BY <1>6, OnMember
  <2>2. v = j
    <3>1. \A i \in Members(doc, c) : i <= j => i <= j
      OBVIOUS
    <3>2. j <= j
      BY <1>3
    <3> QED BY <1>1, <2>1, <3>1, <3>2, VisitedIsThat
  <2>3. m = doc.last[j] + 1
    BY <1>6 DEF TokenBehind
  <2>4. doc.last[j] # 0
    BY <1>3, <2>1
  <2>5. \A i \in Members(doc, c) : j < i => i > doc.last[j]
    BY <1>1, <2>1, <2>4, NoneInElement
  <2>6. \A i \in Members(doc, c) : i > v <=> i >= m
    BY <1>3, <1>4, <2>1, <2>2, <2>3, <2>5
  <2> QED BY <1>2, <1>3, <1>4, <2>2, <2>6
<1> QED BY <1>5, <1>6

\* On the next element.
LEMMA NextVisited ==
  ASSUME IsDocument(doc), NEW x, Running(x), NEW j, OnOrBetween(x, j), NEW c, c = Innermost(x),
         NEW v, v = VisitedBy(x.reader, c), NEW m, m = TokenBehind(x, j),
         NEW y, On(y, m), y.stack = x.stack
  PROVE  /\ m \in Members(doc, c) /\ m > v /\ Complete(doc, m) /\ VisitedBy(y.reader, c) = m
         /\ Least({i \in Members(doc, c) : i > v}) = m
<1>1. Innermost(y) = c
  BY SameStack
<1>2. m \in Members(doc, c) /\ Complete(doc, m) /\ m \in 1..Len(doc.toks)
  BY <1>1, OnMember DEF On
<1>3. VisitedBy(y.reader, c) = m
  BY <1>1, BehindIs DEF On
<1>4. \A i \in Members(doc, c) : i > v <=> i >= m
  BY BehindIs
<1>5. \A i \in Members(doc, c) : i \in Int
  <2>1. Whole(c, Len(x.stack))
    BY InnermostWhole DEF Running, Typed
  <2>2. \A i \in Members(doc, c) : i \in c + 1..Len(doc.toks)
    BY <2>1, MemberIs
  <2> QED BY <2>2
<1> DEFINE S == {i \in Members(doc, c) : i > v}
<1>6. m \in S /\ \A i \in S : m <= i
  BY <1>2, <1>4, <1>5
<1>7. Least(S) = m
  <2>1. \A i \in S : i \in Int
    BY <1>5
  <2> HIDE DEF S
  <2> QED BY <1>6, <2>1 DEF Least
<1> QED BY <1>2, <1>3, <1>6, <1>7

\* At the end of a container there is no member behind.
LEMMA NoneBehind ==
  ASSUME IsDocument(doc), NEW x, Running(x), NEW j, OnOrBetween(x, j), NEW c, c = Innermost(x),
         NEW v, v = VisitedBy(x.reader, c), NEW m, m = TokenBehind(x, j),
         \A i \in Members(doc, c) : ~ (i >= m), NEW r \in ReaderType, Passed(r, m) \/ Passed(r, m - 1)
  PROVE  {i \in Members(doc, c) : i > v} = {} /\ VisitedBy(r, c) = v
<1>1. /\ v = 0 \/ v \in Members(doc, c)
      /\ \A i \in Members(doc, c) : i > v <=> i >= m
      /\ \A i \in Members(doc, c) : ~ (i > v) => i <= v /\ i < m
  BY BehindIs
<1>2. Whole(c, Len(x.stack))
  BY InnermostWhole DEF Running, Typed
<1>3. \A i \in Members(doc, c) : i <= v /\ i <= m - 1 /\ i <= m
  <2>1. m \in Int
    BY TokenBehindType
  <2>2. \A i \in Members(doc, c) : i \in Int
    <3>1. \A i \in Members(doc, c) : i \in c + 1..Len(doc.toks)
      BY <1>2, MemberIs
    <3> QED BY <3>1
  <2> QED BY <1>1, <2>1, <2>2
<1>4. VisitedBy(r, c) = v
  <2>1. CASE Passed(r, m)
    BY <1>1, <1>2, <1>3, <2>1, VisitedStays
  <2>2. CASE Passed(r, m - 1)
    <3> DEFINE k == m - 1
    <3>1. Passed(r, k) /\ \A i \in Members(doc, c) : i <= v /\ i <= k
      BY <1>3, <2>2
    <3> HIDE DEF k
    <3> QED BY <1>1, <1>2, <3>1, VisitedStays
  <2> QED BY <2>1, <2>2
<1> QED BY <1>1, <1>4

\* The reader is on the end of the container.
LEMMA NoneAtEnd ==
  ASSUME IsDocument(doc), NEW y, NEW m, AtEnd(y, m), y.stack # << >>, NEW c, c = Innermost(y)
  PROVE  m = doc.last[c] /\ \A i \in Members(doc, c) : ~ (i >= m)
<1> DEFINE N == Len(doc.toks)   b == Len(y.stack)
<1>1. /\ Whole(c, b) /\ c # 0 /\ IsIn(y.reader, c, b, m)
      /\ y.reader.elem.type = "end" /\ y.reader.elem = doc.toks[m]
  BY InnermostWhole, InnermostIs DEF AtEnd, Ended, Typed, Inside
<1>2. c \in 1..N /\ IsContainer(doc, c) /\ N \in Nat /\ doc.depth[c] = b /\ b \in Int
  <2>1. c \in 0..N /\ IsContainer(doc, c) /\ doc.depth[c] = b
    BY <1>1 DEF Whole
  <2>2. N \in Nat /\ \A k \in 0..N : doc.depth[k] \in Int
    BY DocumentTypes
  <2> QED BY <1>1, <2>1, <2>2
<1>3. /\ Passed(y.reader, m) /\ y.reader.elem # NoElement /\ c < m /\ LevelAt(y.reader, m) = b
      /\ \A k \in c..m - 1 : doc.depth[k] >= b
  BY <1>1 DEF IsIn, NoElement
<1>4. m \in 1..N /\ doc.depth[m] = b - 1
  <2>1. m \in 1..N /\ doc.depth[m] = LevelAt(y.reader, m) + Nesting(y.reader.elem)
    BY <1>3, LevelType
  <2>2. Nesting(y.reader.elem) = -1
    BY <1>1 DEF Nesting, Containers
  <2> QED BY <1>2, <1>3, <2>1, <2>2
<1>5. m \in c + 1..N /\ \A k \in c + 1..m - 1 : doc.depth[k] # b - 1
  <2>1. \A k \in c + 1..m - 1 : doc.depth[k] >= b /\ doc.depth[k] \in Int
    <3>1. \A k \in 0..N : doc.depth[k] \in Int
      BY DocumentTypes
    <3> QED BY <1>2, <1>3, <1>4, <3>1
  <2> QED BY <1>2, <1>3, <1>4, <2>1
<1>6. m = doc.last[c]
  <2>1. doc.toks[c].type \in Containers
    BY <1>2 DEF IsContainer
  <2> HIDE DEF b, N
  <2> QED BY <1>2, <1>4, <1>5, <2>1, LastOfContainer DEF N
<1>7. \A i \in Members(doc, c) : i < doc.last[c] /\ i \in Int
  <2>1. \A i \in Members(doc, c) : i \in c + 1..N /\ i < doc.last[c]
    BY <1>1, MemberIs
  <2> QED BY <2>1
<1> QED BY <1>4, <1>6, <1>7
-----------------------------------------------------------------------------
(***************************************************************************)
(* TLVCursor, with the cursor that a dissector is.                         *)
(***************************************************************************)
LEMMA CursorOperators ==
  /\ \A c : Cursor!Members(doc, c) = Members(doc, c)
  /\ \A i : Cursor!Complete(doc, i) <=> Complete(doc, i)
  /\ \A i : Cursor!IsContainer(doc, i) <=> IsContainer(doc, i)
  /\ \A S : Cursor!Least(S) = Least(S)
  /\ Cursor!WellFormed(doc) <=> WellFormed(doc)
<1>1. \A c : Cursor!Members(doc, c) = Members(doc, c)
  BY DEF Cursor!Members, Members, Cursor!LastToken, LastToken, Cursor!Depth, Depth
<1>2. \A i : Cursor!Complete(doc, i) <=> Complete(doc, i)
  BY DEF Cursor!Complete, Complete
<1>3. \A i : Cursor!IsContainer(doc, i) <=> IsContainer(doc, i)
  BY DEF Cursor!IsContainer, IsContainer, Cursor!Containers, Containers
<1>4. \A S : Cursor!Least(S) = Least(S)
  BY DEF Cursor!Least, Least
<1>5. \A i : Cursor!Parents(doc, i) = Parents(doc, i)
  BY <1>1, <1>2, <1>3 DEF Cursor!Parents, Parents, Cursor!Holders, Holders
<1>6. \A type, tag : Cursor!TagFits(type, tag) <=> TagFits(type, tag)
  BY DEF Cursor!TagFits, TagFits
<1>7. \A i, j : Cursor!Depth(doc, i, j) = Depth(doc, i, j)
  BY DEF Cursor!Depth, Depth
<1>8. Cursor!WellFormed(doc) <=> WellFormed(doc)
  BY <1>2, <1>5, <1>6, <1>7 DEF Cursor!WellFormed, WellFormed
<1> QED BY <1>1, <1>2, <1>3, <1>4, <1>8

\* What the cursor looks at.
BehindOf(top) == {i \in Members(doc, top.container) : i > top.at}
OnContainerOf(top) == top.state = "on" /\ IsContainer(doc, top.at)
OnListOf(top) == OnContainerOf(top) /\ doc.toks[top.at].type \in {"array", "path"}
OnUnfitOf(top) == top.state = "on" /\ doc.toks[top.at].type = "number" /\ ~ call'.fits

\* What TLVCursor sees of a sequence of frames.
LEMMA CursorNow ==
  ASSUME NEW x, NEW n \in Nat, NEW top, CursorBar = Frames(x, n, top)
  PROVE  /\ Cursor!Top = top /\ Cursor!Behind = BehindOf(top)
         /\ Cursor!OnElement <=> top.state = "on"
         /\ Cursor!OnContainer <=> OnContainerOf(top)
         /\ Cursor!OnList <=> OnListOf(top)
         /\ Cursor!OnEmptyBytes <=> top.state = "on" /\ EmptyBytes(top.at)
         /\ Cursor!OfEmptyBytes <=> \E i \in Members(doc, top.at) : EmptyBytes(i)
         /\ Cursor!OnUnfitNumber <=> OnUnfitOf(top)
         /\ \A f : Cursor!Becomes(f) <=> CursorBar' = Frames(x, n, f)
<1> DEFINE F == Frames(x, n, top)
<1>1. Len(CursorBar) = n + 1 /\ CursorBar[n + 1] = top
      /\ \A f : [CursorBar EXCEPT ![n + 1] = f] = Frames(x, n, f)
  <2>1. Len(F) = n + 1 /\ F[n + 1] = top /\ \A f : [F EXCEPT ![n + 1] = f] = Frames(x, n, f)
    BY FramesAre, FramesReplace
  <2> HIDE DEF F
  <2>2. CursorBar = F
    BY DEF F
  <2> QED BY <2>1, <2>2
<1>2. Cursor!Top = top
  BY <1>1 DEF Cursor!Top, CursorBar
<1>3. Cursor!Behind = BehindOf(top)
  BY <1>2, CursorOperators DEF Cursor!Behind, BehindOf
<1>4. Cursor!OnElement <=> top.state = "on"
  BY <1>2 DEF Cursor!OnElement, Cursor!On
<1>5. Cursor!OnContainer <=> OnContainerOf(top)
  BY <1>2, <1>4, CursorOperators DEF Cursor!OnContainer, OnContainerOf
<1>6. Cursor!OnList <=> OnListOf(top)
  BY <1>2, <1>5 DEF Cursor!OnList, OnListOf
<1>7. Cursor!OnEmptyBytes <=> top.state = "on" /\ EmptyBytes(top.at)
  BY <1>2, <1>4 DEF Cursor!OnEmptyBytes, Cursor!IsEmptyBytes, EmptyBytes
<1>8. Cursor!OfEmptyBytes <=> \E i \in Members(doc, top.at) : EmptyBytes(i)
  BY <1>2, CursorOperators DEF Cursor!OfEmptyBytes, Cursor!IsEmptyBytes, EmptyBytes
<1>9. \A f : Cursor!Becomes(f) <=> CursorBar' = [CursorBar EXCEPT ![Len(CursorBar)] = f]
  BY DEF Cursor!Becomes, CursorBar
<1>10. Cursor!OnUnfitNumber <=> OnUnfitOf(top)
  BY <1>2, <1>4 DEF Cursor!OnUnfitNumber, OnUnfitOf
<1> QED BY <1>1, <1>2, <1>3, <1>4, <1>5, <1>6, <1>7, <1>8, <1>9, <1>10

\* The cursor moves to the next member.
LEMMA CursorMoves ==
  ASSUME doc' = doc, NEW x, NEW n \in Nat, NEW top, CursorBar = Frames(x, n, top),
         BehindOf(top) # {}, NEW m, m = Least(BehindOf(top)), Complete(doc, m),
         CursorBar' = Frames(x, n, [container |-> top.container, at |-> m, state |-> "on"]),
         \/ call'.op = "Next"
         \/ call'.op = "NextOf" /\ doc.toks[m].type = call'.type /\ doc.toks[m].tag = call'.tag
  PROVE  Cursor!CursorNext
<1>1. Cursor!Behind # {} /\ Cursor!Least(Cursor!Behind) = m
  BY CursorNow, CursorOperators
<1>2. Cursor!MoveTo(m)
  BY CursorNow, CursorOperators DEF Cursor!MoveTo, Cursor!Frame, Cursor!On
<1>3. CursorBar # << >>
  <2>1. Frames(x, n, top) # << >>
    BY FramesAre
  <2> QED BY <2>1
<1>4. Cursor!Done(call'.op)
  <2>1. CASE call'.op = "Next"
    BY <1>1, <1>2, <2>1 DEF Cursor!Done, Cursor!CNext
  <2>2. CASE call'.op = "NextOf" /\ doc.toks[m].type = call'.type /\ doc.toks[m].tag = call'.tag
    BY <1>1, <1>2, <2>2 DEF Cursor!Done, Cursor!Follows
  <2> QED BY <2>1, <2>2
<1> QED BY <1>3, <1>4 DEF Cursor!CursorNext, CursorBar

\* Nothing is left in the container.
LEMMA CursorEnds ==
  ASSUME doc' = doc, NEW x, NEW n \in Nat, NEW top, CursorBar = Frames(x, n, top),
         BehindOf(top) = {}, CursorBar' = Frames(x, n, [top EXCEPT !.state = "end"]), call'.op = "Next"
  PROVE  Cursor!CursorNext
<1>1. Cursor!Behind = {} /\ Cursor!Becomes([Cursor!Top EXCEPT !.state = Cursor!AtEnd])
  BY CursorNow DEF Cursor!AtEnd
<1>2. CursorBar # << >>
  <2>1. Frames(x, n, top) # << >>
    BY FramesAre
  <2> QED BY <2>1
<1>3. Cursor!Done(call'.op)
  BY <1>1 DEF Cursor!Done, Cursor!CNext
<1> QED BY <1>2, <1>3 DEF Cursor!CursorNext, CursorBar

\* A container is entered.
LEMMA CursorEnters ==
  ASSUME doc' = doc, NEW x, NEW n \in Nat, NEW top, CursorBar = Frames(x, n, top), OnContainerOf(top),
         CursorBar' = Append(CursorBar, [container |-> top.at, at |-> 0, state |-> "between"]),
         call'.op = "Enter"
  PROVE  Cursor!CursorNext
<1>1. Cursor!OnContainer /\ Cursor!Top = top
  BY CursorNow
<1>2. CursorBar # << >>
  <2>1. Frames(x, n, top) # << >>
    BY FramesAre
  <2> QED BY <2>1
<1>3. Cursor!CEnter
  BY <1>1 DEF Cursor!CEnter, Cursor!Frame, Cursor!Between, CursorBar
<1> QED BY <1>1, <1>2, <1>3 DEF Cursor!CursorNext, Cursor!Done, CursorBar

\* The element on top was shown.
LEMMA CursorLeaves ==
  ASSUME NEW x, NEW n \in Nat, NEW top, NEW c, c = Frames(x, n, top)
  PROVE  Cursor!Leave(c) = Frames(x, n, [top EXCEPT !.state = "between"])
<1> DEFINE F == Frames(x, n, top)
<1>1. /\ Len(c) = n + 1 /\ c[n + 1] = top
      /\ \A f : [c EXCEPT ![n + 1] = f] = Frames(x, n, f)
  <2>1. Len(F) = n + 1 /\ F[n + 1] = top /\ \A f : [F EXCEPT ![n + 1] = f] = Frames(x, n, f)
    BY FramesAre, FramesReplace
  <2> HIDE DEF F
  <2>2. c = F
    BY DEF F
  <2> QED BY <2>1, <2>2
<1>2. Cursor!Leave(c) = [c EXCEPT ![Len(c)] = [c[Len(c)] EXCEPT !.state = "between"]]
  BY DEF Cursor!Leave, Cursor!Between
<1> QED BY <1>1, <1>2

\* The innermost container is left.
LEMMA CursorExits ==
  ASSUME doc' = doc, NEW x, NEW n \in Nat \ {0}, NEW top, CursorBar = Frames(x, n, top),
         CursorBar' = Frames(x, n - 1, [OnFrame(x, n) EXCEPT !.state = "between"]), call'.op = "Exit"
  PROVE  Cursor!CursorNext
<1>1. Len(CursorBar) = n + 1 /\ CursorBar # << >>
  <2>1. Frames(x, n, top) # << >> /\ Len(Frames(x, n, top)) = n + 1
    BY FramesAre
  <2> QED BY <2>1
<1>2. SubSeq(CursorBar, 1, n) = Frames(x, n - 1, OnFrame(x, n))
  BY FramesShorten
<1>3. Cursor!Leave(SubSeq(CursorBar, 1, n)) = Frames(x, n - 1, [OnFrame(x, n) EXCEPT !.state = "between"])
  <2> DEFINE c == SubSeq(CursorBar, 1, n)
  <2>1. c = Frames(x, n - 1, OnFrame(x, n)) /\ n - 1 \in Nat
    BY <1>2
  <2> HIDE DEF c
  <2>2. Cursor!Leave(c) = Frames(x, n - 1, [OnFrame(x, n) EXCEPT !.state = "between"])
    BY <2>1, CursorLeaves, Zenon
  <2> QED BY <2>2 DEF c
<1>4. Cursor!CExit
  BY <1>1, <1>3 DEF Cursor!CExit, CursorBar
<1> QED BY <1>1, <1>4 DEF Cursor!CursorNext, Cursor!Done, CursorBar

\* An item is added, or a call is over that has shown an element.
LEMMA CursorShows ==
  ASSUME doc' = doc, NEW x, NEW n \in Nat, NEW top, CursorBar = Frames(x, n, top), top.state = "on",
         \/ /\ CursorBar' = CursorBar
            /\ \/ call'.op = "AddSubTree"
               \/ call'.op = "Generic" /\ ~ IsContainer(doc, top.at)
               \/ call'.op = "AddTyped" /\ ~ IsContainer(doc, top.at) /\ ~ OnUnfitOf(top)
         \/ /\ CursorBar' = Frames(x, n, [top EXCEPT !.state = "between"]) /\ IsContainer(doc, top.at)
            /\ \/ call'.op = "Generic"
               \/ call'.op = "List" /\ doc.toks[top.at].type \in {"array", "path"}
  PROVE  Cursor!CursorNext
<1>1. Cursor!OnElement /\ (Cursor!OnContainer <=> IsContainer(doc, top.at))
      /\ (Cursor!OnList <=> IsContainer(doc, top.at) /\ doc.toks[top.at].type \in {"array", "path"})
      /\ (Cursor!OnUnfitNumber <=> OnUnfitOf(top))
  BY CursorNow DEF OnContainerOf, OnListOf
<1>2. CursorBar # << >>
  <2>1. Frames(x, n, top) # << >>
    BY FramesAre
  <2> QED BY <2>1
<1>3. Cursor!Leave(CursorBar) = Frames(x, n, [top EXCEPT !.state = "between"])
  BY CursorLeaves
<1>4. CursorBar' = CursorBar => Cursor!Stays
  BY DEF Cursor!Stays, CursorBar
<1> DEFINE left == Cursor!Leave(CursorBar)
<1>5. /\ Cursor!Done("Generic") <=> CursorBar' = IF Cursor!OnContainer THEN left ELSE CursorBar
      /\ Cursor!OnList /\ CursorBar' = left => Cursor!Done("List")
  BY <1>1 DEF Cursor!Done, CursorBar
<1>6. /\ Cursor!Stays => Cursor!Done("AddSubTree")
      /\ Cursor!Stays /\ ~ Cursor!OnContainer /\ ~ Cursor!OnUnfitNumber => Cursor!Done("AddTyped")
  BY <1>1 DEF Cursor!Done
<1>7. Cursor!Done(call'.op)
  <2> HIDE DEF left
  <2>1. CASE CursorBar' = CursorBar /\ call'.op = "AddSubTree"
    BY <1>4, <1>6, <2>1
  <2>2. CASE CursorBar' = CursorBar /\ call'.op = "AddTyped" /\ ~ IsContainer(doc, top.at) /\ ~ OnUnfitOf(top)
    BY <1>1, <1>4, <1>6, <2>2
  <2>3. CASE CursorBar' = CursorBar /\ call'.op = "Generic" /\ ~ IsContainer(doc, top.at)
    BY <1>1, <1>5, <2>3
  <2>4. CASE CursorBar' = left /\ IsContainer(doc, top.at) /\ call'.op = "Generic"
    BY <1>1, <1>5, <2>4
  <2>5. CASE /\ CursorBar' = left /\ IsContainer(doc, top.at)
             /\ call'.op = "List" /\ doc.toks[top.at].type \in {"array", "path"}
    BY <1>1, <1>5, <2>5
  <2> QED BY <1>3, <2>1, <2>2, <2>3, <2>4, <2>5 DEF left
<1> QED BY <1>2, <1>7 DEF Cursor!CursorNext, CursorBar

\* The cursor is lost.
LEMMA CursorFails ==
  ASSUME doc' = doc, NEW x, NEW n \in Nat, NEW top, CursorBar = Frames(x, n, top), CursorBar' = << >>,
         \/ ~ WellFormed(doc)
         \/ call'.op = "NextOf" /\ LET B == BehindOf(top) IN
              ~ (B # {} /\ doc.toks[Least(B)].type = call'.type /\ doc.toks[Least(B)].tag = call'.tag)
         \/ call'.op = "Enter" /\ ~ OnContainerOf(top)
         \/ call'.op \in {"AddTyped", "AddSubTree", "Generic"} /\ top.state # "on"
         \/ call'.op = "AddTyped" /\ (OnContainerOf(top) \/ OnUnfitOf(top))
         \/ call'.op \in {"AddTyped", "Generic"} /\ top.state = "on" /\ EmptyBytes(top.at)
         \/ call'.op = "List" /\ (~ OnListOf(top) \/ \E i \in Members(doc, top.at) : EmptyBytes(i))
  PROVE  Cursor!CursorNext
<1>1. /\ Cursor!Behind = BehindOf(top)
      /\ Cursor!OnElement <=> top.state = "on"
      /\ Cursor!OnContainer <=> OnContainerOf(top)
      /\ Cursor!OnList <=> OnListOf(top)
      /\ Cursor!OnEmptyBytes <=> top.state = "on" /\ EmptyBytes(top.at)
      /\ Cursor!OfEmptyBytes <=> \E i \in Members(doc, top.at) : EmptyBytes(i)
      /\ Cursor!OnUnfitNumber <=> OnUnfitOf(top)
  BY CursorNow
<1>2. CursorBar # << >>
  <2>1. Frames(x, n, top) # << >>
    BY FramesAre
  <2> QED BY <2>1
<1>3. Cursor!MayFail(call'.op)
  <2>1. CASE ~ WellFormed(doc)
    BY <2>1, CursorOperators DEF Cursor!MayFail
  <2>2. CASE /\ call'.op = "NextOf"
             /\ LET B == BehindOf(top) IN
                ~ (B # {} /\ doc.toks[Least(B)].type = call'.type /\ doc.toks[Least(B)].tag = call'.tag)
    <3>1. ~ Cursor!Follows(call'.type, call'.tag)
      BY <1>1, <2>2, CursorOperators DEF Cursor!Follows
    <3> QED BY <2>2, <3>1 DEF Cursor!MayFail
  <2>3. CASE call'.op = "Enter" /\ ~ OnContainerOf(top)
    BY <1>1, <2>3 DEF Cursor!MayFail
  <2>4. CASE call'.op \in {"AddTyped", "AddSubTree", "Generic"} /\ top.state # "on"
    BY <1>1, <2>4 DEF Cursor!MayFail
  <2>5. CASE call'.op = "AddTyped" /\ (OnContainerOf(top) \/ OnUnfitOf(top))
    BY <1>1, <2>5 DEF Cursor!MayFail
  <2>6. CASE call'.op \in {"AddTyped", "Generic"} /\ top.state = "on" /\ EmptyBytes(top.at)
    BY <1>1, <2>6 DEF Cursor!MayFail
  <2>7. CASE call'.op = "List" /\ (~ OnListOf(top) \/ \E i \in Members(doc, top.at) : EmptyBytes(i))
    BY <1>1, <2>7 DEF Cursor!MayFail
  <2> QED BY <2>1, <2>2, <2>3, <2>4, <2>5, <2>6, <2>7
<1> QED BY <1>2, <1>3 DEF Cursor!CursorNext, CursorBar
-----------------------------------------------------------------------------
(***************************************************************************)
(* Every step is one of the cursor, or none that it can see.               *)
(***************************************************************************)
\* The cursor before and after a call that is over at once.
LEMMA CallCursor ==
  ASSUME Inv, Inv', NEW c, NEW o, Called(c, o), NEW n, n = Len(d.stack)
  PROVE  /\ n \in Nat /\ IsDocument(doc) /\ doc' = doc /\ call' = c /\ err' = o.err /\ d' = o.val
         /\ MayCall(c.op)
         /\ c.op # "Exit" => CursorBar = Frames(d, n, PlaceFrame(d, Place(d)))
         /\ Len(o.val.stack) \in Nat
         /\ o.err = NoError =>
              CursorBar' = Frames(o.val, Len(o.val.stack), PlaceFrame(o.val, Place(o.val)))
         /\ AtEndOfContainer' => CursorBar' = Frames(o.val, Len(o.val.stack), PlaceFrame(o.val, "end"))
         /\ o.err # NoError /\ ~ AtEndOfContainer' => CursorBar' = << >>
         /\ AtEndOfContainer' => c.op = "Next" /\ o.err = EndOfTLV
<1>1. /\ MayCall(c.op) /\ call' = c /\ d' = o.val /\ err' = o.err /\ doc' = doc /\ task' = task
      /\ task = Idle
  BY DEF Called, MayCall
<1>2. CursorForm
  BY CursorIs
<1>3. n \in Nat /\ (err = NoError => CursorBar = Frames(d, n, PlaceFrame(d, Place(d))))
  BY <1>1, <1>2 DEF CursorForm
<1>4. IsDocument(doc) /\ (c.op # "Exit" => err = NoError)
  BY <1>1, CallFinds
<1> DEFINE y == o.val
           k == Len(y.stack) - within'
<1>5. /\ k \in Nat
      /\ err' # NoError \/ task' = Idle => within' = 0 /\ k = Len(y.stack)
      /\ err' = NoError /\ task' = Idle => CursorBar' = Frames(y, k, PlaceFrame(y, Place(y)))
      /\ AtEndOfContainer' => CursorBar' = Frames(y, k, PlaceFrame(y, "end"))
      /\ err' # NoError /\ ~ AtEndOfContainer' => CursorBar' = << >>
  <2>1. doc' = doc /\ d' = y
    BY <1>1
  <2> HIDE DEF y
  <2> QED BY <2>1, CursorThen
<1>6. AtEndOfContainer' => call'.op = "Next" /\ err' = EndOfTLV
  BY DEF AtEndOfContainer
<1> HIDE DEF k
<1> QED BY <1>1, <1>3, <1>4, <1>5, <1>6

\* The element that a dissector is on.
LEMMA OnElementIs ==
  ASSUME IsDocument(doc), NEW x, Running(x), NEW j, OnOrBetween(x, j)
  PROVE  /\ Place(x) = "on" <=> x.reader.elem # NoElement
         /\ x.reader.elem # NoElement =>
              /\ VisitedBy(x.reader, Innermost(x)) = j /\ doc.toks[j].type = x.reader.elem.type
              /\ doc.toks[j].tag = x.reader.elem.tag
              /\ IsContainer(doc, j) <=> IsOnContainer(x.reader)
         /\ IsOnContainer(x.reader) => x.reader.elem # NoElement
<1>1. Place(x) = "on" <=> x.reader.elem # NoElement
  BY DEF Place
<1>2. x.reader.elem # NoElement => VisitedBy(x.reader, Innermost(x)) = j
  BY BehindIs
<1>3. x.reader.elem # NoElement =>
        doc.toks[j].type = x.reader.elem.type /\ doc.toks[j].tag = x.reader.elem.tag
  BY DEF OnOrBetween, Inside, IsIn, Passed, OfToken
<1>4. IsOnContainer(x.reader) => x.reader.elem # NoElement
  BY DEF IsOnContainer, NoElement, Containers
<1> QED BY <1>1, <1>2, <1>3, <1>4 DEF IsContainer, IsOnContainer

\* TLVDissector::Next moves the cursor to the next member or the end, or the document is not well formed.
LEMMA NextStep ==
  ASSUME Inv, Inv', NEW o, o = DissectorNext(d), Called([op |-> "Next"], o)
  PROVE  Cursor!CursorNext
<1> DEFINE n == Len(d.stack)
           c == Innermost(d)
           v == VisitedBy(d.reader, c)
           top == PlaceFrame(d, Place(d))
           op == [op |-> "Next"]
<1>1. /\ n \in Nat /\ IsDocument(doc) /\ doc' = doc /\ call' = op /\ err' = o.err /\ d' = o.val
      /\ MayCall("Next") /\ CursorBar = Frames(d, n, top)
      /\ o.err = NoError => CursorBar' = Frames(o.val, Len(o.val.stack), PlaceFrame(o.val, Place(o.val)))
      /\ AtEndOfContainer' => CursorBar' = Frames(o.val, Len(o.val.stack), PlaceFrame(o.val, "end"))
      /\ o.err # NoError /\ ~ AtEndOfContainer' => CursorBar' = << >>
      /\ AtEndOfContainer' => o.err = EndOfTLV
  <2>1. op.op = "Next"
    OBVIOUS
  <2>2. Called(op, o)
    OBVIOUS
  <2> HIDE DEF op
  <2> QED BY <2>1, <2>2, CallCursor
<1>2. PICK j : Running(d) /\ OnOrBetween(d, j)
  BY <1>1, CallFinds
<1> DEFINE m == TokenBehind(d, j)
<1>3. Advances(d, j, o)
  BY <1>1, <1>2, DissectorNextSteps
<1>4. /\ Typed(o.val) /\ o.val.stack = d.stack
      /\ o.err = NoError => On(o.val, m)
      /\ o.err = EndOfTLV => d.stack = << >> \/ (d.stack # << >> /\ AtEnd(o.val, m))
  BY <1>3 DEF Advances
<1>5. /\ WellFormed(doc) =>
           o.err = IF m <= Len(doc.toks) /\ doc.toks[m].type # "end" THEN NoError ELSE EndOfTLV
      /\ o.err = EndOfTLV /\ d.stack = << >> =>
           \/ o.val.reader = [InitReader EXCEPT !.at = doc.len] /\ doc.start[m] = doc.len
           \/ o.val.reader.elem # NoElement /\ o.val.reader.elem.type # "end" /\ ~ WellFormed(doc)
  BY <1>1, <1>2, DissectorNextFails
<1>6. /\ Len(o.val.stack) = n /\ Innermost(o.val) = c
      /\ \A k \in 0..n : Container(o.val, k) = Container(d, k)
  BY <1>4, SameStack
<1>7. \A f : Frames(o.val, n, f) = Frames(d, n, f)
  BY <1>1, <1>6, SameFrames
<1>8. BehindOf(top) = {i \in Members(doc, c) : i > v} /\ top.container = c /\ top.at = v
  BY DEF BehindOf, PlaceFrame
<1>9. CASE o.err = NoError
  <2>1. On(o.val, m) /\ Place(o.val) = "on"
    BY <1>4, <1>9 DEF On, Place
  <2>2. /\ m \in Members(doc, c) /\ m > v /\ Complete(doc, m) /\ VisitedBy(o.val.reader, c) = m
        /\ Least({i \in Members(doc, c) : i > v}) = m
    BY <1>1, <1>2, <1>4, <2>1, NextVisited
  <2>3. PlaceFrame(o.val, Place(o.val)) = [container |-> c, at |-> m, state |-> "on"]
    BY <1>6, <2>1, <2>2 DEF PlaceFrame
  <2>4. CursorBar' = Frames(d, n, [container |-> c, at |-> m, state |-> "on"])
    BY <1>1, <1>6, <1>7, <1>9, <2>3
  <2>5. BehindOf(top) # {} /\ Least(BehindOf(top)) = m
    BY <1>8, <2>2
  <2>6. call'.op = "Next"
    BY <1>1
  <2> HIDE DEF m, n, c, v, top, op
  <2> QED BY <1>1, <1>8, <2>2, <2>4, <2>5, <2>6, CursorMoves
<1>10. CASE AtEndOfContainer'
  <2>1. o.err = EndOfTLV /\ o.val.reader \in ReaderType
    BY <1>1, <1>4, <1>10, DissectorFields DEF Typed
  <2>2. /\ \A i \in Members(doc, c) : ~ (i >= m)
        /\ Passed(o.val.reader, m) \/ Passed(o.val.reader, m - 1)
    <3>1. CASE d.stack # << >>
      <4>1. AtEnd(o.val, m) /\ o.val.stack # << >>
        BY <1>4, <2>1, <3>1
      <4>2. Passed(o.val.reader, m)
        BY <4>1 DEF AtEnd, Inside, IsIn
      <4> HIDE DEF m, c
      <4> QED BY <1>1, <1>6, <4>1, <4>2, NoneAtEnd
    <3>2. CASE d.stack = << >>
      <4>1. c = 0 /\ Whole(c, n)
        BY <1>1, <1>2, <3>2, InnermostWhole, InnermostIs DEF Running, Typed
      <4>2. o.val.reader = [InitReader EXCEPT !.at = doc.len] /\ doc.start[m] = doc.len
        <5>1. \/ o.val.reader.elem.type = "end"
              \/ o.val.reader = [InitReader EXCEPT !.at = doc.len]
          BY <1>1, <1>10 DEF AtEndOfContainer
        <5>2. [InitReader EXCEPT !.at = doc.len].elem = NoElement
          BY DEF InitReader
        <5> HIDE DEF m
        <5> QED BY <1>5, <2>1, <3>2, <5>1, <5>2
      <4>3. m \in j + 1..Len(doc.toks) + 1 /\ j \in 0..Len(doc.toks) /\ Len(doc.toks) \in Nat
        BY <1>1, <1>2, TokenBehindType, DocumentTypes
      <4>4. m - 1 \in 0..Len(doc.toks) /\ m \in 1..Len(doc.toks) + 1
        BY <4>3
      <4>5. Passed(o.val.reader, m - 1)
        <5> DEFINE k == m - 1
        <5>1. k \in 0..Len(doc.toks) /\ doc.start[k + 1] = doc.len
          BY <4>2, <4>3
        <5>2. doc.len \in Nat
          BY <1>1, DocumentTypes
        <5>3. o.val.reader.at = doc.len /\ o.val.reader.elem = NoElement /\ Unread(o.val.reader) = 0
          BY <4>2 DEF InitReader, Unread, NoElement, Strings
        <5> HIDE DEF k
        <5>4. Passed(o.val.reader, k)
          BY <5>1, <5>2, <5>3 DEF Passed
        <5> QED BY <5>4 DEF k
      <4>6. \A i \in Members(doc, c) : ~ (i >= m)
        <5> SUFFICES ASSUME NEW i \in Members(doc, c), i >= m PROVE FALSE
          OBVIOUS
        <5>1. i \in 1..Len(doc.toks) /\ doc.start[i] < doc.len
          <6>1. i \in c + 1..Len(doc.toks) /\ doc.start[i] < doc.len
            BY <1>1, <4>1, MemberIs
          <6> QED BY <4>1, <6>1
        <5> HIDE DEF m
        <5>2. i \in 1..Len(doc.toks) + 1
          BY <4>3, <5>1
        <5>3. doc.start[m] \in Nat /\ doc.start[i] \in Nat
          BY <1>1, <4>4, <5>2, DocumentTypes
        <5>4. m < i => doc.start[m] < doc.start[i]
          BY <1>1, <4>4, <5>2, DocumentTypes
        <5>5. m < i \/ m = i
          BY <4>4, <5>2
        <5>6. doc.start[m] <= doc.start[i]
          BY <5>3, <5>4, <5>5
        <5> QED BY <4>2, <5>1, <5>3, <5>6
      <4> QED BY <4>5, <4>6
    <3> QED BY <3>1, <3>2
  <2>3. {i \in Members(doc, c) : i > v} = {} /\ VisitedBy(o.val.reader, c) = v
    <3> HIDE DEF m, c, v
    <3> QED BY <1>1, <1>2, <2>1, <2>2, NoneBehind DEF m, c, v
  <2>4. PlaceFrame(o.val, "end") = [top EXCEPT !.state = "end"]
    BY <1>6, <2>3 DEF PlaceFrame
  <2>5. BehindOf(top) = {}
    BY <1>8, <2>3
  <2>6. CursorBar' = Frames(d, n, [top EXCEPT !.state = "end"])
    BY <1>1, <1>6, <1>7, <1>10, <2>4
  <2>7. call'.op = "Next"
    BY <1>1
  <2> HIDE DEF m, n, c, v, top, op
  <2> QED BY <1>1, <2>5, <2>6, <2>7, CursorEnds
<1>11. CASE o.err # NoError /\ ~ AtEndOfContainer'
  <2>1. ~ WellFormed(doc)
    <3> SUFFICES ASSUME WellFormed(doc) PROVE FALSE
      OBVIOUS
    <3>1. o.err = EndOfTLV
      BY <1>5, <1>11
    <3>2. d.stack # << >> => o.val.reader.elem.type = "end"
      BY <1>4, <3>1 DEF AtEnd, Ended
    <3>3. d.stack = << >> => o.val.reader = [InitReader EXCEPT !.at = doc.len]
      BY <1>5, <3>1
    <3>4. AtEndOfContainer'
      BY <1>1, <1>4, <3>1, <3>2, <3>3 DEF AtEndOfContainer
    <3> QED BY <1>11, <3>4
  <2>2. CursorBar' = << >>
    BY <1>1, <1>11
  <2> HIDE DEF m, n, c, v, top, op
  <2> QED BY <1>1, <2>1, <2>2, CursorFails
<1> QED BY <1>9, <1>10, <1>11

\* In a well formed document, the next member of a container comes right behind.
LEMMA NextIsMember ==
  ASSUME IsDocument(doc), WellFormed(doc), NEW x, Running(x), NEW j, OnOrBetween(x, j),
         NEW c, c = Innermost(x), NEW m, m = TokenBehind(x, j), NEW i \in Members(doc, c), i >= m
  PROVE  m \in Members(doc, c)
<1> DEFINE N == Len(doc.toks)   b == Len(x.stack)   p == Skip(x.reader)   k == m - 1
<1>1. Whole(c, b) /\ N \in Nat /\ m \in 1..N + 1
  <2>1. m \in j + 1..N + 1 /\ j \in 0..N /\ N \in Nat
    BY TokenBehindType, DocumentTypes
  <2> QED BY <2>1, InnermostWhole DEF Running, Typed
<1>2. p.err = NoError
  BY DissectorFields, InnermostWhole, SkipSucceeds DEF Running, Typed, OnOrBetween, Inside
<1>3. p.val.elem = NoElement /\ IsIn(p.val, c, b, k)
  BY <1>2, SkippedElement
<1>4. doc.depth[k] = b /\ c <= k /\ \A l \in c..k - 1 : doc.depth[l] >= b
  BY <1>3 DEF IsIn, LevelAt
<1>5. /\ i \in c + 1..N /\ (c # 0 => i < doc.last[c]) /\ doc.toks[i].type # "end"
      /\ doc.start[i] < doc.len /\ doc.depth[i - 1] = b
  BY <1>1, MemberIs
<1>6. c \in 0..N /\ b \in Int /\ \A l \in 0..N : doc.depth[l] \in Int
  <2>1. \A l \in 0..N : doc.depth[l] \in Int
    BY DocumentTypes
  <2>2. c \in 0..N /\ doc.depth[c] = b
    BY <1>1 DEF Whole
  <2> QED BY <2>1, <2>2
<1>7. k \in Int /\ c \in Int /\ k + 1 = m /\ m \in c + 1..N /\ m <= i /\ i \in 1..N
  BY <1>1, <1>4, <1>5, <1>6
<1> HIDE DEF k
<1>8. doc.toks[m].type # "end"
  <2> SUFFICES ASSUME doc.toks[m].type = "end" PROVE FALSE
    OBVIOUS
  <2>1. doc.depth[m] = b - 1
    <3>1. doc.depth[m] = doc.depth[m - 1] + Nesting(doc.toks[m])
      BY <1>1, <1>7, DocumentTypes
    <3>2. Nesting(doc.toks[m]) = -1 /\ m - 1 = k
      BY DEF Nesting, Containers, k
    <3> QED BY <1>4, <1>6, <3>1, <3>2
  <2>2. CASE c = 0
    <3>1. b = 0
      BY <1>1, <2>2, DocumentTypes DEF Whole
    <3>2. m \in 0..N
      BY <1>1, <1>7, <2>2
    <3>3. doc.depth[m] >= 0
      BY <3>2, NeverNegative
    <3> QED BY <2>1, <3>1, <3>3
  <2>3. CASE c # 0
    <3>1. c \in 1..N /\ doc.toks[c].type \in Containers /\ doc.depth[c] = b
      BY <1>1, <1>6, <2>3 DEF Whole, IsContainer
    <3>2. \A l \in c + 1..m - 1 : doc.depth[l] # b - 1
      <4> TAKE l \in c + 1..m - 1
      <4>1. l \in c..k - 1 \/ l = k
        BY <1>7
      <4>2. doc.depth[l] >= b /\ l \in 0..N
        BY <1>4, <1>6, <1>7, <4>1
      <4> QED BY <1>6, <4>2
    <3>3. doc.last[c] = m
      <4> HIDE DEF b, N
      <4> QED BY <1>7, <2>1, <3>1, <3>2, LastOfContainer DEF N
    <3>4. i < doc.last[c]
      BY <1>5, <2>3
    <3> QED BY <1>5, <1>7, <3>3, <3>4
  <2> QED BY <2>2, <2>3
<1>9. doc.start[m] < doc.len
  <2>1. i \in 1..N + 1 /\ m \in 1..N + 1
    BY <1>1, <1>5, <1>6, <1>7
  <2>2. doc.start[m] \in Nat /\ doc.start[i] \in Nat /\ doc.len \in Nat
    BY <2>1, DocumentTypes
  <2>3. m < i => doc.start[m] < doc.start[i]
    BY <2>1, DocumentTypes
  <2>4. m < i \/ m = i
    BY <1>7, <2>1
  <2> QED BY <1>5, <2>2, <2>3, <2>4
<1>10. c # 0 => m < doc.last[c]
  <2> HAVE c # 0
  <2>1. i < doc.last[c] /\ doc.last[c] \in Int
    <3>1. doc.toks[c].type \in Containers /\ doc.last[c] # 0 /\ c \in 1..N
      BY <1>1, <1>6 DEF Whole, IsContainer, Complete
    <3>2. doc.last[c] \in c + 1..N
      BY <3>1, LastOfContainer
    <3> QED BY <1>5, <3>2
  <2> QED BY <1>5, <1>6, <1>7, <2>1
<1>11. doc.depth[m - 1] = b
  BY <1>4 DEF k
<1> QED BY <1>1, <1>7, <1>8, <1>9, <1>10, <1>11, MemberIs

\* Next for an expected element moves the cursor to it, or it does not follow.
LEMMA NextOfStep ==
  ASSUME Inv, Inv', NEW type, NEW tag, NEW o, o = DissectorNextOf(d, type, tag),
         Called([op |-> "NextOf", type |-> type, tag |-> tag], o)
  PROVE  Cursor!CursorNext
<1> DEFINE n == Len(d.stack)
           c == Innermost(d)
           v == VisitedBy(d.reader, c)
           top == PlaceFrame(d, Place(d))
           op == [op |-> "NextOf", type |-> type, tag |-> tag]
<1>1. /\ n \in Nat /\ IsDocument(doc) /\ doc' = doc /\ call' = op /\ err' = o.err /\ d' = o.val
      /\ MayCall("NextOf") /\ CursorBar = Frames(d, n, top)
      /\ o.err = NoError => CursorBar' = Frames(o.val, Len(o.val.stack), PlaceFrame(o.val, Place(o.val)))
      /\ o.err # NoError => CursorBar' = << >>
  <2>1. op.op = "NextOf"
    OBVIOUS
  <2>2. Called(op, o)
    OBVIOUS
  <2> HIDE DEF op
  <2> QED BY <2>1, <2>2, CallCursor
<1>2. PICK j : Running(d) /\ OnOrBetween(d, j)
  BY <1>1, CallFinds
<1> DEFINE m == TokenBehind(d, j)
<1>3. Advances(d, j, o)
  BY <1>1, <1>2, DissectorNextOfSteps
<1>4. Typed(o.val) /\ o.val.stack = d.stack /\ (o.err = NoError => On(o.val, m))
  BY <1>3 DEF Advances
<1>5. /\ o.err = NoError => o.val.reader.elem.type = type /\ o.val.reader.elem.tag = tag
      /\ WellFormed(doc) /\ m <= Len(doc.toks) /\ doc.toks[m].type = type /\ doc.toks[m].tag = tag
         /\ type # "end" => o.err = NoError
  BY <1>1, <1>2, DissectorNextOfFails
<1>6. /\ Len(o.val.stack) = n /\ Innermost(o.val) = c
      /\ \A k \in 0..n : Container(o.val, k) = Container(d, k)
  BY <1>4, SameStack
<1>7. \A f : Frames(o.val, n, f) = Frames(d, n, f)
  BY <1>1, <1>6, SameFrames
<1>8. BehindOf(top) = {i \in Members(doc, c) : i > v} /\ top.container = c /\ top.at = v
  BY DEF BehindOf, PlaceFrame
<1>9. call'.op = "NextOf" /\ call'.type = type /\ call'.tag = tag
  BY <1>1
<1>10. CASE o.err = NoError
  <2>1. On(o.val, m) /\ Place(o.val) = "on"
    BY <1>4, <1>10 DEF On, Place
  <2>2. /\ m \in Members(doc, c) /\ m > v /\ Complete(doc, m) /\ VisitedBy(o.val.reader, c) = m
        /\ Least({i \in Members(doc, c) : i > v}) = m
    <3>1. IsDocument(doc) /\ Running(d) /\ OnOrBetween(d, j) /\ o.val.stack = d.stack /\ On(o.val, m)
      BY <1>1, <1>2, <1>4, <2>1
    <3> QED BY <3>1, NextVisited
  <2>3. PlaceFrame(o.val, Place(o.val)) = [container |-> c, at |-> m, state |-> "on"]
    BY <1>6, <2>1, <2>2 DEF PlaceFrame
  <2>4. CursorBar' = Frames(d, n, [container |-> c, at |-> m, state |-> "on"])
    BY <1>1, <1>6, <1>7, <1>10, <2>3
  <2>5. BehindOf(top) # {} /\ Least(BehindOf(top)) = m
    BY <1>8, <2>2
  <2>6. doc.toks[m].type = type /\ doc.toks[m].tag = tag
    BY <1>5, <1>10, <2>1 DEF On
  <2> HIDE DEF m, n, c, v, top, op
  <2> QED BY <1>1, <1>8, <1>9, <2>2, <2>4, <2>5, <2>6, CursorMoves
<1>11. CASE o.err # NoError
  <2> DEFINE B == BehindOf(top)
  <2>1. ASSUME WellFormed(doc), B # {}, doc.toks[Least(B)].type = type, doc.toks[Least(B)].tag = tag
        PROVE  FALSE
    <3>1. Whole(c, n)
      BY <1>1, <1>2, InnermostWhole DEF Running, Typed
    <3>2. \A i \in B : /\ i \in Members(doc, c) /\ i \in 1..Len(doc.toks) /\ i >= m
                       /\ doc.toks[i].type # "end" /\ doc.depth[i - 1] = n /\ i > c
      <4> TAKE i \in B
      <4>1. i \in Members(doc, c) /\ i > v
        BY <1>8
      <4>2. i \in c + 1..Len(doc.toks) /\ doc.toks[i].type # "end" /\ doc.depth[i - 1] = n
        BY <1>1, <3>1, <4>1, MemberIs
      <4>3. i >= m
        BY <1>1, <1>2, <4>1, BehindIs
      <4>4. c \in Nat /\ Len(doc.toks) \in Nat
        <5>1. Len(doc.toks) \in Nat /\ c \in 0..Len(doc.toks)
          BY <1>1, <3>1, DocumentTypes DEF Whole
        <5> QED BY <5>1
      <4> QED BY <4>1, <4>2, <4>3, <4>4
    <3>3. Least(B) \in B /\ \A i \in B : Least(B) <= i
      <4>1. B \subseteq Nat
        <5>1. \A i \in B : i \in Nat
          BY <3>2
        <5> HIDE DEF B
        <5> QED BY <5>1
      <4> HIDE DEF B
      <4> QED BY <2>1, <4>1, LeastExists
    <3> DEFINE l == Least(B)
    <3>4. l \in B /\ doc.toks[l].type = type /\ doc.toks[l].tag = tag
      BY <2>1, <3>3
    <3> HIDE DEF l
    <3>5. l \in Members(doc, c) /\ l \in Nat /\ l >= m /\ m \in Nat
      <4>1. m \in j + 1..Len(doc.toks) + 1 /\ j \in 0..Len(doc.toks)
        BY <1>1, <1>2, TokenBehindType
      <4>2. l \in Members(doc, c) /\ l \in 1..Len(doc.toks) /\ l >= m
        BY <3>2, <3>4
      <4> QED BY <4>1, <4>2
    <3>6. m \in Members(doc, c)
      <4> HIDE DEF m, c
      <4> QED BY <1>1, <1>2, <2>1, <3>5, NextIsMember DEF m, c
    <3>7. m \in B
      <4>1. m > v
        <5>1. m >= m
          BY <3>5
        <5> QED BY <1>1, <1>2, <3>6, <5>1, BehindIs
      <4> QED BY <1>8, <3>6, <4>1
    <3>8. l = m
      BY <3>3, <3>5, <3>7 DEF l
    <3>9. m <= Len(doc.toks) /\ type # "end"
      BY <3>2, <3>4, <3>8
    <3> QED BY <1>5, <1>11, <2>1, <3>4, <3>8, <3>9
  <2>2. CursorBar' = << >>
    BY <1>1, <1>11
  <2>3. ~ WellFormed(doc) \/ ~ (B # {} /\ doc.toks[Least(B)].type = call'.type /\ doc.toks[Least(B)].tag = call'.tag)
    BY <1>9, <2>1
  <2> HIDE DEF m, n, c, v, top, op
  <2> QED BY <1>1, <1>9, <2>2, <2>3, CursorFails
<1> QED BY <1>10, <1>11

\* A container that has just been left is the last one visited in the one around it.
LEMMA LeftVisited ==
  ASSUME IsDocument(doc), NEW x, Typed(x), StackOK(x), NEW k \in 1..Len(x.stack), NEW c, c = Container(x, k),
         NEW r \in ReaderType, Passed(r, doc.last[c])
  PROVE  VisitedBy(r, Container(x, k - 1)) = c
<1> DEFINE p == Container(x, k - 1)   b == k - 1   l == doc.last[c]   N == Len(doc.toks)
<1>1. /\ c \in Members(doc, p) /\ c \in 1..N /\ IsContainer(doc, c) /\ Complete(doc, c)
      /\ doc.depth[c - 1] = b
  BY ContainerIsMember
<1>2. Whole(p, b)
  <2>1. Len(x.stack) \in Nat
    BY DissectorFields DEF Typed
  <2>2. k - 1 \in 0..Len(x.stack)
    BY <2>1
  <2> QED BY <2>2, ContainerWhole
<1>3. l \in c + 1..N /\ l # 0
  BY <1>1, LastOfContainer DEF IsContainer, Complete
<1>4. \A i \in Members(doc, p) : i <= l => i <= c
  <2> TAKE i \in Members(doc, p)
  <2>1. c < i => i > l
    <3> HIDE DEF p, b
    <3> QED BY <1>1, <1>2, <1>3, NoneInElement DEF l
  <2>2. i \in Int
    <3>1. i \in p + 1..N
      BY <1>2, MemberIs
    <3> QED BY <3>1
  <2> QED BY <1>1, <1>3, <2>1, <2>2
<1>5. c <= l
  BY <1>1, <1>3
<1> HIDE DEF p, b
<1> QED BY <1>1, <1>2, <1>4, <1>5, VisitedIsThat DEF l, p, b

\* EnterContainer puts the cursor before the first member.
LEMMA EnterStep ==
  ASSUME Inv, Inv', NEW o, o = DissectorEnter(d), Called([op |-> "Enter"], o)
  PROVE  Cursor!CursorNext
<1> DEFINE n == Len(d.stack)
           top == PlaceFrame(d, Place(d))
           op == [op |-> "Enter"]
           y == o.val
<1>1. /\ n \in Nat /\ IsDocument(doc) /\ doc' = doc /\ call' = op /\ MayCall("Enter")
      /\ CursorBar = Frames(d, n, top)
      /\ o.err = NoError => CursorBar' = Frames(y, Len(y.stack), PlaceFrame(y, Place(y)))
      /\ o.err # NoError => CursorBar' = << >>
  <2>1. op.op = "Enter"
    OBVIOUS
  <2>2. Called(op, o)
    OBVIOUS
  <2> HIDE DEF op
  <2> QED BY <2>1, <2>2, CallCursor
<1>2. PICK j : Running(d) /\ OnOrBetween(d, j)
  BY <1>1, CallFinds
<1>3. /\ top.state = "on" <=> d.reader.elem # NoElement
      /\ d.reader.elem # NoElement => top.at = j /\ (IsContainer(doc, j) <=> IsOnContainer(d.reader))
      /\ IsOnContainer(d.reader) => d.reader.elem # NoElement
  BY <1>1, <1>2, OnElementIs DEF PlaceFrame
<1>4. OnContainerOf(top) <=> IsOnContainer(d.reader)
  BY <1>3 DEF OnContainerOf
<1>5. call'.op = "Enter"
  BY <1>1
<1>6. CASE IsOnContainer(d.reader)
  <2>1. /\ o.err = NoError /\ Running(y) /\ OnOrBetween(y, j) /\ y.reader.elem = NoElement
        /\ Len(y.stack) = n + 1 /\ Container(y, n + 1) = j
        /\ \A k \in 1..n : Container(y, k) = Container(d, k)
    BY <1>1, <1>2, <1>6, DissectorEnterSteps
  <2>2. \A k \in 0..n : Container(y, k) = Container(d, k)
    BY <2>1 DEF Container
  <2>3. Innermost(y) = j /\ Innermost(d) = Container(y, n)
    BY <1>1, <2>1, <2>2 DEF Innermost
  <2>4. top = OnFrame(y, n + 1)
    BY <1>1, <1>3, <1>6, <2>1, <2>3 DEF OnFrame, PlaceFrame
  <2>5. VisitedBy(y.reader, j) = 0
    <3>1. y.reader \in ReaderType /\ Passed(y.reader, j) /\ Whole(j, n + 1)
      BY <1>1, <2>1, <2>3, DissectorFields, InnermostWhole DEF Running, Typed, OnOrBetween, Inside, IsIn
    <3>2. \A i \in Members(doc, j) : ~ (i <= j)
      <4> TAKE i \in Members(doc, j)
      <4>1. i \in j + 1..Len(doc.toks) /\ j \in Int
        BY <1>1, <3>1, MemberIs DEF Whole
      <4> QED BY <4>1
    <3> QED BY <1>1, <3>1, <3>2, VisitedIsThat
  <2>6. PlaceFrame(y, Place(y)) = [container |-> top.at, at |-> 0, state |-> "between"]
    BY <1>3, <1>6, <2>1, <2>3, <2>5 DEF PlaceFrame, Place
  <2> DEFINE f == [container |-> top.at, at |-> 0, state |-> "between"]
  <2>7. CursorBar' = Frames(y, n + 1, f)
    BY <1>1, <2>1, <2>6
  <2> HIDE DEF f
  <2>8. Append(Frames(d, n, top), f) = Frames(y, n + 1, f)
    <3>1. Frames(y, n, top) = Frames(d, n, top)
      BY <1>1, <2>2, SameFrames
    <3>2. Append(Frames(y, n, OnFrame(y, n + 1)), f) = Frames(y, n + 1, f)
      BY <1>1, FramesAppend
    <3> HIDE DEF top, y, n
    <3> QED BY <2>4, <3>1, <3>2
  <2>9. CursorBar' = Append(CursorBar, f)
    BY <1>1, <2>7, <2>8
  <2> HIDE DEF top, n, op, y
  <2> QED BY <1>1, <1>4, <1>5, <1>6, <2>9, CursorEnters DEF f
<1>7. CASE ~ IsOnContainer(d.reader)
  <2>1. CursorBar' = << >>
    BY <1>1, <1>2, <1>7, DissectorEnterSteps
  <2> HIDE DEF top, n, op, y
  <2> QED BY <1>1, <1>4, <1>5, <1>7, <2>1, CursorFails
<1> QED BY <1>6, <1>7

\* ExitContainer puts the cursor behind the container, from wherever it was in it.
LEMMA ExitStep ==
  ASSUME Inv, Inv', d.stack # << >>, NEW o, o = DissectorExit(d), Called([op |-> "Exit"], o)
  PROVE  Cursor!CursorNext
<1> DEFINE n == Len(d.stack)
           op == [op |-> "Exit"]
           y == o.val
<1>1. /\ n \in Nat /\ IsDocument(doc) /\ doc' = doc /\ call' = op /\ MayCall("Exit")
      /\ o.err = NoError => CursorBar' = Frames(y, Len(y.stack), PlaceFrame(y, Place(y)))
      /\ o.err # NoError => CursorBar' = << >>
  <2>1. op.op = "Exit"
    OBVIOUS
  <2>2. Called(op, o)
    OBVIOUS
  <2> HIDE DEF op
  <2> QED BY <2>1, <2>2, CallCursor
<1>2. PICK j : StackOK(d) /\ Typed(d) /\ Inside(d, j)
  BY <1>1, CallFinds
<1>3. call'.op = "Exit"
  BY <1>1
<1>4. \E top : CursorBar = Frames(d, n, top)
  <2>1. CursorForm /\ task = Idle
    BY <1>1, CursorIs DEF MayCall
  <2>2. CASE err = NoError
    BY <2>1, <2>2 DEF CursorForm
  <2>3. CASE err # NoError
    <3>1. err = EndOfTLV /\ call.op = "Next"
      BY <1>1, <2>3 DEF MayCall
    <3>2. d.reader.elem.type = "end"
      BY <3>1 DEF Inv, Ended
    <3>3. AtEndOfContainer
      BY <3>1, <3>2 DEF AtEndOfContainer
    <3> QED BY <2>1, <2>3, <3>3 DEF CursorForm
  <2> QED BY <2>2, <2>3
<1>5. PICK top : CursorBar = Frames(d, n, top)
  BY <1>4
<1>6. CASE o.err = NoError
  <2> DEFINE c == Container(d, n)
  <2>1. /\ Running(y) /\ y.reader.elem = NoElement /\ OnOrBetween(y, doc.last[Innermost(d)])
        /\ Len(y.stack) = n - 1
        /\ \A k \in 0..n - 1 : Container(y, k) = Container(d, k)
    BY <1>1, <1>2, <1>6, DissectorExitSteps
  <2>2. n \in Nat \ {0} /\ n \in 1..Len(d.stack)
    <3>1. d.stack \in Seq(Entry)
      BY <1>2, DissectorFields DEF Typed
    <3>2. n # 0
      BY <3>1
    <3> QED BY <1>1, <3>2
  <2>3. Passed(y.reader, doc.last[c]) /\ y.reader \in ReaderType
    BY <2>1, DissectorFields DEF Running, Typed, OnOrBetween, Inside, IsIn, Innermost
  <2> HIDE DEF n
  <2>4. VisitedBy(y.reader, Container(d, n - 1)) = c
    BY <1>1, <1>2, <2>2, <2>3, LeftVisited
  <2>5. Innermost(y) = Container(d, n - 1)
    <3>1. n - 1 \in 0..n - 1
      BY <2>2
    <3> QED BY <2>1, <3>1 DEF Innermost
  <2>6. PlaceFrame(y, Place(y)) = [OnFrame(d, n) EXCEPT !.state = "between"]
    BY <2>1, <2>4, <2>5 DEF PlaceFrame, OnFrame, Place
  <2> DEFINE f == [OnFrame(d, n) EXCEPT !.state = "between"]
  <2>7. CursorBar' = Frames(y, n - 1, f)
    BY <1>1, <1>6, <2>1, <2>6
  <2> HIDE DEF f, y, c, op
  <2>8. Frames(y, n - 1, f) = Frames(d, n - 1, f)
    <3>1. n - 1 \in Nat
      BY <2>2
    <3> QED BY <2>1, <3>1, SameFrames
  <2>9. CursorBar' = Frames(d, n - 1, f)
    BY <2>7, <2>8
  <2> QED BY <1>1, <1>3, <1>5, <2>2, <2>9, CursorExits DEF f
<1>7. CASE o.err # NoError
  <2>1. ~ WellFormed(doc)
    BY <1>1, <1>2, <1>7, LeaveSucceeds
  <2>2. CursorBar' = << >>
    BY <1>1, <1>7
  <2> HIDE DEF n, op, y
  <2> QED BY <1>1, <1>5, <2>1, <2>2, CursorFails
<1> QED BY <1>6, <1>7

\* A dissector that stays on its element is the same cursor.
LEMMA SameCursor ==
  ASSUME IsDocument(doc), NEW x, Running(x), NEW j, OnOrBetween(x, j), x.reader.elem # NoElement,
         NEW y, Running(y), OnOrBetween(y, j), y.reader.elem # NoElement,
         NEW n, n = Len(x.stack), Len(y.stack) = n, \A k \in 0..n : Container(y, k) = Container(x, k)
  PROVE  Frames(y, n, PlaceFrame(y, Place(y))) = Frames(x, n, PlaceFrame(x, Place(x)))
<1>1. n \in Nat
  BY DissectorFields DEF Running, Typed
<1>2. Innermost(y) = Innermost(x)
  <2>1. n \in 0..n
    BY <1>1
  <2> QED BY <2>1 DEF Innermost
<1>3. VisitedBy(x.reader, Innermost(x)) = j /\ VisitedBy(y.reader, Innermost(y)) = j
  BY OnElementIs
<1>4. PlaceFrame(y, Place(y)) = PlaceFrame(x, Place(x))
  BY <1>2, <1>3 DEF PlaceFrame, Place
<1> QED BY <1>1, <1>4, SameFrames

\* AddTypedItem leaves the cursor on its element, or refuses an integer.
LEMMA AddTypedStep ==
  ASSUME Inv, Inv', NEW fits, NEW o, o = AddTypedItem(d, fits),
         Called([op |-> "AddTyped", fits |-> fits], o)
  PROVE  Cursor!CursorNext
<1> DEFINE n == Len(d.stack)
           top == PlaceFrame(d, Place(d))
           op == [op |-> "AddTyped", fits |-> fits]
           y == o.val
           p == AddValue(d)
<1>1. /\ n \in Nat /\ IsDocument(doc) /\ doc' = doc /\ call' = op /\ MayCall("AddTyped")
      /\ CursorBar = Frames(d, n, top)
      /\ o.err = NoError => CursorBar' = Frames(y, Len(y.stack), PlaceFrame(y, Place(y)))
      /\ o.err # NoError => CursorBar' = << >>
  <2>1. op.op = "AddTyped"
    OBVIOUS
  <2>2. Called(op, o)
    OBVIOUS
  <2> HIDE DEF op
  <2> QED BY <2>1, <2>2, CallCursor
<1>2. PICK j : Running(d) /\ OnOrBetween(d, j)
  BY <1>1, CallFinds
<1>3. /\ top.state = "on" <=> d.reader.elem # NoElement
      /\ d.reader.elem # NoElement => top.at = j /\ (IsContainer(doc, j) <=> IsOnContainer(d.reader))
      /\ IsOnContainer(d.reader) => d.reader.elem # NoElement
  BY <1>1, <1>2, OnElementIs DEF PlaceFrame
<1>4. call'.op = "AddTyped" /\ call'.fits = fits
  BY <1>1
<1> DEFINE unfit == d.reader.elem.type = "number" /\ ~ fits
<1>a. /\ ~ unfit => y = p.val /\ o.err = p.err
      /\ unfit => o.err = "INVALID_ARGUMENT"
  BY TypedItemIs
<1>b. d.reader.elem # NoElement => (OnUnfitOf(top) <=> unfit)
  <2>1. d.reader.elem # NoElement => doc.toks[j].type = d.reader.elem.type
    BY <1>1, <1>2, OnElementIs
  <2> HIDE DEF top
  <2> QED BY <1>3, <1>4, <2>1 DEF OnUnfitOf
<1>c. unfit => d.reader.elem # NoElement
  BY DEF NoElement
<1>d. CASE unfit
  <2>1. CursorBar' = << >> /\ OnUnfitOf(top)
    BY <1>1, <1>a, <1>b, <1>c, <1>d DEF NoError
  <2> HIDE DEF top, n, op, y, p, unfit
  <2> QED BY <1>1, <1>4, <2>1, CursorFails
<1>5. ASSUME ~ unfit
      PROVE  y = p.val /\ o.err = p.err
  BY <1>5, <1>a
<1>6. CASE ~ unfit /\ o.err = NoError
  <2>1. /\ y.stack = d.stack /\ Running(y) /\ OnOrBetween(y, j) /\ d.reader.elem # NoElement
        /\ \A k : Container(y, k) = Container(d, k)
        /\ d.reader.elem.type \notin Containers /\ y.reader.elem # NoElement
    <3>1. p.err = NoError /\ IsDocument(doc) /\ y = p.val
      BY <1>1, <1>5, <1>6
    <3> HIDE DEF y
    <3>2. /\ p.val.stack = d.stack /\ Running(p.val) /\ OnOrBetween(p.val, j) /\ d.reader.elem # NoElement
          /\ \A k : Container(p.val, k) = Container(d, k)
          /\ d.reader.elem.type \notin Containers /\ p.val.reader.elem # NoElement
      BY <1>2, <3>1, AddValueSteps
    <3> HIDE DEF p
    <3> QED BY <3>1, <3>2
  <2>2. CursorBar' = CursorBar
    <3>1. Frames(y, n, PlaceFrame(y, Place(y))) = Frames(d, n, PlaceFrame(d, Place(d)))
      <4> HIDE DEF y
      <4> QED BY <1>1, <1>2, <2>1, SameCursor
    <3> QED BY <1>1, <1>6, <2>1, <3>1
  <2>3. top.state = "on" /\ ~ IsContainer(doc, top.at) /\ ~ OnUnfitOf(top)
    BY <1>3, <1>6, <1>b, <2>1 DEF IsOnContainer
  <2> HIDE DEF top, n, op, y, p, unfit
  <2> QED BY <1>1, <1>4, <2>2, <2>3, CursorShows
<1>7. CASE ~ unfit /\ o.err # NoError
  <2>1. \/ d.reader.elem = NoElement \/ IsOnContainer(d.reader)
        \/ doc.toks[j].type = "invalid" \/ EmptyBytes(j)
    BY <1>1, <1>2, <1>5, <1>7, ValueFails
  <2>2. CursorBar' = << >>
    BY <1>1, <1>7
  <2>3. \/ ~ WellFormed(doc) \/ top.state # "on" \/ OnContainerOf(top)
        \/ top.state = "on" /\ EmptyBytes(top.at)
    <3>1. CASE d.reader.elem = NoElement
      BY <1>3, <3>1
    <3>2. CASE IsOnContainer(d.reader)
      BY <1>3, <3>2 DEF OnContainerOf
    <3>3. CASE d.reader.elem # NoElement /\ doc.toks[j].type = "invalid"
      <4>1. j \in 1..Len(doc.toks)
        BY <1>1, <1>2, <3>3, OnMember
      <4> QED BY <3>3, <4>1 DEF WellFormed
    <3>4. CASE d.reader.elem # NoElement /\ EmptyBytes(j)
      BY <1>3, <3>4
    <3> QED BY <2>1, <3>1, <3>2, <3>3, <3>4
  <2> HIDE DEF top, n, op, y, p, unfit
  <2> QED BY <1>1, <1>4, <2>2, <2>3, CursorFails
<1> QED BY <1>6, <1>7, <1>d

\* AddSubTreeItem leaves the cursor on its element.
LEMMA AddSubTreeStep ==
  ASSUME Inv, Inv', NEW o, o = AddSubTreeItem(d), Called([op |-> "AddSubTree"], o)
  PROVE  Cursor!CursorNext
<1> DEFINE n == Len(d.stack)
           top == PlaceFrame(d, Place(d))
           op == [op |-> "AddSubTree"]
           y == o.val
<1>1. /\ n \in Nat /\ IsDocument(doc) /\ doc' = doc /\ call' = op /\ MayCall("AddSubTree")
      /\ CursorBar = Frames(d, n, top)
      /\ o.err = NoError => CursorBar' = Frames(y, Len(y.stack), PlaceFrame(y, Place(y)))
      /\ o.err # NoError => CursorBar' = << >>
  <2>1. op.op = "AddSubTree"
    OBVIOUS
  <2>2. Called(op, o)
    OBVIOUS
  <2> HIDE DEF op
  <2> QED BY <2>1, <2>2, CallCursor
<1>2. PICK j : Running(d) /\ OnOrBetween(d, j)
  BY <1>1, CallFinds
<1>3. top.state = "on" <=> d.reader.elem # NoElement
  BY <1>1, <1>2, OnElementIs DEF PlaceFrame
<1>4. call'.op = "AddSubTree"
  BY <1>1
<1>5. IF d.reader.elem = NoElement THEN o.err # NoError ELSE o.err = NoError /\ y = AddItem(d)
  <2>1. d.reader.elem.type # "end" /\ d.reader.elem \in HeadType \cup {NoElement}
    BY <1>2, DissectorFields DEF OnOrBetween, Running, Typed, ReaderType
  <2>2. d.reader.elem.type = "none" <=> d.reader.elem = NoElement
    BY <2>1 DEF NoElement, HeadType, ElementTypes, Containers, Strings
  <2> QED BY <2>1, <2>2 DEF AddSubTreeItem, Showing, OK, Outcome, NoError
<1>6. CASE d.reader.elem # NoElement
  <2>1. /\ y.stack = d.stack /\ Running(y) /\ OnOrBetween(y, j) /\ y.reader = d.reader
        /\ \A k : Container(y, k) = Container(d, k)
    BY <1>2, <1>5, <1>6, AddItemKeeps DEF Running
  <2>2. CursorBar' = CursorBar
    <3>1. Frames(y, n, PlaceFrame(y, Place(y))) = Frames(d, n, PlaceFrame(d, Place(d)))
      <4> HIDE DEF y
      <4> QED BY <1>1, <1>2, <1>6, <2>1, SameCursor
    <3> QED BY <1>1, <1>5, <1>6, <2>1, <3>1
  <2>3. top.state = "on"
    BY <1>3, <1>6
  <2> HIDE DEF top, n, op, y
  <2> QED BY <1>1, <1>4, <2>2, <2>3, CursorShows
<1>7. CASE d.reader.elem = NoElement
  <2>1. CursorBar' = << >> /\ top.state # "on"
    BY <1>1, <1>3, <1>5, <1>7
  <2> HIDE DEF top, n, op, y
  <2> QED BY <1>1, <1>4, <2>1, CursorFails
<1> QED BY <1>6, <1>7

\* The step of a call that shows members, which goes on or is over.
LEMMA GoesOnCursor ==
  ASSUME Inv, Inv', NEW op \in {"Generic", "List"}, NEW o, NEW k \in Nat, GoesOn(op, o, k)
  PROVE  /\ doc' = doc /\ d' = o.val /\ err' = o.err /\ Len(o.val.stack) \in Nat
         /\ o.err = NoError /\ k > 0 =>
              LET n == Len(o.val.stack) - k
              IN  /\ n \in Nat /\ task' = op /\ within' = k /\ call' = call
                  /\ CursorBar' = Frames(o.val, n, OnFrame(o.val, n + 1))
         /\ ~ (o.err = NoError /\ k > 0) => task' = Idle /\ call'.op = op
         /\ o.err = NoError /\ ~ (k > 0) =>
              CursorBar' = Frames(o.val, Len(o.val.stack), PlaceFrame(o.val, Place(o.val)))
         /\ o.err # NoError => CursorBar' = << >>
<1> DEFINE y == o.val
           m == Len(y.stack) - within'
<1>1. doc' = doc /\ d' = o.val /\ err' = o.err
  BY DEF GoesOn
<1>2. /\ m \in Nat
      /\ err' # NoError \/ task' = Idle => within' = 0 /\ m = Len(y.stack)
      /\ err' = NoError /\ task' = Idle => CursorBar' = Frames(y, m, PlaceFrame(y, Place(y)))
      /\ err' = NoError /\ task' # Idle => CursorBar' = Frames(y, m, OnFrame(y, m + 1))
      /\ err' # NoError /\ ~ AtEndOfContainer' => CursorBar' = << >>
  <2>1. doc' = doc /\ d' = y
    BY <1>1
  <2> HIDE DEF y
  <2> QED BY <2>1, CursorThen
<1>3. Len(y.stack) \in Nat
  <2>1. Typed(d)'
    BY DEF Inv
  <2>2. Typed(y)
    <3>1. Typed(d') <=> Typed(d)'
      BY <1>1, SameDocument
    <3> QED BY <1>1, <2>1, <3>1
  <2> QED BY <2>2, DissectorFields DEF Typed
<1>4. CASE o.err = NoError /\ k > 0
  <2>1. task' = op /\ within' = k /\ call' = call /\ task' # Idle
    BY <1>4 DEF GoesOn, Idle
  <2> QED BY <1>1, <1>2, <1>4, <1>3, <2>1
<1>5. CASE ~ (o.err = NoError /\ k > 0)
  <2>1. task' = Idle /\ call'.op = op
    BY <1>5 DEF GoesOn
  <2>2. ~ AtEndOfContainer'
    BY <2>1 DEF AtEndOfContainer
  <2> QED BY <1>1, <1>2, <1>5, <1>3, <2>1, <2>2
<1> QED BY <1>4, <1>5

\* Shown at once, an element that is no container is left where it was.
LEMMA GenericStays ==
  ASSUME IsDocument(doc), NEW x, Running(x), NEW j, OnOrBetween(x, j), NEW depth, NEW suppressTag,
         NEW o, o = AddGenericTLVItem(x, depth, suppressTag), o.err = NoError, ~ IsOnContainer(x.reader)
  PROVE  o.val.reader.elem # NoElement
<1>1. AddValue(x).err = NoError /\ o.val = AddValue(x).val
  BY DEF AddGenericTLVItem, AddValue, Showing, Outcome, NoError, Crash
<1>2. AddValue(x).val.reader.elem # NoElement
  BY <1>1, AddValueSteps
<1> QED BY <1>1, <1>2

\* AddGenericTLVItem and AddListItem up to the first member.
LEMMA ShowsStep ==
  ASSUME Inv, Inv', NEW op \in {"Generic", "List"}, NEW o, Shows(op, o),
         NEW j, Running(d), OnOrBetween(d, j), Opens(d, j, o),
         o.err # NoError =>
           \/ op = "Generic" /\ (d.reader.elem = NoElement \/ doc.toks[j].type = "invalid" \/ EmptyBytes(j))
           \/ op = "List" /\ d.reader.elem.type \notin {"array", "path"},
         o.err = NoError /\ ~ IsOnContainer(d.reader) => op = "Generic" /\ o.val.reader.elem # NoElement
  PROVE  [Cursor!CursorNext]_<<doc, call, CursorBar>>
<1> DEFINE n == Len(d.stack)
           top == PlaceFrame(d, Place(d))
           y == o.val
           k == IF IsOnContainer(d.reader) THEN 1 ELSE 0
<1>1. /\ MayCall(op) /\ GoesOn(op, o, k) /\ k \in Nat
  BY DEF Shows
<1>2. IsDocument(doc) /\ err = NoError /\ n \in Nat /\ doc' = doc
  BY <1>1, CallFinds DEF GoesOn
<1>3. CursorBar = Frames(d, n, top)
  <2>1. CursorForm /\ task = Idle
    BY <1>1, CursorIs DEF MayCall
  <2> QED BY <1>2, <2>1 DEF CursorForm
<1>4. /\ top.state = "on" <=> d.reader.elem # NoElement
      /\ d.reader.elem # NoElement =>
           /\ top.at = j /\ (IsContainer(doc, j) <=> IsOnContainer(d.reader))
           /\ doc.toks[j].type = d.reader.elem.type
      /\ IsOnContainer(d.reader) => d.reader.elem # NoElement
      /\ top.container = Innermost(d)
  BY <1>2, OnElementIs DEF PlaceFrame
<1>5. /\ o.err = NoError /\ k > 0 =>
           LET m == Len(y.stack) - k
           IN  m \in Nat /\ call' = call /\ CursorBar' = Frames(y, m, OnFrame(y, m + 1))
      /\ ~ (o.err = NoError /\ k > 0) => call'.op = op
      /\ o.err = NoError /\ ~ (k > 0) =>
           CursorBar' = Frames(y, Len(y.stack), PlaceFrame(y, Place(y)))
      /\ o.err # NoError => CursorBar' = << >>
  <2> HIDE DEF k, y
  <2> QED BY <1>1, GoesOnCursor DEF y
<1>6. o.err = NoError =>
        /\ Running(y) /\ OnOrBetween(y, j) /\ d.reader.elem # NoElement
        /\ \A i \in 0..n : Container(y, i) = Container(d, i)
        /\ IF IsOnContainer(d.reader) THEN Len(y.stack) = n + 1 /\ Container(y, n + 1) = j
           ELSE Len(y.stack) = n
  BY DEF Opens
<1>7. CASE o.err = NoError /\ IsOnContainer(d.reader)
  <2>1. k = 1 /\ k > 0
    BY <1>7
  <2>2. Len(y.stack) = n + 1 /\ Container(y, n + 1) = j /\ Container(y, n) = Innermost(d)
    <3>1. n \in 0..n
      BY <1>2
    <3> QED BY <1>6, <1>7, <3>1 DEF Innermost
  <2>3. call' = call /\ CursorBar' = Frames(y, n, OnFrame(y, n + 1))
    <3> HIDE DEF k, y, n
    <3>1. Len(y.stack) - k = n
      BY <1>2, <2>1, <2>2
    <3> QED BY <1>5, <1>7, <2>1, <3>1
  <2>4. OnFrame(y, n + 1) = top
    <3>1. n + 1 - 1 = n
      BY <1>2
    <3> QED BY <1>4, <1>6, <1>7, <2>2, <3>1 DEF OnFrame, PlaceFrame
  <2>5. Frames(y, n, top) = Frames(d, n, top)
    BY <1>2, <1>6, <1>7, SameFrames
  <2>6. doc' = doc /\ call' = call /\ CursorBar' = CursorBar
    BY <1>2, <1>3, <2>3, <2>4, <2>5
  <2> QED BY <2>6
<1>8. CASE o.err = NoError /\ ~ IsOnContainer(d.reader)
  <2>1. ~ (k > 0) /\ op = "Generic" /\ y.reader.elem # NoElement
    BY <1>8
  <2>2. CursorBar' = CursorBar
    <3>1. Frames(y, n, PlaceFrame(y, Place(y))) = Frames(d, n, PlaceFrame(d, Place(d)))
      <4> HIDE DEF y
      <4> QED BY <1>2, <1>6, <1>8, <2>1, SameCursor
    <3>2. Len(y.stack) = n
      BY <1>6, <1>8
    <3> QED BY <1>3, <1>5, <1>8, <2>1, <3>1, <3>2
  <2>3. top.state = "on" /\ ~ IsContainer(doc, top.at) /\ call'.op = "Generic"
    BY <1>4, <1>5, <1>6, <1>8, <2>1
  <2> HIDE DEF top, n, y, k
  <2> QED BY <1>2, <1>3, <2>2, <2>3, CursorShows
<1>9. CASE o.err # NoError
  <2>1. CursorBar' = << >> /\ call'.op = op
    BY <1>5, <1>9
  <2>2. \/ ~ WellFormed(doc)
        \/ op = "Generic" /\ (top.state # "on" \/ (top.state = "on" /\ EmptyBytes(top.at)))
        \/ op = "List" /\ ~ OnListOf(top)
    <3>1. CASE op = "Generic"
      <4>1. CASE d.reader.elem = NoElement
        BY <1>4, <3>1, <4>1
      <4>2. CASE d.reader.elem # NoElement /\ doc.toks[j].type = "invalid"
        <5>1. j \in 1..Len(doc.toks)
          BY <1>2, <4>2, OnMember
        <5> QED BY <4>2, <5>1 DEF WellFormed
      <4>3. CASE d.reader.elem # NoElement /\ EmptyBytes(j)
        BY <1>4, <3>1, <4>3
      <4> QED BY <1>9, <3>1, <4>1, <4>2, <4>3
    <3>2. CASE op = "List"
      <4>1. d.reader.elem.type \notin {"array", "path"}
        BY <1>9, <3>2
      <4>2. ~ OnListOf(top)
        BY <1>4, <4>1 DEF OnListOf, OnContainerOf
      <4> QED BY <3>2, <4>2
    <3> QED BY <3>1, <3>2
  <2> HIDE DEF top, n, y, k
  <2> QED BY <1>2, <1>3, <2>1, <2>2, CursorFails
<1> QED BY <1>7, <1>8, <1>9
-----------------------------------------------------------------------------
\* A list is shown as a list.
ListInv == task = "List" => doc.toks[Container(d, Below + 1)].type \in {"array", "path"}

\* Showing members goes on.
LEMMA StillListed ==
  ASSUME ListInv, doc' = doc, NEW y, d' = y, task' = task, Len(y.stack) - within' = Below,
         Container(y, Below + 1) = Container(d, Below + 1)
  PROVE  ListInv'
<1>1. \A k : Container(d, k)' = Container(y, k)
  BY SameDocument
<1>2. Below' = Below
  BY DEF Below
<1> QED BY <1>1, <1>2 DEF ListInv

\* No members are shown after the call.
LEMMA NotListed ==
  ASSUME task' = Idle
  PROVE  ListInv'
BY DEF ListInv, Idle

\* A turn that goes on is no step of the cursor.
LEMMA TurnGoesOn ==
  ASSUME Inv, ListInv, NEW n, n = Below, n \in Nat, task # Idle, err = NoError,
         NEW y, doc' = doc, d' = y, call' = call, task' = task, Len(y.stack) - within' = n,
         \A l \in 0..n + 1 : Container(y, l) = Container(d, l),
         CursorBar' = Frames(y, n, OnFrame(y, n + 1))
  PROVE  [Cursor!CursorNext]_<<doc, call, CursorBar>> /\ ListInv'
<1>1. CursorBar = Frames(d, n, OnFrame(d, n + 1))
  <2>1. CursorForm
    BY CursorIs
  <2> QED BY <2>1 DEF CursorForm
<1>2. n \in 0..n + 1 /\ n + 1 \in 0..n + 1 /\ n + 1 - 1 = n /\ \A l \in 0..n : l \in 0..n + 1
  OBVIOUS
<1>3. OnFrame(y, n + 1) = OnFrame(d, n + 1) /\ Container(y, n + 1) = Container(d, n + 1)
  BY <1>2 DEF OnFrame
<1>4. \A top : Frames(y, n, top) = Frames(d, n, top)
  BY <1>2, SameFrames
<1>5. CursorBar' = CursorBar
  BY <1>1, <1>3, <1>4
<1>6. ListInv'
  BY <1>3, StillListed
<1> QED BY <1>5, <1>6

\* A turn that fails.
LEMMA TurnFails ==
  ASSUME Inv, task \in {"Generic", "List"}, err = NoError, doc' = doc, task' = Idle, call'.op = task,
         CursorBar' = << >>,
         ~ WellFormed(doc) \/ (task = "List" /\ \E i \in Members(doc, Container(d, Below + 1)) : EmptyBytes(i))
  PROVE  [Cursor!CursorNext]_<<doc, call, CursorBar>> /\ ListInv'
<1> DEFINE n == Below   top == OnFrame(d, n + 1)
<1>1. CursorBar = Frames(d, n, top) /\ n \in Nat
  <2>1. CursorForm /\ task # Idle
    BY CursorIs DEF Idle
  <2> QED BY <2>1 DEF CursorForm
<1>2. top.at = Container(d, Below + 1)
  BY DEF OnFrame
<1>3. Cursor!CursorNext
  <2> HIDE DEF n, top
  <2> QED BY <1>1, <1>2, CursorFails
<1> QED BY <1>3, NotListed

\* A turn in which the element that is shown has ended.
LEMMA TurnIsLast ==
  ASSUME Inv, ListInv, IsDocument(doc), Typed(d), StackOK(d), task \in {"Generic", "List"}, err = NoError,
         NEW n \in Nat, n = Below, n + 1 = Len(d.stack), NEW i, i = Container(d, n + 1),
         NEW y, doc' = doc, d' = y, task' = Idle, call'.op = task, Running(y), y.reader.elem = NoElement,
         OnOrBetween(y, doc.last[i]), Len(y.stack) = n,
         \A l \in 0..n : Container(y, l) = Container(d, l),
         CursorBar' = Frames(y, n, PlaceFrame(y, Place(y)))
  PROVE  [Cursor!CursorNext]_<<doc, call, CursorBar>> /\ ListInv'
<1> DEFINE top == OnFrame(d, n + 1)
<1>1. CursorBar = Frames(d, n, top)
  <2>1. CursorForm /\ task # Idle
    BY CursorIs DEF Idle
  <2> QED BY <2>1 DEF CursorForm
<1>2. /\ top.state = "on" /\ top.at = i /\ top.container = Container(d, n)
      /\ n + 1 \in 1..Len(d.stack)
  BY DEF OnFrame
<1>3. IsContainer(doc, i)
  BY <1>2, ContainerIsMember
<1>4. VisitedBy(y.reader, Container(d, n)) = i
  <2> DEFINE k == n + 1
  <2>1. y.reader \in ReaderType /\ Passed(y.reader, doc.last[i])
    BY DissectorFields DEF Running, Typed, OnOrBetween, Inside, IsIn
  <2>2. k \in 1..Len(d.stack) /\ i = Container(d, k) /\ k - 1 = n
    BY <1>2
  <2> HIDE DEF k
  <2>3. VisitedBy(y.reader, Container(d, k - 1)) = i
    BY <2>1, <2>2, LeftVisited
  <2> QED BY <2>2, <2>3
<1>5. Innermost(y) = Container(d, n)
  <2>1. n \in 0..n
    OBVIOUS
  <2> QED BY <2>1 DEF Innermost
<1>6. PlaceFrame(y, Place(y)) = [top EXCEPT !.state = "between"]
  BY <1>4, <1>5 DEF PlaceFrame, Place, OnFrame
<1>7. CursorBar' = Frames(d, n, [top EXCEPT !.state = "between"])
  BY <1>6, SameFrames
<1>8. task = "List" => doc.toks[top.at].type \in {"array", "path"}
  BY <1>2 DEF ListInv
<1>9. Cursor!CursorNext
  <2> HIDE DEF top
  <2> QED BY <1>1, <1>2, <1>3, <1>7, <1>8, CursorShows
<1> QED BY <1>9, NotListed

\* Bytes in a container are not the last of the document.
LEMMA BytesInContainer ==
  ASSUME IsDocument(doc), NEW x, Running(x), NEW j, OnOrBetween(x, j), x.reader.elem # NoElement,
         x.stack # << >>, EmptyBytes(j)
  PROVE  doc.start[j + 1] # doc.len
<1> DEFINE c == Innermost(x)   b == Len(x.stack)
<1>1. Typed(x) /\ StackOK(x) /\ Inside(x, j)
  BY DEF Running, OnOrBetween
<1>2. Whole(c, b) /\ c # 0
  BY <1>1, InnermostWhole, InnermostIs DEF Typed
<1>3. c < j /\ \A k \in c..j - 1 : doc.depth[k] >= b
  BY <1>1 DEF Inside, IsIn
<1>4. j \in 1..Len(doc.toks) /\ doc.depth[j - 1] = b
  BY OnMember
<1>5. doc.depth[j] = b
  <2>1. doc.depth[j] = doc.depth[j - 1] + Nesting(doc.toks[j])
    BY <1>4, DocumentTypes
  <2>2. Nesting(doc.toks[j]) = 0
    BY DEF EmptyBytes, Nesting, Containers
  <2>3. b \in Nat
    BY <1>1, DissectorFields DEF Typed
  <2> HIDE DEF b
  <2> QED BY <1>4, <2>1, <2>2, <2>3
<1>6. c \in Nat /\ Len(doc.toks) \in Nat /\ b \in Nat /\ doc.len \in Nat
  BY <1>1, <1>2, DocumentTypes, DissectorFields DEF Whole, Typed
<1> HIDE DEF c, b
<1>7. j \in c..Len(doc.toks) /\ \A k \in c..j : doc.depth[k] >= b
  <2>1. \A k \in c..j : k \in c..j - 1 \/ k = j
    BY <1>4, <1>6
  <2> QED BY <1>3, <1>4, <1>5, <1>6, <2>1
<1>8. doc.start[j + 1] < doc.len
  BY <1>2, <1>7, NotCutOff
<1> QED BY <1>6, <1>8


\* Where a turn of the loop starts.
LEMMA TurnStarts ==
  ASSUME Inv, ShowMember
  PROVE  /\ IsDocument(doc) /\ Running(d) /\ StackOK(d) /\ Typed(d) /\ doc' = doc
         /\ task \in {"Generic", "List"} /\ err = NoError
         /\ within \in 1..Len(d.stack) /\ Len(d.stack) \in Nat /\ d.stack # << >>
         /\ Below = Len(d.stack) - within
<1>1. task # Idle /\ Len(d.stack) \in Nat
  BY DissectorFields DEF ShowMember, Inv, Typed
<1>2. within \in 1..Len(d.stack)
  BY <1>1 DEF Inv
<1>3. doc' = doc
  BY DEF ShowMember, GoesOn
<1> QED BY <1>1, <1>2, <1>3, DocumentsAssumption DEF Inv, Below, Running

\* An element is shown, and entered if it is a container.
LEMMA MemberStep ==
  ASSUME Inv, Inv', ListInv, ShowMember, NEW x, NEW m, On(x, m), x.stack = d.stack,
         NEW p, p = AddGenericTLVItem(x, MemberDepth, FALSE),
         GoesOn(task, p, IF IsOnContainer(x.reader) THEN within + 1 ELSE within)
  PROVE  [Cursor!CursorNext]_<<doc, call, CursorBar>> /\ ListInv'
<1> DEFINE k == IF IsOnContainer(x.reader) THEN within + 1 ELSE within
           n == Below
           b == Len(d.stack)
           y == p.val
<1>1. /\ IsDocument(doc) /\ doc' = doc /\ task \in {"Generic", "List"} /\ task # Idle /\ err = NoError
      /\ within \in 1..b /\ b \in Nat /\ d.stack # << >> /\ n = b - within
  BY TurnStarts DEF Idle
<1>2. n \in 0..b - 1 /\ n \in Nat /\ k \in Nat /\ k > 0 /\ n + 1 \in 0..b
  BY <1>1
<1>3. /\ d' = y
      /\ p.err = NoError =>
           LET l == Len(y.stack) - k
           IN  /\ task' = task /\ call' = call
               /\ CursorBar' = Frames(y, l, OnFrame(y, l + 1))
      /\ p.err # NoError => task' = Idle /\ call'.op = task /\ CursorBar' = << >>
  <2>1. GoesOn(task, p, k)
    OBVIOUS
  <2> HIDE DEF k
  <2> QED BY <1>1, <1>2, <2>1, GoesOnCursor
<1>4. Running(x) /\ OnOrBetween(x, m) /\ x.reader.elem # NoElement
  BY DEF On
<1>5. Opens(x, m, p)
  BY <1>1, <1>4, GenericSteps
<1>6. CASE p.err = NoError
  <2>1. /\ \A l \in 0..b : Container(y, l) = Container(x, l)
        /\ Len(y.stack) = IF IsOnContainer(x.reader) THEN b + 1 ELSE b
    BY <1>5, <1>6 DEF Opens
  <2>2. Len(y.stack) - k = n
    <3> HIDE DEF y, b, n
    <3>1. CASE IsOnContainer(x.reader)
      <4>1. k = within + 1 /\ Len(y.stack) = b + 1
        BY <2>1, <3>1
      <4> HIDE DEF k
      <4> QED BY <1>1, <4>1
    <3>2. CASE ~ IsOnContainer(x.reader)
      <4>1. k = within /\ Len(y.stack) = b
        BY <2>1, <3>2
      <4> HIDE DEF k
      <4> QED BY <1>1, <4>1
    <3> QED BY <3>1, <3>2
  <2>3. \A l \in 0..n + 1 : Container(y, l) = Container(d, l)
    <3>1. \A l \in 0..n + 1 : l \in 0..b
      BY <1>1, <1>2
    <3>2. \A l : Container(x, l) = Container(d, l)
      BY SameStack
    <3> QED BY <2>1, <3>1, <3>2
  <2>4. within' = k
    <3> HIDE DEF k
    <3> QED BY <1>2, <1>6 DEF GoesOn, k
  <2>5. CursorBar' = Frames(y, n, OnFrame(y, n + 1))
    BY <1>3, <1>6, <2>2
  <2>6. Len(y.stack) - within' = n /\ n = Below
    BY <2>2, <2>4
  <2> HIDE DEF y, k, b, n
  <2> QED BY <1>1, <1>2, <1>3, <1>6, <2>3, <2>5, <2>6, TurnGoesOn
<1>7. CASE p.err # NoError
  <2>1. \/ doc.toks[m].type = "invalid"
        \/ EmptyBytes(m) /\ (MemberDepth = 0 \/ doc.start[m + 1] = doc.len)
    <3> DEFINE D == MemberDepth   suppressTag == FALSE
    <3>1. AddGenericTLVItem(x, D, suppressTag).err # NoError
      BY <1>7
    <3> HIDE DEF D, suppressTag
    <3>2. IsDocument(doc) /\ x.reader.elem # NoElement
      BY <1>1, <1>4
    <3> HIDE DEF y, k, b, n
    <3>3. \/ x.reader.elem = NoElement
          \/ doc.toks[m].type = "invalid"
          \/ EmptyBytes(m) /\ (D = 0 \/ doc.start[m + 1] = doc.len)
      BY <1>4, <3>1, <3>2, GenericFails
    <3> QED BY <3>2, <3>3 DEF D
  <2>2. m \in Members(doc, Innermost(x)) /\ m \in 1..Len(doc.toks)
    BY <1>1, <1>4, OnMember
  <2>3. CASE doc.toks[m].type = "invalid"
    <3>1. ~ WellFormed(doc)
      BY <2>2, <2>3 DEF WellFormed
    <3> QED BY <1>1, <1>3, <1>7, <3>1, TurnFails
  <2>4. CASE EmptyBytes(m)
    <3>1. MemberDepth = 0
      BY <1>1, <1>4, <2>1, <2>4, BytesInContainer DEF EmptyBytes
    <3>2. task = "List" /\ within = 1
      BY <1>1, <3>1 DEF MemberDepth
    <3>3. Innermost(x) = Container(d, Below + 1)
      <4>1. Innermost(x) = Container(d, b)
        BY SameStack DEF Innermost
      <4>2. b = Below + 1
        BY <1>1, <3>2
      <4> HIDE DEF b
      <4> QED BY <4>1, <4>2
    <3>4. \E i \in Members(doc, Container(d, Below + 1)) : EmptyBytes(i)
      BY <2>2, <2>4, <3>3
    <3> HIDE DEF y, k, b, n
    <3> QED BY <1>1, <1>3, <1>7, <3>2, <3>4, TurnFails
  <2> QED BY <2>1, <2>3, <2>4
<1> QED BY <1>6, <1>7

\* The innermost container has ended and is left.
LEMMA LeaveStep ==
  ASSUME Inv, Inv', ListInv, ShowMember, NEW x, NEW m, AtEnd(x, m), x.stack = d.stack,
         NEW p, p = LeaveContainer(x, MemberDepth - 1), GoesOn(task, p, within - 1)
  PROVE  [Cursor!CursorNext]_<<doc, call, CursorBar>> /\ ListInv'
<1> DEFINE k == within - 1
           n == Below
           b == Len(d.stack)
           y == p.val
           D == MemberDepth - 1
<1>1. /\ IsDocument(doc) /\ doc' = doc /\ task \in {"Generic", "List"} /\ task # Idle /\ err = NoError
      /\ within \in 1..b /\ b \in Nat /\ d.stack # << >> /\ n = b - within
      /\ Typed(d) /\ StackOK(d)
  BY TurnStarts DEF Idle
<1>2. n \in 0..b - 1 /\ n \in Nat /\ k \in Nat /\ D \in Int
  BY <1>1 DEF MemberDepth
<1>3. /\ d' = y
      /\ p.err = NoError /\ k > 0 =>
           LET l == Len(y.stack) - k
           IN  /\ task' = task /\ within' = k /\ call' = call
               /\ CursorBar' = Frames(y, l, OnFrame(y, l + 1))
      /\ ~ (p.err = NoError /\ k > 0) => task' = Idle /\ call'.op = task
      /\ p.err = NoError /\ ~ (k > 0) => CursorBar' = Frames(y, Len(y.stack), PlaceFrame(y, Place(y)))
      /\ p.err # NoError => CursorBar' = << >>
  <2>1. GoesOn(task, p, k)
    OBVIOUS
  <2> HIDE DEF k
  <2> QED BY <1>1, <1>2, <2>1, GoesOnCursor
<1>4. /\ Len(y.stack) = b - 1
      /\ p.err = NoError =>
           /\ Running(y) /\ OnOrBetween(y, m) /\ y.reader.elem = NoElement
           /\ m = doc.last[Innermost(x)]
           /\ \A l \in 0..b - 1 : Container(y, l) = Container(x, l)
  <2>1. p = LeaveContainer(x, D) /\ x.stack # << >> /\ Len(x.stack) = b
    BY <1>1
  <2> HIDE DEF D, y
  <2>2. /\ Len(p.val.stack) = Len(x.stack) - 1
        /\ p.err = NoError =>
             /\ Running(p.val) /\ OnOrBetween(p.val, m) /\ p.val.reader.elem = NoElement
             /\ m = doc.last[Innermost(x)]
             /\ \A l \in 0..Len(x.stack) - 1 : Container(p.val, l) = Container(x, l)
    BY <1>1, <1>2, <2>1, LeaveSteps
  <2> QED BY <2>1, <2>2 DEF y
<1>5. \A l : Container(x, l) = Container(d, l)
  BY SameStack
<1> HIDE DEF D
<1>6. CASE p.err = NoError /\ k > 0
  <2>1. Len(y.stack) - k = n
    <3> HIDE DEF n, b, y
    <3> QED BY <1>1, <1>4
  <2>2. \A l \in 0..n + 1 : Container(y, l) = Container(d, l)
    <3>1. \A l \in 0..n + 1 : l \in 0..b - 1
      <4> HIDE DEF n, b
      <4> QED BY <1>1, <1>2, <1>6
    <3> QED BY <1>4, <1>5, <1>6, <3>1
  <2>3. /\ task' = task /\ call' = call /\ Len(y.stack) - within' = n
        /\ CursorBar' = Frames(y, n, OnFrame(y, n + 1))
    BY <1>3, <1>6, <2>1
  <2>4. n = Below
    OBVIOUS
  <2> HIDE DEF y, k, b, n
  <2> QED BY <1>1, <1>2, <1>3, <2>2, <2>3, <2>4, TurnGoesOn
<1>7. CASE p.err = NoError /\ ~ (k > 0)
  <2>1. n + 1 = b /\ Len(y.stack) = n
    <3> HIDE DEF n, b, y
    <3> QED BY <1>1, <1>4, <1>7
  <2>2. Innermost(x) = Container(d, n + 1)
    <3> HIDE DEF n
    <3> QED BY <1>5, <2>1 DEF Innermost
  <2> DEFINE i == Container(d, n + 1)
  <2>3. OnOrBetween(y, doc.last[i]) /\ Running(y) /\ y.reader.elem = NoElement
    BY <1>4, <1>7, <2>2
  <2>4. \A l \in 0..n : Container(y, l) = Container(d, l)
    <3>1. \A l \in 0..n : l \in 0..b - 1
      <4> HIDE DEF n, b
      <4> QED BY <1>1, <1>2, <2>1
    <3> QED BY <1>4, <1>5, <1>7, <3>1
  <2>5. CursorBar' = Frames(y, n, PlaceFrame(y, Place(y))) /\ task' = Idle /\ call'.op = task
    BY <1>3, <1>7, <2>1
  <2>6. n = Below /\ n + 1 = Len(d.stack) /\ i = Container(d, n + 1)
    BY <2>1
  <2> HIDE DEF y, k, b, n, i
  <2> QED BY <1>1, <1>2, <1>3, <2>1, <2>3, <2>4, <2>5, <2>6, TurnIsLast
<1>8. CASE p.err # NoError
  <2>1. ~ WellFormed(doc)
    <3>1. Typed(x) /\ StackOK(x) /\ Inside(x, m) /\ x.stack # << >>
      BY <1>1 DEF AtEnd, Ended
    <3>2. p = LeaveContainer(x, D)
      BY DEF D
    <3> QED BY <1>1, <1>8, <3>1, <3>2, LeaveSucceeds
  <2>2. task' = Idle /\ call'.op = task /\ CursorBar' = << >>
    BY <1>3, <1>8
  <2> HIDE DEF y, k, b, n
  <2> QED BY <1>1, <2>1, <2>2, TurnFails
<1> QED BY <1>6, <1>7, <1>8

\* A turn of the loop over members is no step of the cursor, unless the call is over with it.
LEMMA ShowMemberStep ==
  ASSUME Inv, Inv', ListInv, ShowMember
  PROVE  [Cursor!CursorNext]_<<doc, call, CursorBar>> /\ ListInv'
<1> DEFINE o == DissectorNext(d)
           p == IF o.err = EndOfTLV THEN LeaveContainer(o.val, MemberDepth - 1)
                ELSE IF o.err # NoError THEN Showing(o, << >>)
                ELSE AddGenericTLVItem(o.val, MemberDepth, FALSE)
           k == IF o.err = EndOfTLV THEN within - 1
                ELSE IF IsOnContainer(o.val.reader) THEN within + 1 ELSE within
<1>1. /\ IsDocument(doc) /\ Running(d) /\ doc' = doc
      /\ task \in {"Generic", "List"} /\ err = NoError /\ d.stack # << >>
      /\ within \in 1..Len(d.stack) /\ Len(d.stack) \in Nat
  BY TurnStarts
<1>2. GoesOn(task, p, k)
  BY DEF ShowMember
<1>3. PICK j : OnOrBetween(d, j)
  BY <1>1 DEF Running
<1> DEFINE m == TokenBehind(d, j)
<1>4. Advances(d, j, o)
  BY <1>1, <1>3, DissectorNextSteps
<1>5. WellFormed(doc) => o.err \in {NoError, EndOfTLV}
  BY <1>1, <1>3, DissectorNextFails
<1> HIDE DEF o
<1>6. /\ o.val.stack = d.stack
      /\ o.err = NoError => On(o.val, m)
      /\ o.err = EndOfTLV => AtEnd(o.val, m)
  BY <1>1, <1>4 DEF Advances
<1> HIDE DEF m
<1>7. CASE o.err = EndOfTLV
  <2>1. p = LeaveContainer(o.val, MemberDepth - 1) /\ k = within - 1
    BY <1>7
  <2>2. GoesOn(task, p, within - 1)
    BY <1>2, <2>1
  <2> HIDE DEF p, k
  <2> QED BY <1>6, <1>7, <2>1, <2>2, LeaveStep
<1>8. CASE o.err = NoError
  <2>1. /\ p = AddGenericTLVItem(o.val, MemberDepth, FALSE)
        /\ k = IF IsOnContainer(o.val.reader) THEN within + 1 ELSE within
    BY <1>8 DEF NoError, EndOfTLV
  <2>2. GoesOn(task, p, IF IsOnContainer(o.val.reader) THEN within + 1 ELSE within)
    BY <1>2, <2>1
  <2> HIDE DEF p, k
  <2> QED BY <1>6, <1>8, <2>1, <2>2, MemberStep
<1>9. CASE o.err # NoError /\ o.err # EndOfTLV
  <2>1. p.err = o.err
    BY <1>9 DEF Showing
  <2>2. ~ WellFormed(doc) /\ k \in Nat
    BY <1>1, <1>5, <1>9
  <2> HIDE DEF p, k
  <2>3. task' = Idle /\ call'.op = task /\ CursorBar' = << >>
    BY <1>1, <1>2, <1>9, <2>1, <2>2, GoesOnCursor
  <2> QED BY <1>1, <2>2, <2>3, TurnFails
<1> QED BY <1>7, <1>8, <1>9

\* A call that is over at once shows no members.
LEMMA CalledListed ==
  ASSUME NEW c, NEW o, Called(c, o)
  PROVE  ListInv'
BY NotListed DEF Called, MayCall

\* AddGenericTLVItem of an element.
LEMMA GenericStep ==
  ASSUME Inv, Inv', NEW suppressTag \in BOOLEAN, NEW o, o = AddGenericTLVItem(d, 0, suppressTag),
         Shows("Generic", o)
  PROVE  [Cursor!CursorNext]_<<doc, call, CursorBar>> /\ ListInv'
<1> DEFINE depth == 0   op == "Generic"
<1>1. MayCall("Generic")
  BY DEF Shows
<1>2. PICK j : IsDocument(doc) /\ Running(d) /\ OnOrBetween(d, j)
  BY <1>1, CallFinds
<1>3. o = AddGenericTLVItem(d, depth, suppressTag) /\ Shows(op, o) /\ op \in {"Generic", "List"}
  OBVIOUS
<1>4. ListInv'
  <2>1. GoesOn("Generic", o, IF IsOnContainer(d.reader) THEN 1 ELSE 0)
    BY DEF Shows
  <2>2. task' # "List"
    BY <2>1 DEF GoesOn, Idle
  <2> QED BY <2>2 DEF ListInv
<1>5. o.err # NoError =>
        \/ op = "Generic" /\ (d.reader.elem = NoElement \/ doc.toks[j].type = "invalid" \/ EmptyBytes(j))
        \/ op = "List" /\ d.reader.elem.type \notin {"array", "path"}
  <2> HIDE DEF depth
  <2>1. o.err # NoError => d.reader.elem = NoElement \/ doc.toks[j].type = "invalid" \/ EmptyBytes(j)
    BY <1>2, <1>3, GenericFails
  <2> QED BY <2>1
<1> HIDE DEF depth
<1>6. Opens(d, j, o)
  BY <1>2, <1>3, GenericSteps
<1>7. o.err = NoError /\ ~ IsOnContainer(d.reader) => op = "Generic" /\ o.val.reader.elem # NoElement
  BY <1>2, <1>3, GenericStays
<1> HIDE DEF op
<1>8. [Cursor!CursorNext]_<<doc, call, CursorBar>>
  BY <1>2, <1>3, <1>5, <1>6, <1>7, ShowsStep
<1> QED BY <1>4, <1>8

\* AddListItem of a list.
LEMMA ListStep ==
  ASSUME Inv, Inv', NEW o, o = AddListItem(d), Shows("List", o)
  PROVE  [Cursor!CursorNext]_<<doc, call, CursorBar>> /\ ListInv'
<1> DEFINE op == "List"
           b == Len(d.stack)
<1>1. MayCall("List") /\ GoesOn("List", o, IF IsOnContainer(d.reader) THEN 1 ELSE 0)
  BY DEF Shows
<1>2. PICK j : IsDocument(doc) /\ Running(d) /\ OnOrBetween(d, j) /\ d.stack \in Seq(Entry)
  BY <1>1, CallFinds
<1>3. Opens(d, j, o) /\ (o.err = NoError => IsOnContainer(d.reader))
  BY <1>2, ListSteps
<1>4. o.err # NoError => d.reader.elem.type \notin {"array", "path"}
  BY <1>2, ListFails
<1>5. o.err = NoError => d.reader.elem.type \in {"array", "path"}
  BY DEF AddListItem, Showing, Outcome, NoError
<1>6. ListInv'
  <2>1. CASE o.err = NoError
    <3>1. task' = "List" /\ within' = 1 /\ doc' = doc /\ d' = o.val
      <4>1. IsOnContainer(d.reader)
        BY <1>3, <2>1
      <4> QED BY <1>1, <2>1, <4>1 DEF GoesOn
    <3>2. Len(o.val.stack) = b + 1 /\ Container(o.val, b + 1) = j /\ d.reader.elem # NoElement
      BY <1>3, <2>1 DEF Opens
    <3>3. Below' + 1 = b + 1
      <4>1. Below' = Len(o.val.stack) - 1 /\ b \in Nat
        BY <1>2, <3>1 DEF Below
      <4> HIDE DEF b
      <4> QED BY <3>2, <4>1
    <3>4. Container(d, Below + 1)' = j
      <4>1. Container(d, Below + 1)' = Container(o.val, Below' + 1)
        BY <3>1 DEF Container, TokenAt
      <4> QED BY <3>2, <3>3, <4>1
    <3>5. doc.toks[j].type \in {"array", "path"}
      BY <1>2, <1>5, <2>1, <3>2, OnElementIs
    <3> QED BY <3>1, <3>4, <3>5 DEF ListInv
  <2>2. CASE o.err # NoError
    <3>1. task' = Idle
      BY <1>1, <2>2 DEF GoesOn
    <3> QED BY <3>1, NotListed
  <2> QED BY <2>1, <2>2
<1>7. Shows(op, o) /\ op \in {"Generic", "List"}
  OBVIOUS
<1>8. /\ o.err # NoError =>
           \/ op = "Generic" /\ (d.reader.elem = NoElement \/ doc.toks[j].type = "invalid" \/ EmptyBytes(j))
           \/ op = "List" /\ d.reader.elem.type \notin {"array", "path"}
      /\ o.err = NoError /\ ~ IsOnContainer(d.reader) => op = "Generic" /\ o.val.reader.elem # NoElement
  BY <1>3, <1>4
<1> HIDE DEF op
<1>9. [Cursor!CursorNext]_<<doc, call, CursorBar>>
  BY <1>2, <1>3, <1>7, <1>8, ShowsStep
<1> QED BY <1>6, <1>9

\* Nothing changes.
LEMMA SameStep ==
  ASSUME ListInv, UNCHANGED vars
  PROVE  [Cursor!CursorNext]_<<doc, call, CursorBar>> /\ ListInv'
<1>1. /\ doc' = doc /\ call' = call /\ d' = d /\ err' = err /\ task' = task /\ within' = within
  BY DEF vars
<1>2. CursorBar' = CursorBar
  BY <1>1 DEF CursorBar, AtEndOfContainer, CursorFrames, Entered, Visited, CursorState, TokenAt,
              Members, LastToken, Depth
<1>3. ListInv'
  BY <1>1 DEF ListInv, Below, Container, TokenAt
<1> QED BY <1>1, <1>2, <1>3

\* A dissector starts before the first element.
LEMMA CursorStarts == Init => Cursor!CInit /\ ListInv
<1> SUFFICES ASSUME Init PROVE Cursor!CInit /\ ListInv
  OBVIOUS
<1>1. /\ IsDocument(doc) /\ call = [op |-> "Init"] /\ d = InitDissector /\ err = NoError
      /\ task = Idle /\ within = 0
  BY DocumentsAssumption DEF Init
<1>2. d.stack = << >> /\ d.reader.elem = NoElement /\ d.reader.at = 0 /\ Len(d.stack) - within = 0
  BY <1>1 DEF InitDissector, InitReader
<1>3. Visited(0) = 0
  <2>1. \A i \in Members(doc, 0) : ~ (doc.start[i] < 0)
    <3>1. \A i \in Members(doc, 0) : i \in 1..Len(doc.toks)
      BY DEF Members
    <3>2. \A i \in 1..Len(doc.toks) : doc.start[i] \in Nat
      <4>1. doc.start \in [1..Len(doc.toks) + 1 -> Nat] /\ Len(doc.toks) \in Nat
        BY <1>1, DocumentTypes
      <4> QED BY <4>1
    <3> QED BY <3>1, <3>2
  <2> QED BY <1>2, <2>1 DEF Visited
<1>4. Entered(0) = 0
  BY DEF Entered
<1>5. CursorState = "between"
  BY <1>1, <1>2 DEF CursorState, AtEndOfContainer, NoError, EndOfTLV
<1>6. CursorFrames = <<[container |-> 0, at |-> 0, state |-> "between"]>>
  <2>1. CursorFrames = [k \in 1..1 |-> [container |-> 0, at |-> 0, state |-> "between"]]
    BY <1>1, <1>2, <1>3, <1>4, <1>5 DEF CursorFrames
  <2> QED BY <2>1
<1>7. Cursor!CInit
  BY <1>1, <1>6 DEF Cursor!CInit, Cursor!Frame, Cursor!Between
<1>8. ListInv
  BY <1>1 DEF ListInv, Idle
<1> QED BY <1>7, <1>8

\* Every call is one step of the cursor, however many turns it takes.
LEMMA CursorSteps ==
  ASSUME Inv, Inv', ListInv, [Next]_vars
  PROVE  [Cursor!CursorNext]_<<doc, call, CursorBar>> /\ ListInv'
<1>1. CASE Called([op |-> "Next"], DissectorNext(d))
  BY <1>1, NextStep, CalledListed
<1>2. CASE Called([op |-> "Enter"], DissectorEnter(d))
  BY <1>2, EnterStep, CalledListed
<1>3. CASE d.stack # << >> /\ Called([op |-> "Exit"], DissectorExit(d))
  BY <1>3, ExitStep, CalledListed
<1>4. ASSUME NEW e \in Expected,
             Called([op |-> "NextOf", type |-> e[1], tag |-> e[2]], DissectorNextOf(d, e[1], e[2]))
      PROVE  Cursor!CursorNext /\ ListInv'
  <2>1. Cursor!CursorNext
    BY <1>4, NextOfStep
  <2>2. ListInv'
    BY <1>4, CalledListed
  <2> QED BY <2>1, <2>2
<1>5. ASSUME NEW fits \in BOOLEAN,
             LET o == AddTypedItem(d, fits)
             IN  Called([op |-> "AddTyped", fits |-> fits], o) /\ shown' = o.shown
      PROVE  Cursor!CursorNext /\ ListInv'
  <2>1. Cursor!CursorNext
    BY <1>5, AddTypedStep
  <2>2. ListInv'
    BY <1>5, CalledListed
  <2> QED BY <2>1, <2>2
<1>6. CASE LET o == AddSubTreeItem(d) IN Called([op |-> "AddSubTree"], o) /\ shown' = o.shown
  BY <1>6, AddSubTreeStep, CalledListed
<1>7. ASSUME NEW suppressTag \in BOOLEAN, Shows("Generic", AddGenericTLVItem(d, 0, suppressTag))
      PROVE  [Cursor!CursorNext]_<<doc, call, CursorBar>> /\ ListInv'
  BY <1>7, GenericStep
<1>8. CASE Shows("List", AddListItem(d))
  BY <1>8, ListStep
<1>9. CASE ShowMember
  BY <1>9, ShowMemberStep
<1>10. CASE UNCHANGED vars
  BY <1>10, SameStep
<1> QED BY <1>1, <1>2, <1>3, <1>4, <1>5, <1>6, <1>7, <1>8, <1>9, <1>10 DEF Next

(***************************************************************************)
(* Under calls in any order TLVDissector is the cursor of TLVCursor over   *)
(* the tree of elements: it moves from member to member, is put behind     *)
(* what it showed or left, and fails only where TLVCursor may.             *)
(***************************************************************************)
THEOREM Refinement == Spec => ImplementsCursor
<1>1. Init => Cursor!CInit /\ ListInv
  BY CursorStarts
<1>2. Inv /\ Inv' /\ ListInv /\ [Next]_vars =>
        [Cursor!CursorNext]_<<doc, call, IF err = NoError \/ AtEndOfContainer THEN CursorFrames ELSE << >> >>
        /\ ListInv'
  BY CursorSteps DEF CursorBar
<1>3. Spec => []Inv
  BY Invariance
<1> QED BY <1>1, <1>2, <1>3, PTL DEF Spec, ImplementsCursor, Cursor!CursorSpec
=============================================================================
