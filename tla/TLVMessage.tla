----------------------------- MODULE TLVMessage -----------------------------
(***************************************************************************)
(* The payload of a message: a TLV encoding that is whole and well formed, *)
(* as a sequence of tokens.  A token is the head of an element, with its   *)
(* tag, or the marker that ends a container.  Encodings that are cut off   *)
(* or malformed are the subject of TLVReader and TLVDissector.             *)
(***************************************************************************)
EXTENDS TLVDocument

Scalars == {"uint", "sint", "bool", "float", "null", "utf8", "bytes"}
TokenTypes == Containers \cup Scalars \cup {"end"}

\* num is TagNumFromTag; a profile tag is one of the profile that is implied.
Token(type, tag, num) == [type |-> type, tag |-> tag, num |-> num, head |-> 1, len |-> 0]

EndToken == Token("end", "anonymous", 0)

Greatest(S) == CHOOSE x \in S : \A y \in S : y <= x

\* last[i] is the last token of the element that starts with token i, and
\* parent[i] the container that token i is in, 0 for the outermost element.
\* Appending the empty sequence makes TLC evaluate them once.
Message(kind, toks) ==
  LET N == Len(toks)
      opened(i) == Cardinality({c \in 1..i : toks[c].type \in Containers})
      closed(i) == Cardinality({c \in 1..i : toks[c].type = "end"})
      depth  == [i \in 1..N |-> opened(i) - closed(i)] \o << >>
      last   == [i \in 1..N |-> IF toks[i].type \notin Containers THEN i
                                ELSE Least({j \in i + 1..N : depth[j] < depth[i]})] \o << >>
      around(i) == {0} \cup {c \in 1..i - 1 : toks[c].type \in Containers /\ i <= last[c]}
  IN  [kind |-> kind, toks |-> toks, last |-> last,
       parent |-> [i \in 1..N |-> Greatest(around(i))] \o << >>]

\* What every message is known to be: elements that nest, with tags that the
\* reader accepts where they are.
IsMessage(m) ==
  LET N == Len(m.toks)
  IN  /\ m.toks \in Seq([type : TokenTypes, tag : Tags, num : Nat, head : {1}, len : {0}])
      /\ N > 0 /\ m.last[1] = N
      /\ m.last \in [1..N -> 1..N] /\ m.parent \in [1..N -> 0..N]
      /\ \A i \in 1..N :
           /\ m.last[i] >= i
           /\ m.toks[i].type \in Containers => m.toks[m.last[i]].type = "end" /\ m.last[i] > i
           /\ m.toks[i].type \notin Containers => m.last[i] = i
           /\ m.parent[i] < i /\ (m.parent[i] = 0 <=> i = 1)
           /\ i > 1 => m.toks[m.parent[i]].type \in Containers /\ i <= m.last[m.parent[i]]
           /\ i > 1 /\ m.toks[i].type = "end" => m.last[m.parent[i]] = i
           /\ i > 1 /\ m.toks[i].type # "end" => m.last[i] < m.last[m.parent[i]]
           /\ \A j \in i + 1..m.last[i] : m.parent[j] >= i /\ m.last[j] <= m.last[i]
           /\ m.toks[i].type # "end" =>
                TagFits(IF i = 1 THEN "none" ELSE m.toks[m.parent[i]].type, m.toks[i].tag)

Tok(m, i) == m.toks[i]
TypeAt(m, i) == IF i = 0 THEN "none" ELSE m.toks[i].type   \* GetType; 0 is no element
IsContainerAt(m, i) == TypeAt(m, i) \in Containers
MembersOf(m, i) == {j \in i + 1..m.last[i] : m.parent[j] = i /\ m.toks[j].type # "end"}

\* Mutation: the token after the element is skipped too.
AfterNext(m, i) == m.last[i] + 2

\* What follows the element that starts with token i.
After(m, i) == m.last[i] + 1
=============================================================================
