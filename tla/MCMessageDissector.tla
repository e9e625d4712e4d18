------------------------- MODULE MCMessageDissector -------------------------
(***************************************************************************)
(* One or two encodings of each kind of message, and each of them with one *)
(* element dropped, retagged, replaced, doubled, or in a block of its own. *)
(***************************************************************************)
EXTENDS ConformingMessages

\* The field with tag 0 has a name, no other.
KnownFieldsDef == {0}

Anonymous(type, toks) == <<Token(type, "anonymous", 0)>> \o toks \o <<EndToken>>
Within(num, type, toks) == <<Token(type, "context", num)>> \o toks \o <<EndToken>>
Value(num, type) == <<Token(type, "context", num)>>
Struct(num, toks) == Within(num, "structure", toks)
List(num, toks)   == Within(num, "array", toks)
PathOf(num, toks) == Within(num, "path", toks)

Revision == Value(255, "uint")
Uints(nums) == [k \in DOMAIN nums |-> Token("uint", "context", nums[k])]

Status == Struct(1, Uints(<<0, 1>>))
Fields == Struct(1, Value(0, "utf8") \o Value(1, "bytes") \o Struct(2, Value(0, "bool")))
CommandData == PathOf(0, Uints(<<0, 1, 2>>)) \o Fields
AttributePath == Uints(<<2, 3, 4>>)
AttributeData(value) == Value(0, "uint") \o PathOf(1, AttributePath) \o value

Filters(num) == List(num, Anonymous("structure", Uints(<<0, 1>>)))
Versions(num) == List(num, Anonymous("structure", PathOf(0, Uints(<<1, 2>>)) \o Value(1, "uint")))
Event == Struct(1, PathOf(0, Uints(<<1, 2, 3>>)) \o Value(1, "uint") \o Struct(7, Value(0, "uint")))

\* A block in a block has no context tag.
InBlock(toks) == <<Token("structure", "profile", 0)>> \o toks \o <<EndToken>>

\* A certificate's basic constraints and uses of its key.
Extensions ==
  PathOf(10, Struct(1, Value(1, "bool")) \o Uints(<<2>>)
             \o List(3, Anonymous("structure", << >>) \o <<Token("uint", "anonymous", 0)>>) \o Value(4, "bytes"))

InProfile(toks) == [toks EXCEPT ![1].tag = "profile"]

Body(kind, toks) == [kind |-> kind, toks |-> Anonymous("structure", toks)]

Bases ==
  {Body("StatusResponse", Value(0, "uint") \o Revision),
   Body("ReadRequest", List(0, Anonymous("path", AttributePath)) \o Value(3, "bool") \o Versions(4)),
   Body("ReadRequest", List(1, Anonymous("path", Uints(<<1, 3>>))) \o Filters(2) \o Revision),
   Body("ReportData", Value(0, "uint")
     \o List(1, Anonymous("structure", Struct(1, AttributeData(Struct(2, Uints(<<0, 1>>)))))) \o Revision),
   Body("ReportData",
     List(1, Anonymous("structure", Struct(1, AttributeData(Value(2, "uint"))))
             \o Anonymous("structure", Struct(0, PathOf(0, AttributePath) \o Status)))),
   Body("ReportData", List(2, Anonymous("structure", Event)) \o Revision),
   Body("SubscribeRequest", Value(0, "bool") \o Uints(<<1, 2>>)
     \o List(3, Anonymous("path", Uints(<<3>>))) \o Value(7, "bool")),
   Body("SubscribeRequest", List(4, Anonymous("path", Uints(<<2, 3>>))) \o Filters(5) \o Versions(8)),
   Body("SubscribeResponse", Uints(<<0, 2>>) \o Revision),
   Body("WriteRequest", Value(0, "bool") \o List(2, Anonymous("structure", AttributeData(Value(2, "sint")))) \o Revision),
   Body("WriteResponse", List(0, Anonymous("structure", PathOf(0, AttributePath) \o Status)) \o Revision),
   Body("WriteResponse",
     List(0, Anonymous("structure", InBlock(PathOf(0, AttributePath) \o Status) \o Value(5, "uint"))) \o Revision),
   Body("WriteRequest", List(2, Anonymous("structure", InBlock(AttributeData(Value(2, "uint")))))),
   Body("ReportData",
     List(1, Anonymous("structure", Struct(0, InBlock(PathOf(0, AttributePath) \o Status) \o PathOf(0, AttributePath))))),
   Body("CommandRequest", Value(0, "bool") \o Value(1, "bool") \o List(2, Anonymous("structure", CommandData)) \o Revision),
   Body("CommandResponse", Value(0, "bool") \o List(1, Anonymous("structure", Struct(0, CommandData))) \o Revision),
   Body("CommandResponse",
     List(1, Anonymous("structure", Struct(1, PathOf(0, Uints(<<0, 1, 2>>)) \o Status \o Value(2, "uint"))))),
   Body("TimedRequest", Value(0, "uint") \o Revision),
   Body("PBKDFParamRequest", Value(1, "bytes") \o Uints(<<2, 3>>) \o Value(4, "bool") \o Struct(5, Uints(<<1, 2>>))),
   Body("PBKDFParamResponse", Value(1, "bytes") \o Value(2, "bytes") \o Value(3, "uint")
     \o Struct(4, Value(1, "uint") \o Value(2, "bytes")) \o Struct(5, Uints(<<1>>))),
   Body("PasePake1", Value(1, "bytes")),
   Body("PasePake2", Value(1, "bytes") \o Value(2, "bytes")),
   Body("PasePake3", Value(1, "bytes")),
   Body("CaseSigma1", Value(1, "bytes") \o Value(2, "uint") \o Value(3, "bytes") \o Struct(5, Uints(<<1>>)) \o Value(6, "bytes")),
   Body("CaseSigma2", Value(1, "bytes") \o Value(2, "uint") \o Value(4, "bytes")),
   Body("CaseSigma3", Value(1, "bytes")),
   Body("CaseSigma2Resume", Value(1, "bytes") \o Value(2, "bytes") \o Value(3, "uint") \o Struct(4, Uints(<<2>>))),
   Body("IdentificationDeclaration", Uints(<<1>>) \o Value(3, "utf8") \o Value(7, "bytes")
     \o List(9, Anonymous("structure", Uints(<<11, 12>>))) \o Value(13, "bool")),
   Body("MatterCertificate", Value(1, "bytes") \o Uints(<<2>>) \o PathOf(3, Uints(<<20>>)) \o Uints(<<4, 7>>)
     \o Value(9, "bytes") \o Value(11, "bytes")),
   Body("MatterCertificate", Extensions \o Struct(11, Value(1, "bytes") \o Value(2, "bytes"))),
   [kind |-> "MatterCertificate",
    toks |-> InProfile(Within(1, "structure", InProfile(Value(1, "bytes")) \o InProfile(Extensions)))],
   Body("AttestationElements", Value(1, "bytes") \o Value(3, "uint") \o InProfile(Value(1, "bytes"))),
   Body("NOCSRElements", Value(1, "bytes") \o Value(2, "bytes"))}

Retagged(t) ==
  {[t EXCEPT !.tag = "profile"]} \cup {[t EXCEPT !.tag = "context", !.num = n] : n \in {0, 1, 2, 9}}

Replacements ==
  {<<t>> : t \in {Token(type, "context", 0) : type \in {"uint", "sint", "bool", "bytes", "null"}}}
  \cup {Within(0, type, << >>) : type \in {"structure", "path"}}

WithNum(toks, t) == <<[Head(toks) EXCEPT !.tag = t.tag, !.num = t.num]>> \o Tail(toks)

\* What may stand in the place of the element that is toks[i..j].
InPlace(toks, i, j) ==
  LET element == SubSeq(toks, i, j)   t == toks[i]
  IN  {<< >>, element \o element, InBlock(element), InBlock(element) \o element}
      \cup {<<u>> \o Tail(element) : u \in Retagged(t)}
      \cup {WithNum(r, t) : r \in Replacements}

Variants(base) ==
  LET toks == base.toks   N == Len(toks)
      last == Message(base.kind, toks).last
  IN  {toks} \cup UNION {
        {SubSeq(toks, 1, i - 1) \o e \o SubSeq(toks, last[i] + 1, N) : e \in InPlace(toks, i, last[i])} :
        i \in {k \in 1..N : toks[k].type # "end"}}

Encodings == UNION {{Message(base.kind, toks) : toks \in Variants(base) \ {<< >>}} : base \in Bases}

MessagesDef == {m : m \in {n \in Encodings : IsMessage(n)}}
=============================================================================
