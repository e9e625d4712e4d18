---------------------------- MODULE MCTLVDissector ----------------------------
(***************************************************************************)
(* Encodings that make the reader skip, nest and lose count, whole and cut *)
(* off at every byte.                                                      *)
(***************************************************************************)
EXTENDS TLVDissector

T(type, tag, head, len) == [type |-> type, tag |-> tag, head |-> head, len |-> len]

S   == T("structure", "anonymous", 1, 0)
CS  == T("structure", "context", 2, 0)
CA  == T("array", "context", 2, 0)
CP  == T("path", "context", 2, 0)
A   == T("array", "anonymous", 1, 0)
N   == T("number", "anonymous", 2, 0)
CN  == T("number", "context", 3, 0)
CU  == T("utf8", "context", 3, 2)
U   == T("utf8", "anonymous", 2, 1)
CB  == T("bytes", "context", 3, 0)
CI  == T("number", "implicit", 3, 0)
B   == T("bytes", "anonymous", 2, 0)
E   == T("end", "anonymous", 1, 0)
CE  == T("end", "context", 2, 0)

Encodings ==
  {<<S, CU, CA, N, U, E, CN, E>>,         \* a structure with a list and an element behind it
   <<S, CS, CA, S, CN, E, E, CU, E, CB, E>>, \* containers at three levels
   <<A, A, N, E, S, CP, CN, E, E, N, E, N>>, \* a list of containers, and an element behind it
   <<S, E, CN>>, <<S, N, E>>, <<A, CN, E>>, <<S, CI, E>>, <<S, CN, CE>>, <<S, CA, CN, E, E>>, <<E>>}

\* And every sequence of at most four of these, which are mostly not well formed.
Alphabet == {S, A, CA, N, CN, U, B, E}
ShortEncodings == UNION {[1..n -> Alphabet] : n \in 1..4}

TheDocuments ==
  UNION {{Document(t, n) : n \in 0..ByteLength(t)} : t \in Encodings}
    \cup {Document(t, ByteLength(t)) : t \in ShortEncodings}

TheExpected == {<<"structure", "anonymous">>, <<"array", "context">>}
=============================================================================
