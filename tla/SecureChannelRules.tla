-------------------------- MODULE SecureChannelRules --------------------------
(***************************************************************************)
(* The dissectors of the messages of the secure channel that carry TLV,    *)
(* each as what it does with an element t of its container.                *)
(***************************************************************************)
EXTENDS DissectorRules

\* AddEncryptedField: a subtree of a ciphertext and a MIC, of as much as there is.
Encrypted(t) == IF t.type = "bytes" THEN Text ELSE Reject

SessionParameters(t) == Contextual(t, IF t.num \in 1..7 THEN Typed("uint") ELSE Generic)

PBKDFParameterSet(t) ==
  Contextual(t, CASE t.num = 1 -> Typed("uint") [] t.num = 2 -> Typed("bytes") [] OTHER -> Generic)

\* Mutation: the optional parameters of the session are not known.
PBKDFParamRequestWithoutSession(t) ==
  Contextual(t, CASE t.num = 1        -> Strict(t, "bytes")
                  [] t.num \in {2, 3} -> Strict(t, "uint")
                  [] t.num = 4        -> Strict(t, "bool")
                  [] OTHER            -> Reject)

PBKDFParamRequest(t) ==
  Contextual(t, CASE t.num = 1        -> Strict(t, "bytes")
                  [] t.num \in {2, 3} -> Strict(t, "uint")
                  [] t.num = 4        -> Strict(t, "bool")
                  [] t.num = 5        -> Enter("SessionParameters")
                  [] OTHER            -> Reject)

PBKDFParamResponse(t) ==
  Contextual(t, CASE t.num \in {1, 2} -> Strict(t, "bytes")
                  [] t.num = 3        -> Strict(t, "uint")
                  [] t.num = 4        -> Enter("PBKDFParameterSet")
                  [] t.num = 5        -> Enter("SessionParameters")
                  [] OTHER            -> Reject)

PasePake1(t) == Contextual(t, IF t.num = 1 THEN Strict(t, "bytes") ELSE Reject)
PasePake2(t) == Contextual(t, IF t.num \in {1, 2} THEN Strict(t, "bytes") ELSE Reject)
PasePake3(t) == Contextual(t, IF t.num = 1 THEN Strict(t, "bytes") ELSE Reject)

CaseSigma1(t) ==
  Contextual(t, CASE t.num \in {1, 3, 4, 6, 7} -> Strict(t, "bytes")
                  [] t.num = 2                 -> Strict(t, "uint")
                  [] t.num = 5                 -> Enter("SessionParameters")
                  [] OTHER                     -> Reject)

CaseSigma2(t) ==
  Contextual(t, CASE t.num \in {1, 3} -> Strict(t, "bytes")
                  [] t.num = 2        -> Strict(t, "uint")
                  [] t.num = 4        -> Encrypted(t)
                  [] t.num = 5        -> Enter("SessionParameters")
                  [] OTHER            -> Reject)

CaseSigma3(t) == Contextual(t, IF t.num = 1 THEN Encrypted(t) ELSE Reject)

CaseSigma2Resume(t) ==
  Contextual(t, CASE t.num \in {1, 2} -> Strict(t, "bytes")
                  [] t.num = 3        -> Strict(t, "uint")
                  [] t.num = 4        -> Enter("SessionParameters")
                  [] OTHER            -> Reject)
=============================================================================
