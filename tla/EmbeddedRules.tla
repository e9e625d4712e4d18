----------------------------- MODULE EmbeddedRules -----------------------------
(***************************************************************************)
(* The dissectors of what is encoded in byte strings of commands, that is  *)
(* certificates and what a device attests, each as what it does with an    *)
(* element t of its container.                                             *)
(***************************************************************************)
EXTENDS DissectorRules

NamedValue == Named("Value", NoIds)   \* AddNamedCommandValue
EnumOrRaw(t) == IF t.type \in {"uint", "sint"} THEN Text ELSE NamedValue
KeyUsage(t)  == IF t.type \in {"uint", "sint"} THEN Text ELSE NamedValue

\* Certificates may have their tags in the security profile.
Tagged(t, r) == IF t.tag \in {"context", "profile"} THEN r ELSE Generic

MatterCertificate(t) ==
  Tagged(t, CASE t.num \in {1, 4, 5, 9} -> NamedValue
              [] t.num \in {2, 7, 8}    -> EnumOrRaw(t)
              [] t.num \in {3, 6}       -> Enter("CertificateDN")
              [] t.num = 10             -> Enter("CertificateExtensions")
              [] t.num = 11             -> IF t.type = "structure" THEN Enter("ECDSASignature") ELSE NamedValue
              [] OTHER                  -> Generic)

CertificateDN(t) == ContextualOr(t, Generic, NamedValue)

ECDSASignature(t) == ContextualOr(t, Generic, IF t.num \in {1, 2} THEN NamedValue ELSE Generic)

CertificateExtensions(t) ==
  Tagged(t, CASE t.num = 1        -> IF t.type = "structure" THEN Enter("BasicConstraints") ELSE NamedValue
              [] t.num = 2        -> KeyUsage(t)
              [] t.num = 3        -> IF t.type \in {"array", "path"} THEN Enter("ExtendedKeyUsage") ELSE NamedValue
              [] t.num \in {4, 5} -> NamedValue
              [] OTHER            -> Generic)

BasicConstraints(t) == Tagged(t, IF t.num \in {1, 2} THEN NamedValue ELSE Generic)

ExtendedKeyUsage(t) == IF t.type \in {"uint", "sint"} THEN Text ELSE Generic

\* What has a profile tag is told by its tag only.
AttestationElements(t) ==
  CASE t.tag = "context" -> IF t.num \in 1..4 THEN NamedValue ELSE Generic
    [] t.tag = "profile" -> Text
    [] OTHER             -> Generic

NOCSRElements(t) == ContextualOr(t, Generic, IF t.num \in 1..5 THEN NamedValue ELSE Generic)
=============================================================================
