------------------------------- MODULE UDCRules -------------------------------
(***************************************************************************)
(* The dissectors of the TLV in an IdentificationDeclaration of user       *)
(* directed commissioning, and of one of the apps that it lists.           *)
(***************************************************************************)
EXTENDS DissectorRules

IdentificationDeclaration(t) ==
  Contextual(t, CASE t.num \in {1, 2, 4, 6, 8, 18} -> Typed("uint")
                  [] t.num \in {3, 5}              -> Typed("utf8")
                  [] t.num = 7                     -> Typed("bytes")
                  [] t.num = 9                     -> IF t.type = "array" THEN Enter("TargetApps") ELSE Generic
                  [] t.num \in 13..17              -> Typed("bool")
                  [] OTHER                         -> Generic)

TargetApp(t) == Contextual(t, IF t.num \in {11, 12} THEN Typed("uint") ELSE Generic)
=============================================================================
