---------------------------- MODULE MatterSession ----------------------------
(***************************************************************************)
(* Session types and session ids.                                          *)
(***************************************************************************)
EXTENDS Integers

kMatterSessionType_Unicast == 0
kMatterSessionType_Group   == 1
kMatterSessionId_Unsecured == 0
kMatterEncryptionType_None == 0
kType_Session              == 8192    \* 0x2000
kMask_SessionType          == 16      \* the mask 0x0F, as a modulus

(***************************************************************************)
(* Only an unsecured unicast message travels in the clear.                 *)
(***************************************************************************)
MessageIsEncrypted(m) ==
  ~ (/\ m.sessionType = kMatterSessionType_Unicast
     /\ m.sessionId = kMatterSessionId_Unsecured)

\* MatterSessionId::GetType keeps the low four bits of a session id.
GetType(sessionId) == sessionId % kMask_SessionType
=============================================================================
