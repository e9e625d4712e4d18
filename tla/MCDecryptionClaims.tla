-------------------------- MODULE MCDecryptionClaims --------------------------
(***************************************************************************)
(* What the comments and the README say of keys, over one message whose    *)
(* header omits its source, as the headers of Matter sessions do.          *)
(***************************************************************************)
EXTENDS Decryption

CONSTANTS ka, p1

OneMessage ==
  {[sessionType |-> kMatterSessionType_Unicast, sessionId |-> 5,
    srcNodeId |-> 0, dataEncKey |-> ka, nonceSrc |-> 1]}

NoTexts == {<< >>}

\* The key of the session, recovered from its handshake.
RecoveredSession == {<<5, ka>>}

NoUserInput  == {{}}
-----------------------------------------------------------------------------
(***************************************************************************)
(* README.md:57, "allowing the entirety of a Matter CASE session to be     *)
(* decrypted automatically": once the key of a session is recovered, the   *)
(* messages of the session can be decrypted.                               *)
(***************************************************************************)
RecoveredSessionsDecrypt ==
  \A m \in Messages :
    <<m.sessionId, m.dataEncKey>> \in RecoveredKeys \cap DOMAIN keyTable => CanDecrypt(m)
=============================================================================
