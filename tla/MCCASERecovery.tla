---------------------------- MODULE MCCASERecovery ----------------------------
(***************************************************************************)
(* Handshakes of three kinds of request: from a party that uses the        *)
(* generator, from one that does not, and one whose certificates cannot be *)
(* decoded, and answers with and without the generator, all in exchange 1; *)
(* and a request in exchange 2.                                            *)
(***************************************************************************)
EXTENDS CASERecovery

On(point) == [curve |-> "prime256v1", point |-> point]

Base == [kind |-> "BeginSessionRequest", exchange |-> 1, complete |-> TRUE, config |-> 2,
         curve |-> "prime256v1", encType |-> kMatterEncryptionType_AES128CCM,
         sessionId |-> 5, ecdh |-> On("P"), body |-> 0]

request    == Base
known      == [Base EXCEPT !.ecdh = On(G), !.sessionId = 6]
broken     == [Base EXCEPT !.complete = FALSE]
oldCurve   == [Base EXCEPT !.curve = "secp160r1", !.ecdh = [curve |-> "secp160r1", point |-> G]]
response   == [Base EXCEPT !.kind = "BeginSessionResponse", !.ecdh = On("Q")]
responseG  == [response EXCEPT !.ecdh = On(G)]
confirm    == [Base EXCEPT !.kind = "InitiatorKeyConfirm"]
elsewhere  == [Base EXCEPT !.exchange = 2]

TheMessages == {request, known, broken, oldCurve, response, responseG, confirm, elsewhere}
TheKeys     == {SessionKey(m, n) : m, n \in TheMessages}
=============================================================================
