----------------------------- MODULE MCDecryption -----------------------------
(***************************************************************************)
(* Node 1 sends in session 5 under the key ka; session 6 has the key kb,   *)
(* which recovery and a hint file without a source, and node 2 sends in it *)
(* without a source in the header.                                         *)
(***************************************************************************)
EXTENDS Decryption, TLC

CONSTANTS ka, kb, p1, p2

Cipher(session, hdr, key, src) ==
  [sessionType |-> kMatterSessionType_Unicast, sessionId |-> session,
   srcNodeId |-> hdr, dataEncKey |-> key, nonceSrc |-> src]

Line(key, session, src) == [key |-> key, session |-> session, src |-> src]

TheMessages  == {Cipher(5, 0, ka, 1), Cipher(5, 1, ka, 1), Cipher(6, 0, kb, 2)}
TheTexts ==
  { << >>,
    << Line(NoKey, 5, 1), Line(ka, Absent, 1) >>,
    << Line(ka, 5, 1), Line(kb, 6, Absent), Line(kb, 70000, Absent) >> }
TheRecovered == {<<6, kb>>}
TheUserKeys  == {{}, {ka, kb}}
TheUserNodes == {{1, 2}}

\* The two hint files are interchangeable.
PathSymmetry == Permutations(Paths)
=============================================================================
