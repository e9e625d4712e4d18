---------------------------- MODULE MCTCPFraming ----------------------------
(***************************************************************************)
(* Up to three messages of 3 or 4 bytes, cut into segments in all ways.    *)
(***************************************************************************)
EXTENDS TCPFraming

Sizes == {3, 4}
Ends(sizes) == [k \in 1..Len(sizes) |-> IF k = 1 THEN sizes[1] ELSE IF k = 2 THEN sizes[1] + sizes[2]
                                        ELSE sizes[1] + sizes[2] + sizes[3]]

StreamsDef ==
  UNION {{[ends |-> Ends(sizes), cuts |-> cuts] :
            cuts \in SUBSET (1..Ends(sizes)[Len(sizes)])} :
         sizes \in UNION {[1..n -> Sizes] : n \in 1..3}}

LengthsDef == {0, 3}

(***************************************************************************)
(* Each message up to the first segment that has messages of different     *)
(* sizes is dissected, once it has been captured.  A stream has at most    *)
(* three here.                                                             *)
(***************************************************************************)
AllDissected ==
  \A k \in 1..3 :
    k <= Len(stream.ends) /\ AlignedUpTo(stream, k - 1) /\ stream.ends[k] <= received ~> Len(pdus) >= k
=============================================================================
