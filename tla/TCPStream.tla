------------------------------ MODULE TCPStream ------------------------------
(***************************************************************************)
(* A stream of TCP is told by the positions at which its messages end, and *)
(* by those at which its segments do.                                      *)
(***************************************************************************)
EXTENDS Integers, Sequences

\* A message is longer than its length field, which has two bytes.
LengthFieldSize == 2

StartOf(s, k) == IF k = 1 THEN 0 ELSE s.ends[k - 1]
MessageAt(s, k) == [from |-> StartOf(s, k), to |-> s.ends[k]]
SizeOf(s, k) == s.ends[k] - StartOf(s, k)

IsStream(s) ==
  /\ s.ends \in Seq(Nat) /\ s.ends # << >>
  /\ \A k \in 1..Len(s.ends) : \A j \in k..Len(s.ends) : s.ends[j] > StartOf(s, k) + LengthFieldSize
  /\ s.cuts \subseteq 1..s.ends[Len(s.ends)]

\* Of the first k messages and the next, those that differ in size from the one
\* before are not in the same segment.
AlignedUpTo(s, k) ==
  \A i \in 1..k : i < Len(s.ends) => SizeOf(s, i) = SizeOf(s, i + 1) \/ s.ends[i] \in s.cuts
=============================================================================
