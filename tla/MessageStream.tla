---------------------------- MODULE MessageStream ----------------------------
(***************************************************************************)
(* What a dissector over TCP promises: the messages of a stream are handed *)
(* over one by one, each once it is whole, wherever the segments end.      *)
(***************************************************************************)
EXTENDS TCPStream

VARIABLES stream, received, delivered

streamVars == <<stream, received, delivered>>

InitStream == IsStream(stream) /\ received = 0 /\ delivered = << >>

Arrive == received' > received /\ UNCHANGED <<stream, delivered>>

Deliver ==
  LET k == Len(delivered) + 1
  IN  /\ k <= Len(stream.ends) /\ stream.ends[k] <= received
      /\ delivered' = Append(delivered, MessageAt(stream, k))
      /\ UNCHANGED <<stream, received>>

\* It is promised up to the first segment that has messages of different sizes.
NextStream == AlignedUpTo(stream, Len(delivered)) => Arrive \/ Deliver

StreamSpec == InitStream /\ [][NextStream]_streamVars
=============================================================================
