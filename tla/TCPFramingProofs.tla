--------------------------- MODULE TCPFramingProofs ---------------------------
(***************************************************************************)
(* The PDUs that are cut out of a stream, proved for any stream and        *)
(* whatever the bytes say that are taken for a length.                     *)
(***************************************************************************)
EXTENDS TCPFraming, TLAPS

(***************************************************************************)
(* The inductive invariant.                                                *)
(***************************************************************************)
N == Len(pdus)

\* What is waited for is not in the buffer.
NeedBeyond == need # 0 => need > buffer.to

\* Nothing that is received and not in the buffer goes beyond one segment.
NoCut ==
  /\ received <= stream.ends[Len(stream.ends)]
  /\ \A c \in stream.cuts : c < received =>
       IF need = 0 THEN c <= buffer.to ELSE c < need \/ need > received

\* The PDUs so far are messages.
Whole == N <= Len(stream.ends) /\ \A k \in 1..N : pdus[k] = MessageAt(stream, k)

\* The buffer begins with message j, and the messages from j on that end in it
\* are of one segment, and of one size up to the one that comes next.
BeginsWith(j) ==
  /\ buffer.from = StartOf(stream, j)
  /\ \A i \in j..N + 1 : SizeOf(stream, i) = SizeOf(stream, j)
  /\ \A i \in j..Len(stream.ends) : stream.ends[i] < buffer.to => stream.ends[i] \notin stream.cuts

InBuffer ==
  need = 0 /\ at < buffer.to =>
    /\ N < Len(stream.ends)
    /\ \E j \in 1..N + 1 : BeginsWith(j)
    /\ buffer.to = received \/ (buffer.from = at /\ buffer.to = stream.ends[N + 1])

InWait ==
  need # 0 =>
    IF exact THEN N < Len(stream.ends) /\ need = stream.ends[N + 1]
    ELSE at = buffer.to - 1 /\ need = buffer.to + 1

Framed == AlignedUpTo(stream, N) => Whole /\ InBuffer /\ InWait

IInv == TypeOK /\ PdusAdjoin /\ NeedBeyond /\ NoCut /\ Framed
-----------------------------------------------------------------------------
(***************************************************************************)
(* Streams.                                                                *)
(***************************************************************************)
\* The positions of a stream are numbers, and messages come one after another.
LEMMA Positions ==
  ASSUME NEW s, IsStream(s)
  PROVE  /\ Len(s.ends) \in Nat /\ Len(s.ends) >= 1
         /\ \A k \in 1..Len(s.ends) :
              s.ends[k] \in Nat /\ StartOf(s, k) \in Nat /\ SizeOf(s, k) \in Nat
              /\ SizeOf(s, k) > 2 /\ s.ends[k] = StartOf(s, k) + SizeOf(s, k)
         /\ s.cuts \subseteq Nat
<1>1. s.ends \in Seq(Nat) /\ s.ends # << >>
  BY DEF IsStream
<1>2. Len(s.ends) \in Nat /\ Len(s.ends) >= 1
  BY <1>1
<1>3. ASSUME NEW k \in 1..Len(s.ends)
      PROVE  s.ends[k] \in Nat /\ StartOf(s, k) \in Nat /\ s.ends[k] > StartOf(s, k) + 2
  <2>1. s.ends[k] \in Nat /\ StartOf(s, k) \in Nat
    BY <1>1, <1>2 DEF StartOf
  <2>2. k \in k..Len(s.ends)
    BY <1>2
  <2> QED BY <2>1, <2>2 DEF IsStream, LengthFieldSize
<1>4. s.cuts \subseteq Nat
  BY <1>1, <1>2, <1>3 DEF IsStream
<1> QED BY <1>2, <1>3, <1>4 DEF SizeOf

\* A message begins after those before it.
LEMMA Ascending ==
  ASSUME NEW s, IsStream(s), NEW k \in 1..Len(s.ends), NEW j \in k..Len(s.ends)
  PROVE  /\ s.ends[j] > StartOf(s, k) + 2 /\ s.ends[k] <= s.ends[j]
         /\ j # k => StartOf(s, j) > StartOf(s, k)
<1>1. s.ends[j] > StartOf(s, k) + 2
  BY DEF IsStream, LengthFieldSize
<1>2. Len(s.ends) \in Nat /\ j \in 1..Len(s.ends)
  BY Positions
<1>3. CASE j = k
  BY <1>1, <1>2, <1>3, Positions
<1>4. CASE j # k
  <2>1. k + 1 \in 1..Len(s.ends) /\ j \in k + 1..Len(s.ends) /\ StartOf(s, k + 1) = s.ends[k]
    BY <1>2, <1>4 DEF StartOf
  <2>2. s.ends[j] > s.ends[k] + 2
    BY <2>1 DEF IsStream, LengthFieldSize
  <2>3. j - 1 \in k..Len(s.ends) /\ j # 1 /\ StartOf(s, j) = s.ends[j - 1]
    BY <1>2, <1>4 DEF StartOf
  <2>4. s.ends[j - 1] > StartOf(s, k) + 2
    BY <2>3 DEF IsStream, LengthFieldSize
  <2>5. s.ends[j] \in Nat /\ s.ends[k] \in Nat /\ StartOf(s, k) \in Nat /\ StartOf(s, j) \in Nat
    BY <1>2, Positions
  <2>6. StartOf(s, j) > StartOf(s, k)
    BY <2>3, <2>4, <2>5
  <2>7. s.ends[k] <= s.ends[j]
    BY <2>2, <2>5
  <2> QED BY <1>1, <2>6, <2>7
<1> QED BY <1>3, <1>4

\* Only one message begins at a position, and its length is read there.
LEMMA LengthOfFirst ==
  ASSUME IsStream(stream), NEW j \in 1..Len(stream.ends), buffer.from = StartOf(stream, j)
  PROVE  MessageLength(buffer, at) = {SizeOf(stream, j)}
<1>1. \A k \in 1..Len(stream.ends) : StartOf(stream, k) = buffer.from => k = j
  <2> SUFFICES ASSUME NEW k \in 1..Len(stream.ends), StartOf(stream, k) = buffer.from, k # j
               PROVE  FALSE
    OBVIOUS
  <2>1. CASE k < j
    BY <2>1, Ascending, Positions
  <2>2. CASE k > j
    BY <2>2, Ascending, Positions
  <2> QED BY <2>1, <2>2
<1>2. {k \in 1..Len(stream.ends) : StartOf(stream, k) = buffer.from} = {j}
  BY <1>1
<1>3. LengthField(buffer.from) = {SizeOf(stream, j) - LengthFieldSize}
  BY <1>2 DEF LengthField
<1>4. SizeOf(stream, j) - LengthFieldSize + LengthFieldSize = SizeOf(stream, j)
  BY Positions DEF LengthFieldSize
<1> QED BY <1>3, <1>4 DEF MessageLength

\* Any length that is read counts the length field.
LEMMA LengthsRead ==
  ASSUME IsStream(stream), NEW length \in MessageLength(buffer, at)
  PROVE  length \in Nat /\ length >= 2
<1>1. \A k \in 1..Len(stream.ends) : SizeOf(stream, k) - LengthFieldSize \in Nat
  BY Positions DEF LengthFieldSize
<1>2. LengthField(buffer.from) \subseteq Nat
  BY <1>1, LengthsAreLengths DEF LengthField
<1> QED BY <1>2 DEF MessageLength, LengthFieldSize

\* What is aligned up to a message is aligned up to those before.
LEMMA AlignedBefore ==
  ASSUME NEW s, NEW n \in Nat, AlignedUpTo(s, n + 1)
  PROVE  /\ AlignedUpTo(s, n)
         /\ n + 1 < Len(s.ends) => SizeOf(s, n + 1) = SizeOf(s, n + 2) \/ s.ends[n + 1] \in s.cuts
<1>1. \A i \in 1..n : i \in 1..n + 1
  OBVIOUS
<1>2. n + 1 \in 1..n + 1 /\ n + 1 + 1 = n + 2
  OBVIOUS
<1> QED BY <1>1, <1>2 DEF AlignedUpTo
-----------------------------------------------------------------------------
(***************************************************************************)
(* The invariant is kept.                                                  *)
(***************************************************************************)
LEMMA InitIInv == Init => IInv
<1> SUFFICES ASSUME Init PROVE IInv
  OBVIOUS
<1> USE DEF Init
<1>1. IsStream(stream)
  BY StreamsAreStreams
<1>2. TypeOK
  <2>1. buffer \in [from : Nat, to : Nat] /\ buffer.from = 0 /\ buffer.to = 0
    OBVIOUS
  <2>2. pdus \in Seq([from : Nat, to : Nat])
    OBVIOUS
  <2>3. at \in buffer.from..buffer.to /\ buffer.to <= received
    BY <2>1
  <2> QED BY <1>1, <2>1, <2>2, <2>3 DEF TypeOK
<1>3. PdusAdjoin /\ NeedBeyond
  BY DEF PdusAdjoin, NeedBeyond
<1>4. NoCut
  BY <1>1, Positions, SMTT(20) DEF NoCut
<1>5. Framed
  BY <1>1, Positions DEF Framed, Whole, InBuffer, InWait, N
<1> QED BY <1>2, <1>3, <1>4, <1>5 DEF IInv

\* Where the next message begins.
LEMMA AtNext ==
  ASSUME IInv, AlignedUpTo(stream, N)
  PROVE  /\ N \in Nat /\ N <= Len(stream.ends)
         /\ at = StartOf(stream, N + 1)
         /\ N < Len(stream.ends) => stream.ends[N + 1] = at + SizeOf(stream, N + 1)
<1>1. IsStream(stream) /\ N \in Nat /\ Whole
  BY DEF IInv, TypeOK, Framed, N
<1>2. at = StartOf(stream, N + 1)
  <2>1. CASE pdus = << >>
    BY <2>1 DEF IInv, PdusAdjoin, StartOf, N
  <2>2. CASE pdus # << >>
    <3>1. N >= 1 /\ N + 1 # 1 /\ N + 1 - 1 = N /\ N \in 1..N
      BY <1>1, <2>2 DEF IInv, TypeOK, N
    <3>2. at = pdus[N].to
      BY <2>2 DEF IInv, PdusAdjoin, N
    <3>3. pdus[N].to = stream.ends[N]
      <4>1. pdus[N] = MessageAt(stream, N)
        BY <1>1, <3>1 DEF Whole
      <4>2. MessageAt(stream, N).to = stream.ends[N]
        BY DEF MessageAt
      <4> QED BY <4>1, <4>2
    <3> QED BY <3>1, <3>2, <3>3 DEF StartOf
  <2> QED BY <2>1, <2>2
<1>3. N < Len(stream.ends) => stream.ends[N + 1] = at + SizeOf(stream, N + 1)
  BY <1>1, <1>2, Positions
<1> QED BY <1>1, <1>2, <1>3 DEF Whole

\* What is left of a buffer has a message in it, or the beginning of one.
LEMMA LeftInBuffer ==
  ASSUME IInv, at < received
  PROVE  AlignedUpTo(stream, N) => N < Len(stream.ends)
<1> SUFFICES ASSUME AlignedUpTo(stream, N) PROVE N < Len(stream.ends)
  OBVIOUS
<1>1. IsStream(stream) /\ at \in Int /\ received \in Nat
  BY DEF IInv, TypeOK
<1>2. N \in Nat /\ N <= Len(stream.ends) /\ at = StartOf(stream, N + 1)
  BY AtNext
<1>3. ASSUME N = Len(stream.ends) PROVE FALSE
  <2>1. at = stream.ends[Len(stream.ends)]
    BY <1>1, <1>2, <1>3, Positions DEF StartOf
  <2> QED BY <1>1, <2>1, Positions DEF IInv, NoCut
<1> QED BY <1>1, <1>2, <1>3, Positions

LEMMA SegmentKeeps == IInv /\ Segment => IInv'
<1> SUFFICES ASSUME IInv, Segment PROVE IInv'
  OBVIOUS
<1>1. UNCHANGED <<stream, buffer, at, need, exact, pdus>> /\ N' = N
  BY DEF Segment, N
<1>2. PICK c \in stream.cuts :
        /\ c > received /\ \A d \in stream.cuts : d > received => c <= d
        /\ received' = c
  BY DEF Segment
<1>3. /\ IsStream(stream) /\ received \in Nat /\ need \in Nat /\ at \in Int
      /\ buffer \in [from : Nat, to : Nat] /\ buffer.to <= received
  BY DEF IInv, TypeOK
<1>4. c \in Nat /\ stream.cuts \subseteq Nat /\ c <= stream.ends[Len(stream.ends)]
  BY <1>3, Positions DEF IsStream
<1>5. TypeOK'
  BY <1>1, <1>2, <1>3, <1>4 DEF IInv, TypeOK
<1>6. PdusAdjoin' /\ NeedBeyond'
  BY <1>1 DEF IInv, PdusAdjoin, NeedBeyond
<1>7. NoCut'
  <2>1. \A d \in stream.cuts : d < c => d <= received
    BY <1>2, <1>3, <1>4
  <2>2. (need = 0 /\ buffer.to = received) \/ need > received
    BY <1>3 DEF Segment, Idle, Waits
  <2> QED BY <1>1, <1>2, <1>3, <1>4, <2>1, <2>2 DEF NoCut
<1>8. Framed'
  <2>1. ~(need = 0 /\ at < buffer.to)
    BY <1>3 DEF Segment, Idle, Waits
  <2> QED BY <1>1, <2>1 DEF IInv, Framed, Whole, InBuffer, InWait
<1> QED BY <1>5, <1>6, <1>7, <1>8 DEF IInv

LEMMA RestKeeps == IInv /\ Rest => IInv'
<1> SUFFICES ASSUME IInv, Rest PROVE IInv'
  OBVIOUS
<1>1. UNCHANGED <<stream, received, at, need, exact, pdus>> /\ N' = N
  BY DEF Rest, N
<1>2. /\ buffer' = [from |-> buffer.to, to |-> received]
      /\ need = 0 /\ at = buffer.to /\ at < received
  BY DEF Rest
<1>3. IsStream(stream) /\ received \in Nat /\ buffer \in [from : Nat, to : Nat] /\ at \in Nat
  BY <1>2 DEF IInv, TypeOK
<1>4. buffer'.from = at /\ buffer'.to = received
  BY <1>2
<1>5. TypeOK'
  BY <1>1, <1>2, <1>3, <1>4 DEF IInv, TypeOK
<1>6. PdusAdjoin' /\ NeedBeyond'
  BY <1>1, <1>2 DEF IInv, PdusAdjoin, NeedBeyond
<1>7. NoCut'
  BY <1>1, <1>2, <1>3, <1>4, Positions DEF IInv, NoCut
<1>8. ASSUME AlignedUpTo(stream, N) PROVE InBuffer'
  <2>1. N \in Nat /\ N < Len(stream.ends) /\ at = StartOf(stream, N + 1)
    BY <1>2, <1>8, AtNext, LeftInBuffer
  <2>2. N + 1 \in 1..Len(stream.ends) /\ N + 1 \in 1..N + 1
    BY <1>3, <2>1, Positions
  <2>3. ASSUME NEW i \in N + 1..Len(stream.ends), stream.ends[i] < received
        PROVE  stream.ends[i] \notin stream.cuts
    <3>1. stream.ends[i] > at + 2
      BY <1>3, <2>1, <2>2, Ascending
    <3>2. i \in 1..Len(stream.ends)
      BY <2>2
    <3>3. stream.ends[i] \in Nat
      BY <1>3, <3>2, Positions
    <3> QED BY <1>2, <1>3, <2>3, <3>1, <3>3 DEF IInv, NoCut
  <2>4. BeginsWith(N + 1)'
    <3>1. \A i \in N + 1..N + 1 : SizeOf(stream, i) = SizeOf(stream, N + 1)
      BY <2>1
    <3> QED BY <1>1, <1>4, <2>1, <2>3, <3>1 DEF BeginsWith
  <2> QED BY <1>1, <1>4, <2>1, <2>2, <2>4 DEF InBuffer
<1>9. Framed'
  BY <1>1, <1>2, <1>8 DEF IInv, Framed, Whole, InWait
<1> QED BY <1>5, <1>6, <1>7, <1>9 DEF IInv

LEMMA ReassembleKeeps == IInv /\ Reassemble => IInv'
<1> SUFFICES ASSUME IInv, Reassemble PROVE IInv'
  OBVIOUS
<1>1. UNCHANGED <<stream, received, at, exact, pdus>> /\ N' = N
  BY DEF Reassemble, N
<1> DEFINE end == IF exact THEN need ELSE received
<1>2. /\ buffer' = [from |-> at, to |-> end]
      /\ need # 0 /\ need <= received /\ need' = 0
  BY DEF Reassemble
<1>3. /\ IsStream(stream) /\ received \in Nat /\ at \in Nat /\ need \in Nat /\ exact \in BOOLEAN
      /\ buffer.to \in Nat /\ at <= buffer.to /\ need > buffer.to
  BY <1>2 DEF IInv, TypeOK, NeedBeyond
<1>4. end \in Nat /\ end <= received /\ at < end /\ end >= need
  BY <1>2, <1>3
<1> HIDE DEF end
<1>5. buffer'.from = at /\ buffer'.to = end
  BY <1>2
<1>6. TypeOK'
  BY <1>1, <1>2, <1>3, <1>4, <1>5 DEF IInv, TypeOK
<1>7. PdusAdjoin' /\ NeedBeyond'
  BY <1>1, <1>2 DEF IInv, PdusAdjoin, NeedBeyond
<1>8. NoCut'
  <2>1. ASSUME NEW c \in stream.cuts, c < received PROVE c < need
    BY <1>2, <1>3, <2>1, Positions DEF IInv, NoCut
  <2>2. stream.cuts \subseteq Nat
    BY <1>3, Positions
  <2>3. \A c \in stream.cuts : c < received => c <= end
    BY <1>3, <1>4, <2>1, <2>2
  <2> QED BY <1>1, <1>2, <1>5, <2>3 DEF IInv, NoCut
<1>9. ASSUME AlignedUpTo(stream, N) PROVE InBuffer'
  <2>1. N \in Nat /\ N < Len(stream.ends) /\ at = StartOf(stream, N + 1)
    BY <1>3, <1>4, <1>9, AtNext, LeftInBuffer
  <2>2. N + 1 \in 1..Len(stream.ends) /\ N + 1 \in 1..N + 1
    BY <1>3, <2>1, Positions
  <2>3. ASSUME NEW i \in N + 1..Len(stream.ends), stream.ends[i] < end
        PROVE  stream.ends[i] \notin stream.cuts
    <3>1. stream.ends[i] > at + 2 /\ stream.ends[N + 1] <= stream.ends[i]
      BY <1>3, <2>1, <2>2, Ascending
    <3>2. i \in 1..Len(stream.ends)
      BY <2>2
    <3>3. stream.ends[i] \in Nat /\ stream.ends[N + 1] \in Nat
      BY <1>3, <2>2, <3>2, Positions
    <3>4. CASE exact
      BY <1>2, <1>9, <2>3, <3>1, <3>3, <3>4 DEF IInv, Framed, InWait, end
    <3>5. CASE ~exact
      <4>1. stream.ends[i] >= need /\ stream.ends[i] < received
        BY <1>2, <1>3, <1>9, <2>3, <3>1, <3>3, <3>5, SMTT(20) DEF IInv, Framed, InWait, end
      <4> QED BY <1>2, <1>3, <3>3, <4>1 DEF IInv, NoCut
    <3> QED BY <3>4, <3>5
  <2>4. BeginsWith(N + 1)'
    <3>1. \A i \in N + 1..N + 1 : SizeOf(stream, i) = SizeOf(stream, N + 1)
      BY <2>1
    <3> QED BY <1>1, <1>5, <2>1, <2>3, <3>1 DEF BeginsWith
  <2>5. end = received \/ end = stream.ends[N + 1]
    BY <1>2, <1>9 DEF IInv, Framed, InWait, end
  <2> QED BY <1>1, <1>5, <2>1, <2>2, <2>4, <2>5 DEF InBuffer
<1>10. Framed'
  BY <1>1, <1>2, <1>9 DEF IInv, Framed, Whole, InWait
<1> QED BY <1>6, <1>7, <1>8, <1>10 DEF IInv

LEMMA AskForSegmentKeeps == IInv /\ AskForSegment => IInv'
<1> SUFFICES ASSUME IInv, AskForSegment PROVE IInv'
  OBVIOUS
<1>1. UNCHANGED <<stream, received, buffer, at, pdus>> /\ N' = N
  BY DEF AskForSegment, N
<1>2. /\ need = 0 /\ at < buffer.to /\ buffer.to - at < 2
      /\ need' = buffer.to + 1 /\ exact' = FALSE
  BY DEF AskForSegment, Dissecting, LengthFieldSize
<1>3. IsStream(stream) /\ received \in Nat /\ buffer.to \in Nat /\ at \in Int
  BY DEF IInv, TypeOK
<1>4. TypeOK'
  <2>1. need' \in Nat
    BY <1>2, <1>3
  <2>2. exact' \in BOOLEAN
    BY <1>2
  <2> QED BY <1>1, <2>1, <2>2 DEF IInv, TypeOK
<1>5. PdusAdjoin' /\ NeedBeyond'
  BY <1>1, <1>2, <1>3 DEF IInv, PdusAdjoin, NeedBeyond
<1>6. NoCut'
  BY <1>1, <1>2, <1>3, Positions DEF IInv, NoCut
<1>7. Framed'
  BY <1>1, <1>2, <1>3 DEF IInv, Framed, Whole, InBuffer, InWait
<1> QED BY <1>4, <1>5, <1>6, <1>7 DEF IInv

\* The length that is read is that of the message that begins here.
LEMMA LengthIsOfNext ==
  ASSUME IInv, Dissecting, AlignedUpTo(stream, N)
  PROVE  MessageLength(buffer, at) = {SizeOf(stream, N + 1)}
<1>1. need = 0 /\ at < buffer.to /\ IsStream(stream) /\ N \in Nat
  BY DEF Dissecting, IInv, TypeOK, N
<1>2. InBuffer
  BY DEF IInv, Framed
<1>3. N < Len(stream.ends)
  BY <1>1, <1>2 DEF InBuffer
<1>4. PICK j \in 1..N + 1 : BeginsWith(j)
  BY <1>1, <1>2 DEF InBuffer
<1>5. j \in 1..Len(stream.ends) /\ N + 1 \in j..N + 1
  BY <1>1, <1>3, Positions
<1>6. buffer.from = StartOf(stream, j) /\ SizeOf(stream, N + 1) = SizeOf(stream, j)
  BY <1>4, <1>5 DEF BeginsWith
<1> QED BY <1>1, <1>5, <1>6, LengthOfFirst

\* DissectPDU, when the message is not whole.
DissectWaits(length) ==
  /\ buffer.to - at < length
  /\ need' = at + length /\ exact' = TRUE
  /\ UNCHANGED <<stream, received, buffer, at, pdus>>

\* DissectPDU, when it is.
DissectDelivers(length) ==
  /\ buffer.to - at >= length
  /\ pdus' = Append(pdus, [from |-> at, to |-> at + length])
  /\ at' = at + length
  /\ UNCHANGED <<stream, received, buffer, need, exact>>

LEMMA DissectPDUCases ==
  ASSUME IInv, DissectPDU
  PROVE  Dissecting /\ \E length \in MessageLength(buffer, at) :
           length \in Nat /\ length >= 2 /\ (DissectWaits(length) \/ DissectDelivers(length))
<1>1. PICK length \in MessageLength(buffer, at) :
        IF buffer.to - at < length
        THEN need' = at + length /\ exact' = TRUE /\ UNCHANGED <<at, pdus>>
        ELSE /\ pdus' = Append(pdus, [from |-> at, to |-> at + length])
             /\ at' = at + length
             /\ UNCHANGED <<need, exact>>
  BY DEF DissectPDU
<1>2. UNCHANGED <<stream, received, buffer>> /\ Dissecting
  BY DEF DissectPDU
<1>3. length \in Nat /\ length >= 2 /\ at \in Int /\ buffer.to \in Nat
  BY LengthsRead DEF IInv, TypeOK
<1>4. DissectWaits(length) \/ DissectDelivers(length)
  BY <1>1, <1>2, <1>3 DEF DissectWaits, DissectDelivers
<1> QED BY <1>2, <1>3, <1>4

LEMMA DissectWaitsKeeps ==
  ASSUME IInv, Dissecting, NEW length \in MessageLength(buffer, at), length \in Nat, DissectWaits(length)
  PROVE  IInv'
<1>1. UNCHANGED <<stream, received, buffer, at, pdus>> /\ N' = N
  BY DEF DissectWaits, N
<1>2. need = 0 /\ at < buffer.to /\ buffer.to - at < length /\ need' = at + length /\ exact' = TRUE
  BY DEF DissectWaits, Dissecting
<1>3. IsStream(stream) /\ received \in Nat /\ buffer.to \in Nat /\ at \in Nat
  BY DEF IInv, TypeOK
<1>4. TypeOK'
  <2>1. need' \in Nat /\ exact' \in BOOLEAN
    BY <1>2, <1>3
  <2> QED BY <1>1, <2>1 DEF IInv, TypeOK
<1>5. need' > buffer.to
  BY <1>2, <1>3
<1>6. PdusAdjoin' /\ NeedBeyond'
  BY <1>1, <1>5 DEF IInv, PdusAdjoin, NeedBeyond
<1>7. NoCut'
  <2>1. need' \in Nat /\ need' # 0 /\ stream.cuts \subseteq Nat
    BY <1>2, <1>3, <1>5, Positions
  <2>2. \A c \in stream.cuts : c < received => c < need'
    BY <1>2, <1>3, <1>5, <2>1 DEF IInv, NoCut
  <2> QED BY <1>1, <2>1, <2>2 DEF IInv, NoCut
<1>8. ASSUME AlignedUpTo(stream, N) PROVE InWait'
  <2>1. length = SizeOf(stream, N + 1)
    BY <1>8, LengthIsOfNext
  <2>2. N < Len(stream.ends)
    BY <1>2, <1>8 DEF IInv, Framed, InBuffer
  <2> QED BY <1>1, <1>2, <1>8, <2>1, <2>2, AtNext DEF InWait
<1>9. Framed'
  BY <1>1, <1>2, <1>3, <1>5, <1>8 DEF IInv, Framed, Whole, InBuffer
<1> QED BY <1>4, <1>6, <1>7, <1>9 DEF IInv

\* What is handed over is the next message.
LEMMA DeliversNext ==
  ASSUME IInv, Dissecting, AlignedUpTo(stream, N),
         NEW length \in MessageLength(buffer, at), length \in Nat, DissectDelivers(length)
  PROVE  /\ N \in Nat /\ N < Len(stream.ends) /\ N' = N + 1
         /\ pdus' = Append(pdus, MessageAt(stream, N + 1))
         /\ at' = stream.ends[N + 1] /\ at' <= buffer.to
<1>1. need = 0 /\ at < buffer.to /\ buffer.to \in Nat /\ at \in Nat /\ buffer.to - at >= length
  BY DEF Dissecting, DissectDelivers, IInv, TypeOK
<1>2. length = SizeOf(stream, N + 1) /\ N < Len(stream.ends)
  BY <1>1, LengthIsOfNext DEF IInv, Framed, InBuffer
<1>3. N \in Nat /\ at = StartOf(stream, N + 1) /\ stream.ends[N + 1] = at + length
  BY <1>2, AtNext
<1>4. N' = N + 1
  BY DEF DissectDelivers, IInv, TypeOK, N
<1>5. pdus' = Append(pdus, MessageAt(stream, N + 1))
  BY <1>3 DEF DissectDelivers, MessageAt
<1>6. at' = stream.ends[N + 1] /\ at' <= buffer.to
  BY <1>1, <1>3 DEF DissectDelivers
<1> QED BY <1>2, <1>3, <1>4, <1>5, <1>6

LEMMA DissectDeliversKeeps ==
  ASSUME IInv, Dissecting, NEW length \in MessageLength(buffer, at), length \in Nat, DissectDelivers(length)
  PROVE  IInv'
<1>1. UNCHANGED <<stream, received, buffer, need, exact>>
  BY DEF DissectDelivers
<1> DEFINE pdu == [from |-> at, to |-> at + length]
<1>2. /\ need = 0 /\ at < buffer.to /\ buffer.to - at >= length /\ at' = at + length
      /\ pdus' = Append(pdus, pdu)
  BY DEF DissectDelivers, Dissecting
<1>3. IsStream(stream) /\ received \in Nat /\ buffer.from \in Nat /\ buffer.to \in Nat /\ at \in Nat /\ at >= buffer.from
  BY DEF IInv, TypeOK
<1>4. pdus \in Seq([from : Nat, to : Nat]) /\ pdu \in [from : Nat, to : Nat]
  BY <1>3 DEF IInv, TypeOK
<1>5. N \in Nat /\ N' = N + 1 /\ pdus'[N + 1] = pdu /\ \A k \in 1..N : pdus'[k] = pdus[k]
  BY <1>2, <1>4 DEF N
<1>6. TypeOK'
  <2>1. at' \in buffer.from..buffer.to
    BY <1>2, <1>3
  <2>2. pdus' \in Seq([from : Nat, to : Nat])
    BY <1>2, <1>4
  <2> QED BY <1>1, <2>1, <2>2 DEF IInv, TypeOK
<1>7. PdusAdjoin'
  <2>1. pdus'[N + 1].from = at /\ pdus'[N + 1].to = at'
    <3>1. pdu.from = at /\ pdu.to = at + length
      OBVIOUS
    <3> QED BY <1>2, <1>5, <3>1
  <2>2. at = IF N = 0 THEN 0 ELSE pdus'[N].to
    BY <1>4, <1>5 DEF IInv, PdusAdjoin, N
  <2>3. ASSUME NEW k \in 1..N + 1
        PROVE  pdus'[k].from = IF k = 1 THEN 0 ELSE pdus'[k - 1].to
    <3>1. CASE k = N + 1
      BY <1>5, <2>1, <2>2, <3>1
    <3>2. CASE k # N + 1
      <4>1. k \in 1..N /\ (k # 1 => k - 1 \in 1..N)
        BY <1>5, <3>2
      <4> QED BY <1>5, <4>1 DEF IInv, PdusAdjoin, N
    <3> QED BY <3>1, <3>2
  <2>4. Len(pdus') = N + 1 /\ pdus' # << >>
    BY <1>2, <1>4 DEF N
  <2> QED BY <2>1, <2>3, <2>4 DEF PdusAdjoin
<1>8. NeedBeyond' /\ NoCut'
  BY <1>1 DEF IInv, NeedBeyond, NoCut
<1>9. ASSUME AlignedUpTo(stream, N + 1) PROVE Whole' /\ InBuffer' /\ InWait'
  <2>1. /\ AlignedUpTo(stream, N)
        /\ N + 1 < Len(stream.ends) => SizeOf(stream, N + 1) = SizeOf(stream, N + 2) \/ stream.ends[N + 1] \in stream.cuts
    BY <1>5, <1>9, AlignedBefore
  <2>2. N < Len(stream.ends) /\ pdus' = Append(pdus, MessageAt(stream, N + 1)) /\ at' = stream.ends[N + 1]
    BY <2>1, DeliversNext
  <2>3. Whole'
    <3>1. pdus'[N + 1] = MessageAt(stream, N + 1)
      BY <1>4, <2>2 DEF N
    <3>2. \A k \in 1..N + 1 : pdus'[k] = MessageAt(stream, k)
      BY <1>5, <2>1, <3>1 DEF IInv, Framed, Whole
    <3>3. N + 1 <= Len(stream.ends)
      BY <1>3, <1>5, <2>2, Positions
    <3> QED BY <1>1, <1>5, <3>2, <3>3 DEF Whole
  <2>4. InBuffer'
    <3> SUFFICES ASSUME at' < buffer.to
                 PROVE  /\ N + 1 < Len(stream.ends)
                        /\ \E j \in 1..N + 2 : BeginsWith(j)'
                        /\ buffer.to = received
      BY <1>1, <1>5 DEF InBuffer
    <3>1. N + 1 < Len(stream.ends)
      <4>1. ASSUME N + 1 = Len(stream.ends) PROVE FALSE
        BY <1>2, <1>3, <2>2, <4>1, Positions, SMTT(20) DEF IInv, TypeOK, NoCut
      <4> QED BY <1>3, <1>5, <2>2, <4>1, Positions
    <3>2. buffer.to = received
      BY <1>2, <1>3, <2>1, <2>2 DEF IInv, Framed, InBuffer
    <3>3. PICK j \in 1..N + 1 : BeginsWith(j)
      BY <1>2, <2>1 DEF IInv, Framed, InBuffer
    <3>4. stream.ends[N + 1] \notin stream.cuts
      BY <1>3, <1>5, <2>2, <3>1, <3>3, Positions DEF BeginsWith
    <3>5. SizeOf(stream, N + 2) = SizeOf(stream, N + 1)
      BY <2>1, <3>1, <3>4
    <3>6. BeginsWith(j)'
      <4>1. ASSUME NEW i \in j..N + 2 PROVE SizeOf(stream, i) = SizeOf(stream, j)
        <5>1. N + 1 \in j..N + 1
          BY <1>5
        <5>2. CASE i = N + 2
          BY <3>3, <3>5, <5>1, <5>2 DEF BeginsWith
        <5>3. CASE i # N + 2
          <6>1. i \in j..N + 1
            BY <1>5, <5>3
          <6> QED BY <3>3, <6>1 DEF BeginsWith
        <5> QED BY <5>2, <5>3
      <4>2. N' + 1 = N + 2
        BY <1>5
      <4> QED BY <1>1, <3>3, <4>1, <4>2 DEF BeginsWith
    <3>7. j \in 1..N + 2
      BY <1>5
    <3> QED BY <3>1, <3>2, <3>6, <3>7
  <2>5. InWait'
    BY <1>1, <1>2 DEF InWait
  <2> QED BY <2>3, <2>4, <2>5
<1>10. Framed'
  BY <1>1, <1>5, <1>9 DEF Framed
<1> QED BY <1>6, <1>7, <1>8, <1>10 DEF IInv
-----------------------------------------------------------------------------
(***************************************************************************)
(* The theorems.                                                           *)
(***************************************************************************)
LEMMA NextIInv == IInv /\ [Next]_vars => IInv'
<1> SUFFICES ASSUME IInv, [Next]_vars PROVE IInv'
  OBVIOUS
<1>1. CASE Segment
  BY <1>1, SegmentKeeps
<1>2. CASE Rest
  BY <1>2, RestKeeps
<1>3. CASE Reassemble
  BY <1>3, ReassembleKeeps
<1>4. CASE AskForSegment
  BY <1>4, AskForSegmentKeeps
<1>5. CASE DissectPDU
  BY <1>5, DissectPDUCases, DissectWaitsKeeps, DissectDeliversKeeps
<1>6. CASE UNCHANGED vars
  BY <1>6 DEF vars, IInv, TypeOK, PdusAdjoin, NeedBeyond, NoCut, Framed, Whole, InBuffer, InWait, BeginsWith, N
<1> QED BY <1>1, <1>2, <1>3, <1>4, <1>5, <1>6 DEF Next, DissectSegment

(***************************************************************************)
(* Every variable has its type, in any stream: DissectMatterTCP does not   *)
(* go beyond the bytes that were received.                                 *)
(***************************************************************************)
THEOREM TypeCorrect == Spec => []TypeOK
<1>1. IInv => TypeOK
  BY DEF IInv
<1> QED BY InitIInv, NextIInv, <1>1, PTL DEF Spec

(***************************************************************************)
(* No byte of a stream is given to DissectMatter twice or passed over.     *)
(***************************************************************************)
THEOREM NothingLost == Spec => []PdusAdjoin
<1>1. IInv => PdusAdjoin
  BY DEF IInv
<1> QED BY InitIInv, NextIInv, <1>1, PTL DEF Spec

\* The streams of the abstract specification are those of the code.
LEMMA SameStreams ==
  ASSUME NEW s, NEW k
  PROVE  /\ Framing!IsStream(s) <=> IsStream(s)
         /\ Framing!MessageAt(s, k) = MessageAt(s, k)
         /\ Framing!AlignedUpTo(s, k) <=> AlignedUpTo(s, k)
<1>1. Framing!IsStream(s) <=> IsStream(s)
  BY DEF IsStream, Framing!IsStream, StartOf, Framing!StartOf, LengthFieldSize, Framing!LengthFieldSize
<1>2. Framing!MessageAt(s, k) = MessageAt(s, k)
  BY DEF MessageAt, Framing!MessageAt, StartOf, Framing!StartOf
<1>3. Framing!AlignedUpTo(s, k) <=> AlignedUpTo(s, k)
  BY DEF AlignedUpTo, Framing!AlignedUpTo, SizeOf, Framing!SizeOf, StartOf, Framing!StartOf
<1> QED BY <1>1, <1>2, <1>3

\* Every step is one of the abstract stream, or leaves it as it is.
LEMMA StepFrames == IInv /\ [Next]_vars => [Framing!NextStream]_(Framing!streamVars)
<1> SUFFICES ASSUME IInv, [Next]_vars, AlignedUpTo(stream, N)
             PROVE  Framing!Arrive \/ Framing!Deliver \/ UNCHANGED <<stream, received, pdus>>
  BY SameStreams DEF Framing!NextStream, Framing!streamVars, N
<1>1. CASE Segment
  <2>1. received' > received /\ UNCHANGED <<stream, pdus>>
    BY <1>1 DEF Segment
  <2> QED BY <2>1 DEF Framing!Arrive
<1>2. CASE Rest \/ Reassemble \/ AskForSegment
  BY <1>2 DEF Rest, Reassemble, AskForSegment
<1>3. CASE DissectPDU
  <2>1. PICK length \in MessageLength(buffer, at) :
          length \in Nat /\ (DissectWaits(length) \/ DissectDelivers(length))
    BY <1>3, DissectPDUCases
  <2>2. Dissecting
    BY <1>3, DissectPDUCases
  <2>3. CASE DissectWaits(length)
    BY <2>3 DEF DissectWaits
  <2>4. CASE DissectDelivers(length)
    <3>1. /\ N \in Nat /\ N < Len(stream.ends) /\ pdus' = Append(pdus, MessageAt(stream, N + 1))
          /\ at' = stream.ends[N + 1] /\ at' <= buffer.to
      BY <2>1, <2>2, <2>4, DeliversNext
    <3>2. buffer.to \in Nat /\ received \in Nat /\ buffer.to <= received /\ IsStream(stream)
      BY DEF IInv, TypeOK
    <3>3. N + 1 <= Len(stream.ends) /\ stream.ends[N + 1] \in Nat
      BY <3>1, <3>2, Positions
    <3>4. stream.ends[N + 1] <= received
      BY <3>1, <3>2, <3>3
    <3> QED BY <2>4, <3>1, <3>3, <3>4, SameStreams DEF DissectDelivers, Framing!Deliver, N
  <2> QED BY <2>1, <2>3, <2>4
<1>4. CASE UNCHANGED vars
  BY <1>4 DEF vars
<1> QED BY <1>1, <1>2, <1>3, <1>4 DEF Next, DissectSegment

(***************************************************************************)
(* The PDUs are the messages of the stream, in any stream up to the first  *)
(* segment that has messages of different sizes, whatever other bytes are  *)
(* taken for a length beyond it.                                           *)
(***************************************************************************)
THEOREM FramingImplemented == Spec => FramesMessages
<1>1. Init => Framing!InitStream
  BY StreamsAreStreams, SameStreams DEF Init, Framing!InitStream
<1>2. Spec => [][Framing!NextStream]_(Framing!streamVars)
  BY InitIInv, NextIInv, StepFrames, PTL DEF Spec
<1> QED BY <1>1, <1>2, PTL DEF Spec, FramesMessages, Framing!StreamSpec
-----------------------------------------------------------------------------
(***************************************************************************)
(* When tcp_dissect_pdus has come to the end of what was captured, or      *)
(* waits for more, it holds no message back: each that is whole and that   *)
(* no segment with messages of different sizes comes before was given to   *)
(* DissectMatter.                                                          *)
(***************************************************************************)
HoldsNothingBack ==
  Idle \/ Waits =>
    \A k \in 1..Len(stream.ends) :
      AlignedUpTo(stream, k - 1) /\ stream.ends[k] <= received => k <= Len(pdus)

THEOREM CapturedIsDelivered == Spec => []HoldsNothingBack
<1>1. IInv => HoldsNothingBack
  <2> SUFFICES ASSUME IInv, Idle \/ Waits, NEW k \in 1..Len(stream.ends),
                      AlignedUpTo(stream, k - 1), stream.ends[k] <= received, k > N
               PROVE  FALSE
    <3>1. IInv => N \in Nat
      BY DEF IInv, TypeOK, N
    <3>2. (IInv => N \in Nat) /\ \A k \in 1..Len(stream.ends) : k \in Nat
      BY <3>1
    <3> QED BY <3>2 DEF HoldsNothingBack, N
  <2>1. /\ IsStream(stream) /\ N \in Nat /\ received \in Nat /\ need \in Nat
        /\ buffer.to \in Nat /\ at \in Int /\ at <= buffer.to /\ buffer.to <= received
    BY DEF IInv, TypeOK, N
  <2>2. Len(stream.ends) \in Nat /\ k \in Nat /\ N + 1 \in 1..Len(stream.ends) /\ k \in N + 1..Len(stream.ends)
    BY <2>1, Positions
  <2>3. AlignedUpTo(stream, N)
    <3>1. \A i \in 1..N : i \in 1..k - 1
      BY <2>1, <2>2
    <3> QED BY <3>1 DEF AlignedUpTo
  <2>4. at = StartOf(stream, N + 1)
    BY <2>3, AtNext
  <2>5. stream.ends[k] > at + 2 /\ stream.ends[N + 1] <= stream.ends[k]
    BY <2>1, <2>2, <2>4, Ascending
  <2>6. stream.ends[k] \in Nat /\ stream.ends[N + 1] \in Nat
    BY <2>1, <2>2, Positions
  <2>7. CASE Idle
    BY <2>1, <2>5, <2>6, <2>7 DEF Idle
  <2>8. CASE Waits
    <3>1. need # 0 /\ need > received
      BY <2>1, <2>8 DEF Waits
    <3>2. IF exact THEN need = stream.ends[N + 1] ELSE at = buffer.to - 1 /\ need = buffer.to + 1
      BY <2>3, <3>1 DEF IInv, Framed, InWait
    <3> QED BY <2>1, <2>5, <2>6, <3>1, <3>2
  <2> QED BY <2>7, <2>8
<1> QED BY InitIInv, NextIInv, <1>1, PTL DEF Spec
-----------------------------------------------------------------------------
(***************************************************************************)
(* What there is to do of the bytes that were captured, and a turn that    *)
(* finds out that it has to wait.                                          *)
(***************************************************************************)
LeftToDo == received - at + 2 * (received - buffer.to) + (IF need = 0 THEN 1 ELSE 0)

(***************************************************************************)
(* Every step of the dissection of a segment leaves less to do, and never  *)
(* less than nothing, whatever the lengths are that are read: between two  *)
(* segments the loop of tcp_dissect_pdus ends, as no length that           *)
(* GetMatterTCPMessageLength returns is 0.                                 *)
(***************************************************************************)
Advances == DissectSegment => LeftToDo \in Nat /\ LeftToDo' \in Nat /\ LeftToDo' < LeftToDo

THEOREM EveryTurnAdvances == Spec => [][Advances]_vars
<1>1. IInv /\ IInv' /\ DissectSegment => LeftToDo \in Nat /\ LeftToDo' \in Nat /\ LeftToDo' < LeftToDo
  <2> SUFFICES ASSUME IInv, IInv', DissectSegment
               PROVE  LeftToDo \in Nat /\ LeftToDo' \in Nat /\ LeftToDo' < LeftToDo
    OBVIOUS
  <2>1. /\ received \in Nat /\ need \in Nat /\ buffer.to \in Nat /\ at \in Nat
        /\ at <= buffer.to /\ buffer.to <= received
    BY DEF IInv, TypeOK
  <2>2. /\ received' \in Nat /\ need' \in Nat /\ buffer'.to \in Nat /\ at' \in Nat
        /\ at' <= buffer'.to /\ buffer'.to <= received'
    BY DEF IInv, TypeOK
  <2>3. LeftToDo \in Nat /\ LeftToDo' \in Nat
    BY <2>1, <2>2 DEF LeftToDo
  <2>4. CASE Rest
    <3>1. buffer'.to = received /\ buffer.to < received /\ UNCHANGED <<received, at, need>>
      BY <2>4 DEF Rest
    <3> QED BY <2>1, <2>2, <2>3, <3>1 DEF LeftToDo
  <2>5. CASE Reassemble
    <3>1. /\ need # 0 /\ need' = 0 /\ UNCHANGED <<received, at>> /\ need <= received
          /\ buffer'.to = IF exact THEN need ELSE received
      BY <2>5 DEF Reassemble
    <3>2. need > buffer.to
      BY <3>1 DEF IInv, NeedBeyond
    <3> QED BY <2>1, <2>2, <2>3, <3>1, <3>2 DEF LeftToDo
  <2>6. CASE AskForSegment
    <3>1. need = 0 /\ need' = buffer.to + 1 /\ UNCHANGED <<received, at, buffer>>
      BY <2>6 DEF AskForSegment, Dissecting
    <3> QED BY <2>1, <2>2, <2>3, <3>1 DEF LeftToDo
  <2>7. CASE DissectPDU
    <3>1. PICK length \in MessageLength(buffer, at) :
            length \in Nat /\ length >= 2 /\ (DissectWaits(length) \/ DissectDelivers(length))
      BY <2>7, DissectPDUCases
    <3>2. need = 0
      BY <2>7 DEF DissectPDU, Dissecting
    <3>3. CASE DissectWaits(length)
      <4>1. need' = at + length /\ UNCHANGED <<received, at, buffer>>
        BY <3>3 DEF DissectWaits
      <4> QED BY <2>1, <2>2, <2>3, <3>1, <3>2, <4>1 DEF LeftToDo
    <3>4. CASE DissectDelivers(length)
      <4>1. at' = at + length /\ UNCHANGED <<received, buffer, need>>
        BY <3>4 DEF DissectDelivers
      <4> QED BY <2>1, <2>2, <2>3, <3>1, <3>2, <4>1 DEF LeftToDo
    <3> QED BY <3>1, <3>3, <3>4
  <2> QED BY <2>3, <2>4, <2>5, <2>6, <2>7 DEF DissectSegment
<1>2. IInv /\ IInv' /\ [Next]_vars => [Advances]_vars
  BY <1>1 DEF Advances
<1> QED BY InitIInv, NextIInv, <1>2, PTL DEF Spec
=============================================================================
