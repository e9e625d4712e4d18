--------------------------- MODULE TLVReaderProofs ---------------------------
(***************************************************************************)
(* Facts about TLVDocument and TLVReader: what the recursive functions of a*)
(* document are, where a reader is among the tokens of its document, and   *)
(* where skipping an element or a container takes it.                      *)
(***************************************************************************)
EXTENDS TLVReader, WellFoundedInduction, TLAPS

-----------------------------------------------------------------------------
(***************************************************************************)
(* Recursion over the naturals.                                            *)
(***************************************************************************)
LEMMA NatSetInduction ==
  ASSUME NEW T, 0 \in T, \A n \in Nat : n \in T => n + 1 \in T
  PROVE  \A n \in Nat : n \in T
<1> DEFINE U == Nat \ T
<1> SUFFICES ASSUME U # {} PROVE FALSE
  OBVIOUS
<1>1. PICK i \in U : \A j \in U : ~ (<<j, i>> \in OpToRel(<, Nat))
  BY NatLessThanWellFounded, WFMin
<1>2. i \in Nat /\ i # 0
  OBVIOUS
<1>3. i - 1 \in Nat /\ i - 1 < i /\ (i - 1) + 1 = i
  BY <1>2
<1>4. i - 1 \notin U
  BY <1>1, <1>3 DEF OpToRel
<1> QED BY <1>1, <1>3, <1>4

\* f starts with a and goes on by F.
GoesOnBy(f, S, a, F) ==
  f \in [Nat -> S] /\ f[0] = a /\ \A n \in Nat : f[n + 1] = F[n][f[n]]

LEMMA RecursiveFunction ==
  ASSUME NEW S, NEW a \in S, NEW F \in [Nat -> [S -> S]]
  PROVE  \E f : GoesOnBy(f, S, a, F)
<1> DEFINE Is(n, g) == g \in [0..n -> S] /\ g[0] = a /\ \A k \in 0..n - 1 : g[k + 1] = F[k][g[k]]
           T == {n \in Nat : \E g : Is(n, g)}
<1>1. \A n \in Nat : \E g : Is(n, g)
  <2>1. 0 \in T
    <3>1. Is(0, [k \in 0..0 |-> a])
      OBVIOUS
    <3> QED BY <3>1
  <2>2. ASSUME NEW n \in Nat, n \in T PROVE n + 1 \in T
    <3>1. PICK g : Is(n, g)
      BY <2>2
    <3> DEFINE h == [k \in 0..n + 1 |-> IF k <= n THEN g[k] ELSE F[n][g[n]]]
    <3>2. g[n] \in S /\ F[n] \in [S -> S]
      BY <3>1
    <3>3. h \in [0..n + 1 -> S] /\ h[0] = a
      BY <3>1, <3>2
    <3>4. ASSUME NEW k \in 0..n + 1 - 1 PROVE h[k + 1] = F[k][h[k]]
      <4>1. CASE k < n
        BY <3>1, <4>1
      <4>2. CASE k = n
        BY <4>2
      <4> QED BY <4>1, <4>2
    <3>5. Is(n + 1, h)
      <4> HIDE DEF h
      <4> QED BY <3>3, <3>4
    <3>6. \E g0 : Is(n + 1, g0)
      <4> HIDE DEF Is, h
      <4> QED BY <3>5
    <3> QED BY <3>6
  <2>3. \A n \in Nat : n \in T
    <3> HIDE DEF T
    <3> QED BY <2>1, <2>2, NatSetInduction
  <2> QED BY <2>3
<1>2. ASSUME NEW n \in Nat, NEW m \in Nat, n <= m, NEW g, Is(n, g), NEW h, Is(m, h)
      PROVE  g[n] = h[n]
  <2> DEFINE V == {k \in Nat : k <= n => g[k] = h[k]}
  <2>1. 0 \in V
    BY <1>2
  <2>2. ASSUME NEW k \in Nat, k \in V PROVE k + 1 \in V
    <3>1. CASE k + 1 <= n
      <4>1. g[k] = h[k] /\ k \in 0..n - 1 /\ k \in 0..m - 1
        BY <1>2, <2>2, <3>1
      <4>2. g[k + 1] = F[k][g[k]] /\ h[k + 1] = F[k][h[k]]
        BY <1>2, <4>1
      <4> QED BY <4>1, <4>2
    <3> QED BY <3>1
  <2>3. \A k \in Nat : k \in V
    <3> HIDE DEF V
    <3> QED BY <2>1, <2>2, NatSetInduction
  <2> QED BY <2>3
<1> DEFINE G(n) == CHOOSE g : Is(n, g)
           f == [n \in Nat |-> G(n)[n]]
<1>3. \A n \in Nat : Is(n, G(n))
  <2> HIDE DEF Is
  <2> QED BY <1>1
<1>4. f \in [Nat -> S] /\ f[0] = a
  <2>1. \A n \in Nat : G(n)[n] \in S
    <3> HIDE DEF G
    <3> QED BY <1>3
  <2>2. G(0)[0] = a
    BY <1>3
  <2> QED BY <2>1, <2>2
<1>5. ASSUME NEW n \in Nat PROVE f[n + 1] = F[n][f[n]]
  <2>1. Is(n, G(n)) /\ Is(n + 1, G(n + 1))
    <3> HIDE DEF Is, G
    <3> QED BY <1>3
  <2>2. G(n)[n] = G(n + 1)[n]
    <3> HIDE DEF Is, G
    <3> QED BY <1>2, <2>1
  <2>3. G(n + 1)[n + 1] = F[n][G(n + 1)[n]]
    <3> HIDE DEF G
    <3> QED BY <2>1
  <2> QED BY <2>2, <2>3
<1>6. GoesOnBy(f, S, a, F)
  <2> HIDE DEF f
  <2> QED BY <1>4, <1>5 DEF GoesOnBy
<1> HIDE DEF f
<1> QED BY <1>6
-----------------------------------------------------------------------------
(***************************************************************************)
(* Documents.                                                              *)
(***************************************************************************)
LEMMA SizeType ==
  ASSUME NEW t \in HeadType
  PROVE  t.head \in Nat \ {0} /\ t.len \in Nat /\ Size(t) \in Nat \ {0}
<1>1. t.head \in 1..17 /\ t.len \in Nat
  BY DEF HeadType
<1> QED BY <1>1 DEF Size

LEMMA TokenType ==
  ASSUME NEW toks, IsEncoding(toks), NEW i \in 1..Len(toks)
  PROVE  /\ toks[i] \in HeadType /\ Size(toks[i]) \in Nat \ {0}
         /\ Nesting(toks[i]) \in -1..1
<1>1. toks[i] \in HeadType
  BY DEF IsEncoding
<1>2. Size(toks[i]) \in Nat \ {0}
  BY <1>1, SizeType
<1>3. Nesting(toks[i]) \in -1..1
  BY DEF Nesting
<1> QED BY <1>1, <1>2, <1>3

LEMMA StartsAreSums ==
  ASSUME NEW toks, IsEncoding(toks)
  PROVE  /\ Starts(toks) \in [1..Len(toks) + 1 -> Nat]
         /\ Starts(toks)[1] = 0
         /\ \A i \in 1..Len(toks) : Starts(toks)[i + 1] = Starts(toks)[i] + Size(toks[i])
<1> DEFINE N == Len(toks)
           Sum(g) == [i \in 1..N + 1 |-> IF i = 1 THEN 0 ELSE g[i - 1] + Size(toks[i - 1])]
           F == [n \in Nat |-> [s \in Nat |-> s + (IF n + 1 \in 1..N THEN Size(toks[n + 1]) ELSE 0)]]
           st == Starts(toks)
<1>1. N \in Nat
  BY DEF IsEncoding
<1>2. \A i \in 1..N : Size(toks[i]) \in Nat
  BY TokenType
<1>3. PICK f : f \in [Nat -> Nat] /\ f[0] = 0 /\ \A n \in Nat : f[n + 1] = F[n][f[n]]
  <2>1. F \in [Nat -> [Nat -> Nat]]
    BY <1>2
  <2>2. 0 \in Nat
    OBVIOUS
  <2>3. \E f : GoesOnBy(f, Nat, 0, F)
    <3> HIDE DEF F
    <3> QED BY <2>1, <2>2, RecursiveFunction
  <2> QED BY <2>3 DEF GoesOnBy
<1> DEFINE g == [i \in 1..N + 1 |-> f[i - 1]]
<1>4. g = Sum(g)
  <2>1. ASSUME NEW i \in 1..N + 1 PROVE g[i] = IF i = 1 THEN 0 ELSE g[i - 1] + Size(toks[i - 1])
    <3>1. CASE i = 1
      BY <1>3, <3>1
    <3>2. CASE i # 1
      <4>1. i - 2 \in Nat /\ (i - 2) + 1 = i - 1 /\ i - 1 \in 1..N /\ i - 1 \in 1..N + 1
        BY <1>1, <3>2
      <4>2. f[i - 1] = F[i - 2][f[i - 2]]
        BY <1>3, <4>1
      <4>3. f[i - 1] = f[i - 2] + Size(toks[i - 1])
        BY <4>1, <4>2, <1>3
      <4> QED BY <1>1, <4>1, <4>3, <3>2
    <3> QED BY <3>1, <3>2
  <2> QED BY <2>1
<1>5. st = Sum(st)
  <2>1. \E ff : ff = Sum(ff)
    BY <1>4
  <2>2. st = CHOOSE ff : ff = Sum(ff)
    BY DEF Starts
  <2> HIDE DEF Sum, st
  <2> QED BY <2>1, <2>2
<1> HIDE DEF st
<1>6. \A i \in 1..N + 1 : st[i] = IF i = 1 THEN 0 ELSE st[i - 1] + Size(toks[i - 1])
  BY <1>5
<1> HIDE DEF N, Sum, F, g
<1>7. ASSUME NEW i \in 1..N PROVE st[i + 1] = st[i] + Size(toks[i])
  <2>1. i + 1 \in 1..N + 1 /\ i + 1 # 1 /\ (i + 1) - 1 = i
    BY <1>1
  <2> QED BY <1>6, <2>1
<1>8. \A n \in Nat : n + 1 \in 1..N + 1 => st[n + 1] \in Nat
  <2> DEFINE T == {n \in Nat : n + 1 \in 1..N + 1 => st[n + 1] \in Nat}
  <2>1. 0 \in T
    BY <1>1, <1>6
  <2>2. ASSUME NEW n \in Nat, n \in T PROVE n + 1 \in T
    <3>1. CASE n + 1 + 1 \in 1..N + 1
      <4>1. n + 1 \in 1..N /\ n + 1 \in 1..N + 1
        BY <1>1, <3>1
      <4> QED BY <1>2, <1>7, <2>2, <4>1
    <3> QED BY <3>1
  <2>3. \A n \in Nat : n \in T
    <3> HIDE DEF T
    <3> QED BY <2>1, <2>2, NatSetInduction
  <2> QED BY <2>3
<1>9. \A i \in 1..N + 1 : st[i] \in Nat
  <2> TAKE i \in 1..N + 1
  <2>1. i - 1 \in Nat /\ (i - 1) + 1 = i
    BY <1>1
  <2> QED BY <1>8, <2>1
<1>10. st \in [1..N + 1 -> Nat] /\ st[1] = 0
  <2>1. st = [i \in 1..N + 1 |-> IF i = 1 THEN 0 ELSE st[i - 1] + Size(toks[i - 1])]
    BY <1>5 DEF Sum
  <2> QED BY <1>1, <1>6, <1>9, <2>1
<1> QED BY <1>7, <1>10 DEF st, N

LEMMA DepthsAreSums ==
  ASSUME NEW toks, IsEncoding(toks)
  PROVE  /\ Depths(toks) \in [0..Len(toks) -> Int]
         /\ Depths(toks)[0] = 0
         /\ \A i \in 1..Len(toks) : Depths(toks)[i] = Depths(toks)[i - 1] + Nesting(toks[i])
<1> DEFINE N == Len(toks)
           Sum(g) == [i \in 0..N |-> IF i = 0 THEN 0 ELSE g[i - 1] + Nesting(toks[i])]
           F == [n \in Nat |-> [s \in Int |-> s + (IF n + 1 \in 1..N THEN Nesting(toks[n + 1]) ELSE 0)]]
           dp == Depths(toks)
<1>1. N \in Nat
  BY DEF IsEncoding
<1>2. \A i \in 1..N : Nesting(toks[i]) \in Int
  BY TokenType
<1>3. PICK f : f \in [Nat -> Int] /\ f[0] = 0 /\ \A n \in Nat : f[n + 1] = F[n][f[n]]
  <2>1. F \in [Nat -> [Int -> Int]]
    BY <1>2
  <2>2. 0 \in Int
    OBVIOUS
  <2>3. \E f : GoesOnBy(f, Int, 0, F)
    <3> HIDE DEF F
    <3> QED BY <2>1, <2>2, RecursiveFunction
  <2> QED BY <2>3 DEF GoesOnBy
<1> DEFINE g == [i \in 0..N |-> f[i]]
<1>4. g = Sum(g)
  <2>1. ASSUME NEW i \in 0..N PROVE g[i] = IF i = 0 THEN 0 ELSE g[i - 1] + Nesting(toks[i])
    <3>1. CASE i = 0
      BY <1>3, <3>1
    <3>2. CASE i # 0
      <4>1. i - 1 \in Nat /\ (i - 1) + 1 = i /\ i \in 1..N /\ i - 1 \in 0..N
        BY <1>1, <3>2
      <4>2. f[i] = F[i - 1][f[i - 1]]
        BY <1>3, <4>1
      <4>3. f[i] = f[i - 1] + Nesting(toks[i])
        BY <4>1, <4>2, <1>3
      <4> QED BY <4>1, <4>3, <3>2
    <3> QED BY <3>1, <3>2
  <2> QED BY <2>1
<1>5. dp = Sum(dp)
  <2>1. \E ff : ff = Sum(ff)
    BY <1>4
  <2>2. dp = CHOOSE ff : ff = Sum(ff)
    BY DEF Depths
  <2> HIDE DEF Sum, dp
  <2> QED BY <2>1, <2>2
<1> HIDE DEF dp
<1>6. \A i \in 0..N : dp[i] = IF i = 0 THEN 0 ELSE dp[i - 1] + Nesting(toks[i])
  BY <1>5
<1>7. \A n \in Nat : n \in 0..N => dp[n] \in Int
  <2> DEFINE T == {n \in Nat : n \in 0..N => dp[n] \in Int}
  <2>1. 0 \in T
    BY <1>1, <1>6
  <2>2. ASSUME NEW n \in Nat, n \in T PROVE n + 1 \in T
    <3>1. CASE n + 1 \in 0..N
      <4>1. n \in 0..N /\ n + 1 # 0 /\ (n + 1) - 1 = n /\ n + 1 \in 1..N
        BY <1>1, <3>1
      <4>2. dp[n + 1] = dp[n] + Nesting(toks[n + 1])
        BY <1>6, <3>1, <4>1
      <4> QED BY <1>2, <2>2, <4>1, <4>2
    <3> QED BY <3>1
  <2>3. \A n \in Nat : n \in T
    <3> HIDE DEF T
    <3> QED BY <2>1, <2>2, NatSetInduction
  <2> QED BY <2>3
<1>8. dp \in [0..N -> Int] /\ dp[0] = 0
  BY <1>1, <1>5, <1>6, <1>7
<1>9. \A i \in 1..N : dp[i] = dp[i - 1] + Nesting(toks[i])
  BY <1>1, <1>6
<1> QED BY <1>8, <1>9 DEF dp

LEMMA StartsIncrease ==
  ASSUME NEW toks, IsEncoding(toks), NEW i \in 1..Len(toks) + 1, NEW j \in 1..Len(toks) + 1, i < j
  PROVE  Starts(toks)[i] < Starts(toks)[j]
<1> DEFINE N == Len(toks)
           T == {n \in Nat : i + n + 1 \in 1..N + 1 => Starts(toks)[i] < Starts(toks)[i + n + 1]}
<1>1. N \in Nat
  BY DEF IsEncoding
<1>2. ASSUME NEW k \in 1..N
      PROVE  Starts(toks)[k] \in Nat /\ Starts(toks)[k + 1] \in Nat /\ Starts(toks)[k] < Starts(toks)[k + 1]
  <2>1. Starts(toks)[k + 1] = Starts(toks)[k] + Size(toks[k]) /\ Size(toks[k]) \in Nat \ {0}
    BY TokenType, StartsAreSums
  <2>2. Starts(toks)[k] \in Nat
    <3>1. k \in 1..N + 1
      BY <1>1
    <3> QED BY StartsAreSums, <3>1
  <2> QED BY <2>1, <2>2
<1>3. 0 \in T
  <2>1. i + 1 \in 1..N + 1 => i \in 1..N
    BY <1>1
  <2> QED BY <1>2, <2>1
<1>4. ASSUME NEW n \in Nat, n \in T PROVE n + 1 \in T
  <2>1. CASE i + (n + 1) + 1 \in 1..N + 1
    <3>1. i + n + 1 \in 1..N /\ (i + n + 1) + 1 = i + (n + 1) + 1 /\ i + n + 1 \in 1..N + 1 /\ i \in 1..N
      BY <1>1, <2>1
    <3>2. Starts(toks)[i] < Starts(toks)[i + n + 1]
      BY <1>4, <3>1
    <3>3. Starts(toks)[i + n + 1] < Starts(toks)[i + (n + 1) + 1]
      BY <1>2, <3>1
    <3> QED BY <1>2, <3>1, <3>2, <3>3
  <2> QED BY <2>1
<1>5. \A n \in Nat : n \in T
  <2> HIDE DEF T
  <2> QED BY <1>3, <1>4, NatSetInduction
<1>6. j - i - 1 \in Nat /\ i + (j - i - 1) + 1 = j
  BY <1>1
<1> QED BY <1>5, <1>6

LEMMA LeastExists ==
  ASSUME NEW S, S \subseteq Nat, S # {}
  PROVE  Least(S) \in S /\ \A j \in S : Least(S) <= j
<1>1. PICK i \in S : \A j \in S : ~ (<<j, i>> \in OpToRel(<, Nat))
  BY NatLessThanWellFounded, WFMin
<1>2. \A j \in S : ~ (j < i)
  BY <1>1 DEF OpToRel
<1>3. \E x \in S : \A j \in S : x <= j
  BY <1>2
<1> QED BY <1>3 DEF Least

\* What the parts of a document say of its tokens.
LEMMA DocumentParts ==
  ASSUME NEW x, IsDocument(x)
  PROVE  /\ IsEncoding(x.toks)
         /\ x.start = Starts(x.toks) /\ x.depth = Depths(x.toks)
         /\ x.len \in 0..x.start[Len(x.toks) + 1]
         /\ \A i \in 1..Len(x.toks) :
              x.last[i] = IF Closing(x.toks, i) = {} THEN 0 ELSE Least(Closing(x.toks, i))
         /\ \A p \in 0..x.len - 1 :
              x.head[p] = IF {i \in 1..Len(x.toks) : x.start[i] = p} = {} THEN Garbage
                          ELSE x.toks[CHOOSE i \in {i \in 1..Len(x.toks) : x.start[i] = p} : TRUE]
<1>1. IsEncoding(x.toks) /\ x.len \in 0..Starts(x.toks)[Len(x.toks) + 1] /\ x = Document(x.toks, x.len)
  BY DEF IsDocument, ByteLength
<1>2. x.start = Starts(x.toks) /\ x.depth = Depths(x.toks)
  BY <1>1 DEF Document
<1>3. x.last = [i \in 1..Len(x.toks) |->
                  IF Closing(x.toks, i) = {} THEN 0 ELSE Least(Closing(x.toks, i))]
  BY <1>1 DEF Document
<1>4. x.head = [p \in 0..x.len - 1 |->
                  IF {i \in 1..Len(x.toks) : Starts(x.toks)[i] = p} = {} THEN Garbage
                  ELSE x.toks[CHOOSE i \in {i \in 1..Len(x.toks) : Starts(x.toks)[i] = p} : TRUE]]
  BY <1>1 DEF Document
<1> QED BY <1>1, <1>2, <1>3, <1>4

\* Shapes of the parts of a document.
LEMMA DocumentTypes ==
  ASSUME NEW x, IsDocument(x)
  PROVE  /\ Len(x.toks) \in Nat /\ x.toks \in Seq(HeadType)
         /\ x.start \in [1..Len(x.toks) + 1 -> Nat] /\ x.start[1] = 0
         /\ \A i \in 1..Len(x.toks) : x.start[i + 1] = x.start[i] + Size(x.toks[i])
         /\ \A i, j \in 1..Len(x.toks) + 1 : i < j => x.start[i] < x.start[j]
         /\ x.depth \in [0..Len(x.toks) -> Int] /\ x.depth[0] = 0
         /\ \A i \in 1..Len(x.toks) : x.depth[i] = x.depth[i - 1] + Nesting(x.toks[i])
         /\ x.len \in Nat /\ x.len <= x.start[Len(x.toks) + 1]
<1>1. /\ IsEncoding(x.toks) /\ x.start = Starts(x.toks) /\ x.depth = Depths(x.toks)
      /\ x.len \in 0..x.start[Len(x.toks) + 1]
  BY DocumentParts
<1>2. x.toks \in Seq(HeadType) /\ Len(x.toks) \in Nat
  BY <1>1 DEF IsEncoding
<1>3. Len(x.toks) + 1 \in 1..Len(x.toks) + 1
  BY <1>2
<1>4. x.start[Len(x.toks) + 1] \in Nat
  BY <1>1, <1>3, StartsAreSums
<1>5. x.len \in Nat /\ x.len <= x.start[Len(x.toks) + 1]
  BY <1>1, <1>4
<1> QED BY <1>1, <1>2, <1>5, StartsAreSums, DepthsAreSums, StartsIncrease

LEMMA OnlyTokenAt ==
  ASSUME NEW x, IsDocument(x), NEW p \in 0..x.len - 1, NEW i,
         {k \in 1..Len(x.toks) : x.start[k] = p} = {i}
  PROVE  x.head[p] = x.toks[i]
<1> DEFINE at == {k \in 1..Len(x.toks) : x.start[k] = p}
<1>1. x.head[p] = IF at = {} THEN Garbage ELSE x.toks[CHOOSE k \in at : TRUE]
  BY DocumentParts, SMTT(20)
<1>2. at = {i}
  OBVIOUS
<1> HIDE DEF at
<1> QED BY <1>1, <1>2

\* The byte where a token starts is its head.
LEMMA HeadOfToken ==
  ASSUME NEW x, IsDocument(x), NEW i \in 1..Len(x.toks), NEW p, p = x.start[i], p < x.len
  PROVE  x.head[p] = x.toks[i]
<1> DEFINE at == {k \in 1..Len(x.toks) : x.start[k] = p}
<1>1. i \in 1..Len(x.toks) + 1 /\ p \in Nat
  <2>1. i \in 1..Len(x.toks) + 1
    BY DocumentTypes
  <2> QED BY <2>1, DocumentTypes
<1>2. at = {i}
  <2>1. \A k \in at : k = i
    <3> TAKE k \in at
    <3>1. k \in 1..Len(x.toks) + 1
      BY DocumentTypes
    <3>2. ~ (i < k) /\ ~ (k < i)
      BY <1>1, <3>1, DocumentTypes
    <3> QED BY <3>2
  <2> QED BY <2>1
<1>3. p \in 0..x.len - 1
  BY <1>1, DocumentTypes
<1> QED BY <1>2, <1>3, OnlyTokenAt

\* Any byte, taken for a head.
LEMMA HeadsAreHeads ==
  ASSUME NEW x, IsDocument(x), NEW p \in 0..x.len - 1
  PROVE  x.head[p] \in HeadType
<1> DEFINE at == {k \in 1..Len(x.toks) : x.start[k] = p}
<1>1. x.head[p] = IF at = {} THEN Garbage ELSE x.toks[CHOOSE k \in at : TRUE]
  BY DocumentParts, SMTT(20)
<1>2. Garbage \in HeadType
  BY DEF Garbage, HeadType, ElementTypes, Tags
<1>3. CASE at # {}
  <2>1. (CHOOSE k \in at : TRUE) \in at
    BY <1>3
  <2>2. (CHOOSE k \in at : TRUE) \in 1..Len(x.toks)
    BY <2>1
  <2>3. IsEncoding(x.toks)
    BY DocumentParts
  <2>4. x.toks[CHOOSE k \in at : TRUE] \in HeadType
    BY <2>2, <2>3, TokenType
  <2> QED BY <1>1, <1>3, <2>4
<1> QED BY <1>1, <1>2, <1>3

\* The first token behind a container that closes it is its last one.
LEMMA LastOfContainer ==
  ASSUME NEW x, IsDocument(x), NEW i \in 1..Len(x.toks), x.toks[i].type \in Containers
  PROVE  /\ \A k \in i + 1..Len(x.toks) :
              /\ x.depth[k] = x.depth[i] - 1
              /\ \A j \in i + 1..k - 1 : x.depth[j] # x.depth[i] - 1
              => x.last[i] = k
         /\ x.last[i] # 0 =>
              /\ x.last[i] \in i + 1..Len(x.toks) /\ x.depth[x.last[i]] = x.depth[i] - 1
              /\ \A j \in i + 1..x.last[i] - 1 : x.depth[j] # x.depth[i] - 1
<1> DEFINE C == Closing(x.toks, i)
<1>1. C = {j \in i + 1..Len(x.toks) : x.depth[j] = x.depth[i] - 1}
  <2>1. x.depth[i] = x.depth[i - 1] + Nesting(x.toks[i]) /\ x.depth[i - 1] \in Int
    <3>1. i - 1 \in 0..Len(x.toks)
      BY DocumentTypes
    <3> QED BY <3>1, DocumentTypes
  <2>2. Nesting(x.toks[i]) = 1
    BY DEF Nesting
  <2>3. x.depth[i - 1] = x.depth[i] - 1
    BY <2>1, <2>2
  <2>4. x.depth = Depths(x.toks)
    BY DocumentParts
  <2> QED BY <2>3, <2>4 DEF Closing
<1>2. x.last[i] = IF C = {} THEN 0 ELSE Least(C)
  BY DocumentParts
<1>3. C \subseteq Nat
  BY <1>1, DocumentTypes
<1> HIDE DEF C
<1>4. C # {} => Least(C) \in C /\ \A j \in C : Least(C) <= j
  BY <1>3, LeastExists
<1>5. ASSUME NEW k \in i + 1..Len(x.toks), x.depth[k] = x.depth[i] - 1,
             \A j \in i + 1..k - 1 : x.depth[j] # x.depth[i] - 1
      PROVE  x.last[i] = k
  <2>1. k \in C
    BY <1>1, <1>5
  <2>2. Least(C) \in C /\ Least(C) <= k
    BY <1>4, <2>1
  <2>3. Least(C) \in i + 1..Len(x.toks) /\ x.depth[Least(C)] = x.depth[i] - 1
    BY <1>1, <2>2
  <2>4. Least(C) \notin i + 1..k - 1
    BY <1>5, <2>3
  <2>5. Len(x.toks) \in Nat
    BY DocumentTypes
  <2> QED BY <1>2, <2>1, <2>2, <2>3, <2>4, <2>5
<1>6. ASSUME x.last[i] # 0
      PROVE  /\ x.last[i] \in i + 1..Len(x.toks) /\ x.depth[x.last[i]] = x.depth[i] - 1
             /\ \A j \in i + 1..x.last[i] - 1 : x.depth[j] # x.depth[i] - 1
  <2>1. x.last[i] = Least(C) /\ Least(C) \in C /\ \A j \in C : Least(C) <= j
    BY <1>2, <1>4, <1>6
  <2>2. Len(x.toks) \in Nat
    BY DocumentTypes
  <2>3. x.last[i] \in i + 1..Len(x.toks) /\ x.depth[x.last[i]] = x.depth[i] - 1
    BY <1>1, <2>1
  <2>4. ASSUME NEW j \in i + 1..x.last[i] - 1, x.depth[j] = x.depth[i] - 1 PROVE FALSE
    <3>1. j \in i + 1..Len(x.toks)
      BY <2>2, <2>3
    <3>2. j \in C
      BY <1>1, <2>4, <3>1
    <3> QED BY <2>1, <2>2, <2>3, <3>2
  <2> QED BY <2>3, <2>4
<1> QED BY <1>5, <1>6

LEMMA LastOfOther ==
  ASSUME NEW x, IsDocument(x), NEW i \in 1..Len(x.toks), x.toks[i].type \notin Containers
  PROVE  x.last[i] = i
<1>1. Closing(x.toks, i) = {i}
  BY DEF Closing
<1>2. x.last[i] = IF Closing(x.toks, i) = {} THEN 0 ELSE Least(Closing(x.toks, i))
  BY DocumentParts
<1>3. x.last[i] = Least({i})
  BY <1>1, <1>2
<1> QED BY <1>3 DEF Least
-----------------------------------------------------------------------------
(***************************************************************************)
(* Steps of the reader.                                                    *)
(***************************************************************************)
LEMMA ReadDataSteps ==
  ASSUME IsDocument(doc), NEW r \in ReaderType, NEW n \in Nat, NEW o, o = ReadData(r, n)
  PROVE  /\ o.val \in ReaderType /\ o.err \in Errors /\ o.err # EndOfTLV /\ o.err # Crash
         /\ o.val.at >= r.at /\ o.val.elem = r.elem /\ o.val.container = r.container
         /\ o.err = NoError => o.val.at = r.at + n
<1>1. doc.len \in Nat /\ r.at \in 0..doc.len
  BY DocumentTypes DEF ReaderType
<1>2. CASE n <= doc.len - r.at
  <2>1. o = OK([r EXCEPT !.at = r.at + n])
    BY <1>2 DEF ReadData
  <2>2. r.at + n \in 0..doc.len
    BY <1>1, <1>2
  <2> QED BY <1>1, <2>1, <2>2 DEF OK, Outcome, ReaderType, Errors, NoError, EndOfTLV, Crash
<1>3. CASE ~ (n <= doc.len - r.at)
  <2>1. o = Outcome([r EXCEPT !.at = doc.len], "TLV_UNDERRUN")
    BY <1>3 DEF ReadData
  <2> QED BY <1>1, <2>1 DEF Outcome, ReaderType, Errors, NoError, EndOfTLV, Crash
<1> QED BY <1>2, <1>3

\* ReadElement goes to the element at the read point.
LEMMA ReadElementSteps ==
  ASSUME IsDocument(doc), NEW r \in ReaderType, NEW o, o = ReadElement(r)
  PROVE  /\ o.val \in ReaderType /\ o.err \in Errors /\ o.err # Crash
         /\ o.val.at >= r.at /\ o.val.container = r.container
         /\ o.err = EndOfTLV => r.at = doc.len /\ o.val = r
         /\ o.err = NoError =>
              /\ r.at < doc.len /\ o.val.elem = doc.head[r.at] /\ o.val.elem \in HeadType
              /\ o.val.elem.type # "invalid"
              /\ o.val.at = r.at + o.val.elem.head
              /\ o.val.elem.type \in Strings => o.val.elem.len <= doc.len - o.val.at
<1>1. doc.len \in Nat /\ r.at \in 0..doc.len
  BY DocumentTypes DEF ReaderType
<1>2. CASE r.at = doc.len
  <2>1. o = Outcome(r, EndOfTLV)
    BY <1>2 DEF ReadElement
  <2> QED BY <1>1, <1>2, <2>1 DEF Outcome, Errors, NoError, EndOfTLV, Crash
<1>3. CASE r.at # doc.len
  <2> DEFINE h == doc.head[r.at]
             s == [r EXCEPT !.elem = h]
             q == ReadData(s, h.head)
  <2>1. r.at \in 0..doc.len - 1 /\ r.at < doc.len
    BY <1>1, <1>3
  <2>2. h \in HeadType /\ h.head \in Nat \ {0}
    <3>1. h \in HeadType
      BY <2>1, HeadsAreHeads
    <3>2. h.head \in 1..17
      BY <3>1 DEF HeadType
    <3> QED BY <3>1, <3>2
  <2>3. s \in ReaderType /\ s.at = r.at /\ s.elem = h /\ s.container = r.container
    <3> HIDE DEF h
    <3> QED BY <2>2 DEF ReaderType
  <2>4. o = IF h.type = "invalid" THEN Outcome(s, "INVALID_TLV_ELEMENT")
            ELSE Then(q, LAMBDA t : Outcome(t, VerifyElement(t)))
    BY <1>3 DEF ReadElement
  <2>5. CASE h.type = "invalid"
    <3>1. o = Outcome(s, "INVALID_TLV_ELEMENT")
      BY <2>4, <2>5
    <3> HIDE DEF h, s, q
    <3>2. o.val = s /\ o.err = "INVALID_TLV_ELEMENT"
      BY <3>1 DEF Outcome
    <3>3. o.err \in Errors \ {NoError, EndOfTLV, Crash}
      BY <3>2 DEF Errors, NoError, EndOfTLV, Crash
    <3>4. r.at \in Int
      BY <1>1
    <3> QED BY <2>3, <3>2, <3>3, <3>4
  <2>6. CASE h.type # "invalid" /\ q.err # NoError
    <3>1. o = q
      BY <2>4, <2>6 DEF Then
    <3> HIDE DEF h, s, q
    <3>2. /\ q.val \in ReaderType /\ q.err \in Errors /\ q.err # EndOfTLV /\ q.err # Crash
          /\ q.val.at >= s.at /\ q.val.elem = s.elem /\ q.val.container = s.container
      BY <2>2, <2>3, ReadDataSteps DEF q
    <3> QED BY <2>3, <2>6, <3>1, <3>2
  <2>7. CASE h.type # "invalid" /\ q.err = NoError
    <3>1. o = Outcome(q.val, VerifyElement(q.val))
      BY <2>4, <2>7 DEF Then
    <3> HIDE DEF h, s, q
    <3>2. /\ q.val \in ReaderType /\ q.val.at >= s.at /\ q.val.elem = s.elem
          /\ q.val.container = s.container /\ q.val.at = s.at + h.head
      BY <2>2, <2>3, <2>7, ReadDataSteps DEF q
    <3>3. o.val = q.val /\ o.err = VerifyElement(q.val)
      BY <3>1 DEF Outcome
    <3>4. o.err \in Errors \ {EndOfTLV, Crash}
      BY <3>3 DEF VerifyElement, VerifyTag, Errors, NoError, EndOfTLV, Crash
    <3>5. o.err = NoError /\ o.val.elem.type \in Strings => ~ (doc.len - o.val.at < o.val.elem.len)
      BY <3>3 DEF VerifyElement, NoError, Strings
    <3>6. o.val.elem.len \in Nat /\ o.val.at \in 0..doc.len
      BY <2>2, <2>3, <3>2, <3>3 DEF HeadType, ReaderType
    <3>7. o.val.elem = h /\ o.val.container = r.container /\ o.val.at = r.at + h.head
      BY <2>3, <3>2, <3>3
    <3> QED BY <1>1, <2>1, <2>2, <2>3, <2>7, <3>2, <3>3, <3>4, <3>5, <3>6, <3>7 DEF h
  <2> QED BY <2>5, <2>6, <2>7
<1> QED BY <1>2, <1>3
-----------------------------------------------------------------------------
(***************************************************************************)
(* Where a reader is among the tokens.                                     *)
(***************************************************************************)
\* The bytes of the element that the reader has not read.
Unread(r) == IF r.elem.type \in Strings THEN r.elem.len ELSE 0

\* e is what token t says, but its text may have been read.
OfToken(e, t) ==
  /\ e.type = t.type /\ e.tag = t.tag /\ e.head = t.head
  /\ e.len = t.len \/ (e.type = "utf8" /\ e.len = 0)

\* The reader is on token j, or behind it and on no element.
Passed(r, j) ==
  /\ j \in 0..Len(doc.toks)
  /\ r.at + Unread(r) = doc.start[j + 1] /\ doc.start[j + 1] <= doc.len
  /\ r.elem = NoElement \/ (j >= 1 /\ OfToken(r.elem, doc.toks[j]))

LEMMA UnreadType ==
  ASSUME NEW r \in ReaderType
  PROVE  r.elem.len \in Nat /\ Unread(r) \in Nat /\ r.at \in Nat
<1>1. r.elem \in HeadType \cup {NoElement} /\ r.at \in 0..doc.len
  BY DEF ReaderType
<1>2. r.elem.len \in Nat
  <2>1. CASE r.elem \in HeadType
    BY <2>1 DEF HeadType
  <2>2. CASE r.elem = NoElement
    BY <2>2 DEF NoElement
  <2> QED BY <1>1, <2>1, <2>2
<1> QED BY <1>1, <1>2 DEF Unread

\* Skipping the bytes of the element that the reader is on.
LEMMA SkipDataSteps ==
  ASSUME IsDocument(doc), NEW r \in ReaderType, NEW o, o = SkipData(r)
  PROVE  /\ o.val \in ReaderType /\ o.err \in Errors /\ o.err # EndOfTLV /\ o.err # Crash
         /\ o.val.at >= r.at /\ o.val.elem = r.elem /\ o.val.container = r.container
         /\ o.err = NoError => o.val.at = r.at + Unread(r)
         /\ \A j : Passed(r, j) => o.err = NoError /\ o.val.at = doc.start[j + 1]
<1>1. r.elem.len \in Nat /\ r.at \in Nat
  BY UnreadType
<1>2. CASE r.elem.type \in Strings
  <2>1. o = ReadData(r, r.elem.len)
    BY <1>2 DEF SkipData
  <2>2. /\ o.val \in ReaderType /\ o.err \in Errors /\ o.err # EndOfTLV /\ o.err # Crash
        /\ o.val.at >= r.at /\ o.val.elem = r.elem /\ o.val.container = r.container
        /\ o.err = NoError => o.val.at = r.at + r.elem.len
    BY <1>1, <2>1, ReadDataSteps
  <2>3. Unread(r) = r.elem.len
    BY <1>2 DEF Unread
  <2>4. ASSUME NEW j, Passed(r, j) PROVE o.err = NoError /\ o.val.at = doc.start[j + 1]
    <3>1. r.at + r.elem.len = doc.start[j + 1] /\ doc.start[j + 1] <= doc.len
      BY <2>3, <2>4 DEF Passed
    <3>2. doc.len \in Nat
      BY DocumentTypes
    <3>3. r.elem.len <= doc.len - r.at
      BY <1>1, <3>1, <3>2
    <3>4. o = OK([r EXCEPT !.at = r.at + r.elem.len])
      BY <2>1, <3>3 DEF ReadData
    <3>5. o.err = NoError
      BY <3>4 DEF OK, Outcome
    <3> QED BY <2>2, <3>1, <3>5
  <2> QED BY <2>2, <2>3, <2>4
<1>3. CASE r.elem.type \notin Strings
  <2>1. o.val = r /\ o.err = NoError
    BY <1>3 DEF SkipData, OK, Outcome
  <2>2. Unread(r) = 0
    BY <1>3 DEF Unread
  <2>3. ASSUME NEW j, Passed(r, j) PROVE r.at = doc.start[j + 1]
    BY <1>1, <2>2, <2>3 DEF Passed
  <2> QED BY <1>1, <2>1, <2>2, <2>3 DEF Errors, NoError, EndOfTLV, Crash
<1> QED BY <1>2, <1>3

\* Behind token j, ReadElement goes to token j + 1.
LEMMA ReadElementPasses ==
  ASSUME IsDocument(doc), NEW r \in ReaderType, NEW j \in 0..Len(doc.toks), r.at = doc.start[j + 1],
         NEW o, o = ReadElement(r), o.err = NoError
  PROVE  j < Len(doc.toks) /\ o.val.elem = doc.toks[j + 1] /\ Passed(o.val, j + 1)
<1> DEFINE N == Len(doc.toks)
<1>1. /\ o.val \in ReaderType /\ r.at < doc.len /\ o.val.elem = doc.head[r.at]
      /\ o.val.elem \in HeadType /\ o.val.at = r.at + o.val.elem.head
      /\ o.val.elem.type \in Strings => o.val.elem.len <= doc.len - o.val.at
  BY ReadElementSteps
<1>2. N \in Nat /\ doc.len \in Nat /\ doc.len <= doc.start[N + 1]
  BY DocumentTypes
<1>3. j < N
  <2>1. r.at \in 0..doc.len
    BY DEF ReaderType
  <2>2. CASE j = N
    <3>1. r.at = doc.start[N + 1]
      BY <2>2
    <3> QED BY <1>1, <1>2, <2>1, <3>1
  <2> QED BY <1>2, <2>2
<1>4. j + 1 \in 1..N /\ j + 1 \in 1..N + 1 /\ j + 1 + 1 \in 1..N + 1
  BY <1>2, <1>3
<1>5. o.val.elem = doc.toks[j + 1]
  BY <1>1, <1>4, HeadOfToken
<1>6. doc.start[j + 1 + 1] = doc.start[j + 1] + Size(doc.toks[j + 1])
  BY <1>4, DocumentTypes
<1>7. o.val.elem.len \in Nat /\ o.val.elem.head \in Nat
  BY <1>1, SizeType
<1>8. o.val.elem.len > 0 => o.val.elem.type \in Strings
  BY <1>4, <1>5, DocumentParts DEF IsEncoding
<1>9. Unread(o.val) = o.val.elem.len
  BY <1>7, <1>8 DEF Unread
<1>10. doc.start[j + 1] \in Nat /\ o.val.at \in Nat /\ o.val.at <= doc.len
  <2>1. doc.start[j + 1] \in Nat
    BY <1>4, DocumentTypes
  <2>2. o.val.at \in 0..doc.len
    BY <1>1 DEF ReaderType
  <2> QED BY <1>2, <2>1, <2>2
<1>11. doc.start[j + 1 + 1] = o.val.at + Unread(o.val)
  BY <1>1, <1>5, <1>6, <1>7, <1>9, <1>10, SMTT(20) DEF Size
<1>12. doc.start[j + 1 + 1] <= doc.len
  BY <1>1, <1>2, <1>7, <1>8, <1>9, <1>10, <1>11, SMTT(20)
<1>13. OfToken(o.val.elem, doc.toks[j + 1])
  BY <1>5 DEF OfToken
<1> QED BY <1>3, <1>4, <1>5, <1>11, <1>12, <1>13 DEF Passed
-----------------------------------------------------------------------------
(***************************************************************************)
(* The loop of SkipToEndOfContainer.                                       *)
(***************************************************************************)
SkipState == [val : ReaderType, err : Errors, nest : Int, done : BOOLEAN]

FirstSkip(r) == [val |-> r, err |-> NoError, nest |-> 0, done |-> FALSE]

\* What one turn does, in any state.
LEMMA SkipTurnSteps ==
  ASSUME IsDocument(doc), NEW s \in SkipState, NEW outer \in ContainerTypes,
         NEW t, t = SkipTurn(s, outer)
  PROVE  /\ t \in SkipState
         /\ t.done \/ t.val.at >= s.val.at + 1
         /\ s.err # Crash => t.err # Crash
         /\ t.val.at >= s.val.at
<1> DEFINE n == s.nest + Nesting(s.val.elem)
           r == [s.val EXCEPT !.container = ContainerAfter(s.val, outer, n)]
           q == SkipData(r)
           o == Then(q, ReadElement)
<1>1. /\ s.val \in ReaderType /\ s.err \in Errors /\ s.nest \in Int /\ s.done \in BOOLEAN
      /\ s.val.at \in Nat
  <2>1. s.val \in ReaderType /\ s.err \in Errors /\ s.nest \in Int /\ s.done \in BOOLEAN
    BY DEF SkipState
  <2> QED BY <2>1, UnreadType
<1>2. t = IF s.done \/ n < 0 THEN [s EXCEPT !.done = TRUE]
          ELSE [val |-> o.val, err |-> o.err, nest |-> n, done |-> o.err # NoError]
  BY DEF SkipTurn
<1>3. CASE s.done \/ n < 0
  <2>1. t = [s EXCEPT !.done = TRUE]
    BY <1>2, <1>3
  <2>2. t \in SkipState /\ t.done /\ t.val = s.val /\ t.err = s.err
    BY <2>1 DEF SkipState
  <2> QED BY <1>1, <2>2
<1>4. CASE ~ (s.done \/ n < 0)
  <2>1. t = [val |-> o.val, err |-> o.err, nest |-> n, done |-> o.err # NoError]
    BY <1>2, <1>4
  <2>2. n \in Int
    <3>1. Nesting(s.val.elem) \in Int
      BY DEF Nesting
    <3> QED BY <1>1, <3>1
  <2>3. ContainerAfter(s.val, outer, n) \in ContainerTypes
    <3>1. s.val.container \in ContainerTypes
      BY <1>1 DEF ReaderType
    <3> QED BY <3>1 DEF ContainerAfter, ContainerTypes
  <2> HIDE DEF n
  <2>4. r \in ReaderType /\ r.at = s.val.at /\ r.elem = s.val.elem
    BY <1>1, <2>3 DEF ReaderType
  <2> HIDE DEF r
  <2>5. /\ q.val \in ReaderType /\ q.err \in Errors /\ q.err # Crash /\ q.val.at >= r.at
        /\ q.val.at \in Nat
    <3>1. q.val \in ReaderType /\ q.err \in Errors /\ q.err # Crash /\ q.val.at >= r.at
      BY <2>4, SkipDataSteps
    <3> QED BY <3>1, UnreadType
  <2>6. CASE q.err # NoError
    <3>1. o = q
      BY <2>6 DEF Then
    <3> HIDE DEF o, q
    <3>2. t.val = q.val /\ t.err = q.err /\ t.done
      <4>1. t.val = o.val /\ t.err = o.err /\ t.done = (o.err # NoError)
        BY <2>1
      <4>2. t.done
        BY <2>6, <3>1, <4>1, Zenon
      <4> QED BY <3>1, <4>1, <4>2
    <3>3. t \in SkipState
      BY <2>1, <2>2, <2>5, <3>1 DEF SkipState
    <3> QED BY <2>4, <2>5, <3>2, <3>3
  <2>7. CASE q.err = NoError
    <3> DEFINE e == ReadElement(q.val)
    <3>1. o = e
      BY <2>7 DEF Then
    <3> HIDE DEF o, q
    <3>2. /\ e.val \in ReaderType /\ e.err \in Errors /\ e.err # Crash /\ e.val.at >= q.val.at
          /\ e.err = NoError => e.val.at = q.val.at + e.val.elem.head /\ e.val.elem \in HeadType
      BY <2>5, ReadElementSteps
    <3>3. e.val.at \in Nat /\ (e.err = NoError => e.val.elem.head \in Nat \ {0})
      BY <3>2, UnreadType, SizeType
    <3> HIDE DEF e
    <3>4. t.val = e.val /\ t.err = e.err /\ t.done = (e.err # NoError)
      BY <2>1, <3>1
    <3>5. t \in SkipState
      BY <2>1, <2>2, <3>1, <3>2 DEF SkipState
    <3>6. t.done \/ t.val.at >= s.val.at + 1
      <4>1. CASE e.err = NoError
        <5>1. e.val.at >= s.val.at + 1
          BY <1>1, <2>4, <2>5, <3>2, <3>3, <4>1
        <5> QED BY <3>4, <5>1
      <4>2. CASE e.err # NoError
        BY <3>4, <4>2, Zenon
      <4> QED BY <4>1, <4>2
    <3>7. t.val.at >= s.val.at
      BY <1>1, <2>4, <2>5, <3>2, <3>3, <3>4
    <3> QED BY <3>2, <3>4, <3>5, <3>6, <3>7
  <2> QED BY <2>6, <2>7
<1> QED BY <1>3, <1>4

\* An invariant of the turns holds of the one that ends the loop.
LEMMA SkipLoop ==
  ASSUME IsDocument(doc), NEW r \in ReaderType, NEW I, I \subseteq SkipState, FirstSkip(r) \in I,
         \A s \in I : SkipTurn(s, r.container) \in I
  PROVE  \E s \in I : s.done /\ SkipToEndOfContainer(r) = Outcome(s.val, s.err)
<1> DEFINE outer == r.container
           a == FirstSkip(r)
           F == [n \in Nat |-> [s \in SkipState |-> SkipTurn(s, outer)]]
           Turns(g) == [n \in Nat |-> IF n = 0 THEN a ELSE SkipTurn(g[n - 1], outer)]
           turns == CHOOSE g : g = Turns(g)
           last == doc.len - r.at + 1
<1>1. outer \in ContainerTypes /\ r.at \in 0..doc.len /\ doc.len \in Nat
  BY DocumentTypes DEF ReaderType
<1>2. SkipToEndOfContainer(r) = Outcome(turns[last].val, turns[last].err)
  BY DEF SkipToEndOfContainer, FirstSkip
<1>3. turns = Turns(turns)
  <2>1. PICK f : f \in [Nat -> SkipState] /\ f[0] = a /\ \A n \in Nat : f[n + 1] = F[n][f[n]]
    <3>1. \A s \in SkipState : SkipTurn(s, outer) \in SkipState
      BY <1>1, SkipTurnSteps
    <3>2. F \in [Nat -> [SkipState -> SkipState]]
      BY <3>1
    <3>3. a \in SkipState
      OBVIOUS
    <3>4. \E f : GoesOnBy(f, SkipState, a, F)
      <4> HIDE DEF F, a
      <4> QED BY <3>2, <3>3, RecursiveFunction
    <3> HIDE DEF F, a
    <3> QED BY <3>4 DEF GoesOnBy
  <2>2. f = Turns(f)
    <3>1. ASSUME NEW n \in Nat PROVE f[n] = IF n = 0 THEN a ELSE SkipTurn(f[n - 1], outer)
      <4>1. CASE n = 0
        BY <2>1, <4>1
      <4>2. CASE n # 0
        <5>1. n - 1 \in Nat /\ (n - 1) + 1 = n
          BY <4>2
        <5>2. f[n] = F[n - 1][f[n - 1]] /\ f[n - 1] \in SkipState
          BY <2>1, <5>1
        <5>3. F[n - 1][f[n - 1]] = SkipTurn(f[n - 1], outer)
          BY <5>1, <5>2
        <5> QED BY <4>2, <5>2, <5>3
      <4> QED BY <4>1, <4>2
    <3> HIDE DEF a, F
    <3> QED BY <2>1, <3>1
  <2>3. \E g : g = Turns(g)
    BY <2>2
  <2> HIDE DEF Turns
  <2> QED BY <2>3
<1> HIDE DEF turns
<1>4. turns[0] = a /\ \A n \in Nat : turns[n + 1] = SkipTurn(turns[n], outer)
  <2>1. \A n \in Nat : turns[n] = IF n = 0 THEN a ELSE SkipTurn(turns[n - 1], outer)
    BY <1>3
  <2> HIDE DEF a
  <2> QED BY <2>1
<1>5. \A n \in Nat : turns[n] \in I /\ (turns[n].done \/ turns[n].val.at >= r.at + n)
  <2> DEFINE T == {n \in Nat : turns[n] \in I /\ (turns[n].done \/ turns[n].val.at >= r.at + n)}
  <2>1. 0 \in T
    <3>1. a.val = r /\ a \in I
      BY DEF FirstSkip
    <3> HIDE DEF a
    <3> QED BY <1>1, <1>4, <3>1
  <2>2. ASSUME NEW n \in Nat, n \in T PROVE n + 1 \in T
    <3> DEFINE s == turns[n]
               t == turns[n + 1]
    <3>1. s \in I /\ s \in SkipState /\ (s.done \/ s.val.at >= r.at + n)
      BY <2>2
    <3>2. t = SkipTurn(s, outer)
      BY <1>4
    <3>3. t \in I
      BY <3>1, <3>2
    <3>4. s.val.at \in Nat /\ t.val.at \in Nat
      <4>1. s.val \in ReaderType /\ t.val \in ReaderType
        <5> HIDE DEF s, t
        <5> QED BY <3>1, <3>3 DEF SkipState
      <4> QED BY <4>1, UnreadType
    <3>5. t.done \/ t.val.at >= r.at + (n + 1)
      <4>1. CASE s.done
        <5> HIDE DEF s, t
        <5>1. t = [s EXCEPT !.done = TRUE]
          BY <3>2, <4>1 DEF SkipTurn
        <5>2. s \in [val : ReaderType, err : Errors, nest : Int, done : BOOLEAN]
          BY <3>1 DEF SkipState
        <5>3. t.done
          BY <5>1, <5>2
        <5> QED BY <5>3
      <4>2. CASE ~ s.done
        <5>1. t.done \/ t.val.at >= s.val.at + 1
          <6> HIDE DEF s, t
          <6> QED BY <1>1, <3>1, <3>2, SkipTurnSteps
        <5> HIDE DEF s, t
        <5> QED BY <1>1, <3>1, <3>4, <4>2, <5>1
      <4> QED BY <4>1, <4>2
    <3> HIDE DEF s
    <3> QED BY <3>3, <3>5
  <2>3. \A n \in Nat : n \in T
    <3> HIDE DEF T
    <3> QED BY <2>1, <2>2, NatSetInduction
  <2> QED BY <2>3
<1>6. last \in Nat
  BY <1>1
<1>7. turns[last] \in I /\ turns[last].done
  <2>1. turns[last] \in I /\ (turns[last].done \/ turns[last].val.at >= r.at + last)
    BY <1>5, <1>6
  <2>2. turns[last].val \in ReaderType
    <3> HIDE DEF last
    <3> QED BY <2>1 DEF SkipState
  <2>3. turns[last].val.at \in 0..doc.len
    BY <2>2 DEF ReaderType
  <2>4. r.at + last = doc.len + 1
    BY <1>1
  <2> HIDE DEF last
  <2> QED BY <1>1, <2>1, <2>3, <2>4
<1> HIDE DEF last
<1> QED BY <1>2, <1>7
-----------------------------------------------------------------------------
(***************************************************************************)
(* Where skipping takes a reader.                                          *)
(***************************************************************************)
\* How many containers are open at the reader, the one that it is on left out.
LevelAt(r, j) == IF r.elem = NoElement THEN doc.depth[j] ELSE doc.depth[j - 1]

LEMMA LevelType ==
  ASSUME IsDocument(doc), NEW r, NEW j, Passed(r, j)
  PROVE  /\ j \in Nat /\ doc.depth[j] \in Int /\ LevelAt(r, j) \in Int
         /\ r.elem # NoElement => j \in 1..Len(doc.toks) /\ r.elem.type = doc.toks[j].type
         /\ doc.depth[j] = LevelAt(r, j) + Nesting(r.elem)
<1>1. j \in 0..Len(doc.toks) /\ (r.elem # NoElement => j >= 1 /\ OfToken(r.elem, doc.toks[j]))
  BY DEF Passed
<1>2. j \in Nat /\ doc.depth[j] \in Int
  <2>1. doc.depth \in [0..Len(doc.toks) -> Int] /\ Len(doc.toks) \in Nat
    BY DocumentTypes
  <2> QED BY <1>1, <2>1
<1>3. CASE r.elem = NoElement
  <2>1. Nesting(r.elem) = 0
    BY <1>3 DEF NoElement, Nesting, Containers
  <2>2. LevelAt(r, j) = doc.depth[j]
    BY <1>3 DEF LevelAt
  <2> QED BY <1>2, <1>3, <2>1, <2>2
<1>4. CASE r.elem # NoElement
  <2>1. j \in 1..Len(doc.toks) /\ r.elem.type = doc.toks[j].type
    BY <1>1, <1>2, <1>4, DocumentTypes DEF OfToken
  <2>2. Nesting(r.elem) = Nesting(doc.toks[j])
    BY <2>1 DEF Nesting
  <2>3. LevelAt(r, j) = doc.depth[j - 1]
    BY <1>4 DEF LevelAt
  <2>4. j - 1 \in 0..Len(doc.toks)
    BY <2>1, DocumentTypes
  <2>5. doc.depth[j - 1] \in Int /\ doc.depth[j] = doc.depth[j - 1] + Nesting(doc.toks[j])
    BY <2>1, <2>4, DocumentTypes
  <2> QED BY <1>2, <2>1, <2>2, <2>3, <2>5
<1> QED BY <1>3, <1>4

\* A turn of the loop reads the next token.
LEMMA SkipTurnPasses ==
  ASSUME IsDocument(doc), NEW s \in SkipState, NEW outer \in ContainerTypes,
         NEW t, t = SkipTurn(s, outer), NEW j, Passed(s.val, j), ~ s.done,
         s.nest + Nesting(s.val.elem) >= 0
  PROVE  /\ t.nest = s.nest + Nesting(s.val.elem)
         /\ t.done <=> t.err # NoError
         /\ t.err = NoError =>
              j < Len(doc.toks) /\ t.val.elem = doc.toks[j + 1] /\ Passed(t.val, j + 1)
         /\ t.err = EndOfTLV => doc.start[j + 1] = doc.len
<1> DEFINE n == s.nest + Nesting(s.val.elem)
           r == [s.val EXCEPT !.container = ContainerAfter(s.val, outer, n)]
           q == SkipData(r)
           o == Then(q, ReadElement)
<1>1. s.val \in ReaderType /\ s.nest \in Int
  BY DEF SkipState
<1>2. n \in Int /\ ~ (s.done \/ n < 0)
  <2>1. Nesting(s.val.elem) \in Int
    BY DEF Nesting
  <2> QED BY <1>1, <2>1
<1>3. t = [val |-> o.val, err |-> o.err, nest |-> n, done |-> o.err # NoError]
  BY <1>2 DEF SkipTurn
<1>4. t.val = o.val /\ t.err = o.err /\ t.nest = n /\ t.done = (o.err # NoError)
  BY <1>3
<1>5. t.done <=> t.err # NoError
  BY <1>4, Zenon
<1>6. ContainerAfter(s.val, outer, n) \in ContainerTypes
  <2>1. s.val.container \in ContainerTypes
    BY <1>1 DEF ReaderType
  <2> QED BY <2>1 DEF ContainerAfter, ContainerTypes
<1> HIDE DEF n
<1>7. r \in ReaderType /\ r.at = s.val.at /\ r.elem = s.val.elem
  BY <1>1, <1>6 DEF ReaderType
<1> HIDE DEF r
<1>8. Passed(r, j) /\ j \in 0..Len(doc.toks)
  BY <1>7 DEF Passed, Unread
<1>9. q.val \in ReaderType /\ q.err = NoError /\ q.val.at = doc.start[j + 1]
  BY <1>7, <1>8, SkipDataSteps
<1>10. o = ReadElement(q.val)
  BY <1>9 DEF Then
<1> HIDE DEF o, q
<1>11. o.err = NoError =>
         j < Len(doc.toks) /\ o.val.elem = doc.toks[j + 1] /\ Passed(o.val, j + 1)
  BY <1>8, <1>9, <1>10, ReadElementPasses
<1>12. o.err = EndOfTLV => q.val.at = doc.len
  BY <1>9, <1>10, ReadElementSteps
<1> QED BY <1>4, <1>5, <1>9, <1>11, <1>12 DEF n

\* The loop ends on the first token that closes the container the reader is in,
\* or, with END_OF_TLV, where the document ends before there is one.
LEMMA SkipToEnd ==
  ASSUME IsDocument(doc), NEW r \in ReaderType, NEW j, Passed(r, j),
         NEW b, b = LevelAt(r, j), NEW o, o = SkipToEndOfContainer(r)
  PROVE  /\ o.val \in ReaderType /\ o.err \in Errors /\ o.err # Crash /\ o.val.at >= r.at
         /\ o.err = NoError =>
              \E i \in j..Len(doc.toks) :
                /\ Passed(o.val, i) /\ o.val.elem.type = "end" /\ doc.depth[i] = b - 1
                /\ \A k \in j..i - 1 : doc.depth[k] >= b
         /\ o.err = EndOfTLV =>
              \E i \in j..Len(doc.toks) :
                doc.start[i + 1] = doc.len /\ \A k \in j..i : doc.depth[k] >= b
<1> DEFINE N == Len(doc.toks)
           Inside(i) == \A k \in j..i - 1 : doc.depth[k] >= b
           Going(s) == \E i \in j..N : /\ Passed(s.val, i) /\ s.nest = LevelAt(s.val, i) - b
                                      /\ s.nest >= 0 /\ Inside(i)
           AtEnd(s) == \E i \in j..N : /\ Passed(s.val, i) /\ s.val.elem.type = "end"
                                      /\ doc.depth[i] = b - 1 /\ Inside(i)
           CutOff(s) == \E i \in j..N : doc.start[i + 1] = doc.len /\ \A k \in j..i : doc.depth[k] >= b
           I == {s \in SkipState :
                   /\ s.err # Crash /\ s.val.at >= r.at
                   /\ ~ s.done => s.err = NoError /\ Going(s)
                   /\ s.done /\ s.err = NoError => AtEnd(s)
                   /\ s.done /\ s.err = EndOfTLV => CutOff(s)}
<1>1. N \in Nat /\ j \in 0..N /\ b \in Int /\ r.at \in Nat /\ r.container \in ContainerTypes
  BY DocumentTypes, LevelType, UnreadType DEF Passed, ReaderType
<1>2. FirstSkip(r) \in I
  <2> DEFINE s == FirstSkip(r)
  <2> SUFFICES s \in I
    OBVIOUS
  <2>1. s \in SkipState /\ s.val = r /\ s.err = NoError /\ s.nest = 0 /\ s.done = FALSE
    BY DEF FirstSkip, SkipState, Errors
  <2> HIDE DEF s
  <2>2. LevelAt(s.val, j) - b = 0 /\ Inside(j) /\ j \in j..N
    BY <1>1, <2>1
  <2>3. Going(s)
    BY <2>1, <2>2
  <2>4. s.err # Crash /\ s.val.at >= r.at
    BY <1>1, <2>1 DEF NoError, Crash
  <2>5. ~ s.done
    BY <2>1
  <2> HIDE DEF Going, CutOff, AtEnd
  <2> QED BY <2>1, <2>3, <2>4, <2>5
<1>3. ASSUME NEW s \in I PROVE SkipTurn(s, r.container) \in I
  <2> DEFINE t == SkipTurn(s, r.container)
  <2> SUFFICES t \in I
    OBVIOUS
  <2>1. s \in SkipState
    OBVIOUS
  <2>2. s.val.at \in Nat /\ s.nest \in Int /\ s.done \in BOOLEAN
    <3>1. s.val \in ReaderType /\ s.nest \in Int /\ s.done \in BOOLEAN
      BY <2>1 DEF SkipState
    <3> QED BY <3>1, UnreadType
  <2>3. t \in SkipState /\ t.err # Crash /\ t.val.at >= s.val.at
    BY <1>1, <2>1, SkipTurnSteps
  <2>4. t.val.at >= r.at
    <3>1. t.val \in ReaderType
      <4> HIDE DEF t
      <4> QED BY <2>3 DEF SkipState
    <3>2. t.val.at \in Nat
      BY <3>1, UnreadType
    <3>3. s.val.at >= r.at
      OBVIOUS
    <3> HIDE DEF t
    <3> QED BY <1>1, <2>2, <2>3, <3>2, <3>3
  <2>5. CASE s.done
    <3>1. t = [s EXCEPT !.done = TRUE]
      BY <2>5 DEF SkipTurn
    <3>2. t = s
      <4> HIDE DEF t
      <4> QED BY <2>1, <2>5, <3>1 DEF SkipState
    <3> QED BY <3>2
  <2>6. CASE ~ s.done
    <3>1. s.err = NoError /\ Going(s)
      BY <2>6
    <3>2. PICK i \in j..N : /\ Passed(s.val, i) /\ s.nest = LevelAt(s.val, i) - b
                            /\ s.nest >= 0 /\ Inside(i)
      BY <3>1
    <3> DEFINE n == s.nest + Nesting(s.val.elem)
    <3>3. /\ i \in Nat /\ doc.depth[i] \in Int /\ LevelAt(s.val, i) \in Int
          /\ s.val.elem # NoElement => i \in 1..N /\ s.val.elem.type = doc.toks[i].type
          /\ doc.depth[i] = LevelAt(s.val, i) + Nesting(s.val.elem)
      BY <3>2, LevelType
    <3>4. Nesting(s.val.elem) \in -1..1
      BY DEF Nesting
    <3>5. n = doc.depth[i] - b /\ n \in Int
      BY <1>1, <3>2, <3>3, <3>4, SMTT(20)
    <3>6. CASE n < 0
      <4>1. t = [s EXCEPT !.done = TRUE]
        BY <3>6 DEF SkipTurn
      <4>2. t.val = s.val /\ t.err = s.err /\ t.done
        <5> HIDE DEF t
        <5> QED BY <2>1, <4>1 DEF SkipState
      <4>3. Nesting(s.val.elem) = -1 /\ s.nest = 0
        BY <2>2, <3>2, <3>4, <3>6
      <4>4. s.val.elem.type = "end"
        BY <4>3 DEF Nesting
      <4>5. doc.depth[i] = b - 1
        BY <1>1, <3>2, <3>3, <4>3
      <4>6. AtEnd(t)
        BY <3>2, <4>2, <4>4, <4>5
      <4>7. t.err # EndOfTLV
        BY <3>1, <4>2 DEF NoError, EndOfTLV
      <4> HIDE DEF t, AtEnd, Going, CutOff
      <4> QED BY <2>3, <2>4, <4>2, <4>6, <4>7
    <3>7. CASE ~ (n < 0)
      <4>1. /\ t.nest = n
            /\ t.done <=> t.err # NoError
            /\ t.err = NoError => i < N /\ t.val.elem = doc.toks[i + 1] /\ Passed(t.val, i + 1)
            /\ t.err = EndOfTLV => doc.start[i + 1] = doc.len
        <5>1. n >= 0
          BY <3>5, <3>7
        <5> QED BY <1>1, <2>1, <2>6, <3>2, <5>1, SkipTurnPasses
      <4> HIDE DEF t
      <4>2. Inside(i + 1) /\ \A k \in j..i : doc.depth[k] >= b
        <5>1. doc.depth[i] >= b
          BY <1>1, <3>3, <3>5, <3>7
        <5>2. \A k \in j..i : k = i \/ k \in j..i - 1
          BY <1>1, <3>3
        <5>3. \A k \in j..i : doc.depth[k] >= b
          BY <3>2, <5>1, <5>2
        <5>4. i + 1 - 1 = i
          BY <3>3
        <5> QED BY <5>3, <5>4
      <4>3. t.err = EndOfTLV => CutOff(t)
        BY <4>1, <4>2
      <4>4. ASSUME t.err = NoError PROVE Going(t)
        <5>1. i + 1 \in j..N /\ i + 1 \in 1..N
          BY <1>1, <3>3, <4>1, <4>4
        <5>2. t.val.elem # NoElement
          <6>1. doc.toks[i + 1] \in HeadType
            BY <5>1, DocumentTypes
          <6>2. NoElement \notin HeadType
            BY DEF NoElement, HeadType, ElementTypes, Containers, Strings
          <6> QED BY <4>1, <4>4, <6>1, <6>2
        <5>3. LevelAt(t.val, i + 1) = doc.depth[i]
          BY <3>3, <5>2 DEF LevelAt
        <5>4. t.nest = LevelAt(t.val, i + 1) - b /\ t.nest >= 0
          BY <3>5, <3>7, <4>1, <5>3
        <5> QED BY <4>1, <4>2, <4>4, <5>1, <5>4
      <4> HIDE DEF Going, CutOff, AtEnd
      <4>5. CASE t.err = NoError
        BY <2>3, <2>4, <4>1, <4>4, <4>5
      <4>6. CASE t.err # NoError
        BY <2>3, <2>4, <4>1, <4>3, <4>6
      <4> QED BY <4>5, <4>6
    <3> QED BY <3>6, <3>7
  <2> QED BY <2>5, <2>6
<1>4. PICK s \in I : s.done /\ o = Outcome(s.val, s.err)
  <2>1. I \subseteq SkipState
    OBVIOUS
  <2> HIDE DEF I
  <2> QED BY <1>2, <1>3, <2>1, SkipLoop
<1>5. o.val = s.val /\ o.err = s.err
  BY <1>4 DEF Outcome
<1>6. o.val \in ReaderType /\ o.err \in Errors
  <2>1. s \in SkipState
    OBVIOUS
  <2> QED BY <1>5, <2>1 DEF SkipState
<1>7. o.err # Crash /\ o.val.at >= r.at
  BY <1>5
<1>8. o.err = NoError => AtEnd(o)
  BY <1>4, <1>5
<1>9. o.err = EndOfTLV => CutOff(o)
  BY <1>4, <1>5
<1> QED BY <1>6, <1>7, <1>8, <1>9

\* The reader in a container of some type, on no element.
LEMMA ClearedReader ==
  ASSUME NEW r \in ReaderType, NEW type \in ContainerTypes,
         NEW c, c = ClearElementState([r EXCEPT !.container = type])
  PROVE  c \in ReaderType /\ c.elem = NoElement /\ c.at = r.at /\ c.container = type
<1>1. c = [[r EXCEPT !.container = type] EXCEPT !.elem = NoElement]
  BY DEF ClearElementState
<1>2. r \in [at : 0..doc.len, elem : HeadType \cup {NoElement}, container : ContainerTypes]
  BY DEF ReaderType
<1>3. c.elem = NoElement /\ c.at = r.at /\ c.container = type
  BY <1>1, <1>2
<1>4. c = [at |-> r.at, elem |-> NoElement, container |-> type]
  BY <1>1, <1>2
<1>5. r.at \in 0..doc.len
  BY <1>2
<1>6. c \in ReaderType
  BY <1>4, <1>5 DEF ReaderType
<1> QED BY <1>3, <1>6

LEMMA EnterSteps ==
  ASSUME IsDocument(doc), NEW r \in ReaderType, NEW o, o = EnterContainer(r)
  PROVE  /\ o.val \in ReaderType /\ o.val.at = r.at
         /\ IF r.elem.type \in Containers
            THEN /\ o.err = NoError /\ o.val.elem = NoElement /\ o.val.container = r.elem.type
                 /\ \A j : Passed(r, j) => Passed(o.val, j)
            ELSE o.err = "INCORRECT_STATE" /\ o.val = r
<1>1. CASE r.elem.type \in Containers
  <2> DEFINE c == ClearElementState([r EXCEPT !.container = r.elem.type])
  <2>0. o = OK(c) /\ r.elem.type \in ContainerTypes
    BY <1>1 DEF EnterContainer, IsOnContainer, ContainerTypes
  <2>1. c \in ReaderType /\ c.elem = NoElement /\ c.at = r.at /\ c.container = r.elem.type
    BY <2>0, ClearedReader
  <2> HIDE DEF c
  <2>2. /\ o.val \in ReaderType /\ o.err = NoError /\ o.val.elem = NoElement
        /\ o.val.at = r.at /\ o.val.container = r.elem.type
    BY <2>0, <2>1 DEF OK, Outcome
  <2>3. ASSUME NEW j, Passed(r, j) PROVE Passed(o.val, j)
    <3>1. Unread(r) = 0 /\ Unread(o.val) = 0
      BY <1>1, <2>2 DEF Unread, NoElement, Containers, Strings
    <3> QED BY <2>2, <2>3, <3>1 DEF Passed
  <2> QED BY <1>1, <2>2, <2>3
<1>2. CASE r.elem.type \notin Containers
  <2>1. o = Outcome(r, "INCORRECT_STATE")
    BY <1>2 DEF EnterContainer, IsOnContainer
  <2> QED BY <1>2, <2>1 DEF Outcome
<1> QED BY <1>1, <1>2

\* Leaving a container, from anywhere in it.
LEMMA ExitPasses ==
  ASSUME IsDocument(doc), NEW r \in ReaderType, NEW j, Passed(r, j), NEW outer \in ContainerTypes,
         NEW b, b = LevelAt(r, j), NEW o, o = ExitContainer(r, outer)
  PROVE  /\ o.val \in ReaderType /\ o.err \in Errors /\ o.err # Crash /\ o.val.at >= r.at
         /\ o.err = NoError =>
              /\ o.val.elem = NoElement /\ o.val.container = outer
              /\ \E i \in j..Len(doc.toks) :
                   /\ i >= 1 /\ Passed(o.val, i) /\ doc.toks[i].type = "end" /\ doc.depth[i] = b - 1
                   /\ \A k \in j..i - 1 : doc.depth[k] >= b
         /\ o.err = EndOfTLV =>
              \E i \in j..Len(doc.toks) :
                doc.start[i + 1] = doc.len /\ \A k \in j..i : doc.depth[k] >= b
<1> DEFINE q == SkipToEndOfContainer(r)
<1>1. /\ q.val \in ReaderType /\ q.err \in Errors /\ q.err # Crash /\ q.val.at >= r.at
      /\ q.err = NoError =>
           \E i \in j..Len(doc.toks) :
             /\ Passed(q.val, i) /\ q.val.elem.type = "end" /\ doc.depth[i] = b - 1
             /\ \A k \in j..i - 1 : doc.depth[k] >= b
      /\ q.err = EndOfTLV =>
           \E i \in j..Len(doc.toks) :
             doc.start[i + 1] = doc.len /\ \A k \in j..i : doc.depth[k] >= b
  BY SkipToEnd
<1>2. o = Then(q, LAMBDA s : OK(ClearElementState([s EXCEPT !.container = outer])))
  BY DEF ExitContainer
<1>3. CASE q.err # NoError
  <2>1. o = q
    BY <1>2, <1>3 DEF Then
  <2> HIDE DEF q
  <2> QED BY <1>1, <1>3, <2>1
<1>4. CASE q.err = NoError
  <2> DEFINE c == ClearElementState([q.val EXCEPT !.container = outer])
  <2>0. o = OK(c)
    BY <1>2, <1>4 DEF Then
  <2>1. c \in ReaderType /\ c.elem = NoElement /\ c.at = q.val.at /\ c.container = outer
    BY <1>1, ClearedReader
  <2> HIDE DEF c, q
  <2>2. /\ o.val \in ReaderType /\ o.err = NoError /\ o.val.elem = NoElement
        /\ o.val.at = q.val.at /\ o.val.container = outer
    BY <2>0, <2>1 DEF OK, Outcome
  <2>3. PICK i \in j..Len(doc.toks) :
          /\ Passed(q.val, i) /\ q.val.elem.type = "end" /\ doc.depth[i] = b - 1
          /\ \A k \in j..i - 1 : doc.depth[k] >= b
    BY <1>1, <1>4
  <2>4. Unread(q.val) = 0 /\ Unread(o.val) = 0
    BY <2>2, <2>3 DEF Unread, NoElement, Strings
  <2>5. Passed(o.val, i)
    BY <2>2, <2>3, <2>4 DEF Passed
  <2>6. i >= 1 /\ doc.toks[i].type = "end"
    <3>1. q.val.elem # NoElement
      BY <2>3 DEF NoElement
    <3> QED BY <2>3, <3>1 DEF Passed, OfToken
  <2> QED BY <1>1, <2>2, <2>3, <2>5, <2>6 DEF Errors, NoError, Crash, EndOfTLV
<1> QED BY <1>3, <1>4

\* Skip goes behind the element that the reader is on.
LEMMA SkipPasses ==
  ASSUME IsDocument(doc), NEW r \in ReaderType, NEW j, Passed(r, j),
         NEW b, b = LevelAt(r, j), NEW o, o = Skip(r)
  PROVE  /\ o.val \in ReaderType /\ o.err \in Errors /\ o.err # Crash /\ o.val.at >= r.at
         /\ o.err = NoError =>
              /\ r.elem.type # "end" /\ o.val.elem = NoElement /\ o.val.container = r.container
              /\ \E i \in j..Len(doc.toks) :
                   /\ Passed(o.val, i) /\ doc.depth[i] = b
                   /\ \A k \in j..i : doc.depth[k] >= b
                   /\ \A k \in j..i - 1 : doc.depth[k] >= doc.depth[j]
                   /\ r.elem = NoElement => i = j
                   /\ r.elem # NoElement => i >= 1 /\ i = doc.last[j]
         /\ o.err = EndOfTLV =>
              \/ r.elem.type = "end"
              \/ \E i \in j..Len(doc.toks) :
                   doc.start[i + 1] = doc.len /\ \A k \in j..i : doc.depth[k] > b
<1> DEFINE N == Len(doc.toks)
<1>1. /\ N \in Nat /\ j \in 0..N /\ b \in Int /\ r.at \in Nat /\ r.container \in ContainerTypes
      /\ doc.depth[j] \in Int /\ doc.depth[j] = b + Nesting(r.elem)
      /\ r.elem # NoElement => j \in 1..N /\ r.elem.type = doc.toks[j].type
  BY DocumentTypes, LevelType, UnreadType DEF Passed, ReaderType
<1>2. CASE r.elem.type = "end"
  <2>1. o.val = r /\ o.err = EndOfTLV
    BY <1>2 DEF Skip, Outcome
  <2> QED BY <1>1, <1>2, <2>1 DEF Errors, EndOfTLV, NoError, Crash
<1>3. CASE r.elem.type \in Containers
  <2>1. r.elem.type # "end" /\ r.elem # NoElement /\ Nesting(r.elem) = 1
    BY <1>3 DEF Containers, NoElement, Nesting
  <2> DEFINE q == EnterContainer(r)
  <2>2. /\ q.val \in ReaderType /\ q.val.at = r.at /\ q.err = NoError /\ q.val.elem = NoElement
        /\ Passed(q.val, j)
    BY <1>3, EnterSteps
  <2>3. o = ExitContainer(q.val, r.container)
    BY <1>3, <2>1, <2>2 DEF Skip, IsOnContainer, Then
  <2> HIDE DEF q
  <2>4. LevelAt(q.val, j) = b + 1 /\ doc.depth[j] = b + 1
    BY <1>1, <2>1, <2>2 DEF LevelAt
  <2>5. /\ o.val \in ReaderType /\ o.err \in Errors /\ o.err # Crash /\ o.val.at >= r.at
        /\ o.err = NoError =>
             /\ o.val.elem = NoElement /\ o.val.container = r.container
             /\ \E i \in j..N :
                  /\ i >= 1 /\ Passed(o.val, i) /\ doc.toks[i].type = "end" /\ doc.depth[i] = b + 1 - 1
                  /\ \A k \in j..i - 1 : doc.depth[k] >= b + 1
        /\ o.err = EndOfTLV =>
             \E i \in j..N :
               doc.start[i + 1] = doc.len /\ \A k \in j..i : doc.depth[k] >= b + 1
    BY <1>1, <2>2, <2>3, <2>4, ExitPasses, SMTT(20)
  <2>6. ASSUME o.err = NoError
        PROVE  \E i \in j..N :
                 /\ Passed(o.val, i) /\ doc.depth[i] = b
                 /\ \A k \in j..i : doc.depth[k] >= b
                 /\ \A k \in j..i - 1 : doc.depth[k] >= doc.depth[j]
                 /\ i >= 1 /\ i = doc.last[j]
    <3>1. PICK i \in j..N :
            /\ i >= 1 /\ Passed(o.val, i) /\ doc.toks[i].type = "end" /\ doc.depth[i] = b + 1 - 1
            /\ \A k \in j..i - 1 : doc.depth[k] >= b + 1
      BY <2>5, <2>6
    <3>2. j \in 1..N /\ doc.toks[j].type \in Containers
      BY <1>1, <1>3, <2>1
    <3>3. i # j
      BY <3>1, <3>2 DEF Containers
    <3>4. i \in j + 1..N /\ doc.depth[i] = doc.depth[j] - 1 /\ doc.depth[i] = b
      BY <1>1, <2>4, <3>1, <3>3
    <3>5. \A k \in j..i - 1 : doc.depth[k] >= doc.depth[j] /\ doc.depth[k] \in Int
      <4>1. \A k \in j..i - 1 : k \in 0..N
        BY <1>1, <3>1
      <4> QED BY <2>4, <3>1, <4>1, DocumentTypes
    <3>6. \A k \in j + 1..i - 1 : doc.depth[k] # doc.depth[j] - 1
      <4>1. \A k \in j + 1..i - 1 : k \in j..i - 1
        BY <1>1
      <4> QED BY <1>1, <3>5, <4>1
    <3>7. doc.last[j] = i
      BY <3>2, <3>4, <3>6, LastOfContainer
    <3>8. \A k \in j..i : doc.depth[k] >= b
      <4>1. \A k \in j..i : k = i \/ k \in j..i - 1
        BY <1>1, <3>1
      <4> QED BY <1>1, <2>4, <3>4, <3>5, <4>1
    <3> QED BY <3>1, <3>4, <3>5, <3>7, <3>8
  <2>7. ASSUME o.err = EndOfTLV
        PROVE  \E i \in j..N : doc.start[i + 1] = doc.len /\ \A k \in j..i : doc.depth[k] > b
    <3>1. PICK i \in j..N : doc.start[i + 1] = doc.len /\ \A k \in j..i : doc.depth[k] >= b + 1
      BY <2>5, <2>7
    <3>2. \A k \in j..i : doc.depth[k] \in Int
      <4>1. \A k \in j..i : k \in 0..N
        BY <1>1, <3>1
      <4> QED BY <4>1, DocumentTypes
    <3> QED BY <1>1, <3>1, <3>2
  <2> QED BY <2>1, <2>5, <2>6, <2>7
<1>4. CASE r.elem.type \notin Containers /\ r.elem.type # "end"
  <2> DEFINE q == SkipData(r)
  <2>1. /\ q.val \in ReaderType /\ q.err = NoError /\ q.val.at = doc.start[j + 1]
        /\ q.val.at >= r.at /\ q.val.elem = r.elem /\ q.val.container = r.container
    BY SkipDataSteps
  <2>2. o = OK(ClearElementState(q.val))
    BY <1>4, <2>1 DEF Skip, IsOnContainer, Then
  <2> HIDE DEF q
  <2>3. /\ o.val \in ReaderType /\ o.err = NoError /\ o.val.elem = NoElement
        /\ o.val.at = q.val.at /\ o.val.container = r.container
    BY <2>1, <2>2 DEF OK, Outcome, ClearElementState, ReaderType
  <2>4. Passed(o.val, j)
    <3>1. Unread(o.val) = 0
      BY <2>3 DEF Unread, NoElement, Strings
    <3>2. doc.start[j + 1] \in Nat
      <4>1. j + 1 \in 1..N + 1
        BY <1>1
      <4> QED BY <4>1, DocumentTypes
    <3> QED BY <2>1, <2>3, <3>1, <3>2 DEF Passed
  <2>5. doc.depth[j] = b
    <3>1. Nesting(r.elem) = 0
      BY <1>4 DEF Nesting
    <3> QED BY <1>1, <3>1
  <2>6. r.elem # NoElement => j >= 1 /\ j = doc.last[j]
    BY <1>1, <1>4, LastOfOther
  <2>7. /\ j \in j..N /\ \A k \in j..j : doc.depth[k] >= b
        /\ \A k \in j..j - 1 : doc.depth[k] >= doc.depth[j]
    BY <1>1, <2>5
  <2> QED BY <1>4, <2>1, <2>3, <2>4, <2>5, <2>6, <2>7 DEF Errors, NoError, EndOfTLV, Crash
<1> QED BY <1>2, <1>3, <1>4

\* q is where the reader r, which is on no element behind token j, gets by Next.
Advanced(r, j, q) ==
  /\ q.val \in ReaderType /\ q.err \in Errors /\ q.err # Crash
  /\ q.val.at >= r.at /\ q.val.container = r.container
  /\ q.err = NoError =>
       /\ j < Len(doc.toks) /\ q.val.elem = doc.toks[j + 1] /\ q.val.elem # NoElement
       /\ Passed(q.val, j + 1) /\ q.val.elem.type # "end"
  /\ q.err = EndOfTLV =>
       \/ /\ j < Len(doc.toks) /\ q.val.elem = doc.toks[j + 1] /\ q.val.elem # NoElement
          /\ Passed(q.val, j + 1) /\ q.val.elem.type = "end" /\ r.container # "none"
       \/ q.val = r /\ r.at = doc.len

LEMMA HeadIsElement == NoElement \notin HeadType
BY DEF NoElement, HeadType, ElementTypes, Containers, Strings

LEMMA ReaderNextAdvances ==
  ASSUME IsDocument(doc), NEW r \in ReaderType, NEW j, Passed(r, j), r.elem = NoElement
  PROVE  Advanced(r, j, ReaderNext(r))
<1> DEFINE q == ReadElement(r)
           o == ReaderNext(r)
<1> SUFFICES Advanced(r, j, o)
  OBVIOUS
<1>1. Skip(r) = OK(ClearElementState(r))
  BY DEF Skip, IsOnContainer, SkipData, NoElement, Containers, Strings, Then, OK, Outcome
<1>2. ClearElementState(r) = r
  BY DEF ClearElementState, ReaderType
<1>3. o = Then(q, LAMBDA t : Outcome(t, IF t.elem.type = "end" THEN EndOfTLV ELSE NoError))
  BY <1>1, <1>2 DEF ReaderNext, Then, OK, Outcome
<1>4. j \in 0..Len(doc.toks) /\ r.at = doc.start[j + 1]
  <2>1. Unread(r) = 0
    BY DEF Unread, NoElement, Strings
  <2>2. r.at \in Nat
    BY UnreadType
  <2> QED BY <2>1, <2>2 DEF Passed
<1>5. /\ q.val \in ReaderType /\ q.err \in Errors /\ q.err # Crash
      /\ q.val.at >= r.at /\ q.val.container = r.container
      /\ q.err = EndOfTLV => r.at = doc.len /\ q.val = r
      /\ q.err = NoError => q.val.elem \in HeadType
  BY ReadElementSteps
<1>6. q.err = NoError => j < Len(doc.toks) /\ q.val.elem = doc.toks[j + 1] /\ Passed(q.val, j + 1)
  BY <1>4, ReadElementPasses
<1>7. q.err = NoError /\ q.val.elem.type = "end" => r.container # "none"
  <2>1. CASE q.err = NoError
    <3> DEFINE h == doc.head[r.at]
               s == [r EXCEPT !.elem = h]
               e == ReadData(s, h.head)
    <3>1. q = IF r.at = doc.len THEN Outcome(r, EndOfTLV)
              ELSE IF h.type = "invalid" THEN Outcome(s, "INVALID_TLV_ELEMENT")
              ELSE Then(e, LAMBDA t : Outcome(t, VerifyElement(t)))
      BY DEF ReadElement
    <3> HIDE DEF e, q
    <3>2. q = Then(e, LAMBDA t : Outcome(t, VerifyElement(t)))
      BY <2>1, <3>1 DEF Outcome, NoError, EndOfTLV
    <3>3. q = Outcome(e.val, VerifyElement(e.val))
      BY <2>1, <3>2 DEF Then
    <3>4. VerifyElement(q.val) = NoError
      BY <2>1, <3>3 DEF Outcome
    <3>5. q.val.elem.type = "end" => q.val.container # "none"
      BY <3>4 DEF VerifyElement, NoError
    <3> QED BY <1>5, <3>5
  <2> QED BY <2>1
<1>8. CASE q.err # NoError
  <2>1. o = q
    BY <1>3, <1>8 DEF Then
  <2> HIDE DEF o, q
  <2> QED BY <1>5, <1>8, <2>1 DEF Advanced
<1>9. CASE q.err = NoError
  <2>1. o = Outcome(q.val, IF q.val.elem.type = "end" THEN EndOfTLV ELSE NoError)
    BY <1>3, <1>9 DEF Then
  <2> HIDE DEF o, q
  <2>2. o.val = q.val /\ o.err = IF q.val.elem.type = "end" THEN EndOfTLV ELSE NoError
    BY <2>1 DEF Outcome
  <2>3. q.val.elem # NoElement
    BY <1>5, <1>9, HeadIsElement
  <2>4. o.err \in Errors /\ o.err # Crash /\ (o.err = NoError <=> q.val.elem.type # "end")
    BY <2>2 DEF Errors, NoError, EndOfTLV, Crash
  <2> QED BY <1>5, <1>6, <1>7, <1>9, <2>2, <2>3, <2>4 DEF Advanced
<1> QED BY <1>8, <1>9

LEMMA ReaderNextOfAdvances ==
  ASSUME IsDocument(doc), NEW r \in ReaderType, NEW j, Passed(r, j), r.elem = NoElement, NEW type, NEW tag
  PROVE  /\ Advanced(r, j, ReaderNextOf(r, type, tag))
         /\ LET o == ReaderNextOf(r, type, tag)
            IN  o.err = NoError => o.val.elem.type = type /\ o.val.elem.tag = tag
<1> DEFINE q == ReaderNext(r)
           o == ReaderNextOf(r, type, tag)
<1>1. Advanced(r, j, q)
  BY ReaderNextAdvances
<1>2. o = Then(q, LAMBDA s : Outcome(s, IF s.elem.type # type THEN "WRONG_TLV_TYPE"
                                        ELSE IF s.elem.tag # tag THEN "UNEXPECTED_TLV_ELEMENT" ELSE NoError))
  BY DEF ReaderNextOf
<1>3. CASE q.err # NoError
  <2>1. o = q
    BY <1>2, <1>3 DEF Then
  <2> HIDE DEF o, q
  <2> QED BY <1>1, <1>3, <2>1 DEF o
<1>4. CASE q.err = NoError
  <2>1. o = Outcome(q.val, IF q.val.elem.type # type THEN "WRONG_TLV_TYPE"
                           ELSE IF q.val.elem.tag # tag THEN "UNEXPECTED_TLV_ELEMENT" ELSE NoError)
    BY <1>2, <1>4 DEF Then
  <2> HIDE DEF o, q
  <2>2. o.val = q.val /\ o.err = IF q.val.elem.type # type THEN "WRONG_TLV_TYPE"
                           ELSE IF q.val.elem.tag # tag THEN "UNEXPECTED_TLV_ELEMENT" ELSE NoError
    BY <2>1 DEF Outcome
  <2>3. /\ o.err \in Errors /\ o.err # Crash /\ o.err # EndOfTLV
        /\ o.err = NoError => o.val.elem.type = type /\ o.val.elem.tag = tag
    BY <2>2 DEF Errors, NoError, EndOfTLV, Crash
  <2>4. Advanced(r, j, o)
    BY <1>1, <1>4, <2>2, <2>3 DEF Advanced
  <2> QED BY <2>3, <2>4 DEF o
<1> QED BY <1>3, <1>4

\* Fetching the value of an element leaves the reader on it.
LEMMA GetValueKeeps ==
  ASSUME IsDocument(doc), NEW r \in ReaderType, NEW o, o = GetValue(r)
  PROVE  /\ o.val \in ReaderType /\ o.err \in Errors /\ o.err # Crash /\ o.err # EndOfTLV
         /\ o.err = NoError =>
              /\ o.val.container = r.container /\ o.val.elem.type = r.elem.type
              /\ r.elem.type \in {"number", "utf8", "bytes"}
              /\ (o.val.elem = NoElement) = (r.elem = NoElement)
              /\ \A j : Passed(r, j) => Passed(o.val, j) /\ LevelAt(o.val, j) = LevelAt(r, j)
<1>1. r.elem.len \in Nat /\ r.at \in Nat /\ r.elem \in HeadType \cup {NoElement}
  BY UnreadType DEF ReaderType
<1>2. CASE r.elem.type = "number"
  <2>1. o.val = r /\ o.err = NoError
    BY <1>2 DEF GetValue, OK, Outcome
  <2> QED BY <1>2, <2>1 DEF Errors, NoError, Crash, EndOfTLV
<1>3. CASE r.elem.type = "utf8"
  <2> DEFINE q == ReadData(r, r.elem.len)
             c == [q.val EXCEPT !.elem.len = 0]
  <2>1. o = Then(q, LAMBDA s : OK([s EXCEPT !.elem.len = 0]))
    BY <1>3 DEF GetValue, DupString
  <2>2. /\ q.val \in ReaderType /\ q.err \in Errors /\ q.err # EndOfTLV /\ q.err # Crash
        /\ q.val.elem = r.elem /\ q.val.container = r.container
        /\ q.err = NoError => q.val.at = r.at + r.elem.len
    BY <1>1, ReadDataSteps
  <2>3. CASE q.err # NoError
    <3>1. o = q
      BY <2>1, <2>3 DEF Then
    <3> HIDE DEF q
    <3> QED BY <2>2, <2>3, <3>1
  <2>4. CASE q.err = NoError
    <3>1. o = OK(c)
      BY <2>1, <2>4 DEF Then
    <3> HIDE DEF q
    <3>2. r.elem \in HeadType
      BY <1>1, <1>3 DEF NoElement
    <3> DEFINE e == [r.elem EXCEPT !.len = 0]
    <3>3. e \in HeadType /\ e.type = "utf8" /\ e.tag = r.elem.tag /\ e.head = r.elem.head /\ e.len = 0
      BY <1>3, <3>2 DEF HeadType
    <3>4. c = [q.val EXCEPT !.elem = e]
      BY <2>2 DEF ReaderType
    <3> HIDE DEF c, e
    <3>5. c \in ReaderType /\ c.elem = e /\ c.at = r.at + r.elem.len /\ c.container = r.container
      BY <2>2, <2>4, <3>3, <3>4 DEF ReaderType
    <3>6. e # NoElement /\ r.elem # NoElement
      BY <3>2, <3>3, HeadIsElement
    <3>7. o.val = c /\ o.err = NoError
      BY <3>1 DEF OK, Outcome
    <3>8. ASSUME NEW j, Passed(r, j) PROVE Passed(c, j) /\ LevelAt(c, j) = LevelAt(r, j)
      <4>1. Unread(r) = r.elem.len /\ Unread(c) = 0
        BY <1>3, <3>3, <3>5 DEF Unread, Strings
      <4>2. c.at + Unread(c) = r.at + Unread(r)
        BY <1>1, <3>5, <4>1
      <4>3. j >= 1 /\ OfToken(r.elem, doc.toks[j])
        BY <3>6, <3>8 DEF Passed
      <4>4. OfToken(c.elem, doc.toks[j])
        BY <1>3, <3>3, <3>5, <4>3 DEF OfToken
      <4>5. LevelAt(c, j) = LevelAt(r, j)
        BY <3>5, <3>6 DEF LevelAt
      <4> QED BY <3>8, <4>2, <4>3, <4>4, <4>5 DEF Passed
    <3>9. o.err \in Errors /\ o.err # Crash /\ o.err # EndOfTLV
      BY <3>7 DEF Errors, NoError, Crash, EndOfTLV
    <3> QED BY <1>3, <3>3, <3>5, <3>6, <3>7, <3>8, <3>9
  <2> QED BY <2>3, <2>4
<1>4. CASE r.elem.type = "bytes"
  <2>1. o = GetDataPtr(r)
    BY <1>4 DEF GetValue
  <2>2. o.val = r /\ o.err \in {NoError, "TLV_UNDERRUN"}
    BY <2>1 DEF GetDataPtr, OK, Outcome
  <2> QED BY <1>4, <2>2 DEF Errors, NoError, Crash, EndOfTLV
<1>5. CASE r.elem.type \notin {"number", "utf8", "bytes"}
  <2>1. o.val = r /\ o.err = "UNEXPECTED_TLV_ELEMENT"
    BY <1>5 DEF GetValue, Outcome
  <2> QED BY <2>1 DEF Errors, NoError, Crash, EndOfTLV
<1> QED BY <1>2, <1>3, <1>4, <1>5
-----------------------------------------------------------------------------
(***************************************************************************)
(* The reader inside a container.                                          *)
(***************************************************************************)
\* The type of a container, 0 being the outermost level.
Kind(c) == IF c = 0 THEN "none" ELSE doc.toks[c].type

\* The reader has passed token j, and not left container c, which is entered b deep.
IsIn(r, c, b, j) ==
  /\ Passed(r, j) /\ c <= j
  /\ r.elem # NoElement => c < j
  /\ LevelAt(r, j) = b
  /\ \A k \in c..j - 1 : doc.depth[k] >= b
  /\ r.container = Kind(c)

\* A whole container that is entered b deep, or the outermost level.
Whole(c, b) ==
  /\ c \in 0..Len(doc.toks) /\ doc.depth[c] = b
  /\ c # 0 => IsContainer(doc, c) /\ Complete(doc, c)

\* The document does not end before a whole container does.
LEMMA NotCutOff ==
  ASSUME IsDocument(doc), NEW c, NEW b, Whole(c, b), c # 0,
         NEW i \in c..Len(doc.toks), \A k \in c..i : doc.depth[k] >= b
  PROVE  i < doc.last[c] /\ doc.start[i + 1] < doc.len
<1> DEFINE N == Len(doc.toks)
           l == doc.last[c]
<1>1. N \in Nat /\ c \in 1..N /\ doc.toks[c].type \in Containers /\ l # 0 /\ doc.start[l + 1] <= doc.len
  BY DocumentTypes DEF Whole, IsContainer, Complete
<1>2. l \in c + 1..N /\ doc.depth[l] = b - 1 /\ b \in Int
  <2>1. l \in c + 1..N /\ doc.depth[l] = doc.depth[c] - 1
    BY <1>1, LastOfContainer
  <2>2. doc.depth[c] \in Int /\ doc.depth[c] = b
    BY <1>1, DocumentTypes DEF Whole
  <2> QED BY <2>1, <2>2
<1>3. i < l
  <2>1. CASE l \in c..i
    <3>1. doc.depth[l] >= b
      BY <2>1
    <3> QED BY <1>2, <3>1
  <2> QED BY <1>1, <1>2, <2>1
<1>4. i + 1 \in 1..N + 1 /\ l + 1 \in 1..N + 1 /\ i + 1 < l + 1
  BY <1>1, <1>2, <1>3, SMTT(20)
<1>5. doc.start[i + 1] \in Nat /\ doc.start[l + 1] \in Nat /\ doc.start[i + 1] < doc.start[l + 1]
  BY <1>4, DocumentTypes
<1> QED BY <1>1, <1>3, <1>5, DocumentTypes
-----------------------------------------------------------------------------
(***************************************************************************)
(* Well formed documents, in which nothing fails.                          *)
(***************************************************************************)
LEMMA NeverNegative ==
  ASSUME IsDocument(doc), WellFormed(doc)
  PROVE  \A k \in 0..Len(doc.toks) : doc.depth[k] >= 0
<1> DEFINE N == Len(doc.toks)
           T == {k \in Nat : k <= N => doc.depth[k] >= 0}
<1>1. N \in Nat /\ doc.depth[0] = 0 /\ doc.depth \in [0..N -> Int]
  BY DocumentTypes
<1>2. 0 \in T
  BY <1>1
<1>3. ASSUME NEW n \in Nat, n \in T PROVE n + 1 \in T
  <2>1. CASE ~ (n + 1 <= N)
    BY <2>1
  <2>2. CASE n + 1 <= N
    <3>1. n + 1 \in 1..N /\ doc.depth[n] >= 0 /\ doc.depth[n] \in Int
      BY <1>1, <1>3, <2>2
    <3>2. doc.depth[n + 1] = doc.depth[n] + Nesting(doc.toks[n + 1])
      BY <3>1, DocumentTypes
    <3>3. CASE doc.toks[n + 1].type = "end"
      BY SMTT(20), <1>1, <3>1, <3>3 DEF WellFormed, Depth
    <3>4. CASE doc.toks[n + 1].type # "end"
      <4>1. Nesting(doc.toks[n + 1]) \in {0, 1}
        BY <3>4 DEF Nesting
      <4> QED BY <3>1, <3>2, <4>1
    <3> QED BY <3>3, <3>4
  <2> QED BY <2>1, <2>2
<1> HIDE DEF T
<1>4. \A k \in Nat : k \in T
  BY <1>2, <1>3, NatSetInduction
<1> QED BY <1>1, <1>4 DEF T

\* Behind token i, a reader is in the container p and in none that is in p.
Encloses(p, i) ==
  /\ i \in 0..Len(doc.toks) /\ p \in 0..i
  /\ p # 0 => IsContainer(doc, p)
  /\ doc.depth[p] = doc.depth[i] /\ \A k \in p..i : doc.depth[k] >= doc.depth[p]

\* The members of a whole container.
LEMMA MemberIs ==
  ASSUME IsDocument(doc), NEW c, NEW b, Whole(c, b), NEW i
  PROVE  i \in Members(doc, c) <=>
           /\ i \in c + 1..Len(doc.toks) /\ (c # 0 => i < doc.last[c])
           /\ doc.toks[i].type # "end" /\ doc.start[i] < doc.len /\ doc.depth[i - 1] = b
<1> DEFINE N == Len(doc.toks)
           end == IF c = 0 THEN N + 1 ELSE doc.last[c]
<1>1. N \in Nat /\ c \in 0..N /\ doc.depth[c] = b /\ b \in Int /\ \A k \in 0..N : doc.depth[k] \in Int
  BY DocumentTypes DEF Whole
<1>2. c # 0 => doc.last[c] \in c + 1..N
  <2> HAVE c # 0
  <2>1. c \in 1..N /\ doc.toks[c].type \in Containers /\ doc.last[c] # 0
    BY <1>1 DEF Whole, IsContainer, Complete
  <2> QED BY <2>1, LastOfContainer
<1>3. i \in Members(doc, c) <=>
        /\ i \in c + 1..end - 1 /\ doc.toks[i].type # "end" /\ doc.start[i] < doc.len
        /\ Depth(doc, c + 1, i - 1) = 0
  BY DEF Members, LastToken
<1>4. i \in c + 1..end - 1 <=> i \in c + 1..N /\ (c # 0 => i < doc.last[c])
  BY <1>1, <1>2
<1>5. ASSUME i \in c + 1..N PROVE Depth(doc, c + 1, i - 1) = 0 <=> doc.depth[i - 1] = b
  <2>1. i - 1 \in 0..N /\ c + 1 - 1 = c
    BY <1>1, <1>5
  <2> QED BY <1>1, <2>1 DEF Depth
<1> QED BY <1>3, <1>4, <1>5

\* A container is one deeper than what is in front of it.
LEMMA ContainerOpens ==
  ASSUME IsDocument(doc), NEW c \in 1..Len(doc.toks), IsContainer(doc, c)
  PROVE  doc.depth[c - 1] = doc.depth[c] - 1 /\ doc.depth[c] \in Int
<1>1. Nesting(doc.toks[c]) = 1
  BY DEF IsContainer, Nesting
<1>2. Len(doc.toks) \in Nat /\ c \in 0..Len(doc.toks) /\ c - 1 \in 0..Len(doc.toks)
  BY DocumentTypes
<1>3. doc.depth[c] = doc.depth[c - 1] + Nesting(doc.toks[c]) /\ doc.depth[c - 1] \in Int
  BY <1>2, DocumentTypes
<1> QED BY <1>1, <1>3

LEMMA OnlyParent ==
  ASSUME IsDocument(doc), WellFormed(doc), NEW p, NEW i, Encloses(p, i), i < Len(doc.toks),
         NEW q, q \in Parents(doc, i + 1)
  PROVE  q = p
<1> DEFINE N == Len(doc.toks)
           l == doc.last[q]
<1>1. N \in Nat /\ i \in Nat /\ i < N /\ p \in 0..i /\ (p # 0 => IsContainer(doc, p))
  BY DocumentTypes DEF Encloses
<1>2. \A k \in 0..N : doc.depth[k] \in Int
  BY DocumentTypes
<1>3. doc.depth[p] = doc.depth[i] /\ \A k \in p..i : doc.depth[k] >= doc.depth[p]
  BY DEF Encloses
<1>4. q \in 0..i /\ (q # 0 => IsContainer(doc, q) /\ Complete(doc, q)) /\ i + 1 \in Members(doc, q)
  <2>1. q \in Holders(doc, i + 1) /\ i + 1 \in Members(doc, q)
    BY DEF Parents
  <2>2. i + 1 - 1 = i
    BY <1>1
  <2> QED BY <1>1, <2>1, <2>2 DEF Holders
<1>5. doc.depth[q] = doc.depth[i] /\ (q # 0 => i + 1 < l)
  <2> DEFINE m == i + 1   b == doc.depth[q]
  <2>1. Whole(q, b) /\ m \in Members(doc, q)
    BY <1>1, <1>4 DEF Whole
  <2>2. m - 1 = i
    BY <1>1
  <2> HIDE DEF m, b
  <2>3. doc.depth[m - 1] = b /\ (q # 0 => m < l)
    BY <2>1, MemberIs
  <2> QED BY <2>2, <2>3 DEF m, b
<1>6. \A c \in 1..i : IsContainer(doc, c) => doc.depth[c - 1] = doc.depth[c] - 1
  <2> TAKE c \in 1..i
  <2>1. c \in 1..N
    BY <1>1
  <2> QED BY <2>1, ContainerOpens
<1>7. q # 0 => l \in q + 1..N /\ \A j \in q + 1..l - 1 : doc.depth[j] # doc.depth[q] - 1
  <2> HAVE q # 0
  <2>1. q \in 1..N /\ doc.toks[q].type \in Containers /\ l # 0
    BY <1>1, <1>4 DEF IsContainer, Complete
  <2> QED BY <2>1, LastOfContainer
<1>8. doc.depth[0] = 0 /\ \A k \in 0..N : doc.depth[k] >= 0
  BY DocumentTypes, NeverNegative
<1> HIDE DEF N, l
<1>9. ASSUME p < q PROVE FALSE
  <2>1. IsContainer(doc, q) /\ q \in 1..i
    BY <1>1, <1>4, <1>9
  <2>2. doc.depth[q - 1] = doc.depth[p] - 1
    BY <1>3, <1>5, <1>6, <2>1
  <2>3. q - 1 \in p..i /\ p \in 0..N
    BY <1>1, <1>9, <2>1
  <2>4. doc.depth[q - 1] >= doc.depth[p] /\ doc.depth[p] \in Int
    BY <1>2, <1>3, <2>3
  <2> QED BY <2>2, <2>4
<1>10. ASSUME q < p PROVE FALSE
  <2>1. IsContainer(doc, p) /\ p \in 1..i
    BY <1>1, <1>4, <1>10
  <2>2. doc.depth[p - 1] = doc.depth[q] - 1
    BY <1>3, <1>5, <1>6, <2>1
  <2>3. p - 1 \in 0..N /\ q \in 0..N /\ p - 1 >= q /\ p - 1 <= i
    BY <1>1, <1>4, <1>10, <2>1
  <2>4. CASE q = 0
    <3>1. doc.depth[p - 1] >= 0
      BY <1>8, <2>3
    <3> QED BY <1>8, <2>2, <2>4, <3>1
  <2>5. CASE q # 0
    <3>1. p - 1 # q
      BY <1>2, <2>2, <2>3
    <3>2. p - 1 \in q + 1..l - 1
      BY <1>1, <1>5, <1>7, <2>3, <2>5, <3>1
    <3> QED BY <1>7, <2>2, <2>5, <3>2
  <2> QED BY <2>4, <2>5
<1> QED BY <1>1, <1>4, <1>9, <1>10

\* The type of container that the reader knows is right for what follows token i.
TypeFits(type, i) == type = "unknown" \/ \E p : Encloses(p, i) /\ type = Kind(p)

\* What a document that is well formed says of a token.
LEMMA WellFormedToken ==
  ASSUME IsDocument(doc), WellFormed(doc), NEW i \in 1..Len(doc.toks), NEW type, TypeFits(type, i - 1)
  PROVE  LET t == doc.toks[i]
         IN  /\ t.type # "invalid" /\ t.tag # "implicit"
             /\ t.type = "end" => t.tag = "anonymous" /\ type # "none"
             /\ t.type # "end" => type = "unknown" \/ TagFits(type, t.tag)
<1> DEFINE N == Len(doc.toks)   t == doc.toks[i]
<1>1. /\ t.type # "invalid" /\ t.tag # "implicit"
      /\ t.type = "end" => t.tag = "anonymous"
      /\ t.type # "end" =>
           \E c \in Parents(doc, i) : TagFits(IF c = 0 THEN "none" ELSE doc.toks[c].type, t.tag)
  BY DEF WellFormed
<1>2. N \in Nat /\ i \in 1..N /\ i - 1 \in 0..N /\ i - 1 + 1 = i
  BY DocumentTypes
<1>3. ASSUME type # "unknown", t.type # "end" PROVE TagFits(type, t.tag)
  <2>1. PICK p : Encloses(p, i - 1) /\ type = Kind(p)
    BY <1>3 DEF TypeFits
  <2>2. PICK c \in Parents(doc, i) : TagFits(Kind(c), t.tag)
    BY <1>1, <1>3 DEF Kind
  <2>3. c = p
    <3>1. c \in Parents(doc, i - 1 + 1) /\ i - 1 < N
      BY <1>2, <2>2
    <3> QED BY <2>1, <3>1, OnlyParent
  <2> QED BY <2>1, <2>2, <2>3
<1>4. ASSUME t.type = "end", type = "none" PROVE FALSE
  <2>1. PICK p : Encloses(p, i - 1) /\ Kind(p) = "none"
    BY <1>4 DEF TypeFits
  <2>2. p = 0
    BY <2>1 DEF Encloses, Kind, IsContainer, Containers
  <2>3. doc.depth[i - 1] = 0
    BY <2>1, <2>2, DocumentTypes DEF Encloses
  <2>4. doc.depth[i] = doc.depth[i - 1] + Nesting(t) /\ Nesting(t) = -1
    BY <1>2, <1>4, DocumentTypes DEF Nesting, Containers
  <2>5. doc.depth[i] >= 0
    BY <1>2, NeverNegative
  <2> QED BY <2>3, <2>4, <2>5
<1> QED BY <1>1, <1>3, <1>4

\* ReadElement does not fail in front of a token of a well formed document.
LEMMA ReadsToken ==
  ASSUME IsDocument(doc), WellFormed(doc), NEW r \in ReaderType, NEW i \in 0..Len(doc.toks) - 1,
         r.at = doc.start[i + 1], TypeFits(r.container, i), NEW o, o = ReadElement(r)
  PROVE  /\ o.err = NoError /\ o.val.container = r.container
         /\ o.val.elem = doc.toks[i + 1] /\ Passed(o.val, i + 1)
<1> DEFINE N == Len(doc.toks)
           t == doc.toks[i + 1]
           s == [r EXCEPT !.elem = t]
           p == [s EXCEPT !.at = r.at + t.head]
<1>1. N \in Nat /\ i \in 0..N /\ i + 1 \in 1..N /\ i + 1 + 1 \in 1..N + 1 /\ i + 1 - 1 = i
  BY DocumentTypes
<1>2. /\ t \in HeadType /\ t.head \in Nat \ {0} /\ t.len \in Nat
      /\ r.at \in Nat /\ r.at + t.head + t.len <= doc.len /\ doc.len \in Nat
      /\ r.at + t.head + t.len = doc.start[i + 1 + 1]
  <2>1. t \in HeadType
    BY <1>1, DocumentTypes
  <2>2. t.head \in Nat \ {0} /\ t.len \in Nat
    BY <2>1, SizeType
  <2>3. doc.start[i + 1 + 1] = doc.start[i + 1] + (t.head + t.len) /\ doc.start[i + 1] \in Nat
    <3>1. doc.start[i + 1 + 1] = doc.start[i + 1] + Size(t)
      BY <1>1, DocumentTypes
    <3>2. i + 1 \in 1..N + 1
      BY <1>1
    <3>3. doc.start[i + 1] \in Nat
      BY <3>2, DocumentTypes
    <3> QED BY <3>1, <3>3 DEF Size
  <2>4. doc.start[i + 1 + 1] <= doc.len /\ doc.len \in Nat
    <3>1. doc.len = doc.start[N + 1] /\ doc.len \in Nat
      BY DocumentTypes DEF WellFormed
    <3>2. CASE i + 1 = N
      BY <3>1, <3>2
    <3>3. CASE i + 1 # N
      <4>1. N + 1 \in 1..N + 1 /\ i + 1 + 1 < N + 1
        BY <1>1, <3>3
      <4>2. doc.start[i + 1 + 1] < doc.start[N + 1] /\ doc.start[i + 1 + 1] \in Nat
        BY <1>1, <4>1, DocumentTypes
      <4> QED BY <3>1, <4>2
    <3> QED BY <3>2, <3>3
  <2> QED BY SMTT(20), <2>1, <2>2, <2>3, <2>4
<1>3. doc.head[r.at] = t
  <2>1. r.at < doc.len
    BY SMTT(20), <1>2
  <2> QED BY <1>1, <2>1, HeadOfToken
<1>4. /\ t.type # "invalid" /\ t.tag # "implicit"
      /\ t.type = "end" => t.tag = "anonymous" /\ r.container # "none"
      /\ t.type # "end" => r.container = "unknown" \/ TagFits(r.container, t.tag)
  BY <1>1, WellFormedToken
<1> HIDE DEF t
<1>5. p.at = r.at + t.head /\ p.elem = t /\ p.container = r.container
  BY DEF ReaderType
<1>6. ReadData(s, t.head) = OK(p)
  <2>1. s.at = r.at /\ t.head <= doc.len - r.at
    BY <1>2 DEF ReaderType
  <2> QED BY <2>1 DEF ReadData
<1> HIDE DEF p
<1>7. VerifyElement(p) = NoError
  <2>1. CASE t.type = "end"
    BY <1>4, <1>5, <2>1 DEF VerifyElement
  <2>2. CASE t.type # "end"
    <3>1. VerifyTag(p) = NoError
      BY <1>4, <1>5, <2>2 DEF VerifyTag
    <3>2. ~ (doc.len - p.at < p.elem.len)
      BY <1>2, <1>5
    <3> QED BY <1>5, <2>2, <3>1, <3>2 DEF VerifyElement
  <2> QED BY <2>1, <2>2
<1>8. o = Outcome(p, NoError)
  <2>1. r.at # doc.len
    BY <1>2
  <2>2. o = Then(OK(p), LAMBDA q : Outcome(q, VerifyElement(q)))
    BY <1>3, <1>4, <1>6, <2>1 DEF ReadElement
  <2> QED BY <1>7, <2>2 DEF Then, OK, Outcome
<1>9. Passed(p, i + 1)
  <2>1. Unread(p) = t.len
    <3>1. t.len > 0 => t.type \in Strings
      BY <1>1, DocumentParts DEF IsEncoding, t
    <3> QED BY <1>2, <1>5, <3>1 DEF Unread
  <2>2. OfToken(p.elem, doc.toks[i + 1])
    BY <1>5 DEF OfToken, t
  <2> QED BY <1>1, <1>2, <1>5, <2>1, <2>2 DEF Passed
<1> QED BY <1>5, <1>8, <1>9 DEF Outcome, t

\* The token behind which the element of the reader is, or the reader if it is on none.
Front(r, j) == IF r.elem = NoElement THEN j ELSE j - 1

\* What a reader makes of the type of container that it knows is right again.
LEMMA ContainerAfterFits ==
  ASSUME IsDocument(doc), NEW r, NEW i, Passed(r, i), TypeFits(r.container, Front(r, i)),
         NEW c, NEW outer, outer = Kind(c), NEW n, n = 0 => Encloses(c, i)
  PROVE  TypeFits(ContainerAfter(r, outer, n), i)
<1>1. /\ i \in Nat /\ doc.depth[i] = LevelAt(r, i) + Nesting(r.elem) /\ LevelAt(r, i) \in Int
      /\ r.elem # NoElement => i \in 1..Len(doc.toks) /\ r.elem.type = doc.toks[i].type
  BY LevelType
<1>2. i \in 0..Len(doc.toks) /\ Len(doc.toks) \in Nat
  BY DocumentTypes DEF Passed
<1>3. CASE r.elem.type \in Containers
  <2>1. r.elem # NoElement
    BY <1>3 DEF NoElement, Containers
  <2>2. i \in 1..Len(doc.toks) /\ r.elem.type = doc.toks[i].type
    BY <1>1, <2>1
  <2>3. IsContainer(doc, i) /\ Kind(i) = r.elem.type
    BY <1>3, <2>2 DEF IsContainer, Kind
  <2>4. doc.depth[i] \in Int
    BY <1>2, DocumentTypes
  <2>5. \A k \in i..i : doc.depth[k] >= doc.depth[i]
    <3>1. \A k \in i..i : k = i
      BY <1>1
    <3> QED BY <2>4, <3>1
  <2>6. Encloses(i, i)
    BY <1>1, <1>2, <2>3, <2>5 DEF Encloses
  <2>7. ContainerAfter(r, outer, n) = Kind(i)
    BY <1>3, <2>3 DEF ContainerAfter
  <2> QED BY <2>6, <2>7 DEF TypeFits
<1>4. CASE r.elem.type = "end"
  <2>1. ContainerAfter(r, outer, n) = IF n = 0 THEN Kind(c) ELSE "unknown"
    BY <1>4 DEF ContainerAfter, Containers
  <2> QED BY <2>1 DEF TypeFits
<1>5. CASE r.elem.type \notin Containers /\ r.elem.type # "end"
  <2>1. ContainerAfter(r, outer, n) = r.container
    BY <1>5 DEF ContainerAfter
  <2>2. CASE r.elem = NoElement
    BY <2>1, <2>2 DEF Front
  <2>3. CASE r.elem # NoElement
    <3>1. doc.depth[i] = doc.depth[i - 1]
      <4>1. Nesting(r.elem) = 0
        BY <1>5 DEF Nesting
      <4> QED BY <1>1, <2>3, <4>1 DEF LevelAt
    <3>2. ASSUME NEW p, Encloses(p, i - 1) PROVE Encloses(p, i)
      <4>1. i - 1 \in 0..Len(doc.toks) /\ p \in 0..i /\ p <= i - 1
        BY <1>1, <2>3, <3>2 DEF Encloses
      <4>2. doc.depth[p] = doc.depth[i] /\ doc.depth[p] \in Int
        BY <1>2, <3>1, <3>2, <4>1, DocumentTypes DEF Encloses
      <4>3. \A k \in p..i : doc.depth[k] >= doc.depth[p]
        <5>1. \A k \in p..i : k = i \/ k \in p..i - 1
          BY <1>1, <4>1
        <5>2. \A k \in p..i - 1 : doc.depth[k] >= doc.depth[p]
          BY <3>2 DEF Encloses
        <5> QED BY <4>2, <5>1, <5>2
      <4> QED BY <1>2, <3>2, <4>1, <4>2, <4>3 DEF Encloses
    <3>3. TypeFits(r.container, i - 1)
      BY <2>3 DEF Front
    <3> QED BY <2>1, <3>2, <3>3 DEF TypeFits
  <2> QED BY <2>2, <2>3
<1> QED BY <1>3, <1>4, <1>5

\* A turn of the loop in front of a token of a well formed document.
LEMMA SkipTurnReads ==
  ASSUME IsDocument(doc), WellFormed(doc), NEW s \in SkipState, NEW outer \in ContainerTypes,
         NEW t, t = SkipTurn(s, outer), NEW j, Passed(s.val, j), ~ s.done, j < Len(doc.toks),
         NEW n, n = s.nest + Nesting(s.val.elem), n >= 0, TypeFits(ContainerAfter(s.val, outer, n), j)
  PROVE  /\ t.err = NoError /\ ~ t.done /\ t.nest = n
         /\ t.val.elem = doc.toks[j + 1] /\ Passed(t.val, j + 1)
         /\ t.val.container = ContainerAfter(s.val, outer, n)
<1> DEFINE r == [s.val EXCEPT !.container = ContainerAfter(s.val, outer, n)]
           q == SkipData(r)
           o == Then(q, ReadElement)
<1>1. s.val \in ReaderType /\ s.nest \in Int
  BY DEF SkipState
<1>2. n \in Int /\ ~ (s.done \/ n < 0)
  <2>1. Nesting(s.val.elem) \in Int
    BY DEF Nesting
  <2> QED BY <1>1, <2>1
<1>3. t = [val |-> o.val, err |-> o.err, nest |-> n, done |-> o.err # NoError]
  BY <1>2 DEF SkipTurn
<1>4. t.val = o.val /\ t.err = o.err /\ t.nest = n /\ t.done = (o.err # NoError)
  BY <1>3
<1>5. ContainerAfter(s.val, outer, n) \in ContainerTypes
  <2>1. s.val.container \in ContainerTypes
    BY <1>1 DEF ReaderType
  <2> QED BY <2>1 DEF ContainerAfter, ContainerTypes
<1>6. r \in ReaderType /\ r.at = s.val.at /\ r.elem = s.val.elem /\ r.container = ContainerAfter(s.val, outer, n)
  BY <1>1, <1>5 DEF ReaderType
<1> HIDE DEF r
<1>7. Passed(r, j) /\ j \in 0..Len(doc.toks) - 1
  <2>1. Passed(r, j) /\ j \in 0..Len(doc.toks)
    BY <1>6 DEF Passed, Unread
  <2> QED BY <2>1, DocumentTypes
<1>8. /\ q.val \in ReaderType /\ q.err = NoError /\ q.val.at = doc.start[j + 1]
      /\ q.val.container = r.container
  BY <1>6, <1>7, SkipDataSteps
<1>9. o = ReadElement(q.val)
  BY <1>8 DEF Then
<1> HIDE DEF o, q
<1>10. /\ o.err = NoError /\ o.val.container = q.val.container
       /\ o.val.elem = doc.toks[j + 1] /\ Passed(o.val, j + 1)
  BY <1>6, <1>7, <1>8, <1>9, ReadsToken
<1>11. ~ t.done
  BY <1>4, <1>10, Zenon
<1> QED BY <1>4, <1>6, <1>8, <1>10, <1>11

LEMMA InItsContainer ==
  ASSUME IsDocument(doc), NEW r, NEW c, NEW b, NEW j, Whole(c, b), IsIn(r, c, b, j)
  PROVE  Encloses(c, Front(r, j)) /\ TypeFits(r.container, Front(r, j))
<1> DEFINE f == Front(r, j)
<1>1. Passed(r, j) /\ c <= j /\ (r.elem # NoElement => c < j) /\ j \in 0..Len(doc.toks)
      /\ LevelAt(r, j) = b /\ (\A k \in c..j - 1 : doc.depth[k] >= b) /\ r.container = Kind(c)
  BY DEF IsIn, Passed
<1>2. c \in 0..Len(doc.toks) /\ doc.depth[c] = b /\ (c # 0 => IsContainer(doc, c)) /\ Len(doc.toks) \in Nat
  BY DocumentTypes DEF Whole
<1>3. f \in 0..Len(doc.toks) /\ c \in 0..f /\ f \in {j, j - 1}
  BY <1>1, <1>2 DEF Front
<1>4. doc.depth[f] = b /\ b \in Int
  BY <1>1, <1>2, DocumentTypes DEF Front, LevelAt
<1>5. \A k \in c..f : doc.depth[k] >= b
  <2>1. \A k \in c..f : k = f \/ k \in c..j - 1
    BY <1>1, <1>2, <1>3
  <2> QED BY <1>1, <1>4, <2>1
<1> HIDE DEF f
<1>6. Encloses(c, f)
  BY <1>2, <1>3, <1>4, <1>5 DEF Encloses
<1>7. TypeFits(r.container, f)
  BY <1>1, <1>6 DEF TypeFits
<1> QED BY <1>6, <1>7 DEF f

\* The loop finds the end of a whole container.
LEMMA EndIsFound ==
  ASSUME IsDocument(doc), WellFormed(doc), NEW r \in ReaderType, NEW c, NEW b, NEW j,
         Whole(c, b), c # 0, IsIn(r, c, b, j)
  PROVE  SkipToEndOfContainer(r).err = NoError
<1> DEFINE N == Len(doc.toks)
           Going(s, i) ==
             /\ Passed(s.val, i) /\ s.nest = LevelAt(s.val, i) - b /\ i >= c
             /\ TypeFits(s.val.container, Front(s.val, i))
             /\ \A k \in c..i - 1 : doc.depth[k] >= b
           I == {s \in SkipState : s.err = NoError /\ (~ s.done => \E i \in 0..N : Going(s, i))}
<1>1. /\ N \in Nat /\ r.container \in ContainerTypes /\ r.container = Kind(c) /\ Passed(r, j)
      /\ j \in 0..N /\ j >= c /\ LevelAt(r, j) = b /\ (\A k \in c..j - 1 : doc.depth[k] >= b)
  BY DocumentTypes DEF IsIn, ReaderType, Passed
<1>2. c \in 0..N /\ doc.depth[c] = b /\ b \in Int /\ IsContainer(doc, c)
  BY DocumentTypes DEF Whole
<1>3. FirstSkip(r) \in I
  <2> DEFINE s == FirstSkip(r)
  <2> SUFFICES s \in I
    OBVIOUS
  <2>1. s \in SkipState /\ s.val = r /\ s.err = NoError /\ s.nest = 0 /\ s.done = FALSE
    BY DEF FirstSkip, SkipState, Errors
  <2> HIDE DEF s
  <2>2. s.nest = LevelAt(s.val, j) - b
    BY <1>1, <1>2, <2>1
  <2>3. TypeFits(r.container, Front(r, j))
    BY InItsContainer
  <2>4. Going(s, j)
    BY <1>1, <2>1, <2>2, <2>3
  <2> HIDE DEF Going
  <2> QED BY <1>1, <2>1, <2>4
<1>4. ASSUME NEW s \in I PROVE SkipTurn(s, r.container) \in I
  <2> DEFINE t == SkipTurn(s, r.container)
             n == s.nest + Nesting(s.val.elem)
  <2> SUFFICES t \in I
    OBVIOUS
  <2>1. s \in SkipState /\ s.err = NoError /\ (~ s.done => \E i \in 0..N : Going(s, i))
    OBVIOUS
  <2>2. t \in SkipState
    BY <1>1, <2>1, SkipTurnSteps
  <2>3. CASE s.done \/ n < 0
    <3>1. t = [s EXCEPT !.done = TRUE]
      BY <2>3 DEF SkipTurn
    <3> HIDE DEF t, Going
    <3>2. t.err = NoError /\ t.done
      BY <2>1, <3>1 DEF SkipState
    <3> QED BY <2>2, <3>2
  <2>4. CASE ~ (s.done \/ n < 0)
    <3>1. PICK i \in 0..N : Going(s, i)
      BY <2>1, <2>4
    <3>2. /\ Passed(s.val, i) /\ s.nest = LevelAt(s.val, i) - b /\ i >= c /\ i \in Nat
          /\ TypeFits(s.val.container, Front(s.val, i)) /\ \A k \in c..i - 1 : doc.depth[k] >= b
      BY <1>1, <3>1
    <3>3. /\ doc.depth[i] \in Int /\ LevelAt(s.val, i) \in Int
          /\ doc.depth[i] = LevelAt(s.val, i) + Nesting(s.val.elem)
      BY <3>2, LevelType
    <3>4. Nesting(s.val.elem) \in Int
      BY DEF Nesting
    <3>5. n = doc.depth[i] - b /\ n \in Int /\ n >= 0
      BY <1>2, <2>4, <3>2, <3>3, <3>4
    <3> HIDE DEF n, Going
    <3>6. doc.depth[i] >= b
      BY <1>2, <3>3, <3>5
    <3>7. \A k \in c..i : doc.depth[k] >= b
      <4>1. \A k \in c..i : k = i \/ k \in c..i - 1
        BY <1>2, <3>2
      <4> QED BY <3>2, <3>6, <4>1
    <3>8. i < N
      <4>1. i \in c..N
        BY <1>1, <1>2, <3>2
      <4>2. doc.start[i + 1] < doc.len
        BY <3>7, <4>1, NotCutOff
      <4>3. doc.len = doc.start[N + 1] /\ doc.len \in Nat
        BY DocumentTypes DEF WellFormed
      <4> QED BY <1>1, <4>1, <4>2, <4>3
    <3>9. TypeFits(ContainerAfter(s.val, r.container, n), i)
      <4>1. ASSUME n = 0 PROVE Encloses(c, i)
        <5>1. doc.depth[i] = b
          BY <1>2, <3>3, <3>5, <4>1
        <5>2. c \in 0..i
          BY <1>2, <3>2
        <5> QED BY <1>2, <3>7, <5>1, <5>2 DEF Encloses
      <4> QED BY <1>1, <3>2, <4>1, ContainerAfterFits
    <3>10. /\ t.err = NoError /\ ~ t.done /\ t.nest = n /\ t.val.elem = doc.toks[i + 1]
           /\ Passed(t.val, i + 1) /\ t.val.container = ContainerAfter(s.val, r.container, n)
      BY <1>1, <2>1, <2>4, <3>2, <3>5, <3>8, <3>9, SkipTurnReads DEF n
    <3> HIDE DEF t
    <3>11. t.val.elem # NoElement /\ i + 1 \in 0..N
      <4>1. i + 1 \in 1..N
        BY <3>2, <3>8
      <4>2. doc.toks[i + 1] \in HeadType
        BY <4>1, DocumentTypes
      <4> QED BY <3>10, <4>1, <4>2, HeadIsElement
    <3>12. Front(t.val, i + 1) = i /\ LevelAt(t.val, i + 1) = doc.depth[i]
      BY <3>2, <3>11 DEF Front, LevelAt
    <3>13. Going(t, i + 1)
      <4>1. i + 1 >= c /\ i + 1 - 1 = i
        BY <1>2, <3>2
      <4>2. t.nest = LevelAt(t.val, i + 1) - b
        BY <3>5, <3>10, <3>12
      <4> QED BY <3>7, <3>9, <3>10, <3>12, <4>1, <4>2 DEF Going
    <3> QED BY <2>2, <3>10, <3>11, <3>13
  <2> QED BY <2>3, <2>4
<1>5. PICK s \in I : s.done /\ SkipToEndOfContainer(r) = Outcome(s.val, s.err)
  <2>1. I \subseteq SkipState
    OBVIOUS
  <2> HIDE DEF I
  <2> QED BY <1>3, <1>4, <2>1, SkipLoop
<1> QED BY <1>5 DEF Outcome

LEMMA ExitSucceeds ==
  ASSUME IsDocument(doc), WellFormed(doc), NEW r \in ReaderType, NEW c, NEW b, NEW j,
         Whole(c, b), c # 0, IsIn(r, c, b, j), NEW outer
  PROVE  ExitContainer(r, outer).err = NoError
<1>1. SkipToEndOfContainer(r).err = NoError
  BY EndIsFound
<1> QED BY <1>1 DEF ExitContainer, Then, OK, Outcome

LEMMA SkipSucceeds ==
  ASSUME IsDocument(doc), WellFormed(doc), NEW r \in ReaderType, NEW c, NEW b, NEW j,
         Whole(c, b), IsIn(r, c, b, j), r.elem.type # "end"
  PROVE  Skip(r).err = NoError
<1>1. Passed(r, j)
  BY DEF IsIn
<1>2. CASE IsOnContainer(r)
  <2> DEFINE e == EnterContainer(r)
  <2>1. /\ e.err = NoError /\ e.val \in ReaderType /\ e.val.elem = NoElement
        /\ e.val.container = r.elem.type /\ Passed(e.val, j)
    BY <1>1, <1>2, EnterSteps DEF IsOnContainer
  <2>2. Skip(r) = ExitContainer(e.val, r.container)
    BY <1>2, <2>1 DEF Skip, Then, IsOnContainer, Containers
  <2> HIDE DEF e
  <2>3. j \in 1..Len(doc.toks) /\ r.elem.type = doc.toks[j].type /\ doc.depth[j] \in Int
    <3>1. r.elem # NoElement
      BY <1>2 DEF IsOnContainer, NoElement, Containers
    <3> QED BY <1>1, <3>1, LevelType
  <2>4. Whole(j, doc.depth[j])
    <3>1. Complete(doc, j)
      BY <2>3 DEF WellFormed
    <3>2. IsContainer(doc, j)
      BY <1>2, <2>3 DEF IsContainer, IsOnContainer
    <3> QED BY <2>3, <3>1, <3>2 DEF Whole
  <2>5. IsIn(e.val, j, doc.depth[j], j)
    <3>1. LevelAt(e.val, j) = doc.depth[j] /\ e.val.container = Kind(j)
      BY <2>1, <2>3 DEF LevelAt, Kind
    <3>2. \A k \in j..j - 1 : doc.depth[k] >= doc.depth[j]
      BY <2>3
    <3>3. j <= j
      BY <2>3
    <3> QED BY <2>1, <3>1, <3>2, <3>3 DEF IsIn
  <2>6. j # 0
    BY <2>3
  <2> QED BY <2>1, <2>2, <2>4, <2>5, <2>6, ExitSucceeds
<1>3. CASE ~ IsOnContainer(r)
  <2>1. SkipData(r).err = NoError
    BY <1>1, SkipDataSteps
  <2> QED BY <1>3, <2>1 DEF Skip, Then, OK, Outcome
<1> QED BY <1>2, <1>3

\* Next fails only if what it reads is no element, or not the one that is expected.
LEMMA NextSucceeds ==
  ASSUME IsDocument(doc), WellFormed(doc), NEW r \in ReaderType, NEW c, NEW b, NEW j,
         Whole(c, b), IsIn(r, c, b, j), r.elem = NoElement, NEW o, o = ReaderNext(r)
  PROVE  o.err = IF j < Len(doc.toks) /\ doc.toks[j + 1].type # "end" THEN NoError ELSE EndOfTLV
<1> DEFINE N == Len(doc.toks)
           s == Skip(r)
           t == ReadElement(s.val)
<1>1. r.elem.type # "end" /\ ~ IsOnContainer(r)
  BY DEF NoElement, IsOnContainer, Containers
<1>2. Passed(r, j) /\ j \in 0..N /\ N \in Nat
  BY DocumentTypes DEF IsIn, Passed
<1>3. /\ s.err = NoError /\ s.val \in ReaderType /\ s.val.at = doc.start[j + 1]
      /\ s.val.container = r.container
  <2>1. s.err = NoError
    BY <1>1, SkipSucceeds
  <2>2. s.val.elem = NoElement /\ s.val.container = r.container /\ s.val \in ReaderType
        /\ \E i \in j..N : Passed(s.val, i) /\ (r.elem = NoElement => i = j)
    BY <1>2, <2>1, SkipPasses
  <2>3. Passed(s.val, j) /\ Unread(s.val) = 0 /\ s.val.at \in Nat
    BY <2>2, UnreadType DEF Unread, NoElement, Strings
  <2> QED BY <2>1, <2>2, <2>3 DEF Passed
<1>4. o = Then(t, LAMBDA q : Outcome(q, IF q.elem.type = "end" THEN EndOfTLV ELSE NoError))
  BY <1>3 DEF ReaderNext, Then
<1>5. TypeFits(r.container, j)
  <2>1. Front(r, j) = j
    BY DEF Front
  <2> QED BY <2>1, InItsContainer
<1> HIDE DEF s
<1>6. CASE j < N
  <2>1. t.err = NoError /\ t.val.elem = doc.toks[j + 1]
    <3>1. j \in 0..N - 1
      BY <1>2, <1>6
    <3> QED BY <1>3, <1>5, <3>1, ReadsToken
  <2> HIDE DEF t
  <2> QED BY <1>4, <1>6, <2>1 DEF Then, Outcome
<1>7. CASE ~ (j < N)
  <2>1. s.val.at = doc.len
    BY <1>2, <1>3, <1>7 DEF WellFormed
  <2>2. t.err = EndOfTLV
    BY <2>1 DEF ReadElement, Outcome
  <2> HIDE DEF t
  <2>3. o = t
    BY <1>4, <2>2 DEF Then, EndOfTLV, NoError
  <2> QED BY <1>7, <2>2, <2>3
<1> QED BY <1>6, <1>7

LEMMA NextOfSucceeds ==
  ASSUME IsDocument(doc), WellFormed(doc), NEW r \in ReaderType, NEW c, NEW b, NEW j,
         Whole(c, b), IsIn(r, c, b, j), r.elem = NoElement, NEW type, NEW tag,
         j < Len(doc.toks), doc.toks[j + 1].type = type, doc.toks[j + 1].tag = tag, type # "end"
  PROVE  ReaderNextOf(r, type, tag).err = NoError
<1> DEFINE n == ReaderNext(r)
<1>1. n.err = NoError
  BY NextSucceeds
<1>2. n.val.elem = doc.toks[j + 1]
  <2>1. Passed(r, j)
    BY DEF IsIn
  <2> QED BY <1>1, <2>1, ReaderNextAdvances DEF Advanced
<1> HIDE DEF n
<1> QED BY <1>1, <1>2 DEF ReaderNextOf, Then, Outcome, n

\* Whether the document is well formed or not, a whole element is not cut off.
LEMMA SkipNotCutOff ==
  ASSUME IsDocument(doc), NEW r \in ReaderType, NEW j, Passed(r, j), r.elem.type # "end",
         r.elem # NoElement => Complete(doc, j)
  PROVE  Skip(r).err # EndOfTLV
<1> DEFINE N == Len(doc.toks)   b == LevelAt(r, j)   l == doc.last[j]
<1> SUFFICES ASSUME Skip(r).err = EndOfTLV PROVE FALSE
  OBVIOUS
<1>1. PICK i \in j..N : doc.start[i + 1] = doc.len /\ \A k \in j..i : doc.depth[k] > b
  BY SkipPasses
<1>2. /\ j \in Nat /\ j \in 0..N /\ N \in Nat /\ b \in Int /\ doc.depth[j] \in Int
      /\ r.elem # NoElement => j \in 1..N /\ r.elem.type = doc.toks[j].type
      /\ doc.depth[j] = b + Nesting(r.elem)
  BY DocumentTypes, LevelType DEF Passed
<1>3. doc.depth[j] > b
  BY <1>1, <1>2
<1>4. r.elem.type \in Containers /\ doc.depth[j] = b + 1
  BY <1>2, <1>3 DEF Nesting
<1>5. r.elem # NoElement
  BY <1>4 DEF NoElement, Containers
<1>6. l \in j + 1..N /\ doc.depth[l] = doc.depth[j] - 1 /\ doc.start[l + 1] <= doc.len
  BY <1>2, <1>4, <1>5, LastOfContainer DEF Complete
<1> HIDE DEF l, b
<1>7. doc.depth[l] = b
  BY <1>2, <1>4, <1>6
<1>8. CASE l <= i
  <2>1. doc.depth[l] > b
    BY <1>1, <1>2, <1>6, <1>8
  <2> QED BY <1>2, <1>7, <2>1
<1>9. CASE ~ (l <= i)
  <2>1. i + 1 \in 1..N + 1 /\ l + 1 \in 1..N + 1 /\ i + 1 < l + 1
    BY SMTT(20), <1>1, <1>2, <1>6, <1>9
  <2>2. doc.start[i + 1] < doc.start[l + 1] /\ doc.start[l + 1] \in Nat /\ doc.len \in Nat
    BY <2>1, DocumentTypes
  <2> QED BY <1>1, <1>6, <2>2
<1> QED BY <1>8, <1>9
=============================================================================
