--------------------------- MODULE OfdmLinkProofs ---------------------------
(***************************************************************************)
(* What the Ofdm of a link does.  AdaptiveLink: what its controller does   *)
(* with reports that are lost, clamped, or from a peer that was started    *)
(* again; that the capacity the search of the MAC finds is the largest,    *)
(* and what it segments gets into frames.  FrameLink: that no frame is     *)
(* handed over without a verdict but one sent without a key.  Acquisition: *)
(* that a search finds the first preamble in any samples, and the carrier  *)
(* offset is undone.  Theorems for any table, thresholds, streak, number   *)
(* of frames, codes, sizes of a frame, sequence of schemes, grid, channel, *)
(* scrambling, template and capture.                                       *)
(***************************************************************************)
EXTENDS AdaptiveLink, FrameLink, Acquisition, FiniteSetTheorems,
        SequenceTheorems, WellFoundedInduction, TLAPS

-----------------------------------------------------------------------------
(* Induction and recursion, for sets and functions in place of predicates  *)
(* and operators.                                                          *)

Below == {pair \in Nat \X Nat : pair[1] < pair[2]}

(* Every set of natural numbers that is not empty has a least element.     *)
LEMMA LeastElement ==
  ASSUME NEW T \in SUBSET Nat, T # {}
  PROVE  \E x \in T : \A y \in T : x <= y
<1>1. IsWellFoundedOn(Below, Nat)
  BY NatLessThanWellFounded DEF OpToRel, Below
<1>2. \E x \in T : \A y \in T : ~ (<<y, x>> \in Below)
  BY <1>1, WFMin
<1>3. \A x, y \in T : ~ (<<y, x>> \in Below) => x <= y
  BY DEF Below
<1> QED BY <1>2, <1>3

(* Induction, for a set in place of a predicate. *)
LEMMA SetInduction ==
  ASSUME NEW N, 0 \in N, \A n \in Nat : n \in N => n + 1 \in N
  PROVE  \A n \in Nat : n \in N
<1> DEFINE T == Nat \ N
<1> SUFFICES ASSUME T # {} PROVE FALSE
  OBVIOUS
<1>1. PICK k \in T : \A l \in T : k <= l
  <2>1. T \in SUBSET Nat
    OBVIOUS
  <2> HIDE DEF T
  <2> QED BY <2>1, LeastElement
<1>2. k \in Nat /\ k \notin N /\ k # 0
  BY <1>1
<1>3. k - 1 \in Nat /\ ~(k <= k - 1) /\ (k - 1) + 1 = k
  BY <1>2
<1>4. k - 1 \notin T
  BY <1>1, <1>3
<1>5. k - 1 \in N
  BY <1>3, <1>4
<1> QED BY <1>2, <1>3, <1>5

(* A recursion with one recursive call: a function from S to V that is      *)
(* bottom where it is done, and combines its argument with its value at the *)
(* next one elsewhere.  Each call is on an argument of lower rank.          *)
Recursion(S, V, done, bottom, next, combine, rank) ==
  /\ bottom \in [S -> V] /\ next \in [S -> S] /\ combine \in [S \X V -> V]
  /\ rank \in [S -> Nat]
  /\ \A s \in S \ done : rank[next[s]] < rank[s]

Solves(f, S, done, bottom, next, combine) ==
  \A s \in S : f[s] = IF s \in done THEN bottom[s] ELSE combine[s, f[next[s]]]

(* Such a function exists, so it is what the definition by CHOOSE gives.    *)
LEMMA RecursionExists ==
  ASSUME NEW S, NEW V, NEW done, NEW bottom, NEW next, NEW combine, NEW rank,
         Recursion(S, V, done, bottom, next, combine, rank)
  PROVE  \E f \in [S -> V] : Solves(f, S, done, bottom, next, combine)
<1> DEFINE Obeys(f, n) == \A s \in S : rank[s] < n =>
             f[s] = IF s \in done THEN bottom[s] ELSE combine[s, f[next[s]]]
<1>0. /\ \A s \in S : rank[s] \in Nat /\ next[s] \in S
      /\ \A s \in S \ done : rank[next[s]] < rank[s]
      /\ bottom \in [S -> V] /\ combine \in [S \X V -> V]
  BY DEF Recursion
<1>1. ASSUME NEW n \in Nat, NEW f \in [S -> V], NEW g \in [S -> V], Obeys(f, n), Obeys(g, n)
      PROVE  \A s \in S : rank[s] < n => f[s] = g[s]
  <2> DEFINE N == {m \in Nat : \A s \in S : rank[s] < n /\ rank[s] < m => f[s] = g[s]}
  <2>1. 0 \in N
    BY <1>0
  <2>2. ASSUME NEW m \in Nat, m \in N PROVE m + 1 \in N
    <3> SUFFICES ASSUME NEW s \in S, rank[s] < n, rank[s] < m + 1 PROVE f[s] = g[s]
      OBVIOUS
    <3>1. f[s] = IF s \in done THEN bottom[s] ELSE combine[s, f[next[s]]]
      BY <1>1
    <3>2. g[s] = IF s \in done THEN bottom[s] ELSE combine[s, g[next[s]]]
      BY <1>1
    <3>3. CASE s \notin done
      <4>1. next[s] \in S /\ rank[next[s]] < n /\ rank[next[s]] < m
        BY <3>3, <1>0
      <4> QED BY <4>1, <2>2, <3>1, <3>2
    <3> QED BY <3>1, <3>2, <3>3
  <2>3. \A m \in Nat : m \in N
    <3> HIDE DEF N
    <3> QED BY <2>1, <2>2, SetInduction
  <2> QED BY <2>3
<1> DEFINE N == {n \in Nat : \E f \in [S -> V] : Obeys(f, n)}
<1>2. 0 \in N
  <2>1. \A s \in S : ~(rank[s] < 0)
    BY <1>0
  <2>2. Obeys(bottom, 0)
    BY <2>1
  <2> HIDE DEF Obeys
  <2> QED BY <2>2, <1>0
<1>3. ASSUME NEW n \in Nat, n \in N PROVE n + 1 \in N
  <2>1. PICK f \in [S -> V] : Obeys(f, n)
    BY <1>3
  <2> DEFINE g == [s \in S |-> IF s \in done THEN bottom[s] ELSE combine[s, f[next[s]]]]
  <2>2. g \in [S -> V]
    BY <1>0
  <2>3. \A s \in S : rank[s] < n => g[s] = f[s]
    BY <2>1
  <2>4. ASSUME NEW s \in S, rank[s] < n + 1
        PROVE  g[s] = IF s \in done THEN bottom[s] ELSE combine[s, g[next[s]]]
    <3>1. CASE s \in done
      BY <3>1
    <3>2. CASE s \notin done
      <4>1. next[s] \in S /\ rank[next[s]] < n
        BY <3>2, <1>0, <2>4
      <4>2. g[next[s]] = f[next[s]]
        BY <4>1, <2>3
      <4> QED BY <4>2, <3>2
    <3> QED BY <3>1, <3>2
  <2> HIDE DEF g
  <2>5. Obeys(g, n + 1)
    BY <2>4
  <2>6. n + 1 \in Nat
    OBVIOUS
  <2> HIDE DEF Obeys
  <2> QED BY <2>2, <2>5, <2>6
<1>4. \A n \in Nat : n \in N
  <2> HIDE DEF N
  <2> QED BY <1>2, <1>3, SetInduction
<1> DEFINE g(n) == CHOOSE f \in [S -> V] : Obeys(f, n)
           F == [s \in S |-> g(rank[s] + 1)[s]]
<1>5. ASSUME NEW n \in Nat PROVE g(n) \in [S -> V] /\ Obeys(g(n), n)
  <2>1. \E f \in [S -> V] : Obeys(f, n)
    BY <1>4
  <2> HIDE DEF Obeys
  <2> QED BY <2>1
<1> HIDE DEF g
<1>6. F \in [S -> V]
  <2> SUFFICES ASSUME NEW s \in S PROVE g(rank[s] + 1)[s] \in V
    OBVIOUS
  <2>1. rank[s] + 1 \in Nat
    BY <1>0
  <2> QED BY <2>1, <1>5
<1>7. ASSUME NEW s \in S
      PROVE  F[s] = IF s \in done THEN bottom[s] ELSE combine[s, F[next[s]]]
  <2>1. PICK n \in Nat : n = rank[s] + 1 /\ rank[s] < n
    BY <1>0
  <2>2. F[s] = g(n)[s] /\ g(n) \in [S -> V] /\ Obeys(g(n), n)
    BY <2>1, <1>5
  <2>3. F[s] = IF s \in done THEN bottom[s] ELSE combine[s, g(n)[next[s]]]
    BY <2>1, <2>2
  <2>4. CASE s \notin done
    <3>1. PICK m \in Nat : m = rank[next[s]] + 1 /\ m <= n /\ rank[next[s]] < m
      BY <2>4, <2>1, <1>0
    <3>2. F[next[s]] = g(m)[next[s]] /\ next[s] \in S
      BY <3>1, <1>0
    <3>3. g(m) \in [S -> V] /\ Obeys(g(m), m)
      BY <1>5
    <3>4. Obeys(g(n), m)
      <4> SUFFICES ASSUME NEW t \in S, rank[t] < m PROVE rank[t] < n
        BY <2>2
      <4> QED BY <3>1, <1>0
    <3>5. g(m)[next[s]] = g(n)[next[s]]
      <4> HIDE DEF Obeys
      <4> QED BY <2>2, <3>1, <3>2, <3>3, <3>4, <1>1
    <3> QED BY <3>2, <3>5, <2>3, <2>4
  <2> QED BY <2>3, <2>4
<1> HIDE DEF F
<1> QED BY <1>6, <1>7 DEF Solves

-----------------------------------------------------------------------------
(* The bisection of compute_max_segment_bits.                              *)

(* The loop's own equation, which the definition of LargestFitting chooses. *)
BisectIs(f, scheme) ==
  f = [search \in Searches |->
          IF Over(search) THEN search.best ELSE f[Halved(scheme, search)]]

(* The next candidate of the search is whole bytes and within its range.   *)
LEMMA MiddleIs ==
  ASSUME NEW search \in Searches, ~Over(search)
  PROVE  /\ Middle(search) \in Nat /\ Middle(search) >= ByteBits
         /\ Middle(search) + ByteBits > search.lo /\ Middle(search) <= search.hi
         /\ Middle(search) % ByteBits = 0
         /\ search.lo % ByteBits = 0 => Middle(search) >= search.lo
<1>0. PICK B \in Nat \ {0} : B = ByteBits
  BY ByteBitsAssumption
<1>1. search.lo \in Nat /\ search.hi \in Int
  BY DEF Searches
<1>2. PICK lo \in Nat, hi \in Int : lo = search.lo /\ hi = search.hi
  BY <1>1
<1> DEFINE q == (lo + hi) \div (2 * B)
<1>3. q \in Int /\ (2 * B) * q <= lo + hi /\ lo + hi < (2 * B) * q + 2 * B
  BY <1>0
<1>4. Middle(search) = q * B
  BY <1>0, <1>2 DEF Middle
<1>5. lo <= hi /\ q * B >= B
  BY <1>0, <1>2, <1>4 DEF Over
<1> HIDE DEF q
<1>6. PICK m \in Int : m = q * B
  BY <1>0, <1>3
<1>7. 2 * m <= lo + hi /\ lo + hi < 2 * m + 2 * B
  BY <1>0, <1>3, <1>6
<1>8. m \in Nat /\ m >= B /\ m + B > lo /\ m <= hi
  BY <1>0, <1>5, <1>6, <1>7
<1>9. m % B = 0
  BY <1>0, <1>3, <1>6
<1>10. lo % B = 0 => m >= lo
  <2> SUFFICES ASSUME lo % B = 0, m < lo PROVE FALSE
    BY <1>8
  <2>1. PICK r \in Int : lo = B * r
    BY <1>0
  <2>2. q * B < B * r /\ B * r < q * B + B
    BY <2>1, <1>6, <1>8
  <2>3. q < r /\ r < q + 1
    BY <2>2, <1>0, <1>3
  <2> QED BY <2>3, <1>3
<1> QED BY <1>0, <1>2, <1>4, <1>6, <1>8, <1>9, <1>10

(* A turn of the loop leaves a shorter range.                              *)
LEMMA HalvedIs ==
  ASSUME NEW scheme, NEW search \in Searches, ~Over(search)
  PROVE  /\ Halved(scheme, search) \in Searches
         /\ Halved(scheme, search).hi - Halved(scheme, search).lo < search.hi - search.lo
<1>1. PICK m, B \in Nat \ {0} : m = Middle(search) /\ B = ByteBits /\ m >= B
        /\ m + B > search.lo /\ m <= search.hi
  BY MiddleIs, ByteBitsAssumption
<1>2. search.lo \in Nat /\ search.hi \in Int /\ search.best \in Nat
  BY DEF Searches
<1>3. CASE Fits(scheme, Middle(search))
  <2>1. Halved(scheme, search) = [lo |-> m + B, hi |-> search.hi, best |-> m]
    BY <1>1, <1>3 DEF Halved, Searches
  <2>2. m + B \in Nat /\ search.hi - (m + B) < search.hi - search.lo
    BY <1>1, <1>2
  <2> QED BY <1>1, <1>2, <2>1, <2>2 DEF Searches
<1>4. CASE ~Fits(scheme, Middle(search))
  <2>1. Halved(scheme, search) = [search EXCEPT !.hi = m - B]
    BY <1>1, <1>4 DEF Halved
  <2> QED BY <1>1, <1>2, <2>1 DEF Searches
<1> QED BY <1>3, <1>4

(* How far a search is from its end. *)
Distance(search) == IF search.hi < search.lo THEN 0 ELSE search.hi - search.lo + 1

(* The loop ends whatever the scheme, so its equation has a solution.      *)
LEMMA BisectExists ==
  ASSUME NEW scheme PROVE \E f \in [Searches -> Nat] : BisectIs(f, scheme)
<1> DEFINE done == {search \in Searches : Over(search)}
           bottom == [search \in Searches |-> search.best]
           next == [search \in Searches |-> IF Over(search) THEN search ELSE Halved(scheme, search)]
           combine == [pair \in Searches \X Nat |-> pair[2]]
           rank == [search \in Searches |-> Distance(search)]
<1>1. bottom \in [Searches -> Nat] /\ rank \in [Searches -> Nat]
  BY DEF Searches, Distance
<1>2. next \in [Searches -> Searches]
  BY HalvedIs
<1>3. combine \in [Searches \X Nat -> Nat]
  OBVIOUS
<1>4. ASSUME NEW search \in Searches \ done PROVE rank[next[search]] < rank[search]
  <2>1. /\ search \in Searches /\ ~Over(search) /\ next[search] = Halved(scheme, search)
        /\ Halved(scheme, search) \in Searches
        /\ Halved(scheme, search).hi - Halved(scheme, search).lo < search.hi - search.lo
    BY <1>4, HalvedIs
  <2>2. ~(search.hi < search.lo)
    BY <2>1 DEF Over, Searches
  <2>3. Distance(Halved(scheme, search)) < Distance(search)
    BY <2>1, <2>2 DEF Distance, Searches
  <2> QED BY <2>1, <2>3
<1>5. \A search \in Searches \ done : rank[next[search]] < rank[search]
  BY <1>4
<1> HIDE DEF rank
<1>6. PICK f \in [Searches -> Nat] :
        Solves(f, Searches, done, bottom, next, combine)
  <2>1. Recursion(Searches, Nat, done, bottom, next, combine, rank)
    BY <1>1, <1>2, <1>3, <1>5 DEF Recursion
  <2> HIDE DEF done, bottom, next, combine
  <2> QED BY <2>1, RecursionExists
<1>7. BisectIs(f, scheme)
  <2>1. ASSUME NEW search \in Searches
        PROVE  f[search] = IF Over(search) THEN search.best ELSE f[Halved(scheme, search)]
    <3>1. CASE Over(search)
      BY <3>1, <1>6 DEF Solves
    <3>2. CASE ~Over(search)
      <4>1. Halved(scheme, search) \in Searches
        BY <3>2, HalvedIs
      <4>2. f[search] = combine[search, f[next[search]]] /\ next[search] = Halved(scheme, search)
        BY <3>2, <1>6 DEF Solves
      <4> QED BY <4>1, <4>2, <3>2
    <3> QED BY <3>1, <3>2
  <2>2. f = [search \in Searches |->
                IF Over(search) THEN search.best ELSE f[Halved(scheme, search)]]
    BY <2>1
  <2> QED BY <2>2 DEF BisectIs
<1> QED BY <1>7

(* LargestFitting is what a solution of that equation makes of the start.  *)
LEMMA SearchResult ==
  ASSUME NEW scheme
  PROVE  \E f : BisectIs(f, scheme) /\ LargestFitting(scheme) = f[WholeRange(scheme)]
<1> DEFINE f == CHOOSE g : BisectIs(g, scheme)
<1>1. BisectIs(f, scheme)
  BY BisectExists
<1>2. LargestFitting(scheme) = f[WholeRange(scheme)]
  BY DEF LargestFitting, BisectIs
<1> QED BY <1>1, <1>2

-----------------------------------------------------------------------------
(* The length of an encoded packet grows with that of its payload.         *)

(* A block of a code is never shorter than what it encodes.                *)
LEMMA CodeSizes ==
  ASSUME NEW code \in SymbolSchemes \cup BlockSchemes
  PROVE  KBits(code) \in Nat \ {0} /\ NBits(code) \in Nat /\ KBits(code) <= NBits(code)
<1>1. CASE code \in SymbolSchemes
  <2>1. PICK r, n \in Int : r = NRoots /\ n = RsN /\ 1 <= r /\ r <= n - 1
    BY ReedSolomonAssumption, ByteBitsAssumption DEF RsN
  <2>2. PICK B \in Nat \ {0} : B = ByteBits
    BY ByteBitsAssumption
  <2>3. KBits(code) = (n - r) * B /\ NBits(code) = n * B
    BY <1>1, <2>1, <2>2 DEF KBits, NBits, RsK
  <2>4. n - r \in Nat \ {0} /\ n \in Nat /\ n - r <= n
    BY <2>1
  <2> HIDE DEF KBits, NBits
  <2>5. \A x, y \in Nat : x <= y => x * B <= y * B
    BY <2>2
  <2>6. (n - r) * B \in Nat \ {0} /\ n * B \in Nat
    BY <2>2, <2>4
  <2> QED BY <2>2, <2>3, <2>4, <2>5, <2>6
<1>2. CASE code \notin SymbolSchemes
  <2>1. Len(LdpcBase[1]) \in Nat /\ Len(LdpcBase) \in Nat /\ LdpcZ \in Nat
    BY LdpcAssumption
  <2>2. LdpcN \in Nat /\ LdpcChecks \in Nat /\ LdpcK > 0
    BY <2>1, LdpcAssumption DEF LdpcN, LdpcChecks
  <2> QED BY <1>2, <2>2 DEF KBits, NBits, LdpcK
<1> QED BY <1>1, <1>2

(* A longer message takes as many bits in blocks, or more.                 *)
LEMMA BlocksGrow ==
  ASSUME NEW k \in Nat \ {0}, NEW n \in Nat, NEW a \in Nat, NEW b \in Nat, k <= n, a <= b
  PROVE  /\ BlocksEncoded(a, k, n) \in Nat
         /\ BlocksEncoded(a, k, n) <= BlocksEncoded(b, k, n)
<1>1. PICK qa \in Nat, ra \in 0 .. k - 1 : qa = a \div k /\ ra = a % k /\ a = k * qa + ra
  OBVIOUS
<1>2. PICK qb \in Nat, rb \in 0 .. k - 1 : qb = b \div k /\ rb = b % k /\ b = k * qb + rb
  OBVIOUS
<1>3. /\ BlocksEncoded(a, k, n) = qa * n + (IF ra > 0 THEN ra + (n - k) ELSE 0)
      /\ BlocksEncoded(b, k, n) = qb * n + (IF rb > 0 THEN rb + (n - k) ELSE 0)
  BY <1>1, <1>2 DEF BlocksEncoded
<1>4. qa <= qb
  <2> SUFFICES ASSUME qb + 1 <= qa PROVE FALSE
    BY <1>1, <1>2
  <2>1. k * (qb + 1) <= k * qa
    BY <1>1, <1>2
  <2>2. k * (qb + 1) = k * qb + k
    BY <1>2
  <2> QED BY <2>1, <2>2, <1>1, <1>2
<1>5. qa * n \in Nat /\ qb * n \in Nat
  BY <1>1, <1>2
<1>6. CASE qa = qb
  BY <1>1, <1>2, <1>3, <1>5, <1>6
<1>7. CASE qa + 1 <= qb
  <2>1. (qa + 1) * n <= qb * n
    BY <1>1, <1>2, <1>7
  <2>2. (qa + 1) * n = qa * n + n
    BY <1>1
  <2>3. (IF ra > 0 THEN ra + (n - k) ELSE 0) <= n /\ (IF ra > 0 THEN ra + (n - k) ELSE 0) \in Nat
    BY <1>1
  <2> QED BY <1>1, <1>2, <1>3, <1>5, <2>1, <2>2, <2>3
<1> QED BY <1>1, <1>2, <1>3, <1>4, <1>5, <1>6, <1>7

(* What a stage makes of a length; "none" leaves it. *)
StageLength(code, n) == IF code = "none" THEN n ELSE FecEncodedLength(code, n)

(* The same of every stage.                                                *)
LEMMA StagesGrow ==
  ASSUME NEW code \in FecNames, NEW a \in Nat, NEW b \in Nat, a <= b
  PROVE  /\ StageLength(code, a) \in Nat /\ StageLength(code, b) \in Nat
         /\ StageLength(code, a) <= StageLength(code, b)
<1>1. CASE code = "none"
  BY <1>1 DEF StageLength
<1>2. CASE code = "conv_v27"
  BY <1>2, ConvolutionalAssumption DEF StageLength, FecEncodedLength, StreamEncoded, TailBits
<1>3. CASE code \in SymbolSchemes \cup BlockSchemes
  <2>1. StageLength(code, a) = BlocksEncoded(a, KBits(code), NBits(code))
        /\ StageLength(code, b) = BlocksEncoded(b, KBits(code), NBits(code))
    BY <1>3 DEF StageLength, FecEncodedLength, SymbolSchemes, BlockSchemes
  <2> QED BY <1>3, <2>1, CodeSizes, BlocksGrow
<1> QED BY <1>1, <1>2, <1>3 DEF FecNames, FecSchemes

(* The types of a configuration. *)
Scheme == [mod : DOMAIN BitsPerSymbol, crc : DOMAIN KeyBytes,
           fec : FecNames, fec1 : FecNames, il : {s.il : s \in Schemes}]

(* The key is whole bytes.                                                 *)
LEMMA KeyIs == ASSUME NEW scheme \in Scheme
  PROVE KeyBits(scheme) \in Nat /\ KeyBits(scheme) % ByteBits = 0
<1>1. PICK k \in Nat : k = KeyBytes[scheme.crc]
  BY CrcAssumption DEF Scheme
<1>2. PICK B \in Nat \ {0} : B = ByteBits
  BY ByteBitsAssumption
<1>3. k * B \in Nat /\ (k * B) % B = 0
  BY <1>1, <1>2
<1> QED BY <1>1, <1>2, <1>3 DEF KeyBits

(* encoded_length is the two stages, one after the other.                  *)
LEMMA LengthIs == ASSUME NEW scheme \in Scheme, NEW a \in Nat
  PROVE /\ PacketEncodedLength(scheme, a)
           = StageLength(scheme.fec1, StageLength(scheme.fec, a + KeyBits(scheme)))
        /\ StageLength(scheme.fec, a + KeyBits(scheme)) \in Nat
        /\ PacketEncodedLength(scheme, a) \in Nat
<1>1. a + KeyBits(scheme) \in Nat /\ scheme.fec \in FecNames /\ scheme.fec1 \in FecNames
  BY KeyIs DEF Scheme
<1>2. PacketEncodedLength(scheme, a)
           = StageLength(scheme.fec1, StageLength(scheme.fec, a + KeyBits(scheme)))
  BY DEF PacketEncodedLength, StageLength
<1> QED BY <1>1, <1>2, StagesGrow

(* encoded_length is monotonic, which a search by bisection rests on.      *)
LEMMA LengthGrows == ASSUME NEW scheme \in Scheme, NEW a \in Nat, NEW b \in Nat, a <= b
  PROVE PacketEncodedLength(scheme, a) <= PacketEncodedLength(scheme, b)
<1>1. PICK i, j \in Nat : i = a + KeyBits(scheme) /\ j = b + KeyBits(scheme) /\ i <= j
  BY KeyIs
<1>2. PICK k, l \in Nat : k = StageLength(scheme.fec, i) /\ l = StageLength(scheme.fec, j) /\ k <= l
  BY <1>1, StagesGrow DEF Scheme
<1>3. StageLength(scheme.fec1, k) <= StageLength(scheme.fec1, l)
  BY <1>2, StagesGrow DEF Scheme
<1> QED BY <1>1, <1>2, <1>3, LengthIs

(* The room of a frame, in bits.                                           *)
LEMMA LimitIs == ASSUME NEW scheme \in Scheme
  PROVE Limit(scheme) \in Nat /\ BitsPerOfdmSymbol(scheme.mod) \in Nat \ {0}
<1>1. BitsPerSymbol[scheme.mod] \in Nat \ {0}
  BY DEF Scheme, BitsPerSymbol
<1>2. NData \in Nat \ {0} /\ MaxPayloadSymbols \in Nat
  BY ResourceGridAssumption, TxAssumption
<1> QED BY <1>1, <1>2 DEF Limit, BitsPerOfdmSymbol

(* What is shorter fits too. *)
LEMMA ShorterFits ==
  ASSUME NEW scheme \in Scheme, NEW a \in Nat, NEW b \in Nat, a <= b, Fits(scheme, b),
         a % ByteBits = 0
  PROVE  Fits(scheme, a)
  BY LengthIs, LengthGrows, LimitIs DEF Fits, WholeBytes

-----------------------------------------------------------------------------
(* What the bisection finds.                                               *)

(* Lengths of whole bytes. *)
Whole == {n \in Nat : n % ByteBits = 0}

(* Sums and differences of whole bytes are whole bytes, and the next       *)
(* longer one is a byte longer.                                            *)
LEMMA WholeFacts ==
  /\ ByteBits \in Whole
  /\ \A a \in Whole, b \in Whole : /\ a + b \in Whole
                                   /\ a >= b => a - b \in Whole
                                   /\ a > b => a >= b + ByteBits
<1>1. PICK B \in Nat \ {0} : B = ByteBits
  BY ByteBitsAssumption
<1>2. ASSUME NEW a \in Nat, NEW b \in Nat, a % B = 0, b % B = 0
      PROVE  /\ (a + b) % B = 0
             /\ a >= b => (a - b) % B = 0
             /\ a > b => a >= b + B
  <2>1. PICK q, r \in Nat : a = B * q /\ b = B * r
    <3>1. a \div B \in Nat /\ a = B * (a \div B) + (a % B)
      BY <1>1
    <3>2. b \div B \in Nat /\ b = B * (b \div B) + (b % B)
      BY <1>1
    <3>3. a = B * (a \div B) /\ b = B * (b \div B)
      BY <3>1, <3>2, <1>1, <1>2
    <3> QED BY <3>1, <3>2, <3>3
  <2>2. a + b = B * (q + r) /\ a - b = B * (q - r)
    BY <1>1, <2>1
  <2>3. (B * (q + r)) % B = 0 /\ (B * (q - r)) % B = 0
    BY <1>1, <2>1
  <2>4. ASSUME a > b PROVE a >= b + B
    <3>1. q > r
      <4> SUFFICES ASSUME q <= r PROVE FALSE
        BY <2>1
      <4>1. B * q <= B * r
        BY <1>1, <2>1
      <4> QED BY <4>1, <2>1, <2>4
    <3>2. B * (q - r) >= B
      BY <1>1, <2>1, <3>1
    <3> QED BY <2>2, <3>2, <1>2, <1>1
  <2> QED BY <2>2, <2>3, <2>4
<1>3. B \in Whole
  BY <1>1 DEF Whole
<1>4. ASSUME NEW a \in Whole, NEW b \in Whole
      PROVE  /\ a + b \in Whole
             /\ a >= b => a - b \in Whole
             /\ a > b => a >= b + ByteBits
  <2>1. a \in Nat /\ b \in Nat /\ a % B = 0 /\ b % B = 0
    BY <1>1 DEF Whole
  <2>2. /\ (a + b) % B = 0
        /\ a >= b => (a - b) % B = 0
        /\ a > b => a >= b + B
    BY <2>1, <1>2
  <2>3. a + b \in Nat /\ a >= b => a - b \in Nat
    BY <2>1
  <2> QED BY <1>1, <2>1, <2>2, <2>3 DEF Whole
<1> QED BY <1>1, <1>3, <1>4

(* Where a search may be: what it has found fits, what lies between that   *)
(* and its range is not whole bytes, and nothing above its range fits.     *)
Sought(scheme, search) ==
  /\ search \in Searches /\ search.lo \in Whole /\ search.best \in Whole
  /\ search.best >= ByteBits
  /\ search.best = ByteBits \/ Fits(scheme, search.best)
  /\ search.lo = search.best + ByteBits \/ (search.lo = ByteBits /\ search.best = ByteBits)
  /\ \A m \in Whole : m > search.hi /\ m <= Limit(scheme) => ~Fits(scheme, m)

(* The longest whole number of bytes that fits; one byte if none does. *)
IsLargest(scheme, n) ==
  /\ n \in Whole /\ n >= ByteBits
  /\ n = ByteBits \/ Fits(scheme, n)
  /\ \A m \in Whole : m > n /\ m <= Limit(scheme) => ~Fits(scheme, m)

(* The search starts so,                                                   *)
LEMMA SoughtStart ==
  ASSUME NEW scheme \in Scheme PROVE Sought(scheme, WholeRange(scheme))
<1>1. PICK B \in Whole : B = ByteBits
  BY WholeFacts
<1>2. Limit(scheme) \in Nat /\ B \in Nat
  BY <1>1, LimitIs DEF Whole
<1> QED BY <1>1, <1>2 DEF Sought, WholeRange, Searches, Whole

(* every turn keeps it so,                                                 *)
LEMMA SoughtHalved ==
  ASSUME NEW scheme \in Scheme, NEW search, Sought(scheme, search), ~Over(search)
  PROVE  Sought(scheme, Halved(scheme, search))
<1>1. search \in Searches
  BY DEF Sought
<1>2. PICK B \in Whole : B = ByteBits /\ B \in Nat \ {0}
  BY WholeFacts, ByteBitsAssumption
<1>3. PICK m \in Whole : m = Middle(search) /\ m >= B /\ m \in Nat
  BY <1>1, <1>2, MiddleIs DEF Whole
<1>4. Halved(scheme, search) \in Searches
  BY <1>1, HalvedIs
<1>5. CASE Fits(scheme, m)
  <2>1. /\ Halved(scheme, search).lo = m + B /\ Halved(scheme, search).best = m
        /\ Halved(scheme, search).hi = search.hi
    BY <1>1, <1>2, <1>3, <1>5 DEF Halved, Searches
  <2>2. m + B \in Whole
    BY <1>2, <1>3, WholeFacts
  <2>3. \A n \in Whole : n > search.hi /\ n <= Limit(scheme) => ~Fits(scheme, n)
    BY DEF Sought
  <2>4. PICK h : h = Halved(scheme, search)
    OBVIOUS
  <2>5. /\ h \in Searches /\ h.lo = m + B /\ h.best = m /\ h.hi = search.hi
    BY <1>4, <2>1, <2>4
  <2>6. h.lo \in Whole /\ h.best \in Whole /\ h.best >= B /\ Fits(scheme, h.best) /\ h.lo = h.best + B
    BY <1>3, <1>5, <2>2, <2>5
  <2>7. \A n \in Whole : n > h.hi /\ n <= Limit(scheme) => ~Fits(scheme, n)
    BY <2>3, <2>5
  <2>8. Sought(scheme, h)
    BY <1>2, <2>5, <2>6, <2>7 DEF Sought
  <2> QED BY <2>4, <2>8
<1>6. CASE ~Fits(scheme, m)
  <2>1. /\ Halved(scheme, search).lo = search.lo /\ Halved(scheme, search).best = search.best
        /\ Halved(scheme, search).hi = m - B
    BY <1>1, <1>2, <1>3, <1>6 DEF Halved, Searches
  <2>2. ASSUME NEW n \in Whole, n > m - B PROVE ~Fits(scheme, n)
    <3>1. n >= m
      <4> SUFFICES ASSUME m > n PROVE FALSE
        BY <1>3 DEF Whole
      <4>1. m >= n + B
        BY <1>2, <1>3, WholeFacts
      <4> QED BY <4>1, <2>2, <1>2, <1>3 DEF Whole
    <3> QED BY <3>1, <1>3, <1>6, ShorterFits DEF Whole
  <2> QED BY <1>4, <2>1, <2>2 DEF Sought
<1> QED BY <1>5, <1>6

(* and its end has found the longest.                                      *)
LEMMA SoughtOver ==
  ASSUME NEW scheme \in Scheme, NEW search, Sought(scheme, search), Over(search)
  PROVE  IsLargest(scheme, search.best)
<1>1. PICK B \in Whole : B = ByteBits /\ B \in Nat \ {0}
  BY WholeFacts, ByteBitsAssumption
<1>2. /\ search.lo \in Whole /\ search.lo \in Nat /\ search.hi \in Int
      /\ search.best \in Whole /\ search.best \in Nat
      /\ search.lo >= B /\ search.best >= B
      /\ search.lo = search.best + B \/ (search.lo = B /\ search.best = B)
  BY <1>1 DEF Sought, Searches, Whole
<1>3. search.lo > search.hi
  <2> SUFFICES ASSUME search.lo <= search.hi PROVE FALSE
    BY <1>2
  <2>1. Middle(search) < B
    BY <1>1, <1>2 DEF Over
  <2>2. search.lo + search.hi >= 2 * B
    BY <1>1, <1>2
  <2>3. (search.lo + search.hi) \div (2 * B) >= 1
    BY <1>1, <1>2, <2>2
  <2>4. Middle(search) >= B
    <3>1. PICK q \in Int : q = (search.lo + search.hi) \div (2 * B) /\ q >= 1
      BY <1>1, <1>2, <2>3
    <3>2. Middle(search) = q * B
      BY <1>1, <3>1 DEF Middle
    <3>3. q * B >= B
      BY <1>1, <3>1
    <3> QED BY <3>2, <3>3
  <2>5. Middle(search) \in Int
    BY <1>1, <1>2 DEF Middle
  <2> QED BY <2>1, <2>4, <2>5, <1>1
<1>4. ASSUME NEW m \in Whole, m > search.best, m <= Limit(scheme) PROVE ~Fits(scheme, m)
  <2>1. m >= search.best + B /\ m \in Nat
    BY <1>1, <1>2, <1>4, WholeFacts DEF Whole
  <2>2. m > search.hi
    BY <2>1, <1>1, <1>2, <1>3
  <2> QED BY <2>2, <1>4 DEF Sought
<1> QED BY <1>4 DEF Sought, IsLargest

(* So has the whole search, by induction on the length of its range.       *)
LEMMA LargestFittingIs ==
  ASSUME NEW scheme \in Scheme PROVE IsLargest(scheme, LargestFitting(scheme))
<1>1. PICK f : BisectIs(f, scheme) /\ LargestFitting(scheme) = f[WholeRange(scheme)]
  BY SearchResult
<1> DEFINE N == {n \in Nat : \A search \in Searches :
                    Sought(scheme, search) /\ Distance(search) <= n =>
                        IsLargest(scheme, f[search])}
<1>2. ASSUME NEW search \in Searches, Over(search), Sought(scheme, search)
      PROVE  IsLargest(scheme, f[search])
  BY <1>1, <1>2, SoughtOver DEF BisectIs
<1>3. 0 \in N
  <2> SUFFICES ASSUME NEW search \in Searches, Sought(scheme, search), Distance(search) <= 0
               PROVE  IsLargest(scheme, f[search])
    OBVIOUS
  <2>1. Over(search)
    BY DEF Over, Distance, Searches
  <2> QED BY <2>1, <1>2
<1>4. ASSUME NEW n \in Nat, n \in N PROVE n + 1 \in N
  <2> SUFFICES ASSUME NEW search \in Searches, Sought(scheme, search), Distance(search) <= n + 1,
                      ~Over(search)
               PROVE  IsLargest(scheme, f[search])
    BY <1>2
  <2>1. /\ Halved(scheme, search) \in Searches
        /\ Halved(scheme, search).hi - Halved(scheme, search).lo < search.hi - search.lo
    BY HalvedIs
  <2>2. Distance(Halved(scheme, search)) <= n
    BY <2>1 DEF Distance, Searches, Over
  <2>3. IsLargest(scheme, f[Halved(scheme, search)])
    BY <1>4, <2>1, <2>2, SoughtHalved
  <2>4. f[search] = f[Halved(scheme, search)]
    BY <1>1 DEF BisectIs
  <2> QED BY <2>3, <2>4
<1>5. \A n \in Nat : n \in N
  <2> HIDE DEF N
  <2> QED BY <1>3, <1>4, SetInduction
<1>6. Sought(scheme, WholeRange(scheme)) /\ WholeRange(scheme) \in Searches
  BY SoughtStart DEF Sought
<1>7. Distance(WholeRange(scheme)) \in Nat
  BY <1>6 DEF Distance, Searches
<1> QED BY <1>1, <1>5, <1>6, <1>7

-----------------------------------------------------------------------------
(* What fits gets through generate_frame.                                  *)

(* The length field holds a number.                                        *)
LEMMA LengthLimit == MaxPayloadLen \in Nat
<1>1. 2 ^ 16 = 65536
  BY SMT
<1> QED BY <1>1 DEF MaxPayloadLen

(* The larger and the smaller of two integers.                             *)
LEMMA MaxOfTwo ==
  ASSUME NEW a \in Int, NEW b \in Int
  PROVE  Max({a, b}) = IF a >= b THEN a ELSE b
<1>1. PICK x \in {a, b} : \A y \in {a, b} : x >= y
  OBVIOUS
<1>2. Max({a, b}) \in {a, b} /\ \A y \in {a, b} : Max({a, b}) >= y
  BY <1>1 DEF Max
<1> QED BY <1>2

LEMMA MinOfTwo ==
  ASSUME NEW a \in Int, NEW b \in Int
  PROVE  Min({a, b}) = IF a <= b THEN a ELSE b
<1>1. PICK x \in {a, b} : \A y \in {a, b} : x <= y
  OBVIOUS
<1>2. Min({a, b}) \in {a, b} /\ \A y \in {a, b} : Min({a, b}) <= y
  BY <1>1 DEF Min
<1> QED BY <1>2

(* Division with remainder has one result. *)
LEMMA Division ==
  ASSUME NEW u \in Nat \ {0}, NEW q \in Nat, NEW v \in 0 .. u - 1, NEW a \in Nat, a = u * q + v
  PROVE  a \div u = q /\ a % u = v
<1>1. PICK x \in Nat : x = a \div u
  OBVIOUS
<1>2. PICK y \in 0 .. u - 1 : y = a % u /\ a = u * x + y
  BY <1>1
<1>3. ASSUME NEW b \in Nat, NEW c \in Nat, b + 1 <= c PROVE u * b + u <= u * c
  <2>1. u * (b + 1) <= u * c
    BY <1>3
  <2> QED BY <2>1
<1>4. u * q \in Nat /\ u * x \in Nat
  BY <1>1
<1>5. x = q
  <2>1. ~(x + 1 <= q)
    BY <1>2, <1>3, <1>4
  <2>2. ~(q + 1 <= x)
    BY <1>2, <1>3, <1>4
  <2> QED BY <2>1, <2>2
<1> QED BY <1>1, <1>2, <1>4, <1>5

LEMMA MultipleIs == ASSUME NEW u \in Nat \ {0}, NEW z \in Nat PROVE (u * z) % u = 0
<1>1. PICK a \in Nat : a = u * z /\ a = u * z + 0
  OBVIOUS
<1>2. 0 \in 0 .. u - 1
  OBVIOUS
<1> QED BY <1>1, <1>2, Division

(* Blocks are no shorter than what they encode.                            *)
LEMMA BlocksLengthen ==
  ASSUME NEW k \in Nat \ {0}, NEW n \in Nat, NEW a \in Nat, k <= n
  PROVE  BlocksEncoded(a, k, n) >= a
<1>1. PICK q \in Nat, r \in 0 .. k - 1 : q = a \div k /\ r = a % k /\ a = k * q + r
  OBVIOUS
<1>2. BlocksEncoded(a, k, n) = q * n + (IF r > 0 THEN r + (n - k) ELSE 0)
  BY <1>1 DEF BlocksEncoded
<1>3. PICK u \in Nat : u = n - k
  OBVIOUS
<1>4. (k + u) * q = k * q + u * q /\ u * q \in Nat /\ k * q \in Nat
  OBVIOUS
<1>5. q * n = (k + u) * q
  BY <1>3
<1>6. (IF r > 0 THEN r + (n - k) ELSE 0) >= r
  OBVIOUS
<1>7. q * n >= k * q /\ q * n \in Nat
  BY <1>4, <1>5
<1> QED BY <1>1, <1>2, <1>4, <1>6, <1>7

(* Only a stream that ends in a shortened block has a remainder. *)
LEMMA BlocksInvert ==
  ASSUME NEW k \in Nat \ {0}, NEW n \in Nat \ {0}, NEW a \in Nat, k <= n
  PROVE  BlocksDecoded(BlocksEncoded(a, k, n), k, n) = a
<1>1. PICK q \in Nat, r \in 0 .. k - 1 : q = a \div k /\ r = a % k /\ a = k * q + r
  OBVIOUS
<1>2. PICK v \in 0 .. n - 1 : v = (IF r > 0 THEN r + (n - k) ELSE 0)
  OBVIOUS
<1>3. PICK size \in Nat : size = n * q + v
  OBVIOUS
<1>4. BlocksEncoded(a, k, n) = size
  <2>1. BlocksEncoded(a, k, n) = q * n + v
    BY <1>1, <1>2 DEF BlocksEncoded
  <2>2. q * n = n * q
    OBVIOUS
  <2> QED BY <2>1, <2>2, <1>3
<1>5. size \div n = q /\ size % n = v
  BY <1>3, Division
<1>6. BlocksDecoded(size, k, n) = q * k + (IF v > 0 THEN v - (n - k) ELSE 0)
  BY <1>5 DEF BlocksDecoded
<1>7. (IF v > 0 THEN v - (n - k) ELSE 0) = r
  BY <1>2
<1>8. q * k = k * q /\ k * q \in Nat
  OBVIOUS
<1> QED BY <1>1, <1>4, <1>6, <1>7, <1>8

(* No stage makes a stream shorter. *)
LEMMA StagesLengthen ==
  ASSUME NEW code \in FecNames, NEW a \in Nat PROVE StageLength(code, a) >= a
<1>1. CASE code = "none"
  BY <1>1 DEF StageLength
<1>2. CASE code = "conv_v27"
  BY <1>2, ConvolutionalAssumption DEF StageLength, FecEncodedLength, StreamEncoded, TailBits
<1>3. CASE code \in SymbolSchemes \cup BlockSchemes
  <2>1. StageLength(code, a) = BlocksEncoded(a, KBits(code), NBits(code))
    BY <1>3 DEF StageLength, FecEncodedLength, SymbolSchemes, BlockSchemes
  <2>2. PICK k \in Nat \ {0}, n \in Nat : k = KBits(code) /\ n = NBits(code) /\ k <= n
    BY <1>3, CodeSizes
  <2> QED BY <2>1, <2>2, BlocksLengthen
<1> QED BY <1>1, <1>2, <1>3 DEF FecNames, FecSchemes

(* Whole bytes stay whole bytes in a byte-oriented code. *)
LEMMA BytesKept ==
  ASSUME NEW code \in FecNames, KeepsBytes(code), NEW a \in Whole
  PROVE  StageLength(code, a) \in Whole /\ (code \in SymbolSchemes => a % KBits(code) \in Whole)
<1>1. CASE code = "none"
  BY <1>1 DEF StageLength, SymbolSchemes
<1>2. CASE code \in SymbolSchemes
  <2>1. PICK B \in Nat \ {0} : B = ByteBits
    BY ByteBitsAssumption
  <2>2. PICK s, t \in Nat \ {0} : KBits(code) = s * B /\ NBits(code) = t * B /\ s <= t
    <3>1. PICK r, n \in Int : r = NRoots /\ n = RsN /\ 1 <= r /\ r <= n - 1
      BY ReedSolomonAssumption, ByteBitsAssumption DEF RsN
    <3>2. n - r \in Nat \ {0} /\ n \in Nat \ {0} /\ n - r <= n
      BY <3>1
    <3>3. KBits(code) = (n - r) * B /\ NBits(code) = n * B
      BY <1>2, <2>1, <3>1 DEF KBits, NBits, RsK
    <3> QED BY <3>2, <3>3
  <2>3. a \in Nat /\ a % B = 0
    BY <2>1 DEF Whole
  <2>4. PICK c \in Nat : a = B * c
    <3>1. PICK c \in Nat : c = a \div B
      BY <2>1, <2>3
    <3>2. a = B * c + (a % B) /\ B * c \in Nat
      BY <2>1, <2>3, <3>1
    <3>3. a = B * c
      BY <2>3, <3>2
    <3> QED BY <3>3
  <2>5. PICK q \in Nat, r \in 0 .. s - 1 : c = s * q + r
    <3>1. c = s * (c \div s) + (c % s) /\ c \div s \in Nat /\ c % s \in 0 .. s - 1
      BY <2>2, <2>4
    <3> QED BY <3>1
  <2>6. a = (s * B) * q + B * r /\ B * r \in Nat /\ B * r < s * B
    <3>1. B * c = B * (s * q) + B * r
      BY <2>1, <2>2, <2>4, <2>5
    <3>2. B * r < s * B
      BY <2>1, <2>2, <2>5
    <3>3. B * (s * q) = (s * B) * q
      BY <2>1, <2>2, <2>5
    <3> QED BY <3>1, <3>2, <3>3, <2>1, <2>4, <2>5
  <2>7. a \div (s * B) = q /\ a % (s * B) = B * r
    <3>1. s * B \in Nat \ {0}
      BY <2>1, <2>2
    <3>2. PICK u \in Nat \ {0}, v \in Nat : u = s * B /\ v = B * r
      BY <3>1, <2>6
    <3>3. a = u * q + v /\ v < u
      BY <2>6, <3>2
    <3>5. v \in 0 .. u - 1
      BY <3>2, <3>3
    <3>6. u \in Nat \ {0} /\ a \in Nat /\ q \in Nat /\ a = u * q + v
      BY <2>3, <2>5, <3>2, <3>3
    <3>4. a \div u = q /\ a % u = v
      <4> HIDE DEF Whole
      <4> QED BY <3>5, <3>6, Division
    <3> QED BY <3>2, <3>4
  <2>8. B * r \in Whole
    BY <2>1, <2>5, <2>6 DEF Whole
  <2>9. StageLength(code, a)
          = q * (t * B) + (IF B * r > 0 THEN B * r + (t * B - s * B) ELSE 0)
    BY <1>2, <2>2, <2>7 DEF StageLength, FecEncodedLength, BlocksEncoded, SymbolSchemes
  <2>10. StageLength(code, a) \in Nat
    BY StagesGrow, <2>3
  <2>11. \E w \in Int : StageLength(code, a) = B * w
    <3>1. q * (t * B) = B * (q * t) /\ q * t \in Int
      BY <2>1, <2>2, <2>5
    <3>2. B * r + (t * B - s * B) = B * (r + (t - s))
      BY <2>1, <2>2, <2>5
    <3>3. B * (q * t) + B * (r + (t - s)) = B * (q * t + (r + (t - s)))
      BY <2>1, <2>2, <2>5
    <3> DEFINE w == q * t + (r + (t - s))
    <3>w. w \in Int /\ q * (t * B) \in Int /\ B * r \in Int /\ B * r + (t * B - s * B) \in Int
      BY <2>1, <2>2, <2>5
    <3>4. CASE B * r > 0
      <4>1. StageLength(code, a) = q * (t * B) + (B * r + (t * B - s * B))
        BY <2>9, <3>4
      <4>2. StageLength(code, a) = B * w
        BY <4>1, <3>1, <3>2, <3>3
      <4> QED BY <4>2, <3>w
    <3>5. CASE ~(B * r > 0)
      <4>1. StageLength(code, a) = q * (t * B) + 0
        BY <2>9, <3>5
      <4>2. StageLength(code, a) = B * (q * t)
        BY <4>1, <3>1, <3>w
      <4> QED BY <4>2, <3>1
    <3> QED BY <3>4, <3>5
  <2>12. StageLength(code, a) % B = 0
    <3>1. PICK w \in Int : StageLength(code, a) = B * w
      BY <2>11
    <3>2. (B * w) % B = 0
      BY <2>1
    <3> QED BY <3>1, <3>2
  <2> QED BY <2>1, <2>2, <2>7, <2>8, <2>10, <2>12 DEF Whole
<1> QED BY <1>1, <1>2 DEF KeepsBytes

(* What fits the longest frame gets through every stage. *)
LEMMA FittingIsFramed ==
  ASSUME NEW scheme \in Scheme, Carries(scheme), scheme.il.unit \in Nat \ {0},
         NEW k \in Whole, k > 0, Fits(scheme, k)
  PROVE  FrameFits(scheme, k)
<1>1. PICK B \in Nat \ {0} : B = ByteBits
  BY ByteBitsAssumption
<1>2. k \in Nat \ {0} /\ k % B = 0 /\ scheme.fec \in FecNames /\ scheme.fec1 \in FecNames
  BY <1>1 DEF Whole, Scheme
<1>3. KeyBits(scheme) \in Whole /\ k + KeyBits(scheme) \in Whole
  BY KeyIs, WholeFacts DEF Whole
<1>4. PICK keyed \in Nat \ {0} : keyed = k + KeyBits(scheme) /\ keyed \in Whole
  BY <1>2, <1>3 DEF Whole
<1>5. PICK inner \in Nat \ {0} : inner = StageLength(scheme.fec, keyed)
  BY <1>2, <1>4, StagesGrow, StagesLengthen
<1>6. FrameFits(scheme, k) <=>
        /\ k <= MaxPayloadLen
        /\ WholeBytes(scheme, k)
        /\ StageAccepts(scheme.fec, keyed) /\ StageAccepts(scheme.fec1, inner)
        /\ scheme.il.kind # "none" => AcceptsLength(scheme.il, inner)
        /\ CeilDiv(PacketEncodedLength(scheme, k), BitsPerOfdmSymbol(scheme.mod)) <= MaxPayloadSymbols
  BY <1>4, <1>5 DEF FrameFits, StageLength
<1>7. k <= MaxPayloadLen
  <2>1. PICK q \in Nat : q = MaxPayloadLen \div B
    BY <1>1, LengthLimit
  <2>2. B * q <= MaxPayloadLen
    BY <1>1, <2>1, LengthLimit
  <2>3. PICK w \in Nat : w = (1 + q) * B
    BY <1>1, <2>1
  <2>4. w = B * q + B
    BY <1>1, <2>1, <2>3
  <2>5. w \in Whole
    BY <1>1, <2>1, <2>3 DEF Whole
  <2>6. ~Fits(scheme, w)
    BY <1>1, <2>1, <2>3 DEF Carries
  <2>7. ~(w <= k)
    BY <1>1, <1>2, <2>3, <2>5, <2>6, ShorterFits DEF Whole
  <2>8. w >= k + B
    BY <1>1, <2>3, <2>5, <2>7, WholeFacts, <1>2
  <2> QED BY <1>1, <1>2, <2>1, <2>2, <2>4, <2>8, LengthLimit
<1>8. WholeBytes(scheme, k)
  BY DEF Fits
<1>9. StageAccepts(scheme.fec, keyed)
  <2>1. ASSUME scheme.fec \in SymbolSchemes PROVE keyed % KBits(scheme.fec) \in Whole
    BY <1>2, <1>4, <2>1, BytesKept DEF KeepsBytes
  <2> QED BY <2>1 DEF StageAccepts, Whole
<1>10. KeepsBytes(scheme.fec) => inner \in Whole
  BY <1>2, <1>4, <1>5, BytesKept
<1>11. StageAccepts(scheme.fec1, inner)
  <2>1. ASSUME scheme.fec1 \in SymbolSchemes PROVE inner % KBits(scheme.fec1) \in Whole
    <3>1. inner \in Whole
      BY <1>10, <2>1 DEF Carries, StagesAgree
    <3> QED BY <1>2, <2>1, <3>1, BytesKept DEF KeepsBytes
  <2> QED BY <2>1 DEF StageAccepts, Whole
<1>12. ASSUME scheme.il.kind # "none" PROVE AcceptsLength(scheme.il, inner)
  <2>1. CASE scheme.il.unit = 1 /\ scheme.il.kind # "liquid"
    BY <1>5, <2>1 DEF AcceptsLength
  <2>2. CASE /\ KeepsBytes(scheme.fec) /\ ByteBits % scheme.il.unit = 0
             /\ scheme.il.kind = "liquid" => scheme.il.unit = 1 /\ ByteBits % 8 = 0
    <3>1. ASSUME NEW u \in Nat \ {0}, B % u = 0 PROVE inner % u = 0
      <4>1. inner % B = 0
        BY <1>1, <1>10, <2>2 DEF Whole
      <4>2. PICK j \in Nat : j = inner /\ j % B = 0
        BY <1>10, <4>1
      <4>3. PICK x \in Nat : inner = B * x
        <5>1. PICK x \in Nat : x = j \div B
          BY <1>1, <4>2
        <5>2. j = B * x
          BY <1>1, <4>2, <5>1
        <5> QED BY <4>2, <5>1, <5>2
      <4>4. PICK y \in Nat : B = u * y
        <5>1. PICK y \in Nat : y = B \div u
          BY <1>1, <3>1
        <5>2. B = u * y
          BY <1>1, <3>1, <5>1
        <5> QED BY <5>1, <5>2
      <4>5. inner = u * (y * x)
        BY <4>3, <4>4
      <4>6. y * x \in Nat
        OBVIOUS
      <4>7. PICK z \in Nat : z = y * x
        BY <4>6
      <4>8. inner = u * z
        BY <4>5, <4>7
      <4> QED BY <4>7, <4>8, MultipleIs
    <3>2. inner % scheme.il.unit = 0
      BY <1>1, <2>2, <3>1
    <3>3. ASSUME scheme.il.kind = "liquid" PROVE inner % 8 = 0
      <4>1. B % 8 = 0 /\ 8 \in Nat \ {0}
        BY <1>1, <2>2, <3>3
      <4> QED BY <4>1, <3>1
    <3> QED BY <1>5, <2>2, <3>2, <3>3 DEF AcceptsLength
  <2> QED BY <1>12, <2>1, <2>2 DEF Carries, StagesAgree
<1>13. CeilDiv(PacketEncodedLength(scheme, k), BitsPerOfdmSymbol(scheme.mod)) <= MaxPayloadSymbols
  <2>1. PICK b \in Nat \ {0}, n \in Nat : /\ b = BitsPerOfdmSymbol(scheme.mod)
                                         /\ n = PacketEncodedLength(scheme, k)
    BY <1>2, LimitIs, LengthIs
  <2>2. PICK m \in Nat : m = MaxPayloadSymbols
    BY TxAssumption
  <2>3. n <= m * b
    BY <2>1, <2>2 DEF Fits, Limit
  <2>4. PICK c \in Int : c = (n + b - 1) \div b
    BY <2>1
  <2>5. b * c <= n + b - 1
    BY <2>1, <2>4
  <2>6. c <= m
    <3> SUFFICES ASSUME m + 1 <= c PROVE FALSE
      BY <2>2, <2>4
    <3>1. b * (m + 1) <= b * c
      BY <2>1, <2>2, <2>4
    <3>2. b * (m + 1) = m * b + b
      BY <2>1, <2>2
    <3>3. m * b \in Nat /\ b * c \in Int
      BY <2>1, <2>2, <2>4
    <3> QED BY <2>1, <2>3, <2>5, <3>1, <3>2, <3>3
  <2> QED BY <2>1, <2>2, <2>4, <2>6 DEF CeilDiv
<1> QED BY <1>6, <1>7, <1>8, <1>9, <1>11, <1>12, <1>13

(* What compute_max_segment_bits leaves room for, with and without a header. *)
LEMMA SegmentIs ==
  ASSUME NEW scheme \in Scheme, NEW hasHeader \in BOOLEAN
  PROVE  \E segment \in Whole, pdu \in Whole :
             /\ segment = MaxSegmentBits(scheme, hasHeader) /\ segment >= ByteBits
             /\ pdu = IF hasHeader THEN segment + MacHeaderBits ELSE segment
             /\ pdu >= LargestFitting(scheme)
             /\ Fits(scheme, MacHeaderBits + ByteBits) => Fits(scheme, pdu)
<1>1. PICK B \in Nat \ {0} : B = ByteBits /\ B \in Whole
  BY ByteBitsAssumption, WholeFacts
<1>2. PICK h \in Nat : h = MacHeaderBits /\ h \in Whole
  BY TxAssumption DEF Whole
<1>3. PICK n \in Nat : n = LargestFitting(scheme) /\ n \in Whole /\ n >= B /\ IsLargest(scheme, n)
  BY <1>1, LargestFittingIs DEF IsLargest, Whole
<1>4. ASSUME Fits(scheme, h + B) PROVE h + B <= n /\ Fits(scheme, n)
  <2>1. h + B \in Whole /\ h + B \in Nat
    BY <1>1, <1>2, WholeFacts DEF Whole
  <2>2. h + B <= Limit(scheme)
    <3>1. PICK k \in Nat : k = KeyBits(scheme)
      BY KeyIs
    <3>2. PICK a \in Nat : a = h + B + k
      BY <2>1, <3>1
    <3>3. StageLength(scheme.fec, a) \in Nat /\ StageLength(scheme.fec, a) >= a
      BY <3>2, StagesGrow, StagesLengthen DEF Scheme
    <3>4. PICK i \in Nat : i = StageLength(scheme.fec, h + B + k) /\ i >= h + B + k
      BY <3>2, <3>3
    <3>5. StageLength(scheme.fec1, i) >= i /\ StageLength(scheme.fec1, i) \in Nat
      BY <3>4, StagesGrow, StagesLengthen DEF Scheme
    <3>6. PacketEncodedLength(scheme, h + B) = StageLength(scheme.fec1, i)
      BY <2>1, <3>1, <3>4, LengthIs
    <3>7. PacketEncodedLength(scheme, h + B) <= Limit(scheme) /\ Limit(scheme) \in Nat
      BY <1>4, LimitIs DEF Fits
    <3> QED BY <2>1, <3>1, <3>4, <3>5, <3>6, <3>7
  <2>3. h + B <= n
    BY <1>3, <1>4, <2>1, <2>2 DEF IsLargest
  <2>4. CASE n = B
    BY <1>1, <1>2, <1>4, <2>3, <2>4
  <2> QED BY <1>1, <1>3, <2>3, <2>4 DEF IsLargest
<1>5. CASE ~hasHeader
  <2>1. MacHeaderBits + ByteBits = h + B /\ n = MaxSegmentBits(scheme, hasHeader) /\ n >= n
    BY <1>1, <1>2, <1>3, <1>5 DEF MaxSegmentBits
  <2> QED BY <1>1, <1>3, <1>4, <1>5, <2>1
<1>6. CASE hasHeader /\ B >= n - h
  <2>1. MaxSegmentBits(scheme, hasHeader) = B
    BY <1>1, <1>2, <1>3, <1>6, MaxOfTwo DEF MaxSegmentBits
  <2>2. B + h \in Whole /\ B + h >= n
    BY <1>1, <1>2, <1>3, <1>6, WholeFacts
  <2>3. B + h = MacHeaderBits + ByteBits
    BY <1>1, <1>2
  <2>4. PICK pdu \in Whole : pdu = B + h
    BY <2>2
  <2>5. /\ B = MaxSegmentBits(scheme, hasHeader) /\ B >= ByteBits
        /\ pdu = IF hasHeader THEN B + MacHeaderBits ELSE B
        /\ pdu >= LargestFitting(scheme)
        /\ Fits(scheme, MacHeaderBits + ByteBits) => Fits(scheme, pdu)
    <3>1. B >= ByteBits /\ pdu >= LargestFitting(scheme)
      BY <1>1, <1>3, <2>2, <2>4
    <3>2. pdu = IF hasHeader THEN B + MacHeaderBits ELSE B
      BY <1>2, <1>6, <2>4
    <3>3. pdu = MacHeaderBits + ByteBits
      BY <2>3, <2>4
    <3> QED BY <2>1, <3>1, <3>2, <3>3
  <2> QED BY <1>1, <2>5
<1>7. CASE hasHeader /\ n - h > B
  <2>1. MaxSegmentBits(scheme, hasHeader) = n - h
    BY <1>1, <1>2, <1>3, <1>7, MaxOfTwo DEF MaxSegmentBits
  <2>2. PICK segment \in Whole : segment = n - h
    BY <1>1, <1>2, <1>3, <1>7, WholeFacts
  <2>3. /\ segment = MaxSegmentBits(scheme, hasHeader) /\ segment >= ByteBits
        /\ n = IF hasHeader THEN segment + MacHeaderBits ELSE segment
        /\ n >= LargestFitting(scheme)
        /\ Fits(scheme, MacHeaderBits + ByteBits) => Fits(scheme, n)
    <3>1. MacHeaderBits + ByteBits = h + B
      BY <1>1, <1>2
    <3>2. segment >= ByteBits /\ segment + h = n /\ n >= n
      BY <1>1, <1>2, <1>3, <1>7, <2>2
    <3>3. n = IF hasHeader THEN segment + MacHeaderBits ELSE segment
      BY <1>2, <1>7, <3>2
    <3> QED BY <1>3, <1>4, <2>1, <2>2, <3>1, <3>2, <3>3
  <2> QED BY <1>3, <2>3
<1> QED BY <1>1, <1>2, <1>3, <1>5, <1>6, <1>7

-----------------------------------------------------------------------------
(* The controller.                                                         *)

Count == [attempts : Nat, delivered : Nat]

(* No frame is delivered that was not attempted. *)
Sound(count) == count \in Count /\ count.delivered <= count.attempts

(* One count is a later state of the other. *)
GrownFrom(old, new) == old.attempts <= new.attempts /\ old.delivered <= new.delivered

(* Truths of the same life are in order; a later truth is of the same life *)
(* or a later one.                                                         *)
Ordered(old, new) ==
    /\ old.life <= new.life
    /\ old.life = new.life => GrownFrom(old.count, new.count)

Truths == [count : Count, life : Nat \ {0}]

Controller == [index : Levels, streak : Nat, attempts : Nat, delivered : Nat]

-----------------------------------------------------------------------------
(* The inductive invariant.                                                *)

PeerInv ==
    /\ Sound(peer) /\ Sound(arrived) /\ life \in Nat \ {0}
    /\ path = "iq" => peer = arrived

BaseInv ==
    /\ base \in Truths /\ Sound(base.count)
    /\ Ordered(base, Truth)
    /\ path = "iq" => /\ mcs.attempts = Clamped(base.count.attempts)
                      /\ mcs.delivered = Clamped(base.count.delivered)

ReportInv ==
    report.sent =>
        /\ adaptive
        /\ report.truth \in Truths /\ Sound(report.truth.count)
        /\ Ordered(base, report.truth) /\ Ordered(report.truth, Truth)
        /\ report.counts \in Count
        /\ path = "iq" => report.counts = Report(report.truth.count)

(* The streak counts no interval that was not good, none before the last   *)
(* change of level, and none of another life.                              *)
StreakInv ==
    /\ goodRun \in Nat
    /\ adaptive => mcs \in Controller
    /\ adaptive /\ path = "iq" /\ life = 1 /\ base.count.attempts < U16Max =>
           mcs.streak <= goodRun

IInv == PeerInv /\ BaseInv /\ ReportInv /\ StreakInv

-----------------------------------------------------------------------------

LEMMA InitIInv == Init => IInv
<1> SUFFICES ASSUME Init PROVE IInv
  OBVIOUS
<1>1. Sound(NoQuality) /\ NoQuality \in Count
  BY DEF Sound, Count, NoQuality
<1>2. PeerInv
  BY <1>1 DEF Init, PeerInv
<1>3. BaseInv
  BY <1>1, McsAssumption
  DEF Init, BaseInv, Truths, Truth, Ordered, GrownFrom, NewController, Clamped, NoQuality, Count
<1>4. ReportInv
  BY DEF Init, ReportInv, None
<1>5. StreakInv
  <2>1. ASSUME adaptive PROVE Start \in Levels
    <3>1. \E level \in Levels : McsTable[level + 1] = ofdm.mod
      BY <2>1, TableAssumption DEF Init
    <3> QED BY <3>1 DEF Start
  <2> QED BY <2>1 DEF Init, StreakInv, NewController, Controller
<1> QED BY <1>2, <1>3, <1>4, <1>5 DEF IInv

(* What Observe adds. *)
LEMMA ObserveIs ==
  ASSUME NEW count, Sound(count), NEW yes \in BOOLEAN
  PROVE  Sound(Observe(count, yes)) /\ GrownFrom(count, Observe(count, yes))
  BY DEF Sound, Count, Observe, GrownFrom

LEMMA OrderedTrans ==
  ASSUME NEW a \in Truths, NEW b \in Truths, NEW c \in Truths, Ordered(a, b), Ordered(b, c)
  PROVE  Ordered(a, c)
  BY DEF Ordered, Truths, Count, GrownFrom

LEMMA OrderedRefl == ASSUME NEW a \in Truths PROVE Ordered(a, a)
  BY DEF Ordered, Truths, Count, GrownFrom

LEMMA TruthType == ASSUME PeerInv PROVE Truth \in Truths
  BY DEF PeerInv, Truth, Truths, Sound

(* A report that is plain says what truly happened since the last one. *)
LEMMA PlainIs ==
  ASSUME IInv, report.sent, Plain
  PROVE  /\ SinceLast(mcs, report.counts) = Interval(base, report.truth)
         /\ Interval(base, report.truth) \in Count
         /\ base.count.attempts < U16Max
<1> DEFINE now == report.truth.count
           old == base.count
<1>1. /\ now \in Count /\ now.delivered <= now.attempts /\ now.attempts < U16Max
      /\ old \in Count /\ old.delivered <= old.attempts
      /\ GrownFrom(old, now)
  BY DEF IInv, ReportInv, BaseInv, Sound, Plain, Ordered
<1>2. U16Max \in Nat
  BY McsAssumption
<1>3. /\ now.attempts \in Nat /\ now.delivered \in Nat
      /\ old.attempts \in Nat /\ old.delivered \in Nat
      /\ old.attempts <= now.attempts /\ old.delivered <= now.delivered
  BY <1>1 DEF Count, GrownFrom
<1> HIDE DEF now, old
<1>4. /\ Clamped(now.attempts) = now.attempts /\ Clamped(now.delivered) = now.delivered
      /\ Clamped(old.attempts) = old.attempts /\ Clamped(old.delivered) = old.delivered
  BY <1>1, <1>2, <1>3 DEF Clamped
<1> USE DEF now, old
<1>5. /\ report.counts = Report(now)
      /\ mcs.attempts = Clamped(old.attempts) /\ mcs.delivered = Clamped(old.delivered)
  BY DEF IInv, ReportInv, BaseInv, Plain
<1>6. SinceLast(mcs, report.counts) = Interval(base, report.truth)
  BY <1>4, <1>5 DEF SinceLast, Report, Interval
<1>7. Interval(base, report.truth) \in Count
  BY <1>3 DEF Interval, Count
<1> QED BY <1>1, <1>2, <1>3, <1>6, <1>7

(* What a report does to a controller. *)
LEMMA ControllerIs ==
  ASSUME NEW c \in Controller, NEW counts \in Count
  PROVE  LET new == OnQualityReport(c, counts)
             u == SinceLast(c, counts)
         IN  /\ new \in Controller
             /\ new.attempts = counts.attempts /\ new.delivered = counts.delivered
             /\ new.streak \in {0, c.streak, c.streak + 1}
             /\ u.attempts <= 0 => new.index = c.index /\ new.streak = c.streak
             /\ u.attempts > 0 /\ new.streak # 0 =>
                  ~Bad(u) /\ Good(u) /\ new.index = c.index /\ new.streak = c.streak + 1
             /\ u.attempts > 0 /\ Bad(u) => new.index = IF c.index = 0 THEN 0 ELSE c.index - 1
             /\ new.index > c.index => u.attempts > 0 /\ Good(u) /\ c.streak + 1 >= UpStreak
<1> DEFINE new == OnQualityReport(c, counts)
           u == SinceLast(c, counts)
           noted == [c EXCEPT !.attempts = counts.attempts, !.delivered = counts.delivered]
<1>1. /\ c.index \in Levels /\ c.streak \in Nat
      /\ counts.attempts \in Nat /\ counts.delivered \in Nat
      /\ u.attempts \in Int
  BY DEF Controller, Count, SinceLast
<1>2. /\ noted \in Controller /\ noted.index = c.index /\ noted.streak = c.streak
      /\ noted.attempts = counts.attempts /\ noted.delivered = counts.delivered
  BY <1>1 DEF Controller
<1>3. new = IF u.attempts <= 0 THEN noted ELSE Step(noted, u)
  BY DEF OnQualityReport
<1>4. TableLen \in Nat \ {0} /\ UpStreak \in Nat \ {0}
  BY McsAssumption
<1> HIDE DEF new, u, noted
<1>5. CASE u.attempts <= 0
  <2>1. new = noted /\ ~(new.index > c.index) /\ ~(u.attempts > 0)
    BY <1>1, <1>2, <1>3, <1>4, <1>5 DEF Levels
  <2> QED BY <1>2, <2>1 DEF new, u
<1>6. CASE ~(u.attempts <= 0) /\ Bad(u)
  <2>1. new = [noted EXCEPT !.index = IF @ = 0 THEN 0 ELSE @ - 1, !.streak = 0]
    BY <1>3, <1>6 DEF Step
  <2>2. /\ new.attempts = counts.attempts /\ new.delivered = counts.delivered
        /\ new.streak = 0 /\ new.index = IF c.index = 0 THEN 0 ELSE c.index - 1
        /\ new \in Controller
    <3>1. (IF c.index = 0 THEN 0 ELSE c.index - 1) \in Levels
      BY <1>1, <1>4 DEF Levels
    <3> QED BY <1>1, <1>2, <2>1, <3>1 DEF Controller
  <2>3. ~(new.index > c.index)
    BY <1>1, <2>2, <1>4 DEF Levels
  <2> QED BY <1>6, <2>2, <2>3 DEF new, u
<1>7. CASE ~(u.attempts <= 0) /\ ~Bad(u) /\ ~Good(u)
  <2>1. new = [noted EXCEPT !.streak = 0]
    BY <1>3, <1>7 DEF Step
  <2>2. /\ new.attempts = counts.attempts /\ new.delivered = counts.delivered
        /\ new.streak = 0 /\ new.index = c.index /\ new \in Controller
    BY <1>1, <1>2, <2>1 DEF Controller
  <2>3. ~(new.index > c.index)
    BY <1>1, <2>2, <1>4 DEF Levels
  <2> QED BY <1>7, <2>2, <2>3 DEF new, u
<1>8. CASE ~(u.attempts <= 0) /\ ~Bad(u) /\ Good(u)
  <2>0. u.attempts > 0
    BY <1>1, <1>8
  <2>1. CASE c.streak + 1 >= UpStreak /\ c.index < TableLen - 1
    <3>1. new = [noted EXCEPT !.index = @ + 1, !.streak = 0]
      BY <1>2, <1>3, <1>8, <2>1 DEF Step
    <3>2. /\ new.attempts = counts.attempts /\ new.delivered = counts.delivered
          /\ new.streak = 0 /\ new.index = c.index + 1 /\ new \in Controller
      <4>1. c.index + 1 \in Levels
        BY <1>1, <1>4, <2>1 DEF Levels
      <4> QED BY <1>1, <1>2, <3>1, <4>1 DEF Controller
    <3> QED BY <1>8, <2>0, <2>1, <3>2 DEF new, u
  <2>2. CASE ~(c.streak + 1 >= UpStreak /\ c.index < TableLen - 1)
    <3>1. new = [noted EXCEPT !.streak = @ + 1]
      BY <1>2, <1>3, <1>8, <2>2 DEF Step
    <3>2. /\ new.attempts = counts.attempts /\ new.delivered = counts.delivered
          /\ new.streak = c.streak + 1 /\ new.index = c.index /\ new \in Controller
      BY <1>1, <1>2, <3>1 DEF Controller
    <3>3. ~(new.index > c.index)
      BY <1>1, <3>2, <1>4 DEF Levels
    <3> QED BY <1>8, <2>0, <3>2, <3>3 DEF new, u
  <2> QED BY <2>1, <2>2
<1> QED BY <1>5, <1>6, <1>7, <1>8 DEF new, u

-----------------------------------------------------------------------------
(* The invariant is kept.                                                  *)

LEMMA SameLink == ASSUME IInv, UNCHANGED linkVars PROVE IInv'
<1>1. UNCHANGED <<adaptive, path, mcs, peer, arrived, life, report, base, goodRun>>
  BY DEF linkVars
<1>2. Truth' = Truth
  BY <1>1 DEF Truth
<1>3. PeerInv' /\ BaseInv'
  BY <1>1, <1>2 DEF IInv, PeerInv, BaseInv, Truth
<1>4. ReportInv'
  BY <1>1, <1>2 DEF IInv, ReportInv, Truth
<1>5. StreakInv'
  BY <1>1 DEF IInv, StreakInv
<1> QED BY <1>3, <1>4, <1>5 DEF IInv

(* The truth moves on. *)
LEMMA TruthKept ==
  ASSUME IInv, UNCHANGED <<adaptive, path, mcs, report, base, goodRun>>, PeerInv',
         Ordered(Truth, Truth'), life = 1 \/ life' # 1
  PROVE  IInv'
<1>1. Truth \in Truths /\ Truth' \in Truths
  BY TruthType DEF IInv, PeerInv, Truth, Truths, Sound
<1>2. BaseInv'
  <2>1. base \in Truths /\ Ordered(base, Truth)
    BY DEF IInv, BaseInv
  <2>2. Ordered(base, Truth')
    BY <1>1, <2>1, OrderedTrans
  <2> QED BY <2>2 DEF IInv, BaseInv, Ordered
<1>3. ReportInv'
  <2>1. CASE report.sent
    <3>1. report.truth \in Truths /\ Ordered(report.truth, Truth)
      BY <2>1 DEF IInv, ReportInv
    <3>2. Ordered(report.truth, Truth')
      BY <1>1, <3>1, OrderedTrans
    <3> QED BY <2>1, <3>2 DEF IInv, ReportInv, Ordered
  <2>2. CASE ~report.sent
    BY <2>2 DEF ReportInv
  <2> QED BY <2>1, <2>2
<1>4. StreakInv'
  BY DEF IInv, StreakInv
<1> QED BY <1>2, <1>3, <1>4 DEF IInv

LEMMA FrameKept == ASSUME IInv, Frame PROVE IInv'
<1>1. /\ UNCHANGED <<adaptive, path, mcs, life, report, base, goodRun>>
      /\ Arrives \in BOOLEAN
      /\ Sound(peer) /\ Sound(arrived) /\ (path = "iq" => peer = arrived)
  BY DEF Frame, Arrives, IInv, PeerInv
<1>2. /\ Sound(Observe(peer, Arrives)) /\ GrownFrom(peer, Observe(peer, Arrives))
      /\ Sound(Observe(arrived, Arrives)) /\ GrownFrom(arrived, Observe(arrived, Arrives))
  BY <1>1, ObserveIs
<1>3. /\ arrived' \in {arrived, Observe(arrived, Arrives)}
      /\ peer' \in {peer, Observe(peer, Arrives)}
      /\ path = "iq" => arrived' = Observe(arrived, Arrives) /\ peer' = Observe(peer, Arrives)
  BY <1>1 DEF Frame, Counted
<1>4. PeerInv'
  BY <1>1, <1>2, <1>3 DEF IInv, PeerInv, Sound
<1>5. Ordered(Truth, Truth')
  BY <1>1, <1>2, <1>3 DEF Ordered, Truth, GrownFrom, IInv, PeerInv, Sound, Count
<1> QED BY <1>1, <1>4, <1>5, TruthKept

LEMMA RestartKept == ASSUME IInv, PeerRestarts PROVE IInv'
<1>1. /\ UNCHANGED <<adaptive, path, mcs, report, base, goodRun>>
      /\ life' = life + 1 /\ peer' = NoQuality /\ arrived' = NoQuality
      /\ life \in Nat \ {0}
  BY DEF PeerRestarts, IInv, PeerInv
<1>2. PeerInv'
  BY <1>1 DEF PeerInv, Sound, NoQuality, Count
<1>3. Ordered(Truth, Truth')
  BY <1>1 DEF Ordered, Truth
<1> QED BY <1>1, <1>2, <1>3, TruthKept

LEMMA BuildKept == ASSUME IInv, BuildReport PROVE IInv'
<1>1. /\ UNCHANGED <<adaptive, path, mcs, peer, arrived, life, base, goodRun>>
      /\ adaptive /\ report' = [sent |-> TRUE, counts |-> Report(peer), truth |-> Truth]
  BY DEF BuildReport
<1>2. PeerInv' /\ BaseInv' /\ StreakInv' /\ Truth' = Truth
  BY <1>1 DEF IInv, PeerInv, BaseInv, StreakInv, Truth
<1>3. ReportInv'
  <2>1. /\ report'.sent /\ report'.truth = Truth /\ report'.counts = Report(peer)
    BY <1>1
  <2>2. Truth \in Truths /\ Sound(Truth.count) /\ Ordered(base, Truth) /\ Ordered(Truth, Truth)
    BY TruthType, OrderedRefl DEF IInv, PeerInv, BaseInv, Truth
  <2>3. Report(peer) \in Count /\ (path = "iq" => Report(peer) = Report(Truth.count))
    BY McsAssumption DEF IInv, PeerInv, Truth, Report, Clamped, Count, Sound
  <2> QED BY <1>1, <1>2, <2>1, <2>2, <2>3 DEF ReportInv, Ordered
<1> QED BY <1>2, <1>3 DEF IInv

LEMMA LoseKept == ASSUME IInv, LoseReport PROVE IInv'
<1>1. /\ UNCHANGED <<adaptive, path, mcs, peer, arrived, life, base, goodRun>>
      /\ report' = None
  BY DEF LoseReport
<1>2. PeerInv' /\ BaseInv' /\ StreakInv'
  BY <1>1 DEF IInv, PeerInv, BaseInv, StreakInv, Truth
<1>3. ReportInv'
  BY <1>1 DEF ReportInv, None
<1> QED BY <1>2, <1>3 DEF IInv

LEMMA ReceiveKept == ASSUME IInv, ReceiveReport PROVE IInv'
<1> DEFINE u == Interval(base, report.truth)
<1>0. PICK new : new = OnQualityReport(mcs, report.counts)
  OBVIOUS
<1>1. /\ report.sent /\ adaptive /\ mcs' = new /\ report' = None /\ base' = report.truth
      /\ UNCHANGED <<adaptive, path, peer, arrived, life>>
      /\ goodRun' = IF u.attempts = 0 THEN goodRun
                    ELSE IF new.index = mcs.index /\ Good(u) THEN goodRun + 1 ELSE 0
  BY <1>0 DEF ReceiveReport, IInv, ReportInv
<1>2. /\ mcs \in Controller /\ report.counts \in Count /\ goodRun \in Nat
      /\ report.truth \in Truths /\ Sound(report.truth.count)
      /\ Ordered(report.truth, Truth) /\ Ordered(base, report.truth)
      /\ path = "iq" => report.counts = Report(report.truth.count)
  BY <1>1 DEF IInv, ReportInv, StreakInv
<1>3. /\ new \in Controller
      /\ new.attempts = report.counts.attempts /\ new.delivered = report.counts.delivered
  BY <1>0, <1>2, ControllerIs
<1>4. PeerInv' /\ Truth' = Truth
  BY <1>1 DEF IInv, PeerInv, Truth
<1>5. BaseInv'
  BY <1>1, <1>2, <1>3, <1>4 DEF BaseInv, Report, Ordered
<1>6. ReportInv'
  BY <1>1 DEF ReportInv, None
<1>7. goodRun' \in Nat
  BY <1>1, <1>2
<1>8. ASSUME path = "iq", life = 1, report.truth.count.attempts < U16Max
      PROVE  new.streak <= goodRun'
  <2>1. /\ base.life \in Nat \ {0} /\ report.truth.life \in Nat \ {0}
        /\ base.life <= report.truth.life /\ report.truth.life <= 1
    BY <1>2, <1>8 DEF IInv, BaseInv, Truths, Ordered, Truth
  <2>2. Plain
    BY <1>8, <2>1 DEF Plain
  <2>3. /\ SinceLast(mcs, report.counts) = u /\ u \in Count /\ base.count.attempts < U16Max
    BY <1>1, <2>2, PlainIs
  <2>4. mcs.streak <= goodRun
    BY <1>1, <1>8, <2>3 DEF IInv, StreakInv
  <2>5. mcs.streak \in Nat /\ new.streak \in Nat /\ u.attempts \in Nat
    BY <1>2, <1>3, <2>3 DEF Controller, Count
  <2>6. CASE u.attempts = 0
    <3>1. new.streak = mcs.streak
      BY <1>0, <1>2, <2>3, <2>6, ControllerIs
    <3> QED BY <1>1, <2>4, <2>6, <3>1
  <2>7. CASE u.attempts > 0 /\ new.streak = 0
    BY <1>7, <2>7
  <2>8. CASE u.attempts > 0 /\ new.streak # 0
    <3>1. Good(u) /\ new.index = mcs.index /\ new.streak = mcs.streak + 1
      BY <1>0, <1>2, <2>3, <2>8, ControllerIs
    <3>2. goodRun' = goodRun + 1
      BY <1>1, <2>5, <2>8, <3>1
    <3> QED BY <1>2, <2>4, <2>5, <3>1, <3>2
  <2> QED BY <2>5, <2>6, <2>7, <2>8
<1>9. StreakInv'
  BY <1>1, <1>3, <1>7, <1>8 DEF StreakInv
<1> QED BY <1>4, <1>5, <1>6, <1>9 DEF IInv

LEMMA NextIInv == ASSUME IInv, [Next]_vars PROVE IInv'
<1>1. CASE UNCHANGED linkVars
  BY <1>1, SameLink
<1>2. ASSUME NEW level \in Levels, NEW failure \in Failures, Channel(level, failure)
      PROVE  IInv'
  <2>1. UNCHANGED <<adaptive, path, mcs, peer, arrived, life, report, base, goodRun>>
    BY <1>2 DEF Channel
  <2>2. PeerInv' /\ Truth' = Truth
    BY <2>1 DEF IInv, PeerInv, Truth
  <2>3. Ordered(Truth, Truth')
    BY <2>2, TruthType, OrderedRefl DEF IInv
  <2> QED BY <2>1, <2>2, <2>3, TruthKept
<1> QED
  BY <1>1, <1>2, FrameKept, RestartKept, BuildKept, LoseKept, ReceiveKept DEF Next, vars

LEMMA Inductive == Spec => []IInv
  BY InitIInv, NextIInv, PTL DEF Spec

-----------------------------------------------------------------------------
(* The sending side of the Mac.                                            *)

(* What a Mac may come to be configured as. *)
Configurable(config) ==
    \E scheme \in Schemes, mod \in {s.mod : s \in Schemes} \cup Modems \cup Range(McsTable) :
        \E fecs \in Fecs \cup {<< scheme.fec, scheme.fec1 >>} :
            config = [scheme EXCEPT !.mod = mod, !.fec = fecs[1], !.fec1 = fecs[2]]

(* The segmenter follows the scheme, unless a call raised; every PDU kept  *)
(* for retransmission is whole bytes.                                      *)
TxInv ==
    /\ Configurable(ofdm)
    /\ maxSegment \in Whole /\ maxSegment >= ByteBits /\ segmenter = maxSegment
    /\ rejected \in BOOLEAN
    /\ ~rejected => PacketizerAccepts(ofdm) /\ maxSegment = MaxSegmentBits(ofdm, HasHeader)
    /\ retx \subseteq Whole \ {0}

(* Every level has an entry in the table.                                  *)
LEMMA LevelIs == ASSUME NEW level \in Levels PROVE McsTable[level + 1] \in Range(McsTable)
  BY TableAssumption, McsAssumption DEF Levels, Range

(* Such a configuration has the types of one, and carries PDUs if the      *)
(* schemes do.                                                             *)
LEMMA ConfigurableIs ==
  ASSUME NEW config, Configurable(config)
  PROVE  /\ config \in Scheme /\ config.il.unit \in Nat \ {0}
         /\ SchemesCarry /\ PacketizerAccepts(config) => Carries(config)
<1>1. PICK scheme \in Schemes, mod \in {s.mod : s \in Schemes} \cup Modems \cup Range(McsTable) :
        \E fecs \in Fecs \cup {<< scheme.fec, scheme.fec1 >>} :
            config = [scheme EXCEPT !.mod = mod, !.fec = fecs[1], !.fec1 = fecs[2]]
  BY DEF Configurable
<1>2. PICK fecs \in Fecs \cup {<< scheme.fec, scheme.fec1 >>} :
        config = [scheme EXCEPT !.mod = mod, !.fec = fecs[1], !.fec1 = fecs[2]]
  BY <1>1
<1>3. \A s \in Schemes :
        /\ s \in [mod : DOMAIN BitsPerSymbol, crc : DOMAIN KeyBytes,
                  fec : FecNames, fec1 : FecNames, il : {s.il}]
        /\ s.il.unit \in Nat \ {0}
  BY TxAssumption
<1>4. mod \in DOMAIN BitsPerSymbol
  <2>1. Range(McsTable) \subseteq DOMAIN BitsPerSymbol
    <3>1. McsTable \in Seq(DOMAIN BitsPerSymbol)
      BY TableAssumption
    <3>2. \A i \in DOMAIN McsTable : McsTable[i] \in DOMAIN BitsPerSymbol
      BY <3>1
    <3> QED BY <3>2 DEF Range
  <2>2. {s.mod : s \in Schemes} \subseteq DOMAIN BitsPerSymbol
    BY <1>3
  <2> QED BY <2>1, <2>2, TxAssumption
<1>5. fecs[1] \in FecNames /\ fecs[2] \in FecNames
  <2>1. CASE fecs \in Fecs
    BY <2>1, TxAssumption
  <2>2. CASE fecs = << scheme.fec, scheme.fec1 >>
    BY <1>3, <2>2
  <2> QED BY <2>1, <2>2
<1>6. config = [mod |-> mod, crc |-> scheme.crc, fec |-> fecs[1], fec1 |-> fecs[2], il |-> scheme.il]
  BY <1>2, <1>3
<1>7. config \in Scheme /\ config.il.unit \in Nat \ {0}
  <2>1. scheme.il \in {s.il : s \in Schemes} /\ scheme.crc \in DOMAIN KeyBytes
    BY <1>3
  <2> QED BY <1>3, <1>4, <1>5, <1>6, <2>1 DEF Scheme
<1>8. SchemesCarry /\ PacketizerAccepts(config) => Carries(config)
  BY <1>2 DEF SchemesCarry
<1> QED BY <1>7, <1>8

(* How a configuration is shown to be one.                                 *)
LEMMA ConfigurableSo ==
  ASSUME NEW scheme \in Schemes,
         NEW mod \in {s.mod : s \in Schemes} \cup Modems \cup Range(McsTable),
         NEW fecs \in Fecs \cup {<< scheme.fec, scheme.fec1 >>}
  PROVE  Configurable([scheme EXCEPT !.mod = mod, !.fec = fecs[1], !.fec1 = fecs[2]])
  BY DEF Configurable

(* Another modulation, or another modulation and other codes. *)
LEMMA Reconfigured ==
  ASSUME Configurable(ofdm), NEW mod \in Modems \cup Range(McsTable)
  PROVE  /\ Configurable([ofdm EXCEPT !.mod = mod])
         /\ \A fecs \in Fecs :
               /\ Configurable([ofdm EXCEPT !.mod = mod, !.fec = fecs[1], !.fec1 = fecs[2]])
               /\ [ofdm EXCEPT !.mod = mod, !.fec = fecs[1], !.fec1 = fecs[2]].mod = mod
<1>1. PICK scheme \in Schemes, old \in {s.mod : s \in Schemes} \cup Modems \cup Range(McsTable) :
        \E codes \in Fecs \cup {<< scheme.fec, scheme.fec1 >>} :
            ofdm = [scheme EXCEPT !.mod = old, !.fec = codes[1], !.fec1 = codes[2]]
  BY DEF Configurable
<1>2. PICK codes \in Fecs \cup {<< scheme.fec, scheme.fec1 >>} :
        ofdm = [scheme EXCEPT !.mod = old, !.fec = codes[1], !.fec1 = codes[2]]
  BY <1>1
<1>3. scheme \in [mod : DOMAIN BitsPerSymbol, crc : DOMAIN KeyBytes,
                  fec : FecNames, fec1 : FecNames, il : {scheme.il}]
  BY TxAssumption
<1>4. [ofdm EXCEPT !.mod = mod]
        = [scheme EXCEPT !.mod = mod, !.fec = codes[1], !.fec1 = codes[2]]
  BY <1>2, <1>3
<1>5. Configurable([ofdm EXCEPT !.mod = mod])
  BY <1>4, ConfigurableSo
<1>6. ASSUME NEW fecs \in Fecs
      PROVE  /\ Configurable([ofdm EXCEPT !.mod = mod, !.fec = fecs[1], !.fec1 = fecs[2]])
             /\ [ofdm EXCEPT !.mod = mod, !.fec = fecs[1], !.fec1 = fecs[2]].mod = mod
  <2>1. [ofdm EXCEPT !.mod = mod, !.fec = fecs[1], !.fec1 = fecs[2]]
          = [scheme EXCEPT !.mod = mod, !.fec = fecs[1], !.fec1 = fecs[2]]
    BY <1>2, <1>3
  <2>2. [scheme EXCEPT !.mod = mod, !.fec = fecs[1], !.fec1 = fecs[2]].mod = mod
    BY <1>3
  <2> QED BY <2>1, <2>2 DEF Configurable
<1> QED BY <1>5, <1>6

(* A capacity is whole bytes, and at least one.                            *)
LEMMA SegmentOf ==
  ASSUME NEW config, Configurable(config)
  PROVE  /\ MaxSegmentBits(config, HasHeader) \in Whole
         /\ MaxSegmentBits(config, HasHeader) >= ByteBits
<1>1. config \in Scheme /\ HasHeader \in BOOLEAN
  BY ConfigurableIs DEF HasHeader
<1> QED BY <1>1, SegmentIs

(* The invariant holds in the beginning and is kept by every step.         *)
LEMMA InitTxInv == ASSUME Init PROVE TxInv
<1>1. Configurable(ofdm)
  <2>1. /\ ofdm \in Schemes
        /\ ofdm \in [mod : DOMAIN BitsPerSymbol, crc : DOMAIN KeyBytes,
                  fec : FecNames, fec1 : FecNames, il : {ofdm.il}]
    BY TxAssumption DEF Init, TxInit
  <2>2. ofdm = [ofdm EXCEPT !.mod = ofdm.mod, !.fec = << ofdm.fec, ofdm.fec1 >>[1],
                            !.fec1 = << ofdm.fec, ofdm.fec1 >>[2]]
    BY <2>1
  <2>3. ofdm.mod \in {s.mod : s \in Schemes} /\ << ofdm.fec, ofdm.fec1 >> \in {<< ofdm.fec, ofdm.fec1 >>}
    BY <2>1
  <2>4. PICK mod, fecs : mod = ofdm.mod /\ fecs = << ofdm.fec, ofdm.fec1 >>
    OBVIOUS
  <2>5. Configurable([ofdm EXCEPT !.mod = mod, !.fec = fecs[1], !.fec1 = fecs[2]])
    BY <2>1, <2>3, <2>4, ConfigurableSo
  <2> QED BY <2>2, <2>4, <2>5
<1>2. /\ maxSegment = MaxSegmentBits(ofdm, HasHeader) /\ segmenter = maxSegment
      /\ rejected = FALSE /\ retx = {} /\ PacketizerAccepts(ofdm)
  BY TxAssumption DEF Init, TxInit
<1> QED BY <1>1, <1>2, SegmentOf DEF TxInv

(* A call of set_tx_scheme, whoever makes it. *)
LEMMA SetTxSchemeKeeps ==
  ASSUME TxInv, NEW scheme, SetTxScheme(scheme), mode' = mode, retx' = retx,
         Configurable(scheme), Configurable([ofdm EXCEPT !.mod = scheme.mod])
  PROVE  TxInv'
<1>1. HasHeader' = HasHeader
  BY DEF HasHeader
<1>2. CASE PacketizerAccepts(scheme)
  <2>1. /\ ofdm' = scheme /\ maxSegment' = MaxSegmentBits(scheme, HasHeader)
        /\ segmenter' = maxSegment' /\ rejected' = rejected
    BY <1>2 DEF SetTxScheme, TxInv
  <2>2. Configurable(ofdm')
    BY <2>1
  <2>3. maxSegment' \in Whole /\ maxSegment' >= ByteBits /\ maxSegment' = MaxSegmentBits(ofdm', HasHeader)
    BY <2>1, SegmentOf
  <2> QED BY <1>1, <1>2, <2>1, <2>2, <2>3 DEF TxInv
<1>3. CASE ~PacketizerAccepts(scheme)
  <2>1. /\ ofdm' = [ofdm EXCEPT !.mod = scheme.mod] /\ maxSegment' = maxSegment
        /\ segmenter' = segmenter /\ rejected' = TRUE
    BY <1>3 DEF SetTxScheme
  <2>2. Configurable(ofdm')
    BY <2>1
  <2> QED BY <2>1, <2>2 DEF TxInv
<1> QED BY <1>2, <1>3

(* The PDUs of an SDU of whole bytes. *)
LEMMA PdusAre ==
  ASSUME TxInv, NEW n \in Nat \ {0}, Transmits(n), NEW chunk \in Chunks(n)
  PROVE  /\ PduBits(chunk) \in Whole /\ PduBits(chunk) > 0
         /\ PduBits(chunk) <= PduBits(maxSegment)
<1>1. PICK B \in Nat \ {0} : B = ByteBits /\ B \in Whole
  BY ByteBitsAssumption, WholeFacts
<1>2. PICK s \in Nat \ {0} : s = segmenter /\ s = maxSegment /\ s \in Whole
  BY <1>1 DEF TxInv, Whole
<1>3. n \in Whole
  BY DEF Transmits, Whole
<1>4. chunk \in Whole /\ chunk \in Nat \ {0} /\ chunk <= s
  <2>1. CASE chunk = Min({n, s})
    BY <1>2, <1>3, <2>1, MinOfTwo
  <2>2. CASE chunk = n % s /\ n % s > 0
    <3>1. n % s \in Nat /\ n % s < s
      BY <1>2
    <3>2. PICK q \in Nat : n = s * q + (n % s)
      <4>1. PICK q \in Nat : q = n \div s
        BY <1>2
      <4>2. n = s * (n \div s) + (n % s)
        BY <1>2
      <4> QED BY <4>1, <4>2
    <3>3. PICK x \in Int : n = B * x
      BY <1>1, <1>3 DEF Whole
    <3>4. PICK y \in Int : s = B * y
      BY <1>1, <1>2 DEF Whole
    <3>5. n % s = B * (x - y * q)
      <4>1. s * q = B * (y * q) /\ y * q \in Int
        BY <1>1, <3>2, <3>4
      <4>2. PICK z \in Int : z = y * q
        BY <4>1
      <4>3. B * x - B * z = B * (x - z)
        BY <1>1, <3>3, <4>2
      <4> QED BY <3>1, <3>2, <3>3, <4>1, <4>2, <4>3
    <3>6. (n % s) % B = 0
      <4>1. PICK z \in Int : z = x - y * q
        BY <3>2, <3>3, <3>4
      <4>2. (B * z) % B = 0
        BY <1>1
      <4> QED BY <3>5, <4>1, <4>2
    <3> QED BY <1>1, <2>2, <3>1, <3>6 DEF Whole
  <2> QED BY <1>2, <2>1, <2>2 DEF Chunks
<1>5. MacHeaderBits \in Whole /\ MacHeaderBits \in Nat
  BY TxAssumption DEF Whole
<1>6. chunk + MacHeaderBits \in Whole
  BY <1>4, <1>5, WholeFacts
<1> QED BY <1>2, <1>4, <1>5, <1>6 DEF PduBits

LEMMA NextTxInv == ASSUME TxInv, IInv, [Next]_vars PROVE TxInv'
<1>1. CASE UNCHANGED txVars
  BY <1>1 DEF TxInv, txVars, HasHeader, Configurable
<1>2. ASSUME UNCHANGED << mode, ofdm, maxSegment, segmenter, rejected >>, retx' \subseteq Whole \ {0}
      PROVE  TxInv'
  BY <1>2 DEF TxInv, HasHeader, Configurable
<1>3. ASSUME NEW limit, Bind(limit) PROVE TxInv'
  BY <1>2, <1>3 DEF Bind, TxInv
<1>4. ASSUME NEW n \in SduSizes, SendIq(n) PROVE TxInv'
  <2>1. n \in Nat \ {0}
    BY TxAssumption
  <2>2. ASSUME Transmits(n), NEW chunk \in Chunks(n) PROVE PduBits(chunk) \in Whole \ {0}
    BY <2>1, <2>2, PdusAre DEF Whole
  <2>3. retx' \subseteq Whole \ {0}
    BY <1>4, <2>2 DEF SendIq, TxInv
  <2> QED BY <1>2, <1>4, <2>3 DEF SendIq
<1>5. ASSUME NEW k, Retransmit(k) \/ Acknowledge(k) PROVE TxInv'
  BY <1>2, <1>5 DEF Retransmit, Acknowledge, TxInv
<1>6. ASSUME NEW mod \in Modems, NEW fecs \in Fecs, CallerSetsScheme(mod, fecs) PROVE TxInv'
  <2> DEFINE scheme == [ofdm EXCEPT !.mod = mod, !.fec = fecs[1], !.fec1 = fecs[2]]
  <2>1. Configurable(scheme) /\ Configurable([ofdm EXCEPT !.mod = scheme.mod])
    BY Reconfigured DEF TxInv
  <2>2. SetTxScheme(scheme) /\ mode' = mode /\ retx' = retx
    BY <1>6 DEF CallerSetsScheme
  <2> HIDE DEF scheme
  <2> QED BY <2>1, <2>2, SetTxSchemeKeeps
<1>7. ASSUME ReceiveReport PROVE TxInv'
  <2>1. PICK new : new = OnQualityReport(mcs, report.counts)
    OBVIOUS
  <2>2. CASE new.index # mcs.index
    <3>1. new.index \in Levels
      <4>1. mcs \in Controller /\ report.counts \in Count
        BY <1>7 DEF ReceiveReport, IInv, ReportInv, StreakInv
      <4> QED BY <2>1, <4>1, ControllerIs DEF Controller
    <3>2. PICK mod \in Range(McsTable) : mod = McsTable[new.index + 1]
      BY <3>1, LevelIs
    <3>3. PICK scheme : scheme = [ofdm EXCEPT !.mod = mod]
      OBVIOUS
    <3>4. SetTxScheme(scheme) /\ mode' = mode /\ retx' = retx
      BY <1>7, <2>1, <2>2, <3>2, <3>3 DEF ReceiveReport
    <3>5. Configurable(scheme)
      BY <3>2, <3>3, Reconfigured DEF TxInv
    <3>6. scheme.mod = mod
      <4>1. ofdm \in Scheme
        BY ConfigurableIs DEF TxInv
      <4> QED BY <3>3, <4>1 DEF Scheme
    <3> QED BY <3>3, <3>4, <3>5, <3>6, SetTxSchemeKeeps
  <2>3. CASE new.index = mcs.index
    <3>1. UNCHANGED << mode, ofdm, maxSegment, segmenter, rejected, retx >>
      BY <1>7, <2>1, <2>3 DEF ReceiveReport
    <3> QED BY <1>2, <3>1 DEF TxInv
  <2> QED BY <2>2, <2>3
<1> QED
  BY <1>1, <1>3, <1>4, <1>5, <1>6, <1>7
  DEF Next, TxNext, vars, Channel, Frame, PeerRestarts, BuildReport, LoseReport

(* The capacity is a length that fits, and nothing longer does. *)
LEMMA CapacityIs ==
  ASSUME NEW config, Configurable(config), MaxSegmentBits(config, HasHeader) = maxSegment
  PROVE  /\ SchemesCarry /\ PacketizerAccepts(config) => Fits(config, PduBits(maxSegment))
         /\ PduBits(maxSegment) \in Whole /\ PduBits(maxSegment) >= LargestFitting(config)
<1>1. config \in Scheme /\ HasHeader \in BOOLEAN
  BY ConfigurableIs DEF HasHeader
<1>2. PICK segment \in Whole, pdu \in Whole :
        /\ segment = maxSegment
        /\ pdu = IF HasHeader THEN segment + MacHeaderBits ELSE segment
        /\ pdu >= LargestFitting(config)
        /\ Fits(config, MacHeaderBits + ByteBits) => Fits(config, pdu)
  BY <1>1, SegmentIs
<1>3. pdu = PduBits(maxSegment)
  BY <1>2 DEF PduBits
<1>4. SchemesCarry /\ PacketizerAccepts(config) => Fits(config, MacHeaderBits + ByteBits)
  BY ConfigurableIs DEF Carries
<1> QED BY <1>2, <1>3, <1>4

(* What is no longer than the capacity gets into a frame. *)
LEMMA FramesOf ==
  ASSUME SchemesCarry, TxInv, ~rejected,
         NEW k \in Whole, k > 0, k <= PduBits(maxSegment)
  PROVE  FrameFits(ofdm, k)
<1>1. /\ Configurable(ofdm) /\ PacketizerAccepts(ofdm)
      /\ MaxSegmentBits(ofdm, HasHeader) = maxSegment
  BY DEF TxInv
<1>2. Fits(ofdm, PduBits(maxSegment)) /\ PduBits(maxSegment) \in Whole
  BY <1>1, CapacityIs
<1>3. ofdm \in Scheme /\ ofdm.il.unit \in Nat \ {0} /\ Carries(ofdm)
  BY <1>1, ConfigurableIs
<1>4. Fits(ofdm, k)
  BY <1>2, <1>3, ShorterFits DEF Whole
<1> QED BY <1>3, <1>4, FittingIsFramed

(* With it, SegmentsFit is kept by every step.                             *)
LEMMA SegmentsFitKept ==
  ASSUME SchemesCarry, TxInv, IInv, SegmentsFit, [Next]_vars
  PROVE  SegmentsFit'
<1>1. ASSUME UNCHANGED << mode, maxSegment, segmenter, rejected, last >> PROVE SegmentsFit'
  BY <1>1 DEF SegmentsFit, Transmits, LastOffset, PduBits, HasHeader
<1>2. ASSUME last'.ok PROVE SegmentsFit'
  BY <1>2 DEF SegmentsFit
<1>3. ASSUME NEW limit, Bind(limit) PROVE SegmentsFit'
  BY <1>2, <1>3 DEF Bind
<1>4. ASSUME NEW n \in SduSizes, SendIq(n) PROVE SegmentsFit'
  <2>1. /\ last' = [op |-> "send", size |-> n,
                    ok |-> Transmits(n) /\ \A k \in {PduBits(chunk) : chunk \in Chunks(n)} :
                                               FrameFits(ofdm, k)]
        /\ rejected' = rejected /\ Transmits(n)' = Transmits(n)
    BY <1>4 DEF SendIq, Transmits, LastOffset, HasHeader
  <2>2. n \in Nat \ {0}
    BY TxAssumption
  <2>3. ASSUME ~rejected, Transmits(n), NEW chunk \in Chunks(n) PROVE FrameFits(ofdm, PduBits(chunk))
    BY <2>2, <2>3, PdusAre, FramesOf
  <2>4. ~rejected /\ Transmits(n) => last'.ok
    BY <2>1, <2>3
  <2> QED BY <2>1, <2>4 DEF SegmentsFit
<1>5. ASSUME NEW k \in retx, Retransmit(k) PROVE SegmentsFit'
  <2>1. /\ last' = [op |-> "retransmit", size |-> k, ok |-> FrameFits(ofdm, k)]
        /\ rejected' = rejected /\ PduBits(maxSegment)' = PduBits(maxSegment)
    BY <1>5 DEF Retransmit, PduBits, HasHeader
  <2>2. k \in Whole /\ k \in Nat /\ k > 0
    BY <1>5 DEF TxInv, Whole
  <2>3. PduBits(maxSegment) \in Int
    BY TxAssumption DEF PduBits, TxInv, Whole
  <2>4. ~rejected /\ ~(k > PduBits(maxSegment)) => FrameFits(ofdm, k)
    BY <2>2, <2>3, FramesOf
  <2> QED BY <2>1, <2>4 DEF SegmentsFit
<1>6. ASSUME NEW k, Acknowledge(k) PROVE SegmentsFit'
  BY <1>2, <1>6 DEF Acknowledge
<1>7. ASSUME NEW scheme, SetTxScheme(scheme) PROVE SegmentsFit'
  BY <1>7 DEF SetTxScheme, SegmentsFit
<1>8. ASSUME ReceiveReport PROVE SegmentsFit'
  <2>1. \/ \E scheme : SetTxScheme(scheme)
        \/ UNCHANGED << mode, maxSegment, segmenter, rejected, last >>
    BY <1>8 DEF ReceiveReport
  <2> QED BY <1>1, <1>7, <2>1
<1> QED
  BY <1>1, <1>3, <1>4, <1>5, <1>6, <1>7, <1>8
  DEF Next, TxNext, vars, txVars, CallerSetsScheme, Channel, Frame, PeerRestarts, BuildReport, LoseReport

(* Both invariants, for ever. *)
LEMMA CapacityInductive == Spec => []TxInv
  BY InitTxInv, NextTxInv, Inductive, PTL DEF Spec

-----------------------------------------------------------------------------
(* The theorems.                                                           *)

(* "step DOWN immediately on any bad interval" (McsController), whatever   *)
(* history, lost reports and restarts came before it.                      *)
THEOREM StepsDown == Spec => DownOnBadInterval
<1>1. ASSUME IInv, ReceiveReport, Plain,
             Interval(base, report.truth).attempts > 0, Bad(Interval(base, report.truth)),
             mcs.index > 0
      PROVE  mcs'.index = mcs.index - 1
  <2> DEFINE u == Interval(base, report.truth)
  <2>1. report.sent /\ mcs' = OnQualityReport(mcs, report.counts)
    BY <1>1 DEF ReceiveReport
  <2>2. SinceLast(mcs, report.counts) = u
    BY <1>1, <2>1, PlainIs
  <2>3. mcs \in Controller /\ report.counts \in Count
    BY <1>1, <2>1 DEF IInv, ReportInv, StreakInv
  <2>4. mcs'.index = IF mcs.index = 0 THEN 0 ELSE mcs.index - 1
    BY <1>1, <2>1, <2>2, <2>3, ControllerIs
  <2> QED BY <1>1, <2>4
<1>2. IInv => (ReceiveReport /\ Plain =>
                 LET u == Interval(base, report.truth)
                 IN  u.attempts > 0 /\ Bad(u) /\ mcs.index > 0 => mcs'.index = mcs.index - 1)
  BY <1>1
<1> QED BY <1>2, Inductive, PTL DEF DownOnBadInterval

(* "step UP only after up_streak_needed CONSECUTIVE good intervals".       *)
THEOREM ClimbsOnGoodRun == Spec => UpOnGoodRun
<1>1. ASSUME IInv, [Next]_vars, adaptive, mcs'.index > mcs.index, Plain, life = 1
      PROVE  goodRun + 1 >= UpStreak /\ Good(Interval(base, report.truth))
  <2>1. ReceiveReport
    <3>1. mcs' # mcs
      <4>1. ASSUME mcs' = mcs PROVE FALSE
        <5>1. mcs.index \in Int
          BY <1>1, McsAssumption DEF IInv, StreakInv, Controller, Levels
        <5> QED BY <1>1, <4>1, <5>1
      <4> QED BY <4>1
    <3> QED BY <1>1, <3>1 DEF Next, vars, linkVars, Channel, Frame, PeerRestarts,
                             BuildReport, LoseReport
  <2>2. /\ report.sent /\ adaptive /\ mcs' = OnQualityReport(mcs, report.counts)
        /\ mcs \in Controller /\ report.counts \in Count
    BY <1>1, <2>1 DEF ReceiveReport, IInv, ReportInv, StreakInv
  <2>3. /\ SinceLast(mcs, report.counts) = Interval(base, report.truth)
        /\ base.count.attempts < U16Max
    BY <1>1, <2>2, PlainIs
  <2>4. Good(Interval(base, report.truth)) /\ mcs.streak + 1 >= UpStreak
    BY <1>1, <2>2, <2>3, ControllerIs
  <2>5. mcs.streak <= goodRun /\ goodRun \in Nat /\ mcs.streak \in Nat
    BY <1>1, <2>2, <2>3 DEF IInv, StreakInv, Plain, Controller
  <2> QED BY <2>4, <2>5, McsAssumption
<1>2. IInv /\ [Next]_vars =>
        (adaptive /\ mcs'.index > mcs.index /\ Plain /\ life = 1 =>
           goodRun + 1 >= UpStreak /\ Good(Interval(base, report.truth)))
  BY <1>1
<1> QED BY <1>2, Inductive, PTL DEF Spec, UpOnGoodRun

(* What the segmenter makes of an SDU gets into frames: send_iq does not   *)
(* raise for a PDU of its own making and a retransmission only for a PDU   *)
(* kept from a scheme with room for more, after any sequence of calls of   *)
(* set_tx_scheme none of which raised ("segments against the new PHY       *)
(* capacity instead of a stale one", Mac.set_tx_scheme).                   *)
THEOREM EverySegmentFits == ASSUME SchemesCarry PROVE Spec => []SegmentsFit
<1>1. Init => SegmentsFit
  BY DEF Init, TxInit, SegmentsFit
<1>2. SegmentsFit /\ TxInv /\ IInv /\ [Next]_vars => SegmentsFit'
  BY SegmentsFitKept
<1> QED BY <1>1, <1>2, Inductive, CapacityInductive, PTL DEF Spec

(* What compute_max_segment_bits finds is the largest: no whole number of  *)
(* bytes between it and the room of a frame fits, whatever the codes.      *)
THEOREM FindsLargest == Spec => CapacityIsLargest
<1>1. ASSUME TxInv, TxInv', [Next]_vars, maxSegment' # maxSegment,
             NEW bytes \in (PduBits(maxSegment') \div ByteBits) + 1 .. Limit(ofdm') \div ByteBits
      PROVE  ~Fits(ofdm', bytes * ByteBits)
  <2>1. PICK scheme : /\ PacketizerAccepts(scheme) /\ ofdm' = scheme
                      /\ maxSegment' = MaxSegmentBits(scheme, HasHeader) /\ mode' = mode
    <3>1. PICK scheme : SetTxScheme(scheme) /\ mode' = mode
      BY <1>1 DEF Next, TxNext, vars, txVars, Bind, SendIq, Retransmit, Acknowledge, CallerSetsScheme,
                  Channel, Frame, PeerRestarts, BuildReport, LoseReport, ReceiveReport
    <3>2. PacketizerAccepts(scheme)
      BY <1>1, <3>1 DEF SetTxScheme
    <3> QED BY <3>1, <3>2 DEF SetTxScheme
  <2>2. Configurable(ofdm') /\ Configurable(scheme) /\ scheme \in Scheme
    BY <1>1, <2>1, ConfigurableIs DEF TxInv
  <2>3. PICK B \in Nat \ {0} : B = ByteBits
    BY ByteBitsAssumption
  <2>4. PICK pdu \in Whole : /\ pdu = PduBits(maxSegment') /\ pdu \in Nat
                            /\ pdu >= LargestFitting(scheme)
    <3>1. HasHeader \in BOOLEAN
      BY DEF HasHeader
    <3>2. PICK segment \in Whole, pdu \in Whole :
            /\ segment = maxSegment'
            /\ pdu = IF HasHeader THEN segment + MacHeaderBits ELSE segment
            /\ pdu >= LargestFitting(scheme)
      BY <2>1, <2>2, <3>1, SegmentIs
    <3> QED BY <3>2 DEF PduBits, Whole
  <2>5. bytes \in Int /\ bytes >= pdu \div B + 1 /\ bytes <= Limit(scheme) \div B /\ Limit(scheme) \in Nat
    BY <1>1, <2>1, <2>2, <2>3, <2>4, LimitIs
  <2>6. bytes * B > pdu /\ bytes * B <= Limit(scheme) /\ bytes * B \in Whole
    <3>1. PICK q \in Nat : q = pdu \div B /\ pdu < B * q + B
      <4>1. \A p \in Nat : p \div B \in Nat /\ p < B * (p \div B) + B
        BY <2>3
      <4> QED BY <2>4, <4>1
    <3>2. PICK t \in Nat : t = Limit(scheme) \div B /\ B * t <= Limit(scheme)
      BY <2>3, <2>5
    <3>3. bytes \in Nat
      BY <2>5, <3>1
    <3>4. B * (q + 1) <= B * bytes /\ B * bytes <= B * t
      BY <2>3, <2>5, <3>1, <3>2, <3>3
    <3>5. B * (q + 1) = B * q + B /\ B * bytes = bytes * B
      BY <2>3, <3>1, <3>3
    <3>6. bytes * B \in Nat /\ (bytes * B) % B = 0
      BY <2>3, <3>3
    <3>7. bytes * B > pdu /\ bytes * B <= Limit(scheme)
      <4>1. B * q + B > pdu /\ B * q + B <= bytes * B /\ bytes * B <= B * t /\ B * t <= Limit(scheme)
        BY <3>1, <3>2, <3>4, <3>5
      <4>2. B * q \in Nat /\ B * t \in Nat
        BY <2>3, <3>1, <3>2
      <4> QED BY <2>3, <2>4, <2>5, <3>6, <4>1, <4>2
    <3> QED BY <2>3, <3>6, <3>7 DEF Whole
  <2>7. PICK m \in Whole : m = bytes * B /\ m > pdu /\ m <= Limit(scheme)
    BY <2>6
  <2>8. m > LargestFitting(scheme)
    BY <2>2, <2>4, <2>7, LargestFittingIs DEF IsLargest, Whole
  <2> QED BY <2>1, <2>2, <2>3, <2>7, <2>8, LargestFittingIs DEF IsLargest
<1>2. TxInv /\ TxInv' /\ [Next]_vars =>
        [maxSegment' # maxSegment /\ retx = {} /\ ~bound =>
          \A bytes \in (PduBits(maxSegment') \div ByteBits) + 1 .. Limit(ofdm') \div ByteBits :
            ~Fits(ofdm', bytes * ByteBits)]_txVars
  BY <1>1
<1> QED BY <1>2, CapacityInductive, PTL DEF Spec, CapacityIsLargest

(* decoded_length undoes encoded_length, and refuses no length that it     *)
(* makes (FEC.encoded_length, FEC.decoded_length).                         *)
THEOREM LengthsInverse ==
  ASSUME NEW scheme \in FecSchemes, NEW k \in Nat
  PROVE  /\ FecDecodedLength(scheme, FecEncodedLength(scheme, k)) = k
         /\ scheme = "conv_v27" => StreamDecodable(FecEncodedLength(scheme, k), TailBits)
<1>1. CASE scheme = "conv_v27"
  <2>1. PICK tail \in Nat : tail = TailBits
    BY ConvolutionalAssumption DEF TailBits
  <2>2. FecEncodedLength(scheme, k) = 2 * (k + tail)
    BY <1>1, <2>1 DEF FecEncodedLength, StreamEncoded
  <2>3. PICK m \in Nat : m = k + tail
    BY <2>1
  <2>4. (2 * m) % 2 = 0 /\ (2 * m) \div 2 = m /\ m >= tail /\ m - tail = k
    BY <2>1, <2>3
  <2> QED BY <1>1, <2>1, <2>2, <2>3, <2>4 DEF FecDecodedLength, StreamDecoded, StreamDecodable
<1>2. CASE scheme \in SymbolSchemes \cup BlockSchemes
  <2>1. PICK b, n \in Nat \ {0} : b = KBits(scheme) /\ n = NBits(scheme) /\ b <= n
    BY <1>2, CodeSizes
  <2>2. scheme # "conv_v27"
    BY <1>2 DEF SymbolSchemes, BlockSchemes
  <2>3. BlocksDecoded(BlocksEncoded(k, b, n), b, n) = k
    BY <2>1, BlocksInvert
  <2> QED BY <2>1, <2>2, <2>3 DEF FecDecodedLength, FecEncodedLength
<1> QED BY <1>1, <1>2 DEF FecSchemes

-----------------------------------------------------------------------------
(* The bins of a symbol.                                                   *)

(* Ascending enumerates a set of numbers, each once.                       *)
LEMMA AscendingIs ==
  ASSUME NEW S \in SUBSET Int, IsFiniteSet(S)
  PROVE  /\ Ascending(S) \in [1 .. Cardinality(S) -> S]
         /\ \A i, j \in 1 .. Cardinality(S) : Ascending(S)[i] = Ascending(S)[j] => i = j
<1> DEFINE Lower(b) == {lower \in S : lower < b}
           rank == [b \in S |-> Cardinality(Lower(b))]
<1>1. PICK n \in Nat : n = Cardinality(S)
  BY FS_CardinalityType
<1>2. ASSUME NEW b \in S
      PROVE  IsFiniteSet(Lower(b)) /\ rank[b] \in 0 .. n - 1
  <2>1. IsFiniteSet(Lower(b)) /\ Cardinality(Lower(b)) <= n
        /\ (n = Cardinality(Lower(b)) => S = Lower(b))
    <3>1. Lower(b) \in SUBSET S
      OBVIOUS
    <3> HIDE DEF Lower
    <3> QED BY <3>1, <1>1, FS_Subset
  <2>2. b \notin Lower(b)
    OBVIOUS
  <2> HIDE DEF Lower
  <2>3. Cardinality(Lower(b)) \in Nat
    BY <2>1, FS_CardinalityType
  <2> QED BY <2>1, <2>2, <2>3
<1>3. ASSUME NEW b \in S, NEW c \in S, b < c PROVE rank[b] < rank[c]
  <2>1. Lower(b) \in SUBSET Lower(c) /\ b \in Lower(c) /\ b \notin Lower(b)
    <3>1. b \in Int /\ c \in Int
      OBVIOUS
    <3>2. \A a \in S : a < b => a < c
      BY <3>1, <1>3
    <3>3. ~(b < b)
      BY <3>1
    <3> QED BY <1>3, <3>2, <3>3
  <2> HIDE DEF Lower
  <2>2. Cardinality(Lower(b)) <= Cardinality(Lower(c))
        /\ Cardinality(Lower(c)) # Cardinality(Lower(b))
    BY <2>1, <1>2, FS_Subset
  <2>3. rank[b] \in Nat /\ rank[c] \in Nat
    BY <1>2
  <2> QED BY <2>2, <2>3
<1>4. rank \in Injection(S, 0 .. n - 1)
  <2>1. rank \in [S -> 0 .. n - 1]
    <3> HIDE DEF Lower
    <3> QED BY <1>2
  <2>2. ASSUME NEW b \in S, NEW c \in S, rank[b] = rank[c] PROVE b = c
    <3> HIDE DEF rank
    <3>0. rank[b] \in 0 .. n - 1
      BY <1>2
    <3>1. rank[b] \in Int /\ ~(rank[b] < rank[b])
      BY <3>0
    <3>2. ~(b < c) /\ ~(c < b)
      BY <3>1, <1>3, <2>2
    <3>3. b \in Int /\ c \in Int
      OBVIOUS
    <3> QED BY <3>2, <3>3
  <2> HIDE DEF rank
  <2> QED BY <2>1, <2>2 DEF Injection, IsInjective
<1>5. rank \in Surjection(S, 0 .. n - 1)
  <2>1. IsFiniteSet(0 .. n - 1) /\ Cardinality(0 .. n - 1) = n
    <3>1. 0 \in Int /\ n - 1 \in Int /\ (n - 1) - 0 + 1 = n /\ (0 > n - 1 => n = 0)
      BY <1>1
    <3> QED BY <3>1, FS_Interval
  <2> HIDE DEF rank
  <2> QED BY <2>1, <1>1, <1>4, FS_Injection
<1>6. ASSUME NEW i \in 1 .. n
      PROVE  Ascending(S)[i] \in S /\ rank[Ascending(S)[i]] = i - 1
  <2>1. \E b \in S : Cardinality({lower \in S : lower < b}) = i - 1
    <3>1. i - 1 \in 0 .. n - 1
      OBVIOUS
    <3>2. PICK b \in S : rank[b] = i - 1
      <4> HIDE DEF rank
      <4> QED BY <3>1, <1>5 DEF Surjection
    <3> QED BY <3>2
  <2>2. Ascending(S)[i] = CHOOSE b \in S : Cardinality({lower \in S : lower < b}) = i - 1
    BY <1>1 DEF Ascending
  <2> QED BY <2>1, <2>2
<1> HIDE DEF rank
<1>7. Ascending(S) \in [1 .. n -> S]
  <2>1. PICK f : f = Ascending(S)
    OBVIOUS
  <2>2. f = [i \in 1 .. n |-> CHOOSE bin \in S : Cardinality({lower \in S : lower < bin}) = i - 1]
    BY <2>1, <1>1 DEF Ascending
  <2>3. \A i \in 1 .. n : f[i] \in S
    BY <2>1, <1>6
  <2> QED BY <2>1, <2>2, <2>3
<1>8. ASSUME NEW i \in 1 .. n, NEW j \in 1 .. n, Ascending(S)[i] = Ascending(S)[j] PROVE i = j
  BY <1>6, <1>8
<1> QED BY <1>1, <1>7, <1>8

(* There are enough null bins and pilots to leave no fewer than NData.     *)
LEMMA DataIs ==
  /\ \A u \in 1 .. NData : Data[u] \in Bins \ (NullBins \cup PilotBins)
  /\ \A u, e \in 1 .. NData : Data[u] = Data[e] => u = e
<1>1. PICK F, D, P \in Nat : F = FftSize /\ D = NData /\ P = NPilot
  BY ResourceGridAssumption
<1>2. PICK z \in {0, 1} : z = IF DcNull THEN 1 ELSE 0
  OBVIOUS
<1>3. PICK G \in Nat : G = NGuard /\ G = F - D - P - z
  <2>1. NGuard = F - D - P - z
    BY <1>1, <1>2 DEF NGuard
  <2>2. NGuard >= 0
    BY ResourceGridAssumption
  <2>3. F - D - P - z \in Int
    BY <1>1, <1>2
  <2> QED BY <2>1, <2>2, <2>3
<1>4. PICK L \in Int : L = GuardLow
  BY <1>1, <1>3 DEF GuardLow
<1> DEFINE dc == IF DcNull THEN {0} ELSE {}
<1>5. IsFiniteSet(NullBins) /\ Cardinality(NullBins) <= G + z
  <2>1. NullBins = dc \cup (L .. L + G - 1)
    BY <1>3, <1>4 DEF NullBins
  <2>2. IsFiniteSet(dc) /\ Cardinality(dc) = z
    BY <1>2, FS_EmptySet, FS_Singleton
  <2>3. IsFiniteSet(L .. L + G - 1) /\ Cardinality(L .. L + G - 1) = G
    BY FS_Interval
  <2> HIDE DEF dc
  <2>4. Cardinality(dc \cap (L .. L + G - 1)) \in Nat
    BY <2>2, FS_Intersection, FS_CardinalityType
  <2>5. IsFiniteSet(NullBins)
        /\ Cardinality(NullBins) = z + G - Cardinality(dc \cap (L .. L + G - 1))
    BY <2>1, <2>2, <2>3, FS_Union
  <2> QED BY <2>4, <2>5, <1>2
<1>6. IsFiniteSet(PilotBins) /\ Cardinality(PilotBins) <= P
  <2> DEFINE S == 0 .. P - 1
             place == [i \in S |-> Eligible[1 + SpreadPlace(i, Len(Eligible) - 1, NPilot)]]
  <2>1. PilotBins = {place[i] : i \in S}
    BY <1>1 DEF PilotBins
  <2>2. IsFiniteSet(S) /\ Cardinality(S) = P
    BY FS_Interval
  <2>3. place \in [S -> PilotBins] /\ \A b \in PilotBins : \E i \in S : place[i] = b
    BY <2>1
  <2> HIDE DEF place, S
  <2>4. place \in Surjection(S, PilotBins)
    BY <2>3 DEF Surjection
  <2> QED BY <2>2, <2>4, FS_Surjection
<1> DEFINE free == Bins \ (NullBins \cup PilotBins)
<1>7. IsFiniteSet(free) /\ Cardinality(free) >= D
  <2> DEFINE taken == NullBins \cup PilotBins
  <2>1. IsFiniteSet(Bins) /\ Cardinality(Bins) = F
    BY <1>1, FS_Interval, ResourceGridAssumption DEF Bins
  <2>2. PICK n, p, m \in Nat : /\ n = Cardinality(NullBins) /\ p = Cardinality(PilotBins)
                               /\ m = Cardinality(NullBins \cap PilotBins)
    BY <1>5, <1>6, FS_CardinalityType, FS_Intersection
  <2>3. IsFiniteSet(taken) /\ Cardinality(taken) = n + p - m
    BY <2>2, <1>5, <1>6, FS_Union
  <2> HIDE DEF taken
  <2>4. PICK k \in Nat : k = Cardinality(Bins \cap taken) /\ k <= n + p - m
    <3>1. Bins \cap taken \in SUBSET taken
      OBVIOUS
    <3> QED BY <3>1, <2>3, FS_Subset, FS_CardinalityType
  <2>5. IsFiniteSet(Bins \ taken) /\ Cardinality(Bins \ taken) = F - k
    BY <2>1, <2>4, FS_Difference
  <2>6. F - k >= D
    BY <2>2, <2>4, <1>3, <1>5, <1>6
  <2> QED BY <2>5, <2>6 DEF taken
<1>8. free \in SUBSET Int
  BY DEF Bins
<1>9. Data = Ascending(free)
  BY DEF Data
<1> HIDE DEF free
<1>10. Cardinality(free) \in Nat
  BY <1>7, FS_CardinalityType
<1>11. 1 .. NData \subseteq 1 .. Cardinality(free)
  BY <1>1, <1>7, <1>10
<1>12. /\ \A u \in 1 .. NData : Data[u] \in free
       /\ \A u, e \in 1 .. NData : Data[u] = Data[e] => u = e
  BY <1>7, <1>8, <1>9, <1>11, AscendingIs
<1> QED BY <1>12 DEF free

(* A data bin is that of one data subcarrier, and of no pilot. *)
LEMMA DataBin ==
  ASSUME NEW u \in 1 .. NData
  PROVE  /\ Data[u] \in Bins /\ Data[u] \notin PilotBins /\ Data[u] \notin NullBins
         /\ (CHOOSE e \in 1 .. NData : Data[e] = Data[u]) = u
<1>1. (CHOOSE e \in 1 .. NData : Data[e] = Data[u]) = u
  BY DataIs
<1> QED BY <1>1, DataIs

-----------------------------------------------------------------------------
(* Quarter turns.                                                          *)

Points == Int \X Int

LEMMA RotateIs ==
  ASSUME NEW z \in Points, NEW k \in Int
  PROVE  Rotate(z, k) \in Points
<1>1. k % 4 \in 0 .. 3
  OBVIOUS
<1> QED BY <1>1 DEF Rotate, Points

(* A point of the training symbol shows how far it was turned. *)
LEMMA TurnsFound ==
  ASSUME NEW z \in Points, z # << 0, 0 >>, NEW k \in Int, NEW t \in 0 .. 3,
         Rotate(z, t) = Rotate(z, k)
  PROVE  t = k % 4
<1>1. k % 4 \in 0 .. 3 /\ t % 4 = t
  OBVIOUS
<1>2. PICK x, y \in Int : z = << x, y >> /\ (x # 0 \/ y # 0)
  BY DEF Points
<1>3. Rotate(z, t) = CASE t = 0 -> << x, y >> [] t = 1 -> << -y, x >>
                       [] t = 2 -> << -x, -y >> [] t = 3 -> << y, -x >>
  BY <1>1, <1>2 DEF Rotate
<1> DEFINE m == k % 4
<1>4. Rotate(z, k) = CASE m = 0 -> << x, y >> [] m = 1 -> << -y, x >>
                       [] m = 2 -> << -x, -y >> [] m = 3 -> << y, -x >>
  BY <1>1, <1>2 DEF Rotate
<1>5. m \in 0 .. 3
  BY <1>1
<1> HIDE DEF m
<1>6. t = m
  BY <1>2, <1>3, <1>4, <1>5
<1> QED BY <1>6 DEF m

LEMMA RotateBy ==
  ASSUME NEW x \in Int, NEW y \in Int, NEW k \in Int, NEW m \in 0 .. 3, k % 4 = m
  PROVE  Rotate(<< x, y >>, k) = CASE m = 0 -> << x, y >> [] m = 1 -> << -y, x >>
                                   [] m = 2 -> << -x, -y >> [] m = 3 -> << y, -x >>
BY DEF Rotate

LEMMA TurnedBack ==
  ASSUME NEW z \in Points, NEW k \in Int
  PROVE  /\ Rotate(Rotate(z, k), -(k % 4)) = z
         /\ Rotate(Rotate(Rotate(z, k), 2), -(k % 4)) = << -z[1], -z[2] >>
<1>1. PICK x, y \in Int : z = << x, y >>
  BY DEF Points
<1>2. PICK m \in 0 .. 3 : m = k % 4
  OBVIOUS
<1>3. PICK s \in Int : s = -m
  OBVIOUS
<1>4. PICK n \in 0 .. 3 : n = s % 4 /\ n = IF m = 0 THEN 0 ELSE 4 - m
  BY <1>3
<1>5. 2 % 4 = 2 /\ -x \in Int /\ -y \in Int /\ -(-x) = x /\ -(-y) = y
  OBVIOUS
<1>6. CASE m = 0
  <2>1. Rotate(z, k) = << x, y >>
    BY <1>1, <1>2, <1>6, RotateBy
  <2>2. Rotate(<< x, y >>, 2) = << -x, -y >>
    BY <1>5, RotateBy
  <2>3. /\ Rotate(<< x, y >>, s) = << x, y >>
        /\ Rotate(<< -x, -y >>, s) = << -x, -y >>
    BY <1>4, <1>5, <1>6, RotateBy
  <2> QED BY <2>1, <2>2, <2>3, <1>1, <1>2, <1>3
<1>7. CASE m = 1
  <2>1. Rotate(z, k) = << -y, x >>
    BY <1>1, <1>2, <1>7, RotateBy
  <2>2. Rotate(<< -y, x >>, 2) = << y, -x >>
    BY <1>5, RotateBy
  <2>3. /\ Rotate(<< -y, x >>, s) = << x, y >>
        /\ Rotate(<< y, -x >>, s) = << -x, -y >>
    BY <1>4, <1>7, RotateBy
  <2> QED BY <2>1, <2>2, <2>3, <1>1, <1>2, <1>3
<1>8. CASE m = 2
  <2>1. Rotate(z, k) = << -x, -y >>
    BY <1>1, <1>2, <1>8, RotateBy
  <2>2. Rotate(<< -x, -y >>, 2) = << x, y >>
    BY <1>5, RotateBy
  <2>3. /\ Rotate(<< -x, -y >>, s) = << x, y >>
        /\ Rotate(<< x, y >>, s) = << -x, -y >>
    BY <1>4, <1>5, <1>8, RotateBy
  <2> QED BY <2>1, <2>2, <2>3, <1>1, <1>2, <1>3
<1>9. CASE m = 3
  <2>1. Rotate(z, k) = << y, -x >>
    BY <1>1, <1>2, <1>9, RotateBy
  <2>2. Rotate(<< y, -x >>, 2) = << -y, x >>
    BY <1>5, RotateBy
  <2>3. /\ Rotate(<< y, -x >>, s) = << x, y >>
        /\ Rotate(<< -y, x >>, s) = << -x, -y >>
    BY <1>4, <1>9, RotateBy
  <2> QED BY <2>1, <2>2, <2>3, <1>1, <1>2, <1>3
<1> QED BY <1>6, <1>7, <1>8, <1>9
LEMMA TableIs == ASSUME NEW f PROVE Table(f) = f
BY DEF Table

(* The training symbol, through a channel. *)
TrainingThrough(delay) == [bin \in Bins |-> Rotate(TrainingGrid[bin], delay * bin)]

(* The phase of the channel in a data bin, from the training symbol.       *)
LEMMA EstimateIs ==
  ASSUME NEW delay \in Int, NEW u \in 1 .. NData
  PROVE  ChannelEstimate(TrainingThrough(delay))[Data[u]]
            = (delay * Data[u]) % 4
<1> DEFINE training == TrainingThrough(delay)
<1>1. PICK b \in Bins : b = Data[u] /\ b \in Bins \ NullBins /\ b \in Int
  BY DataIs DEF Bins
<1>2. PICK k \in Int : k = delay * b
  BY <1>1
<1>3. PICK z \in Points : z = TrainingGrid[b] /\ z # << 0, 0 >>
  <2> DEFINE points == [e \in 1 .. NData |-> TrainingPoint(e)]
  <2>1. TrainingGrid[b] = points[u]
    <3>1. points \in [1 .. NData -> Points] /\ TrainingGrid = Scatter(PilotValues, points)
      BY TrainingAssumption DEF TrainingGrid, Points
    <3> HIDE DEF points
    <3>2. Scatter(PilotValues, points)[Data[u]] = points[u]
      <4>1. DOMAIN points = 1 .. NData
        BY <3>1
      <4>2. (CHOOSE e \in DOMAIN points : Data[e] = Data[u]) = u
        BY <4>1, DataBin
      <4> QED BY <4>2, DataBin DEF Scatter
    <3> QED BY <3>1, <3>2, <1>1
  <2>2. points[u] \in Points /\ points[u] # << 0, 0 >>
    BY TrainingAssumption DEF Points
  <2> QED BY <2>1, <2>2
<1>4. training[b] = Rotate(z, k)
  BY <1>1, <1>2, <1>3 DEF TrainingThrough
<1>5. ChannelEstimate(training)[b] = CHOOSE turns \in 0 .. 3 : Rotate(z, turns) = Rotate(z, k)
  <2>1. ChannelEstimate(training)
          = [bin \in Bins \ NullBins |->
                CHOOSE turns \in 0 .. 3 : Rotate(TrainingGrid[bin], turns) = training[bin]]
    BY TableIs DEF ChannelEstimate
  <2> QED BY <2>1, <1>1, <1>3, <1>4
<1>6. k % 4 \in 0 .. 3 /\ (k % 4) % 4 = k % 4
  OBVIOUS
<1>7. Rotate(z, k % 4) = Rotate(z, k)
  BY <1>6 DEF Rotate
<1>8. ChannelEstimate(training)[b] \in 0 .. 3
      /\ Rotate(z, ChannelEstimate(training)[b]) = Rotate(z, k)
  BY <1>5, <1>6, <1>7
<1>9. ChannelEstimate(training)[b] = k % 4
  BY <1>8, <1>3, TurnsFound
<1> QED BY <1>9, <1>1, <1>2

(* Equalizing undoes it, and leaves what was turned over turned over.      *)
LEMMA EqualizedIs ==
  ASSUME NEW delay \in Int, NEW u \in 1 .. NData, NEW grid, NEW z \in Points
  PROVE  LET estimate == ChannelEstimate(TrainingThrough(delay))
             turned == Rotate(z, delay * Data[u])
             point == ExtractData(Equalize(grid, estimate))[u]
         IN  /\ grid[Data[u]] = turned => point = z
             /\ grid[Data[u]] = Rotate(turned, 2) => point = << -z[1], -z[2] >>
<1> DEFINE estimate == ChannelEstimate(TrainingThrough(delay))
<1>1. PICK b \in Bins : b = Data[u] /\ b \notin NullBins /\ b \in Int
  BY DataIs DEF Bins
<1>2. PICK k \in Int : k = delay * b
  BY <1>1
<1>3. estimate[b] = k % 4
  BY <1>1, <1>2, EstimateIs
<1> HIDE DEF estimate
<1>4. ExtractData(Equalize(grid, estimate))[u] = Rotate(grid[b], -(k % 4))
  <2>1. Equalize(grid, estimate)
          = [bin \in Bins |-> IF bin \in NullBins THEN grid[bin] ELSE Rotate(grid[bin], -estimate[bin])]
    BY TableIs DEF Equalize
  <2>2. Equalize(grid, estimate)[b] = Rotate(grid[b], -(k % 4))
    BY <2>1, <1>1, <1>3
  <2> QED BY <2>2, <1>1 DEF ExtractData
<1>5. /\ Rotate(Rotate(z, k), -(k % 4)) = z
      /\ Rotate(Rotate(Rotate(z, k), 2), -(k % 4)) = << -z[1], -z[2] >>
  BY TurnedBack
<1> QED BY <1>1, <1>2, <1>4, <1>5 DEF estimate

-----------------------------------------------------------------------------
(* Blocks of one length, one after another.                                *)

(* The recursion of FlattenSeq has a solution: the first blocks, joined.   *)
JoinedIs(f, blocks, m) ==
  f = [i \in 1 .. m |-> IF i = 1 THEN blocks[i] ELSE f[i - 1] \o blocks[i]]

LEMMA JoinedExists ==
  ASSUME NEW m \in Nat \ {0}, NEW V, NEW blocks \in [1 .. m -> Seq(V)]
  PROVE  \E f \in [1 .. m -> Seq(V)] : JoinedIs(f, blocks, m)
<1> DEFINE S == 1 .. m
           next == [i \in S |-> IF i = 1 THEN i ELSE i - 1]
           combine == [pair \in S \X Seq(V) |-> pair[2] \o blocks[pair[1]]]
           rank == [i \in S |-> i]
<1>1. Recursion(S, Seq(V), {1}, blocks, next, combine, rank)
  <2>1. next \in [S -> S] /\ rank \in [S -> Nat]
    OBVIOUS
  <2>2. combine \in [S \X Seq(V) -> Seq(V)]
    <3> SUFFICES ASSUME NEW pair \in S \X Seq(V) PROVE pair[2] \o blocks[pair[1]] \in Seq(V)
      OBVIOUS
    <3>1. pair[2] \in Seq(V) /\ blocks[pair[1]] \in Seq(V)
      OBVIOUS
    <3> QED BY <3>1, ConcatProperties
  <2>3. \A i \in S \ {1} : rank[next[i]] < rank[i]
    OBVIOUS
  <2> QED BY <2>1, <2>2, <2>3 DEF Recursion
<1>2. PICK f \in [S -> Seq(V)] : Solves(f, S, {1}, blocks, next, combine)
  <2> HIDE DEF next, combine, rank
  <2> QED BY <1>1, RecursionExists
<1>3. ASSUME NEW i \in S PROVE f[i] = IF i = 1 THEN blocks[i] ELSE f[i - 1] \o blocks[i]
  <2>1. f[i] = IF i \in {1} THEN blocks[i] ELSE combine[<< i, f[next[i]] >>]
    BY <1>2 DEF Solves
  <2>2. CASE i # 1
    <3>1. next[i] = i - 1 /\ i - 1 \in S
      BY <2>2
    <3>2. << i, f[i - 1] >> \in S \X Seq(V)
      BY <3>1
    <3> QED BY <2>1, <2>2, <3>1, <3>2
  <2> QED BY <2>1, <2>2
<1>4. f = [i \in S |-> IF i = 1 THEN blocks[i] ELSE f[i - 1] \o blocks[i]]
  BY <1>3
<1> QED BY <1>4 DEF JoinedIs

(* Element j of the blocks joined is one of block 1 + (j - 1) div n.       *)
LEMMA FlattenIs ==
  ASSUME NEW m \in Nat \ {0}, NEW n \in Nat \ {0}, NEW blocks \in [1 .. m -> [1 .. n -> {0, 1}]]
  PROVE  /\ FlattenSeq(blocks) \in [1 .. m * n -> {0, 1}]
         /\ \A i \in 1 .. m, e \in 1 .. n : FlattenSeq(blocks)[(i - 1) * n + e] = blocks[i][e]
<1>1. blocks \in [1 .. m -> Seq({0, 1})] /\ \A i \in 1 .. m : Len(blocks[i]) = n
  <2>1. ASSUME NEW i \in 1 .. m PROVE blocks[i] \in Seq({0, 1}) /\ Len(blocks[i]) = n
    <3>1. blocks[i] \in [1 .. n -> {0, 1}]
      OBVIOUS
    <3> QED BY <3>1, SeqDef, LenProperties
  <2> QED BY <2>1
<1>2. Len(blocks) = m
  <2>1. blocks \in Seq([1 .. n -> {0, 1}]) /\ DOMAIN blocks = 1 .. m
    BY SeqDef
  <2> QED BY <2>1, LenProperties
<1> DEFINE f == CHOOSE g : JoinedIs(g, blocks, m)
<1>3. JoinedIs(f, blocks, m)
  BY <1>1, JoinedExists
<1>4. FlattenSeq(blocks) = f[m]
  BY <1>2 DEF FlattenSeq, JoinedIs
<1> HIDE DEF f
<1>5. ASSUME NEW i \in 1 .. m
      PROVE  f[i] = IF i = 1 THEN blocks[i] ELSE f[i - 1] \o blocks[i]
  BY <1>3 DEF JoinedIs
<1> DEFINE Flattened(i) == /\ f[i] \in [1 .. i * n -> {0, 1}]
                      /\ \A k \in 1 .. i, e \in 1 .. n : f[i][(k - 1) * n + e] = blocks[k][e]
           N == {i \in Nat : i + 1 <= m => Flattened(i + 1)}
<1>6. 0 \in N
  <2>1. f[1] = blocks[1]
    BY <1>5
  <2>2. Flattened(1)
    BY <2>1
  <2>3. 0 \in Nat /\ 0 + 1 = 1
    OBVIOUS
  <2> HIDE DEF Flattened
  <2> QED BY <2>2, <2>3
<1>7. ASSUME NEW i \in Nat, i \in N PROVE i + 1 \in N
  <2> SUFFICES ASSUME (i + 1) + 1 <= m PROVE Flattened((i + 1) + 1)
    OBVIOUS
  <2>1. PICK a, b \in 1 .. m : a = i + 1 /\ b = a + 1 /\ b - 1 = a /\ b # 1
    OBVIOUS
  <2>2. Flattened(a)
    BY <1>7, <2>1
  <2>3. f[b] = f[a] \o blocks[b]
    BY <1>5, <2>1
  <2>4. PICK p \in Nat : p = a * n /\ p + n = b * n
    BY <2>1
  <2>5. f[a] \in Seq({0, 1}) /\ Len(f[a]) = p
    <3>1. PICK s : s = f[a] /\ s \in [1 .. p -> {0, 1}]
      BY <2>2, <2>4
    <3>2. s \in Seq({0, 1}) /\ Len(s) = p
      BY <3>1, SeqDef, LenProperties
    <3> QED BY <3>1, <3>2
  <2>6. /\ f[b] \in Seq({0, 1}) /\ Len(f[b]) = p + n
        /\ \A j \in 1 .. p + n : f[b][j] = IF j <= p THEN f[a][j] ELSE blocks[b][j - p]
    <3>1. PICK s, t \in Seq({0, 1}) : /\ s = f[a] /\ Len(s) = p
                                 /\ t = blocks[b] /\ Len(t) = n
      BY <2>5, <1>1
    <3>2. /\ s \o t \in Seq({0, 1}) /\ Len(s \o t) = p + n
          /\ \A j \in 1 .. p + n : (s \o t)[j] = IF j <= p THEN s[j] ELSE t[j - p]
      <4>1. /\ s \o t \in Seq({0, 1})
            /\ Len(s \o t) = Len(s) + Len(t)
            /\ \A j \in 1 .. Len(s) + Len(t) :
                    (s \o t)[j] = IF j <= Len(s) THEN s[j] ELSE t[j - Len(s)]
        BY ConcatProperties
      <4>2. Len(s) = p /\ Len(t) = n
        BY <3>1
      <4> QED BY <4>1, <4>2, Zenon
    <3> QED BY <3>1, <3>2, <2>3
  <2>7. f[b] \in [1 .. b * n -> {0, 1}]
    BY <2>4, <2>6, LenProperties, ElementOfSeq
  <2>8. ASSUME NEW k \in 1 .. b, NEW e \in 1 .. n PROVE f[b][(k - 1) * n + e] = blocks[k][e]
    <3>1. CASE k = b
      <4>1. (k - 1) * n = p
        BY <3>1, <2>1, <2>4
      <4>2. p + e \in 1 .. p + n /\ ~(p + e <= p) /\ (p + e) - p = e
        OBVIOUS
      <4> QED BY <4>1, <4>2, <2>6, <3>1
    <3>2. CASE k # b
      <4>1. k \in 1 .. a
        BY <3>2, <2>1
      <4>2. PICK q \in Nat : q = (k - 1) * n /\ q + n <= p
        <5>1. PICK c \in Nat : a = k + c
          BY <4>1
        <5>2. a * n = (k - 1) * n + n + c * n /\ c * n \in Nat /\ (k - 1) * n \in Nat
          BY <5>1
        <5> QED BY <5>2, <2>4
      <4>3. q + e \in 1 .. p + n /\ q + e <= p
        <5>1. \A x, y \in Nat : x + n <= y => x + e \in 1 .. y + n /\ x + e <= y
          OBVIOUS
        <5> QED BY <5>1, <4>2
      <4> QED BY <4>1, <4>2, <4>3, <2>2, <2>6
    <3> QED BY <3>1, <3>2
  <2> QED BY <2>1, <2>7, <2>8
<1>8. Flattened(m)
  <2>1. \A i \in Nat : i \in N
    <3> HIDE DEF N
    <3> QED BY <1>6, <1>7, SetInduction
  <2>2. m - 1 \in Nat /\ (m - 1) + 1 = m
    OBVIOUS
  <2>3. (m - 1) + 1 <= m => Flattened((m - 1) + 1)
    BY <2>1, <2>2
  <2> HIDE DEF Flattened
  <2> QED BY <2>2, <2>3
<1> QED BY <1>4, <1>8
-----------------------------------------------------------------------------
(* The slots of the header bits.                                           *)

(* A quotient rounded is a nearest integer. *)
LEMMA HalfEvenIs ==
  ASSUME NEW a \in Nat
  PROVE  /\ HalfEven(a, 111) \in Nat
         /\ 222 * HalfEven(a, 111) - 111 <= 2 * a
         /\ 2 * a <= 222 * HalfEven(a, 111) + 111
<1>1. PICK q \in Nat, r \in 0 .. 110 : a = 111 * q + r /\ q = a \div 111 /\ r = a % 111
  OBVIOUS
<1>2. HalfEven(a, 111) \in {q, q + 1}
      /\ (HalfEven(a, 111) = q => 2 * r <= 111) /\ (HalfEven(a, 111) = q + 1 => 2 * r >= 111)
  BY <1>1 DEF HalfEven
<1> QED BY <1>1, <1>2

(* The size of the header: whole symbols, enough for its bits. *)
LEMMA HeaderSize ==
  /\ NumSymbolsHeader \in Nat \ {0} /\ HeaderSlots \in Nat /\ HeaderSlots >= 112
  /\ HeaderSlots = NumSymbolsHeader * NData /\ HeaderSlots \div NData = NumSymbolsHeader
<1>1. PICK D \in Nat \ {0} : D = NData
  BY ResourceGridAssumption
<1>2. PICK m \in Nat, r \in 0 .. D - 1 : m = (112 + D - 1) \div D /\ 112 + D - 1 = D * m + r
  OBVIOUS
<1>3. NumSymbolsHeader = m
  BY <1>1, <1>2 DEF NumSymbolsHeader, CeilDiv, HeaderBits
<1>4. PICK h \in Nat : h = D * m /\ h = m * D
  BY <1>2
<1>5. h >= 112
  BY <1>2, <1>4
<1>6. m # 0
  BY <1>4, <1>5
<1>7. h \div D = m
  BY <1>4
<1> QED BY <1>1, <1>3, <1>4, <1>5, <1>6, <1>7 DEF HeaderSlots

(* Every bit of the header has a slot of its own. *)
LEMMA SlotsDiffer ==
  /\ HeaderSlot \in [1 .. 112 -> 1 .. HeaderSlots]
  /\ \A i, j \in 1 .. 112 : HeaderSlot[i] = HeaderSlot[j] => i = j
<1>1. PICK end \in Nat : end = HeaderSlots - 1 /\ end >= 111
  BY HeaderSize
<1> DEFINE place(i) == HalfEven((i - 1) * end, 111)
<1>2. HeaderSlot = [i \in 1 .. 112 |-> 1 + place(i)]
  BY <1>1 DEF HeaderSlot, SpreadPlace, HeaderBits
<1>3. ASSUME NEW i \in 1 .. 112
      PROVE  \E a \in Nat : /\ a = (i - 1) * end /\ a <= 111 * end /\ place(i) \in 0 .. end
                            /\ 222 * place(i) - 111 <= 2 * a /\ 2 * a <= 222 * place(i) + 111
  <2>1. PICK a, c \in Nat : a = (i - 1) * end /\ c = (112 - i) * end /\ a + c = 111 * end
    <3>1. PICK j, k \in Nat : j = i - 1 /\ k = 112 - i /\ j + k = 111
      OBVIOUS
    <3>2. PICK a, c \in Nat : a = j * end /\ c = k * end
      OBVIOUS
    <3>3. a + c = (j + k) * end
      BY <3>2
    <3> QED BY <3>1, <3>2, <3>3
  <2>2. PICK h \in Nat : h = place(i) /\ 222 * h - 111 <= 2 * a /\ 2 * a <= 222 * h + 111
    BY <2>1, HalfEvenIs
  <2>3. h <= end /\ a <= 111 * end
    <3> HIDE DEF place
    <3> QED BY <2>1, <2>2
  <2> HIDE DEF place
  <2> QED BY <2>1, <2>2, <2>3
<1>4. ASSUME NEW i \in 1 .. 112, NEW j \in 1 .. 112, i < j, place(i) = place(j)
      PROVE  FALSE
  <2>1. PICK h \in Nat : h = place(i) /\ h = place(j)
    <3>1. place(i) \in 0 .. end
      BY <1>3
    <3> HIDE DEF place
    <3> QED BY <3>1, <1>4
  <2>2. PICK a \in Nat : a = (i - 1) * end /\ 222 * h - 111 <= 2 * a
    BY <2>1, <1>3
  <2>3. PICK b \in Nat : b = (j - 1) * end /\ 2 * b <= 222 * h + 111
    BY <2>1, <1>3
  <2>4. PICK c \in Nat : b = a + end + c
    <3>1. PICK k \in Nat : j = i + 1 + k
      BY <1>4
    <3>2. (j - 1) * end = (i - 1) * end + end + k * end /\ k * end \in Nat
      BY <3>1
    <3> QED BY <3>2, <2>2, <2>3
  <2> HIDE DEF place
  <2>5. end = 111
    BY <2>2, <2>3, <2>4, <1>1
  <2>6. place(i) = i - 1 /\ place(j) = j - 1
    <3>1. ASSUME NEW n \in Nat PROVE HalfEven(n * 111, 111) = n
      <4>1. (n * 111) \div 111 = n /\ (n * 111) % 111 = 0
        OBVIOUS
      <4> QED BY <4>1 DEF HalfEven
    <3>2. i - 1 \in Nat /\ j - 1 \in Nat
      OBVIOUS
    <3> QED BY <2>5, <3>1, <3>2 DEF place
  <2> QED BY <2>6, <1>4
<1>5. HeaderSlot \in [1 .. 112 -> 1 .. HeaderSlots]
  <2>1. ASSUME NEW i \in 1 .. 112 PROVE 1 + place(i) \in 1 .. HeaderSlots
    <3>1. place(i) \in 0 .. end
      BY <1>3
    <3> HIDE DEF place
    <3> QED BY <3>1, <1>1, HeaderSize
  <2> HIDE DEF place
  <2> QED BY <2>1, <1>2
<1>6. ASSUME NEW i \in 1 .. 112, NEW j \in 1 .. 112, HeaderSlot[i] = HeaderSlot[j]
      PROVE  i = j
  <2>1. place(i) \in Nat /\ place(j) \in Nat
    <3>1. place(i) \in 0 .. end /\ place(j) \in 0 .. end
      BY <1>3
    <3> HIDE DEF place
    <3> QED BY <3>1
  <2> HIDE DEF place
  <2>2. place(i) = place(j)
    BY <2>1, <1>2, <1>6
  <2> QED BY <2>2, <1>4
<1> QED BY <1>5, <1>6

(* The symbol and the subcarrier of a slot. *)
SymbolOf(slot) == 1 + (slot - 1) \div NData
CarrierOf(slot) == 1 + ((slot - 1) % NData)

LEMMA SlotIs ==
  ASSUME NEW slot \in 1 .. HeaderSlots
  PROVE  /\ SymbolOf(slot) \in 1 .. NumSymbolsHeader /\ CarrierOf(slot) \in 1 .. NData
         /\ (SymbolOf(slot) - 1) * NData + CarrierOf(slot) = slot
<1>1. PICK D \in Nat \ {0} : D = NData
  BY ResourceGridAssumption
<1>2. PICK m \in Nat \ {0} : m = NumSymbolsHeader /\ HeaderSlots = m * D
  BY <1>1, HeaderSize
<1>3. PICK q \in Nat, r \in 0 .. D - 1 :
        q = (slot - 1) \div D /\ r = (slot - 1) % D /\ slot - 1 = D * q + r
  <2>1. slot - 1 \in Nat
    BY HeaderSize
  <2> QED BY <2>1
<1>4. SymbolOf(slot) = 1 + q /\ CarrierOf(slot) = 1 + r
  BY <1>1, <1>3 DEF SymbolOf, CarrierOf
<1>5. PICK p \in Nat : p = D * q /\ p = q * D
  BY <1>3
<1>6. slot = p + r + 1 /\ slot <= m * D
  BY <1>2, <1>3, <1>5, HeaderSize
<1>7. q < m
  <2> SUFFICES ASSUME m <= q PROVE FALSE
    BY <1>2, <1>3
  <2>1. m * D <= q * D
    BY <1>2, <1>3
  <2> QED BY <2>1, <1>2, <1>5, <1>6
<1>8. 1 + q \in 1 .. m /\ 1 + r \in 1 .. D /\ (1 + q) - 1 = q
  BY <1>7
<1>9. q * D + (1 + r) = slot
  BY <1>5, <1>6
<1> QED BY <1>1, <1>2, <1>4, <1>8, <1>9

-----------------------------------------------------------------------------
(* The points of the header on the air.                                    *)

FlatHeader(content) ==
  LET used == {HeaderSlot[i] : i \in 1 .. HeaderBits}
  IN  [slot \in 1 .. HeaderSlots |->
          IF slot \in used THEN content[CHOOSE i \in 1 .. HeaderBits : HeaderSlot[i] = slot]
          ELSE Filler(Cardinality((1 .. slot) \ used))]

LEMMA FlatHeaderIs ==
  ASSUME NEW content, NEW i \in 1 .. 112
  PROVE  FlatHeader(content)[HeaderSlot[i]] = content[i]
<1>1. HeaderSlot[i] \in 1 .. HeaderSlots /\ HeaderSlot[i] \in {HeaderSlot[j] : j \in 1 .. HeaderBits}
  BY SlotsDiffer DEF HeaderBits
<1>2. (CHOOSE j \in 1 .. HeaderBits : HeaderSlot[j] = HeaderSlot[i]) = i
  BY SlotsDiffer DEF HeaderBits
<1> QED BY <1>1, <1>2 DEF FlatHeader

(* The grid of a symbol takes its points in order. *)
LEMMA GridsIs ==
  ASSUME NEW n \in Nat \ {0}, NEW points, Len(points) = n * NData
  PROVE  /\ DOMAIN Grids(points) = 1 .. n
         /\ \A s \in 1 .. n, u \in 1 .. NData :
                Grids(points)[s][Data[u]] = points[(s - 1) * NData + u]
<1>1. PICK D \in Nat \ {0} : D = NData
  BY ResourceGridAssumption
<1>2. PICK size \in Nat : size = n * D
  BY <1>1
<1>3. Len(points) = size
  BY <1>1, <1>2
<1>4. size \div D = n
  BY <1>2
<1>5. Grids(points) = [s \in 1 .. n |-> Scatter(PilotValues, SubSeq(points, (s - 1) * D + 1, s * D))]
  BY <1>1, <1>3, <1>4 DEF Grids
<1>6. ASSUME NEW s \in 1 .. n, NEW u \in 1 .. NData
      PROVE  Grids(points)[s][Data[u]] = points[(s - 1) * NData + u]
  <2>1. PICK p, q \in Nat : p = (s - 1) * D /\ q = s * D /\ q = p + D /\ q <= size
    <3>1. PICK c \in Nat : n = s + c
      OBVIOUS
    <3>2. n * D = s * D + c * D /\ s * D = (s - 1) * D + D
          /\ c * D \in Nat /\ s * D \in Nat /\ (s - 1) * D \in Nat
      BY <3>1
    <3> QED BY <3>2, <1>2
  <2>2. PICK data : data = SubSeq(points, p + 1, q)
    OBVIOUS
  <2>3. /\ DOMAIN data = 1 .. D
        /\ \A e \in 1 .. D : data[e] = points[p + e]
    <3> DEFINE W == {points[i] : i \in p + 1 .. q}
    <3>1. \A i \in p + 1 .. q : points[i] \in W
      OBVIOUS
    <3> HIDE DEF W
    <3>2. /\ data \in Seq(W) /\ Len(data) = IF p + 1 <= q THEN q - (p + 1) + 1 ELSE 0
          /\ \A e \in 1 .. q - (p + 1) + 1 : data[e] = points[(p + 1) + e - 1]
      BY <3>1, <2>2, SubSeqProperties
    <3>3. /\ p + 1 <= q /\ q - (p + 1) + 1 = D
          /\ \A e \in 1 .. D : (p + 1) + e - 1 = p + e
      BY <2>1
    <3>4. Len(data) = D /\ DOMAIN data = 1 .. D
      BY <3>2, <3>3, LenProperties
    <3> QED BY <3>2, <3>3, <3>4
  <2>4. Scatter(PilotValues, data)[Data[u]] = data[u]
    <3>1. (CHOOSE e \in DOMAIN data : Data[e] = Data[u]) = u
      BY <2>3, <1>1, DataBin
    <3> QED BY <3>1, DataBin DEF Scatter
  <2>5. Grids(points)[s] = Scatter(PilotValues, data)
    BY <1>5, <2>1, <2>2
  <2>6. data[u] = points[p + u]
    BY <2>3, <1>1
  <2> QED BY <2>4, <2>5, <2>6, <2>1, <1>1
<1> QED BY <1>5, <1>6

LEMMA HeaderPoints ==
  ASSUME NEW content
  PROVE  /\ DOMAIN BuildHeaderSymbols(content) = 1 .. NumSymbolsHeader
         /\ \A slot \in 1 .. HeaderSlots :
                BuildHeaderSymbols(content)[SymbolOf(slot)][Data[CarrierOf(slot)]]
                    = << Fine * (2 * FlatHeader(content)[slot] - 1), 0 >>
<1> DEFINE flat == FlatHeader(content)
           points == Modulate("bpsk", flat)
<1>1. PICK h \in Nat : h = HeaderSlots /\ h = NumSymbolsHeader * NData
  BY HeaderSize
<1>2. BuildHeaderSymbols(content) = Grids(points)
  BY DEF BuildHeaderSymbols, FlatHeader
<1>3. DOMAIN flat = 1 .. h /\ flat = [slot \in 1 .. h |-> flat[slot]]
  BY <1>1 DEF FlatHeader
<1> HIDE DEF flat
<1>4. PICK V : flat \in [1 .. h -> V]
  <2>1. flat \in [1 .. h -> {flat[slot] : slot \in 1 .. h}]
    BY <1>3
  <2> QED BY <2>1
<1>5. points = [s \in 1 .. h |-> << Fine * (2 * flat[s] - 1), 0 >>]
  <2>1. flat \in Seq(V) /\ Len(flat) = h
    BY <1>4, SeqDef, LenProperties
  <2>2. BitsPerSymbol["bpsk"] = 1
    BY DEF BitsPerSymbol
  <2>3. points = [s \in 1 .. h \div 1 |-> Point("bpsk", SubSeq(flat, (s - 1) * 1 + 1, s * 1))]
    BY <2>1, <2>2, TableIs DEF Modulate
  <2>4. h \div 1 = h /\ \A s \in 1 .. h : (s - 1) * 1 + 1 = s /\ s * 1 = s
    OBVIOUS
  <2>5. ASSUME NEW s \in 1 .. h PROVE SubSeq(flat, s, s)[1] = flat[s]
    BY <2>1, SubSeqProperties
  <2>6. \A s \in 1 .. h : Point("bpsk", SubSeq(flat, s, s)) = << Fine * (2 * flat[s] - 1), 0 >>
    BY <2>5 DEF Point
  <2> QED BY <2>3, <2>4, <2>6
<1> HIDE DEF points
<1>6. Len(points) = NumSymbolsHeader * NData
  <2>1. points \in Seq({<< Fine * (2 * flat[s] - 1), 0 >> : s \in 1 .. h})
    BY <1>5, SeqDef
  <2>2. DOMAIN points = 1 .. h
    BY <1>5
  <2>3. Len(points) = h
    BY <2>1, <2>2, LenProperties
  <2> QED BY <2>3, <1>1
<1>7. /\ DOMAIN Grids(points) = 1 .. NumSymbolsHeader
      /\ \A s \in 1 .. NumSymbolsHeader, u \in 1 .. NData :
                Grids(points)[s][Data[u]] = points[(s - 1) * NData + u]
  BY <1>6, HeaderSize, GridsIs
<1>8. ASSUME NEW slot \in 1 .. HeaderSlots
      PROVE  Grids(points)[SymbolOf(slot)][Data[CarrierOf(slot)]] = << Fine * (2 * flat[slot] - 1), 0 >>
  <2>1. Grids(points)[SymbolOf(slot)][Data[CarrierOf(slot)]] = points[slot]
    BY <1>7, SlotIs
  <2> QED BY <2>1, <1>1, <1>5
<1> QED BY <1>2, <1>7, <1>8 DEF flat
-----------------------------------------------------------------------------
(* The header at the receiver.                                             *)

Decided(point) == IF point[1] >= 0 THEN 1 ELSE 0

LEMMA SymbolBits ==
  ASSUME NEW grid
  PROVE  /\ Demodulate("bpsk", ExtractData(grid)) \in [1 .. NData -> {0, 1}]
         /\ \A u \in 1 .. NData :
                Demodulate("bpsk", ExtractData(grid))[u] = Decided(ExtractData(grid)[u])
<1>1. PICK D \in Nat \ {0} : D = NData
  BY ResourceGridAssumption
<1> DEFINE points == ExtractData(grid)
           blocks == [s \in 1 .. D |-> << Decided(points[s]) >>]
<1>2. Demodulate("bpsk", points) = FlattenSeq(blocks)
  <2>1. DOMAIN points = 1 .. D
    BY <1>1 DEF ExtractData
  <2> HIDE DEF points
  <2>2. [s \in DOMAIN points |-> HardDecision("bpsk", points[s])] = blocks
    BY <2>1 DEF HardDecision, Decided
  <2> QED BY <2>2 DEF Demodulate
<1> HIDE DEF points
<1>3. blocks \in [1 .. D -> [1 .. 1 -> {0, 1}]]
  BY DEF Decided
<1>4. /\ FlattenSeq(blocks) \in [1 .. D * 1 -> {0, 1}]
      /\ \A i \in 1 .. D, e \in 1 .. 1 : FlattenSeq(blocks)[(i - 1) * 1 + e] = blocks[i][e]
  <2> HIDE DEF blocks
  <2>1. 1 \in Nat \ {0}
    OBVIOUS
  <2> QED BY <2>1, <1>3, FlattenIs, Zenon
<1>5. D * 1 = D /\ \A u \in 1 .. D : (u - 1) * 1 + 1 = u
  OBVIOUS
<1>6. \A u \in 1 .. D : FlattenSeq(blocks)[u] = blocks[u][1]
  BY <1>4, <1>5
<1> QED BY <1>1, <1>2, <1>4, <1>5, <1>6 DEF points

(* A frame's header has the symbols a receiver looks for. *)
WholeHeader(header) == DOMAIN header = 1 .. NumSymbolsHeader

LEMMA HeaderBitsRead ==
  ASSUME NEW header, WholeHeader(header), NEW estimate
  PROVE  DecodeHeaderSymbols(header, estimate) =
            DecodeHeader([i \in 1 .. 112 |->
                Decided(ExtractData(Equalize(header[SymbolOf(HeaderSlot[i])], estimate))
                            [CarrierOf(HeaderSlot[i])])])
<1>1. PICK m, D \in Nat \ {0} : m = NumSymbolsHeader /\ D = NData
  BY HeaderSize, ResourceGridAssumption
<1> DEFINE PointsOf(s) == ExtractData(Equalize(header[s], estimate))
           blocks == [s \in 1 .. m |-> Demodulate("bpsk", PointsOf(s))]
           flat == FlattenSeq(blocks)
<1>2. DecodeHeaderSymbols(header, estimate) = DecodeHeader([i \in 1 .. 112 |-> flat[HeaderSlot[i]]])
  BY <1>1 DEF DecodeHeaderSymbols, WholeHeader, HeaderBits
<1>3. /\ blocks \in [1 .. m -> [1 .. D -> {0, 1}]]
      /\ \A s \in 1 .. m, u \in 1 .. D : blocks[s][u] = Decided(PointsOf(s)[u])
  BY <1>1, SymbolBits
<1> HIDE DEF blocks, PointsOf
<1>4. \A s \in 1 .. m, u \in 1 .. D : flat[(s - 1) * D + u] = Decided(PointsOf(s)[u])
  <2>1. \A s \in 1 .. m, u \in 1 .. D : flat[(s - 1) * D + u] = blocks[s][u]
    BY <1>3, FlattenIs, Zenon
  <2> QED BY <2>1, <1>3, Zenon
<1> HIDE DEF flat
<1>5. ASSUME NEW i \in 1 .. 112
      PROVE  flat[HeaderSlot[i]] = Decided(PointsOf(SymbolOf(HeaderSlot[i]))[CarrierOf(HeaderSlot[i])])
  <2>1. PICK slot \in 1 .. HeaderSlots : slot = HeaderSlot[i]
    BY SlotsDiffer
  <2>2. PICK s \in 1 .. m, u \in 1 .. D :
            s = SymbolOf(slot) /\ u = CarrierOf(slot) /\ (s - 1) * D + u = slot
    BY <1>1, SlotIs
  <2> QED BY <2>1, <2>2, <1>4
<1>6. [i \in 1 .. 112 |-> flat[HeaderSlot[i]]]
        = [i \in 1 .. 112 |-> Decided(PointsOf(SymbolOf(HeaderSlot[i]))[CarrierOf(HeaderSlot[i])])]
  BY <1>5
<1> QED BY <1>2, <1>6 DEF PointsOf

(* What the channel leaves of a header: each bit's point turned by its     *)
(* bin, and turned over where the bit is wrong.                            *)
HeaderPoint(content, i) == << Fine * (2 * content[i] - 1), 0 >>

Arriving(header, content, delay, wrong) ==
  /\ WholeHeader(header)
  /\ \A i \in 1 .. 112 :
        LET slot == HeaderSlot[i]
            turned == Rotate(HeaderPoint(content, i), delay * Data[CarrierOf(slot)])
        IN  header[SymbolOf(slot)][Data[CarrierOf(slot)]]
                = IF i \in wrong THEN Rotate(turned, 2) ELSE turned

(* The bits of the header arrive, but for the wrong ones. *)
LEMMA HeaderArrives ==
  ASSUME NEW content \in [1 .. 112 -> {0, 1}], NEW delay \in Int, NEW wrong,
         NEW header, Arriving(header, content, delay, wrong)
  PROVE  DecodeHeaderSymbols(header,
                ChannelEstimate(TrainingThrough(delay)))
            = DecodeHeader(Flip(content, wrong))
<1> DEFINE estimate == ChannelEstimate(TrainingThrough(delay))
           Read(i) == Decided(ExtractData(Equalize(header[SymbolOf(HeaderSlot[i])], estimate))
                                  [CarrierOf(HeaderSlot[i])])
<1>1. DecodeHeaderSymbols(header, estimate) = DecodeHeader([i \in 1 .. 112 |-> Read(i)])
  <2> HIDE DEF estimate
  <2> QED BY HeaderBitsRead DEF Arriving
<1>2. ASSUME NEW i \in 1 .. 112
      PROVE  Read(i) = IF i \in wrong THEN 1 - content[i] ELSE content[i]
  <2>1. PICK slot \in 1 .. HeaderSlots : slot = HeaderSlot[i]
    BY SlotsDiffer
  <2>2. PICK u \in 1 .. NData : u = CarrierOf(slot)
    BY SlotIs
  <2>3. PICK b \in {0, 1} : b = content[i]
    OBVIOUS
  <2>4. PICK x \in Int : /\ x = 2 * (2 * b - 1) /\ -x \in Int
                         /\ (x >= 0 <=> b = 1) /\ (-x >= 0 <=> b = 0)
    <3>1. CASE b = 0
      BY <3>1
    <3>2. CASE b = 1
      BY <3>2
    <3> QED BY <3>1, <3>2, <2>3
  <2>10. PICK z \in Points : z = << x, 0 >> /\ z = HeaderPoint(content, i)
    <3>1. HeaderPoint(content, i) = << Fine * (2 * b - 1), 0 >>
      BY <2>3 DEF HeaderPoint
    <3>2. Fine * (2 * b - 1) = x
      BY <2>3, <2>4 DEF Fine
    <3> QED BY <3>1, <3>2 DEF Points
  <2>5. PICK grid : grid = header[SymbolOf(slot)]
    OBVIOUS
  <2>6. grid[Data[u]] = IF i \in wrong THEN Rotate(Rotate(z, delay * Data[u]), 2)
                        ELSE Rotate(z, delay * Data[u])
    BY <2>1, <2>2, <2>10, <2>5 DEF Arriving
  <2>7. ExtractData(Equalize(grid, estimate))[u] = IF i \in wrong THEN << -z[1], -z[2] >> ELSE z
    <3> HIDE DEF estimate
    <3>1. /\ grid[Data[u]] = Rotate(z, delay * Data[u])
                => ExtractData(Equalize(grid, estimate))[u] = z
          /\ grid[Data[u]] = Rotate(Rotate(z, delay * Data[u]), 2)
                => ExtractData(Equalize(grid, estimate))[u] = << -z[1], -z[2] >>
      <4> USE DEF estimate
      <4>1. LET point == ExtractData(Equalize(grid, estimate))[u]
                turned == Rotate(z, delay * Data[u])
            IN  /\ grid[Data[u]] = turned => point = z
                /\ grid[Data[u]] = Rotate(turned, 2) => point = << -z[1], -z[2] >>
        BY EqualizedIs, ResourceGridAssumption, SMTT(30)
      <4> QED BY <4>1
    <3> QED BY <2>6, <3>1
  <2> HIDE DEF estimate
  <2>8. Read(i) = Decided(IF i \in wrong THEN << -z[1], -z[2] >> ELSE z)
    BY <2>1, <2>2, <2>5, <2>7
  <2>9. Decided(z) = b /\ Decided(<< -z[1], -z[2] >>) = 1 - b
    BY <2>3, <2>4, <2>10 DEF Decided
  <2> QED BY <2>3, <2>8, <2>9
<1> HIDE DEF Read
<1>3. [i \in 1 .. 112 |-> Read(i)] = Flip(content, wrong)
  <2>1. [i \in 1 .. 112 |-> Read(i)]
            = [i \in 1 .. 112 |-> IF i \in wrong THEN 1 - content[i] ELSE content[i]]
    BY <1>2
  <2> QED BY <2>1 DEF Flip
<1> QED BY <1>1, <1>3
-----------------------------------------------------------------------------
(* Three-bit fields.                                                       *)

Triples == SUBSET (0 .. 2)

Value(word) == (IF 0 \in word THEN 1 ELSE 0) + (IF 1 \in word THEN 2 ELSE 0)
                   + (IF 2 \in word THEN 4 ELSE 0)

AnyOf(word) == CHOOSE i \in word : TRUE

LEMMA ValueLess ==
  ASSUME NEW word \in Triples, word # {}
  PROVE  /\ AnyOf(word) \in 0 .. 2 /\ word \ {AnyOf(word)} \in Triples
         /\ 2 ^ AnyOf(word) \in Nat \ {0}
         /\ Value(word) = 2 ^ AnyOf(word) + Value(word \ {AnyOf(word)})
         /\ Value(word) \in Nat /\ Value(word \ {AnyOf(word)}) \in Nat
<1>1. PICK i \in 0 .. 2 : i = AnyOf(word) /\ i \in word
  BY DEF Triples, AnyOf
<1>2. 2 ^ 0 = 1 /\ 2 ^ 1 = 2 /\ 2 ^ 2 = 4
  BY SMT
<1>3. word \ {i} \in Triples
  BY DEF Triples
<1>4. \A j \in 0 .. 2 : j \in word \ {i} <=> j \in word /\ j # i
  OBVIOUS
<1>5. /\ 2 ^ i \in Nat \ {0} /\ Value(word) = 2 ^ i + Value(word \ {i})
      /\ Value(word) \in Nat /\ Value(word \ {i}) \in Nat
  <2>1. CASE i = 0
    BY <2>1, <1>1, <1>2, <1>4 DEF Value
  <2>2. CASE i = 1
    BY <2>2, <1>1, <1>2, <1>4 DEF Value
  <2>3. CASE i = 2
    BY <2>3, <1>1, <1>2, <1>4 DEF Value
  <2> QED BY <2>1, <2>2, <2>3
<1> QED BY <1>1, <1>3, <1>5

(* The sum that ToNat defines, by recursion over the parts of the word. *)
SumIs(f, word) ==
  f = [part \in SUBSET word |->
          IF part = {} THEN 0 ELSE 2 ^ AnyOf(part) + f[part \ {AnyOf(part)}]]

LEMMA SumExists ==
  ASSUME NEW word \in Triples
  PROVE  \E f : SumIs(f, word)
<1> DEFINE S == SUBSET word
           bottom == [part \in S |-> 0]
           next == [part \in S |-> part \ {AnyOf(part)}]
           combine == [pair \in S \X Nat |-> IF pair[1] = {} THEN 0 ELSE 2 ^ AnyOf(pair[1]) + pair[2]]
           rank == [part \in S |-> Value(part)]
<1>1. \A part \in S : part \in Triples
  BY DEF Triples
<1>2. next \in [S -> S] /\ bottom \in [S -> Nat]
  OBVIOUS
<1>3. rank \in [S -> Nat]
  BY DEF Value
<1>4. combine \in [S \X Nat -> Nat]
  <2> SUFFICES ASSUME NEW part \in S, NEW n \in Nat, part # {} PROVE 2 ^ AnyOf(part) + n \in Nat
    OBVIOUS
  <2>1. 2 ^ AnyOf(part) \in Nat
    BY <1>1, ValueLess
  <2> QED BY <2>1
<1>5. ASSUME NEW part \in S \ {{}} PROVE rank[next[part]] < rank[part]
  <2>1. next[part] = part \ {AnyOf(part)} /\ next[part] \in S
    BY <1>2
  <2>2. /\ 2 ^ AnyOf(part) \in Nat \ {0} /\ Value(part \ {AnyOf(part)}) \in Nat
        /\ Value(part) = 2 ^ AnyOf(part) + Value(part \ {AnyOf(part)})
    BY <1>1, ValueLess
  <2>3. Value(part \ {AnyOf(part)}) < Value(part)
    BY <2>2
  <2> QED BY <2>1, <2>3
<1>6. PICK f \in [S -> Nat] : Solves(f, S, {{}}, bottom, next, combine)
  <2>1. Recursion(S, Nat, {{}}, bottom, next, combine, rank)
    <3> HIDE DEF rank, combine, next, bottom
    <3> QED BY <1>2, <1>3, <1>4, <1>5 DEF Recursion
  <2> HIDE DEF rank, combine, next, bottom, S
  <2> QED BY <2>1, RecursionExists
<1>7. ASSUME NEW part \in S
      PROVE  f[part] = IF part = {} THEN 0 ELSE 2 ^ AnyOf(part) + f[part \ {AnyOf(part)}]
  <2>1. f[part] = IF part \in {{}} THEN bottom[part] ELSE combine[<< part, f[next[part]] >>]
    BY <1>6 DEF Solves
  <2>2. next[part] = part \ {AnyOf(part)} /\ f[next[part]] \in Nat
    BY <1>2
  <2> QED BY <2>1, <2>2
<1>8. SumIs(f, word)
  BY <1>7 DEF SumIs
<1> QED BY <1>8

LEMMA ToNatIs ==
  ASSUME NEW word \in Triples
  PROVE  ToNat(word) = Value(word)
<1> DEFINE f == CHOOSE g : SumIs(g, word)
<1>1. SumIs(f, word)
  BY SumExists
<1>2. ToNat(word) = f[word]
  BY DEF ToNat, MapThenSumSet, MapThenFoldSet, SumIs, AnyOf
<1> HIDE DEF f
<1> DEFINE N == {n \in Nat : \A part \in SUBSET word : Value(part) <= n => f[part] = Value(part)}
<1>3. ASSUME NEW part \in SUBSET word
      PROVE  /\ part \in Triples /\ Value(part) \in Nat
             /\ f[part] = IF part = {} THEN 0 ELSE 2 ^ AnyOf(part) + f[part \ {AnyOf(part)}]
             /\ part = {} => Value(part) = 0
             /\ part # {} =>
                    /\ part \ {AnyOf(part)} \in SUBSET word
                    /\ 2 ^ AnyOf(part) \in Nat \ {0} /\ Value(part \ {AnyOf(part)}) \in Nat
                    /\ Value(part) = 2 ^ AnyOf(part) + Value(part \ {AnyOf(part)})
  <2>1. part \in Triples
    BY DEF Triples
  <2>2. f[part] = IF part = {} THEN 0 ELSE 2 ^ AnyOf(part) + f[part \ {AnyOf(part)}]
    BY <1>1 DEF SumIs
  <2>3. Value(part) \in Nat /\ (part = {} => Value(part) = 0)
    BY DEF Value
  <2> QED BY <2>1, <2>2, <2>3, ValueLess
<1>4. 0 \in N
  <2> SUFFICES ASSUME NEW part \in SUBSET word, Value(part) <= 0 PROVE f[part] = Value(part)
    OBVIOUS
  <2>1. part = {}
    <3> SUFFICES ASSUME part # {} PROVE FALSE
      OBVIOUS
    <3>1. PICK a \in Nat \ {0}, b \in Nat : Value(part) = a + b
      BY <1>3
    <3> QED BY <3>1
  <2> QED BY <2>1, <1>3
<1>5. ASSUME NEW n \in Nat, n \in N PROVE n + 1 \in N
  <2> SUFFICES ASSUME NEW part \in SUBSET word, Value(part) <= n + 1 PROVE f[part] = Value(part)
    OBVIOUS
  <2>1. CASE part = {}
    BY <2>1, <1>3
  <2>2. CASE part # {}
    <3>1. PICK a \in Nat \ {0}, b \in Nat, rest \in SUBSET word :
            /\ rest = part \ {AnyOf(part)} /\ a = 2 ^ AnyOf(part) /\ b = Value(rest)
            /\ Value(part) = a + b /\ f[part] = a + f[rest]
      <4> DEFINE rest == part \ {AnyOf(part)}
      <4>1. /\ rest \in SUBSET word /\ 2 ^ AnyOf(part) \in Nat \ {0} /\ Value(rest) \in Nat
            /\ Value(part) = 2 ^ AnyOf(part) + Value(rest)
            /\ f[part] = 2 ^ AnyOf(part) + f[rest]
        BY <2>2, <1>3
      <4> HIDE DEF rest
      <4>2. PICK a, b \in Nat : a = 2 ^ AnyOf(part) /\ b = Value(rest) /\ a # 0
        BY <4>1
      <4>3. Value(part) = a + b /\ f[part] = a + f[rest]
        BY <4>1, <4>2
      <4> QED BY <4>1, <4>2, <4>3 DEF rest
    <3>2. b <= n
      BY <3>1
    <3>3. f[rest] = b
      BY <3>1, <3>2, <1>5
    <3> QED BY <3>1, <3>3
  <2> QED BY <2>1, <2>2
<1>6. \A n \in Nat : n \in N
  <2> HIDE DEF N
  <2> QED BY <1>4, <1>5, SetInduction
<1>7. Value(word) \in Nat /\ word \in SUBSET word
  BY <1>3
<1>8. Value(word) \in N
  BY <1>6, <1>7
<1>9. f[word] = Value(word)
  BY <1>7, <1>8
<1> QED BY <1>2, <1>9

LEMMA FieldValue ==
  ASSUME NEW c \in 0 .. 7
  PROVE  FromNat(c, 3) \in Triples /\ Value(FromNat(c, 3)) = c
<1>1. PICK b0, b1, b2 \in {0, 1} : c = b0 + 2 * b1 + 4 * b2
  OBVIOUS
<1>2. 2 ^ 0 = 1 /\ 2 ^ 1 = 2 /\ 2 ^ 2 = 4
  BY SMT
<1>3. (c \div 1) % 2 = b0 /\ (c \div 2) % 2 = b1 /\ (c \div 4) % 2 = b2
  BY <1>1
<1>4. FromNat(c, 3) = {i \in 0 .. 2 : (c \div 2 ^ i) % 2 = 1}
  BY DEF FromNat
<1>5. /\ 0 \in FromNat(c, 3) <=> b0 = 1
      /\ 1 \in FromNat(c, 3) <=> b1 = 1
      /\ 2 \in FromNat(c, 3) <=> b2 = 1
  <2>1. \A i \in 0 .. 2 : i \in FromNat(c, 3) <=> (c \div 2 ^ i) % 2 = 1
    BY <1>4
  <2>2. (c \div 2 ^ 0) % 2 = b0 /\ (c \div 2 ^ 1) % 2 = b1 /\ (c \div 2 ^ 2) % 2 = b2
    BY <1>2, <1>3
  <2> QED BY <2>1, <2>2
<1>6. FromNat(c, 3) \in Triples
  BY <1>4 DEF Triples
<1> QED BY <1>1, <1>5, <1>6 DEF Value
-----------------------------------------------------------------------------
(* The key's name in the header.                                           *)

BitsLong(n) == [1 .. n -> {0, 1}]

Joins(s, t, a, b) ==
  /\ s \o t \in BitsLong(a + b)
  /\ \A p \in 1 .. a : (s \o t)[p] = s[p]
  /\ \A p \in 1 .. b : (s \o t)[a + p] = t[p]

LEMMA BitsJoined ==
  ASSUME NEW a \in Nat, NEW b \in Nat, NEW s \in BitsLong(a), NEW t \in BitsLong(b)
  PROVE  Joins(s, t, a, b)
<1>1. s \in Seq({0, 1}) /\ t \in Seq({0, 1}) /\ Len(s) = a /\ Len(t) = b
  BY SeqDef, LenProperties DEF BitsLong
<1>2. /\ s \o t \in Seq({0, 1})
      /\ Len(s \o t) = Len(s) + Len(t)
      /\ \A i \in 1 .. Len(s) + Len(t) :
            (s \o t)[i] = IF i <= Len(s) THEN s[i] ELSE t[i - Len(s)]
  BY <1>1, ConcatProperties
<1>3. PICK joined : joined = s \o t
  OBVIOUS
<1>4. joined \in [1 .. a + b -> {0, 1}]
  BY <1>1, <1>2, <1>3, LenProperties
<1>5. \A i \in 1 .. a + b : joined[i] = IF i <= a THEN s[i] ELSE t[i - a]
  BY <1>1, <1>2, <1>3
<1>6. \A p \in 1 .. a : joined[p] = s[p]
  <2>1. \A p \in 1 .. a : p \in 1 .. a + b /\ p <= a
    OBVIOUS
  <2> QED BY <2>1, <1>5
<1>7. \A p \in 1 .. b : joined[a + p] = t[p]
  <2>1. \A p \in 1 .. b : a + p \in 1 .. a + b /\ ~(a + p <= a) /\ (a + p) - a = p
    OBVIOUS
  <2> QED BY <2>1, <1>5
<1> QED BY <1>3, <1>4, <1>6, <1>7 DEF BitsLong, Joins

LEMMA CodeBitsAre ==
  ASSUME NEW codes, NEW n \in Nat
  PROVE  CodeBits(codes, n) \in [1 .. n -> {0, 1}]
BY DEF CodeBits, BitsOf

(* The one code of each key. *)
LEMMA CrcCodeIs ==
  ASSUME NEW crc \in DOMAIN CrcCodes
  PROVE  \E c \in 1 .. 6 : CrcCodes[crc] = {c} /\ Min(CrcCodes[crc]) = c
<1>1. PICK c \in 1 .. 6 : CrcCodes[crc] = {c}
  BY DEF CrcCodes
<1>2. Min({c}) = c
  BY DEF Min
<1> QED BY <1>1, <1>2

(* A header is scrambled bits, with the key's code in their fifth byte.    *)
LEMMA HeaderIs ==
  ASSUME NEW fields, EncodeHeader(fields).ok
  PROVE  \E plain \in [1 .. 112 -> {0, 1}] :
            /\ EncodeHeader(fields).val = Scramble(plain)
            /\ \A p \in 1 .. 3 : plain[32 + p] = CodeBits(CrcCodes[fields.crc], 3)[p]
<1> DEFINE v == CodeBits({ProtocolVersion}, 8)
           l == CodeBits({fields.len}, 16)
           m == CodeBits(ModCodes[fields.mod], 8)
           c == CodeBits(CrcCodes[fields.crc], 3)
           f0 == CodeBits(FecCodes[fields.fec0], 5)
           f1 == CodeBits(FecCodes[fields.fec1], 8)
           u == NoUserData
<1>1. EncodeHeader(fields).val = Scramble(v \o l \o m \o c \o f0 \o f1 \o u)
  BY DEF EncodeHeader, Raises, Returns
<1>2. /\ v \in BitsLong(8) /\ l \in BitsLong(16) /\ m \in BitsLong(8)
      /\ c \in BitsLong(3) /\ f0 \in BitsLong(5) /\ f1 \in BitsLong(8)
      /\ u \in BitsLong(64)
  BY CodeBitsAre DEF NoUserData, Zeros, BitsLong
<1> HIDE DEF v, l, m, c, f0, f1, u
<1>3. PICK s2, s3, s4, s5, s6, s7 :
        /\ s2 = v \o l /\ s3 = s2 \o m /\ s4 = s3 \o c
        /\ s5 = s4 \o f0 /\ s6 = s5 \o f1 /\ s7 = s6 \o u
  OBVIOUS
<1>4. /\ s2 \in BitsLong(24)
      /\ \A p \in 1 .. 8 : s2[p] = v[p]
      /\ \A p \in 1 .. 16 : s2[8 + p] = l[p]
  <2>1. 8 \in Nat /\ 16 \in Nat /\ 24 = 8 + 16
    OBVIOUS
  <2>2. v \in BitsLong(8) /\ l \in BitsLong(16)
    BY <1>2, <1>3
  <2>3. Joins(v, l, 8, 16)
    BY <2>1, <2>2, BitsJoined
  <2> QED BY <2>1, <2>3, <1>3 DEF Joins
<1>5. /\ s3 \in BitsLong(32)
      /\ \A p \in 1 .. 24 : s3[p] = s2[p]
      /\ \A p \in 1 .. 8 : s3[24 + p] = m[p]
  <2>1. 24 \in Nat /\ 8 \in Nat /\ 32 = 24 + 8
    OBVIOUS
  <2>2. s2 \in BitsLong(24) /\ m \in BitsLong(8)
    BY <1>2, <1>4
  <2>3. Joins(s2, m, 24, 8)
    BY <2>1, <2>2, BitsJoined
  <2> QED BY <2>1, <2>3, <1>3 DEF Joins
<1>6. /\ s4 \in BitsLong(35)
      /\ \A p \in 1 .. 32 : s4[p] = s3[p]
      /\ \A p \in 1 .. 3 : s4[32 + p] = c[p]
  <2>1. 32 \in Nat /\ 3 \in Nat /\ 35 = 32 + 3
    OBVIOUS
  <2>2. s3 \in BitsLong(32) /\ c \in BitsLong(3)
    BY <1>2, <1>5
  <2>3. Joins(s3, c, 32, 3)
    BY <2>1, <2>2, BitsJoined
  <2> QED BY <2>1, <2>3, <1>3 DEF Joins
<1>7. /\ s5 \in BitsLong(40)
      /\ \A p \in 1 .. 35 : s5[p] = s4[p]
      /\ \A p \in 1 .. 5 : s5[35 + p] = f0[p]
  <2>1. 35 \in Nat /\ 5 \in Nat /\ 40 = 35 + 5
    OBVIOUS
  <2>2. s4 \in BitsLong(35) /\ f0 \in BitsLong(5)
    BY <1>2, <1>6
  <2>3. Joins(s4, f0, 35, 5)
    BY <2>1, <2>2, BitsJoined
  <2> QED BY <2>1, <2>3, <1>3 DEF Joins
<1>8. /\ s6 \in BitsLong(48)
      /\ \A p \in 1 .. 40 : s6[p] = s5[p]
      /\ \A p \in 1 .. 8 : s6[40 + p] = f1[p]
  <2>1. 40 \in Nat /\ 8 \in Nat /\ 48 = 40 + 8
    OBVIOUS
  <2>2. s5 \in BitsLong(40) /\ f1 \in BitsLong(8)
    BY <1>2, <1>7
  <2>3. Joins(s5, f1, 40, 8)
    BY <2>1, <2>2, BitsJoined
  <2> QED BY <2>1, <2>3, <1>3 DEF Joins
<1>9. /\ s7 \in BitsLong(112)
      /\ \A p \in 1 .. 48 : s7[p] = s6[p]
      /\ \A p \in 1 .. 64 : s7[48 + p] = u[p]
  <2>1. 48 \in Nat /\ 64 \in Nat /\ 112 = 48 + 64
    OBVIOUS
  <2>2. s6 \in BitsLong(48) /\ u \in BitsLong(64)
    BY <1>2, <1>8
  <2>3. Joins(s6, u, 48, 64)
    BY <2>1, <2>2, BitsJoined
  <2> QED BY <2>1, <2>3, <1>3 DEF Joins
<1>10. \A p \in 1 .. 3 : s7[32 + p] = c[p]
  <2>1. \A p \in 1 .. 3 : 32 + p \in 1 .. 35 /\ 32 + p \in 1 .. 40 /\ 32 + p \in 1 .. 48
    OBVIOUS
  <2> QED BY <2>1, <1>6, <1>7, <1>8, <1>9
<1>11. EncodeHeader(fields).val = Scramble(s7)
  BY <1>1, <1>3
<1>12. s7 \in [1 .. 112 -> {0, 1}]
  BY <1>9 DEF BitsLong
<1> QED BY <1>10, <1>11, <1>12 DEF c

(* What a receiver reads there of a header of which some bits are wrong.   *)
ReadCode(crc, wrong) ==
  {i \in 0 .. 2 : (i \in FromNat(Min(CrcCodes[crc]), 3)) # (35 - i \in wrong)}

LEMMA CodeRead ==
  ASSUME NEW fields, EncodeHeader(fields).ok, NEW wrong,
         NEW content, content = Scramble(Flip(EncodeHeader(fields).val, wrong))
  PROVE  WordOf(SubSeq(content, 33, 35)) = ReadCode(fields.crc, wrong)
<1>1. PICK plain \in [1 .. 112 -> {0, 1}] :
        /\ EncodeHeader(fields).val = Scramble(plain)
        /\ \A p \in 1 .. 3 : plain[32 + p] = CodeBits(CrcCodes[fields.crc], 3)[p]
  BY HeaderIs
<1> DEFINE sent1 == Flip(plain, ScrambleMask)
           came == Flip(sent1, wrong)
<1>2. content = Flip(came, ScrambleMask)
  BY <1>1 DEF Scramble
<1>3. /\ sent1 = [p \in 1 .. 112 |-> IF p \in ScrambleMask THEN 1 - plain[p] ELSE plain[p]]
      /\ sent1 \in [1 .. 112 -> {0, 1}]
  BY DEF Flip
<1> HIDE DEF sent1
<1>4. /\ came = [p \in 1 .. 112 |-> IF p \in wrong THEN 1 - sent1[p] ELSE sent1[p]]
      /\ came \in [1 .. 112 -> {0, 1}]
  BY <1>3 DEF Flip
<1> HIDE DEF came
<1>5. /\ content = [p \in 1 .. 112 |-> IF p \in ScrambleMask THEN 1 - came[p] ELSE came[p]]
      /\ content \in [1 .. 112 -> {0, 1}]
  <2>1. DOMAIN came = 1 .. 112
    BY <1>4
  <2>2. content = [p \in 1 .. 112 |-> IF p \in ScrambleMask THEN 1 - came[p] ELSE came[p]]
    BY <2>1, <1>2 DEF Flip
  <2>3. \A p \in 1 .. 112 : (IF p \in ScrambleMask THEN 1 - came[p] ELSE came[p]) \in {0, 1}
    BY <1>4
  <2> QED BY <2>2, <2>3
<1>6. ASSUME NEW p \in 1 .. 112
      PROVE  content[p] = 1 <=> ((plain[p] = 1) # (p \in wrong))
  <2>1. plain[p] \in {0, 1} /\ sent1[p] \in {0, 1} /\ came[p] \in {0, 1}
    BY <1>3, <1>4
  <2>2. /\ content[p] = IF p \in ScrambleMask THEN 1 - came[p] ELSE came[p]
        /\ came[p] = IF p \in wrong THEN 1 - sent1[p] ELSE sent1[p]
        /\ sent1[p] = IF p \in ScrambleMask THEN 1 - plain[p] ELSE plain[p]
    BY <1>3, <1>4, <1>5
  <2>3. CASE p \in ScrambleMask
    BY <2>1, <2>2, <2>3
  <2>4. CASE p \notin ScrambleMask
    BY <2>1, <2>2, <2>4
  <2> QED BY <2>3, <2>4
<1> DEFINE word == FromNat(Min(CrcCodes[fields.crc]), 3)
           field == SubSeq(content, 33, 35)
<1>7. ASSUME NEW p \in 1 .. 3
      PROVE  field[p] = 1 <=> ((3 - p \in word) # (32 + p \in wrong))
  <2>1. field[p] = content[32 + p] /\ 32 + p \in 1 .. 112
    <3>1. content \in Seq({0, 1}) /\ Len(content) = 112
      BY <1>5, SeqDef, LenProperties
    <3>2. \A i \in 33 .. 35 : content[i] \in {0, 1}
      BY <1>5
    <3>3. field[p] = content[33 + p - 1] /\ 33 + p - 1 = 32 + p
      BY <3>2, SubSeqProperties
    <3> QED BY <3>3
  <2>2. plain[32 + p] = CodeBits(CrcCodes[fields.crc], 3)[p]
    BY <1>1
  <2>3. CodeBits(CrcCodes[fields.crc], 3)[p] = IF 3 - p \in word THEN 1 ELSE 0
    BY DEF CodeBits, BitsOf
  <2> HIDE DEF word, field
  <2>4. plain[32 + p] = 1 <=> 3 - p \in word
    BY <2>2, <2>3
  <2> QED BY <2>1, <2>4, <1>6
<1>8. DOMAIN field = 1 .. 3 /\ Len(field) = 3
  <2>1. \A i \in 33 .. 35 : content[i] \in {0, 1}
    BY <1>5
  <2>2. field \in Seq({0, 1}) /\ Len(field) = 35 - 33 + 1
    BY <2>1, SubSeqProperties
  <2> QED BY <2>2, LenProperties
<1> HIDE DEF field, word
<1>9. WordOf(field) = {3 - p : p \in {p \in 1 .. 3 : field[p] = 1}}
  BY <1>8 DEF WordOf
<1>10. ASSUME NEW i \in 0 .. 2
       PROVE  i \in WordOf(field) <=> ((i \in word) # (35 - i \in wrong))
  <2>1. PICK p \in 1 .. 3 : p = 3 - i /\ i = 3 - p /\ 35 - i = 32 + p
    OBVIOUS
  <2>2. i \in WordOf(field) <=> field[p] = 1
    BY <2>1, <1>9
  <2> QED BY <2>1, <2>2, <1>7
<1>11. WordOf(field) \subseteq 0 .. 2
  BY <1>9
<1> QED BY <1>10, <1>11 DEF ReadCode, word, field

(* A name that no one wrong bit makes "none" is read as one with a key.    *)
LEMMA NameRead ==
  ASSUME NEW fields, fields.crc \in DOMAIN CrcCodes, EncodeHeader(fields).ok,
         NEW wrong, wrong = {} \/ (\E i : wrong = {i}),
         DecodeHeader(Flip(EncodeHeader(fields).val, wrong)).ok,
         DecodeHeader(Flip(EncodeHeader(fields).val, wrong)).val.crc = "none"
  PROVE  fields.crc \in {"none"} \cup (IF wrong = {} THEN {} ELSE NearNone)
<1> DEFINE bits == Flip(EncodeHeader(fields).val, wrong)
           content == Scramble(bits)
           code == ToNat(WordOf(SubSeq(content, 33, 35)))
           read == ReadCode(fields.crc, wrong)
<1>1. /\ DecodeHeader(bits).val.crc = (CHOOSE name \in Named(CrcCodes, code) : TRUE)
      /\ Named(CrcCodes, code) # {}
  <2> DEFINE Field(from, to) == ToNat(WordOf(SubSeq(content, from, to)))
             n1 == Named(ModCodes, Field(25, 32))
             n2 == Named(CrcCodes, Field(33, 35))
             n3 == Named(FecCodes, Field(36, 40))
             n4 == Named(FecCodes, Field(44, 48))
             names == << n1, n2, n3, n4 >>
             header == [len |-> Field(9, 24), mod |-> CHOOSE name \in names[1] : TRUE,
                        crc |-> CHOOSE name \in names[2] : TRUE,
                        fec0 |-> CHOOSE name \in names[3] : TRUE,
                        fec1 |-> CHOOSE name \in names[4] : TRUE]
  <2>1. DecodeHeader(bits) = IF {} \in ToSet(names) THEN Raises ELSE Returns(header)
    <3> HIDE DEF bits
    <3> QED BY DEF DecodeHeader
  <2>2. DecodeHeader(bits).ok
    OBVIOUS
  <2> HIDE DEF n1, n2, n3, n4, Field, bits, content
  <2>3. {} \notin ToSet(names) /\ DecodeHeader(bits) = Returns(header)
    <3> HIDE DEF names, header
    <3> QED BY <2>1, <2>2 DEF Raises
  <2>4. n2 \in ToSet(names)
    <3>1. n2 = names[2] /\ 2 \in DOMAIN names
      OBVIOUS
    <3> HIDE DEF names
    <3> QED BY <3>1 DEF ToSet
  <2>5. n2 # {}
    <3> HIDE DEF names
    <3> QED BY <2>3, <2>4
  <2>6. DecodeHeader(bits).val.crc = (CHOOSE name \in n2 : TRUE)
    BY <2>3 DEF Returns
  <2> QED BY <2>5, <2>6 DEF n2, Field
<1>2. "none" \in Named(CrcCodes, code)
  <2> HIDE DEF code
  <2> QED BY <1>1
<1>3. code = 1
  <2> HIDE DEF code
  <2> QED BY <1>2 DEF Named, CrcCodes
<1>4. code = Value(read) /\ read \in Triples
  <2>1. WordOf(SubSeq(content, 33, 35)) = read
    BY CodeRead
  <2>2. read \in Triples
    BY DEF ReadCode, Triples
  <2> HIDE DEF read, content
  <2> QED BY <2>1, <2>2, ToNatIs
<1>5. PICK c \in 1 .. 6 : CrcCodes[fields.crc] = {c} /\ Min(CrcCodes[fields.crc]) = c
  BY CrcCodeIs
<1>6. PICK word \in Triples : word = FromNat(c, 3) /\ Value(word) = c
  BY FieldValue
<1>7. \A i \in 0 .. 2 : i \in read <=> ((i \in word) # (35 - i \in wrong))
  BY <1>5, <1>6 DEF ReadCode
<1> HIDE DEF read
<1>8. read = {0}
  <2>1. 0 \in read /\ 1 \notin read /\ 2 \notin read
    <3>1. Value(read) = 1
      BY <1>3, <1>4
    <3> QED BY <3>1 DEF Value
  <2> QED BY <2>1, <1>4 DEF Triples
<1>9. CASE wrong = {} \/ wrong \cap 33 .. 35 = {}
  <2>1. \A i \in 0 .. 2 : i \in word <=> i = 0
    BY <1>7, <1>8, <1>9
  <2>2. c = 1
    BY <2>1, <1>6 DEF Value
  <2>3. fields.crc = "none"
    BY <2>2, <1>5 DEF CrcCodes
  <2> QED BY <2>3
<1>10. CASE wrong # {} /\ wrong \cap 33 .. 35 # {}
  <2>1. PICK i \in 33 .. 35 : wrong = {i}
    BY <1>10
  <2>2. PICK j \in 0 .. 2 : j = 35 - i
    OBVIOUS
  <2>3. \A k \in 0 .. 2 : 35 - k = i <=> k = j
    BY <2>2
  <2>4. \A k \in 0 .. 2 : (k = 0) <=> ((k \in word) # (k = j))
    BY <1>7, <1>8, <2>1, <2>3
  <2>5. Xor(word, {0}) = {j}
    BY <2>4, <1>6 DEF Xor, Triples
  <2>6. Cardinality(Xor(word, {0})) = 1
    BY <2>5, FS_Singleton
  <2>7. FromNat(1, 3) = {0}
    BY FieldValue DEF Value, Triples
  <2>8. 1 \in CrcCodes["none"] /\ c \in CrcCodes[fields.crc]
    BY <1>5 DEF CrcCodes
  <2>9. fields.crc \in NearNone
    BY <2>6, <2>7, <2>8, <1>6 DEF NearNone
  <2> QED BY <2>9, <1>10
<1> QED BY <1>9, <1>10
-----------------------------------------------------------------------------
(* From end to end.                                                        *)

LEMMA HeaderDomain ==
  ASSUME NEW content, NEW s \in DOMAIN BuildHeaderSymbols(content)
  PROVE  DOMAIN (BuildHeaderSymbols(content)[s]) = Bins
BY DEF BuildHeaderSymbols, Grids, Scatter

(* Whole symbols, each a grid. *)
OfGrids(header) == \A s \in DOMAIN header : DOMAIN (header[s]) = Bins

(* A frame goes on the air with every bit of its header as it was sent.    *)
LEMMA SentArrives ==
  ASSUME NEW content, NEW delay, NEW header,
         header = [s \in DOMAIN BuildHeaderSymbols(content) |->
                    [bin \in Bins |-> Rotate(BuildHeaderSymbols(content)[s][bin], delay * bin)]]
  PROVE  OfGrids(header) /\ Arriving(header, content, delay, {})
<1>1. OfGrids(header)
  BY DEF OfGrids
<1>2. WholeHeader(header)
  BY HeaderPoints DEF WholeHeader
<1>3. ASSUME NEW i \in 1 .. 112
      PROVE  header[SymbolOf(HeaderSlot[i])][Data[CarrierOf(HeaderSlot[i])]]
                = Rotate(HeaderPoint(content, i), delay * Data[CarrierOf(HeaderSlot[i])])
  <2>1. PICK slot \in 1 .. HeaderSlots : slot = HeaderSlot[i]
    BY SlotsDiffer
  <2>2. PICK s \in 1 .. NumSymbolsHeader : s = SymbolOf(slot)
    BY SlotIs
  <2>3. PICK bin \in Bins : bin = Data[CarrierOf(slot)]
    BY SlotIs, DataBin
  <2>4. s \in DOMAIN BuildHeaderSymbols(content)
    BY HeaderPoints
  <2>5. BuildHeaderSymbols(content)[s][bin] = << Fine * (2 * FlatHeader(content)[slot] - 1), 0 >>
    BY <2>2, <2>3, HeaderPoints
  <2>6. FlatHeader(content)[slot] = content[i]
    BY <2>1, FlatHeaderIs
  <2>7. header[s][bin] = Rotate(HeaderPoint(content, i), delay * bin)
    BY <2>4, <2>5, <2>6 DEF HeaderPoint
  <2> QED BY <2>1, <2>2, <2>3, <2>7
<1> QED BY <1>1, <1>2, <1>3 DEF Arriving

(* One bit turned over on the air is that bit wrong, and no other.         *)
LEMMA OneTurnedOver ==
  ASSUME NEW content, NEW delay, NEW header, OfGrids(header),
         Arriving(header, content, delay, {}), NEW i \in 1 .. 112, NEW turned,
         turned = [header EXCEPT ![SymbolOf(HeaderSlot[i])][Data[CarrierOf(HeaderSlot[i])]]
                                    = Rotate(@, 2)]
  PROVE  OfGrids(turned) /\ Arriving(turned, content, delay, {i})
<1>1. PICK s \in 1 .. NumSymbolsHeader : s = SymbolOf(HeaderSlot[i])
  BY SlotIs, SlotsDiffer
<1>2. PICK bin \in Bins : bin = Data[CarrierOf(HeaderSlot[i])]
  BY SlotIs, SlotsDiffer, DataBin
<1>3. turned = [header EXCEPT ![s] = [header[s] EXCEPT ![bin] = Rotate(header[s][bin], 2)]]
  BY <1>1, <1>2
<1>4. s \in DOMAIN header /\ DOMAIN (header[s]) = Bins
  BY DEF Arriving, WholeHeader, OfGrids
<1>5. /\ DOMAIN turned = DOMAIN header
      /\ turned[s] = [header[s] EXCEPT ![bin] = Rotate(header[s][bin], 2)]
      /\ \A t \in DOMAIN header : t # s => turned[t] = header[t]
  BY <1>3, <1>4
<1>6. /\ turned[s][bin] = Rotate(header[s][bin], 2)
      /\ \A b \in Bins : b # bin => turned[s][b] = header[s][b]
      /\ DOMAIN (turned[s]) = Bins
  BY <1>4, <1>5
<1>7. OfGrids(turned)
  BY <1>5, <1>6 DEF OfGrids
<1>8. WholeHeader(turned)
  BY <1>5 DEF WholeHeader, Arriving
<1>9. ASSUME NEW j \in 1 .. 112
      PROVE  LET point == Rotate(HeaderPoint(content, j), delay * Data[CarrierOf(HeaderSlot[j])])
             IN  turned[SymbolOf(HeaderSlot[j])][Data[CarrierOf(HeaderSlot[j])]]
                    = IF j \in {i} THEN Rotate(point, 2) ELSE point
  <2>1. PICK t \in 1 .. NumSymbolsHeader : t = SymbolOf(HeaderSlot[j])
    BY SlotIs, SlotsDiffer
  <2>2. PICK b \in Bins : b = Data[CarrierOf(HeaderSlot[j])]
    BY SlotIs, SlotsDiffer, DataBin
  <2>3. PICK point : point = Rotate(HeaderPoint(content, j), delay * Data[CarrierOf(HeaderSlot[j])])
    OBVIOUS
  <2>4. header[t][b] = point
    BY <2>1, <2>2, <2>3 DEF Arriving
  <2>5. CASE j = i
    BY <2>5, <2>1, <2>2, <2>3, <2>4, <1>1, <1>2, <1>6
  <2>6. CASE j # i
    <3>1. t # s \/ b # bin
      <4>1. /\ CarrierOf(HeaderSlot[i]) \in 1 .. NData /\ CarrierOf(HeaderSlot[j]) \in 1 .. NData
            /\ (SymbolOf(HeaderSlot[i]) - 1) * NData + CarrierOf(HeaderSlot[i]) = HeaderSlot[i]
            /\ (SymbolOf(HeaderSlot[j]) - 1) * NData + CarrierOf(HeaderSlot[j]) = HeaderSlot[j]
        BY SlotIs, SlotsDiffer
      <4>2. HeaderSlot[i] # HeaderSlot[j]
        BY <2>6, SlotsDiffer
      <4>3. t = s => CarrierOf(HeaderSlot[i]) # CarrierOf(HeaderSlot[j])
        BY <4>1, <4>2, <1>1, <2>1
      <4> QED BY <4>1, <4>3, <1>2, <2>2, DataIs
    <3>2. turned[t][b] = header[t][b]
      <4>1. t \in DOMAIN header
        BY DEF Arriving, WholeHeader
      <4> QED BY <4>1, <3>1, <1>5, <1>6
    <3> QED BY <2>6, <3>2, <2>1, <2>2, <2>3, <2>4
  <2> QED BY <2>5, <2>6
<1> QED BY <1>7, <1>8, <1>9 DEF Arriving
-----------------------------------------------------------------------------
(* What the receiver hands over without a key.                             *)

(* The memo's codec has the key that the memo is looked up by. *)
MemoNamed(memo) == memo.key = <<>> \/ memo.scheme.crc = memo.key[2]

LEMMA MemoKept ==
  ASSUME NEW own, NEW strict, NEW memo, MemoNamed(memo), NEW h
  PROVE  LET codec == ResolveCodec(own, strict, memo, h)
         IN  codec.ok => MemoNamed(codec.val) /\ codec.val.scheme.crc = h.crc
<1> DEFINE codec == ResolveCodec(own, strict, memo, h)
           scheme == [mod |-> h.mod, crc |-> h.crc, fec |-> h.fec0, fec1 |-> h.fec1, il |-> own.il]
           new == [key |-> CodecKey(h), scheme |-> scheme]
<1> SUFFICES ASSUME codec.ok PROVE MemoNamed(codec.val) /\ codec.val.scheme.crc = h.crc
  OBVIOUS
<1>1. CodecKey(h) # <<>> /\ CodecKey(h)[2] = h.crc
  BY DEF CodecKey
<1>2. \/ memo.key = CodecKey(h) /\ codec = Returns(memo)
      \/ codec = Returns(new)
  BY DEF ResolveCodec, Raises
<1>3. CASE memo.key = CodecKey(h) /\ codec = Returns(memo)
  <2>1. codec.val = memo
    BY <1>3 DEF Returns
  <2> HIDE DEF codec
  <2> QED BY <2>1, <1>1, <1>3 DEF MemoNamed
<1>4. CASE codec = Returns(new)
  <2>1. codec.val = new
    BY <1>4 DEF Returns
  <2>2. new.key = CodecKey(h) /\ new.scheme.crc = h.crc
    OBVIOUS
  <2> HIDE DEF codec, new
  <2> QED BY <2>1, <2>2, <1>1 DEF MemoNamed
<1> QED BY <1>2, <1>3, <1>4

(* Without a verdict only what has no key. *)
LEMMA UncheckedHasNoKey ==
  ASSUME NEW cfg, NEW bits, PacketDecode(cfg, bits).ok, PacketDecode(cfg, bits).val.crc = "unchecked"
  PROVE  cfg.crc = "none"
<1>1. PICK result : PacketDecode(cfg, bits) = IF result.ok THEN CheckStage(cfg, result.val) ELSE Raises
  BY DEF PacketDecode, Then
<1>2. PacketDecode(cfg, bits) = CheckStage(cfg, result.val)
  BY <1>1 DEF Raises
<1> SUFFICES ASSUME cfg.crc # "none" PROVE FALSE
  OBVIOUS
<1>3. PICK bytes : PacketDecode(cfg, bits) = Checked(cfg, bytes)
  BY <1>2 DEF CheckStage
<1>4. PICK content, verdict :
        /\ verdict \in {"valid", "invalid"}
        /\ Checked(cfg, bytes) = Returns([bits |-> content, crc |-> verdict])
  <2>1. CheckKey(cfg.crc, bytes).ok
    BY <1>3 DEF Checked, Then, Raises
  <2> QED BY <2>1 DEF Checked, Then
<1> QED BY <1>3, <1>4 DEF Returns

LEMMA HandedOver ==
  ASSUME NEW own, NEW strict, NEW memo, MemoNamed(memo), NEW received,
         NEW header, header = DecodeHeaderSymbols(received.header, ChannelEstimate(received.training)),
         NEW heard, heard = RxProcess(own, strict, memo, received)
  PROVE  /\ MemoNamed(heard.cache)
         /\ heard.result.ok /\ heard.result.val.crc = "unchecked" => header.ok /\ header.val.crc = "none"
<1>1. PICK estimate : heard = RxHeader(own, strict, memo, header, received.payload, estimate)
  BY DEF RxProcess, RxEstimated
<1>2. CASE ~header.ok
  BY <1>1, <1>2 DEF RxHeader, Raises
<1>3. CASE header.ok
  <2>1. PICK h, codec : h = header.val /\ codec = ResolveCodec(own, strict, memo, h)
    OBVIOUS
  <2>2. heard = RxWith(codec, memo, h, received.payload, estimate)
    BY <1>1, <1>3, <2>1 DEF RxHeader
  <2>3. codec.ok => MemoNamed(codec.val) /\ codec.val.scheme.crc = h.crc
    BY <2>1, MemoKept
  <2>4. MemoNamed(heard.cache)
    BY <2>2, <2>3 DEF RxWith
  <2>5. ASSUME heard.result.ok, heard.result.val.crc = "unchecked" PROVE h.crc = "none"
    <3>1. codec.ok /\ heard.result = RxPayload(codec.val, h, received.payload, estimate)
      BY <2>2, <2>5 DEF RxWith, Then, Raises
    <3>2. PICK a : heard.result = DecodePayload(codec.val, a, received.payload, estimate)
      BY <3>1, <2>5 DEF RxPayload, Then, Raises
    <3>3. PICK bits : heard.result = PacketDecode(codec.val.scheme, bits)
      <4> DEFINE payload == received.payload
                 points == FlattenSeq([s \in 1 .. a.symbols |-> PayloadPoints(payload[s], estimate)])
                 stream == SubSeq(Demodulate(codec.val.scheme.mod, points), 1, a.bits)
      <4>1. DecodePayload(codec.val, a, payload, estimate)
              = IF a.symbols > Len(payload) THEN Raises ELSE PacketDecode(codec.val.scheme, stream)
        BY DEF DecodePayload
      <4> HIDE DEF stream, payload
      <4>2. heard.result = PacketDecode(codec.val.scheme, stream)
        BY <4>1, <3>2, <2>5 DEF payload, Raises
      <4> QED BY <4>2
    <3>4. codec.val.scheme.crc = "none"
      BY <3>3, <2>5, UncheckedHasNoKey
    <3> QED BY <3>1, <3>4, <2>3
  <2> QED BY <2>1, <2>4, <2>5, <1>3
<1> QED BY <1>2, <1>3
-----------------------------------------------------------------------------
(* The invariant.                                                          *)

SentFields == [len |-> Len(sent.payload), mod |-> sent.scheme.mod, crc |-> sent.scheme.crc,
               fec0 |-> sent.scheme.fec, fec1 |-> sent.scheme.fec1]

SentHeader == EncodeHeader(SentFields)

WrongBits == {{}} \cup (IF fault = "header" THEN {{i} : i \in 1 .. 49} ELSE {})

(* What is on the air came through a channel of this delay.                *)
CameThrough(delay, wrong, header, payload) ==
  /\ air = Returns([training |-> TrainingThrough(delay), header |-> header, payload |-> payload])
  /\ OfGrids(header) /\ Arriving(header, SentHeader.val, delay, wrong)

AirHolds ==
  air.ok => /\ sent.scheme.crc \in DOMAIN CrcCodes /\ SentHeader.ok
            /\ \E delay \in Delays, wrong \in WrongBits : \E header, payload :
                    CameThrough(delay, wrong, header, payload)

UncheckedInv == link \in Links /\ AirHolds /\ MemoNamed(cache) /\ UncheckedOnlyAsSent

LEMMA UncheckedStarts == FrameInit => UncheckedInv
BY DEF FrameInit, UncheckedInv, AirHolds, Nothing, MemoNamed, NoCodec, UncheckedOnlyAsSent, Received

LEMMA TransmitKeeps ==
  ASSUME UncheckedInv, NEW scheme \in link.schemes, NEW bits, NEW delay \in Delays,
         Transmit(scheme, bits, delay)
  PROVE  UncheckedInv'
<1> DEFINE frame == GenerateFrame(scheme, bits)
<1>1. /\ sent' = [scheme |-> scheme, payload |-> bits, frame |-> frame]
      /\ air' = IF frame.ok THEN Returns(Through(frame.val, delay)) ELSE Nothing
      /\ fault' = "none" /\ got' = Nothing /\ link' = link /\ cache' = cache
  BY DEF Transmit
<1>2. link' \in Links /\ MemoNamed(cache)' /\ UncheckedOnlyAsSent'
  <2>1. ~got'.ok
    BY <1>1 DEF Nothing
  <2> QED BY <2>1, <1>1 DEF UncheckedInv, UncheckedOnlyAsSent, MemoNamed
<1>3. AirHolds'
  <2> SUFFICES ASSUME air'.ok
               PROVE  /\ sent'.scheme.crc \in DOMAIN CrcCodes /\ SentHeader'.ok
                      /\ \E wrong \in WrongBits' : \E header, payload :
                            CameThrough(delay, wrong, header, payload)'
    BY DEF AirHolds
  <2>1. frame.ok /\ air' = Returns(Through(frame.val, delay))
    BY <1>1 DEF Nothing
  <2>2. sent'.scheme.crc \in DOMAIN CrcCodes
    BY <1>1, FrameLinkAssumption DEF UncheckedInv
  <2>3. PICK wire : frame = FrameOf(scheme, SentHeader', wire)
    BY <1>1 DEF GenerateFrame, SentHeader, SentFields
  <2>4. PICK content, payload :
          /\ SentHeader'.ok /\ content = SentHeader'.val
          /\ frame.val = [training |-> TrainingGrid, header |-> BuildHeaderSymbols(content),
                          payload |-> payload]
    <3> HIDE DEF frame
    <3> QED BY <2>1, <2>3 DEF FrameOf, Raises, Returns
  <2>5. PICK header : header = [s \in DOMAIN BuildHeaderSymbols(content) |->
                        [bin \in Bins |-> Rotate(BuildHeaderSymbols(content)[s][bin], delay * bin)]]
    OBVIOUS
  <2>6. PICK thrown : air' = Returns([training |-> TrainingThrough(delay), header |-> header,
                                      payload |-> thrown])
    <3> DEFINE Spiral(grid) == [bin \in Bins |-> Rotate(grid[bin], delay * bin)]
               thrown == [s \in DOMAIN payload |-> Spiral(payload[s])]
               came == [training |-> Spiral(TrainingGrid),
                        header |-> [s \in DOMAIN BuildHeaderSymbols(content) |->
                                      Spiral(BuildHeaderSymbols(content)[s])],
                        payload |-> thrown]
    <3>1. came = [training |-> TrainingThrough(delay), header |-> header, payload |-> thrown]
      BY <2>5 DEF TrainingThrough
    <3>2. Through([training |-> TrainingGrid, header |-> BuildHeaderSymbols(content),
                   payload |-> payload], delay) = came
      BY DEF Through
    <3> HIDE DEF frame, came, thrown
    <3> QED BY <2>1, <2>4, <3>1, <3>2
  <2>7. OfGrids(header) /\ Arriving(header, content, delay, {})
    BY <2>5, SentArrives
  <2>8. CameThrough(delay, {}, header, thrown)' /\ {} \in WrongBits'
    BY <2>4, <2>6, <2>7 DEF CameThrough, WrongBits
  <2> QED BY <2>2, <2>4, <2>8
<1> QED BY <1>2, <1>3 DEF UncheckedInv

(* What does not touch the header leaves it as it was.                     *)
LEMMA DamageKeeps ==
  ASSUME UncheckedInv, air.ok, fault = "none", fault' \notin {"none", "header"},
         UNCHANGED << link, sent, cache, got, frames >>,
         NEW f, air' = [air EXCEPT !.val.payload = f]
  PROVE  UncheckedInv'
<1>1. PICK delay \in Delays : \E header, payload : CameThrough(delay, {}, header, payload)
  BY DEF UncheckedInv, AirHolds, WrongBits
<1>2. PICK header, payload : CameThrough(delay, {}, header, payload)
  BY <1>1
<1>3. air' = Returns([training |-> TrainingThrough(delay), header |-> header, payload |-> f])
  BY <1>2 DEF CameThrough, Returns
<1>4. CameThrough(delay, {}, header, f)' /\ {} \in WrongBits'
  BY <1>2, <1>3 DEF CameThrough, WrongBits, SentHeader, SentFields
<1>5. sent'.scheme.crc \in DOMAIN CrcCodes /\ SentHeader'.ok
  BY DEF UncheckedInv, AirHolds, SentHeader, SentFields
<1>6. AirHolds'
  BY <1>4, <1>5 DEF AirHolds
<1>7. air'.ok
  BY <1>3 DEF Returns
<1> QED BY <1>6, <1>7 DEF UncheckedInv, UncheckedOnlyAsSent, Received, MemoNamed

LEMMA HeaderErrorKeeps ==
  ASSUME UncheckedInv, NEW i \in 1 .. 49, HeaderError(i)
  PROVE  UncheckedInv'
<1>1. air.ok /\ fault = "none" /\ UNCHANGED << link, sent, cache, got, frames >> /\ fault' = "header"
  BY DEF HeaderError, Undamaged
<1>2. PICK delay \in Delays : \E header, payload : CameThrough(delay, {}, header, payload)
  BY <1>1 DEF UncheckedInv, AirHolds, WrongBits
<1>3. PICK header, payload : CameThrough(delay, {}, header, payload)
  BY <1>2
<1>4. PICK turned : turned = [header EXCEPT ![SymbolOf(HeaderSlot[i])][Data[CarrierOf(HeaderSlot[i])]]
                                              = Rotate(@, 2)]
  OBVIOUS
<1>5. air' = Returns([training |-> TrainingThrough(delay), header |-> turned, payload |-> payload])
  BY <1>3, <1>4 DEF HeaderError, CameThrough, Returns, SymbolOf, CarrierOf
<1>6. OfGrids(turned) /\ Arriving(turned, SentHeader.val, delay, {i})
  <2>1. i \in 1 .. 112
    OBVIOUS
  <2>2. OfGrids(header) /\ Arriving(header, SentHeader.val, delay, {})
    BY <1>3 DEF CameThrough
  <2> QED BY <2>1, <2>2, <1>4, OneTurnedOver
<1>7. CameThrough(delay, {i}, turned, payload)' /\ {i} \in WrongBits'
  BY <1>1, <1>5, <1>6 DEF CameThrough, WrongBits, SentHeader, SentFields
<1>8. sent'.scheme.crc \in DOMAIN CrcCodes /\ SentHeader'.ok
  BY <1>1 DEF UncheckedInv, AirHolds, SentHeader, SentFields
<1>9. AirHolds'
  BY <1>7, <1>8 DEF AirHolds
<1>10. air'.ok
  BY <1>5 DEF Returns
<1> QED BY <1>1, <1>9, <1>10 DEF UncheckedInv, UncheckedOnlyAsSent, Received, MemoNamed

LEMMA ReceiveKeeps ==
  ASSUME UncheckedInv, Receive
  PROVE  UncheckedInv'
<1> DEFINE heard == RxProcess(link.own, link.strict, cache, air.val)
<1>1. /\ air.ok /\ cache' = heard.cache /\ got' = heard.result /\ ~air'.ok
      /\ UNCHANGED << link, sent, fault, frames >>
  BY DEF Receive, Accept, Nothing
<1>2. PICK delay \in Delays, wrong \in WrongBits :
        \E header, payload : CameThrough(delay, wrong, header, payload)
  BY <1>1 DEF UncheckedInv, AirHolds
<1>3. PICK header, payload : CameThrough(delay, wrong, header, payload)
  BY <1>2
<1>4. sent.scheme.crc \in DOMAIN CrcCodes /\ SentHeader.ok
  BY <1>1 DEF UncheckedInv, AirHolds
<1>5. SentHeader.val \in [1 .. 112 -> {0, 1}]
  <2>1. PICK plain \in [1 .. 112 -> {0, 1}] : SentHeader.val = Scramble(plain)
    BY <1>4, HeaderIs DEF SentHeader
  <2>2. SentHeader.val = [p \in 1 .. 112 |-> IF p \in ScrambleMask THEN 1 - plain[p] ELSE plain[p]]
    BY <2>1 DEF Scramble, Flip
  <2>3. \A p \in 1 .. 112 : (IF p \in ScrambleMask THEN 1 - plain[p] ELSE plain[p]) \in {0, 1}
    OBVIOUS
  <2> QED BY <2>2, <2>3
<1>6. PICK read : read = DecodeHeaderSymbols(air.val.header, ChannelEstimate(air.val.training))
  OBVIOUS
<1>7. read = DecodeHeader(Flip(SentHeader.val, wrong))
  <2>1. air.val.header = header /\ air.val.training = TrainingThrough(delay)
    BY <1>3 DEF CameThrough, Returns
  <2>2. delay \in Int /\ Arriving(header, SentHeader.val, delay, wrong)
    BY <1>3, FrameLinkAssumption DEF CameThrough
  <2> QED BY <2>1, <2>2, <1>5, <1>6, HeaderArrives
<1>8. /\ MemoNamed(heard.cache)
      /\ heard.result.ok /\ heard.result.val.crc = "unchecked" => read.ok /\ read.val.crc = "none"
  <2>1. MemoNamed(cache)
    BY DEF UncheckedInv
  <2> QED BY <2>1, <1>6, HandedOver
<1> HIDE DEF heard
<1>9. ASSUME got'.ok, got'.val.crc = "unchecked"
      PROVE  sent.scheme.crc \in {"none"} \cup (IF fault = "header" THEN NearNone ELSE {})
  <2>1. read.ok /\ read.val.crc = "none"
    BY <1>1, <1>8, <1>9
  <2>2. wrong = {} \/ (fault = "header" /\ \E i : wrong = {i})
    BY <1>3 DEF WrongBits
  <2>3. SentFields.crc = sent.scheme.crc
    BY DEF SentFields
  <2>4. SentFields.crc \in {"none"} \cup (IF wrong = {} THEN {} ELSE NearNone)
    <3>1. /\ SentFields.crc \in DOMAIN CrcCodes /\ EncodeHeader(SentFields).ok
          /\ DecodeHeader(Flip(EncodeHeader(SentFields).val, wrong)).ok
          /\ DecodeHeader(Flip(EncodeHeader(SentFields).val, wrong)).val.crc = "none"
      BY <1>4, <1>7, <2>1, <2>3 DEF SentHeader
    <3>2. wrong = {} \/ (\E i : wrong = {i})
      BY <2>2
    <3> QED BY <3>1, <3>2, NameRead
  <2> QED BY <2>2, <2>3, <2>4
<1>10. UncheckedOnlyAsSent'
  BY <1>1, <1>9 DEF UncheckedOnlyAsSent, Received, NearNone
<1>11. AirHolds' /\ MemoNamed(cache)'
  BY <1>1, <1>8 DEF AirHolds, MemoNamed
<1> QED BY <1>1, <1>10, <1>11 DEF UncheckedInv

LEMMA UncheckedKept == UncheckedInv /\ [FrameNext]_frameVars => UncheckedInv'
<1> SUFFICES ASSUME UncheckedInv, [FrameNext]_frameVars PROVE UncheckedInv'
  OBVIOUS
<1>1. CASE \E scheme \in link.schemes, payload \in Payloads, delay \in Delays :
              Transmit(scheme, payload, delay)
  BY <1>1, TransmitKeeps
<1>2. CASE \E s \in OnAir, u \in 1 .. NData, width \in 1 .. MaxRun, turns \in 1 .. 3 :
              Interfere(s, u, width, turns)
  BY <1>2, DamageKeeps DEF Interfere, Undamaged, Changed
<1>3. CASE \E s \in OnAir, u \in 1 .. NData, offset \in Noises : Noise(s, u, offset)
  BY <1>3, DamageKeeps DEF Noise, Undamaged, Changed
<1>4. CASE \E u \in 1 .. NData : Fade(u)
  BY <1>4, DamageKeeps DEF Fade, Undamaged
<1>5. CASE \E s \in OnAir, turns \in 1 .. 3, lost \in SUBSET (1 .. NPilot) : Jump(s, turns, lost)
  BY <1>5, DamageKeeps DEF Jump, Undamaged
<1>6. CASE \E i \in 1 .. 49 : HeaderError(i)
  BY <1>6, HeaderErrorKeeps
<1>7. CASE Truncate
  BY <1>7, DamageKeeps DEF Truncate, Undamaged
<1>8. CASE Receive
  BY <1>8, ReceiveKeeps
<1>9. CASE UNCHANGED frameVars
  BY <1>9 DEF frameVars, UncheckedInv, AirHolds, WrongBits, CameThrough, SentHeader, SentFields,
              MemoNamed, UncheckedOnlyAsSent, Received
<1> QED BY <1>1, <1>2, <1>3, <1>4, <1>5, <1>6, <1>7, <1>8, <1>9 DEF FrameNext

(* A frame sent with a key is handed over as one without only if its       *)
(* header is wrong in the bit that tells the two apart                     *)
(* (Ofdm.rx_process, Packetizer.decode).                                   *)
THEOREM NeverUnchecked == FrameSpec => []UncheckedOnlyAsSent
<1>1. UncheckedInv => UncheckedOnlyAsSent
  BY DEF UncheckedInv
<1> QED BY <1>1, UncheckedStarts, UncheckedKept, PTL DEF FrameSpec

-----------------------------------------------------------------------------
(* Complex integers.                                                       *)

Zero == << 0, 0 >>

LEMMA ComplexIs ==
  /\ Zero \in Complex
  /\ \A a \in Complex : /\ a[1] \in Int /\ a[2] \in Int /\ a = << a[1], a[2] >>
                        /\ Conj(a) \in Complex /\ Energy(a) \in Int
                        /\ \A q \in Int : Turned(a, q) \in Complex
  /\ \A a, b \in Complex : /\ Plus(a, b) \in Complex /\ Difference(a, b) \in Complex
                           /\ Times(a, b) \in Complex
<1>1. ASSUME NEW a \in Complex
      PROVE  /\ a[1] \in Int /\ a[2] \in Int /\ a = << a[1], a[2] >>
             /\ Conj(a) \in Complex /\ Energy(a) \in Int
             /\ \A q \in Int : Turned(a, q) \in Complex
  <2>1. a[1] \in Int /\ a[2] \in Int /\ a = << a[1], a[2] >>
    BY DEF Complex
  <2>2. Conj(a) \in Complex /\ Energy(a) \in Int
    BY <2>1 DEF Complex, Conj, Energy
  <2>3. ASSUME NEW q \in Int PROVE Turned(a, q) \in Complex
    <3>1. q % 4 \in 0 .. 3
      OBVIOUS
    <3> QED BY <2>1, <3>1 DEF Complex, Turned
  <2> QED BY <2>1, <2>2, <2>3
<1>2. ASSUME NEW a \in Complex, NEW b \in Complex
      PROVE  /\ Plus(a, b) \in Complex /\ Difference(a, b) \in Complex
             /\ Times(a, b) \in Complex
  <2> DEFINE a1 == a[1]  a2 == a[2]  b1 == b[1]  b2 == b[2]
  <2>1. a1 \in Int /\ a2 \in Int /\ b1 \in Int /\ b2 \in Int
    BY <1>1
  <2>2. \A x, y \in Int : << x, y >> \in Complex
    BY DEF Complex
  <2>3. /\ Plus(a, b) = << a1 + b1, a2 + b2 >> /\ Difference(a, b) = << a1 - b1, a2 - b2 >>
        /\ Times(a, b) = << a1 * b1 - a2 * b2, a1 * b2 + a2 * b1 >>
    BY DEF Plus, Difference, Times
  <2> HIDE DEF a1, a2, b1, b2
  <2>4. \A x, y \in Int : x + y \in Int /\ x - y \in Int /\ x * y \in Int
    OBVIOUS
  <2> QED BY <2>1, <2>2, <2>3, <2>4
<1>3. Zero \in Complex
  BY DEF Zero, Complex
<1> QED BY <1>1, <1>2, <1>3

\* Energies are squares.
LEMMA EnergyIs ==
  \A a \in Complex : Energy(a) >= 0 /\ (Energy(a) = 0 <=> a = Zero)
<1> SUFFICES ASSUME NEW a \in Complex
             PROVE  Energy(a) >= 0 /\ (Energy(a) = 0 <=> a = Zero)
  OBVIOUS
<1>1. a[1] \in Int /\ a[2] \in Int /\ a = << a[1], a[2] >>
  BY ComplexIs
<1>2. \A x \in Int : x * x >= 0 /\ (x * x = 0 <=> x = 0)
  OBVIOUS
<1>3. a[1] * a[1] >= 0 /\ a[2] * a[2] >= 0
      /\ (a[1] * a[1] = 0 <=> a[1] = 0) /\ (a[2] * a[2] = 0 <=> a[2] = 0)
  BY <1>1, <1>2
<1>4. /\ a[1] * a[1] + a[2] * a[2] >= 0
      /\ a[1] * a[1] + a[2] * a[2] = 0 <=> a[1] = 0 /\ a[2] = 0
  <2>1. \A x, y \in Int : x >= 0 /\ y >= 0 => x + y >= 0 /\ (x + y = 0 <=> x = 0 /\ y = 0)
    OBVIOUS
  <2>2. a[1] * a[1] \in Int /\ a[2] * a[2] \in Int
    BY <1>1
  <2> QED BY <2>1, <2>2, <1>3
<1> QED BY <1>1, <1>4 DEF Energy, Zero

-----------------------------------------------------------------------------
(* Running sums.                                                           *)


\* A function that starts as given and goes on as told exists, as the
\* definition of CumSum has it.
Continues(V, L, zero, add) == L \in Nat /\ zero \in V /\ add \in [(0 .. L) \X V -> V]

LEMMA Running ==
  ASSUME NEW V, NEW L, NEW zero, NEW add, Continues(V, L, zero, add)
  PROVE  \E f \in [0 .. L -> V] : f[0] = zero /\ \A n \in 1 .. L : f[n] = add[<< n, f[n - 1] >>]
<1> DEFINE S == 0 .. L
           start == [n \in S |-> zero]
           before == [n \in S |-> IF n = 0 THEN 0 ELSE n - 1]
           rank == [n \in S |-> n]
<1>0. L \in Nat /\ zero \in V /\ add \in [(0 .. L) \X V -> V]
  BY DEF Continues
<1>1. Recursion(S, V, {0}, start, before, add, rank)
  BY <1>0 DEF Recursion
<1>2. PICK f \in [S -> V] : Solves(f, S, {0}, start, before, add)
  <2> HIDE DEF S, start, before, rank
  <2> QED BY <1>1, RecursionExists
<1>3. \A n \in S : f[n] = IF n \in {0} THEN start[n] ELSE add[<< n, f[before[n]] >>]
  BY <1>2 DEF Solves
<1>4. 0 \in S /\ \A n \in 1 .. L : n \in S /\ n \notin {0} /\ before[n] = n - 1
  BY <1>0
<1>5. f[0] = zero /\ \A n \in 1 .. L : f[n] = add[<< n, f[n - 1] >>]
  <2>1. f[0] = start[0] /\ start[0] = zero
    BY <1>3, <1>4
  <2> HIDE DEF before, start, S
  <2> QED BY <1>3, <1>4, <2>1
<1> QED BY <1>5

\* It takes its values where it should.
Stays(f, L, V) ==
  L \in Nat /\ f[0] \in V /\ \A n \in 1 .. L : f[n - 1] \in V => f[n] \in V

LEMMA RunningIn ==
  ASSUME NEW V, NEW L, NEW f, Stays(f, L, V)
  PROVE  \A n \in 0 .. L : f[n] \in V
<1> DEFINE N == {n \in Nat : n <= L => f[n] \in V}
<1>0. L \in Nat /\ f[0] \in V /\ \A n \in 1 .. L : f[n - 1] \in V => f[n] \in V
  BY DEF Stays
<1>1. 0 \in N
  BY <1>0
<1>2. ASSUME NEW n \in Nat, n \in N PROVE n + 1 \in N
  <2> SUFFICES ASSUME n + 1 <= L PROVE f[n + 1] \in V
    OBVIOUS
  <2>1. n + 1 \in 1 .. L /\ (n + 1) - 1 = n /\ n <= L
    BY <1>0
  <2>2. f[n] \in V
    BY <2>1, <1>2
  <2>3. f[(n + 1) - 1] \in V
    BY <2>1, <2>2
  <2> QED BY <2>1, <2>3, <1>0
<1>3. \A n \in Nat : n \in N
  <2> HIDE DEF N
  <2> QED BY <1>1, <1>2, SetInduction
<1> QED BY <1>0, <1>3

LEMMA CumSumIs ==
  ASSUME NEW s \in Seq(Int)
  PROVE  /\ CumSum(s) \in [0 .. Len(s) -> Int]
         /\ CumSum(s)[0] = 0
         /\ \A n \in 1 .. Len(s) : CumSum(s)[n] = CumSum(s)[n - 1] + s[n]
<1> DEFINE L == Len(s)
           add == [arg \in (0 .. L) \X Int |-> IF arg[1] = 0 THEN 0 ELSE arg[2] + s[arg[1]]]
           Is(f) == f = [n \in 0 .. L |-> IF n = 0 THEN 0 ELSE f[n - 1] + s[n]]
<1>0. L \in Nat /\ \A n \in 1 .. L : s[n] \in Int
  OBVIOUS
<1>1. add \in [(0 .. L) \X Int -> Int]
  <2> SUFFICES ASSUME NEW arg \in (0 .. L) \X Int PROVE add[arg] \in Int
    OBVIOUS
  <2>1. CASE arg[1] # 0
    <3>1. arg[1] \in 1 .. L /\ arg[2] \in Int
      BY <2>1, <1>0
    <3> QED BY <3>1, <2>1, <1>0
  <2> QED BY <2>1
<1>2. PICK f \in [0 .. L -> Int] :
         f[0] = 0 /\ \A n \in 1 .. L : f[n] = add[<< n, f[n - 1] >>]
  <2>1. Continues(Int, L, 0, add)
    BY <1>0, <1>1 DEF Continues
  <2> HIDE DEF add, L
  <2> QED BY <2>1, Running
<1>3. Is(f)
  <2>1. ASSUME NEW n \in 1 .. L PROVE add[<< n, f[n - 1] >>] = f[n - 1] + s[n]
    <3>1. f[n - 1] \in Int
      BY <2>1, <1>0
    <3> QED BY <3>1, <2>1
  <2> HIDE DEF add
  <2>2. ASSUME NEW n \in 0 .. L PROVE f[n] = IF n = 0 THEN 0 ELSE f[n - 1] + s[n]
    <3>1. n = 0 \/ n \in 1 .. L
      BY <1>0
    <3> QED BY <3>1, <1>2, <2>1
  <2> QED BY <2>2
<1> DEFINE g == CumSum(s)
<1>4. g = [n \in 0 .. L |-> IF n = 0 THEN 0 ELSE g[n - 1] + s[n]]
  <2>1. g = CHOOSE h : Is(h)
    BY DEF CumSum
  <2>2. Is(g)
    <3> HIDE DEF Is, g
    <3> QED BY <1>3, <2>1
  <2> QED BY <2>2
<1> HIDE DEF g
<1>5. DOMAIN g = 0 .. L /\ g[0] = 0 /\ \A n \in 1 .. L : g[n] = g[n - 1] + s[n]
  BY <1>4, <1>0
<1>6. \A n \in 0 .. L : g[n] \in Int
  <2>1. Stays(g, L, Int)
    BY <1>5, <1>0 DEF Stays
  <2> QED BY <2>1, RunningIn
<1>7. g = [n \in 0 .. L |-> g[n]]
  BY <1>4, <1>5
<1> QED BY <1>5, <1>6, <1>7 DEF g

LEMMA CumSumComplexIs ==
  ASSUME NEW s \in Seq(Complex)
  PROVE  /\ CumSumComplex(s) \in [0 .. Len(s) -> Complex]
         /\ CumSumComplex(s)[0] = << 0, 0 >>
         /\ \A n \in 1 .. Len(s) : CumSumComplex(s)[n] = Plus(CumSumComplex(s)[n - 1], s[n])
<1> DEFINE L == Len(s)
           add == [arg \in (0 .. L) \X Complex |->
                      IF arg[1] = 0 THEN << 0, 0 >> ELSE Plus(arg[2], s[arg[1]])]
           Is(f) == f = [n \in 0 .. L |-> IF n = 0 THEN << 0, 0 >> ELSE Plus(f[n - 1], s[n])]
<1>0. L \in Nat /\ (\A n \in 1 .. L : s[n] \in Complex) /\ << 0, 0 >> \in Complex
  BY ComplexIs DEF Zero
<1>1. add \in [(0 .. L) \X Complex -> Complex]
  <2> SUFFICES ASSUME NEW arg \in (0 .. L) \X Complex PROVE add[arg] \in Complex
    OBVIOUS
  <2>1. CASE arg[1] # 0
    <3>1. arg[1] \in 1 .. L /\ arg[2] \in Complex
      BY <2>1, <1>0
    <3> QED BY <3>1, <2>1, <1>0, ComplexIs
  <2> QED BY <2>1, <1>0
<1>2. PICK f \in [0 .. L -> Complex] :
         f[0] = << 0, 0 >> /\ \A n \in 1 .. L : f[n] = add[<< n, f[n - 1] >>]
  <2>1. Continues(Complex, L, << 0, 0 >>, add)
    BY <1>0, <1>1 DEF Continues
  <2> HIDE DEF add, L
  <2> QED BY <2>1, Running
<1>3. Is(f)
  <2>1. ASSUME NEW n \in 1 .. L PROVE add[<< n, f[n - 1] >>] = Plus(f[n - 1], s[n])
    <3>1. f[n - 1] \in Complex
      BY <2>1, <1>0
    <3> QED BY <3>1, <2>1
  <2> HIDE DEF add
  <2>2. ASSUME NEW n \in 0 .. L PROVE f[n] = IF n = 0 THEN << 0, 0 >> ELSE Plus(f[n - 1], s[n])
    <3>1. n = 0 \/ n \in 1 .. L
      BY <1>0
    <3> QED BY <3>1, <1>2, <2>1
  <2> QED BY <2>2
<1> DEFINE g == CumSumComplex(s)
<1>4. g = [n \in 0 .. L |-> IF n = 0 THEN << 0, 0 >> ELSE Plus(g[n - 1], s[n])]
  <2>1. g = CHOOSE h : Is(h)
    BY DEF CumSumComplex
  <2>2. Is(g)
    <3> HIDE DEF Is, g
    <3> QED BY <1>3, <2>1
  <2> QED BY <2>2
<1> HIDE DEF g
<1>5. DOMAIN g = 0 .. L /\ g[0] = << 0, 0 >> /\ \A n \in 1 .. L : g[n] = Plus(g[n - 1], s[n])
  <2>1. DOMAIN g = 0 .. L
    BY <1>4
  <2>2. \A n \in 0 .. L : g[n] = IF n = 0 THEN << 0, 0 >> ELSE Plus(g[n - 1], s[n])
    BY <1>4
  <2>3. 0 \in 0 .. L /\ \A n \in 1 .. L : n \in 0 .. L /\ n # 0
    BY <1>0
  <2> QED BY <2>1, <2>2, <2>3
<1>6. \A n \in 0 .. L : g[n] \in Complex
  <2>1. \A n \in 1 .. L : g[n - 1] \in Complex => g[n] \in Complex
    BY <1>5, <1>0, ComplexIs
  <2>2. Stays(g, L, Complex)
    BY <2>1, <1>5, <1>0 DEF Stays
  <2> QED BY <2>2, RunningIn
<1>7. g = [n \in 0 .. L |-> g[n]]
  BY <1>4, <1>5
<1> QED BY <1>5, <1>6, <1>7 DEF g

-----------------------------------------------------------------------------
\* Adding up a window of a sequence: prefix sums of the whole, subtracted.
LEMMA WindowSum ==
  ASSUME NEW s \in Seq(Int), NEW c \in Nat, NEW n \in Nat, c + n <= Len(s)
  PROVE  LET w == [m \in 1 .. n |-> s[c + m]]
         IN  /\ w \in Seq(Int) /\ Len(w) = n
             /\ \A k \in 0 .. n : CumSum(w)[k] = CumSum(s)[c + k] - CumSum(s)[c]
<1> DEFINE w == [m \in 1 .. n |-> s[c + m]]
           N == {k \in Nat : k <= n => CumSum(w)[k] = CumSum(s)[c + k] - CumSum(s)[c]}
<1>0. Len(s) \in Nat /\ \A m \in 1 .. n : c + m \in 1 .. Len(s) /\ s[c + m] \in Int
  OBVIOUS
<1>1. w \in Seq(Int) /\ Len(w) = n
  BY <1>0
<1>2. \A k \in 1 .. n : w[k] = s[c + k]
  OBVIOUS
<1> HIDE DEF w
<1>3. /\ CumSum(w)[0] = 0
      /\ \A k \in 0 .. n : CumSum(w)[k] \in Int
      /\ \A k \in 1 .. n : CumSum(w)[k] = CumSum(w)[k - 1] + w[k]
  BY <1>1, CumSumIs
<1>4. /\ \A k \in 0 .. Len(s) : CumSum(s)[k] \in Int
      /\ \A k \in 1 .. Len(s) : CumSum(s)[k] = CumSum(s)[k - 1] + s[k]
  BY CumSumIs
<1>5. 0 \in N
  <2>1. c + 0 = c /\ c \in 0 .. Len(s)
    BY <1>0
  <2>2. CumSum(s)[c] \in Int
    BY <2>1, <1>4
  <2> QED BY <2>1, <2>2, <1>3
<1>6. ASSUME NEW k \in Nat, k \in N PROVE k + 1 \in N
  <2> SUFFICES ASSUME k + 1 <= n PROVE CumSum(w)[k + 1] = CumSum(s)[c + (k + 1)] - CumSum(s)[c]
    OBVIOUS
  <2>1. /\ k + 1 \in 1 .. n /\ (k + 1) - 1 = k /\ k <= n
        /\ c + (k + 1) \in 1 .. Len(s) /\ (c + (k + 1)) - 1 = c + k
        /\ k \in 0 .. n /\ c + k \in 0 .. Len(s) /\ c \in 0 .. Len(s)
    BY <1>0
  <2>2. CumSum(w)[k + 1] = CumSum(w)[k] + s[c + (k + 1)]
    BY <2>1, <1>2, <1>3
  <2>3. CumSum(s)[c + (k + 1)] = CumSum(s)[c + k] + s[c + (k + 1)]
    BY <2>1, <1>4
  <2>4. CumSum(w)[k] = CumSum(s)[c + k] - CumSum(s)[c]
    BY <2>1, <1>6
  <2>5. /\ s[c + (k + 1)] \in Int
        /\ CumSum(s)[c + k] \in Int /\ CumSum(s)[c] \in Int
    BY <2>1, <1>0, <1>4
  <2> QED BY <2>2, <2>3, <2>4, <2>5
<1>7. \A k \in Nat : k \in N
  <2> HIDE DEF N
  <2> QED BY <1>5, <1>6, SetInduction
<1>8. \A k \in 0 .. n : CumSum(w)[k] = CumSum(s)[c + k] - CumSum(s)[c]
  BY <1>7
<1> QED BY <1>1, <1>8 DEF w

LEMMA DifferenceIs ==
  /\ \A a \in Complex : Difference(a, a) = << 0, 0 >> /\ Difference(a, << 0, 0 >>) = a
  /\ \A a, b, c \in Complex : /\ Difference(Plus(a, c), b) = Plus(Difference(a, b), c)
                              /\ Difference(Plus(a, c), Plus(b, c)) = Difference(a, b)
<1>1. \A a \in Complex : Difference(a, a) = << 0, 0 >> /\ Difference(a, << 0, 0 >>) = a
  BY ComplexIs DEF Difference
<1>2. ASSUME NEW a \in Complex, NEW b \in Complex, NEW c \in Complex
      PROVE  /\ Difference(Plus(a, c), b) = Plus(Difference(a, b), c)
             /\ Difference(Plus(a, c), Plus(b, c)) = Difference(a, b)
  BY ComplexIs DEF Difference, Plus
<1> QED BY <1>1, <1>2

LEMMA WindowSumComplex ==
  ASSUME NEW s \in Seq(Complex), NEW c \in Nat, NEW n \in Nat, c + n <= Len(s)
  PROVE  LET w == [m \in 1 .. n |-> s[c + m]]
         IN  /\ w \in Seq(Complex) /\ Len(w) = n
             /\ \A k \in 0 .. n :
                   CumSumComplex(w)[k] = Difference(CumSumComplex(s)[c + k], CumSumComplex(s)[c])
<1> DEFINE w == [m \in 1 .. n |-> s[c + m]]
           Sum(k) == Difference(CumSumComplex(s)[c + k], CumSumComplex(s)[c])
           N == {k \in Nat : k <= n => CumSumComplex(w)[k] = Sum(k)}
<1>0. Len(s) \in Nat /\ \A m \in 1 .. n : c + m \in 1 .. Len(s) /\ s[c + m] \in Complex
  OBVIOUS
<1>1. w \in Seq(Complex) /\ Len(w) = n
  BY <1>0
<1>2. \A k \in 1 .. n : w[k] = s[c + k]
  OBVIOUS
<1> HIDE DEF w
<1>3. /\ CumSumComplex(w)[0] = << 0, 0 >>
      /\ \A k \in 1 .. n : CumSumComplex(w)[k] = Plus(CumSumComplex(w)[k - 1], w[k])
  BY <1>1, CumSumComplexIs
<1>4. /\ \A k \in 0 .. Len(s) : CumSumComplex(s)[k] \in Complex
      /\ \A k \in 1 .. Len(s) : CumSumComplex(s)[k] = Plus(CumSumComplex(s)[k - 1], s[k])
  BY CumSumComplexIs
<1>5. 0 \in N
  <2>1. c + 0 = c /\ c \in 0 .. Len(s)
    BY <1>0
  <2>2. CumSumComplex(s)[c] \in Complex
    BY <2>1, <1>4
  <2> QED BY <2>1, <2>2, <1>3, DifferenceIs
<1>6. ASSUME NEW k \in Nat, k \in N PROVE k + 1 \in N
  <2> SUFFICES ASSUME k + 1 <= n PROVE CumSumComplex(w)[k + 1] = Sum(k + 1)
    OBVIOUS
  <2>1. /\ k + 1 \in 1 .. n /\ (k + 1) - 1 = k /\ k <= n
        /\ c + (k + 1) \in 1 .. Len(s) /\ (c + (k + 1)) - 1 = c + k
        /\ k \in 0 .. n /\ c + k \in 0 .. Len(s) /\ c \in 0 .. Len(s)
    BY <1>0
  <2>2. CumSumComplex(w)[k + 1] = Plus(CumSumComplex(w)[k], s[c + (k + 1)])
    BY <2>1, <1>2, <1>3
  <2>3. CumSumComplex(s)[c + (k + 1)] = Plus(CumSumComplex(s)[c + k], s[c + (k + 1)])
    BY <2>1, <1>4
  <2>4. CumSumComplex(w)[k] = Sum(k)
    BY <2>1, <1>6
  <2>5. /\ s[c + (k + 1)] \in Complex
        /\ CumSumComplex(s)[c + k] \in Complex /\ CumSumComplex(s)[c] \in Complex
    BY <2>1, <1>0, <1>4
  <2> QED BY <2>2, <2>3, <2>4, <2>5, DifferenceIs
<1>7. \A k \in Nat : k \in N
  <2> HIDE DEF N
  <2> QED BY <1>5, <1>6, SetInduction
<1>8. \A k \in 0 .. n : CumSumComplex(w)[k] = Sum(k)
  BY <1>7
<1> QED BY <1>1, <1>8 DEF w

-----------------------------------------------------------------------------
(* What is between two sequences of samples: how far p times the one is    *)
(* from r times the other.                                                 *)

Energies(s) == [m \in 1 .. Len(s) |-> Energy(s[m])]

Products(A, B) == [m \in 1 .. Len(A) |-> Times(Conj(A[m]), B[m])]

Scaled(r, a) == << r * a[1], r * a[2] >>

Along(p, z) == p[1] * z[1] + p[2] * z[2]

Apart(A, B, p, r) ==
  [m \in 1 .. Len(A) |-> Energy(Difference(Times(p, A[m]), Scaled(r, B[m])))]

LEMMA ScaledIs ==
  \A r \in Int : \A a \in Complex : Scaled(r, a) \in Complex
<1> SUFFICES ASSUME NEW r \in Int, NEW a \in Complex PROVE Scaled(r, a) \in Complex
  OBVIOUS
<1>1. r * a[1] \in Int /\ r * a[2] \in Int
  BY ComplexIs
<1> HIDE DEF Complex
<1>2. \A x, y \in Int : << x, y >> \in Complex
  BY DEF Complex
<1> QED BY <1>1, <1>2 DEF Scaled

LEMMA AlongIs ==
  /\ \A p, z \in Complex : Along(p, z) \in Int
  /\ \A p, z, x \in Complex : Along(p, Plus(z, x)) = Along(p, z) + Along(p, x)
  /\ \A p \in Complex : Along(p, << 0, 0 >>) = 0 /\ Along(p, p) = Energy(p)
<1>1. ASSUME NEW p \in Complex, NEW z \in Complex, NEW x \in Complex
      PROVE  /\ Along(p, z) \in Int
             /\ Along(p, Plus(z, x)) = Along(p, z) + Along(p, x)
             /\ Along(p, << 0, 0 >>) = 0 /\ Along(p, p) = Energy(p)
  <2>1. \A r, q, s, t, u, v \in Int :
           r * (s + u) + q * (t + v) = (r * s + q * t) + (r * u + q * v)
    OBVIOUS
  <2>2. /\ p[1] \in Int /\ p[2] \in Int /\ z[1] \in Int /\ z[2] \in Int
        /\ x[1] \in Int /\ x[2] \in Int
    BY ComplexIs
  <2>3. p[1] * z[1] + p[2] * z[2] \in Int
    BY <2>2
  <2> QED BY <2>1, <2>2, <2>3 DEF Along, Plus, Energy
<1> QED BY <1>1

LEMMA TermIs ==
  ASSUME NEW p \in Complex, NEW r \in Int, NEW a \in Complex, NEW b \in Complex
  PROVE  Energy(Difference(Times(p, a), Scaled(r, b)))
           = Energy(p) * Energy(a) + (r * r) * Energy(b) - 2 * (r * Along(p, Times(Conj(a), b)))
<1>1. \A p1, p2, a1, a2, b1, b2, s \in Int :
        (p1 * a1 - p2 * a2 - s * b1) * (p1 * a1 - p2 * a2 - s * b1)
          + (p1 * a2 + p2 * a1 - s * b2) * (p1 * a2 + p2 * a1 - s * b2)
        = (p1 * p1 + p2 * p2) * (a1 * a1 + a2 * a2) + (s * s) * (b1 * b1 + b2 * b2)
          - 2 * (s * (p1 * (a1 * b1 - (-a2) * b2) + p2 * (a1 * b2 + (-a2) * b1)))
  OBVIOUS
<1>2. /\ p[1] \in Int /\ p[2] \in Int /\ a[1] \in Int /\ a[2] \in Int
      /\ b[1] \in Int /\ b[2] \in Int
  BY ComplexIs
<1> QED BY <1>1, <1>2 DEF Energy, Difference, Times, Scaled, Along, Conj

LEMMA EnergiesIs ==
  ASSUME NEW A \in Seq(Complex)
  PROVE  /\ Energies(A) \in Seq(Int) /\ Len(Energies(A)) = Len(A)
         /\ \A m \in 1 .. Len(A) : A[m] \in Complex /\ Energies(A)[m] = Energy(A[m])
<1>1. Len(A) \in Nat /\ \A m \in 1 .. Len(A) : A[m] \in Complex
  OBVIOUS
<1>2. \A m \in 1 .. Len(A) : Energy(A[m]) \in Int
  BY <1>1, ComplexIs
<1> QED BY <1>1, <1>2 DEF Energies

LEMMA ProductsIs ==
  ASSUME NEW A \in Seq(Complex), NEW B \in Seq(Complex), Len(A) = Len(B)
  PROVE  /\ Products(A, B) \in Seq(Complex) /\ Len(Products(A, B)) = Len(A)
         /\ \A m \in 1 .. Len(A) : Products(A, B)[m] = Times(Conj(A[m]), B[m])
<1>1. Len(A) \in Nat /\ \A m \in 1 .. Len(A) : A[m] \in Complex /\ B[m] \in Complex
  OBVIOUS
<1>2. \A m \in 1 .. Len(A) : Times(Conj(A[m]), B[m]) \in Complex
  BY <1>1, ComplexIs
<1> QED BY <1>1, <1>2 DEF Products

LEMMA ApartIs ==
  ASSUME NEW A \in Seq(Complex), NEW B \in Seq(Complex), Len(A) = Len(B),
         NEW p \in Complex, NEW r \in Int
  PROVE  /\ Apart(A, B, p, r) \in Seq(Int) /\ Len(Apart(A, B, p, r)) = Len(A)
         /\ \A m \in 1 .. Len(A) :
              /\ Apart(A, B, p, r)[m] = Energy(Difference(Times(p, A[m]), Scaled(r, B[m])))
              /\ Apart(A, B, p, r)[m] >= 0
              /\ Apart(A, B, p, r)[m] = 0 <=> Times(p, A[m]) = Scaled(r, B[m])
<1>1. Len(A) \in Nat /\ \A m \in 1 .. Len(A) : A[m] \in Complex /\ B[m] \in Complex
  OBVIOUS
<1>2. \A m \in 1 .. Len(A) : Times(p, A[m]) \in Complex /\ Scaled(r, B[m]) \in Complex
  BY <1>1, ComplexIs, ScaledIs
<1>3. \A a, b \in Complex : /\ Energy(Difference(a, b)) \in Int /\ Energy(Difference(a, b)) >= 0
                            /\ Energy(Difference(a, b)) = 0 <=> a = b
  <2> SUFFICES ASSUME NEW a \in Complex, NEW b \in Complex
               PROVE  /\ Energy(Difference(a, b)) \in Int /\ Energy(Difference(a, b)) >= 0
                      /\ Energy(Difference(a, b)) = 0 <=> a = b
    OBVIOUS
  <2>1. Difference(a, b) \in Complex
    BY ComplexIs
  <2>2. /\ a[1] \in Int /\ a[2] \in Int /\ a = << a[1], a[2] >>
        /\ b[1] \in Int /\ b[2] \in Int /\ b = << b[1], b[2] >>
    BY ComplexIs
  <2>3. Difference(a, b) = Zero <=> a[1] - b[1] = 0 /\ a[2] - b[2] = 0
    BY DEF Difference, Zero
  <2>4. Difference(a, b) = Zero <=> a = b
    BY <2>2, <2>3
  <2> QED BY <2>1, <2>4, ComplexIs, EnergyIs
<1> QED BY <1>1, <1>2, <1>3 DEF Apart

\* A running sum of squares does not fall, and is 0 only if all of them are.
LEMMA SquaresAddUp ==
  ASSUME NEW s \in Seq(Int), \A m \in 1 .. Len(s) : s[m] >= 0
  PROVE  /\ CumSum(s)[Len(s)] \in Int /\ CumSum(s)[Len(s)] >= 0
         /\ CumSum(s)[Len(s)] = 0 <=> \A m \in 1 .. Len(s) : s[m] = 0
<1> DEFINE N == {k \in Nat : k <= Len(s) =>
                    /\ CumSum(s)[k] >= 0
                    /\ CumSum(s)[k] = 0 <=> \A m \in 1 .. k : s[m] = 0}
<1>0. Len(s) \in Nat /\ \A m \in 1 .. Len(s) : s[m] \in Int
  OBVIOUS
<1>1. /\ CumSum(s)[0] = 0
      /\ \A k \in 0 .. Len(s) : CumSum(s)[k] \in Int
      /\ \A k \in 1 .. Len(s) : CumSum(s)[k] = CumSum(s)[k - 1] + s[k]
  BY CumSumIs
<1>2. 0 \in N
  BY <1>1
<1>3. ASSUME NEW k \in Nat, k \in N PROVE k + 1 \in N
  <2> SUFFICES ASSUME k + 1 <= Len(s)
               PROVE  /\ CumSum(s)[k + 1] >= 0
                      /\ CumSum(s)[k + 1] = 0 <=> \A m \in 1 .. k + 1 : s[m] = 0
    OBVIOUS
  <2>1. k + 1 \in 1 .. Len(s) /\ (k + 1) - 1 = k /\ k \in 0 .. Len(s) /\ k <= Len(s)
    BY <1>0
  <2>2. /\ CumSum(s)[k + 1] = CumSum(s)[k] + s[k + 1]
        /\ CumSum(s)[k] \in Int /\ s[k + 1] \in Int /\ s[k + 1] >= 0
    BY <2>1, <1>0, <1>1
  <2>3. CumSum(s)[k] >= 0 /\ (CumSum(s)[k] = 0 <=> \A m \in 1 .. k : s[m] = 0)
    BY <2>1, <1>3
  <2>4. CumSum(s)[k + 1] >= 0 /\ (CumSum(s)[k + 1] = 0 <=> CumSum(s)[k] = 0 /\ s[k + 1] = 0)
    BY <2>2, <2>3
  <2>5. \A m : m \in 1 .. k + 1 <=> m \in 1 .. k \/ m = k + 1
    OBVIOUS
  <2>6. (\A m \in 1 .. k + 1 : s[m] = 0) <=> (\A m \in 1 .. k : s[m] = 0) /\ s[k + 1] = 0
    BY <2>5
  <2> QED BY <2>3, <2>4, <2>6
<1>4. \A k \in Nat : k \in N
  <2> HIDE DEF N
  <2> QED BY <1>2, <1>3, SetInduction
<1>5. Len(s) \in N /\ Len(s) \in 0 .. Len(s)
  BY <1>4, <1>0
<1> QED BY <1>5, <1>1

\* The sum of all that lies between them, by the energies and the products.
LEMMA ApartAddsUp ==
  ASSUME NEW A \in Seq(Complex), NEW B \in Seq(Complex), Len(A) = Len(B),
         NEW p \in Complex, NEW r \in Int
  PROVE  \A k \in 0 .. Len(A) :
           CumSum(Apart(A, B, p, r))[k]
             = Energy(p) * CumSum(Energies(A))[k] + (r * r) * CumSum(Energies(B))[k]
               - 2 * (r * Along(p, CumSumComplex(Products(A, B))[k]))
<1> DEFINE L == Len(A)
           S == CumSum(Apart(A, B, p, r))
           EA == CumSum(Energies(A))
           EB == CumSum(Energies(B))
           Z == CumSumComplex(Products(A, B))
           N == {k \in Nat : k <= L =>
                   S[k] = Energy(p) * EA[k] + (r * r) * EB[k] - 2 * (r * Along(p, Z[k]))}
<1>0. /\ L \in Nat
      /\ \A m \in 1 .. L : A[m] \in Complex /\ B[m] \in Complex
  OBVIOUS
<1>1. /\ S[0] = 0 /\ EA[0] = 0 /\ EB[0] = 0 /\ Z[0] = << 0, 0 >>
      /\ \A k \in 0 .. L : S[k] \in Int /\ EA[k] \in Int /\ EB[k] \in Int /\ Z[k] \in Complex
      /\ \A k \in 1 .. L :
           /\ S[k] = S[k - 1] + Energy(Difference(Times(p, A[k]), Scaled(r, B[k])))
           /\ EA[k] = EA[k - 1] + Energy(A[k]) /\ EB[k] = EB[k - 1] + Energy(B[k])
           /\ Z[k] = Plus(Z[k - 1], Times(Conj(A[k]), B[k]))
  <2>1. /\ Apart(A, B, p, r) \in Seq(Int) /\ Len(Apart(A, B, p, r)) = L
        /\ \A m \in 1 .. L : Apart(A, B, p, r)[m] = Energy(Difference(Times(p, A[m]), Scaled(r, B[m])))
    BY ApartIs
  <2>2. /\ Energies(A) \in Seq(Int) /\ Len(Energies(A)) = L
        /\ \A m \in 1 .. L : Energies(A)[m] = Energy(A[m])
    BY EnergiesIs
  <2>3. /\ Energies(B) \in Seq(Int) /\ Len(Energies(B)) = L
        /\ \A m \in 1 .. L : Energies(B)[m] = Energy(B[m])
    BY EnergiesIs
  <2>4. /\ Products(A, B) \in Seq(Complex) /\ Len(Products(A, B)) = L
        /\ \A m \in 1 .. L : Products(A, B)[m] = Times(Conj(A[m]), B[m])
    BY ProductsIs
  <2>5. /\ S[0] = 0 /\ (\A k \in 0 .. L : S[k] \in Int)
        /\ \A k \in 1 .. L : S[k] = S[k - 1] + Energy(Difference(Times(p, A[k]), Scaled(r, B[k])))
    BY <2>1, CumSumIs
  <2>6. /\ EA[0] = 0 /\ (\A k \in 0 .. L : EA[k] \in Int)
        /\ \A k \in 1 .. L : EA[k] = EA[k - 1] + Energy(A[k])
    BY <2>2, CumSumIs
  <2>7. /\ EB[0] = 0 /\ (\A k \in 0 .. L : EB[k] \in Int)
        /\ \A k \in 1 .. L : EB[k] = EB[k - 1] + Energy(B[k])
    BY <2>3, CumSumIs
  <2>8. /\ Z[0] = << 0, 0 >> /\ (\A k \in 0 .. L : Z[k] \in Complex)
        /\ \A k \in 1 .. L : Z[k] = Plus(Z[k - 1], Times(Conj(A[k]), B[k]))
    BY <2>4, CumSumComplexIs
  <2> QED BY <2>5, <2>6, <2>7, <2>8
<1> HIDE DEF S, EA, EB, Z
<1>2. 0 \in N
  <2>1. Energy(p) \in Int /\ Along(p, << 0, 0 >>) = 0
    BY ComplexIs, AlongIs
  <2>2. Energy(p) * 0 = 0 /\ (r * r) * 0 = 0 /\ 2 * (r * 0) = 0
    BY <2>1
  <2>3. 0 = Energy(p) * 0 + (r * r) * 0 - 2 * (r * 0)
    BY <2>2
  <2> QED BY <2>1, <2>3, <1>1
<1>3. ASSUME NEW k \in Nat, k \in N PROVE k + 1 \in N
  <2> SUFFICES ASSUME k + 1 <= L
               PROVE  S[k + 1] = Energy(p) * EA[k + 1] + (r * r) * EB[k + 1]
                                   - 2 * (r * Along(p, Z[k + 1]))
    OBVIOUS
  <2>1. k + 1 \in 1 .. L /\ (k + 1) - 1 = k /\ k \in 0 .. L /\ k <= L
    BY <1>0
  <2> DEFINE a == A[k + 1]
             b == B[k + 1]
             z == Times(Conj(a), b)
  <2>2. a \in Complex /\ b \in Complex /\ z \in Complex
    BY <2>1, <1>0, ComplexIs
  <2> HIDE DEF a, b, z
  <2>3. /\ S[k + 1] = S[k] + Energy(Difference(Times(p, a), Scaled(r, b)))
        /\ EA[k + 1] = EA[k] + Energy(a) /\ EB[k + 1] = EB[k] + Energy(b)
        /\ Z[k + 1] = Plus(Z[k], z)
        /\ S[k] \in Int /\ EA[k] \in Int /\ EB[k] \in Int /\ Z[k] \in Complex
    BY <2>1, <1>1 DEF a, b, z
  <2>4. Energy(Difference(Times(p, a), Scaled(r, b)))
           = Energy(p) * Energy(a) + (r * r) * Energy(b) - 2 * (r * Along(p, z))
    BY <2>2, TermIs DEF z
  <2>5. S[k] = Energy(p) * EA[k] + (r * r) * EB[k] - 2 * (r * Along(p, Z[k]))
    BY <2>1, <1>3
  <2>6. Along(p, Plus(Z[k], z)) = Along(p, Z[k]) + Along(p, z)
    BY <2>2, <2>3, AlongIs
  <2> DEFINE e == Energy(p)  rr == r * r  x == EA[k]  y == EB[k]
             ea == Energy(a)  eb == Energy(b)  u == Along(p, Z[k])  v == Along(p, z)
  <2>7. e \in Int /\ rr \in Int /\ x \in Int /\ y \in Int /\ ea \in Int /\ eb \in Int
    BY <2>2, <2>3, ComplexIs
  <2>8. u \in Int /\ v \in Int
    BY <2>2, <2>3, AlongIs
  <2>9. /\ S[k + 1] = (e * x + rr * y - 2 * (r * u)) + (e * ea + rr * eb - 2 * (r * v))
        /\ EA[k + 1] = x + ea /\ EB[k + 1] = y + eb /\ Along(p, Z[k + 1]) = u + v
    BY <2>3, <2>4, <2>5, <2>6
  <2> HIDE DEF e, rr, x, y, ea, eb, u, v
  <2>10. (e * x + rr * y - 2 * (r * u)) + (e * ea + rr * eb - 2 * (r * v))
           = e * (x + ea) + rr * (y + eb) - 2 * (r * (u + v))
    BY <2>7, <2>8
  <2> QED BY <2>9, <2>10 DEF e, rr
<1>4. \A k \in Nat : k \in N
  <2> HIDE DEF N
  <2> QED BY <1>2, <1>3, SetInduction
<1> QED BY <1>4, <1>0 DEF S, EA, EB, Z

Strength(A) == CumSum(Energies(A))[Len(A)]
Product(A, B) == CumSumComplex(Products(A, B))[Len(A)]

LEMMA TotalIs ==
  ASSUME NEW A \in Seq(Complex)
  PROVE  /\ Strength(A) \in Int /\ Strength(A) >= 0
         /\ Strength(A) = 0 <=> \A m \in 1 .. Len(A) : A[m] = Zero
<1>1. /\ Energies(A) \in Seq(Int) /\ Len(Energies(A)) = Len(A)
      /\ \A m \in 1 .. Len(A) : A[m] \in Complex /\ Energies(A)[m] = Energy(A[m])
  BY EnergiesIs
<1>2. \A m \in 1 .. Len(A) : Energies(A)[m] >= 0 /\ (Energies(A)[m] = 0 <=> A[m] = Zero)
  BY <1>1, EnergyIs
<1>3. /\ Strength(A) \in Int /\ Strength(A) >= 0
      /\ Strength(A) = 0 <=> \A m \in 1 .. Len(A) : Energies(A)[m] = 0
  <2>1. \A m \in 1 .. Len(Energies(A)) : Energies(A)[m] >= 0
    BY <1>1, <1>2
  <2> QED BY <2>1, <1>1, SquaresAddUp DEF Strength
<1> QED BY <1>2, <1>3

LEMMA AlongBound ==
  ASSUME NEW p \in Complex, NEW z \in Complex
  PROVE  Along(p, z) * Along(p, z) <= Energy(p) * Energy(z)
<1>1. \A p1, p2, z1, z2 \in Int :
        (p1 * p1 + p2 * p2) * (z1 * z1 + z2 * z2)
          = (p1 * z1 + p2 * z2) * (p1 * z1 + p2 * z2) + (p1 * z2 - p2 * z1) * (p1 * z2 - p2 * z1)
  OBVIOUS
<1>2. p[1] \in Int /\ p[2] \in Int /\ z[1] \in Int /\ z[2] \in Int
  BY ComplexIs
<1> DEFINE w == p[1] * z[2] - p[2] * z[1]
<1>3. Energy(p) * Energy(z) = Along(p, z) * Along(p, z) + w * w
  BY <1>1, <1>2 DEF Energy, Along
<1>4. w \in Int /\ Along(p, z) \in Int
  BY <1>2, AlongIs
<1> HIDE DEF w
<1>5. w * w >= 0 /\ w * w \in Int /\ Along(p, z) * Along(p, z) \in Int
  BY <1>4
<1> QED BY <1>3, <1>5

\* The sum over a whole sequence.
LEMMA ApartTotal ==
  ASSUME NEW A \in Seq(Complex), NEW B \in Seq(Complex), Len(A) = Len(B),
         NEW p \in Complex, NEW r \in Int
  PROVE  LET apart == Energy(p) * Strength(A) + (r * r) * Strength(B) - 2 * (r * Along(p, Product(A, B)))
         IN  /\ apart \in Int /\ apart >= 0
             /\ apart = 0 <=> \A m \in 1 .. Len(A) : Times(p, A[m]) = Scaled(r, B[m])
<1> DEFINE apart == Energy(p) * Strength(A) + (r * r) * Strength(B) - 2 * (r * Along(p, Product(A, B)))
           s == Apart(A, B, p, r)
<1>1. /\ s \in Seq(Int) /\ Len(s) = Len(A)
      /\ \A m \in 1 .. Len(s) : s[m] >= 0 /\ (s[m] = 0 <=> Times(p, A[m]) = Scaled(r, B[m]))
  BY ApartIs
<1>2. CumSum(s)[Len(A)] = apart
  <2>1. Len(A) \in 0 .. Len(A)
    OBVIOUS
  <2> QED BY <2>1, ApartAddsUp DEF Strength, Product
<1> HIDE DEF s, apart
<1>3. /\ apart \in Int /\ apart >= 0
      /\ apart = 0 <=> \A m \in 1 .. Len(A) : s[m] = 0
  BY <1>1, <1>2, SquaresAddUp
<1>4. apart = 0 <=> \A m \in 1 .. Len(A) : Times(p, A[m]) = Scaled(r, B[m])
  BY <1>1, <1>3
<1> QED BY <1>3, <1>4 DEF apart

LEMMA ProductIs ==
  ASSUME NEW A \in Seq(Complex), NEW B \in Seq(Complex), Len(A) = Len(B)
  PROVE  Product(A, B) \in Complex
<1>1. Products(A, B) \in Seq(Complex) /\ Len(Products(A, B)) = Len(A)
  BY ProductsIs
<1>2. Len(A) \in 0 .. Len(A)
  OBVIOUS
<1> QED BY <1>1, <1>2, CumSumComplexIs DEF Product

\* The inequality of Cauchy and Schwarz, and when it is an equality.
LEMMA Schwarz ==
  ASSUME NEW A \in Seq(Complex), NEW B \in Seq(Complex), Len(A) = Len(B)
  PROVE  /\ Energy(Product(A, B)) <= Strength(A) * Strength(B)
         /\ Energy(Product(A, B)) = Strength(A) * Strength(B) =>
              \A m \in 1 .. Len(A) : Times(Product(A, B), A[m]) = Scaled(Strength(A), B[m])
<1> DEFINE Z == Product(A, B)
           E == Energy(Z)
           R == Strength(A)
           Q == Strength(B)
<1>1. Z \in Complex
  BY ProductIs
<1>2. R \in Int /\ Q \in Int /\ R >= 0 /\ Q >= 0
  BY TotalIs
<1>3. E \in Int /\ E >= 0 /\ Along(Z, Z) = E
  BY <1>1, ComplexIs, EnergyIs, AlongIs
<1>4. /\ E * R + (R * R) * Q - 2 * (R * E) >= 0
      /\ E * R + (R * R) * Q - 2 * (R * E) = 0 =>
           \A m \in 1 .. Len(A) : Times(Z, A[m]) = Scaled(R, B[m])
  <2>1. LET apart == E * R + (R * R) * Q - 2 * (R * Along(Z, Z))
        IN  /\ apart \in Int /\ apart >= 0
            /\ apart = 0 <=> \A m \in 1 .. Len(A) : Times(Z, A[m]) = Scaled(R, B[m])
    <3>1. PICK r \in Int : r = R
      BY <1>2
    <3>2. PICK p \in Complex : p = Z
      BY <1>1
    <3>3. LET apart == Energy(p) * Strength(A) + (r * r) * Strength(B) - 2 * (r * Along(p, Product(A, B)))
          IN  /\ apart \in Int /\ apart >= 0
              /\ apart = 0 <=> \A m \in 1 .. Len(A) : Times(p, A[m]) = Scaled(r, B[m])
      BY ApartTotal
    <3> QED BY <3>1, <3>2, <3>3
  <2> HIDE DEF E, R, Q, Z
  <2> QED BY <2>1, <1>3
<1> HIDE DEF E, R, Q
<1>5. E * R + (R * R) * Q - 2 * (R * E) = R * (R * Q - E)
  BY <1>2, <1>3
<1>6. CASE R > 0
  <2>1. \A x, y \in Int : x > 0 /\ x * y >= 0 => y >= 0
    OBVIOUS
  <2>2. R * Q - E \in Int /\ R * Q \in Int
    BY <1>2, <1>3
  <2>3. R * Q - E >= 0
    BY <2>1, <2>2, <1>2, <1>4, <1>5, <1>6
  <2>4. E = R * Q => R * (R * Q - E) = 0
    BY <1>2, <2>2
  <2>5. E <= R * Q
    BY <2>2, <2>3, <1>3
  <2> QED BY <2>4, <2>5, <1>4, <1>5 DEF E, R, Q
<1>7. CASE R = 0
  <2> DEFINE t == Q + 1
             p == Scaled(t, Z)
  <2>1. t \in Int /\ p \in Complex
    BY <1>1, <1>2, ScaledIs
  <2>2. Along(p, Z) = t * E
    <3>1. \A x, y, u \in Int : (u * x) * x + (u * y) * y = u * (x * x + y * y)
      OBVIOUS
    <3>2. Z[1] \in Int /\ Z[2] \in Int
      BY <1>1, ComplexIs
    <3> HIDE DEF t, Z
    <3> QED BY <2>1, <3>1, <3>2 DEF p, E, Scaled, Along, Energy
  <2>3. Energy(p) * R + (1 * 1) * Q - 2 * (1 * Along(p, Z)) >= 0
    <3>1. 1 \in Int
      OBVIOUS
    <3> HIDE DEF p
    <3> QED BY <2>1, <3>1, ApartTotal DEF R, Q
  <2>4. Energy(p) \in Int
    BY <2>1, ComplexIs
  <2>5. Q - 2 * (t * E) >= 0
    <3> HIDE DEF p, t
    <3>1. Energy(p) * R = 0
      BY <1>7, <2>4
    <3>2. t * E \in Int
      BY <2>1, <1>3
    <3> QED BY <3>1, <3>2, <2>2, <2>3, <1>2
  <2>6. E = 0
    <3> SUFFICES ASSUME E >= 1 PROVE FALSE
      BY <1>3
    <3>1. \A x, y \in Int : x >= 0 /\ y >= 1 => (x + 1) * y >= x + 1
      OBVIOUS
    <3>2. t * E >= t /\ t * E \in Int
      BY <3>1, <1>2, <1>3
    <3> QED BY <3>2, <2>5, <1>2
  <2>7. R * Q = 0
    BY <1>2, <1>7
  <2>8. E * R + (R * R) * Q - 2 * (R * E) = 0
    BY <1>2, <1>7, <2>6
  <2> QED BY <1>4, <2>6, <2>7, <2>8 DEF E, R, Q
<1> QED BY <1>2, <1>6, <1>7

\* Sequences of which one is a multiple of the other.
LEMMA Proportional ==
  ASSUME NEW A \in Seq(Complex), NEW B \in Seq(Complex), Len(A) = Len(B),
         NEW p \in Complex, p # Zero, NEW r \in Int, r # 0,
         \A m \in 1 .. Len(A) : Times(p, A[m]) = Scaled(r, B[m])
  PROVE  Energy(Product(A, B)) = Strength(A) * Strength(B)
<1> DEFINE Z == Product(A, B)
           E == Energy(Z)
           R == Strength(A)
           Q == Strength(B)
           e == Energy(p)
           D == Along(p, Z)
<1>1. Z \in Complex
  BY ProductIs
<1>2. R \in Int /\ Q \in Int /\ R >= 0 /\ Q >= 0
  BY TotalIs
<1>3. E \in Int /\ e \in Int /\ e > 0 /\ D \in Int /\ D * D <= e * E
  BY <1>1, ComplexIs, EnergyIs, AlongIs, AlongBound
<1>4. e * R + (r * r) * Q - 2 * (r * D) = 0
  BY ApartTotal
<1>5. E <= R * Q
  BY Schwarz
<1> HIDE DEF Z, E, R, Q, e, D
<1>6. E >= R * Q
  <2> DEFINE x == e * R
             y == (r * r) * Q
             u == 2 * (r * D)
             f == (r * r) * e
             g == R * Q
  <2>1. x \in Int /\ y \in Int /\ u \in Int /\ x + y = u
    BY <1>2, <1>3, <1>4
  <2>2. r * r > 0
    OBVIOUS
  <2>3. f > 0 /\ f \in Int
    BY <2>2, <1>3
  <2>4. u * u = 4 * ((r * r) * (D * D))
    BY <1>3
  <2>5. x * y = f * g
    BY <1>2, <1>3
  <2>6. (r * r) * (D * D) <= f * E
    <3>1. \A a, b, c \in Int : a > 0 /\ b <= c => a * b <= a * c
      OBVIOUS
    <3>2. r * r \in Int /\ D * D \in Int /\ e * E \in Int
      BY <1>3
    <3>3. (r * r) * (D * D) <= (r * r) * (e * E)
      BY <3>1, <3>2, <2>2, <1>3
    <3>4. (r * r) * (e * E) = f * E
      BY <1>3
    <3> QED BY <3>3, <3>4
  <2>7. f * g \in Int /\ f * E \in Int /\ g \in Int /\ (r * r) * (D * D) \in Int
    BY <1>2, <1>3, <2>3
  <2> HIDE DEF x, y, u, f, g
  <2>8. u * u >= 4 * (x * y)
    <3>1. \A a, b \in Int : (a + b) * (a + b) = 4 * (a * b) + (a - b) * (a - b)
      OBVIOUS
    <3>2. \A a \in Int : a * a >= 0 /\ a * a \in Int
      OBVIOUS
    <3>3. u * u = 4 * (x * y) + (x - y) * (x - y)
      BY <3>1, <2>1
    <3>4. (x - y) * (x - y) >= 0 /\ (x - y) * (x - y) \in Int /\ x * y \in Int
      BY <3>2, <2>1
    <3> HIDE DEF Complex
    <3> QED BY <3>3, <3>4
  <2>9. f * g <= f * E
    BY <2>4, <2>5, <2>6, <2>7, <2>8
  <2>10. \A a, b, c \in Int : a > 0 /\ a * b <= a * c => b <= c
    OBVIOUS
  <2>11. g <= E
    BY <2>3, <2>7, <2>9, <2>10, <1>3
  <2> QED BY <2>11 DEF g
<1>7. E = R * Q
  <2>1. R * Q \in Int
    BY <1>2
  <2> QED BY <2>1, <1>3, <1>5, <1>6
<1> QED BY <1>7 DEF E, R, Q, Z

LEMMA TimesIs ==
  /\ \A z, a, b \in Complex :
       Times(Conj(Times(z, a)), Times(z, b)) = Scaled(Energy(z), Times(Conj(a), b))
  /\ \A r \in Int : \A a, b \in Complex :
       /\ Times(Conj(Scaled(r, a)), Scaled(r, b)) = Scaled(r * r, Times(Conj(a), b))
       /\ Times(Scaled(r, a), b) = Scaled(r, Times(a, b))
       /\ r # 0 /\ Scaled(r, a) = Scaled(r, b) => a = b
  /\ \A a, b, c \in Complex : Times(Times(a, b), c) = Times(a, Times(b, c))
  /\ \A a, b \in Complex : /\ Times(a, b) = Times(b, a)
                           /\ Times(a, Times(Conj(a), b)) = Scaled(Energy(a), b)
                           /\ Energy(Times(a, b)) = Energy(a) * Energy(b)
  /\ \A a \in Complex : /\ Times(Conj(a), a) = << Energy(a), 0 >> /\ Energy(Conj(a)) = Energy(a)
                        /\ Times(Zero, a) = Zero
<1>0. ASSUME NEW a \in Complex
      PROVE a[1] \in Int /\ a[2] \in Int /\ a = << a[1], a[2] >>
  BY ComplexIs
<1>1. ASSUME NEW z \in Complex, NEW a \in Complex, NEW b \in Complex
      PROVE  Times(Conj(Times(z, a)), Times(z, b)) = Scaled(Energy(z), Times(Conj(a), b))
  <2>1. \A p, q, s, t, u, v \in Int :
          /\ (p * s - q * t) * (p * u - q * v) - (-(p * t + q * s)) * (p * v + q * u)
               = (p * p + q * q) * (s * u - (-t) * v)
          /\ (p * s - q * t) * (p * v + q * u) + (-(p * t + q * s)) * (p * u - q * v)
               = (p * p + q * q) * (s * v + (-t) * u)
    OBVIOUS
  <2>2. PICK p, q, s, t, u, v \in Int : z = << p, q >> /\ a = << s, t >> /\ b = << u, v >>
    BY <1>0
  <2>3. Times(Conj(Times(z, a)), Times(z, b))
          = << (p * s - q * t) * (p * u - q * v) - (-(p * t + q * s)) * (p * v + q * u),
               (p * s - q * t) * (p * v + q * u) + (-(p * t + q * s)) * (p * u - q * v) >>
    BY <2>2 DEF Times, Conj
  <2>4. Scaled(Energy(z), Times(Conj(a), b))
          = << (p * p + q * q) * (s * u - (-t) * v), (p * p + q * q) * (s * v + (-t) * u) >>
    BY <2>2 DEF Times, Conj, Scaled, Energy
  <2>5. /\ (p * s - q * t) * (p * u - q * v) - (-(p * t + q * s)) * (p * v + q * u)
             = (p * p + q * q) * (s * u - (-t) * v)
        /\ (p * s - q * t) * (p * v + q * u) + (-(p * t + q * s)) * (p * u - q * v)
             = (p * p + q * q) * (s * v + (-t) * u)
    BY <2>1
  <2> QED BY <2>3, <2>4, <2>5
<1>2. ASSUME NEW r \in Int, NEW a \in Complex, NEW b \in Complex
      PROVE  /\ Times(Conj(Scaled(r, a)), Scaled(r, b)) = Scaled(r * r, Times(Conj(a), b))
             /\ Times(Scaled(r, a), b) = Scaled(r, Times(a, b))
             /\ r # 0 /\ Scaled(r, a) = Scaled(r, b) => a = b
  <2>1. \A s, t, u, v \in Int :
          /\ (r * s) * (r * u) - (-(r * t)) * (r * v) = (r * r) * (s * u - (-t) * v)
          /\ (r * s) * (r * v) + (-(r * t)) * (r * u) = (r * r) * (s * v + (-t) * u)
          /\ (r * s) * u - (r * t) * v = r * (s * u - t * v)
          /\ (r * s) * v + (r * t) * u = r * (s * v + t * u)
    OBVIOUS
  <2>0. PICK s, t, u, v \in Int : a = << s, t >> /\ b = << u, v >>
    BY <1>0
  <2>2. Times(Conj(Scaled(r, a)), Scaled(r, b)) = Scaled(r * r, Times(Conj(a), b))
    BY <2>1, <2>0 DEF Times, Conj, Scaled
  <2>3. Times(Scaled(r, a), b) = Scaled(r, Times(a, b))
    <3>1. Times(Scaled(r, a), b)
            = << (r * s) * u - (r * t) * v, (r * s) * v + (r * t) * u >>
      BY <2>0 DEF Times, Scaled
    <3>2. Scaled(r, Times(a, b)) = << r * (s * u - t * v), r * (s * v + t * u) >>
      BY <2>0 DEF Times, Scaled
    <3>3. /\ (r * s) * u - (r * t) * v = r * (s * u - t * v)
          /\ (r * s) * v + (r * t) * u = r * (s * v + t * u)
      BY <2>1
    <3> QED BY <3>1, <3>2, <3>3
  <2>4. ASSUME r # 0, Scaled(r, a) = Scaled(r, b) PROVE a = b
    <3>1. \A x, y \in Int : r * x = r * y => x = y
      BY <2>4
    <3>2. r * a[1] = r * b[1] /\ r * a[2] = r * b[2]
      BY <2>4 DEF Scaled
    <3>3. a[1] = b[1] /\ a[2] = b[2]
      BY <3>1, <3>2, <1>0
    <3> QED BY <3>3, <1>0
  <2> QED BY <2>2, <2>3, <2>4
<1>3. ASSUME NEW a \in Complex, NEW b \in Complex, NEW c \in Complex
      PROVE  Times(Times(a, b), c) = Times(a, Times(b, c))
  <2>1. \A p, q, s, t, u, v \in Int :
          /\ (p * s - q * t) * u - (p * t + q * s) * v = p * (s * u - t * v) - q * (s * v + t * u)
          /\ (p * s - q * t) * v + (p * t + q * s) * u = p * (s * v + t * u) + q * (s * u - t * v)
    OBVIOUS
  <2>2. PICK p, q, s, t, u, v \in Int : a = << p, q >> /\ b = << s, t >> /\ c = << u, v >>
    BY <1>0
  <2>3. Times(Times(a, b), c)
          = << (p * s - q * t) * u - (p * t + q * s) * v, (p * s - q * t) * v + (p * t + q * s) * u >>
    BY <2>2 DEF Times
  <2>4. Times(a, Times(b, c))
          = << p * (s * u - t * v) - q * (s * v + t * u), p * (s * v + t * u) + q * (s * u - t * v) >>
    BY <2>2 DEF Times
  <2>5. /\ (p * s - q * t) * u - (p * t + q * s) * v = p * (s * u - t * v) - q * (s * v + t * u)
        /\ (p * s - q * t) * v + (p * t + q * s) * u = p * (s * v + t * u) + q * (s * u - t * v)
    BY <2>1
  <2> QED BY <2>3, <2>4, <2>5
<1>4. ASSUME NEW a \in Complex, NEW b \in Complex
      PROVE  /\ Times(a, b) = Times(b, a)
             /\ Times(a, Times(Conj(a), b)) = Scaled(Energy(a), b)
             /\ Energy(Times(a, b)) = Energy(a) * Energy(b)
  <2>1. \A p, q, s, t \in Int :
          /\ p * s - q * t = s * p - t * q /\ p * t + q * s = s * q + t * p
          /\ p * (p * s - (-q) * t) - q * (p * t + (-q) * s) = (p * p + q * q) * s
          /\ p * (p * t + (-q) * s) + q * (p * s - (-q) * t) = (p * p + q * q) * t
          /\ (p * s - q * t) * (p * s - q * t) + (p * t + q * s) * (p * t + q * s)
               = (p * p + q * q) * (s * s + t * t)
    OBVIOUS
  <2>2. Times(a, b) = Times(b, a)
    BY <2>1, <1>0 DEF Times
  <2>3. Times(a, Times(Conj(a), b)) = Scaled(Energy(a), b)
    BY <2>1, <1>0 DEF Times, Conj, Scaled, Energy
  <2>4. Energy(Times(a, b)) = Energy(a) * Energy(b)
    BY <2>1, <1>0 DEF Times, Energy
  <2> QED BY <2>2, <2>3, <2>4
<1>5. ASSUME NEW a \in Complex
      PROVE  /\ Times(Conj(a), a) = << Energy(a), 0 >> /\ Energy(Conj(a)) = Energy(a)
             /\ Times(Zero, a) = Zero
  <2>1. \A p, q \in Int :
          /\ p * p - (-q) * q = p * p + q * q /\ p * q + (-q) * p = 0
          /\ (-q) * (-q) = q * q
          /\ 0 * p - 0 * q = 0 /\ 0 * q + 0 * p = 0
    OBVIOUS
  <2>2. Times(Conj(a), a) = << Energy(a), 0 >> /\ Energy(Conj(a)) = Energy(a)
    BY <2>1, <1>0 DEF Times, Conj, Energy
  <2>3. Times(Zero, a) = Zero
    BY <2>1, <1>0 DEF Times, Zero
  <2> QED BY <2>2, <2>3
<1> QED BY <1>1, <1>2, <1>3, <1>4, <1>5

\* One sequence is the other turned by some angle.
Turn(A, B) ==
  /\ \E m \in 1 .. Len(A) : A[m] # Zero
  /\ \A m, k \in 1 .. Len(A) : Times(Conj(B[m]), B[k]) = Times(Conj(A[m]), A[k])

\* One sequence is the other times a factor.
Multiple(A, B) ==
  /\ \E m \in 1 .. Len(A) : B[m] # Zero
  /\ \A m, k \in 1 .. Len(A) : Times(B[m], A[k]) = Times(B[k], A[m])

LEMMA EnergyOfSome ==
  \A a \in Complex : a # Zero => Energy(a) \in Int /\ Energy(a) > 0
<1> SUFFICES ASSUME NEW a \in Complex, a # Zero PROVE Energy(a) \in Int /\ Energy(a) > 0
  OBVIOUS
<1>1. Energy(a) \in Int
  BY ComplexIs
<1>2. Energy(a) >= 0 /\ Energy(a) # 0
  BY EnergyIs
<1> QED BY <1>1, <1>2

LEMMA TurnIs ==
  ASSUME NEW A \in Seq(Complex), NEW B \in Seq(Complex), Len(A) = Len(B)
  PROVE  Turn(A, B) <=> /\ Strength(A) = Strength(B) /\ Strength(A) > 0
                        /\ Energy(Product(A, B)) = Strength(A) * Strength(B)
<1> DEFINE Z == Product(A, B)
           R == Strength(A)
<1>1. Z \in Complex
  BY ProductIs
<1>2. R \in Int /\ R >= 0 /\ (R = 0 <=> \A m \in 1 .. Len(A) : A[m] = Zero)
  BY TotalIs
<1>3. \A m \in 1 .. Len(A) : A[m] \in Complex /\ B[m] \in Complex
  OBVIOUS
<1>4. ASSUME Turn(A, B)
      PROVE  R = Strength(B) /\ R > 0 /\ Energy(Z) = R * Strength(B)
  <2>1. \A m \in 1 .. Len(A) : Energy(B[m]) = Energy(A[m])
    <3> SUFFICES ASSUME NEW m \in 1 .. Len(A) PROVE Energy(B[m]) = Energy(A[m])
      OBVIOUS
    <3>1. Times(Conj(B[m]), B[m]) = Times(Conj(A[m]), A[m])
      BY <1>4 DEF Turn
    <3>2. << Energy(B[m]), 0 >> = << Energy(A[m]), 0 >>
      BY <3>1, <1>3, TimesIs
    <3> QED BY <3>2
  <2>2. R = Strength(B)
    <3>1. Energies(A) = Energies(B)
      BY <2>1 DEF Energies
    <3> QED BY <3>1 DEF Strength
  <2>3. PICK i \in 1 .. Len(A) : A[i] # Zero
    BY <1>4 DEF Turn
  <2>4. R > 0
    BY <2>3, <1>2
  <2> DEFINE p == Times(B[i], Conj(A[i]))
             e == Energy(B[i])
  <2>5. /\ p \in Complex /\ Conj(A[i]) \in Complex /\ Conj(B[i]) \in Complex
        /\ A[i] \in Complex /\ B[i] \in Complex
    BY <1>3, ComplexIs
  <2>6. e \in Int /\ e > 0
    <3>1. Energy(A[i]) \in Int /\ Energy(A[i]) > 0
      BY <2>3, <2>5, EnergyOfSome
    <3> QED BY <3>1, <2>1
  <2>7. p # Zero
    <3>1. Energy(p) = e * e
      BY <2>1, <2>5, TimesIs
    <3>2. e * e > 0
      BY <2>6
    <3> HIDE DEF p, e
    <3> QED BY <3>1, <3>2, <2>5, EnergyIs
  <2>8. \A k \in 1 .. Len(A) : Times(p, A[k]) = Scaled(e, B[k])
    <3> SUFFICES ASSUME NEW k \in 1 .. Len(A) PROVE Times(p, A[k]) = Scaled(e, B[k])
      OBVIOUS
    <3>1. A[k] \in Complex /\ B[k] \in Complex
      BY <1>3
    <3>2. Times(p, A[k]) = Times(B[i], Times(Conj(A[i]), A[k]))
      BY <2>5, <3>1, TimesIs
    <3>3. Times(Conj(A[i]), A[k]) = Times(Conj(B[i]), B[k])
      BY <1>4 DEF Turn
    <3>4. Times(B[i], Times(Conj(B[i]), B[k])) = Scaled(e, B[k])
      BY <2>5, <3>1, TimesIs
    <3> QED BY <3>2, <3>3, <3>4
  <2>9. Energy(Z) = R * Strength(B)
    <3> HIDE DEF p, e
    <3>1. e # 0
      BY <2>6
    <3> QED BY <3>1, <2>5, <2>6, <2>7, <2>8, Proportional
  <2> QED BY <2>2, <2>4, <2>9
<1>5. ASSUME R = Strength(B), R > 0, Energy(Z) = R * Strength(B)
      PROVE  Turn(A, B)
  <2>1. \A m \in 1 .. Len(A) : Times(Z, A[m]) = Scaled(R, B[m])
    BY <1>5, Schwarz
  <2>2. \E m \in 1 .. Len(A) : A[m] # Zero
    BY <1>2, <1>5
  <2>3. ASSUME NEW m \in 1 .. Len(A), NEW k \in 1 .. Len(A)
        PROVE  Times(Conj(B[m]), B[k]) = Times(Conj(A[m]), A[k])
    <3>1. A[m] \in Complex /\ A[k] \in Complex /\ B[m] \in Complex /\ B[k] \in Complex
      BY <1>3
    <3>2. /\ Times(Conj(B[m]), B[k]) \in Complex /\ Times(Conj(A[m]), A[k]) \in Complex
      BY <3>1, ComplexIs
    <3>3. Times(Conj(Scaled(R, B[m])), Scaled(R, B[k])) = Scaled(R * R, Times(Conj(B[m]), B[k]))
      <4> HIDE DEF R
      <4> QED BY <3>1, <1>2, TimesIs
    <3>4. Times(Conj(Times(Z, A[m])), Times(Z, A[k])) = Scaled(Energy(Z), Times(Conj(A[m]), A[k]))
      <4> HIDE DEF Z
      <4> QED BY <3>1, <1>1, TimesIs
    <3>5. Energy(Z) = R * R
      BY <1>5
    <3> HIDE DEF Z, R
    <3>6. Scaled(R * R, Times(Conj(B[m]), B[k])) = Scaled(R * R, Times(Conj(A[m]), A[k]))
      BY <3>3, <3>4, <3>5, <2>1
    <3>7. R * R \in Int /\ R * R # 0
      BY <1>2, <1>5
    <3> QED BY <3>2, <3>6, <3>7, TimesIs
  <2> QED BY <2>2, <2>3 DEF Turn
<1> QED BY <1>4, <1>5

LEMMA FactorIs ==
  ASSUME NEW A \in Seq(Complex), NEW B \in Seq(Complex), Len(A) = Len(B), Strength(A) > 0
  PROVE  Multiple(A, B) <=> /\ Strength(B) > 0
                            /\ Energy(Product(A, B)) = Strength(A) * Strength(B)
<1> DEFINE Z == Product(A, B)
           R == Strength(A)
<1>1. Z \in Complex
  BY ProductIs
<1>2. /\ R \in Int /\ (R = 0 <=> \A m \in 1 .. Len(A) : A[m] = Zero)
      /\ Strength(B) \in Int /\ Strength(B) >= 0
      /\ (Strength(B) = 0 <=> \A m \in 1 .. Len(A) : B[m] = Zero)
  BY TotalIs
<1>3. \A m \in 1 .. Len(A) : A[m] \in Complex /\ B[m] \in Complex
  OBVIOUS
<1>4. ASSUME Multiple(A, B)
      PROVE  Strength(B) > 0 /\ Energy(Z) = R * Strength(B)
  <2>1. PICK j \in 1 .. Len(A) : B[j] # Zero
    BY <1>4 DEF Multiple
  <2>2. PICK i \in 1 .. Len(A) : A[i] # Zero
    BY <1>2
  <2> DEFINE p == Times(B[i], Conj(A[i]))
             e == Energy(A[i])
  <2>3. /\ p \in Complex /\ Conj(A[i]) \in Complex /\ A[i] \in Complex /\ B[i] \in Complex
    BY <1>3, ComplexIs
  <2>4. e \in Int /\ e > 0
    BY <2>2, <2>3, EnergyOfSome
  <2>5. \A k \in 1 .. Len(A) : Times(p, A[k]) = Scaled(e, B[k])
    <3> SUFFICES ASSUME NEW k \in 1 .. Len(A) PROVE Times(p, A[k]) = Scaled(e, B[k])
      OBVIOUS
    <3>1. A[k] \in Complex /\ B[k] \in Complex /\ Times(B[i], A[k]) \in Complex
      BY <1>3, <2>3, ComplexIs
    <3>2. Times(p, A[k]) = Times(Conj(A[i]), Times(B[i], A[k]))
      <4>1. p = Times(Conj(A[i]), B[i])
        BY <2>3, TimesIs
      <4> QED BY <4>1, <2>3, <3>1, TimesIs
    <3>3. Times(B[i], A[k]) = Times(B[k], A[i])
      BY <1>4 DEF Multiple
    <3>4. Times(Conj(A[i]), Times(B[k], A[i])) = Times(A[i], Times(Conj(A[i]), B[k]))
      <4>1. Times(B[k], A[i]) = Times(A[i], B[k])
        BY <2>3, <3>1, TimesIs
      <4>2. Times(Conj(A[i]), Times(A[i], B[k])) = Times(Times(Conj(A[i]), A[i]), B[k])
        BY <2>3, <3>1, TimesIs
      <4>3. Times(Conj(A[i]), A[i]) = Times(A[i], Conj(A[i]))
        BY <2>3, TimesIs
      <4>4. Times(Times(A[i], Conj(A[i])), B[k]) = Times(A[i], Times(Conj(A[i]), B[k]))
        BY <2>3, <3>1, TimesIs
      <4> QED BY <4>1, <4>2, <4>3, <4>4
    <3>5. Times(A[i], Times(Conj(A[i]), B[k])) = Scaled(e, B[k])
      BY <2>3, <3>1, TimesIs
    <3> QED BY <3>2, <3>3, <3>4, <3>5
  <2>6. p # Zero
    <3> SUFFICES ASSUME p = Zero PROVE FALSE
      OBVIOUS
    <3>1. Scaled(e, B[j]) = Zero
      <4>1. Times(Zero, A[j]) = Zero
        BY <1>3, TimesIs
      <4> QED BY <4>1, <2>5
    <3>2. Scaled(e, Zero) = Zero
      BY <2>4 DEF Scaled, Zero
    <3>3. Zero \in Complex /\ B[j] \in Complex /\ e # 0
      BY <1>3, <2>4, ComplexIs
    <3> HIDE DEF e
    <3> QED BY <3>1, <3>2, <3>3, <2>1, <2>4, TimesIs
  <2>7. Energy(Z) = R * Strength(B)
    <3> HIDE DEF p, e
    <3>1. e # 0
      BY <2>4
    <3> QED BY <3>1, <2>3, <2>4, <2>5, <2>6, Proportional
  <2>8. Strength(B) > 0
    BY <2>1, <1>2
  <2> QED BY <2>7, <2>8
<1>5. ASSUME Strength(B) > 0, Energy(Z) = R * Strength(B)
      PROVE  Multiple(A, B)
  <2>1. \A m \in 1 .. Len(A) : Times(Z, A[m]) = Scaled(R, B[m])
    BY <1>5, Schwarz
  <2>2. \E m \in 1 .. Len(A) : B[m] # Zero
    BY <1>2, <1>5
  <2>3. ASSUME NEW m \in 1 .. Len(A), NEW k \in 1 .. Len(A)
        PROVE  Times(B[m], A[k]) = Times(B[k], A[m])
    <3>1. A[m] \in Complex /\ A[k] \in Complex /\ B[m] \in Complex /\ B[k] \in Complex
      BY <1>3
    <3>2. /\ Times(B[m], A[k]) \in Complex /\ Times(B[k], A[m]) \in Complex
      BY <3>1, ComplexIs
    <3> HIDE DEF Z, R
    <3>3. /\ Times(Scaled(R, B[m]), A[k]) = Scaled(R, Times(B[m], A[k]))
          /\ Times(Scaled(R, B[k]), A[m]) = Scaled(R, Times(B[k], A[m]))
      BY <3>1, <1>2, TimesIs
    <3>4. Times(Times(Z, A[m]), A[k]) = Times(Times(Z, A[k]), A[m])
      <4>1. /\ Times(Times(Z, A[m]), A[k]) = Times(Z, Times(A[m], A[k]))
            /\ Times(Times(Z, A[k]), A[m]) = Times(Z, Times(A[k], A[m]))
            /\ Times(A[m], A[k]) = Times(A[k], A[m])
        BY <3>1, <1>1, TimesIs
      <4> QED BY <4>1
    <3>5. Scaled(R, Times(B[m], A[k])) = Scaled(R, Times(B[k], A[m]))
      BY <3>3, <3>4, <2>1
    <3>6. R # 0
      BY <1>2 DEF R
    <3> QED BY <3>2, <3>5, <3>6, <1>2, TimesIs
  <2> QED BY <2>2, <2>3 DEF Multiple
<1> QED BY <1>4, <1>5

-----------------------------------------------------------------------------
(* Metrics                                                                 *)

IsMetric(a) == a.num \in Int /\ a.den \in Int /\ a.den > 0

\* At most 1
NoMoreThanOne(a) == IsMetric(a) /\ a.num <= a.den

LEMMA MetricIs ==
  ASSUME NEW num \in Int, NEW den \in Int, num >= 0, num <= den
  PROVE  /\ NoMoreThanOne(Metric(num, den))
         /\ IsOne(Metric(num, den)) <=> den > 0 /\ num = den
         /\ Metric(num, den).num > 0 => num > 0
  BY DEF NoMoreThanOne, IsMetric, IsOne, Metric

\* Not above is an order.
LEMMA AboveIs ==
  ASSUME NEW a, NEW b, NEW c, IsMetric(a), IsMetric(b), IsMetric(c)
  PROVE  /\ Above(a, b) /\ ~Above(c, b) => Above(a, c)
         /\ ~Above(a, b) /\ ~Above(c, a) => ~Above(c, b)
<1>1. \A x, y, t \in Int : t > 0 => (x * t > y * t <=> x > y)
  OBVIOUS
<1>2. PICK an, ad, bn, bd, cn, cd \in Int :
         /\ an = a.num /\ ad = a.den /\ bn = b.num /\ bd = b.den /\ cn = c.num /\ cd = c.den
         /\ ad > 0 /\ bd > 0 /\ cd > 0
  BY DEF IsMetric
<1>3. /\ an * bd > bn * ad <=> (an * bd) * cd > (bn * ad) * cd
      /\ cn * bd > bn * cd <=> (cn * bd) * ad > (bn * cd) * ad
      /\ an * cd > cn * ad <=> (an * cd) * bd > (cn * ad) * bd
      /\ cn * ad > an * cd <=> (cn * ad) * bd > (an * cd) * bd
  <2>1. PICK p, q, u, v, s, t \in Int : /\ p = an * bd /\ q = bn * ad /\ u = cn * bd
                                      /\ v = bn * cd /\ s = an * cd /\ t = cn * ad
    OBVIOUS
  <2>2. /\ p * cd > q * cd <=> p > q
        /\ u * ad > v * ad <=> u > v
        /\ s * bd > t * bd <=> s > t
        /\ t * bd > s * bd <=> t > s
    BY <1>1, <1>2
  <2> QED BY <2>1, <2>2
<1>4. /\ (an * bd) * cd = (an * cd) * bd /\ (bn * ad) * cd = (bn * cd) * ad
      /\ (cn * bd) * ad = (cn * ad) * bd
      /\ (an * bd) * cd \in Int /\ (bn * ad) * cd \in Int /\ (cn * bd) * ad \in Int
  OBVIOUS
<1>5. /\ Above(a, b) <=> an * bd > bn * ad
      /\ Above(c, b) <=> cn * bd > bn * cd
      /\ Above(a, c) <=> an * cd > cn * ad
      /\ Above(c, a) <=> cn * ad > an * cd
  BY <1>2 DEF Above
<1> DEFINE x == (an * bd) * cd  y == (bn * ad) * cd  z == (cn * bd) * ad
<1>6. x \in Int /\ y \in Int /\ z \in Int
  BY <1>4
<1>7. /\ Above(a, b) <=> x > y
      /\ Above(c, b) <=> z > y
      /\ Above(a, c) <=> x > z
      /\ Above(c, a) <=> z > x
  BY <1>3, <1>4, <1>5
<1> HIDE DEF x, y, z
<1> QED BY <1>6, <1>7

\* What has found the first of the highest has found what xp.argmax finds.
Highest(metric, i, n) ==
  /\ i \in 0 .. n
  /\ \A j \in 0 .. n : ~Above(metric[j], metric[i]) /\ (j < i => Above(metric[i], metric[j]))

LEMMA ArgMaxIs ==
  ASSUME NEW metric, NEW n \in Nat, DOMAIN metric = 0 .. n, NEW i, Highest(metric, i, n)
  PROVE  ArgMax(metric) = i
<1> DEFINE Is(k) == \A j \in DOMAIN metric :
                      ~Above(metric[j], metric[k]) /\ (j < k => Above(metric[k], metric[j]))
<1>1. i \in DOMAIN metric /\ Is(i)
  BY DEF Highest
<1>2. ASSUME NEW k \in DOMAIN metric, Is(k) PROVE k = i
  <2>1. k \in Int /\ i \in Int
    BY <1>1
  <2>2. ~(k < i) /\ ~(i < k)
    BY <1>1, <1>2
  <2> QED BY <2>1, <2>2
<1>3. ArgMax(metric) = CHOOSE k \in DOMAIN metric : Is(k)
  BY DEF ArgMax
<1> HIDE DEF Is
<1> QED BY <1>1, <1>2, <1>3

\* There always is one, and the search up to n + 1 keeps it or moves on.
LEMMA HighestNext ==
  ASSUME NEW metric, NEW n \in Nat, \A j \in 0 .. n + 1 : IsMetric(metric[j]),
         NEW i, Highest(metric, i, n)
  PROVE  Highest(metric, IF Above(metric[n + 1], metric[i]) THEN n + 1 ELSE i, n + 1)
<1>1. i \in 0 .. n /\ i \in 0 .. n + 1 /\ n + 1 \in 0 .. n + 1
  BY DEF Highest
<1>2. \A j \in 0 .. n + 1 : j \in 0 .. n \/ j = n + 1
  OBVIOUS
<1>3. \A j \in 0 .. n : ~Above(metric[j], metric[i]) /\ (j < i => Above(metric[i], metric[j]))
  BY DEF Highest
<1>4. \A a : IsMetric(a) => ~Above(a, a)
  BY DEF IsMetric, Above
<1>5. CASE Above(metric[n + 1], metric[i])
  <2>1. ASSUME NEW j \in 0 .. n PROVE Above(metric[n + 1], metric[j])
    <3>1. j \in 0 .. n + 1
      OBVIOUS
    <3> QED BY <1>1, <1>3, <1>5, <3>1, AboveIs
  <2>2. \A a, b : IsMetric(a) /\ IsMetric(b) /\ Above(a, b) => ~Above(b, a)
    <3> SUFFICES ASSUME NEW a, NEW b, IsMetric(a), IsMetric(b), Above(a, b) PROVE ~Above(b, a)
      OBVIOUS
    <3>1. PICK x, y \in Int : x = a.num * b.den /\ y = b.num * a.den
      BY DEF IsMetric
    <3>2. (Above(a, b) <=> x > y) /\ (Above(b, a) <=> y > x)
      BY <3>1 DEF Above
    <3> QED BY <3>1, <3>2
  <2>3. \A j \in 0 .. n : j \in 0 .. n + 1
    OBVIOUS
  <2>4. \A j \in 0 .. n + 1 : ~Above(metric[j], metric[n + 1])
    BY <1>1, <1>2, <1>4, <2>1, <2>2, <2>3
  <2>5. \A j \in 0 .. n + 1 : j < n + 1 => Above(metric[n + 1], metric[j])
    BY <1>2, <2>1
  <2> QED BY <1>1, <1>5, <2>4, <2>5 DEF Highest
<1>6. CASE ~Above(metric[n + 1], metric[i])
  <2>1. \A j \in 0 .. n + 1 : ~Above(metric[j], metric[i])
    BY <1>2, <1>3, <1>6
  <2>2. \A j \in 0 .. n + 1 : j < i => Above(metric[i], metric[j])
    BY <1>1, <1>2, <1>3
  <2> QED BY <1>1, <1>6, <2>1, <2>2 DEF Highest
<1> QED BY <1>5, <1>6

LEMMA HighestExists ==
  ASSUME NEW metric, NEW n \in Nat, \A j \in 0 .. n : IsMetric(metric[j])
  PROVE  \E i \in 0 .. n : Highest(metric, i, n)
<1> DEFINE N == {k \in Nat : k <= n => \E i \in 0 .. k : Highest(metric, i, k)}
<1>1. 0 \in N
  <2>1. IsMetric(metric[0])
    OBVIOUS
  <2>2. ~Above(metric[0], metric[0])
    BY <2>1 DEF IsMetric, Above
  <2>3. Highest(metric, 0, 0)
    BY <2>2 DEF Highest
  <2> QED BY <2>3
<1>2. ASSUME NEW k \in Nat, k \in N PROVE k + 1 \in N
  <2> SUFFICES ASSUME k + 1 <= n PROVE \E i \in 0 .. k + 1 : Highest(metric, i, k + 1)
    OBVIOUS
  <2>1. PICK i \in 0 .. k : Highest(metric, i, k)
    BY <1>2
  <2>2. \A j \in 0 .. k + 1 : IsMetric(metric[j])
    OBVIOUS
  <2> DEFINE next == IF Above(metric[k + 1], metric[i]) THEN k + 1 ELSE i
  <2>3. Highest(metric, next, k + 1)
    BY <2>1, <2>2, HighestNext
  <2>4. next \in 0 .. k + 1
    BY <2>1
  <2> QED BY <2>3, <2>4
<1>3. \A k \in Nat : k \in N
  <2> HIDE DEF N
  <2> QED BY <1>1, <1>2, SetInduction
<1> QED BY <1>3

\* The first of the highest, where none is above 1 and exactly those in `found`
\* are 1.
LEMMA FoundFirst ==
  ASSUME NEW metric, NEW n \in Nat, \A j \in 0 .. n : NoMoreThanOne(metric[j]),
         NEW i, Highest(metric, i, n)
  PROVE  Finds([at |-> i, metric |-> metric[i]], {j \in 0 .. n : IsOne(metric[j])})
<1> DEFINE found == {j \in 0 .. n : IsOne(metric[j])}
<1>1. i \in 0 .. n /\ NoMoreThanOne(metric[i])
  BY DEF Highest
<1>2. \A a : NoMoreThanOne(a) => ~Above(a, One)
  BY DEF NoMoreThanOne, IsMetric, Above, One
<1>3. \A a, b : NoMoreThanOne(a) /\ NoMoreThanOne(b) /\ IsOne(a) => (Above(a, b) <=> ~IsOne(b))
  <2> SUFFICES ASSUME NEW a, NEW b, NoMoreThanOne(a), NoMoreThanOne(b), IsOne(a)
               PROVE Above(a, b) <=> ~IsOne(b)
    OBVIOUS
  <2>1. PICK x, y, u \in Int : a.num = x /\ a.den = x /\ b.num = y /\ b.den = u /\ x > 0 /\ y <= u
    BY DEF NoMoreThanOne, IsMetric, IsOne
  <2>2. Above(a, b) <=> x * u > y * x
    BY <2>1 DEF Above
  <2>3. x * u > y * x <=> u > y
    BY <2>1
  <2> QED BY <2>1, <2>2, <2>3 DEF IsOne
<1>4. ASSUME NEW j \in found PROVE IsOne(metric[i]) /\ i <= j
  <2>1. j \in 0 .. n /\ IsOne(metric[j]) /\ NoMoreThanOne(metric[j])
    OBVIOUS
  <2>2. ~Above(metric[j], metric[i])
    BY <2>1 DEF Highest
  <2>3. IsOne(metric[i])
    BY <2>1, <2>2, <1>1, <1>3
  <2>4. ~Above(metric[i], metric[j])
    BY <2>1, <2>3, <1>1, <1>3
  <2>5. ~(j < i)
    BY <2>1, <2>4 DEF Highest
  <2> QED BY <2>1, <2>3, <2>5, <1>1
<1>5. IsOne(metric[i]) => i \in found
  BY <1>1
<1>6. IsOne(metric[i]) <=> found /= {}
  BY <1>4, <1>5
<1>7. found /= {} => i = First(found)
  <2> SUFFICES ASSUME found /= {} PROVE i = First(found)
    OBVIOUS
  <2>1. i \in found /\ \A e \in found : i <= e
    BY <1>4, <1>5, <1>6
  <2>2. ASSUME NEW c \in found, \A e \in found : c <= e PROVE c = i
    <3>1. c <= i /\ i <= c /\ c \in Int /\ i \in Int
      BY <2>1, <2>2, <1>1
    <3> QED BY <3>1
  <2>3. First(found) = CHOOSE c \in found : \A e \in found : c <= e
    BY DEF First
  <2> HIDE DEF found
  <2> QED BY <2>1, <2>2, <2>3
<1> HIDE DEF found
<1> QED BY <1>1, <1>2, <1>6, <1>7 DEF Finds, found

-----------------------------------------------------------------------------
(* The searches                                                            *)

LEMMA LengthsIs ==
  FftLen \in Nat /\ HalfLen \in Nat /\ HalfLen > 0 /\ FftLen = 2 * HalfLen
  BY AcquisitionAssumption DEF HalfLen

Captures == {s \in Seq(Complex) : Len(s) >= FftLen}

LEMMA RxIs ==
  ASSUME clean \in Clean, turn \in Turns
  PROVE  rx \in Captures /\ Len(rx) = Len(clean) /\ clean \in Captures
<1>1. clean \in Seq(Complex) /\ Len(clean) >= FftLen /\ turn \in 0 .. 3
  BY AcquisitionAssumption
<1>2. Len(clean) \in Nat /\ DOMAIN clean = 1 .. Len(clean)
      /\ \A n \in 1 .. Len(clean) : clean[n] \in Complex
  BY <1>1
<1>3. \A n \in 1 .. Len(clean) : Turned(clean[n], turn * (n - 1)) \in Complex
  <2>1. \A n \in 1 .. Len(clean) : turn * (n - 1) \in Int
    BY <1>1, <1>2
  <2> QED BY <2>1, <1>2, ComplexIs
<1>4. rx = [n \in 1 .. Len(clean) |-> Turned(clean[n], turn * (n - 1))]
  BY <1>2 DEF rx, Captured
<1>5. rx \in Seq(Complex) /\ Len(rx) = Len(clean)
  BY <1>2, <1>3, <1>4
<1> QED BY <1>1, <1>5 DEF Captures

Span(s, c, n) == [m \in 1 .. n |-> s[c + m]]

LEMMA SpanIs ==
  ASSUME NEW s \in Seq(Complex), NEW c \in Nat, NEW n \in Nat, c + n <= Len(s)
  PROVE  /\ Span(s, c, n) \in Seq(Complex) /\ Len(Span(s, c, n)) = n
         /\ Strength(Span(s, c, n)) = CumSum(Energies(s))[c + n] - CumSum(Energies(s))[c]
<1>1. Len(s) \in Nat /\ \A m \in 1 .. n : c + m \in 1 .. Len(s) /\ s[c + m] \in Complex
  OBVIOUS
<1>2. Span(s, c, n) \in Seq(Complex) /\ Len(Span(s, c, n)) = n
  BY <1>1 DEF Span
<1>3. /\ Energies(s) \in Seq(Int) /\ Len(Energies(s)) = Len(s)
      /\ \A m \in 1 .. Len(s) : Energies(s)[m] = Energy(s[m])
  BY EnergiesIs
<1> DEFINE w == [m \in 1 .. n |-> Energies(s)[c + m]]
<1>4. Energies(Span(s, c, n)) = w
  BY <1>1, <1>2, <1>3 DEF Energies, Span
<1>5. \A k \in 0 .. n : CumSum(w)[k] = CumSum(Energies(s))[c + k] - CumSum(Energies(s))[c]
  BY <1>3, WindowSum
<1> HIDE DEF w
<1>6. n \in 0 .. n
  OBVIOUS
<1> QED BY <1>2, <1>4, <1>5, <1>6 DEF Strength

Lags(s) == [m \in 1 .. Len(s) - HalfLen |-> Times(Conj(s[m]), s[m + HalfLen])]

\* The sums at candidate c, from the prefix sums.
Window(s, c) ==
  [p |-> Difference(CumSumComplex(Lags(s))[c + HalfLen], CumSumComplex(Lags(s))[c]),
   r1 |-> CumSum(Energies(s))[c + HalfLen] - CumSum(Energies(s))[c],
   r2 |-> CumSum(Energies(s))[c + 2 * HalfLen] - CumSum(Energies(s))[c + HalfLen]]

Places(s) == 0 .. Len(s) - 2 * HalfLen

LEMMA LagsIs ==
  ASSUME NEW s \in Captures
  PROVE  /\ s \in Seq(Complex) /\ Len(s) \in Nat /\ Len(s) >= 2 * HalfLen
         /\ Lags(s) \in Seq(Complex) /\ Len(Lags(s)) = Len(s) - HalfLen
         /\ \A m \in 1 .. Len(s) - HalfLen : Lags(s)[m] = Times(Conj(s[m]), s[m + HalfLen])
<1>1. s \in Seq(Complex) /\ Len(s) \in Nat /\ Len(s) >= 2 * HalfLen
  BY LengthsIs DEF Captures
<1>2. \A m \in 1 .. Len(s) - HalfLen : m \in 1 .. Len(s) /\ m + HalfLen \in 1 .. Len(s)
  BY <1>1, LengthsIs
<1>3. \A m \in 1 .. Len(s) : s[m] \in Complex
  BY <1>1
<1>4. \A m \in 1 .. Len(s) - HalfLen : Times(Conj(s[m]), s[m + HalfLen]) \in Complex
  BY <1>2, <1>3, ComplexIs
<1>5. Len(s) - HalfLen \in Nat
  BY <1>1, LengthsIs
<1>6. Lags(s) \in Seq(Complex) /\ Len(Lags(s)) = Len(s) - HalfLen
  BY <1>4, <1>5 DEF Lags
<1> QED BY <1>1, <1>6 DEF Lags

\* The sums over the two halves
LEMMA WindowIs ==
  ASSUME NEW s \in Captures, NEW c \in Places(s)
  PROVE  LET A == Span(s, c, HalfLen)
             B == Span(s, c + HalfLen, HalfLen)
         IN  /\ A \in Seq(Complex) /\ B \in Seq(Complex) /\ Len(A) = HalfLen /\ Len(B) = HalfLen
             /\ Window(s, c) = [p |-> Product(A, B), r1 |-> Strength(A), r2 |-> Strength(B)]
             /\ Correlation(s, c) = Product(A, B)
<1> DEFINE L == HalfLen
           A == Span(s, c, L)
           B == Span(s, c + L, L)
<1>1. /\ s \in Seq(Complex) /\ Len(s) \in Nat /\ Len(s) >= 2 * L
      /\ Lags(s) \in Seq(Complex) /\ Len(Lags(s)) = Len(s) - L
      /\ \A m \in 1 .. Len(s) - L : Lags(s)[m] = Times(Conj(s[m]), s[m + L])
  BY LagsIs
<1>2. /\ c \in Nat /\ c + L \in Nat /\ L \in Nat /\ c + L <= Len(s) /\ (c + L) + L <= Len(s)
      /\ c + L <= Len(s) - L /\ (c + L) + L = c + 2 * L
  BY <1>1, LengthsIs DEF Places
<1>3. /\ A \in Seq(Complex) /\ Len(A) = L
      /\ Strength(A) = CumSum(Energies(s))[c + L] - CumSum(Energies(s))[c]
  BY <1>1, <1>2, SpanIs
<1>4. /\ B \in Seq(Complex) /\ Len(B) = L
      /\ Strength(B) = CumSum(Energies(s))[(c + L) + L] - CumSum(Energies(s))[c + L]
  BY <1>1, <1>2, SpanIs
<1>5. /\ \A m \in 1 .. L : A[m] = s[c + m] /\ B[m] = s[c + L + m]
  BY DEF Span
<1> DEFINE w == [m \in 1 .. L |-> Lags(s)[c + m]]
<1>6. w = [m \in 1 .. L |-> Times(Conj(s[c + m]), s[c + L + m])]
  <2>1. \A m \in 1 .. L : c + m \in 1 .. Len(s) - L /\ (c + m) + L = c + L + m
    BY <1>2
  <2>2. \A m \in 1 .. L : Lags(s)[c + m] = Times(Conj(s[c + m]), s[c + L + m])
    BY <1>1, <2>1
  <2> QED BY <2>2
<1>7. Products(A, B) = w
  BY <1>3, <1>5, <1>6 DEF Products
<1>8. CumSumComplex(w)[L] = Difference(CumSumComplex(Lags(s))[c + L], CumSumComplex(Lags(s))[c])
  <2>1. \A k \in 0 .. L : CumSumComplex(w)[k] =
           Difference(CumSumComplex(Lags(s))[c + k], CumSumComplex(Lags(s))[c])
    BY <1>1, <1>2, WindowSumComplex
  <2>2. L \in 0 .. L
    BY <1>2
  <2> QED BY <2>1, <2>2
<1>9. Correlation(s, c) = CumSumComplex(w)[L]
  BY <1>6 DEF Correlation
<1> HIDE DEF w
<1>10. Product(A, B) = CumSumComplex(w)[L]
  BY <1>3, <1>7 DEF Product
<1> QED BY <1>2, <1>3, <1>4, <1>8, <1>9, <1>10 DEF Window

LEMMA FirstWindowIs ==
  ASSUME NEW s \in Captures
  PROVE  FirstWindow(s) = Window(s, 0) /\ 0 \in Places(s)
<1> DEFINE L == HalfLen
           A == Span(s, 0, L)
           B == Span(s, 0 + L, L)
<1>0. L \in Nat /\ Len(s) \in Nat /\ Len(s) >= 2 * L
  BY LengthsIs, LagsIs
<1>1. 0 \in Places(s)
  BY <1>0 DEF Places
<1>2. /\ Len(A) = L /\ Len(B) = L
      /\ Window(s, 0) = [p |-> Product(A, B), r1 |-> Strength(A), r2 |-> Strength(B)]
  BY <1>1, WindowIs
<1>3. \A m \in 1 .. L : A[m] = s[m] /\ B[m] = s[m + L]
  BY <1>0 DEF Span
<1> HIDE DEF A, B
<1>4. Products(A, B) = [m \in 1 .. L |-> Times(Conj(s[m]), s[m + L])]
  BY <1>2, <1>3 DEF Products
<1>5. Energies(A) = [m \in 1 .. L |-> Energy(s[m])]
  BY <1>2, <1>3 DEF Energies
<1>6. Energies(B) = [m \in 1 .. L |-> Energy(s[m + L])]
  BY <1>2, <1>3 DEF Energies
<1> QED BY <1>1, <1>2, <1>4, <1>5, <1>6 DEF FirstWindow, Product, Strength

LEMMA NextWindowIs ==
  ASSUME rx \in Captures, NEW c \in Nat, c + 1 \in Places(rx)
  PROVE  NextWindow(Window(rx, c), c + 1) = Window(rx, c + 1)
<1> DEFINE L == HalfLen
           S == CumSumComplex(Lags(rx))
           T == CumSum(Energies(rx))
           gone == rx[c + 1]
           mid == rx[c + 1 + L]
           new == rx[c + 1 + 2 * L]
<1>0. /\ L \in Nat /\ L > 0 /\ rx \in Seq(Complex) /\ Len(rx) \in Nat /\ Len(rx) >= 2 * L
      /\ c + 1 <= Len(rx) - 2 * L
  BY LengthsIs, LagsIs DEF Places
<1>1. /\ Lags(rx) \in Seq(Complex) /\ Len(Lags(rx)) = Len(rx) - L
      /\ \A m \in 1 .. Len(rx) - L : Lags(rx)[m] = Times(Conj(rx[m]), rx[m + L])
  BY LagsIs
<1>2. /\ \A k \in 0 .. Len(rx) - L : S[k] \in Complex
      /\ \A k \in 1 .. Len(rx) - L : S[k] = Plus(S[k - 1], Times(Conj(rx[k]), rx[k + L]))
  BY <1>1, CumSumComplexIs
<1>3. /\ \A k \in 0 .. Len(rx) : T[k] \in Int
      /\ \A k \in 1 .. Len(rx) : T[k] = T[k - 1] + Energy(rx[k])
  <2>1. /\ Energies(rx) \in Seq(Int) /\ Len(Energies(rx)) = Len(rx)
        /\ \A m \in 1 .. Len(rx) : Energies(rx)[m] = Energy(rx[m])
    BY <1>0, EnergiesIs
  <2> QED BY <2>1, CumSumIs
<1> HIDE DEF S, T
<1>4. /\ c + 1 \in 1 .. Len(rx) - L /\ c \in 0 .. Len(rx) - L /\ (c + 1) - 1 = c
      /\ c + 1 + L \in 1 .. Len(rx) - L /\ (c + 1 + L) - 1 = c + L /\ c + L \in 0 .. Len(rx) - L
      /\ (c + 1 + L) + L = c + 1 + 2 * L
      /\ c + 1 \in 1 .. Len(rx) /\ c + 1 + L \in 1 .. Len(rx) /\ c + 1 + 2 * L \in 1 .. Len(rx)
      /\ (c + 1 + 2 * L) - 1 = c + 2 * L
      /\ c \in 0 .. Len(rx) /\ c + L \in 0 .. Len(rx) /\ c + 2 * L \in 0 .. Len(rx)
  BY <1>0
<1>5. gone \in Complex /\ mid \in Complex /\ new \in Complex
  BY <1>0, <1>4
<1>6. /\ S[c + 1 + L] = Plus(S[c + L], Times(Conj(mid), new))
      /\ S[c + 1] = Plus(S[c], Times(Conj(gone), mid))
      /\ S[c] \in Complex /\ S[c + L] \in Complex
  BY <1>2, <1>4
<1>7. /\ T[c + 1] = T[c] + Energy(gone) /\ T[c + 1 + L] = T[c + L] + Energy(mid)
      /\ T[c + 1 + 2 * L] = T[c + 2 * L] + Energy(new)
      /\ T[c] \in Int /\ T[c + L] \in Int /\ T[c + 2 * L] \in Int
  BY <1>3, <1>4
<1>8. NextWindow(Window(rx, c), c + 1) =
         [p |-> Plus(Difference(S[c + L], S[c]), Difference(Times(Conj(mid), new), Times(Conj(gone), mid))),
          r1 |-> (T[c + L] - T[c]) + Energy(mid) - Energy(gone),
          r2 |-> (T[c + 2 * L] - T[c + L]) + Energy(new) - Energy(mid)]
  BY DEF NextWindow, Window, S, T
<1>9. Window(rx, c + 1) =
         [p |-> Difference(S[c + 1 + L], S[c + 1]), r1 |-> T[c + 1 + L] - T[c + 1],
          r2 |-> T[c + 1 + 2 * L] - T[c + 1 + L]]
  BY DEF Window, S, T
<1> HIDE DEF gone, mid, new
<1>10. \A a, b, u, v \in Complex :
          Plus(Difference(a, b), Difference(u, v)) = Difference(Plus(a, u), Plus(b, v))
  <2> SUFFICES ASSUME NEW a \in Complex, NEW b \in Complex, NEW u \in Complex, NEW v \in Complex
               PROVE Plus(Difference(a, b), Difference(u, v)) = Difference(Plus(a, u), Plus(b, v))
    OBVIOUS
  <2> QED BY ComplexIs DEF Plus, Difference
<1>11. Times(Conj(mid), new) \in Complex /\ Times(Conj(gone), mid) \in Complex
       /\ Energy(gone) \in Int /\ Energy(mid) \in Int /\ Energy(new) \in Int
  BY <1>5, ComplexIs
<1>12. Plus(Difference(S[c + L], S[c]), Difference(Times(Conj(mid), new), Times(Conj(gone), mid)))
         = Difference(S[c + 1 + L], S[c + 1])
  BY <1>6, <1>10, <1>11
<1>13. /\ (T[c + L] - T[c]) + Energy(mid) - Energy(gone) = T[c + 1 + L] - T[c + 1]
       /\ (T[c + 2 * L] - T[c + L]) + Energy(new) - Energy(mid) = T[c + 1 + 2 * L] - T[c + 1 + L]
  BY <1>7, <1>11
<1> QED BY <1>8, <1>9, <1>12, <1>13

Score(s, c) == SumsOf(Window(s, c))

\* No candidate scores above 1, and what is alike scores 1, and nothing else.
LEMMA ScoreIs ==
  ASSUME NEW s \in Captures, NEW c \in Places(s)
  PROVE  /\ NoMoreThanOne(Score(s, c))
         /\ IsOne(Score(s, c)) <=> HalvesAlike(s, c)
         /\ Score(s, c).num > 0 => Energy(Correlation(s, c)) > 0
<1> DEFINE A == Span(s, c, HalfLen)
           B == Span(s, c + HalfLen, HalfLen)
           E == Energy(Product(A, B))
           R == Strength(A)
           Q == Strength(B)
<1>1. /\ A \in Seq(Complex) /\ B \in Seq(Complex) /\ Len(A) = HalfLen /\ Len(B) = HalfLen
      /\ Window(s, c) = [p |-> Product(A, B), r1 |-> Strength(A), r2 |-> Strength(B)]
      /\ Correlation(s, c) = Product(A, B)
  BY WindowIs
<1>2. \A m \in 1 .. HalfLen : A[m] = s[c + m] /\ B[m] = s[c + HalfLen + m]
  BY DEF Span
<1> HIDE DEF A, B
<1>3. E \in Int /\ E >= 0
  <2>1. Product(A, B) \in Complex
    BY <1>1, ProductIs
  <2> QED BY <2>1, ComplexIs, EnergyIs
<1>4. R \in Int /\ R >= 0 /\ Q \in Int /\ Q >= 0
  BY <1>1, TotalIs
<1>5. E <= R * Q
  BY <1>1, Schwarz
<1>6. HalvesAlike(s, c) <=> R = Q /\ R > 0 /\ E = R * Q
  <2>1. HalvesAlike(s, c) <=> Turn(A, B)
    BY <1>1, <1>2 DEF HalvesAlike, Silent, Turn, Zero
  <2> QED BY <2>1, <1>1, TurnIs
<1>7. Score(s, c) = Metric(4 * E, (R + Q) * (R + Q))
  BY <1>1 DEF Score, SumsOf, TimingMetric, BothHalves
<1>8. E = Energy(Correlation(s, c))
  BY <1>1
<1> HIDE DEF E, R, Q
<1> DEFINE num == 4 * E
           den == (R + Q) * (R + Q)
           g == R * Q
           h == (R - Q) * (R - Q)
<1>9. num \in Int /\ den \in Int /\ num >= 0 /\ g \in Int /\ h \in Int /\ h >= 0
      /\ den = 4 * g + h /\ num <= 4 * g
  <2>1. g \in Int /\ h \in Int /\ den \in Int
    BY <1>4
  <2>2. \A x \in Int : x * x >= 0
    OBVIOUS
  <2>3. h >= 0
    BY <2>2, <1>4
  <2>4. den = 4 * g + h
    BY <1>4
  <2>5. num \in Int /\ num >= 0 /\ num <= 4 * g
    <3> HIDE DEF h, den
    <3> QED BY <1>3, <1>5, <2>1
  <2> QED BY <2>1, <2>3, <2>4, <2>5
<1>10. h = 0 <=> R = Q
  <2>1. \A x \in Int : x * x = 0 <=> x = 0
    OBVIOUS
  <2>2. R - Q \in Int /\ (R - Q = 0 <=> R = Q)
    BY <1>4
  <2> QED BY <2>1, <2>2
<1>11. R = Q => (den > 0 <=> R > 0)
  <2> SUFFICES ASSUME R = Q PROVE den > 0 <=> R > 0
    OBVIOUS
  <2>1. den = 4 * (R * R)
    BY <1>4
  <2>2. R > 0 <=> R * R > 0
    BY <1>4
  <2>3. R * R \in Int
    BY <1>4
  <2> HIDE DEF den
  <2> QED BY <2>1, <2>2, <2>3
<1>12. Score(s, c) = Metric(num, den)
  BY <1>7
<1>13. E = g <=> num = 4 * g
  BY <1>3, <1>9
<1> HIDE DEF num, den, g, h
<1>14. num <= den
  BY <1>9
<1>15. /\ NoMoreThanOne(Metric(num, den))
       /\ IsOne(Metric(num, den)) <=> den > 0 /\ num = den
       /\ Metric(num, den).num > 0 => num > 0
  BY <1>9, <1>14, MetricIs
<1>16. num = den <=> h = 0 /\ num = 4 * g
  BY <1>9
<1>17. IsOne(Score(s, c)) <=> R = Q /\ R > 0 /\ E = g
  BY <1>10, <1>11, <1>12, <1>13, <1>15, <1>16
<1>18. num > 0 => E > 0
  BY <1>3 DEF num
<1> QED BY <1>6, <1>8, <1>12, <1>15, <1>17, <1>18 DEF g

LEMMA ArraySearchIs ==
  ASSUME NEW s \in Captures, NEW metric, \A c \in Places(s) : metric[c] = Score(s, c),
         NEW i, Highest(metric, i, Len(s) - 2 * HalfLen)
  PROVE  ArraySearch(s) = [at |-> i, metric |-> metric[i]]
<1> DEFINE L == HalfLen
           n == Len(s)
           T == CumSum(Energies(s))
           b2Cum == [m \in 0 .. n - L |-> T[L + m] - T[L]]
           S == CumSumComplex(Lags(s))
           scores == [c \in 0 .. n - 2 * L |->
                         TimingMetric(Difference(S[c + L], S[c]), T[c + L] - T[c], b2Cum[c + L] - b2Cum[c])]
<1>0. L \in Nat /\ L > 0 /\ s \in Seq(Complex) /\ n \in Nat /\ n >= 2 * L /\ n - 2 * L \in Nat
  BY LengthsIs, LagsIs
<1>1. ArraySearch(s) = [at |-> ArgMax(scores), metric |-> scores[ArgMax(scores)]]
  BY DEF ArraySearch, Lags, Energies
<1>2. \A k \in 0 .. n : T[k] \in Int
  <2>1. Energies(s) \in Seq(Int) /\ Len(Energies(s)) = n
    BY <1>0, EnergiesIs
  <2> QED BY <2>1, CumSumIs
<1> HIDE DEF T, S
<1>3. ASSUME NEW c \in 0 .. n - 2 * L PROVE scores[c] = metric[c]
  <2>1. /\ c + L \in 0 .. n - L /\ c \in 0 .. n - L
        /\ L + (c + L) = c + 2 * L /\ L + c = c + L
        /\ c + 2 * L \in 0 .. n /\ c + L \in 0 .. n /\ L \in 0 .. n
    BY <1>0
  <2>2. b2Cum[c + L] = T[c + 2 * L] - T[L] /\ b2Cum[c] = T[c + L] - T[L]
    BY <2>1
  <2>3. b2Cum[c + L] - b2Cum[c] = T[c + 2 * L] - T[c + L]
    BY <2>1, <2>2, <1>2
  <2> HIDE DEF b2Cum
  <2>4. scores[c] = TimingMetric(Difference(S[c + L], S[c]), T[c + L] - T[c], T[c + 2 * L] - T[c + L])
    BY <2>3
  <2>5. metric[c] = Score(s, c)
    BY DEF Places
  <2> QED BY <2>4, <2>5 DEF Score, SumsOf, Window, S, T
<1>4. DOMAIN scores = 0 .. n - 2 * L
  OBVIOUS
<1> HIDE DEF scores
<1>5. Highest(scores, i, n - 2 * L)
  BY <1>3 DEF Highest
<1>6. ArgMax(scores) = i
  BY <1>0, <1>4, <1>5, ArgMaxIs
<1>7. scores[i] = metric[i]
  BY <1>3 DEF Highest
<1> QED BY <1>1, <1>6, <1>7

\* The search by the template finds the first of its multiples.
LEMMA TemplateSearchIs ==
  ASSUME NEW s \in Captures
  PROVE  Finds(TemplateSearch(s), {c \in 0 .. Len(s) - FftLen : TemplateAt(s, c)})
<1> DEFINE n == Len(s)
           T == CumSum(Energies(s))
           U == Strength(Template)
           y(c) == CumSumComplex([m \in 1 .. FftLen |-> Times(Conj(Template[m]), s[c + m])])[FftLen]
           metric == [c \in 0 .. n - FftLen |-> Metric(Energy(y(c)), (T[c + FftLen] - T[c]) * U)]
<1>0. /\ FftLen \in Nat /\ FftLen > 0 /\ s \in Seq(Complex) /\ n \in Nat /\ n - FftLen \in Nat
  BY LengthsIs DEF Captures
<1>1. /\ Template \in Seq(Complex) /\ Len(Template) = FftLen
      /\ \A m \in 1 .. FftLen : Template[m] \in Complex /\ Template[m] # Zero
  <2>1. Template \in Seq(Complex \ {<< 0, 0 >>}) /\ Len(Template) = FftLen
    BY AcquisitionAssumption
  <2>2. \A m \in 1 .. FftLen : Template[m] \in Complex /\ Template[m] # Zero
    <3>1. \A V : \A t \in Seq(V) : \A m \in 1 .. Len(t) : t[m] \in V
      OBVIOUS
    <3>2. \A m \in 1 .. FftLen : Template[m] \in Complex \ {<< 0, 0 >>}
      BY <2>1, <3>1
    <3> QED BY <3>2 DEF Zero
  <2>3. Template \in Seq(Complex)
    BY <2>1
  <2> QED BY <2>1, <2>2, <2>3
<1>2. TemplateSearch(s) = [at |-> ArgMax(metric), metric |-> metric[ArgMax(metric)]]
  BY <1>1 DEF TemplateSearch, Strength, Energies
<1>3. U \in Int /\ U > 0
  <2>1. U \in Int /\ U >= 0 /\ (U = 0 <=> \A m \in 1 .. FftLen : Template[m] = Zero)
    BY <1>1, TotalIs
  <2>2. 1 \in 1 .. FftLen
    BY <1>0
  <2> QED BY <2>1, <2>2, <1>1
<1>4. ASSUME NEW c \in 0 .. n - FftLen
      PROVE  NoMoreThanOne(metric[c]) /\ (IsOne(metric[c]) <=> TemplateAt(s, c))
  <2> DEFINE B == Span(s, c, FftLen)
             E == Energy(Product(Template, B))
             Q == Strength(B)
  <2>1. c \in Nat /\ c + FftLen <= n
    BY <1>0
  <2>2. B \in Seq(Complex) /\ Len(B) = FftLen /\ Q = T[c + FftLen] - T[c]
    BY <2>1, <1>0, SpanIs
  <2>3. \A m \in 1 .. FftLen : B[m] = s[c + m]
    BY DEF Span
  <2>4. y(c) = Product(Template, B)
    <3>1. Products(Template, B) = [m \in 1 .. FftLen |-> Times(Conj(Template[m]), s[c + m])]
      BY <1>1, <2>3 DEF Products
    <3> QED BY <3>1, <1>1 DEF Product
  <2> HIDE DEF B
  <2>5. E \in Int /\ E >= 0
    <3>1. Product(Template, B) \in Complex
      BY <1>1, <2>2, ProductIs
    <3> QED BY <3>1, ComplexIs, EnergyIs
  <2>6. Q \in Int /\ Q >= 0
    BY <2>2, TotalIs
  <2>7. E <= U * Q
    BY <1>1, <2>2, Schwarz
  <2>8. TemplateAt(s, c) <=> Q > 0 /\ E = U * Q
    <3>1. TemplateAt(s, c) <=> Multiple(Template, B)
      <4>1. ~Silent(s, c, FftLen) <=> \E m \in 1 .. FftLen : B[m] # Zero
        BY <2>3 DEF Silent, Zero
      <4>2. ASSUME NEW m \in 1 .. FftLen, NEW k \in 1 .. FftLen
            PROVE  Times(s[c + m], Template[k]) = Times(s[c + k], Template[m])
                     <=> Times(B[m], Template[k]) = Times(B[k], Template[m])
        BY <2>3
      <4> QED BY <1>1, <4>1, <4>2 DEF TemplateAt, Multiple
    <3> QED BY <3>1, <1>1, <1>3, <2>2, FactorIs
  <2>9. metric[c] = Metric(E, Q * U)
    BY <2>2, <2>4
  <2> HIDE DEF E, Q, U, metric
  <2>10. U * Q = Q * U /\ Q * U \in Int
    BY <1>3, <2>6
  <2>11. Q * U > 0 <=> Q > 0
    BY <1>3, <2>6
  <2>12. /\ NoMoreThanOne(Metric(E, Q * U))
         /\ IsOne(Metric(E, Q * U)) <=> Q * U > 0 /\ E = Q * U
    BY <2>5, <2>7, <2>10, MetricIs
  <2> QED BY <2>8, <2>9, <2>10, <2>11, <2>12
<1>5. DOMAIN metric = 0 .. n - FftLen
  OBVIOUS
<1> HIDE DEF metric, y
<1>6. PICK i \in 0 .. n - FftLen : Highest(metric, i, n - FftLen)
  <2>1. \A j \in 0 .. n - FftLen : IsMetric(metric[j])
    BY <1>4 DEF NoMoreThanOne
  <2> QED BY <2>1, <1>0, HighestExists
<1>7. ArgMax(metric) = i
  BY <1>0, <1>5, <1>6, ArgMaxIs
<1>8. Finds([at |-> i, metric |-> metric[i]], {j \in 0 .. n - FftLen : IsOne(metric[j])})
  BY <1>0, <1>4, <1>6, FoundFirst
<1>9. {j \in 0 .. n - FftLen : IsOne(metric[j])} = {c \in 0 .. n - FftLen : TemplateAt(s, c)}
  BY <1>4
<1> QED BY <1>2, <1>7, <1>8, <1>9

-----------------------------------------------------------------------------
(* The receiver                                                            *)

SearchType ==
  /\ clean \in Clean /\ turn \in Turns
  /\ pc \in {"search", "missed", "correct", "done"}
  /\ d \in Places(rx)

\* Up to candidate d, the kernel has found the first of the highest.
SlidInv ==
  /\ sums = Window(rx, d)
  /\ Highest([c \in Places(rx) |-> Score(rx, c)], best.at, d)
  /\ best = [at |-> best.at, metric |-> Score(rx, best.at)]

SearchInv == SearchType /\ SlidInv

LEMMA FindsItIs ==
  ASSUME NEW s \in Captures, NEW n \in Nat, n \in Places(s), NEW i,
         Highest([c \in Places(s) |-> Score(s, c)], i, n)
  PROVE  i \in Places(s) /\ IsMetric(Score(s, i))
<1>1. i \in 0 .. n
  BY DEF Highest
<1>2. i \in Places(s)
  BY <1>1, LagsIs, LengthsIs DEF Places
<1> QED BY <1>2, ScoreIs DEF NoMoreThanOne

LEMMA SearchInvHolds == SearchSpec => []SearchInv
<1>1. SearchInit => SearchInv
  <2> SUFFICES ASSUME SearchInit PROVE SearchInv
    OBVIOUS
  <2>1. rx \in Captures
    BY RxIs DEF SearchInit
  <2>2. sums = Window(rx, 0) /\ 0 \in Places(rx)
    BY <2>1, FirstWindowIs DEF SearchInit
  <2> DEFINE scores == [c \in Places(rx) |-> Score(rx, c)]
  <2>3. scores[0] = Score(rx, 0) /\ IsMetric(Score(rx, 0))
    BY <2>1, <2>2, ScoreIs DEF NoMoreThanOne
  <2>4. ~Above(scores[0], scores[0])
    BY <2>3 DEF IsMetric, Above
  <2>5. Highest(scores, 0, 0)
    BY <2>4 DEF Highest
  <2>6. best = [at |-> 0, metric |-> Score(rx, 0)]
    BY <2>2 DEF SearchInit, Score
  <2>7. SearchType
    BY <2>2 DEF SearchInit, SearchType
  <2> QED BY <2>2, <2>5, <2>6, <2>7 DEF SearchInit, SearchInv, SlidInv
<1>2. SearchInv /\ [SearchNext]_searchVars => SearchInv'
  <2> SUFFICES ASSUME SearchInv, [SearchNext]_searchVars PROVE SearchInv'
    OBVIOUS
  <2> USE DEF SearchInv
  <2>0. rx \in Captures
    BY RxIs DEF SearchType
  <2>1. ASSUME UNCHANGED << clean, turn >> PROVE rx' = rx
    BY <2>1 DEF rx
  <2>2. ASSUME UNCHANGED << clean, turn, sums, d, best >>,
               pc' \in {"search", "missed", "correct", "done"}
        PROVE  SearchInv'
    <3>1. rx' = rx
      BY <2>1, <2>2
    <3>2. SearchType'
      BY <2>2, <3>1 DEF SearchType, Places
    <3>3. SlidInv'
      BY <2>2, <3>1 DEF SlidInv, Window, Score, Places, Lags
    <3> QED BY <3>2, <3>3
  <2>3. CASE Slide
    <3>1. rx' = rx
      BY <2>1, <2>3 DEF Slide
    <3>2. d \in Nat /\ d + 1 \in Places(rx) /\ d' = d + 1
      <4>1. d < Len(rx) - 2 * HalfLen /\ Len(rx) \in Nat /\ HalfLen \in Nat
        BY <2>0, <2>3, LagsIs, LengthsIs DEF Slide
      <4> QED BY <4>1, <2>3 DEF Slide, SearchType, Places
    <3>3. sums' = Window(rx, d + 1)
      BY <2>0, <2>3, <3>2, NextWindowIs DEF Slide, SlidInv
    <3> DEFINE scores == [c \in Places(rx) |-> Score(rx, c)]
               i == best.at
    <3>4. Highest(scores, i, d)
      BY DEF SlidInv
    <3>5. i \in Places(rx)
      BY <2>0, <3>2, <3>4, FindsItIs DEF SearchType
    <3>6. \A j \in 0 .. d + 1 : j \in Places(rx)
      BY <3>2, <2>0, LagsIs, LengthsIs DEF Places
    <3>7. \A j \in 0 .. d + 1 : IsMetric(scores[j])
      BY <2>0, <3>6, ScoreIs DEF NoMoreThanOne
    <3>8. Highest(scores, IF Above(scores[d + 1], scores[i]) THEN d + 1 ELSE i, d + 1)
      <4> HIDE DEF scores, i
      <4> QED BY <3>2, <3>4, <3>7, HighestNext
    <3>9. scores[d + 1] = Score(rx, d + 1) /\ scores[i] = Score(rx, i) /\ best.metric = Score(rx, i)
      BY <3>2, <3>5 DEF SlidInv
    <3>10. best' = IF Above(scores[d + 1], scores[i]) THEN [at |-> d + 1, metric |-> scores[d + 1]] ELSE best
      BY <2>3, <3>3, <3>9 DEF Slide, Score
    <3> DEFINE k == IF Above(scores[d + 1], scores[i]) THEN d + 1 ELSE i
    <3>11. best'.at = k /\ best' = [at |-> k, metric |-> Score(rx, k)]
      BY <3>9, <3>10 DEF SlidInv
    <3>12. SlidInv'
      <4>1. Highest(scores, best'.at, d')
        BY <3>2, <3>8, <3>11
      <4>2. sums' = Window(rx', d')
        BY <3>1, <3>2, <3>3
      <4>3. best' = [at |-> best'.at, metric |-> Score(rx', best'.at)]
        BY <3>1, <3>11
      <4>4. [c \in Places(rx) |-> Score(rx, c)]' = scores
        BY <3>1 DEF Places, Score, Window, Lags
      <4> HIDE DEF scores, k, i
      <4> QED BY <4>1, <4>2, <4>3, <4>4, <3>1 DEF SlidInv, Window, Score, Lags
    <3>13. SearchType'
      BY <2>3, <3>1, <3>2 DEF SearchType, Slide, Places
    <3> QED BY <3>12, <3>13
  <2>4. CASE Miss
    BY <2>2, <2>4 DEF Miss
  <2>5. CASE Estimate
    BY <2>2, <2>5 DEF Estimate
  <2>6. CASE Correct
    BY <2>2, <2>6 DEF Correct
  <2>7. CASE UNCHANGED searchVars
    BY <2>2, <2>7 DEF searchVars, SearchType
  <2> QED BY <2>3, <2>4, <2>5, <2>6, <2>7 DEF SearchNext
<1> QED BY <1>1, <1>2, PTL DEF SearchSpec

(* Once the kernel has searched all candidates it has found what the array *)
(* operations find: the first candidate whose halves differ only by a turn *)
(* of any angle, which scores 1, and nothing above; and the search by the  *)
(* template finds the first of its multiples.  For every capture, length   *)
(* and template.                                                           *)
THEOREM FirstPreambleFound == SearchSpec => []FirstPreamble
<1>1. SearchInv => FirstPreamble
  <2> SUFFICES ASSUME SearchInv, Searched
               PROVE  /\ best = ArraySearch(rx)
                      /\ Finds(best, {c \in Candidates : HalvesAlike(rx, c)})
                      /\ Finds(TemplateSearch(rx), {c \in Candidates : TemplateAt(rx, c)})
    BY DEF FirstPreamble
  <2>1. rx \in Captures
    BY RxIs DEF SearchInv, SearchType
  <2>2. d = Len(rx) - 2 * HalfLen /\ d \in Nat
    BY <2>1, LagsIs, LengthsIs DEF Searched
  <2>3. Candidates = 0 .. d /\ Places(rx) = 0 .. d
    BY <2>2, LengthsIs DEF Candidates, Places
  <2> DEFINE scores == [c \in Places(rx) |-> Score(rx, c)]
             i == best.at
  <2>4. Highest(scores, i, d) /\ best = [at |-> i, metric |-> Score(rx, i)]
    BY DEF SearchInv, SlidInv
  <2>5. i \in Places(rx)
    BY <2>1, <2>2, <2>4, FindsItIs DEF SearchInv, SearchType
  <2>6. \A c \in Places(rx) : scores[c] = Score(rx, c)
    OBVIOUS
  <2> HIDE DEF scores, i
  <2>7. best = ArraySearch(rx)
    BY <2>1, <2>2, <2>4, <2>5, <2>6, ArraySearchIs
  <2>8. \A c \in 0 .. d : NoMoreThanOne(scores[c]) /\ (IsOne(scores[c]) <=> HalvesAlike(rx, c))
    BY <2>1, <2>3, <2>6, ScoreIs
  <2>9. Finds(best, {c \in 0 .. d : HalvesAlike(rx, c)})
    <3>1. Finds([at |-> i, metric |-> scores[i]], {c \in 0 .. d : IsOne(scores[c])})
      BY <2>2, <2>4, <2>8, FoundFirst
    <3>2. {c \in 0 .. d : IsOne(scores[c])} = {c \in 0 .. d : HalvesAlike(rx, c)}
      BY <2>8
    <3>3. best = [at |-> i, metric |-> scores[i]]
      BY <2>4, <2>5, <2>6
    <3> QED BY <3>1, <3>2, <3>3
  <2>10. Finds(TemplateSearch(rx), {c \in Candidates : TemplateAt(rx, c)})
    BY <2>1, TemplateSearchIs DEF Candidates
  <2> QED BY <2>3, <2>7, <2>9, <2>10
<1> QED BY <1>1, SearchInvHolds, PTL

-----------------------------------------------------------------------------
(* The carrier offset                                                      *)

LEMMA TurnedIs ==
  /\ \A a \in Complex : \A q, r \in Int : q % 4 = r % 4 => Turned(a, q) = Turned(a, r)
  /\ \A a \in Complex : \A q, r \in Int : Turned(a, q + r) = Turned(Turned(a, q), r)
  /\ \A a \in Complex : \A q \in Int : Turned(Turned(a, q), -q) = a
<1>1. ASSUME NEW a \in Complex, NEW q \in Int, NEW r \in Int
      PROVE  /\ q % 4 = r % 4 => Turned(a, q) = Turned(a, r)
             /\ Turned(a, q + r) = Turned(Turned(a, q), r)
  <2>1. PICK x, y \in Int : a = << x, y >>
    BY ComplexIs
  <2>2. q % 4 \in 0 .. 3 /\ r % 4 \in 0 .. 3
    OBVIOUS
  <2>3. q % 4 = r % 4 => Turned(a, q) = Turned(a, r)
    BY DEF Turned
  <2>4. ASSUME NEW u \in Int
        PROVE  Turned(a, u) = CASE u % 4 = 0 -> << x, y >>
                                [] u % 4 = 1 -> << -y, x >>
                                [] u % 4 = 2 -> << -x, -y >>
                                [] u % 4 = 3 -> << y, -x >>
    BY <2>1 DEF Turned
  <2>5. Turned(Turned(a, q), r) =
          CASE (q + r) % 4 = 0 -> << x, y >>
            [] (q + r) % 4 = 1 -> << -y, x >>
            [] (q + r) % 4 = 2 -> << -x, -y >>
            [] (q + r) % 4 = 3 -> << y, -x >>
    <3>1. (q + r) % 4 = ((q % 4) + (r % 4)) % 4
      OBVIOUS
    <3>2. - (-x) = x /\ - (-y) = y
      OBVIOUS
    <3>3. CASE q % 4 = 0
      <4>1. (q + r) % 4 = r % 4 /\ Turned(a, q) = << x, y >>
        BY <3>1, <3>3, <2>4
      <4> QED BY <4>1, <2>2 DEF Turned
    <3>4. CASE q % 4 = 1
      <4>1. Turned(a, q) = << -y, x >>
        BY <3>4, <2>4
      <4>2. \/ (r % 4 = 0 /\ (q + r) % 4 = 1) \/ (r % 4 = 1 /\ (q + r) % 4 = 2)
            \/ (r % 4 = 2 /\ (q + r) % 4 = 3) \/ (r % 4 = 3 /\ (q + r) % 4 = 0)
        BY <3>1, <3>4, <2>2
      <4> QED BY <4>1, <4>2, <3>2 DEF Turned
    <3>5. CASE q % 4 = 2
      <4>1. Turned(a, q) = << -x, -y >>
        BY <3>5, <2>4
      <4>2. \/ (r % 4 = 0 /\ (q + r) % 4 = 2) \/ (r % 4 = 1 /\ (q + r) % 4 = 3)
            \/ (r % 4 = 2 /\ (q + r) % 4 = 0) \/ (r % 4 = 3 /\ (q + r) % 4 = 1)
        BY <3>1, <3>5, <2>2
      <4> QED BY <4>1, <4>2, <3>2 DEF Turned
    <3>6. CASE q % 4 = 3
      <4>1. Turned(a, q) = << y, -x >>
        BY <3>6, <2>4
      <4>2. \/ (r % 4 = 0 /\ (q + r) % 4 = 3) \/ (r % 4 = 1 /\ (q + r) % 4 = 0)
            \/ (r % 4 = 2 /\ (q + r) % 4 = 1) \/ (r % 4 = 3 /\ (q + r) % 4 = 2)
        BY <3>1, <3>6, <2>2
      <4> QED BY <4>1, <4>2, <3>2 DEF Turned
    <3> QED BY <3>3, <3>4, <3>5, <3>6, <2>2
  <2>6. Turned(a, q + r) = Turned(Turned(a, q), r)
    BY <2>4, <2>5
  <2> QED BY <2>3, <2>6
<1>2. ASSUME NEW a \in Complex, NEW q \in Int PROVE Turned(Turned(a, q), -q) = a
  <2>1. Turned(a, q + (-q)) = Turned(Turned(a, q), -q)
    BY <1>1
  <2>2. q + (-q) = 0 /\ Turned(a, 0) = a
    BY DEF Turned
  <2> QED BY <2>1, <2>2
<1> QED BY <1>1, <1>2

\* The estimate is what SchmidlCoxCFO.process gives, and the phase is where as
\* many samples as are corrected have moved it.
Estimated ==
  /\ ~Above(SyncThreshold, best.metric)
  /\ Correlation(rx, best.at)[2] = 0
  /\ Angle(Correlation(rx, best.at)) % HalfLen = 0
  /\ step = Angle(Correlation(rx, best.at)) \div HalfLen

Righted ==
  /\ out \in Seq(Complex) /\ Len(out) <= Len(rx)
  /\ \A n \in 1 .. Len(out) : out[n] = Turned(rx[n], -(step * (n - 1)))
  /\ phase \in Int /\ phase % 4 = (-(step * Len(out))) % 4

CorrectInv ==
  /\ pc = "search" => out = << >> /\ phase = 0
  /\ pc \in {"correct", "done"} => Estimated /\ Righted
  /\ pc = "done" => Len(out) = Len(rx)

\* Neither step of the search nor of the estimate moves what the other is of.
LEMMA StepIs == \A p : HalfLen > 0 => Angle(p) \div HalfLen \in Int
<1>1. ASSUME NEW p, NEW l \in Nat, l > 0 PROVE Angle(p) \div l \in Int
  <2>1. 2 \div l \in Int /\ 0 \div l \in Int
    BY <1>1
  <2>2. Angle(p) = 2 \/ Angle(p) = 0
    BY DEF Angle
  <2> QED BY <2>1, <2>2
<1> QED BY <1>1, LengthsIs

LEMMA CorrectInvHolds == SearchSpec => []CorrectInv
<1>1. SearchInit => CorrectInv
  BY DEF SearchInit, CorrectInv
<1>2. SearchInv /\ CorrectInv /\ [SearchNext]_searchVars => CorrectInv'
  <2> SUFFICES ASSUME SearchInv, CorrectInv, [SearchNext]_searchVars PROVE CorrectInv'
    OBVIOUS
  <2>0. rx \in Captures
    BY RxIs DEF SearchInv, SearchType
  <2>1. ASSUME UNCHANGED << clean, turn >> PROVE rx' = rx
    BY <2>1 DEF rx
  <2>2. CASE Slide
    BY <2>2 DEF Slide, CorrectInv
  <2>3. CASE Miss
    BY <2>3 DEF Miss, CorrectInv
  <2>4. CASE Estimate
    <3>1. rx' = rx /\ pc' = "correct" /\ UNCHANGED << best, phase, out >>
      BY <2>1, <2>4 DEF Estimate
    <3>2. Estimated'
      BY <2>4, <3>1 DEF Estimate, Estimated
    <3>3. out = << >> /\ phase = 0
      BY <2>4 DEF Estimate, Searched, CorrectInv
    <3>4. step' \in Int
      BY <2>4, StepIs, LengthsIs DEF Estimate
    <3>5. Len(rx) \in Nat
      BY <2>0, LagsIs
    <3>6. Righted'
      <4>1. out' = << >> /\ phase' = 0
        BY <3>1, <3>3
      <4>2. Len(out') = 0 /\ out' \in Seq(Complex)
        BY <4>1
      <4>3. -(step' * 0) = 0
        <5>1. PICK x \in Int : x = step'
          BY <3>4
        <5>2. -(x * 0) = 0
          OBVIOUS
        <5> QED BY <5>1, <5>2
      <4> QED BY <4>1, <4>2, <4>3, <3>1, <3>5 DEF Righted
    <3> QED BY <3>1, <3>2, <3>6 DEF CorrectInv
  <2>5. CASE Correct
    <3>1. rx' = rx /\ UNCHANGED << best, step >>
      BY <2>1, <2>5 DEF Correct
    <3>2. pc = "correct" /\ Len(out) < Len(rx) /\ Estimated /\ Righted
      BY <2>5 DEF Correct, CorrectInv
    <3>3. Estimated'
      BY <3>1, <3>2 DEF Estimated
    <3>4. step \in Int
      BY <3>2, StepIs, LengthsIs DEF Estimated
    <3> DEFINE k == Len(out)
    <3>5. /\ k \in Nat /\ Len(rx) \in Nat /\ k + 1 \in 1 .. Len(rx) /\ rx[k + 1] \in Complex
          /\ out \in Seq(Complex) /\ phase \in Int
      BY <2>0, <3>2, LagsIs DEF Righted
    <3>6. Turned(rx[k + 1], phase) = Turned(rx[k + 1], -(step * k))
      <4>1. phase % 4 = (-(step * k)) % 4 /\ -(step * k) \in Int
        BY <3>2, <3>4, <3>5 DEF Righted
      <4> QED BY <4>1, <3>5, TurnedIs
    <3>7. out' = Append(out, Turned(rx[k + 1], phase)) /\ phase' = (phase - step) % 4
      BY <2>5 DEF Correct
    <3>8. Turned(rx[k + 1], phase) \in Complex
      BY <3>5, ComplexIs
    <3>9. /\ out' \in Seq(Complex) /\ Len(out') = k + 1
          /\ out'[k + 1] = Turned(rx[k + 1], phase) /\ \A n \in 1 .. k : out'[n] = out[n]
      <4> HIDE DEF Complex
      <4> QED BY <3>5, <3>7, <3>8
    <3>10. \A n \in 1 .. Len(out') : out'[n] = Turned(rx[n], -(step * (n - 1)))
      <4> SUFFICES ASSUME NEW n \in 1 .. k + 1 PROVE out'[n] = Turned(rx[n], -(step * (n - 1)))
        BY <3>9
      <4>1. CASE n = k + 1
        <5>1. n - 1 = k
          BY <4>1, <3>5
        <5> QED BY <4>1, <5>1, <3>6, <3>9
      <4>2. CASE n # k + 1
        <5>1. n \in 1 .. k
          BY <4>2, <3>5
        <5> QED BY <5>1, <3>2, <3>9 DEF Righted
      <4> QED BY <4>1, <4>2
    <3>11. phase' \in Int /\ phase' % 4 = (-(step * Len(out'))) % 4
      <4>1. PICK w \in Int : w = step * k
        BY <3>4, <3>5
      <4>2. step * (k + 1) = w + step
        BY <4>1, <3>4, <3>5
      <4>3. phase % 4 = (-w) % 4
        BY <4>1, <3>2 DEF Righted
      <4>4. ((phase - step) % 4) % 4 = (-(w + step)) % 4
        BY <4>3, <3>4, <3>5
      <4> QED BY <4>2, <4>4, <3>4, <3>5, <3>7, <3>9
    <3>12. Righted'
      BY <3>1, <3>5, <3>9, <3>10, <3>11 DEF Righted
    <3>13. pc' = "done" => Len(out') = Len(rx)
      BY <2>5, <3>2 DEF Correct
    <3>14. pc' # "search"
      BY <2>5, <3>2 DEF Correct
    <3> QED BY <3>1, <3>3, <3>12, <3>13, <3>14 DEF CorrectInv
  <2>6. CASE UNCHANGED searchVars
    BY <2>1, <2>6 DEF searchVars, CorrectInv, Estimated, Righted
  <2> QED BY <2>2, <2>3, <2>4, <2>5, <2>6 DEF SearchNext
<1> QED BY <1>1, <1>2, SearchInvHolds, PTL DEF SearchSpec

-----------------------------------------------------------------------------
\* Of a preamble with two equal halves, the correlation is turned by what the
\* offset turns in half a preamble.
LEMMA PhaseEstimateIs ==
  ASSUME clean \in Clean, turn \in Turns, NEW c \in Places(rx), SameHalves(clean, c), InRange,
         Correlation(rx, c)[2] = 0, Energy(Correlation(rx, c)) > 0,
         Angle(Correlation(rx, c)) % HalfLen = 0
  PROVE  Angle(Correlation(rx, c)) \div HalfLen = turn
<1> DEFINE L == HalfLen
           A == Span(rx, c, L)
           B == Span(rx, c + L, L)
           q == turn * L
           Z == Correlation(rx, c)
<1>0. /\ L \in Nat /\ L > 0 /\ rx \in Captures /\ clean \in Captures /\ Len(rx) = Len(clean)
      /\ turn \in 0 .. 3 /\ q \in 0 .. 2
  BY LengthsIs, RxIs, AcquisitionAssumption DEF InRange
<1>1. /\ A \in Seq(Complex) /\ B \in Seq(Complex) /\ Len(A) = L /\ Len(B) = L
      /\ Z = Product(A, B)
  BY <1>0, WindowIs
<1>2. \A m \in 1 .. L : B[m] = Turned(A[m], q) /\ A[m] \in Complex
  <2> SUFFICES ASSUME NEW m \in 1 .. L PROVE B[m] = Turned(A[m], q) /\ A[m] \in Complex
    OBVIOUS
  <2>1. /\ clean \in Seq(Complex) /\ Len(clean) \in Nat
        /\ c + m \in 1 .. Len(clean) /\ c + L + m \in 1 .. Len(clean)
        /\ c \in Nat
    BY <1>0, LagsIs DEF Places
  <2>2. clean[c + m] \in Complex /\ clean[c + L + m] = clean[c + m]
    BY <2>1 DEF SameHalves
  <2>3. DOMAIN clean = 1 .. Len(clean)
    BY <2>1
  <2>4. /\ A[m] = Turned(clean[c + m], turn * (c + m - 1))
        /\ B[m] = Turned(clean[c + m], turn * (c + L + m - 1))
    <3>1. \A k \in 1 .. Len(clean) : rx[k] = Turned(clean[k], turn * (k - 1))
      BY <2>3 DEF rx, Captured
    <3>2. A[m] = rx[c + m] /\ B[m] = rx[c + L + m]
      BY DEF A, B, Span
    <3>3. PICK i, j \in 1 .. Len(clean) : i = c + m /\ j = c + L + m
      BY <2>1
    <3>4. rx[i] = Turned(clean[i], turn * (i - 1)) /\ rx[j] = Turned(clean[j], turn * (j - 1))
      BY <3>1
    <3>5. /\ A[m] = rx[i] /\ B[m] = rx[j] /\ clean[j] = clean[i] /\ clean[i] = clean[c + m]
      BY <2>2, <3>2, <3>3
    <3>6. i - 1 = c + m - 1 /\ j - 1 = c + L + m - 1
      BY <3>3, <2>1, <1>0
    <3> QED BY <3>4, <3>5, <3>6, Zenon
  <2>5. turn * (c + m - 1) \in Int /\ turn * (c + L + m - 1) = turn * (c + m - 1) + q
    BY <1>0, <2>1
  <2>6. PICK x \in Complex : x = clean[c + m]
    BY <2>2
  <2>7. PICK k \in Int : k = turn * (c + m - 1)
    BY <2>5
  <2>8. A[m] = Turned(x, k) /\ B[m] = Turned(x, k + q) /\ q \in Int
    BY <2>4, <2>5, <2>6, <2>7, <1>0
  <2> HIDE DEF q
  <2>9. Turned(x, k + q) = Turned(Turned(x, k), q)
    BY <2>8, TurnedIs
  <2>10. Turned(x, k) \in Complex
    BY ComplexIs
  <2> QED BY <2>8, <2>9, <2>10
<1> HIDE DEF A, B, Z
<1>3. Z \in Complex
  BY <1>1, ProductIs
<1> DEFINE u == CASE q = 0 -> << 1, 0 >> [] q = 1 -> << 0, 1 >> [] q = 2 -> << -1, 0 >>
<1>4. /\ u \in Complex /\ u # Zero
      /\ Along(u, Z) = CASE q = 0 -> Z[1] [] q = 1 -> Z[2] [] q = 2 -> -Z[1]
      /\ Energy(u) = 1
  <2>1. Z[1] \in Int /\ Z[2] \in Int
    BY <1>3, ComplexIs
  <2>2. CASE q = 0
    BY <2>1, <2>2 DEF Complex, Zero, Along, Energy
  <2>3. CASE q = 1
    BY <2>1, <2>3 DEF Complex, Zero, Along, Energy
  <2>4. CASE q = 2
    BY <2>1, <2>4 DEF Complex, Zero, Along, Energy
  <2> HIDE DEF u, q
  <2> QED BY <2>2, <2>3, <2>4, <1>0
<1>5. \A m \in 1 .. L : Times(u, A[m]) = Scaled(1, B[m])
  <2> SUFFICES ASSUME NEW m \in 1 .. L PROVE Times(u, A[m]) = Scaled(1, B[m])
    OBVIOUS
  <2>1. PICK x, y \in Int : A[m] = << x, y >>
    BY <1>2, ComplexIs
  <2>2. B[m] = Turned(<< x, y >>, q)
    BY <1>2, <2>1
  <2>3. CASE q = 0
    BY <2>1, <2>2, <2>3 DEF Times, Scaled, Turned
  <2>4. CASE q = 1
    BY <2>1, <2>2, <2>4 DEF Times, Scaled, Turned
  <2>5. CASE q = 2
    BY <2>1, <2>2, <2>5 DEF Times, Scaled, Turned
  <2> QED BY <2>3, <2>4, <2>5, <1>0
<1> DEFINE R == Strength(A)
           Q == Strength(B)
           D == Along(u, Z)
<1>6. R \in Int /\ Q \in Int /\ R >= 0 /\ Q >= 0 /\ D \in Int
  BY <1>1, <1>3, <1>4, TotalIs, AlongIs
<1>7. R + Q = 2 * D
  <2> HIDE DEF u
  <2>0. PICK r \in Int : r = 1
    OBVIOUS
  <2>1. PICK p \in Complex : r = 1 /\ p = u
    BY <1>4, <2>0
  <2>2. Energy(p) * R + (r * r) * Q - 2 * (r * Along(p, Product(A, B))) = 0
    <3>1. \A m \in 1 .. Len(A) : Times(p, A[m]) = Scaled(r, B[m])
      BY <1>1, <1>5, <2>1
    <3>2. Len(A) = Len(B)
      BY <1>1
    <3> QED BY <1>1, <3>1, <3>2, ApartTotal
  <2>3. Energy(p) = 1 /\ Along(p, Product(A, B)) = D
    BY <1>1, <1>4, <2>1
  <2> HIDE DEF R, Q, D
  <2>4. 1 * R + (1 * 1) * Q - 2 * (1 * D) = 0
    BY <2>1, <2>2, <2>3
  <2> QED BY <2>4, <1>6
<1>8. D > 0
  <2>1. R * Q > 0
    <3>1. Energy(Z) <= R * Q /\ Energy(Z) \in Int /\ Energy(Z) > 0
      BY <1>1, <1>3, Schwarz, ComplexIs DEF Z
    <3>2. R * Q \in Int
      BY <1>6
    <3> HIDE DEF R, Q
    <3> QED BY <3>1, <3>2
  <2> HIDE DEF R, Q, D
  <2>2. R # 0 /\ Q # 0
    BY <2>1, <1>6
  <2> QED BY <2>2, <1>6, <1>7
<1>9. Z[2] = 0 /\ Angle(Z) % L = 0 /\ Z[1] \in Int
  BY <1>3, ComplexIs DEF Z
<1> HIDE DEF u
<1>10. \A x, y \in Nat : y > 0 /\ x * y = 0 => x = 0
  OBVIOUS
<1>11. CASE q = 0
  <2>1. Angle(Z) = 0
    BY <1>4, <1>8, <1>9, <1>11 DEF Angle
  <2>2. turn = 0 /\ 0 \div L = 0
    BY <1>0, <1>10, <1>11
  <2> QED BY <2>1, <2>2 DEF Z
<1>12. CASE q = 1
  BY <1>4, <1>8, <1>9, <1>12
<1>13. CASE q = 2
  <2>1. Angle(Z) = 2
    BY <1>4, <1>8, <1>9, <1>13 DEF Angle
  <2>2. (L = 1 /\ turn = 2) \/ (L = 2 /\ turn = 1)
    <3>1. turn = 0 \/ turn = 1 \/ turn = 2 \/ turn = 3
      BY <1>0
    <3> QED BY <3>1, <1>0, <1>13
  <2> QED BY <2>1, <2>2 DEF Z
<1> QED BY <1>0, <1>11, <1>12, <1>13

\* A threshold that a silent capture does not reach
Gates == SyncThreshold.num \in Nat \ {0} /\ SyncThreshold.den \in Nat \ {0}

(* Once a preamble was found, the corrected samples are those sent: the    *)
(* estimate and the constant step of the correcting kernel undo any offset *)
(* in range, and the kernel does to every sample what the array operations *)
(* do.  A threshold of 0 would let a silent capture through, of which      *)
(* there is nothing to estimate.                                           *)
THEOREM OffsetIsUndone == ASSUME Gates PROVE SearchSpec => []OffsetUndone
<1>1. SearchInv /\ CorrectInv => OffsetUndone
  <2> SUFFICES ASSUME SearchInv, CorrectInv, pc = "done"
               PROVE  /\ out = CorrectedAll(rx)
                      /\ InRange /\ SameHalves(clean, best.at) => out = clean
    BY DEF OffsetUndone
  <2>1. Estimated /\ Righted /\ Len(out) = Len(rx)
    BY DEF CorrectInv
  <2>2. rx \in Captures /\ clean \in Captures /\ Len(rx) = Len(clean) /\ turn \in 0 .. 3
    BY RxIs, AcquisitionAssumption DEF SearchInv, SearchType
  <2>3. /\ Len(rx) \in Nat /\ DOMAIN rx = 1 .. Len(rx) /\ DOMAIN clean = 1 .. Len(rx)
        /\ out \in Seq(Complex) /\ DOMAIN out = 1 .. Len(rx)
        /\ clean \in Seq(Complex) /\ rx \in Seq(Complex)
    BY <2>1, <2>2, LagsIs DEF Captures, Righted
  <2>4. \A n \in 1 .. Len(rx) : out[n] = Turned(rx[n], -(step * (n - 1)))
    BY <2>1 DEF Righted
  <2>5. step \in Int
    BY <2>1, StepIs, LengthsIs DEF Estimated
  <2>6. out = CorrectedAll(rx)
    <3>1. \A n \in 1 .. Len(rx) : -step * (n - 1) = -(step * (n - 1))
      BY <2>3, <2>5
    <3>2. out = [n \in 1 .. Len(rx) |-> out[n]]
      BY <2>3
    <3> QED BY <2>3, <2>4, <3>1, <3>2 DEF CorrectedAll
  <2>7. ASSUME InRange, SameHalves(clean, best.at) PROVE out = clean
    <3> DEFINE i == best.at
    <3>1. i \in Places(rx) /\ best.metric = Score(rx, i) /\ IsMetric(Score(rx, i))
      <4>1. d \in Nat
        BY <2>2, LagsIs, LengthsIs DEF SearchInv, SearchType, Places
      <4> QED BY <2>2, <4>1, FindsItIs DEF SearchInv, SearchType, SlidInv
    <3>2. Score(rx, i).num > 0
      <4>1. PICK a, b, x, y \in Int : /\ a = SyncThreshold.num /\ b = SyncThreshold.den
                                    /\ x = Score(rx, i).num /\ y = Score(rx, i).den
                                    /\ a > 0 /\ b > 0 /\ y > 0
        BY <3>1 DEF IsMetric, Gates
      <4>2. ~(a * y > x * b)
        BY <4>1, <3>1, <2>1 DEF Estimated, Above
      <4>3. a * y > 0 /\ a * y \in Int /\ x * b \in Int
        BY <4>1
      <4>4. x * b > 0
        BY <4>2, <4>3
      <4>5. x > 0
        BY <4>1, <4>4
      <4> QED BY <4>1, <4>5
    <3>3. Energy(Correlation(rx, i)) > 0
      BY <2>2, <3>1, <3>2, ScoreIs
    <3>4. step = turn
      BY <2>1, <2>7, <3>1, <3>3, PhaseEstimateIs DEF Estimated, SearchInv, SearchType
    <3>5. ASSUME NEW n \in 1 .. Len(rx) PROVE out[n] = clean[n]
      <4>1. PICK a \in Complex : a = clean[n]
        BY <2>2, <2>3
      <4>2. PICK q \in Int : q = turn * (n - 1)
        BY <2>2, <2>3
      <4>3. rx[n] = Turned(a, q)
        BY <2>3, <4>1, <4>2 DEF rx, Captured
      <4>4. out[n] = Turned(Turned(a, q), -q)
        BY <2>4, <3>4, <4>2, <4>3
      <4> QED BY <4>1, <4>4, TurnedIs
    <3> QED BY <2>3, <3>5
  <2> QED BY <2>6, <2>7
<1> QED BY <1>1, SearchInvHolds, CorrectInvHolds, PTL
=============================================================================
