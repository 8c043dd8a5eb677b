--------------------------- MODULE LineScan_proofs ---------------------------
(***************************************************************************)
(* What cpplint's searches find, for every text: any alphabet, any number  *)
(* of lines and any length.  The properties are about the text of a state, *)
(* so that the invariant is its type; the proofs go by induction along the *)
(* characters, the lines and the rounds of the loops.                      *)
(***************************************************************************)
EXTENDS LineScan, SequenceTheorems, FiniteSetTheorems, WellFoundedInduction,
        NaturalsInduction, TLAPS

(***************************************************************************)
(* Induction and the elements of sets of positions.                        *)
(***************************************************************************)
LEMMA LeastExists ==
  ASSUME NEW T, T \subseteq Nat, T # {}
  PROVE  \E x \in T : \A y \in T : x <= y
<1>1. PICK x \in T : \A y \in T : ~(<<y, x>> \in OpToRel(<, Nat))
  BY NatLessThanWellFounded, WFMin
<1>2. \A y \in T : ~(y < x)
  BY <1>1 DEF OpToRel
<1> QED BY <1>2

\* T holds the numbers of which something has been shown.
LEMMA UpTo ==
  ASSUME NEW N \in Nat, NEW T, 0 \in T, \A i \in 1 .. N : i - 1 \in T => i \in T
  PROVE  \A i \in 0 .. N : i \in T
<1> SUFFICES ASSUME (0 .. N) \ T # {} PROVE FALSE
  OBVIOUS
<1>1. PICK x \in (0 .. N) \ T : \A y \in (0 .. N) \ T : x <= y
  <2>1. (0 .. N) \ T \subseteq Nat
    OBVIOUS
  <2> QED BY <2>1, LeastExists
<1>2. x # 0 /\ x \in 1 .. N /\ x - 1 \in 0 .. N
  BY <1>1
<1>3. x - 1 \in T
  BY <1>1, <1>2
<1> QED BY <1>1, <1>2, <1>3

LEMMA LeastPosition ==
  ASSUME NEW N \in Nat, NEW T, T \subseteq 1 .. N, T # {}
  PROVE  Min(T) \in T /\ \A y \in T : Min(T) <= y
<1>1. T \subseteq Nat
  OBVIOUS
<1>2. \E x \in T : \A y \in T : x <= y
  BY <1>1, LeastExists
<1> QED BY <1>2 DEF Min

LEMMA LastPosition ==
  ASSUME NEW N \in Nat, NEW T, T \subseteq 1 .. N, T # {}
  PROVE  Max(T) \in T /\ \A y \in T : Max(T) >= y
<1> DEFINE U == {N - i : i \in T}
<1>1. U \subseteq Nat /\ U # {}
  <2>1. \A i \in T : N - i \in Nat
    OBVIOUS
  <2> QED BY <2>1
<1>2. PICK u \in U : \A v \in U : u <= v
  BY <1>1, LeastExists
<1>3. PICK x \in T : u = N - x
  OBVIOUS
<1>4. ASSUME NEW y \in T PROVE x >= y
  <2>1. N - x <= N - y
    BY <1>2, <1>3
  <2> QED BY <2>1
<1>5. \E z \in T : \A y \in T : z >= y
  BY <1>4
<1> QED BY <1>5 DEF Max

-----------------------------------------------------------------------------
(***************************************************************************)
(* The folds.  FoldLeft takes the positions of a sequence away from the    *)
(* last one down; h is its operator, applied to a value and a position.    *)
(***************************************************************************)
Peels(g, N, base, h) ==
  g = [T \in SUBSET (1 .. N) |-> IF T = {} THEN base ELSE h[Max(T)][g[T \ {Max(T)}]]]

LEMMA FoldExists ==
  ASSUME NEW N \in Nat, NEW V, NEW base \in V, NEW h \in [1 .. N -> [V -> V]]
  PROVE  \E g \in [SUBSET (1 .. N) -> V] : Peels(g, N, base, h)
<1> DEFINE Good == {n \in 0 .. N : \E g \in [SUBSET (1 .. n) -> V] : Peels(g, n, base, h)}
<1>1. 0 \in Good
  <2> DEFINE g == [T \in SUBSET (1 .. 0) |-> base]
  <2>1. 1 .. 0 = {} /\ 0 \in 0 .. N
    OBVIOUS
  <2>2. SUBSET (1 .. 0) = {{}}
    BY <2>1
  <2>3. g \in [SUBSET (1 .. 0) -> V] /\ Peels(g, 0, base, h)
    BY <2>2 DEF Peels
  <2> QED BY <2>1, <2>3
<1>2. ASSUME NEW n \in 1 .. N, n - 1 \in Good PROVE n \in Good
  <2>1. PICK g \in [SUBSET (1 .. (n - 1)) -> V] : Peels(g, n - 1, base, h)
    BY <1>2
  <2> DEFINE g2 == [T \in SUBSET (1 .. n) |-> IF n \in T THEN h[n][g[T \ {n}]] ELSE g[T]]
  <2>2. \A T \in SUBSET (1 .. n) : /\ n \in T => T \ {n} \in SUBSET (1 .. (n - 1))
                                   /\ n \notin T => T \in SUBSET (1 .. (n - 1))
    OBVIOUS
  <2>3. g2 \in [SUBSET (1 .. n) -> V]
    BY <2>1, <2>2
  <2>4. ASSUME NEW T \in SUBSET (1 .. n)
        PROVE  g2[T] = IF T = {} THEN base ELSE h[Max(T)][g2[T \ {Max(T)}]]
    <3>1. CASE n \in T
      <4>1. Max(T) = n
        <5>1. n \in Nat /\ T \subseteq 1 .. n /\ T # {}
          BY <3>1
        <5>2. Max(T) \in T /\ \A y \in T : Max(T) >= y
          BY <5>1, LastPosition
        <5>3. Max(T) \in 1 .. n /\ Max(T) >= n
          BY <3>1, <5>2
        <5> QED BY <5>1, <5>3
      <4>2. T \ {n} \in SUBSET (1 .. n) /\ n \notin T \ {n}
        OBVIOUS
      <4> QED BY <3>1, <4>1, <4>2
    <3>2. CASE n \notin T
      <4>1. T \in SUBSET (1 .. (n - 1))
        BY <2>2, <3>2
      <4>2. g[T] = IF T = {} THEN base ELSE h[Max(T)][g[T \ {Max(T)}]]
        BY <2>1, <4>1 DEF Peels
      <4>3. T \ {Max(T)} \in SUBSET (1 .. n) /\ n \notin T \ {Max(T)}
        BY <3>2
      <4> QED BY <3>2, <4>2, <4>3
    <3> QED BY <3>1, <3>2
  <2>5. Peels(g2, n, base, h)
    <3> DEFINE g3 == [T \in SUBSET (1 .. n) |-> IF T = {} THEN base ELSE h[Max(T)][g2[T \ {Max(T)}]]]
    <3>1. \A T \in SUBSET (1 .. n) : g2[T] = g3[T]
      BY <2>4
    <3> HIDE DEF g2
    <3>2. g2 = g3
      BY <2>3, <3>1
    <3> QED BY <3>2 DEF Peels
  <2>6. n \in 0 .. N
    OBVIOUS
  <2> HIDE DEF g2
  <2> QED BY <2>3, <2>5, <2>6
<1> HIDE DEF Good
<1>3. N \in Good
  <2>1. \A i \in 1 .. N : i - 1 \in Good => i \in Good
    BY <1>2
  <2>2. \A i \in 0 .. N : i \in Good
    BY <1>1, <2>1, UpTo
  <2> QED BY <2>2
<1> QED BY <1>3 DEF Good

\* The positions up to i.
LEMMA FirstPositions ==
  ASSUME NEW N \in Nat, NEW i \in 1 .. N
  PROVE  /\ Max(1 .. i) = i /\ (1 .. i) \ {i} = 1 .. (i - 1)
         /\ 1 .. i \in SUBSET (1 .. N) /\ 1 .. i # {}
<1>1. 1 .. i \subseteq 1 .. N /\ i \in 1 .. i /\ i \in Nat
  OBVIOUS
<1>2. Max(1 .. i) \in 1 .. i /\ \A y \in 1 .. i : Max(1 .. i) >= y
  BY <1>1, LastPosition
<1>3. Max(1 .. i) = i
  BY <1>1, <1>2
<1>4. (1 .. i) \ {i} = 1 .. (i - 1)
  OBVIOUS
<1> QED BY <1>1, <1>3, <1>4

\* The values a fold goes through.
StepsBy(F, N, V, base, h) ==
  /\ F[{}] = base
  /\ \A i \in 1 .. N : F[1 .. (i - 1)] \in V => F[1 .. i] = h[i][F[1 .. (i - 1)]]

ValuesOf(G, F, N, base, h) ==
  /\ G[0] = base /\ G[N] = F[1 .. N]
  /\ \A i \in 1 .. N : G[i] = h[i][G[i - 1]]

LEMMA PeelSteps ==
  ASSUME NEW N \in Nat, NEW V, NEW base \in V, NEW h \in [1 .. N -> [V -> V]], NEW F,
         StepsBy(F, N, V, base, h)
  PROVE  \E G \in [0 .. N -> V] : ValuesOf(G, F, N, base, h)
<1> DEFINE G == [i \in 0 .. N |-> F[1 .. i]]
           Good == {i \in 0 .. N : F[1 .. i] \in V}
<1>1. 1 .. 0 = {} /\ 0 \in 0 .. N /\ N \in 0 .. N
  OBVIOUS
<1>2. 0 \in Good
  BY <1>1 DEF StepsBy
<1>3. ASSUME NEW i \in 1 .. N, i - 1 \in Good PROVE i \in Good
  <2>1. F[1 .. (i - 1)] \in V /\ i \in 0 .. N
    BY <1>3
  <2>2. F[1 .. i] = h[i][F[1 .. (i - 1)]]
    BY <2>1 DEF StepsBy
  <2>3. h[i][F[1 .. (i - 1)]] \in V
    BY <2>1
  <2> QED BY <2>1, <2>2, <2>3
<1>4. \A i \in 0 .. N : i \in Good
  <2> HIDE DEF Good
  <2>1. \A i \in 1 .. N : i - 1 \in Good => i \in Good
    BY <1>3
  <2> QED BY <1>2, <2>1, UpTo
<1>5. \A i \in 0 .. N : F[1 .. i] \in V
  BY <1>4
<1>6. G \in [0 .. N -> V] /\ G[0] = base /\ G[N] = F[1 .. N]
  BY <1>1, <1>5 DEF StepsBy
<1>7. ASSUME NEW i \in 1 .. N PROVE G[i] = h[i][G[i - 1]]
  <2>1. i \in 0 .. N /\ i - 1 \in 0 .. N
    OBVIOUS
  <2>2. F[1 .. i] = h[i][F[1 .. (i - 1)]]
    BY <1>5, <2>1 DEF StepsBy
  <2> QED BY <2>1, <2>2
<1> HIDE DEF G
<1> QED BY <1>6, <1>7 DEF ValuesOf

\* The folds of the searches, step by step: num_open line by line,
OpenAll(base, s, c) ==
  FoldLeft(LAMBDA open, line : open + Delta(line, 1, Len(line), c), base, s)
Opens(G, base, s, c) ==
  /\ G \in [0 .. Len(s) -> Int] /\ G[0] = base /\ G[Len(s)] = OpenAll(base, s, c)
  /\ \A i \in 1 .. Len(s) : G[i] = G[i - 1] + Delta(s[i], 1, Len(s[i]), c)

LEMMA OpenSteps ==
  ASSUME NEW S, NEW s \in Seq(S), NEW base \in Int, NEW c,
         \A x \in S : Delta(x, 1, Len(x), c) \in Int
  PROVE  \E G : Opens(G, base, s, c)
<1> DEFINE N == Len(s)
           V == Int
           h == [i \in 1 .. N |-> [v \in V |-> v + Delta(s[i], 1, Len(s[i]), c)]]
           Rec(g) == [T \in SUBSET DOMAIN s |->
                        IF T = {} THEN base ELSE g[T \ {Max(T)}] + Delta(s[Max(T)], 1, Len(s[Max(T)]), c)]
           F == CHOOSE g : g = Rec(g)
<1>1. N \in Nat /\ DOMAIN s = 1 .. N /\ \A i \in 1 .. N : s[i] \in S
  BY LenProperties, ElementOfSeq
<1>2. base \in V /\ h \in [1 .. N -> [V -> V]] /\ \A i \in 1 .. N, v \in V : h[i][v] = v + Delta(s[i], 1, Len(s[i]), c)
  BY <1>1
<1>3. OpenAll(base, s, c) = F[DOMAIN s]
  BY DEF OpenAll, FoldLeft, MapThenFoldSet
<1> HIDE DEF N, h, V
<1>4. \E g : g = Rec(g)
  <2>1. PICK g \in [SUBSET (1 .. N) -> V] : Peels(g, N, base, h)
    BY ONLY <1>1, <1>2, FoldExists
  <2>2. ASSUME NEW T \in SUBSET (1 .. N), T # {}
        PROVE  h[Max(T)][g[T \ {Max(T)}]] = g[T \ {Max(T)}] + Delta(s[Max(T)], 1, Len(s[Max(T)]), c)
    <3>1. Max(T) \in 1 .. N
      BY <1>1, <2>2, LastPosition
    <3>2. g[T \ {Max(T)}] \in V
      OBVIOUS
    <3> QED BY <1>2, <3>1, <3>2
  <2>3. Rec(g) = [T \in SUBSET (1 .. N) |-> IF T = {} THEN base ELSE h[Max(T)][g[T \ {Max(T)}]]]
    BY <1>1, <2>2
  <2> QED BY <2>1, <2>3 DEF Peels
<1>5. F = Rec(F)
  BY <1>4
<1> HIDE DEF F
<1>6. F[{}] = base
  BY <1>5
<1>7. ASSUME NEW i \in 1 .. N, F[1 .. (i - 1)] \in V PROVE F[1 .. i] = h[i][F[1 .. (i - 1)]]
  <2>1. /\ Max(1 .. i) = i /\ (1 .. i) \ {i} = 1 .. (i - 1)
        /\ 1 .. i \in SUBSET DOMAIN s /\ 1 .. i # {}
    BY <1>1, FirstPositions
  <2>2. F[1 .. i] = F[1 .. (i - 1)] + Delta(s[i], 1, Len(s[i]), c)
    BY <1>5, <2>1
  <2> QED BY <1>2, <1>7, <2>2
<1>8. PICK G \in [0 .. N -> V] : ValuesOf(G, F, N, base, h)
  <2>1. StepsBy(F, N, V, base, h)
    BY <1>6, <1>7 DEF StepsBy
  <2>2. h \in [1 .. N -> [V -> V]] /\ N \in Nat
    BY <1>1, <1>2
  <2> HIDE DEF Rec
  <2> QED BY ONLY <1>2, <2>1, <2>2, PeelSteps
<1>9. ASSUME NEW i \in 1 .. N PROVE G[i] = G[i - 1] + Delta(s[i], 1, Len(s[i]), c)
  <2>1. i - 1 \in 0 .. N
    BY <1>1
  <2> QED BY <1>2, <1>8, <2>1 DEF ValuesOf
<1>10. G[0] = base /\ G[N] = F[DOMAIN s]
  BY <1>1, <1>8 DEF ValuesOf
<1> QED BY <1>3, <1>8, <1>9, <1>10 DEF N, V, Opens

\* the stack of _GetTextInside,
PunctuateAll(base, s) == FoldLeft(Punctuate, base, s)

LEMMA PunctuateSteps ==
  ASSUME NEW S, NEW s \in Seq(S), NEW V, NEW base \in V,
         \A v \in V, x \in S : Punctuate(v, x) \in V
  PROVE  \E G \in [0 .. Len(s) -> V] :
            /\ G[0] = base
            /\ G[Len(s)] = PunctuateAll(base, s)
            /\ \A i \in 1 .. Len(s) : G[i] = Punctuate(G[i - 1], s[i])
<1> DEFINE N == Len(s)
           h == [i \in 1 .. N |-> [v \in V |-> Punctuate(v, s[i])]]
           Rec(g) == [T \in SUBSET DOMAIN s |->
                        IF T = {} THEN base ELSE Punctuate(g[T \ {Max(T)}], s[Max(T)])]
           F == CHOOSE g : g = Rec(g)
<1>1. N \in Nat /\ DOMAIN s = 1 .. N /\ \A i \in 1 .. N : s[i] \in S
  BY LenProperties, ElementOfSeq
<1>2. h \in [1 .. N -> [V -> V]] /\ \A i \in 1 .. N, v \in V : h[i][v] = Punctuate(v, s[i])
  BY <1>1
<1>3. PunctuateAll(base, s) = F[DOMAIN s]
  BY DEF PunctuateAll, FoldLeft, MapThenFoldSet
<1> HIDE DEF N, h
<1>4. \E g : g = Rec(g)
  <2>1. PICK g \in [SUBSET (1 .. N) -> V] : Peels(g, N, base, h)
    BY <1>1, <1>2, FoldExists
  <2>2. ASSUME NEW T \in SUBSET (1 .. N), T # {}
        PROVE  h[Max(T)][g[T \ {Max(T)}]] = Punctuate(g[T \ {Max(T)}], s[Max(T)])
    <3>1. Max(T) \in 1 .. N
      BY <1>1, <2>2, LastPosition
    <3>2. g[T \ {Max(T)}] \in V
      OBVIOUS
    <3> QED BY <1>2, <3>1, <3>2
  <2>3. Rec(g) = [T \in SUBSET (1 .. N) |-> IF T = {} THEN base ELSE h[Max(T)][g[T \ {Max(T)}]]]
    BY <1>1, <2>2
  <2> QED BY <2>1, <2>3 DEF Peels
<1>5. F = Rec(F)
  BY <1>4
<1> HIDE DEF F
<1>6. F[{}] = base
  BY <1>5
<1>7. ASSUME NEW i \in 1 .. N, F[1 .. (i - 1)] \in V PROVE F[1 .. i] = h[i][F[1 .. (i - 1)]]
  <2>1. /\ Max(1 .. i) = i /\ (1 .. i) \ {i} = 1 .. (i - 1)
        /\ 1 .. i \in SUBSET DOMAIN s /\ 1 .. i # {}
    BY <1>1, FirstPositions
  <2>2. F[1 .. i] = Punctuate(F[1 .. (i - 1)], s[i])
    BY <1>5, <2>1
  <2> QED BY <1>2, <1>7, <2>2
<1>8. PICK G \in [0 .. N -> V] : ValuesOf(G, F, N, base, h)
  <2>1. StepsBy(F, N, V, base, h)
    BY <1>6, <1>7 DEF StepsBy
  <2>2. h \in [1 .. N -> [V -> V]] /\ N \in Nat
    BY <1>1, <1>2
  <2> HIDE DEF Rec
  <2> QED BY ONLY base \in V, <2>1, <2>2, PeelSteps
<1>9. ASSUME NEW i \in 1 .. N PROVE G[i] = Punctuate(G[i - 1], s[i])
  <2>1. i - 1 \in 0 .. N
    BY <1>1
  <2> QED BY <1>2, <1>8, <2>1 DEF ValuesOf
<1>10. G[0] = base /\ G[N] = F[DOMAIN s]
  BY <1>1, <1>8 DEF ValuesOf
<1> QED BY <1>3, <1>9, <1>10 DEF N

\* the stack of the search forwards,
NextAll(base, s) ==
  FoldLeft(LAMBDA state, op : Nest(state, op, "<", {"<", "(", "["}, ">", {")", "]"}), base, s)
PreviousAll(base, s) ==
  FoldLeft(LAMBDA state, op : Nest(state, op, ">", {">", ")", "]"}, "<", {"(", "["}), base, s)

LEMMA NextSteps ==
  ASSUME NEW S, NEW s \in Seq(S), NEW V, NEW base \in V,
         \A v \in V, x \in S : Nest(v, x, "<", {"<", "(", "["}, ">", {")", "]"}) \in V
  PROVE  \E G \in [0 .. Len(s) -> V] :
            /\ G[0] = base
            /\ G[Len(s)] = NextAll(base, s)
            /\ \A i \in 1 .. Len(s) : G[i] = Nest(G[i - 1], s[i], "<", {"<", "(", "["}, ">", {")", "]"})
<1> DEFINE N == Len(s)
           h == [i \in 1 .. N |-> [v \in V |-> Nest(v, s[i], "<", {"<", "(", "["}, ">", {")", "]"})]]
           Rec(g) == [T \in SUBSET DOMAIN s |->
                        IF T = {} THEN base ELSE Nest(g[T \ {Max(T)}], s[Max(T)], "<", {"<", "(", "["}, ">", {")", "]"})]
           F == CHOOSE g : g = Rec(g)
<1>1. N \in Nat /\ DOMAIN s = 1 .. N /\ \A i \in 1 .. N : s[i] \in S
  BY LenProperties, ElementOfSeq
<1>2. h \in [1 .. N -> [V -> V]] /\ \A i \in 1 .. N, v \in V : h[i][v] = Nest(v, s[i], "<", {"<", "(", "["}, ">", {")", "]"})
  BY <1>1
<1>3. NextAll(base, s) = F[DOMAIN s]
  BY DEF NextAll, FoldLeft, MapThenFoldSet
<1> HIDE DEF N, h
<1>4. \E g : g = Rec(g)
  <2>1. PICK g \in [SUBSET (1 .. N) -> V] : Peels(g, N, base, h)
    BY <1>1, <1>2, FoldExists
  <2>2. ASSUME NEW T \in SUBSET (1 .. N), T # {}
        PROVE  h[Max(T)][g[T \ {Max(T)}]] = Nest(g[T \ {Max(T)}], s[Max(T)], "<", {"<", "(", "["}, ">", {")", "]"})
    <3>1. Max(T) \in 1 .. N
      BY <1>1, <2>2, LastPosition
    <3>2. g[T \ {Max(T)}] \in V
      OBVIOUS
    <3> QED BY <1>2, <3>1, <3>2
  <2>3. Rec(g) = [T \in SUBSET (1 .. N) |-> IF T = {} THEN base ELSE h[Max(T)][g[T \ {Max(T)}]]]
    BY <1>1, <2>2
  <2> QED BY <2>1, <2>3 DEF Peels
<1>5. F = Rec(F)
  BY <1>4
<1> HIDE DEF F
<1>6. F[{}] = base
  BY <1>5
<1>7. ASSUME NEW i \in 1 .. N, F[1 .. (i - 1)] \in V PROVE F[1 .. i] = h[i][F[1 .. (i - 1)]]
  <2>1. /\ Max(1 .. i) = i /\ (1 .. i) \ {i} = 1 .. (i - 1)
        /\ 1 .. i \in SUBSET DOMAIN s /\ 1 .. i # {}
    BY <1>1, FirstPositions
  <2>2. F[1 .. i] = Nest(F[1 .. (i - 1)], s[i], "<", {"<", "(", "["}, ">", {")", "]"})
    BY <1>5, <2>1
  <2> QED BY <1>2, <1>7, <2>2
<1>8. PICK G \in [0 .. N -> V] : ValuesOf(G, F, N, base, h)
  <2>1. StepsBy(F, N, V, base, h)
    BY <1>6, <1>7 DEF StepsBy
  <2>2. h \in [1 .. N -> [V -> V]] /\ N \in Nat
    BY <1>1, <1>2
  <2> HIDE DEF Rec
  <2> QED BY ONLY base \in V, <2>1, <2>2, PeelSteps
<1>9. ASSUME NEW i \in 1 .. N PROVE G[i] = Nest(G[i - 1], s[i], "<", {"<", "(", "["}, ">", {")", "]"})
  <2>1. i - 1 \in 0 .. N
    BY <1>1
  <2> QED BY <1>2, <1>8, <2>1 DEF ValuesOf
<1>10. G[0] = base /\ G[N] = F[DOMAIN s]
  BY <1>1, <1>8 DEF ValuesOf
<1> QED BY <1>3, <1>9, <1>10 DEF N

\* and of the one backwards,
LEMMA PreviousSteps ==
  ASSUME NEW S, NEW s \in Seq(S), NEW V, NEW base \in V,
         \A v \in V, x \in S : Nest(v, x, ">", {">", ")", "]"}, "<", {"(", "["}) \in V
  PROVE  \E G \in [0 .. Len(s) -> V] :
            /\ G[0] = base
            /\ G[Len(s)] = PreviousAll(base, s)
            /\ \A i \in 1 .. Len(s) : G[i] = Nest(G[i - 1], s[i], ">", {">", ")", "]"}, "<", {"(", "["})
<1> DEFINE N == Len(s)
           h == [i \in 1 .. N |-> [v \in V |-> Nest(v, s[i], ">", {">", ")", "]"}, "<", {"(", "["})]]
           Rec(g) == [T \in SUBSET DOMAIN s |->
                        IF T = {} THEN base ELSE Nest(g[T \ {Max(T)}], s[Max(T)], ">", {">", ")", "]"}, "<", {"(", "["})]
           F == CHOOSE g : g = Rec(g)
<1>1. N \in Nat /\ DOMAIN s = 1 .. N /\ \A i \in 1 .. N : s[i] \in S
  BY LenProperties, ElementOfSeq
<1>2. h \in [1 .. N -> [V -> V]] /\ \A i \in 1 .. N, v \in V : h[i][v] = Nest(v, s[i], ">", {">", ")", "]"}, "<", {"(", "["})
  BY <1>1
<1>3. PreviousAll(base, s) = F[DOMAIN s]
  BY DEF PreviousAll, FoldLeft, MapThenFoldSet
<1> HIDE DEF N, h
<1>4. \E g : g = Rec(g)
  <2>1. PICK g \in [SUBSET (1 .. N) -> V] : Peels(g, N, base, h)
    BY <1>1, <1>2, FoldExists
  <2>2. ASSUME NEW T \in SUBSET (1 .. N), T # {}
        PROVE  h[Max(T)][g[T \ {Max(T)}]] = Nest(g[T \ {Max(T)}], s[Max(T)], ">", {">", ")", "]"}, "<", {"(", "["})
    <3>1. Max(T) \in 1 .. N
      BY <1>1, <2>2, LastPosition
    <3>2. g[T \ {Max(T)}] \in V
      OBVIOUS
    <3> QED BY <1>2, <3>1, <3>2
  <2>3. Rec(g) = [T \in SUBSET (1 .. N) |-> IF T = {} THEN base ELSE h[Max(T)][g[T \ {Max(T)}]]]
    BY <1>1, <2>2
  <2> QED BY <2>1, <2>3 DEF Peels
<1>5. F = Rec(F)
  BY <1>4
<1> HIDE DEF F
<1>6. F[{}] = base
  BY <1>5
<1>7. ASSUME NEW i \in 1 .. N, F[1 .. (i - 1)] \in V PROVE F[1 .. i] = h[i][F[1 .. (i - 1)]]
  <2>1. /\ Max(1 .. i) = i /\ (1 .. i) \ {i} = 1 .. (i - 1)
        /\ 1 .. i \in SUBSET DOMAIN s /\ 1 .. i # {}
    BY <1>1, FirstPositions
  <2>2. F[1 .. i] = Nest(F[1 .. (i - 1)], s[i], ">", {">", ")", "]"}, "<", {"(", "["})
    BY <1>5, <2>1
  <2> QED BY <1>2, <1>7, <2>2
<1>8. PICK G \in [0 .. N -> V] : ValuesOf(G, F, N, base, h)
  <2>1. StepsBy(F, N, V, base, h)
    BY <1>6, <1>7 DEF StepsBy
  <2>2. h \in [1 .. N -> [V -> V]] /\ N \in Nat
    BY <1>1, <1>2
  <2> HIDE DEF Rec
  <2> QED BY ONLY base \in V, <2>1, <2>2, PeelSteps
<1>9. ASSUME NEW i \in 1 .. N PROVE G[i] = Nest(G[i - 1], s[i], ">", {">", ")", "]"}, "<", {"(", "["})
  <2>1. i - 1 \in 0 .. N
    BY <1>1
  <2> QED BY <1>2, <1>8, <2>1 DEF ValuesOf
<1>10. G[0] = base /\ G[N] = F[DOMAIN s]
  BY <1>1, <1>8 DEF ValuesOf
<1> QED BY <1>3, <1>9, <1>10 DEF N

\* the scanner in a line
ScanAll(base, s) == FoldLeft(Scan, base, s)

LEMMA ScanSteps ==
  ASSUME NEW S, NEW s \in Seq(S), NEW V, NEW base \in V,
         \A v \in V, x \in S : Scan(v, x) \in V
  PROVE  \E G \in [0 .. Len(s) -> V] :
            /\ G[0] = base
            /\ G[Len(s)] = ScanAll(base, s)
            /\ \A i \in 1 .. Len(s) : G[i] = Scan(G[i - 1], s[i])
<1> DEFINE N == Len(s)
           h == [i \in 1 .. N |-> [v \in V |-> Scan(v, s[i])]]
           Rec(g) == [T \in SUBSET DOMAIN s |->
                        IF T = {} THEN base ELSE Scan(g[T \ {Max(T)}], s[Max(T)])]
           F == CHOOSE g : g = Rec(g)
<1>1. N \in Nat /\ DOMAIN s = 1 .. N /\ \A i \in 1 .. N : s[i] \in S
  BY LenProperties, ElementOfSeq
<1>2. h \in [1 .. N -> [V -> V]] /\ \A i \in 1 .. N, v \in V : h[i][v] = Scan(v, s[i])
  BY <1>1
<1>3. ScanAll(base, s) = F[DOMAIN s]
  BY DEF ScanAll, FoldLeft, MapThenFoldSet
<1> HIDE DEF N, h
<1>4. \E g : g = Rec(g)
  <2>1. PICK g \in [SUBSET (1 .. N) -> V] : Peels(g, N, base, h)
    BY <1>1, <1>2, FoldExists
  <2>2. ASSUME NEW T \in SUBSET (1 .. N), T # {}
        PROVE  h[Max(T)][g[T \ {Max(T)}]] = Scan(g[T \ {Max(T)}], s[Max(T)])
    <3>1. Max(T) \in 1 .. N
      BY <1>1, <2>2, LastPosition
    <3>2. g[T \ {Max(T)}] \in V
      OBVIOUS
    <3> QED BY <1>2, <3>1, <3>2
  <2>3. Rec(g) = [T \in SUBSET (1 .. N) |-> IF T = {} THEN base ELSE h[Max(T)][g[T \ {Max(T)}]]]
    BY <1>1, <2>2
  <2> QED BY <2>1, <2>3 DEF Peels
<1>5. F = Rec(F)
  BY <1>4
<1> HIDE DEF F
<1>6. F[{}] = base
  BY <1>5
<1>7. ASSUME NEW i \in 1 .. N, F[1 .. (i - 1)] \in V PROVE F[1 .. i] = h[i][F[1 .. (i - 1)]]
  <2>1. /\ Max(1 .. i) = i /\ (1 .. i) \ {i} = 1 .. (i - 1)
        /\ 1 .. i \in SUBSET DOMAIN s /\ 1 .. i # {}
    BY <1>1, FirstPositions
  <2>2. F[1 .. i] = Scan(F[1 .. (i - 1)], s[i])
    BY <1>5, <2>1
  <2> QED BY <1>2, <1>7, <2>2
<1>8. PICK G \in [0 .. N -> V] : ValuesOf(G, F, N, base, h)
  <2>1. StepsBy(F, N, V, base, h)
    BY <1>6, <1>7 DEF StepsBy
  <2>2. h \in [1 .. N -> [V -> V]] /\ N \in Nat
    BY <1>1, <1>2
  <2> HIDE DEF Rec
  <2> QED BY ONLY base \in V, <2>1, <2>2, PeelSteps
<1>9. ASSUME NEW i \in 1 .. N PROVE G[i] = Scan(G[i - 1], s[i])
  <2>1. i - 1 \in 0 .. N
    BY <1>1
  <2> QED BY <1>2, <1>8, <2>1 DEF ValuesOf
<1>10. G[0] = base /\ G[N] = F[DOMAIN s]
  BY <1>1, <1>8 DEF ValuesOf
<1> QED BY <1>3, <1>9, <1>10 DEF N

\* and from line to line,
ScanLines(base, s) == FoldLeft(ScanLine, base, s)

LEMMA ScanLineSteps ==
  ASSUME NEW S, NEW s \in Seq(S), NEW V, NEW base \in V,
         \A v \in V, x \in S : ScanLine(v, x) \in V
  PROVE  \E G \in [0 .. Len(s) -> V] :
            /\ G[0] = base
            /\ G[Len(s)] = ScanLines(base, s)
            /\ \A i \in 1 .. Len(s) : G[i] = ScanLine(G[i - 1], s[i])
<1> DEFINE N == Len(s)
           h == [i \in 1 .. N |-> [v \in V |-> ScanLine(v, s[i])]]
           Rec(g) == [T \in SUBSET DOMAIN s |->
                        IF T = {} THEN base ELSE ScanLine(g[T \ {Max(T)}], s[Max(T)])]
           F == CHOOSE g : g = Rec(g)
<1>1. N \in Nat /\ DOMAIN s = 1 .. N /\ \A i \in 1 .. N : s[i] \in S
  BY LenProperties, ElementOfSeq
<1>2. h \in [1 .. N -> [V -> V]] /\ \A i \in 1 .. N, v \in V : h[i][v] = ScanLine(v, s[i])
  BY <1>1
<1>3. ScanLines(base, s) = F[DOMAIN s]
  BY DEF ScanLines, FoldLeft, MapThenFoldSet
<1> HIDE DEF N, h
<1>4. \E g : g = Rec(g)
  <2>1. PICK g \in [SUBSET (1 .. N) -> V] : Peels(g, N, base, h)
    BY <1>1, <1>2, FoldExists
  <2>2. ASSUME NEW T \in SUBSET (1 .. N), T # {}
        PROVE  h[Max(T)][g[T \ {Max(T)}]] = ScanLine(g[T \ {Max(T)}], s[Max(T)])
    <3>1. Max(T) \in 1 .. N
      BY <1>1, <2>2, LastPosition
    <3>2. g[T \ {Max(T)}] \in V
      OBVIOUS
    <3> QED BY <1>2, <3>1, <3>2
  <2>3. Rec(g) = [T \in SUBSET (1 .. N) |-> IF T = {} THEN base ELSE h[Max(T)][g[T \ {Max(T)}]]]
    BY <1>1, <2>2
  <2> QED BY <2>1, <2>3 DEF Peels
<1>5. F = Rec(F)
  BY <1>4
<1> HIDE DEF F
<1>6. F[{}] = base
  BY <1>5
<1>7. ASSUME NEW i \in 1 .. N, F[1 .. (i - 1)] \in V PROVE F[1 .. i] = h[i][F[1 .. (i - 1)]]
  <2>1. /\ Max(1 .. i) = i /\ (1 .. i) \ {i} = 1 .. (i - 1)
        /\ 1 .. i \in SUBSET DOMAIN s /\ 1 .. i # {}
    BY <1>1, FirstPositions
  <2>2. F[1 .. i] = ScanLine(F[1 .. (i - 1)], s[i])
    BY <1>5, <2>1
  <2> QED BY <1>2, <1>7, <2>2
<1>8. PICK G \in [0 .. N -> V] : ValuesOf(G, F, N, base, h)
  <2>1. StepsBy(F, N, V, base, h)
    BY <1>6, <1>7 DEF StepsBy
  <2>2. h \in [1 .. N -> [V -> V]] /\ N \in Nat
    BY <1>1, <1>2
  <2> HIDE DEF Rec
  <2> QED BY ONLY base \in V, <2>1, <2>2, PeelSteps
<1>9. ASSUME NEW i \in 1 .. N PROVE G[i] = ScanLine(G[i - 1], s[i])
  <2>1. i - 1 \in 0 .. N
    BY <1>1
  <2> QED BY <1>2, <1>8, <2>1 DEF ValuesOf
<1>10. G[0] = base /\ G[N] = F[DOMAIN s]
  BY <1>1, <1>8 DEF ValuesOf
<1> QED BY <1>3, <1>9, <1>10 DEF N

\* and the rounds of RemoveMultiLineComments.
RemoveAll(base, s) == FoldLeft(LAMBDA state, line : RemoveNextComment(state), base, s)

LEMMA RemoveSteps ==
  ASSUME NEW S, NEW s \in Seq(S), NEW V, NEW base \in V,
         \A v \in V, x \in S : RemoveNextComment(v) \in V
  PROVE  \E G \in [0 .. Len(s) -> V] :
            /\ G[0] = base
            /\ G[Len(s)] = RemoveAll(base, s)
            /\ \A i \in 1 .. Len(s) : G[i] = RemoveNextComment(G[i - 1])
<1> DEFINE N == Len(s)
           h == [i \in 1 .. N |-> [v \in V |-> RemoveNextComment(v)]]
           Rec(g) == [T \in SUBSET DOMAIN s |->
                        IF T = {} THEN base ELSE RemoveNextComment(g[T \ {Max(T)}])]
           F == CHOOSE g : g = Rec(g)
<1>1. N \in Nat /\ DOMAIN s = 1 .. N /\ \A i \in 1 .. N : s[i] \in S
  BY LenProperties, ElementOfSeq
<1>2. h \in [1 .. N -> [V -> V]] /\ \A i \in 1 .. N, v \in V : h[i][v] = RemoveNextComment(v)
  BY <1>1
<1>3. RemoveAll(base, s) = F[DOMAIN s]
  BY DEF RemoveAll, FoldLeft, MapThenFoldSet
<1> HIDE DEF N, h
<1>4. \E g : g = Rec(g)
  <2>1. PICK g \in [SUBSET (1 .. N) -> V] : Peels(g, N, base, h)
    BY <1>1, <1>2, FoldExists
  <2>2. ASSUME NEW T \in SUBSET (1 .. N), T # {}
        PROVE  h[Max(T)][g[T \ {Max(T)}]] = RemoveNextComment(g[T \ {Max(T)}])
    <3>1. Max(T) \in 1 .. N
      BY <1>1, <2>2, LastPosition
    <3>2. g[T \ {Max(T)}] \in V
      OBVIOUS
    <3> QED BY <1>2, <3>1, <3>2
  <2>3. Rec(g) = [T \in SUBSET (1 .. N) |-> IF T = {} THEN base ELSE h[Max(T)][g[T \ {Max(T)}]]]
    BY <1>1, <2>2
  <2> QED BY <2>1, <2>3 DEF Peels
<1>5. F = Rec(F)
  BY <1>4
<1> HIDE DEF F
<1>6. F[{}] = base
  BY <1>5
<1>7. ASSUME NEW i \in 1 .. N, F[1 .. (i - 1)] \in V PROVE F[1 .. i] = h[i][F[1 .. (i - 1)]]
  <2>1. /\ Max(1 .. i) = i /\ (1 .. i) \ {i} = 1 .. (i - 1)
        /\ 1 .. i \in SUBSET DOMAIN s /\ 1 .. i # {}
    BY <1>1, FirstPositions
  <2>2. F[1 .. i] = RemoveNextComment(F[1 .. (i - 1)])
    BY <1>5, <2>1
  <2> QED BY <1>2, <1>7, <2>2
<1>8. PICK G \in [0 .. N -> V] : ValuesOf(G, F, N, base, h)
  <2>1. StepsBy(F, N, V, base, h)
    BY <1>6, <1>7 DEF StepsBy
  <2>2. h \in [1 .. N -> [V -> V]] /\ N \in Nat
    BY <1>1, <1>2
  <2> HIDE DEF Rec
  <2> QED BY ONLY base \in V, <2>1, <2>2, PeelSteps
<1>9. ASSUME NEW i \in 1 .. N PROVE G[i] = RemoveNextComment(G[i - 1])
  <2>1. i - 1 \in 0 .. N
    BY <1>1
  <2> QED BY <1>2, <1>8, <2>1 DEF ValuesOf
<1>10. G[0] = base /\ G[N] = F[DOMAIN s]
  BY <1>1, <1>8 DEF ValuesOf
<1> QED BY <1>3, <1>9, <1>10 DEF N

\* The states of a loop that makes N rounds.
RoundsOf(G, N, base, h) == G[0] = base /\ \A i \in 1 .. N : G[i] = h[i][G[i - 1]]

LEMMA RoundsExist ==
  ASSUME NEW N \in Nat, NEW V, NEW base \in V, NEW h \in [1 .. N -> [V -> V]]
  PROVE  \E G \in [0 .. N -> V] : RoundsOf(G, N, base, h)
<1>1. PICK F \in [SUBSET (1 .. N) -> V] : Peels(F, N, base, h)
  BY FoldExists
<1>2. StepsBy(F, N, V, base, h)
  <2>1. {} \in SUBSET (1 .. N)
    OBVIOUS
  <2>2. F[{}] = base
    BY <1>1, <2>1 DEF Peels
  <2>3. ASSUME NEW i \in 1 .. N PROVE F[1 .. i] = h[i][F[1 .. (i - 1)]]
    <3>1. /\ Max(1 .. i) = i /\ (1 .. i) \ {i} = 1 .. (i - 1)
          /\ 1 .. i \in SUBSET (1 .. N) /\ 1 .. i # {}
      BY FirstPositions
    <3> QED BY <1>1, <3>1 DEF Peels
  <2> QED BY <2>2, <2>3 DEF StepsBy
<1>3. PICK G \in [0 .. N -> V] : ValuesOf(G, F, N, base, h)
  BY <1>2, PeelSteps
<1>4. RoundsOf(G, N, base, h)
  BY <1>3 DEF ValuesOf, RoundsOf
<1> QED BY <1>4

-----------------------------------------------------------------------------
(***************************************************************************)
(* The text.                                                               *)
(***************************************************************************)
TextOK == lines \in Seq(Seq(alphabet.chars)) /\ Len(lines) > 0

LEMMA TextInvariant == Spec => []TextOK
<1>1. Init => TextOK
  <2> SUFFICES ASSUME Init PROVE TextOK
    OBVIOUS
  <2> DEFINE T == Seq(alphabet.chars)
             e == <<>>
  <2>1. e \in T /\ lines = <<e>>
    BY EmptySeq DEF Init
  <2> HIDE DEF T, e
  <2>2. lines \in Seq(T) /\ Len(lines) = 1
    BY <2>1
  <2> QED BY <2>2 DEF TextOK, T
<1>2. TextOK /\ [Next]_vars => TextOK'
  <2> SUFFICES ASSUME TextOK, [Next]_vars PROVE TextOK'
    OBVIOUS
  <2>1. CASE UNCHANGED vars
    BY <2>1 DEF vars, TextOK
  <2>2. ASSUME NEW c \in alphabet.chars, AddCharacter(c) PROVE TextOK'
    <3>1. Len(lines) \in DOMAIN lines /\ lines[Len(lines)] \in Seq(alphabet.chars)
      BY DEF TextOK
    <3>2. Append(lines[Len(lines)], c) \in Seq(alphabet.chars)
      BY <3>1, AppendProperties
    <3>3. /\ lines' = [lines EXCEPT ![Len(lines)] = Append(lines[Len(lines)], c)]
          /\ alphabet' = alphabet
      BY <2>2 DEF AddCharacter
    <3>4. lines' \in Seq(Seq(alphabet.chars)) /\ Len(lines') = Len(lines)
      <4> DEFINE T == Seq(alphabet.chars)
                 e == Append(lines[Len(lines)], c)
                 k == Len(lines)
      <4>1. lines \in Seq(T) /\ k \in 1 .. Len(lines) /\ e \in T
        BY <3>1, <3>2 DEF TextOK
      <4> HIDE DEF T, e, k
      <4>2. [lines EXCEPT ![k] = e] \in Seq(T) /\ Len([lines EXCEPT ![k] = e]) = Len(lines)
        BY <4>1, ExceptSeq
      <4> QED BY <3>3, <4>2 DEF T, e, k
    <3> QED BY <3>3, <3>4 DEF TextOK
  <2>3. CASE AddLine
    <3>1. lines' = Append(lines, <<>>) /\ alphabet' = alphabet
      BY <2>3 DEF AddLine
    <3>2. <<>> \in Seq(alphabet.chars)
      BY EmptySeq
    <3> QED BY <3>1, <3>2, AppendProperties DEF TextOK
  <2> QED BY <2>1, <2>2, <2>3 DEF Next
<1> QED BY <1>1, <1>2, PTL DEF Spec

\* The lines are sequences of characters.
LEMMA LinesType ==
  ASSUME TextOK
  PROVE  /\ Len(lines) \in Nat \ {0} /\ DOMAIN lines = 1 .. Len(lines)
         /\ \A n \in 1 .. Len(lines) :
               /\ lines[n] \in Seq(alphabet.chars)
               /\ Len(lines[n]) \in Nat /\ DOMAIN lines[n] = 1 .. Len(lines[n])
<1>1. Len(lines) \in Nat /\ Len(lines) # 0 /\ DOMAIN lines = 1 .. Len(lines)
  BY LenProperties, EmptySeq DEF TextOK
<1>2. \A n \in 1 .. Len(lines) : lines[n] \in Seq(alphabet.chars)
  BY ElementOfSeq DEF TextOK
<1> QED BY <1>1, <1>2, LenProperties

-----------------------------------------------------------------------------
(***************************************************************************)
(* The search upwards in CheckBraces.                                      *)
(***************************************************************************)
LEMMA IndentedConcat ==
  ASSUME NEW S, NEW a \in Seq(S), NEW b \in Seq(S)
  PROVE  /\ IndentedBrace(a) => IndentedBrace(a \o b)
         /\ ~IsBlankLine(a) /\ IndentedBrace(a \o b) => IndentedBrace(a)
<1> DEFINE t == a \o b
           m == Len(a)
           r == Len(t)
<1>1. m \in Nat /\ r \in Nat /\ m <= r /\ \A i \in 1 .. m : t[i] = a[i]
  BY LenProperties, ConcatProperties
<1>2. /\ IndentedBrace(a) <=> \E i \in 2 .. m : a[i] = LBrace /\ Blank(a, 1, i - 1)
      /\ IndentedBrace(t) <=> \E i \in 2 .. r : t[i] = LBrace /\ Blank(t, 1, i - 1)
      /\ IsBlankLine(a) <=> Blank(a, 1, m)
  BY DEF IndentedBrace, IsBlankLine
<1> HIDE DEF t, m, r
<1>3. ASSUME IndentedBrace(a) PROVE IndentedBrace(t)
  <2>1. PICK i \in 2 .. m : a[i] = LBrace /\ Blank(a, 1, i - 1)
    BY <1>2, <1>3
  <2>2. i \in 2 .. r /\ i \in 1 .. m /\ \A k \in 1 .. (i - 1) : k \in 1 .. m
    BY <1>1, <2>1
  <2>3. t[i] = LBrace /\ Blank(t, 1, i - 1)
    BY <1>1, <2>1, <2>2 DEF Blank
  <2> QED BY <1>2, <2>2, <2>3
<1>4. ASSUME ~IsBlankLine(a), IndentedBrace(t) PROVE IndentedBrace(a)
  <2>1. PICK i \in 2 .. r : t[i] = LBrace /\ Blank(t, 1, i - 1)
    BY <1>2, <1>4
  <2>2. PICK j \in 1 .. m : a[j] # Space
    BY <1>2, <1>4 DEF Blank
  <2>3. ~(j \in 1 .. (i - 1))
    BY <1>1, <2>1, <2>2 DEF Blank
  <2>4. i \in 2 .. m /\ i \in 1 .. m /\ \A k \in 1 .. (i - 1) : k \in 1 .. m
    BY <1>1, <2>1, <2>2, <2>3
  <2>5. a[i] = LBrace /\ Blank(a, 1, i - 1)
    BY <1>1, <2>1, <2>4 DEF Blank
  <2> QED BY <1>2, <2>4, <2>5
<1> QED BY <1>3, <1>4 DEF t

LEMMA BracesConcat ==
  ASSUME NEW S, NEW a \in Seq(S), NEW b \in Seq(S), BracesThenSemicolon(b)
  PROVE  BracesThenSemicolon(a \o b)
<1> DEFINE n == Len(a)
           l == Len(b)
           t == a \o b
           D == DOMAIN t
<1>1. n \in Nat /\ l \in Nat /\ D = 1 .. (n + l) /\ DOMAIN b = 1 .. l
  BY LenProperties, ConcatProperties
<1>2. \A k \in 1 .. l : t[n + k] = b[k]
  <2> SUFFICES ASSUME NEW k \in 1 .. l PROVE t[n + k] = b[k]
    OBVIOUS
  <2> HIDE DEF t
  <2>1. n + k \in 1 .. (n + l) /\ ~(n + k <= n) /\ (n + k) - n = k
    <3> HIDE DEF n, l
    <3> QED BY <1>1
  <2> QED BY <2>1, ConcatProperties DEF t
<1>3. /\ BracesThenSemicolon(t) <=> \E i, j \in D :
            i < j /\ t[i] = RBrace /\ t[j] = Semicolon /\ Blank(t, i + 1, j - 1)
      /\ \E i, j \in 1 .. l : i < j /\ b[i] = RBrace /\ b[j] = Semicolon /\ Blank(b, i + 1, j - 1)
  BY <1>1 DEF BracesThenSemicolon
<1> HIDE DEF n, l, t, D
<1>4. PICK i \in 1 .. l, j \in 1 .. l :
        i < j /\ b[i] = RBrace /\ b[j] = Semicolon /\ Blank(b, i + 1, j - 1)
  BY <1>3
<1>5. n + i \in D /\ n + j \in D /\ n + i < n + j
  BY <1>1, <1>4
<1>6. t[n + i] = RBrace /\ t[n + j] = Semicolon
  BY <1>2, <1>4
<1>7. ASSUME NEW k \in (n + i + 1) .. (n + j - 1) PROVE t[k] = Space
  <2>1. k - n \in (i + 1) .. (j - 1) /\ k - n \in 1 .. l /\ k = n + (k - n)
    BY <1>1, <1>4
  <2>2. b[k - n] = Space
    BY <1>4, <2>1 DEF Blank
  <2> QED BY <1>2, <2>1, <2>2
<1>8. Blank(t, n + i + 1, n + j - 1)
  BY <1>7 DEF Blank
<1>9. \E x, y \in D : x < y /\ t[x] = RBrace /\ t[y] = Semicolon /\ Blank(t, x + 1, y - 1)
  <2> DEFINE x == n + i
             y == n + j
  <2>1. x \in D /\ y \in D /\ x < y /\ t[x] = RBrace /\ t[y] = Semicolon /\ Blank(t, x + 1, y - 1)
    BY <1>1, <1>4, <1>5, <1>6, <1>8
  <2> HIDE DEF x, y
  <2> QED BY <2>1
<1>10. BracesThenSemicolon(t)
  BY <1>3, <1>9
<1> QED BY <1>10 DEF t

\* The line found above line l: the nearest one that is not blank.
LEMMA PreviousLine ==
  ASSUME TextOK, NEW l \in 0 .. Len(lines)
  PROVE  LET prev == GetPreviousNonBlankLine(l)
         IN  /\ prev.line \in Seq(alphabet.chars) /\ prev.linenum \in 0 .. Len(lines)
             /\ prev = [line |-> prev.line, linenum |-> prev.linenum]
             /\ prev.linenum = 0 => prev.line = <<>>
             /\ prev.linenum # 0 =>
                   /\ prev.linenum \in 1 .. (l - 1) /\ prev.line = lines[prev.linenum]
                   /\ ~IsBlankLine(lines[prev.linenum])
             /\ \A m \in 1 .. (l - 1) : ~IsBlankLine(lines[m]) => m <= prev.linenum
<1> DEFINE filled == {n \in 1 .. (l - 1) : ~IsBlankLine(lines[n])}
           prev == GetPreviousNonBlankLine(l)
           N == Len(lines)
<1>1. prev = IF filled = {} THEN [line |-> <<>>, linenum |-> 0]
             ELSE [line |-> lines[Max(filled)], linenum |-> Max(filled)]
  BY DEF GetPreviousNonBlankLine
<1>2. /\ N \in Nat /\ l \in 0 .. N /\ <<>> \in Seq(alphabet.chars)
      /\ \A n \in 1 .. N : lines[n] \in Seq(alphabet.chars)
  BY LinesType, EmptySeq
<1> HIDE DEF prev, N
<1>3. CASE filled = {}
  <2>1. prev = [line |-> <<>>, linenum |-> 0]
    BY <1>1, <1>3
  <2>2. prev.line = <<>> /\ prev.linenum = 0 /\ 0 \in 0 .. N
    BY <1>2, <2>1
  <2>3. \A m \in 1 .. (l - 1) : IsBlankLine(lines[m])
    BY <1>3
  <2> QED BY <1>2, <2>1, <2>2, <2>3 DEF prev, N
<1>4. CASE filled # {}
  <2> DEFINE p == Max(filled)
  <2>1. filled \subseteq 1 .. N
    BY <1>2
  <2>2. p \in filled /\ \A m \in filled : p >= m
    BY <1>2, <1>4, <2>1, LastPosition
  <2>3. prev = [line |-> lines[p], linenum |-> p]
    BY <1>1, <1>4
  <2>4. p \in 1 .. (l - 1) /\ ~IsBlankLine(lines[p]) /\ p \in 1 .. N /\ p \in 0 .. N /\ p # 0
    BY <1>2, <2>1, <2>2
  <2>5. \A m \in 1 .. (l - 1) : ~IsBlankLine(lines[m]) => m <= p
    BY <1>2, <2>2, <2>4
  <2> HIDE DEF p
  <2>6. prev.line = lines[p] /\ prev.linenum = p
    BY <2>3
  <2> HIDE DEF filled
  <2> QED BY <1>2, <2>3, <2>4, <2>5, <2>6 DEF prev, N
<1> QED BY <1>3, <1>4

LEMMA RecordUp ==
  ASSUME NEW p, NEW q, NEW w, NEW r, r = [line |-> p, linenum |-> q]
  PROVE  [r EXCEPT !.line = @ \o w] = [line |-> p \o w, linenum |-> q]
<1> DEFINE z == p \o w
<1>1. r.line = p
  OBVIOUS
<1>2. [r EXCEPT !.line = @ \o w] = [r EXCEPT !.line = z]
  BY <1>1
<1> HIDE DEF z
<1>3. [r EXCEPT !.line = z] = [line |-> z, linenum |-> q]
  OBVIOUS
<1> QED BY <1>2, <1>3 DEF z

Above(j) == GetPreviousNonBlankLine(j.linenum)

\* The rounds of the loop.
LEMMA JoinSteps ==
  ASSUME TextOK, NEW n \in 1 .. Len(lines)
  PROVE  LET J == JoinLines(n)
         IN  /\ \A k \in 0 .. n : J[k].line \in Seq(alphabet.chars) /\ J[k].linenum \in 0 .. Len(lines)
             /\ J[0].line = lines[n] /\ J[0].linenum = n
             /\ \A k \in 1 .. n : /\ J[k].line = Above(J[k - 1]).line \o J[k - 1].line
                                  /\ J[k].linenum = Above(J[k - 1]).linenum
<1> DEFINE S == alphabet.chars
           V == [line : Seq(S), linenum : 0 .. Len(lines)]
           base == [line |-> lines[n], linenum |-> n]
           Up(j) == [line |-> Above(j).line \o j.line, linenum |-> Above(j).linenum]
           h == [i \in 1 .. n |-> [v \in V |-> Up(v)]]
           Step(j) == [Above(j) EXCEPT !.line = @ \o j.line]
           Rec(g) == [k \in 0 .. n |-> IF k = 0 THEN base ELSE Step(g[k - 1])]
<1>1. base \in V /\ n \in Nat
  <2>1. lines[n] \in Seq(S) /\ n \in 0 .. Len(lines) /\ Len(lines) \in Nat
    BY LinesType
  <2> QED BY <2>1
<1>2. ASSUME NEW v \in V
      PROVE  Up(v) \in V /\ Step(v) = Up(v)
  <2> DEFINE prev == Above(v)
             pl == prev.line
             pn == prev.linenum
  <2>1. /\ pl \in Seq(S) /\ pn \in 0 .. Len(lines)
        /\ prev = [line |-> pl, linenum |-> pn]
    BY PreviousLine DEF Above
  <2>2. v.line \in Seq(S)
    OBVIOUS
  <2>3. pl \o v.line \in Seq(S)
    BY <2>1, <2>2, ConcatProperties
  <2>4. Up(v) = [line |-> pl \o v.line, linenum |-> pn]
    OBVIOUS
  <2> HIDE DEF pl, pn
  <2>5. Step(v) = [line |-> pl \o v.line, linenum |-> pn]
    <3> DEFINE w == v.line
    <3>1. Step(v) = [prev EXCEPT !.line = @ \o w]
      OBVIOUS
    <3>2. prev = [line |-> pl, linenum |-> pn]
      BY <2>1
    <3> HIDE DEF w, prev, Step
    <3>3. [prev EXCEPT !.line = @ \o w] = [line |-> pl \o w, linenum |-> pn]
      BY ONLY <3>2, RecordUp
    <3> QED BY <3>1, <3>3 DEF w
  <2>6. [line |-> pl \o v.line, linenum |-> pn] \in V
    BY <2>1, <2>3
  <2> QED BY <2>4, <2>5, <2>6
<1>7. JoinLines(n) = CHOOSE g : g = Rec(g)
  BY DEF JoinLines, Above
<1> HIDE DEF V, base, Up, Step
<1>3. h \in [1 .. n -> [V -> V]] /\ \A i \in 1 .. n, v \in V : h[i][v] = Up(v)
  BY <1>2
<1> HIDE DEF h
<1>4. PICK G \in [0 .. n -> V] : RoundsOf(G, n, base, h)
  BY <1>1, <1>3, RoundsExist
<1>5. \A i \in 1 .. n : G[i - 1] \in V /\ G[i] = Up(G[i - 1])
  <2> SUFFICES ASSUME NEW i \in 1 .. n PROVE G[i - 1] \in V /\ G[i] = Up(G[i - 1])
    OBVIOUS
  <2>1. i - 1 \in 0 .. n
    BY <1>1
  <2> QED BY <1>3, <1>4, <2>1 DEF RoundsOf
<1>6. G = Rec(G)
  <2>1. ASSUME NEW k \in 0 .. n
        PROVE  G[k] = IF k = 0 THEN base ELSE Step(G[k - 1])
    <3>1. CASE k = 0
      BY <1>4, <3>1 DEF RoundsOf
    <3>2. CASE k # 0
      <4>1. k \in 1 .. n
        BY <3>2
      <4>2. G[k - 1] \in V /\ G[k] = Up(G[k - 1])
        BY <1>5, <4>1
      <4> QED BY <1>2, <3>2, <4>2
    <3> QED BY <3>1, <3>2
  <2>2. G = [k \in 0 .. n |-> G[k]]
    OBVIOUS
  <2> QED BY <2>1, <2>2
<1>8. JoinLines(n) = Rec(JoinLines(n))
  <2> HIDE DEF Rec
  <2> QED BY <1>6, <1>7
<1> DEFINE J == JoinLines(n)
<1>9. \A k \in 0 .. n : J[k] \in V
  <2> HIDE DEF J
  <2> DEFINE Good == {k \in 0 .. n : J[k] \in V}
  <2>1. 0 \in Good
    BY <1>1, <1>8 DEF J
  <2>2. ASSUME NEW i \in 1 .. n, i - 1 \in Good PROVE i \in Good
    <3>1. J[i - 1] \in V /\ i \in 0 .. n /\ i # 0
      BY <1>1, <2>2
    <3>2. J[i] = Step(J[i - 1])
      BY <1>8, <3>1 DEF J
    <3>3. J[i] \in V
      BY <1>2, <3>1, <3>2
    <3> QED BY <3>1, <3>3
  <2>3. \A i \in 1 .. n : i - 1 \in Good => i \in Good
    BY <2>2
  <2> HIDE DEF Good
  <2>4. \A i \in 0 .. n : i \in Good
    BY <1>1, <2>1, <2>3, UpTo
  <2> QED BY <2>4 DEF Good
<1>10. \A k \in 0 .. n : J[k].line \in Seq(alphabet.chars) /\ J[k].linenum \in 0 .. Len(lines)
  BY <1>9 DEF V
<1>11. J[0].line = lines[n] /\ J[0].linenum = n
  <2>1. J[0] = base
    BY <1>1, <1>8
  <2> HIDE DEF J
  <2> QED BY <2>1 DEF base
<1>12. ASSUME NEW k \in 1 .. n
       PROVE  /\ J[k].line = Above(J[k - 1]).line \o J[k - 1].line
              /\ J[k].linenum = Above(J[k - 1]).linenum
  <2>1. k \in 0 .. n /\ k # 0 /\ k - 1 \in 0 .. n
    BY <1>1
  <2>2. J[k] = Step(J[k - 1])
    BY <1>8, <2>1
  <2>3. J[k - 1] \in V
    BY <1>9, <2>1
  <2> HIDE DEF J
  <2>4. J[k] = Up(J[k - 1])
    BY <1>2, <2>2, <2>3
  <2> DEFINE pl == Above(J[k - 1]).line
             pn == Above(J[k - 1]).linenum
             t == J[k - 1].line
  <2>5. J[k] = [line |-> pl \o t, linenum |-> pn]
    BY <2>4 DEF Up
  <2> HIDE DEF pl, pn, t
  <2>6. J[k].line = pl \o t /\ J[k].linenum = pn
    BY <2>5
  <2> QED BY <2>6 DEF pl, pn, t
<1> QED BY <1>10, <1>11, <1>12

\* The search goes on as long as it meets only indented braces without a
\* semicolon above a line with "};".
LEMMA SearchGoesOn ==
  ASSUME TextOK, NEW n \in 1 .. Len(lines), SemicolonAfterBraces(lines[n]),
         \A m \in 1 .. (n - 1) : ~IsBlankLine(lines[m]) =>
            IndentedBrace(lines[m]) /\ Semicolon \notin Range(lines[m])
  PROVE  ~SearchEnds(n)
<1> DEFINE S == alphabet.chars
           N == Len(lines)
           J == JoinLines(n)
           Good == {k \in 0 .. n : SemicolonAfterBraces(J[k].line) /\ J[k].linenum <= n}
<1>1. N \in Nat /\ n \in 1 .. N /\ n \in Nat
  BY LinesType
<1>2. /\ \A k \in 0 .. n : J[k].line \in Seq(S) /\ J[k].linenum \in 0 .. N
      /\ J[0].line = lines[n] /\ J[0].linenum = n
      /\ \A k \in 1 .. n : /\ J[k].line = Above(J[k - 1]).line \o J[k - 1].line
                           /\ J[k].linenum = Above(J[k - 1]).linenum
  BY JoinSteps
<1> HIDE DEF J, N
<1>3. ASSUME NEW k \in 0 .. n, J[k].linenum <= n
      PROVE  LET prev == Above(J[k])
             IN  /\ Semicolon \notin Range(prev.line)
                 /\ prev.linenum <= n /\ prev.line \in Seq(S)
                 /\ prev.line = <<>> \/ IndentedBrace(prev.line)
  <2> DEFINE l == J[k].linenum
             pl == Above(J[k]).line
             pn == Above(J[k]).linenum
  <2>1. l \in 0 .. N
    BY <1>2
  <2>2. /\ pl \in Seq(S) /\ pn \in 0 .. N
        /\ pn = 0 => pl = <<>>
        /\ pn # 0 => /\ pn \in 1 .. (l - 1) /\ pl = lines[pn] /\ ~IsBlankLine(lines[pn])
    BY <2>1, PreviousLine DEF Above, N
  <2> HIDE DEF pl, pn
  <2>3. CASE pn = 0
    <3>1. pl = <<>> /\ Range(pl) = {}
      BY <2>2, <2>3 DEF Range
    <3> QED BY <1>1, <2>2, <2>3, <3>1 DEF pl, pn
  <2>4. CASE pn # 0
    <3>1. pn \in 1 .. (n - 1) /\ pn <= n
      BY <1>1, <1>3, <2>1, <2>2, <2>4
    <3>2. IndentedBrace(pl) /\ Semicolon \notin Range(pl)
      BY <2>2, <2>4, <3>1
    <3> QED BY <2>2, <3>1, <3>2 DEF pl, pn
  <2> QED BY <2>3, <2>4
<1>4. 0 \in Good
  BY <1>1, <1>2
<1>5. ASSUME NEW k \in 1 .. n, k - 1 \in Good PROVE k \in Good
  <2> DEFINE t == J[k - 1].line
             pl == Above(J[k - 1]).line
  <2>1. /\ k - 1 \in 0 .. n /\ k \in 0 .. n /\ J[k - 1].linenum <= n
        /\ SemicolonAfterBraces(t) /\ t \in Seq(S)
    BY <1>1, <1>2, <1>5
  <2>2. /\ J[k].linenum <= n /\ pl \in Seq(S) /\ J[k].line = pl \o t
        /\ pl = <<>> \/ IndentedBrace(pl)
    BY <1>2, <1>3, <2>1
  <2> HIDE DEF t, pl
  <2>3. CASE pl = <<>>
    <3>1. J[k].line = t
      BY <2>1, <2>2, <2>3, ConcatEmptySeq
    <3> QED BY <2>1, <2>2, <3>1
  <2>4. CASE IndentedBrace(pl)
    <3>1. IndentedBrace(pl \o t)
      BY <2>1, <2>2, <2>4, IndentedConcat
    <3>2. BracesThenSemicolon(pl \o t)
      BY <2>1, <2>2, BracesConcat DEF SemicolonAfterBraces
    <3> QED BY <2>1, <2>2, <3>1, <3>2 DEF SemicolonAfterBraces
  <2> QED BY <2>2, <2>3, <2>4
<1>6. \A k \in 0 .. n : k \in Good
  <2>1. \A k \in 1 .. n : k - 1 \in Good => k \in Good
    BY <1>5
  <2> HIDE DEF Good
  <2> QED BY <1>1, <1>4, <2>1, UpTo
<1>7. \A k \in 0 .. n : SearchesOn(J[k].line, Above(J[k]).line)
  <2> SUFFICES ASSUME NEW k \in 0 .. n PROVE SearchesOn(J[k].line, Above(J[k]).line)
    OBVIOUS
  <2>1. SemicolonAfterBraces(J[k].line) /\ J[k].linenum <= n
    BY <1>6
  <2> QED BY <1>3, <2>1 DEF SearchesOn
<1> QED BY <1>7 DEF SearchEnds, Above, J

\* A search that goes on has met nothing else.
LEMMA SearchHasMet ==
  ASSUME TextOK, NEW n \in 1 .. Len(lines), ~SearchEnds(n),
         NEW m \in 1 .. (n - 1), ~IsBlankLine(lines[m])
  PROVE  IndentedBrace(lines[m]) /\ Semicolon \notin Range(lines[m])
<1> DEFINE S == alphabet.chars
           N == Len(lines)
           J == JoinLines(n)
           P == IndentedBrace(lines[m]) /\ Semicolon \notin Range(lines[m])
           Good == {k \in 0 .. n : (m >= J[k].linenum => P) /\ J[k].linenum <= n - k}
<1>1. N \in Nat /\ n \in 1 .. N /\ n \in Nat /\ m \in Nat
  BY LinesType
<1>2. /\ \A k \in 0 .. n : J[k].line \in Seq(S) /\ J[k].linenum \in 0 .. N
      /\ J[0].line = lines[n] /\ J[0].linenum = n
      /\ \A k \in 1 .. n : /\ J[k].line = Above(J[k - 1]).line \o J[k - 1].line
                           /\ J[k].linenum = Above(J[k - 1]).linenum
  BY JoinSteps
<1>3. \A k \in 0 .. n : /\ IndentedBrace(J[k].line)
                        /\ Semicolon \notin Range(Above(J[k]).line)
  BY DEF SearchEnds, SearchesOn, SemicolonAfterBraces, Above
<1> HIDE DEF J, N, P
<1>4. 0 \in Good
  BY <1>1, <1>2
<1>5. ASSUME NEW k \in 1 .. n, k - 1 \in Good PROVE k \in Good
  <2> DEFINE l == J[k - 1].linenum
             t == J[k - 1].line
             pl == Above(J[k - 1]).line
             pn == Above(J[k - 1]).linenum
  <2>1. /\ k - 1 \in 0 .. n /\ k \in 0 .. n /\ l \in 0 .. N /\ t \in Seq(S)
        /\ m >= l => P
        /\ l <= n - (k - 1)
    BY <1>1, <1>2, <1>5
  <2>2. J[k].line = pl \o t /\ J[k].linenum = pn
    BY <1>2
  <2>3. /\ pl \in Seq(S) /\ pn \in 0 .. N
        /\ pn # 0 => /\ pn \in 1 .. (l - 1) /\ pl = lines[pn] /\ ~IsBlankLine(lines[pn])
        /\ m \in 1 .. (l - 1) => m <= pn
    BY <2>1, PreviousLine DEF Above, N
  <2>4. IndentedBrace(pl \o t) /\ Semicolon \notin Range(pl)
    BY <1>3, <2>1, <2>2
  <2> HIDE DEF l, t, pl, pn
  <2>5. pn <= n - k
    BY <1>1, <2>1, <2>3
  <2>6. ASSUME m >= pn PROVE P
    <3>1. CASE m >= l
      BY <2>1, <3>1
    <3>2. CASE m < l
      <4>1. m \in 1 .. (l - 1) /\ m = pn /\ pn # 0
        BY <1>1, <2>1, <2>3, <2>6, <3>2
      <4>2. pl = lines[m] /\ ~IsBlankLine(pl)
        BY <2>3, <4>1
      <4>3. IndentedBrace(pl)
        BY <2>1, <2>3, <2>4, <4>2, IndentedConcat
      <4> QED BY <2>4, <4>2, <4>3 DEF P
    <3> QED BY <1>1, <2>1, <3>1, <3>2
  <2> QED BY <2>1, <2>2, <2>5, <2>6
<1>6. n \in Good
  <2>1. \A k \in 1 .. n : k - 1 \in Good => k \in Good
    BY <1>5
  <2> HIDE DEF Good
  <2>2. \A k \in 0 .. n : k \in Good
    BY <1>1, <1>4, <2>1, UpTo
  <2> QED BY <1>1, <2>2
<1>7. J[n].linenum \in 0 .. N /\ J[n].linenum <= 0 /\ (m >= J[n].linenum => P)
  BY <1>1, <1>2, <1>6
<1>8. m >= J[n].linenum
  BY <1>1, <1>7
<1> QED BY <1>7, <1>8 DEF P

\* CheckBraces comes back for every line of every file, except where the
\* file's first lines that are not blank all start with an indented brace and
\* have no semicolon up to the one that has "};".
THEOREM LintSearchUpEnds == Spec => []SearchUpEnds
<1>1. TextOK => SearchUpEnds
  <2> SUFFICES ASSUME TextOK, NEW n \in DOMAIN lines
               PROVE  LET above == {m \in 1..(n - 1) : ~IsBlankLine(lines[m])}
                      IN  SearchEnds(n) <=>
                            \/ ~SemicolonAfterBraces(lines[n])
                            \/ \E m \in above : ~IndentedBrace(lines[m]) \/ Semicolon \in Range(lines[m])
    BY DEF SearchUpEnds
  <2>1. n \in 1 .. Len(lines)
    BY LinesType
  <2>2. ASSUME ~SemicolonAfterBraces(lines[n]) PROVE SearchEnds(n)
    <3>1. 0 \in 0 .. n
      BY <2>1, LinesType
    <3>2. JoinLines(n)[0].line = lines[n]
      BY <2>1, JoinSteps
    <3>3. ~SearchesOn(JoinLines(n)[0].line, GetPreviousNonBlankLine(JoinLines(n)[0].linenum).line)
      BY <2>2, <3>2 DEF SearchesOn
    <3> QED BY <3>1, <3>3 DEF SearchEnds
  <2> QED BY <2>1, <2>2, SearchGoesOn, SearchHasMet
<1> QED BY <1>1, TextInvariant, PTL

-----------------------------------------------------------------------------
(***************************************************************************)
(* Counting brackets.                                                      *)
(***************************************************************************)
Having(s, i, j, X) == {k \in i .. j : s[k] \in X}

LEMMA HavingFinite ==
  ASSUME NEW s, NEW i \in Int, NEW j \in Int, NEW X
  PROVE  IsFiniteSet(Having(s, i, j, X)) /\ Cardinality(Having(s, i, j, X)) \in Nat
<1>1. IsFiniteSet(i .. j) /\ Having(s, i, j, X) \subseteq i .. j
  BY FS_Interval DEF Having
<1> QED BY <1>1, FS_Subset, FS_CardinalityType

LEMMA HavingSplit ==
  ASSUME NEW s, NEW i \in Int, NEW j \in Int, NEW m \in Int, i - 1 <= m, m <= j, NEW X
  PROVE  Cardinality(Having(s, i, j, X))
           = Cardinality(Having(s, i, m, X)) + Cardinality(Having(s, m + 1, j, X))
<1> DEFINE A == Having(s, i, m, X)
           B == Having(s, m + 1, j, X)
<1>1. IsFiniteSet(A) /\ IsFiniteSet(B)
  BY HavingFinite
<1>2. A \cap B = {} /\ A \cup B = Having(s, i, j, X)
  BY DEF Having
<1>3. Cardinality(A) \in Nat /\ Cardinality(B) \in Nat
  BY HavingFinite
<1> HIDE DEF A, B
<1>4. Cardinality(A \cup B) = Cardinality(A) + Cardinality(B) - Cardinality(A \cap B)
  BY <1>1, FS_Union
<1>5. Cardinality(A \cap B) = 0
  BY <1>2, FS_EmptySet
<1>6. Cardinality(A \cup B) = Cardinality(A) + Cardinality(B)
  BY <1>3, <1>4, <1>5
<1>7. Cardinality(Having(s, i, j, X)) = Cardinality(A) + Cardinality(B)
  BY <1>2, <1>6
<1> QED BY <1>7 DEF A, B

LEMMA HavingOne ==
  ASSUME NEW s, NEW i \in Int, NEW X
  PROVE  Cardinality(Having(s, i, i, X)) = IF s[i] \in X THEN 1 ELSE 0
<1>1. i .. i = {i}
  OBVIOUS
<1>2. Having(s, i, i, X) = IF s[i] \in X THEN {i} ELSE {}
  BY <1>1 DEF Having
<1> QED BY <1>2, FS_Singleton, FS_EmptySet

LEMMA HavingNone ==
  ASSUME NEW s, NEW i \in Int, NEW j \in Int, j < i, NEW X
  PROVE  Cardinality(Having(s, i, j, X)) = 0
<1>1. Having(s, i, j, X) = {}
  BY DEF Having
<1> QED BY <1>1, FS_EmptySet

LEMMA DepthType ==
  ASSUME NEW s, NEW i \in Int, NEW j \in Int, NEW O, NEW C
  PROVE  Depth(s, i, j, O, C) \in Int /\ (j < i => Depth(s, i, j, O, C) = 0)
<1>1. Depth(s, i, j, O, C) = Cardinality(Having(s, i, j, O)) - Cardinality(Having(s, i, j, C))
  BY DEF Depth, Having
<1> QED BY <1>1, HavingFinite, HavingNone

LEMMA DepthSplit ==
  ASSUME NEW s, NEW i \in Int, NEW j \in Int, NEW m \in Int, i - 1 <= m, m <= j, NEW O, NEW C
  PROVE  Depth(s, i, j, O, C) = Depth(s, i, m, O, C) + Depth(s, m + 1, j, O, C)
<1> DEFINE Card(x, y, X) == Cardinality(Having(s, x, y, X))
<1>1. \A x, y \in Int : Depth(s, x, y, O, C) = Card(x, y, O) - Card(x, y, C)
  BY DEF Depth, Having
<1>2. \A x, y \in Int : Card(x, y, O) \in Nat /\ Card(x, y, C) \in Nat
  BY HavingFinite
<1>3. /\ Card(i, j, O) = Card(i, m, O) + Card(m + 1, j, O)
      /\ Card(i, j, C) = Card(i, m, C) + Card(m + 1, j, C)
  BY HavingSplit
<1> HIDE DEF Card
<1>4. m + 1 \in Int
  OBVIOUS
<1> QED BY <1>1, <1>2, <1>3, <1>4

Weight(x, O, C) == (IF x \in O THEN 1 ELSE 0) - (IF x \in C THEN 1 ELSE 0)

LEMMA DepthOne ==
  ASSUME NEW s, NEW i \in Int, NEW O, NEW C
  PROVE  Depth(s, i, i, O, C) = Weight(s[i], O, C)
<1>1. Depth(s, i, i, O, C) = Cardinality(Having(s, i, i, O)) - Cardinality(Having(s, i, i, C))
  BY DEF Depth, Having
<1> QED BY <1>1, HavingOne DEF Weight

LEMMA DepthLast ==
  ASSUME NEW s, NEW i \in Int, NEW j \in Int, i <= j, NEW O, NEW C
  PROVE  Depth(s, i, j, O, C) = Depth(s, i, j - 1, O, C) + Weight(s[j], O, C)
<1> DEFINE m == j - 1
<1>1. m \in Int /\ i - 1 <= m /\ m <= j /\ m + 1 = j
  OBVIOUS
<1> HIDE DEF m
<1>2. Depth(s, i, j, O, C) = Depth(s, i, m, O, C) + Depth(s, m + 1, j, O, C)
  BY <1>1, DepthSplit
<1>3. Depth(s, m + 1, j, O, C) = Weight(s[j], O, C)
  BY <1>1, DepthOne
<1> QED BY <1>2, <1>3 DEF m

-----------------------------------------------------------------------------
(***************************************************************************)
(* The stack of a bracket machine.  D[k] is the depth after position k of  *)
(* s; the bracket at p is closed at m, where the depth first falls below   *)
(* its own; and the stack holds, level by level, the labels of the         *)
(* brackets that are still open.                                           *)
(***************************************************************************)
Nesting(D, s, a, b, O, C) ==
  /\ D \in [(a - 1) .. b -> Int]
  /\ D[a - 1] = 0
  /\ \A k \in a .. b : /\ s[k] \in O => D[k] = D[k - 1] + 1
                       /\ s[k] \in C => D[k] = D[k - 1] - 1
                       /\ s[k] \notin O \cup C => D[k] = D[k - 1]

ClosedAt(D, s, O, p, m) ==
  p < m /\ s[p] \in O /\ D[m] < D[p] /\ \A x \in p .. (m - 1) : D[x] >= D[p]

OpenAt(D, s, O, p, k, d) == s[p] \in O /\ D[p] = d /\ \A x \in p .. k : D[x] >= d

Levels(stack, D, s, a, k, O, g) ==
  /\ Len(stack) = D[k]
  /\ \A d \in 1 .. D[k] : \E p \in a .. k : OpenAt(D, s, O, p, k, d) /\ stack[d] = g[s[p]]

Depths(s, a, b, O, C) == [k \in (a - 1) .. b |-> Depth(s, a, k, O, C)]

LEMMA NestingExists ==
  ASSUME NEW s, NEW a \in Int, NEW b \in Int, NEW O, NEW C, O \cap C = {}, b >= a - 1
  PROVE  Nesting(Depths(s, a, b, O, C), s, a, b, O, C)
<1> DEFINE D == Depths(s, a, b, O, C)
<1>1. \A k \in (a - 1) .. b : D[k] = Depth(s, a, k, O, C) /\ k \in Int
  BY DEF Depths
<1>2. D \in [(a - 1) .. b -> Int]
  <2>1. \A k \in (a - 1) .. b : Depth(s, a, k, O, C) \in Int
    BY <1>1, DepthType
  <2> QED BY <2>1 DEF Depths
<1>3. a - 1 \in (a - 1) .. b /\ a - 1 < a /\ a - 1 \in Int
  OBVIOUS
<1>4. D[a - 1] = 0
  BY <1>1, <1>3, DepthType
<1>5. ASSUME NEW k \in a .. b PROVE D[k] = D[k - 1] + Weight(s[k], O, C)
  <2>1. k \in (a - 1) .. b /\ k - 1 \in (a - 1) .. b /\ k \in Int /\ a <= k
    OBVIOUS
  <2>2. Depth(s, a, k, O, C) = Depth(s, a, k - 1, O, C) + Weight(s[k], O, C)
    BY <2>1, DepthLast
  <2> QED BY <1>1, <2>1, <2>2
<1> HIDE DEF D
<1>6. ASSUME NEW k \in a .. b
      PROVE  /\ s[k] \in O => D[k] = D[k - 1] + 1
             /\ s[k] \in C => D[k] = D[k - 1] - 1
             /\ s[k] \notin O \cup C => D[k] = D[k - 1]
  <2>1. D[k - 1] \in Int
    <3>1. k - 1 \in (a - 1) .. b
      OBVIOUS
    <3> QED BY <1>2, <3>1
  <2>2. /\ s[k] \in O => Weight(s[k], O, C) = 1
        /\ s[k] \in C => Weight(s[k], O, C) = -1
        /\ s[k] \notin O \cup C => Weight(s[k], O, C) = 0
    BY DEF Weight
  <2> QED BY <1>5, <2>1, <2>2
<1>7. Nesting(D, s, a, b, O, C)
  BY <1>2, <1>4, <1>6 DEF Nesting
<1> QED BY <1>7 DEF D

\* The brackets that are open stay open while the depth does not fall below
\* their level.
LEMMA OpenStays ==
  ASSUME NEW D, NEW s, NEW O, NEW p \in Int, NEW k \in Int, NEW d \in Int, p <= k,
         OpenAt(D, s, O, p, k, d), D[k + 1] >= d
  PROVE  OpenAt(D, s, O, p, k + 1, d)
<1>1. \A x \in p .. (k + 1) : x \in p .. k \/ x = k + 1
  OBVIOUS
<1> QED BY <1>1 DEF OpenAt

\* Only one bracket is open at a level.
LEMMA OpenUnique ==
  ASSUME NEW D, NEW s, NEW a \in Int, NEW b \in Int, NEW O, NEW C, Nesting(D, s, a, b, O, C),
         NEW k \in a .. b, NEW d \in Int, NEW p \in a .. k, NEW q \in a .. k,
         OpenAt(D, s, O, p, k, d), OpenAt(D, s, O, q, k, d)
  PROVE  p = q
<1>1. ASSUME NEW x \in a .. k, NEW y \in a .. k, x < y,
             OpenAt(D, s, O, x, k, d), OpenAt(D, s, O, y, k, d)
      PROVE  FALSE
  <2>1. y \in a .. b /\ y - 1 \in x .. k /\ y - 1 \in (a - 1) .. b
    BY <1>1
  <2>2. D[y] = D[y - 1] + 1 /\ D[y - 1] \in Int /\ D[y] = d
    BY <1>1, <2>1 DEF Nesting, OpenAt
  <2>3. D[y - 1] >= d
    BY <1>1, <2>1 DEF OpenAt
  <2> QED BY <2>2, <2>3
<1>2. p < q \/ q < p \/ p = q
  OBVIOUS
<1> QED BY <1>1, <1>2

\* A bracket that is closed at the next position is open at the last level.
LEMMA ClosedWasOpen ==
  ASSUME NEW D, NEW s, NEW a \in Int, NEW b \in Int, NEW O, NEW C, Nesting(D, s, a, b, O, C),
         NEW k \in a .. b, k + 1 \in a .. b, NEW p \in a .. k, ClosedAt(D, s, O, p, k + 1),
         O \cap C = {}
  PROVE  s[k + 1] \in C /\ OpenAt(D, s, O, p, k, D[k])
<1>1. /\ D[k] \in Int /\ D[k + 1] \in Int /\ D[p] \in Int
      /\ s[k + 1] \in O => D[k + 1] = D[k] + 1
      /\ s[k + 1] \in C => D[k + 1] = D[k] - 1
      /\ s[k + 1] \notin O \cup C => D[k + 1] = D[k]
  <2>1. k \in (a - 1) .. b /\ k + 1 \in (a - 1) .. b /\ p \in (a - 1) .. b /\ (k + 1) - 1 = k
    OBVIOUS
  <2>2. D[k] \in Int /\ D[k + 1] \in Int /\ D[p] \in Int
    BY <2>1 DEF Nesting
  <2>3. /\ s[k + 1] \in O => D[k + 1] = D[(k + 1) - 1] + 1
        /\ s[k + 1] \in C => D[k + 1] = D[(k + 1) - 1] - 1
        /\ s[k + 1] \notin O \cup C => D[k + 1] = D[(k + 1) - 1]
    BY DEF Nesting
  <2> QED BY <2>1, <2>2, <2>3
<1>2. /\ s[p] \in O /\ D[k + 1] < D[p] /\ \A x \in p .. k : D[x] >= D[p]
  <2>1. (k + 1) - 1 = k
    OBVIOUS
  <2> QED BY <2>1 DEF ClosedAt
<1>3. D[k] >= D[p]
  BY <1>2
<1>4. s[k + 1] \in C /\ D[p] = D[k]
  BY <1>1, <1>2, <1>3
<1> QED BY <1>2, <1>4 DEF OpenAt

\* Conversely a closing bracket closes the one that is open at the last level.
LEMMA OpenIsClosed ==
  ASSUME NEW D, NEW s, NEW a \in Int, NEW b \in Int, NEW O, NEW C, Nesting(D, s, a, b, O, C),
         NEW k \in a .. b, k + 1 \in a .. b, NEW p \in a .. k,
         OpenAt(D, s, O, p, k, D[k]), s[k + 1] \in C
  PROVE  ClosedAt(D, s, O, p, k + 1)
<1>1. D[k] \in Int /\ D[k + 1] = D[(k + 1) - 1] - 1 /\ (k + 1) - 1 = k
  <2>1. k \in (a - 1) .. b
    OBVIOUS
  <2> QED BY <2>1 DEF Nesting
<1>2. s[p] \in O /\ D[p] = D[k] /\ \A x \in p .. k : D[x] >= D[k]
  BY DEF OpenAt
<1>3. D[k + 1] < D[p] /\ p < k + 1
  BY <1>1, <1>2
<1>4. \A x \in p .. ((k + 1) - 1) : D[x] >= D[p]
  BY <1>1, <1>2
<1> QED BY <1>2, <1>3, <1>4 DEF ClosedAt

\* An opening bracket comes on top of the stack,
LEMMA LevelsOpen ==
  ASSUME NEW D, NEW s, NEW a \in Int, NEW b \in Int, NEW O, NEW C, Nesting(D, s, a, b, O, C),
         NEW k \in a .. b, k + 1 \in a .. b, s[k + 1] \in O, D[k] >= 0,
         NEW V, NEW stack \in Seq(V), NEW g, g[s[k + 1]] \in V,
         Levels(stack, D, s, a, k, O, g)
  PROVE  Levels(Append(stack, g[s[k + 1]]), D, s, a, k + 1, O, g)
<1> DEFINE e == g[s[k + 1]]
           st == Append(stack, e)
           n == D[k]
           q == k + 1
<1>1. n \in Nat /\ D[q] = n + 1 /\ q \in a .. q /\ q \in Int
  <2>1. k \in (a - 1) .. b /\ q - 1 = k /\ q \in a .. b /\ q \in a .. q
    OBVIOUS
  <2>2. D[k] \in Int /\ D[q] = D[q - 1] + 1
    BY <2>1 DEF Nesting
  <2> QED BY <2>1, <2>2
<1>2. Len(stack) = n /\ \A d \in 1 .. n : \E p \in a .. k : OpenAt(D, s, O, p, k, d) /\ stack[d] = g[s[p]]
  BY DEF Levels
<1>3. Len(st) = n + 1 /\ st[n + 1] = e /\ \A d \in 1 .. n : st[d] = stack[d]
  BY <1>1, <1>2, AppendProperties
<1> HIDE DEF e, st, n
<1>4. ASSUME NEW d \in 1 .. (n + 1)
      PROVE  \E p \in a .. q : OpenAt(D, s, O, p, q, d) /\ st[d] = g[s[p]]
  <2>1. CASE d \in 1 .. n
    <3>1. PICK p \in a .. k : OpenAt(D, s, O, p, k, d) /\ stack[d] = g[s[p]]
      BY <1>2, <2>1
    <3>2. p \in Int /\ k \in Int /\ d \in Int /\ p <= k /\ D[k + 1] >= d /\ p \in a .. q
      BY <1>1, <2>1
    <3>3. OpenAt(D, s, O, p, k + 1, d)
      BY <3>1, <3>2, OpenStays
    <3>4. st[d] = g[s[p]]
      BY <1>3, <2>1, <3>1
    <3> QED BY <3>2, <3>3, <3>4
  <2>2. CASE d = n + 1
    <3>1. q .. q = {q}
      BY <1>1
    <3>2. OpenAt(D, s, O, q, q, d)
      BY <1>1, <2>2, <3>1 DEF OpenAt
    <3>3. st[d] = g[s[q]]
      BY <1>3, <2>2 DEF e
    <3> QED BY <1>1, <3>2, <3>3
  <2> QED BY <1>1, <2>1, <2>2
<1>5. Levels(st, D, s, a, q, O, g)
  BY <1>1, <1>3, <1>4 DEF Levels
<1> QED BY <1>5 DEF st, e

\* a closing one takes the top away, which is the label of what it closes,
TopCloses(stack, D, s, a, k, O, g) ==
  \E p \in a .. k : /\ ClosedAt(D, s, O, p, k + 1) /\ OpenAt(D, s, O, p, k, D[k])
                    /\ Last(stack) = g[s[p]]

LEMMA LevelsClose ==
  ASSUME NEW D, NEW s, NEW a \in Int, NEW b \in Int, NEW O, NEW C, Nesting(D, s, a, b, O, C),
         NEW k \in a .. b, k + 1 \in a .. b, s[k + 1] \in C, D[k] >= 1,
         NEW V, NEW stack \in Seq(V), NEW g,
         Levels(stack, D, s, a, k, O, g)
  PROVE  /\ Levels(Front(stack), D, s, a, k + 1, O, g) /\ Front(stack) \in Seq(V)
         /\ TopCloses(stack, D, s, a, k, O, g)
<1> DEFINE st == Front(stack)
           n == D[k]
           q == k + 1
<1>1. n \in Nat /\ n >= 1 /\ D[q] = n - 1 /\ q \in Int
  <2>1. k \in (a - 1) .. b /\ q - 1 = k /\ q \in a .. b
    OBVIOUS
  <2>2. D[k] \in Int /\ D[q] = D[q - 1] - 1
    BY <2>1 DEF Nesting
  <2> QED BY <2>1, <2>2
<1>2. Len(stack) = n /\ \A d \in 1 .. n : \E p \in a .. k : OpenAt(D, s, O, p, k, d) /\ stack[d] = g[s[p]]
  BY DEF Levels
<1>3. st \in Seq(V) /\ Len(st) = n - 1 /\ \A d \in 1 .. (n - 1) : st[d] = stack[d]
  <2>1. st = SubSeq(stack, 1, n - 1) /\ n - 1 \in Nat /\ \A d \in 1 .. (n - 1) : d \in 1 .. Len(stack)
    BY <1>1, <1>2 DEF Front
  <2>2. \A d \in 1 .. (n - 1) : stack[d] \in V
    BY <2>1, ElementOfSeq
  <2> QED BY <1>1, <1>2, <2>1, <2>2, SubSeqProperties
<1>4. Last(stack) = stack[n] /\ n \in 1 .. n
  BY <1>1, <1>2 DEF Last
<1> HIDE DEF st, n
<1>5. ASSUME NEW d \in 1 .. (n - 1)
      PROVE  \E p \in a .. q : OpenAt(D, s, O, p, q, d) /\ st[d] = g[s[p]]
  <2>1. d \in 1 .. n
    BY <1>1
  <2>2. PICK p \in a .. k : OpenAt(D, s, O, p, k, d) /\ stack[d] = g[s[p]]
    BY <1>2, <2>1
  <2>3. p \in Int /\ k \in Int /\ d \in Int /\ p <= k /\ D[k + 1] >= d /\ p \in a .. q
    BY <1>1
  <2>4. OpenAt(D, s, O, p, k + 1, d)
    BY <2>2, <2>3, OpenStays
  <2>5. st[d] = g[s[p]]
    BY <1>3, <2>2
  <2> QED BY <2>3, <2>4, <2>5
<1>6. Levels(st, D, s, a, q, O, g)
  BY <1>1, <1>3, <1>5 DEF Levels
<1>7. PICK p \in a .. k : OpenAt(D, s, O, p, k, n) /\ stack[n] = g[s[p]]
  BY <1>2, <1>4
<1>8. ClosedAt(D, s, O, p, k + 1)
  BY <1>7, OpenIsClosed DEF n
<1> QED BY <1>3, <1>4, <1>6, <1>7, <1>8 DEF st, n, TopCloses

\* and any other character leaves the stack alone.
LEMMA LevelsSkip ==
  ASSUME NEW D, NEW s, NEW a \in Int, NEW b \in Int, NEW O, NEW C, Nesting(D, s, a, b, O, C),
         NEW k \in a .. b, k + 1 \in a .. b, s[k + 1] \notin O \cup C, NEW stack, NEW g,
         Levels(stack, D, s, a, k, O, g)
  PROVE  Levels(stack, D, s, a, k + 1, O, g) /\ D[k + 1] = D[k]
<1>1. D[k] \in Int /\ D[k + 1] = D[k]
  <2>1. k \in (a - 1) .. b /\ (k + 1) - 1 = k
    OBVIOUS
  <2>2. D[k + 1] = D[(k + 1) - 1]
    BY DEF Nesting
  <2> QED BY <2>1, <2>2 DEF Nesting
<1>2. ASSUME NEW d \in 1 .. D[k]
      PROVE  \E p \in a .. (k + 1) : OpenAt(D, s, O, p, k + 1, d) /\ stack[d] = g[s[p]]
  <2>1. PICK p \in a .. k : OpenAt(D, s, O, p, k, d) /\ stack[d] = g[s[p]]
    BY DEF Levels
  <2>2. p \in Int /\ k \in Int /\ d \in Int /\ p <= k /\ D[k + 1] >= d /\ p \in a .. (k + 1)
    BY <1>1
  <2>3. OpenAt(D, s, O, p, k + 1, d)
    BY <2>1, <2>2, OpenStays
  <2> QED BY <2>1, <2>2, <2>3
<1> QED BY <1>1, <1>2 DEF Levels

\* The positions a to k are inside the bracket at a; the ones up to k are
\* closed by their partners; the bracket at i is closed at j, properly.
Raised(D, a, k) == \A x \in a .. k : D[x] >= 1
Proper(D, s, a, k, O, g) ==
  \A p, m \in a .. k : ClosedAt(D, s, O, p, m) => s[m] = g[s[p]]
EndAt(D, s, a, j, O, g) == D[j] = 0 /\ Raised(D, a, j - 1) /\ Proper(D, s, a, j, O, g)

\* The depth from the bracket at a, and the one behind it.
DepthBehind(s, a, k, O, C) == Depth(s, a + 1, k, O, C)

LEMMA DepthInside ==
  ASSUME NEW s, NEW a \in Int, NEW k \in Int, a <= k, NEW O, NEW C, O \cap C = {}, s[a] \in O
  PROVE  /\ Depth(s, a, k, O, C) = 1 + DepthBehind(s, a, k, O, C) /\ DepthBehind(s, a, k, O, C) \in Int
         /\ k = a => DepthBehind(s, a, k, O, C) = 0
<1>1. Depth(s, a, k, O, C) = Depth(s, a, a, O, C) + Depth(s, a + 1, k, O, C)
  BY DepthSplit
<1>2. Depth(s, a, a, O, C) = 1
  BY DepthOne DEF Weight
<1>3. Depth(s, a + 1, k, O, C) \in Int /\ (k < a + 1 => Depth(s, a + 1, k, O, C) = 0)
  BY DepthType
<1> QED BY <1>1, <1>2, <1>3 DEF DepthBehind

Partners(g, O, C) == O = DOMAIN g /\ C = Range(g) /\ O \cap C = {}

\* A bracket is closed at j by its partner with everything in between properly
\* nested, exactly when it is the first one that brings the depth to 0 and
\* every bracket up to it is closed by its partner.
LEMMA EndsAre ==
  ASSUME NEW s, NEW a \in Nat, NEW b \in Nat, a <= b, NEW O, NEW C, NEW g, Partners(g, O, C),
         s[a] \in O, NEW D, D = Depths(s, a, b, O, C), NEW j \in (a + 1) .. b
  PROVE  EndAt(D, s, a, j, O, g) <=> s[j] = g[s[a]] /\ WellNested(s, a + 1, j - 1, g)
<1> DEFINE i == a + 1
           E(k) == DepthBehind(s, a, k, O, C)
           l == j - 1
<1>1. Nesting(D, s, a, b, O, C)
  BY NestingExists DEF Partners
<1>2. \A k \in a .. b : D[k] = 1 + E(k) /\ E(k) \in Int /\ D[k] \in Int
  <2> SUFFICES ASSUME NEW k \in a .. b PROVE D[k] = 1 + E(k) /\ E(k) \in Int /\ D[k] \in Int
    OBVIOUS
  <2>1. D[k] = Depth(s, a, k, O, C) /\ k \in Int /\ a \in Int /\ a <= k
    BY DEF Depths
  <2>2. O \cap C = {}
    BY DEF Partners
  <2> QED BY <2>1, <2>2, DepthInside
<1>3. D[a] = 1
  <2>1. a \in a .. b /\ O \cap C = {} /\ a \in Int /\ a <= a
    BY DEF Partners
  <2>2. E(a) = 0
    BY <2>1, DepthInside
  <2> HIDE DEF E
  <2> QED BY <1>2, <2>1, <2>2
<1>4. j \in a .. b /\ l \in a .. b /\ i \in Int /\ l \in Int /\ j \in Int
  OBVIOUS
<1>5. /\ s[j] \in C => D[j] = D[l] - 1
      /\ s[j] \in O => D[j] = D[l] + 1
      /\ s[j] \notin O \cup C => D[j] = D[l]
  BY <1>1, <1>4 DEF Nesting
<1>6. WellNested(s, i, l, g) <=>
        /\ E(l) = 0 /\ \A k \in i .. l : E(k) >= 0
        /\ \A k, m \in i .. l :
              /\ k < m /\ s[k] \in O
              /\ E(m) < E(k) /\ \A x \in k..(m - 1) : E(x) >= E(k)
              => s[m] = g[s[k]]
  BY DEF WellNested, DepthBehind, Partners
<1> HIDE DEF E
<1>7. ASSUME NEW k \in i .. l, NEW m \in i .. l
      PROVE  ClosedAt(D, s, O, k, m) <=>
              /\ k < m /\ s[k] \in O
              /\ E(m) < E(k) /\ \A x \in k..(m - 1) : E(x) >= E(k)
  <2>1. \A x \in k .. m : D[x] = 1 + E(x) /\ E(x) \in Int
    BY <1>2
  <2>2. D[k] = 1 + E(k) /\ E(k) \in Int /\ D[m] = 1 + E(m) /\ E(m) \in Int
    <3>1. k \in a .. b /\ m \in a .. b
      OBVIOUS
    <3> QED BY <1>2, <3>1
  <2>3. D[m] < D[k] <=> E(m) < E(k)
    BY <2>2
  <2>4. ASSUME NEW x \in k .. (m - 1) PROVE D[x] >= D[k] <=> E(x) >= E(k)
    <3>1. D[x] = 1 + E(x) /\ E(x) \in Int
      BY <2>1
    <3> QED BY <2>2, <3>1
  <2> QED BY <2>3, <2>4 DEF ClosedAt
<1>8. WellNested(s, i, l, g) <=>
        /\ E(l) = 0 /\ \A k \in i .. l : E(k) >= 0
        /\ \A k, m \in i .. l : ClosedAt(D, s, O, k, m) => s[m] = g[s[k]]
  BY <1>6, <1>7
<1>9. (\A k \in i .. l : E(k) >= 0) <=> Raised(D, a, l)
  <2>1. \A k \in a .. l : k = a \/ k \in i .. l
    OBVIOUS
  <2>2. \A k \in i .. l : E(k) >= 0 <=> D[k] >= 1
    <3> SUFFICES ASSUME NEW k \in i .. l PROVE E(k) >= 0 <=> D[k] >= 1
      OBVIOUS
    <3>1. D[k] = 1 + E(k) /\ E(k) \in Int
      <4>1. k \in a .. b
        OBVIOUS
      <4> QED BY <1>2, <4>1
    <3> QED BY <3>1
  <2>3. \A k \in i .. l : k \in a .. l
    OBVIOUS
  <2>4. D[a] >= 1
    BY <1>3
  <2> HIDE DEF i, l
  <2> QED BY <2>1, <2>2, <2>3, <2>4 DEF Raised
<1>10. D[l] = 1 + E(l) /\ E(l) \in Int /\ D[l] \in Int /\ D[j] \in Int
  BY <1>2, <1>4
<1>11. g[s[a]] \in C
  BY DEF Partners, Range
<1>12. ASSUME s[j] = g[s[a]], WellNested(s, i, l, g)
       PROVE  EndAt(D, s, a, j, O, g)
  <2>1. /\ E(l) = 0 /\ Raised(D, a, l)
        /\ \A k, m \in i .. l : ClosedAt(D, s, O, k, m) => s[m] = g[s[k]]
    BY <1>8, <1>9, <1>12
  <2>2. D[l] = 1 /\ D[j] = 0
    <3>1. s[j] \in C
      BY <1>11, <1>12
    <3>2. D[j] = D[l] - 1
      BY <1>5, <3>1
    <3> QED BY <1>10, <2>1, <3>2
  <2>3. ASSUME NEW p \in a .. j, NEW m \in a .. j, ClosedAt(D, s, O, p, m)
        PROVE  s[m] = g[s[p]]
    <3>1. p < m /\ s[p] \in O /\ D[m] < D[p] /\ \A x \in p .. (m - 1) : D[x] >= D[p]
      BY <2>3 DEF ClosedAt
    <3>2. CASE p = a
      <4>1. ~(D[m] >= 1)
        <5>1. D[m] \in Int
          BY <1>2
        <5> QED BY <1>3, <3>1, <3>2, <5>1
      <4>2. m = j
        <5>1. m \in a .. l \/ m = j
          OBVIOUS
        <5> QED BY <2>1, <4>1, <5>1 DEF Raised
      <4> QED BY <1>11, <1>12, <3>2, <4>2
    <3>3. CASE p # a /\ m = j
      <4>1. p \in a .. b /\ p - 1 \in a .. l /\ l \in p .. (m - 1)
        BY <3>1, <3>3
      <4>2. D[p] = D[p - 1] + 1 /\ D[p - 1] >= 1 /\ D[l] >= D[p]
        BY <1>1, <2>1, <3>1, <4>1 DEF Nesting, Raised
      <4>3. D[p - 1] \in Int
        BY <1>2, <4>1
      <4> QED BY <2>2, <4>2, <4>3
    <3>4. CASE p # a /\ m # j
      <4>1. p \in i .. l /\ m \in i .. l
        BY <3>1, <3>4
      <4> QED BY <2>1, <2>3, <4>1
    <3> QED BY <3>2, <3>3, <3>4
  <2> QED BY <2>1, <2>2, <2>3 DEF EndAt, Proper
<1>13. ASSUME EndAt(D, s, a, j, O, g)
       PROVE  s[j] = g[s[a]] /\ WellNested(s, i, l, g)
  <2>1. D[j] = 0 /\ Raised(D, a, l) /\ Proper(D, s, a, j, O, g) /\ l \in a .. l
    BY <1>13 DEF EndAt
  <2>2. D[l] >= 1
    BY <2>1 DEF Raised
  <2>3. D[l] = 1 /\ E(l) = 0
    BY <1>5, <1>10, <2>1, <2>2
  <2>4. ClosedAt(D, s, O, a, j)
    BY <1>3, <2>1 DEF ClosedAt, Raised
  <2>5. s[j] = g[s[a]]
    <3>1. a \in a .. j /\ j \in a .. j
      OBVIOUS
    <3> QED BY <1>11, <2>1, <2>4, <3>1 DEF Proper
  <2>6. \A k, m \in i .. l : ClosedAt(D, s, O, k, m) => s[m] = g[s[k]]
    <3>1. \A k \in i .. l : k \in a .. j
      OBVIOUS
    <3> QED BY <2>1, <3>1 DEF Proper
  <2> QED BY <1>8, <1>9, <2>1, <2>3, <2>5, <2>6
<1> QED BY <1>12, <1>13

-----------------------------------------------------------------------------
(***************************************************************************)
(* _GetTextInside.                                                         *)
(***************************************************************************)
LEMMA CharactersDiffer ==
  /\ "(" # LBrace /\ LBrace # "[" /\ "(" # RBrace /\ "[" # RBrace
  /\ ")" # LBrace /\ "]" # LBrace /\ LBrace # RBrace
  /\ ")" # RBrace /\ "]" # RBrace
BY Zenon DEF LBrace, RBrace

LEMMA EndCharacters ==
  /\ Opening \cap Closing = {}
  /\ \A c \in Opening : EndChar(c) \in Closing
  /\ DOMAIN Punctuation = Opening /\ Range(Punctuation) = Closing
  /\ \A c \in Opening : Punctuation[c] = EndChar(c)
<1>1. Opening \cap Closing = {}
  BY CharactersDiffer DEF Opening, Closing
<1>2. EndChar("(") = ")" /\ EndChar("[") = "]" /\ EndChar(LBrace) = RBrace
  BY CharactersDiffer DEF EndChar
<1>3. \A c \in Opening : EndChar(c) \in Closing
  BY <1>2 DEF Opening, Closing
<1>4. DOMAIN Punctuation = Opening /\ \A c \in Opening : Punctuation[c] = EndChar(c)
  BY DEF Punctuation
<1>5. Range(Punctuation) = {Punctuation[c] : c \in Opening}
  BY <1>4 DEF Range
<1>6. {Punctuation[c] : c \in Opening} = Closing
  <2>1. Punctuation["("] = ")" /\ Punctuation["["] = "]" /\ Punctuation[LBrace] = RBrace
    BY <1>2, <1>4 DEF Opening
  <2> HIDE DEF Punctuation
  <2> QED BY <2>1 DEF Opening, Closing
<1> QED BY <1>1, <1>3, <1>4, <1>5, <1>6

Insides == [stack : Seq(Closing), bad : BOOLEAN, position : Nat]

Becomes(w, stack, bad, position) == w.stack = stack /\ w.bad = bad /\ w.position = position

Punctuated(v, x, w) ==
  LET up == v.position + 1
  IN  /\ x = Last(v.stack) => Becomes(w, Front(v.stack), FALSE, up)
      /\ x \in Closing /\ x # Last(v.stack) => w.bad = TRUE
      /\ x \in Opening => Becomes(w, Append(v.stack, EndChar(x)), FALSE, up)
      /\ x \notin Opening \cup Closing => Becomes(w, v.stack, FALSE, up)

\* What a character does to the stack.
LEMMA PunctuateCases ==
  ASSUME NEW v \in Insides, NEW x, ~v.bad, v.stack # <<>>
  PROVE  Punctuated(v, x, Punctuate(v, x))
<1> DEFINE next == [v EXCEPT !.position = @ + 1]
           P == Punctuate(v, x)
           up == v.position + 1
           top == Last(v.stack)
<1>1. P = CASE x = top -> [next EXCEPT !.stack = Front(@)]
            [] x \in Closing /\ x # top -> [v EXCEPT !.bad = TRUE]
            [] x \in Opening -> [next EXCEPT !.stack = Append(@, EndChar(x))]
            [] OTHER -> next
  BY DEF Punctuate
<1>2. top \in Closing
  <2>1. v.stack \in Seq(Closing)
    BY DEF Insides
  <2>2. Len(v.stack) \in 1 .. Len(v.stack)
    BY <2>1, EmptySeq, LenProperties
  <2> QED BY <2>1, <2>2, ElementOfSeq DEF Last
<1>3. /\ Becomes([next EXCEPT !.stack = Front(@)], Front(v.stack), FALSE, up)
      /\ [v EXCEPT !.bad = TRUE].bad = TRUE
      /\ Becomes([next EXCEPT !.stack = Append(@, EndChar(x))], Append(v.stack, EndChar(x)), FALSE, up)
      /\ Becomes(next, v.stack, FALSE, up)
  BY DEF Insides, Becomes
<1>4. x \in Opening => x \notin Closing
  BY EndCharacters
<1> HIDE DEF next, P, up, top
<1>5. x = top => P = [next EXCEPT !.stack = Front(@)]
  BY <1>1, <1>2, <1>4
<1>6. x \in Closing /\ x # top => P = [v EXCEPT !.bad = TRUE]
  BY <1>1, <1>4
<1>7. x \in Opening => P = [next EXCEPT !.stack = Append(@, EndChar(x))]
  BY <1>1, <1>2, <1>4
<1>8. x \notin Opening \cup Closing => P = next
  BY <1>1, <1>2
<1> QED BY <1>3, <1>5, <1>6, <1>7, <1>8 DEF Punctuated, P, up, top

Running(w, D, s, a, k) ==
  /\ w.bad = FALSE /\ w.position = k
  /\ Levels(w.stack, D, s, a, k, Opening, Punctuation)
  /\ Raised(D, a, k) /\ Proper(D, s, a, k, Opening, Punctuation)
Mismatched(w, D, s, a, k) ==
  w.bad = TRUE /\ \E m \in a .. k, p \in a .. k :
    ClosedAt(D, s, Opening, p, m) /\ s[m] # Punctuation[s[p]] /\ Raised(D, a, m - 1)
Finished(w, D, s, a, k) ==
  w.bad = FALSE /\ w.stack = <<>> /\ \E j \in (a + 1) .. k : w.position = j /\ EndAt(D, s, a, j, Opening, Punctuation)
InsideInv(w, D, s, a, k) ==
  Running(w, D, s, a, k) \/ Mismatched(w, D, s, a, k) \/ Finished(w, D, s, a, k)

LEMMA ProperNext ==
  ASSUME NEW D, NEW s, NEW a \in Int, NEW b \in Int, Nesting(D, s, a, b, Opening, Closing),
         NEW k \in a .. b, k + 1 \in a .. b, Proper(D, s, a, k, Opening, Punctuation),
         \A p \in a .. k : s[k + 1] \in Closing /\ OpenAt(D, s, Opening, p, k, D[k])
            => s[k + 1] = Punctuation[s[p]]
  PROVE  Proper(D, s, a, k + 1, Opening, Punctuation)
<1> SUFFICES ASSUME NEW p \in a .. (k + 1), NEW m \in a .. (k + 1), ClosedAt(D, s, Opening, p, m)
             PROVE  s[m] = Punctuation[s[p]]
  BY DEF Proper
<1>1. p < m
  BY DEF ClosedAt
<1>2. CASE m = k + 1
  <2>1. p \in a .. k
    BY <1>1, <1>2
  <2>2. s[k + 1] \in Closing /\ OpenAt(D, s, Opening, p, k, D[k])
    BY <1>2, <2>1, ClosedWasOpen, EndCharacters
  <2> QED BY <1>2, <2>1, <2>2
<1>3. CASE m # k + 1
  <2>1. m \in a .. k /\ p \in a .. k
    BY <1>1, <1>3
  <2> QED BY <2>1 DEF Proper
<1> QED BY <1>2, <1>3

LEMMA RaisedNext ==
  ASSUME NEW D, NEW a \in Int, NEW k \in Int, Raised(D, a, k), D[k + 1] >= 1
  PROVE  Raised(D, a, k + 1)
<1>1. \A x \in a .. (k + 1) : x \in a .. k \/ x = k + 1
  OBVIOUS
<1> QED BY <1>1 DEF Raised

\* The stack after each character.
LEMMA InsideStep ==
  ASSUME NEW D, NEW s, NEW a \in Nat, NEW b \in Nat, Nesting(D, s, a, b, Opening, Closing),
         NEW k \in a .. b, k + 1 \in a .. b, NEW v \in Insides, InsideInv(v, D, s, a, k)
  PROVE  InsideInv(Punctuate(v, s[k + 1]), D, s, a, k + 1)
<1> DEFINE w == Punctuate(v, s[k + 1])
           x == s[k + 1]
           q == k + 1
           T == v.stack
<1>0. a \in Int /\ b \in Int /\ k \in Int /\ k \in Nat /\ q \in Int
  OBVIOUS
<1>1. CASE Mismatched(v, D, s, a, k)
  <2>1. w = v
    BY <1>1 DEF Mismatched, Punctuate
  <2>2. \A m \in a .. k : m \in a .. q
    OBVIOUS
  <2>3. Mismatched(v, D, s, a, q)
    BY <1>1, <2>2 DEF Mismatched
  <2> QED BY <2>1, <2>3 DEF InsideInv
<1>2. CASE Finished(v, D, s, a, k)
  <2>1. w = v
    BY <1>2 DEF Finished, Punctuate
  <2>2. \A m \in (a + 1) .. k : m \in (a + 1) .. q
    OBVIOUS
  <2>3. Finished(v, D, s, a, q)
    BY <1>2, <2>2 DEF Finished
  <2> QED BY <2>1, <2>3 DEF InsideInv
<1>3. CASE Running(v, D, s, a, k)
  <2>1. /\ ~v.bad /\ v.position = k /\ Levels(T, D, s, a, k, Opening, Punctuation)
        /\ Raised(D, a, k) /\ Proper(D, s, a, k, Opening, Punctuation) /\ D[k] >= 1 /\ T \in Seq(Closing)
    <3>1. k \in a .. k
      OBVIOUS
    <3> QED BY <1>3, <3>1 DEF Running, Raised, Insides
  <2>2. T # <<>> /\ D[k] \in Nat
    <3>1. Len(T) = D[k]
      BY <2>1 DEF Levels
    <3>2. Len(T) \in Nat
      BY <2>1, LenProperties
    <3> QED BY <2>1, <3>1, <3>2
  <2>3. Punctuated(v, x, w)
    BY <2>1, <2>2, PunctuateCases
  <2>4. /\ x \in Opening => D[q] = D[k] + 1
        /\ x \in Closing => D[q] = D[k] - 1
        /\ x \notin Opening \cup Closing => D[q] = D[k]
    <3>1. q - 1 = k /\ q \in a .. b
      OBVIOUS
    <3> QED BY <3>1 DEF Nesting
  <2> HIDE DEF w, T
  <2>5. CASE x \in Closing
    <3>1. /\ Levels(Front(T), D, s, a, q, Opening, Punctuation) /\ Front(T) \in Seq(Closing)
          /\ TopCloses(T, D, s, a, k, Opening, Punctuation)
      BY <1>0, <2>1, <2>5, LevelsClose
    <3>2. PICK p \in a .. k : /\ ClosedAt(D, s, Opening, p, q) /\ OpenAt(D, s, Opening, p, k, D[k])
                              /\ Last(T) = Punctuation[s[p]]
      BY <3>1 DEF TopCloses
    <3>3. CASE x = Last(T)
      <4>1. Becomes(w, Front(T), FALSE, q)
        BY <2>1, <2>3, <3>3 DEF Punctuated, T
      <4>2. Proper(D, s, a, q, Opening, Punctuation)
        <5>1. ASSUME NEW r \in a .. k, OpenAt(D, s, Opening, r, k, D[k])
              PROVE  x = Punctuation[s[r]]
          <6>1. r = p
            <7> DEFINE d == D[k]
            <7>1. d \in Int /\ OpenAt(D, s, Opening, p, k, d) /\ OpenAt(D, s, Opening, r, k, d)
              BY <2>2, <3>2, <5>1
            <7> HIDE DEF d
            <7> QED BY <1>0, <7>1, OpenUnique
          <6> QED BY <3>2, <3>3, <6>1
        <5> QED BY <1>0, <2>1, <5>1, ProperNext
      <4>3. CASE D[q] >= 1
        <5>1. Raised(D, a, q)
          BY <1>0, <2>1, <4>3, RaisedNext
        <5> QED BY <3>1, <4>1, <4>2, <5>1 DEF InsideInv, Running, Becomes, w
      <4>4. CASE ~(D[q] >= 1)
        <5>1. D[q] = 0
          BY <2>1, <2>2, <2>4, <2>5, <4>4
        <5>2. Front(T) = <<>>
          <6>1. Len(Front(T)) = 0
            BY <3>1, <5>1 DEF Levels
          <6> QED BY <3>1, <6>1, EmptySeq
        <5>3. q \in (a + 1) .. q /\ q - 1 = k
          OBVIOUS
        <5>4. EndAt(D, s, a, q, Opening, Punctuation)
          BY <2>1, <4>2, <5>1, <5>3 DEF EndAt
        <5> QED BY <4>1, <5>2, <5>3, <5>4 DEF InsideInv, Finished, Becomes, w
      <4> QED BY <4>3, <4>4
    <3>4. CASE x # Last(T)
      <4>1. w.bad = TRUE
        BY <2>3, <2>5, <3>4 DEF Punctuated, T
      <4>2. q \in a .. q /\ q - 1 = k /\ p \in a .. q
        OBVIOUS
      <4>3. Mismatched(w, D, s, a, q)
        BY <2>1, <3>2, <3>4, <4>1, <4>2 DEF Mismatched
      <4> QED BY <4>3 DEF InsideInv, w
    <3> QED BY <3>3, <3>4
  <2>6. CASE x \in Opening
    <3>1. Punctuation[x] = EndChar(x) /\ EndChar(x) \in Closing /\ x \notin Closing
      BY <2>6, EndCharacters
    <3>2. Levels(Append(T, EndChar(x)), D, s, a, q, Opening, Punctuation)
      <4>1. D[k] >= 0
        BY <2>2
      <4> QED BY <1>0, <2>1, <2>6, <3>1, <4>1, LevelsOpen
    <3>3. Becomes(w, Append(T, EndChar(x)), FALSE, q)
      BY <2>1, <2>3, <2>6 DEF Punctuated, T
    <3>4. Proper(D, s, a, q, Opening, Punctuation)
      BY <1>0, <2>1, <3>1, ProperNext
    <3>5. Raised(D, a, q)
      BY <1>0, <2>1, <2>2, <2>4, <2>6, RaisedNext
    <3> QED BY <3>2, <3>3, <3>4, <3>5 DEF InsideInv, Running, Becomes, w
  <2>7. CASE x \notin Opening \cup Closing
    <3>1. Levels(T, D, s, a, q, Opening, Punctuation) /\ D[q] = D[k]
      BY <1>0, <2>1, <2>7, LevelsSkip
    <3>2. Becomes(w, T, FALSE, q)
      BY <2>1, <2>3, <2>7 DEF Punctuated, T
    <3>3. Proper(D, s, a, q, Opening, Punctuation)
      BY <1>0, <2>1, <2>7, ProperNext
    <3>4. Raised(D, a, q)
      BY <1>0, <2>1, <3>1, RaisedNext
    <3> QED BY <3>1, <3>2, <3>3, <3>4 DEF InsideInv, Running, Becomes, w
  <2> QED BY <2>5, <2>6, <2>7
<1> QED BY <1>1, <1>2, <1>3 DEF InsideInv

LEMMA InsidesClosed ==
  ASSUME NEW v \in Insides, NEW x
  PROVE  Punctuate(v, x) \in Insides
<1> DEFINE w == Punctuate(v, x)
           next == [v EXCEPT !.position = @ + 1]
           T == v.stack
<1>1. T \in Seq(Closing) /\ v.position \in Nat
  BY DEF Insides
<1>2. next \in Insides /\ [v EXCEPT !.bad = TRUE] \in Insides /\ next.stack = T
  <2>1. v.position + 1 \in Nat /\ TRUE \in BOOLEAN
    BY <1>1
  <2>2. next \in Insides /\ next.stack = T
    BY <2>1 DEF Insides
  <2>3. [v EXCEPT !.bad = TRUE] \in Insides
    BY <2>1 DEF Insides
  <2> QED BY <2>2, <2>3
<1>3. CASE v.bad \/ T = <<>>
  BY <1>3 DEF Punctuate
<1>4. CASE ~(v.bad \/ T = <<>>)
  <2>1. \A e \in Closing : Append(T, e) \in Seq(Closing)
    BY <1>1, AppendProperties
  <2>2. Front(T) \in Seq(Closing)
    <3>1. Len(T) \in Nat /\ Len(T) > 0
      BY <1>1, <1>4, EmptySeq, LenProperties
    <3>2. Front(T) = SubSeq(T, 1, Len(T) - 1) /\ \A d \in 1 .. (Len(T) - 1) : d \in 1 .. Len(T)
      BY <3>1 DEF Front
    <3>3. \A d \in 1 .. (Len(T) - 1) : T[d] \in Closing
      BY <1>1, <3>2, ElementOfSeq
    <3> QED BY <1>1, <3>1, <3>2, <3>3, SubSeqProperties
  <2>3. [next EXCEPT !.stack = Front(@)] \in Insides
    BY <1>2, <2>2 DEF Insides
  <2>4. x \in Opening => [next EXCEPT !.stack = Append(@, EndChar(x))] \in Insides
    <3> SUFFICES ASSUME x \in Opening PROVE [next EXCEPT !.stack = Append(@, EndChar(x))] \in Insides
      OBVIOUS
    <3>1. Append(T, EndChar(x)) \in Seq(Closing)
      BY <2>1, EndCharacters
    <3> HIDE DEF next
    <3> QED BY <1>2, <3>1 DEF Insides
  <2>5. w = CASE x = Last(T) -> [next EXCEPT !.stack = Front(@)]
              [] x \in Closing /\ x # Last(T) -> [v EXCEPT !.bad = TRUE]
              [] x \in Opening -> [next EXCEPT !.stack = Append(@, EndChar(x))]
              [] OTHER -> next
    BY <1>4 DEF Punctuate
  <2> HIDE DEF w, next, T
  <2> QED BY <1>2, <2>3, <2>4, <2>5 DEF w
<1> QED BY <1>3, <1>4

LEMMA InsideSteps ==
  ASSUME NEW S, NEW t \in Seq(S), NEW base \in Insides
  PROVE  \E G \in [0 .. Len(t) -> Insides] :
            /\ G[0] = base /\ G[Len(t)] = PunctuateAll(base, t)
            /\ \A i \in 1 .. Len(t) : G[i] = Punctuate(G[i - 1], t[i])
<1>1. \A v \in Insides, x \in S : Punctuate(v, x) \in Insides
  BY InsidesClosed
<1> QED BY <1>1, PunctuateSteps

LEMMA Middle ==
  ASSUME NEW S, NEW s \in Seq(S), NEW a \in 0 .. Len(s), NEW b \in a .. Len(s)
  PROVE  /\ SubSeq(s, a + 1, b) \in Seq(S)
         /\ Len(SubSeq(s, a + 1, b)) = b - a
         /\ \A i \in 1 .. (b - a) : SubSeq(s, a + 1, b)[i] = s[a + i]
<1> DEFINE m == a + 1
           t == SubSeq(s, m, b)
<1>1. Len(s) \in Nat /\ a \in Int /\ b \in Int /\ m \in Int /\ m = a + 1 /\ a <= b /\ 1 <= m /\ b <= Len(s)
  BY LenProperties
<1>2. \A i \in m .. b : s[i] \in S
  <2>1. \A i \in m .. b : i \in 1 .. Len(s)
    BY <1>1
  <2> QED BY <2>1, ElementOfSeq
<1>3. t \in Seq(S) /\ Len(t) = (IF m <= b THEN b - m + 1 ELSE 0) /\ \A i \in 1 .. b - m + 1 : t[i] = s[m + i - 1]
  <2> HIDE DEF m
  <2> QED BY <1>1, <1>2, SubSeqProperties
<1> HIDE DEF t, m
<1>4. Len(t) = b - a /\ b - m + 1 = b - a
  BY <1>1, <1>3
<1>5. \A i \in 1 .. (b - a) : m + i - 1 = a + i
  BY <1>1
<1>6. \A i \in 1 .. (b - a) : t[i] = s[a + i]
  BY <1>3, <1>4, <1>5
<1> QED BY <1>3, <1>4, <1>6 DEF t, m

LEMMA Behind ==
  ASSUME NEW S, NEW s \in Seq(S), NEW a \in 0 .. Len(s)
  PROVE  /\ SubSeq(s, a + 1, Len(s)) \in Seq(S)
         /\ Len(SubSeq(s, a + 1, Len(s))) = Len(s) - a
         /\ \A i \in 1 .. (Len(s) - a) : SubSeq(s, a + 1, Len(s))[i] = s[a + i]
<1> DEFINE b == Len(s)
<1>1. b \in a .. Len(s) /\ b = Len(s)
  BY LenProperties
<1> HIDE DEF b
<1>2. /\ SubSeq(s, a + 1, b) \in Seq(S) /\ Len(SubSeq(s, a + 1, b)) = b - a
      /\ \A i \in 1 .. (b - a) : SubSeq(s, a + 1, b)[i] = s[a + i]
  BY <1>1, Middle
<1> QED BY <1>2 DEF b

\* The state at the end of the line.
LEMMA InsideEnd ==
  ASSUME NEW S, NEW s \in Seq(S), NEW a \in 1 .. Len(s), s[a] \in Opening,
         NEW D, D = Depths(s, a, Len(s), Opening, Closing)
  PROVE  InsideInv(FoldLeft(Punctuate, [stack |-> <<EndChar(s[a])>>, bad |-> FALSE, position |-> a],
                            SubSeq(s, a + 1, Len(s))), D, s, a, Len(s))
<1> DEFINE b == Len(s)
           t == SubSeq(s, a + 1, b)
           M == b - a
           base == [stack |-> <<EndChar(s[a])>>, bad |-> FALSE, position |-> a]
<1>1. b \in Nat /\ a \in Nat /\ a <= b /\ M \in Nat /\ a >= 1
  BY LenProperties
<1>2. t \in Seq(S) /\ Len(t) = M /\ \A i \in 1 .. M : t[i] = s[a + i]
  BY <1>1, Behind
<1>3. base \in Insides
  <2>1. EndChar(s[a]) \in Closing
    BY EndCharacters
  <2> DEFINE e == EndChar(s[a])
  <2> HIDE DEF e
  <2>2. <<e>> \in Seq(Closing)
    BY <2>1 DEF e
  <2> QED BY <1>1, <2>2 DEF Insides, e
<1>4. Nesting(D, s, a, b, Opening, Closing)
  <2>1. a \in Int /\ b \in Int /\ b >= a - 1 /\ Opening \cap Closing = {}
    BY <1>1, EndCharacters
  <2> QED BY <2>1, NestingExists
<1>5. D[a] = 1
  <2>1. a - 1 \in (a - 1) .. b /\ a \in a .. b
    BY <1>1
  <2> QED BY <1>4, <2>1 DEF Nesting
<1> HIDE DEF t, M
<1>6. InsideInv(base, D, s, a, a)
  <2> DEFINE e == EndChar(s[a])
             st == <<e>>
  <2>1. e = Punctuation[s[a]] /\ Len(st) = 1 /\ st[1] = e
    BY EndCharacters
  <2> HIDE DEF e
  <2>2. a \in a .. a /\ a .. a = {a}
    BY <1>1
  <2>3. OpenAt(D, s, Opening, a, a, 1)
    BY <1>5, <2>2 DEF OpenAt
  <2>4. Levels(st, D, s, a, a, Opening, Punctuation)
    <3>1. \A d \in 1 .. 1 : d = 1
      OBVIOUS
    <3> HIDE DEF st
    <3> QED BY <1>5, <2>1, <2>2, <2>3, <3>1 DEF Levels
  <2>5. Raised(D, a, a)
    BY <1>5, <2>2 DEF Raised
  <2>6. Proper(D, s, a, a, Opening, Punctuation)
    BY <2>2 DEF Proper, ClosedAt
  <2>7. base.stack = st /\ base.bad = FALSE /\ base.position = a
    BY DEF e
  <2> HIDE DEF base, st
  <2> QED BY <2>4, <2>5, <2>6, <2>7 DEF InsideInv, Running
<1> HIDE DEF base
<1>7. PICK G \in [0 .. Len(t) -> Insides] :
         /\ G[0] = base /\ G[Len(t)] = PunctuateAll(base, t)
         /\ \A i \in 1 .. Len(t) : G[i] = Punctuate(G[i - 1], t[i])
  <2>1. t \in Seq(S) /\ base \in Insides
    BY <1>2, <1>3
  <2> QED BY ONLY <2>1, InsideSteps
<1> DEFINE Good == {i \in 0 .. M : InsideInv(G[i], D, s, a, a + i)}
<1>8. 0 \in Good
  BY <1>1, <1>6, <1>7
<1>9. ASSUME NEW i \in 1 .. M, i - 1 \in Good PROVE i \in Good
  <2> DEFINE k == a + (i - 1)
             v == G[i - 1]
  <2>1. /\ k \in a .. b /\ k + 1 \in a .. b /\ k + 1 = a + i /\ i - 1 \in 0 .. M
    BY <1>1 DEF M
  <2>2. v \in Insides /\ InsideInv(v, D, s, a, k) /\ G[i] = Punctuate(v, s[k + 1])
    BY <1>2, <1>7, <1>9, <2>1
  <2> HIDE DEF k, v
  <2>3. InsideInv(Punctuate(v, s[k + 1]), D, s, a, k + 1)
    BY <1>1, <1>4, <2>1, <2>2, InsideStep
  <2>4. InsideInv(G[i], D, s, a, a + i)
    BY <2>1, <2>2, <2>3
  <2> QED BY <1>1, <2>4
<1>10. M \in Good
  <2>1. \A i \in 1 .. M : i - 1 \in Good => i \in Good
    BY <1>9
  <2> HIDE DEF Good
  <2>2. \A i \in 0 .. M : i \in Good
    BY <1>1, <1>8, <2>1, UpTo
  <2> QED BY <1>1, <2>2
<1>11. InsideInv(G[M], D, s, a, b)
  BY <1>1, <1>10 DEF M
<1> QED BY <1>2, <1>7, <1>11 DEF base, t, PunctuateAll

\* _GetTextInside finds the partner of an opening punctuation in every line
\* when the brackets in between are properly nested, and nothing otherwise.
THEOREM LintTextInsideNested == Spec => []TextInsideNested
<1>1. TextOK => TextInsideNested
  <2> SUFFICES ASSUME TextOK, NEW n \in DOMAIN lines, NEW a \in DOMAIN lines[n],
                      lines[n][a] \in Opening
               PROVE  LET line == lines[n]
                          ends == {j \in (a + 1)..Len(line) : line[j] = EndChar(line[a])
                                      /\ WellNested(line, a + 1, j - 1, Punctuation)}
                      IN  GetTextInside(line, a) =
                              IF ends = {} THEN NoText ELSE SubSeq(line, a + 1, Min(ends) - 1)
    BY DEF TextInsideNested
  <2> DEFINE s == lines[n]
             b == Len(s)
             D == Depths(s, a, b, Opening, Closing)
             end == FoldLeft(Punctuate, [stack |-> <<EndChar(s[a])>>, bad |-> FALSE, position |-> a],
                             SubSeq(s, a + 1, Len(s)))
             Ends == {j \in (a + 1) .. b : s[j] = EndChar(s[a]) /\ WellNested(s, a + 1, j - 1, Punctuation)}
  <2>1. s \in Seq(alphabet.chars) /\ b \in Nat /\ a \in 1 .. b
    BY LinesType
  <2>2. InsideInv(end, D, s, a, b)
    BY <2>1, InsideEnd
  <2>3. \A j \in (a + 1) .. b : j \in Ends <=> EndAt(D, s, a, j, Opening, Punctuation)
    <3> SUFFICES ASSUME NEW j \in (a + 1) .. b PROVE j \in Ends <=> EndAt(D, s, a, j, Opening, Punctuation)
      OBVIOUS
    <3>1. a \in Nat /\ b \in Nat /\ a <= b /\ s[a] \in Opening
      BY <2>1
    <3>2. Partners(Punctuation, Opening, Closing) /\ Punctuation[s[a]] = EndChar(s[a])
      BY <3>1, EndCharacters DEF Partners
    <3>3. EndAt(D, s, a, j, Opening, Punctuation)
            <=> s[j] = Punctuation[s[a]] /\ WellNested(s, a + 1, j - 1, Punctuation)
      BY <3>1, <3>2, EndsAre
    <3> HIDE DEF D
    <3> QED BY <3>2, <3>3
  <2>4. GetTextInside(s, a) = IF end.bad \/ end.stack # <<>> THEN NoText ELSE SubSeq(s, a + 1, end.position - 1)
    BY DEF GetTextInside
  <2> HIDE DEF s, b, D, end
  <2>5. Ends \subseteq (a + 1) .. b
    OBVIOUS
  <2> HIDE DEF Ends
  <2>6. CASE Running(end, D, s, a, b)
    <3>1. end.stack # <<>>
      <4>1. b \in a .. b
        BY <2>1
      <4>2. Len(end.stack) = D[b] /\ D[b] >= 1
        BY <2>6, <4>1 DEF Running, Levels, Raised
      <4> QED BY <4>2, EmptySeq
    <3>2. Ends = {}
      <4> SUFFICES ASSUME NEW j \in Ends PROVE FALSE
        OBVIOUS
      <4>1. j \in a .. b /\ D[j] = 0
        BY <2>1, <2>3, <2>5 DEF EndAt
      <4> QED BY <2>6, <4>1 DEF Running, Raised
    <3> QED BY <2>4, <3>1, <3>2 DEF Ends, b, s
  <2>7. CASE Mismatched(end, D, s, a, b)
    <3>1. PICK m \in a .. b, p \in a .. b :
            ClosedAt(D, s, Opening, p, m) /\ s[m] # Punctuation[s[p]] /\ Raised(D, a, m - 1)
      BY <2>7 DEF Mismatched
    <3>2. Ends = {}
      <4> SUFFICES ASSUME NEW j \in Ends PROVE FALSE
        OBVIOUS
      <4>1. j \in (a + 1) .. b /\ D[j] = 0 /\ Proper(D, s, a, j, Opening, Punctuation)
        BY <2>3, <2>5 DEF EndAt
      <4>2. p < m
        BY <3>1 DEF ClosedAt
      <4>3. CASE j < m
        <5>1. j \in a .. (m - 1)
          BY <2>1, <4>1, <4>3
        <5> QED BY <3>1, <4>1, <5>1 DEF Raised
      <4>4. CASE j >= m
        <5>1. m \in a .. j /\ p \in a .. j
          BY <2>1, <4>1, <4>2, <4>4
        <5> QED BY <3>1, <4>1, <5>1 DEF Proper
      <4> QED BY <2>1, <4>1, <4>3, <4>4
    <3> QED BY <2>4, <2>7, <3>2 DEF Ends, b, s, Mismatched
  <2>8. CASE Finished(end, D, s, a, b)
    <3>1. PICK j \in (a + 1) .. b : end.position = j /\ EndAt(D, s, a, j, Opening, Punctuation)
      BY <2>8 DEF Finished
    <3>2. j \in Ends
      BY <2>3, <3>1
    <3>3. \A l \in Ends : l = j
      <4> SUFFICES ASSUME NEW l \in Ends PROVE l = j
        OBVIOUS
      <4>1. l \in (a + 1) .. b /\ EndAt(D, s, a, l, Opening, Punctuation)
        BY <2>3, <2>5
      <4>2. CASE l < j
        <5>1. l \in a .. (j - 1)
          BY <2>1, <4>1, <4>2
        <5> QED BY <3>1, <4>1, <5>1 DEF EndAt, Raised
      <4>3. CASE j < l
        <5>1. j \in a .. (l - 1)
          BY <2>1, <4>1, <4>3
        <5> QED BY <3>1, <4>1, <5>1 DEF EndAt, Raised
      <4> QED BY <2>1, <4>1, <4>2, <4>3
    <3>4. Min(Ends) = j
      <4>1. Ends = {j}
        BY <3>2, <3>3
      <4>2. j \in Int /\ j <= j
        BY <2>1
      <4> QED BY <4>1, <4>2 DEF Min
    <3>5. GetTextInside(s, a) = SubSeq(s, a + 1, Min(Ends) - 1)
      BY <2>4, <2>8, <3>1, <3>4 DEF Finished
    <3> QED BY <3>2, <3>5 DEF Ends, b, s
  <2> QED BY <2>2, <2>6, <2>7, <2>8 DEF InsideInv
<1> QED BY <1>1, TextInvariant, PTL

-----------------------------------------------------------------------------
(***************************************************************************)
(* FindNextMatchingAngleBracket and FindPreviousMatchingAngleBracket.      *)
(***************************************************************************)

\* The brackets as they are met forwards or backwards.
Sides(same, deeper, angle, others) ==
  /\ same \in deeper /\ angle \notin deeper /\ angle \notin others
  /\ \A x \in others : x \notin deeper
  /\ \A x \in deeper : x \in Operators /\ x # Comma /\ x # Semicolon
  /\ \A x \in others : x \in Operators /\ x # Comma /\ x # Semicolon
  /\ angle \in Operators /\ angle # Comma /\ angle # Semicolon
  /\ \A x \in Operators : x \in deeper \/ x \in others \/ x = angle \/ x = Comma \/ x = Semicolon
  /\ Comma \in Operators /\ Semicolon \in Operators /\ Comma # Semicolon

ForwardDeeper == {"<", "(", "["}
ForwardOthers == {")", "]"}
BackwardDeeper == {">", ")", "]"}
BackwardOthers == {"(", "["}

LEMMA OperatorsDiffer ==
  /\ Comma # Semicolon
  /\ Comma # "<" /\ Comma # ">" /\ Comma # "(" /\ Comma # ")" /\ Comma # "[" /\ Comma # "]"
  /\ Semicolon # "<" /\ Semicolon # ">" /\ Semicolon # "(" /\ Semicolon # ")"
  /\ Semicolon # "[" /\ Semicolon # "]"
BY Zenon DEF Comma, Semicolon

LEMMA SidesOf ==
  /\ Sides("<", ForwardDeeper, ">", ForwardOthers)
  /\ Sides(">", BackwardDeeper, "<", BackwardOthers)
BY OperatorsDiffer DEF Sides, Operators, ForwardDeeper, ForwardOthers, BackwardDeeper, BackwardOthers

Verdicts(deeper) == [stack : Seq(deeper), verdict : {"open", "yes", "no"}]

Shows(w, stack, verdict) == w.stack = stack /\ w.verdict = verdict

Nested(v, x, w, same, deeper, angle, others) ==
  LET top == Last(v.stack)
  IN  /\ x \notin Operators => w = v
      /\ x \in deeper => Shows(w, Append(v.stack, x), "open")
      /\ x = angle /\ top = same =>
            Shows(w, Front(v.stack), IF Len(v.stack) = 1 THEN "yes" ELSE "open")
      /\ x = Comma /\ top = same => w.verdict = "yes"
      /\ x = Comma /\ top # same => w = v
      /\ x = Semicolon /\ top = same => w.verdict = "no"
      /\ x \in others /\ top # same => Shows(w, Front(v.stack), "open")

\* What an operator does to the stack and the verdict.
LEMMA NestCases ==
  ASSUME NEW same, NEW deeper, NEW angle, NEW others, Sides(same, deeper, angle, others),
         NEW v \in Verdicts(deeper), NEW x, v.verdict = "open"
  PROVE  Nested(v, x, Nest(v, x, same, deeper, angle, others), same, deeper, angle, others)
<1> DEFINE w == Nest(v, x, same, deeper, angle, others)
           top == Last(v.stack)
           expecting == top = same
           pop == [stack |-> Front(v.stack), verdict |-> IF Len(v.stack) = 1 THEN "yes" ELSE "open"]
           A == [v EXCEPT !.stack = Append(@, x)]
           Y == [v EXCEPT !.verdict = "yes"]
           N == [v EXCEPT !.verdict = "no"]
           B == [v EXCEPT !.stack = Front(@)]
<1>1. w = IF x \notin Operators THEN v
          ELSE CASE x \in deeper -> A
                 [] expecting /\ x = angle -> pop
                 [] expecting /\ x = Comma -> Y
                 [] expecting /\ x \notin deeper \cup {angle, Comma} -> N
                 [] ~expecting /\ x \in others -> B
                 [] OTHER -> v
  BY DEF Nest
<1>2. /\ Shows(A, Append(v.stack, x), "open")
      /\ Shows(pop, Front(v.stack), IF Len(v.stack) = 1 THEN "yes" ELSE "open")
      /\ Y.verdict = "yes" /\ N.verdict = "no"
      /\ Shows(B, Front(v.stack), "open")
  BY DEF Verdicts, Shows
<1> HIDE DEF A, Y, N, B, pop, w, top
<1>3. x \notin Operators => w = v
  BY <1>1
<1>4. x \in deeper => w = A
  BY <1>1 DEF Sides
<1>5. x = angle /\ top = same => w = pop
  BY <1>1 DEF Sides
<1>6. x = Comma /\ top = same => w = Y
  BY <1>1 DEF Sides
<1>7. x = Comma /\ top # same => w = v
  BY <1>1 DEF Sides
<1>8. x = Semicolon /\ top = same => w = N
  BY <1>1 DEF Sides
<1>9. x \in others /\ top # same => w = B
  BY <1>1 DEF Sides
<1> QED BY <1>2, <1>3, <1>4, <1>5, <1>6, <1>7, <1>8, <1>9 DEF Nested, w, top

LEMMA FrontType ==
  ASSUME NEW S, NEW T \in Seq(S)
  PROVE  /\ Front(T) \in Seq(S)
         /\ Len(T) > 0 => Len(Front(T)) = Len(T) - 1 /\ Last(T) \in S
<1> DEFINE n == Len(T) - 1
<1>1. Len(T) \in Nat /\ n \in Int /\ \A i \in 1 .. n : i \in 1 .. Len(T)
  BY LenProperties
<1>2. \A i \in 1 .. n : T[i] \in S
  BY <1>1, ElementOfSeq
<1>3. Front(T) = SubSeq(T, 1, n)
  BY DEF Front
<1>4. SubSeq(T, 1, n) \in Seq(S) /\ Len(SubSeq(T, 1, n)) = IF 1 <= n THEN n - 1 + 1 ELSE 0
  <2> HIDE DEF n
  <2> QED BY <1>1, <1>2, SubSeqProperties
<1>5. Len(T) > 0 => Last(T) \in S
  BY <1>1, ElementOfSeq DEF Last
<1>6. Len(T) > 0 => (IF 1 <= n THEN n - 1 + 1 ELSE 0) = Len(T) - 1
  <2> DEFINE L == Len(T)
  <2>1. L \in Nat /\ n = L - 1
    BY <1>1
  <2> HIDE DEF L, n
  <2>2. L > 0 => (IF 1 <= n THEN n - 1 + 1 ELSE 0) = L - 1
    BY <2>1
  <2> QED BY <2>2 DEF L
<1> QED BY <1>3, <1>4, <1>5, <1>6

LEMMA VerdictsClosed ==
  ASSUME NEW same, NEW deeper, NEW angle, NEW others, NEW v \in Verdicts(deeper), NEW x
  PROVE  Nest(v, x, same, deeper, angle, others) \in Verdicts(deeper)
<1> DEFINE T == v.stack
<1>1. T \in Seq(deeper) /\ Front(T) \in Seq(deeper) /\ (x \in deeper => Append(T, x) \in Seq(deeper))
  BY FrontType, AppendProperties DEF Verdicts
<1>2. /\ x \in deeper => [v EXCEPT !.stack = Append(@, x)] \in Verdicts(deeper)
      /\ [stack |-> Front(T), verdict |-> IF Len(T) = 1 THEN "yes" ELSE "open"] \in Verdicts(deeper)
      /\ [v EXCEPT !.verdict = "yes"] \in Verdicts(deeper)
      /\ [v EXCEPT !.verdict = "no"] \in Verdicts(deeper)
      /\ [v EXCEPT !.stack = Front(@)] \in Verdicts(deeper)
  BY <1>1 DEF Verdicts
<1> QED BY <1>2 DEF Nest

LEMMA VerdictStays ==
  ASSUME NEW same, NEW deeper, NEW angle, NEW others, NEW v, v.verdict # "open", NEW x
  PROVE  Nest(v, x, same, deeper, angle, others) = v
BY DEF Nest

\* Inside properly nested arguments the machine has decided for a match or
\* its stack holds the brackets that are open.
Labels(deeper) == [x \in deeper |-> x]
NestInv(v, D, u, a, k, deeper) ==
  v.verdict = "yes" \/ (v.verdict = "open" /\ Levels(v.stack, D, u, a, k, deeper, Labels(deeper)))

\* u[a] is closed at b, by an angle bracket, and brackets of the kind of u[a]
\* and no others are closed by angle brackets.
Enclosed(D, u, a, b, same, deeper, angle, others) ==
  /\ a < b /\ Nesting(D, u, a, b, deeper, {angle} \cup others)
  /\ D[b] = 0 /\ Raised(D, a, b - 1) /\ u[a] = same /\ u[b] = angle
  /\ \A p, m \in a .. b : ClosedAt(D, u, deeper, p, m) => (u[p] = same <=> u[m] = angle)
  /\ \A k \in a .. b : u[k] # Semicolon

LEMMA NestStep ==
  ASSUME NEW same, NEW deeper, NEW angle, NEW others, Sides(same, deeper, angle, others),
         NEW D, NEW u, NEW a \in Nat, NEW b \in Nat,
         Enclosed(D, u, a, b, same, deeper, angle, others),
         NEW k \in a .. (b - 1), NEW v \in Verdicts(deeper), NestInv(v, D, u, a, k, deeper)
  PROVE  LET w == Nest(v, u[k + 1], same, deeper, angle, others)
         IN  NestInv(w, D, u, a, k + 1, deeper) /\ (k + 1 = b => w.verdict = "yes")
<1> DEFINE w == Nest(v, u[k + 1], same, deeper, angle, others)
           q == k + 1
           x == u[k + 1]
           T == v.stack
           C == {angle} \cup others
           g == Labels(deeper)
<1>1. CASE v.verdict = "yes"
  <2>1. w = v
    BY <1>1, VerdictStays
  <2> QED BY <1>1, <2>1 DEF NestInv
<1>2. CASE v.verdict = "open" /\ Levels(T, D, u, a, k, deeper, g)
  <2>1. /\ a \in Int /\ b \in Int /\ k \in a .. b /\ q \in a .. b /\ k + 1 \in a .. b /\ q \in Int
        /\ k \in Int
    OBVIOUS
  <2>2. Nesting(D, u, a, b, deeper, C) /\ D[k] >= 1 /\ D[k] >= 0 /\ D[k] \in Int /\ D[b] = 0
    <3>1. k \in (a - 1) .. b
      OBVIOUS
    <3>2. Nesting(D, u, a, b, deeper, C) /\ D[k] >= 1 /\ D[b] = 0
      BY DEF Enclosed, Raised
    <3>3. D[k] \in Int
      BY <3>1, <3>2 DEF Nesting
    <3> QED BY <3>2, <3>3
  <2>3. T \in Seq(deeper)
    BY DEF Verdicts
  <2>4. Nested(v, x, w, same, deeper, angle, others)
    BY <1>2, NestCases
  <2>5. Len(T) = D[k] /\ Levels(T, D, u, a, k, deeper, g)
    BY <1>2 DEF Levels
  <2>6. \A y \in deeper : g[y] = y
    BY DEF Labels
  <2>7. q = b => x = angle
    BY DEF Enclosed
  <2>8. x # Semicolon
    BY <2>1 DEF Enclosed
  <2>9. angle \notin deeper /\ (\A y \in others : y \notin deeper) /\ angle \notin others
    BY DEF Sides
  <2> HIDE DEF w, T, g, C, x
  <2>10. CASE x \in deeper
    <3>1. Shows(w, Append(T, x), "open") /\ q # b /\ g[x] = x
      BY <2>4, <2>6, <2>7, <2>9, <2>10 DEF Nested, T
    <3>2. Levels(Append(T, g[u[k + 1]]), D, u, a, k + 1, deeper, g)
      <4>1. u[k + 1] \in deeper /\ g[u[k + 1]] \in deeper
        BY <2>6, <2>10 DEF x
      <4> QED BY <2>1, <2>2, <2>3, <2>5, <4>1, LevelsOpen
    <3>3. Levels(Append(T, x), D, u, a, k + 1, deeper, g)
      BY <3>1, <3>2 DEF x
    <3> QED BY <3>1, <3>3 DEF NestInv, Shows, w, g, x
  <2>11. CASE x \in C
    <3>1. Levels(Front(T), D, u, a, k + 1, deeper, g) /\ TopCloses(T, D, u, a, k, deeper, g)
      <4>1. u[k + 1] \in C
        BY <2>11 DEF x
      <4> QED BY <2>1, <2>2, <2>3, <2>5, <4>1, LevelsClose
    <3>2. PICK p \in a .. k : ClosedAt(D, u, deeper, p, k + 1) /\ Last(T) = g[u[p]]
      BY <3>1 DEF TopCloses
    <3>3. Last(T) = u[p] /\ p \in a .. b
      BY <2>6, <3>2 DEF ClosedAt
    <3>4. Last(T) = same <=> x = angle
      BY <2>1, <3>2, <3>3 DEF Enclosed, x
    <3>5. D[q] = D[k] - 1
      <4>1. q - 1 = k /\ u[q] \in C
        BY <2>11 DEF x
      <4> QED BY <2>1, <2>2, <4>1 DEF Nesting
    <3>6. CASE x = angle
      <4>1. Shows(w, Front(T), IF Len(T) = 1 THEN "yes" ELSE "open")
        BY <2>4, <3>4, <3>6 DEF Nested, T
      <4>2. q = b => Len(T) = 1
        BY <2>2, <2>5, <3>5
      <4> QED BY <3>1, <4>1, <4>2 DEF NestInv, Shows, w, g, x
    <3>7. CASE x # angle
      <4>1. x \in others
        BY <2>11, <3>7 DEF C
      <4>2. Shows(w, Front(T), "open")
        BY <2>4, <3>4, <3>7, <4>1 DEF Nested, T
      <4> QED BY <2>7, <3>1, <3>7, <4>2 DEF NestInv, Shows, w, g, x
    <3> QED BY <3>6, <3>7
  <2>12. CASE x \notin deeper \cup C
    <3>1. Levels(T, D, u, a, k + 1, deeper, g)
      <4>1. u[k + 1] \notin deeper \cup C
        BY <2>12 DEF x
      <4> QED BY <2>1, <2>2, <2>5, <4>1, LevelsSkip
    <3>2. x \notin Operators \/ x = Comma
      BY <2>8, <2>12 DEF Sides, C
    <3>3. w = v \/ w.verdict = "yes"
      BY <2>4, <3>2 DEF Nested
    <3>4. q # b
      BY <2>7, <2>12 DEF C
    <3> QED BY <1>2, <3>1, <3>3, <3>4 DEF NestInv, w, g, x, T
  <2> QED BY <2>10, <2>11, <2>12
<1> QED BY <1>1, <1>2 DEF NestInv

Started(same) == [stack |-> <<same>>, verdict |-> "open"]

NestRun(G, t, same, deeper, angle, others) ==
  /\ G \in [0 .. Len(t) -> Verdicts(deeper)] /\ G[0] = Started(same)
  /\ \A i \in 1 .. Len(t) : G[i] = Nest(G[i - 1], t[i], same, deeper, angle, others)

\* A verdict is final.
Final(G, t) == \A M \in 0 .. Len(t) : G[M].verdict # "open" => G[Len(t)] = G[M]

LEMMA NestDecided ==
  ASSUME NEW same, NEW deeper, NEW angle, NEW others, NEW S, NEW t \in Seq(S), NEW G,
         NestRun(G, t, same, deeper, angle, others)
  PROVE  Final(G, t)
<1> SUFFICES ASSUME NEW M \in 0 .. Len(t), G[M].verdict # "open" PROVE G[Len(t)] = G[M]
  BY DEF Final
<1> DEFINE L == Len(t) - M
           Good == {i \in 0 .. L : G[M + i] = G[M]}
<1>1. Len(t) \in Nat /\ M \in Nat /\ L \in Nat /\ M + L = Len(t) /\ M + 0 = M
  BY LenProperties
<1>2. 0 \in Good
  BY <1>1
<1>3. ASSUME NEW i \in 1 .. L, i - 1 \in Good PROVE i \in Good
  <2>1. M + i \in 1 .. Len(t) /\ (M + i) - 1 = M + (i - 1) /\ i \in 0 .. L
    BY <1>1
  <2>2. G[M + (i - 1)] = G[M]
    BY <1>3
  <2>3. G[M + i] = Nest(G[(M + i) - 1], t[M + i], same, deeper, angle, others)
    BY <2>1 DEF NestRun
  <2>4. G[M + i] = Nest(G[M], t[M + i], same, deeper, angle, others)
    BY <2>1, <2>2, <2>3
  <2>5. G[M + i] = G[M]
    BY <2>4, VerdictStays
  <2> QED BY <2>1, <2>5
<1>4. \A i \in 1 .. L : i - 1 \in Good => i \in Good
  BY <1>3
<1> HIDE DEF Good
<1>5. \A i \in 0 .. L : i \in Good
  BY <1>1, <1>2, <1>4, UpTo
<1>6. L \in Good
  BY <1>1, <1>5
<1> QED BY <1>1, <1>6 DEF Good

\* t starts with what is behind position a of u, up to b.
Follows(t, u, a, b) == b - a <= Len(t) /\ \A i \in 1 .. (b - a) : t[i] = u[a + i]

RunsOver(G, t, S, D, u, a, b, same, deeper, angle, others) ==
  /\ a \in Nat /\ b \in Nat /\ t \in Seq(S) /\ Follows(t, u, a, b)
  /\ Sides(same, deeper, angle, others) /\ Enclosed(D, u, a, b, same, deeper, angle, others)
  /\ NestRun(G, t, same, deeper, angle, others)

\* Enclosed arguments are recognised.
LEMMA NestYes ==
  ASSUME NEW same, NEW deeper, NEW angle, NEW others, NEW D, NEW u, NEW a, NEW b, NEW S, NEW t, NEW G,
         RunsOver(G, t, S, D, u, a, b, same, deeper, angle, others)
  PROVE  G[Len(t)].verdict = "yes"
<1> SUFFICES ASSUME a \in Nat, b \in Nat, t \in Seq(S), Follows(t, u, a, b),
                    Sides(same, deeper, angle, others), Enclosed(D, u, a, b, same, deeper, angle, others),
                    NestRun(G, t, same, deeper, angle, others)
             PROVE  G[Len(t)].verdict = "yes"
  BY DEF RunsOver
<1> DEFINE M == b - a
           Good == {i \in 0 .. M : NestInv(G[i], D, u, a, a + i, deeper) /\ (i = M => G[i].verdict = "yes")}
<1>1. a < b /\ M \in Nat /\ M # 0 /\ Len(t) \in Nat /\ M <= Len(t) /\ a + M = b /\ a + 0 = a
  BY LenProperties DEF Enclosed, Follows
<1>2. 0 \in Good
  <2> DEFINE st == <<same>>
             g == Labels(deeper)
  <2>1. Len(st) = 1 /\ st[1] = same /\ same \in deeper
    BY DEF Sides
  <2>2. a \in a .. a /\ a .. a = {a} /\ a - 1 \in (a - 1) .. b /\ a \in a .. b
    BY <1>1
  <2>3. D[a] = 1 /\ u[a] = same
    BY <2>1, <2>2 DEF Enclosed, Nesting
  <2>4. OpenAt(D, u, deeper, a, a, 1) /\ g[u[a]] = same
    BY <2>1, <2>2, <2>3 DEF OpenAt, Labels
  <2> HIDE DEF g, st
  <2>5. Levels(st, D, u, a, a, deeper, g)
    <3>1. \A d \in 1 .. 1 : d = 1
      OBVIOUS
    <3> QED BY <2>1, <2>2, <2>3, <2>4, <3>1 DEF Levels
  <2>6. G[0].stack = st /\ G[0].verdict = "open"
    BY DEF NestRun, Started, st
  <2>7. NestInv(G[0], D, u, a, a, deeper)
    BY <2>5, <2>6 DEF NestInv, g
  <2> QED BY <1>1, <2>7
<1>3. ASSUME NEW i \in 1 .. M, i - 1 \in Good PROVE i \in Good
  <2> DEFINE k == a + (i - 1)
             v == G[i - 1]
  <2>1. /\ k \in a .. (b - 1) /\ k + 1 = a + i /\ i - 1 \in 0 .. Len(t) /\ i \in 1 .. Len(t)
        /\ k + 1 = b <=> i = M
    BY <1>1 DEF M
  <2>2. /\ v \in Verdicts(deeper) /\ NestInv(v, D, u, a, k, deeper)
        /\ G[i] = Nest(v, u[k + 1], same, deeper, angle, others)
    BY <1>3, <2>1 DEF NestRun, Follows
  <2> HIDE DEF k, v, M
  <2>3. NestInv(G[i], D, u, a, k + 1, deeper) /\ (k + 1 = b => G[i].verdict = "yes")
    BY <2>1, <2>2, NestStep
  <2>4. NestInv(G[i], D, u, a, a + i, deeper) /\ (i = M => G[i].verdict = "yes") /\ i \in 0 .. M
    BY <1>1, <2>1, <2>3
  <2> QED BY <2>4
<1>4. \A i \in 1 .. M : i - 1 \in Good => i \in Good
  BY <1>3
<1>5. G[M].verdict = "yes"
  <2> HIDE DEF Good, M
  <2>1. \A i \in 0 .. M : i \in Good
    BY <1>1, <1>2, <1>4, UpTo
  <2> QED BY <1>1, <2>1 DEF Good
<1>6. G[Len(t)] = G[M]
  <2>1. M \in 0 .. Len(t) /\ G[M].verdict # "open"
    BY <1>1, <1>5
  <2>2. t \in Seq(S) /\ NestRun(G, t, same, deeper, angle, others)
    OBVIOUS
  <2>3. Final(G, t)
    BY <2>2, NestDecided
  <2> HIDE DEF M
  <2> QED BY <2>1, <2>3 DEF Final
<1> QED BY <1>5, <1>6

\* FlattenSeq joins sequences of the same elements.
LEMMA FlattenType ==
  ASSUME NEW S, NEW seqs \in Seq(Seq(S))
  PROVE  FlattenSeq(seqs) \in Seq(S)
<1> DEFINE N == Len(seqs)
           Rec(g, n) == [i \in 1 .. n |-> IF i = 1 THEN seqs[i] ELSE g[i - 1] \o seqs[i]]
<1>1. N \in Nat /\ \A i \in 1 .. N : seqs[i] \in Seq(S)
  BY LenProperties, ElementOfSeq
<1>2. CASE N = 0
  <2>1. seqs = <<>> /\ FlattenSeq(seqs) = seqs
    BY <1>2, EmptySeq DEF FlattenSeq
  <2> QED BY <2>1, EmptySeq
<1>3. CASE N # 0
  <2> DEFINE F == CHOOSE g : g = Rec(g, N)
             Built == {n \in 0 .. N : \E g : g = Rec(g, n)}
  <2>1. FlattenSeq(seqs) = F[N]
    BY <1>3 DEF FlattenSeq
  <2> HIDE DEF N
  <2>2. 0 \in Built
    <3>1. 1 .. 0 = {} /\ 0 \in 0 .. N
      BY <1>1
    <3>2. \A g : Rec(g, 0) = [i \in {} |-> i]
      BY <3>1
    <3> QED BY <3>1, <3>2
  <2>3. ASSUME NEW n \in 1 .. N, n - 1 \in Built PROVE n \in Built
    <3>1. PICK g : g = Rec(g, n - 1)
      BY <2>3
    <3> DEFINE g2 == [i \in 1 .. n |-> IF i < n THEN g[i] ELSE IF n = 1 THEN seqs[1] ELSE g[n - 1] \o seqs[n]]
    <3>2. \A i \in 1 .. n : g2[i] = IF i = 1 THEN seqs[i] ELSE g2[i - 1] \o seqs[i]
      <4> SUFFICES ASSUME NEW i \in 1 .. n
                   PROVE  g2[i] = IF i = 1 THEN seqs[i] ELSE g2[i - 1] \o seqs[i]
        OBVIOUS
      <4>1. n \in Nat /\ i \in Nat
        BY <1>1
      <4>2. i # 1 => i - 1 \in 1 .. n /\ i - 1 < n /\ g2[i - 1] = g[i - 1]
        BY <4>1
      <4>3. CASE i < n
        <5>1. i \in 1 .. (n - 1)
          BY <4>1, <4>3
        <5>2. g[i] = IF i = 1 THEN seqs[i] ELSE g[i - 1] \o seqs[i]
          BY <3>1, <5>1
        <5>3. g2[i] = g[i]
          BY <4>3
        <5> HIDE DEF g2
        <5> QED BY <4>2, <5>2, <5>3
      <4>4. CASE i = n
        <5>1. g2[i] = IF n = 1 THEN seqs[1] ELSE g[n - 1] \o seqs[n]
          BY <4>1, <4>4
        <5> HIDE DEF g2
        <5> QED BY <4>2, <4>4, <5>1
      <4> QED BY <4>1, <4>3, <4>4
    <3>3. g2 = [i \in 1 .. n |-> g2[i]]
      OBVIOUS
    <3> HIDE DEF g2
    <3>4. g2 = Rec(g2, n)
      BY <3>2, <3>3
    <3>5. n \in 0 .. N
      BY <1>1
    <3> HIDE DEF Rec
    <3> QED BY <3>4, <3>5
  <2>4. \E g : g = Rec(g, N)
    <3> HIDE DEF Built
    <3>1. \A i \in 1 .. N : i - 1 \in Built => i \in Built
      BY <2>3
    <3>2. \A i \in 0 .. N : i \in Built
      BY <1>1, <2>2, <3>1, UpTo
    <3>3. N \in Built
      BY <1>1, <3>2
    <3> HIDE DEF Rec
    <3> QED BY <3>3 DEF Built
  <2>5. F = Rec(F, N)
    BY <2>4
  <2> HIDE DEF F
  <2> DEFINE Good == {n \in 0 .. N : n = 0 \/ F[n] \in Seq(S)}
  <2>6. 0 \in Good
    BY <1>1
  <2>7. ASSUME NEW n \in 1 .. N, n - 1 \in Good PROVE n \in Good
    <3>1. F[n] = IF n = 1 THEN seqs[n] ELSE F[n - 1] \o seqs[n]
      BY <2>5
    <3>2. n # 1 => F[n - 1] \in Seq(S)
      BY <1>1, <2>7
    <3>3. seqs[n] \in Seq(S) /\ n \in 0 .. N
      BY <1>1
    <3>4. n # 1 => F[n - 1] \o seqs[n] \in Seq(S)
      BY <3>2, <3>3, ConcatProperties
    <3> QED BY <3>1, <3>3, <3>4
  <2>8. N \in Good
    <3> HIDE DEF Good
    <3>1. \A i \in 1 .. N : i - 1 \in Good => i \in Good
      BY <2>7
    <3>2. \A i \in 0 .. N : i \in Good
      BY <1>1, <2>6, <3>1, UpTo
    <3> QED BY <1>1, <3>2
  <2> QED BY <1>3, <2>1, <2>8
<1> QED BY <1>2, <1>3

LEMMA TextType ==
  ASSUME TextOK
  PROVE  /\ Text \in Seq(alphabet.chars \cup {"\n"})
         /\ Len(Text) \in Nat /\ DOMAIN Text = 1 .. Len(Text)
<1> DEFINE S == alphabet.chars \cup {"\n"}
           e == "\n"
           seqs == [n \in DOMAIN lines |-> Append(lines[n], e)]
<1>1. Len(lines) \in Nat /\ DOMAIN lines = 1 .. Len(lines)
  BY LinesType
<1>2. ASSUME NEW n \in 1 .. Len(lines) PROVE Append(lines[n], e) \in Seq(S)
  <2>1. lines[n] \in Seq(alphabet.chars)
    BY LinesType
  <2>2. lines[n] \in Seq(S) /\ e \in S
    BY <2>1
  <2> HIDE DEF S, e
  <2> QED BY <2>2, AppendProperties
<1>3. seqs \in [1 .. Len(lines) -> Seq(S)]
  BY <1>1, <1>2
<1>4. seqs \in Seq(Seq(S))
  BY <1>1, <1>3, SeqDef
<1> HIDE DEF seqs, S
<1>5. FlattenSeq(seqs) \in Seq(S)
  BY <1>4, FlattenType
<1>6. Text \in Seq(S)
  BY <1>5 DEF Text, seqs, e
<1> QED BY <1>6, LenProperties DEF S

\* The machine forwards over t and backwards over the reverse of t.
LEMMA ForwardRun ==
  ASSUME NEW S, NEW t \in Seq(S)
  PROVE  \E G : NestRun(G, t, "<", ForwardDeeper, ">", ForwardOthers) /\ G[Len(t)].verdict = NextVerdict(t)
<1> DEFINE V == Verdicts(ForwardDeeper)
           base == Started("<")
<1>1. base \in V
  BY DEF Started, Verdicts, ForwardDeeper
<1>2. \A v \in V, x \in S : Nest(v, x, "<", {"<", "(", "["}, ">", {")", "]"}) \in V
  BY VerdictsClosed DEF ForwardDeeper
<1>3. NextVerdict(t) = NextAll(base, t).verdict
  BY DEF NextVerdict, NextAll, Started
<1> HIDE DEF V, base
<1>4. PICK G \in [0 .. Len(t) -> V] :
            /\ G[0] = base
            /\ G[Len(t)] = NextAll(base, t)
            /\ \A i \in 1 .. Len(t) : G[i] = Nest(G[i - 1], t[i], "<", {"<", "(", "["}, ">", {")", "]"})
  BY <1>1, <1>2, NextSteps
<1>5. NestRun(G, t, "<", ForwardDeeper, ">", ForwardOthers)
  BY <1>4 DEF NestRun, V, base, ForwardDeeper, ForwardOthers
<1> QED BY <1>3, <1>4, <1>5

LEMMA ReverseType ==
  ASSUME NEW S, NEW t \in Seq(S)
  PROVE  /\ Reverse(t) \in Seq(S) /\ Len(Reverse(t)) = Len(t)
         /\ \A i \in 1 .. Len(t) : Reverse(t)[i] = t[(Len(t) - i) + 1]
<1> DEFINE n == Len(t)
           r == Reverse(t)
<1>1. n \in Nat /\ \A i \in 1 .. n : t[i] \in S
  BY LenProperties, ElementOfSeq
<1>2. r = [i \in 1 .. n |-> t[(n - i) + 1]]
  BY DEF Reverse
<1> HIDE DEF n, r
<1>3. \A i \in 1 .. n : (n - i) + 1 \in 1 .. n
  BY <1>1
<1>4. r \in [1 .. n -> S] /\ \A i \in 1 .. n : r[i] = t[(n - i) + 1]
  BY <1>1, <1>2, <1>3
<1>5. r \in Seq(S) /\ Len(r) = n
  BY <1>1, <1>4, SeqDef, LenProperties
<1> QED BY <1>4, <1>5 DEF n, r

LEMMA BackwardRun ==
  ASSUME NEW S, NEW t \in Seq(S)
  PROVE  \E G : /\ NestRun(G, t, ">", BackwardDeeper, "<", BackwardOthers)
                /\ G[Len(t)] = PreviousAll(Started(">"), t)
<1> DEFINE V == Verdicts(BackwardDeeper)
           base == Started(">")
<1>1. base \in V
  BY DEF Started, Verdicts, BackwardDeeper
<1>2. \A v \in V, x \in S : Nest(v, x, ">", {">", ")", "]"}, "<", {"(", "["}) \in V
  BY VerdictsClosed DEF BackwardDeeper
<1> HIDE DEF V, base
<1>3. PICK G \in [0 .. Len(t) -> V] :
            /\ G[0] = base
            /\ G[Len(t)] = PreviousAll(base, t)
            /\ \A i \in 1 .. Len(t) : G[i] = Nest(G[i - 1], t[i], ">", {">", ")", "]"}, "<", {"(", "["})
  BY <1>1, <1>2, PreviousSteps
<1>4. NestRun(G, t, ">", BackwardDeeper, "<", BackwardOthers)
  BY <1>3 DEF NestRun, V, base, BackwardDeeper, BackwardOthers
<1> QED BY <1>3, <1>4 DEF base

LEMMA TemplateParts ==
  /\ DOMAIN Template = ForwardDeeper /\ ForwardDeeper = {"<"} \cup BackwardOthers
  /\ Range(Template) = BackwardDeeper /\ BackwardDeeper = {">"} \cup ForwardOthers
  /\ ForwardDeeper \cap BackwardDeeper = {}
  /\ \A x \in ForwardDeeper : x = "<" <=> Template[x] = ">"
  /\ Template["<"] = ">"
<1>1. /\ DOMAIN Template = {"<", "(", "["}
      /\ Template["<"] = ">" /\ Template["("] = ")" /\ Template["["] = "]"
  BY DEF Template
<1> HIDE DEF Template
<1>2. Range(Template) = {">", ")", "]"}
  BY <1>1 DEF Range
<1>3. \A x \in {"<", "(", "["} : x = "<" <=> Template[x] = ">"
  BY <1>1
<1> QED BY <1>1, <1>2, <1>3 DEF ForwardDeeper, ForwardOthers, BackwardDeeper, BackwardOthers

\* The text backwards from j: the same brackets are open, and what is closed
\* backwards is closed forwards.
BackDepths(D, i, j) == [x \in (0 - 1) .. (j - i) |-> D[j - 1 - x]]
BackText(s, j) == [x \in 0 .. (j - 1) |-> s[j - x]]

LEMMA BackNesting ==
  ASSUME NEW D, NEW s, NEW i \in Nat, NEW j \in Nat, 1 <= i, i < j, NEW O, NEW C,
         Nesting(D, s, i, j, O, C), D[j] = 0, O \cap C = {}
  PROVE  Nesting(BackDepths(D, i, j), BackText(s, j), 0, j - i, C, O)
<1> DEFINE E == BackDepths(D, i, j)
           u == BackText(s, j)
           b == j - i
<1>1. \A x \in (0 - 1) .. b : E[x] = D[j - 1 - x] /\ j - 1 - x \in (i - 1) .. j
  BY DEF BackDepths
<1>2. \A k \in (i - 1) .. j : D[k] \in Int
  BY DEF Nesting
<1>3. E \in [(0 - 1) .. b -> Int]
  BY <1>1, <1>2 DEF BackDepths
<1>4. E[0 - 1] = 0
  <2>1. 0 - 1 \in (0 - 1) .. b /\ j - 1 - (0 - 1) = j
    OBVIOUS
  <2> QED BY <1>1, <2>1
<1>5. ASSUME NEW x \in 0 .. b
      PROVE  /\ u[x] \in C => E[x] = E[x - 1] + 1
             /\ u[x] \in O => E[x] = E[x - 1] - 1
             /\ u[x] \notin C \cup O => E[x] = E[x - 1]
  <2> DEFINE k == j - x
  <2>1. k \in i .. j /\ j - 1 - x = k - 1 /\ j - 1 - (x - 1) = k /\ k - 1 \in (i - 1) .. j /\ k \in (i - 1) .. j
    OBVIOUS
  <2>2. x - 1 \in (0 - 1) .. b /\ x \in (0 - 1) .. b /\ x \in 0 .. (j - 1)
    OBVIOUS
  <2>3. u[x] = s[k]
    BY <2>2 DEF BackText
  <2>4. E[x] = D[k - 1] /\ E[x - 1] = D[k] /\ D[k] \in Int /\ D[k - 1] \in Int
    BY <1>1, <1>2, <2>1, <2>2
  <2>5. /\ s[k] \in O => D[k] = D[k - 1] + 1
        /\ s[k] \in C => D[k] = D[k - 1] - 1
        /\ s[k] \notin O \cup C => D[k] = D[k - 1]
    BY <2>1 DEF Nesting
  <2> HIDE DEF k, E, u
  <2> QED BY <2>3, <2>4, <2>5
<1> HIDE DEF E, u, b
<1>6. Nesting(E, u, 0, b, C, O)
  BY <1>3, <1>4, <1>5 DEF Nesting
<1> QED BY <1>6 DEF E, u, b

LEMMA BackClosed ==
  ASSUME NEW D, NEW s, NEW i \in Nat, NEW j \in Nat, 1 <= i, i < j, NEW O, NEW C,
         Nesting(D, s, i, j, O, C), O \cap C = {},
         NEW y \in 0 .. (j - i), NEW z \in 0 .. (j - i),
         ClosedAt(BackDepths(D, i, j), BackText(s, j), C, y, z)
  PROVE  ClosedAt(D, s, O, j - z, j - y) /\ BackText(s, j)[y] = s[j - y] /\ BackText(s, j)[z] = s[j - z]
<1> DEFINE E == BackDepths(D, i, j)
           u == BackText(s, j)
           b == j - i
           p == j - z
           m == j - y
<1>1. \A x \in (0 - 1) .. b : E[x] = D[j - 1 - x]
  BY DEF BackDepths
<1>2. \A k \in (i - 1) .. j : D[k] \in Int
  BY DEF Nesting
<1>3. y < z /\ u[y] \in C /\ E[z] < E[y] /\ \A x \in y .. (z - 1) : E[x] >= E[y]
  BY DEF ClosedAt
<1>4. u[y] = s[m] /\ u[z] = s[p]
  BY DEF BackText
<1>5. /\ p \in i .. j /\ m \in i .. j /\ p < m /\ p \in (i - 1) .. j /\ m \in (i - 1) .. j
      /\ p - 1 \in (i - 1) .. j /\ m - 1 \in (i - 1) .. j
  BY <1>3
<1>6. E[y] = D[m - 1] /\ E[z] = D[p - 1]
  <2>1. y \in (0 - 1) .. b /\ z \in (0 - 1) .. b /\ j - 1 - y = m - 1 /\ j - 1 - z = p - 1
    OBVIOUS
  <2> QED BY <1>1, <2>1
<1>7. ASSUME NEW k \in p .. (m - 1) PROVE D[k] >= D[m - 1]
  <2> DEFINE x == j - 1 - k
  <2>1. x \in y .. (z - 1) /\ x \in (0 - 1) .. b /\ j - 1 - x = k
    OBVIOUS
  <2>2. E[x] >= E[y] /\ E[x] = D[k]
    BY <1>1, <1>3, <2>1
  <2> QED BY <1>6, <2>2
<1> HIDE DEF E, u, p, m
<1>8. D[m] = D[m - 1] - 1 /\ D[m] \in Int /\ D[m - 1] \in Int /\ D[p] \in Int /\ D[p - 1] \in Int
  BY <1>2, <1>3, <1>4, <1>5 DEF Nesting
<1>9. p \in p .. (m - 1)
  BY <1>5
<1>10. D[p] >= D[m - 1] /\ D[p - 1] < D[m - 1]
  BY <1>3, <1>6, <1>7, <1>9
<1>11. /\ s[p] \in O => D[p] = D[p - 1] + 1
       /\ s[p] \in C => D[p] = D[p - 1] - 1
       /\ s[p] \notin O \cup C => D[p] = D[p - 1]
  BY <1>5 DEF Nesting
<1>12. s[p] \in O /\ D[p] = D[m - 1]
  BY <1>8, <1>10, <1>11
<1>13. ClosedAt(D, s, O, p, m)
  <2>1. D[m] < D[p] /\ \A k \in p .. (m - 1) : D[k] >= D[p]
    BY <1>7, <1>8, <1>12
  <2> QED BY <1>5, <1>12, <2>1 DEF ClosedAt
<1> QED BY <1>4, <1>13 DEF p, m, u

\* A < with its > and everything in between properly nested.
Arguments(s, i, j) ==
  /\ i < j /\ s[i] = "<" /\ s[j] = ">"
  /\ \A k \in i .. j : s[k] # Semicolon
  /\ WellNested(s, i + 1, j - 1, Template)

TemplateDepths(s, i, j) == Depths(s, i, j, ForwardDeeper, BackwardDeeper)

LEMMA ArgumentsNested ==
  ASSUME NEW s, NEW i \in Nat, NEW j \in Nat, Arguments(s, i, j)
  PROVE  /\ Nesting(TemplateDepths(s, i, j), s, i, j, ForwardDeeper, BackwardDeeper)
         /\ EndAt(TemplateDepths(s, i, j), s, i, j, ForwardDeeper, Template)
<1> DEFINE D == Depths(s, i, j, ForwardDeeper, BackwardDeeper)
<1>1. /\ i < j /\ i <= j /\ j \in (i + 1) .. j /\ i \in Int /\ j \in Int /\ j >= i - 1
      /\ s[j] = Template[s[i]] /\ s[i] \in ForwardDeeper
  BY TemplateParts DEF Arguments, ForwardDeeper
<1>2. Partners(Template, ForwardDeeper, BackwardDeeper) /\ ForwardDeeper \cap BackwardDeeper = {}
  BY TemplateParts DEF Partners
<1>3. Nesting(D, s, i, j, ForwardDeeper, BackwardDeeper)
  BY <1>1, <1>2, NestingExists
<1>4. EndAt(D, s, i, j, ForwardDeeper, Template) <=> s[j] = Template[s[i]] /\ WellNested(s, i + 1, j - 1, Template)
  BY <1>1, <1>2, EndsAre
<1> HIDE DEF D
<1> QED BY <1>1, <1>3, <1>4 DEF Arguments, D, TemplateDepths

LEMMA EnclosedForward ==
  ASSUME NEW s, NEW i \in Nat, NEW j \in Nat, Arguments(s, i, j)
  PROVE  Enclosed(TemplateDepths(s, i, j), s, i, j, "<", ForwardDeeper, ">", ForwardOthers)
<1> DEFINE D == TemplateDepths(s, i, j)
<1>1. Nesting(D, s, i, j, ForwardDeeper, {">"} \cup ForwardOthers)
  <2>1. Nesting(D, s, i, j, ForwardDeeper, BackwardDeeper)
    BY ArgumentsNested
  <2>2. BackwardDeeper = {">"} \cup ForwardOthers
    BY TemplateParts
  <2> HIDE DEF D
  <2> QED BY <2>1, <2>2
<1>2. D[j] = 0 /\ Raised(D, i, j - 1) /\ Proper(D, s, i, j, ForwardDeeper, Template)
  BY ArgumentsNested DEF EndAt
<1> HIDE DEF D
<1>3. ASSUME NEW p \in i .. j, NEW m \in i .. j, ClosedAt(D, s, ForwardDeeper, p, m)
      PROVE  s[p] = "<" <=> s[m] = ">"
  <2>1. s[p] \in ForwardDeeper /\ s[m] = Template[s[p]]
    BY <1>2, <1>3 DEF ClosedAt, Proper
  <2> QED BY <2>1, TemplateParts
<1> QED BY <1>1, <1>2, <1>3 DEF Enclosed, Arguments, D

LEMMA EnclosedBackward ==
  ASSUME NEW s, NEW i \in Nat, NEW j \in Nat, 1 <= i, Arguments(s, i, j)
  PROVE  Enclosed(BackDepths(TemplateDepths(s, i, j), i, j), BackText(s, j), 0, j - i,
                  ">", BackwardDeeper, "<", BackwardOthers)
<1> DEFINE D == TemplateDepths(s, i, j)
           E == BackDepths(D, i, j)
           u == BackText(s, j)
           b == j - i
<1>1. /\ Nesting(D, s, i, j, ForwardDeeper, BackwardDeeper) /\ i < j
      /\ D[j] = 0 /\ Raised(D, i, j - 1) /\ Proper(D, s, i, j, ForwardDeeper, Template)
  BY ArgumentsNested DEF EndAt, Arguments
<1>2. ForwardDeeper \cap BackwardDeeper = {} /\ ForwardDeeper = {"<"} \cup BackwardOthers
  BY TemplateParts
<1> HIDE DEF D
<1>3. Nesting(E, u, 0, b, BackwardDeeper, ForwardDeeper)
  BY <1>1, <1>2, BackNesting
<1>4. Nesting(E, u, 0, b, BackwardDeeper, {"<"} \cup BackwardOthers)
  <2> HIDE DEF E, u, b
  <2> QED BY <1>2, <1>3
<1>5. \A x \in 0 .. b : E[x] = D[j - 1 - x] /\ u[x] = s[j - x]
  BY <1>1 DEF BackDepths, BackText
<1>6. E[b] = 0
  <2>1. b \in 0 .. b /\ j - 1 - b = i - 1
    BY <1>1
  <2> QED BY <1>1, <1>5, <2>1 DEF Nesting
<1>7. Raised(E, 0, b - 1)
  <2> SUFFICES ASSUME NEW x \in 0 .. (b - 1) PROVE E[x] >= 1
    BY DEF Raised
  <2>1. x \in 0 .. b /\ j - 1 - x \in i .. (j - 1)
    OBVIOUS
  <2> QED BY <1>1, <1>5, <2>1 DEF Raised
<1>8. u[0] = ">" /\ u[b] = "<"
  <2>1. 0 \in 0 .. b /\ b \in 0 .. b /\ j - 0 = j /\ j - b = i
    BY <1>1
  <2> QED BY <1>5, <2>1 DEF Arguments
<1>9. ASSUME NEW x \in 0 .. b PROVE u[x] # Semicolon
  <2>1. j - x \in i .. j
    OBVIOUS
  <2> QED BY <1>5, <2>1 DEF Arguments
<1>10. ASSUME NEW y \in 0 .. b, NEW z \in 0 .. b, ClosedAt(E, u, BackwardDeeper, y, z)
       PROVE  u[y] = ">" <=> u[z] = "<"
  <2>1. ClosedAt(D, s, ForwardDeeper, j - z, j - y) /\ u[y] = s[j - y] /\ u[z] = s[j - z]
    BY <1>1, <1>2, <1>10, BackClosed
  <2>2. j - z \in i .. j /\ j - y \in i .. j
    OBVIOUS
  <2>3. s[j - z] \in ForwardDeeper /\ s[j - y] = Template[s[j - z]]
    BY <1>1, <2>1, <2>2 DEF ClosedAt, Proper
  <2> QED BY <2>1, <2>3, TemplateParts
<1>11. 0 < b
  BY <1>1
<1> HIDE DEF E, u, b
<1> QED BY <1>4, <1>6, <1>7, <1>8, <1>9, <1>10, <1>11 DEF Enclosed, E, u, b, D

LEMMA ForwardFound ==
  ASSUME NEW S, NEW s \in Seq(S), NEW i \in 1 .. Len(s), NEW j \in 1 .. Len(s), Arguments(s, i, j)
  PROVE  NextVerdict(SubSeq(s, i + 1, Len(s))) = "yes"
<1> DEFINE n == Len(s)
           t == SubSeq(s, i + 1, n)
<1>1. n \in Nat /\ i \in Nat /\ j \in Nat /\ i \in 0 .. n /\ i < j /\ j <= n
  BY LenProperties DEF Arguments
<1>2. t \in Seq(S) /\ Len(t) = n - i /\ \A x \in 1 .. (n - i) : t[x] = s[i + x]
  BY <1>1, Behind
<1> HIDE DEF n, t
<1>3. Follows(t, s, i, j)
  BY <1>1, <1>2 DEF Follows
<1>4. PICK G : NestRun(G, t, "<", ForwardDeeper, ">", ForwardOthers) /\ G[Len(t)].verdict = NextVerdict(t)
  <2>1. t \in Seq(S)
    BY <1>2
  <2> QED BY ONLY <2>1, ForwardRun
<1>5. Enclosed(TemplateDepths(s, i, j), s, i, j, "<", ForwardDeeper, ">", ForwardOthers)
  BY <1>1, EnclosedForward
<1>6. G[Len(t)].verdict = "yes"
  <2>1. i \in Nat /\ j \in Nat /\ t \in Seq(S) /\ Sides("<", ForwardDeeper, ">", ForwardOthers)
    BY <1>1, <1>2, SidesOf
  <2>2. NestRun(G, t, "<", ForwardDeeper, ">", ForwardOthers)
    BY <1>4
  <2>3. RunsOver(G, t, S, TemplateDepths(s, i, j), s, i, j, "<", ForwardDeeper, ">", ForwardOthers)
    BY <1>3, <1>5, <2>1, <2>2 DEF RunsOver
  <2> QED BY <2>3, NestYes
<1> QED BY <1>4, <1>6 DEF t, n

LEMMA BackwardFound ==
  ASSUME NEW S, NEW s \in Seq(S), NEW i \in 1 .. Len(s), NEW j \in 1 .. Len(s), Arguments(s, i, j)
  PROVE  PreviousVerdict(SubSeq(s, 1, j - 1)) = "yes"
<1> DEFINE n == Len(s)
           l == j - 1
           t == SubSeq(s, 1, l)
           r == Reverse(t)
           u == BackText(s, j)
<1>1. n \in Nat /\ i \in Nat /\ j \in Nat /\ 1 <= i /\ i < j /\ j <= n /\ l \in Int /\ l >= 1 /\ l \in Nat
  BY LenProperties DEF Arguments
<1>2. t \in Seq(S) /\ Len(t) = l /\ \A x \in 1 .. l : t[x] = s[x]
  <2>1. \A x \in 1 .. l : s[x] \in S
    BY <1>1, ElementOfSeq
  <2> HIDE DEF l
  <2>2. t \in Seq(S) /\ Len(t) = (IF 1 <= l THEN l - 1 + 1 ELSE 0) /\ \A x \in 1 .. l - 1 + 1 : t[x] = s[1 + x - 1]
    BY <1>1, <2>1, SubSeqProperties
  <2> HIDE DEF t
  <2>3. Len(t) = l /\ l - 1 + 1 = l /\ \A x \in 1 .. l : 1 + x - 1 = x
    BY <1>1, <2>2
  <2> QED BY <2>2, <2>3
<1> HIDE DEF t
<1>3. r \in Seq(S) /\ Len(r) = l /\ \A x \in 1 .. l : r[x] = s[j - x]
  <2>1. r \in Seq(S) /\ Len(r) = Len(t) /\ \A x \in 1 .. Len(t) : r[x] = t[(Len(t) - x) + 1]
    BY <1>2, ReverseType
  <2>2. \A x \in 1 .. l : (l - x) + 1 = j - x /\ j - x \in 1 .. l
    BY <1>1
  <2> HIDE DEF r, l
  <2> QED BY <1>2, <2>1, <2>2
<1>4. PreviousVerdict(t) = PreviousAll(Started(">"), r).verdict
  BY DEF PreviousVerdict, PreviousAll, Started
<1> HIDE DEF r
<1>5. (j - i) - 0 <= Len(r) /\ \A x \in 1 .. ((j - i) - 0) : r[x] = u[0 + x]
  <2>1. \A x \in 1 .. (j - i) : x \in 1 .. l /\ x \in 0 .. (j - 1) /\ 0 + x = x
    BY <1>1
  <2>2. \A x \in 0 .. (j - 1) : u[x] = s[j - x]
    BY DEF BackText
  <2>3. (j - i) - 0 = j - i /\ j - i <= l
    BY <1>1
  <2> HIDE DEF u, l
  <2> QED BY <1>3, <2>1, <2>2, <2>3
<1>6. PICK G : /\ NestRun(G, r, ">", BackwardDeeper, "<", BackwardOthers)
               /\ G[Len(r)] = PreviousAll(Started(">"), r)
  <2>1. r \in Seq(S)
    BY <1>3
  <2> QED BY ONLY <2>1, BackwardRun
<1>7. Enclosed(BackDepths(TemplateDepths(s, i, j), i, j), u, 0, j - i, ">", BackwardDeeper, "<", BackwardOthers)
  BY <1>1, EnclosedBackward
<1>8. G[Len(r)].verdict = "yes"
  <2> DEFINE b == j - i
             z == 0
  <2>1. z \in Nat /\ b \in Nat /\ r \in Seq(S) /\ Sides(">", BackwardDeeper, "<", BackwardOthers)
    BY <1>1, <1>3, SidesOf
  <2>2. NestRun(G, r, ">", BackwardDeeper, "<", BackwardOthers)
    BY <1>6
  <2>3. Enclosed(BackDepths(TemplateDepths(s, i, j), i, j), u, z, b, ">", BackwardDeeper, "<", BackwardOthers)
    BY <1>7
  <2>4. Follows(r, u, z, b)
    BY <1>5 DEF Follows
  <2> HIDE DEF u, b, z
  <2> DEFINE E == BackDepths(TemplateDepths(s, i, j), i, j)
  <2> HIDE DEF E
  <2>5. RunsOver(G, r, S, E, u, z, b, ">", BackwardDeeper, "<", BackwardOthers)
    BY <2>1, <2>2, <2>3, <2>4 DEF RunsOver, E
  <2> QED BY <2>5, NestYes
<1> QED BY <1>4, <1>6, <1>8 DEF t

\* Up to the semicolon only < have been pushed.
LEMMA OperatorFound ==
  ASSUME NEW S, NEW s \in Seq(S), NEW i \in 1 .. Len(s), NEW j \in 1 .. Len(s), i < j,
         s[j] = Semicolon, \A k \in i .. (j - 1) : s[k] \in Operators => s[k] = "<"
  PROVE  NextVerdict(SubSeq(s, i + 1, Len(s))) = "no"
<1> DEFINE n == Len(s)
           t == SubSeq(s, i + 1, n)
           M == (j - i) - 1
           Q(v) == v.verdict = "open" /\ v.stack \in Seq({"<"}) /\ v.stack # <<>>
<1>1. n \in Nat /\ i \in Nat /\ j \in Nat /\ i \in 0 .. n /\ i < j /\ j <= n /\ M \in Nat
  BY LenProperties
<1>2. t \in Seq(S) /\ Len(t) = n - i /\ \A x \in 1 .. (n - i) : t[x] = s[i + x]
  BY <1>1, Behind
<1> HIDE DEF n, t
<1>3. PICK G : NestRun(G, t, "<", ForwardDeeper, ">", ForwardOthers) /\ G[Len(t)].verdict = NextVerdict(t)
  <2>1. t \in Seq(S)
    BY <1>2
  <2> QED BY ONLY <2>1, ForwardRun
<1>4. /\ G[0] = Started("<") /\ \A x \in 0 .. Len(t) : G[x] \in Verdicts(ForwardDeeper)
      /\ \A x \in 1 .. Len(t) : G[x] = Nest(G[x - 1], t[x], "<", ForwardDeeper, ">", ForwardOthers)
  BY <1>3 DEF NestRun
<1>5. Q(G[0])
  BY <1>4 DEF Started
<1>6. ASSUME NEW v \in Verdicts(ForwardDeeper), Q(v), NEW x
      PROVE  LET w == Nest(v, x, "<", ForwardDeeper, ">", ForwardOthers)
             IN  /\ (x \in Operators => x = "<") => Q(w)
                 /\ x = Semicolon => w.verdict = "no"
  <2> DEFINE w == Nest(v, x, "<", ForwardDeeper, ">", ForwardOthers)
             T == v.stack
  <2>1. Nested(v, x, w, "<", ForwardDeeper, ">", ForwardOthers)
    BY <1>6, NestCases, SidesOf
  <2>2. T \in Seq({"<"}) /\ T # <<>> /\ v.verdict = "open"
    BY <1>6
  <2>3. Last(T) = "<"
    <3>1. Len(T) > 0
      BY <2>2, EmptySeq, LenProperties
    <3>2. Last(T) \in {"<"}
      BY <2>2, <3>1, FrontType
    <3> QED BY <3>2
  <2>4. "<" \in ForwardDeeper
    BY DEF ForwardDeeper
  <2>5. Append(T, "<") \in Seq({"<"}) /\ Append(T, "<") # <<>>
    BY <2>2, AppendProperties, EmptySeq
  <2> HIDE DEF w, T
  <2>6. x = Semicolon => w.verdict = "no"
    BY <2>1, <2>3 DEF Nested, T
  <2>7. x \notin Operators => w = v
    BY <2>1 DEF Nested
  <2>8. x = "<" => Shows(w, Append(T, x), "open")
    BY <2>1, <2>4 DEF Nested, T
  <2>9. (x \in Operators => x = "<") => Q(w)
    BY <1>6, <2>5, <2>7, <2>8 DEF Shows
  <2> QED BY <2>6, <2>9 DEF w
<1> HIDE DEF Q
<1> DEFINE Good == {x \in 0 .. M : Q(G[x])}
<1>7. 0 \in Good
  BY <1>1, <1>5
<1>8. ASSUME NEW x \in 1 .. M, x - 1 \in Good PROVE x \in Good
  <2>1. x \in 1 .. Len(t) /\ x - 1 \in 0 .. Len(t) /\ i + x \in i .. (j - 1) /\ x \in 0 .. M /\ x \in 1 .. (n - i)
    BY <1>1, <1>2
  <2>2. t[x] \in Operators => t[x] = "<"
    BY <1>2, <2>1
  <2>3. Q(G[x - 1]) /\ G[x - 1] \in Verdicts(ForwardDeeper)
    BY <1>4, <1>8, <2>1
  <2>4. Q(G[x])
    BY <1>4, <1>6, <2>1, <2>2, <2>3
  <2> QED BY <2>1, <2>4
<1>9. \A x \in 1 .. M : x - 1 \in Good => x \in Good
  BY <1>8
<1>10. Q(G[M])
  <2> HIDE DEF Good, M
  <2>1. \A x \in 0 .. M : x \in Good
    BY <1>1, <1>7, <1>9, UpTo
  <2> QED BY <1>1, <2>1 DEF Good
<1>11. G[j - i].verdict = "no"
  <2> DEFINE y == j - i
  <2>1. y \in 1 .. Len(t) /\ y - 1 = M /\ M \in 0 .. Len(t) /\ y \in 1 .. (n - i) /\ i + y = j
    BY <1>1, <1>2
  <2>2. t[y] = Semicolon
    BY <1>2, <2>1
  <2>3. G[y] = Nest(G[y - 1], t[y], "<", ForwardDeeper, ">", ForwardOthers) /\ G[M] \in Verdicts(ForwardDeeper)
    BY <1>4, <2>1
  <2> HIDE DEF y, M
  <2>4. G[y].verdict = "no"
    BY <1>6, <1>10, <2>1, <2>2, <2>3
  <2> QED BY <2>4 DEF y
<1>12. G[Len(t)] = G[j - i]
  <2> DEFINE y == j - i
  <2>1. y \in 0 .. Len(t) /\ G[y].verdict # "open"
    BY <1>1, <1>2, <1>11
  <2>2. t \in Seq(S) /\ NestRun(G, t, "<", ForwardDeeper, ">", ForwardOthers)
    BY <1>2, <1>3
  <2> HIDE DEF y
  <2>3. Final(G, t)
    BY <2>2, NestDecided
  <2>4. G[Len(t)] = G[y]
    BY <2>1, <2>3 DEF Final
  <2> QED BY <2>4 DEF y
<1> QED BY <1>3, <1>11, <1>12 DEF t, n

\* Template arguments of every length and depth are recognised from both
\* ends, and a < that reaches a semicolon with only < in between is not.
THEOREM LintBracketsRecognised == Spec => []BracketsRecognised
<1>1. TextOK => BracketsRecognised
  <2> SUFFICES ASSUME TextOK PROVE BracketsRecognised
    OBVIOUS
  <2> DEFINE s == Text
             S == alphabet.chars \cup {"\n"}
  <2>1. s \in Seq(S) /\ DOMAIN s = 1 .. Len(s)
    BY TextType
  <2> HIDE DEF s, S
  <2>2. ASSUME NEW i \in DOMAIN s, NEW j \in DOMAIN s, Arguments(s, i, j)
        PROVE  /\ FindNextMatchingAngleBracket(SubSeq(s, i + 1, Len(s)))
               /\ FindPreviousMatchingAngleBracket(SubSeq(s, 1, j - 1))
    <3>1. NextVerdict(SubSeq(s, i + 1, Len(s))) = "yes"
      BY <2>1, <2>2, ForwardFound
    <3>2. PreviousVerdict(SubSeq(s, 1, j - 1)) = "yes"
      BY <2>1, <2>2, BackwardFound
    <3> QED BY <3>1, <3>2 DEF FindNextMatchingAngleBracket, FindPreviousMatchingAngleBracket
  <2>3. ASSUME NEW i \in DOMAIN s, NEW j \in DOMAIN s, i < j, s[j] = Semicolon,
               \A k \in i .. (j - 1) : s[k] \in Operators => s[k] = "<"
        PROVE  ~FindNextMatchingAngleBracket(SubSeq(s, i + 1, Len(s)))
    <3>1. NextVerdict(SubSeq(s, i + 1, Len(s))) = "no"
      BY <2>1, <2>3, OperatorFound
    <3> QED BY <3>1 DEF FindNextMatchingAngleBracket
  <2> QED BY <2>2, <2>3 DEF BracketsRecognised, Arguments, s
<1> QED BY <1>1, TextInvariant, PTL

-----------------------------------------------------------------------------
(***************************************************************************)
(* RemoveMultiLineComments.  First the scanner, within a line.             *)
(***************************************************************************)
LEMMA BlankDiffers == Space # "/" /\ Space # "*" /\ Space # "\n"
BY Zenon DEF Space

\* What the scanner may have seen; at the start of a line it waits for
\* nothing and is in no line comment.
Seen(chars) == chars \cup {Space, "\n"}
Scans(chars) == [in : {"code", "comment", "line"}, last : Seen(chars)]
Fresh(s) == s.in \in {"code", "comment"} /\ s.last \in {Space, "\n"}

Is(s, in, last) == s.in = in /\ s.last = last

LEMMA ScanCases ==
  ASSUME NEW chars, NEW s \in Scans(chars), NEW c \in Seen(chars)
  PROVE  /\ s.in = "comment" /\ s.last = "*" /\ c = "/" => Is(Scan(s, c), "code", Space)
         /\ s.in = "comment" /\ ~(s.last = "*" /\ c = "/") => Is(Scan(s, c), "comment", c)
         /\ s.in = "code" /\ s.last = "/" /\ c = "*" => Is(Scan(s, c), "comment", Space)
         /\ s.in = "code" /\ s.last # "/" => Is(Scan(s, c), "code", c)
         /\ c = "\n" => Fresh(Scan(s, c))
         /\ s.in = "code" /\ c = "\n" => Scan(s, c).in = "code"
         /\ Scan(s, c) \in Scans(chars)
<1> DEFINE w == Scan(s, c)
           A == [in |-> "comment", last |-> Space]
           B == [in |-> "line", last |-> Space]
           C == [in |-> "code", last |-> Space]
           E == [s EXCEPT !.last = c]
<1>1. w = CASE s.in = "code" /\ s.last = "/" /\ c = "*" -> A
            [] s.in = "code" /\ s.last = "/" /\ c = "/" -> B
            [] s.in = "comment" /\ s.last = "*" /\ c = "/" -> C
            [] s.in = "line" /\ c = "\n" -> C
            [] OTHER -> E
  BY DEF Scan
<1>2. /\ Is(A, "comment", Space) /\ Is(B, "line", Space) /\ Is(C, "code", Space) /\ Is(E, s.in, c)
      /\ A \in Scans(chars) /\ B \in Scans(chars) /\ C \in Scans(chars) /\ E \in Scans(chars)
      /\ s.in \in {"code", "comment", "line"}
  BY DEF Scans, Seen, Is
<1> HIDE DEF A, B, C, E, w
<1>3. s.in = "comment" /\ s.last = "*" /\ c = "/" => w = C
  BY <1>1
<1>4. s.in = "comment" /\ ~(s.last = "*" /\ c = "/") => w = E
  BY <1>1
<1>5. s.in = "code" /\ s.last = "/" /\ c = "*" => w = A
  BY <1>1
<1>6. s.in = "code" /\ s.last # "/" => w = E
  BY <1>1
<1>7. c = "\n" => w = C \/ (w = E /\ s.in # "line")
  BY <1>1
<1>8. s.in = "code" /\ c = "\n" => w = E
  BY <1>1
<1>9. w \in {A, B, C, E}
  BY <1>1
<1> QED BY <1>2, <1>3, <1>4, <1>5, <1>6, <1>7, <1>8, <1>9 DEF Is, Fresh, w

ScanRun(G, t, chars) ==
  /\ t \in Seq(Seen(chars)) /\ G \in [0 .. Len(t) -> Scans(chars)]
  /\ \A i \in 1 .. Len(t) : G[i] = Scan(G[i - 1], t[i])

\* A comment goes on to position m if it is not closed before.
LEMMA StaysComment ==
  ASSUME NEW G, NEW t, NEW chars, ScanRun(G, t, chars), NEW m \in 0 .. Len(t), NEW a \in 0 .. m,
         G[a].in = "comment", G[a].last # "*",
         \A x \in (a + 1) .. (m - 1) : ~(t[x] = "*" /\ t[x + 1] = "/")
  PROVE  G[m].in = "comment" /\ (m > a => G[m].last = t[m])
<1> DEFINE L == m - a
           Good == {i \in 0 .. L : G[a + i].in = "comment" /\ (i > 0 => G[a + i].last = t[a + i])}
<1>1. Len(t) \in Nat /\ a \in Nat /\ m \in Nat /\ L \in Nat /\ a + L = m /\ a + 0 = a
  BY LenProperties DEF ScanRun
<1>2. 0 \in Good
  BY <1>1
<1>3. ASSUME NEW i \in 1 .. L, i - 1 \in Good PROVE i \in Good
  <2> DEFINE k == a + (i - 1)
             q == a + i
  <2>1. /\ q \in 1 .. Len(t) /\ q - 1 = k /\ k \in 0 .. Len(t) /\ k + 1 = q /\ i \in 0 .. L
        /\ i - 1 > 0 => k \in (a + 1) .. (m - 1)
        /\ ~(i - 1 > 0) => k = a
    BY <1>1
  <2>2. /\ G[k] \in Scans(chars) /\ t[q] \in Seen(chars) /\ G[q] = Scan(G[k], t[q])
    BY <2>1, ElementOfSeq DEF ScanRun
  <2>3. G[k].in = "comment" /\ (i - 1 > 0 => G[k].last = t[k])
    BY <1>3
  <2> HIDE DEF k, q
  <2>4. ~(G[k].last = "*" /\ t[q] = "/")
    <3>1. CASE i - 1 > 0
      <4>1. ~(t[k] = "*" /\ t[k + 1] = "/")
        BY <2>1, <3>1
      <4> QED BY <2>1, <2>3, <3>1, <4>1
    <3>2. CASE ~(i - 1 > 0)
      BY <2>1, <3>2
    <3> QED BY <3>1, <3>2
  <2>5. Is(G[q], "comment", t[q])
    BY <2>2, <2>3, <2>4, ScanCases
  <2> QED BY <2>1, <2>5 DEF Is, q
<1>4. \A i \in 1 .. L : i - 1 \in Good => i \in Good
  BY <1>3
<1>5. L \in Good
  <2> HIDE DEF Good, L
  <2>1. \A i \in 0 .. L : i \in Good
    BY <1>1, <1>2, <1>4, UpTo
  <2> QED BY <1>1, <2>1
<1>6. m > a => L > 0
  BY <1>1
<1> QED BY <1>1, <1>5, <1>6

\* Blanks leave the scanner in the code.
LEMMA StaysCode ==
  ASSUME NEW G, NEW t, NEW chars, ScanRun(G, t, chars), NEW m \in 0 .. Len(t), NEW a \in 0 .. m,
         G[a].in = "code", G[a].last # "/",
         \A x \in (a + 1) .. m : t[x] = Space
  PROVE  G[m].in = "code" /\ G[m].last # "/"
<1> DEFINE L == m - a
           Good == {i \in 0 .. L : G[a + i].in = "code" /\ G[a + i].last # "/"}
<1>1. Len(t) \in Nat /\ a \in Nat /\ m \in Nat /\ L \in Nat /\ a + L = m /\ a + 0 = a
  BY LenProperties DEF ScanRun
<1>2. 0 \in Good
  BY <1>1
<1>3. ASSUME NEW i \in 1 .. L, i - 1 \in Good PROVE i \in Good
  <2> DEFINE k == a + (i - 1)
             q == a + i
  <2>1. q \in 1 .. Len(t) /\ q - 1 = k /\ k \in 0 .. Len(t) /\ q \in (a + 1) .. m /\ i \in 0 .. L
    BY <1>1
  <2>2. G[k] \in Scans(chars) /\ t[q] \in Seen(chars) /\ G[q] = Scan(G[k], t[q])
    BY <2>1, ElementOfSeq DEF ScanRun
  <2>3. G[k].in = "code" /\ G[k].last # "/" /\ t[q] = Space
    BY <1>3, <2>1
  <2> HIDE DEF k, q
  <2>4. Is(G[q], "code", t[q])
    BY <2>2, <2>3, ScanCases
  <2> QED BY <2>1, <2>3, <2>4, BlankDiffers DEF Is, q
<1>4. \A i \in 1 .. L : i - 1 \in Good => i \in Good
  BY <1>3
<1>5. L \in Good
  <2> HIDE DEF Good, L
  <2>1. \A i \in 0 .. L : i \in Good
    BY <1>1, <1>2, <1>4, UpTo
  <2> QED BY <1>1, <2>1
<1> QED BY <1>1, <1>5

\* The scanner along a line and the end of the line.
Line(line) == Append(line, "\n")
LineRun(G, s, line, chars) ==
  ScanRun(G, Line(line), chars) /\ G[0] = s /\ G[Len(line) + 1] = ScanLine(s, line)

LEMMA LineText ==
  ASSUME NEW chars, NEW line \in Seq(chars)
  PROVE  /\ Line(line) \in Seq(Seen(chars)) /\ Len(Line(line)) = Len(line) + 1 /\ Len(line) \in Nat
         /\ DOMAIN line = 1 .. Len(line)
         /\ \A k \in 1 .. Len(line) : Line(line)[k] = line[k]
         /\ Line(line)[Len(line) + 1] = "\n"
<1> DEFINE e == "\n"
           S == Seen(chars)
<1>1. line \in Seq(S) /\ e \in S
  BY DEF Seen
<1>2. Len(line) \in Nat /\ DOMAIN line = 1 .. Len(line)
  BY LenProperties
<1> HIDE DEF S, e
<1>3. /\ Append(line, e) \in Seq(S) /\ Len(Append(line, e)) = Len(line) + 1
      /\ \A k \in 1 .. Len(line) : Append(line, e)[k] = line[k]
      /\ Append(line, e)[Len(line) + 1] = e
  BY <1>1, AppendProperties
<1> QED BY <1>2, <1>3 DEF Line, e, S

LEMMA ScanTextSteps ==
  ASSUME NEW chars, NEW t \in Seq(Seen(chars)), NEW s \in Scans(chars)
  PROVE  \E G : ScanRun(G, t, chars) /\ G[0] = s /\ G[Len(t)] = ScanAll(s, t)
<1>1. \A v \in Scans(chars), x \in Seen(chars) : Scan(v, x) \in Scans(chars)
  BY ScanCases
<1>2. PICK G \in [0 .. Len(t) -> Scans(chars)] :
            /\ G[0] = s
            /\ G[Len(t)] = ScanAll(s, t)
            /\ \A i \in 1 .. Len(t) : G[i] = Scan(G[i - 1], t[i])
  BY <1>1, ScanSteps
<1>3. ScanRun(G, t, chars)
  BY <1>2 DEF ScanRun
<1> QED BY <1>2, <1>3

LEMMA LineSteps ==
  ASSUME NEW chars, NEW line \in Seq(chars), NEW s \in Scans(chars)
  PROVE  \E G : LineRun(G, s, line, chars)
<1> DEFINE t == Line(line)
<1>1. t \in Seq(Seen(chars)) /\ Len(t) = Len(line) + 1
  BY LineText
<1>2. t \in Seq(Seen(chars))
  BY <1>1
<1>3. ScanLine(s, line) = ScanAll(s, t)
  BY DEF ScanLine, ScanAll, Line
<1> HIDE DEF t
<1>4. PICK G : ScanRun(G, t, chars) /\ G[0] = s /\ G[Len(t)] = ScanAll(s, t)
  BY <1>2, ScanTextSteps
<1>5. LineRun(G, s, line, chars)
  BY <1>1, <1>3, <1>4 DEF LineRun, t
<1> QED BY <1>5

\* The last step of the scanner is on the end of the line.
LEMMA LineLast ==
  ASSUME NEW chars, NEW line \in Seq(chars), NEW s \in Scans(chars), NEW G, LineRun(G, s, line, chars)
  PROVE  /\ G[Len(line)] \in Scans(chars) /\ ScanLine(s, line) = Scan(G[Len(line)], "\n")
         /\ \A k \in 1 .. Len(line) : G[k] = Scan(G[k - 1], line[k]) /\ G[k - 1] \in Scans(chars)
                                      /\ line[k] \in Seen(chars)
<1> DEFINE t == Line(line)
           L == Len(line)
<1>1. /\ t \in Seq(Seen(chars)) /\ Len(t) = L + 1 /\ L \in Nat /\ t[L + 1] = "\n"
      /\ \A k \in 1 .. L : t[k] = line[k]
  BY LineText
<1>2. /\ G \in [0 .. Len(t) -> Scans(chars)] /\ G[L + 1] = ScanLine(s, line)
      /\ \A i \in 1 .. Len(t) : G[i] = Scan(G[i - 1], t[i])
  BY DEF LineRun, ScanRun
<1> HIDE DEF t, L
<1>3. L + 1 \in 1 .. Len(t) /\ (L + 1) - 1 = L /\ L \in 0 .. Len(t)
  BY <1>1
<1>4. G[L] \in Scans(chars) /\ ScanLine(s, line) = Scan(G[L], "\n")
  BY <1>1, <1>2, <1>3
<1>5. ASSUME NEW k \in 1 .. L
      PROVE  G[k] = Scan(G[k - 1], line[k]) /\ G[k - 1] \in Scans(chars) /\ line[k] \in Seen(chars)
  <2>1. k \in 1 .. Len(t) /\ k - 1 \in 0 .. Len(t)
    BY <1>1
  <2>2. t[k] \in Seen(chars)
    BY <1>1, <2>1, ElementOfSeq
  <2> QED BY <1>1, <1>2, <2>1, <2>2
<1> QED BY <1>4, <1>5 DEF L

LEMMA LineFresh ==
  ASSUME NEW chars, NEW line \in Seq(chars), NEW s \in Scans(chars)
  PROVE  ScanLine(s, line) \in Scans(chars) /\ Fresh(ScanLine(s, line))
<1>1. PICK G : LineRun(G, s, line, chars)
  BY LineSteps
<1> DEFINE v == G[Len(line)]
<1>2. v \in Scans(chars) /\ ScanLine(s, line) = Scan(v, "\n") /\ "\n" \in Seen(chars)
  BY <1>1, LineLast DEF Seen
<1> HIDE DEF v
<1> QED BY <1>2, ScanCases

\* A line that starts a comment and does not close it leaves it open.
LEMMA LineOpens ==
  ASSUME NEW chars, NEW line \in Seq(chars), NEW s \in Scans(chars), Fresh(s), s.in = "code",
         StartsComment(line)
  PROVE  ScanLine(s, line).in = "comment"
<1> DEFINE t == Line(line)
           L == Len(line)
<1>1. PICK G : LineRun(G, s, line, chars)
  BY LineSteps
<1>2. PICK i \in DOMAIN line : /\ Blank(line, 1, i - 1) /\ CommentStart(line, i)
                               /\ \A k \in (i + 2)..Len(line) : ~CommentEnd(line, k)
  BY DEF StartsComment
<1>3. /\ t \in Seq(Seen(chars)) /\ Len(t) = L + 1 /\ L \in Nat /\ t[L + 1] = "\n" /\ DOMAIN line = 1 .. L
      /\ \A k \in 1 .. L : t[k] = line[k]
  BY LineText
<1>4. i \in 1 .. L /\ i + 1 \in 1 .. L /\ line[i] = "/" /\ line[i + 1] = "*"
  BY <1>2, <1>3 DEF CommentStart
<1>5. ScanRun(G, t, chars) /\ G[0] = s /\ G[L + 1] = ScanLine(s, line)
  BY <1>1 DEF LineRun
<1> HIDE DEF t, L
<1>6. G[i - 1].in = "code" /\ G[i - 1].last # "/"
  <2>1. i - 1 \in 0 .. Len(t) /\ 0 \in 0 .. (i - 1) /\ \A x \in 1 .. (i - 1) : x \in 1 .. L /\ 0 + 1 = 1
    BY <1>3, <1>4
  <2>2. \A x \in (0 + 1) .. (i - 1) : t[x] = Space
    BY <1>2, <1>3, <2>1 DEF Blank
  <2>3. G[0].in = "code" /\ G[0].last # "/"
    BY <1>5, BlankDiffers DEF Fresh
  <2> QED BY <1>5, <2>1, <2>2, <2>3, StaysCode
<1>7. Is(G[i], "code", "/") /\ G[i] \in Scans(chars)
  <2>1. G[i] = Scan(G[i - 1], line[i]) /\ G[i - 1] \in Scans(chars) /\ line[i] \in Seen(chars)
    BY <1>1, <1>4, LineLast DEF L
  <2> QED BY <1>4, <1>6, <2>1, ScanCases
<1>8. Is(G[i + 1], "comment", Space)
  <2>1. G[i + 1] = Scan(G[(i + 1) - 1], line[i + 1]) /\ line[i + 1] \in Seen(chars) /\ (i + 1) - 1 = i
    BY <1>1, <1>4, LineLast DEF L
  <2> QED BY <1>4, <1>7, <2>1, ScanCases DEF Is
<1>9. G[L + 1].in = "comment"
  <2> DEFINE a == i + 1
             m == L + 1
  <2>1. m \in 0 .. Len(t) /\ a \in 0 .. m /\ a \in Int
    BY <1>3, <1>4
  <2>2. ASSUME NEW x \in (a + 1) .. (m - 1) PROVE ~(t[x] = "*" /\ t[x + 1] = "/")
    <3>1. x \in 1 .. L /\ x \in (i + 2) .. L /\ (x + 1 \in 1 .. L \/ x + 1 = L + 1)
      BY <1>3, <1>4
    <3>2. ~CommentEnd(line, x)
      BY <1>2, <3>1 DEF L
    <3> QED BY <1>3, <3>1, <3>2 DEF CommentEnd
  <2>3. G[a].in = "comment" /\ G[a].last # "*"
    BY <1>8, BlankDiffers DEF Is
  <2> HIDE DEF a, m
  <2>4. G[m].in = "comment"
    BY <1>5, <2>1, <2>2, <2>3, StaysComment
  <2> QED BY <2>4 DEF m
<1> QED BY <1>5, <1>9

\* A comment goes on over a line without an end,
LEMMA LineStays ==
  ASSUME NEW chars, NEW line \in Seq(chars), NEW s \in Scans(chars), Fresh(s), s.in = "comment",
         \A k \in DOMAIN line : ~CommentEnd(line, k)
  PROVE  ScanLine(s, line).in = "comment"
<1> DEFINE t == Line(line)
           L == Len(line)
           m == L + 1
           a == 0
<1>1. PICK G : LineRun(G, s, line, chars)
  BY LineSteps
<1>3. /\ t \in Seq(Seen(chars)) /\ Len(t) = L + 1 /\ L \in Nat /\ t[L + 1] = "\n" /\ DOMAIN line = 1 .. L
      /\ \A k \in 1 .. L : t[k] = line[k]
  BY LineText
<1>5. ScanRun(G, t, chars) /\ G[0] = s /\ G[L + 1] = ScanLine(s, line)
  BY <1>1 DEF LineRun
<1> HIDE DEF t, L
<1>6. m \in 0 .. Len(t) /\ a \in 0 .. m
  BY <1>3
<1>7. ASSUME NEW x \in (a + 1) .. (m - 1) PROVE ~(t[x] = "*" /\ t[x + 1] = "/")
  <2>1. x \in 1 .. L /\ (x + 1 \in 1 .. L \/ x + 1 = L + 1)
    BY <1>3
  <2>2. ~CommentEnd(line, x)
    BY <1>3, <2>1
  <2> QED BY <1>3, <2>1, <2>2 DEF CommentEnd
<1>8. G[a].in = "comment" /\ G[a].last # "*"
  BY <1>5, BlankDiffers DEF Fresh
<1> HIDE DEF m, a
<1>9. G[m].in = "comment"
  BY <1>5, <1>6, <1>7, <1>8, StaysComment
<1> QED BY <1>5, <1>9 DEF m

\* and is closed by one with an end that only blanks follow.
LEMMA LineCloses ==
  ASSUME NEW chars, NEW line \in Seq(chars), NEW s \in Scans(chars), Fresh(s), s.in = "comment",
         NEW e \in DOMAIN line, CommentEnd(line, e),
         \A k \in DOMAIN line : CommentEnd(line, k) => Blank(line, k + 2, Len(line))
  PROVE  ScanLine(s, line).in = "code" /\ EndsComment(line)
<1> DEFINE t == Line(line)
           L == Len(line)
           T == {k \in 1 .. L : CommentEnd(line, k)}
           i == Min(T)
           a == 0
<1>1. PICK G : LineRun(G, s, line, chars)
  BY LineSteps
<1>2. /\ t \in Seq(Seen(chars)) /\ Len(t) = L + 1 /\ L \in Nat /\ t[L + 1] = "\n" /\ DOMAIN line = 1 .. L
      /\ \A k \in 1 .. L : t[k] = line[k]
  BY LineText
<1>3. ScanRun(G, t, chars) /\ G[0] = s /\ G[L + 1] = ScanLine(s, line)
  BY <1>1 DEF LineRun
<1> HIDE DEF t, L
<1>4. T \subseteq 1 .. L /\ T # {}
  BY <1>2
<1>5. i \in T /\ \A y \in T : i <= y
  BY <1>2, <1>4, LeastPosition
<1> HIDE DEF i
<1>6. /\ i \in 1 .. L /\ CommentEnd(line, i) /\ i + 1 \in 1 .. L /\ line[i] = "*" /\ line[i + 1] = "/"
      /\ Blank(line, i + 2, Len(line))
  BY <1>2, <1>5 DEF CommentEnd
<1>7. EndsComment(line)
  BY <1>2, <1>6 DEF EndsComment
<1>8. G[i].in = "comment" /\ (i > a => G[i].last = t[i])
  <2>1. i \in 0 .. Len(t) /\ a \in 0 .. i
    BY <1>2, <1>6
  <2>2. ASSUME NEW x \in (a + 1) .. (i - 1) PROVE ~(t[x] = "*" /\ t[x + 1] = "/")
    <3>1. x \in 1 .. L /\ x + 1 \in 1 .. L /\ ~(i <= x)
      BY <1>2, <1>6
    <3>2. ~CommentEnd(line, x)
      BY <1>5, <3>1
    <3> QED BY <1>2, <3>1, <3>2 DEF CommentEnd
  <2>3. G[a].in = "comment" /\ G[a].last # "*"
    BY <1>3, BlankDiffers DEF Fresh
  <2> HIDE DEF a
  <2> QED BY <1>3, <2>1, <2>2, <2>3, StaysComment
<1>9. G[i].last = "*"
  BY <1>2, <1>6, <1>8
<1>10. Is(G[i + 1], "code", Space)
  <2>1. /\ G[i + 1] = Scan(G[(i + 1) - 1], line[i + 1]) /\ line[i + 1] \in Seen(chars) /\ (i + 1) - 1 = i
        /\ G[(i + 1) - 1] \in Scans(chars)
    BY <1>1, <1>6, LineLast DEF L
  <2> QED BY <1>6, <1>8, <1>9, <2>1, ScanCases
<1>11. G[L].in = "code"
  <2> DEFINE b == i + 1
  <2>1. L \in 0 .. Len(t) /\ b \in 0 .. L /\ b \in Int
    BY <1>2, <1>6
  <2>2. ASSUME NEW x \in (b + 1) .. L PROVE t[x] = Space
    <3>1. x \in (i + 2) .. L /\ x \in 1 .. L
      BY <1>2, <1>6
    <3> QED BY <1>2, <1>6, <3>1 DEF Blank, L
  <2>3. G[b].in = "code" /\ G[b].last # "/"
    BY <1>10, BlankDiffers DEF Is
  <2> HIDE DEF b
  <2> QED BY <1>3, <2>1, <2>2, <2>3, StaysCode
<1>12. ScanLine(s, line).in = "code"
  <2> DEFINE v == G[L]
  <2>1. v \in Scans(chars) /\ ScanLine(s, line) = Scan(v, "\n") /\ "\n" \in Seen(chars) /\ v.in = "code"
    BY <1>1, <1>11, LineLast DEF Seen, L
  <2> HIDE DEF v
  <2> QED BY <2>1, ScanCases
<1> QED BY <1>7, <1>12

\* The scanner along the lines.
StartOfFile == [in |-> "code", last |-> Space]
LinesRun(H, t, chars) ==
  /\ t \in Seq(Seq(chars)) /\ H \in [0 .. Len(t) -> Scans(chars)] /\ H[0] = StartOfFile
  /\ \A i \in 1 .. Len(t) : H[i] = ScanLine(H[i - 1], t[i])

LEMMA LinesSteps ==
  ASSUME NEW chars, NEW t \in Seq(Seq(chars))
  PROVE  \E H : LinesRun(H, t, chars) /\ H[Len(t)] = ScanLines(StartOfFile, t)
<1>1. \A v \in Scans(chars), x \in Seq(chars) : ScanLine(v, x) \in Scans(chars)
  BY LineFresh
<1>2. StartOfFile \in Scans(chars)
  BY DEF StartOfFile, Scans, Seen
<1>3. PICK H \in [0 .. Len(t) -> Scans(chars)] :
            /\ H[0] = StartOfFile
            /\ H[Len(t)] = ScanLines(StartOfFile, t)
            /\ \A i \in 1 .. Len(t) : H[i] = ScanLine(H[i - 1], t[i])
  BY <1>1, <1>2, ScanLineSteps
<1>4. LinesRun(H, t, chars)
  BY <1>3 DEF LinesRun
<1> QED BY <1>3, <1>4

LEMMA LinesPrefix ==
  ASSUME NEW chars, NEW t, NEW H, LinesRun(H, t, chars), NEW k \in 0 .. Len(t)
  PROVE  ScanLines(StartOfFile, SubSeq(t, 1, k)) = H[k]
<1> DEFINE P == SubSeq(t, 1, k)
<1>1. t \in Seq(Seq(chars)) /\ Len(t) \in Nat /\ k \in Nat /\ k <= Len(t) /\ k \in Int
  BY LenProperties DEF LinesRun
<1>2. P \in Seq(Seq(chars)) /\ Len(P) = k /\ \A x \in 1 .. k : P[x] = t[x]
  <2>1. \A x \in 1 .. k : t[x] \in Seq(chars)
    BY <1>1, ElementOfSeq
  <2> DEFINE S == Seq(chars)
  <2> HIDE DEF S
  <2>2. P \in Seq(S) /\ Len(P) = (IF 1 <= k THEN k - 1 + 1 ELSE 0) /\ \A x \in 1 .. k - 1 + 1 : P[x] = t[1 + x - 1]
    BY <1>1, <2>1, SubSeqProperties DEF S
  <2> HIDE DEF P
  <2>3. Len(P) = k /\ k - 1 + 1 = k /\ \A x \in 1 .. k : 1 + x - 1 = x
    BY <1>1, <2>2
  <2> QED BY <2>2, <2>3 DEF S
<1> HIDE DEF P
<1>3. PICK G : LinesRun(G, P, chars) /\ G[Len(P)] = ScanLines(StartOfFile, P)
  <2>1. P \in Seq(Seq(chars))
    BY <1>2
  <2> QED BY ONLY <2>1, LinesSteps
<1> DEFINE Good == {i \in 0 .. k : G[i] = H[i]}
<1>4. 0 \in Good
  BY <1>1, <1>3 DEF LinesRun
<1>5. ASSUME NEW i \in 1 .. k, i - 1 \in Good PROVE i \in Good
  <2>1. i \in 1 .. Len(P) /\ i \in 1 .. Len(t) /\ i \in 0 .. k
    BY <1>1, <1>2
  <2>2. G[i] = ScanLine(G[i - 1], P[i]) /\ H[i] = ScanLine(H[i - 1], t[i])
    BY <1>3, <2>1 DEF LinesRun
  <2> QED BY <1>2, <1>5, <2>1, <2>2
<1>6. \A i \in 1 .. k : i - 1 \in Good => i \in Good
  BY <1>5
<1>7. k \in Good
  <2> HIDE DEF Good
  <2>1. \A i \in 0 .. k : i \in Good
    BY <1>1, <1>4, <1>6, UpTo
  <2> QED BY <1>1, <2>1
<1> QED BY <1>2, <1>3, <1>7 DEF P

LEMMA LinesFresh ==
  ASSUME NEW chars, NEW t, NEW H, LinesRun(H, t, chars), NEW k \in 0 .. Len(t)
  PROVE  H[k] \in Scans(chars) /\ Fresh(H[k])
<1>1. t \in Seq(Seq(chars)) /\ Len(t) \in Nat /\ H[k] \in Scans(chars)
  BY LenProperties DEF LinesRun
<1>2. CASE k = 0
  <2>1. Fresh(StartOfFile)
    BY DEF Fresh, StartOfFile
  <2> QED BY <1>1, <1>2, <2>1 DEF LinesRun
<1>3. CASE k # 0
  <2>1. k \in 1 .. Len(t) /\ k - 1 \in 0 .. Len(t)
    BY <1>1, <1>3
  <2>2. t[k] \in Seq(chars) /\ H[k - 1] \in Scans(chars) /\ H[k] = ScanLine(H[k - 1], t[k])
    BY <1>1, <2>1, ElementOfSeq DEF LinesRun
  <2> QED BY <1>1, <2>2, LineFresh
<1> QED BY <1>2, <1>3

\* In a file whose comments are clearly structured a line outside of comments
\* opens one if it starts like one, and a line in a comment closes it if it
\* ends like one.
Structure(open) ==
  /\ 1 \notin open
  /\ \A n \in 1 .. Len(lines) :
        /\ n \notin open => /\ StartsComment(lines[n]) <=> n + 1 \in open
                            /\ n + 1 \in open => ~EndsComment(lines[n])
        /\ n \in open => (n + 1 \in open <=> ~EndsComment(lines[n]))

LEMMA OpenStructure ==
  ASSUME TextOK, ClearlyStructured(OpenLines)
  PROVE  Structure(OpenLines) /\ OpenLines \subseteq 1 .. (Len(lines) + 1)
<1> DEFINE open == OpenLines
           N == Len(lines)
           chars == alphabet.chars
<1>1. N \in Nat /\ DOMAIN lines = 1 .. N
  BY LinesType
<1>2. PICK H : LinesRun(H, lines, chars)
  <2>1. lines \in Seq(Seq(chars))
    BY DEF TextOK
  <2> HIDE DEF chars
  <2> QED BY <2>1, LinesSteps
<1>3. ASSUME NEW n \in 1 .. (N + 1) PROVE n \in open <=> H[n - 1].in = "comment"
  <2>1. n - 1 \in 0 .. N
    BY <1>1
  <2>2. ScanLines(StartOfFile, SubSeq(lines, 1, n - 1)) = H[n - 1]
    BY <1>2, <2>1, LinesPrefix
  <2>3. n \in open <=> ScanLines(StartOfFile, SubSeq(lines, 1, n - 1)).in = "comment"
    BY DEF OpenLines, ScanLines, StartOfFile
  <2> QED BY <2>2, <2>3
<1>4. open \subseteq 1 .. (N + 1)
  BY DEF OpenLines
<1>5. 1 \notin open
  <2>1. 1 \in 1 .. (N + 1) /\ H[1 - 1] = StartOfFile
    BY <1>1, <1>2 DEF LinesRun
  <2> QED BY <1>3, <2>1 DEF StartOfFile
<1>6. ASSUME NEW n \in 1 .. N
      PROVE  /\ n \notin open => /\ StartsComment(lines[n]) <=> n + 1 \in open
                                 /\ n + 1 \in open => ~EndsComment(lines[n])
             /\ n \in open => (n + 1 \in open <=> ~EndsComment(lines[n]))
  <2> DEFINE s == H[n - 1]
             line == lines[n]
             w == ScanLine(s, line)
  <2>1. n - 1 \in 0 .. Len(lines) /\ n \in 1 .. (N + 1) /\ n + 1 \in 1 .. (N + 1) /\ (n + 1) - 1 = n /\ n \in 0 .. Len(lines)
    BY <1>1
  <2>2. s \in Scans(chars) /\ Fresh(s) /\ line \in Seq(chars) /\ H[n] = w
    BY <1>2, <2>1, LinesFresh, LinesType DEF LinesRun
  <2>3. (n \in open <=> s.in = "comment") /\ (n + 1 \in open <=> w.in = "comment")
    BY <1>3, <2>1, <2>2
  <2>4. s.in = "code" \/ s.in = "comment"
    BY <2>2 DEF Fresh
  <2>5. /\ n \notin open /\ n + 1 \in open => StartsComment(line) /\ ~EndsComment(line)
        /\ n \in open => \A i \in DOMAIN line : CommentEnd(line, i) => Blank(line, i + 2, Len(line))
    BY <1>1 DEF ClearlyStructured
  <2> HIDE DEF s, line, w, chars, open
  <2>6. n \notin open /\ StartsComment(line) => n + 1 \in open
    BY <2>2, <2>3, <2>4, LineOpens DEF w
  <2>7. ASSUME n \in open, NEW e \in DOMAIN line, CommentEnd(line, e)
        PROVE  n + 1 \notin open /\ EndsComment(line)
    <3>1. s.in = "comment" /\ \A i \in DOMAIN line : CommentEnd(line, i) => Blank(line, i + 2, Len(line))
      BY <2>3, <2>5, <2>7
    <3>2. w.in = "code" /\ EndsComment(line)
      BY <2>2, <2>7, <3>1, LineCloses DEF w
    <3> QED BY <2>3, <3>2
  <2>8. ASSUME n \in open, \A k \in DOMAIN line : ~CommentEnd(line, k)
        PROVE  n + 1 \in open /\ ~EndsComment(line)
    <3>1. w.in = "comment"
      BY <2>2, <2>3, <2>8, LineStays DEF w
    <3> QED BY <2>3, <2>8, <3>1 DEF EndsComment
  <2> QED BY <2>5, <2>6, <2>7, <2>8 DEF line
<1> QED BY <1>4, <1>5, <1>6 DEF Structure

-----------------------------------------------------------------------------
(***************************************************************************)
(* The loop of RemoveMultiLineComments.                                    *)
(***************************************************************************)
LEMMA FromTo ==
  ASSUME NEW a \in Int, NEW b \in Int, a <= b, NEW T, a \in T, \A n \in a .. (b - 1) : n \in T => n + 1 \in T
  PROVE  \A n \in a .. b : n \in T
<1> DEFINE L == b - a
           Good == {i \in 0 .. L : a + i \in T}
<1>1. L \in Nat /\ a + 0 = a
  OBVIOUS
<1>2. 0 \in Good
  BY <1>1
<1>3. ASSUME NEW i \in 1 .. L, i - 1 \in Good PROVE i \in Good
  <2>1. a + (i - 1) \in a .. (b - 1) /\ (a + (i - 1)) + 1 = a + i /\ i \in 0 .. L
    OBVIOUS
  <2>2. a + (i - 1) \in T
    BY <1>3
  <2>3. (a + (i - 1)) + 1 \in T
    BY <2>1, <2>2
  <2> QED BY <2>1, <2>3
<1>4. \A i \in 1 .. L : i - 1 \in Good => i \in Good
  BY <1>3
<1>5. \A i \in 0 .. L : i \in Good
  <2> HIDE DEF Good, L
  <2> QED BY <1>1, <1>2, <1>4, UpTo
<1> SUFFICES ASSUME NEW n \in a .. b PROVE n \in T
  OBVIOUS
<1>6. n - a \in 0 .. L /\ a + (n - a) = n
  OBVIOUS
<1>7. a + (n - a) \in T
  BY <1>5, <1>6
<1> QED BY <1>6, <1>7

LEMMA FindStart ==
  ASSUME TextOK, NEW l \in 1 .. (Len(lines) + 1)
  PROVE  LET b == FindNextMultiLineCommentStart(l)
         IN  /\ b \in l .. (Len(lines) + 1)
             /\ \A n \in l .. (b - 1) : ~StartsComment(lines[n])
             /\ b <= Len(lines) => StartsComment(lines[b])
<1> DEFINE N == Len(lines)
           T == {n \in l .. N : StartsComment(lines[n])}
           b == FindNextMultiLineCommentStart(l)
<1>1. N \in Nat /\ l \in Nat /\ l >= 1
  BY LinesType
<1>2. b = IF T = {} THEN N + 1 ELSE Min(T)
  BY DEF FindNextMultiLineCommentStart, FirstOf
<1> HIDE DEF N, b
<1>3. CASE T = {}
  <2>1. b = N + 1 /\ \A n \in l .. N : ~StartsComment(lines[n])
    BY <1>2, <1>3
  <2>2. b \in l .. (N + 1) /\ \A n \in l .. (b - 1) : n \in l .. N
    BY <1>1, <2>1 DEF N
  <2>3. ~(b <= N)
    BY <1>1, <2>1
  <2> QED BY <2>1, <2>2, <2>3 DEF N, b
<1>4. CASE T # {}
  <2>1. T \subseteq 1 .. N
    BY <1>1
  <2>2. b \in T /\ \A y \in T : b <= y
    BY <1>1, <1>2, <1>4, <2>1, LeastPosition
  <2>3. b \in l .. N /\ StartsComment(lines[b])
    BY <2>2
  <2>4. ASSUME NEW n \in l .. (b - 1) PROVE ~StartsComment(lines[n])
    <3>1. n \in l .. N /\ ~(b <= n)
      BY <1>1, <2>3
    <3> QED BY <2>2, <3>1
  <2>5. b \in l .. (N + 1)
    BY <1>1, <2>3
  <2> QED BY <2>3, <2>4, <2>5 DEF N, b
<1> QED BY <1>3, <1>4

LEMMA FindEnd ==
  ASSUME TextOK, NEW l \in 1 .. (Len(lines) + 1)
  PROVE  LET e == FindNextMultiLineCommentEnd(l)
         IN  /\ e \in l .. (Len(lines) + 1)
             /\ \A n \in l .. (e - 1) : ~EndsComment(lines[n])
             /\ e <= Len(lines) => EndsComment(lines[e])
<1> DEFINE N == Len(lines)
           T == {n \in l .. N : EndsComment(lines[n])}
           e == FindNextMultiLineCommentEnd(l)
<1>1. N \in Nat /\ l \in Nat /\ l >= 1
  BY LinesType
<1>2. e = IF T = {} THEN N + 1 ELSE Min(T)
  BY DEF FindNextMultiLineCommentEnd, FirstOf
<1> HIDE DEF N, e
<1>3. CASE T = {}
  <2>1. e = N + 1 /\ \A n \in l .. N : ~EndsComment(lines[n])
    BY <1>2, <1>3
  <2>2. e \in l .. (N + 1) /\ \A n \in l .. (e - 1) : n \in l .. N
    BY <1>1, <2>1 DEF N
  <2>3. ~(e <= N)
    BY <1>1, <2>1
  <2> QED BY <2>1, <2>2, <2>3 DEF N, e
<1>4. CASE T # {}
  <2>1. T \subseteq 1 .. N
    BY <1>1
  <2>2. e \in T /\ \A y \in T : e <= y
    BY <1>1, <1>2, <1>4, <2>1, LeastPosition
  <2>3. e \in l .. N /\ EndsComment(lines[e])
    BY <2>2
  <2>4. ASSUME NEW n \in l .. (e - 1) PROVE ~EndsComment(lines[n])
    <3>1. n \in l .. N /\ ~(e <= n)
      BY <1>1, <2>3
    <3> QED BY <2>2, <3>1
  <2>5. e \in l .. (N + 1)
    BY <1>1, <2>3
  <2> QED BY <2>3, <2>4, <2>5 DEF N, e
<1> QED BY <1>3, <1>4

\* From a line outside of comments to the next one that opens one,
LEMMA CodeUntil ==
  ASSUME TextOK, NEW open, Structure(open), NEW l \in 1 .. (Len(lines) + 1), l \notin open,
         NEW b \in l .. (Len(lines) + 1), \A n \in l .. (b - 1) : ~StartsComment(lines[n]),
         b <= Len(lines) => StartsComment(lines[b])
  PROVE  (\A n \in l .. b : n \notin open) /\ (b <= Len(lines) => b + 1 \in open /\ ~EndsComment(lines[b]))
<1> DEFINE N == Len(lines)
           T == {n \in l .. b : n \notin open}
<1>1. N \in Nat /\ l \in Int /\ b \in Int /\ l <= b /\ l \in 1 .. (N + 1) /\ b \in l .. (N + 1)
  BY LinesType
<1> HIDE DEF N
<1>2. l \in T
  BY <1>1
<1>3. ASSUME NEW n \in l .. (b - 1), n \in T PROVE n + 1 \in T
  <2>1. n \in 1 .. N /\ n + 1 \in l .. b /\ n \notin open
    BY <1>1, <1>3
  <2>2. ~StartsComment(lines[n])
    OBVIOUS
  <2>3. n + 1 \notin open
    BY <2>1, <2>2 DEF Structure, N
  <2> QED BY <2>1, <2>3
<1>4. \A n \in l .. (b - 1) : n \in T => n + 1 \in T
  BY <1>3
<1> HIDE DEF T
<1>5. \A n \in l .. b : n \in T
  BY <1>1, <1>2, <1>4, FromTo
<1>6. \A n \in l .. b : n \notin open
  BY <1>5 DEF T
<1>7. ASSUME b <= N PROVE b + 1 \in open /\ ~EndsComment(lines[b])
  <2>1. b \in 1 .. N /\ b \in l .. b
    BY <1>1, <1>7
  <2>2. b \notin open /\ StartsComment(lines[b])
    BY <1>6, <1>7, <2>1 DEF N
  <2> QED BY <2>1, <2>2 DEF Structure, N
<1> QED BY <1>6, <1>7 DEF N

\* and from there to the one that closes it.
LEMMA CommentUntil ==
  ASSUME TextOK, NEW open, Structure(open), NEW b \in 1 .. Len(lines), b + 1 \in open,
         ~EndsComment(lines[b]),
         NEW e \in b .. (Len(lines) + 1), \A n \in b .. (e - 1) : ~EndsComment(lines[n]),
         e <= Len(lines) => EndsComment(lines[e])
  PROVE  /\ e > b /\ (\A n \in (b + 1) .. e : n \in open)
         /\ e <= Len(lines) => e + 1 \notin open
<1> DEFINE N == Len(lines)
           a == b + 1
           T == {n \in a .. e : n \in open}
<1>1. N \in Nat /\ b \in 1 .. N /\ e \in b .. (N + 1) /\ e \in Int /\ a \in Int
  BY LinesType
<1>2. e > b /\ a <= e
  <2>1. CASE e = b
    BY <1>1, <2>1
  <2>2. CASE e # b
    BY <1>1, <2>2
  <2> QED BY <2>1, <2>2
<1> HIDE DEF N
<1>3. a \in T
  BY <1>1, <1>2
<1>4. ASSUME NEW n \in a .. (e - 1), n \in T PROVE n + 1 \in T
  <2>1. n \in 1 .. N /\ n + 1 \in a .. e /\ n \in open /\ n \in b .. (e - 1)
    BY <1>1, <1>4
  <2>2. ~EndsComment(lines[n])
    BY <2>1
  <2>3. n + 1 \in open
    BY <2>1, <2>2 DEF Structure, N
  <2> QED BY <2>1, <2>3
<1>5. \A n \in a .. (e - 1) : n \in T => n + 1 \in T
  BY <1>4
<1> HIDE DEF T
<1>6. \A n \in a .. e : n \in T
  <2> HIDE DEF a
  <2> QED BY <1>1, <1>2, <1>3, <1>5, FromTo
<1>7. \A n \in a .. e : n \in open
  BY <1>6 DEF T
<1>8. ASSUME e <= N PROVE e + 1 \notin open
  <2>1. e \in 1 .. N /\ e \in a .. e
    BY <1>1, <1>2, <1>8
  <2>2. e \in open /\ EndsComment(lines[e])
    BY <1>7, <1>8, <2>1 DEF N
  <2> QED BY <2>1, <2>2 DEF Structure, N
<1> QED BY <1>2, <1>7, <1>8 DEF N

Commented(open) == {n \in DOMAIN lines : n \in open \/ n + 1 \in open}
Endless(open) ==
  {n \in Commented(open) : n \notin open /\ (n + 1)..(Len(lines) + 1) \subseteq open}
CommentedBelow(open, l) == {n \in Commented(open) : n < l}

\* What the loop is to return; it goes on from a line outside of comments
\* with the lines of all comments above replaced, or it has returned.
Returns(v, open) ==
  IF Endless(open) = {} THEN v.removed = Commented(open) /\ v.unclosed = 0
  ELSE /\ v.removed = CommentedBelow(open, Min(Endless(open)))
       /\ v.unclosed = Min(Endless(open)) + 1
GoesOn(v, open) ==
  /\ v.lineix \in 1 .. (Len(lines) + 1) /\ v.lineix \notin open
  /\ v.removed = CommentedBelow(open, v.lineix) /\ v.unclosed = 0
Returned(v, open) == v.lineix = Len(lines) + 1 /\ Returns(v, open)

Removals == [lineix : 1 .. (Len(lines) + 1), removed : SUBSET (1 .. Len(lines)), unclosed : Nat]

Now(v, lineix, removed, unclosed) ==
  v.lineix = lineix /\ v.removed = removed /\ v.unclosed = unclosed

RemoveRound(v, w, b, e) ==
  LET N == Len(lines)
  IN  \/ b > N /\ Now(w, N + 1, v.removed, v.unclosed)
      \/ b <= N /\ e > N /\ Now(w, N + 1, v.removed, b + 1)
      \/ b <= N /\ e <= N /\ Now(w, e + 1, v.removed \cup (b .. e), v.unclosed)

LEMMA RemoveCases ==
  ASSUME TextOK, NEW v \in Removals
  PROVE  LET b == FindNextMultiLineCommentStart(v.lineix)
             e == FindNextMultiLineCommentEnd(b)
         IN  /\ RemoveRound(v, RemoveNextComment(v), b, e)
             /\ RemoveNextComment(v) \in Removals
             /\ RemoveNextComment(v).lineix > v.lineix \/ RemoveNextComment(v).lineix = Len(lines) + 1
<1> DEFINE N == Len(lines)
           b == FindNextMultiLineCommentStart(v.lineix)
           e == FindNextMultiLineCommentEnd(b)
           w == RemoveNextComment(v)
           X == [v EXCEPT !.lineix = N + 1]
           Y == [v EXCEPT !.lineix = N + 1, !.unclosed = b + 1]
           Z == [v EXCEPT !.lineix = e + 1, !.removed = @ \cup b..e]
<1>1. N \in Nat /\ v.lineix \in 1 .. (N + 1) /\ v.removed \in SUBSET (1 .. N) /\ v.unclosed \in Nat
  BY LinesType DEF Removals
<1>2. b \in v.lineix .. (N + 1)
  BY <1>1, FindStart
<1>3. b \in 1 .. (N + 1)
  BY <1>1, <1>2
<1>4. e \in b .. (N + 1)
  BY <1>3, FindEnd
<1>5. w = IF b > N THEN X ELSE IF e > N THEN Y ELSE Z
  BY DEF RemoveNextComment
<1>6. /\ Now(X, N + 1, v.removed, v.unclosed) /\ Now(Y, N + 1, v.removed, b + 1)
      /\ Now(Z, e + 1, v.removed \cup (b .. e), v.unclosed)
  BY DEF Removals, Now
<1>7. X \in Removals /\ Y \in Removals
  <2>1. N + 1 \in 1 .. (N + 1) /\ b + 1 \in Nat
    BY <1>1, <1>3
  <2> HIDE DEF b
  <2> QED BY <2>1 DEF Removals
<1>8. e <= N => Z \in Removals
  <2> SUFFICES ASSUME e <= N PROVE Z \in Removals
    OBVIOUS
  <2>1. e + 1 \in 1 .. (N + 1) /\ b .. e \subseteq 1 .. N
    BY <1>1, <1>3, <1>4
  <2>2. v.removed \cup (b .. e) \in SUBSET (1 .. N)
    BY <1>1, <2>1
  <2> HIDE DEF b, e
  <2> QED BY <2>1, <2>2 DEF Removals
<1> HIDE DEF b, e, w, X, Y, Z, N
<1>9. (b > N \/ b <= N) /\ (e > N \/ e <= N) /\ (b > N <=> ~(b <= N)) /\ (e > N <=> ~(e <= N)) /\ e + 1 > v.lineix
  BY <1>1, <1>2, <1>3, <1>4
<1>10. CASE b > N
  <2>1. w = X
    BY <1>5, <1>10
  <2> QED BY <1>6, <1>7, <1>10, <2>1 DEF RemoveRound, Now, N, w, b, e
<1>11. CASE b <= N /\ e > N
  <2>1. w = Y
    BY <1>5, <1>9, <1>11
  <2> QED BY <1>6, <1>7, <1>11, <2>1 DEF RemoveRound, Now, N, w, b, e
<1>12. CASE b <= N /\ e <= N
  <2>1. w = Z
    BY <1>5, <1>9, <1>12
  <2> QED BY <1>6, <1>8, <1>9, <1>12, <2>1 DEF RemoveRound, Now, N, w, b, e
<1> QED BY <1>9, <1>10, <1>11, <1>12

LEMMA RemoveStep ==
  ASSUME TextOK, NEW open, Structure(open), open \subseteq 1 .. (Len(lines) + 1),
         NEW v \in Removals, GoesOn(v, open) \/ Returned(v, open)
  PROVE  LET w == RemoveNextComment(v) IN GoesOn(w, open) \/ Returned(w, open)
<1> DEFINE N == Len(lines)
           l == v.lineix
           b == FindNextMultiLineCommentStart(l)
           e == FindNextMultiLineCommentEnd(b)
           w == RemoveNextComment(v)
           Com == Commented(open)
<1>1. N \in Nat /\ l \in 1 .. (N + 1) /\ DOMAIN lines = 1 .. N /\ l \in Int
  BY LinesType DEF Removals
<1>2. /\ b \in l .. (N + 1) /\ \A n \in l .. (b - 1) : ~StartsComment(lines[n])
      /\ b <= N => StartsComment(lines[b])
  BY <1>1, FindStart
<1>3. b \in 1 .. (N + 1) /\ b \in Int
  BY <1>1, <1>2
<1>4. /\ e \in b .. (N + 1) /\ \A n \in b .. (e - 1) : ~EndsComment(lines[n])
      /\ e <= N => EndsComment(lines[e])
  BY <1>3, FindEnd
<1>5. RemoveRound(v, w, b, e)
  BY RemoveCases
<1>6. Com = {n \in 1 .. N : n \in open \/ n + 1 \in open}
  BY <1>1 DEF Commented
<1> HIDE DEF b, e, w, l, Com
<1>7. CASE Returned(v, open)
  <2>1. l = N + 1 /\ b > N
    BY <1>1, <1>2, <1>7 DEF Returned, l
  <2>2. Now(w, N + 1, v.removed, v.unclosed)
    BY <1>1, <1>3, <1>5, <2>1 DEF RemoveRound
  <2>3. Returned(w, open)
    BY <1>7, <2>2 DEF Returned, Returns, Now
  <2> QED BY <2>3 DEF w
<1>8. CASE GoesOn(v, open)
  <2>1. l \notin open /\ v.removed = CommentedBelow(open, l) /\ v.unclosed = 0
    BY <1>8 DEF GoesOn, l
  <2>2. (\A n \in l .. b : n \notin open) /\ (b <= N => b + 1 \in open /\ ~EndsComment(lines[b]))
    BY <1>1, <1>2, <2>1, CodeUntil
  <2>3. \A x \in 1 .. (N + 1) : CommentedBelow(open, x) = {n \in Com : n < x}
    BY DEF CommentedBelow, Com
  <2>4. ASSUME NEW n \in Com, n < b PROVE n < l
    <3>1. n \in 1 .. N /\ (n \in open \/ n + 1 \in open)
      BY <1>6
    <3>2. CASE n >= l
      <4>1. n \in l .. b /\ n + 1 \in l .. b
        BY <1>1, <1>3, <2>4, <3>1, <3>2
      <4> QED BY <2>2, <3>1, <4>1
    <3>3. n >= l \/ n < l
      BY <1>1, <3>1
    <3> QED BY <3>2, <3>3
  <2>5. v.removed = {n \in Com : n < b}
    <3>1. \A n \in Com : n \in 1 .. N
      BY <1>6
    <3>2. ASSUME NEW n \in Com, n < l PROVE n < b
      BY <1>1, <1>2, <3>1, <3>2
    <3>3. {n \in Com : n < l} = {n \in Com : n < b}
      BY <2>4, <3>2
    <3> QED BY <1>1, <2>1, <2>3, <3>3
  <2>6. CASE b > N /\ Now(w, N + 1, v.removed, v.unclosed)
    <3>1. b = N + 1 /\ b \in l .. b /\ b \in 1 .. (N + 1)
      BY <1>1, <1>2, <1>3, <2>6
    <3>2. N + 1 \notin open /\ v.removed = CommentedBelow(open, N + 1)
      BY <2>2, <2>3, <2>5, <3>1
    <3>3. GoesOn(w, open)
      BY <1>1, <2>1, <2>6, <3>1, <3>2 DEF GoesOn, Now
    <3> QED BY <3>3 DEF w
  <2>7. CASE b <= N /\ e > N /\ Now(w, N + 1, v.removed, b + 1)
    <3>0. b \in 1 .. N /\ b \in l .. b /\ b + 1 \in open /\ ~EndsComment(lines[b])
      BY <1>1, <1>2, <1>3, <2>2, <2>7
    <3>1. \A n \in (b + 1) .. e : n \in open
      BY <1>4, <3>0, CommentUntil
    <3>2. e = N + 1
      BY <1>1, <1>3, <1>4, <2>7
    <3>3. Endless(open) = {n \in Com : n \notin open /\ (n + 1)..(N + 1) \subseteq open}
      BY DEF Endless, Com
    <3>4. b \in Endless(open)
      <4>1. b \in Com /\ b \notin open
        BY <1>6, <2>2, <3>0
      <4>2. (b + 1) .. (N + 1) \subseteq open
        BY <3>1, <3>2
      <4> QED BY <3>3, <4>1, <4>2
    <3>5. ASSUME NEW n \in Endless(open) PROVE n = b
      <4>1. n \in 1 .. N /\ n \notin open /\ (n + 1)..(N + 1) \subseteq open
        BY <1>6, <3>3
      <4>2. CASE n < b
        <5>1. b \in (n + 1) .. (N + 1)
          BY <1>1, <3>0, <4>1, <4>2
        <5> QED BY <2>2, <3>0, <4>1, <5>1
      <4>3. CASE n > b
        <5>1. n \in (b + 1) .. e
          BY <1>1, <3>0, <3>2, <4>1, <4>3
        <5> QED BY <3>1, <4>1, <5>1
      <4> QED BY <1>1, <3>0, <4>1, <4>2, <4>3
    <3>6. Min(Endless(open)) = b /\ Endless(open) # {}
      <4>1. Endless(open) = {b}
        BY <3>4, <3>5
      <4>2. b <= b
        BY <1>3
      <4> QED BY <4>1, <4>2 DEF Min
    <3>7. v.removed = CommentedBelow(open, b)
      BY <1>3, <2>3, <2>5
    <3>8. Returned(w, open)
      BY <2>7, <3>6, <3>7 DEF Returned, Returns, Now
    <3> QED BY <3>8 DEF w
  <2>8. CASE b <= N /\ e <= N /\ Now(w, e + 1, v.removed \cup (b .. e), v.unclosed)
    <3>0. b \in 1 .. N /\ b \in l .. b /\ b + 1 \in open /\ ~EndsComment(lines[b])
      BY <1>1, <1>2, <1>3, <2>2, <2>8
    <3>1. e > b /\ (\A n \in (b + 1) .. e : n \in open) /\ e + 1 \notin open
      BY <1>4, <2>8, <3>0, CommentUntil
    <3>2. e \in Int /\ e + 1 \in 1 .. (N + 1)
      BY <1>1, <1>3, <1>4, <2>8
    <3>3. b .. e \subseteq Com
      <4> SUFFICES ASSUME NEW n \in b .. e PROVE n \in Com
        OBVIOUS
      <4>1. n \in 1 .. N /\ (n = b \/ n \in (b + 1) .. e)
        BY <1>1, <2>8, <3>0, <3>2
      <4> QED BY <1>6, <3>0, <3>1, <4>1
    <3>4. {n \in Com : n < b} \cup (b .. e) = {n \in Com : n < e + 1}
      <4>1. \A n \in Com : n \in Int
        BY <1>6
      <4>2. ASSUME NEW n \in Com PROVE n < b \/ n \in b .. e <=> n < e + 1
        <5>1. n \in Int
          BY <4>1
        <5> QED BY <1>3, <3>1, <3>2, <5>1
      <4> QED BY <3>3, <4>2
    <3>5. w.removed = CommentedBelow(open, e + 1)
      BY <2>3, <2>5, <2>8, <3>2, <3>4 DEF Now
    <3>6. GoesOn(w, open)
      BY <2>1, <2>8, <3>1, <3>2, <3>5 DEF GoesOn, Now
    <3> QED BY <3>6 DEF w
  <2> QED BY <1>5, <2>6, <2>7, <2>8 DEF RemoveRound
<1> QED BY <1>7, <1>8

RemoveBase == [lineix |-> 1, removed |-> {}, unclosed |-> 0]

LEMMA RemoveRun ==
  ASSUME TextOK
  PROVE  \E G \in [0 .. Len(lines) -> Removals] :
            /\ G[0] = RemoveBase /\ G[Len(lines)] = RemoveAll(RemoveBase, lines)
            /\ \A i \in 1 .. Len(lines) : G[i] = RemoveNextComment(G[i - 1])
<1> DEFINE S == Seq(alphabet.chars)
<1>1. lines \in Seq(S)
  BY DEF TextOK
<1>2. RemoveBase \in Removals
  <2>1. 1 \in 1 .. (Len(lines) + 1)
    BY LinesType
  <2> QED BY <2>1 DEF RemoveBase, Removals
<1>3. \A v \in Removals, x \in S : RemoveNextComment(v) \in Removals
  BY RemoveCases
<1> HIDE DEF S
<1> QED BY <1>1, <1>2, <1>3, RemoveSteps

\* After as many rounds as the file has lines, the loop has returned.
LEMMA RemoveReturns ==
  ASSUME TextOK, NEW open, Structure(open), open \subseteq 1 .. (Len(lines) + 1)
  PROVE  Returns(RemoveMultiLineComments, open)
<1> DEFINE N == Len(lines)
<1>1. N \in Nat /\ DOMAIN lines = 1 .. N
  BY LinesType
<1>2. PICK G \in [0 .. N -> Removals] :
            /\ G[0] = RemoveBase /\ G[N] = RemoveAll(RemoveBase, lines)
            /\ \A i \in 1 .. N : G[i] = RemoveNextComment(G[i - 1])
  BY RemoveRun
<1>3. Commented(open) \subseteq 1 .. N
  BY <1>1 DEF Commented
<1> DEFINE Inv(v) == GoesOn(v, open) \/ Returned(v, open)
           Good == {i \in 0 .. N : Inv(G[i]) /\ G[i].lineix >= i + 1}
<1> HIDE DEF N
<1>4. 0 \in Good
  <2>1. G[0].lineix = 1 /\ G[0].removed = {} /\ G[0].unclosed = 0
    BY <1>2 DEF RemoveBase
  <2>2. CommentedBelow(open, 1) = {}
    <3>1. \A n \in Commented(open) : ~(n < 1)
      BY <1>1, <1>3
    <3> QED BY <3>1 DEF CommentedBelow
  <2>3. 1 \in 1 .. (N + 1) /\ 1 \notin open
    BY <1>1 DEF Structure
  <2>4. GoesOn(G[0], open)
    BY <2>1, <2>2, <2>3 DEF GoesOn, N
  <2> QED BY <1>1, <2>1, <2>4
<1>5. ASSUME NEW i \in 1 .. N, i - 1 \in Good PROVE i \in Good
  <2> DEFINE v == G[i - 1]
             w == RemoveNextComment(v)
  <2>1. i - 1 \in 0 .. N /\ i \in 0 .. N /\ G[i] = w
    BY <1>1, <1>2
  <2>2. v \in Removals /\ Inv(v) /\ v.lineix >= i
    BY <1>1, <1>2, <1>5, <2>1
  <2> HIDE DEF v
  <2>3. w \in Removals /\ (w.lineix > v.lineix \/ w.lineix = N + 1)
    BY <2>2, RemoveCases DEF N
  <2>4. Inv(w)
    BY <2>2, RemoveStep
  <2>5. v.lineix \in Int /\ w.lineix \in Int
    BY <2>2, <2>3 DEF Removals
  <2> HIDE DEF w, Inv
  <2>6. w.lineix >= i + 1
    BY <1>1, <2>2, <2>3, <2>5
  <2> QED BY <2>1, <2>4, <2>6
<1>6. N \in Good
  <2>1. \A i \in 1 .. N : i - 1 \in Good => i \in Good
    BY <1>5
  <2> HIDE DEF Good
  <2>2. \A i \in 0 .. N : i \in Good
    BY <1>1, <1>4, <2>1, UpTo
  <2> QED BY <1>1, <2>2
<1> DEFINE u == G[N]
<1>7. u \in Removals /\ Inv(u) /\ u.lineix >= N + 1
  BY <1>1, <1>2, <1>6
<1>8. u = RemoveMultiLineComments
  BY <1>2 DEF RemoveMultiLineComments, RemoveAll, RemoveBase
<1> HIDE DEF u
<1>9. CASE Returned(u, open)
  BY <1>8, <1>9 DEF Returned
<1>10. CASE GoesOn(u, open)
  <2>1. u.lineix = N + 1 /\ N + 1 \notin open
    BY <1>1, <1>7, <1>10 DEF GoesOn, N
  <2>2. Endless(open) = {}
    <3>1. ASSUME NEW n \in Endless(open) PROVE FALSE
      <4>1. n \in 1 .. N /\ (n + 1)..(N + 1) \subseteq open
        BY <1>3 DEF Endless, N
      <4>2. N + 1 \in (n + 1)..(N + 1)
        BY <1>1, <4>1
      <4> QED BY <2>1, <4>1, <4>2
    <3> QED BY <3>1
  <2>3. CommentedBelow(open, N + 1) = Commented(open)
    <3>1. \A n \in Commented(open) : n < N + 1
      BY <1>1, <1>3
    <3> QED BY <3>1 DEF CommentedBelow
  <2>4. Returns(u, open)
    BY <1>10, <2>1, <2>2, <2>3 DEF Returns, GoesOn
  <2> QED BY <1>8, <2>4
<1> QED BY <1>7, <1>9, <1>10

\* RemoveMultiLineComments replaces exactly the lines of the comments that
\* span lines in every file whose comments are clearly structured, and
\* complains exactly when the file ends in a comment.
THEOREM LintCommentsRemoved == Spec => []CommentsRemoved
<1>1. TextOK => CommentsRemoved
  <2> SUFFICES ASSUME TextOK, ClearlyStructured(OpenLines)
               PROVE  Returns(RemoveMultiLineComments, OpenLines)
    BY DEF CommentsRemoved, Returns, Endless, Commented, CommentedBelow
  <2> QED BY OpenStructure, RemoveReturns
<1> QED BY <1>1, TextInvariant, PTL

-----------------------------------------------------------------------------
(***************************************************************************)
(* CloseExpression.  The brackets between two places are counted line by   *)
(* line: the first line from the bracket on, the last one up to the other  *)
(* place and the ones in between as a whole.                               *)
(***************************************************************************)
Between(p, q, x) == {r \in Places : Char(r) = x /\ ~Precedes(r, p) /\ ~Precedes(q, r)}
Row(n, i, j, x) == {n} \X Having(lines[n], i, j, {x})

LEMMA PlacesAre ==
  ASSUME TextOK
  PROVE  \A r : r \in Places <=> \E m \in 1 .. Len(lines) : \E i \in 1 .. Len(lines[m]) : r = <<m, i>>
<1>1. DOMAIN lines = 1 .. Len(lines) /\ \A m \in 1 .. Len(lines) : DOMAIN lines[m] = 1 .. Len(lines[m])
  BY LinesType
<1>2. Places = UNION {{m} \X (1 .. Len(lines[m])) : m \in 1 .. Len(lines)}
  BY <1>1 DEF Places
<1> QED BY <1>2

LEMMA RowCard ==
  ASSUME NEW n, NEW i \in Int, NEW j \in Int, NEW x
  PROVE  /\ IsFiniteSet(Row(n, i, j, x))
         /\ Cardinality(Row(n, i, j, x)) = Cardinality(Having(lines[n], i, j, {x}))
<1> DEFINE H == Having(lines[n], i, j, {x})
<1>1. IsFiniteSet(H) /\ Cardinality(H) \in Nat
  BY HavingFinite
<1>2. IsFiniteSet({n}) /\ Cardinality({n}) = 1
  BY FS_Singleton
<1> HIDE DEF H
<1>3. IsFiniteSet({n} \X H) /\ Cardinality({n} \X H) = 1 * Cardinality(H)
  BY <1>1, <1>2, FS_Product
<1>4. Cardinality({n} \X H) = Cardinality(H)
  BY <1>1, <1>3
<1> QED BY <1>3, <1>4 DEF H, Row

LEMMA BetweenFirst ==
  ASSUME TextOK, NEW n \in 1 .. Len(lines), NEW k \in 1 .. Len(lines[n]),
         NEW j \in 0 .. Len(lines[n]), NEW x
  PROVE  Between(<<n, k>>, <<n, j>>, x) = Row(n, k, j, x)
<1>1. Len(lines) \in Nat /\ Len(lines[n]) \in Nat /\ n \in Int /\ k \in Int /\ j \in Int
  BY LinesType
<1>2. ASSUME NEW r \in Between(<<n, k>>, <<n, j>>, x) PROVE r \in Row(n, k, j, x)
  <2>1. PICK m, i : m \in 1 .. Len(lines) /\ i \in 1 .. Len(lines[m]) /\ r = <<m, i>>
    BY PlacesAre DEF Between
  <2>2. r[1] = m /\ r[2] = i
    BY <2>1
  <2>3. Len(lines[m]) \in Nat
    BY <2>1, LinesType
  <2>4. lines[m][i] = x /\ ~(m < n \/ (m = n /\ i < k)) /\ ~(n < m \/ (n = m /\ j < i))
    BY <2>2 DEF Between, Char, Precedes
  <2>5. m = n /\ i \in k .. j
    BY <1>1, <2>1, <2>3, <2>4
  <2> QED BY <2>1, <2>4, <2>5 DEF Row, Having
<1>3. ASSUME NEW r \in Row(n, k, j, x) PROVE r \in Between(<<n, k>>, <<n, j>>, x)
  <2>1. PICK i \in k .. j : r = <<n, i>> /\ lines[n][i] = x
    BY DEF Row, Having
  <2>2. r[1] = n /\ r[2] = i /\ i \in 1 .. Len(lines[n])
    BY <1>1, <2>1
  <2>3. r \in Places
    BY <2>1, <2>2, PlacesAre
  <2>4. ~(n < n \/ (n = n /\ i < k)) /\ ~(n < n \/ (n = n /\ j < i))
    BY <1>1, <2>1
  <2> QED BY <2>1, <2>2, <2>3, <2>4 DEF Between, Char, Precedes
<1> QED BY <1>2, <1>3

LEMMA BetweenNext ==
  ASSUME TextOK, NEW n \in 1 .. Len(lines), NEW k \in 1 .. Len(lines[n]),
         NEW m \in (n + 1) .. Len(lines), NEW j \in 0 .. Len(lines[m]), NEW x
  PROVE  LET before == Between(<<n, k>>, <<m - 1, Len(lines[m - 1])>>, x)
         IN  /\ Between(<<n, k>>, <<m, j>>, x) = before \cup Row(m, 1, j, x)
             /\ before \cap Row(m, 1, j, x) = {}
<1> DEFINE l == Len(lines[m - 1])
           before == Between(<<n, k>>, <<m - 1, l>>, x)
           all == Between(<<n, k>>, <<m, j>>, x)
<1>1. /\ Len(lines) \in Nat /\ n \in Int /\ k \in Int /\ m \in Int /\ j \in Int
      /\ m \in 1 .. Len(lines) /\ m - 1 \in 1 .. Len(lines) /\ n < m
  BY LinesType
<1>2. Len(lines[n]) \in Nat /\ Len(lines[m]) \in Nat /\ l \in Nat
  BY <1>1, LinesType
<1>3. ASSUME NEW r \in all PROVE r \in before \cup Row(m, 1, j, x)
  <2>1. PICK h, i : h \in 1 .. Len(lines) /\ i \in 1 .. Len(lines[h]) /\ r = <<h, i>>
    BY PlacesAre DEF Between
  <2>2. r[1] = h /\ r[2] = i /\ r \in Places
    BY <2>1 DEF Between
  <2>3. Len(lines[h]) \in Nat
    BY <2>1, LinesType
  <2>4. lines[h][i] = x /\ ~Precedes(r, <<n, k>>) /\ ~(m < h \/ (m = h /\ j < i))
    BY <2>2 DEF Between, Char, Precedes
  <2>5. CASE h = m
    <3>1. i \in 1 .. j
      BY <1>1, <2>1, <2>3, <2>4, <2>5
    <3> QED BY <2>1, <2>4, <2>5, <3>1 DEF Row, Having
  <2>6. CASE h # m
    <3>1. ~(m - 1 < h \/ (m - 1 = h /\ l < i))
      BY <1>1, <1>2, <2>1, <2>3, <2>4, <2>6
    <3>2. ~Precedes(<<m - 1, l>>, r) /\ Char(r) = x
      BY <2>2, <2>4, <3>1 DEF Precedes, Char
    <3> QED BY <2>2, <2>4, <3>2 DEF Between
  <2> QED BY <2>5, <2>6
<1>4. ASSUME NEW r \in Row(m, 1, j, x) PROVE r \in all /\ r \notin before
  <2>1. PICK i \in 1 .. j : r = <<m, i>> /\ lines[m][i] = x
    BY DEF Row, Having
  <2>2. r[1] = m /\ r[2] = i /\ i \in 1 .. Len(lines[m])
    BY <1>1, <1>2, <2>1
  <2>3. r \in Places
    BY <1>1, <2>1, <2>2, PlacesAre
  <2>4. ~(m < n \/ (m = n /\ i < k)) /\ ~(m < m \/ (m = m /\ j < i)) /\ m - 1 < m
    BY <1>1, <2>1
  <2> QED BY <2>1, <2>2, <2>3, <2>4 DEF Between, Char, Precedes
<1>5. ASSUME NEW r \in before PROVE r \in all
  <2>1. PICK h, i : h \in 1 .. Len(lines) /\ i \in 1 .. Len(lines[h]) /\ r = <<h, i>>
    BY PlacesAre DEF Between
  <2>2. r[1] = h /\ r[2] = i /\ r \in Places
    BY <2>1 DEF Between
  <2>3. Char(r) = x /\ ~Precedes(r, <<n, k>>) /\ ~(m - 1 < h \/ (m - 1 = h /\ l < i))
    BY <2>2 DEF Between, Precedes
  <2>4. ~(m < h \/ (m = h /\ j < i))
    BY <1>1, <2>1, <2>3
  <2>5. ~Precedes(<<m, j>>, r)
    BY <2>2, <2>4 DEF Precedes
  <2> QED BY <2>2, <2>3, <2>5 DEF Between
<1> QED BY <1>3, <1>4, <1>5

LEMMA BetweenFinite ==
  ASSUME TextOK, NEW n \in 1 .. Len(lines), NEW k \in 1 .. Len(lines[n]),
         NEW m \in n .. Len(lines), NEW x
  PROVE  IsFiniteSet(Between(<<n, k>>, <<m, Len(lines[m])>>, x))
<1> DEFINE N == Len(lines)
           T == {h \in n .. N : IsFiniteSet(Between(<<n, k>>, <<h, Len(lines[h])>>, x))}
<1>1. N \in Nat /\ n \in Int /\ m \in Int /\ N \in Int /\ n <= N /\ n \in n .. N /\ k \in Int
  BY LinesType
<1>2. n \in T
  <2>1. Len(lines[n]) \in 0 .. Len(lines[n]) /\ Len(lines[n]) \in Int
    BY LinesType
  <2>2. Between(<<n, k>>, <<n, Len(lines[n])>>, x) = Row(n, k, Len(lines[n]), x)
    BY <2>1, BetweenFirst
  <2>3. IsFiniteSet(Row(n, k, Len(lines[n]), x))
    BY <1>1, <2>1, RowCard
  <2> QED BY <1>1, <2>2, <2>3
<1>3. ASSUME NEW h \in n .. (N - 1), h \in T PROVE h + 1 \in T
  <2> DEFINE g == h + 1
  <2>1. g \in (n + 1) .. N /\ g - 1 = h /\ g \in 1 .. N /\ g \in n .. N
    BY <1>1
  <2>2. Len(lines[g]) \in 0 .. Len(lines[g]) /\ Len(lines[g]) \in Int
    BY <2>1, LinesType
  <2> HIDE DEF g
  <2>3. Between(<<n, k>>, <<g, Len(lines[g])>>, x)
          = Between(<<n, k>>, <<g - 1, Len(lines[g - 1])>>, x) \cup Row(g, 1, Len(lines[g]), x)
    BY <2>1, <2>2, BetweenNext
  <2> DEFINE A == Between(<<n, k>>, <<g - 1, Len(lines[g - 1])>>, x)
             B == Row(g, 1, Len(lines[g]), x)
  <2>4. IsFiniteSet(A)
    BY <1>3, <2>1
  <2>5. IsFiniteSet(B)
    <3> DEFINE j == Len(lines[g])
               i == 1
    <3>1. j \in Int /\ i \in Int
      BY <2>2
    <3> HIDE DEF i, j
    <3>2. IsFiniteSet(Row(g, i, j, x))
      BY <3>1, RowCard
    <3> QED BY <3>2 DEF i, j
  <2>6. IsFiniteSet(Between(<<n, k>>, <<g, Len(lines[g])>>, x))
    <3>1. Between(<<n, k>>, <<g, Len(lines[g])>>, x) = A \cup B
      BY <2>3
    <3> HIDE DEF A, B
    <3>2. IsFiniteSet(A \cup B)
      BY <2>4, <2>5, FS_Union
    <3> QED BY <3>1, <3>2
  <2>7. g \in T
    BY <2>1, <2>6
  <2> QED BY <2>7 DEF g
<1>4. \A h \in n .. (N - 1) : h \in T => h + 1 \in T
  BY <1>3
<1> HIDE DEF T, N
<1>5. \A h \in n .. N : h \in T
  BY <1>1, <1>2, <1>4, FromTo
<1> QED BY <1>5 DEF T, N

LEMMA DeltaIs ==
  ASSUME NEW s, NEW i \in Int, NEW j \in Int, NEW c
  PROVE  /\ Delta(s, i, j, c) = Cardinality(Having(s, i, j, {c})) - Cardinality(Having(s, i, j, {EndChar(c)}))
         /\ Cardinality(Having(s, i, j, {c})) \in Nat /\ Cardinality(Having(s, i, j, {EndChar(c)})) \in Nat
         /\ Delta(s, i, j, c) \in Int
<1>1. Delta(s, i, j, c) = Cardinality(Having(s, i, j, {c})) - Cardinality(Having(s, i, j, {EndChar(c)}))
  BY DEF Delta, Depth, Having
<1>2. Cardinality(Having(s, i, j, {c})) \in Nat /\ Cardinality(Having(s, i, j, {EndChar(c)})) \in Nat
  BY HavingFinite
<1> QED BY <1>1, <1>2

LEMMA OpenIs ==
  ASSUME NEW n, NEW k, NEW q
  PROVE  LET c == lines[n][k]
         IN  Open(<<n, k>>, q)
               = Cardinality(Between(<<n, k>>, q, c)) - Cardinality(Between(<<n, k>>, q, EndChar(c)))
<1>1. Char(<<n, k>>) = lines[n][k]
  BY DEF Char
<1> QED BY <1>1 DEF Open, Between

LEMMA OpenFirst ==
  ASSUME TextOK, NEW n \in 1 .. Len(lines), NEW k \in 1 .. Len(lines[n]), NEW j \in 0 .. Len(lines[n])
  PROVE  Open(<<n, k>>, <<n, j>>) = Delta(lines[n], k, j, lines[n][k])
<1> DEFINE c == lines[n][k]
           e == EndChar(c)
           A(x) == Cardinality(Between(<<n, k>>, <<n, j>>, x))
           B(x) == Cardinality(Having(lines[n], k, j, {x}))
<1>1. k \in Int /\ j \in Int
  BY LinesType
<1>2. Open(<<n, k>>, <<n, j>>) = A(c) - A(e)
  BY OpenIs
<1>3. Delta(lines[n], k, j, c) = B(c) - B(e)
  BY <1>1, DeltaIs
<1>4. \A x : Between(<<n, k>>, <<n, j>>, x) = Row(n, k, j, x)
  BY BetweenFirst
<1>5. \A x : Cardinality(Row(n, k, j, x)) = B(x)
  BY <1>1, RowCard
<1>6. \A x : A(x) = B(x)
  BY <1>4, <1>5
<1> HIDE DEF A, B, e, c
<1>7. A(c) = B(c) /\ A(e) = B(e)
  BY <1>6
<1> QED BY <1>2, <1>3, <1>7 DEF c

LEMMA OpenNext ==
  ASSUME TextOK, NEW n \in 1 .. Len(lines), NEW k \in 1 .. Len(lines[n]),
         NEW m \in (n + 1) .. Len(lines), NEW j \in 0 .. Len(lines[m])
  PROVE  Open(<<n, k>>, <<m, j>>)
           = Open(<<n, k>>, <<m - 1, Len(lines[m - 1])>>) + Delta(lines[m], 1, j, lines[n][k])
<1> DEFINE c == lines[n][k]
           e == EndChar(c)
           p == <<n, k>>
           q == <<m - 1, Len(lines[m - 1])>>
           i == 1
           A(x) == Cardinality(Between(p, <<m, j>>, x))
           P(x) == Cardinality(Between(p, q, x))
           B(x) == Cardinality(Having(lines[m], i, j, {x}))
<1>1. /\ i \in Int /\ j \in Int /\ m \in 1 .. Len(lines)
      /\ m - 1 \in n .. Len(lines)
  BY LinesType
<1>2. Open(p, <<m, j>>) = A(c) - A(e) /\ Open(p, q) = P(c) - P(e)
  BY OpenIs
<1>3. /\ \A x : B(x) \in Nat
      /\ Delta(lines[m], i, j, c) = B(c) - B(e)
  <2> HIDE DEF i
  <2>1. \A x : B(x) \in Nat
    BY <1>1, HavingFinite
  <2>2. Delta(lines[m], i, j, c) = B(c) - B(e)
    BY <1>1, DeltaIs
  <2> QED BY <2>1, <2>2
<1>4. ASSUME NEW x PROVE A(x) = P(x) + B(x) /\ P(x) \in Nat
  <2> DEFINE X == Between(p, q, x)
             Y == Row(m, i, j, x)
             Z == Between(p, <<m, j>>, x)
  <2>1. Z = X \cup Y /\ X \cap Y = {}
    BY BetweenNext
  <2>2. IsFiniteSet(X)
    BY <1>1, BetweenFinite
  <2>3. IsFiniteSet(Y) /\ Cardinality(Y) = B(x)
    <3> HIDE DEF i
    <3> QED BY <1>1, RowCard
  <2>4. B(x) \in Nat
    BY <1>3
  <2> HIDE DEF X, Y, Z, B, p, q
  <2>5. /\ Cardinality(X \cup Y) = Cardinality(X) + Cardinality(Y) - Cardinality(X \cap Y)
        /\ Cardinality(X) \in Nat
    BY <2>2, <2>3, FS_Union, FS_CardinalityType
  <2>6. Cardinality(X \cap Y) = 0
    BY <2>1, FS_EmptySet
  <2>7. Cardinality(Z) = Cardinality(X) + B(x)
    BY <2>1, <2>3, <2>4, <2>5, <2>6
  <2> QED BY <2>5, <2>7 DEF X, Z
<1> HIDE DEF A, B, P, e, c, i, p, q
<1>5. /\ A(c) = P(c) + B(c) /\ A(e) = P(e) + B(e) /\ P(c) \in Nat /\ P(e) \in Nat
      /\ B(c) \in Nat /\ B(e) \in Nat
  BY <1>3, <1>4
<1>6. Open(p, <<m, j>>) = Open(p, q) + Delta(lines[m], i, j, c)
  BY <1>2, <1>3, <1>5
<1> QED BY <1>6 DEF p, q, i, c

\* What is open behind line m.
Left(n, k, m) == Open(<<n, k>>, <<m, Len(lines[m])>>)

LEMMA LeftType ==
  ASSUME TextOK, NEW n \in 1 .. Len(lines), NEW k \in 1 .. Len(lines[n]), NEW m \in n .. Len(lines)
  PROVE  Left(n, k, m) \in Int
<1> DEFINE c == lines[n][k]
           q == <<m, Len(lines[m])>>
<1>1. Left(n, k, m) = Cardinality(Between(<<n, k>>, q, c)) - Cardinality(Between(<<n, k>>, q, EndChar(c)))
  BY OpenIs DEF Left
<1>2. \A x : Cardinality(Between(<<n, k>>, q, x)) \in Nat
  BY BetweenFinite, FS_CardinalityType
<1> HIDE DEF q, c
<1> QED BY <1>1, <1>2

LEMMA OpenRun ==
  ASSUME NEW chars, NEW t \in Seq(Seq(chars)), NEW base \in Int, NEW c
  PROVE  \E G : Opens(G, base, t, c)
<1> DEFINE S == Seq(chars)
<1>1. \A x \in S : Delta(x, 1, Len(x), c) \in Int
  <2> SUFFICES ASSUME NEW x \in S PROVE Delta(x, 1, Len(x), c) \in Int
    OBVIOUS
  <2>1. Len(x) \in Int /\ 1 \in Int
    BY LenProperties
  <2> QED BY <2>1, DepthType DEF Delta
<1> HIDE DEF S
<1>2. t \in Seq(S)
  BY DEF S
<1> QED BY <1>1, <1>2, OpenSteps

\* num_open after a line is what the lines up to it leave open.
LEMMA NumOpenIs ==
  ASSUME TextOK, NEW n \in 1 .. Len(lines), NEW k \in 1 .. Len(lines[n]), NEW m \in n .. Len(lines)
  PROVE  NumOpen(n, k, m) = Left(n, k, m)
<1> DEFINE c == lines[n][k]
           base == Delta(lines[n], k, Len(lines[n]), c)
           t == SubSeq(lines, n + 1, m)
           M == m - n
           S == Seq(alphabet.chars)
           N == Len(lines)
<1>1. N \in Nat /\ n \in Nat /\ m \in Nat /\ M \in Nat /\ n \in 0 .. N
  BY LinesType
<1>2. NumOpen(n, k, m) = OpenAll(base, t, c)
  BY DEF NumOpen, OpenAll
<1>3. t \in Seq(S) /\ Len(t) = M /\ \A i \in 1 .. M : t[i] = lines[n + i]
  <2>1. lines \in Seq(S)
    BY DEF TextOK
  <2> HIDE DEF S, N
  <2> QED BY <1>1, <2>1, Middle DEF N
<1>4. base = Left(n, k, n) /\ base \in Int
  <2>1. Len(lines[n]) \in 0 .. Len(lines[n]) /\ n \in n .. N
    BY <1>1, LinesType
  <2>2. base = Left(n, k, n)
    BY <2>1, OpenFirst DEF Left
  <2>3. Left(n, k, n) \in Int
    BY <2>1, LeftType
  <2> QED BY <2>2, <2>3
<1> HIDE DEF base, c, t, M
<1>5. PICK G : Opens(G, base, t, c)
  <2> DEFINE chars == alphabet.chars
  <2>1. t \in Seq(Seq(chars)) /\ base \in Int
    BY <1>3, <1>4
  <2> HIDE DEF chars
  <2> QED BY ONLY <2>1, OpenRun
<1> DEFINE Good == {i \in 0 .. M : G[i] = Left(n, k, n + i)}
<1>6. 0 \in Good
  <2>1. n + 0 = n /\ 0 \in 0 .. M
    BY <1>1
  <2> QED BY <1>4, <1>5, <2>1 DEF Opens
<1>7. ASSUME NEW i \in 1 .. M, i - 1 \in Good PROVE i \in Good
  <2> DEFINE h == n + i
  <2>1. h \in (n + 1) .. N /\ h \in 1 .. N /\ n + (i - 1) = h - 1 /\ i \in 0 .. M
    BY <1>1 DEF M
  <2>2. G[i] = G[i - 1] + Delta(t[i], 1, Len(t[i]), c) /\ t[i] = lines[h]
    BY <1>3, <1>5 DEF Opens
  <2>3. G[i - 1] = Left(n, k, h - 1)
    BY <1>7, <2>1
  <2> HIDE DEF h
  <2>4. Len(lines[h]) \in 0 .. Len(lines[h])
    BY <2>1, LinesType
  <2>5. Left(n, k, h) = Left(n, k, h - 1) + Delta(lines[h], 1, Len(lines[h]), c)
    BY <2>1, <2>4, OpenNext DEF Left, c
  <2>6. G[i] = Left(n, k, h)
    BY <2>2, <2>3, <2>5
  <2> QED BY <2>1, <2>6 DEF h
<1>8. M \in Good
  <2>1. \A i \in 1 .. M : i - 1 \in Good => i \in Good
    BY <1>7
  <2> HIDE DEF Good
  <2>2. \A i \in 0 .. M : i \in Good
    BY <1>1, <1>6, <2>1, UpTo
  <2> QED BY <1>1, <2>2
<1>9. n + M = m
  BY <1>1 DEF M
<1>10. G[M] = Left(n, k, m)
  BY <1>8, <1>9
<1> QED BY <1>2, <1>3, <1>5, <1>10 DEF Opens

\* The depth falls by one at a time and at end characters only, so that the
\* search in a line finds the first position where nothing is open.
FirstEnd(s, a, d, c, j) ==
  IF j = 0 THEN \A i \in a .. Len(s) : d + Delta(s, a, i, c) > 0
  ELSE /\ j \in a .. Len(s) /\ s[j] = EndChar(c) /\ d + Delta(s, a, j, c) = 0
       /\ \A i \in a .. (j - 1) : d + Delta(s, a, i, c) > 0

LEMMA EndInLine ==
  ASSUME NEW S, NEW s \in Seq(S), NEW c \in Opening, NEW d \in Nat, NEW a \in 1 .. (Len(s) + 1),
         d > 0 \/ (a <= Len(s) /\ s[a] = c)
  PROVE  FirstEnd(s, a, d, c, FindEndOfExpressionInLine(s, a, d, c))
<1> DEFINE L == Len(s)
           e == EndChar(c)
           W(i) == Weight(s[i], {c}, {e})
           D(i) == d + Delta(s, a, i, c)
           T == {i \in a .. L : D(i) <= 0}
           E == {i \in a .. L : s[i] = e /\ D(i) = 0}
           j == FindEndOfExpressionInLine(s, a, d, c)
<1>1. L \in Nat /\ a \in Nat /\ a >= 1 /\ a \in Int
  BY LenProperties
<1>2. c # e
  BY EndCharacters
<1>3. j = IF E = {} THEN 0 ELSE Min(E)
  BY DEF FindEndOfExpressionInLine
<1>4. \A i \in a .. L : W(i) = IF s[i] = c THEN 1 ELSE IF s[i] = e THEN -1 ELSE 0
  BY <1>2 DEF Weight
<1>5. ASSUME NEW i \in (a - 1) .. L PROVE D(i) \in Int /\ (i = a - 1 => D(i) = d)
  <2>1. i \in Int /\ (i = a - 1 => i < a)
    BY <1>1
  <2>2. Delta(s, a, i, c) \in Int /\ (i = a - 1 => Delta(s, a, i, c) = 0)
    BY <1>1, <2>1, DepthType DEF Delta
  <2> QED BY <2>2
<1>6. ASSUME NEW i \in a .. L PROVE D(i) = D(i - 1) + W(i)
  <2>1. i \in Int /\ a <= i /\ i - 1 \in Int
    BY <1>1
  <2>2. Delta(s, a, i, c) = Delta(s, a, i - 1, c) + W(i)
    BY <1>1, <2>1, DepthLast DEF Delta
  <2>3. Delta(s, a, i, c) \in Int /\ Delta(s, a, i - 1, c) \in Int
    BY <1>1, <2>1, DepthType DEF Delta
  <2> HIDE DEF W
  <2>4. W(i) \in Int
    BY <1>4
  <2> QED BY <2>2, <2>3, <2>4
<1> HIDE DEF W, D, j, L
<1>7. ASSUME NEW i \in a .. L, D(i) <= 0, \A x \in a .. (i - 1) : D(x) > 0 PROVE i \in E
  <2>1. i - 1 \in (a - 1) .. L /\ i \in (a - 1) .. L /\ (i # a => i - 1 \in a .. (i - 1))
    BY <1>1
  <2>2. D(i - 1) \in Int /\ D(i) \in Int /\ W(i) \in {1, -1, 0}
    BY <1>4, <1>5, <2>1
  <2>3. D(i) = D(i - 1) + W(i)
    BY <1>6
  <2>4. D(i - 1) > 0
    <3>1. CASE i # a
      BY <1>7, <2>1, <3>1
    <3>2. CASE i = a
      <4>1. D(i - 1) = d
        BY <1>5, <2>1, <3>2
      <4>2. CASE d > 0
        BY <4>1, <4>2
      <4>3. CASE ~(d > 0)
        <5>1. s[a] = c
          BY <4>3
        <5>2. W(i) = 1
          BY <1>4, <3>2, <5>1
        <5> QED BY <1>7, <2>2, <2>3, <4>1, <5>2
      <4> QED BY <4>2, <4>3
    <3> QED BY <3>1, <3>2
  <2>5. W(i) = -1 /\ D(i) = 0
    BY <1>7, <2>2, <2>3, <2>4
  <2>6. s[i] = e
    BY <1>4, <2>5
  <2> QED BY <2>5, <2>6
<1>8. \A i \in a .. L : D(i) > 0 \/ D(i) <= 0
  <2> SUFFICES ASSUME NEW i \in a .. L PROVE D(i) > 0 \/ D(i) <= 0
    OBVIOUS
  <2>1. i \in (a - 1) .. L
    BY <1>1
  <2>2. D(i) \in Int
    BY <1>5, <2>1
  <2> QED BY <2>2
<1>9. CASE T = {}
  <2>1. \A i \in a .. L : D(i) > 0
    BY <1>8, <1>9
  <2>2. E = {}
    BY <2>1
  <2>3. j = 0
    BY <1>3, <2>2
  <2> QED BY <2>1, <2>3 DEF FirstEnd, D, L, j
<1>10. CASE T # {}
  <2>1. T \subseteq 1 .. L /\ E \subseteq 1 .. L
    BY <1>1
  <2>2. PICK i \in T : \A x \in T : i <= x
    <3>1. Min(T) \in T /\ \A y \in T : Min(T) <= y
      BY <1>1, <1>10, <2>1, LeastPosition
    <3> QED BY <3>1
  <2>3. i \in a .. L /\ D(i) <= 0 /\ i \in Int
    BY <1>1
  <2>4. ASSUME NEW x \in a .. (i - 1) PROVE D(x) > 0
    <3>1. x \in a .. L /\ ~(i <= x)
      BY <1>1, <2>3
    <3>2. x \notin T
      BY <2>2, <3>1
    <3> QED BY <1>8, <3>1, <3>2
  <2>5. i \in E
    BY <1>7, <2>3, <2>4
  <2>6. Min(E) \in E /\ \A y \in E : Min(E) <= y
    BY <1>1, <2>1, <2>5, LeastPosition
  <2>7. j = Min(E)
    BY <1>3, <2>5
  <2>8. j \in E /\ j <= i /\ j \in a .. L
    BY <2>5, <2>6, <2>7
  <2>9. j = i
    <3>1. CASE j < i
      <4>1. j \in a .. (i - 1)
        BY <1>1, <2>3, <2>8, <3>1
      <4>2. D(j) > 0 /\ D(j) = 0
        BY <2>4, <2>8, <4>1
      <4> QED BY <4>2
    <3> QED BY <1>1, <2>3, <2>8, <3>1
  <2>10. j # 0 /\ s[j] = EndChar(c) /\ D(j) = 0
    BY <1>1, <2>8
  <2> QED BY <2>4, <2>8, <2>9, <2>10 DEF FirstEnd, D, L, j
<1> QED BY <1>9, <1>10

\* The end found in a line, in terms of what is open there.
EndIn(n, k, m, a, j) ==
  IF j = 0 THEN \A i \in a .. Len(lines[m]) : Open(<<n, k>>, <<m, i>>) > 0
  ELSE /\ j \in a .. Len(lines[m]) /\ lines[m][j] = EndChar(lines[n][k]) /\ Open(<<n, k>>, <<m, j>>) = 0
       /\ \A i \in a .. (j - 1) : Open(<<n, k>>, <<m, i>>) > 0

EndHere(n, k) == FindEndOfExpressionInLine(lines[n], k, 0, lines[n][k])
EndBelow(n, k, m) == FindEndOfExpressionInLine(lines[m], 1, Left(n, k, m - 1), lines[n][k])

LEMMA FirstLineEnd ==
  ASSUME TextOK, NEW n \in 1 .. Len(lines), NEW k \in 1 .. Len(lines[n]), lines[n][k] \in Opening
  PROVE  EndIn(n, k, n, k, EndHere(n, k))
<1> DEFINE s == lines[n]
           c == s[k]
           L == Len(s)
           j == EndHere(n, k)
           S == alphabet.chars
           d == 0
<1>1. s \in Seq(S) /\ L \in Nat /\ k \in 1 .. L /\ c \in Opening
  BY LinesType
<1>2. \A i \in 0 .. L : Open(<<n, k>>, <<n, i>>) = Delta(s, k, i, c)
  BY OpenFirst
<1>3. \A i \in 0 .. L : Delta(s, k, i, c) \in Int
  BY <1>1, DepthType DEF Delta
<1>4. FirstEnd(s, k, d, c, j)
  <2>1. k \in 1 .. (Len(s) + 1) /\ k <= Len(s) /\ d \in Nat
    BY <1>1
  <2>2. j = FindEndOfExpressionInLine(s, k, d, c)
    BY DEF EndHere
  <2> HIDE DEF s, j, S, d, L
  <2> QED BY <1>1, <2>1, <2>2, EndInLine
<1> HIDE DEF s, L, j
<1>5. k \in Nat /\ k >= 1
  BY <1>1
<1>6. \A i \in 0 .. L : d + Delta(s, k, i, c) = Open(<<n, k>>, <<n, i>>)
  BY <1>2, <1>3
<1>7. CASE j = 0
  <2>1. \A i \in k .. L : d + Delta(s, k, i, c) > 0 /\ i \in 0 .. L
    BY <1>1, <1>4, <1>7 DEF FirstEnd, L
  <2>2. \A i \in k .. L : Open(<<n, k>>, <<n, i>>) > 0
    BY <1>6, <2>1
  <2> QED BY <1>7, <2>2 DEF EndIn, s, L, j
<1>8. CASE j # 0
  <2>1. j \in k .. L /\ s[j] = EndChar(c) /\ d + Delta(s, k, j, c) = 0
    BY <1>4, <1>8 DEF FirstEnd, L
  <2>2. \A i \in k .. (j - 1) : d + Delta(s, k, i, c) > 0 /\ i \in 0 .. L
    BY <1>1, <1>4, <1>8, <2>1 DEF FirstEnd
  <2>3. j \in 0 .. L
    BY <1>1, <2>1
  <2>4. Open(<<n, k>>, <<n, j>>) = 0 /\ \A i \in k .. (j - 1) : Open(<<n, k>>, <<n, i>>) > 0
    BY <1>6, <2>1, <2>2, <2>3
  <2> QED BY <1>8, <2>1, <2>4 DEF EndIn, s, L, j
<1> QED BY <1>7, <1>8

LEMMA NextLineEnd ==
  ASSUME TextOK, NEW n \in 1 .. Len(lines), NEW k \in 1 .. Len(lines[n]), lines[n][k] \in Opening,
         NEW m \in (n + 1) .. Len(lines), Left(n, k, m - 1) > 0
  PROVE  EndIn(n, k, m, 1, EndBelow(n, k, m))
<1> DEFINE s == lines[m]
           c == lines[n][k]
           L == Len(s)
           j == EndBelow(n, k, m)
           S == alphabet.chars
           d == Left(n, k, m - 1)
           a == 1
<1>1. s \in Seq(S) /\ L \in Nat /\ a \in 1 .. (L + 1) /\ c \in Opening
  BY LinesType
<1>2. d \in Nat /\ d > 0
  <2>1. m - 1 \in n .. Len(lines)
    BY LinesType
  <2>2. Left(n, k, m - 1) \in Int
    BY <2>1, LeftType
  <2> QED BY <2>2
<1>3. \A i \in 0 .. L : Open(<<n, k>>, <<m, i>>) = d + Delta(s, a, i, c)
  BY OpenNext DEF Left
<1>4. FirstEnd(s, a, d, c, j)
  <2>1. j = FindEndOfExpressionInLine(s, a, d, c)
    BY DEF EndBelow
  <2> HIDE DEF s, j, S, d, a
  <2> QED BY <1>1, <1>2, <2>1, EndInLine
<1> HIDE DEF s, L, j, d
<1>5. CASE j = 0
  <2>1. \A i \in a .. L : d + Delta(s, a, i, c) > 0 /\ i \in 0 .. L
    BY <1>1, <1>4, <1>5 DEF FirstEnd, L
  <2>2. \A i \in a .. L : Open(<<n, k>>, <<m, i>>) > 0
    BY <1>3, <2>1
  <2> QED BY <1>5, <2>2 DEF EndIn, s, L, j
<1>6. CASE j # 0
  <2>1. j \in a .. L /\ s[j] = EndChar(c) /\ d + Delta(s, a, j, c) = 0
    BY <1>4, <1>6 DEF FirstEnd, L
  <2>2. \A i \in a .. (j - 1) : d + Delta(s, a, i, c) > 0 /\ i \in 0 .. L
    BY <1>1, <1>4, <1>6, <2>1 DEF FirstEnd
  <2>3. j \in 0 .. L
    BY <1>1, <2>1
  <2>4. Open(<<n, k>>, <<m, j>>) = 0 /\ \A i \in a .. (j - 1) : Open(<<n, k>>, <<m, i>>) > 0
    BY <1>3, <2>1, <2>2, <2>3
  <2> QED BY <1>6, <2>1, <2>4 DEF EndIn, s, L, j
<1> QED BY <1>5, <1>6

\* What a line leaves open is what is open at a place of it and what the rest
\* of it opens.
LEMMA LeftSplit ==
  ASSUME TextOK, NEW n \in 1 .. Len(lines), NEW k \in 1 .. Len(lines[n]),
         NEW m \in (n + 1) .. Len(lines), NEW j \in 1 .. Len(lines[m])
  PROVE  /\ Left(n, k, m) = Open(<<n, k>>, <<m, j>>) + Delta(lines[m], j + 1, Len(lines[m]), lines[n][k])
         /\ Delta(lines[m], j + 1, Len(lines[m]), lines[n][k]) \in Int
<1> DEFINE s == lines[m]
           c == lines[n][k]
           L == Len(s)
           d == Left(n, k, m - 1)
<1>1. L \in Nat /\ j \in Int /\ L \in Int /\ j \in 0 .. L /\ L \in 0 .. L /\ 1 - 1 <= j /\ j <= L /\ 1 \in Int /\ j + 1 \in Int
  BY LinesType
<1>2. d \in Int
  <2>1. m - 1 \in n .. Len(lines)
    BY LinesType
  <2> QED BY <2>1, LeftType
<1>3. Open(<<n, k>>, <<m, j>>) = d + Delta(s, 1, j, c) /\ Left(n, k, m) = d + Delta(s, 1, L, c)
  BY <1>1, OpenNext DEF Left
<1> HIDE DEF s, c, L, d
<1>4. Delta(s, 1, L, c) = Delta(s, 1, j, c) + Delta(s, j + 1, L, c)
  BY <1>1, DepthSplit DEF Delta
<1>5. Delta(s, 1, j, c) \in Int /\ Delta(s, j + 1, L, c) \in Int
  BY <1>1, DepthType DEF Delta
<1>6. Left(n, k, m) = Open(<<n, k>>, <<m, j>>) + Delta(s, j + 1, L, c)
  BY <1>2, <1>3, <1>4, <1>5
<1> QED BY <1>5, <1>6 DEF s, L, c

\* The bracket that closes the one at <<n, k>>, by lines and positions.
Inside(n, k, m, j, h, i) ==
  /\ h \in n .. m /\ i \in 1 .. Len(lines[h]) /\ (h = n => i >= k) /\ (h = m => i < j)

ClosesHere(n, k, m, j) ==
  /\ m > n \/ (m = n /\ k < j)
  /\ lines[m][j] = EndChar(lines[n][k]) /\ Open(<<n, k>>, <<m, j>>) = 0
  /\ \A h, i : Inside(n, k, m, j, h, i) => Open(<<n, k>>, <<h, i>>) > 0

LEMMA ClosesIs ==
  ASSUME TextOK, NEW n \in 1 .. Len(lines), NEW k \in 1 .. Len(lines[n]),
         NEW m \in 1 .. Len(lines), NEW j \in 1 .. Len(lines[m])
  PROVE  Closes(<<n, k>>, <<m, j>>) <=> ClosesHere(n, k, m, j)
<1>1. Len(lines) \in Nat /\ Len(lines[n]) \in Nat /\ Len(lines[m]) \in Nat
  BY LinesType
<1>2. /\ Char(<<n, k>>) = lines[n][k] /\ Char(<<m, j>>) = lines[m][j]
      /\ Precedes(<<n, k>>, <<m, j>>) <=> n < m \/ (n = m /\ k < j)
  BY DEF Char, Precedes
<1>3. ASSUME Closes(<<n, k>>, <<m, j>>), NEW h, NEW i, Inside(n, k, m, j, h, i)
      PROVE  Open(<<n, k>>, <<h, i>>) > 0
  <2>1. h \in 1 .. Len(lines) /\ i \in 1 .. Len(lines[h])
    BY <1>1, <1>3 DEF Inside
  <2>2. Len(lines[h]) \in Nat
    BY <2>1, LinesType
  <2>3. (h < m \/ (h = m /\ i < j)) /\ ~(h < n \/ (h = n /\ i < k))
    BY <1>1, <1>3, <2>1, <2>2 DEF Inside
  <2>4. <<h, i>> \in Places
    BY <2>1, PlacesAre
  <2>5. Precedes(<<h, i>>, <<m, j>>) /\ ~Precedes(<<h, i>>, <<n, k>>)
    BY <2>3 DEF Precedes
  <2> QED BY <1>3, <2>4, <2>5 DEF Closes
<1>4. ASSUME Closes(<<n, k>>, <<m, j>>) PROVE ClosesHere(n, k, m, j)
  <2>1. /\ Precedes(<<n, k>>, <<m, j>>) /\ lines[m][j] = EndChar(lines[n][k])
        /\ Open(<<n, k>>, <<m, j>>) = 0
    BY <1>2, <1>4 DEF Closes
  <2>2. m > n \/ (m = n /\ k < j)
    BY <1>1, <1>2, <2>1
  <2> QED BY <1>3, <1>4, <2>1, <2>2 DEF ClosesHere
<1>5. ASSUME ClosesHere(n, k, m, j) PROVE Closes(<<n, k>>, <<m, j>>)
  <2>1. ASSUME NEW r \in Places, Precedes(r, <<m, j>>), ~Precedes(r, <<n, k>>)
        PROVE  Open(<<n, k>>, r) > 0
    <3>1. PICK h, i : h \in 1 .. Len(lines) /\ i \in 1 .. Len(lines[h]) /\ r = <<h, i>>
      BY PlacesAre
    <3>2. r[1] = h /\ r[2] = i /\ Len(lines[h]) \in Nat
      BY <3>1, LinesType
    <3>3. (h < m \/ (h = m /\ i < j)) /\ ~(h < n \/ (h = n /\ i < k))
      BY <2>1, <3>2 DEF Precedes
    <3>4. Inside(n, k, m, j, h, i)
      BY <1>1, <3>1, <3>2, <3>3 DEF Inside
    <3> QED BY <1>5, <3>1, <3>4 DEF ClosesHere
  <2>2. Precedes(<<n, k>>, <<m, j>>)
    BY <1>1, <1>2, <1>5 DEF ClosesHere
  <2> QED BY <1>2, <1>5, <2>1, <2>2 DEF Closes, ClosesHere
<1> QED BY <1>4, <1>5

\* CloseExpression in these terms.
ClosingLines(n, k) == {m \in (n + 1) .. Len(lines) : Left(n, k, m) <= 0}

LEMMA CloseIs ==
  ASSUME TextOK, NEW n \in 1 .. Len(lines), NEW k \in 1 .. Len(lines[n])
  PROVE  CloseExpression(n, k) =
            IF EndHere(n, k) > 0 THEN <<n, EndHere(n, k)>>
            ELSE IF ClosingLines(n, k) = {} THEN Nowhere
            ELSE <<Min(ClosingLines(n, k)), EndBelow(n, k, Min(ClosingLines(n, k)))>>
<1> DEFINE N == Len(lines)
           T == ClosingLines(n, k)
           U == {m \in (n + 1)..N : NumOpen(n, k, m) <= 0}
           b == Min(T)
<1>1. N \in Nat /\ n \in 1 .. N
  BY LinesType
<1>2. \A m \in (n + 1) .. N : m \in n .. N
  BY <1>1
<1>3. \A m \in (n + 1) .. N : NumOpen(n, k, m) = Left(n, k, m)
  BY <1>2, NumOpenIs
<1>4. U = T
  BY <1>3 DEF ClosingLines
<1>5. T # {} => NumOpen(n, k, b - 1) = Left(n, k, b - 1)
  <2> SUFFICES ASSUME T # {} PROVE NumOpen(n, k, b - 1) = Left(n, k, b - 1)
    OBVIOUS
  <2>1. T \subseteq 1 .. N
    BY <1>1 DEF ClosingLines
  <2>2. b \in T
    BY <1>1, <2>1, LeastPosition
  <2>3. b - 1 \in n .. N
    BY <1>1, <2>2 DEF ClosingLines
  <2> QED BY <2>3, NumOpenIs
<1>6. CloseExpression(n, k) =
        IF EndHere(n, k) > 0 THEN <<n, EndHere(n, k)>>
        ELSE IF U = {} THEN Nowhere
        ELSE <<Min(U), FindEndOfExpressionInLine(lines[Min(U)], 1, NumOpen(n, k, Min(U) - 1), lines[n][k])>>
  BY DEF CloseExpression, EndHere
<1> HIDE DEF U, T
<1> QED BY <1>4, <1>5, <1>6 DEF EndBelow, T

\* What CloseFindsMatch says of a bracket, a place at a time.
Ends(n, k) == {q \in Places : Closes(<<n, k>>, q)}
Agrees(n, k, found, q) ==
  IF Reopened(<<n, k>>, q) THEN found = Nowhere \/ found[1] > q[1] ELSE found = q

LEMMA EndsAt ==
  ASSUME TextOK, NEW n \in 1 .. Len(lines), NEW k \in 1 .. Len(lines[n]), NEW q
  PROVE  q \in Ends(n, k) <=>
            \E m \in 1 .. Len(lines) : \E j \in 1 .. Len(lines[m]) :
                q = <<m, j>> /\ ClosesHere(n, k, m, j)
BY PlacesAre, ClosesIs DEF Ends

LEMMA ReopenedIs ==
  ASSUME NEW n, NEW k, NEW m, NEW j
  PROVE  Reopened(<<n, k>>, <<m, j>>)
           <=> m > n /\ Delta(lines[m], j + 1, Len(lines[m]), lines[n][k]) > 0
BY DEF Reopened, Char

\* The expression ends in its first line:
LEMMA CloseInLine ==
  ASSUME TextOK, NEW n \in 1 .. Len(lines), NEW k \in 1 .. Len(lines[n]), lines[n][k] \in Opening,
         NEW j, j = EndHere(n, k), j # 0
  PROVE  /\ <<n, j>> \in Ends(n, k)
         /\ \A q \in Ends(n, k) : Agrees(n, k, <<n, j>>, q)
<1> DEFINE L == Len(lines[n])
<1>1. L \in Nat /\ Len(lines) \in Nat /\ k \in 1 .. L
  BY LinesType
<1>2. /\ j \in k .. L /\ lines[n][j] = EndChar(lines[n][k]) /\ Open(<<n, k>>, <<n, j>>) = 0
      /\ \A i \in k .. (j - 1) : Open(<<n, k>>, <<n, i>>) > 0
  BY FirstLineEnd DEF EndIn
<1>3. lines[n][k] # EndChar(lines[n][k])
  BY EndCharacters
<1> HIDE DEF L
<1>4. k < j /\ j \in 1 .. L
  <2>1. j # k
    BY <1>2, <1>3
  <2> QED BY <1>1, <1>2, <2>1
<1>5. ASSUME NEW h, NEW i, Inside(n, k, n, j, h, i) PROVE Open(<<n, k>>, <<h, i>>) > 0
  <2>1. h = n /\ i \in k .. (j - 1)
    BY <1>1, <1>2, <1>5 DEF Inside, L
  <2> QED BY <1>2, <2>1
<1>6. ClosesHere(n, k, n, j)
  BY <1>2, <1>4, <1>5 DEF ClosesHere
<1>7. <<n, j>> \in Ends(n, k)
  BY <1>4, <1>6, EndsAt DEF L
<1>8. ASSUME NEW q \in Ends(n, k) PROVE Agrees(n, k, <<n, j>>, q)
  <2>1. PICK m, i : m \in 1 .. Len(lines) /\ i \in 1 .. Len(lines[m]) /\ q = <<m, i>> /\ ClosesHere(n, k, m, i)
    BY EndsAt
  <2>2. (m > n \/ (m = n /\ k < i)) /\ Open(<<n, k>>, <<m, i>>) = 0 /\ Len(lines[m]) \in Nat
    BY <2>1, LinesType DEF ClosesHere
  <2>3. CASE m > n \/ i > j
    <3>1. Inside(n, k, m, i, n, j)
      BY <1>1, <1>2, <1>4, <2>1, <2>2, <2>3 DEF Inside, L
    <3>2. Open(<<n, k>>, <<n, j>>) > 0
      BY <2>1, <3>1 DEF ClosesHere
    <3> QED BY <1>2, <3>2
  <2>4. CASE m = n /\ i < j
    <3>1. i \in k .. (j - 1)
      BY <1>1, <1>2, <2>1, <2>2, <2>4
    <3>2. Open(<<n, k>>, <<n, i>>) > 0
      BY <1>2, <3>1
    <3> QED BY <2>2, <2>4, <3>2
  <2>5. CASE m = n /\ i = j
    <3>1. ~(n > n)
      BY <1>1
    <3>2. ~Reopened(<<n, k>>, <<n, j>>)
      BY <3>1, ReopenedIs
    <3> QED BY <2>1, <2>5, <3>2 DEF Agrees
  <2> QED BY <1>1, <1>2, <2>1, <2>2, <2>3, <2>4, <2>5
<1> QED BY <1>7, <1>8

\* or below it.
Below(n, k) == \A i \in k .. Len(lines[n]) : Open(<<n, k>>, <<n, i>>) > 0

LEMMA BelowFirst ==
  ASSUME TextOK, NEW n \in 1 .. Len(lines), NEW k \in 1 .. Len(lines[n]), lines[n][k] \in Opening,
         EndHere(n, k) = 0
  PROVE  /\ Below(n, k) /\ Left(n, k, n) > 0
         /\ \A q \in Ends(n, k) : \E m \in (n + 1) .. Len(lines) : \E j \in 1 .. Len(lines[m]) :
                q = <<m, j>> /\ ClosesHere(n, k, m, j)
<1>1. Len(lines) \in Nat /\ Len(lines[n]) \in Nat
  BY LinesType
<1>2. Below(n, k)
  BY FirstLineEnd DEF EndIn, Below
<1>3. Left(n, k, n) > 0
  <2>1. Len(lines[n]) \in k .. Len(lines[n])
    BY <1>1
  <2> QED BY <1>2, <2>1 DEF Below, Left
<1>4. ASSUME NEW q \in Ends(n, k)
      PROVE  \E m \in (n + 1) .. Len(lines) : \E j \in 1 .. Len(lines[m]) :
                q = <<m, j>> /\ ClosesHere(n, k, m, j)
  <2>1. PICK m, j : m \in 1 .. Len(lines) /\ j \in 1 .. Len(lines[m]) /\ q = <<m, j>> /\ ClosesHere(n, k, m, j)
    BY EndsAt
  <2>2. (m > n \/ (m = n /\ k < j)) /\ Open(<<n, k>>, <<m, j>>) = 0 /\ Len(lines[m]) \in Nat
    BY <2>1, LinesType DEF ClosesHere
  <2>3. CASE m = n
    <3>1. j \in k .. Len(lines[n])
      BY <1>1, <2>1, <2>2, <2>3
    <3>2. Open(<<n, k>>, <<m, j>>) > 0
      BY <1>2, <2>3, <3>1 DEF Below
    <3> QED BY <2>2, <3>2
  <2>4. CASE m # n
    <3>1. m \in (n + 1) .. Len(lines)
      BY <1>1, <2>1, <2>2, <2>4
    <3> QED BY <2>1, <3>1
  <2> QED BY <2>3, <2>4
<1> QED BY <1>2, <1>3, <1>4

\* Where a line leaves something open, an end in it is followed by another
\* bracket that stays open.
LEMMA ReopenedWhere ==
  ASSUME TextOK, NEW n \in 1 .. Len(lines), NEW k \in 1 .. Len(lines[n]),
         NEW m \in (n + 1) .. Len(lines), NEW j \in 1 .. Len(lines[m]), Open(<<n, k>>, <<m, j>>) = 0
  PROVE  Reopened(<<n, k>>, <<m, j>>) <=> Left(n, k, m) > 0
<1> DEFINE D == Delta(lines[m], j + 1, Len(lines[m]), lines[n][k])
<1>1. Left(n, k, m) = Open(<<n, k>>, <<m, j>>) + D /\ D \in Int
  BY LeftSplit
<1>2. Reopened(<<n, k>>, <<m, j>>) <=> m > n /\ D > 0
  BY ReopenedIs
<1>3. m > n
  BY LinesType
<1> HIDE DEF D
<1>4. Left(n, k, m) = D
  BY <1>1
<1> QED BY <1>2, <1>3, <1>4

LEMMA CloseNowhere ==
  ASSUME TextOK, NEW n \in 1 .. Len(lines), NEW k \in 1 .. Len(lines[n]), lines[n][k] \in Opening,
         EndHere(n, k) = 0, ClosingLines(n, k) = {}, NEW q \in Ends(n, k)
  PROVE  Agrees(n, k, Nowhere, q)
<1>1. PICK m, j : m \in (n + 1) .. Len(lines) /\ j \in 1 .. Len(lines[m]) /\ q = <<m, j>> /\ ClosesHere(n, k, m, j)
  BY BelowFirst
<1>2. Left(n, k, m) > 0
  <2>1. ~(Left(n, k, m) <= 0)
    BY <1>1 DEF ClosingLines
  <2>2. m \in n .. Len(lines)
    BY <1>1, LinesType
  <2>3. Left(n, k, m) \in Int
    BY <2>2, LeftType
  <2> QED BY <2>1, <2>3
<1>3. Open(<<n, k>>, <<m, j>>) = 0
  BY <1>1 DEF ClosesHere
<1>4. Reopened(<<n, k>>, q)
  BY <1>1, <1>2, <1>3, ReopenedWhere
<1> QED BY <1>4 DEF Agrees

LEMMA CloseBelow ==
  ASSUME TextOK, NEW n \in 1 .. Len(lines), NEW k \in 1 .. Len(lines[n]), lines[n][k] \in Opening,
         EndHere(n, k) = 0, ClosingLines(n, k) # {},
         NEW b, b = Min(ClosingLines(n, k)), NEW e, e = EndBelow(n, k, b)
  PROVE  /\ Ends(n, k) # {}
         /\ \A q \in Ends(n, k) : Agrees(n, k, <<b, e>>, q)
<1> DEFINE N == Len(lines)
           T == ClosingLines(n, k)
<1>1. N \in Nat /\ n \in 1 .. N /\ Len(lines[n]) \in Nat
  BY LinesType
<1>2. b \in T /\ \A m \in T : b <= m
  <2>1. T \subseteq 1 .. N
    BY <1>1 DEF ClosingLines
  <2> HIDE DEF T, N
  <2> QED BY <1>1, <2>1, LeastPosition DEF T
<1>3. b \in (n + 1) .. N /\ Left(n, k, b) <= 0 /\ b \in Int
  BY <1>1, <1>2 DEF ClosingLines
<1>4. \A m \in n .. N : Left(n, k, m) \in Int
  BY LeftType
<1>5. Below(n, k) /\ Left(n, k, n) > 0
  BY BelowFirst
<1> HIDE DEF N
\* The lines above leave something open.
<1>6. ASSUME NEW m \in n .. (b - 1) PROVE Left(n, k, m) > 0
  <2>1. CASE m = n
    BY <1>5, <2>1
  <2>2. CASE m # n
    <3>1. m \in (n + 1) .. N /\ m \in n .. N /\ ~(b <= m)
      BY <1>1, <1>3, <2>2
    <3>2. m \notin T
      BY <1>2, <3>1
    <3>3. ~(Left(n, k, m) <= 0)
      BY <3>1, <3>2 DEF ClosingLines, N
    <3> QED BY <1>4, <3>1, <3>3
  <2> QED BY <2>1, <2>2
<1>7. ASSUME NEW m \in (n + 1) .. b PROVE EndIn(n, k, m, 1, EndBelow(n, k, m))
  <2>1. m \in (n + 1) .. N /\ m - 1 \in n .. (b - 1)
    BY <1>1, <1>3
  <2>2. Left(n, k, m - 1) > 0
    BY <1>6, <2>1
  <2> QED BY <2>1, <2>2, NextLineEnd DEF N
\* So the search finds an end in line b,
<1>8. e # 0
  <2> SUFFICES ASSUME e = 0 PROVE FALSE
    OBVIOUS
  <2>1. b \in (n + 1) .. b /\ b - 1 \in n .. (b - 1) /\ b \in 1 .. N /\ b - 1 \in n .. N
    BY <1>1, <1>3
  <2>2. \A i \in 1 .. Len(lines[b]) : Open(<<n, k>>, <<b, i>>) > 0
    BY <1>7, <2>1 DEF EndIn
  <2>3. Len(lines[b]) \in Nat
    BY <2>1, LinesType DEF N
  <2>4. CASE Len(lines[b]) > 0
    <3>1. Len(lines[b]) \in 1 .. Len(lines[b])
      BY <2>3, <2>4
    <3>2. Left(n, k, b) > 0
      BY <2>2, <3>1 DEF Left
    <3>3. Left(n, k, b) \in Int
      BY <1>1, <1>3, <1>4
    <3> QED BY <1>3, <3>2, <3>3
  <2>5. CASE Len(lines[b]) = 0
    <3>1. Left(n, k, b) = Left(n, k, b - 1) + Delta(lines[b], 1, 0, lines[n][k])
      <4>1. 0 \in 0 .. Len(lines[b])
        BY <2>3
      <4> QED BY <1>3, <2>5, <4>1, OpenNext DEF Left, N
    <3>2. Delta(lines[b], 1, 0, lines[n][k]) = 0
      <4>1. 1 \in Int /\ 0 \in Int /\ 0 < 1
        OBVIOUS
      <4> QED BY <4>1, DepthType DEF Delta
    <3>3. Left(n, k, b - 1) > 0 /\ Left(n, k, b - 1) \in Int
      BY <1>4, <1>6, <2>1
    <3> QED BY <1>3, <3>1, <3>2, <3>3
  <2> QED BY <2>3, <2>4, <2>5
<1>9. /\ e \in 1 .. Len(lines[b]) /\ Open(<<n, k>>, <<b, e>>) = 0
      /\ \A i \in 1 .. (e - 1) : Open(<<n, k>>, <<b, i>>) > 0
  <2>1. b \in (n + 1) .. b
    BY <1>1, <1>3
  <2> QED BY <1>7, <1>8, <2>1 DEF EndIn
\* and the first line with an end has the one that closes the expression.
<1>10. Ends(n, k) # {}
  <2> DEFINE W == {m \in (n + 1) .. b : EndBelow(n, k, m) # 0}
  <2>1. b \in W /\ W \subseteq 1 .. N
    BY <1>1, <1>3, <1>8
  <2>2. PICK m \in W : \A x \in W : m <= x
    <3> HIDE DEF W
    <3>1. Min(W) \in W /\ \A y \in W : Min(W) <= y
      BY <1>1, <2>1, LeastPosition
    <3> QED BY <3>1
  <2> DEFINE j == EndBelow(n, k, m)
  <2>3. m \in (n + 1) .. b /\ j # 0 /\ m \in 1 .. N
    BY <1>1, <1>3, <2>1
  <2>4. /\ j \in 1 .. Len(lines[m]) /\ lines[m][j] = EndChar(lines[n][k]) /\ Open(<<n, k>>, <<m, j>>) = 0
        /\ \A i \in 1 .. (j - 1) : Open(<<n, k>>, <<m, i>>) > 0
    BY <1>7, <2>3 DEF EndIn
  <2>5. Len(lines[m]) \in Nat
    BY <2>3, LinesType DEF N
  <2> HIDE DEF j
  <2>6. ASSUME NEW h, NEW i, Inside(n, k, m, j, h, i) PROVE Open(<<n, k>>, <<h, i>>) > 0
    <3>1. /\ h \in n .. m /\ i \in 1 .. Len(lines[h]) /\ (h = n => i >= k) /\ (h = m => i < j)
          /\ h \in 1 .. N
      BY <1>1, <1>3, <2>3, <2>6 DEF Inside
    <3>2. Len(lines[h]) \in Nat
      BY <3>1, LinesType DEF N
    <3>3. CASE h = n
      <4>1. i \in k .. Len(lines[n])
        BY <1>1, <3>1, <3>3
      <4> QED BY <1>5, <3>3, <4>1 DEF Below
    <3>4. CASE h = m
      <4>1. i \in 1 .. (j - 1)
        BY <2>4, <2>5, <3>1, <3>4
      <4> QED BY <2>4, <3>4, <4>1
    <3>5. CASE h # n /\ h # m
      <4>1. h \in (n + 1) .. b /\ ~(m <= h)
        BY <1>1, <1>3, <2>3, <3>1, <3>5
      <4>2. EndBelow(n, k, h) = 0
        BY <2>2, <4>1
      <4> QED BY <1>7, <3>1, <4>1, <4>2 DEF EndIn
    <3> QED BY <3>3, <3>4, <3>5
  <2>7. ClosesHere(n, k, m, j)
    <3>1. m > n
      BY <1>1, <1>3, <2>3
    <3> QED BY <2>4, <2>6, <3>1 DEF ClosesHere
  <2>8. <<m, j>> \in Ends(n, k)
    BY <2>3, <2>4, <2>7, EndsAt DEF N
  <2> QED BY <2>8
<1>11. ASSUME NEW q \in Ends(n, k) PROVE Agrees(n, k, <<b, e>>, q)
  <2>1. PICK m, j : m \in (n + 1) .. N /\ j \in 1 .. Len(lines[m]) /\ q = <<m, j>> /\ ClosesHere(n, k, m, j)
    BY BelowFirst DEF N
  <2>2. Open(<<n, k>>, <<m, j>>) = 0 /\ m \in 1 .. N /\ Len(lines[m]) \in Nat /\ m \in n .. N /\ b \in 1 .. N
    BY <1>1, <1>3, <2>1, LinesType DEF ClosesHere, N
  <2>3. Len(lines[b]) \in Nat
    BY <2>2, LinesType DEF N
  <2>4. Reopened(<<n, k>>, <<m, j>>) <=> Left(n, k, m) > 0
    BY <2>1, <2>2, ReopenedWhere DEF N
  <2>5. CASE m < b
    <3>1. m \in n .. (b - 1)
      BY <1>3, <2>1, <2>2, <2>5
    <3>2. Reopened(<<n, k>>, q)
      BY <1>6, <2>1, <2>4, <3>1
    <3>3. q[1] = m /\ <<b, e>>[1] = b /\ b > m
      BY <1>3, <2>1, <2>2, <2>5
    <3> QED BY <3>2, <3>3 DEF Agrees
  <2>6. CASE m > b \/ (m = b /\ j > e)
    <3>1. Inside(n, k, m, j, b, e)
      BY <1>1, <1>3, <1>9, <2>1, <2>2, <2>3, <2>6 DEF Inside
    <3>2. Open(<<n, k>>, <<b, e>>) > 0
      BY <2>1, <3>1 DEF ClosesHere
    <3> QED BY <1>9, <3>2
  <2>7. CASE m = b /\ j < e
    <3>1. j \in 1 .. (e - 1)
      BY <1>9, <2>1, <2>2, <2>7
    <3>2. Open(<<n, k>>, <<m, j>>) > 0
      BY <1>9, <2>7, <3>1
    <3> QED BY <2>2, <3>2
  <2>8. CASE m = b /\ j = e
    <3>1. ~(Left(n, k, b) > 0)
      <4>1. Left(n, k, b) \in Int
        BY <1>4, <2>2, <2>8
      <4> QED BY <1>3, <4>1
    <3>2. ~Reopened(<<n, k>>, q)
      BY <2>1, <2>4, <2>8, <3>1
    <3> QED BY <2>1, <2>8, <3>2 DEF Agrees
  <2>9. j \in Int /\ e \in Int /\ m \in Int
    BY <1>9, <2>1, <2>2, <2>3
  <2> QED BY <1>3, <2>5, <2>6, <2>7, <2>8, <2>9
<1> QED BY <1>10, <1>11

\* CloseExpression finds the bracket that closes an expression in every file,
\* except where the line of that bracket opens another one behind it; there
\* the search goes past it.
THEOREM LintCloseFindsMatch == Spec => []CloseFindsMatch
<1>1. TextOK => CloseFindsMatch
  <2> SUFFICES ASSUME TextOK, NEW p \in Places, Char(p) \in Opening
               PROVE  LET found == CloseExpression(p[1], p[2])
                          ends == {q \in Places : Closes(p, q)}
                      IN  /\ ends = {} => found = Nowhere
                          /\ \A q \in ends :
                                IF Reopened(p, q) THEN found = Nowhere \/ found[1] > q[1] ELSE found = q
    BY DEF CloseFindsMatch
  <2>1. PICK n, k : n \in 1 .. Len(lines) /\ k \in 1 .. Len(lines[n]) /\ p = <<n, k>>
    BY PlacesAre
  <2>2. p[1] = n /\ p[2] = k /\ lines[n][k] \in Opening
    BY <2>1 DEF Char
  <2> DEFINE found == CloseExpression(n, k)
  <2>3. (Ends(n, k) = {} => found = Nowhere) /\ \A q \in Ends(n, k) : Agrees(n, k, found, q)
    <3> DEFINE j == EndHere(n, k)
               b == Min(ClosingLines(n, k))
    <3>1. found = IF j > 0 THEN <<n, j>>
                  ELSE IF ClosingLines(n, k) = {} THEN Nowhere ELSE <<b, EndBelow(n, k, b)>>
      BY <2>1, CloseIs
    <3>2. j = 0 \/ j > 0
      <4>1. EndIn(n, k, n, k, j) /\ Len(lines[n]) \in Nat
        BY <2>1, <2>2, FirstLineEnd, LinesType
      <4> HIDE DEF j
      <4> QED BY <2>1, <4>1 DEF EndIn
    <3> HIDE DEF j, b, found
    <3>3. CASE j > 0
      <4>1. found = <<n, j>> /\ j # 0
        BY <3>1, <3>3
      <4> QED BY <2>1, <2>2, <4>1, CloseInLine DEF j
    <3>4. CASE j = 0 /\ ClosingLines(n, k) = {}
      <4>1. found = Nowhere
        BY <3>1, <3>4
      <4> QED BY <2>1, <2>2, <3>4, <4>1, CloseNowhere DEF j
    <3>5. CASE j = 0 /\ ClosingLines(n, k) # {}
      <4>1. found = <<b, EndBelow(n, k, b)>>
        BY <3>1, <3>5
      <4> QED BY <2>1, <2>2, <3>5, <4>1, CloseBelow DEF j, b
    <3> QED BY <3>2, <3>3, <3>4, <3>5
  <2> QED BY <2>1, <2>2, <2>3 DEF Ends, Agrees
<1> QED BY <1>1, TextInvariant, PTL

=============================================================================
