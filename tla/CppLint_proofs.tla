--------------------------- MODULE CppLint_proofs ---------------------------
(***************************************************************************)
(* Which complaints of cpplint are printed and what is counted, for any    *)
(* files, options and categories.                                          *)
(***************************************************************************)
EXTENDS CppLint, SequenceTheorems, FiniteSetTheorems, WellFoundedInduction,
        NaturalsInduction, TLAPS

(***************************************************************************)
(* Induction and the elements of sets of positions.                        *)
(***************************************************************************)
LEMMA LeastExists ==
  ASSUME NEW T, T \subseteq Nat, T # {}
  PROVE  \E x \in T : \A y \in T : x <= y
<1>1. PICK x \in T : \A y \in T : ~(<<y, x>> \in OpToRel(<, Nat))
  BY NatLessThanWellFounded, WFMin
<1>2. \A y \in T : ~(y < x)
  BY <1>1 DEF OpToRel
<1> QED BY <1>2

\* T holds the numbers of which something has been shown.
LEMMA UpTo ==
  ASSUME NEW N \in Nat, NEW T, 0 \in T, \A i \in 1 .. N : i - 1 \in T => i \in T
  PROVE  \A i \in 0 .. N : i \in T
<1> SUFFICES ASSUME (0 .. N) \ T # {} PROVE FALSE
  OBVIOUS
<1>1. PICK x \in (0 .. N) \ T : \A y \in (0 .. N) \ T : x <= y
  <2>1. (0 .. N) \ T \subseteq Nat
    OBVIOUS
  <2> QED BY <2>1, LeastExists
<1>2. x # 0 /\ x \in 1 .. N /\ x - 1 \in 0 .. N
  BY <1>1
<1>3. x - 1 \in T
  BY <1>1, <1>2
<1> QED BY <1>1, <1>2, <1>3

LEMMA LeastPosition ==
  ASSUME NEW N \in Nat, NEW T, T \subseteq 1 .. N, T # {}
  PROVE  Min(T) \in T /\ \A y \in T : Min(T) <= y
<1>1. T \subseteq Nat
  OBVIOUS
<1>2. \E x \in T : \A y \in T : x <= y
  BY <1>1, LeastExists
<1> QED BY <1>2 DEF Min

LEMMA LastPosition ==
  ASSUME NEW N \in Nat, NEW T, T \subseteq 1 .. N, T # {}
  PROVE  Max(T) \in T /\ \A y \in T : Max(T) >= y
<1> DEFINE U == {N - i : i \in T}
<1>1. U \subseteq Nat /\ U # {}
  <2>1. \A i \in T : N - i \in Nat
    OBVIOUS
  <2> QED BY <2>1
<1>2. PICK u \in U : \A v \in U : u <= v
  BY <1>1, LeastExists
<1>3. PICK x \in T : u = N - x
  OBVIOUS
<1>4. ASSUME NEW y \in T PROVE x >= y
  <2>1. N - x <= N - y
    BY <1>2, <1>3
  <2> QED BY <2>1
<1>5. \E z \in T : \A y \in T : z >= y
  BY <1>4
<1> QED BY <1>5 DEF Max

-----------------------------------------------------------------------------
(***************************************************************************)
(* The folds.  FoldLeft takes the positions of a sequence away from the    *)
(* last one down; h is its operator, applied to a value and a position.    *)
(***************************************************************************)
Peels(g, N, base, h) ==
  g = [T \in SUBSET (1 .. N) |-> IF T = {} THEN base ELSE h[Max(T)][g[T \ {Max(T)}]]]

LEMMA FoldExists ==
  ASSUME NEW N \in Nat, NEW V, NEW base \in V, NEW h \in [1 .. N -> [V -> V]]
  PROVE  \E g \in [SUBSET (1 .. N) -> V] : Peels(g, N, base, h)
<1> DEFINE Good == {n \in 0 .. N : \E g \in [SUBSET (1 .. n) -> V] : Peels(g, n, base, h)}
<1>1. 0 \in Good
  <2> DEFINE g == [T \in SUBSET (1 .. 0) |-> base]
  <2>1. 1 .. 0 = {} /\ 0 \in 0 .. N
    OBVIOUS
  <2>2. SUBSET (1 .. 0) = {{}}
    BY <2>1
  <2>3. g \in [SUBSET (1 .. 0) -> V] /\ Peels(g, 0, base, h)
    BY <2>2 DEF Peels
  <2> QED BY <2>1, <2>3
<1>2. ASSUME NEW n \in 1 .. N, n - 1 \in Good PROVE n \in Good
  <2>1. PICK g \in [SUBSET (1 .. (n - 1)) -> V] : Peels(g, n - 1, base, h)
    BY <1>2
  <2> DEFINE g2 == [T \in SUBSET (1 .. n) |-> IF n \in T THEN h[n][g[T \ {n}]] ELSE g[T]]
  <2>2. \A T \in SUBSET (1 .. n) : /\ n \in T => T \ {n} \in SUBSET (1 .. (n - 1))
                                   /\ n \notin T => T \in SUBSET (1 .. (n - 1))
    OBVIOUS
  <2>3. g2 \in [SUBSET (1 .. n) -> V]
    BY <2>1, <2>2
  <2>4. ASSUME NEW T \in SUBSET (1 .. n)
        PROVE  g2[T] = IF T = {} THEN base ELSE h[Max(T)][g2[T \ {Max(T)}]]
    <3>1. CASE n \in T
      <4>1. Max(T) = n
        <5>1. n \in Nat /\ T \subseteq 1 .. n /\ T # {}
          BY <3>1
        <5>2. Max(T) \in T /\ \A y \in T : Max(T) >= y
          BY <5>1, LastPosition
        <5>3. Max(T) \in 1 .. n /\ Max(T) >= n
          BY <3>1, <5>2
        <5> QED BY <5>1, <5>3
      <4>2. T \ {n} \in SUBSET (1 .. n) /\ n \notin T \ {n}
        OBVIOUS
      <4> QED BY <3>1, <4>1, <4>2
    <3>2. CASE n \notin T
      <4>1. T \in SUBSET (1 .. (n - 1))
        BY <2>2, <3>2
      <4>2. g[T] = IF T = {} THEN base ELSE h[Max(T)][g[T \ {Max(T)}]]
        BY <2>1, <4>1 DEF Peels
      <4>3. T \ {Max(T)} \in SUBSET (1 .. n) /\ n \notin T \ {Max(T)}
        BY <3>2
      <4> QED BY <3>2, <4>2, <4>3
    <3> QED BY <3>1, <3>2
  <2>5. Peels(g2, n, base, h)
    <3> DEFINE g3 == [T \in SUBSET (1 .. n) |-> IF T = {} THEN base ELSE h[Max(T)][g2[T \ {Max(T)}]]]
    <3>1. \A T \in SUBSET (1 .. n) : g2[T] = g3[T]
      BY <2>4
    <3> HIDE DEF g2
    <3>2. g2 = g3
      BY <2>3, <3>1
    <3> QED BY <3>2 DEF Peels
  <2>6. n \in 0 .. N
    OBVIOUS
  <2> HIDE DEF g2
  <2> QED BY <2>3, <2>5, <2>6
<1> HIDE DEF Good
<1>3. N \in Good
  <2>1. \A i \in 1 .. N : i - 1 \in Good => i \in Good
    BY <1>2
  <2>2. \A i \in 0 .. N : i \in Good
    BY <1>1, <2>1, UpTo
  <2> QED BY <2>2
<1> QED BY <1>3 DEF Good

\* The positions up to i.
LEMMA FirstPositions ==
  ASSUME NEW N \in Nat, NEW i \in 1 .. N
  PROVE  /\ Max(1 .. i) = i /\ (1 .. i) \ {i} = 1 .. (i - 1)
         /\ 1 .. i \in SUBSET (1 .. N) /\ 1 .. i # {}
<1>1. 1 .. i \subseteq 1 .. N /\ i \in 1 .. i /\ i \in Nat
  OBVIOUS
<1>2. Max(1 .. i) \in 1 .. i /\ \A y \in 1 .. i : Max(1 .. i) >= y
  BY <1>1, LastPosition
<1>3. Max(1 .. i) = i
  BY <1>1, <1>2
<1>4. (1 .. i) \ {i} = 1 .. (i - 1)
  OBVIOUS
<1> QED BY <1>1, <1>3, <1>4

\* Only, element by element.
Keeps(G, s, P) ==
  /\ G[0] = <<>> /\ G[Len(s)] = Only(s, P)
  /\ \A i \in 1 .. Len(s) : G[i] = IF s[i] \in P THEN Append(G[i - 1], s[i]) ELSE G[i - 1]

LEMMA OnlyValues ==
  ASSUME NEW S, NEW s \in Seq(S), NEW P
  PROVE  \E G \in [0 .. Len(s) -> Seq(S)] : Keeps(G, s, P)
<1> DEFINE N == Len(s)
           D == DOMAIN s
           V == Seq(S)
           h == [i \in 1 .. N |-> [v \in V |-> IF s[i] \in P THEN Append(v, s[i]) ELSE v]]
           Rec(g) == [T \in SUBSET D |-> IF T = {} THEN <<>>
                        ELSE IF s[Max(T)] \in P THEN Append(g[T \ {Max(T)}], s[Max(T)])
                             ELSE g[T \ {Max(T)}]]
<1>1. N \in Nat /\ D = 1 .. N /\ <<>> \in V /\ \A i \in 1 .. N : s[i] \in S
  BY LenProperties, ElementOfSeq, EmptySeq
<1>2. h \in [1 .. N -> [V -> V]]
  <2>1. \A v \in V, i \in 1 .. N : Append(v, s[i]) \in V
    BY <1>1, AppendProperties
  <2> QED BY <2>1
<1>3. \A v \in V, i \in 1 .. N : h[i][v] = IF s[i] \in P THEN Append(v, s[i]) ELSE v
  OBVIOUS
<1> HIDE DEF N, D, V, h
<1>4. ASSUME NEW g \in [SUBSET (1 .. N) -> V]
      PROVE  Peels(g, N, <<>>, h) <=> g = Rec(g)
  <2>1. ASSUME NEW T \in SUBSET (1 .. N), T # {}
        PROVE  h[Max(T)][g[T \ {Max(T)}]]
                 = IF s[Max(T)] \in P THEN Append(g[T \ {Max(T)}], s[Max(T)])
                   ELSE g[T \ {Max(T)}]
    <3>1. Max(T) \in 1 .. N
      BY <1>1, <2>1, LastPosition
    <3>2. g[T \ {Max(T)}] \in V
      OBVIOUS
    <3> QED BY <1>3, <3>1, <3>2
  <2>2. Rec(g) = [T \in SUBSET (1 .. N) |-> IF T = {} THEN <<>> ELSE h[Max(T)][g[T \ {Max(T)}]]]
    BY <1>1, <2>1
  <2> QED BY <2>2 DEF Peels
<1>5. \E g \in [SUBSET (1 .. N) -> V] : g = Rec(g)
  <2>1. \E g \in [SUBSET (1 .. N) -> V] : Peels(g, N, <<>>, h)
    BY <1>1, <1>2, FoldExists
  <2> QED BY <1>4, <2>1
<1> DEFINE F == CHOOSE g : g = Rec(g)
<1>6. F = Rec(F)
  BY <1>5
<1>7. Only(s, P) = F[D]
  BY DEF Only, FoldLeft, MapThenFoldSet, D
<1> HIDE DEF F
<1> DEFINE G == [i \in 0 .. N |-> F[1 .. i]]
<1>8. G[0] = <<>> /\ G[N] = Only(s, P)
  <2>1. 1 .. 0 = {} /\ 0 \in 0 .. N /\ N \in 0 .. N
    BY <1>1
  <2>2. F[{}] = <<>>
    BY <1>6
  <2> QED BY <1>1, <1>7, <2>1, <2>2
<1>9. ASSUME NEW i \in 1 .. N
      PROVE  G[i] = IF s[i] \in P THEN Append(G[i - 1], s[i]) ELSE G[i - 1]
  <2>1. /\ Max(1 .. i) = i /\ (1 .. i) \ {i} = 1 .. (i - 1)
        /\ 1 .. i \in SUBSET D /\ 1 .. i # {}
    BY <1>1, FirstPositions
  <2>2. F[1 .. i] = IF s[i] \in P THEN Append(F[1 .. (i - 1)], s[i]) ELSE F[1 .. (i - 1)]
    BY <1>6, <2>1
  <2>3. i \in 0 .. N /\ i - 1 \in 0 .. N
    BY <1>1
  <2> QED BY <2>2, <2>3
<1> HIDE DEF G
<1>10. \A i \in 0 .. N : G[i] \in V
  <2> DEFINE Good == {i \in 0 .. N : G[i] \in V}
  <2>1. 0 \in Good
    BY <1>1, <1>8
  <2>2. \A i \in 1 .. N : i - 1 \in Good => i \in Good
    <3> SUFFICES ASSUME NEW i \in 1 .. N, G[i - 1] \in V PROVE G[i] \in V
      BY <1>1
    <3>1. Append(G[i - 1], s[i]) \in V
      BY <1>1, AppendProperties DEF V
    <3> QED BY <1>9, <3>1
  <2> HIDE DEF Good
  <2>3. \A i \in 0 .. N : i \in Good
    BY <1>1, <2>1, <2>2, UpTo
  <2> QED BY <2>3 DEF Good
<1>11. G \in [0 .. N -> V]
  BY <1>10 DEF G
<1>12. Keeps(G, s, P)
  BY <1>8, <1>9 DEF N, Keeps
<1> QED BY <1>11, <1>12 DEF N, V

\* What Only keeps.
LEMMA OnlyElements ==
  ASSUME NEW S, NEW s \in Seq(S), NEW P
  PROVE  /\ Only(s, P) \in Seq(S)
         /\ \A i \in 1 .. Len(Only(s, P)) :
               Only(s, P)[i] \in P /\ \E j \in 1 .. Len(s) : Only(s, P)[i] = s[j]
         /\ \A j \in 1 .. Len(s) : s[j] \in P => \E i \in 1 .. Len(Only(s, P)) : Only(s, P)[i] = s[j]
<1> DEFINE N == Len(s)
<1>1. N \in Nat /\ \A i \in 1 .. N : s[i] \in S
  BY LenProperties, ElementOfSeq
<1>7. PICK G \in [0 .. N -> Seq(S)] : Keeps(G, s, P)
  BY OnlyValues
<1>2. /\ G[0] = <<>> /\ G[N] = Only(s, P)
      /\ \A i \in 1 .. N : G[i] = IF s[i] \in P THEN Append(G[i - 1], s[i]) ELSE G[i - 1]
  BY <1>7 DEF Keeps
<1> HIDE DEF N
<1> DEFINE Kept(n) ==
             /\ \A i \in 1 .. Len(G[n]) : G[n][i] \in P /\ \E j \in 1 .. n : G[n][i] = s[j]
             /\ \A j \in 1 .. n : s[j] \in P => \E i \in 1 .. Len(G[n]) : G[n][i] = s[j]
           Good == {n \in 0 .. N : Kept(n)}
<1>3. 0 \in Good
  <2>1. Len(G[0]) = 0 /\ 1 .. 0 = {} /\ 0 \in 0 .. N
    BY <1>1, <1>2, EmptySeq
  <2> QED BY <2>1
<1>4. ASSUME NEW n \in 1 .. N, n - 1 \in Good PROVE n \in Good
  <2> DEFINE q == G[n - 1]
             r == G[n]
             m == Len(q)
  <2>1. n \in Nat /\ n - 1 \in 0 .. N /\ n \in 0 .. N
    BY <1>1
  <2>2. q \in Seq(S) /\ m \in Nat /\ s[n] \in S
    BY <1>1, <2>1, LenProperties
  <2>3. /\ \A i \in 1 .. m : q[i] \in P /\ \E j \in 1 .. (n - 1) : q[i] = s[j]
        /\ \A j \in 1 .. (n - 1) : s[j] \in P => \E i \in 1 .. m : q[i] = s[j]
    BY <1>4
  <2>4. r = IF s[n] \in P THEN Append(q, s[n]) ELSE q
    BY <1>2
  <2>5. \A j \in 1 .. n : j \in 1 .. (n - 1) \/ j = n
    BY <2>1
  <2>6. \A j \in 1 .. (n - 1) : j \in 1 .. n
    BY <2>1
  <2>7. n \in 1 .. n
    BY <2>1
  <2> HIDE DEF q, r, m
  <2>8. /\ \A i \in 1 .. Len(r) : r[i] \in P /\ \E j \in 1 .. n : r[i] = s[j]
        /\ \A j \in 1 .. n : s[j] \in P => \E i \in 1 .. Len(r) : r[i] = s[j]
    <3>1. CASE s[n] \in P
      <4>1. r = Append(q, s[n])
        BY <2>4, <3>1
      <4>2. /\ Len(r) = m + 1 /\ r[m + 1] = s[n] /\ \A i \in 1 .. m : r[i] = q[i]
        BY <2>2, <4>1, AppendProperties DEF m
      <4>3. m + 1 \in 1 .. m + 1 /\ \A i \in 1 .. m + 1 : i \in 1 .. m \/ i = m + 1
        BY <2>2
      <4>4. \A i \in 1 .. m : i \in 1 .. m + 1
        BY <2>2
      <4>5. \A i \in 1 .. Len(r) : r[i] \in P /\ \E j \in 1 .. n : r[i] = s[j]
        <5> SUFFICES ASSUME NEW i \in 1 .. m + 1 PROVE r[i] \in P /\ \E j \in 1 .. n : r[i] = s[j]
          BY <4>2
        <5>1. CASE i = m + 1
          BY <2>7, <3>1, <4>2, <5>1
        <5>2. CASE i \in 1 .. m
          <6>1. r[i] = q[i] /\ q[i] \in P
            BY <2>3, <4>2, <5>2
          <6>2. PICK j \in 1 .. (n - 1) : q[i] = s[j]
            BY <2>3, <5>2
          <6> QED BY <2>6, <6>1, <6>2
        <5> QED BY <4>3, <5>1, <5>2
      <4>6. \A j \in 1 .. n : s[j] \in P => \E i \in 1 .. Len(r) : r[i] = s[j]
        BY <2>3, <2>5, <4>2, <4>3, <4>4
      <4> QED BY <4>5, <4>6
    <3>2. CASE s[n] \notin P
      <4>1. r = q /\ Len(r) = m
        BY <2>4, <3>2 DEF m
      <4> QED BY <2>3, <2>5, <2>6, <3>2, <4>1
    <3> QED BY <3>1, <3>2
  <2> QED BY <2>1, <2>8 DEF r
<1> HIDE DEF Good
<1>5. N \in Good
  <2>1. \A i \in 1 .. N : i - 1 \in Good => i \in Good
    BY <1>4
  <2>2. \A i \in 0 .. N : i \in Good
    BY <1>1, <1>3, <2>1, UpTo
  <2> QED BY <1>1, <2>2
<1>6. N \in 0 .. N /\ G[N] \in Seq(S)
  BY <1>1, <1>2
<1> QED BY <1>2, <1>5, <1>6 DEF Good, N

PicksFrom(r, s, P) ==
  /\ \A i \in 1 .. Len(r) : r[i] \in P /\ \E j \in 1 .. Len(s) : r[i] = s[j]
  /\ \A j \in 1 .. Len(s) : s[j] \in P => \E i \in 1 .. Len(r) : r[i] = s[j]

LEMMA OnlyPicks ==
  ASSUME NEW S, NEW s \in Seq(S), NEW P
  PROVE  Only(s, P) \in Seq(S) /\ PicksFrom(Only(s, P), s, P)
BY OnlyElements DEF PicksFrom

\* IsFiltered, filter by filter.
Matches(f, cat) == cat \in Prefixed[f.text]

Decides(G, fs, cat) ==
  /\ G[0] = FALSE /\ G[Len(fs)] = IsFiltered(fs, cat)
  /\ \A i \in 1 .. Len(fs) :
        G[i] = IF Matches(fs[i], cat) THEN fs[i].sign = "-" ELSE G[i - 1]

LEMMA FilteredValues ==
  ASSUME NEW S, NEW fs \in Seq(S), NEW cat
  PROVE  \E G : Decides(G, fs, cat)
<1> DEFINE N == Len(fs)
           D == DOMAIN fs
           h == [i \in 1 .. N |-> [v \in BOOLEAN |-> IF Matches(fs[i], cat) THEN fs[i].sign = "-" ELSE v]]
           Rec(g) == [T \in SUBSET D |-> IF T = {} THEN FALSE
                        ELSE IF cat \in Prefixed[fs[Max(T)].text] THEN fs[Max(T)].sign = "-"
                             ELSE g[T \ {Max(T)}]]
<1>1. N \in Nat /\ D = 1 .. N
  BY LenProperties
<1>2. h \in [1 .. N -> [BOOLEAN -> BOOLEAN]]
  OBVIOUS
<1>3. \A v \in BOOLEAN, i \in 1 .. N : h[i][v] = IF Matches(fs[i], cat) THEN fs[i].sign = "-" ELSE v
  OBVIOUS
<1> HIDE DEF N, D, h
<1>4. ASSUME NEW g \in [SUBSET (1 .. N) -> BOOLEAN]
      PROVE  Peels(g, N, FALSE, h) <=> g = Rec(g)
  <2>1. ASSUME NEW T \in SUBSET (1 .. N), T # {}
        PROVE  h[Max(T)][g[T \ {Max(T)}]]
                 = IF cat \in Prefixed[fs[Max(T)].text] THEN fs[Max(T)].sign = "-"
                   ELSE g[T \ {Max(T)}]
    <3>1. Max(T) \in 1 .. N
      BY <1>1, <2>1, LastPosition
    <3>2. g[T \ {Max(T)}] \in BOOLEAN
      OBVIOUS
    <3> QED BY <1>3, <3>1, <3>2 DEF Matches
  <2>2. Rec(g) = [T \in SUBSET (1 .. N) |-> IF T = {} THEN FALSE ELSE h[Max(T)][g[T \ {Max(T)}]]]
    BY <1>1, <2>1
  <2> QED BY <2>2 DEF Peels
<1>5. \E g \in [SUBSET (1 .. N) -> BOOLEAN] : g = Rec(g)
  <2>1. \E g \in [SUBSET (1 .. N) -> BOOLEAN] : Peels(g, N, FALSE, h)
    BY <1>1, <1>2, FoldExists
  <2> QED BY <1>4, <2>1
<1> DEFINE F == CHOOSE g : g = Rec(g)
<1>6. F = Rec(F)
  BY <1>5
<1>7. IsFiltered(fs, cat) = F[D]
  BY DEF IsFiltered, FoldLeft, MapThenFoldSet, D
<1> HIDE DEF F
<1> DEFINE G == [i \in 0 .. N |-> F[1 .. i]]
<1>8. G[0] = FALSE /\ G[N] = IsFiltered(fs, cat)
  <2>1. 1 .. 0 = {} /\ 0 \in 0 .. N /\ N \in 0 .. N
    BY <1>1
  <2>2. F[{}] = FALSE
    BY <1>6
  <2> QED BY <1>1, <1>7, <2>1, <2>2
<1>9. ASSUME NEW i \in 1 .. N
      PROVE  G[i] = IF Matches(fs[i], cat) THEN fs[i].sign = "-" ELSE G[i - 1]
  <2>1. /\ Max(1 .. i) = i /\ (1 .. i) \ {i} = 1 .. (i - 1)
        /\ 1 .. i \in SUBSET D /\ 1 .. i # {}
    BY <1>1, FirstPositions
  <2>2. F[1 .. i] = IF cat \in Prefixed[fs[i].text] THEN fs[i].sign = "-" ELSE F[1 .. (i - 1)]
    BY <1>6, <2>1
  <2>3. i \in 0 .. N /\ i - 1 \in 0 .. N
    BY <1>1
  <2> QED BY <2>2, <2>3 DEF Matches
<1> HIDE DEF G
<1>10. Decides(G, fs, cat)
  BY <1>8, <1>9 DEF N, Decides
<1> QED BY <1>10

\* The last filter that matches decides.
Off(fs, cat) ==
  \E j \in 1 .. Len(fs) : /\ Matches(fs[j], cat) /\ fs[j].sign = "-"
                          /\ \A m \in 1 .. Len(fs) : m > j => ~Matches(fs[m], cat)

LEMMA FilteredIsOff ==
  ASSUME NEW S, NEW fs \in Seq(S), NEW cat
  PROVE  IsFiltered(fs, cat) <=> Off(fs, cat)
<1> DEFINE N == Len(fs)
           OffAt(n) == \E j \in 1 .. n : /\ Matches(fs[j], cat) /\ fs[j].sign = "-"
                                         /\ \A m \in 1 .. n : m > j => ~Matches(fs[m], cat)
<1>1. N \in Nat
  BY LenProperties
<1>8. PICK G : Decides(G, fs, cat)
  BY FilteredValues
<1>2. /\ G[0] = FALSE /\ G[N] = IsFiltered(fs, cat)
      /\ \A i \in 1 .. N : G[i] = IF Matches(fs[i], cat) THEN fs[i].sign = "-" ELSE G[i - 1]
  BY <1>8 DEF Decides
<1> DEFINE Good == {n \in 0 .. N : G[n] = OffAt(n)}
<1>3. 0 \in Good
  <2>1. 1 .. 0 = {} /\ 0 \in 0 .. N
    BY <1>1
  <2>2. OffAt(0) = FALSE
    BY <2>1
  <2> QED BY <1>2, <2>1, <2>2
<1>4. ASSUME NEW n \in 1 .. N, n - 1 \in Good PROVE n \in Good
  <2>1. n \in Nat /\ n \in 0 .. N /\ n \in 1 .. n
    BY <1>1
  <2>2. G[n - 1] = OffAt(n - 1)
    BY <1>4
  <2>3. G[n] = IF Matches(fs[n], cat) THEN fs[n].sign = "-" ELSE G[n - 1]
    BY <1>2
  <2>4. \A j \in 1 .. n : j = n \/ j \in 1 .. (n - 1)
    BY <2>1
  <2>5. \A j \in 1 .. (n - 1) : j \in 1 .. n /\ n > j
    BY <2>1
  <2>6. CASE Matches(fs[n], cat)
    <3>1. OffAt(n) <=> fs[n].sign = "-"
      <4>1. ASSUME OffAt(n) PROVE fs[n].sign = "-"
        <5>1. PICK j \in 1 .. n : /\ Matches(fs[j], cat) /\ fs[j].sign = "-"
                                  /\ \A m \in 1 .. n : m > j => ~Matches(fs[m], cat)
          BY <4>1
        <5>2. j = n
          BY <2>1, <2>4, <2>5, <2>6, <5>1
        <5> QED BY <5>1, <5>2
      <4>2. ASSUME fs[n].sign = "-" PROVE OffAt(n)
        <5>1. \A m \in 1 .. n : ~(m > n)
          BY <2>1
        <5> QED BY <2>1, <2>6, <4>2, <5>1
      <4> QED BY <4>1, <4>2
    <3>2. OffAt(n) = (fs[n].sign = "-")
      BY <3>1
    <3> HIDE DEF OffAt
    <3> QED BY <2>1, <2>3, <2>6, <3>2
  <2>7. CASE ~Matches(fs[n], cat)
    <3>1. OffAt(n) <=> OffAt(n - 1)
      <4>1. ASSUME OffAt(n) PROVE OffAt(n - 1)
        BY <2>4, <2>5, <2>7, <4>1
      <4>2. ASSUME OffAt(n - 1) PROVE OffAt(n)
        <5>1. PICK j \in 1 .. (n - 1) : /\ Matches(fs[j], cat) /\ fs[j].sign = "-"
                                  /\ \A m \in 1 .. (n - 1) : m > j => ~Matches(fs[m], cat)
          BY <4>2
        <5>2. \A m \in 1 .. n : m > j => ~Matches(fs[m], cat)
          BY <2>4, <2>7, <5>1
        <5> QED BY <2>5, <5>1, <5>2
      <4> QED BY <4>1, <4>2
    <3>2. OffAt(n) = OffAt(n - 1)
      BY <3>1
    <3> HIDE DEF OffAt
    <3> QED BY <2>1, <2>2, <2>3, <2>7, <3>2
  <2> QED BY <2>6, <2>7
<1> HIDE DEF Good
<1>5. N \in Good
  <2>1. \A i \in 1 .. N : i - 1 \in Good => i \in Good
    BY <1>4
  <2>2. \A i \in 0 .. N : i \in Good
    BY <1>1, <1>3, <2>1, UpTo
  <2> QED BY <1>1, <2>2
<1>6. G[N] = OffAt(N)
  BY <1>5 DEF Good
<1>7. OffAt(N) <=> Off(fs, cat)
  BY DEF Off
<1> HIDE DEF OffAt, N
<1> QED BY <1>2, <1>6, <1>7

\* The options alone.
LEMMA OptionIsOff ==
  ASSUME NEW cat, NEW S, DefaultFilters \o argv.filters \in Seq(S)
  PROVE  OptionOff(cat) <=> Off(DefaultFilters \o argv.filters, cat)
<1> DEFINE fs == DefaultFilters \o argv.filters
           matching == {i \in DOMAIN fs : cat \in Prefixed[fs[i].text]}
<1>1. Len(fs) \in Nat /\ DOMAIN fs = 1 .. Len(fs)
  BY LenProperties
<1>2. OptionOff(cat) <=> matching # {} /\ fs[Max(matching)].sign = "-"
  BY DEF OptionOff
<1>3. matching \subseteq 1 .. Len(fs) /\ \A i \in 1 .. Len(fs) : i \in matching <=> Matches(fs[i], cat)
  BY <1>1 DEF Matches
<1> HIDE DEF fs, matching
<1>4. ASSUME matching # {}
      PROVE  Max(matching) \in matching /\ \A y \in matching : Max(matching) >= y
  BY <1>1, <1>3, <1>4, LastPosition
<1>5. ASSUME matching # {}, fs[Max(matching)].sign = "-" PROVE Off(fs, cat)
  <2> DEFINE j == Max(matching)
  <2>1. j \in 1 .. Len(fs) /\ Matches(fs[j], cat)
    BY <1>3, <1>4, <1>5
  <2>2. \A m \in 1 .. Len(fs) : m > j => ~Matches(fs[m], cat)
    <3> SUFFICES ASSUME NEW m \in 1 .. Len(fs), m > j, m \in matching PROVE FALSE
      BY <1>3
    <3> QED BY <1>1, <1>4, <1>5, <2>1
  <2> QED BY <1>5, <2>1, <2>2 DEF Off
<1>6. ASSUME Off(fs, cat) PROVE matching # {} /\ fs[Max(matching)].sign = "-"
  <2>1. PICK j \in 1 .. Len(fs) : /\ Matches(fs[j], cat) /\ fs[j].sign = "-"
                                  /\ \A m \in 1 .. Len(fs) : m > j => ~Matches(fs[m], cat)
    BY <1>6 DEF Off
  <2>2. j \in matching
    BY <1>3, <2>1
  <2>3. Max(matching) \in 1 .. Len(fs) /\ Matches(fs[Max(matching)], cat) /\ Max(matching) >= j
    BY <1>3, <1>4, <2>2
  <2>4. Max(matching) = j
    BY <1>1, <2>1, <2>3
  <2> QED BY <2>1, <2>2, <2>4
<1> QED BY <1>2, <1>5, <1>6 DEF fs

\* Filters added at the end that all switch off.
LEMMA OffConcat ==
  ASSUME NEW S, NEW fs \in Seq(S), NEW gs \in Seq(S), NEW cat, \A i \in 1 .. Len(gs) : gs[i].sign = "-"
  PROVE  Off(fs \o gs, cat) <=> Off(fs, cat) \/ \E i \in 1 .. Len(gs) : Matches(gs[i], cat)
<1> DEFINE hs == fs \o gs
           a == Len(fs)
           b == Len(gs)
<1>1. a \in Nat /\ b \in Nat
  BY LenProperties
<1>2. Len(hs) = a + b /\ \A i \in 1 .. a + b : hs[i] = IF i <= a THEN fs[i] ELSE gs[i - a]
  BY ConcatProperties
<1> HIDE DEF hs, a, b
<1>3. (\A i \in 1 .. a : hs[i] = fs[i] /\ i \in 1 .. a + b) /\ \A i \in 1 .. b : hs[a + i] = gs[i] /\ a + i \in 1 .. a + b
  BY <1>1, <1>2
<1>4. \A i \in 1 .. a + b : i \in 1 .. a \/ \E k \in 1 .. b : i = a + k
  <2> SUFFICES ASSUME NEW i \in 1 .. a + b, ~(i <= a) PROVE i - a \in 1 .. b /\ i = a + (i - a)
    BY <1>1
  <2> QED BY <1>1
<1>5. ASSUME Off(hs, cat) PROVE Off(fs, cat) \/ \E i \in 1 .. b : Matches(gs[i], cat)
  <2>1. PICK j \in 1 .. a + b : /\ Matches(hs[j], cat) /\ hs[j].sign = "-"
                                /\ \A m \in 1 .. a + b : m > j => ~Matches(hs[m], cat)
    BY <1>2, <1>5 DEF Off
  <2>2. CASE j \in 1 .. a
    <3>1. Matches(fs[j], cat) /\ fs[j].sign = "-"
      BY <1>3, <2>1, <2>2
    <3>2. \A m \in 1 .. a : m > j => ~Matches(fs[m], cat)
      BY <1>3, <2>1
    <3> QED BY <2>2, <3>1, <3>2 DEF Off, a
  <2>3. CASE \E k \in 1 .. b : j = a + k
    BY <1>3, <2>1, <2>3
  <2> QED BY <1>4, <2>2, <2>3
<1>6. ASSUME NEW k \in 1 .. b, Matches(gs[k], cat) PROVE Off(hs, cat)
  <2> DEFINE T == {i \in 1 .. b : Matches(gs[i], cat)}
             x == Max(T)
  <2>1. T \subseteq 1 .. b /\ T # {}
    BY <1>6
  <2>2. x \in T /\ \A y \in T : x >= y
    BY <1>1, <2>1, LastPosition
  <2>3. x \in 1 .. b /\ Matches(gs[x], cat) /\ \A y \in 1 .. b : y > x => ~Matches(gs[y], cat)
    <3> HIDE DEF x
    <3>1. x \in 1 .. b /\ Matches(gs[x], cat)
      BY <2>2
    <3>2. \A y \in 1 .. b : y \in T => ~(y > x)
      BY <1>1, <2>2, <3>1
    <3> QED BY <3>1, <3>2
  <2> HIDE DEF x, T
  <2>4. a + x \in 1 .. a + b /\ hs[a + x] = gs[x]
    BY <1>3, <2>3
  <2>5. ASSUME NEW m \in 1 .. a + b, m > a + x PROVE ~Matches(hs[m], cat)
    <3>1. m \notin 1 .. a
      BY <1>1, <2>3, <2>5
    <3>2. PICK y \in 1 .. b : m = a + y
      BY <1>4, <3>1
    <3>3. y > x
      BY <1>1, <2>3, <2>5, <3>2
    <3> QED BY <1>3, <2>3, <3>2, <3>3
  <2>6. gs[x].sign = "-"
    BY <2>3 DEF b
  <2> QED BY <1>2, <2>3, <2>4, <2>5, <2>6 DEF Off
<1>7. ASSUME Off(fs, cat), \A i \in 1 .. b : ~Matches(gs[i], cat) PROVE Off(hs, cat)
  <2>1. PICK j \in 1 .. a : /\ Matches(fs[j], cat) /\ fs[j].sign = "-"
                            /\ \A m \in 1 .. a : m > j => ~Matches(fs[m], cat)
    BY <1>7 DEF Off, a
  <2>2. j \in 1 .. a + b /\ hs[j] = fs[j]
    BY <1>3
  <2>3. ASSUME NEW m \in 1 .. a + b, m > j PROVE ~Matches(hs[m], cat)
    <3>1. CASE m \in 1 .. a
      BY <1>3, <2>1, <2>3, <3>1
    <3>2. CASE \E y \in 1 .. b : m = a + y
      BY <1>3, <1>7, <3>2
    <3> QED BY <1>4, <3>1, <3>2
  <2> QED BY <1>2, <2>1, <2>2, <2>3 DEF Off
<1> QED BY <1>5, <1>6, <1>7 DEF hs, b

\* FlattenSeq joins sequences of the same elements.
LEMMA FlattenType ==
  ASSUME NEW S, NEW seqs \in Seq(Seq(S))
  PROVE  FlattenSeq(seqs) \in Seq(S)
<1> DEFINE N == Len(seqs)
           Rec(g, n) == [i \in 1 .. n |-> IF i = 1 THEN seqs[i] ELSE g[i - 1] \o seqs[i]]
<1>1. N \in Nat /\ \A i \in 1 .. N : seqs[i] \in Seq(S)
  BY LenProperties, ElementOfSeq
<1>2. CASE N = 0
  <2>1. seqs = <<>> /\ FlattenSeq(seqs) = seqs
    BY <1>2, EmptySeq DEF FlattenSeq
  <2> QED BY <2>1, EmptySeq
<1>3. CASE N # 0
  <2> DEFINE F == CHOOSE g : g = Rec(g, N)
             Built == {n \in 0 .. N : \E g : g = Rec(g, n)}
  <2>1. FlattenSeq(seqs) = F[N]
    BY <1>3 DEF FlattenSeq
  <2> HIDE DEF N
  <2>2. 0 \in Built
    <3>1. 1 .. 0 = {} /\ 0 \in 0 .. N
      BY <1>1
    <3>2. \A g : Rec(g, 0) = [i \in {} |-> i]
      BY <3>1
    <3> QED BY <3>1, <3>2
  <2>3. ASSUME NEW n \in 1 .. N, n - 1 \in Built PROVE n \in Built
    <3>1. PICK g : g = Rec(g, n - 1)
      BY <2>3
    <3> DEFINE g2 == [i \in 1 .. n |-> IF i < n THEN g[i] ELSE IF n = 1 THEN seqs[1] ELSE g[n - 1] \o seqs[n]]
    <3>2. \A i \in 1 .. n : g2[i] = IF i = 1 THEN seqs[i] ELSE g2[i - 1] \o seqs[i]
      <4> SUFFICES ASSUME NEW i \in 1 .. n
                   PROVE  g2[i] = IF i = 1 THEN seqs[i] ELSE g2[i - 1] \o seqs[i]
        OBVIOUS
      <4>1. n \in Nat /\ i \in Nat
        BY <1>1
      <4>2. i # 1 => i - 1 \in 1 .. n /\ i - 1 < n /\ g2[i - 1] = g[i - 1]
        BY <4>1
      <4>3. CASE i < n
        <5>1. i \in 1 .. (n - 1)
          BY <4>1, <4>3
        <5>2. g[i] = IF i = 1 THEN seqs[i] ELSE g[i - 1] \o seqs[i]
          BY <3>1, <5>1
        <5>3. g2[i] = g[i]
          BY <4>3
        <5> HIDE DEF g2
        <5> QED BY <4>2, <5>2, <5>3
      <4>4. CASE i = n
        <5>1. g2[i] = IF n = 1 THEN seqs[1] ELSE g[n - 1] \o seqs[n]
          BY <4>1, <4>4
        <5> HIDE DEF g2
        <5> QED BY <4>2, <4>4, <5>1
      <4> QED BY <4>1, <4>3, <4>4
    <3>3. g2 = [i \in 1 .. n |-> g2[i]]
      OBVIOUS
    <3> HIDE DEF g2
    <3>4. g2 = Rec(g2, n)
      BY <3>2, <3>3
    <3>5. n \in 0 .. N
      BY <1>1
    <3> HIDE DEF Rec
    <3> QED BY <3>4, <3>5
  <2>4. \E g : g = Rec(g, N)
    <3> HIDE DEF Built
    <3>1. \A i \in 1 .. N : i - 1 \in Built => i \in Built
      BY <2>3
    <3>2. \A i \in 0 .. N : i \in Built
      BY <1>1, <2>2, <3>1, UpTo
    <3>3. N \in Built
      BY <1>1, <3>2
    <3> HIDE DEF Rec
    <3> QED BY <3>3 DEF Built
  <2>5. F = Rec(F, N)
    BY <2>4
  <2> HIDE DEF F
  <2> DEFINE Good == {n \in 0 .. N : n = 0 \/ F[n] \in Seq(S)}
  <2>6. 0 \in Good
    BY <1>1
  <2>7. ASSUME NEW n \in 1 .. N, n - 1 \in Good PROVE n \in Good
    <3>1. F[n] = IF n = 1 THEN seqs[n] ELSE F[n - 1] \o seqs[n]
      BY <2>5
    <3>2. n # 1 => F[n - 1] \in Seq(S)
      BY <1>1, <2>7
    <3>3. seqs[n] \in Seq(S) /\ n \in 0 .. N
      BY <1>1
    <3>4. n # 1 => F[n - 1] \o seqs[n] \in Seq(S)
      BY <3>2, <3>3, ConcatProperties
    <3> QED BY <3>1, <3>3, <3>4
  <2>8. N \in Good
    <3> HIDE DEF Good
    <3>1. \A i \in 1 .. N : i - 1 \in Good => i \in Good
      BY <2>7
    <3>2. \A i \in 0 .. N : i \in Good
      BY <1>1, <2>6, <3>1, UpTo
    <3> QED BY <1>1, <3>2
  <2> QED BY <1>3, <2>1, <2>8
<1> QED BY <1>2, <1>3

-----------------------------------------------------------------------------
(***************************************************************************)
(* The files, their lines and the complaints about them.                   *)
(***************************************************************************)
Mark == {"none", "unknown", "all"} \cup Categories
ErrSet == [cat : Categories \ {FN_SIZE}, conf : Nat, when : STRING, ahead : Nat]
LineSet == [nolint : Mark, alone : BOOLEAN, global : Mark, fn : STRING, asm : BOOLEAN,
            raises : BOOLEAN, errs : Seq(ErrSet)]
FileSet == [readable : BOOLEAN, lintable : BOOLEAN, crlf : BOOLEAN, lines : Seq(LineSet)]
FilterSet == [sign : {"+", "-", "none"}, text : DOMAIN Prefixed]

\* The confidences, with those _FunctionState computes.
Conf == Nat \cup {ErrorLevel(l, b) : l \in Nat, b \in Nat}
Complaints == [cat : Categories, conf : Conf, line : Nat]
OfLines == [cat : Categories, conf : Conf, line : Nat \ {0}]

LEMMA FileTypes ==
  /\ \A n \in DOMAIN Files : Files[n] \subseteq FileSet
  /\ DefaultFilters \in Seq(FilterSet) /\ \A a \in Args : a.filters \in Seq(FilterSet)
BY FilesAssumption, FiltersAssumption DEF FileSet, LineSet, ErrSet, Mark, FilterSet

LEMMA ComplaintType ==
  /\ \A cat \in Categories, conf \in Conf, line \in Nat : Complaint(cat, conf, line) \in Complaints
  /\ \A cat \in Categories, conf \in Conf, line \in Nat \ {0} : Complaint(cat, conf, line) \in OfLines
  /\ Nat \subseteq Conf /\ Seq(OfLines) \subseteq Seq(Complaints)
  /\ NOLINT \in Categories /\ FN_SIZE \in Categories /\ NEWLINE \in Categories
<1>1. OfLines \subseteq Complaints
  BY DEF OfLines, Complaints
<1>2. Seq(OfLines) \subseteq Seq(Complaints)
  BY <1>1, LenProperties, ElementOfSeq, SeqDef
<1> QED BY <1>2, CategoriesAssumption DEF Complaint, Complaints, OfLines, Conf

\* Where the search for GLOBAL_NOLINT ends.
LEMMA SearchEnds ==
  ASSUME NEW lines \in Seq(LineSet)
  PROVE  /\ LastSearched(lines) \in 0 .. Len(lines) /\ Len(lines) \in Nat
         /\ \A n \in 1 .. Len(lines) :
               n <= LastSearched(lines) <=>
                 \A m \in 1 .. (n - 1) : lines[m].global \notin {"all", "unknown"}
<1> DEFINE N == Len(lines)
           ends == {n \in DOMAIN lines : lines[n].global \in {"all", "unknown"}}
<1>1. N \in Nat /\ DOMAIN lines = 1 .. N
  BY LenProperties
<1>2. LastSearched(lines) = IF ends = {} THEN N ELSE Min(ends)
  BY DEF LastSearched
<1>3. ends \subseteq 1 .. N /\ \A n \in 1 .. N : n \in ends <=> lines[n].global \in {"all", "unknown"}
  BY <1>1
<1> HIDE DEF N, ends
<1>4. CASE ends = {}
  <2>1. LastSearched(lines) = N
    BY <1>2, <1>4
  <2>2. \A n \in 1 .. N : \A m \in 1 .. (n - 1) : m \in 1 .. N
    BY <1>1
  <2> QED BY <1>1, <1>3, <1>4, <2>1, <2>2 DEF N
<1>5. CASE ends # {}
  <2> DEFINE e == Min(ends)
  <2>1. e \in ends /\ \A y \in ends : e <= y
    BY <1>1, <1>3, <1>5, LeastPosition
  <2>2. LastSearched(lines) = e
    BY <1>2, <1>5
  <2> HIDE DEF e
  <2>3. e \in 1 .. N
    BY <1>3, <2>1
  <2>4. ASSUME NEW n \in 1 .. N
        PROVE  n <= e <=> \A m \in 1 .. (n - 1) : lines[m].global \notin {"all", "unknown"}
    <3>1. ASSUME n <= e, NEW m \in 1 .. (n - 1) PROVE lines[m].global \notin {"all", "unknown"}
      <4>1. m \in 1 .. N /\ ~(e <= m)
        BY <1>1, <2>3, <3>1
      <4> QED BY <1>3, <2>1, <4>1
    <3>2. ASSUME ~(n <= e) PROVE ~(\A m \in 1 .. (n - 1) : lines[m].global \notin {"all", "unknown"})
      <4>1. e \in 1 .. (n - 1)
        BY <1>1, <2>3, <3>2
      <4> QED BY <1>3, <2>1, <2>3, <4>1
    <3> QED BY <3>1, <3>2
  <2> QED BY <1>1, <2>2, <2>3, <2>4 DEF N
<1> QED BY <1>4, <1>5

\* The marks that are found, by kind.
AreMarks(found, lines, kinds) ==
  /\ found \in Seq([mark : Mark, line : Nat \ {0}])
  /\ \A i \in 1 .. Len(found) :
        /\ found[i].line \in 1 .. LastSearched(lines)
        /\ found[i].mark = lines[found[i].line].global /\ found[i].mark \in kinds
  /\ \A n \in 1 .. LastSearched(lines) : lines[n].global \in kinds =>
        \E i \in 1 .. Len(found) : found[i].line = n /\ found[i].mark = lines[n].global

LEMMA MarksFound ==
  ASSUME NEW lines \in Seq(LineSet), NEW kinds, NEW found, found = GlobalMarks(lines, kinds)
  PROVE  AreMarks(found, lines, kinds)
<1> DEFINE last == LastSearched(lines)
           S == [mark : Mark, line : Nat \ {0}]
           marks == [n \in 1 .. last |-> [mark |-> lines[n].global, line |-> n]]
           P == {m \in Range(marks) : m.mark \in kinds}
<1>1. last \in 0 .. Len(lines) /\ Len(lines) \in Nat
  BY SearchEnds
<1>2. \A n \in 1 .. last : n \in Nat \ {0} /\ n \in 1 .. Len(lines) /\ lines[n] \in LineSet
  BY <1>1, ElementOfSeq
<1>3. found = Only(marks, P)
  BY DEF GlobalMarks
<1> HIDE DEF last
<1>4. marks \in Seq(S) /\ Len(marks) = last
  <2>1. \A n \in 1 .. last : [mark |-> lines[n].global, line |-> n] \in S
    BY <1>2 DEF LineSet
  <2>2. last \in Nat
    BY <1>1
  <2> QED BY <2>1, <2>2, IsASeq, LenProperties
<1>5. \A n \in 1 .. last : marks[n].line = n /\ marks[n].mark = lines[n].global
  OBVIOUS
<1>6. \A n \in 1 .. last : marks[n] \in P <=> marks[n].mark \in kinds
  BY <1>4 DEF Range
<1>7. \A m \in P : m.mark \in kinds
  OBVIOUS
<1> HIDE DEF marks, P, S
<1>8. /\ found \in Seq(S)
      /\ \A i \in 1 .. Len(found) : found[i] \in P /\ \E j \in 1 .. last : found[i] = marks[j]
      /\ \A j \in 1 .. last : marks[j] \in P => \E i \in 1 .. Len(found) : found[i] = marks[j]
  <2>1. /\ found \in Seq(S)
        /\ \A i \in 1 .. Len(found) : found[i] \in P /\ \E j \in 1 .. Len(marks) : found[i] = marks[j]
        /\ \A j \in 1 .. Len(marks) : marks[j] \in P => \E i \in 1 .. Len(found) : found[i] = marks[j]
    <3>1. found \in Seq(S) /\ PicksFrom(found, marks, P)
      BY <1>3, <1>4, OnlyPicks
    <3> QED BY <3>1 DEF PicksFrom
  <2> QED BY <1>4, <2>1
<1>9. ASSUME NEW i \in 1 .. Len(found)
      PROVE  /\ found[i].line \in 1 .. last
             /\ found[i].mark = lines[found[i].line].global /\ found[i].mark \in kinds
  <2>1. PICK j \in 1 .. last : found[i] = marks[j]
    BY <1>8
  <2>2. found[i].line = j /\ found[i].mark = lines[j].global
    BY <1>5, <2>1
  <2> QED BY <1>7, <1>8, <2>2
<1>10. ASSUME NEW n \in 1 .. last, lines[n].global \in kinds
       PROVE  \E i \in 1 .. Len(found) : found[i].line = n /\ found[i].mark = lines[n].global
  <2>1. marks[n].line = n /\ marks[n].mark = lines[n].global
    BY <1>5
  <2>2. marks[n] \in P
    BY <1>6, <1>10, <2>1
  <2> QED BY <1>8, <2>1, <2>2
<1> QED BY <1>8, <1>9, <1>10 DEF last, S, AreMarks

\* The filters of GLOBAL_NOLINT, and the complaints about unknown ones.
GlobalHere(lines, cat) ==
  \E n \in 1 .. Len(lines) :
    /\ lines[n].global \in Categories /\ cat \in Prefixed[lines[n].global]
    /\ \A m \in 1 .. (n - 1) : lines[m].global \notin {"all", "unknown"}

LEMMA GlobalFiltersType ==
  ASSUME NEW lines \in Seq(LineSet)
  PROVE  /\ GlobalFilters(lines) \in Seq(FilterSet)
         /\ \A i \in 1 .. Len(GlobalFilters(lines)) : GlobalFilters(lines)[i].sign = "-"
         /\ \A cat : (\E i \in 1 .. Len(GlobalFilters(lines)) : Matches(GlobalFilters(lines)[i], cat))
                       <=> GlobalHere(lines, cat)
<1> DEFINE known == GlobalMarks(lines, Categories)
           gs == GlobalFilters(lines)
           K == Len(known)
<1>1. /\ known \in Seq([mark : Mark, line : Nat \ {0}])
      /\ \A i \in 1 .. K : /\ known[i].line \in 1 .. LastSearched(lines)
                           /\ known[i].mark = lines[known[i].line].global /\ known[i].mark \in Categories
      /\ \A n \in 1 .. LastSearched(lines) : lines[n].global \in Categories =>
            \E i \in 1 .. K : known[i].line = n /\ known[i].mark = lines[n].global
  <2>1. AreMarks(known, lines, Categories)
    BY MarksFound
  <2> QED BY <2>1 DEF AreMarks
<1>2. K \in Nat /\ DOMAIN known = 1 .. K
  BY <1>1, LenProperties
<1>3. gs = [i \in DOMAIN known |-> [sign |-> "-", text |-> known[i].mark]]
  BY DEF GlobalFilters
<1> HIDE DEF known, gs, K
<1>4. gs = [i \in 1 .. K |-> [sign |-> "-", text |-> known[i].mark]]
  BY <1>2, <1>3
<1>5. gs \in Seq(FilterSet) /\ Len(gs) = K
  <2>1. \A i \in 1 .. K : [sign |-> "-", text |-> known[i].mark] \in FilterSet
    <3>1. \A i \in 1 .. K : known[i].mark \in DOMAIN Prefixed
      BY <1>1, CategoriesAssumption
    <3>2. \A t \in DOMAIN Prefixed : [sign |-> "-", text |-> t] \in FilterSet
      BY DEF FilterSet
    <3> QED BY <3>1, <3>2
  <2> QED BY <1>2, <1>4, <2>1, IsASeq, LenProperties
<1>6. \A i \in 1 .. K : gs[i].sign = "-" /\ gs[i].text = known[i].mark
  BY <1>4
<1>7. ASSUME NEW cat
      PROVE  (\E i \in 1 .. K : Matches(gs[i], cat)) <=> GlobalHere(lines, cat)
  <2>1. /\ LastSearched(lines) \in 0 .. Len(lines) /\ Len(lines) \in Nat
        /\ \A n \in 1 .. Len(lines) :
               n <= LastSearched(lines) <=>
                 \A m \in 1 .. (n - 1) : lines[m].global \notin {"all", "unknown"}
    BY SearchEnds
  <2>2. \A n : n \in 1 .. LastSearched(lines) <=> n \in 1 .. Len(lines) /\ n <= LastSearched(lines)
    BY <2>1
  <2>3. ASSUME NEW i \in 1 .. K, Matches(gs[i], cat) PROVE GlobalHere(lines, cat)
    <3> DEFINE n == known[i].line
    <3>1. n \in 1 .. LastSearched(lines) /\ gs[i].text = lines[n].global /\ lines[n].global \in Categories
      BY <1>1, <1>6
    <3>2. cat \in Prefixed[lines[n].global]
      BY <2>3, <3>1 DEF Matches
    <3> HIDE DEF n
    <3> QED BY <2>1, <2>2, <3>1, <3>2 DEF GlobalHere
  <2>4. ASSUME GlobalHere(lines, cat) PROVE \E i \in 1 .. K : Matches(gs[i], cat)
    <3>1. PICK n \in 1 .. Len(lines) :
            /\ lines[n].global \in Categories /\ cat \in Prefixed[lines[n].global]
            /\ \A m \in 1 .. (n - 1) : lines[m].global \notin {"all", "unknown"}
      BY <2>4 DEF GlobalHere
    <3>2. n \in 1 .. LastSearched(lines)
      BY <2>1, <2>2, <3>1
    <3>3. PICK i \in 1 .. K : known[i].line = n /\ known[i].mark = lines[n].global
      BY <1>1, <3>1, <3>2
    <3> QED BY <1>6, <3>1, <3>3 DEF Matches
  <2> QED BY <2>3, <2>4
<1> QED BY <1>5, <1>6, <1>7 DEF gs

LEMMA GlobalComplaintsType ==
  ASSUME NEW lines \in Seq(LineSet)
  PROVE  /\ GlobalComplaints(lines) \in Seq(OfLines)
         /\ \A i \in 1 .. Len(GlobalComplaints(lines)) :
               LET c == GlobalComplaints(lines)[i]
               IN  c.cat = NOLINT /\ c.line \in 1 .. Len(lines) /\ lines[c.line].global = "unknown"
<1> DEFINE unknown == GlobalMarks(lines, {"unknown"})
           cs == GlobalComplaints(lines)
           K == Len(unknown)
<1>1. /\ unknown \in Seq([mark : Mark, line : Nat \ {0}])
      /\ \A i \in 1 .. K : /\ unknown[i].line \in 1 .. LastSearched(lines)
                           /\ unknown[i].mark = lines[unknown[i].line].global
                           /\ unknown[i].mark \in {"unknown"}
  <2>1. AreMarks(unknown, lines, {"unknown"})
    BY MarksFound
  <2> QED BY <2>1 DEF AreMarks
<1>2. K \in Nat /\ DOMAIN unknown = 1 .. K /\ \A i \in 1 .. K : unknown[i].line \in Nat \ {0}
  BY <1>1, LenProperties, ElementOfSeq
<1>3. cs = [i \in DOMAIN unknown |-> Complaint(NOLINT, 5, unknown[i].line)]
  BY DEF GlobalComplaints
<1> HIDE DEF unknown, cs, K
<1>4. cs = [i \in 1 .. K |-> Complaint(NOLINT, 5, unknown[i].line)]
  BY <1>2, <1>3
<1>5. cs \in Seq(OfLines) /\ Len(cs) = K
  <2>1. \A i \in 1 .. K : Complaint(NOLINT, 5, unknown[i].line) \in OfLines
    BY <1>2, ComplaintType
  <2> QED BY <1>2, <1>4, <2>1, IsASeq, LenProperties
<1>6. \A i \in 1 .. K : cs[i].cat = NOLINT /\ cs[i].line = unknown[i].line
  BY <1>4 DEF Complaint
<1>7. \A i \in 1 .. K : unknown[i].line \in 1 .. Len(lines) /\ lines[unknown[i].line].global = "unknown"
  <2>1. LastSearched(lines) \in 0 .. Len(lines) /\ Len(lines) \in Nat
    BY SearchEnds
  <2> QED BY <1>1, <2>1
<1> QED BY <1>5, <1>6, <1>7 DEF cs

LEMMA FoundInType ==
  ASSUME NEW line \in LineSet, NEW n \in Nat \ {0}, NEW when
  PROVE  FoundIn(line, n, when) \in Seq(OfLines)
<1> DEFINE found == Only(line.errs, {e \in Range(line.errs) : e.when = when})
<1>1. line.errs \in Seq(ErrSet)
  BY DEF LineSet
<1>2. found \in Seq(ErrSet)
  BY <1>1, OnlyElements
<1>3. FoundIn(line, n, when)
        = [i \in DOMAIN found |-> Complaint(found[i].cat, found[i].conf, n + found[i].ahead)]
  BY DEF FoundIn
<1> HIDE DEF found
<1>4. /\ Len(found) \in Nat /\ DOMAIN found = 1 .. Len(found)
      /\ \A i \in 1 .. Len(found) : found[i] \in ErrSet
  BY <1>2, LenProperties, ElementOfSeq
<1>5. \A i \in 1 .. Len(found) : /\ found[i].cat \in Categories /\ found[i].conf \in Conf
                                 /\ n + found[i].ahead \in Nat \ {0}
  BY <1>4, ComplaintType DEF ErrSet
<1>6. \A i \in 1 .. Len(found) : Complaint(found[i].cat, found[i].conf, n + found[i].ahead) \in OfLines
  BY <1>5, ComplaintType
<1> QED BY <1>3, <1>4, <1>6, IsASeq

LEMMA FoundType ==
  ASSUME NEW lines \in Seq(LineSet), NEW when
  PROVE  Found(lines, when) \in Seq(OfLines)
<1> DEFINE seqs == [n \in DOMAIN lines |-> FoundIn(lines[n], n, when)]
<1>1. Len(lines) \in Nat /\ DOMAIN lines = 1 .. Len(lines)
  BY LenProperties
<1>2. \A n \in 1 .. Len(lines) : lines[n] \in LineSet /\ n \in Nat \ {0}
  BY <1>1, ElementOfSeq
<1>3. \A n \in 1 .. Len(lines) : FoundIn(lines[n], n, when) \in Seq(OfLines)
  BY <1>2, FoundInType
<1>4. seqs \in Seq(Seq(OfLines))
  BY <1>1, <1>3, IsASeq
<1>5. FlattenSeq(seqs) \in Seq(OfLines)
  BY <1>4, FlattenType
<1> QED BY <1>5 DEF Found

LEMMA NolintComplaintsType ==
  ASSUME NEW line \in LineSet, NEW n \in Nat \ {0}
  PROVE  NolintComplaints(line, n) \in Seq(OfLines)
<1>1. Target(line, n) \in Nat \ {0}
  BY DEF Target
<1>2. Complaint(NOLINT, 5, Target(line, n)) \in OfLines
  BY <1>1, ComplaintType
<1> QED BY <1>2 DEF NolintComplaints

LEMMA GuardComplaintsType ==
  ASSUME NEW lines \in Seq(LineSet)
  PROVE  GuardComplaints(lines) \in Seq(OfLines)
<1> DEFINE At(n) == IF n \in GuardLines(lines)
                    THEN NolintComplaints(lines[n], n) \o FoundIn(lines[n], n, "guard") ELSE <<>>
           seqs == [n \in DOMAIN lines |-> At(n)]
<1>1. Len(lines) \in Nat /\ DOMAIN lines = 1 .. Len(lines)
  BY LenProperties
<1>2. \A n \in 1 .. Len(lines) : lines[n] \in LineSet /\ n \in Nat \ {0}
  BY <1>1, ElementOfSeq
<1>3. ASSUME NEW n \in 1 .. Len(lines) PROVE At(n) \in Seq(OfLines)
  <2>1. NolintComplaints(lines[n], n) \in Seq(OfLines) /\ FoundIn(lines[n], n, "guard") \in Seq(OfLines)
    BY <1>2, FoundInType, NolintComplaintsType
  <2>2. NolintComplaints(lines[n], n) \o FoundIn(lines[n], n, "guard") \in Seq(OfLines)
    BY <2>1, ConcatProperties
  <2> QED BY <2>2, EmptySeq
<1>4. seqs \in Seq(Seq(OfLines))
  <2> HIDE DEF At
  <2> QED BY <1>1, <1>3, IsASeq
<1>5. FlattenSeq(seqs) \in Seq(OfLines)
  BY <1>4, FlattenType
<1> QED BY <1>5 DEF GuardComplaints

LEMMA FunctionComplaintsType ==
  ASSUME NEW line, NEW n \in Nat, lines_in_function \in Nat, base_trigger \in Nat
  PROVE  FunctionComplaints(line, n) \in Seq(Complaints)
<1>1. ErrorLevel(lines_in_function, base_trigger) \in Conf /\ 5 \in Conf
  BY DEF Conf
<1>2. /\ Complaint(FN_SIZE, ErrorLevel(lines_in_function, base_trigger), n) \in Complaints
      /\ Complaint(FN_SIZE, 5, n) \in Complaints
  BY <1>1, ComplaintType
<1>3. Check(n) \in Seq(Complaints)
  BY <1>2 DEF Check
<1> QED BY <1>2, <1>3 DEF FunctionComplaints

-----------------------------------------------------------------------------
(***************************************************************************)
(* The counts: complaints added at the end add their number.               *)
(***************************************************************************)
Joins(C, A, B, a) == \A i : i \in C <=> i \in A \/ \E j \in B : i = a + j

Adds(C, A, B) == /\ Cardinality(A) \in Nat /\ Cardinality(B) \in Nat
                 /\ Cardinality(C) = Cardinality(A) + Cardinality(B)

LEMMA ShiftedUnion ==
  ASSUME NEW a \in Nat, NEW b \in Nat, NEW A \in SUBSET (1 .. a), NEW B \in SUBSET (1 .. b),
         NEW C, Joins(C, A, B, a)
  PROVE  Adds(C, A, B)
<1> DEFINE D == {a + j : j \in B}
           f == [j \in B |-> a + j]
<1>1. IsFiniteSet(A) /\ IsFiniteSet(B)
  <2>1. IsFiniteSet(1 .. a) /\ IsFiniteSet(1 .. b)
    BY FS_Interval
  <2> QED BY <2>1, FS_Subset
<1>2. Cardinality(A) \in Nat /\ Cardinality(B) \in Nat
  BY <1>1, FS_CardinalityType
<1>3. f \in Bijection(B, D)
  <2>1. f \in [B -> D]
    OBVIOUS
  <2>2. \A i, j \in B : f[i] = f[j] => i = j
    OBVIOUS
  <2>3. \A d \in D : \E j \in B : f[j] = d
    OBVIOUS
  <2> QED BY <2>1, <2>2, <2>3 DEF Bijection, Injection, Surjection, IsInjective
<1>4. IsFiniteSet(D) /\ Cardinality(D) = Cardinality(B)
  BY <1>1, <1>3, FS_Bijection DEF ExistsBijection
<1>5. A \cap D = {} /\ C = A \cup D
  <2>1. \A i \in A : i \in 1 .. a
    OBVIOUS
  <2>2. \A j \in B : a + j \notin 1 .. a
    OBVIOUS
  <2>3. A \cap D = {}
    BY <2>1, <2>2
  <2>4. \A i : i \in D <=> \E j \in B : i = a + j
    OBVIOUS
  <2> HIDE DEF D
  <2> QED BY <2>3, <2>4 DEF Joins
<1> HIDE DEF D
<1>6. /\ IsFiniteSet(A \cup D)
      /\ Cardinality(A \cup D) = Cardinality(A) + Cardinality(D) - Cardinality(A \cap D)
  BY <1>1, <1>4, FS_Union
<1>7. Cardinality(A \cap D) = 0
  BY <1>5, FS_EmptySet
<1>8. Cardinality(C) = Cardinality(A) + Cardinality(D)
  BY <1>2, <1>4, <1>5, <1>6, <1>7
<1> QED BY <1>2, <1>4, <1>8 DEF Adds

\* The printed ones counted under a name.
NameOf(c, cat) == IF c = "toplevel" THEN Toplevel[cat] ELSE cat
CountedIn(cs, c, k) == {i \in PrintedOf(cs) : NameOf(c, cs[i].cat) = k}

LEMMA CountsAdd ==
  ASSUME NEW S, NEW s \in Seq(S), NEW t \in Seq(S), NEW c, NEW k
  PROVE  /\ Cardinality(PrintedOf(s)) \in Nat /\ Cardinality(PrintedOf(t)) \in Nat
         /\ Cardinality(PrintedOf(s \o t)) = Cardinality(PrintedOf(s)) + Cardinality(PrintedOf(t))
         /\ Cardinality(CountedIn(s, c, k)) \in Nat /\ Cardinality(CountedIn(t, c, k)) \in Nat
         /\ Cardinality(CountedIn(s \o t, c, k))
              = Cardinality(CountedIn(s, c, k)) + Cardinality(CountedIn(t, c, k))
<1> DEFINE u == s \o t
           a == Len(s)
           b == Len(t)
<1>1. a \in Nat /\ b \in Nat /\ DOMAIN s = 1 .. a /\ DOMAIN t = 1 .. b
  BY LenProperties
<1>2. /\ u \in Seq(S) /\ Len(u) = a + b
      /\ \A i \in 1 .. a + b : u[i] = IF i <= a THEN s[i] ELSE t[i - a]
  BY ConcatProperties
<1>3. DOMAIN u = 1 .. a + b
  BY <1>2, LenProperties
<1> HIDE DEF u, a, b
<1>4. /\ \A i \in 1 .. a : u[i] = s[i] /\ i \in 1 .. a + b
      /\ \A j \in 1 .. b : u[a + j] = t[j] /\ a + j \in 1 .. a + b
  <2>1. \A i \in 1 .. a : i \in 1 .. a + b /\ i <= a
    BY <1>1
  <2>2. \A j \in 1 .. b : a + j \in 1 .. a + b /\ ~(a + j <= a) /\ (a + j) - a = j
    BY <1>1
  <2> QED BY <1>2, <2>1, <2>2
<1>5. \A i \in 1 .. a + b : i \in 1 .. a \/ \E j \in 1 .. b : i = a + j
  <2> SUFFICES ASSUME NEW i \in 1 .. a + b, ~(i <= a) PROVE i - a \in 1 .. b /\ i = a + (i - a)
    BY <1>1
  <2> QED BY <1>1
<1>6. /\ \A i : i \in PrintedOf(s) <=> i \in 1 .. a /\ s[i].printed
      /\ \A j : j \in PrintedOf(t) <=> j \in 1 .. b /\ t[j].printed
      /\ \A i : i \in PrintedOf(u) <=> i \in 1 .. a + b /\ u[i].printed
  BY <1>1, <1>3 DEF PrintedOf
<1>7. \A i : i \in PrintedOf(u) <=> i \in PrintedOf(s) \/ \E j \in PrintedOf(t) : i = a + j
  BY <1>4, <1>5, <1>6
<1>8. PrintedOf(s) \in SUBSET (1 .. a) /\ PrintedOf(t) \in SUBSET (1 .. b)
  BY <1>6
<1>9. /\ \A i : i \in CountedIn(s, c, k) <=> i \in PrintedOf(s) /\ NameOf(c, s[i].cat) = k
      /\ \A j : j \in CountedIn(t, c, k) <=> j \in PrintedOf(t) /\ NameOf(c, t[j].cat) = k
      /\ \A i : i \in CountedIn(u, c, k) <=> i \in PrintedOf(u) /\ NameOf(c, u[i].cat) = k
  BY DEF CountedIn
<1>10. \A i : i \in CountedIn(u, c, k) <=>
                i \in CountedIn(s, c, k) \/ \E j \in CountedIn(t, c, k) : i = a + j
  BY <1>4, <1>6, <1>7, <1>9
<1>11. CountedIn(s, c, k) \in SUBSET (1 .. a) /\ CountedIn(t, c, k) \in SUBSET (1 .. b)
  BY <1>8, <1>9
<1>12. /\ Cardinality(PrintedOf(s)) \in Nat /\ Cardinality(PrintedOf(t)) \in Nat
       /\ Cardinality(PrintedOf(u)) = Cardinality(PrintedOf(s)) + Cardinality(PrintedOf(t))
  <2>1. Joins(PrintedOf(u), PrintedOf(s), PrintedOf(t), a)
    BY <1>7 DEF Joins
  <2>2. Adds(PrintedOf(u), PrintedOf(s), PrintedOf(t))
    BY ONLY <1>1, <1>8, <2>1, ShiftedUnion
  <2> QED BY <2>2 DEF Adds
<1>13. /\ Cardinality(CountedIn(s, c, k)) \in Nat /\ Cardinality(CountedIn(t, c, k)) \in Nat
       /\ Cardinality(CountedIn(u, c, k))
            = Cardinality(CountedIn(s, c, k)) + Cardinality(CountedIn(t, c, k))
  <2>1. Joins(CountedIn(u, c, k), CountedIn(s, c, k), CountedIn(t, c, k), a)
    BY <1>10 DEF Joins
  <2>2. Adds(CountedIn(u, c, k), CountedIn(s, c, k), CountedIn(t, c, k))
    BY ONLY <1>1, <1>11, <2>1, ShiftedUnion
  <2> QED BY <2>2 DEF Adds
<1> QED BY <1>12, <1>13 DEF u

-----------------------------------------------------------------------------
(***************************************************************************)
(* What is judged of a complaint, with the files ts and the options av.    *)
(***************************************************************************)
CallSet == [file : Nat, at : Nat, cat : Categories, conf : Conf, line : Nat, printed : BOOLEAN]

GlobalAt(f, cat) == f.readable /\ f.lintable /\ GlobalHere(f.lines, cat)
Silenced(cat, ts, n, av) ==
  Off(DefaultFilters \o av.filters, cat) \/ \E k \in 1 .. n : GlobalAt(ts[k], cat)
AboutMark(e, lines) == e.at = 0 /\ e.cat = NOLINT /\ lines[e.line].global = "unknown"

Judges(e, ts, av) ==
  /\ e.file \in 1 .. Len(ts)
  /\ ~e.printed => \/ AboutMark(e, ts[e.file].lines)
                   \/ ~(e.conf >= av.verbose)
                   \/ Silenced(e.cat, ts, e.file, av)
                   \/ NolintOn(ts[e.file].lines, e.line, e.cat)
  /\ e.printed => /\ e.conf >= av.verbose
                  /\ ~Silenced(e.cat, ts, e.file, av)
                  /\ e.line <= e.at => ~NolintOn(ts[e.file].lines, e.line, e.cat)

\* Suppressions that come from the lines, and those of the first n lines.
FromLines(supp, lines) ==
  \A cat \in Categories, l \in Nat : IsErrorSuppressedByNolint(supp, cat, l) => NolintOn(lines, l, cat)
Collects(supp, lines, n) == \A m \in 1 .. n : NolintSuppressions(lines[m], m) \subseteq supp
UpToLine(supp, lines, n) ==
  \A cat \in Categories, l \in Nat :
    l <= n /\ NolintOn(lines, l, cat) => IsErrorSuppressedByNolint(supp, cat, l)

\* Another file takes nothing back.
LEMMA JudgesStays ==
  ASSUME NEW ts \in Seq(FileSet), NEW f \in FileSet, NEW av, NEW e, Judges(e, ts, av)
  PROVE  Judges(e, Append(ts, f), av)
<1> DEFINE us == Append(ts, f)
           N == Len(ts)
<1>1. N \in Nat
  BY LenProperties
<1>2. Len(us) = N + 1 /\ \A k \in 1 .. N : us[k] = ts[k]
  BY AppendProperties
<1> HIDE DEF us, N
<1>3. e.file \in 1 .. N
  BY DEF Judges, N
<1>4. e.file \in 1 .. Len(us) /\ us[e.file] = ts[e.file]
  BY <1>1, <1>2, <1>3
<1>5. \A k \in 1 .. e.file : us[k] = ts[k]
  <2>1. \A k \in 1 .. e.file : k \in 1 .. N
    BY <1>1, <1>3
  <2> QED BY <1>2, <2>1
<1>6. Silenced(e.cat, us, e.file, av) <=> Silenced(e.cat, ts, e.file, av)
  BY <1>5 DEF Silenced
<1>7. Judges(e, us, av)
  BY <1>4, <1>6 DEF Judges
<1> QED BY <1>7 DEF us

\* The suppressions one line adds.
LEMMA LineSuppresses ==
  ASSUME NEW lines \in Seq(LineSet), NEW m \in 1 .. Len(lines), NEW cat \in Categories, NEW l \in Nat
  PROVE  /\ IsErrorSuppressedByNolint(NolintSuppressions(lines[m], m), cat, l) => NolintOn(lines, l, cat)
         /\ lines[m].nolint \in {"all", cat} /\ l = Target(lines[m], m) =>
               IsErrorSuppressedByNolint(NolintSuppressions(lines[m], m), cat, l)
<1>1. DOMAIN lines = 1 .. Len(lines)
  BY LenProperties
<1>2. cat # "none" /\ cat # "unknown"
  BY MarksAssumption
<1>3. ASSUME IsErrorSuppressedByNolint(NolintSuppressions(lines[m], m), cat, l)
      PROVE  NolintOn(lines, l, cat)
  <2>1. <<lines[m].nolint, Target(lines[m], m)>> \in {<<cat, l>>, <<"all", l>>}
    BY <1>3 DEF IsErrorSuppressedByNolint, NolintSuppressions
  <2>2. lines[m].nolint \in {"all", cat} /\ l = Target(lines[m], m)
    BY <2>1
  <2> QED BY <1>1, <2>2 DEF NolintOn, Target
<1>4. ASSUME lines[m].nolint \in {"all", cat}, l = Target(lines[m], m)
      PROVE  IsErrorSuppressedByNolint(NolintSuppressions(lines[m], m), cat, l)
  <2>1. lines[m].nolint \notin {"none", "unknown"}
    BY <1>2, <1>4
  <2>2. NolintSuppressions(lines[m], m) = {<<lines[m].nolint, l>>}
    BY <1>4, <2>1 DEF NolintSuppressions
  <2> QED BY <1>4, <2>2 DEF IsErrorSuppressedByNolint
<1> QED BY <1>3, <1>4

LEMMA SuppressionsJoin ==
  ASSUME NEW s, NEW t, NEW cat, NEW l
  PROVE  IsErrorSuppressedByNolint(s \cup t, cat, l) <=>
           IsErrorSuppressedByNolint(s, cat, l) \/ IsErrorSuppressedByNolint(t, cat, l)
BY DEF IsErrorSuppressedByNolint

\* A NOLINT speaks of its own line or the next, so the lines up to n tell of n.
LEMMA CollectedUpTo ==
  ASSUME NEW lines \in Seq(LineSet), NEW supp, NEW n \in Nat, NEW at \in Nat,
         n <= Len(lines), at <= n \/ n = Len(lines), Collects(supp, lines, n)
  PROVE  UpToLine(supp, lines, at)
<1> SUFFICES ASSUME NEW cat \in Categories, NEW l \in Nat, l <= at, NolintOn(lines, l, cat)
             PROVE  IsErrorSuppressedByNolint(supp, cat, l)
  BY DEF UpToLine
<1>1. Len(lines) \in Nat /\ DOMAIN lines = 1 .. Len(lines)
  BY LenProperties
<1> DEFINE L == Len(lines)
<1>2. PICK m \in 1 .. L : lines[m].nolint \in {"all", cat} /\ l = Target(lines[m], m)
  BY <1>1 DEF NolintOn, Target
<1>7. L \in Nat
  BY <1>1
<1> HIDE DEF L
<1>3. m \in Nat /\ 1 <= m /\ m <= Len(lines) /\ m <= l
  <2>1. l = m \/ l = m + 1
    BY <1>2 DEF Target
  <2>2. m \in Nat /\ 1 <= m /\ m <= L
    BY <1>7
  <2> QED BY <2>1, <2>2 DEF L
<1>4. m \in 1 .. n
  <2>1. CASE at <= n
    BY <1>3, <2>1
  <2>2. CASE n = Len(lines)
    BY <1>3, <2>2
  <2> QED BY <2>1, <2>2
<1>5. IsErrorSuppressedByNolint(NolintSuppressions(lines[m], m), cat, l)
  BY <1>2, LineSuppresses DEF L
<1>6. NolintSuppressions(lines[m], m) \subseteq supp
  BY <1>4 DEF Collects
<1> QED BY <1>5, <1>6 DEF IsErrorSuppressedByNolint

\* The complaints of one step are judged.
LEMMA CallsJudged ==
  ASSUME NEW ts \in Seq(FileSet), ts # <<>>, NEW cs \in Seq(Complaints), NEW at \in Nat,
         NEW supp, NEW fs, NEW av, NEW called, called = Called(cs, Len(ts), at, supp, fs),
         verbose_level = av.verbose,
         \A cat \in Categories : IsFiltered(fs, cat) <=> Silenced(cat, ts, Len(ts), av),
         UpToLine(supp, ts[Len(ts)].lines, at),
         \/ FromLines(supp, ts[Len(ts)].lines)
         \/ /\ at = 0
            /\ \A i \in 1 .. Len(cs) : cs[i].cat = NOLINT /\ ts[Len(ts)].lines[cs[i].line].global = "unknown"
  PROVE  called \in Seq(CallSet) /\ \A i \in 1 .. Len(called) : Judges(called[i], ts, av)
<1> DEFINE N == Len(ts)
           K == Len(cs)
           lines == ts[N].lines
<1>1. N \in Nat /\ N \in 1 .. N /\ K \in Nat /\ DOMAIN cs = 1 .. K
  BY LenProperties, EmptySeq
<1>2. \A i \in 1 .. K : cs[i] \in Complaints
  BY ElementOfSeq
<1>3. called = [i \in 1 .. K |-> [file |-> N, at |-> at, cat |-> cs[i].cat, conf |-> cs[i].conf,
                          line |-> cs[i].line, printed |-> ShouldPrintError(cs[i], supp, fs)]]
  BY <1>1 DEF Called
<1> HIDE DEF N, K
<1>4. called \in Seq(CallSet) /\ Len(called) = K
  <2>1. ASSUME NEW i \in 1 .. K
        PROVE  [file |-> N, at |-> at, cat |-> cs[i].cat, conf |-> cs[i].conf,
                line |-> cs[i].line, printed |-> ShouldPrintError(cs[i], supp, fs)] \in CallSet
    <3>1. cs[i].cat \in Categories /\ cs[i].conf \in Conf /\ cs[i].line \in Nat
      BY <1>2 DEF Complaints
    <3>2. ShouldPrintError(cs[i], supp, fs) \in BOOLEAN
      BY DEF ShouldPrintError
    <3> QED BY <1>1, <3>1, <3>2 DEF CallSet
  <2> QED BY <1>1, <1>3, <2>1, IsASeq, LenProperties
<1>5. ASSUME NEW i \in 1 .. K PROVE Judges(called[i], ts, av)
  <2> DEFINE e == called[i]
             c == cs[i]
  <2>1. /\ e.file = N /\ e.at = at /\ e.cat = c.cat /\ e.conf = c.conf /\ e.line = c.line
        /\ e.printed = ShouldPrintError(c, supp, fs)
    BY <1>3
  <2>2. c.cat \in Categories /\ c.line \in Nat
    BY <1>2 DEF Complaints
  <2>3. e.printed <=> /\ ~IsErrorSuppressedByNolint(supp, c.cat, c.line)
                      /\ c.conf >= av.verbose /\ ~Silenced(c.cat, ts, N, av)
    BY <2>1, <2>2 DEF ShouldPrintError, N
  <2>4. c.line <= at /\ NolintOn(lines, c.line, c.cat) => IsErrorSuppressedByNolint(supp, c.cat, c.line)
    BY <2>2 DEF UpToLine, N
  <2>5. IsErrorSuppressedByNolint(supp, c.cat, c.line) =>
          NolintOn(lines, c.line, c.cat) \/ AboutMark(e, lines)
    <3>1. CASE FromLines(supp, lines)
      BY <2>2, <3>1 DEF FromLines
    <3>2. CASE /\ at = 0
               /\ \A j \in 1 .. K : cs[j].cat = NOLINT /\ lines[cs[j].line].global = "unknown"
      BY <2>1, <3>2 DEF AboutMark
    <3> QED BY <3>1, <3>2 DEF N, K
  <2> HIDE DEF e, c, lines
  <2>6. Judges(e, ts, av)
    BY <1>1, <2>1, <2>3, <2>4, <2>5 DEF Judges, lines, N
  <2> QED BY <2>6 DEF e
<1> QED BY <1>4, <1>5

-----------------------------------------------------------------------------
(***************************************************************************)
(* The inductive invariant: the filters are what the options and the       *)
(* GLOBAL_NOLINT marks of all files so far ask for, the suppressions are   *)
(* those of the current file's lines so far, every complaint was judged    *)
(* by them, and the counts are those of the printed ones.                  *)
(***************************************************************************)
CountsRight(cs, n, by, c) ==
  /\ n = Cardinality(PrintedOf(cs))
  /\ c # "total" => \A k \in Counters : by[k] = Cardinality(CountedIn(cs, c, k))
AllJudged(cs, ts, av) == \A i \in 1 .. Len(cs) : Judges(cs[i], ts, av)
FiltersRight(fs, ts, av) == \A cat \in Categories : Off(fs, cat) <=> Silenced(cat, ts, Len(ts), av)
LastLines(ts) == ts[Len(ts)].lines

LintType ==
  /\ argv \in Args /\ texts \in Seq(FileSet) /\ linenum \in Nat /\ filters \in Seq(FilterSet)
  /\ lines_in_function \in Nat /\ base_trigger \in Nat /\ calls \in Seq(CallSet)
  /\ error_count \in Nat /\ errors_by_category \in [Counters -> Nat]
  /\ status \in {"start", "idle", "file", "exited"}
StartInv ==
  status = "start" =>
    /\ texts = <<>> /\ calls = <<>> /\ error_count = 0
    /\ errors_by_category = [k \in Counters |-> 0]
FileInv ==
  status = "file" => texts # <<>> /\ Linted(Len(texts)) /\ linenum <= Len(LastLines(texts))
FilterInv == status \in {"idle", "file"} => verbose_level = argv.verbose /\ FiltersRight(filters, texts, argv)
SuppressionInv ==
  status = "file" => /\ FromLines(error_suppressions, LastLines(texts))
                     /\ Collects(error_suppressions, LastLines(texts), linenum)
CountInv ==
  /\ CountsRight(calls, error_count, errors_by_category, counting)
  /\ status = "exited" /\ texts # <<>> =>
        \/ exit_status = 1 /\ Crashed
        \/ exit_status = IF PrintedOf(calls) # {} THEN 1 ELSE 0
LintInv ==
  /\ LintType /\ StartInv /\ FileInv /\ FilterInv /\ SuppressionInv
  /\ AllJudged(calls, texts, argv) /\ CountInv

LEMMA NothingCounted ==
  ASSUME NEW n, n = 0, NEW by, by = [k \in Counters |-> 0], NEW c
  PROVE  CountsRight(<<>>, n, by, c)
<1>1. PrintedOf(<<>>) = {}
  BY DEF PrintedOf
<1>2. \A k : CountedIn(<<>>, c, k) = {}
  BY <1>1 DEF CountedIn
<1> QED BY <1>1, <1>2, FS_EmptySet DEF CountsRight

LEMMA ErrorCounts ==
  ASSUME LintType, CountsRight(calls, error_count, errors_by_category, counting),
         NEW cs \in Seq(CallSet), Error(cs)
  PROVE  /\ calls' = calls \o cs /\ calls' \in Seq(CallSet)
         /\ error_count' \in Nat /\ errors_by_category' \in [Counters -> Nat]
         /\ CountsRight(calls \o cs, error_count', errors_by_category', counting)
<1>1. /\ error_count' = error_count + Cardinality(PrintedOf(cs)) /\ calls' = calls \o cs
      /\ errors_by_category' =
          IF counting = "total" THEN errors_by_category
          ELSE [k \in Counters |-> errors_by_category[k] + Cardinality(CountedIn(cs, counting, k))]
  BY DEF Error, IncrementErrorCount, CountedAs, CountedIn, NameOf
<1>2. /\ calls \in Seq(CallSet) /\ error_count \in Nat /\ errors_by_category \in [Counters -> Nat]
  BY DEF LintType
<1>3. calls \o cs \in Seq(CallSet)
  BY <1>2, ConcatProperties
<1>4. /\ Cardinality(PrintedOf(cs)) \in Nat
      /\ Cardinality(PrintedOf(calls \o cs)) = error_count + Cardinality(PrintedOf(cs))
  BY <1>2, CountsAdd DEF CountsRight
<1>5. ASSUME NEW k \in Counters
      PROVE  /\ Cardinality(CountedIn(cs, counting, k)) \in Nat
             /\ Cardinality(CountedIn(calls \o cs, counting, k))
                  = Cardinality(CountedIn(calls, counting, k)) + Cardinality(CountedIn(cs, counting, k))
  BY <1>2, CountsAdd
<1>6. error_count' \in Nat /\ errors_by_category' \in [Counters -> Nat]
  BY <1>1, <1>2, <1>4, <1>5
<1>7. counting # "total" =>
        \A k \in Counters : errors_by_category'[k] = Cardinality(CountedIn(calls \o cs, counting, k))
  BY <1>1, <1>5 DEF CountsRight
<1> QED BY <1>1, <1>3, <1>4, <1>6, <1>7 DEF CountsRight

LEMMA JudgedTogether ==
  ASSUME NEW ts, NEW av, NEW s \in Seq(CallSet), NEW t \in Seq(CallSet),
         AllJudged(s, ts, av), AllJudged(t, ts, av)
  PROVE  s \o t \in Seq(CallSet) /\ AllJudged(s \o t, ts, av)
<1> DEFINE u == s \o t
           a == Len(s)
           b == Len(t)
<1>1. a \in Nat /\ b \in Nat
  BY LenProperties
<1>2. /\ u \in Seq(CallSet) /\ Len(u) = a + b
      /\ \A i \in 1 .. a + b : u[i] = IF i <= a THEN s[i] ELSE t[i - a]
  BY ConcatProperties
<1>3. (\A i \in 1 .. a : Judges(s[i], ts, av)) /\ \A i \in 1 .. b : Judges(t[i], ts, av)
  BY DEF AllJudged
<1> HIDE DEF u, a, b
<1>4. ASSUME NEW i \in 1 .. a + b PROVE Judges(u[i], ts, av)
  <2>1. CASE i <= a
    <3>1. i \in 1 .. a /\ u[i] = s[i]
      BY <1>1, <1>2, <2>1
    <3> QED BY <1>3, <3>1
  <2>2. CASE ~(i <= a)
    <3>1. i - a \in 1 .. b
      BY <1>1, <2>2
    <3>2. u[i] = t[i - a]
      BY <1>2, <2>2
    <3> QED BY <1>3, <3>1, <3>2
  <2> QED BY <2>1, <2>2
<1>5. AllJudged(u, ts, av)
  BY <1>2, <1>4 DEF AllJudged
<1> QED BY <1>2, <1>5 DEF u

LEMMA AppendFile ==
  ASSUME NEW ts \in Seq(FileSet), NEW f \in FileSet
  PROVE  /\ Append(ts, f) \in Seq(FileSet) /\ Append(ts, f) # <<>>
         /\ Len(Append(ts, f)) = Len(ts) + 1 /\ LastLines(Append(ts, f)) = f.lines
         /\ \A cat, av : Silenced(cat, Append(ts, f), Len(Append(ts, f)), av)
                           <=> Silenced(cat, ts, Len(ts), av) \/ GlobalAt(f, cat)
<1> DEFINE us == Append(ts, f)
           N == Len(ts)
<1>1. N \in Nat
  BY LenProperties
<1>2. /\ us \in Seq(FileSet) /\ Len(us) = N + 1 /\ us[N + 1] = f /\ \A k \in 1 .. N : us[k] = ts[k]
  BY AppendProperties
<1> HIDE DEF us, N
<1>3. us # <<>>
  BY <1>1, <1>2, EmptySeq
<1>4. LastLines(us) = f.lines
  BY <1>2 DEF LastLines
<1>5. \A k : k \in 1 .. N + 1 <=> k \in 1 .. N \/ k = N + 1
  BY <1>1
<1>6. ASSUME NEW cat, NEW av
      PROVE  Silenced(cat, us, N + 1, av) <=> Silenced(cat, ts, N, av) \/ GlobalAt(f, cat)
  <2>1. (\E k \in 1 .. N + 1 : GlobalAt(us[k], cat)) <=> (\E k \in 1 .. N : GlobalAt(ts[k], cat)) \/ GlobalAt(f, cat)
    BY <1>2, <1>5
  <2> QED BY <2>1 DEF Silenced
<1> QED BY <1>2, <1>3, <1>4, <1>6 DEF us, N

LEMMA LintInit == Init => LintInv
<1> SUFFICES ASSUME Init PROVE LintInv
  OBVIOUS
<1>1. /\ status = "start" /\ argv \in Args /\ filters = DefaultFilters /\ error_count = 0
      /\ errors_by_category = [k \in Counters |-> 0] /\ lines_in_function = 0
      /\ base_trigger = NormalTrigger /\ linenum = 0 /\ texts = <<>> /\ calls = <<>>
  BY DEF Init
<1>2. LintType
  BY <1>1, FileTypes, TriggersAssumption, EmptySeq DEF LintType
<1>3. StartInv /\ FileInv /\ FilterInv /\ SuppressionInv
  BY <1>1 DEF StartInv, FileInv, FilterInv, SuppressionInv
<1>4. AllJudged(calls, texts, argv)
  <2>1. Len(calls) = 0 /\ 1 .. 0 = {}
    BY <1>1, EmptySeq
  <2> QED BY <2>1 DEF AllJudged
<1>5. CountInv
  <2>1. CountsRight(calls, error_count, errors_by_category, counting)
    BY <1>1, NothingCounted
  <2> QED BY <1>1, <2>1 DEF CountInv
<1> QED BY <1>2, <1>3, <1>4, <1>5 DEF LintInv

LEMMA LintPrintUsage == LintInv /\ PrintUsage => LintInv'
<1> SUFFICES ASSUME LintInv, PrintUsage PROVE LintInv'
  OBVIOUS
<1>1. /\ status = "start" /\ status' = "exited"
      /\ argv' = argv /\ verbose_level' = verbose_level /\ counting' = counting /\ filters' = filters
      /\ error_count' = error_count /\ errors_by_category' = errors_by_category /\ calls' = calls
      /\ error_suppressions' = error_suppressions /\ linenum' = linenum /\ texts' = texts
      /\ lines_in_function' = lines_in_function /\ base_trigger' = base_trigger
  BY DEF PrintUsage, options, counts, fileVars, functionVars
<1>2. LintType'
  BY <1>1 DEF LintInv, LintType
<1>3. StartInv' /\ FileInv' /\ FilterInv' /\ SuppressionInv'
  BY <1>1 DEF StartInv, FileInv, FilterInv, SuppressionInv
<1>4. AllJudged(calls, texts, argv)'
  BY <1>1 DEF LintInv
<1>5. CountInv'
  BY <1>1 DEF LintInv, CountInv, StartInv
<1> QED BY <1>2, <1>3, <1>4, <1>5 DEF LintInv

LEMMA LintParseArguments == LintInv /\ ParseArguments => LintInv'
<1> SUFFICES ASSUME LintInv, ParseArguments PROVE LintInv'
  OBVIOUS
<1> DEFINE fs == DefaultFilters \o argv.filters
<1>1. /\ status = "start" /\ status' \in {"idle", "exited"}
      /\ argv' = argv /\ verbose_level' = argv.verbose /\ filters' = fs
      /\ error_count' = error_count /\ errors_by_category' = errors_by_category /\ calls' = calls
      /\ error_suppressions' = error_suppressions /\ linenum' = linenum /\ texts' = texts
      /\ lines_in_function' = lines_in_function /\ base_trigger' = base_trigger
  BY DEF ParseArguments, options, counts, fileVars, functionVars
<1>2. /\ texts = <<>> /\ calls = <<>> /\ error_count = 0
      /\ errors_by_category = [k \in Counters |-> 0]
  BY <1>1 DEF LintInv, StartInv
<1>3. LintType'
  <2>1. argv \in Args /\ fs \in Seq(FilterSet)
    BY FileTypes, ConcatProperties DEF LintInv, LintType
  <2> HIDE DEF fs
  <2> QED BY <1>1, <2>1 DEF LintInv, LintType
<1>4. StartInv' /\ FileInv' /\ SuppressionInv'
  BY <1>1 DEF StartInv, FileInv, SuppressionInv
<1>5. FilterInv'
  <2>1. FiltersRight(fs, <<>>, argv)
    <3>1. Len(<<>>) = 0 /\ 1 .. 0 = {}
      BY EmptySeq
    <3> QED BY <3>1 DEF FiltersRight, Silenced
  <2> HIDE DEF fs
  <2> QED BY <1>1, <1>2, <2>1 DEF FilterInv
<1>6. AllJudged(calls, texts, argv)'
  BY <1>1 DEF LintInv
<1>7. CountInv'
  <2>1. CountsRight(<<>>, error_count, errors_by_category, counting')
    BY <1>2, NothingCounted
  <2> QED BY <1>1, <1>2, <2>1 DEF CountInv
<1> QED BY <1>3, <1>4, <1>5, <1>6, <1>7 DEF LintInv

LEMMA LintSkipFile ==
  ASSUME LintInv, NEW f \in FileSet, SkipFile(f)
  PROVE  LintInv'
<1>1. /\ status = "idle" /\ status' = "idle" /\ texts' = Append(texts, f)
      /\ ~(f.readable /\ f.lintable)
      /\ argv' = argv /\ verbose_level' = verbose_level /\ counting' = counting /\ filters' = filters
      /\ error_count' = error_count /\ errors_by_category' = errors_by_category /\ calls' = calls
      /\ error_suppressions' = error_suppressions /\ linenum' = linenum
      /\ lines_in_function' = lines_in_function /\ base_trigger' = base_trigger
  BY DEF SkipFile, NextFile, options, counts, fileVars, functionVars
<1>2. texts \in Seq(FileSet)
  BY DEF LintInv, LintType
<1>3. /\ Append(texts, f) \in Seq(FileSet)
      /\ \A cat, av : Silenced(cat, Append(texts, f), Len(Append(texts, f)), av)
                        <=> Silenced(cat, texts, Len(texts), av) \/ GlobalAt(f, cat)
  BY <1>2, AppendFile
<1>4. LintType'
  BY <1>1, <1>3 DEF LintInv, LintType
<1>5. StartInv' /\ FileInv' /\ SuppressionInv'
  BY <1>1 DEF StartInv, FileInv, SuppressionInv
<1>6. FilterInv'
  <2>1. \A cat : ~GlobalAt(f, cat)
    BY <1>1 DEF GlobalAt
  <2>2. FiltersRight(filters, Append(texts, f), argv)
    BY <1>1, <1>3, <2>1 DEF LintInv, FilterInv, FiltersRight
  <2>3. verbose_level = argv.verbose
    BY <1>1 DEF LintInv, FilterInv
  <2> QED BY <1>1, <2>2, <2>3 DEF FilterInv
<1>7. AllJudged(calls, texts, argv)'
  <2>1. AllJudged(calls, Append(texts, f), argv)
    BY <1>2, JudgesStays DEF LintInv, AllJudged
  <2> QED BY <1>1, <2>1
<1>8. CountInv'
  BY <1>1 DEF LintInv, CountInv
<1> QED BY <1>4, <1>5, <1>6, <1>7, <1>8 DEF LintInv

\* The suppressions of the header guard are those of its lines.
LEMMA GuardFromLines ==
  ASSUME NEW lines \in Seq(LineSet)
  PROVE  FromLines({}, lines) /\ FromLines(GuardSuppressions(lines), lines)
<1>1. FromLines({}, lines)
  BY DEF FromLines, IsErrorSuppressedByNolint
<1>2. ASSUME NEW cat \in Categories, NEW l \in Nat,
             IsErrorSuppressedByNolint(GuardSuppressions(lines), cat, l)
      PROVE  NolintOn(lines, l, cat)
  <2>1. PICK n \in GuardLines(lines) : IsErrorSuppressedByNolint(NolintSuppressions(lines[n], n), cat, l)
    BY <1>2 DEF IsErrorSuppressedByNolint, GuardSuppressions
  <2>2. n \in 1 .. Len(lines)
    BY LenProperties DEF GuardLines
  <2> QED BY <2>1, <2>2, LineSuppresses
<1> QED BY <1>1, <1>2 DEF FromLines

LEMMA NoLineYet ==
  ASSUME NEW lines \in Seq(LineSet), NEW supp
  PROVE  Collects(supp, lines, 0) /\ UpToLine(supp, lines, 0)
<1>1. 1 .. 0 = {} /\ Len(lines) \in Nat
  BY LenProperties
<1>2. Collects(supp, lines, 0)
  BY <1>1 DEF Collects
<1>3. 0 \in Nat /\ 0 <= Len(lines) /\ 0 <= 0
  BY <1>1
<1> QED BY <1>2, <1>3, CollectedUpTo

LEMMA LintOpenFile ==
  ASSUME LintInv, NEW f \in FileSet, OpenFile(f)
  PROVE  LintInv'
<1> DEFINE ts == Append(texts, f)
           gs == filters \o GlobalFilters(f.lines)
           supp == GuardSuppressions(f.lines)
           marks == Called(GlobalComplaints(f.lines), Len(texts) + 1, 0, error_suppressions, gs)
           early == Called(Found(f.lines, "early"), Len(texts) + 1, 0, {}, gs)
           open == Called(GuardComplaints(f.lines) \o Found(f.lines, "open"), Len(texts) + 1, 0, supp, gs)
           cs == marks \o early \o open
<1>1. /\ status = "idle" /\ status' = "file" /\ texts' = ts /\ f.readable /\ f.lintable
      /\ argv' = argv /\ verbose_level' = verbose_level /\ counting' = counting
      /\ filters' = gs /\ error_suppressions' = supp /\ linenum' = 0
      /\ lines_in_function' = 0 /\ base_trigger' = NormalTrigger
      /\ Error(cs)
  <2>1. Forgotten \cup supp = supp
    BY DEF Forgotten
  <2> QED BY <2>1 DEF OpenFile, NextFile, options, Forgotten
<1>2. LintType /\ texts \in Seq(FileSet) /\ filters \in Seq(FilterSet) /\ f.lines \in Seq(LineSet)
  BY DEF LintInv, LintType, FileSet
<1>3. /\ ts \in Seq(FileSet) /\ ts # <<>> /\ Len(ts) = Len(texts) + 1 /\ LastLines(ts) = f.lines
      /\ \A cat, av : Silenced(cat, ts, Len(ts), av) <=> Silenced(cat, texts, Len(texts), av) \/ GlobalAt(f, cat)
  BY <1>2, AppendFile
<1>4. verbose_level = argv.verbose /\ FiltersRight(filters, texts, argv)
  BY <1>1 DEF LintInv, FilterInv
<1>5. gs \in Seq(FilterSet) /\ FiltersRight(gs, ts, argv)
  <2> DEFINE added == GlobalFilters(f.lines)
  <2>1. /\ added \in Seq(FilterSet) /\ \A i \in 1 .. Len(added) : added[i].sign = "-"
        /\ \A cat : (\E i \in 1 .. Len(added) : Matches(added[i], cat)) <=> GlobalHere(f.lines, cat)
    BY <1>2, GlobalFiltersType
  <2> HIDE DEF added
  <2>2. filters \o added \in Seq(FilterSet)
    BY <1>2, <2>1, ConcatProperties
  <2>3. ASSUME NEW cat \in Categories
        PROVE  Off(filters \o added, cat) <=> Silenced(cat, ts, Len(ts), argv)
    <3>1. Off(filters \o added, cat) <=> Off(filters, cat) \/ \E i \in 1 .. Len(added) : Matches(added[i], cat)
      BY <1>2, <2>1, OffConcat
    <3>2. GlobalAt(f, cat) <=> GlobalHere(f.lines, cat)
      BY <1>1 DEF GlobalAt
    <3>3. Off(filters, cat) <=> Silenced(cat, texts, Len(texts), argv)
      BY <1>4 DEF FiltersRight
    <3> HIDE DEF ts
    <3> QED BY <1>3, <2>1, <3>1, <3>2, <3>3
  <2> QED BY <2>2, <2>3 DEF FiltersRight, added
<1> HIDE DEF ts, gs, supp
<1>6. \A cat \in Categories : IsFiltered(gs, cat) <=> Silenced(cat, ts, Len(ts), argv)
  BY <1>5, FilteredIsOff DEF FiltersRight
<1>7. FromLines({}, f.lines) /\ FromLines(supp, f.lines)
  BY <1>2, GuardFromLines DEF supp
<1>8. \A s : UpToLine(s, f.lines, 0) /\ Collects(s, f.lines, 0)
  BY <1>2, NoLineYet
<1>9. marks \in Seq(CallSet) /\ AllJudged(marks, ts, argv)
  <2> DEFINE found == GlobalComplaints(f.lines)
  <2>1. /\ found \in Seq(OfLines)
        /\ \A i \in 1 .. Len(found) : found[i].cat = NOLINT /\ f.lines[found[i].line].global = "unknown"
    BY <1>2, GlobalComplaintsType
  <2>2. found \in Seq(Complaints)
    BY <2>1, ComplaintType
  <2>3. marks = Called(found, Len(ts), 0, error_suppressions, gs)
    BY <1>3
  <2>4. UpToLine(error_suppressions, f.lines, 0) /\ 0 \in Nat
    BY <1>8
  <2> HIDE DEF found, marks
  <2>5. ts[Len(ts)].lines = f.lines
    BY <1>3 DEF LastLines
  <2>6. marks \in Seq(CallSet) /\ \A i \in 1 .. Len(marks) : Judges(marks[i], ts, argv)
    BY <1>3, <1>4, <1>6, <2>1, <2>2, <2>3, <2>4, <2>5, CallsJudged
  <2> QED BY <2>6 DEF AllJudged
<1>10. early \in Seq(CallSet) /\ AllJudged(early, ts, argv)
  <2> DEFINE found == Found(f.lines, "early")
  <2>1. found \in Seq(Complaints)
    BY <1>2, FoundType, ComplaintType
  <2>2. early = Called(found, Len(ts), 0, {}, gs)
    BY <1>3
  <2>3. UpToLine({}, f.lines, 0) /\ 0 \in Nat
    BY <1>8
  <2> HIDE DEF found, early
  <2>4. ts[Len(ts)].lines = f.lines
    BY <1>3 DEF LastLines
  <2>5. early \in Seq(CallSet) /\ \A i \in 1 .. Len(early) : Judges(early[i], ts, argv)
    BY <1>3, <1>4, <1>6, <1>7, <2>1, <2>2, <2>3, <2>4, CallsJudged
  <2> QED BY <2>5 DEF AllJudged
<1>11. open \in Seq(CallSet) /\ AllJudged(open, ts, argv)
  <2> DEFINE found == GuardComplaints(f.lines) \o Found(f.lines, "open")
  <2>1. found \in Seq(Complaints)
    <3>1. GuardComplaints(f.lines) \in Seq(Complaints) /\ Found(f.lines, "open") \in Seq(Complaints)
      BY <1>2, FoundType, GuardComplaintsType, ComplaintType
    <3> QED BY <3>1, ConcatProperties
  <2>2. open = Called(found, Len(ts), 0, supp, gs)
    BY <1>3
  <2>3. UpToLine(supp, f.lines, 0) /\ 0 \in Nat
    BY <1>8
  <2> HIDE DEF found, open
  <2>4. ts[Len(ts)].lines = f.lines
    BY <1>3 DEF LastLines
  <2>5. open \in Seq(CallSet) /\ \A i \in 1 .. Len(open) : Judges(open[i], ts, argv)
    BY <1>3, <1>4, <1>6, <1>7, <2>1, <2>2, <2>3, <2>4, CallsJudged
  <2> QED BY <2>5 DEF AllJudged
<1>12. cs \in Seq(CallSet) /\ AllJudged(cs, ts, argv)
  <2> HIDE DEF marks, early, open
  <2>1. marks \o early \in Seq(CallSet) /\ AllJudged(marks \o early, ts, argv)
    BY <1>9, <1>10, JudgedTogether
  <2> QED BY <1>11, <2>1, JudgedTogether
<1> HIDE DEF cs
<1>13. /\ calls' = calls \o cs /\ calls' \in Seq(CallSet)
       /\ error_count' \in Nat /\ errors_by_category' \in [Counters -> Nat]
       /\ CountsRight(calls \o cs, error_count', errors_by_category', counting)
  BY <1>1, <1>2, <1>12, ErrorCounts DEF LintInv, CountInv
<1>14. LintType'
  BY <1>1, <1>2, <1>3, <1>5, <1>13, TriggersAssumption DEF LintType
<1>15. StartInv' /\ FilterInv'
  BY <1>1, <1>4, <1>5 DEF StartInv, FilterInv
<1>16. FileInv' /\ SuppressionInv'
  <2>1. 0 <= Len(f.lines)
    BY <1>2, LenProperties
  <2>2. texts' # <<>> /\ LastLines(texts') = f.lines /\ Linted(Len(texts))'
    BY <1>1, <1>2, <1>3, AppendProperties DEF Linted, ts
  <2> QED BY <1>1, <1>7, <1>8, <2>1, <2>2 DEF FileInv, SuppressionInv
<1>17. AllJudged(calls, texts, argv)'
  <2>1. AllJudged(calls, ts, argv)
    BY <1>2, JudgesStays DEF LintInv, AllJudged, ts
  <2>2. AllJudged(calls \o cs, ts, argv)
    BY <1>2, <1>12, <2>1, JudgedTogether DEF LintType
  <2> QED BY <1>1, <1>13, <2>2
<1>18. CountInv'
  BY <1>1, <1>13 DEF CountInv
<1> QED BY <1>14, <1>15, <1>16, <1>17, <1>18 DEF LintInv

\* A step in the current file that makes complaints cs.
LEMMA LintComplains ==
  ASSUME LintInv, status = "file", NEW found \in Seq(Complaints), NEW at \in Nat, NEW supp,
         FromLines(supp, LastLines(texts)), UpToLine(supp, LastLines(texts), at),
         Error(Called(found, Len(texts), at, supp, filters)),
         argv' = argv, texts' = texts, counting' = counting
  PROVE  /\ calls' \in Seq(CallSet) /\ error_count' \in Nat /\ errors_by_category' \in [Counters -> Nat]
         /\ CountsRight(calls', error_count', errors_by_category', counting')
         /\ AllJudged(calls', texts', argv')
<1> DEFINE cs == Called(found, Len(texts), at, supp, filters)
<1>1. LintType /\ texts \in Seq(FileSet) /\ texts # <<>> /\ filters \in Seq(FilterSet) /\ calls \in Seq(CallSet)
  BY DEF LintInv, LintType, FileInv
<1>2. verbose_level = argv.verbose /\ FiltersRight(filters, texts, argv)
  BY DEF LintInv, FilterInv
<1>3. \A cat \in Categories : IsFiltered(filters, cat) <=> Silenced(cat, texts, Len(texts), argv)
  BY <1>1, <1>2, FilteredIsOff DEF FiltersRight
<1>4. Error(cs)
  OBVIOUS
<1>5. cs \in Seq(CallSet) /\ \A i \in 1 .. Len(cs) : Judges(cs[i], texts, argv)
  <2>1. FromLines(supp, texts[Len(texts)].lines) /\ UpToLine(supp, texts[Len(texts)].lines, at)
    BY DEF LastLines
  <2> QED BY <1>1, <1>2, <1>3, <2>1, CallsJudged
<1> HIDE DEF cs
<1>6. /\ calls' = calls \o cs /\ calls' \in Seq(CallSet)
      /\ error_count' \in Nat /\ errors_by_category' \in [Counters -> Nat]
      /\ CountsRight(calls \o cs, error_count', errors_by_category', counting)
  BY <1>1, <1>4, <1>5, ErrorCounts DEF LintInv, CountInv
<1>7. AllJudged(calls, texts, argv) /\ AllJudged(cs, texts, argv)
  BY <1>5 DEF LintInv, AllJudged
<1>8. AllJudged(calls \o cs, texts, argv)
  BY <1>1, <1>5, <1>7, JudgedTogether
<1> QED BY <1>6, <1>8

LEMMA LintProcessLine == LintInv /\ ProcessLine => LintInv'
<1> SUFFICES ASSUME LintInv, ProcessLine PROVE LintInv'
  OBVIOUS
<1> DEFINE lines == LastLines(texts)
           n == linenum + 1
           line == lines[n]
           supp == error_suppressions \cup NolintSuppressions(line, n)
           checks == FunctionComplaints(line, n) \o FoundIn(line, n, "now")
           all == NolintComplaints(line, n) \o (IF line.asm THEN <<>> ELSE checks)
<1>1. /\ status = "file" /\ status' \in {"file", "exited"} /\ linenum < Len(lines) /\ linenum' = n
      /\ IF Raises(line) THEN status' = "exited" /\ exit_status' = 1
         ELSE status' = "file" /\ exit_status' = exit_status
      /\ error_suppressions' = supp
      /\ Error(Called(all, Len(texts), n, supp, filters))
      /\ IF line.asm THEN UNCHANGED functionVars ELSE UpdateFunction(line.fn)
      /\ argv' = argv /\ verbose_level' = verbose_level /\ counting' = counting
      /\ filters' = filters /\ texts' = texts
  BY DEF ProcessLine, CurrentLines, CurrentFile, LastLines, options
<1>2. LintType /\ texts \in Seq(FileSet) /\ texts # <<>> /\ linenum \in Nat
  BY <1>1 DEF LintInv, LintType, FileInv
<1>3. lines \in Seq(LineSet)
  <2>1. Len(texts) \in 1 .. Len(texts)
    BY <1>2, LenProperties, EmptySeq
  <2>2. texts[Len(texts)] \in FileSet
    BY <1>2, <2>1, ElementOfSeq
  <2> QED BY <2>2 DEF FileSet, LastLines
<1> HIDE DEF lines
<1>4. Len(lines) \in Nat /\ n \in Nat \ {0} /\ n \in 1 .. Len(lines)
  BY <1>1, <1>2, <1>3, LenProperties
<1>5. line \in LineSet
  BY <1>3, <1>4, ElementOfSeq
<1>6. all \in Seq(Complaints)
  <2>1. NolintComplaints(line, n) \in Seq(Complaints)
    BY <1>4, <1>5, NolintComplaintsType, ComplaintType
  <2>2. FunctionComplaints(line, n) \in Seq(Complaints)
    BY <1>2, <1>4, FunctionComplaintsType DEF LintType
  <2>3. FoundIn(line, n, "now") \in Seq(Complaints)
    BY <1>4, <1>5, FoundInType, ComplaintType
  <2> HIDE DEF n, line
  <2>6. checks \in Seq(Complaints)
    BY <2>2, <2>3, ConcatProperties
  <2> HIDE DEF checks
  <2>7. (IF line.asm THEN <<>> ELSE checks) \in Seq(Complaints)
    BY <2>6, EmptySeq
  <2> QED BY <2>1, <2>7, ConcatProperties
<1>7. FromLines(supp, lines)
  <2>1. FromLines(error_suppressions, lines)
    BY <1>1 DEF LintInv, SuppressionInv, lines
  <2> SUFFICES ASSUME NEW cat \in Categories, NEW l \in Nat, IsErrorSuppressedByNolint(supp, cat, l)
               PROVE  NolintOn(lines, l, cat)
    BY DEF FromLines
  <2>2. \/ IsErrorSuppressedByNolint(error_suppressions, cat, l)
        \/ IsErrorSuppressedByNolint(NolintSuppressions(lines[n], n), cat, l)
    BY SuppressionsJoin
  <2> HIDE DEF n
  <2> QED BY <1>3, <1>4, <2>1, <2>2, LineSuppresses DEF FromLines
<1>8. Collects(supp, lines, n)
  <2>1. Collects(error_suppressions, lines, linenum)
    BY <1>1 DEF LintInv, SuppressionInv, lines
  <2>2. \A m \in 1 .. n : m \in 1 .. linenum \/ m = n
    BY <1>2
  <2> HIDE DEF n
  <2> QED BY <2>1, <2>2 DEF Collects
<1>9. UpToLine(supp, lines, n)
  <2> HIDE DEF n, supp
  <2>1. n \in Nat /\ n <= Len(lines) /\ n <= n
    BY <1>4
  <2> QED BY <1>3, <1>8, <2>1, CollectedUpTo
<1> HIDE DEF supp, all, n, line
<1>10. /\ calls' \in Seq(CallSet) /\ error_count' \in Nat /\ errors_by_category' \in [Counters -> Nat]
       /\ CountsRight(calls', error_count', errors_by_category', counting')
       /\ AllJudged(calls', texts', argv')
  <2>1. n \in Nat /\ FromLines(supp, LastLines(texts)) /\ UpToLine(supp, LastLines(texts), n)
    BY <1>4, <1>7, <1>9 DEF lines
  <2> QED BY <1>1, <1>6, <2>1, LintComplains
<1>11. lines_in_function' \in Nat /\ base_trigger' \in Nat
  <2>1. lines_in_function \in Nat /\ base_trigger \in Nat
    BY <1>2 DEF LintType
  <2>2. CASE line.asm
    BY <1>1, <2>1, <2>2 DEF functionVars
  <2>3. CASE ~line.asm
    <3>1. UpdateFunction(line.fn)
      BY <1>1, <2>3
    <3> QED BY <2>1, <3>1, TriggersAssumption DEF UpdateFunction, Begin, End, Count, functionVars
  <2> QED BY <2>2, <2>3
<1>12. LintType'
  BY <1>1, <1>2, <1>4, <1>10, <1>11 DEF LintType
<1>13. StartInv' /\ FilterInv'
  BY <1>1 DEF LintInv, StartInv, FilterInv
<1>14. FileInv' /\ SuppressionInv'
  <2>1. n <= Len(LastLines(texts)) /\ FromLines(supp, LastLines(texts)) /\ Collects(supp, LastLines(texts), n)
    BY <1>4, <1>7, <1>8 DEF lines
  <2> QED BY <1>1, <1>2, <2>1 DEF LintInv, FileInv, Linted, SuppressionInv
<1>15. CountInv'
  <2>1. CASE Raises(lines[n])
    <3>1. exit_status' = 1
      BY <1>1, <2>1 DEF line
    <3>2. Crashed'
      <4>1. Len(texts) \in DOMAIN texts /\ Linted(Len(texts)) /\ n \in DOMAIN texts[Len(texts)].lines
        <5>1. Linted(Len(texts))
          BY <1>1 DEF LintInv, FileInv
        <5>2. Len(texts) \in DOMAIN texts
          BY <1>2, LenProperties, EmptySeq
        <5>3. n \in DOMAIN lines
          BY <1>3, <1>4, LenProperties
        <5> QED BY <5>1, <5>2, <5>3 DEF lines, LastLines
      <4> QED BY <1>1, <2>1, <4>1 DEF Crashed, Linted, lines, LastLines
    <3> QED BY <1>10, <3>1, <3>2 DEF CountInv
  <2>2. CASE ~Raises(lines[n])
    BY <1>1, <1>10, <2>2 DEF CountInv, line
  <2> QED BY <2>1, <2>2
<1> QED BY <1>10, <1>12, <1>13, <1>14, <1>15 DEF LintInv

LEMMA LintFinishFile == LintInv /\ FinishFile => LintInv'
<1> SUFFICES ASSUME LintInv, FinishFile PROVE LintInv'
  OBVIOUS
<1> DEFINE lines == LastLines(texts)
           at == linenum + 1
           late == Found(lines, "late") \o CarriageReturn
<1>1. /\ status = "file" /\ status' = "idle" /\ linenum = Len(lines)
      /\ Error(Called(late, Len(texts), at, error_suppressions, filters))
      /\ argv' = argv /\ verbose_level' = verbose_level /\ counting' = counting
      /\ filters' = filters /\ texts' = texts /\ linenum' = linenum
      /\ lines_in_function' = lines_in_function /\ base_trigger' = base_trigger
  BY DEF FinishFile, CurrentLines, CurrentFile, LastLines, options, fileVars, functionVars
<1>2. LintType /\ texts \in Seq(FileSet) /\ texts # <<>> /\ linenum \in Nat
  BY <1>1 DEF LintInv, LintType, FileInv
<1>3. lines \in Seq(LineSet)
  <2>1. Len(texts) \in 1 .. Len(texts)
    BY <1>2, LenProperties, EmptySeq
  <2>2. texts[Len(texts)] \in FileSet
    BY <1>2, <2>1, ElementOfSeq
  <2> QED BY <2>2 DEF FileSet, LastLines
<1> HIDE DEF lines
<1>4. late \in Seq(Complaints)
  <2>1. Found(lines, "late") \in Seq(Complaints)
    BY <1>3, FoundType, ComplaintType
  <2>2. Complaint(NEWLINE, 1, 0) \in Complaints
    BY ComplaintType
  <2>3. CarriageReturn \in Seq(Complaints)
    BY <2>2, EmptySeq DEF CarriageReturn
  <2> QED BY <2>1, <2>3, ConcatProperties
<1> HIDE DEF late
<1>5. FromLines(error_suppressions, lines) /\ Collects(error_suppressions, lines, linenum)
  BY <1>1 DEF LintInv, SuppressionInv, lines
<1>6. UpToLine(error_suppressions, lines, at)
  <2>1. at \in Nat /\ linenum <= Len(lines)
    BY <1>1, <1>2
  <2> HIDE DEF at
  <2> QED BY <1>1, <1>2, <1>3, <1>5, <2>1, CollectedUpTo
<1>7. /\ calls' \in Seq(CallSet) /\ error_count' \in Nat /\ errors_by_category' \in [Counters -> Nat]
      /\ CountsRight(calls', error_count', errors_by_category', counting')
      /\ AllJudged(calls', texts', argv')
  <2>1. at \in Nat
    BY <1>2
  <2> HIDE DEF at
  <2> QED BY <1>1, <1>4, <1>5, <1>6, <2>1, LintComplains DEF lines
<1>8. LintType'
  BY <1>1, <1>2, <1>7 DEF LintType
<1>9. StartInv' /\ FilterInv' /\ FileInv' /\ SuppressionInv'
  BY <1>1 DEF LintInv, StartInv, FilterInv, FileInv, Linted, SuppressionInv
<1>10. CountInv'
  BY <1>1, <1>7 DEF CountInv
<1> QED BY <1>7, <1>8, <1>9, <1>10 DEF LintInv

LEMMA LintExit == LintInv /\ Exit => LintInv'
<1> SUFFICES ASSUME LintInv, Exit PROVE LintInv'
  OBVIOUS
<1>1. /\ status = "idle" /\ status' = "exited" /\ exit_status' = IF error_count > 0 THEN 1 ELSE 0
      /\ argv' = argv /\ verbose_level' = verbose_level /\ counting' = counting /\ filters' = filters
      /\ error_count' = error_count /\ errors_by_category' = errors_by_category /\ calls' = calls
      /\ linenum' = linenum /\ texts' = texts
      /\ lines_in_function' = lines_in_function /\ base_trigger' = base_trigger
  BY DEF Exit, options, counts, fileVars, functionVars
<1>2. LintType'
  BY <1>1 DEF LintInv, LintType
<1>3. StartInv' /\ FileInv' /\ FilterInv' /\ SuppressionInv'
  BY <1>1 DEF StartInv, FileInv, FilterInv, SuppressionInv
<1>4. AllJudged(calls, texts, argv)'
  BY <1>1 DEF LintInv
<1>5. CountInv'
  <2>1. CountsRight(calls, error_count, errors_by_category, counting)
    BY DEF LintInv, CountInv
  <2>2. error_count = Cardinality(PrintedOf(calls)) /\ error_count \in Nat
    BY <2>1 DEF LintInv, LintType, CountsRight
  <2>3. IsFiniteSet(PrintedOf(calls))
    <3>1. DOMAIN calls = 1 .. Len(calls) /\ Len(calls) \in Nat
      BY LenProperties DEF LintInv, LintType
    <3>2. PrintedOf(calls) \in SUBSET (1 .. Len(calls))
      BY <3>1 DEF PrintedOf
    <3>3. IsFiniteSet(1 .. Len(calls))
      BY <3>1, FS_Interval
    <3> QED BY <3>2, <3>3, FS_Subset
  <2>4. error_count = 0 <=> PrintedOf(calls) = {}
    BY <2>2, <2>3, FS_EmptySet
  <2>5. exit_status' = IF PrintedOf(calls) # {} THEN 1 ELSE 0
    BY <1>1, <2>2, <2>4
  <2> QED BY <1>1, <2>1, <2>5 DEF CountInv
<1> QED BY <1>2, <1>3, <1>4, <1>5 DEF LintInv

LEMMA LintStutter == LintInv /\ UNCHANGED vars => LintInv'
<1> SUFFICES ASSUME LintInv, UNCHANGED vars PROVE LintInv'
  OBVIOUS
<1>1. /\ status' = status /\ exit_status' = exit_status
      /\ argv' = argv /\ verbose_level' = verbose_level /\ counting' = counting /\ filters' = filters
      /\ error_count' = error_count /\ errors_by_category' = errors_by_category /\ calls' = calls
      /\ error_suppressions' = error_suppressions /\ linenum' = linenum /\ texts' = texts
      /\ lines_in_function' = lines_in_function /\ base_trigger' = base_trigger
  BY DEF vars, options, counts, fileVars, functionVars
<1>2. LintType' /\ StartInv' /\ FileInv'
  BY <1>1 DEF LintInv, LintType, StartInv, FileInv, Linted
<1>3. FilterInv' /\ SuppressionInv'
  BY <1>1 DEF LintInv, FilterInv, SuppressionInv
<1>4. AllJudged(calls, texts, argv)' /\ CountInv'
  BY <1>1 DEF LintInv, CountInv, Crashed, Linted
<1> QED BY <1>2, <1>3, <1>4 DEF LintInv

-----------------------------------------------------------------------------
(* cpplint.py, ParseArguments, ProcessFile, ProcessFileData and Error: from  *)
(* the command line to the exit, the filters, suppressions, complaints and   *)
(* counts stay those the texts of the files and the options ask for.         *)
THEOREM LintInvariant == Spec => []LintInv
<1>1. Init => LintInv
  BY LintInit
<1>2. LintInv /\ [Next]_vars => LintInv'
  <2> SUFFICES ASSUME LintInv, [Next]_vars PROVE LintInv'
    OBVIOUS
  <2>1. CASE PrintUsage
    BY <2>1, LintPrintUsage
  <2>2. CASE ParseArguments
    BY <2>2, LintParseArguments
  <2>3. ASSUME NEW n \in DOMAIN Files, NEW f \in Files[n], SkipFile(f) \/ OpenFile(f) PROVE LintInv'
    <3>1. f \in FileSet
      BY FileTypes
    <3> QED BY <2>3, <3>1, LintSkipFile, LintOpenFile
  <2>4. CASE ProcessLine
    BY <2>4, LintProcessLine
  <2>5. CASE FinishFile
    BY <2>5, LintFinishFile
  <2>6. CASE Exit
    BY <2>6, LintExit
  <2>7. CASE UNCHANGED vars
    BY <2>7, LintStutter
  <2> QED BY <2>1, <2>2, <2>3, <2>4, <2>5, <2>6, <2>7 DEF Next
<1> QED BY <1>1, <1>2, PTL DEF Spec

\* What Audible and OfGlobalMark say is what a complaint was judged by.
LEMMA JudgedReads ==
  ASSUME LintInv, NEW i \in DOMAIN calls
  PROVE  /\ Judges(calls[i], texts, argv)
         /\ Audible(calls[i]) <=> /\ calls[i].conf >= argv.verbose
                                  /\ ~Silenced(calls[i].cat, texts, calls[i].file, argv)
         /\ OfGlobalMark(calls[i]) <=> AboutMark(calls[i], texts[calls[i].file].lines)
<1> DEFINE e == calls[i]
<1>1. /\ argv \in Args /\ texts \in Seq(FileSet) /\ calls \in Seq(CallSet)
  BY DEF LintInv, LintType
<1>2. i \in 1 .. Len(calls)
  BY <1>1, LenProperties
<1>3. Judges(e, texts, argv)
  BY <1>2 DEF LintInv, AllJudged
<1> HIDE DEF e
<1>4. DefaultFilters \o argv.filters \in Seq(FilterSet)
  BY <1>1, FileTypes, ConcatProperties
<1>5. OptionOff(e.cat) <=> Off(DefaultFilters \o argv.filters, e.cat)
  BY <1>4, OptionIsOff
<1>6. e.file \in 1 .. Len(texts) /\ Len(texts) \in Nat
  BY <1>1, <1>3, LenProperties DEF Judges
<1>7. ASSUME NEW k \in 1 .. e.file
      PROVE  texts[k].lines \in Seq(LineSet) /\ DOMAIN texts[k].lines = 1 .. Len(texts[k].lines)
  <2>1. k \in 1 .. Len(texts)
    BY <1>6
  <2>2. texts[k] \in FileSet
    BY <1>1, <2>1, ElementOfSeq
  <2>3. texts[k].lines \in Seq(LineSet)
    BY <2>2 DEF FileSet
  <2> QED BY <2>3, LenProperties
<1>8. GlobalOff(e.file, e.cat) <=> \E k \in 1 .. e.file : GlobalAt(texts[k], e.cat)
  BY <1>7 DEF GlobalOff, GlobalAt, GlobalHere
<1>9. Audible(e) <=> e.conf >= argv.verbose /\ ~Silenced(e.cat, texts, e.file, argv)
  BY <1>5, <1>8 DEF Audible, Silenced
<1>10. OfGlobalMark(e) <=> AboutMark(e, texts[e.file].lines)
  BY DEF OfGlobalMark, AboutMark
<1> QED BY <1>3, <1>9, <1>10 DEF e

\* _ShouldPrintError: a complaint is swallowed only for a reason found on the
\* command line, in a GLOBAL_NOLINT of its own file or of any file before it
\* (these are never taken back), or in a NOLINT of its own file, for any
\* files, filters and verbosity.  Nothing is said of the complaint about an
\* unknown GLOBAL_NOLINT, made before ResetNolintSuppressions: a NOLINT of the
\* file before can swallow it.
THEOREM LintSilenceHasReason == Spec => []SilenceHasReason
<1>1. LintInv => SilenceHasReason
  <2> SUFFICES ASSUME LintInv, NEW i \in DOMAIN calls,
                      ~calls[i].printed, ~OfGlobalMark(calls[i])
               PROVE  ~Audible(calls[i]) \/ NolintOn(texts[calls[i].file].lines, calls[i].line, calls[i].cat)
    BY DEF SilenceHasReason
  <2> QED BY JudgedReads DEF Judges
<1> QED BY <1>1, LintInvariant, PTL

\* _ShouldPrintError and ParseNolintSuppressions: what is printed passes the
\* verbosity and the filters, and no NOLINT speaks of it unless it comes on a
\* later line.
THEOREM LintNolintHonoured == Spec => []NolintHonoured
<1>1. LintInv => NolintHonoured
  <2> SUFFICES ASSUME LintInv, NEW i \in DOMAIN calls, calls[i].printed
               PROVE  /\ Audible(calls[i])
                      /\ calls[i].line <= calls[i].at =>
                            ~NolintOn(texts[calls[i].file].lines, calls[i].line, calls[i].cat)
    BY DEF NolintHonoured
  <2> QED BY JudgedReads DEF Judges
<1> QED BY <1>1, LintInvariant, PTL

-----------------------------------------------------------------------------
(***************************************************************************)
(* The powers of two and the logarithm.                                    *)
(***************************************************************************)
Doubles(g, N) == g[0] = 1 /\ \A k \in 1 .. N : g[k] = 2 * g[k - 1]

LEMMA DoublesUnique ==
  ASSUME NEW g, NEW h, NEW M \in Nat, NEW N \in Nat, N <= M, Doubles(g, M), Doubles(h, N)
  PROVE  g[N] = h[N]
<1> DEFINE T == {k \in 0 .. N : g[k] = h[k]}
<1>1. 0 \in T
  BY DEF Doubles
<1>2. ASSUME NEW i \in 1 .. N, i - 1 \in T PROVE i \in T
  <2>1. i \in 1 .. M /\ g[i - 1] = h[i - 1]
    BY <1>2
  <2>2. g[i] = 2 * g[i - 1] /\ h[i] = 2 * h[i - 1]
    BY <2>1 DEF Doubles
  <2> QED BY <2>1, <2>2
<1>3. \A i \in 0 .. N : i \in T
  <2> HIDE DEF T
  <2>1. \A i \in 1 .. N : i - 1 \in T => i \in T
    BY <1>2
  <2> QED BY <1>1, <2>1, UpTo
<1>4. N \in T
  BY <1>3
<1> QED BY <1>4

LEMMA DoublesExists ==
  ASSUME NEW N \in Nat
  PROVE  \E g \in [0 .. N -> Nat] : Doubles(g, N)
<1> DEFINE T == {n \in 0 .. N : \E g \in [0 .. n -> Nat] : Doubles(g, n)}
<1>1. 0 \in T
  <2> DEFINE g == [k \in 0 .. 0 |-> 1]
  <2>1. g \in [0 .. 0 -> Nat] /\ Doubles(g, 0)
    BY DEF Doubles
  <2>2. 0 \in 0 .. N
    OBVIOUS
  <2> QED BY <2>1, <2>2
<1>2. ASSUME NEW n \in 1 .. N, n - 1 \in T PROVE n \in T
  <2>1. PICK g \in [0 .. n - 1 -> Nat] : Doubles(g, n - 1)
    BY <1>2
  <2> DEFINE h == [k \in 0 .. n |-> IF k = n THEN 2 * g[n - 1] ELSE g[k]]
  <2>2. \A k \in 0 .. n : k # n => k \in 0 .. n - 1
    OBVIOUS
  <2>3. h \in [0 .. n -> Nat]
    <3>1. n - 1 \in 0 .. n - 1
      OBVIOUS
    <3>2. 2 * g[n - 1] \in Nat
      BY <2>1, <3>1
    <3> QED BY <2>1, <2>2, <3>2
  <2>4. h[0] = 1
    BY <2>1 DEF Doubles
  <2>5. ASSUME NEW k \in 1 .. n PROVE h[k] = 2 * h[k - 1]
    <3>1. h[k - 1] = g[k - 1]
      OBVIOUS
    <3>2. CASE k = n
      BY <3>1, <3>2
    <3>3. CASE k # n
      <4>1. k \in 1 .. n - 1 /\ h[k] = g[k]
        BY <3>3
      <4> QED BY <2>1, <3>1, <4>1 DEF Doubles
    <3> QED BY <3>2, <3>3
  <2>6. Doubles(h, n)
    BY <2>4, <2>5 DEF Doubles
  <2> HIDE DEF h
  <2>7. n \in 0 .. N
    OBVIOUS
  <2> QED BY <2>3, <2>6, <2>7
<1>3. \A i \in 0 .. N : i \in T
  <2> HIDE DEF T
  <2>1. \A i \in 1 .. N : i - 1 \in T => i \in T
    BY <1>2
  <2> QED BY <1>1, <2>1, UpTo
<1>4. N \in T
  <2> HIDE DEF T
  <2> QED BY <1>3
<1> QED BY <1>4

\* What the recursive definition of PowerOfTwo says.
LEMMA PowerDefined ==
  /\ PowerOfTwo[0] = 1
  /\ \A k \in Nat : PowerOfTwo[k] \in Nat \ {0} /\ PowerOfTwo[k + 1] = 2 * PowerOfTwo[k]
<1> DEFINE G(n) == CHOOSE g \in [0 .. n -> Nat] : Doubles(g, n)
           p == [n \in Nat |-> G(n)[n]]
           Eq(f) == f = [k \in Nat |-> IF k = 0 THEN 1 ELSE 2 * f[k - 1]]
<1>1. \A n \in Nat : G(n) \in [0 .. n -> Nat] /\ Doubles(G(n), n)
  BY DoublesExists
<1> HIDE DEF G
<1>2. \A n \in Nat : p[n] = IF n = 0 THEN 1 ELSE 2 * p[n - 1]
  <2> SUFFICES ASSUME NEW n \in Nat PROVE p[n] = IF n = 0 THEN 1 ELSE 2 * p[n - 1]
    OBVIOUS
  <2>1. CASE n = 0
    BY <1>1, <2>1 DEF Doubles
  <2>2. CASE n # 0
    <3>1. n - 1 \in Nat /\ n - 1 <= n /\ n \in 1 .. n
      BY <2>2
    <3>2. Doubles(G(n), n) /\ Doubles(G(n - 1), n - 1)
      BY <1>1, <3>1
    <3>3. G(n)[n - 1] = G(n - 1)[n - 1]
      BY <3>1, <3>2, DoublesUnique
    <3>4. G(n)[n] = 2 * G(n)[n - 1]
      BY <3>1, <3>2 DEF Doubles
    <3> QED BY <2>2, <3>1, <3>3, <3>4
  <2> QED BY <2>1, <2>2
<1>3. Eq(p)
  <2> DEFINE q == [k \in Nat |-> IF k = 0 THEN 1 ELSE 2 * p[k - 1]]
  <2>1. \A k \in Nat : p[k] = q[k]
    BY <1>2
  <2>2. p = [k \in Nat |-> p[k]]
    OBVIOUS
  <2> HIDE DEF p
  <2> QED BY <2>1, <2>2
<1> HIDE DEF p
<1>4. Eq(PowerOfTwo)
  <2>1. PowerOfTwo = CHOOSE f : Eq(f)
    BY DEF PowerOfTwo
  <2> HIDE DEF Eq
  <2> QED BY <1>3, <2>1
<1>5. \A k \in Nat : PowerOfTwo[k] = IF k = 0 THEN 1 ELSE 2 * PowerOfTwo[k - 1]
  BY <1>4
<1>6. ASSUME NEW k \in Nat PROVE PowerOfTwo[k + 1] = 2 * PowerOfTwo[k]
  <2>1. k + 1 \in Nat /\ k + 1 # 0 /\ (k + 1) - 1 = k
    OBVIOUS
  <2> QED BY <1>5, <2>1
<1>7. ASSUME NEW N \in Nat PROVE PowerOfTwo[N] \in Nat \ {0}
  <2> DEFINE T == {k \in 0 .. N : PowerOfTwo[k] \in Nat \ {0}}
  <2>1. 0 \in T
    BY <1>5
  <2>2. ASSUME NEW i \in 1 .. N, i - 1 \in T PROVE i \in T
    <3>1. i \in Nat /\ i # 0 /\ PowerOfTwo[i - 1] \in Nat \ {0}
      BY <2>2
    <3>2. PowerOfTwo[i] = 2 * PowerOfTwo[i - 1]
      BY <1>5, <3>1
    <3> QED BY <3>1, <3>2
  <2>3. \A i \in 0 .. N : i \in T
    <3> HIDE DEF T
    <3>1. \A i \in 1 .. N : i - 1 \in T => i \in T
      BY <2>2
    <3> QED BY <2>1, <3>1, UpTo
  <2>4. N \in T
    BY <2>3
  <2> QED BY <2>4
<1> QED BY <1>5, <1>6, <1>7

LEMMA PowerGrows ==
  /\ \A k \in Nat : k < PowerOfTwo[k]
  /\ \A i \in Nat, j \in Nat : i <= j => PowerOfTwo[i] <= PowerOfTwo[j]
<1>1. ASSUME NEW N \in Nat PROVE N < PowerOfTwo[N]
  <2> DEFINE T == {k \in 0 .. N : k < PowerOfTwo[k]}
  <2>1. 0 \in T
    BY PowerDefined
  <2>2. ASSUME NEW i \in 1 .. N, i - 1 \in T PROVE i \in T
    <3>1. i - 1 \in Nat /\ (i - 1) + 1 = i /\ i - 1 < PowerOfTwo[i - 1]
      BY <2>2
    <3>2. PowerOfTwo[i] = 2 * PowerOfTwo[i - 1] /\ PowerOfTwo[i - 1] \in Nat
      BY <3>1, PowerDefined
    <3> QED BY <3>1, <3>2
  <2>3. \A i \in 0 .. N : i \in T
    <3> HIDE DEF T
    <3>1. \A i \in 1 .. N : i - 1 \in T => i \in T
      BY <2>2
    <3> QED BY <2>1, <3>1, UpTo
  <2>4. N \in T
    BY <2>3
  <2> QED BY <2>4
<1>2. ASSUME NEW i \in Nat, NEW N \in Nat PROVE PowerOfTwo[i] <= PowerOfTwo[i + N]
  <2> DEFINE T == {k \in 0 .. N : PowerOfTwo[i] <= PowerOfTwo[i + k]}
  <2>1. 0 \in T
    BY PowerDefined
  <2>2. ASSUME NEW k \in 1 .. N, k - 1 \in T PROVE k \in T
    <3>1. i + (k - 1) \in Nat /\ (i + (k - 1)) + 1 = i + k /\ PowerOfTwo[i] <= PowerOfTwo[i + (k - 1)]
      BY <2>2
    <3>2. PowerOfTwo[i + k] = 2 * PowerOfTwo[i + (k - 1)]
      BY <3>1, PowerDefined
    <3>3. PowerOfTwo[i] \in Nat /\ PowerOfTwo[i + (k - 1)] \in Nat
      BY <3>1, PowerDefined
    <3>4. PowerOfTwo[i] <= PowerOfTwo[i + k]
      BY <3>1, <3>2, <3>3
    <3> QED BY <3>4
  <2>3. \A k \in 0 .. N : k \in T
    <3> HIDE DEF T
    <3>1. \A k \in 1 .. N : k - 1 \in T => k \in T
      BY <2>2
    <3> QED BY <2>1, <3>1, UpTo
  <2>4. N \in T
    BY <2>3
  <2> QED BY <2>4
<1>3. ASSUME NEW i \in Nat, NEW j \in Nat, i <= j PROVE PowerOfTwo[i] <= PowerOfTwo[j]
  <2>1. j - i \in Nat /\ i + (j - i) = j
    BY <1>3
  <2> QED BY <1>2, <2>1
<1> QED BY <1>1, <1>3

LEMMA LogBounds ==
  ASSUME NEW q \in Nat \ {0}
  PROVE  /\ FloorLog2(q) \in 0 .. q
         /\ PowerOfTwo[FloorLog2(q)] <= q /\ q < PowerOfTwo[FloorLog2(q) + 1]
<1> DEFINE T == {k \in Nat : q < PowerOfTwo[k + 1]}
<1>1. q \in T
  <2>1. q < PowerOfTwo[q] /\ PowerOfTwo[q] \in Nat /\ PowerOfTwo[q + 1] = 2 * PowerOfTwo[q]
    BY PowerGrows, PowerDefined
  <2> QED BY <2>1
<1>2. PICK k \in T : \A y \in T : k <= y
  BY <1>1, LeastExists
<1>3. k \in Nat /\ q < PowerOfTwo[k + 1]
  OBVIOUS
<1>4. PowerOfTwo[k] <= q
  <2>1. CASE k = 0
    BY <2>1, PowerDefined
  <2>2. CASE k # 0
    <3>1. k - 1 \in Nat /\ ~(k <= k - 1) /\ (k - 1) + 1 = k
      BY <1>3, <2>2
    <3>2. k - 1 \notin T
      BY <1>2, <3>1
    <3>3. ~(q < PowerOfTwo[k])
      BY <3>1, <3>2
    <3> QED BY <1>3, <3>3, PowerDefined
  <2> QED BY <2>1, <2>2
<1>5. k \in 0 .. q
  <2>1. k < PowerOfTwo[k] /\ PowerOfTwo[k] \in Nat
    BY <1>3, PowerGrows, PowerDefined
  <2> QED BY <1>3, <1>4, <2>1
<1>6. \E j \in 0 .. q : PowerOfTwo[j] <= q /\ q < PowerOfTwo[j + 1]
  BY <1>3, <1>4, <1>5
<1> QED BY <1>6 DEF FloorLog2

\* The confidence computed from the size reaches the verbosity whenever the
\* size exceeds the trigger for that verbosity.
LEMMA LevelReaches ==
  ASSUME NEW size \in Nat, NEW base \in Nat \ {0}, NEW v \in Nat,
         size > base * PowerOfTwo[v], v <= 5
  PROVE  ErrorLevel(size, base) >= v
<1> DEFINE q == size \div base
           k == FloorLog2(q)
<1>1. PowerOfTwo[v] \in Nat \ {0}
  BY PowerDefined
<1>2. q \in Nat /\ q >= PowerOfTwo[v]
  <2> DEFINE P == PowerOfTwo[v]
             r == size % base
  <2>1. q \in Int /\ r \in 0 .. base - 1 /\ size = base * q + r
    OBVIOUS
  <2>2. P \in Nat \ {0}
    BY <1>1
  <2> HIDE DEF q, r, P
  <2>3. size > base * P
    BY DEF P
  <2>4. ASSUME q <= P - 1 PROVE FALSE
    <3>1. base * q <= base * (P - 1)
      BY <2>1, <2>2, <2>4
    <3>2. base * (P - 1) = base * P - base
      BY <2>2
    <3> QED BY <2>1, <2>2, <2>3, <3>1, <3>2
  <2> QED BY <2>1, <2>2, <2>4 DEF P
<1> HIDE DEF q
<1>3. k \in 0 .. q /\ q < PowerOfTwo[k + 1]
  <2>1. q \in Nat \ {0}
    BY <1>1, <1>2
  <2> QED BY <2>1, LogBounds
<1> HIDE DEF k
<1>4. k \in Nat /\ k >= v
  <2>1. k \in Nat /\ k + 1 \in Nat
    BY <1>2, <1>3
  <2>2. ASSUME k + 1 <= v PROVE FALSE
    <3>1. PowerOfTwo[k + 1] <= PowerOfTwo[v] /\ PowerOfTwo[k + 1] \in Nat
      BY <2>1, <2>2, PowerGrows, PowerDefined
    <3> QED BY <1>1, <1>2, <1>3, <3>1
  <2> QED BY <2>1, <2>2
<1>5. Min({5, k}) \in {5, k}
  <2>1. \E x \in {5, k} : \A y \in {5, k} : x <= y
    BY <1>4
  <2> QED BY <2>1 DEF Min
<1>6. ErrorLevel(size, base) = Min({5, k})
  BY DEF ErrorLevel, k, q
<1> QED BY <1>4, <1>5, <1>6

-----------------------------------------------------------------------------
(***************************************************************************)
(* _FunctionState: what it holds before line n, told from the lines.       *)
(***************************************************************************)
EndsBetween(lines, b, n) == \E e \in LinesOf(lines, {"end"}) : b < e /\ e < n
Body(lines, b, n) == {m \in LinesOf(lines, {"code"}) : b < m /\ m < n /\ ~EndsBetween(lines, b, m)}
LastStart(lines, n) == Max(Starts(lines, n))

Tracks(lines, n, inside, size, base) ==
  /\ Starts(lines, n) = {} => ~inside /\ size = 0 /\ base = NormalTrigger
  /\ Starts(lines, n) # {} => /\ base = TriggerOf(lines[LastStart(lines, n)])
                              /\ inside <=> ~EndsBetween(lines, LastStart(lines, n), n)
                              /\ size = Cardinality(Body(lines, LastStart(lines, n), n))

LEMMA KindOfLine ==
  ASSUME NEW lines \in Seq(LineSet), NEW kinds, NEW m
  PROVE  m \in LinesOf(lines, kinds) <=> m \in 1 .. Len(lines) /\ lines[m].fn \in kinds /\ ~lines[m].asm
<1>1. DOMAIN lines = 1 .. Len(lines)
  BY LenProperties
<1> QED BY <1>1 DEF LinesOf

LEMMA StartsProperties ==
  ASSUME NEW lines \in Seq(LineSet), NEW n \in 1 .. Len(lines)
  PROVE  /\ Starts(lines, n + 1) = IF n \in LinesOf(lines, {"begin", "begin_test"})
                                   THEN Starts(lines, n) \cup {n} ELSE Starts(lines, n)
         /\ Starts(lines, n) # {} => /\ LastStart(lines, n) \in LinesOf(lines, {"begin", "begin_test"})
                                     /\ LastStart(lines, n) \in Nat /\ LastStart(lines, n) < n
         /\ n \in LinesOf(lines, {"begin", "begin_test"}) => LastStart(lines, n + 1) = n
<1> DEFINE L == Len(lines)
           B == LinesOf(lines, {"begin", "begin_test"})
<1>1. L \in Nat /\ n \in 1 .. L
  BY LenProperties
<1>2. \A b \in B : b \in 1 .. L
  BY KindOfLine
<1> HIDE DEF L, B
<1>3. Starts(lines, n) = {b \in B : b < n} /\ Starts(lines, n + 1) = {b \in B : b < n + 1}
  BY DEF Starts, B
<1>4. Starts(lines, n + 1) = IF n \in B THEN Starts(lines, n) \cup {n} ELSE Starts(lines, n)
  <2>1. \A b \in B : b < n + 1 <=> b < n \/ b = n
    BY <1>1, <1>2
  <2>2. ~(n < n)
    BY <1>1
  <2> QED BY <1>3, <2>1, <2>2
<1>5. Starts(lines, n) \subseteq 1 .. L /\ Starts(lines, n + 1) \subseteq 1 .. L
  BY <1>2, <1>3
<1>6. ASSUME Starts(lines, n) # {}
      PROVE  LastStart(lines, n) \in B /\ LastStart(lines, n) \in Nat /\ LastStart(lines, n) < n
  <2>1. LastStart(lines, n) \in Starts(lines, n)
    BY <1>1, <1>5, <1>6, LastPosition DEF LastStart
  <2>2. LastStart(lines, n) \in 1 .. L
    BY <1>5, <2>1
  <2> QED BY <1>1, <1>3, <2>1, <2>2
<1>7. ASSUME n \in B PROVE LastStart(lines, n + 1) = n
  <2> DEFINE x == LastStart(lines, n + 1)
  <2>1. n \in Starts(lines, n + 1)
    BY <1>4, <1>7
  <2>2. Starts(lines, n + 1) # {}
    BY <2>1
  <2>3. x \in Starts(lines, n + 1) /\ x >= n
    BY <1>1, <1>5, <2>1, <2>2, LastPosition DEF LastStart
  <2>4. x \in 1 .. L /\ x < n + 1
    BY <1>3, <1>5, <2>3
  <2> HIDE DEF x
  <2>5. x = n
    BY <1>1, <2>3, <2>4
  <2> QED BY <2>5 DEF x
<1> QED BY <1>4, <1>6, <1>7 DEF B

LEMMA BodyGrows ==
  ASSUME NEW lines \in Seq(LineSet), NEW n \in 1 .. Len(lines), NEW b \in Nat, b < n
  PROVE  /\ EndsBetween(lines, b, n + 1) <=> EndsBetween(lines, b, n) \/ n \in LinesOf(lines, {"end"})
         /\ Body(lines, b, n + 1) = IF n \in LinesOf(lines, {"code"}) /\ ~EndsBetween(lines, b, n)
                                    THEN Body(lines, b, n) \cup {n} ELSE Body(lines, b, n)
         /\ IsFiniteSet(Body(lines, b, n)) /\ n \notin Body(lines, b, n)
<1> DEFINE L == Len(lines)
           E == LinesOf(lines, {"end"})
           C == LinesOf(lines, {"code"})
<1>1. L \in Nat /\ n \in 1 .. L
  BY LenProperties
<1>2. (\A m \in E : m \in 1 .. L) /\ \A m \in C : m \in 1 .. L
  BY KindOfLine
<1> HIDE DEF L, E, C
<1>3. \A k : EndsBetween(lines, b, k) <=> \E e \in E : b < e /\ e < k
  BY DEF EndsBetween, E
<1>4. \A k : Body(lines, b, k) = {m \in C : b < m /\ m < k /\ ~EndsBetween(lines, b, m)}
  BY DEF Body, C
<1>5. \A m \in 1 .. L : m < n + 1 <=> m < n \/ m = n
  BY <1>1
<1>6. EndsBetween(lines, b, n + 1) <=> EndsBetween(lines, b, n) \/ n \in E
  BY <1>2, <1>3, <1>5
<1>7. ~(n < n)
  BY <1>1
<1>8. Body(lines, b, n + 1) = IF n \in C /\ ~EndsBetween(lines, b, n)
                              THEN Body(lines, b, n) \cup {n} ELSE Body(lines, b, n)
  <2>1. \A m : m \in Body(lines, b, n + 1) <=>
                 m \in Body(lines, b, n) \/ (m = n /\ n \in C /\ ~EndsBetween(lines, b, n))
    BY <1>2, <1>4, <1>5
  <2> QED BY <2>1
<1>9. Body(lines, b, n) \in SUBSET (1 .. L) /\ n \notin Body(lines, b, n)
  BY <1>2, <1>4, <1>7
<1>10. IsFiniteSet(Body(lines, b, n))
  <2>1. IsFiniteSet(1 .. L)
    BY <1>1, FS_Interval
  <2> QED BY <1>9, <2>1, FS_Subset
<1> QED BY <1>6, <1>8, <1>9, <1>10 DEF C, E

\* Begin, Count and End keep track of the lines.
LEMMA TracksStep ==
  ASSUME NEW lines \in Seq(LineSet), NEW n \in 1 .. Len(lines), in_a_function \in BOOLEAN,
         Tracks(lines, n, in_a_function, lines_in_function, base_trigger),
         IF lines[n].asm THEN UNCHANGED functionVars ELSE UpdateFunction(lines[n].fn)
  PROVE  /\ in_a_function' \in BOOLEAN
         /\ Tracks(lines, n + 1, in_a_function', lines_in_function', base_trigger')
<1> DEFINE Is(kinds) == n \in LinesOf(lines, kinds)
           S == Starts(lines, n)
           b == LastStart(lines, n)
<1>1. n \in 1 .. Len(lines) /\ Len(lines) \in Nat /\ n \in Nat /\ lines[n] \in LineSet
  BY LenProperties, ElementOfSeq
<1>2. \A kinds : Is(kinds) <=> lines[n].fn \in kinds /\ ~lines[n].asm
  BY <1>1, KindOfLine
<1>3. /\ Starts(lines, n + 1) = IF Is({"begin", "begin_test"}) THEN S \cup {n} ELSE S
      /\ S # {} => b \in Nat /\ b < n
      /\ Is({"begin", "begin_test"}) => LastStart(lines, n + 1) = n
  BY StartsProperties
<1>4. S # {} => /\ EndsBetween(lines, b, n + 1) <=> EndsBetween(lines, b, n) \/ Is({"end"})
                /\ Body(lines, b, n + 1) = IF Is({"code"}) /\ ~EndsBetween(lines, b, n)
                                           THEN Body(lines, b, n) \cup {n} ELSE Body(lines, b, n)
                /\ IsFiniteSet(Body(lines, b, n)) /\ n \notin Body(lines, b, n)
  BY <1>1, <1>3, BodyGrows
<1>5. /\ S = {} => ~in_a_function /\ lines_in_function = 0 /\ base_trigger = NormalTrigger
      /\ S # {} => /\ base_trigger = TriggerOf(lines[b])
                   /\ in_a_function <=> ~EndsBetween(lines, b, n)
                   /\ lines_in_function = Cardinality(Body(lines, b, n))
  BY DEF Tracks
<1>6. Starts(lines, n + 1) = S => LastStart(lines, n + 1) = b
  BY DEF LastStart
<1> HIDE DEF Is, S, b
<1>7. CASE Is({"begin", "begin_test"})
  <2>1. /\ in_a_function' = TRUE /\ lines_in_function' = 0 /\ base_trigger' = TriggerOf(lines[n])
    <3>1. lines[n].fn \in {"begin", "begin_test"} /\ UpdateFunction(lines[n].fn)
      BY <1>2, <1>7
    <3> QED BY <3>1 DEF UpdateFunction, Begin, TriggerOf
  <2>2. Starts(lines, n + 1) # {} /\ LastStart(lines, n + 1) = n
    BY <1>3, <1>7
  <2>3. ~EndsBetween(lines, n, n + 1) /\ Body(lines, n, n + 1) = {}
    <3>1. \A m \in 1 .. Len(lines) : ~(n < m /\ m < n + 1)
      BY <1>1
    <3>2. \A kinds : \A m \in LinesOf(lines, kinds) : m \in 1 .. Len(lines)
      BY KindOfLine
    <3> QED BY <3>1, <3>2 DEF EndsBetween, Body
  <2>4. Cardinality({}) = 0
    BY FS_EmptySet
  <2> QED BY <2>1, <2>2, <2>3, <2>4 DEF Tracks
<1>8. CASE Is({"end"})
  <2>1. in_a_function' = FALSE /\ lines_in_function' = lines_in_function /\ base_trigger' = base_trigger
    <3>1. lines[n].fn = "end" /\ UpdateFunction(lines[n].fn)
      BY <1>2, <1>8
    <3> QED BY <3>1 DEF UpdateFunction, End
  <2>2. ~Is({"begin", "begin_test"}) /\ ~Is({"code"})
    BY <1>2, <1>8
  <2>3. Starts(lines, n + 1) = S /\ LastStart(lines, n + 1) = b
    BY <1>3, <1>6, <2>2
  <2> QED BY <1>4, <1>5, <1>8, <2>1, <2>2, <2>3 DEF Tracks
<1>9. CASE Is({"code"})
  <2>1. /\ in_a_function' = in_a_function /\ base_trigger' = base_trigger
        /\ lines_in_function' = IF in_a_function THEN lines_in_function + 1 ELSE lines_in_function
    <3>1. lines[n].fn = "code" /\ UpdateFunction(lines[n].fn)
      BY <1>2, <1>9
    <3> QED BY <3>1 DEF UpdateFunction, Count
  <2>2. ~Is({"begin", "begin_test"}) /\ ~Is({"end"})
    BY <1>2, <1>9
  <2>3. Starts(lines, n + 1) = S /\ LastStart(lines, n + 1) = b
    BY <1>3, <1>6, <2>2
  <2>4. ASSUME S # {} PROVE lines_in_function' = Cardinality(Body(lines, b, n + 1))
    <3>1. CASE in_a_function
      <4>1. Body(lines, b, n + 1) = Body(lines, b, n) \cup {n}
        BY <1>4, <1>5, <1>9, <2>4, <3>1
      <4>2. Cardinality(Body(lines, b, n) \cup {n}) = Cardinality(Body(lines, b, n)) + 1
        BY <1>4, <2>4, FS_AddElement
      <4> QED BY <1>5, <2>1, <2>4, <3>1, <4>1, <4>2
    <3>2. CASE ~in_a_function
      <4>1. Body(lines, b, n + 1) = Body(lines, b, n)
        BY <1>4, <1>5, <2>4, <3>2
      <4> QED BY <1>5, <2>1, <2>4, <3>2, <4>1
    <3> QED BY <3>1, <3>2
  <2>5. S # {} => (EndsBetween(lines, b, n + 1) <=> EndsBetween(lines, b, n))
    BY <1>4, <2>2
  <2> QED BY <1>5, <2>1, <2>3, <2>4, <2>5 DEF Tracks
<1>10. CASE ~Is({"begin", "begin_test"}) /\ ~Is({"end"}) /\ ~Is({"code"})
  <2>1. /\ in_a_function' = in_a_function /\ lines_in_function' = lines_in_function
        /\ base_trigger' = base_trigger
    <3>1. CASE lines[n].asm
      BY <3>1 DEF functionVars
    <3>2. CASE ~lines[n].asm
      <4>1. UpdateFunction(lines[n].fn) /\ lines[n].fn \notin {"begin", "begin_test", "end", "code"}
        BY <1>2, <1>10, <3>2
      <4> QED BY <4>1 DEF UpdateFunction, functionVars
    <3> QED BY <3>1, <3>2
  <2>2. Starts(lines, n + 1) = S /\ LastStart(lines, n + 1) = b
    BY <1>3, <1>6, <1>10
  <2> QED BY <1>4, <1>5, <1>10, <2>1, <2>2 DEF Tracks
<1> QED BY <1>7, <1>8, <1>9, <1>10

\* At a closing brace the lines counted are the body of the last function.
LEMMA BodyCounted ==
  ASSUME NEW lines \in Seq(LineSet), NEW n \in LinesOf(lines, {"end"}), Starts(lines, n) # {}
  PROVE  BodySize(lines, n) = Cardinality(Body(lines, LastStart(lines, n), n))
<1> DEFINE L == Len(lines)
           b == LastStart(lines, n)
           E == LinesOf(lines, {"end"})
           C == LinesOf(lines, {"code"})
           after == {m \in E : m > b}
           c == Closing(lines, n)
<1>1. L \in Nat /\ n \in 1 .. L
  BY LenProperties, KindOfLine
<1>2. b \in Nat /\ b < n
  BY <1>1, StartsProperties
<1>3. /\ \A m \in E : m \in 1 .. L /\ lines[m].fn = "end"
      /\ \A m \in C : m \in 1 .. L /\ lines[m].fn = "code"
  BY KindOfLine
<1>4. c = Min(after)
  BY DEF Closing, LastStart
<1>5. BodySize(lines, n) = Cardinality({m \in C : b < m /\ m < c})
  BY DEF BodySize, LastStart
<1>6. Body(lines, b, n) = {m \in C : b < m /\ m < n /\ ~\E e \in E : b < e /\ e < m}
  BY DEF Body, EndsBetween
<1>7. n \in E
  OBVIOUS
<1> HIDE DEF L, b, E, C, c
<1>8. n \in after /\ after \subseteq 1 .. L
  BY <1>1, <1>2, <1>3, <1>7
<1>9. c \in after /\ \A y \in after : c <= y
  <2> HIDE DEF after
  <2>1. after # {}
    BY <1>8
  <2> QED BY <1>1, <1>4, <1>8, <2>1, LeastPosition
<1>10. c \in 1 .. L /\ c <= n /\ b < c /\ lines[c].fn = "end"
  <2>1. c \in E /\ c > b
    BY <1>9
  <2> QED BY <1>2, <1>3, <1>8, <1>9, <2>1
<1>11. ASSUME NEW m \in C, b < m PROVE m < c <=> m < n /\ ~\E e \in E : b < e /\ e < m
  <2>1. m \in 1 .. L /\ m # c
    BY <1>3, <1>10
  <2>2. ASSUME m < c, NEW e \in E, b < e, e < m PROVE FALSE
    <3>1. e \in 1 .. L /\ e \in after
      BY <1>2, <1>3, <2>2
    <3> QED BY <1>9, <1>10, <2>1, <2>2, <3>1
  <2>3. m < c => m < n
    BY <1>1, <1>10, <2>1
  <2>4. ASSUME ~(m < c) PROVE c < m /\ b < c /\ c \in E
    BY <1>2, <1>9, <1>10, <2>1, <2>4
  <2> QED BY <2>2, <2>3, <2>4
<1>12. {m \in C : b < m /\ m < c} = Body(lines, b, n)
  BY <1>6, <1>11
<1> QED BY <1>5, <1>12 DEF b

-----------------------------------------------------------------------------
(***************************************************************************)
(* The reports of function size among the complaints.                      *)
(***************************************************************************)
FnConfs(cs) == {c.conf : c \in {x \in Range(cs) : x.cat = FN_SIZE}}
ReportConfs(cs, k, n) ==
  {e.conf : e \in {x \in Range(cs) : x.file = k /\ x.at = n /\ x.cat = FN_SIZE}}

LEMMA RangeConcat ==
  ASSUME NEW X, NEW s \in Seq(X), NEW t \in Seq(X)
  PROVE  s \o t \in Seq(X) /\ Range(s \o t) = Range(s) \cup Range(t)
<1> DEFINE u == s \o t
           a == Len(s)
           b == Len(t)
<1>1. a \in Nat /\ b \in Nat /\ DOMAIN s = 1 .. a /\ DOMAIN t = 1 .. b
  BY LenProperties
<1>2. /\ u \in Seq(X) /\ Len(u) = a + b
      /\ \A i \in 1 .. a + b : u[i] = IF i <= a THEN s[i] ELSE t[i - a]
  BY ConcatProperties
<1>3. DOMAIN u = 1 .. a + b
  BY <1>2, LenProperties
<1> HIDE DEF u, a, b
<1>4. ASSUME NEW i \in 1 .. a + b PROVE u[i] \in Range(s) \cup Range(t)
  <2>1. CASE i <= a
    <3>1. i \in DOMAIN s /\ u[i] = s[i]
      BY <1>1, <1>2, <2>1
    <3> QED BY <3>1 DEF Range
  <2>2. CASE ~(i <= a)
    <3>1. i - a \in DOMAIN t /\ u[i] = t[i - a]
      BY <1>1, <1>2, <2>2
    <3> QED BY <3>1 DEF Range
  <2> QED BY <2>1, <2>2
<1>5. ASSUME NEW i \in 1 .. a PROVE s[i] \in Range(u)
  <2>1. i \in DOMAIN u /\ u[i] = s[i]
    BY <1>1, <1>2, <1>3
  <2> QED BY <2>1 DEF Range
<1>6. ASSUME NEW j \in 1 .. b PROVE t[j] \in Range(u)
  <2>1. a + j \in 1 .. a + b /\ ~(a + j <= a) /\ (a + j) - a = j
    BY <1>1
  <2>2. a + j \in DOMAIN u /\ u[a + j] = t[j]
    BY <1>2, <1>3, <2>1
  <2> QED BY <2>2 DEF Range
<1>7. Range(u) \subseteq Range(s) \cup Range(t)
  BY <1>3, <1>4 DEF Range
<1>8. Range(s) \subseteq Range(u) /\ Range(t) \subseteq Range(u)
  BY <1>1, <1>5, <1>6 DEF Range
<1> QED BY <1>2, <1>7, <1>8 DEF u

LEMMA ConfsJoin ==
  ASSUME NEW X, NEW s \in Seq(X), NEW t \in Seq(X)
  PROVE  /\ s \o t \in Seq(X)
         /\ FnConfs(s \o t) = FnConfs(s) \cup FnConfs(t)
         /\ \A k, n : ReportConfs(s \o t, k, n) = ReportConfs(s, k, n) \cup ReportConfs(t, k, n)
<1>1. s \o t \in Seq(X) /\ Range(s \o t) = Range(s) \cup Range(t)
  BY RangeConcat
<1>2. FnConfs(s \o t) = FnConfs(s) \cup FnConfs(t)
  BY <1>1 DEF FnConfs
<1>3. ASSUME NEW k, NEW n
      PROVE  ReportConfs(s \o t, k, n) = ReportConfs(s, k, n) \cup ReportConfs(t, k, n)
  BY <1>1 DEF ReportConfs
<1> QED BY <1>1, <1>2, <1>3

LEMMA FnConfsJoin ==
  ASSUME NEW s \in Seq(Complaints), NEW t \in Seq(Complaints)
  PROVE  s \o t \in Seq(Complaints) /\ FnConfs(s \o t) = FnConfs(s) \cup FnConfs(t)
BY ConfsJoin

LEMMA CalledConfs ==
  ASSUME NEW cs \in Seq(Complaints), NEW file \in Nat, NEW at \in Nat, NEW supp, NEW fs
  PROVE  /\ Called(cs, file, at, supp, fs) \in Seq(CallSet)
         /\ \A e \in Range(Called(cs, file, at, supp, fs)) : e.file = file /\ e.at = at
         /\ ReportConfs(Called(cs, file, at, supp, fs), file, at) = FnConfs(cs)
<1> DEFINE K == Len(cs)
           c == Called(cs, file, at, supp, fs)
<1>1. K \in Nat /\ DOMAIN cs = 1 .. K /\ \A i \in 1 .. K : cs[i] \in Complaints
  BY LenProperties, ElementOfSeq
<1>2. c = [i \in 1 .. K |-> [file |-> file, at |-> at, cat |-> cs[i].cat, conf |-> cs[i].conf,
                             line |-> cs[i].line, printed |-> ShouldPrintError(cs[i], supp, fs)]]
  BY <1>1 DEF Called
<1> HIDE DEF K, c
<1>3. \A i \in 1 .. K : /\ c[i].file = file /\ c[i].at = at
                        /\ c[i].cat = cs[i].cat /\ c[i].conf = cs[i].conf
  BY <1>2
<1>4. DOMAIN c = 1 .. K
  BY <1>2
<1>5. c \in Seq(CallSet)
  <2>1. ASSUME NEW i \in 1 .. K
        PROVE  [file |-> file, at |-> at, cat |-> cs[i].cat, conf |-> cs[i].conf,
                line |-> cs[i].line, printed |-> ShouldPrintError(cs[i], supp, fs)] \in CallSet
    <3>1. cs[i].cat \in Categories /\ cs[i].conf \in Conf /\ cs[i].line \in Nat
      BY <1>1 DEF Complaints
    <3>2. ShouldPrintError(cs[i], supp, fs) \in BOOLEAN
      BY DEF ShouldPrintError
    <3> QED BY <3>1, <3>2 DEF CallSet
  <2> QED BY <1>1, <1>2, <2>1, IsASeq
<1>6. \A e \in Range(c) : e.file = file /\ e.at = at
  BY <1>3, <1>4 DEF Range
<1>7. \A x : x \in ReportConfs(c, file, at) <=> \E i \in 1 .. K : c[i].cat = FN_SIZE /\ x = c[i].conf
  BY <1>3, <1>4 DEF ReportConfs, Range
<1>8. \A x : x \in FnConfs(cs) <=> \E i \in 1 .. K : cs[i].cat = FN_SIZE /\ x = cs[i].conf
  BY <1>1 DEF FnConfs, Range
<1>9. \A x : x \in ReportConfs(c, file, at) <=> x \in FnConfs(cs)
  BY <1>3, <1>7, <1>8
<1> QED BY <1>5, <1>6, <1>9 DEF c

\* No other check complains of the size of a function.
LEMMA FoundNoSize ==
  ASSUME NEW line \in LineSet, NEW n \in Nat \ {0}, NEW when
  PROVE  FnConfs(FoundIn(line, n, when)) = {} /\ FnConfs(NolintComplaints(line, n)) = {}
<1> DEFINE found == Only(line.errs, {e \in Range(line.errs) : e.when = when})
           cs == FoundIn(line, n, when)
<1>1. line.errs \in Seq(ErrSet)
  BY DEF LineSet
<1>2. found \in Seq(ErrSet)
  BY <1>1, OnlyElements
<1>3. cs = [i \in DOMAIN found |-> Complaint(found[i].cat, found[i].conf, n + found[i].ahead)]
  BY DEF FoundIn
<1> HIDE DEF found, cs
<1>4. \A i \in DOMAIN found : found[i].cat # FN_SIZE
  <2>1. DOMAIN found = 1 .. Len(found) /\ \A i \in 1 .. Len(found) : found[i] \in ErrSet
    BY <1>2, LenProperties, ElementOfSeq
  <2> QED BY <2>1 DEF ErrSet
<1>5. \A i \in DOMAIN cs : cs[i].cat # FN_SIZE
  BY <1>3, <1>4 DEF Complaint
<1>6. FnConfs(cs) = {}
  BY <1>5 DEF FnConfs, Range
<1>7. NOLINT # FN_SIZE
  BY DEF NOLINT, FN_SIZE
<1>8. FnConfs(NolintComplaints(line, n)) = {}
  <2>1. \A i \in DOMAIN NolintComplaints(line, n) : NolintComplaints(line, n)[i].cat = NOLINT
    BY DEF NolintComplaints, Complaint
  <2> QED BY <1>7, <2>1 DEF FnConfs, Range
<1> QED BY <1>6, <1>8 DEF cs

LEMMA CheckConfs ==
  ASSUME NEW line, line.fn = "end", NEW n
  PROVE  FnConfs(FunctionComplaints(line, n))
           = IF lines_in_function > base_trigger * PowerOfTwo[verbose_level]
             THEN {ErrorLevel(lines_in_function, base_trigger)} ELSE {}
<1> DEFINE c == Complaint(FN_SIZE, ErrorLevel(lines_in_function, base_trigger), n)
<1>1. FunctionComplaints(line, n)
        = IF lines_in_function > base_trigger * PowerOfTwo[verbose_level] THEN <<c>> ELSE <<>>
  BY DEF FunctionComplaints, Check, FunctionTrigger
<1>2. c.cat = FN_SIZE /\ c.conf = ErrorLevel(lines_in_function, base_trigger)
  BY DEF Complaint
<1> HIDE DEF c
<1>3. Range(<<c>>) = {c} /\ Range(<<>>) = {}
  BY DEF Range
<1>4. FnConfs(<<c>>) = {ErrorLevel(lines_in_function, base_trigger)} /\ FnConfs(<<>>) = {}
  BY <1>2, <1>3 DEF FnConfs
<1> QED BY <1>1, <1>4

-----------------------------------------------------------------------------
(***************************************************************************)
(* The second invariant: while a file is read _FunctionState holds what    *)
(* the lines so far say, every line of a file that was read has been       *)
(* processed when the next one is opened, and the reports of function size *)
(* so far are those the bodies call for.                                   *)
(***************************************************************************)
SizeRight(confs, lines, n, v) ==
  /\ confs # {} <=> /\ Starts(lines, n) # {}
                    /\ BodySize(lines, n) > TriggerOf(lines[LastStart(lines, n)]) * PowerOfTwo[v]
  /\ v <= 5 => \A c \in confs : c >= v

WasRead(ts, ln, k, n) == ts[k].readable /\ ts[k].lintable /\ (k < Len(ts) \/ n <= ln)
SizesRight(cs, ts, ln, v) ==
  \A k \in 1 .. Len(ts) : \A n \in LinesOf(ts[k].lines, {"end"}) :
    WasRead(ts, ln, k, n) => SizeRight(ReportConfs(cs, k, n), ts[k].lines, n, v)

TrackInv ==
  /\ in_a_function \in BOOLEAN
  /\ status = "file" =>
        Tracks(LastLines(texts), linenum + 1, in_a_function, lines_in_function, base_trigger)
CallsSoFar == status = "file" => \A e \in Range(calls) : e.file = Len(texts) => e.at <= linenum
ReadInv ==
  status = "idle" /\ texts # <<>> /\ texts[Len(texts)].readable /\ texts[Len(texts)].lintable =>
    linenum = Len(LastLines(texts))
FnInv == TrackInv /\ CallsSoFar /\ ReadInv /\ SizesRight(calls, texts, linenum, argv.verbose)

LEMMA FnInit == Init => FnInv
<1> SUFFICES ASSUME Init PROVE FnInv
  OBVIOUS
<1>1. status = "start" /\ in_a_function = FALSE /\ texts = <<>>
  BY DEF Init
<1>2. TrackInv /\ CallsSoFar /\ ReadInv
  BY <1>1 DEF TrackInv, CallsSoFar, ReadInv
<1>3. SizesRight(calls, texts, linenum, argv.verbose)
  <2>1. Len(texts) = 0 /\ 1 .. 0 = {}
    BY <1>1, EmptySeq
  <2> QED BY <2>1 DEF SizesRight
<1> QED BY <1>2, <1>3 DEF FnInv

\* The steps outside a file make no complaint and read no line.
LEMMA FnOutside ==
  ASSUME LintInv, FnInv,
         /\ argv' = argv /\ calls' = calls /\ texts' = texts /\ linenum' = linenum
         /\ in_a_function' = in_a_function,
         \/ status = "start" /\ status' \in {"idle", "exited"}
         \/ status' = "exited"
         \/ /\ status' = status /\ lines_in_function' = lines_in_function
            /\ base_trigger' = base_trigger
  PROVE  FnInv'
<1>1. SizesRight(calls', texts', linenum', argv'.verbose)
  BY DEF FnInv
<1>2. CASE status = "start" /\ status' \in {"idle", "exited"}
  <2>1. texts = <<>>
    BY <1>2 DEF LintInv, StartInv
  <2> QED BY <1>1, <1>2, <2>1 DEF FnInv, TrackInv, CallsSoFar, ReadInv
<1>3. CASE status' = "exited"
  BY <1>1, <1>3 DEF FnInv, TrackInv, CallsSoFar, ReadInv
<1>4. CASE /\ status' = status /\ lines_in_function' = lines_in_function
           /\ base_trigger' = base_trigger
  <2>1. TrackInv'
    BY <1>4 DEF FnInv, TrackInv
  <2>2. CallsSoFar' /\ ReadInv'
    BY <1>4 DEF FnInv, CallsSoFar, ReadInv
  <2> QED BY <1>1, <2>1, <2>2 DEF FnInv
<1> QED BY <1>2, <1>3, <1>4

\* Every line of the files before another one is opened has been processed.
LEMMA SizesAfterAppend ==
  ASSUME LintInv, FnInv, status = "idle", NEW f \in FileSet, NEW cs, NEW ln,
         \A k \in 1 .. Len(texts) : \A n : ReportConfs(cs, k, n) = ReportConfs(calls, k, n),
         (f.readable /\ f.lintable) => \A n \in 1 .. Len(f.lines) : ~(n <= ln)
  PROVE  SizesRight(cs, Append(texts, f), ln, argv.verbose)
<1> DEFINE us == Append(texts, f)
           N == Len(texts)
<1>1. texts \in Seq(FileSet) /\ linenum \in Nat
  BY DEF LintInv, LintType
<1>2. N \in Nat /\ Len(us) = N + 1 /\ us[N + 1] = f /\ \A k \in 1 .. N : us[k] = texts[k]
  BY <1>1, LenProperties, AppendProperties
<1>3. SizesRight(calls, texts, linenum, argv.verbose) /\ ReadInv
  BY DEF FnInv
<1> HIDE DEF us
<1> SUFFICES ASSUME NEW k \in 1 .. N + 1, NEW n \in LinesOf(us[k].lines, {"end"}), WasRead(us, ln, k, n)
             PROVE  SizeRight(ReportConfs(cs, k, n), us[k].lines, n, argv.verbose)
  <2>1. SizesRight(cs, us, ln, argv.verbose)
    BY <1>2 DEF SizesRight
  <2> QED BY <2>1 DEF us
<1>4. k \in 1 .. N
  <2> SUFFICES ASSUME k = N + 1 PROVE FALSE
    BY <1>2
  <2>1. f.readable /\ f.lintable /\ n <= ln
    BY <1>2 DEF WasRead
  <2>2. f.lines \in Seq(LineSet)
    BY DEF FileSet
  <2>3. n \in 1 .. Len(f.lines)
    BY <1>2, <2>2, KindOfLine
  <2> QED BY <2>1, <2>3
<1>5. us[k] = texts[k] /\ texts[k].readable /\ texts[k].lintable
  BY <1>2, <1>4 DEF WasRead
<1>6. texts[k].lines \in Seq(LineSet)
  <2>1. texts[k] \in FileSet
    BY <1>1, <1>4, ElementOfSeq
  <2> QED BY <2>1 DEF FileSet
<1>7. k < N \/ n <= linenum
  <2> SUFFICES ASSUME k = N PROVE n <= linenum
    BY <1>2, <1>4
  <2>1. texts # <<>>
    BY <1>2, <1>4, EmptySeq
  <2>2. linenum = Len(texts[N].lines)
    BY <1>3, <1>5, <2>1 DEF ReadInv, LastLines
  <2>3. n \in 1 .. Len(texts[N].lines)
    BY <1>5, <1>6, KindOfLine
  <2> QED BY <1>1, <2>2, <2>3
<1>8. WasRead(texts, linenum, k, n)
  BY <1>5, <1>7 DEF WasRead
<1>9. SizeRight(ReportConfs(calls, k, n), texts[k].lines, n, argv.verbose)
  BY <1>3, <1>4, <1>5, <1>8 DEF SizesRight
<1> QED BY <1>4, <1>5, <1>9

LEMMA FnSkipFile ==
  ASSUME LintInv, FnInv, NEW f \in FileSet, SkipFile(f)
  PROVE  FnInv'
<1>1. /\ status = "idle" /\ status' = "idle" /\ texts' = Append(texts, f)
      /\ ~(f.readable /\ f.lintable)
      /\ argv' = argv /\ calls' = calls /\ linenum' = linenum /\ in_a_function' = in_a_function
  BY DEF SkipFile, NextFile, options, counts, fileVars, functionVars
<1>2. SizesRight(calls, Append(texts, f), linenum, argv.verbose)
  BY <1>1, SizesAfterAppend
<1>3. Append(texts, f)[Len(Append(texts, f))] = f
  BY AppendProperties DEF LintInv, LintType
<1>4. TrackInv' /\ CallsSoFar'
  BY <1>1 DEF FnInv, TrackInv, CallsSoFar
<1>5. ReadInv'
  BY <1>1, <1>3 DEF ReadInv
<1> QED BY <1>1, <1>2, <1>4, <1>5 DEF FnInv

LEMMA NothingTracked ==
  ASSUME NEW lines \in Seq(LineSet)
  PROVE  Tracks(lines, 0 + 1, FALSE, 0, NormalTrigger)
<1>1. \A b \in LinesOf(lines, {"begin", "begin_test"}) : b \in 1 .. Len(lines) /\ Len(lines) \in Nat
  BY KindOfLine, LenProperties
<1>2. \A b \in LinesOf(lines, {"begin", "begin_test"}) : ~(b < 0 + 1)
  BY <1>1
<1>3. Starts(lines, 0 + 1) = {}
  BY <1>2 DEF Starts
<1> QED BY <1>3 DEF Tracks

\* What opening a file makes of complaints: all of that file, before its lines.
LEMMA OpenCalls ==
  ASSUME LintInv, NEW f \in FileSet, OpenFile(f)
  PROVE  \E cs \in Seq(CallSet) : /\ calls' = calls \o cs
                                 /\ \A e \in Range(cs) : e.file = Len(texts) + 1 /\ e.at = 0
<1> DEFINE gs == filters \o GlobalFilters(f.lines)
           supp == GuardSuppressions(f.lines)
           new == Len(texts) + 1
           marks == Called(GlobalComplaints(f.lines), new, 0, error_suppressions, gs)
           early == Called(Found(f.lines, "early"), new, 0, {}, gs)
           open == Called(GuardComplaints(f.lines) \o Found(f.lines, "open"), new, 0, supp, gs)
           cs == marks \o early \o open
<1>1. calls' = calls \o cs
  <2>1. Forgotten \cup supp = supp
    BY DEF Forgotten
  <2> QED BY <2>1 DEF OpenFile, Forgotten, Error
<1>2. f.lines \in Seq(LineSet)
  BY DEF FileSet
<1>3. new \in Nat /\ 0 \in Nat
  BY LenProperties DEF LintInv, LintType
<1> HIDE DEF gs, supp, new
<1>4. /\ GlobalComplaints(f.lines) \in Seq(Complaints) /\ Found(f.lines, "early") \in Seq(Complaints)
      /\ GuardComplaints(f.lines) \o Found(f.lines, "open") \in Seq(Complaints)
  <2>1. /\ GlobalComplaints(f.lines) \in Seq(Complaints) /\ GuardComplaints(f.lines) \in Seq(Complaints)
        /\ Found(f.lines, "early") \in Seq(Complaints) /\ Found(f.lines, "open") \in Seq(Complaints)
    BY <1>2, GlobalComplaintsType, FoundType, GuardComplaintsType, ComplaintType
  <2> QED BY <2>1, ConcatProperties
<1>5. /\ marks \in Seq(CallSet) /\ early \in Seq(CallSet) /\ open \in Seq(CallSet)
      /\ \A e \in Range(marks) \cup Range(early) \cup Range(open) : e.file = new /\ e.at = 0
  BY <1>3, <1>4, CalledConfs
<1> HIDE DEF marks, early, open
<1>6. cs \in Seq(CallSet) /\ \A e \in Range(cs) : e.file = new /\ e.at = 0
  <2> DEFINE first == marks \o early
  <2>1. first \in Seq(CallSet) /\ Range(first) = Range(marks) \cup Range(early)
    BY <1>5, RangeConcat
  <2>2. cs = first \o open
    OBVIOUS
  <2> HIDE DEF first, cs
  <2>3. first \o open \in Seq(CallSet) /\ Range(first \o open) = Range(first) \cup Range(open)
    BY <1>5, <2>1, RangeConcat
  <2> QED BY <1>5, <2>1, <2>2, <2>3
<1> HIDE DEF cs
<1> QED BY <1>1, <1>6 DEF new

LEMMA FnOpenFile ==
  ASSUME LintInv, FnInv, NEW f \in FileSet, OpenFile(f)
  PROVE  FnInv'
<1> DEFINE ts == Append(texts, f)
           new == Len(texts) + 1
<1>1. /\ status = "idle" /\ status' = "file" /\ texts' = ts /\ argv' = argv /\ linenum' = 0
      /\ in_a_function' = FALSE /\ lines_in_function' = 0 /\ base_trigger' = NormalTrigger
  BY DEF OpenFile, NextFile, options
<1>2. texts \in Seq(FileSet) /\ f.lines \in Seq(LineSet) /\ calls \in Seq(CallSet)
  BY DEF LintInv, LintType, FileSet
<1>3. ts \in Seq(FileSet) /\ Len(ts) = new /\ LastLines(ts) = f.lines
  BY <1>2, AppendFile
<1>4. new \in Nat /\ Len(texts) \in Nat /\ 0 \in Nat
  BY <1>2, LenProperties
<1>5. PICK cs \in Seq(CallSet) : /\ calls' = calls \o cs
                                /\ \A e \in Range(cs) : e.file = new /\ e.at = 0
  BY OpenCalls
<1> HIDE DEF ts, new
<1>6. ASSUME NEW k \in 1 .. Len(texts), NEW n
      PROVE  ReportConfs(calls \o cs, k, n) = ReportConfs(calls, k, n)
  <2>1. k # new
    BY <1>4 DEF new
  <2>2. ReportConfs(cs, k, n) = {}
    BY <1>5, <2>1 DEF ReportConfs
  <2>3. ReportConfs(calls \o cs, k, n) = ReportConfs(calls, k, n) \cup ReportConfs(cs, k, n)
    BY <1>2, <1>5, ConfsJoin
  <2> QED BY <2>2, <2>3
<1>7. SizesRight(calls \o cs, ts, 0, argv.verbose)
  <2>1. \A n \in 1 .. Len(f.lines) : ~(n <= 0)
    BY <1>2, LenProperties
  <2> QED BY <1>1, <1>6, <2>1, SizesAfterAppend DEF ts
<1>8. TrackInv'
  BY <1>1, <1>2, <1>3, NothingTracked DEF TrackInv
<1>9. CallsSoFar'
  <2>1. Range(calls \o cs) = Range(calls) \cup Range(cs)
    BY <1>2, <1>5, RangeConcat
  <2>2. ASSUME NEW e \in Range(calls) PROVE e.file # new
    <3>1. PICK i \in 1 .. Len(calls) : e = calls[i]
      BY <1>2, LenProperties DEF Range
    <3>2. e.file \in 1 .. Len(texts)
      BY <3>1 DEF LintInv, AllJudged, Judges
    <3> QED BY <1>4, <3>2 DEF new
  <2>3. ASSUME NEW e \in Range(calls \o cs), e.file = new PROVE e.at <= 0
    <3>1. e \in Range(cs)
      BY <2>1, <2>2, <2>3
    <3>2. e.at = 0
      BY <1>5, <3>1
    <3> QED BY <3>2
  <2> QED BY <1>1, <1>3, <1>5, <2>3 DEF CallsSoFar
<1>10. ReadInv'
  BY <1>1 DEF ReadInv
<1> QED BY <1>1, <1>5, <1>7, <1>8, <1>9, <1>10 DEF FnInv

\* Complaints made in the current file at the next line leave the others.
LEMMA ReportsAdded ==
  ASSUME LintInv, FnInv, status = "file", NEW cs \in Seq(CallSet),
         \A e \in Range(cs) : e.file = Len(texts) /\ e.at = linenum + 1
  PROVE  /\ \A k, n : k # Len(texts) \/ n # linenum + 1 =>
               ReportConfs(calls \o cs, k, n) = ReportConfs(calls, k, n)
         /\ ReportConfs(calls \o cs, Len(texts), linenum + 1) = ReportConfs(cs, Len(texts), linenum + 1)
<1>1. calls \in Seq(CallSet) /\ linenum \in Nat
  BY DEF LintInv, LintType
<1>2. \A k, n : ReportConfs(calls \o cs, k, n) = ReportConfs(calls, k, n) \cup ReportConfs(cs, k, n)
  BY <1>1, ConfsJoin
<1>3. ASSUME NEW k, NEW n, k # Len(texts) \/ n # linenum + 1 PROVE ReportConfs(cs, k, n) = {}
  BY <1>3 DEF ReportConfs
<1>4. ReportConfs(calls, Len(texts), linenum + 1) = {}
  <2>1. \A e \in Range(calls) : e.file = Len(texts) => e.at <= linenum
    BY DEF FnInv, CallsSoFar
  <2>2. ~(linenum + 1 <= linenum)
    BY <1>1
  <2>3. \A e \in Range(calls) : ~(e.file = Len(texts) /\ e.at = linenum + 1)
    BY <2>1, <2>2
  <2> QED BY <2>3 DEF ReportConfs
<1>5. ASSUME NEW k, NEW n, k # Len(texts) \/ n # linenum + 1
      PROVE  ReportConfs(calls \o cs, k, n) = ReportConfs(calls, k, n)
  <2>1. ReportConfs(cs, k, n) = {}
    BY <1>3, <1>5
  <2> QED BY <1>2, <2>1
<1>6. ReportConfs(calls \o cs, Len(texts), linenum + 1) = ReportConfs(cs, Len(texts), linenum + 1)
  <2> DEFINE A == ReportConfs(calls, Len(texts), linenum + 1)
             B == ReportConfs(cs, Len(texts), linenum + 1)
             C == ReportConfs(calls \o cs, Len(texts), linenum + 1)
  <2>1. C = A \cup B
    BY <1>2
  <2>2. A = {}
    BY <1>4
  <2> HIDE DEF A, B, C
  <2>3. C = B
    BY <2>1, <2>2
  <2> QED BY <2>3 DEF B, C
<1> QED BY <1>5, <1>6

\* At a closing brace _FunctionState reports what the body calls for.
LEMMA ReportRight ==
  ASSUME LintInv, FnInv, status = "file", NEW lines \in Seq(LineSet), lines = LastLines(texts),
         NEW n \in LinesOf(lines, {"end"}), n = linenum + 1
  PROVE  SizeRight(FnConfs(FunctionComplaints(lines[n], n)), lines, n, argv.verbose)
<1> DEFINE v == argv.verbose
           P == PowerOfTwo[argv.verbose]
           size == lines_in_function
           base == base_trigger
           b == LastStart(lines, n)
<1>1. lines[n].fn = "end" /\ n \in 1 .. Len(lines)
  BY KindOfLine
<1>2. verbose_level = v /\ argv \in Args /\ size \in Nat
  BY DEF LintInv, LintType, FilterInv
<1>3. v \in Nat /\ P \in Nat \ {0}
  BY <1>2, VerboseAssumption, PowerDefined
<1>4. FnConfs(FunctionComplaints(lines[n], n))
        = IF size > base * P THEN {ErrorLevel(size, base)} ELSE {}
  BY <1>1, <1>2, CheckConfs
<1>5. /\ Starts(lines, n) = {} => size = 0 /\ base = NormalTrigger
      /\ Starts(lines, n) # {} => /\ base = TriggerOf(lines[b])
                                  /\ size = BodySize(lines, n)
  <2>1. Tracks(lines, n, in_a_function, size, base)
    BY DEF FnInv, TrackInv
  <2> QED BY <2>1, BodyCounted DEF Tracks
<1>6. base \in Nat \ {0}
  BY <1>5, TriggersAssumption DEF TriggerOf
<1> HIDE DEF P, size, base, b
<1>7. size > base * P <=> Starts(lines, n) # {} /\ BodySize(lines, n) > TriggerOf(lines[b]) * P
  <2>1. CASE Starts(lines, n) = {}
    <3>1. base * P \in Nat
      BY <1>3, <1>6
    <3> QED BY <1>5, <2>1, <3>1
  <2>2. CASE Starts(lines, n) # {}
    BY <1>5, <2>2
  <2> QED BY <2>1, <2>2
<1>8. v <= 5 /\ size > base * P => ErrorLevel(size, base) >= v
  BY <1>2, <1>3, <1>6, LevelReaches DEF P
<1> QED BY <1>4, <1>7, <1>8 DEF SizeRight, P, b

\* The size reports among what is complained of at a line that is not asm.
LEMMA LineConfs ==
  ASSUME NEW line \in LineSet, NEW n \in Nat \ {0}, NEW fn \in Seq(Complaints)
  PROVE  LET all == NolintComplaints(line, n) \o (fn \o FoundIn(line, n, "now"))
         IN  all \in Seq(Complaints) /\ FnConfs(all) = FnConfs(fn)
<1> DEFINE now == FoundIn(line, n, "now")
           nolint == NolintComplaints(line, n)
           checks == fn \o now
<1>1. now \in Seq(Complaints) /\ nolint \in Seq(Complaints) /\ FnConfs(now) = {} /\ FnConfs(nolint) = {}
  BY FoundInType, NolintComplaintsType, ComplaintType, FoundNoSize
<1> HIDE DEF now, nolint
<1>2. checks \in Seq(Complaints) /\ FnConfs(checks) = FnConfs(fn) \cup FnConfs(now)
  BY <1>1, FnConfsJoin
<1> HIDE DEF checks
<1>3. nolint \o checks \in Seq(Complaints) /\ FnConfs(nolint \o checks) = FnConfs(nolint) \cup FnConfs(checks)
  BY <1>1, <1>2, FnConfsJoin
<1>4. nolint \o checks \in Seq(Complaints) /\ FnConfs(nolint \o checks) = FnConfs(fn)
  BY <1>1, <1>2, <1>3
<1> QED BY <1>4 DEF nolint, checks, now

LEMMA FnProcessLine ==
  ASSUME LintInv, FnInv, ProcessLine
  PROVE  FnInv'
<1> DEFINE lines == LastLines(texts)
           n == linenum + 1
           line == lines[n]
           supp == error_suppressions \cup NolintSuppressions(line, n)
           fn == FunctionComplaints(line, n)
           checks == fn \o FoundIn(line, n, "now")
           all == NolintComplaints(line, n) \o (IF line.asm THEN <<>> ELSE checks)
           cs == Called(all, Len(texts), n, supp, filters)
<1>1. /\ status = "file" /\ status' \in {"file", "exited"} /\ linenum < Len(lines) /\ linenum' = n
      /\ calls' = calls \o cs
      /\ IF line.asm THEN UNCHANGED functionVars ELSE UpdateFunction(line.fn)
      /\ argv' = argv /\ texts' = texts
  BY DEF ProcessLine, CurrentLines, CurrentFile, LastLines, options, Error
<1>2. texts \in Seq(FileSet) /\ texts # <<>> /\ linenum \in Nat /\ calls \in Seq(CallSet)
  BY <1>1 DEF LintInv, LintType, FileInv
<1>3. lines \in Seq(LineSet) /\ Len(texts) \in Nat
  <2>1. Len(texts) \in 1 .. Len(texts) /\ Len(texts) \in Nat
    BY <1>2, LenProperties, EmptySeq
  <2>2. texts[Len(texts)] \in FileSet
    BY <1>2, <2>1, ElementOfSeq
  <2> QED BY <2>1, <2>2 DEF FileSet, LastLines
<1> HIDE DEF lines
<1>4. Len(lines) \in Nat /\ n \in Nat \ {0} /\ n \in 1 .. Len(lines)
  BY <1>1, <1>2, <1>3, LenProperties
<1>5. line \in LineSet
  BY <1>3, <1>4, ElementOfSeq
<1>6. fn \in Seq(Complaints)
  BY <1>4, FunctionComplaintsType DEF LintInv, LintType
<1>7. all \in Seq(Complaints) /\ (~line.asm => FnConfs(all) = FnConfs(fn))
  <2> HIDE DEF n, line, fn
  <2>1. CASE line.asm
    <3>1. NolintComplaints(line, n) \in Seq(Complaints)
      BY <1>4, <1>5, NolintComplaintsType, ComplaintType
    <3>2. <<>> \in Seq(Complaints)
      BY EmptySeq
    <3>3. NolintComplaints(line, n) \o <<>> \in Seq(Complaints)
      BY <3>1, <3>2, ConcatProperties
    <3> QED BY <2>1, <3>3
  <2>2. CASE ~line.asm
    <3>1. all = NolintComplaints(line, n) \o (fn \o FoundIn(line, n, "now"))
      BY <2>2
    <3> HIDE DEF all
    <3> QED BY <1>4, <1>5, <1>6, <3>1, LineConfs
  <2> QED BY <2>1, <2>2
<1> HIDE DEF all, supp, fn, line
<1>8. /\ cs \in Seq(CallSet) /\ \A e \in Range(cs) : e.file = Len(texts) /\ e.at = n
      /\ ReportConfs(cs, Len(texts), n) = FnConfs(all)
  BY <1>3, <1>4, <1>7, CalledConfs
<1> HIDE DEF cs
<1>9. /\ \A k, m : k # Len(texts) \/ m # n => ReportConfs(calls \o cs, k, m) = ReportConfs(calls, k, m)
       /\ ReportConfs(calls \o cs, Len(texts), n) = FnConfs(all)
  BY <1>1, <1>8, ReportsAdded
<1>10. TrackInv'
  <2>1. in_a_function \in BOOLEAN /\ Tracks(lines, n, in_a_function, lines_in_function, base_trigger)
    BY <1>1 DEF FnInv, TrackInv, lines
  <2>2. IF lines[n].asm THEN UNCHANGED functionVars ELSE UpdateFunction(lines[n].fn)
    BY <1>1 DEF line
  <2> HIDE DEF n
  <2>3. /\ in_a_function' \in BOOLEAN
        /\ Tracks(lines, n + 1, in_a_function', lines_in_function', base_trigger')
    BY <1>3, <1>4, <2>1, <2>2, TracksStep
  <2> QED BY <1>1, <2>3 DEF TrackInv, lines
<1>11. CallsSoFar'
  <2>1. Range(calls \o cs) = Range(calls) \cup Range(cs)
    BY <1>2, <1>8, RangeConcat
  <2>2. ASSUME NEW e \in Range(calls \o cs), e.file = Len(texts) PROVE e.at <= n
    <3>1. CASE e \in Range(cs)
      BY <1>4, <1>8, <3>1
    <3>2. CASE e \in Range(calls)
      <4>1. e.at <= linenum
        BY <1>1, <2>2, <3>2 DEF FnInv, CallsSoFar
      <4>2. PICK i \in 1 .. Len(calls) : e = calls[i]
        BY <1>2, <3>2, LenProperties DEF Range
      <4>3. e \in CallSet
        BY <1>2, <4>2, ElementOfSeq
      <4>4. e.at \in Nat
        BY <4>3 DEF CallSet
      <4> QED BY <1>2, <4>1, <4>4
    <3> QED BY <2>1, <3>1, <3>2
  <2> HIDE DEF n
  <2> QED BY <1>1, <2>2 DEF CallsSoFar
<1>12. ReadInv'
  BY <1>1 DEF ReadInv
<1>13. SizesRight(calls \o cs, texts, n, argv.verbose)
  <2> SUFFICES ASSUME NEW k \in 1 .. Len(texts), NEW m \in LinesOf(texts[k].lines, {"end"}),
                      WasRead(texts, n, k, m)
               PROVE  SizeRight(ReportConfs(calls \o cs, k, m), texts[k].lines, m, argv.verbose)
    BY DEF SizesRight
  <2>1. texts[k].lines \in Seq(LineSet)
    <3>1. texts[k] \in FileSet
      BY <1>2, ElementOfSeq
    <3> QED BY <3>1 DEF FileSet
  <2>2. m \in 1 .. Len(texts[k].lines) /\ Len(texts[k].lines) \in Nat /\ ~texts[k].lines[m].asm
    BY <2>1, KindOfLine, LenProperties
  <2>3. CASE k = Len(texts) /\ m = n
    <3>1. texts[k].lines = lines /\ m \in LinesOf(lines, {"end"})
      BY <2>3 DEF lines, LastLines
    <3>2. FnConfs(all) = FnConfs(FunctionComplaints(lines[m], m))
      BY <1>7, <2>2, <2>3, <3>1 DEF fn, line
    <3>3. SizeRight(FnConfs(FunctionComplaints(lines[m], m)), lines, m, argv.verbose)
      BY <1>1, <1>3, <2>3, <3>1, ReportRight DEF lines
    <3> QED BY <1>9, <2>3, <3>1, <3>2, <3>3
  <2>4. CASE ~(k = Len(texts) /\ m = n)
    <3>1. k < Len(texts) \/ m <= linenum
      <4>1. k < Len(texts) \/ (k = Len(texts) /\ m <= n /\ m # n)
        BY <1>3, <2>4 DEF WasRead
      <4> QED BY <1>2, <2>2, <4>1
    <3>2. WasRead(texts, linenum, k, m)
      BY <3>1 DEF WasRead
    <3>3. SizeRight(ReportConfs(calls, k, m), texts[k].lines, m, argv.verbose)
      BY <3>2 DEF FnInv, SizesRight
    <3>4. ReportConfs(calls \o cs, k, m) = ReportConfs(calls, k, m)
      BY <1>9, <2>4
    <3> QED BY <3>3, <3>4
  <2> QED BY <2>3, <2>4
<1> HIDE DEF n
<1> QED BY <1>1, <1>10, <1>11, <1>12, <1>13 DEF FnInv

LEMMA FnFinishFile ==
  ASSUME LintInv, FnInv, FinishFile
  PROVE  FnInv'
<1> DEFINE lines == LastLines(texts)
           at == linenum + 1
           late == Found(lines, "late") \o CarriageReturn
           cs == Called(late, Len(texts), at, error_suppressions, filters)
<1>1. /\ status = "file" /\ status' = "idle" /\ linenum = Len(lines)
      /\ calls' = calls \o cs /\ argv' = argv /\ texts' = texts /\ linenum' = linenum
      /\ in_a_function' = in_a_function
  BY DEF FinishFile, CurrentLines, CurrentFile, LastLines, options, fileVars, functionVars, Error
<1>2. texts \in Seq(FileSet) /\ texts # <<>> /\ linenum \in Nat
  BY <1>1 DEF LintInv, LintType, FileInv
<1>3. lines \in Seq(LineSet) /\ Len(texts) \in Nat
  <2>1. Len(texts) \in 1 .. Len(texts) /\ Len(texts) \in Nat
    BY <1>2, LenProperties, EmptySeq
  <2>2. texts[Len(texts)] \in FileSet
    BY <1>2, <2>1, ElementOfSeq
  <2> QED BY <2>1, <2>2 DEF FileSet, LastLines
<1> HIDE DEF lines
<1>4. late \in Seq(Complaints)
  <2>1. Found(lines, "late") \in Seq(Complaints)
    BY <1>3, FoundType, ComplaintType
  <2>2. Complaint(NEWLINE, 1, 0) \in Complaints
    BY ComplaintType
  <2>3. CarriageReturn \in Seq(Complaints)
    BY <2>2, EmptySeq DEF CarriageReturn
  <2> QED BY <2>1, <2>3, ConcatProperties
<1> HIDE DEF late
<1>5. cs \in Seq(CallSet) /\ \A e \in Range(cs) : e.file = Len(texts) /\ e.at = at
  <2>1. at \in Nat
    BY <1>2
  <2> HIDE DEF at
  <2> QED BY <1>3, <1>4, <2>1, CalledConfs
<1> HIDE DEF cs
<1>6. \A k, m : k # Len(texts) \/ m # at => ReportConfs(calls \o cs, k, m) = ReportConfs(calls, k, m)
  BY <1>1, <1>5, ReportsAdded
<1>7. SizesRight(calls \o cs, texts, linenum, argv.verbose)
  <2> SUFFICES ASSUME NEW k \in 1 .. Len(texts), NEW m \in LinesOf(texts[k].lines, {"end"}),
                      WasRead(texts, linenum, k, m)
               PROVE  SizeRight(ReportConfs(calls \o cs, k, m), texts[k].lines, m, argv.verbose)
    BY DEF SizesRight
  <2>1. SizeRight(ReportConfs(calls, k, m), texts[k].lines, m, argv.verbose)
    BY DEF FnInv, SizesRight
  <2>2. ASSUME k = Len(texts) PROVE m # at
    <3>1. m \in 1 .. Len(lines)
      BY <1>3, <2>2, KindOfLine DEF lines, LastLines
    <3> QED BY <1>1, <1>2, <3>1
  <2> QED BY <1>6, <2>1, <2>2
<1>8. TrackInv' /\ CallsSoFar'
  BY <1>1 DEF FnInv, TrackInv, CallsSoFar
<1>9. ReadInv'
  BY <1>1 DEF ReadInv, lines
<1> QED BY <1>1, <1>7, <1>8, <1>9 DEF FnInv

\* Begin, Count, End and Check over the lines of every file: the state of the
\* current function and the reports so far are those the lines call for.
THEOREM FnInvariant == Spec => []FnInv
<1>1. Init => FnInv
  BY FnInit
<1>2. LintInv /\ FnInv /\ [Next]_vars => FnInv'
  <2> SUFFICES ASSUME LintInv, FnInv, [Next]_vars PROVE FnInv'
    OBVIOUS
  <2>1. CASE PrintUsage
    <3>1. /\ argv' = argv /\ calls' = calls /\ texts' = texts /\ linenum' = linenum
          /\ in_a_function' = in_a_function /\ status' = "exited"
      BY <2>1 DEF PrintUsage, options, counts, fileVars, functionVars
    <3> QED BY <3>1, FnOutside
  <2>2. CASE ParseArguments
    <3>1. /\ argv' = argv /\ calls' = calls /\ texts' = texts /\ linenum' = linenum
          /\ in_a_function' = in_a_function /\ status = "start" /\ status' \in {"idle", "exited"}
      BY <2>2 DEF ParseArguments, counts, fileVars, functionVars
    <3> QED BY <3>1, FnOutside
  <2>3. ASSUME NEW n \in DOMAIN Files, NEW f \in Files[n], SkipFile(f) \/ OpenFile(f) PROVE FnInv'
    <3>1. f \in FileSet
      BY FileTypes
    <3> QED BY <2>3, <3>1, FnSkipFile, FnOpenFile
  <2>4. CASE ProcessLine
    BY <2>4, FnProcessLine
  <2>5. CASE FinishFile
    BY <2>5, FnFinishFile
  <2>6. CASE Exit
    <3>1. /\ argv' = argv /\ calls' = calls /\ texts' = texts /\ linenum' = linenum
          /\ in_a_function' = in_a_function /\ status' = "exited"
      BY <2>6 DEF Exit, options, counts, fileVars, functionVars
    <3> QED BY <3>1, FnOutside
  <2>7. CASE UNCHANGED vars
    <3>1. /\ argv' = argv /\ calls' = calls /\ texts' = texts /\ linenum' = linenum
          /\ in_a_function' = in_a_function /\ status' = status
          /\ lines_in_function' = lines_in_function /\ base_trigger' = base_trigger
      BY <2>7 DEF vars, options, counts, fileVars, functionVars
    <3> QED BY <3>1, FnOutside
  <2> QED BY <2>1, <2>2, <2>3, <2>4, <2>5, <2>6, <2>7 DEF Next
<1> QED BY <1>1, <1>2, LintInvariant, PTL DEF Spec

\* _FunctionState.Check: the closing brace of a function is reported exactly
\* when its body is too long for the verbosity, for bodies of
\* any length, any triggers and any verbosity; up to verbosity 5 the computed
\* confidence never hides the report.
THEOREM LintFnSizeByBody == Spec => []FnSizeByBody
<1>1. LintInv /\ FnInv => FnSizeByBody
  <2> SUFFICES ASSUME LintInv, FnInv, NEW k \in DOMAIN texts,
                      NEW n \in LinesOf(texts[k].lines, {"end"}), Processed(k, n),
                      Starts(texts[k].lines, n) # {}
               PROVE  LET lines == texts[k].lines
                          reports == {i \in DOMAIN calls : calls[i].file = k /\ calls[i].at = n /\ calls[i].cat = FN_SIZE}
                      IN  /\ reports # {} <=>
                                BodySize(lines, n) > TriggerOf(lines[Max(Starts(lines, n))]) * PowerOfTwo[argv.verbose]
                          /\ argv.verbose <= 5 => \A i \in reports : calls[i].conf >= argv.verbose
    BY DEF FnSizeByBody
  <2> DEFINE reports == {i \in DOMAIN calls : calls[i].file = k /\ calls[i].at = n /\ calls[i].cat = FN_SIZE}
             confs == ReportConfs(calls, k, n)
  <2>1. k \in 1 .. Len(texts)
    BY LenProperties DEF LintInv, LintType
  <2>2. WasRead(texts, linenum, k, n)
    BY DEF Processed, Linted, WasRead
  <2>3. SizeRight(confs, texts[k].lines, n, argv.verbose)
    BY <2>1, <2>2 DEF FnInv, SizesRight
  <2>4. confs = {calls[i].conf : i \in reports}
    BY DEF ReportConfs, Range
  <2> HIDE DEF confs, reports
  <2>5. (confs # {} <=> reports # {}) /\ \A i \in reports : calls[i].conf \in confs
    BY <2>4
  <2> QED BY <2>3, <2>5 DEF SizeRight, LastStart, reports
<1> QED BY <1>1, LintInvariant, FnInvariant, PTL
-----------------------------------------------------------------------------
(***************************************************************************)
(* What the exit status tells of the texts: no line read so far raised,    *)
(* and all that the checks of a line find in it has become a complaint.    *)
(***************************************************************************)
Heard(cs, line, k, n) ==
  \A e \in Range(line.errs) : e.when = "now" =>
    \E c \in Range(cs) : /\ c.file = k /\ c.at = n /\ c.cat = e.cat /\ c.conf = e.conf
                         /\ c.line = n + e.ahead
Survived(cs, line, k, n) == ~line.asm => ~line.raises /\ Heard(cs, line, k, n)
AllSurvived(cs, ts, ln) ==
  \A k \in 1 .. Len(ts) : \A n \in 1 .. Len(ts[k].lines) :
    WasRead(ts, ln, k, n) => Survived(cs, ts[k].lines[n], k, n)
ReadAll(ts, ln) ==
  ts # <<>> /\ ts[Len(ts)].readable /\ ts[Len(ts)].lintable => ln = Len(LastLines(ts))
HeardInv ==
  /\ (status = "exited" /\ exit_status = 1) \/ AllSurvived(calls, texts, linenum)
  /\ status = "exited" /\ exit_status = 0 => ReadAll(texts, linenum)

\* Complaints that follow leave what was heard.
LEMMA HeardStays ==
  ASSUME NEW s \in Seq(CallSet), NEW t \in Seq(CallSet), NEW ts, NEW ln, AllSurvived(s, ts, ln)
  PROVE  AllSurvived(s \o t, ts, ln)
<1>1. Range(s) \subseteq Range(s \o t)
  BY RangeConcat
<1>2. \A line, k, n : Heard(s, line, k, n) => Heard(s \o t, line, k, n)
  BY <1>1 DEF Heard
<1> QED BY <1>2 DEF AllSurvived, Survived

\* What the checks find in a line is among its complaints.
LEMMA FoundIsHeard ==
  ASSUME NEW line \in LineSet, NEW n \in Nat \ {0}, NEW k \in Nat, NEW first \in Seq(Complaints),
         NEW supp, NEW fs
  PROVE  Heard(Called(first \o FoundIn(line, n, "now"), k, n, supp, fs), line, k, n)
<1> DEFINE P == {e \in Range(line.errs) : e.when = "now"}
           found == Only(line.errs, P)
           now == FoundIn(line, n, "now")
           cs == first \o now
           called == Called(cs, k, n, supp, fs)
<1>1. line.errs \in Seq(ErrSet)
  BY DEF LineSet
<1>2. found \in Seq(ErrSet) /\ PicksFrom(found, line.errs, P)
  BY <1>1, OnlyPicks
<1>3. now = [i \in DOMAIN found |-> Complaint(found[i].cat, found[i].conf, n + found[i].ahead)]
  BY DEF FoundIn
<1>4. now \in Seq(Complaints)
  BY FoundInType, ComplaintType
<1>5. Len(found) \in Nat /\ DOMAIN found = 1 .. Len(found)
  BY <1>2, LenProperties
<1> SUFFICES ASSUME NEW e \in Range(line.errs), e.when = "now"
             PROVE  \E c \in Range(called) : /\ c.file = k /\ c.at = n /\ c.cat = e.cat /\ c.conf = e.conf
                                             /\ c.line = n + e.ahead
  BY DEF Heard
<1>6. PICK j \in 1 .. Len(line.errs) : e = line.errs[j]
  BY <1>1, LenProperties DEF Range
<1>7. PICK i \in 1 .. Len(found) : found[i] = e
  <2>1. line.errs[j] \in P
    BY <1>6
  <2> HIDE DEF found, P
  <2> QED BY <1>2, <1>6, <2>1 DEF PicksFrom
<1> HIDE DEF found, now
<1>8. /\ i \in DOMAIN now /\ now[i].cat = e.cat /\ now[i].conf = e.conf
      /\ now[i].line = n + e.ahead
  BY <1>3, <1>5, <1>7 DEF Complaint
<1>9. cs \in Seq(Complaints) /\ now[i] \in Range(cs)
  <2>1. now[i] \in Range(now)
    BY <1>8 DEF Range
  <2> QED BY <1>4, <2>1, RangeConcat
<1> HIDE DEF cs
<1>10. PICK m \in DOMAIN cs : cs[m] = now[i]
  BY <1>9 DEF Range
<1>11. called = [l \in DOMAIN cs |-> [file |-> k, at |-> n, cat |-> cs[l].cat, conf |-> cs[l].conf,
                          line |-> cs[l].line, printed |-> ShouldPrintError(cs[l], supp, fs)]]
  BY DEF Called
<1> HIDE DEF called
<1>12. called[m] \in Range(called)
  BY <1>11 DEF Range
<1>13. /\ called[m].file = k /\ called[m].at = n /\ called[m].cat = cs[m].cat
       /\ called[m].conf = cs[m].conf /\ called[m].line = cs[m].line
  BY <1>11
<1> QED BY <1>8, <1>10, <1>12, <1>13

LEMMA HeardInit == Init => HeardInv
<1> SUFFICES ASSUME Init PROVE HeardInv
  OBVIOUS
<1>1. status = "start" /\ texts = <<>>
  BY DEF Init
<1>2. Len(texts) = 0 /\ 1 .. 0 = {}
  BY <1>1, EmptySeq
<1> QED BY <1>1, <1>2 DEF HeardInv, AllSurvived

\* Steps that read nothing, up to the next file.
LEMMA HeardOutside ==
  ASSUME HeardInv, status # "exited", calls' = calls, texts' = texts, linenum' = linenum,
         status' # "exited" \/ exit_status' = 1 \/ ReadAll(texts, linenum)
  PROVE  HeardInv'
BY DEF HeardInv, AllSurvived, Survived, Heard, WasRead, ReadAll, LastLines

LEMMA HeardAppend ==
  ASSUME LintInv, FnInv, HeardInv, status = "idle", NEW f \in FileSet, NEW ln,
         (f.readable /\ f.lintable) => \A n \in 1 .. Len(f.lines) : ~(n <= ln)
  PROVE  AllSurvived(calls, Append(texts, f), ln)
<1> DEFINE us == Append(texts, f)
           N == Len(texts)
<1>1. texts \in Seq(FileSet) /\ linenum \in Nat
  BY DEF LintInv, LintType
<1>2. N \in Nat /\ Len(us) = N + 1 /\ us[N + 1] = f /\ \A k \in 1 .. N : us[k] = texts[k]
  BY <1>1, LenProperties, AppendProperties
<1>3. AllSurvived(calls, texts, linenum) /\ ReadInv
  BY DEF FnInv, HeardInv
<1> HIDE DEF us
<1> SUFFICES ASSUME NEW k \in 1 .. N + 1, NEW n \in 1 .. Len(us[k].lines), WasRead(us, ln, k, n)
             PROVE  Survived(calls, us[k].lines[n], k, n)
  <2>1. AllSurvived(calls, us, ln)
    BY <1>2 DEF AllSurvived
  <2> QED BY <2>1 DEF us
<1>4. k \in 1 .. N
  <2> SUFFICES ASSUME k = N + 1 PROVE FALSE
    BY <1>2
  <2> QED BY <1>2 DEF WasRead
<1>5. us[k] = texts[k] /\ texts[k].readable /\ texts[k].lintable
  BY <1>2, <1>4 DEF WasRead
<1>6. k < N \/ n <= linenum
  <2> SUFFICES ASSUME k = N PROVE n <= linenum
    BY <1>2, <1>4
  <2>1. texts # <<>>
    BY <1>2, <1>4, EmptySeq
  <2>2. linenum = Len(texts[N].lines)
    BY <1>3, <1>5, <2>1 DEF ReadInv, LastLines
  <2> QED BY <1>1, <1>5, <2>2
<1>7. WasRead(texts, linenum, k, n)
  BY <1>5, <1>6 DEF WasRead
<1> QED BY <1>3, <1>4, <1>5, <1>7 DEF AllSurvived

LEMMA HeardSkipFile ==
  ASSUME LintInv, FnInv, HeardInv, NEW f \in FileSet, SkipFile(f)
  PROVE  HeardInv'
<1>1. /\ status = "idle" /\ status' = "idle" /\ texts' = Append(texts, f)
      /\ ~(f.readable /\ f.lintable) /\ calls' = calls /\ linenum' = linenum
  BY DEF SkipFile, NextFile, counts, fileVars
<1>2. AllSurvived(calls, Append(texts, f), linenum)
  BY <1>1, HeardAppend
<1> QED BY <1>1, <1>2 DEF HeardInv

LEMMA HeardOpenFile ==
  ASSUME LintInv, FnInv, HeardInv, NEW f \in FileSet, OpenFile(f)
  PROVE  HeardInv'
<1>1. /\ status = "idle" /\ status' = "file" /\ texts' = Append(texts, f) /\ linenum' = 0
  BY DEF OpenFile, NextFile
<1>2. AllSurvived(calls, Append(texts, f), 0)
  <2>1. f.lines \in Seq(LineSet)
    BY DEF FileSet
  <2>2. \A n \in 1 .. Len(f.lines) : ~(n <= 0)
    BY <2>1, LenProperties
  <2> QED BY <1>1, <2>2, HeardAppend
<1>3. PICK cs \in Seq(CallSet) : calls' = calls \o cs
  BY OpenCalls
<1>4. AllSurvived(calls \o cs, Append(texts, f), 0)
  BY <1>2, HeardStays DEF LintInv, LintType
<1> QED BY <1>1, <1>3, <1>4 DEF HeardInv

LEMMA HeardProcessLine ==
  ASSUME LintInv, FnInv, HeardInv, ProcessLine
  PROVE  HeardInv'
<1> DEFINE lines == LastLines(texts)
           N == Len(texts)
           n == linenum + 1
           line == lines[n]
           supp == error_suppressions \cup NolintSuppressions(line, n)
           fn == FunctionComplaints(line, n)
           now == FoundIn(line, n, "now")
           all == NolintComplaints(line, n) \o (IF line.asm THEN <<>> ELSE fn \o now)
           cs == Called(all, N, n, supp, filters)
<1>1. /\ status = "file" /\ linenum < Len(lines) /\ linenum' = n
      /\ IF Raises(line) THEN status' = "exited" /\ exit_status' = 1 ELSE status' = "file"
      /\ calls' = calls \o cs /\ texts' = texts
  BY DEF ProcessLine, CurrentLines, CurrentFile, LastLines, Error
<1>2. texts \in Seq(FileSet) /\ texts # <<>> /\ linenum \in Nat /\ calls \in Seq(CallSet)
  BY <1>1 DEF LintInv, LintType, FileInv
<1>3. lines \in Seq(LineSet) /\ N \in Nat
  <2>1. N \in 1 .. N /\ N \in Nat
    BY <1>2, LenProperties, EmptySeq
  <2>2. texts[N] \in FileSet
    BY <1>2, <2>1, ElementOfSeq
  <2> QED BY <2>1, <2>2 DEF FileSet, LastLines
<1> HIDE DEF lines
<1>4. Len(lines) \in Nat /\ n \in Nat \ {0} /\ n \in 1 .. Len(lines)
  BY <1>1, <1>2, <1>3, LenProperties
<1>5. line \in LineSet
  BY <1>3, <1>4, ElementOfSeq
<1> SUFFICES ASSUME ~Raises(line) PROVE HeardInv'
  BY <1>1 DEF HeardInv
<1>6. /\ fn \in Seq(Complaints) /\ now \in Seq(Complaints) /\ NolintComplaints(line, n) \in Seq(Complaints)
  BY <1>4, <1>5, FunctionComplaintsType, FoundInType, NolintComplaintsType, ComplaintType DEF LintInv, LintType
<1>7. cs \in Seq(CallSet) /\ Survived(cs, line, N, n)
  <2> DEFINE first == NolintComplaints(line, n) \o fn
  <2>1. first \in Seq(Complaints)
    BY <1>6, ConcatProperties
  <2>2. CASE line.asm
    <3>1. all = NolintComplaints(line, n) \o <<>>
      BY <2>2
    <3>2. all \in Seq(Complaints)
      BY <1>6, <3>1, EmptySeq, ConcatProperties
    <3> HIDE DEF all
    <3>3. cs \in Seq(CallSet)
      BY <1>3, <1>4, <3>2, CalledConfs
    <3> QED BY <2>2, <3>3 DEF Survived
  <2>3. CASE ~line.asm
    <3>1. all = NolintComplaints(line, n) \o (fn \o now)
      BY <2>3
    <3> HIDE DEF fn, now, all
    <3>2. all = first \o now
      BY <1>6, <3>1, ConcatAssociative
    <3>3. all \in Seq(Complaints)
      BY <1>6, <2>1, <3>2, ConcatProperties
    <3>4. cs \in Seq(CallSet)
      BY <1>3, <1>4, <3>3, CalledConfs
    <3>5. Heard(cs, line, N, n)
      <4> HIDE DEF n, line, supp, first
      <4> QED BY <1>3, <1>4, <1>5, <2>1, <3>2, FoundIsHeard DEF now
    <3>6. ~line.raises
      BY <2>3 DEF Raises
    <3> QED BY <3>4, <3>5, <3>6 DEF Survived
  <2> QED BY <2>2, <2>3
<1> HIDE DEF cs, line, n
<1>8. AllSurvived(calls \o cs, texts, linenum)
  BY <1>1, <1>2, <1>7, HeardStays DEF HeardInv
<1>9. Survived(calls \o cs, line, N, n)
  <2>1. Range(cs) \subseteq Range(calls \o cs)
    BY <1>2, <1>7, RangeConcat
  <2> QED BY <1>7, <2>1 DEF Survived, Heard
<1>10. AllSurvived(calls \o cs, texts, n)
  <2> SUFFICES ASSUME NEW k \in 1 .. N, NEW m \in 1 .. Len(texts[k].lines), WasRead(texts, n, k, m)
               PROVE  Survived(calls \o cs, texts[k].lines[m], k, m)
    BY DEF AllSurvived
  <2>1. CASE k = N /\ m = n
    BY <1>9, <2>1 DEF line, lines, LastLines
  <2>2. CASE ~(k = N /\ m = n)
    <3>1. k < N \/ m <= n
      BY DEF WasRead
    <3>2. k \in Nat /\ m \in Nat
      OBVIOUS
    <3>3. k < N \/ m <= linenum
      BY <1>2, <1>3, <2>2, <3>1, <3>2 DEF n
    <3>4. WasRead(texts, linenum, k, m)
      BY <3>3 DEF WasRead
    <3> QED BY <1>8, <3>4 DEF AllSurvived
  <2> QED BY <2>1, <2>2
<1> QED BY <1>1, <1>10 DEF HeardInv

LEMMA HeardFinishFile ==
  ASSUME LintInv, HeardInv, FinishFile
  PROVE  HeardInv'
<1> DEFINE late == Found(LastLines(texts), "late") \o CarriageReturn
           cs == Called(late, Len(texts), linenum + 1, error_suppressions, filters)
<1>1. /\ status = "file" /\ status' = "idle" /\ calls' = calls \o cs
      /\ texts' = texts /\ linenum' = linenum
  BY DEF FinishFile, CurrentLines, CurrentFile, LastLines, fileVars, Error
<1>2. texts \in Seq(FileSet) /\ texts # <<>> /\ linenum + 1 \in Nat /\ calls \in Seq(CallSet)
  BY <1>1 DEF LintInv, LintType, FileInv
<1>3. LastLines(texts) \in Seq(LineSet) /\ Len(texts) \in Nat
  <2>1. Len(texts) \in 1 .. Len(texts) /\ Len(texts) \in Nat
    BY <1>2, LenProperties, EmptySeq
  <2>2. texts[Len(texts)] \in FileSet
    BY <1>2, <2>1, ElementOfSeq
  <2> QED BY <2>1, <2>2 DEF FileSet, LastLines
<1>4. late \in Seq(Complaints)
  <2>1. Found(LastLines(texts), "late") \in Seq(Complaints)
    BY <1>3, FoundType, ComplaintType
  <2>2. Complaint(NEWLINE, 1, 0) \in Complaints
    BY ComplaintType
  <2>3. CarriageReturn \in Seq(Complaints)
    BY <2>2, EmptySeq DEF CarriageReturn
  <2> QED BY <2>1, <2>3, ConcatProperties
<1> HIDE DEF late
<1>5. cs \in Seq(CallSet)
  BY <1>2, <1>3, <1>4, CalledConfs
<1> HIDE DEF cs
<1>6. AllSurvived(calls \o cs, texts, linenum)
  BY <1>1, <1>2, <1>5, HeardStays DEF HeardInv
<1> QED BY <1>1, <1>6 DEF HeardInv

\* From the first line on, whatever a check finds becomes a complaint, and a
\* line that raises leaves no way but exit status 1.
THEOREM HeardInvariant == Spec => []HeardInv
<1>1. Init => HeardInv
  BY HeardInit
<1>2. LintInv /\ FnInv /\ HeardInv /\ [Next]_vars => HeardInv'
  <2> SUFFICES ASSUME LintInv, FnInv, HeardInv, [Next]_vars PROVE HeardInv'
    OBVIOUS
  <2>1. CASE PrintUsage
    <3>1. texts = <<>> /\ status # "exited" /\ calls' = calls /\ texts' = texts /\ linenum' = linenum
      BY <2>1 DEF PrintUsage, counts, fileVars, LintInv, StartInv
    <3> QED BY <3>1, HeardOutside DEF ReadAll
  <2>2. CASE ParseArguments
    <3>1. texts = <<>> /\ status # "exited" /\ calls' = calls /\ texts' = texts /\ linenum' = linenum
      BY <2>2 DEF ParseArguments, counts, fileVars, LintInv, StartInv
    <3> QED BY <3>1, HeardOutside DEF ReadAll
  <2>3. ASSUME NEW n \in DOMAIN Files, NEW f \in Files[n], SkipFile(f) \/ OpenFile(f) PROVE HeardInv'
    <3>1. f \in FileSet
      BY FileTypes
    <3> QED BY <2>3, <3>1, HeardSkipFile, HeardOpenFile
  <2>4. CASE ProcessLine
    BY <2>4, HeardProcessLine
  <2>5. CASE FinishFile
    BY <2>5, HeardFinishFile
  <2>6. CASE Exit
    <3>1. /\ status = "idle" /\ calls' = calls /\ texts' = texts /\ linenum' = linenum
      BY <2>6 DEF Exit, counts, fileVars
    <3>2. ReadAll(texts, linenum)
      BY <3>1 DEF FnInv, ReadInv, ReadAll
    <3> QED BY <3>1, <3>2, HeardOutside
  <2>7. CASE UNCHANGED vars
    <3>1. /\ status' = status /\ exit_status' = exit_status
          /\ calls' = calls /\ texts' = texts /\ linenum' = linenum
      BY <2>7 DEF vars, counts, fileVars
    <3> QED BY <3>1 DEF HeardInv, AllSurvived, Survived, Heard, WasRead, ReadAll, LastLines
  <2> QED BY <2>1, <2>2, <2>3, <2>4, <2>5, <2>6, <2>7 DEF Next
<1> QED BY <1>1, <1>2, LintInvariant, FnInvariant, PTL DEF Spec

\* main and what it exits with: status 0 means that every file named was
\* checked to its end without an exception and that each complaint the checks
\* of its lines call for was excused; status 1, once files are named, that
\* something was printed or a check raised.
THEOREM LintExitTells == Spec => []ExitTells
<1>1. LintInv /\ HeardInv => ExitTells
  <2> SUFFICES ASSUME LintInv, HeardInv, status = "exited", texts # <<>> PROVE
                 /\ exit_status = 0 =>
                       /\ ~Crashed
                       /\ \A k \in DOMAIN texts : Linted(k) =>
                             \A e \in FoundInText(k) : ~Audible(e) \/ NolintOn(texts[k].lines, e.line, e.cat)
                 /\ exit_status = 1 => Crashed \/ Printed # {}
    BY DEF ExitTells
  <2>1. Printed = PrintedOf(calls)
    BY DEF Printed, PrintedOf
  <2>2. exit_status = 1 => Crashed \/ Printed # {}
    BY <2>1 DEF LintInv, CountInv
  <2>3. ASSUME exit_status = 0 PROVE Printed = {}
    BY <2>1, <2>3 DEF LintInv, CountInv
  <2>4. texts \in Seq(FileSet) /\ calls \in Seq(CallSet)
    BY DEF LintInv, LintType
  <2>5. Len(texts) \in Nat /\ DOMAIN texts = 1 .. Len(texts) /\ \A k \in 1 .. Len(texts) : texts[k] \in FileSet
    BY <2>4, LenProperties, ElementOfSeq
  <2>6. ASSUME exit_status = 0, NEW k \in DOMAIN texts, Linted(k), NEW n \in DOMAIN texts[k].lines
        PROVE  Survived(calls, texts[k].lines[n], k, n) /\ n \in Nat \ {0}
    <3>1. texts[k].lines \in Seq(LineSet)
      BY <2>5 DEF FileSet
    <3>2. n \in 1 .. Len(texts[k].lines) /\ n \in Nat \ {0} /\ n <= Len(texts[k].lines)
      BY <3>1, LenProperties
    <3>3. WasRead(texts, linenum, k, n)
      <4>1. CASE k = Len(texts)
        <5>1. linenum = Len(texts[k].lines)
          BY <2>6, <4>1 DEF HeardInv, ReadAll, LastLines, Linted
        <5> QED BY <2>6, <3>2, <5>1 DEF WasRead, Linted
      <4>2. CASE k # Len(texts)
        BY <2>5, <2>6, <4>2 DEF WasRead, Linted
      <4> QED BY <4>1, <4>2
    <3>4. AllSurvived(calls, texts, linenum)
      BY <2>6 DEF HeardInv
    <3> QED BY <2>5, <3>2, <3>3, <3>4 DEF AllSurvived
  <2>7. exit_status = 0 => ~Crashed
    BY <2>6 DEF Crashed, Survived, Raises
  <2>8. ASSUME exit_status = 0, NEW k \in DOMAIN texts, Linted(k), NEW e \in FoundInText(k)
        PROVE  ~Audible(e) \/ NolintOn(texts[k].lines, e.line, e.cat)
    <3>1. PICK n \in DOMAIN texts[k].lines : \E x \in Range(texts[k].lines[n].errs) :
             /\ ~texts[k].lines[n].asm /\ x.when = "now"
             /\ e = [file |-> k, at |-> n, cat |-> x.cat, conf |-> x.conf, line |-> n + x.ahead]
      BY DEF FoundInText
    <3>2. PICK x \in Range(texts[k].lines[n].errs) :
             /\ ~texts[k].lines[n].asm /\ x.when = "now"
             /\ e = [file |-> k, at |-> n, cat |-> x.cat, conf |-> x.conf, line |-> n + x.ahead]
      BY <3>1
    <3>3. Heard(calls, texts[k].lines[n], k, n) /\ n \in Nat \ {0}
      BY <2>6, <2>8, <3>2 DEF Survived
    <3>4. PICK c \in Range(calls) : /\ c.file = k /\ c.at = n /\ c.cat = x.cat /\ c.conf = x.conf
                                    /\ c.line = n + x.ahead
      BY <3>2, <3>3 DEF Heard
    <3>5. PICK i \in DOMAIN calls : c = calls[i]
      BY <3>4 DEF Range
    <3>6. ~calls[i].printed
      BY <2>3, <2>8 DEF Printed
    <3>7. ~OfGlobalMark(calls[i])
      BY <3>3, <3>4, <3>5 DEF OfGlobalMark
    <3>8. ~Audible(calls[i]) \/ NolintOn(texts[k].lines, calls[i].line, calls[i].cat)
      BY <3>4, <3>5, <3>6, <3>7, JudgedReads DEF Judges
    <3>9. /\ e.file = k /\ e.cat = calls[i].cat /\ e.conf = calls[i].conf /\ e.line = calls[i].line
          /\ calls[i].file = k
      BY <3>2, <3>4, <3>5
    <3>10. Audible(e) <=> Audible(calls[i])
      BY <3>9 DEF Audible
    <3> QED BY <3>8, <3>9, <3>10
  <2> QED BY <2>2, <2>7, <2>8
<1> QED BY <1>1, LintInvariant, HeardInvariant, PTL
=============================================================================
