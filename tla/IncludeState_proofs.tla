------------------------- MODULE IncludeState_proofs -------------------------
(***************************************************************************)
(* Proofs about the includes of a file, for every set of headers and files *)
(* of any length.                                                          *)
(***************************************************************************)
EXTENDS IncludeState, SequenceTheorems, TLAPS

-----------------------------------------------------------------------------
(* Scopes *)

\* The section stays one of the five.
LEMMA NextSectionType ==
    ASSUME NEW section \in Sections, NEW type
    PROVE  NextSection(section, type) \in Sections
BY DEF NextSection, Sections, MY_H_SECTION, C_SECTION, CPP_SECTION, OTHER_H_SECTION

\* A new scope has seen no header.
LEMMA NewScopeType == ScopedIncludeState \in Scope /\ ScopedIncludeState.included = {}
BY DEF ScopedIncludeState, Scope, NoHeader, Sections, INITIAL_SECTION

\* An #include line adds its path to its scope, and nothing else.
LEMMA AfterIncludeType ==
    ASSUME NEW scope \in Scope, NEW h \in Headers, linenum \in Nat
    PROVE  /\ AfterInclude(scope, h) \in Scope
           /\ AfterInclude(scope, h).included = scope.included \cup {h.name}
<1>1. h.name \in Names /\ h.canonical \in Nat /\ h.has_dir \in BOOLEAN
  BY HeadersAssumption DEF HeaderRecord, Names
<1>2. CASE h.name \in scope.included
  BY <1>2 DEF AfterInclude
<1>3. CASE h.name \notin scope.included
  <2> DEFINE o == Ordered(scope, ClassifyInclude(h))
             next == NextSection(scope.section, ClassifyInclude(h))
  <2>1. next \in Sections
    BY NextSectionType DEF Scope
  <2>2. o \in Scope /\ o.included = scope.included
    <3>1. NoHeader \in [canonical : Nat, has_dir : BOOLEAN]
      BY DEF NoHeader
    <3> HIDE DEF next
    <3>2. \/ o = [scope EXCEPT !.section = next, !.last_header = NoHeader]
          \/ o = [scope EXCEPT !.section = next, !.last_header = @]
      BY DEF Ordered, next
    <3> QED BY <2>1, <3>1, <3>2 DEF Scope
  <2> HIDE DEF o
  <2>3. LastHeader(h) \in [canonical : Nat, has_dir : BOOLEAN]
    BY <1>1 DEF LastHeader
  <2> DEFINE p == Placed(o, h, linenum + 1)
  <2>4. p \in Scope /\ p.included = scope.included
    <3> DEFINE last == LastHeader(h)
    <3>1. p = [o EXCEPT !.last_header = last, !.last_line = linenum + 1]
      BY DEF Placed
    <3>2. last \in [canonical : Nat, has_dir : BOOLEAN] /\ linenum + 1 \in Nat
      BY <2>3
    <3> HIDE DEF last, p
    <3> QED BY <2>2, <3>1, <3>2 DEF Scope
  <2> HIDE DEF p
  <2>5. AfterInclude(scope, h) = [p EXCEPT !.included = @ \cup {h.name}]
    BY <1>3 DEF AfterInclude, p, o
  <2> QED BY <1>1, <2>4, <2>5 DEF Scope
<1> QED BY <1>2, <1>3

\* What is said about an #include line.
LEMMA EntryType ==
    ASSUME TypeOK, linenum < MaxLines, NEW h \in Headers, NEW scope \in Scope
    PROVE  /\ Entry(h, scope) \in LogEntry
           /\ Entry(h, scope).header = h /\ Entry(h, scope).branch = Branch
           /\ Entry(h, scope).dup = (h.name \in scope.included)
<1> DEFINE e == Entry(h, scope)
           alpha == AlphaError(Ordered(scope, ClassifyInclude(h)), h, linenum + 1)
<1>1. Branch \in 0..MaxLines
  <2>1. branches \in Seq(1..MaxLines)
    BY DEF TypeOK
  <2>2. CASE branches = <<>>
    BY <2>2, MaxLinesAssumption DEF Branch
  <2>3. CASE branches # <<>>
    <3>1. Len(branches) \in 1..Len(branches)
      BY <2>1, <2>3, EmptySeq
    <3>2. Top(branches) \in 1..MaxLines
      BY <2>1, <3>1, ElementOfSeq DEF Top
    <3> QED BY <2>3, <3>2, MaxLinesAssumption DEF Branch
  <2> QED BY <2>2, <2>3
<1>2. linenum + 1 \in 1..MaxLines
  BY MaxLinesAssumption DEF TypeOK
<1>3. alpha \in {"none", "include_alpha", "include_order"}
  BY DEF AlphaError
<1>4. OutOfOrder(scope.section, ClassifyInclude(h)) \in BOOLEAN
  BY DEF OutOfOrder
<1> HIDE DEF alpha
<1>5. e = [line |-> linenum + 1, header |-> h, branch |-> Branch, dup |-> h.name \in scope.included,
           order |-> h.name \notin scope.included /\ OutOfOrder(scope.section, ClassifyInclude(h)),
           alpha |-> IF h.name \in scope.included THEN "none" ELSE alpha]
  BY DEF Entry, alpha
<1> QED BY <1>1, <1>2, <1>3, <1>4, <1>5 DEF LogEntry

-----------------------------------------------------------------------------
(* The list of scopes *)

Increasing(s) == \A i, j \in DOMAIN s : i < j => s[i] < s[j]

LEMMA LastOrBefore ==
    ASSUME NEW n \in Nat, NEW i \in 1..(n + 1), i # n + 1
    PROVE  i \in 1..n
OBVIOUS

\* A new, last scope on the list.
LEMMA PushProps ==
    ASSUME NEW n \in Nat, NEW s \in Seq(1..n)
    PROVE  /\ Append(s, n + 1) \in Seq(1..(n + 1))
           /\ Len(Append(s, n + 1)) = Len(s) + 1 /\ Append(s, n + 1)[Len(s) + 1] = n + 1
           /\ \A i \in 1..Len(s) : Append(s, n + 1)[i] = s[i]
           /\ Increasing(s) => Increasing(Append(s, n + 1))
<1> DEFINE t == Append(s, n + 1)
<1>1. s \in Seq(1..(n + 1))
  BY SeqMonotonic
<1>2. /\ t \in Seq(1..(n + 1)) /\ Len(t) = Len(s) + 1 /\ t[Len(s) + 1] = n + 1
      /\ \A i \in 1..Len(s) : t[i] = s[i]
  BY <1>1, AppendProperties
<1>3. /\ Len(s) \in Nat /\ DOMAIN s = 1..Len(s) /\ DOMAIN t = 1..(Len(s) + 1)
  BY <1>2, LenProperties
<1>4. \A i \in 1..Len(s) : s[i] \in 1..n
  BY ElementOfSeq
<1> HIDE DEF t
<1>5. Increasing(s) => Increasing(t)
  <2> SUFFICES ASSUME Increasing(s), NEW i \in 1..(Len(s) + 1), NEW j \in 1..(Len(s) + 1), i < j
               PROVE  t[i] < t[j]
    BY <1>3 DEF Increasing
  <2>0. i \in 1..Len(s)
    <3>1. i # Len(s) + 1
      BY <1>3
    <3> QED BY ONLY i \in 1..(Len(s) + 1), <1>3, <3>1, LastOrBefore
  <2>1. i \in 1..Len(s) /\ t[i] = s[i] /\ s[i] \in 1..n
    BY <1>2, <1>4, <2>0
  <2>2. CASE j = Len(s) + 1
    BY <1>2, <2>1, <2>2
  <2>3. CASE j # Len(s) + 1
    <3>1. j \in 1..Len(s)
      BY ONLY j \in 1..(Len(s) + 1), <1>3, <2>3, LastOrBefore
    <3> QED BY <1>2, <1>3, <2>1, <3>1 DEF Increasing
  <2> QED BY <2>2, <2>3
<1> QED BY <1>2, <1>5 DEF t

\* The list without its innermost scope.
LEMMA PopProps ==
    ASSUME NEW S, NEW s \in Seq(S), s # <<>>
    PROVE  /\ Pop(s) \in Seq(S) /\ Len(Pop(s)) = Len(s) - 1
           /\ \A i \in 1..(Len(s) - 1) : Pop(s)[i] = s[i]
           /\ Increasing(s) => Increasing(Pop(s))
<1> DEFINE n == Len(s) - 1
<1>1. n \in Nat /\ Len(s) \in Nat /\ DOMAIN s = 1..Len(s)
  BY EmptySeq, LenProperties
<1>2. \A i \in 1..n : s[i] \in S
  BY <1>1, ElementOfSeq
<1>3. Pop(s) = SubSeq(s, 1, n)
  BY DEF Pop
<1>4. Len(s) = n + 1
  BY <1>1
<1> HIDE DEF n
<1>5. /\ SubSeq(s, 1, n) \in Seq(S)
      /\ Len(SubSeq(s, 1, n)) = IF 1 <= n THEN n - 1 + 1 ELSE 0
      /\ \A i \in 1..(n - 1 + 1) : SubSeq(s, 1, n)[i] = s[1 + i - 1]
  BY <1>1, <1>2, SubSeqProperties
<1>6. Pop(s) \in Seq(S) /\ Len(Pop(s)) = n /\ \A i \in 1..n : Pop(s)[i] = s[i]
  BY <1>1, <1>3, <1>5
<1>7. DOMAIN Pop(s) = 1..n /\ DOMAIN s = 1..(n + 1)
  BY <1>1, <1>4, <1>6, LenProperties
<1>8. Increasing(s) => Increasing(Pop(s))
  BY <1>1, <1>6, <1>7 DEF Increasing
<1> QED BY <1>1, <1>4, <1>6, <1>8

-----------------------------------------------------------------------------
(* Scopes and branches *)

\* Does a branch have an #include of the path?
Seen(l, b, x) == \E j \in DOMAIN l : l[j].branch = b /\ l[j].header.name = x

\* The branch that a position of the list belongs to; 0 is the file itself.
BranchAt(list, bs, p) ==
    IF p = Len(list) - Len(bs) THEN 0 ELSE bs[p - (Len(list) - Len(bs))]

Typed(list, scopes, bs, l, line) ==
    /\ scopes \in Seq(Scope) /\ list \in Seq(1..Len(scopes))
    /\ bs \in Seq(Nat \ {0}) /\ l \in Seq(LogEntry) /\ line \in Nat

\* Every scope on the list has the headers of its own branch; branches are
\* told apart by their lines, and includes outside of all conditions have a
\* scope on the list.
Matches(list, scopes, bs, l, line) ==
    /\ Len(list) - Len(bs) \in {0, 1} /\ Increasing(list) /\ Increasing(bs)
    /\ \A p \in DOMAIN list : \A x \in Names :
          x \in scopes[list[p]].included <=> Seen(l, BranchAt(list, bs, p), x)
    /\ Len(list) = Len(bs) => \A j \in DOMAIN l : l[j].branch # 0
    /\ \A i \in DOMAIN bs : bs[i] <= line
    /\ \A j \in DOMAIN l : l[j].branch <= line

\* The branch of an entry is a line, or 0.
LEMMA BranchType ==
    ASSUME NEW l \in Seq(LogEntry), NEW j \in DOMAIN l
    PROVE  l[j].branch \in Nat
<1>1. l[j] \in LogEntry
  BY LenProperties, ElementOfSeq
<1>2. l[j].branch \in 0..MaxLines
  BY <1>1 DEF LogEntry
<1> QED BY <1>2, MaxLinesAssumption

\* A line that is no directive and no #include.
LEMMA MatchesLine ==
    ASSUME NEW list, NEW scopes, NEW bs, NEW l, NEW line,
           Typed(list, scopes, bs, l, line), Matches(list, scopes, bs, l, line)
    PROVE  Matches(list, scopes, bs, l, line + 1)
<1>1. bs \in Seq(Nat \ {0}) /\ l \in Seq(LogEntry) /\ line \in Nat
  BY DEF Typed
<1>2. \A i \in DOMAIN bs : bs[i] \in Nat
  BY <1>1, LenProperties
<1>3. \A j \in DOMAIN l : l[j].branch \in Nat
  BY <1>1, BranchType
<1>4. \A i \in DOMAIN bs : bs[i] <= line + 1
  BY <1>1, <1>2 DEF Matches
<1>5. \A j \in DOMAIN l : l[j].branch <= line + 1
  BY <1>1, <1>3 DEF Matches
<1> QED BY <1>4, <1>5 DEF Matches

\* The end of a branch: the other positions keep their scope and branch.
LEMMA PopPositions ==
    ASSUME NEW list, NEW scopes, NEW bs, NEW l, NEW line,
           Typed(list, scopes, bs, l, line), Matches(list, scopes, bs, l, line), bs # <<>>
    PROVE  /\ list # <<>> /\ Typed(Pop(list), scopes, Pop(bs), l, line)
           /\ Len(Pop(list)) - Len(Pop(bs)) = Len(list) - Len(bs)
           /\ Len(list) \in Nat /\ Len(bs) \in Nat
           /\ Increasing(Pop(list)) /\ Increasing(Pop(bs))
           /\ \A p \in DOMAIN Pop(list) :
                 /\ p \in DOMAIN list /\ Pop(list)[p] = list[p]
                 /\ BranchAt(Pop(list), Pop(bs), p) = BranchAt(list, bs, p)
           /\ \A i \in DOMAIN Pop(bs) : i \in DOMAIN bs /\ Pop(bs)[i] = bs[i]
<1>1. /\ scopes \in Seq(Scope) /\ list \in Seq(1..Len(scopes)) /\ bs \in Seq(Nat \ {0})
      /\ Len(list) \in Nat /\ Len(bs) \in Nat \ {0}
      /\ DOMAIN list = 1..Len(list) /\ DOMAIN bs = 1..Len(bs)
  BY LenProperties, EmptySeq DEF Typed
<1>0. Len(list) \in Nat /\ Len(bs) \in Nat \ {0}
  BY <1>1
<1>2. list # <<>> /\ Len(list) - Len(bs) \in {0, 1}
  <2>1. Len(list) - Len(bs) \in {0, 1}
    BY DEF Matches
  <2>2. Len(list) # 0
    BY <1>0, <2>1
  <2> QED BY <2>1, <2>2, EmptySeq
<1>3. /\ Pop(list) \in Seq(1..Len(scopes)) /\ Len(Pop(list)) = Len(list) - 1 /\ Increasing(Pop(list))
      /\ \A i \in 1..(Len(list) - 1) : Pop(list)[i] = list[i]
  BY <1>1, <1>2, PopProps DEF Matches
<1>4. /\ Pop(bs) \in Seq(Nat \ {0}) /\ Len(Pop(bs)) = Len(bs) - 1 /\ Increasing(Pop(bs))
      /\ \A i \in 1..(Len(bs) - 1) : Pop(bs)[i] = bs[i]
  BY <1>1, PopProps DEF Matches
<1>5. DOMAIN Pop(list) = 1..(Len(list) - 1) /\ DOMAIN Pop(bs) = 1..(Len(bs) - 1)
  BY <1>3, <1>4, LenProperties
<1>6. Typed(Pop(list), scopes, Pop(bs), l, line)
  BY <1>3, <1>4 DEF Typed
<1>7. ASSUME NEW p \in 1..(Len(list) - 1)
      PROVE  p \in DOMAIN list /\ Pop(list)[p] = list[p] /\ BranchAt(Pop(list), Pop(bs), p) = BranchAt(list, bs, p)
  <2>1. p \in DOMAIN list /\ Pop(list)[p] = list[p]
    <3>1. p \in 1..Len(list)
      BY <1>0
    <3> QED BY <1>1, <1>3, <3>1
  <2>2. Len(Pop(list)) - Len(Pop(bs)) = Len(list) - Len(bs)
    BY <1>0, <1>3, <1>4
  <2>3. p = Len(list) - Len(bs) \/ p - (Len(list) - Len(bs)) \in 1..(Len(bs) - 1)
    BY <1>0, <1>2
  <2> QED BY <1>4, <2>1, <2>2, <2>3 DEF BranchAt
<1>8. Len(Pop(list)) - Len(Pop(bs)) = Len(list) - Len(bs)
  BY <1>0, <1>3, <1>4
<1>9. \A i \in DOMAIN Pop(bs) : i \in DOMAIN bs /\ Pop(bs)[i] = bs[i]
  <2>1. \A i \in 1..(Len(bs) - 1) : i \in 1..Len(bs)
    BY <1>0
  <2> QED BY <1>1, <1>4, <1>5, <2>1
<1> QED BY <1>0, <1>2, <1>3, <1>4, <1>5, <1>6, <1>7, <1>8, <1>9

LEMMA MatchesPop ==
    ASSUME NEW list, NEW scopes, NEW bs, NEW l, NEW line,
           Typed(list, scopes, bs, l, line), Matches(list, scopes, bs, l, line), bs # <<>>
    PROVE  Matches(Pop(list), scopes, Pop(bs), l, line)
<1>1. /\ Typed(Pop(list), scopes, Pop(bs), l, line)
      /\ Len(Pop(list)) - Len(Pop(bs)) = Len(list) - Len(bs)
      /\ Len(list) \in Nat /\ Len(bs) \in Nat
      /\ Increasing(Pop(list)) /\ Increasing(Pop(bs))
      /\ \A p \in DOMAIN Pop(list) :
            /\ p \in DOMAIN list /\ Pop(list)[p] = list[p]
            /\ BranchAt(Pop(list), Pop(bs), p) = BranchAt(list, bs, p)
      /\ \A i \in DOMAIN Pop(bs) : i \in DOMAIN bs /\ Pop(bs)[i] = bs[i]
  BY PopPositions
<1>2. Len(Pop(list)) \in Nat /\ Len(Pop(bs)) \in Nat
  BY <1>1, LenProperties DEF Typed
<1>3. \A p \in DOMAIN Pop(list) : \A x \in Names :
          x \in scopes[Pop(list)[p]].included <=> Seen(l, BranchAt(Pop(list), Pop(bs), p), x)
  BY <1>1 DEF Matches
<1>4. Len(Pop(list)) = Len(Pop(bs)) => Len(list) = Len(bs)
  BY <1>1, <1>2
<1>5. \A i \in DOMAIN Pop(bs) : Pop(bs)[i] <= line
  BY <1>1 DEF Matches
<1> QED BY <1>1, <1>3, <1>4, <1>5 DEF Matches

\* A new branch: one position has the new scope and the new branch, the
\* others keep theirs.
Grown(list2, scopes2, bs2, list, scopes, bs, new) ==
    \A p \in DOMAIN list2 :
        \/ scopes2[list2[p]] = ScopedIncludeState /\ BranchAt(list2, bs2, p) = new
        \/ /\ p \in DOMAIN list /\ scopes2[list2[p]] = scopes[list[p]]
           /\ BranchAt(list2, bs2, p) = BranchAt(list, bs, p)

LEMMA PushPositions ==
    ASSUME NEW list, NEW scopes, NEW bs, NEW l, NEW line,
           Typed(list, scopes, bs, l, line), Matches(list, scopes, bs, l, line)
    PROVE  Grown(Append(list, Len(scopes) + 1), Append(scopes, ScopedIncludeState),
                 Append(bs, line + 1), list, scopes, bs, line + 1)
<1> DEFINE n == Len(scopes)
           list2 == Append(list, n + 1)
           scopes2 == Append(scopes, ScopedIncludeState)
           bs2 == Append(bs, line + 1)
<1> SUFFICES ASSUME NEW p \in DOMAIN list2
             PROVE  \/ scopes2[list2[p]] = ScopedIncludeState /\ BranchAt(list2, bs2, p) = line + 1
                    \/ /\ p \in DOMAIN list /\ scopes2[list2[p]] = scopes[list[p]]
                       /\ BranchAt(list2, bs2, p) = BranchAt(list, bs, p)
  BY DEF Grown
<1>1. /\ scopes \in Seq(Scope) /\ list \in Seq(1..n) /\ bs \in Seq(Nat \ {0})
      /\ line \in Nat /\ n \in Nat /\ Len(list) \in Nat /\ Len(bs) \in Nat
      /\ DOMAIN list = 1..Len(list) /\ DOMAIN bs = 1..Len(bs)
  BY LenProperties DEF Typed
<1>2. /\ list2 \in Seq(1..(n + 1)) /\ Len(list2) = Len(list) + 1 /\ list2[Len(list) + 1] = n + 1
      /\ \A i \in 1..Len(list) : list2[i] = list[i]
  BY <1>1, PushProps DEF Matches
<1>3. /\ scopes2[n + 1] = ScopedIncludeState /\ \A i \in 1..n : scopes2[i] = scopes[i]
  BY <1>1, NewScopeType, AppendProperties
<1>4. /\ Len(bs2) = Len(bs) + 1 /\ bs2[Len(bs) + 1] = line + 1
      /\ \A i \in 1..Len(bs) : bs2[i] = bs[i]
  BY <1>1, AppendProperties
<1>5. DOMAIN list2 = 1..(Len(list) + 1)
  BY <1>2, LenProperties
<1> HIDE DEF list2, scopes2, bs2
<1>0. Len(list) \in Nat /\ Len(bs) \in Nat /\ line \in Nat
  BY <1>1
<1>6. Len(list2) - Len(bs2) = Len(list) - Len(bs) /\ Len(list) - Len(bs) \in {0, 1}
  <2>1. Len(list) - Len(bs) \in {0, 1}
    BY DEF Matches
  <2> QED BY <1>0, <1>2, <1>4, <2>1
<1>7. CASE p = Len(list) + 1
  <2>1. p # Len(list2) - Len(bs2) /\ p - (Len(list2) - Len(bs2)) = Len(bs) + 1
    BY <1>0, <1>6, <1>7
  <2>2. BranchAt(list2, bs2, p) = line + 1
    BY <1>4, <2>1 DEF BranchAt
  <2> QED BY <1>2, <1>3, <1>7, <2>2
<1>8. CASE p # Len(list) + 1
  <2>1. p \in 1..Len(list)
    BY <1>0, <1>5, <1>8
  <2>2. list2[p] = list[p] /\ list[p] \in 1..n
    BY <1>1, <1>2, <2>1, ElementOfSeq
  <2>3. p = Len(list) - Len(bs) \/ p - (Len(list) - Len(bs)) \in 1..Len(bs)
    BY <1>0, <1>6, <2>1
  <2>4. BranchAt(list2, bs2, p) = BranchAt(list, bs, p)
    BY <1>4, <1>6, <2>3 DEF BranchAt
  <2> QED BY <1>1, <1>3, <2>1, <2>2, <2>4
<1> QED BY <1>7, <1>8

LEMMA MatchesPush ==
    ASSUME NEW list, NEW scopes, NEW bs, NEW l, NEW line,
           Typed(list, scopes, bs, l, line), Matches(list, scopes, bs, l, line)
    PROVE  Matches(Append(list, Len(scopes) + 1), Append(scopes, ScopedIncludeState),
                   Append(bs, line + 1), l, line + 1)
<1> DEFINE n == Len(scopes)
           list2 == Append(list, n + 1)
           scopes2 == Append(scopes, ScopedIncludeState)
           bs2 == Append(bs, line + 1)
<1>1. /\ scopes \in Seq(Scope) /\ list \in Seq(1..n) /\ bs \in Seq(Nat \ {0}) /\ l \in Seq(LogEntry)
      /\ line \in Nat /\ n \in Nat /\ Len(list) \in Nat /\ Len(bs) \in Nat
      /\ DOMAIN list = 1..Len(list) /\ DOMAIN bs = 1..Len(bs)
  BY LenProperties DEF Typed
<1>2. /\ list2 \in Seq(1..(n + 1)) /\ Len(list2) = Len(list) + 1 /\ list2[Len(list) + 1] = n + 1
      /\ \A i \in 1..Len(list) : list2[i] = list[i]
      /\ Increasing(list2)
  BY <1>1, PushProps DEF Matches
<1>4. /\ bs2 \in Seq(Nat \ {0}) /\ Len(bs2) = Len(bs) + 1 /\ bs2[Len(bs) + 1] = line + 1
      /\ \A i \in 1..Len(bs) : bs2[i] = bs[i]
  BY <1>1, AppendProperties
<1>5. DOMAIN list2 = 1..(Len(list) + 1) /\ DOMAIN bs2 = 1..(Len(bs) + 1)
  BY <1>2, <1>4, LenProperties
<1> HIDE DEF list2, scopes2, bs2
<1>0. Len(list) \in Nat /\ Len(bs) \in Nat /\ line \in Nat
  BY <1>1
<1>6. Len(list2) - Len(bs2) = Len(list) - Len(bs) /\ Len(list) - Len(bs) \in {0, 1}
  <2>1. Len(list) - Len(bs) \in {0, 1}
    BY DEF Matches
  <2> QED BY <1>0, <1>2, <1>4, <2>1
<1>7. \A i \in 1..Len(bs) : bs[i] \in Nat /\ bs[i] <= line
  BY <1>1, ElementOfSeq DEF Matches
<1>8. \A j \in DOMAIN l : l[j].branch \in Nat /\ l[j].branch <= line
  BY <1>1, BranchType DEF Matches
<1>9. \A i \in DOMAIN bs2 : bs2[i] <= line + 1
  <2> SUFFICES ASSUME NEW i \in 1..(Len(bs) + 1) PROVE bs2[i] <= line + 1
    BY <1>5
  <2>1. i = Len(bs) + 1 \/ i \in 1..Len(bs)
    BY <1>0
  <2> QED BY <1>0, <1>4, <1>7, <2>1
<1>10. Increasing(bs2)
  <2> SUFFICES ASSUME NEW i \in 1..(Len(bs) + 1), NEW j \in 1..(Len(bs) + 1), i < j
               PROVE  bs2[i] < bs2[j]
    BY <1>5 DEF Increasing
  <2>0. i \in 1..Len(bs)
    <3>1. i # Len(bs) + 1
      BY <1>0
    <3> QED BY ONLY i \in 1..(Len(bs) + 1), <1>0, <3>1, LastOrBefore
  <2>1. i \in 1..Len(bs) /\ bs2[i] = bs[i] /\ bs[i] \in Nat /\ bs[i] <= line
    BY <1>4, <1>7, <2>0
  <2>2. CASE j = Len(bs) + 1
    BY <1>1, <1>4, <2>1, <2>2
  <2>3. CASE j # Len(bs) + 1
    <3>1. j \in 1..Len(bs)
      BY ONLY j \in 1..(Len(bs) + 1), <1>0, <2>3, LastOrBefore
    <3>2. Increasing(bs)
      BY DEF Matches
    <3> QED BY <1>1, <1>4, <2>1, <3>1, <3>2 DEF Increasing
  <2> QED BY <2>2, <2>3
<1>11. ASSUME NEW p \in DOMAIN list2, NEW x \in Names
       PROVE  x \in scopes2[list2[p]].included <=> Seen(l, BranchAt(list2, bs2, p), x)
  <2>1. Grown(list2, scopes2, bs2, list, scopes, bs, line + 1)
    BY PushPositions DEF list2, scopes2, bs2
  <2>2. \A j \in DOMAIN l : l[j].branch # line + 1
    BY <1>0, <1>8
  <2>3. ScopedIncludeState.included = {}
    BY NewScopeType
  <2> QED BY <2>1, <2>2, <2>3 DEF Seen, Matches, Grown
<1>12. \A j \in DOMAIN l : l[j].branch <= line + 1
  BY <1>1, <1>8
<1>13. Len(list2) = Len(bs2) => \A j \in DOMAIN l : l[j].branch # 0
  <2>1. Len(list2) = Len(bs2) => Len(list) = Len(bs)
    BY <1>0, <1>2, <1>4
  <2> QED BY <2>1 DEF Matches
<1>14. Matches(list2, scopes2, bs2, l, line + 1)
  BY <1>2, <1>5, <1>6, <1>9, <1>10, <1>11, <1>12, <1>13 DEF Matches
<1> QED BY <1>14 DEF list2, scopes2, bs2

\* The scope of the file itself, pushed for its first #include.
LEMMA MatchesFirst ==
    ASSUME NEW list, NEW scopes, NEW bs, NEW l, NEW line,
           Typed(list, scopes, bs, l, line), Matches(list, scopes, bs, l, line), list = <<>>
    PROVE  /\ Matches(Append(list, Len(scopes) + 1), Append(scopes, ScopedIncludeState), bs, l, line)
           /\ Grown(Append(list, Len(scopes) + 1), Append(scopes, ScopedIncludeState), bs,
                    list, scopes, bs, 0)
           /\ \A j \in DOMAIN l : l[j].branch # 0
<1> DEFINE n == Len(scopes)
           list2 == Append(list, n + 1)
           scopes2 == Append(scopes, ScopedIncludeState)
<1>1. /\ scopes \in Seq(Scope) /\ list \in Seq(1..n) /\ bs \in Seq(Nat \ {0})
      /\ n \in Nat /\ Len(bs) \in Nat /\ DOMAIN bs = 1..Len(bs) /\ Len(list) = 0
  BY LenProperties, EmptySeq DEF Typed
<1>2. Len(bs) = 0
  <2>1. 0 - Len(bs) \in {0, 1} /\ Len(bs) \in Nat
    BY <1>1 DEF Matches
  <2> QED BY <2>1
<1>3. /\ list2 \in Seq(1..(n + 1)) /\ Len(list2) = 1 /\ list2[1] = n + 1 /\ Increasing(list2)
  <2>1. Increasing(list)
    BY DEF Increasing
  <2>2. /\ list2 \in Seq(1..(n + 1)) /\ Len(list2) = Len(list) + 1
        /\ list2[Len(list) + 1] = n + 1 /\ Increasing(list2)
    BY <1>1, <2>1, PushProps
  <2>3. Len(list) + 1 = 1
    BY <1>1
  <2> QED BY <2>2, <2>3
<1>4. scopes2[n + 1] = ScopedIncludeState
  BY <1>1, NewScopeType, AppendProperties
<1>5. DOMAIN list2 = {1}
  BY <1>3, LenProperties
<1>6. \A j \in DOMAIN l : l[j].branch # 0
  BY <1>1, <1>2 DEF Matches
<1> HIDE DEF list2, scopes2
<1>7. BranchAt(list2, bs, 1) = 0
  BY <1>2, <1>3 DEF BranchAt
<1>8. scopes2[list2[1]].included = {}
  BY <1>3, <1>4, NewScopeType
<1>9. \A p \in DOMAIN list2 : \A x \in Names :
          x \in scopes2[list2[p]].included <=> Seen(l, BranchAt(list2, bs, p), x)
  BY <1>5, <1>6, <1>7, <1>8 DEF Seen
<1>10. Len(list2) - Len(bs) \in {0, 1} /\ Len(list2) # Len(bs)
  BY <1>2, <1>3
<1>11. Matches(list2, scopes2, bs, l, line)
  BY <1>3, <1>9, <1>10 DEF Matches
<1>12. Grown(list2, scopes2, bs, list, scopes, bs, 0)
  BY <1>3, <1>4, <1>5, <1>7 DEF Grown
<1> QED BY <1>6, <1>11, <1>12 DEF list2, scopes2

\* A further entry of the log.
LEMMA SeenAppend ==
    ASSUME NEW l \in Seq(LogEntry), NEW e \in LogEntry, NEW b, NEW x
    PROVE  Seen(Append(l, e), b, x) <=> Seen(l, b, x) \/ (b = e.branch /\ x = e.header.name)
<1>1. /\ Append(l, e) \in Seq(LogEntry) /\ Len(Append(l, e)) = Len(l) + 1
      /\ Append(l, e)[Len(l) + 1] = e /\ \A i \in 1..Len(l) : Append(l, e)[i] = l[i]
  BY AppendProperties
<1>2. /\ DOMAIN l = 1..Len(l) /\ DOMAIN Append(l, e) = 1..(Len(l) + 1) /\ Len(l) \in Nat
  BY <1>1, LenProperties
<1> DEFINE t == Append(l, e)
<1> HIDE DEF t
<1>3. \A j \in 1..(Len(l) + 1) : j = Len(l) + 1 \/ j \in 1..Len(l)
  BY <1>2
<1>4. \A j \in 1..Len(l) : j \in 1..(Len(l) + 1)
  BY <1>2
<1>5. Len(l) + 1 \in 1..(Len(l) + 1)
  BY <1>2
<1>6. /\ t[Len(l) + 1] = e /\ \A i \in 1..Len(l) : t[i] = l[i]
      /\ DOMAIN l = 1..Len(l) /\ DOMAIN t = 1..(Len(l) + 1)
  BY <1>1, <1>2 DEF t
<1>7. Seen(t, b, x) => Seen(l, b, x) \/ (b = e.branch /\ x = e.header.name)
  BY <1>3, <1>6 DEF Seen
<1>8. Seen(l, b, x) \/ (b = e.branch /\ x = e.header.name) => Seen(t, b, x)
  BY <1>4, <1>5, <1>6 DEF Seen
<1> QED BY <1>7, <1>8 DEF t

BranchOf(bs) == IF bs = <<>> THEN 0 ELSE Top(bs)

\* The innermost scope on the list is that of the current branch, and no
\* other scope is.
LEMMA InnermostBranch ==
    ASSUME NEW list, NEW scopes, NEW bs, NEW l, NEW line,
           Typed(list, scopes, bs, l, line), Matches(list, scopes, bs, l, line), list # <<>>
    PROVE  /\ Len(list) \in DOMAIN list /\ list[Len(list)] \in 1..Len(scopes)
           /\ BranchAt(list, bs, Len(list)) = BranchOf(bs)
           /\ BranchOf(bs) \in Nat /\ BranchOf(bs) <= line
           /\ Len(list) = Len(bs) => BranchOf(bs) # 0
           /\ \A p \in 1..(Len(list) - 1) :
                 list[p] # list[Len(list)] /\ BranchAt(list, bs, p) # BranchOf(bs)
<1> DEFINE k == Len(list)
           m == Len(bs)
<1>1. /\ list \in Seq(1..Len(scopes)) /\ bs \in Seq(Nat \ {0}) /\ line \in Nat
      /\ DOMAIN list = 1..k /\ DOMAIN bs = 1..m
  BY LenProperties DEF Typed
<1>2. k \in Nat \ {0} /\ m \in Nat /\ (bs = <<>> <=> m = 0)
  BY <1>1, LenProperties, EmptySeq
<1>3. k - m \in {0, 1}
  BY DEF Matches
<1>4. Increasing(list) /\ Increasing(bs) /\ \A i \in 1..m : bs[i] <= line
  BY <1>1 DEF Matches
<1>5. \A i \in 1..m : bs[i] \in Nat \ {0}
  BY <1>1, ElementOfSeq
<1>6. \A p \in 1..k : list[p] \in 1..Len(scopes)
  BY <1>1, ElementOfSeq
<1>7. BranchOf(bs) = IF m = 0 THEN 0 ELSE bs[m]
  BY <1>2 DEF BranchOf, Top
<1>8. \A p : BranchAt(list, bs, p) = IF p = k - m THEN 0 ELSE bs[p - (k - m)]
  BY DEF BranchAt
<1>9. Len(scopes) \in Nat
  BY LenProperties DEF Typed
<1> HIDE DEF k, m
<1>10. k \in 1..k /\ list[k] \in 1..Len(scopes)
  BY <1>2, <1>6
<1>11. BranchAt(list, bs, k) = BranchOf(bs)
  <2>1. CASE m = 0
    <3>1. k = k - m
      BY <1>2, <2>1
    <3> QED BY <1>7, <1>8, <2>1, <3>1
  <2>2. CASE m # 0
    <3>1. k # k - m /\ k - (k - m) = m
      BY <1>2, <2>2
    <3> QED BY <1>7, <1>8, <2>2, <3>1
  <2> QED BY <2>1, <2>2
<1>12. m # 0 => m \in 1..m /\ bs[m] \in Nat \ {0} /\ bs[m] <= line
  BY <1>2, <1>4, <1>5
<1>13. BranchOf(bs) \in Nat /\ BranchOf(bs) <= line /\ (k = m => BranchOf(bs) # 0)
  BY <1>1, <1>2, <1>7, <1>12
<1>14. ASSUME NEW p \in 1..(k - 1)
       PROVE  list[p] # list[k] /\ BranchAt(list, bs, p) # BranchOf(bs)
  <2>1. p \in 1..k /\ p < k /\ m # 0
    BY <1>2, <1>3
  <2>2. list[p] < list[k] /\ list[p] \in Nat /\ list[k] \in Nat
    <3>1. list[p] < list[k]
      BY <1>1, <1>4, <1>10, <2>1 DEF Increasing
    <3>2. list[p] \in 1..Len(scopes)
      BY <1>6, <2>1
    <3> QED BY <1>9, <1>10, <3>1, <3>2
  <2>3. list[p] # list[k]
    BY <2>2
  <2>4. CASE p = k - m
    BY <1>7, <1>8, <1>12, <2>1, <2>3, <2>4
  <2>5. CASE p # k - m
    <3>1. p - (k - m) \in 1..m /\ p - (k - m) < m
      BY <1>2, <1>3, <2>1, <2>5
    <3>2. bs[p - (k - m)] < bs[m] /\ bs[p - (k - m)] \in Nat
      BY <1>1, <1>4, <1>5, <1>12, <2>1, <3>1 DEF Increasing
    <3>3. bs[p - (k - m)] # bs[m]
      BY <1>12, <2>1, <3>2
    <3> QED BY <1>7, <1>8, <2>1, <2>3, <2>5, <3>3
  <2> QED BY <2>3, <2>4, <2>5
<1> QED BY <1>1, <1>10, <1>11, <1>13, <1>14 DEF k, m

\* An #include line, in the innermost scope.
LEMMA MatchesInclude ==
    ASSUME NEW list, NEW scopes, NEW bs, NEW l, NEW line,
           Typed(list, scopes, bs, l, line), Matches(list, scopes, bs, l, line), list # <<>>,
           NEW b \in Scope, NEW e \in LogEntry, e.branch = BranchOf(bs),
           b.included = scopes[Top(list)].included \cup {e.header.name}
    PROVE  /\ \A x \in Names : x \in scopes[Top(list)].included <=> Seen(l, e.branch, x)
           /\ Matches(list, [scopes EXCEPT ![Top(list)] = b], bs, Append(l, e), line + 1)
<1> DEFINE k == Len(list)
           scopes2 == [scopes EXCEPT ![Top(list)] = b]
           l2 == Append(l, e)
<1>1. /\ scopes \in Seq(Scope) /\ list \in Seq(1..Len(scopes)) /\ l \in Seq(LogEntry) /\ line \in Nat
      /\ DOMAIN list = 1..k /\ k \in Nat \ {0} /\ DOMAIN scopes = 1..Len(scopes)
  BY LenProperties, EmptySeq DEF Typed
<1>2. /\ k \in DOMAIN list /\ list[k] \in 1..Len(scopes)
      /\ BranchAt(list, bs, k) = e.branch /\ e.branch \in Nat /\ e.branch <= line
      /\ Len(list) = Len(bs) => e.branch # 0
      /\ \A p \in 1..(k - 1) : list[p] # list[k] /\ BranchAt(list, bs, p) # e.branch
  BY InnermostBranch
<1>3. Top(list) = list[k]
  BY DEF Top
<1>4. \A p \in 1..k : \A x \in Names :
          x \in scopes[list[p]].included <=> Seen(l, BranchAt(list, bs, p), x)
  BY <1>1 DEF Matches
<1>5. \A x \in Names : x \in scopes[Top(list)].included <=> Seen(l, e.branch, x)
  BY <1>1, <1>2, <1>3, <1>4
<1>6. /\ scopes2[list[k]] = b
      /\ \A i \in 1..Len(scopes) : i # list[k] => scopes2[i] = scopes[i]
  BY <1>1, <1>2, <1>3, ExceptSeq
<1>7. ASSUME NEW p \in 1..k, NEW x \in Names
      PROVE  x \in scopes2[list[p]].included <=> Seen(l2, BranchAt(list, bs, p), x)
  <2>0. Seen(l2, BranchAt(list, bs, p), x) <=>
            Seen(l, BranchAt(list, bs, p), x) \/ (BranchAt(list, bs, p) = e.branch /\ x = e.header.name)
    BY <1>1, SeenAppend
  <2> HIDE DEF scopes2, l2
  <2>1. CASE p = k
    <3>1. scopes2[list[p]].included = scopes[list[p]].included \cup {e.header.name}
      BY <1>3, <1>6, <2>1
    <3> QED BY <1>2, <1>4, <2>0, <2>1, <3>1
  <2>2. CASE p # k
    <3>1. p \in 1..(k - 1)
      <4>1. k \in Nat
        BY <1>1
      <4> QED BY <2>2, <4>1
    <3>2. list[p] # list[k] /\ BranchAt(list, bs, p) # e.branch
      BY <1>2, <3>1
    <3>3. list[p] \in 1..Len(scopes)
      BY <1>1, ElementOfSeq
    <3>4. scopes2[list[p]] = scopes[list[p]]
      BY <1>6, <3>2, <3>3
    <3> QED BY <1>4, <2>0, <3>2, <3>4
  <2> QED BY <2>1, <2>2
<1>8. /\ DOMAIN l2 = 1..(Len(l) + 1) /\ l2[Len(l) + 1] = e /\ \A i \in 1..Len(l) : l2[i] = l[i]
      /\ Len(l) \in Nat /\ DOMAIN l = 1..Len(l)
  <2>1. l2 \in Seq(LogEntry) /\ Len(l2) = Len(l) + 1
    BY <1>1, AppendProperties
  <2> QED BY <1>1, <2>1, AppendProperties, LenProperties
<1>9. \A j \in 1..(Len(l) + 1) : j = Len(l) + 1 \/ j \in 1..Len(l)
  BY <1>8
<1>10. Matches(list, scopes, bs, l, line + 1)
  BY MatchesLine
<1>11. e.branch <= line + 1
  BY <1>1, <1>2
<1> HIDE DEF scopes2, l2
<1>12. \A j \in DOMAIN l2 : l2[j].branch <= line + 1
  BY <1>8, <1>9, <1>10, <1>11 DEF Matches
<1>13. Len(list) = Len(bs) => \A j \in DOMAIN l2 : l2[j].branch # 0
  BY <1>2, <1>8, <1>9, <1>10 DEF Matches
<1>14. Matches(list, scopes2, bs, l2, line + 1)
  BY <1>1, <1>7, <1>10, <1>12, <1>13 DEF Matches
<1> QED BY <1>5, <1>14 DEF scopes2, l2

-----------------------------------------------------------------------------
(* The headers of all scopes *)

AllIn(scopes) == UNION {scopes[i].included : i \in DOMAIN scopes}
WrittenIn(l) == {l[i].header.name : i \in DOMAIN l}

\* A new scope adds no header.
LEMMA AllInPush ==
    ASSUME NEW scopes \in Seq(Scope)
    PROVE  AllIn(Append(scopes, ScopedIncludeState)) = AllIn(scopes)
<1> DEFINE t == Append(scopes, ScopedIncludeState)
           n == Len(scopes)
<1>1. /\ t \in Seq(Scope) /\ Len(t) = n + 1
      /\ t[n + 1] = ScopedIncludeState /\ \A i \in 1..n : t[i] = scopes[i]
  BY NewScopeType, AppendProperties
<1>2. /\ DOMAIN scopes = 1..n /\ DOMAIN t = 1..(n + 1) /\ n \in Nat
  BY <1>1, LenProperties
<1>3. t[n + 1].included = {}
  BY <1>1, NewScopeType
<1> HIDE DEF t, n
<1>4. \A j \in 1..(n + 1) : j = n + 1 \/ j \in 1..n
  BY <1>2
<1>5. \A j \in 1..n : j \in 1..(n + 1)
  BY <1>2
<1>6. \A x : x \in AllIn(t) <=> x \in AllIn(scopes)
  BY <1>1, <1>2, <1>3, <1>4, <1>5 DEF AllIn
<1> QED BY <1>6 DEF t

\* Scope k has one header more.
OneMore(t, scopes, k, x) ==
    /\ k \in DOMAIN scopes /\ DOMAIN t = DOMAIN scopes
    /\ t[k].included = scopes[k].included \cup {x}
    /\ \A i \in DOMAIN scopes : i # k => t[i] = scopes[i]

\* So have all scopes together.
LEMMA AllInInclude ==
    ASSUME NEW scopes, NEW t, NEW k, NEW x, OneMore(t, scopes, k, x)
    PROVE  AllIn(t) = AllIn(scopes) \cup {x}
<1>1. \A y : y \in AllIn(t) <=> y \in AllIn(scopes) \cup {x}
  BY DEF AllIn, OneMore
<1> QED BY <1>1

\* A further entry of the log.
LEMMA WrittenAppend ==
    ASSUME NEW l \in Seq(LogEntry), NEW e \in LogEntry
    PROVE  WrittenIn(Append(l, e)) = WrittenIn(l) \cup {e.header.name}
<1> DEFINE t == Append(l, e)
           n == Len(l)
<1>1. t \in Seq(LogEntry) /\ Len(t) = n + 1 /\ t[n + 1] = e /\ \A i \in 1..n : t[i] = l[i]
  BY AppendProperties
<1>2. DOMAIN l = 1..n /\ DOMAIN t = 1..(n + 1) /\ n \in Nat
  BY <1>1, LenProperties
<1> HIDE DEF t, n
<1>3. \A j \in 1..(n + 1) : j = n + 1 \/ j \in 1..n
  BY <1>2
<1>4. \A j \in 1..n : j \in 1..(n + 1)
  BY <1>2
<1>5. n + 1 \in 1..(n + 1)
  BY <1>2
<1>6. ASSUME NEW y \in WrittenIn(t) PROVE y \in WrittenIn(l) \cup {e.header.name}
  BY <1>1, <1>2, <1>3, <1>6 DEF WrittenIn
<1>7. ASSUME NEW y \in WrittenIn(l) \cup {e.header.name} PROVE y \in WrittenIn(t)
  BY <1>1, <1>2, <1>4, <1>5, <1>7 DEF WrittenIn
<1> QED BY <1>6, <1>7 DEF t

-----------------------------------------------------------------------------
(* The invariant *)

BranchScopes ==
    ~unbalanced =>
        /\ Matches(include_state, all_scoped_include_state, branches, log, linenum)
        /\ status # "crashed"

\* No header is forgotten: closed branches are still in all_scoped_include_state.
Collected == AllIn(all_scoped_include_state) = WrittenIn(log)

IncludeInv == TypeOK /\ BranchScopes /\ Collected /\ DuplicatesPerBranch /\ AsksForMissing

\* The types as the lemmas above use them.
LEMMA TypedState ==
    ASSUME TypeOK
    PROVE  Typed(include_state, all_scoped_include_state, branches, log, linenum)
<1>1. branches \in Seq(Nat \ {0})
  <2>1. 1..MaxLines \subseteq Nat \ {0} /\ branches \in Seq(1..MaxLines)
    BY MaxLinesAssumption DEF TypeOK
  <2> QED BY <2>1, SeqMonotonic
<1>2. linenum \in Nat
  BY MaxLinesAssumption DEF TypeOK
<1> QED BY <1>1, <1>2 DEF TypeOK, Typed

\* Initially there is no scope and nothing is written.
LEMMA InitInclude == Init => IncludeInv
<1> SUFFICES ASSUME Init PROVE IncludeInv
  OBVIOUS
<1> USE DEF Init
<1>1. TypeOK
  <2>1. /\ include_state \in Seq(1..Len(all_scoped_include_state))
        /\ all_scoped_include_state \in Seq(Scope) /\ log \in Seq(LogEntry)
        /\ branches \in Seq(1..MaxLines)
    BY EmptySeq
  <2>2. linenum \in 0..MaxLines
    BY MaxLinesAssumption
  <2> QED BY <2>1, <2>2 DEF TypeOK
<1>2. BranchScopes
  <2>1. Len(include_state) - Len(branches) = 0
    BY EmptySeq
  <2> QED BY <2>1 DEF BranchScopes, Matches, Increasing
<1>3. Collected
  BY DEF Collected, AllIn, WrittenIn
<1>4. DuplicatesPerBranch
  BY DEF DuplicatesPerBranch
<1>5. AsksForMissing
  BY DEF AsksForMissing
<1> QED BY <1>1, <1>2, <1>3, <1>4, <1>5 DEF IncludeInv

\* A line that is not an #include leaves the verdicts alone.
LEMMA QuietLine ==
    ASSUME IncludeInv, log' = log, status' # "done", ~unbalanced' => ~unbalanced,
           \/ all_scoped_include_state' = all_scoped_include_state
           \/ all_scoped_include_state' = Append(all_scoped_include_state, ScopedIncludeState)
    PROVE  Collected' /\ DuplicatesPerBranch' /\ AsksForMissing'
<1>1. all_scoped_include_state \in Seq(Scope)
  BY DEF IncludeInv, TypeOK
<1>2. AllIn(all_scoped_include_state') = AllIn(all_scoped_include_state)
  BY <1>1, AllInPush
<1>3. WrittenIn(log') = WrittenIn(log)
  OBVIOUS
<1>4. Collected'
  BY <1>2, <1>3 DEF IncludeInv, Collected, AllIn, WrittenIn
<1>5. DuplicatesPerBranch'
  BY DEF IncludeInv, DuplicatesPerBranch, EarlierInBranch
<1>6. AsksForMissing'
  BY DEF AsksForMissing
<1> QED BY <1>4, <1>5, <1>6

\* #if, #ifdef and #ifndef.
LEMMA IfStep ==
    ASSUME IncludeInv, If
    PROVE  IncludeInv'
<1> DEFINE n == Len(all_scoped_include_state)
<1>1. /\ include_state' = Append(include_state, n + 1) /\ linenum' = linenum + 1 /\ linenum < MaxLines
      /\ all_scoped_include_state' = Append(all_scoped_include_state, ScopedIncludeState)
      /\ branches' = Append(branches, linenum + 1) /\ status' = status /\ status = "reading"
      /\ used' = used /\ extension' = extension /\ header_readable' = header_readable
      /\ reported' = reported /\ log' = log /\ unbalanced' = unbalanced
  BY DEF If, AtLine, Pushed, fileVars
<1>2. TypeOK
  BY DEF IncludeInv
<1>3. /\ all_scoped_include_state' \in Seq(Scope) /\ Len(all_scoped_include_state') = n + 1
  BY <1>1, <1>2, NewScopeType, AppendProperties DEF TypeOK
<1>4. include_state' \in Seq(1..(n + 1))
  <2>1. n \in Nat /\ include_state \in Seq(1..n)
    BY <1>2, LenProperties DEF TypeOK
  <2> QED BY <1>1, <2>1, PushProps
<1>5. linenum + 1 \in 1..MaxLines
  BY <1>1, <1>2, MaxLinesAssumption DEF TypeOK
<1>6. branches' \in Seq(1..MaxLines)
  BY <1>1, <1>2, <1>5, AppendProperties DEF TypeOK
<1>7. linenum' \in 0..MaxLines
  BY <1>1, <1>5
<1>8. TypeOK'
  BY <1>1, <1>2, <1>3, <1>4, <1>6, <1>7 DEF TypeOK
<1>9. ASSUME ~unbalanced
      PROVE  Matches(Append(include_state, n + 1),
                     Append(all_scoped_include_state, ScopedIncludeState),
                     Append(branches, linenum + 1), log, linenum + 1)
  BY <1>2, <1>9, TypedState, MatchesPush DEF IncludeInv, BranchScopes
<1>10. BranchScopes'
  BY <1>1, <1>9 DEF BranchScopes
<1>11. Collected' /\ DuplicatesPerBranch' /\ AsksForMissing'
  BY <1>1, QuietLine
<1> QED BY <1>8, <1>10, <1>11 DEF IncludeInv

\* The types of the lists after an #else or #endif.
LEMMA PopTypes ==
    ASSUME TypeOK
    PROVE  /\ include_state # <<>> =>
                 Pop(include_state) \in Seq(1..Len(all_scoped_include_state))
           /\ branches # <<>> => Pop(branches) \in Seq(1..MaxLines)
<1>1. /\ include_state \in Seq(1..Len(all_scoped_include_state)) /\ branches \in Seq(1..MaxLines)
  BY DEF TypeOK
<1> QED BY <1>1, PopProps

\* #else and #elif.
LEMMA ElseStep ==
    ASSUME IncludeInv, Else
    PROVE  IncludeInv'
<1> DEFINE n == Len(all_scoped_include_state)
<1>1. /\ linenum' = linenum + 1 /\ linenum < MaxLines /\ status = "reading"
      /\ IF include_state = <<>>
         THEN /\ status' = "crashed" /\ include_state' = include_state
              /\ all_scoped_include_state' = all_scoped_include_state
         ELSE /\ include_state' = Append(Pop(include_state), n + 1)
              /\ all_scoped_include_state' = Append(all_scoped_include_state, ScopedIncludeState)
              /\ status' = status
      /\ branches' = IF branches = <<>> THEN branches ELSE Append(Pop(branches), linenum + 1)
      /\ unbalanced' = (unbalanced \/ branches = <<>>)
      /\ used' = used /\ extension' = extension /\ header_readable' = header_readable
      /\ reported' = reported /\ log' = log
  BY DEF Else, AtLine, InPlaceOfTop, Pushed, fileVars
<1>2. TypeOK /\ unbalanced \in BOOLEAN
  BY DEF IncludeInv, TypeOK
<1>3. linenum + 1 \in 1..MaxLines
  BY <1>1, <1>2, MaxLinesAssumption DEF TypeOK
<1>4. branches' \in Seq(1..MaxLines)
  <2>1. CASE branches = <<>>
    BY <1>1, <1>2, <2>1 DEF TypeOK
  <2>2. CASE branches # <<>>
    BY <1>1, <1>2, <1>3, <2>2, PopTypes, AppendProperties
  <2> QED BY <2>1, <2>2
<1>5. /\ all_scoped_include_state' \in Seq(Scope)
      /\ include_state' \in Seq(1..Len(all_scoped_include_state'))
  <2>1. CASE include_state = <<>>
    BY <1>1, <1>2, <2>1 DEF TypeOK
  <2>2. CASE include_state # <<>>
    <3>1. Pop(include_state) \in Seq(1..n) /\ n \in Nat
      BY <1>2, <2>2, PopTypes, LenProperties DEF TypeOK
    <3>2. include_state' \in Seq(1..(n + 1))
      BY <1>1, <2>2, <3>1, PushProps
    <3>3. all_scoped_include_state' \in Seq(Scope) /\ Len(all_scoped_include_state') = n + 1
      <4>1. all_scoped_include_state' = Append(all_scoped_include_state, ScopedIncludeState)
        BY <1>1, <2>2
      <4>2. all_scoped_include_state \in Seq(Scope)
        BY <1>2 DEF TypeOK
      <4> QED BY <4>1, <4>2, NewScopeType, AppendProperties
    <3> QED BY <3>2, <3>3
  <2> QED BY <2>1, <2>2
<1>6. linenum' \in 0..MaxLines /\ status' \in {"reading", "crashed"} /\ unbalanced' \in BOOLEAN
  BY <1>1, <1>3
<1>7. TypeOK'
  BY <1>1, <1>2, <1>4, <1>5, <1>6 DEF TypeOK
<1>8. BranchScopes'
  <2> SUFFICES ASSUME ~unbalanced, branches # <<>>
               PROVE  /\ Matches(include_state', all_scoped_include_state', branches', log', linenum')
                      /\ status' # "crashed"
    BY <1>1 DEF BranchScopes
  <2>1. /\ Typed(include_state, all_scoped_include_state, branches, log, linenum)
        /\ Matches(include_state, all_scoped_include_state, branches, log, linenum)
    BY <1>2, TypedState DEF IncludeInv, BranchScopes
  <2>2. /\ include_state # <<>>
        /\ Typed(Pop(include_state), all_scoped_include_state, Pop(branches), log, linenum)
        /\ Matches(Pop(include_state), all_scoped_include_state, Pop(branches), log, linenum)
    BY <2>1, PopPositions, MatchesPop
  <2>3. Matches(Append(Pop(include_state), n + 1),
                Append(all_scoped_include_state, ScopedIncludeState),
                Append(Pop(branches), linenum + 1), log, linenum + 1)
    BY <2>2, MatchesPush
  <2> QED BY <1>1, <2>2, <2>3
<1>9. Collected' /\ DuplicatesPerBranch' /\ AsksForMissing'
  <2>1. /\ \/ all_scoped_include_state' = all_scoped_include_state
           \/ all_scoped_include_state' = Append(all_scoped_include_state, ScopedIncludeState)
        /\ log' = log /\ status' # "done" /\ (~unbalanced' => ~unbalanced)
    BY <1>1, <1>6
  <2> QED BY <2>1, QuietLine
<1> QED BY <1>7, <1>8, <1>9 DEF IncludeInv

\* #endif.
LEMMA EndifStep ==
    ASSUME IncludeInv, Endif
    PROVE  IncludeInv'
<1>1. /\ linenum' = linenum + 1 /\ linenum < MaxLines /\ status = "reading"
      /\ IF include_state = <<>>
         THEN status' = "crashed" /\ include_state' = include_state
         ELSE include_state' = Pop(include_state) /\ status' = status
      /\ all_scoped_include_state' = all_scoped_include_state
      /\ branches' = IF branches = <<>> THEN branches ELSE Pop(branches)
      /\ unbalanced' = (unbalanced \/ branches = <<>>)
      /\ used' = used /\ extension' = extension /\ header_readable' = header_readable
      /\ reported' = reported /\ log' = log
  BY DEF Endif, AtLine, fileVars
<1>2. TypeOK /\ unbalanced \in BOOLEAN
  BY DEF IncludeInv, TypeOK
<1>3. branches' \in Seq(1..MaxLines)
  BY <1>1, <1>2, PopTypes DEF TypeOK
<1>4. include_state' \in Seq(1..Len(all_scoped_include_state'))
  BY <1>1, <1>2, PopTypes DEF TypeOK
<1>5. linenum' \in 0..MaxLines
  BY <1>1, <1>2, MaxLinesAssumption DEF TypeOK
<1>6. status' \in {"reading", "crashed"} /\ unbalanced' \in BOOLEAN
  BY <1>1
<1>7. TypeOK'
  BY <1>1, <1>2, <1>3, <1>4, <1>5, <1>6 DEF TypeOK
<1>8. BranchScopes'
  <2> SUFFICES ASSUME ~unbalanced, branches # <<>>
               PROVE  /\ Matches(include_state', all_scoped_include_state', branches', log', linenum')
                      /\ status' # "crashed"
    BY <1>1 DEF BranchScopes
  <2>1. /\ Typed(include_state, all_scoped_include_state, branches, log, linenum)
        /\ Matches(include_state, all_scoped_include_state, branches, log, linenum)
    BY <1>2, TypedState DEF IncludeInv, BranchScopes
  <2>2. /\ include_state # <<>>
        /\ Typed(Pop(include_state), all_scoped_include_state, Pop(branches), log, linenum)
        /\ Matches(Pop(include_state), all_scoped_include_state, Pop(branches), log, linenum)
    BY <2>1, PopPositions, MatchesPop
  <2>3. Matches(Pop(include_state), all_scoped_include_state, Pop(branches), log, linenum + 1)
    BY <2>2, MatchesLine
  <2> QED BY <1>1, <2>2, <2>3
<1>9. Collected' /\ DuplicatesPerBranch' /\ AsksForMissing'
  <2>1. /\ all_scoped_include_state' = all_scoped_include_state
        /\ log' = log /\ status' # "done" /\ (~unbalanced' => ~unbalanced)
    BY <1>1, <1>6
  <2> QED BY <2>1, QuietLine
<1> QED BY <1>7, <1>8, <1>9 DEF IncludeInv

\* A line of code or inside inline assembly.
LEMMA UnlistedStep ==
    ASSUME IncludeInv, NEW names \in SUBSET Uses, Unlisted(names)
    PROVE  IncludeInv'
<1>1. /\ linenum' = linenum + 1 /\ linenum < MaxLines /\ status = "reading"
      /\ used' = used \cup names /\ include_state' = include_state
      /\ all_scoped_include_state' = all_scoped_include_state
      /\ extension' = extension /\ header_readable' = header_readable /\ status' = status
      /\ reported' = reported /\ log' = log /\ branches' = branches /\ unbalanced' = unbalanced
  BY DEF Unlisted, AtLine, fileVars
<1>2. TypeOK
  BY DEF IncludeInv
<1>3. linenum' \in 0..MaxLines
  BY <1>1, <1>2, MaxLinesAssumption DEF TypeOK
<1>4. used' \subseteq Names
  BY <1>1, <1>2, UsesAssumption DEF TypeOK
<1>5. TypeOK'
  BY <1>1, <1>2, <1>3, <1>4 DEF TypeOK
<1>6. ASSUME ~unbalanced
      PROVE  Matches(include_state, all_scoped_include_state, branches, log, linenum + 1)
  BY <1>2, <1>6, TypedState, MatchesLine DEF IncludeInv, BranchScopes
<1>7. BranchScopes'
  BY <1>1, <1>6 DEF BranchScopes
<1>8. Collected' /\ DuplicatesPerBranch' /\ AsksForMissing'
  BY <1>1, QuietLine
<1> QED BY <1>5, <1>7, <1>8 DEF IncludeInv

\* The list and the scopes that CheckIncludeLine works on.
LEMMA ForInclude ==
    ASSUME IncludeInv
    PROVE  /\ Typed(StateForInclude, ScopesForInclude, branches, log, linenum)
           /\ StateForInclude # <<>> /\ AllIn(ScopesForInclude) = AllIn(all_scoped_include_state)
           /\ ~unbalanced => Matches(StateForInclude, ScopesForInclude, branches, log, linenum)
<1> DEFINE n == Len(all_scoped_include_state)
<1>1. Typed(include_state, all_scoped_include_state, branches, log, linenum)
  BY TypedState DEF IncludeInv
<1>2. ~unbalanced => Matches(include_state, all_scoped_include_state, branches, log, linenum)
  BY DEF IncludeInv, BranchScopes
<1>3. CASE include_state = <<>>
  <2>1. /\ StateForInclude = Append(include_state, n + 1)
        /\ ScopesForInclude = Append(all_scoped_include_state, ScopedIncludeState)
    BY <1>3 DEF StateForInclude, ScopesForInclude, Pushed
  <2>2. all_scoped_include_state \in Seq(Scope) /\ n \in Nat /\ include_state \in Seq(1..n)
    BY <1>1, LenProperties DEF Typed
  <2>3. ScopesForInclude \in Seq(Scope) /\ Len(ScopesForInclude) = n + 1
    BY <2>1, <2>2, NewScopeType, AppendProperties
  <2>4. StateForInclude \in Seq(1..(n + 1)) /\ Len(StateForInclude) = Len(include_state) + 1
    BY <2>1, <2>2, PushProps
  <2>5. StateForInclude # <<>>
    <3>1. Len(include_state) = 0 /\ Len(<<>>) = 0
      BY <1>3, EmptySeq
    <3>2. Len(StateForInclude) = 1
      BY <2>4, <3>1
    <3> HIDE DEF StateForInclude
    <3> QED BY <3>1, <3>2
  <2>6. Typed(StateForInclude, ScopesForInclude, branches, log, linenum)
    BY <1>1, <2>3, <2>4 DEF Typed
  <2>7. AllIn(ScopesForInclude) = AllIn(all_scoped_include_state)
    BY <2>1, <2>2, AllInPush
  <2>8. ~unbalanced => Matches(StateForInclude, ScopesForInclude, branches, log, linenum)
    BY <1>1, <1>2, <1>3, <2>1, MatchesFirst
  <2> QED BY <2>5, <2>6, <2>7, <2>8
<1>4. CASE include_state # <<>>
  BY <1>1, <1>2, <1>4 DEF StateForInclude, ScopesForInclude
<1> QED BY <1>3, <1>4

\* #include.
LEMMA IncludeStep ==
    ASSUME IncludeInv, NEW h \in Headers, Include(h)
    PROVE  IncludeInv'
<1> DEFINE list == StateForInclude
           scopes == ScopesForInclude
           top == Top(list)
           e == Entry(h, scopes[top])
           b == AfterInclude(scopes[top], h)
<1>1. /\ linenum' = linenum + 1 /\ linenum < MaxLines /\ status = "reading"
      /\ include_state' = list /\ all_scoped_include_state' = [scopes EXCEPT ![top] = b]
      /\ log' = Append(log, e) /\ used' = used
      /\ extension' = extension /\ header_readable' = header_readable /\ status' = status
      /\ reported' = reported /\ branches' = branches /\ unbalanced' = unbalanced
  BY DEF Include, AtLine, fileVars
<1>2. TypeOK
  BY DEF IncludeInv
<1>3. /\ Typed(list, scopes, branches, log, linenum) /\ list # <<>>
      /\ AllIn(scopes) = AllIn(all_scoped_include_state)
      /\ ~unbalanced => Matches(list, scopes, branches, log, linenum)
  BY ForInclude
<1>4. scopes \in Seq(Scope) /\ list \in Seq(1..Len(scopes)) /\ log \in Seq(LogEntry) /\ linenum \in Nat
  BY <1>3 DEF Typed
<1> HIDE DEF list, scopes
<1>5. top \in 1..Len(scopes) /\ scopes[top] \in Scope
  <2>1. Len(list) \in 1..Len(list)
    BY <1>3, <1>4, EmptySeq
  <2> QED BY <1>4, <2>1, ElementOfSeq DEF Top
<1> HIDE DEF top
<1>6. b \in Scope /\ b.included = scopes[top].included \cup {h.name}
  BY <1>4, <1>5, AfterIncludeType
<1>7. e \in LogEntry /\ e.header = h /\ e.branch = Branch /\ e.dup = (h.name \in scopes[top].included)
  BY <1>1, <1>2, <1>5, EntryType
<1> HIDE DEF e, b
<1>8. /\ all_scoped_include_state' \in Seq(Scope) /\ Len(all_scoped_include_state') = Len(scopes)
  BY <1>1, <1>4, <1>5, <1>6, ExceptSeq
<1>9. log' \in Seq(LogEntry)
  BY <1>1, <1>4, <1>7, AppendProperties
<1>10. linenum' \in 0..MaxLines
  BY <1>1, <1>2, MaxLinesAssumption DEF TypeOK
<1>11. TypeOK'
  BY <1>1, <1>2, <1>4, <1>8, <1>9, <1>10 DEF TypeOK
<1>12. ASSUME ~unbalanced
       PROVE  /\ \A x \in Names : x \in scopes[top].included <=> Seen(log, e.branch, x)
              /\ Matches(list, [scopes EXCEPT ![top] = b], branches, Append(log, e), linenum + 1)
  <2>1. e.branch = BranchOf(branches)
    BY <1>7 DEF Branch, BranchOf
  <2> QED BY <1>3, <1>6, <1>7, <1>12, <2>1, MatchesInclude DEF top
<1>13. BranchScopes'
  BY <1>1, <1>12 DEF BranchScopes
<1>14. Collected'
  <2>1. AllIn([scopes EXCEPT ![top] = b]) = AllIn(scopes) \cup {h.name}
    <3> DEFINE t == [scopes EXCEPT ![top] = b]
               x == h.name
    <3>1. scopes \in Seq(Scope) /\ top \in DOMAIN scopes
      BY <1>4, <1>5, LenProperties
    <3>2. OneMore(t, scopes, top, x)
      BY <1>6, <3>1 DEF OneMore
    <3> HIDE DEF t, x
    <3>3. AllIn(t) = AllIn(scopes) \cup {x}
      BY <3>2, AllInInclude
    <3> QED BY <3>3 DEF t, x
  <2>2. WrittenIn(Append(log, e)) = WrittenIn(log) \cup {h.name}
    BY <1>4, <1>7, WrittenAppend
  <2>3. AllIn(all_scoped_include_state) = WrittenIn(log)
    BY DEF IncludeInv, Collected
  <2>4. AllIn(all_scoped_include_state') = WrittenIn(log')
    BY <1>1, <1>3, <2>1, <2>2, <2>3
  <2> QED BY <2>4 DEF Collected, AllIn, WrittenIn
<1>15. DuplicatesPerBranch'
  <2> DEFINE n == Len(log)
             l2 == Append(log, e)
  <2>1. /\ l2[n + 1] = e /\ \A i \in 1..n : l2[i] = log[i]
        /\ DOMAIN l2 = 1..(n + 1) /\ DOMAIN log = 1..n /\ n \in Nat
    <3>1. l2 \in Seq(LogEntry) /\ Len(l2) = n + 1
      BY <1>4, <1>7, AppendProperties
    <3> QED BY <1>4, <1>7, <3>1, AppendProperties, LenProperties
  <2>2. log' = l2
    BY <1>1
  <2> HIDE DEF l2, n
  <2> SUFFICES ASSUME ~unbalanced, NEW i \in 1..(n + 1)
               PROVE  l2[i].dup <=> \E j \in 1..(i - 1) : /\ l2[j].branch = l2[i].branch
                                                          /\ l2[j].header.name = l2[i].header.name
    BY <1>1, <2>1, <2>2 DEF DuplicatesPerBranch, EarlierInBranch
  <2>3. CASE i = n + 1
    <3>1. i - 1 = n /\ l2[i] = e
      BY <2>1, <2>3
    <3>2. h.name \in Names
      BY DEF Names
    <3>3. e.dup <=> Seen(log, e.branch, h.name)
      BY <1>7, <1>12, <3>2
    <3>4. Seen(log, e.branch, h.name) <=>
              \E j \in 1..n : l2[j].branch = e.branch /\ l2[j].header.name = h.name
      BY <2>1 DEF Seen
    <3> QED BY <1>7, <3>1, <3>3, <3>4
  <2>4. CASE i # n + 1
    <3>1. i \in 1..n /\ \A j \in 1..(i - 1) : j \in 1..n
      BY <2>1, <2>4
    <3>2. log[i].dup <=> \E j \in 1..(i - 1) : /\ log[j].branch = log[i].branch
                                               /\ log[j].header.name = log[i].header.name
      BY <2>1, <3>1 DEF IncludeInv, DuplicatesPerBranch, EarlierInBranch
    <3> QED BY <2>1, <3>1, <3>2
  <2> QED BY <2>3, <2>4
<1>16. AsksForMissing'
  BY <1>1 DEF AsksForMissing
<1> QED BY <1>11, <1>13, <1>14, <1>15, <1>16 DEF IncludeInv

\* The end of the file.
LEMMA EndStep ==
    ASSUME IncludeInv, CheckForIncludeWhatYouUse
    PROVE  IncludeInv'
<1>1. /\ status = "reading" /\ status' = "done"
      /\ reported' = IF IsSourceFile /\ ~HeaderFound THEN {} ELSE used \ Included
      /\ include_state' = include_state /\ all_scoped_include_state' = all_scoped_include_state
      /\ used' = used /\ extension' = extension /\ header_readable' = header_readable
      /\ linenum' = linenum /\ log' = log /\ branches' = branches /\ unbalanced' = unbalanced
  BY DEF CheckForIncludeWhatYouUse, fileVars
<1>2. TypeOK
  BY DEF IncludeInv
<1>3. TypeOK'
  BY <1>1, <1>2 DEF TypeOK
<1>4. BranchScopes'
  BY <1>1 DEF IncludeInv, BranchScopes
<1>5. Collected'
  BY <1>1 DEF IncludeInv, Collected, AllIn, WrittenIn
<1>6. DuplicatesPerBranch'
  BY <1>1 DEF IncludeInv, DuplicatesPerBranch, EarlierInBranch
<1>7. GetAll = Written
  BY DEF IncludeInv, Collected, AllIn, WrittenIn, GetAll, Written
<1>8. HeaderFound <=> extension = "cc" /\ OwnWritten /\ header_readable
  BY <1>7 DEF HeaderFound, FilesBelongToSameModule, OwnWritten
<1>9. Included = IF HeaderFound THEN Written \cup OwnIncludes ELSE Written
  BY <1>7 DEF Included
<1>10. AsksForMissing'
  <2>1. CASE extension = "h"
    <3>1. reported' = used \ Written
      BY <1>1, <1>8, <1>9, <2>1 DEF IsSourceFile
    <3> QED BY <1>1, <2>1, <3>1 DEF AsksForMissing, Written
  <2>2. CASE HeaderFound
    <3>1. reported' = used \ (Written \cup OwnIncludes)
      BY <1>1, <1>9, <2>2
    <3>2. extension = "cc" /\ OwnWritten /\ header_readable
      BY <1>8, <2>2
    <3> QED BY <1>1, <3>1, <3>2 DEF AsksForMissing, Written, OwnWritten
  <2>3. CASE extension # "h" /\ ~HeaderFound
    <3>1. reported' = {}
      BY <1>1, <1>2, <2>3 DEF IsSourceFile, TypeOK
    <3>2. ~(extension = "cc" /\ OwnWritten /\ header_readable)
      BY <1>8, <2>3
    <3> QED BY <1>1, <2>3, <3>1, <3>2 DEF AsksForMissing, Written, OwnWritten
  <2> QED BY <2>1, <2>2, <2>3
<1> QED BY <1>3, <1>4, <1>5, <1>6, <1>10 DEF IncludeInv

\* The invariant through every line and the end of the file.
LEMMA NextInclude == IncludeInv /\ [Next]_vars => IncludeInv'
<1> SUFFICES ASSUME IncludeInv, [Next]_vars PROVE IncludeInv'
  OBVIOUS
<1>1. CASE If
  BY <1>1, IfStep
<1>2. CASE Else
  BY <1>2, ElseStep
<1>3. CASE Endif
  BY <1>3, EndifStep
<1>4. ASSUME NEW h \in Headers, Include(h) PROVE IncludeInv'
  BY <1>4, IncludeStep
<1>5. ASSUME NEW names \in SUBSET Uses, CodeLine(names) \/ AsmLine(names)
      PROVE  IncludeInv'
  BY <1>5, UnlistedStep DEF CodeLine, AsmLine
<1>6. CASE CheckForIncludeWhatYouUse
  BY <1>6, EndStep
<1>7. CASE UNCHANGED vars
  <2>1. /\ include_state' = include_state /\ all_scoped_include_state' = all_scoped_include_state
        /\ used' = used /\ extension' = extension /\ header_readable' = header_readable
        /\ linenum' = linenum /\ status' = status /\ reported' = reported
        /\ log' = log /\ branches' = branches /\ unbalanced' = unbalanced
    BY <1>7 DEF vars
  <2>2. TypeOK'
    BY <2>1 DEF IncludeInv, TypeOK
  <2>3. BranchScopes'
    BY <2>1 DEF IncludeInv, BranchScopes
  <2>4. Collected'
    BY <2>1 DEF IncludeInv, Collected, AllIn, WrittenIn
  <2>5. DuplicatesPerBranch'
    BY <2>1 DEF IncludeInv, DuplicatesPerBranch, EarlierInBranch
  <2>6. AsksForMissing'
    BY <2>1 DEF IncludeInv, AsksForMissing, OwnWritten, Written
  <2> QED BY <2>2, <2>3, <2>4, <2>5, <2>6 DEF IncludeInv
<1> QED BY <1>1, <1>2, <1>3, <1>4, <1>5, <1>6, <1>7 DEF Next

-----------------------------------------------------------------------------
(***************************************************************************)
(* The order of the includes.  The section of a scope is the highest rank  *)
(* among the headers of its branch that were not duplicates, and its last  *)
(* header and line are those of the latest of them.                        *)
(***************************************************************************)

\* What the properties say of the log, as operators of a log.
FirstOf(l, b, n) == {j \in 1..n : l[j].branch = b /\ ~l[j].dup}
TypeAt(l, i) == ClassifyInclude(l[i].header)
MyAt(l, i) == TypeAt(l, i) \in {"LIKELY_MY", "POSSIBLE_MY"}
RankAt(l, i) ==
    CASE TypeAt(l, i) = "C_SYS" -> 2
      [] TypeAt(l, i) = "CPP_SYS" -> 3
      [] MyAt(l, i) /\ (\A j \in FirstOf(l, l[i].branch, i - 1) : MyAt(l, j)) -> 1
      [] OTHER -> 4

OrderAt(l, i) ==
    TypeAt(l, i) \in {"C_SYS", "CPP_SYS"} =>
        (l[i].order <=> /\ ~l[i].dup
                        /\ \E j \in FirstOf(l, l[i].branch, i - 1) : RankAt(l, j) > RankAt(l, i))

HighestIn(l, F) == {j \in F : \A k \in F : RankAt(l, k) <= RankAt(l, j)}
HighestAt(l, i) == HighestIn(l, FirstOf(l, l[i].branch, i - 1))

AlphaAt(l, i) ==
    l[i].alpha # "none" <=>
        /\ ~l[i].dup
        /\ \E j \in FirstOf(l, l[i].branch, i - 1) :
              /\ l[j].line = l[i].line - 1
              /\ \A k \in HighestAt(l, i) : RankAt(l, k) = RankAt(l, i)
              /\ \/ /\ l[j].header.has_dir = l[i].header.has_dir
                    /\ l[j].header.canonical > l[i].header.canonical
                 \/ l[j].header.has_dir /\ ~l[i].header.has_dir

LEMMA FirstIsFirstOf == \A i : First(i) = FirstOf(log, log[i].branch, i - 1)
BY DEF First, EarlierInBranch, FirstOf

LEMMA RankIsRankAt == \A i : Rank(i) = RankAt(log, i)
BY FirstIsFirstOf DEF Rank, RankAt, IsMy, MyAt, Type, TypeAt

LEMMA VerdictsAt ==
    /\ SystemHeadersInOrder <=> (~unbalanced => \A i \in DOMAIN log : OrderAt(log, i))
    /\ AlphaWithLineBefore <=> (~unbalanced => \A i \in DOMAIN log : AlphaAt(log, i))
<1>1. \A i : Highest(i) = HighestAt(log, i)
  BY FirstIsFirstOf, RankIsRankAt DEF Highest, HighestAt, HighestIn
<1>2. \A i : Type(i) = TypeAt(log, i)
  BY DEF Type, TypeAt
<1>3. SystemHeadersInOrder <=> (~unbalanced => \A i \in DOMAIN log : OrderAt(log, i))
  BY <1>2, FirstIsFirstOf, RankIsRankAt DEF SystemHeadersInOrder, OrderAt
<1>4. AlphaWithLineBefore <=> (~unbalanced => \A i \in DOMAIN log : AlphaAt(log, i))
  BY <1>1, FirstIsFirstOf, RankIsRankAt DEF AlphaWithLineBefore, AlphaAt
<1> QED BY <1>3, <1>4

\* The verdict on a line depends on the lines up to it.
LEMMA VerdictOfPrefix ==
    ASSUME NEW n \in Nat, NEW l, NEW t, \A j \in 1..n : t[j] = l[j], NEW i \in 1..n
    PROVE  /\ \A b : \A k \in 0..n : FirstOf(t, b, k) = FirstOf(l, b, k)
           /\ RankAt(t, i) = RankAt(l, i)
           /\ OrderAt(t, i) <=> OrderAt(l, i)
           /\ AlphaAt(t, i) <=> AlphaAt(l, i)
<1>1. ASSUME NEW b, NEW k \in 0..n PROVE FirstOf(t, b, k) = FirstOf(l, b, k)
  <2>1. \A j \in 1..k : j \in 1..n
    OBVIOUS
  <2> QED BY <2>1 DEF FirstOf
<1>2. ASSUME NEW m \in 1..n
      PROVE  /\ t[m] = l[m] /\ m - 1 \in 0..n
             /\ FirstOf(t, t[m].branch, m - 1) = FirstOf(l, l[m].branch, m - 1)
             /\ \A j \in FirstOf(l, l[m].branch, m - 1) : j \in 1..n
  <2>1. t[m] = l[m] /\ m - 1 \in 0..n /\ \A j \in 1..(m - 1) : j \in 1..n
    OBVIOUS
  <2> QED BY <1>1, <2>1 DEF FirstOf
<1>3. \A m \in 1..n : TypeAt(t, m) = TypeAt(l, m) /\ (MyAt(t, m) <=> MyAt(l, m))
  BY DEF TypeAt, MyAt
<1>4. \A m \in 1..n : RankAt(t, m) = RankAt(l, m)
  BY <1>2, <1>3 DEF RankAt
<1>5. HighestAt(t, i) = HighestAt(l, i)
  BY <1>2, <1>4 DEF HighestAt, HighestIn
<1>6. OrderAt(t, i) <=> OrderAt(l, i)
  BY <1>2, <1>3, <1>4 DEF OrderAt
<1>7. \A k \in HighestAt(l, i) : k \in 1..n
  BY <1>2 DEF HighestAt, HighestIn
<1>8. AlphaAt(t, i) <=> AlphaAt(l, i)
  BY <1>2, <1>4, <1>5, <1>7 DEF AlphaAt
<1> QED BY <1>1, <1>4, <1>6, <1>8

\* What a scope remembers of its branch.
Remembers(scope, l, b) ==
    LET F == FirstOf(l, b, Len(l))
    IN  /\ \A j \in F : RankAt(l, j) <= scope.section
        /\ F = {} => scope.section = 0 /\ scope.last_header = NoHeader
        /\ F # {} => \E j \in F : RankAt(l, j) = scope.section
        /\ F # {} => \E j \in F : /\ scope.last_line = l[j].line
                                  /\ scope.last_header = LastHeader(l[j].header)
                                  /\ \A k \in F : l[k].line <= l[j].line

\* A new scope remembers nothing, as long as its branch has no #include.
LEMMA NewRemembers ==
    ASSUME NEW l, NEW b, \A j \in 1..Len(l) : l[j].branch # b
    PROVE  Remembers(ScopedIncludeState, l, b)
<1>1. FirstOf(l, b, Len(l)) = {}
  BY DEF FirstOf
<1> QED BY <1>1 DEF Remembers, ScopedIncludeState, INITIAL_SECTION

LEMMA RankType == \A l, i : RankAt(l, i) \in 1..4
BY DEF RankAt

\* An entry of another branch, or a duplicate, changes nothing.
LEMMA RemembersOther ==
    ASSUME NEW l \in Seq(LogEntry), NEW e \in LogEntry, NEW scope, NEW b,
           Remembers(scope, l, b), b # e.branch \/ e.dup
    PROVE  Remembers(scope, Append(l, e), b)
<1> DEFINE t == Append(l, e)
           n == Len(l)
<1>1. Len(t) = n + 1 /\ t[n + 1] = e /\ (\A i \in 1..n : t[i] = l[i]) /\ n \in Nat
  BY AppendProperties, LenProperties
<1> HIDE DEF t, n
<1>2. FirstOf(t, b, n + 1) = FirstOf(l, b, n)
  <2>1. \A j : j \in 1..(n + 1) <=> j = n + 1 \/ j \in 1..n
    BY <1>1
  <2>2. \A j \in 1..n : t[j] = l[j]
    BY <1>1
  <2> QED BY <1>1, <2>1, <2>2 DEF FirstOf
<1>3. \A j \in FirstOf(l, b, n) : t[j] = l[j] /\ RankAt(t, j) = RankAt(l, j)
  <2>1. \A j \in 1..n : RankAt(t, j) = RankAt(l, j)
    BY <1>1, VerdictOfPrefix
  <2> QED BY <1>1, <2>1 DEF FirstOf
<1>4. Remembers(scope, t, b)
  BY <1>1, <1>2, <1>3 DEF Remembers, n
<1> QED BY <1>4 DEF t

\* The section that CheckNextIncludeOrder keeps is the highest rank, and it
\* complains exactly about a lower one.
LEMMA SectionIsHighest ==
    ASSUME NEW l, NEW n \in Nat, NEW b, NEW s \in Sections, NEW t, NEW h,
           \A j \in 1..n : t[j] = l[j], t[n + 1].header = h, t[n + 1].branch = b,
           NEW F, F = FirstOf(l, b, n), \A j \in F : RankAt(l, j) <= s, F = {} => s = 0,
           F # {} => \E j \in F : RankAt(l, j) = s,
           NEW r, r = RankAt(t, n + 1), NEW type, type = ClassifyInclude(h)
    PROVE  /\ NextSection(s, type) = IF s >= r THEN s ELSE r
           /\ OutOfOrder(s, type) <=> type \in {"C_SYS", "CPP_SYS"} /\ s > r
           /\ ~OutOfOrder(s, type) /\ NextSection(s, type) = s <=> s = r
<1>1. (n + 1) - 1 = n /\ FirstOf(t, b, n) = F
  BY DEF FirstOf
<1>2. \A j \in F : j \in 1..n /\ (MyAt(t, j) <=> MyAt(l, j))
  BY DEF FirstOf, MyAt, TypeAt
<1>3. r = CASE type = "C_SYS" -> 2
            [] type = "CPP_SYS" -> 3
            [] type \in {"LIKELY_MY", "POSSIBLE_MY"} /\ (\A j \in F : MyAt(l, j)) -> 1
            [] OTHER -> 4
  BY <1>1, <1>2 DEF RankAt, TypeAt, MyAt
<1>4. (\A j \in F : MyAt(l, j)) <=> s <= 1
  <2>1. ASSUME s <= 1, NEW j \in F PROVE MyAt(l, j)
    <3>1. RankAt(l, j) <= 1
      BY <2>1, RankType DEF Sections
    <3> QED BY <3>1 DEF RankAt
  <2>2. ASSUME \A j \in F : MyAt(l, j), F # {} PROVE s <= 1
    <3>1. PICK j \in F : RankAt(l, j) = s
      BY <2>2
    <3>2. l[j].branch = b /\ \A k \in 1..(j - 1) : k \in 1..n
      BY DEF FirstOf
    <3>3. \A k \in FirstOf(l, l[j].branch, j - 1) : k \in F
      BY <3>2 DEF FirstOf
    <3>4. TypeAt(l, j) \notin {"C_SYS", "CPP_SYS"}
      BY <2>2 DEF MyAt
    <3>5. RankAt(l, j) = 1
      BY <2>2, <3>3, <3>4 DEF RankAt
    <3> QED BY <3>1, <3>5
  <2> QED BY <2>1, <2>2
<1>5. type \in Types
  BY DEF ClassifyInclude, Types
<1>6. s \in 0..4
  BY DEF Sections
<1>7. r = CASE type = "C_SYS" -> 2
            [] type = "CPP_SYS" -> 3
            [] type \in {"LIKELY_MY", "POSSIBLE_MY"} /\ s <= 1 -> 1
            [] OTHER -> 4
  BY <1>3, <1>4
<1>8. /\ NextSection(s, type) = IF s >= r THEN s ELSE r
      /\ OutOfOrder(s, type) <=> type \in {"C_SYS", "CPP_SYS"} /\ s > r
      /\ ~OutOfOrder(s, type) /\ NextSection(s, type) = s <=> s = r
  <2> USE <1>6 DEF NextSection, OutOfOrder, MY_H_SECTION, C_SECTION, CPP_SECTION, OTHER_H_SECTION
  <2>1. CASE type = "C_SYS"
    <3>1. r = 2 /\ (OutOfOrder(s, type) <=> s > 2)
      BY <1>7, <2>1
    <3>2. NextSection(s, type) = IF s > 2 THEN s ELSE 2
      BY <2>1
    <3> QED BY <2>1, <3>1, <3>2
  <2>2. CASE type = "CPP_SYS"
    <3>1. r = 3 /\ (OutOfOrder(s, type) <=> s > 3)
      BY <1>7, <2>2
    <3>2. NextSection(s, type) = IF s > 3 THEN s ELSE 3
      BY <2>2
    <3> QED BY <2>2, <3>1, <3>2
  <2>3. CASE type \in {"LIKELY_MY", "POSSIBLE_MY"}
    <3>1. r = (IF s <= 1 THEN 1 ELSE 4) /\ ~OutOfOrder(s, type)
      BY <1>7, <2>3
    <3>2. NextSection(s, type) = IF s <= 1 THEN 1 ELSE 4
      BY <2>3
    <3> QED BY <2>3, <3>1, <3>2
  <2>4. CASE type = "OTHER"
    <3>1. r = 4 /\ ~OutOfOrder(s, type)
      BY <1>7, <2>4
    <3>2. NextSection(s, type) = 4
      BY <2>4
    <3> QED BY <2>4, <3>1, <3>2
  <2> QED BY <1>5, <2>1, <2>2, <2>3, <2>4 DEF Types
<1> QED BY <1>8

\* The scope and the entry that an #include line leaves.
LEMMA AfterIncludeFields ==
    ASSUME NEW scope \in Scope, NEW h \in Headers, h.name \notin scope.included
    PROVE  /\ AfterInclude(scope, h).section = NextSection(scope.section, ClassifyInclude(h))
           /\ AfterInclude(scope, h).last_header = LastHeader(h)
           /\ AfterInclude(scope, h).last_line = linenum + 1
<1> DEFINE next == NextSection(scope.section, ClassifyInclude(h))
           o == Ordered(scope, ClassifyInclude(h))
           last == LastHeader(h)
           p == Placed(o, h, linenum + 1)
<1>1. \E x : o = [scope EXCEPT !.section = next, !.last_header = x]
  BY DEF Ordered
<1>2. p = [o EXCEPT !.last_header = last, !.last_line = linenum + 1]
  BY DEF Placed
<1>3. AfterInclude(scope, h) = [p EXCEPT !.included = @ \cup {h.name}]
  BY DEF AfterInclude
<1> HIDE DEF next, o, last, p
<1>4. DOMAIN o = DOMAIN scope /\ o.section = next
  BY <1>1 DEF Scope
<1>5. DOMAIN p = DOMAIN scope /\ p.section = next /\ p.last_header = last /\ p.last_line = linenum + 1
  BY <1>2, <1>4 DEF Scope
<1> QED BY <1>3, <1>5 DEF Scope, next, last

LEMMA EntryVerdicts ==
    ASSUME NEW scope \in Scope, NEW h \in Headers, linenum \in Nat
    PROVE  LET e == Entry(h, scope)
               s == scope.section
               type == ClassifyInclude(h)
               last == scope.last_header
           IN  /\ e.line = linenum + 1
               /\ e.order <=> ~e.dup /\ OutOfOrder(s, type)
               /\ e.alpha # "none" <=>
                     /\ ~e.dup /\ scope.last_line = linenum
                     /\ ~OutOfOrder(s, type) /\ NextSection(s, type) = s
                     /\ \/ h.has_dir = last.has_dir /\ h.canonical < last.canonical
                        \/ ~h.has_dir /\ last.has_dir
<1> DEFINE type == ClassifyInclude(h)
           o == Ordered(scope, type)
           same == ~OutOfOrder(scope.section, type) /\ NextSection(scope.section, type) = scope.section
           last == scope.last_header
           e == Entry(h, scope)
           alpha == AlphaError(o, h, linenum + 1)
<1>1. /\ scope.last_line \in Nat /\ h.canonical \in Nat /\ h.has_dir \in BOOLEAN
      /\ last.canonical \in Nat /\ last.has_dir \in BOOLEAN
  BY HeadersAssumption DEF Scope, HeaderRecord
<1>2. o.last_line = scope.last_line /\ o.last_header = IF same THEN last ELSE NoHeader
  <2> DEFINE next == NextSection(scope.section, type)
             x == IF same THEN last ELSE NoHeader
  <2>1. o = [scope EXCEPT !.section = next, !.last_header = x]
    BY DEF Ordered
  <2> HIDE DEF next, x, o
  <2>2. o.last_line = scope.last_line /\ o.last_header = x
    BY <2>1 DEF Scope
  <2> QED BY <2>2 DEF x
<1>3. alpha # "none" <=> /\ o.last_line = linenum
                         /\ \/ h.has_dir = o.last_header.has_dir /\ h.canonical < o.last_header.canonical
                            \/ ~h.has_dir /\ o.last_header.has_dir
  <2>1. linenum + 1 = o.last_line + 1 <=> o.last_line = linenum
    BY <1>1, <1>2
  <2> HIDE DEF o
  <2> QED BY <2>1 DEF AlphaError
<1>4. e = [line |-> linenum + 1, header |-> h, branch |-> Branch, dup |-> h.name \in scope.included,
           order |-> h.name \notin scope.included /\ OutOfOrder(scope.section, type),
           alpha |-> IF h.name \in scope.included THEN "none" ELSE alpha]
  BY DEF Entry
<1>5. ~same => o.last_header.has_dir = FALSE /\ ~(h.canonical < o.last_header.canonical)
  BY <1>1, <1>2 DEF NoHeader
<1>6. alpha # "none" <=> /\ scope.last_line = linenum /\ same
                         /\ \/ h.has_dir = last.has_dir /\ h.canonical < last.canonical
                            \/ ~h.has_dir /\ last.has_dir
  <2>1. CASE same
    <3>1. o.last_header = last /\ o.last_line = scope.last_line
      BY <1>2, <2>1
    <3> HIDE DEF o, same, last
    <3> QED BY <1>3, <2>1, <3>1
  <2>2. CASE ~same
    <3> HIDE DEF o, same, last
    <3> QED BY <1>1, <1>3, <1>5, <2>2
  <2> QED BY <2>1, <2>2
<1> HIDE DEF alpha, e, o, same
<1>7. /\ e.line = linenum + 1 /\ e.dup = (h.name \in scope.included)
      /\ e.order = (h.name \notin scope.included /\ OutOfOrder(scope.section, type))
      /\ e.alpha = IF h.name \in scope.included THEN "none" ELSE alpha
  BY <1>4
<1>8. e.alpha # "none" <=> ~e.dup /\ alpha # "none"
  BY <1>7
<1> QED BY <1>6, <1>7, <1>8 DEF e, same

\* The lines of the log: they increase, and none is ahead of the file.
Numbered(l, line) ==
    /\ \A i \in 1..Len(l) : l[i].line <= line
    /\ \A i, j \in 1..Len(l) : i < j => l[i].line < l[j].line

\* An #include in branch b, judged by the scope that remembers the branch: the
\* verdicts are right, and afterwards the scope remembers this #include too.
LEMMA JudgedRight ==
    ASSUME NEW l \in Seq(LogEntry), linenum \in Nat, Numbered(l, linenum), linenum < MaxLines, TypeOK,
           NEW scope \in Scope, NEW h \in Headers, Remembers(scope, l, Branch)
    PROVE  LET t == Append(l, Entry(h, scope))
           IN  /\ OrderAt(t, Len(l) + 1) /\ AlphaAt(t, Len(l) + 1)
               /\ Remembers(AfterInclude(scope, h), t, Branch)
<1> DEFINE e == Entry(h, scope)
           t == Append(l, e)
           n == Len(l)
           s == scope.section
           last == scope.last_header
           type == ClassifyInclude(h)
           F == FirstOf(l, Branch, n)
           r == RankAt(t, n + 1)
<1>1. /\ e \in LogEntry /\ e.header = h /\ e.branch = Branch /\ e.dup = (h.name \in scope.included)
  BY EntryType
<1>2. /\ e.line = linenum + 1
      /\ e.order <=> ~e.dup /\ OutOfOrder(s, type)
      /\ e.alpha # "none" <=>
            /\ ~e.dup /\ scope.last_line = linenum
            /\ ~OutOfOrder(s, type) /\ NextSection(s, type) = s
            /\ \/ h.has_dir = last.has_dir /\ h.canonical < last.canonical
               \/ ~h.has_dir /\ last.has_dir
  BY EntryVerdicts
<1> HIDE DEF e
<1>3. Len(t) = n + 1 /\ t[n + 1] = e /\ (\A i \in 1..n : t[i] = l[i]) /\ n \in Nat
  BY <1>1, AppendProperties, LenProperties
<1> HIDE DEF t, n
<1>4. /\ \A j \in F : RankAt(l, j) <= s
      /\ F = {} => s = 0 /\ last = NoHeader
      /\ F # {} => \E j \in F : RankAt(l, j) = s
      /\ F # {} => \E j \in F : /\ scope.last_line = l[j].line
                                /\ last = LastHeader(l[j].header)
                                /\ \A k \in F : l[k].line <= l[j].line
  BY DEF Remembers, n
<1>5. s \in Sections /\ scope.last_line \in Nat /\ h.canonical \in Nat /\ h.has_dir \in BOOLEAN
  BY HeadersAssumption DEF Scope, HeaderRecord
<1>6. /\ NextSection(s, type) = IF s >= r THEN s ELSE r
      /\ OutOfOrder(s, type) <=> type \in {"C_SYS", "CPP_SYS"} /\ s > r
      /\ ~OutOfOrder(s, type) /\ NextSection(s, type) = s <=> s = r
  <2>1. \A j \in 1..n : t[j] = l[j]
    BY <1>3
  <2>2. t[n + 1].header = h /\ t[n + 1].branch = Branch
    BY <1>1, <1>3
  <2>3. r = RankAt(t, n + 1) /\ F = FirstOf(l, Branch, n) /\ type = ClassifyInclude(h) /\ n \in Nat
    BY <1>3
  <2> HIDE DEF r, F, type, s
  <2> QED BY <1>4, <1>5, <2>1, <2>2, <2>3, SectionIsHighest
<1>7. FirstOf(t, Branch, n) = F /\ (n + 1) - 1 = n /\ FirstOf(t, t[n + 1].branch, (n + 1) - 1) = F
  <2>1. FirstOf(t, Branch, n) = F /\ (n + 1) - 1 = n
    BY <1>3 DEF FirstOf
  <2> QED BY <1>1, <1>3, <2>1
<1>8. \A j \in F : /\ j \in 1..n /\ t[j] = l[j] /\ RankAt(t, j) = RankAt(l, j)
                   /\ l[j] \in LogEntry /\ l[j].line \in Nat /\ l[j].line <= linenum
                   /\ RankAt(l, j) \in 1..4
  <2>1. \A j \in 1..n : RankAt(t, j) = RankAt(l, j)
    BY <1>3, VerdictOfPrefix
  <2>2. \A j \in 1..n : l[j] \in LogEntry
    BY ElementOfSeq DEF n
  <2>3. \A j \in 1..n : l[j].line \in Nat
    BY <2>2, MaxLinesAssumption DEF LogEntry
  <2> QED BY <1>3, <2>1, <2>2, <2>3, RankType DEF FirstOf, Numbered, n
<1>9. r \in 1..4 /\ TypeAt(t, n + 1) = type /\ s \in 0..4
  BY <1>1, <1>3, <1>5, RankType DEF TypeAt, Sections
<1> HIDE DEF F, r, s, last, type
<1>10. OrderAt(t, n + 1)
  <2>1. s > r <=> \E j \in F : RankAt(l, j) > r
    <3>1. ASSUME s > r PROVE \E j \in F : RankAt(l, j) > r
      <4>1. F # {}
        BY <1>4, <1>9, <3>1
      <4> QED BY <1>4, <3>1, <4>1
    <3>2. ASSUME NEW j \in F, RankAt(l, j) > r PROVE s > r
      BY <1>4, <1>8, <1>9, <3>2
    <3> QED BY <3>1, <3>2
  <2>2. e.order <=> ~e.dup /\ type \in {"C_SYS", "CPP_SYS"} /\ \E j \in F : RankAt(t, j) > r
    BY <1>2, <1>6, <1>8, <2>1
  <2> QED BY <1>3, <1>7, <1>9, <2>2 DEF OrderAt, r
<1>11. AlphaAt(t, n + 1)
  <2>1. HighestAt(t, n + 1) = {j \in F : \A k \in F : RankAt(t, k) <= RankAt(t, j)}
    <3>1. HighestAt(t, n + 1) = HighestIn(t, F)
      BY <1>7 DEF HighestAt
    <3> QED BY <3>1 DEF HighestIn
  <2>2. ASSUME NEW j \in F
        PROVE  (\A k \in HighestAt(t, n + 1) : RankAt(t, k) = r) <=> s = r
    <3>1. PICK m \in F : RankAt(l, m) = s
      BY <1>4
    <3>2. \A k \in F : k \in HighestAt(t, n + 1) <=> RankAt(t, k) = s
      BY <1>4, <1>8, <1>9, <2>1, <3>1
    <3>3. \A k \in HighestAt(t, n + 1) : k \in F
      BY <2>1
    <3> QED BY <1>8, <3>1, <3>2, <3>3
  <2>3. ASSUME NEW j \in F
        PROVE  l[j].line = linenum <=>
                 scope.last_line = linenum /\ last = LastHeader(l[j].header) /\ l[j].line = linenum
    <3>1. PICK m \in F : /\ scope.last_line = l[m].line /\ last = LastHeader(l[m].header)
                         /\ \A k \in F : l[k].line <= l[m].line
      BY <1>4
    <3>2. ASSUME l[j].line = linenum PROVE j = m
      <4>1. l[m].line = linenum
        BY <1>8, <3>1, <3>2
      <4>2. j \in 1..n /\ m \in 1..n
        BY <1>8
      <4>3. ~(j < m) /\ ~(m < j)
        BY <1>8, <3>2, <4>1, <4>2 DEF Numbered, n
      <4> QED BY <4>2, <4>3
    <3> QED BY <3>1, <3>2
  <2>4. scope.last_line = linenum /\ F # {} => \E j \in F : l[j].line = linenum
    BY <1>4
  <2>5. F = {} => ~(\/ h.has_dir = last.has_dir /\ h.canonical < last.canonical
                    \/ ~h.has_dir /\ last.has_dir)
    BY <1>4, <1>5 DEF NoHeader
  <2>6. e.line - 1 = linenum
    BY <1>2
  <2>7. \A j \in F : /\ l[j].header.has_dir \in BOOLEAN /\ l[j].header.canonical \in Nat
                     /\ LastHeader(l[j].header).has_dir = l[j].header.has_dir
                     /\ LastHeader(l[j].header).canonical = l[j].header.canonical
    <3>1. \A j \in F : l[j].header \in Headers
      BY <1>8 DEF LogEntry
    <3> QED BY <3>1, HeadersAssumption DEF HeaderRecord, LastHeader
  <2> DEFINE Before(j) == \/ /\ l[j].header.has_dir = h.has_dir
                             /\ l[j].header.canonical > h.canonical
                          \/ l[j].header.has_dir /\ ~h.has_dir
  <2>8. \A j \in F : last = LastHeader(l[j].header) =>
           (Before(j) <=> \/ h.has_dir = last.has_dir /\ h.canonical < last.canonical
                          \/ ~h.has_dir /\ last.has_dir)
    BY <1>5, <2>7
  <2>9. e.alpha # "none" <=>
          ~e.dup /\ s = r /\ \E j \in F : l[j].line = linenum /\ Before(j)
    <3>1. ASSUME e.alpha # "none"
          PROVE  ~e.dup /\ s = r /\ \E j \in F : l[j].line = linenum /\ Before(j)
      <4>1. /\ ~e.dup /\ scope.last_line = linenum /\ s = r
            /\ \/ h.has_dir = last.has_dir /\ h.canonical < last.canonical
               \/ ~h.has_dir /\ last.has_dir
        BY <1>2, <1>6, <3>1
      <4>2. PICK j \in F : l[j].line = linenum
        BY <2>4, <2>5, <4>1
      <4>3. last = LastHeader(l[j].header)
        BY <2>3, <4>2
      <4>4. Before(j)
        BY <2>8, <4>1, <4>3
      <4> QED BY <4>1, <4>2, <4>4
    <3>2. ASSUME ~e.dup, s = r, NEW j \in F, l[j].line = linenum, Before(j)
          PROVE  e.alpha # "none"
      <4>1. scope.last_line = linenum /\ last = LastHeader(l[j].header)
        BY <2>3, <3>2
      <4>2. \/ h.has_dir = last.has_dir /\ h.canonical < last.canonical
            \/ ~h.has_dir /\ last.has_dir
        BY <2>8, <3>2, <4>1
      <4> QED BY <1>2, <1>6, <3>2, <4>1, <4>2
    <3> QED BY <3>1, <3>2
  <2>10. e.alpha # "none" <=>
           ~e.dup /\ \E j \in F : /\ l[j].line = e.line - 1
                                  /\ \A k \in HighestAt(t, n + 1) : RankAt(t, k) = r
                                  /\ Before(j)
    BY <2>2, <2>6, <2>9
  <2> QED BY <1>1, <1>3, <1>7, <1>8, <2>10 DEF AlphaAt, r
<1>12. Remembers(AfterInclude(scope, h), t, Branch)
  <2>1. CASE e.dup
    <3>1. AfterInclude(scope, h) = scope
      BY <1>1, <2>1 DEF AfterInclude
    <3> QED BY <1>1, <2>1, <3>1, RemembersOther DEF t
  <2>2. CASE ~e.dup
    <3> DEFINE a == AfterInclude(scope, h)
               G == FirstOf(t, Branch, n + 1)
    <3>1. a.section = NextSection(s, type) /\ a.last_header = LastHeader(h) /\ a.last_line = linenum + 1
      BY <1>1, <2>2, AfterIncludeFields DEF s, type
    <3>2. \A j : j \in G <=> j \in F \/ j = n + 1
      <4>1. \A j : j \in 1..(n + 1) <=> j = n + 1 \/ j \in 1..n
        BY <1>3
      <4> QED BY <1>1, <1>3, <2>2, <4>1 DEF FirstOf, F
    <3> HIDE DEF a, G
    <3>3. \A j \in G : RankAt(t, j) <= a.section
      <4>1. a.section = IF s >= r THEN s ELSE r
        BY <1>6, <3>1
      <4>2. s <= a.section /\ r <= a.section /\ a.section \in Nat
        BY <1>9, <4>1
      <4>3. ASSUME NEW j \in F PROVE RankAt(t, j) <= a.section
        <5>1. RankAt(t, j) = RankAt(l, j) /\ RankAt(l, j) \in 1..4 /\ RankAt(l, j) <= s
          BY <1>4, <1>8
        <5> QED BY <1>9, <4>2, <5>1
      <4>4. RankAt(t, n + 1) <= a.section
        BY <4>2 DEF r
      <4> QED BY <3>2, <4>3, <4>4
    <3>4. \E j \in G : RankAt(t, j) = a.section
      <4>1. CASE s >= r
        <5>1. F # {}
          BY <1>4, <1>9, <4>1
        <5>2. PICK j \in F : RankAt(l, j) = s
          BY <1>4, <5>1
        <5> QED BY <1>6, <1>8, <3>1, <3>2, <4>1, <5>2
      <4>2. CASE ~(s >= r)
        BY <1>6, <3>1, <3>2, <4>2 DEF r
      <4> QED BY <4>1, <4>2
    <3>5. n + 1 \in G /\ t[n + 1].line = linenum + 1 /\ t[n + 1].header = h
      BY <1>1, <1>2, <1>3, <3>2
    <3>6. \A k \in G : t[k].line <= linenum + 1
      BY <1>8, <3>2, <3>5
    <3> QED BY <1>3, <3>1, <3>3, <3>4, <3>5, <3>6 DEF Remembers, a, G
  <2> QED BY <1>1, <2>1, <2>2
<1> QED BY <1>10, <1>11, <1>12 DEF t, n, e

\* Every scope on the list remembers its own branch.
Tracks(list, scopes, bs, l) ==
    \A p \in DOMAIN list : Remembers(scopes[list[p]], l, BranchAt(list, bs, p))

LEMMA TracksPop ==
    ASSUME NEW list, NEW scopes, NEW bs, NEW l, NEW line,
           Typed(list, scopes, bs, l, line), Matches(list, scopes, bs, l, line), bs # <<>>,
           Tracks(list, scopes, bs, l)
    PROVE  Tracks(Pop(list), scopes, Pop(bs), l)
<1>1. \A p \in DOMAIN Pop(list) :
         /\ p \in DOMAIN list /\ Pop(list)[p] = list[p]
         /\ BranchAt(Pop(list), Pop(bs), p) = BranchAt(list, bs, p)
  BY PopPositions
<1> QED BY <1>1 DEF Tracks

LEMMA TracksGrown ==
    ASSUME NEW list2, NEW scopes2, NEW bs2, NEW list, NEW scopes, NEW bs, NEW new,
           NEW l \in Seq(LogEntry), Grown(list2, scopes2, bs2, list, scopes, bs, new),
           Tracks(list, scopes, bs, l), \A j \in DOMAIN l : l[j].branch # new
    PROVE  Tracks(list2, scopes2, bs2, l)
<1>1. \A j \in 1..Len(l) : l[j].branch # new
  BY LenProperties
<1>2. Remembers(ScopedIncludeState, l, new)
  BY <1>1, NewRemembers
<1> QED BY <1>2 DEF Tracks, Grown

LEMMA TracksInclude ==
    ASSUME NEW list, NEW scopes, NEW bs, NEW l, NEW line,
           Typed(list, scopes, bs, l, line), Matches(list, scopes, bs, l, line), list # <<>>,
           Tracks(list, scopes, bs, l), NEW b \in Scope, NEW e \in LogEntry, e.branch = BranchOf(bs),
           Remembers(b, Append(l, e), e.branch)
    PROVE  Tracks(list, [scopes EXCEPT ![Top(list)] = b], bs, Append(l, e))
<1> DEFINE k == Len(list)
           scopes2 == [scopes EXCEPT ![Top(list)] = b]
<1>1. /\ scopes \in Seq(Scope) /\ list \in Seq(1..Len(scopes)) /\ l \in Seq(LogEntry)
      /\ DOMAIN list = 1..k /\ k \in Nat
  BY LenProperties DEF Typed
<1>2. /\ list[k] \in 1..Len(scopes) /\ BranchAt(list, bs, k) = e.branch
      /\ \A p \in 1..(k - 1) : list[p] # list[k] /\ BranchAt(list, bs, p) # e.branch
  BY InnermostBranch
<1>3. Top(list) = list[k]
  BY DEF Top
<1>4. /\ scopes2[list[k]] = b
      /\ \A i \in 1..Len(scopes) : i # list[k] => scopes2[i] = scopes[i]
  BY <1>1, <1>2, <1>3, ExceptSeq
<1> HIDE DEF scopes2
<1>5. ASSUME NEW p \in 1..k
      PROVE  Remembers(scopes2[list[p]], Append(l, e), BranchAt(list, bs, p))
  <2>1. CASE p = k
    BY <1>2, <1>4, <2>1
  <2>2. CASE p # k
    <3>1. p \in 1..(k - 1)
      <4>1. k \in Nat
        BY <1>1
      <4> QED BY <2>2, <4>1
    <3>2. list[p] \in 1..Len(scopes)
      BY <1>1, ElementOfSeq
    <3>3. scopes2[list[p]] = scopes[list[p]] /\ BranchAt(list, bs, p) # e.branch
      BY <1>2, <1>4, <3>1, <3>2
    <3>4. Remembers(scopes[list[p]], l, BranchAt(list, bs, p))
      BY <1>1 DEF Tracks
    <3> QED BY <1>1, <3>3, <3>4, RemembersOther
  <2> QED BY <2>1, <2>2
<1> QED BY <1>1, <1>5 DEF Tracks, scopes2

JudgedInv ==
    /\ Numbered(log, linenum)
    /\ ~unbalanced => Tracks(include_state, all_scoped_include_state, branches, log)
    /\ SystemHeadersInOrder /\ AlphaWithLineBefore

\* Initially nothing is judged.
LEMMA InitJudged == Init => JudgedInv
<1> SUFFICES ASSUME Init PROVE JudgedInv
  OBVIOUS
<1>1. Len(log) = 0 /\ DOMAIN log = {} /\ DOMAIN include_state = {}
  BY EmptySeq DEF Init
<1> QED BY <1>1 DEF JudgedInv, Numbered, Tracks, SystemHeadersInOrder, AlphaWithLineBefore

\* A line that is not an #include leaves the verdicts alone.
LEMMA QuietJudged ==
    ASSUME IncludeInv, JudgedInv, log' = log, linenum' = linenum \/ linenum' = linenum + 1,
           ~unbalanced' => /\ ~unbalanced
                           /\ Tracks(include_state', all_scoped_include_state', branches', log')
    PROVE  JudgedInv'
<1>1. log \in Seq(LogEntry) /\ linenum \in Nat
  BY TypedState DEF IncludeInv, Typed
<1>2. \A i \in 1..Len(log) : log[i].line \in Nat
  <2>1. \A i \in 1..Len(log) : log[i] \in LogEntry
    BY <1>1, ElementOfSeq
  <2> QED BY <2>1, MaxLinesAssumption DEF LogEntry
<1>3. Numbered(log', linenum')
  BY <1>1, <1>2 DEF JudgedInv, Numbered
<1>4. SystemHeadersInOrder' /\ AlphaWithLineBefore'
  <2>1. /\ (SystemHeadersInOrder <=> (~unbalanced => \A i \in DOMAIN log : OrderAt(log, i)))'
        /\ (AlphaWithLineBefore <=> (~unbalanced => \A i \in DOMAIN log : AlphaAt(log, i)))'
    BY VerdictsAt, PTL
  <2>2. ~unbalanced => \A i \in DOMAIN log : OrderAt(log, i) /\ AlphaAt(log, i)
    BY VerdictsAt DEF JudgedInv
  <2> QED BY <2>1, <2>2
<1> QED BY <1>3, <1>4 DEF JudgedInv, Tracks, Numbered

\* #if, #else and #endif: the scopes that stay on the list are untouched.
LEMMA ConditionJudged ==
    ASSUME IncludeInv, JudgedInv, If \/ Else \/ Endif
    PROVE  JudgedInv'
<1> DEFINE list == include_state
           scopes == all_scoped_include_state
           n == Len(scopes)
           Deeper(s, bs) == /\ list' = Append(s, n + 1) /\ branches' = Append(bs, linenum + 1)
                            /\ scopes' = Append(scopes, ScopedIncludeState)
<1>1. /\ log' = log /\ linenum' = linenum + 1
      /\ unbalanced' = unbalanced \/ unbalanced' = (unbalanced \/ branches = <<>>)
  BY DEF If, Else, Endif, AtLine
<1>2. ASSUME ~unbalanced'
      PROVE  ~unbalanced /\ Tracks(list', scopes', branches', log')
  <2>0. ~unbalanced
    BY <1>1, <1>2 DEF IncludeInv, TypeOK
  <2>1. /\ Typed(list, scopes, branches, log, linenum) /\ Matches(list, scopes, branches, log, linenum)
        /\ Tracks(list, scopes, branches, log)
    BY <2>0, TypedState DEF IncludeInv, BranchScopes, JudgedInv
  <2>2. log \in Seq(LogEntry) /\ linenum \in Nat /\ \A j \in DOMAIN log : log[j].branch # linenum + 1
    <3>1. log \in Seq(LogEntry) /\ linenum \in Nat
      BY <2>1 DEF Typed
    <3>2. \A j \in DOMAIN log : log[j].branch \in Nat /\ log[j].branch <= linenum
      BY <2>1, <3>1, BranchType DEF Matches
    <3> QED BY <3>1, <3>2
  <2>3. ASSUME NEW s, NEW bs, Typed(s, scopes, bs, log, linenum), Matches(s, scopes, bs, log, linenum),
               Tracks(s, scopes, bs, log), Deeper(s, bs)
        PROVE  Tracks(list', scopes', branches', log')
    <3>1. Grown(list', scopes', branches', s, scopes, bs, linenum + 1)
      BY <2>3, PushPositions
    <3> QED BY <1>1, <2>2, <2>3, <3>1, TracksGrown
  <2>4. CASE If
    <3>1. Deeper(list, branches)
      BY <2>4 DEF If, AtLine, Pushed
    <3> HIDE DEF Deeper
    <3> QED BY <2>0, <2>1, <2>3, <3>1
  <2>5. ASSUME Else \/ Endif
        PROVE  /\ branches # <<>> /\ list # <<>> /\ Typed(Pop(list), scopes, Pop(branches), log, linenum)
               /\ Matches(Pop(list), scopes, Pop(branches), log, linenum)
               /\ Tracks(Pop(list), scopes, Pop(branches), log)
    <3>1. branches # <<>>
      BY <1>2, <2>5 DEF Else, Endif
    <3> QED BY <2>1, <3>1, PopPositions, MatchesPop, TracksPop
  <2>6. CASE Else
    <3>1. Deeper(Pop(list), Pop(branches))
      BY <2>5, <2>6 DEF Else, AtLine, InPlaceOfTop, Pushed
    <3> HIDE DEF Deeper
    <3> QED BY <2>0, <2>3, <2>5, <2>6, <3>1
  <2>7. CASE Endif
    <3>1. list' = Pop(list) /\ branches' = Pop(branches) /\ scopes' = scopes
      BY <2>5, <2>7 DEF Endif
    <3> QED BY <1>1, <2>0, <2>5, <2>7, <3>1
  <2> QED BY <2>4, <2>6, <2>7
<1> QED BY <1>1, <1>2, QuietJudged

\* #include.
LEMMA IncludeJudged ==
    ASSUME IncludeInv, JudgedInv, NEW h \in Headers, Include(h)
    PROVE  JudgedInv'
<1> DEFINE list == StateForInclude
           scopes == ScopesForInclude
           top == Top(list)
           e == Entry(h, scopes[top])
           b == AfterInclude(scopes[top], h)
           n == Len(log)
           t == Append(log, e)
<1>1. /\ linenum' = linenum + 1 /\ linenum < MaxLines /\ include_state' = list
      /\ all_scoped_include_state' = [scopes EXCEPT ![top] = b]
      /\ log' = t /\ branches' = branches /\ unbalanced' = unbalanced
  BY DEF Include, AtLine
<1>2. /\ Typed(list, scopes, branches, log, linenum) /\ list # <<>>
      /\ ~unbalanced => Matches(list, scopes, branches, log, linenum)
  BY ForInclude
<1>3. scopes \in Seq(Scope) /\ list \in Seq(1..Len(scopes)) /\ log \in Seq(LogEntry) /\ linenum \in Nat
  BY <1>2 DEF Typed
<1>4. ~unbalanced => Tracks(list, scopes, branches, log)
  <2> SUFFICES ASSUME ~unbalanced PROVE Tracks(list, scopes, branches, log)
    OBVIOUS
  <2>1. /\ Typed(include_state, all_scoped_include_state, branches, log, linenum)
        /\ Matches(include_state, all_scoped_include_state, branches, log, linenum)
        /\ Tracks(include_state, all_scoped_include_state, branches, log)
    BY TypedState DEF IncludeInv, BranchScopes, JudgedInv
  <2>2. CASE include_state = <<>>
    <3>1. /\ list = Append(include_state, Len(all_scoped_include_state) + 1)
          /\ scopes = Append(all_scoped_include_state, ScopedIncludeState)
      BY <2>2 DEF StateForInclude, ScopesForInclude, Pushed
    <3>2. /\ Grown(list, scopes, branches, include_state, all_scoped_include_state, branches, 0)
          /\ \A j \in DOMAIN log : log[j].branch # 0
      BY <2>1, <2>2, <3>1, MatchesFirst
    <3> HIDE DEF list, scopes
    <3> QED BY <1>3, <2>1, <3>2, TracksGrown
  <2>3. CASE include_state # <<>>
    BY <2>1, <2>3 DEF StateForInclude, ScopesForInclude
  <2> QED BY <2>2, <2>3
<1> HIDE DEF list, scopes
<1>5. top \in 1..Len(scopes) /\ scopes[top] \in Scope
  <2>1. Len(list) \in 1..Len(list)
    BY <1>2, <1>3, EmptySeq
  <2> QED BY <1>3, <2>1, ElementOfSeq DEF Top
<1> HIDE DEF top
<1>6. b \in Scope
  BY <1>3, <1>5, AfterIncludeType
<1>7. e \in LogEntry /\ e.branch = Branch /\ e.line = linenum + 1
  <2>1. TypeOK
    BY DEF IncludeInv
  <2> QED BY <1>1, <1>3, <1>5, <2>1, EntryType, EntryVerdicts
<1>8. ASSUME ~unbalanced
      PROVE  OrderAt(t, n + 1) /\ AlphaAt(t, n + 1) /\ Remembers(b, t, Branch)
  <2>1. Len(list) \in DOMAIN list /\ BranchAt(list, branches, Len(list)) = Branch
    <3>1. Branch = BranchOf(branches)
      BY DEF Branch, BranchOf
    <3> QED BY <1>2, <1>8, <3>1, InnermostBranch
  <2>2. Remembers(scopes[top], log, Branch)
    BY <1>4, <1>8, <2>1 DEF Tracks, top, Top
  <2>3. TypeOK /\ Numbered(log, linenum)
    BY DEF IncludeInv, JudgedInv
  <2> QED BY <1>1, <1>3, <1>5, <2>2, <2>3, JudgedRight
<1> HIDE DEF e, b
<1>9. /\ t[n + 1] = e /\ (\A i \in 1..n : t[i] = log[i]) /\ n \in Nat
      /\ Len(t) = n + 1 /\ DOMAIN t = 1..(n + 1) /\ DOMAIN log = 1..n
  <2>1. t \in Seq(LogEntry) /\ Len(t) = n + 1
    BY <1>3, <1>7, AppendProperties
  <2> QED BY <1>3, <1>7, <2>1, AppendProperties, LenProperties
<1>10. ASSUME ~unbalanced
       PROVE  Tracks(list, [scopes EXCEPT ![top] = b], branches, t)
  <2>1. e.branch = BranchOf(branches)
    BY <1>7 DEF Branch, BranchOf
  <2> QED BY <1>2, <1>4, <1>6, <1>7, <1>8, <1>10, <2>1, TracksInclude DEF top
<1> HIDE DEF t, n
<1>11. Numbered(t, linenum + 1)
  <2>1. \A i \in 1..n : log[i].line \in Nat /\ log[i].line <= linenum
    <3>1. \A i \in 1..n : log[i] \in LogEntry
      BY <1>3, ElementOfSeq DEF n
    <3> QED BY <3>1, MaxLinesAssumption DEF LogEntry, JudgedInv, Numbered, n
  <2>2. \A i, j \in 1..n : i < j => log[i].line < log[j].line
    BY DEF JudgedInv, Numbered, n
  <2>3. \A i \in 1..(n + 1) : i = n + 1 \/ i \in 1..n
    BY <1>9
  <2>4. \A i \in 1..Len(t) : t[i].line <= linenum + 1
    BY <1>3, <1>7, <1>9, <2>1, <2>3
  <2>5. ASSUME NEW i \in 1..(n + 1), NEW j \in 1..(n + 1), i < j PROVE t[i].line < t[j].line
    <3>1. i \in 1..n
      BY <1>9, <2>5
    <3>2. CASE j \in 1..n
      <4>1. t[i] = log[i] /\ t[j] = log[j]
        BY <1>9, <3>1, <3>2
      <4> QED BY <2>2, <2>5, <3>1, <3>2, <4>1
    <3>3. CASE j = n + 1
      <4>1. t[i] = log[i] /\ t[j].line = linenum + 1 /\ linenum \in Nat
        BY <1>3, <1>7, <1>9, <3>1, <3>3
      <4>2. log[i].line \in Nat /\ log[i].line <= linenum
        BY <2>1, <3>1
      <4> QED BY <4>1, <4>2
    <3> QED BY <2>3, <2>5, <3>2, <3>3
  <2> QED BY <1>9, <2>4, <2>5 DEF Numbered
<1>12. ~unbalanced => \A i \in 1..(n + 1) : OrderAt(t, i) /\ AlphaAt(t, i)
  <2> SUFFICES ASSUME ~unbalanced, NEW i \in 1..(n + 1) PROVE OrderAt(t, i) /\ AlphaAt(t, i)
    OBVIOUS
  <2>1. CASE i = n + 1
    BY <1>8, <2>1 DEF t, n
  <2>2. CASE i # n + 1
    <3>1. i \in 1..n
      BY <1>9, <2>2
    <3>2. OrderAt(log, i) /\ AlphaAt(log, i)
      BY <1>9, <3>1, VerdictsAt DEF JudgedInv
    <3> QED BY <1>9, <3>1, <3>2, VerdictOfPrefix
  <2> QED BY <2>1, <2>2
<1>13. (SystemHeadersInOrder <=> (~unbalanced => \A i \in DOMAIN log : OrderAt(log, i)))'
  BY VerdictsAt, PTL
<1>14. (AlphaWithLineBefore <=> (~unbalanced => \A i \in DOMAIN log : AlphaAt(log, i)))'
  BY VerdictsAt, PTL
<1> QED BY <1>1, <1>9, <1>10, <1>11, <1>12, <1>13, <1>14 DEF JudgedInv

\* The verdicts through every line and the end of the file.
LEMMA NextJudged == IncludeInv /\ JudgedInv /\ [Next]_vars => JudgedInv'
<1> SUFFICES ASSUME IncludeInv, JudgedInv, [Next]_vars PROVE JudgedInv'
  OBVIOUS
<1>1. CASE If \/ Else \/ Endif
  BY <1>1, ConditionJudged
<1>2. ASSUME NEW h \in Headers, Include(h) PROVE JudgedInv'
  BY <1>2, IncludeJudged
<1>3. ASSUME \/ \E names \in SUBSET Uses : CodeLine(names) \/ AsmLine(names)
             \/ CheckForIncludeWhatYouUse \/ UNCHANGED vars
      PROVE  JudgedInv'
  <2>1. /\ include_state' = include_state /\ all_scoped_include_state' = all_scoped_include_state
        /\ log' = log /\ branches' = branches /\ unbalanced' = unbalanced
        /\ linenum' = linenum \/ linenum' = linenum + 1
    BY <1>3 DEF CodeLine, AsmLine, Unlisted, AtLine, CheckForIncludeWhatYouUse, vars
  <2>2. ~unbalanced' => /\ ~unbalanced
                        /\ Tracks(include_state', all_scoped_include_state', branches', log')
    BY <2>1 DEF JudgedInv
  <2> QED BY <2>1, <2>2, QuietJudged
<1> QED BY <1>1, <1>2, <1>3 DEF Next

-----------------------------------------------------------------------------
(* Theorems *)

\* The invariant of _IncludeState holds after every line of every file.
THEOREM IncludeInvariant == Spec => []IncludeInv
BY InitInclude, NextInclude, PTL DEF Spec

\* CheckIncludeLine keeps the type of every variable; the list never refers
\* to a scope that does not exist.
THEOREM IncludeTypeCorrect == Spec => []TypeOK
<1>1. IncludeInv => TypeOK
  BY DEF IncludeInv
<1> QED BY <1>1, IncludeInvariant, PTL

\* If the directives outside inline assembly are balanced, the list of scopes
\* follows the conditions and pop() in CheckIncludeLine never raises.
THEOREM IncludeScopesMatch == Spec => []ScopesMatchConditions
<1>1. IncludeInv => ScopesMatchConditions
  BY DEF IncludeInv, BranchScopes, Matches, Increasing, ScopesMatchConditions
<1> QED BY <1>1, IncludeInvariant, PTL

\* CheckIncludeLine calls an #include a duplicate exactly when its own branch
\* has the same path before it, outside inline assembly.
THEOREM IncludeDuplicates == Spec => []DuplicatesPerBranch
<1>1. IncludeInv => DuplicatesPerBranch
  BY DEF IncludeInv
<1> QED BY <1>1, IncludeInvariant, PTL

\* CheckForIncludeWhatYouUse asks for exactly the headers that are used and
\* included neither by the file, in whatever branch, nor by its own header.
THEOREM IncludeAsksForMissing == Spec => []AsksForMissing
<1>1. IncludeInv => AsksForMissing
  BY DEF IncludeInv
<1> QED BY <1>1, IncludeInvariant, PTL

\* The verdicts on the includes stay right after every line of every file.
THEOREM IncludeVerdicts == Spec => []JudgedInv
BY InitJudged, NextJudged, IncludeInvariant, PTL DEF Spec

\* CheckNextIncludeOrder complains about a system header, the first of its path
\* in its branch, exactly when a header of a later kind stands before it there.
THEOREM IncludeOrder == Spec => []SystemHeadersInOrder
<1>1. JudgedInv => SystemHeadersInOrder
  BY DEF JudgedInv
<1> QED BY <1>1, IncludeVerdicts, PTL

\* CheckIncludeAlphabeticalOrder compares a header only with the one on the
\* line just before in the same branch, be it in order or not, and only if its
\* own section is the one reached by then.
THEOREM IncludeAlphabetical == Spec => []AlphaWithLineBefore
<1>1. JudgedInv => AlphaWithLineBefore
  BY DEF JudgedInv
<1> QED BY <1>1, IncludeVerdicts, PTL
=============================================================================
