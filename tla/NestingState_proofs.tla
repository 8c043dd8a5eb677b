------------------------- MODULE NestingState_proofs -------------------------
(***************************************************************************)
(* Proofs about cpplint's nesting stack, for every set of lines and files  *)
(* of any length.                                                          *)
(***************************************************************************)
EXTENDS NestingState, FiniteSetTheorems, SequenceTheorems, TLAPS

-----------------------------------------------------------------------------
(* Sequences *)

\* A sequence without its last element.
LEMMA PopProps ==
    ASSUME NEW S, NEW s \in Seq(S), s # <<>>
    PROVE  /\ Pop(s) \in Seq(S) /\ Len(Pop(s)) = Len(s) - 1
           /\ \A i \in 1..(Len(s) - 1) : Pop(s)[i] = s[i]
<1>1. Len(s) - 1 \in Nat
  BY EmptySeq, LenProperties
<1> DEFINE n == Len(s) - 1
<1> HIDE DEF n
<1>2. n \in Nat /\ n <= Len(s)
  BY <1>1, LenProperties DEF n
<1>3. \A i \in 1..n : s[i] \in S
  BY <1>2, ElementOfSeq, LenProperties
<1>4. /\ SubSeq(s, 1, n) \in Seq(S)
      /\ Len(SubSeq(s, 1, n)) = IF 1 <= n THEN n - 1 + 1 ELSE 0
      /\ \A i \in 1..(n - 1 + 1) : SubSeq(s, 1, n)[i] = s[1 + i - 1]
  BY <1>2, <1>3, SubSeqProperties
<1>5. Len(SubSeq(s, 1, n)) = n /\ \A i \in 1..n : SubSeq(s, 1, n)[i] = s[i]
  BY <1>2, <1>4
<1> QED BY <1>4, <1>5 DEF n, Pop

\* A sequence with another last element.
LEMMA ReplaceTopProps ==
    ASSUME NEW S, NEW s \in Seq(S), s # <<>>, NEW b \in S
    PROVE  /\ ReplaceTop(s, b) \in Seq(S) /\ Len(ReplaceTop(s, b)) = Len(s)
           /\ ReplaceTop(s, b)[Len(s)] = b
           /\ \A i \in 1..(Len(s) - 1) : ReplaceTop(s, b)[i] = s[i]
<1>1. Len(s) \in 1..Len(s)
  BY EmptySeq, LenProperties
<1> QED BY <1>1, ExceptSeq, LenProperties DEF ReplaceTop

\* The last element of a sequence is one of its elements.
LEMMA TopType ==
    ASSUME NEW S, NEW s \in Seq(S), s # <<>>
    PROVE  Top(s) \in S /\ Len(s) \in DOMAIN s
BY EmptySeq, LenProperties DEF Top

\* What is left of a line after some tokens.
LEMMA AfterType ==
    ASSUME NEW S, NEW s \in Seq(S), NEW i \in Nat, i <= Len(s)
    PROVE  After(s, i) \in Seq(S)
<1>1. \A k \in (i + 1)..Len(s) : s[k] \in S
  BY ElementOfSeq
<1> QED BY <1>1, SubSeqProperties, LenProperties DEF After

\* A search finds a position or nothing.
LEMMA FindType ==
    ASSUME NEW S, NEW s \in Seq(S), NEW set
    PROVE  /\ Find(s, set) \in Nat /\ Find(s, set) <= Len(s)
           /\ Find(s, set) # 0 => Find(s, set) \in DOMAIN s /\ s[Find(s, set)] \in set
<1>1. ASSUME \E i \in DOMAIN s : IsFirst(s, set, i)
      PROVE  Find(s, set) \in DOMAIN s /\ IsFirst(s, set, Find(s, set))
  BY <1>1 DEF Find
<1>2. ASSUME ~\E i \in DOMAIN s : IsFirst(s, set, i)
      PROVE  Find(s, set) = 0
  BY <1>2 DEF Find
<1> QED BY <1>1, <1>2, LenProperties DEF IsFirst
-----------------------------------------------------------------------------
(* The types of the blocks *)

\* The parentheses of a line change the depth by an integer.
LEMMA DepthChangeType ==
    ASSUME NEW toks \in Seq(Tokens)
    PROVE  DepthChange(toks) \in Int
<1>1. ASSUME NEW tok
      PROVE  Occurrences(tok, toks) \in Nat
  <2>1. IsFiniteSet(DOMAIN toks)
    BY FS_Interval, LenProperties
  <2>2. IsFiniteSet({i \in DOMAIN toks : toks[i] = tok})
    BY <2>1, FS_Subset
  <2> QED BY <2>2, FS_CardinalityType DEF Occurrences
<1>2. Occurrences("(", toks) \in Nat /\ Occurrences(")", toks) \in Nat
  BY <1>1
<1> QED BY <1>2 DEF DepthChange

\* New blocks are blocks, outside of any assembly statement.
LEMMA NewBlockType ==
    /\ BlockInfo \in Block
    /\ [BlockInfo EXCEPT !.inline_asm = "BLOCK_ASM"] \in Block
    /\ \A seen \in BOOLEAN : NamespaceInfo(seen) \in Block
    /\ \A head : ClassInfo(head) \in Block
<1>0. BlockInfo \in Block
  BY DEF BlockInfo, NewBlock, Block, Kinds, AsmStates, AccessLabels
<1>1. [BlockInfo EXCEPT !.inline_asm = "BLOCK_ASM"] \in Block
  BY <1>0 DEF Block, AsmStates
<1> USE DEF NewBlock, Block, Kinds, AsmStates, AccessLabels
<1>2. ASSUME NEW seen \in BOOLEAN
      PROVE  NamespaceInfo(seen) \in Block
  BY DEF NamespaceInfo
<1>3. ASSUME NEW head
      PROVE  ClassInfo(head) \in Block
  <2>1. CASE head = "struct"
    BY <2>1 DEF ClassInfo
  <2>2. CASE head # "struct"
    BY <2>2 DEF ClassInfo
  <2> QED BY <2>1, <2>2
<1> QED BY <1>0, <1>1, <1>2, <1>3

\* The state of an assembly statement stays one of the four.
LEMMA NextAsmType ==
    ASSUME NEW asm \in AsmStates, NEW open \in Int, NEW toks \in Seq(Tokens)
    PROVE  NextAsm(asm, open, toks) \in AsmStates
<1>1. CASE asm \in {"NO_ASM", "END_ASM"}
  BY <1>1 DEF NextAsm, AsmStates
<1>2. CASE asm = "INSIDE_ASM"
  BY <1>2 DEF NextAsm, AsmStates
<1>3. CASE asm = "BLOCK_ASM"
  BY <1>3 DEF NextAsm, AsmStates
<1> QED BY <1>1, <1>2, <1>3 DEF AsmStates

\* Counting parentheses changes two fields of the innermost block only.
LEMMA CountProps ==
    ASSUME NEW s \in Seq(Block), NEW toks \in Seq(Tokens)
    PROVE  LET c == CountParentheses(s, toks)
           IN  /\ c \in Seq(Block) /\ Len(c) = Len(s)
               /\ \A i \in 1..Len(s) : c[i].seen_open_brace = s[i].seen_open_brace
<1>1. CASE s = <<>>
  BY <1>1 DEF CountParentheses
<1>2. CASE s # <<>>
  <2> DEFINE open == Top(s).open_parentheses + DepthChange(toks)
             b == [Top(s) EXCEPT !.open_parentheses = open, !.inline_asm = NextAsm(@, open, toks)]
  <2>1. Top(s) \in Block
    BY <1>2, TopType
  <2>2. open \in Int
    BY <2>1, DepthChangeType DEF Block
  <2> HIDE DEF open
  <2>3. NextAsm(Top(s).inline_asm, open, toks) \in AsmStates
    BY <2>1, <2>2, NextAsmType DEF Block
  <2>4. b \in Block /\ b.seen_open_brace = Top(s).seen_open_brace
    BY <2>1, <2>2, <2>3 DEF Block
  <2>6. CountParentheses(s, toks) = ReplaceTop(s, b)
    BY <1>2 DEF CountParentheses, open
  <2> HIDE DEF b
  <2>7. /\ ReplaceTop(s, b) \in Seq(Block) /\ Len(ReplaceTop(s, b)) = Len(s)
        /\ ReplaceTop(s, b)[Len(s)] = b
        /\ \A i \in 1..(Len(s) - 1) : ReplaceTop(s, b)[i] = s[i]
    BY <1>2, <2>4, ReplaceTopProps
  <2>8. ASSUME NEW i \in 1..Len(s)
        PROVE  i = Len(s) \/ i \in 1..(Len(s) - 1)
    BY LenProperties
  <2>9. \A i \in 1..Len(s) : ReplaceTop(s, b)[i].seen_open_brace = s[i].seen_open_brace
    BY <2>4, <2>7, <2>8 DEF Top
  <2> QED BY <2>6, <2>7, <2>9
<1> QED BY <1>1, <1>2

-----------------------------------------------------------------------------
(* What the steps of Update do to a stack *)

\* One entry per open brace, and one more for a head without its brace.
Balanced(s, d) == OnlyTopPending(s) /\ OpenBlocks(s) = d

\* A new block on the stack; it may be a head only if no other head is pending.
LEMMA PushProps ==
    ASSUME NEW s \in Seq(Block), NEW b \in Block
    PROVE  /\ Append(s, b) \in Seq(Block)
           /\ \A d \in Int : Balanced(s, d) /\ SeenOpenBrace(s) =>
                 Balanced(Append(s, b), IF b.seen_open_brace THEN d + 1 ELSE d)
<1> DEFINE t == Append(s, b)
<1>1. /\ t \in Seq(Block) /\ Len(t) = Len(s) + 1 /\ t[Len(s) + 1] = b
      /\ \A i \in 1..Len(s) : t[i] = s[i]
  BY AppendProperties
<1>2. Len(s) \in Nat /\ DOMAIN s = 1..Len(s) /\ DOMAIN t = 1..(Len(s) + 1)
  BY <1>1, LenProperties
<1> HIDE DEF t
<1>4. ASSUME NEW d \in Int, Balanced(s, d), SeenOpenBrace(s)
      PROVE  Balanced(t, IF b.seen_open_brace THEN d + 1 ELSE d)
  <2>1. \A i \in 1..Len(s) : s[i].seen_open_brace
    BY <1>2, <1>4, EmptySeq DEF Balanced, OnlyTopPending, SeenOpenBrace, Top
  <2>2. OnlyTopPending(t)
    BY <1>1, <1>2, <2>1 DEF OnlyTopPending
  <2>3. t # <<>> /\ Top(t) = b
    BY <1>1, <1>2, EmptySeq DEF Top
  <2>4. d = Len(s)
    BY <1>4 DEF Balanced, OpenBlocks
  <2> QED BY <1>1, <1>2, <2>2, <2>3, <2>4 DEF Balanced, OpenBlocks, SeenOpenBrace
<1> QED BY <1>1, <1>4 DEF t

\* A stack without its innermost block has no pending head.
LEMMA DropProps ==
    ASSUME NEW s \in Seq(Block), s # <<>>
    PROVE  /\ Pop(s) \in Seq(Block)
           /\ OnlyTopPending(s) => Balanced(Pop(s), Len(s) - 1)
<1>1. /\ Pop(s) \in Seq(Block) /\ Len(Pop(s)) = Len(s) - 1
      /\ \A i \in 1..(Len(s) - 1) : Pop(s)[i] = s[i]
  BY PopProps
<1>2. Len(s) \in Nat /\ DOMAIN s = 1..Len(s) /\ DOMAIN Pop(s) = 1..(Len(s) - 1)
  BY <1>1, LenProperties
<1>4. ASSUME OnlyTopPending(s)
      PROVE  Balanced(Pop(s), Len(s) - 1)
  <2>1. \A i \in 1..(Len(s) - 1) : Pop(s)[i].seen_open_brace
    BY <1>1, <1>4 DEF OnlyTopPending
  <2>2. OnlyTopPending(Pop(s))
    BY <1>1, <1>2, <2>1 DEF OnlyTopPending
  <2>3. SeenOpenBrace(Pop(s))
    BY <1>1, <1>2, <2>1, EmptySeq DEF SeenOpenBrace, Top
  <2> QED BY <1>1, <2>2, <2>3 DEF Balanced, OpenBlocks
<1> QED BY <1>1, <1>4

\* Another innermost block.
LEMMA ChangeProps ==
    ASSUME NEW s \in Seq(Block), s # <<>>, NEW b \in Block
    PROVE  /\ ReplaceTop(s, b) \in Seq(Block) /\ Len(ReplaceTop(s, b)) = Len(s)
           /\ OnlyTopPending(s) => OnlyTopPending(ReplaceTop(s, b))
           /\ SeenOpenBrace(ReplaceTop(s, b)) = b.seen_open_brace
<1>1. /\ ReplaceTop(s, b) \in Seq(Block) /\ Len(ReplaceTop(s, b)) = Len(s)
      /\ ReplaceTop(s, b)[Len(s)] = b
      /\ \A i \in 1..(Len(s) - 1) : ReplaceTop(s, b)[i] = s[i]
  BY ReplaceTopProps
<1>2. /\ Len(s) \in Nat \ {0} /\ DOMAIN s = 1..Len(s) /\ DOMAIN ReplaceTop(s, b) = 1..Len(s)
  BY <1>1, LenProperties, EmptySeq
<1>4. OnlyTopPending(s) => OnlyTopPending(ReplaceTop(s, b))
  BY <1>1, <1>2 DEF OnlyTopPending
<1>5. ReplaceTop(s, b) # <<>> /\ Top(ReplaceTop(s, b)) = b
  BY <1>1, <1>2, EmptySeq DEF Top
<1>6. SeenOpenBrace(ReplaceTop(s, b)) = b.seen_open_brace
  BY <1>5 DEF SeenOpenBrace, Block
<1> QED BY <1>1, <1>4, <1>6

\* { opens a block or the body of the pending head.
LEMMA OpenBraceProps ==
    ASSUME NEW s \in Seq(Block), NEW toks
    PROVE  /\ OpenBrace(s, toks) \in Seq(Block)
           /\ \A d \in Int : Balanced(s, d) => Balanced(OpenBrace(s, toks), d + 1)
<1>1. CASE SeenOpenBrace(s)
  <2> DEFINE b == [BlockInfo EXCEPT !.inline_asm = IF MatchAsm(toks) THEN "BLOCK_ASM" ELSE @]
  <2>1. BlockInfo \in Block /\ BlockInfo.seen_open_brace /\ BlockInfo.inline_asm = "NO_ASM"
    BY NewBlockType DEF BlockInfo, NewBlock
  <2>2. b \in Block /\ b.seen_open_brace /\ b.inline_asm # "INSIDE_ASM"
    BY <2>1 DEF Block, AsmStates
  <2>3. OpenBrace(s, toks) = Append(s, b)
    BY <1>1 DEF OpenBrace
  <2> HIDE DEF b
  <2> QED BY <1>1, <2>2, <2>3, PushProps
<1>2. CASE ~SeenOpenBrace(s)
  <2> DEFINE b == [Top(s) EXCEPT !.seen_open_brace = TRUE]
  <2>1. s # <<>>
    BY <1>2 DEF SeenOpenBrace
  <2>2. Top(s) \in Block
    BY <2>1, TopType
  <2>3. /\ b \in Block /\ b.seen_open_brace
    BY <2>2 DEF Block
  <2>4. OpenBrace(s, toks) = ReplaceTop(s, b)
    BY <1>2 DEF OpenBrace
  <2> HIDE DEF b
  <2>5. /\ ReplaceTop(s, b) \in Seq(Block) /\ Len(ReplaceTop(s, b)) = Len(s)
        /\ OnlyTopPending(s) => OnlyTopPending(ReplaceTop(s, b))
        /\ SeenOpenBrace(ReplaceTop(s, b))
    BY <2>1, <2>3, ChangeProps
  <2>6. ASSUME NEW d \in Int, Balanced(s, d)
        PROVE  Balanced(ReplaceTop(s, b), d + 1)
    BY <1>2, <2>5, <2>6, LenProperties DEF Balanced, OpenBlocks
  <2> QED BY <2>4, <2>5, <2>6
<1> QED BY <1>1, <1>2

\* ; and ) remove a pending head and nothing else.
LEMMA AbandonHeadProps ==
    ASSUME NEW s \in Seq(Block)
    PROVE  /\ AbandonHead(s) \in Seq(Block)
           /\ \A d \in Int : Balanced(s, d) => Balanced(AbandonHead(s), d)
<1>1. CASE SeenOpenBrace(s)
  BY <1>1 DEF AbandonHead
<1>2. CASE ~SeenOpenBrace(s)
  <2>1. s # <<>> /\ AbandonHead(s) = Pop(s)
    BY <1>2 DEF AbandonHead, SeenOpenBrace
  <2>2. ASSUME NEW d \in Int, Balanced(s, d)
        PROVE  Balanced(Pop(s), d)
    BY <1>2, <2>1, <2>2, DropProps DEF Balanced, OpenBlocks
  <2> QED BY <2>1, <2>2, DropProps
<1> QED BY <1>1, <1>2

\* } closes the innermost block.
LEMMA CloseBraceProps ==
    ASSUME NEW s \in Seq(Block)
    PROVE  /\ CloseBrace(s) \in Seq(Block)
           /\ \A d \in Int : Balanced(s, d) /\ SeenOpenBrace(s) /\ d # 0 =>
                 Balanced(CloseBrace(s), d - 1)
<1>1. CASE s = <<>>
  BY <1>1 DEF CloseBrace, Balanced, OpenBlocks
<1>2. CASE s # <<>>
  <2>1. CloseBrace(s) = Pop(s)
    BY <1>2 DEF CloseBrace
  <2>2. ASSUME NEW d \in Int, Balanced(s, d), SeenOpenBrace(s)
        PROVE  Balanced(Pop(s), d - 1)
    BY <1>2, <2>2, DropProps DEF Balanced, OpenBlocks
  <2> QED BY <1>2, <2>1, <2>2, DropProps
<1> QED BY <1>1, <1>2

\* A class head is pushed; it leaves the count alone if no other is pending.
LEMMA ClassPushedProps ==
    ASSUME NEW s \in Seq(Block), NEW toks
    PROVE  /\ ClassPushed(s, toks) \in Seq(Block)
           /\ \A d \in Int : Balanced(s, d) /\ (IsClassDecl(s, toks) => SeenOpenBrace(s)) =>
                 Balanced(ClassPushed(s, toks), d)
<1> DEFINE b == ClassInfo(Head(toks))
<1>1. b \in Block /\ ~b.seen_open_brace /\ b.inline_asm = "NO_ASM"
  BY NewBlockType DEF ClassInfo, NewBlock
<1> HIDE DEF b
<1>2. CASE IsClassDecl(s, toks)
  BY <1>1, <1>2, PushProps DEF ClassPushed, b
<1>3. CASE ~IsClassDecl(s, toks)
  BY <1>3 DEF ClassPushed
<1> QED BY <1>2, <1>3

\* An access label changes a field that the stack does not depend on.
LEMMA WithAccessProps ==
    ASSUME NEW s \in Seq(Block), NEW toks
    PROVE  /\ WithAccess(s, toks) \in Seq(Block)
           /\ \A d \in Int : Balanced(s, d) => Balanced(WithAccess(s, toks), d)
<1>1. CASE s # <<>> /\ Top(s).kind = "class" /\ StartsWith(toks, AccessLabels)
  <2> DEFINE b == [Top(s) EXCEPT !.access = Head(toks)]
  <2>1. Top(s) \in Block
    BY <1>1, TopType
  <2>2. /\ b \in Block /\ b.seen_open_brace = Top(s).seen_open_brace
    BY <1>1, <2>1 DEF Block, StartsWith
  <2>3. WithAccess(s, toks) = ReplaceTop(s, b)
    BY <1>1 DEF WithAccess
  <2> HIDE DEF b
  <2>4. /\ ReplaceTop(s, b) \in Seq(Block) /\ Len(ReplaceTop(s, b)) = Len(s)
        /\ OnlyTopPending(s) => OnlyTopPending(ReplaceTop(s, b))
        /\ SeenOpenBrace(ReplaceTop(s, b)) = SeenOpenBrace(s)
    BY <1>1, <2>2, ChangeProps DEF SeenOpenBrace, Block
  <2> QED BY <2>3, <2>4 DEF Balanced, OpenBlocks
<1>2. CASE ~(s # <<>> /\ Top(s).kind = "class" /\ StartsWith(toks, AccessLabels))
  BY <1>2 DEF WithAccess
<1> QED BY <1>1, <1>2

-----------------------------------------------------------------------------
(* Preprocessor conditions *)

\* A new condition keeps the stack before it and has no #else yet.
LEMMA NewInfoType ==
    ASSUME TypeOK
    PROVE  /\ NewInfo \in PreprocessorInfo /\ ~NewInfo.seen_else
           /\ NewInfo.stack_before_if = stack /\ NewInfo.stack_before_else = <<>>
<1>1. stack \in Seq(Block) /\ <<>> \in Seq(Block)
  BY DEF TypeOK
<1> QED BY <1>1 DEF NewInfo, PreprocessorInfo

\* Its first #else keeps the stack there, a later one changes nothing.
LEMMA RememberElseType ==
    ASSUME TypeOK, NEW info \in PreprocessorInfo
    PROVE  /\ RememberElse(info) \in PreprocessorInfo /\ RememberElse(info).seen_else
           /\ RememberElse(info).stack_before_if = info.stack_before_if
           /\ RememberElse(info).stack_before_else =
                  IF info.seen_else THEN info.stack_before_else ELSE stack
<1>1. stack \in Seq(Block)
  BY DEF TypeOK
<1>2. CASE info.seen_else
  BY <1>2 DEF RememberElse, PreprocessorInfo
<1>3. CASE ~info.seen_else
  BY <1>1, <1>3 DEF RememberElse, PreprocessorInfo
<1> QED BY <1>2, <1>3

\* The outermost condition in its #else, and the checkpoint it will restore.
Outermost(pps, s) ==
    \E i \in DOMAIN pps :
        /\ pps[i].seen_else /\ \A j \in 1..(i - 1) : ~pps[j].seen_else
        /\ s = pps[i].stack_before_else

\* A directive keeps the types of all stacks.
LEMMA DirectiveType ==
    ASSUME TypeOK, NEW pp \in Directives
    PROVE  PpStackAfter(pp) \in Seq(PreprocessorInfo) /\ StackAfter(pp) \in Seq(Block)
<1>1. stack \in Seq(Block) /\ pp_stack \in Seq(PreprocessorInfo)
  BY DEF TypeOK
<1>4. CASE pp = "if"
  <2>1. PpStackAfter(pp) = Append(pp_stack, NewInfo) /\ StackAfter(pp) = stack
    BY <1>4 DEF PpStackAfter, StackAfter
  <2> QED BY <1>1, <2>1, NewInfoType, AppendProperties
<1>5. CASE pp \in {"else", "endif"} /\ pp_stack # <<>>
  <2> DEFINE info == RememberElse(Top(pp_stack))
  <2>1. Top(pp_stack) \in PreprocessorInfo
    BY <1>1, <1>5, TopType
  <2>2. info \in PreprocessorInfo
    BY <2>1, RememberElseType
  <2> HIDE DEF info
  <2>4. ReplaceTop(pp_stack, info) \in Seq(PreprocessorInfo)
    BY <1>1, <1>5, <2>2, ReplaceTopProps
  <2>5. Pop(pp_stack) \in Seq(PreprocessorInfo)
    BY <1>1, <1>5, PopProps
  <2>6. CASE pp = "else"
    <3>1. PpStackAfter(pp) = ReplaceTop(pp_stack, info) /\ StackAfter(pp) = Top(pp_stack).stack_before_if
      BY <1>5, <2>6 DEF PpStackAfter, StackAfter, info
    <3> QED BY <2>1, <2>4, <3>1 DEF PreprocessorInfo
  <2>7. CASE pp = "endif"
    <3>1. /\ PpStackAfter(pp) = Pop(pp_stack)
          /\ StackAfter(pp) = IF Top(pp_stack).seen_else THEN Top(pp_stack).stack_before_else ELSE stack
      BY <1>5, <2>7 DEF PpStackAfter, StackAfter
    <3> QED BY <1>1, <2>1, <2>5, <3>1 DEF PreprocessorInfo
  <2> QED BY <1>5, <2>6, <2>7
<1>6. CASE pp = "none" \/ (pp \in {"else", "endif"} /\ pp_stack = <<>>)
  <2>1. PpStackAfter(pp) = pp_stack /\ StackAfter(pp) = stack
    BY <1>6 DEF PpStackAfter, StackAfter
  <2> QED BY <1>1, <2>1
<1> QED BY <1>4, <1>5, <1>6 DEF Directives

\* After a directive the stack is that of the text outside of #else branches,
\* or the outermost condition in its #else keeps that.
LEMMA DirectiveElse ==
    ASSUME TypeOK, ElseTransparent, NEW pp \in Directives
    PROVE  \/ ~InElse(PpStackAfter(pp)) /\ StackAfter(pp) = live
           \/ Outermost(PpStackAfter(pp), live)
<1>1. pp_stack \in Seq(PreprocessorInfo) /\ Len(pp_stack) \in Nat /\ DOMAIN pp_stack = 1..Len(pp_stack)
  BY LenProperties DEF TypeOK
<1>2. (~InElse(pp_stack) /\ stack = live) \/ Outermost(pp_stack, live)
  BY DEF ElseTransparent, Outermost
<1> DEFINE n == Len(pp_stack)
<1>3. CASE pp = "if"
  <2> DEFINE pps == Append(pp_stack, NewInfo)
  <2>1. PpStackAfter(pp) = pps /\ StackAfter(pp) = stack
    BY <1>3 DEF PpStackAfter, StackAfter
  <2>2. /\ pps \in Seq(PreprocessorInfo) /\ Len(pps) = n + 1 /\ ~pps[n + 1].seen_else
        /\ \A i \in 1..n : pps[i] = pp_stack[i]
    BY <1>1, NewInfoType, AppendProperties
  <2>3. DOMAIN pps = 1..(n + 1)
    BY <2>2, LenProperties
  <2> HIDE DEF pps
  <2>4. ~InElse(pp_stack) => ~InElse(pps)
    BY <1>1, <2>2, <2>3 DEF InElse
  <2>5. Outermost(pp_stack, live) => Outermost(pps, live)
    <3> SUFFICES ASSUME NEW i \in 1..n, pp_stack[i].seen_else,
                        \A j \in 1..(i - 1) : ~pp_stack[j].seen_else,
                        live = pp_stack[i].stack_before_else
                 PROVE  Outermost(pps, live)
      BY <1>1 DEF Outermost
    <3>1. i \in DOMAIN pps /\ pps[i] = pp_stack[i]
      BY <1>1, <2>2, <2>3
    <3>2. \A j \in 1..(i - 1) : pps[j] = pp_stack[j]
      BY <1>1, <2>2
    <3> QED BY <3>1, <3>2 DEF Outermost
  <2> QED BY <1>2, <2>1, <2>4, <2>5
<1>4. CASE pp = "else" /\ pp_stack # <<>>
  <2> DEFINE info == RememberElse(Top(pp_stack))
             pps == ReplaceTop(pp_stack, info)
  <2>1. PpStackAfter(pp) = pps
    BY <1>4 DEF PpStackAfter
  <2>2. Top(pp_stack) \in PreprocessorInfo /\ Top(pp_stack) = pp_stack[n] /\ n \in 1..n
    BY <1>1, <1>4, TopType DEF Top
  <2>3. /\ info \in PreprocessorInfo /\ info.seen_else
        /\ info.stack_before_else = IF pp_stack[n].seen_else THEN pp_stack[n].stack_before_else ELSE stack
    BY <2>2, RememberElseType
  <2> HIDE DEF info
  <2>4. /\ pps \in Seq(PreprocessorInfo) /\ Len(pps) = n /\ pps[n] = info
        /\ \A i \in 1..(n - 1) : pps[i] = pp_stack[i]
    BY <1>1, <1>4, <2>3, ReplaceTopProps
  <2>5. DOMAIN pps = 1..n
    BY <2>4, LenProperties
  <2> HIDE DEF pps
  <2>6. ASSUME ~InElse(pp_stack), stack = live
        PROVE  Outermost(pps, live)
    <3>1. \A j \in 1..(n - 1) : ~pps[j].seen_else
      BY <1>1, <2>4, <2>6 DEF InElse
    <3>2. ~pp_stack[n].seen_else
      BY <1>1, <2>2, <2>6 DEF InElse
    <3> QED BY <2>2, <2>3, <2>4, <2>5, <2>6, <3>1, <3>2 DEF Outermost
  <2>7. ASSUME NEW i \in 1..n, pp_stack[i].seen_else,
               \A j \in 1..(i - 1) : ~pp_stack[j].seen_else,
               live = pp_stack[i].stack_before_else
        PROVE  Outermost(pps, live)
    <3>1. pps[i].seen_else /\ live = pps[i].stack_before_else
      <4>1. CASE i = n
        BY <2>3, <2>4, <2>7, <4>1
      <4>2. CASE i # n
        <5>1. i \in 1..(n - 1)
          <6>1. n \in Nat
            BY <1>1
          <6> QED BY <4>2, <6>1
        <5> QED BY <2>4, <2>7, <5>1
      <4> QED BY <4>1, <4>2
    <3>2. \A j \in 1..(i - 1) : j \in 1..(n - 1)
      BY <1>1
    <3>3. \A j \in 1..(i - 1) : ~pps[j].seen_else
      BY <2>4, <2>7, <3>2
    <3> QED BY <2>5, <3>1, <3>3 DEF Outermost
  <2> QED BY <1>1, <1>2, <2>1, <2>6, <2>7 DEF Outermost
<1>5. CASE pp = "endif" /\ pp_stack # <<>>
  <2> DEFINE pps == Pop(pp_stack)
  <2>1. /\ PpStackAfter(pp) = pps
        /\ StackAfter(pp) = IF pp_stack[n].seen_else THEN pp_stack[n].stack_before_else ELSE stack
    BY <1>5 DEF PpStackAfter, StackAfter, Top
  <2>2. /\ pps \in Seq(PreprocessorInfo) /\ Len(pps) = n - 1
        /\ \A i \in 1..(n - 1) : pps[i] = pp_stack[i]
    BY <1>1, <1>5, PopProps
  <2>3. DOMAIN pps = 1..(n - 1) /\ n \in 1..n
    BY <1>1, <1>5, <2>2, LenProperties, TopType
  <2> HIDE DEF pps
  <2>4. ASSUME ~InElse(pp_stack), stack = live
        PROVE  ~InElse(pps) /\ StackAfter(pp) = live
    <3>1. ~pp_stack[n].seen_else
      BY <1>1, <2>3, <2>4 DEF InElse
    <3>2. ~InElse(pps)
      BY <1>1, <2>2, <2>3, <2>4 DEF InElse
    <3> QED BY <2>1, <2>4, <3>1, <3>2
  <2>5. ASSUME NEW i \in 1..n, pp_stack[i].seen_else,
               \A j \in 1..(i - 1) : ~pp_stack[j].seen_else,
               live = pp_stack[i].stack_before_else
        PROVE  \/ ~InElse(pps) /\ StackAfter(pp) = live
               \/ Outermost(pps, live)
    <3>1. CASE i = n
      BY <2>1, <2>2, <2>3, <2>5, <3>1 DEF InElse
    <3>2. CASE i # n
      <4>0. n \in Nat
        BY <1>1
      <4>1. i \in 1..(n - 1) /\ \A j \in 1..(i - 1) : j \in 1..(n - 1)
        BY <3>2, <4>0
      <4> QED BY <2>2, <2>3, <2>5, <4>1 DEF Outermost
    <3> QED BY <3>1, <3>2
  <2> QED BY <1>1, <1>2, <2>1, <2>4, <2>5 DEF Outermost
<1>6. CASE pp = "none" \/ (pp \in {"else", "endif"} /\ pp_stack = <<>>)
  <2>1. PpStackAfter(pp) = pp_stack /\ StackAfter(pp) = stack
    BY <1>6 DEF PpStackAfter, StackAfter
  <2> QED BY <1>2, <2>1
<1> QED BY <1>3, <1>4, <1>5, <1>6 DEF Directives

-----------------------------------------------------------------------------
(* The invariant *)

\* BlocksAreBraces speaks of the stack outside of #else branches; inside them
\* the balance has to be kept for the text that will be restored.
LiveBalanced == ~odd => Balanced(live, depth)
UnfinishedCounted == phase = "done" => unfinished = Cardinality(Classes(stack))

NestingInv ==
    /\ TypeOK /\ ElseTransparent
    /\ LiveBalanced /\ UnfinishedCounted

\* A step that does to live what it does to the stack keeps them equal
\* outside of #else branches.
LEMMA FollowElse ==
    ASSUME ElseTransparent, pp_stack' = pp_stack, NEW s, stack = live => stack' = s, Follow(s)
    PROVE  ElseTransparent'
<1>1. CASE InElse(pp_stack)
  <2>1. live' = live /\ Outermost(pp_stack, live)
    BY <1>1 DEF Follow, ElseTransparent, Outermost
  <2> QED BY <2>1 DEF ElseTransparent, Outermost
<1>2. CASE ~InElse(pp_stack)
  <2>1. live' = s /\ stack = live
    BY <1>2 DEF Follow, ElseTransparent, InElse
  <2> QED BY <1>2, <2>1 DEF ElseTransparent, InElse
<1> QED BY <1>1, <1>2

\* The balance of live after a step that adds `change` braces.
LEMMA FollowBalanced ==
    ASSUME TypeOK, LiveBalanced, NEW s, NEW change \in Int, NEW isOdd \in BOOLEAN,
           Follow(s), FollowBraces(change, isOdd),
           ~isOdd /\ Balanced(live, depth) => Balanced(s, depth + change)
    PROVE  /\ LiveBalanced' /\ depth' \in Int /\ odd' \in BOOLEAN
           /\ s \in Seq(Block) => live' \in Seq(Block)
<1>1. live \in Seq(Block) /\ depth \in Int /\ odd \in BOOLEAN
  BY DEF TypeOK
<1>2. CASE InElse(pp_stack)
  <2>1. live' = live /\ depth' = depth /\ odd' = odd
    BY <1>1, <1>2 DEF Follow, FollowBraces
  <2> QED BY <1>1, <2>1 DEF LiveBalanced, Balanced, OnlyTopPending, OpenBlocks, SeenOpenBrace, Top
<1>3. CASE ~InElse(pp_stack)
  <2>1. live' = s /\ depth' = depth + change /\ odd' = (odd \/ isOdd)
    BY <1>3 DEF Follow, FollowBraces
  <2>2. ASSUME ~odd'
        PROVE  Balanced(s, depth + change)
    BY <2>1, <2>2 DEF LiveBalanced
  <2> QED BY <1>1, <2>1, <2>2 DEF LiveBalanced, Balanced, OnlyTopPending, OpenBlocks, SeenOpenBrace, Top
<1> QED BY <1>2, <1>3

\* Initially no block is open.
LEMMA InitNesting == Init => NestingInv
<1> SUFFICES ASSUME Init PROVE NestingInv
  OBVIOUS
<1> USE DEF Init
<1>1. TypeOK
  <2>1. stack \in Seq(Block) /\ live \in Seq(Block) /\ pp_stack \in Seq(PreprocessorInfo) /\ rest \in Seq(Tokens)
    BY EmptySeq
  <2>2. linenum \in 0..MaxLines /\ unfinished \in Nat /\ depth \in Int
    BY MaxLinesAssumption
  <2> QED BY <2>1, <2>2 DEF TypeOK
<1>2. ElseTransparent
  BY DEF ElseTransparent, InElse
<1>4. LiveBalanced
  BY DEF LiveBalanced, Balanced, OnlyTopPending, OpenBlocks, SeenOpenBrace
<1>5. UnfinishedCounted
  BY DEF UnfinishedCounted
<1> QED BY <1>1, <1>2, <1>4, <1>5 DEF NestingInv

\* The part of a line that is left is made of tokens.
LEMMA RestType ==
    ASSUME NEW toks \in Seq(Tokens), toks # <<>>
    PROVE  Tail(toks) \in Seq(Tokens)
BY HeadTailProperties

\* UpdatePreprocessor and the count of parentheses.
LEMMA ReadLineStep ==
    ASSUME NestingInv, NEW line \in Lines, ReadLine(line)
    PROVE  NestingInv'
<1> DEFINE pps == PpStackAfter(line.pp)
           s == StackAfter(line.pp)
           t == CountParentheses(s, line.toks)
<1>1. line.pp \in Directives /\ line.toks \in Seq(Tokens)
  BY LinesAssumption
<1>2. /\ pp_stack' = pps /\ stack' = t /\ rest' = line.toks /\ phase' = "heads"
      /\ linenum' = linenum + 1 /\ linenum < MaxLines
      /\ unfinished' = unfinished /\ depth' = depth /\ odd' = odd
      /\ live' = IF InElse(pps) THEN live ELSE CountParentheses(live, line.toks)
  BY DEF ReadLine
<1>3. /\ pps \in Seq(PreprocessorInfo) /\ s \in Seq(Block)
  BY <1>1, DirectiveType DEF NestingInv
<1>4. (~InElse(pps) /\ s = live) \/ Outermost(pps, live)
  BY <1>1, DirectiveElse DEF NestingInv
<1> HIDE DEF pps, s
<1>5. t \in Seq(Block)
  BY <1>1, <1>3, CountProps
<1>6. /\ CountParentheses(live, line.toks) \in Seq(Block)
      /\ Len(CountParentheses(live, line.toks)) = Len(live)
      /\ \A i \in 1..Len(live) :
            CountParentheses(live, line.toks)[i].seen_open_brace = live[i].seen_open_brace
  BY <1>1, CountProps DEF NestingInv, TypeOK
<1>7. live' \in Seq(Block)
  BY <1>2, <1>6 DEF NestingInv, TypeOK
<1>8. linenum' \in 0..MaxLines
  BY <1>2, MaxLinesAssumption DEF NestingInv, TypeOK
<1>9. TypeOK'
  BY <1>1, <1>2, <1>3, <1>5, <1>7, <1>8 DEF NestingInv, TypeOK
<1>10. ElseTransparent'
  <2>1. CASE ~InElse(pps)
    <3>1. s = live
      BY <1>4, <2>1 DEF Outermost, InElse
    <3> QED BY <1>2, <2>1, <3>1 DEF ElseTransparent, InElse
  <2>2. CASE InElse(pps)
    <3>1. Outermost(pps, live) /\ live' = live
      BY <1>2, <1>4, <2>2
    <3> QED BY <1>2, <3>1 DEF ElseTransparent, Outermost
  <2> QED BY <2>1, <2>2
<1>12. LiveBalanced'
  <2> SUFFICES ASSUME ~odd PROVE Balanced(live', depth)
    BY <1>2 DEF LiveBalanced, Balanced, OnlyTopPending, OpenBlocks, SeenOpenBrace, Top
  <2>1. Balanced(live, depth)
    BY DEF NestingInv, LiveBalanced
  <2>2. live \in Seq(Block) /\ Len(live) \in Nat
    BY LenProperties DEF NestingInv, TypeOK
  <2> DEFINE c == CountParentheses(live, line.toks)
  <2>3. c \in Seq(Block) /\ Len(c) = Len(live)
        /\ \A i \in 1..Len(live) : c[i].seen_open_brace = live[i].seen_open_brace
    BY <1>6
  <2>4. live' = live \/ live' = c
    BY <1>2
  <2> HIDE DEF c
  <2>5. OnlyTopPending(c)
    BY <2>1, <2>2, <2>3 DEF Balanced, OnlyTopPending
  <2>6. SeenOpenBrace(c) <=> SeenOpenBrace(live)
    BY <2>2, <2>3, EmptySeq DEF SeenOpenBrace, Top
  <2>7. Balanced(c, depth)
    BY <2>1, <2>3, <2>5, <2>6 DEF Balanced, OpenBlocks
  <2> QED BY <2>1, <2>4, <2>7
<1>13. UnfinishedCounted'
  BY <1>2 DEF UnfinishedCounted
<1> QED BY <1>9, <1>10, <1>12, <1>13 DEF NestingInv

\* A step of Update's loops: what it does to the stack it does to live.
LEMMA LoopStep ==
    ASSUME NestingInv, NEW s \in Seq(Block), NEW change \in Int, NEW isOdd \in BOOLEAN,
           Follow(s), FollowBraces(change, isOdd),
           pp_stack' = pp_stack, linenum' = linenum, unfinished' = unfinished,
           stack' \in Seq(Block), rest' \in Seq(Tokens), phase' \in {"heads", "braces"},
           stack = live => stack' = s,
           ~isOdd /\ Balanced(live, depth) => Balanced(s, depth + change)
    PROVE  NestingInv'
<1>1. LiveBalanced' /\ depth' \in Int /\ odd' \in BOOLEAN /\ live' \in Seq(Block)
  BY FollowBalanced DEF NestingInv
<1>2. TypeOK'
  BY <1>1 DEF NestingInv, TypeOK
<1>3. ElseTransparent'
  BY FollowElse DEF NestingInv
<1>5. UnfinishedCounted'
  BY DEF UnfinishedCounted
<1> QED BY <1>1, <1>2, <1>3, <1>5 DEF NestingInv

\* A namespace head, with its body if the line has the brace.
LEMMA NamespaceDeclStep ==
    ASSUME NestingInv, NamespaceDecl
    PROVE  NestingInv'
<1> DEFINE brace == Find(Tail(rest), {"{"})
           b == NamespaceInfo(brace # 0)
           change == IF brace # 0 THEN 1 ELSE 0
           isOdd == ~SeenOpenBrace(live) \/ brace > 1
<1>1. /\ stack' = Append(stack, b) /\ rest' = After(Tail(rest), brace)
      /\ Follow(Append(live, b)) /\ FollowBraces(change, isOdd)
      /\ rest # <<>> /\ phase' = "heads"
      /\ pp_stack' = pp_stack /\ linenum' = linenum /\ unfinished' = unfinished
  BY DEF NamespaceDecl, StartsWith
<1>2. /\ stack \in Seq(Block) /\ live \in Seq(Block) /\ rest \in Seq(Tokens) /\ depth \in Int
  BY DEF NestingInv, TypeOK
<1>3. Tail(rest) \in Seq(Tokens)
  BY <1>1, <1>2, RestType
<1>4. brace \in Nat /\ brace <= Len(Tail(rest))
  BY <1>3, FindType
<1>5. rest' \in Seq(Tokens)
  BY <1>1, <1>3, <1>4, AfterType
<1>6. b \in Block /\ b.inline_asm = "NO_ASM" /\ b.seen_open_brace = (brace # 0)
  BY NewBlockType DEF NamespaceInfo, NewBlock
<1>7. change \in Int /\ isOdd \in BOOLEAN
  OBVIOUS
<1> HIDE DEF brace, b
<1>8. /\ Append(stack, b) \in Seq(Block) /\ Append(live, b) \in Seq(Block)
  BY <1>2, <1>6, PushProps
<1>9. ASSUME ~isOdd, Balanced(live, depth)
      PROVE  Balanced(Append(live, b), depth + change)
  <2>1. SeenOpenBrace(live)
    BY <1>9
  <2>2. Balanced(Append(live, b), IF b.seen_open_brace THEN depth + 1 ELSE depth)
    BY <1>2, <1>6, <1>9, <2>1, PushProps
  <2>3. CASE brace # 0
    BY <1>2, <1>6, <2>2, <2>3
  <2>4. CASE brace = 0
    <3>1. ~b.seen_open_brace
      BY <1>6, <2>4
    <3>2. depth = depth + change
      BY <1>2, <2>4
    <3> QED BY <2>2, <3>1, <3>2
  <2> QED BY <2>3, <2>4
<1> HIDE DEF change, isOdd
<1> QED BY <1>1, <1>5, <1>7, <1>8, <1>9, LoopStep

\* A class head or an access label.
LEMMA ClassDeclStep ==
    ASSUME NestingInv, ClassDecl
    PROVE  NestingInv'
<1> DEFINE Moved(u) == WithAccess(ClassPushed(u, rest), ClassRest(u, rest))
           isOdd == IsClassDecl(live, rest) /\ ~SeenOpenBrace(live)
<1>1. /\ stack' = Moved(stack) /\ rest' = ClassRest(stack, rest)
      /\ Follow(Moved(live)) /\ FollowBraces(0, isOdd) /\ phase' = "braces"
      /\ pp_stack' = pp_stack /\ linenum' = linenum /\ unfinished' = unfinished
  BY DEF ClassDecl
<1>2. /\ stack \in Seq(Block) /\ live \in Seq(Block) /\ rest \in Seq(Tokens) /\ depth \in Int
  BY DEF NestingInv, TypeOK
<1>3. rest' \in Seq(Tokens)
  BY <1>1, <1>2, RestType DEF ClassRest, IsClassDecl, StartsWith
<1>4. isOdd \in BOOLEAN
  BY DEF IsClassDecl, StartsWith
<1>5. /\ ClassPushed(stack, rest) \in Seq(Block) /\ ClassPushed(live, rest) \in Seq(Block)
  BY <1>2, ClassPushedProps
<1>6. Moved(stack) \in Seq(Block) /\ Moved(live) \in Seq(Block)
  BY <1>5, WithAccessProps
<1>7. ASSUME ~isOdd, Balanced(live, depth)
      PROVE  Balanced(Moved(live), depth + 0)
  <2>1. Balanced(ClassPushed(live, rest), depth)
    BY <1>2, <1>7, ClassPushedProps
  <2>2. Balanced(Moved(live), depth)
    BY <1>2, <1>5, <2>1, WithAccessProps
  <2> QED BY <1>2, <2>2
<1>8. stack = live => stack' = Moved(live)
  BY <1>1
<1> DEFINE m == Moved(live)
<1>9. /\ stack' \in Seq(Block) /\ m \in Seq(Block)
      /\ Follow(m) /\ stack = live => stack' = m
  BY <1>1, <1>6, <1>8
<1>10. ~isOdd /\ Balanced(live, depth) => Balanced(m, depth + 0)
  BY <1>7
<1>11. Follow(m) /\ 0 \in Int
  BY <1>1
<1> HIDE DEF m, isOdd
<1> QED BY <1>1, <1>3, <1>4, <1>9, <1>10, <1>11, LoopStep

\* One brace, semicolon or closing parenthesis.
LEMMA ConsumeTokenStep ==
    ASSUME NestingInv, ConsumeToken
    PROVE  NestingInv'
<1> DEFINE i == Find(rest, BraceTokens)
           token == rest[i]
           change == CASE token = "{" -> 1 [] token = "}" -> -1 [] OTHER -> 0
           isOdd == token = "}" /\ (depth = 0 \/ ~SeenOpenBrace(live))
           m == AfterToken(live, token, rest)
<1>1. /\ stack' = AfterToken(stack, token, rest) /\ rest' = After(rest, i) /\ i # 0
      /\ Follow(m) /\ FollowBraces(change, isOdd) /\ phase' = "braces"
      /\ pp_stack' = pp_stack /\ linenum' = linenum /\ unfinished' = unfinished
  BY DEF ConsumeToken
<1>2. /\ stack \in Seq(Block) /\ live \in Seq(Block) /\ rest \in Seq(Tokens) /\ depth \in Int
  BY DEF NestingInv, TypeOK
<1>3. i \in Nat /\ i <= Len(rest)
  BY <1>2, FindType
<1>4. rest' \in Seq(Tokens)
  BY <1>1, <1>2, <1>3, AfterType
<1>5. change \in Int /\ isOdd \in BOOLEAN
  <2> HIDE DEF token
  <2>1. token = "{" => change = 1
    OBVIOUS
  <2>2. token = "}" => change = -1
    OBVIOUS
  <2>3. token # "{" /\ token # "}" => change = 0
    OBVIOUS
  <2>4. isOdd \in BOOLEAN
    OBVIOUS
  <2> HIDE DEF change, isOdd
  <2>5. 1 \in Int /\ -1 \in Int /\ 0 \in Int
    OBVIOUS
  <2>6. change \in Int
    BY <2>1, <2>2, <2>3, <2>5, Zenon
  <2> QED BY <2>4, <2>6
<1>6. stack = live => stack' = m
  BY <1>1
<1>7. /\ stack' \in Seq(Block) /\ m \in Seq(Block)
      /\ ~isOdd /\ Balanced(live, depth) => Balanced(m, depth + change)
  <2> HIDE DEF i, token
  <2>1. CASE token = "{"
    <3>1. /\ AfterToken(stack, token, rest) = OpenBrace(stack, rest)
          /\ m = OpenBrace(live, rest) /\ change = 1
      BY <2>1 DEF AfterToken
    <3> HIDE DEF m, change, isOdd
    <3> QED BY <1>1, <1>2, <3>1, OpenBraceProps
  <2>2. CASE token = "}"
    <3>1. /\ AfterToken(stack, token, rest) = CloseBrace(stack)
          /\ m = CloseBrace(live) /\ change = -1
      BY <2>2 DEF AfterToken
    <3>2. ~isOdd => depth # 0 /\ SeenOpenBrace(live)
      BY <2>2
    <3> HIDE DEF m, change, isOdd
    <3>3. ASSUME ~isOdd, Balanced(live, depth)
          PROVE  Balanced(m, depth + change)
      <4>1. Balanced(m, depth - 1)
        BY <1>2, <3>1, <3>2, <3>3, CloseBraceProps
      <4>2. depth - 1 = depth + change
        BY <1>2, <3>1
      <4> QED BY <4>1, <4>2
    <3> QED BY <1>1, <1>2, <3>1, <3>3, CloseBraceProps
  <2>3. CASE token # "{" /\ token # "}"
    <3>1. /\ AfterToken(stack, token, rest) = AbandonHead(stack)
          /\ m = AbandonHead(live) /\ change = 0
      BY <2>3 DEF AfterToken
    <3> HIDE DEF m, change, isOdd
    <3>2. ASSUME Balanced(live, depth)
          PROVE  Balanced(m, depth + change)
      <4>1. Balanced(m, depth)
        BY <1>2, <3>1, <3>2, AbandonHeadProps
      <4>2. depth = depth + change
        BY <1>2, <3>1
      <4> QED BY <4>1, <4>2
    <3> QED BY <1>1, <1>2, <3>1, <3>2, AbandonHeadProps
  <2> QED BY <2>1, <2>2, <2>3
<1> HIDE DEF m, change, isOdd
<1> QED BY <1>1, <1>4, <1>5, <1>6, <1>7, LoopStep

\* A step that leaves the stacks and the ghosts alone keeps what relates them.
LEMMA StacksKept ==
    ASSUME NestingInv, UNCHANGED <<stack, pp_stack, ghosts>>
    PROVE  ElseTransparent' /\ LiveBalanced'
<1>1. /\ stack' = stack /\ pp_stack' = pp_stack
      /\ live' = live /\ depth' = depth /\ odd' = odd
  BY DEF ghosts
<1>2. ElseTransparent'
  BY <1>1 DEF NestingInv, ElseTransparent, InElse
<1>4. LiveBalanced'
  BY <1>1 DEF NestingInv, LiveBalanced, Balanced, OnlyTopPending, OpenBlocks, SeenOpenBrace, Top
<1> QED BY <1>2, <1>4

\* The classes of a stack can be counted.
LEMMA ClassesType ==
    ASSUME NEW s \in Seq(Block)
    PROVE  Cardinality(Classes(s)) \in Nat
<1>1. IsFiniteSet(DOMAIN s)
  BY FS_Interval, LenProperties
<1>2. IsFiniteSet(Classes(s))
  BY <1>1, FS_Subset DEF Classes
<1> QED BY <1>2, FS_CardinalityType

\* Update reads lines, declarations and braces; CheckClassFinished comes last.
LEMMA NextNesting == NestingInv /\ [Next]_vars => NestingInv'
<1> SUFFICES ASSUME NestingInv, [Next]_vars PROVE NestingInv'
  OBVIOUS
<1>1. ASSUME NEW line \in Lines, ReadLine(line) PROVE NestingInv'
  BY <1>1, ReadLineStep
<1>2. CASE NamespaceDecl
  BY <1>2, NamespaceDeclStep
<1>3. CASE ClassDecl
  BY <1>3, ClassDeclStep
<1>4. CASE ConsumeToken
  BY <1>4, ConsumeTokenStep
<1>5. CASE EndLine
  <2>1. ElseTransparent' /\ LiveBalanced'
    BY <1>5, StacksKept DEF EndLine
  <2>2. rest' \in Seq(Tokens)
    BY <1>5, EmptySeq DEF EndLine
  <2>3. TypeOK'
    BY <1>5, <2>2 DEF EndLine, ghosts, NestingInv, TypeOK
  <2>4. UnfinishedCounted'
    BY <1>5 DEF EndLine, UnfinishedCounted
  <2> QED BY <2>1, <2>3, <2>4 DEF NestingInv
<1>6. CASE CheckClassFinished
  <2>1. ElseTransparent' /\ LiveBalanced'
    BY <1>6, StacksKept DEF CheckClassFinished
  <2>2. unfinished' \in Nat
    BY <1>6, ClassesType DEF CheckClassFinished, NestingInv, TypeOK
  <2>3. TypeOK'
    BY <1>6, <2>2 DEF CheckClassFinished, ghosts, NestingInv, TypeOK
  <2>4. UnfinishedCounted'
    BY <1>6 DEF CheckClassFinished, UnfinishedCounted, Classes
  <2> QED BY <2>1, <2>3, <2>4 DEF NestingInv
<1>7. CASE UNCHANGED vars
  <2>1. ElseTransparent' /\ LiveBalanced'
    BY <1>7, StacksKept DEF vars, ghosts
  <2>2. TypeOK'
    BY <1>7 DEF vars, NestingInv, TypeOK
  <2>3. UnfinishedCounted'
    BY <1>7 DEF vars, NestingInv, UnfinishedCounted, Classes
  <2> QED BY <2>1, <2>2, <2>3 DEF NestingInv
<1> QED BY <1>1, <1>2, <1>3, <1>4, <1>5, <1>6, <1>7 DEF Next

-----------------------------------------------------------------------------
(* Theorems *)

\* The invariant of _NestingState holds at every step of Update, for every
\* set of lines and every length of file.
THEOREM NestingInvariant == Spec => []NestingInv
BY InitNesting, NextNesting, PTL DEF Spec

\* Update keeps the type of every variable.
THEOREM NestingTypeCorrect == Spec => []TypeOK
<1>1. NestingInv => TypeOK
  BY DEF NestingInv
<1> QED BY <1>1, NestingInvariant, PTL

\* What Update reads between an #else and its #endif leaves no trace on the
\* stack that UpdatePreprocessor restores.
THEOREM NestingElseTransparent == Spec => []ElseTransparent
<1>1. NestingInv => ElseTransparent
  BY DEF NestingInv
<1> QED BY <1>1, NestingInvariant, PTL

\* Outside of #else branches Update's stack has one entry per open brace, and
\* CheckClassFinished reports no class of a file whose braces balance.
THEOREM NestingBlocksAreBraces == Spec => []BlocksAreBraces
<1>1. NestingInv => BlocksAreBraces
  <2> SUFFICES ASSUME NestingInv, ~odd, ~InElse(pp_stack)
               PROVE  /\ Balanced(stack, depth)
                      /\ phase = "done" /\ depth = 0 /\ SeenOpenBrace(stack) => unfinished = 0
    BY DEF BlocksAreBraces, Balanced
  <2>1. stack = live /\ stack \in Seq(Block)
    BY DEF NestingInv, TypeOK, ElseTransparent, InElse
  <2>2. Balanced(stack, depth)
    BY <2>1 DEF NestingInv, LiveBalanced
  <2>3. ASSUME phase = "done", depth = 0, SeenOpenBrace(stack)
        PROVE  unfinished = 0
    <3>1. stack = <<>>
      BY <2>1, <2>2, <2>3, EmptySeq DEF Balanced, OpenBlocks
    <3>2. Classes(stack) = {}
      BY <3>1 DEF Classes
    <3> QED BY <2>3, <3>2, FS_EmptySet DEF NestingInv, UnfinishedCounted
  <2> QED BY <2>2, <2>3
<1> QED BY <1>1, NestingInvariant, PTL
=============================================================================
