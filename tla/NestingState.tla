----------------------------- MODULE NestingState -----------------------------
(***************************************************************************)
(* cpplint's _NestingState: the stack of namespaces, classes and other     *)
(* blocks that encloses the line being checked, and the stack of           *)
(* preprocessor conditions with the checkpoints of the nesting stack.      *)
(*                                                                         *)
(* A line of the elided source is its directive, if it is one, and the     *)
(* tokens the parser reacts to, in order; names and all other text are     *)
(* left out.  "class" and "struct" stand for a head the class regexp       *)
(* accepts, "asm" for the keyword with its qualifiers.  Update handles one *)
(* line: ReadLine is its first part (UpdatePreprocessor, parentheses,      *)
(* inline assembly), NamespaceDecl one iteration of its first loop,        *)
(* ClassDecl the part between the loops and ConsumeToken one iteration of  *)
(* its second loop.  Nothing runs between these steps.                     *)
(*                                                                         *)
(* The variables live, depth and odd belong to no object of the program:   *)
(* they follow the text outside of #else branches.                         *)
(***************************************************************************)
EXTENDS Integers, Sequences, FiniteSets

CONSTANTS Lines,      \* the lines a file is made of
          MaxLines    \* bound: lines in a file

AccessLabels == {"public", "protected", "private"}
Tokens == {"namespace", "class", "struct", "asm", "(", ")", "{", "}", ";"} \cup AccessLabels
Directives == {"none", "if", "else", "endif"}

ASSUME LinesAssumption ==
    \A l \in Lines : l.pp \in Directives /\ l.toks \in Seq(Tokens)
ASSUME MaxLinesAssumption == MaxLines \in Nat

VARIABLES
    stack,      \* _NestingState.stack, innermost block last
    pp_stack,   \* _NestingState.pp_stack
    rest,       \* what is left of the line in Update
    phase,      \* where Update is: "line" between two lines, "done" after the last
    linenum,    \* lines read
    unfinished, \* classes CheckClassFinished reports
    live,       \* ghost: the stack of the text outside #else branches
    depth,      \* ghost: opening minus closing braces of that text
    odd         \* ghost: that text has a head without body before another head or a }

nestVars == <<stack, pp_stack, rest, phase, linenum, unfinished>>
ghosts == <<live, depth, odd>>
vars == <<stack, pp_stack, rest, phase, linenum, unfinished, live, depth, odd>>

Kinds == {"namespace", "class", "block"}
AsmStates == {"NO_ASM", "INSIDE_ASM", "END_ASM", "BLOCK_ASM"}
Block == [kind : Kinds, seen_open_brace : BOOLEAN, open_parentheses : Int,
          inline_asm : AsmStates, access : AccessLabels \cup {"none"}]
PreprocessorInfo == [stack_before_if : Seq(Block), stack_before_else : Seq(Block),
                     seen_else : BOOLEAN]

Top(s) == s[Len(s)]
Pop(s) == SubSeq(s, 1, Len(s) - 1)
ReplaceTop(s, b) == [s EXCEPT ![Len(s)] = b]

-----------------------------------------------------------------------------
(* The blocks *)

NewBlock(kind, seen, access) ==
    [kind |-> kind, seen_open_brace |-> seen, open_parentheses |-> 0,
     inline_asm |-> "NO_ASM", access |-> access]

BlockInfo == NewBlock("block", TRUE, "none")
NamespaceInfo(seen) == NewBlock("namespace", seen, "none")
ClassInfo(class_or_struct) ==
    NewBlock("class", FALSE, IF class_or_struct = "struct" THEN "public" ELSE "private")

SeenOpenBrace(s) == s = <<>> \/ Top(s).seen_open_brace

Init ==
    /\ stack = <<>> /\ pp_stack = <<>>
    /\ rest = <<>> /\ phase = "line" /\ linenum = 0 /\ unfinished = 0
    /\ live = <<>> /\ depth = 0 /\ odd = FALSE

-----------------------------------------------------------------------------
(* UpdatePreprocessor *)

NewInfo == [stack_before_if |-> stack, stack_before_else |-> <<>>, seen_else |-> FALSE]

\* Slip: every #elif overwrites the checkpoint.
RememberEachElse(info) == [info EXCEPT !.seen_else = TRUE, !.stack_before_else = stack]

\* The first #else or #elif keeps the stack that will be valid after the #endif.
RememberElse(info) ==
    IF info.seen_else THEN info
    ELSE [info EXCEPT !.seen_else = TRUE, !.stack_before_else = stack]

PpStackAfter(pp) ==
    CASE pp = "if" -> Append(pp_stack, NewInfo)
      [] pp = "else" /\ pp_stack # <<>> -> ReplaceTop(pp_stack, RememberElse(Top(pp_stack)))
      [] pp = "endif" /\ pp_stack # <<>> -> Pop(pp_stack)
      [] OTHER -> pp_stack

StackAfter(pp) ==
    CASE pp = "else" /\ pp_stack # <<>> -> Top(pp_stack).stack_before_if
      [] pp = "endif" /\ pp_stack # <<>> /\ Top(pp_stack).seen_else ->
            Top(pp_stack).stack_before_else
      [] OTHER -> stack

-----------------------------------------------------------------------------
(* Update *)

Occurrences(tok, toks) == Cardinality({i \in DOMAIN toks : toks[i] = tok})
DepthChange(toks) == Occurrences("(", toks) - Occurrences(")", toks)
MatchAsm(toks) == Len(toks) >= 2 /\ toks[1] = "asm" /\ toks[2] \in {"(", "{"}

\* Whether the innermost block is inside an assembly statement after a line
\* that leaves it with `open` parentheses.
NextAsm(asm, open, toks) ==
    CASE asm \in {"NO_ASM", "END_ASM"} ->
            IF DepthChange(toks) # 0 /\ open = 1 /\ MatchAsm(toks)
            THEN "INSIDE_ASM" ELSE "NO_ASM"
      [] asm = "INSIDE_ASM" /\ open = 0 -> "END_ASM"
      [] OTHER -> asm

CountParentheses(s, toks) ==
    IF s = <<>> THEN s
    ELSE LET open == Top(s).open_parentheses + DepthChange(toks)
         IN  ReplaceTop(s, [Top(s) EXCEPT
                !.open_parentheses = open,
                !.inline_asm = NextAsm(@, open, toks)])

InElse(pps) == \E i \in DOMAIN pps : pps[i].seen_else

ReadLine(line) ==
    /\ phase = "line" /\ linenum < MaxLines
    /\ pp_stack' = PpStackAfter(line.pp)
    /\ stack' = CountParentheses(StackAfter(line.pp), line.toks)
    /\ rest' = line.toks
    /\ phase' = "heads" /\ linenum' = linenum + 1
    /\ live' = IF InElse(pp_stack') THEN live ELSE CountParentheses(live, line.toks)
    /\ UNCHANGED <<unfinished, depth, odd>>

\* The position of the first of some tokens in the rest of the line, 0 for none.
IsFirst(toks, set, i) == toks[i] \in set /\ \A j \in 1..(i - 1) : toks[j] \notin set
Find(toks, set) ==
    IF \E i \in DOMAIN toks : IsFirst(toks, set, i)
    THEN CHOOSE i \in DOMAIN toks : IsFirst(toks, set, i)
    ELSE 0
After(toks, i) == SubSeq(toks, i + 1, Len(toks))
StartsWith(toks, set) == toks # <<>> /\ Head(toks) \in set

\* Of the text outside #else branches: step `s` applies to live as to stack.
Follow(s) == live' = IF InElse(pp_stack) THEN live ELSE s
FollowBraces(change, isOdd) ==
    /\ depth' = IF InElse(pp_stack) THEN depth ELSE depth + change
    /\ odd' = (odd \/ (~InElse(pp_stack) /\ isOdd))

\* "namespace" at the start of what is left of the line; the body starts at
\* the next brace of the line, whatever is in between.
NamespaceDecl ==
    LET brace == Find(Tail(rest), {"{"})
        NsPushed(s) == Append(s, NamespaceInfo(brace # 0))
    IN  /\ phase = "heads" /\ StartsWith(rest, {"namespace"})
        /\ stack' = NsPushed(stack)
        /\ rest' = After(Tail(rest), brace)
        /\ Follow(NsPushed(live))
        /\ FollowBraces(IF brace # 0 THEN 1 ELSE 0, ~SeenOpenBrace(live) \/ brace > 1)
        /\ UNCHANGED <<pp_stack, phase, linenum, unfinished>>

IsClassDecl(s, toks) ==
    /\ StartsWith(toks, {"class", "struct"})
    /\ s = <<>> \/ Top(s).open_parentheses = 0

WithAccess(s, toks) ==
    IF s # <<>> /\ Top(s).kind = "class" /\ StartsWith(toks, AccessLabels)
    THEN ReplaceTop(s, [Top(s) EXCEPT !.access = Head(toks)])
    ELSE s

\* The stack after the class head or the access label the line starts with,
\* and what is left of the line.
ClassPushed(s, toks) ==
    IF IsClassDecl(s, toks) THEN Append(s, ClassInfo(Head(toks))) ELSE s
ClassRest(s, toks) == IF IsClassDecl(s, toks) THEN Tail(toks) ELSE toks

ClassDecl ==
    /\ phase = "heads" /\ ~StartsWith(rest, {"namespace"})
    /\ stack' = WithAccess(ClassPushed(stack, rest), ClassRest(stack, rest))
    /\ rest' = ClassRest(stack, rest)
    /\ phase' = "braces"
    /\ Follow(WithAccess(ClassPushed(live, rest), ClassRest(live, rest)))
    /\ FollowBraces(0, IsClassDecl(live, rest) /\ ~SeenOpenBrace(live))
    /\ UNCHANGED <<pp_stack, linenum, unfinished>>

BraceTokens == {"{", ";", ")", "}"}

OpenBrace(s, toks) ==
    IF SeenOpenBrace(s)
    THEN Append(s, [BlockInfo EXCEPT !.inline_asm = IF MatchAsm(toks) THEN "BLOCK_ASM" ELSE @])
    ELSE ReplaceTop(s, [Top(s) EXCEPT !.seen_open_brace = TRUE])

\* Slip: the test for a head without its brace is missing.
AbandonAny(s) == IF s = <<>> THEN s ELSE Pop(s)

\* A forward declaration, or a struct in the arguments of a function.
AbandonHead(s) == IF SeenOpenBrace(s) THEN s ELSE Pop(s)

CloseBrace(s) == IF s = <<>> THEN s ELSE Pop(s)

AfterToken(s, token, toks) ==
    CASE token = "{" -> OpenBrace(s, toks)
      [] token = "}" -> CloseBrace(s)
      [] OTHER -> AbandonHead(s)

ConsumeToken ==
    LET i == Find(rest, BraceTokens)
        token == rest[i]
    IN  /\ phase = "braces" /\ i # 0
        /\ stack' = AfterToken(stack, token, rest)
        /\ rest' = After(rest, i)
        /\ Follow(AfterToken(live, token, rest))
        /\ FollowBraces(CASE token = "{" -> 1 [] token = "}" -> -1 [] OTHER -> 0,
                        token = "}" /\ (depth = 0 \/ ~SeenOpenBrace(live)))
        /\ UNCHANGED <<pp_stack, phase, linenum, unfinished>>

\* The loop finds no further brace: Update returns.
EndLine ==
    /\ phase = "braces" /\ Find(rest, BraceTokens) = 0
    /\ rest' = <<>> /\ phase' = "line"
    /\ UNCHANGED <<stack, pp_stack, linenum, unfinished, ghosts>>

Classes(s) == {i \in DOMAIN s : s[i].kind = "class"}

\* All lines are processed: every class still on the stack is reported.
CheckClassFinished ==
    /\ phase = "line"
    /\ unfinished' = Cardinality(Classes(stack))
    /\ phase' = "done"
    /\ UNCHANGED <<stack, pp_stack, rest, linenum, ghosts>>

Next ==
    \/ \E line \in Lines : ReadLine(line)
    \/ NamespaceDecl
    \/ ClassDecl
    \/ ConsumeToken
    \/ EndLine
    \/ CheckClassFinished

Spec == Init /\ [][Next]_vars

-----------------------------------------------------------------------------
(* Properties *)

\* Every variable has its type.
TypeOK ==
    /\ stack \in Seq(Block) /\ live \in Seq(Block)
    /\ pp_stack \in Seq(PreprocessorInfo)
    /\ rest \in Seq(Tokens)
    /\ phase \in {"line", "heads", "braces", "done"}
    /\ linenum \in 0..MaxLines /\ unfinished \in Nat
    /\ depth \in Int /\ odd \in BOOLEAN

\* The code between an #else or #elif and its #endif leaves no trace on the
\* stack (the assumption in UpdatePreprocessor): outside all of these branches
\* the stack is the one the rest of the text alone builds, and inside it is
\* the checkpoint of the outermost #else, for every nesting of conditions,
\* repeated #elif and unmatched directives.
ElseTransparent ==
    \/ ~InElse(pp_stack) /\ stack = live
    \/ \E i \in DOMAIN pp_stack :
          /\ pp_stack[i].seen_else /\ \A j \in 1..(i - 1) : ~pp_stack[j].seen_else
          /\ live = pp_stack[i].stack_before_else

OnlyTopPending(s) == \A i \in 1..(Len(s) - 1) : s[i].seen_open_brace
OpenBlocks(s) == IF SeenOpenBrace(s) THEN Len(s) ELSE Len(s) - 1

\* As long as every head in the text is followed by its body, a semicolon or
\* a closing parenthesis, the stack has one entry per open brace, plus one for
\* a head whose brace has not come yet: a forward declaration, a struct
\* argument or a brace on a later line does not unbalance it, and
\* CheckClassFinished complains about no class of a file whose braces balance.
BlocksAreBraces ==
    ~odd /\ ~InElse(pp_stack) =>
        /\ OnlyTopPending(stack) /\ OpenBlocks(stack) = depth
        /\ phase = "done" /\ depth = 0 /\ SeenOpenBrace(stack) => unfinished = 0
===============================================================================
