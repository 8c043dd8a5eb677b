------------------------------- MODULE LineScan -------------------------------
(***************************************************************************)
(* cpplint's searches in the text of a file: for the bracket that closes   *)
(* another (CloseExpression, _GetTextInside), for the partner of a < or >  *)
(* (FindNextMatchingAngleBracket, FindPreviousMatchingAngleBracket), for   *)
(* the end of a comment (RemoveMultiLineComments) and upwards for the      *)
(* statement that a closing brace belongs to (CheckBraces).                *)
(*                                                                         *)
(* They are functions of the lines of a file, each compared with a         *)
(* definition of what it looks for.  The state is the text, which grows by *)
(* one character of an alphabet at a time, so that a run sees every text   *)
(* of the alphabet up to a length.  Characters that a search does not tell *)
(* apart are one.  Lines and positions count from 1; where the code        *)
(* returns the position past a bracket, the position of the bracket is     *)
(* given.                                                                  *)
(***************************************************************************)
EXTENDS Integers, SequencesExt

CONSTANT Alphabets   \* pairs of a set of characters and the length of its texts

ASSUME AlphabetsAssumption == \A a \in Alphabets : a.max \in Nat

VARIABLES alphabet, lines

vars == <<alphabet, lines>>

Space == " "
LBrace == "{"
RBrace == "}"
Comma == ","
Semicolon == ";"

\* How many more brackets the positions i to j of s open than they close.
Depth(s, i, j, opening, closing) ==
    Cardinality({k \in i..j : s[k] \in opening}) - Cardinality({k \in i..j : s[k] \in closing})

Blank(line, i, j) == \A k \in i..j : line[k] = Space

-----------------------------------------------------------------------------
(* CloseExpression *)

Opening == {"(", LBrace, "["}
Closing == {")", RBrace, "]"}
EndChar(c) == CASE c = "(" -> ")" [] c = LBrace -> RBrace [] c = "[" -> "]"

Nowhere == <<0, 0>>
Delta(line, i, j, c) == Depth(line, i, j, {c}, {EndChar(c)})

\* The first end character that brings the depth to 0, or 0.
FindEndOfExpressionInLine(line, startpos, depth, c) ==
    LET ends == {i \in startpos..Len(line) :
                    line[i] = EndChar(c) /\ depth + Delta(line, startpos, i, c) = 0}
    IN  IF ends = {} THEN 0 ELSE Min(ends)

\* Slip: the first line is counted from its start.
NumOpenWhole(linenum, pos, n) ==
    FoldLeft(LAMBDA open, line : open + Delta(line, 1, Len(line), lines[linenum][pos]), 0,
             SubSeq(lines, linenum, n))

\* num_open after line n: what the first line and whole lines after it leave open.
NumOpen(linenum, pos, n) ==
    LET c == lines[linenum][pos]
    IN  FoldLeft(LAMBDA open, line : open + Delta(line, 1, Len(line), c),
                 Delta(lines[linenum], pos, Len(lines[linenum]), c), SubSeq(lines, linenum + 1, n))

CloseExpression(linenum, pos) ==
    LET c == lines[linenum][pos]
        here == FindEndOfExpressionInLine(lines[linenum], pos, 0, c)
        closing == {n \in (linenum + 1)..Len(lines) : NumOpen(linenum, pos, n) <= 0}
        n == Min(closing)
    IN  IF here > 0 THEN <<linenum, here>>
        ELSE IF closing = {} THEN Nowhere
        ELSE <<n, FindEndOfExpressionInLine(lines[n], 1, NumOpen(linenum, pos, n - 1), c)>>

-----------------------------------------------------------------------------
(* _GetTextInside *)

NoText == "None"

\* Slip: any closing punctuation ends the innermost level.
PunctuateAny(state, char) ==
    IF state.stack = <<>> THEN state
    ELSE LET next == [state EXCEPT !.position = @ + 1]
         IN  CASE char \in Closing -> [next EXCEPT !.stack = Front(@)]
               [] char \in Opening -> [next EXCEPT !.stack = Append(@, EndChar(char))]
               [] OTHER -> next

\* One character: the stack of expected closing punctuations, and whether a
\* closing one came without its opening one.
Punctuate(state, char) ==
    IF state.bad \/ state.stack = <<>> THEN state
    ELSE LET next == [state EXCEPT !.position = @ + 1]
         IN  CASE char = Last(state.stack) -> [next EXCEPT !.stack = Front(@)]
               [] char \in Closing /\ char # Last(state.stack) -> [state EXCEPT !.bad = TRUE]
               [] char \in Opening -> [next EXCEPT !.stack = Append(@, EndChar(char))]
               [] OTHER -> next

\* The text after the opening punctuation at position i of a line.
GetTextInside(text, i) ==
    LET end == FoldLeft(Punctuate, [stack |-> <<EndChar(text[i])>>, bad |-> FALSE, position |-> i],
                        SubSeq(text, i + 1, Len(text)))
    IN  IF end.bad \/ end.stack # <<>> THEN NoText ELSE SubSeq(text, i + 1, end.position - 1)

-----------------------------------------------------------------------------
(* FindNextMatchingAngleBracket and FindPreviousMatchingAngleBracket *)

Operators == {"<", ">", "(", ")", Comma, Semicolon, "[", "]"}

\* One character; those that are no operators are skipped.  An angle bracket is
\* expected after the bracket `same`; the operators of `deeper` open a further level, `angle` closes `same` and the
\* ones of `others` close a parenthesis or bracket.
Nest(state, operator, same, deeper, angle, others) ==
    LET expecting == Last(state.stack) = same
    IN  IF state.verdict # "open" \/ operator \notin Operators THEN state
        ELSE CASE operator \in deeper -> [state EXCEPT !.stack = Append(@, operator)]
               [] expecting /\ operator = angle ->
                    [stack |-> Front(state.stack),
                     verdict |-> IF Len(state.stack) = 1 THEN "yes" ELSE "open"]
               [] expecting /\ operator = Comma -> [state EXCEPT !.verdict = "yes"]
               [] expecting /\ operator \notin deeper \cup {angle, Comma} -> [state EXCEPT !.verdict = "no"]
               [] ~expecting /\ operator \in others -> [state EXCEPT !.stack = Front(@)]
               [] OTHER -> state

Text == FlattenSeq([n \in DOMAIN lines |-> Append(lines[n], "\n")])

\* Slip: parentheses and brackets inside the arguments are not expected.
NextVerdictAngles(text) ==
    FoldLeft(LAMBDA state, op : Nest(state, op, "<", {"<"}, ">", {")", "]"}),
             [stack |-> <<"<">>, verdict |-> "open"], text).verdict

NextVerdict(text) ==
    FoldLeft(LAMBDA state, op : Nest(state, op, "<", {"<", "(", "["}, ">", {")", "]"}),
             [stack |-> <<"<">>, verdict |-> "open"], text).verdict
PreviousVerdict(text) ==
    FoldLeft(LAMBDA state, op : Nest(state, op, ">", {">", ")", "]"}, "<", {"(", "["}),
             [stack |-> <<">">>, verdict |-> "open"], Reverse(text)).verdict

\* Without a decision at the end of the file the bracket is taken to match,
\* at its beginning it is not.
FindNextMatchingAngleBracket(text) == NextVerdict(text) # "no"
FindPreviousMatchingAngleBracket(text) == PreviousVerdict(text) = "yes"

-----------------------------------------------------------------------------
(* RemoveMultiLineComments *)

\* A /* and a */ at position i of a line.
CommentStart(line, i) == i + 1 \in DOMAIN line /\ line[i] = "/" /\ line[i + 1] = "*"
CommentEnd(line, i) == i + 1 \in DOMAIN line /\ line[i] = "*" /\ line[i + 1] = "/"

\* What the searches look for in a line, which strip() frees of its outer blanks.
StartsComment(line) ==
    \E i \in DOMAIN line : /\ Blank(line, 1, i - 1) /\ CommentStart(line, i)
                          /\ \A k \in (i + 2)..Len(line) : ~CommentEnd(line, k)
EndsComment(line) ==
    \E i \in DOMAIN line : CommentEnd(line, i) /\ Blank(line, i + 2, Len(line))

FirstOf(set) == IF set = {} THEN Len(lines) + 1 ELSE Min(set)

\* Slip: a comment that ends on its line counts as one that goes on.
FindAnyCommentStart(lineix) ==
    FirstOf({n \in lineix..Len(lines) :
                \E i \in DOMAIN lines[n] : Blank(lines[n], 1, i - 1) /\ CommentStart(lines[n], i)})

FindNextMultiLineCommentStart(lineix) == FirstOf({n \in lineix..Len(lines) : StartsComment(lines[n])})
FindNextMultiLineCommentEnd(lineix) == FirstOf({n \in lineix..Len(lines) : EndsComment(lines[n])})

\* One round of the loop.  It replaces the lines of a comment, or returns
\* (past the last line), with a complaint if the comment has no end.
RemoveNextComment(state) ==
    LET begin == FindNextMultiLineCommentStart(state.lineix)
        end == FindNextMultiLineCommentEnd(begin)
    IN  IF begin > Len(lines) THEN [state EXCEPT !.lineix = Len(lines) + 1]
        ELSE IF end > Len(lines)
             THEN [state EXCEPT !.lineix = Len(lines) + 1, !.unclosed = begin + 1]
             ELSE [state EXCEPT !.lineix = end + 1, !.removed = @ \cup begin..end]

\* The lines replaced and the line of the complaint (0: none).  A round goes
\* on by a line or more, so there are at most as many rounds as lines.
RemoveMultiLineComments ==
    FoldLeft(LAMBDA state, line : RemoveNextComment(state),
             [lineix |-> 1, removed |-> {}, unclosed |-> 0], lines)

-----------------------------------------------------------------------------
(* The ; after a } in CheckBraces *)

IsBlankLine(line) == Blank(line, 1, Len(line))

\* The line and its number, the empty line and 0 for the first one that is
\* not blank.
GetPreviousNonBlankLine(linenum) ==
    LET filled == {n \in 1..(linenum - 1) : ~IsBlankLine(lines[n])}
    IN  IF filled = {} THEN [line |-> <<>>, linenum |-> 0]
        ELSE [line |-> lines[Max(filled)], linenum |-> Max(filled)]

\* A line that starts with an indented brace; one that also has the closing
\* brace and a semicolon behind it.
IndentedBrace(line) ==
    \E i \in 2..Len(line) : line[i] = LBrace /\ Blank(line, 1, i - 1)
BracesThenSemicolon(line) ==
    \E i, j \in DOMAIN line : i < j /\ line[i] = RBrace /\ line[j] = Semicolon /\ Blank(line, i + 1, j - 1)
SemicolonAfterBraces(line) == IndentedBrace(line) /\ BracesThenSemicolon(line)

\* Slip: a semicolon in the line above does not stop the search.
SearchesAlways(line, prevline) == SemicolonAfterBraces(line)

\* Whether the loop goes on.
SearchesOn(line, prevline) == SemicolonAfterBraces(line) /\ Semicolon \notin Range(prevline)

\* line and prevlinenum after k rounds of the loop, if it has gone on so far.
\* A round goes up by a line or more, so after linenum rounds it is above the
\* first line.
JoinLines(linenum) ==
    LET joined[k \in 0..linenum] ==
            IF k = 0 THEN [line |-> lines[linenum], linenum |-> linenum]
            ELSE LET prev == GetPreviousNonBlankLine(joined[k - 1].linenum)
                 IN  [prev EXCEPT !.line = @ \o joined[k - 1].line]
    IN  joined

\* Whether the loop ends: above the first line it finds the empty line again
\* and again.
SearchEnds(linenum) ==
    \E k \in 0..linenum :
        LET joined == JoinLines(linenum)[k]
        IN  ~SearchesOn(joined.line, GetPreviousNonBlankLine(joined.linenum).line)

-----------------------------------------------------------------------------
(* The texts *)

Init == alphabet \in Alphabets /\ lines = <<<<>>>>

Length == Len(Text) - 1

AddCharacter(c) ==
    /\ Length < alphabet.max
    /\ lines' = [lines EXCEPT ![Len(lines)] = Append(@, c)]
    /\ UNCHANGED alphabet

AddLine ==
    /\ Length < alphabet.max
    /\ lines' = Append(lines, <<>>)
    /\ UNCHANGED alphabet

Next == (\E c \in alphabet.chars : AddCharacter(c)) \/ AddLine

Spec == Init /\ [][Next]_vars

-----------------------------------------------------------------------------
(* Properties *)

Places == UNION {{n} \X DOMAIN lines[n] : n \in DOMAIN lines}
Char(p) == lines[p[1]][p[2]]
Precedes(p, q) == p[1] < q[1] \/ (p[1] = q[1] /\ p[2] < q[2])

\* How many more brackets of p's kind are opened than closed from p to q.
Open(p, q) ==
    LET Seen(c) == {r \in Places : Char(r) = c /\ ~Precedes(r, p) /\ ~Precedes(q, r)}
    IN  Cardinality(Seen(Char(p))) - Cardinality(Seen(EndChar(Char(p))))

\* The bracket at q closes the one at p: it is the first place where as many
\* have been closed as opened.
Closes(p, q) ==
    /\ Precedes(p, q) /\ Char(q) = EndChar(Char(p)) /\ Open(p, q) = 0
    /\ \A r \in Places : Precedes(r, q) /\ ~Precedes(r, p) => Open(p, r) > 0

\* The line in which the expression ends opens more behind the end than it closes.
Reopened(p, q) == q[1] > p[1] /\ Delta(lines[q[1]], q[2] + 1, Len(lines[q[1]]), Char(p)) > 0

\* What CloseExpression, which counts whole lines, really returns: the bracket
\* that closes the expression, however many lines it spans, or none where there
\* is none; but if the line of that bracket opens another one behind it, the
\* search goes past it, although the docstring promises a "pointer *past* the
\* closing brace, or (line, len(lines), -1) if we never find a close".
CloseFindsMatch ==
    \A p \in Places : Char(p) \in Opening =>
        LET found == CloseExpression(p[1], p[2])
            ends == {q \in Places : Closes(p, q)}
        IN  /\ ends = {} => found = Nowhere
            /\ \A q \in ends :
                  IF Reopened(p, q) THEN found = Nowhere \/ found[1] > q[1] ELSE found = q

\* From position i to j no bracket is closed before one is opened, none stays
\* open, and each is closed by its partner, which is where the depth first
\* falls below that of the bracket.
WellNested(s, i, j, partner) ==
    LET depth(k) == Depth(s, i, k, DOMAIN partner, Range(partner))
    IN  /\ depth(j) = 0 /\ \A k \in i..j : depth(k) >= 0
        /\ \A k, m \in i..j :
              /\ k < m /\ s[k] \in DOMAIN partner
              /\ depth(m) < depth(k) /\ \A x \in k..(m - 1) : depth(x) >= depth(k)
              => s[m] = partner[s[k]]

Punctuation == [c \in Opening |-> EndChar(c)]

\* _GetTextInside returns what is between an opening punctuation and its
\* partner when the brackets of all kinds in between are properly nested, and
\* nothing otherwise.
TextInsideNested ==
    \A n \in DOMAIN lines : \A i \in DOMAIN lines[n] : lines[n][i] \in Opening =>
        LET line == lines[n]
            ends == {j \in (i + 1)..Len(line) : line[j] = EndChar(line[i])
                        /\ WellNested(line, i + 1, j - 1, Punctuation)}
        IN  GetTextInside(line, i) =
                IF ends = {} THEN NoText ELSE SubSeq(line, i + 1, Min(ends) - 1)

Template == [c \in {"<", "(", "["} |-> CASE c = "<" -> ">" [] c = "(" -> ")" [] c = "[" -> "]"]

\* A < and a > that enclose template arguments, properly nested, on one line
\* or on several, are recognised from both ends, so neither is reported as an
\* operator without spaces; a < that reaches a semicolon with no operator but <
\* in between (no bracket, comma or >) is recognised as an operator.
BracketsRecognised ==
    LET text == Text
        AfterText(i) == SubSeq(text, i + 1, Len(text))
    IN  /\ \A i, j \in DOMAIN text :
              /\ i < j /\ text[i] = "<" /\ text[j] = ">"
              /\ \A k \in i..j : text[k] # Semicolon
              /\ WellNested(text, i + 1, j - 1, Template)
              => /\ FindNextMatchingAngleBracket(AfterText(i))
                 /\ FindPreviousMatchingAngleBracket(SubSeq(text, 1, j - 1))
        /\ \A i, j \in DOMAIN text :
              /\ i < j /\ text[i] = "<" /\ text[j] = Semicolon
              /\ \A k \in i..(j - 1) : text[k] \in Operators => text[k] = "<"
              => ~FindNextMatchingAngleBracket(AfterText(i))

\* A C++ scanner, character by character and line by line.
Scan(s, c) ==
    CASE s.in = "code" /\ s.last = "/" /\ c = "*" -> [in |-> "comment", last |-> Space]
      [] s.in = "code" /\ s.last = "/" /\ c = "/" -> [in |-> "line", last |-> Space]
      [] s.in = "comment" /\ s.last = "*" /\ c = "/" -> [in |-> "code", last |-> Space]
      [] s.in = "line" /\ c = "\n" -> [in |-> "code", last |-> Space]
      [] OTHER -> [s EXCEPT !.last = c]
ScanLine(s, line) == FoldLeft(Scan, s, Append(line, "\n"))

\* The lines that start inside a comment; the last number stands for the end
\* of the file.
OpenLines ==
    {n \in 1..(Len(lines) + 1) :
        FoldLeft(ScanLine, [in |-> "code", last |-> Space], SubSeq(lines, 1, n - 1)).in = "comment"}

\* A comment over several lines starts at the start of a line and ends at the
\* end of one, and the line it starts in does not end like its last one (/*/).
ClearlyStructured(open) ==
    \A n \in DOMAIN lines :
        /\ n \notin open /\ n + 1 \in open =>
              StartsComment(lines[n]) /\ ~EndsComment(lines[n])
        /\ n \in open =>
              \A i \in DOMAIN lines[n] :
                  CommentEnd(lines[n], i) => Blank(lines[n], i + 2, Len(lines[n]))

\* Of a file whose comments are clearly structured exactly the lines of the
\* comments that span lines are replaced, and a comment is reported as
\* unclosed exactly when the file ends in it (at the line after its first).
\* (Where a comment ends in the middle of a line, code behind it is replaced
\* too, although the docstring is "Removes multiline (c-style) comments".)
CommentsRemoved ==
    LET open == OpenLines
        result == RemoveMultiLineComments
        commented == {n \in DOMAIN lines : n \in open \/ n + 1 \in open}
        endless == {n \in commented : n \notin open /\ (n + 1)..(Len(lines) + 1) \subseteq open}
    IN  ClearlyStructured(open) =>
            IF endless = {} THEN result.removed = commented /\ result.unclosed = 0
            ELSE /\ result.removed = {n \in commented : n < Min(endless)}
                 /\ result.unclosed = Min(endless) + 1

\* CheckBraces comes back for every line of a file, unless the file's first
\* lines that are not blank all start with an indented brace and have no
\* semicolon up to the one that has "};": there the search upwards never ends.
SearchUpEnds ==
    \A n \in DOMAIN lines :
        LET above == {m \in 1..(n - 1) : ~IsBlankLine(lines[m])}
        IN  SearchEnds(n) <=>
                \/ ~SemicolonAfterBraces(lines[n])
                \/ \E m \in above : ~IndentedBrace(lines[m]) \/ Semicolon \in Range(lines[m])
===============================================================================
