----------------------------- MODULE IncludeState -----------------------------
(***************************************************************************)
(* cpplint's _IncludeState: the includes of a file, kept per preprocessor  *)
(* scope.  include_state is a list of references to scopes; every scope    *)
(* ever pushed stays in all_scoped_include_state, from where get_all       *)
(* collects the headers for the include-what-you-use check at the end.     *)
(*                                                                         *)
(* A header stands for an #include line: the path, whether it is written   *)
(* with <>, and what _ClassifyInclude and the alphabetical order look at.  *)
(* The wording of the messages and the checks of the path's spelling are   *)
(* left out.                                                               *)
(*                                                                         *)
(* log, branches and unbalanced belong to no object of the program: log is *)
(* what was said about each #include line, branches the #if, #else or      *)
(* #elif lines that enclose the current line (0: none), unbalanced whether *)
(* an #else or #endif came without its #if.  All three are about the lines *)
(* that ProcessLine hands to CheckLanguage: on a line inside inline        *)
(* assembly it returns before, so that a directive there counts for none   *)
(* of them, and a condition that begins in an assembly statement and ends  *)
(* behind it is unbalanced.                                                *)
(***************************************************************************)
EXTENDS Integers, Sequences, FiniteSets

CONSTANTS Headers,      \* the #include lines a file may have
          OwnIncludes,  \* the headers that the file's own header includes
          Uses,         \* the headers that a line of code may call for
          MaxLines      \* bound: lines in a file

Names == {h.name : h \in Headers}
Types == {"C_SYS", "CPP_SYS", "LIKELY_MY", "POSSIBLE_MY", "OTHER"}
HeaderRecord == [name : Names, is_system : BOOLEAN, is_cpp_h : BOOLEAN,
                 owned : BOOLEAN, related : BOOLEAN, own_module : BOOLEAN,
                 canonical : Nat \ {0}, has_dir : BOOLEAN]

ASSUME HeadersAssumption == Headers \subseteq HeaderRecord
ASSUME UsesAssumption == OwnIncludes \subseteq Names /\ Uses \subseteq Names
ASSUME MaxLinesAssumption == MaxLines \in Nat

VARIABLES
    include_state,             \* indices of the scopes on the list, innermost last
    all_scoped_include_state,  \* every scope ever pushed
    used,                      \* the lines of code so far that call for a header
    extension, header_readable,\* the file's extension; whether its own header can be opened
    linenum, status,           \* lines read; "reading", "crashed" or "done"
    reported,                  \* headers CheckForIncludeWhatYouUse asks for
    log, branches, unbalanced

vars == <<include_state, all_scoped_include_state, used, extension, header_readable,
          linenum, status, reported, log, branches, unbalanced>>
fileVars == <<extension, header_readable>>

-----------------------------------------------------------------------------
(* _ScopedIncludeState *)

Sections == 0..4
INITIAL_SECTION == 0
MY_H_SECTION == 1
C_SECTION == 2
CPP_SECTION == 3
OTHER_H_SECTION == 4

\* A canonicalized path is its rank in alphabetical order; the empty path is
\* below all others and has no directory.
NoHeader == [canonical |-> 0, has_dir |-> FALSE]
LastHeader(h) == [canonical |-> h.canonical, has_dir |-> h.has_dir]

Scope == [included : SUBSET Names, section : Sections,
          last_header : [canonical : Nat, has_dir : BOOLEAN], last_line : Nat]

ScopedIncludeState ==
    [included |-> {}, section |-> INITIAL_SECTION, last_header |-> NoHeader, last_line |-> 0]

ClassifyInclude(h) ==
    CASE h.is_system /\ h.is_cpp_h -> "CPP_SYS"
      [] h.is_system /\ ~h.is_cpp_h -> "C_SYS"
      [] ~h.is_system /\ h.owned -> "LIKELY_MY"
      [] ~h.is_system /\ ~h.owned /\ h.related -> "POSSIBLE_MY"
      [] OTHER -> "OTHER"

\* Slip: a second header of the same section counts as out of order.
OutOfOrderAgain(section, type) ==
    \/ type = "C_SYS" /\ section >= C_SECTION
    \/ type = "CPP_SYS" /\ section >= CPP_SECTION

\* "Found ... after ...": a system header below the current section.
OutOfOrder(section, type) ==
    \/ type = "C_SYS" /\ section > C_SECTION
    \/ type = "CPP_SYS" /\ section > CPP_SECTION

\* The section after a header of this type.
NextSection(section, type) ==
    IF OutOfOrder(section, type) THEN section
    ELSE CASE type = "C_SYS" -> C_SECTION
           [] type = "CPP_SYS" -> CPP_SECTION
           [] type \in {"LIKELY_MY", "POSSIBLE_MY"} /\ section <= MY_H_SECTION -> MY_H_SECTION
           [] OTHER -> OTHER_H_SECTION

\* Slip: the last header of the section before is kept.
OrderedKeeping(scope, type) == [scope EXCEPT !.section = NextSection(scope.section, type)]

\* CheckNextIncludeOrder: the scope after it.
Ordered(scope, type) ==
    LET next == NextSection(scope.section, type)
    IN  [scope EXCEPT
            !.section = next,
            !.last_header = IF OutOfOrder(scope.section, type) \/ next # scope.section
                            THEN NoHeader ELSE @]

\* CheckIncludeAlphabeticalOrder: its complaint, and the scope after it.
AlphaError(scope, h, line) ==
    CASE line # scope.last_line + 1 -> "none"
      [] line = scope.last_line + 1 /\ h.has_dir = scope.last_header.has_dir
            /\ h.canonical < scope.last_header.canonical -> "include_alpha"
      [] line = scope.last_line + 1 /\ ~h.has_dir /\ scope.last_header.has_dir -> "include_order"
      [] OTHER -> "none"

Placed(scope, h, line) == [scope EXCEPT !.last_header = LastHeader(h), !.last_line = line]

-----------------------------------------------------------------------------
(* CheckIncludeLine *)

Top(s) == s[Len(s)]
Pop(s) == SubSeq(s, 1, Len(s) - 1)

Branch == IF branches = <<>> THEN 0 ELSE Top(branches)

Init ==
    /\ include_state = <<>> /\ all_scoped_include_state = <<>>
    /\ used = {} /\ reported = {}
    /\ extension \in {"h", "cc", "cpp"} /\ header_readable \in BOOLEAN
    /\ linenum = 0 /\ status = "reading"
    /\ log = <<>> /\ branches = <<>> /\ unbalanced = FALSE

AtLine == status = "reading" /\ linenum < MaxLines /\ linenum' = linenum + 1

\* push: the new scope is the last of all.
Pushed(list) == Append(list, Len(all_scoped_include_state) + 1)

If ==
    /\ AtLine
    /\ include_state' = Pushed(include_state)
    /\ all_scoped_include_state' = Append(all_scoped_include_state, ScopedIncludeState)
    /\ branches' = Append(branches, linenum')
    /\ UNCHANGED <<used, fileVars, status, reported, log, unbalanced>>

\* Slip: the scope of the branch before stays on the list.
BesideTop == Pushed(include_state)

\* A new scope in place of the innermost one.
InPlaceOfTop == Pushed(Pop(include_state))

\* #else and #elif.  pop() of an empty list raises an IndexError that nothing
\* catches.
Else ==
    /\ AtLine
    /\ IF include_state = <<>>
       THEN status' = "crashed" /\ UNCHANGED <<include_state, all_scoped_include_state>>
       ELSE /\ include_state' = InPlaceOfTop
            /\ all_scoped_include_state' = Append(all_scoped_include_state, ScopedIncludeState)
            /\ UNCHANGED status
    /\ branches' = IF branches = <<>> THEN branches ELSE Append(Pop(branches), linenum')
    /\ unbalanced' = (unbalanced \/ branches = <<>>)
    /\ UNCHANGED <<used, fileVars, reported, log>>

Endif ==
    /\ AtLine
    /\ IF include_state = <<>>
       THEN status' = "crashed" /\ UNCHANGED include_state
       ELSE include_state' = Pop(include_state) /\ UNCHANGED status
    /\ branches' = IF branches = <<>> THEN branches ELSE Pop(branches)
    /\ unbalanced' = (unbalanced \/ branches = <<>>)
    /\ UNCHANGED <<all_scoped_include_state, used, fileVars, reported, log>>

\* The list and the scopes once a scope is there for the #include line.
StateForInclude ==
    IF include_state = <<>> THEN Pushed(include_state) ELSE include_state
ScopesForInclude ==
    IF include_state = <<>> THEN Append(all_scoped_include_state, ScopedIncludeState)
    ELSE all_scoped_include_state

Entry(h, scope) ==
    LET dup == h.name \in scope.included
    IN  [line |-> linenum + 1, header |-> h, branch |-> Branch, dup |-> dup,
         order |-> ~dup /\ OutOfOrder(scope.section, ClassifyInclude(h)),
         alpha |-> IF dup THEN "none"
                   ELSE AlphaError(Ordered(scope, ClassifyInclude(h)), h, linenum + 1)]

\* Slip: the header is not recorded.
AfterIncludeForgotten(scope, h) == Placed(Ordered(scope, ClassifyInclude(h)), h, linenum + 1)

\* A header seen before in the scope is reported and changes nothing.
AfterInclude(scope, h) ==
    IF h.name \in scope.included THEN scope
    ELSE [Placed(Ordered(scope, ClassifyInclude(h)), h, linenum + 1)
             EXCEPT !.included = @ \cup {h.name}]

Include(h) ==
    LET top == Top(StateForInclude)
        scope == ScopesForInclude[top]
    IN  /\ AtLine
        /\ include_state' = StateForInclude
        /\ all_scoped_include_state' = [ScopesForInclude EXCEPT ![top] = AfterInclude(@, h)]
        /\ log' = Append(log, Entry(h, scope))
        /\ UNCHANGED <<used, fileVars, status, reported, branches, unbalanced>>

\* A line CheckIncludeLine is not called for; its text may call for a header
\* of the STL, which the check at the end of the file looks for in all lines.
Unlisted(names) ==
    /\ AtLine
    /\ used' = used \cup names
    /\ UNCHANGED <<include_state, all_scoped_include_state, fileVars, status, reported,
                   log, branches, unbalanced>>

\* Neither a directive nor an #include.
CodeLine(names) == Unlisted(names)

\* Inside inline assembly, whatever the line is: directives and #includes
\* reach neither the list nor the scopes.
AsmLine(names) == Unlisted(names)

-----------------------------------------------------------------------------
(* The end of the file: CheckForIncludeWhatYouUse *)

\* Slip: only the scopes still on the list.
GetAllOnList ==
    UNION {all_scoped_include_state[include_state[i]].included : i \in DOMAIN include_state}

GetAll == UNION {all_scoped_include_state[i].included : i \in DOMAIN all_scoped_include_state}

IsSourceFile == extension \in {"cc", "cpp"}
FilesBelongToSameModule(h) == extension = "cc" /\ h.own_module
HeaderFound ==
    \E h \in Headers : h.name \in GetAll /\ FilesBelongToSameModule(h) /\ header_readable

\* UpdateIncludeState adds what the own header includes.
Included == GetAll \cup (IF HeaderFound THEN OwnIncludes ELSE {})

CheckForIncludeWhatYouUse ==
    /\ status = "reading"
    /\ status' = "done"
    /\ reported' = IF IsSourceFile /\ ~HeaderFound THEN {} ELSE used \ Included
    /\ UNCHANGED <<include_state, all_scoped_include_state, used, fileVars, linenum,
                   log, branches, unbalanced>>

Next ==
    \/ If \/ Else \/ Endif
    \/ \E h \in Headers : Include(h)
    \/ \E names \in SUBSET Uses : CodeLine(names) \/ AsmLine(names)
    \/ CheckForIncludeWhatYouUse

Spec == Init /\ [][Next]_vars

-----------------------------------------------------------------------------
(* Properties *)

LogEntry == [line : 1..MaxLines, header : Headers, branch : 0..MaxLines, dup : BOOLEAN,
             order : BOOLEAN, alpha : {"none", "include_alpha", "include_order"}]

\* Every variable has its type, and the list refers to scopes that exist.
TypeOK ==
    /\ all_scoped_include_state \in Seq(Scope)
    /\ include_state \in Seq(1..Len(all_scoped_include_state))
    /\ used \subseteq Names /\ reported \subseteq Names
    /\ extension \in {"h", "cc", "cpp"} /\ header_readable \in BOOLEAN
    /\ linenum \in 0..MaxLines /\ status \in {"reading", "crashed", "done"}
    /\ log \in Seq(LogEntry) /\ branches \in Seq(1..MaxLines) /\ unbalanced \in BOOLEAN

\* If the directives outside inline assembly are balanced, the list holds one
\* scope per enclosing condition, below them at most the scope of the file
\* itself, each scope only once, and pop() never raises.
ScopesMatchConditions ==
    ~unbalanced =>
        /\ Len(include_state) - Len(branches) \in {0, 1}
        /\ \A i, j \in DOMAIN include_state : i < j => include_state[i] < include_state[j]
        /\ status # "crashed"

EarlierInBranch(i) == {j \in 1..(i - 1) : log[j].branch = log[i].branch}

\* A header is called a duplicate exactly when an #include of the same path
\* stands before it in the same branch of the same condition; includes of
\* other branches, of the enclosing text and inside inline assembly do not
\* count.
DuplicatesPerBranch ==
    ~unbalanced => \A i \in DOMAIN log :
        log[i].dup <=> \E j \in EarlierInBranch(i) : log[j].header.name = log[i].header.name

Type(i) == ClassifyInclude(log[i].header)
First(i) == {j \in EarlierInBranch(i) : ~log[j].dup}
IsMy(i) == Type(i) \in {"LIKELY_MY", "POSSIBLE_MY"}

\* The place of an #include in the preferred order, by what precedes it.
Rank(i) ==
    CASE Type(i) = "C_SYS" -> 2
      [] Type(i) = "CPP_SYS" -> 3
      [] IsMy(i) /\ (\A j \in First(i) : IsMy(j)) -> 1
      [] OTHER -> 4

\* A C or C++ system header is called out of order exactly when it is the
\* first of its path in its branch and a header of a later kind precedes it
\* there; duplicates and other branches do not count.  The comment in
\* CheckIncludeLine, "complains if we see a lower type after that", promises
\* it for the file's own header too, which is never complained of.
SystemHeadersInOrder ==
    ~unbalanced => \A i \in DOMAIN log :
        Type(i) \in {"C_SYS", "CPP_SYS"} =>
            (log[i].order <=> ~log[i].dup /\ \E j \in First(i) : Rank(j) > Rank(i))

Highest(i) == {j \in First(i) : \A k \in First(i) : Rank(k) <= Rank(j)}

\* A header is compared only with the header on the line just before, in the
\* same branch, and only if it belongs to the section reached by then, that is
\* if its rank is the highest seen.  The header before may be of an earlier
\* section: a system header out of order is kept as _last_header all the same.
\* A duplicate is not compared and nothing is compared with it.
AlphaWithLineBefore ==
    ~unbalanced => \A i \in DOMAIN log :
        log[i].alpha # "none" <=>
            /\ ~log[i].dup
            /\ \E j \in First(i) :
                  /\ log[j].line = log[i].line - 1
                  /\ \A k \in Highest(i) : Rank(k) = Rank(i)
                  /\ \/ /\ log[j].header.has_dir = log[i].header.has_dir
                        /\ log[j].header.canonical > log[i].header.canonical
                     \/ log[j].header.has_dir /\ ~log[i].header.has_dir

Written == {log[i].header.name : i \in DOMAIN log}
OwnWritten == \E h \in Headers : h.own_module /\ h.name \in Written

\* Whatever branch a header was included in, also one that is closed by now,
\* it counts for include-what-you-use: exactly the headers are asked for that
\* are used and included neither by the file (outside inline assembly) nor by
\* its own header; a source file whose own header is not found is not judged,
\* nor is any .cpp file.
AsksForMissing ==
    status = "done" =>
        reported = CASE extension = "h" -> used \ Written
                     [] extension = "cc" /\ OwnWritten /\ header_readable ->
                            used \ (Written \cup OwnIncludes)
                     [] OTHER -> {}
===============================================================================
