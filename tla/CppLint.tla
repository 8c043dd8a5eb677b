------------------------------- MODULE CppLint -------------------------------
(***************************************************************************)
(* cpplint as a whole: the command line, the files one after the other,    *)
(* the lines of a file, and what becomes of a complaint: NOLINT            *)
(* suppressions, verbosity, filters and GLOBAL_NOLINT, the error counts    *)
(* and the exit status.  _FunctionState, whose complaint depends on all    *)
(* lines of a function, is part of it.                                     *)
(*                                                                         *)
(* What the other checks find in a line is given with the line: a          *)
(* complaint has a category, a confidence and the moment its check runs:   *)
(*   "early"  before the lines are processed (CheckForCopyright, a         *)
(*            missing header guard)                                        *)
(*   "guard"  then too, but after the NOLINT of its line is parsed         *)
(*            (the style of the header guard)                              *)
(*   "open"   after these (RemoveMultiLineComments, a missing #endif)      *)
(*   "now"    while its line is processed (all checks of one line)         *)
(*   "late"   after all lines (CheckClassFinished,                         *)
(*            CheckForIncludeWhatYouUse, CheckForNewlineAtEOF)             *)
(* It is about that line or one further down (CheckEmptyLoopBody reports   *)
(* where the condition of the loop ends).  A line also has its NOLINT and  *)
(* GLOBAL_NOLINT marks, its part in a function, whether _NestingState      *)
(* takes it for inline assembly and whether CheckIncludeLine raises an     *)
(* IndexError on it (an #else or #endif without an #if, module             *)
(* IncludeState); its complaints are those made before that.               *)
(*                                                                         *)
(* texts and calls belong to no object of the program: the files named so  *)
(* far and all complaints, with what was printed of them.                  *)
(***************************************************************************)
EXTENDS Integers, SequencesExt

CONSTANTS Categories,      \* _ERROR_CATEGORIES
          Prefixed,        \* of a filter's text: the categories that start with it
          Toplevel,        \* of a category: its part before the slash
          DefaultFilters,  \* _DEFAULT_FILTERS
          Files,           \* of n: the files of n lines that may be named
          Args,            \* the options of the command line
          MaxFiles,        \* bound: files on the command line
          MaxTotal,        \* bound: lines and ends of all files together
          NormalTrigger,   \* _FunctionState._NORMAL_TRIGGER
          TestTrigger      \* _FunctionState._TEST_TRIGGER

NOLINT == "readability/nolint"
FN_SIZE == "readability/fn_size"
NEWLINE == "whitespace/newline"

ASSUME CategoriesAssumption ==
    /\ {NOLINT, FN_SIZE, NEWLINE} \subseteq Categories
    /\ DOMAIN Toplevel = Categories
    /\ \A c \in Categories : c \in DOMAIN Prefixed /\ c \in Prefixed[c]
ASSUME MarksAssumption == {"none", "unknown", "all"} \cap Categories = {}
\* Only _FunctionState and CheckForFunctionLengths complain of the size of a function.
ASSUME FilesAssumption ==
    LET Mark == {"none", "unknown", "all"} \cup Categories
        Err  == [cat : Categories \ {FN_SIZE}, conf : Nat, when : STRING, ahead : Nat]
        Line == [nolint : Mark, alone : BOOLEAN, global : Mark, fn : STRING, asm : BOOLEAN,
                 raises : BOOLEAN, errs : Seq(Err)]
    IN  \A n \in DOMAIN Files :
            Files[n] \subseteq [readable : BOOLEAN, lintable : BOOLEAN, crlf : BOOLEAN, lines : Seq(Line)]
ASSUME FiltersAssumption ==
    LET Filter == [sign : {"+", "-", "none"}, text : DOMAIN Prefixed]
    IN  DefaultFilters \in Seq(Filter) /\ \A a \in Args : a.filters \in Seq(Filter)
ASSUME VerboseAssumption == \A a \in Args : a.verbose \in Nat  \* the usage text: "a number 0-5"
ASSUME TriggersAssumption == NormalTrigger \in Nat \ {0} /\ TestTrigger \in Nat \ {0}
ASSUME BoundsAssumption == MaxFiles \in Nat /\ MaxTotal \in Nat

VARIABLES
    status,              \* "start", "idle" between files, "file" in one, "exited"
    exit_status,
    argv,                \* the command line
    verbose_level, filters, counting, error_count, errors_by_category,  \* _CppLintState
    error_suppressions,  \* pairs of a category, or "all", and a line
    in_a_function, lines_in_function, base_trigger,   \* _FunctionState
    linenum,             \* the last line processed, 0 before the first
    texts, calls

options == <<argv, verbose_level, counting>>
counts == <<error_count, errors_by_category, calls>>
functionVars == <<in_a_function, lines_in_function, base_trigger>>
fileVars == <<error_suppressions, functionVars, linenum>>
vars == <<status, exit_status, options, filters, counts, fileVars, texts>>

-----------------------------------------------------------------------------
(* _ShouldPrintError and Error *)

IsErrorSuppressedByNolint(supp, cat, line) == {<<cat, line>>, <<"all", line>>} \cap supp # {}

\* Slip: a filter is not overridden by a later one.
FilteredByAny(fs, cat) == \E i \in DOMAIN fs : cat \in Prefixed[fs[i].text] /\ fs[i].sign = "-"

\* The filters in order, each overriding the ones before it.
IsFiltered(fs, cat) ==
    FoldLeft(LAMBDA filtered, f : IF cat \in Prefixed[f.text] THEN f.sign = "-" ELSE filtered,
             FALSE, fs)

ShouldPrintError(c, supp, fs) ==
    /\ ~IsErrorSuppressedByNolint(supp, c.cat, c.line)
    /\ c.conf >= verbose_level
    /\ ~IsFiltered(fs, c.cat)

Complaint(cat, conf, line) == [cat |-> cat, conf |-> conf, line |-> line]

\* Complaints made while line `at` of file number `file` is processed.
Called(cs, file, at, supp, fs) ==
    [i \in DOMAIN cs |-> [file |-> file, at |-> at, cat |-> cs[i].cat, conf |-> cs[i].conf,
                          line |-> cs[i].line, printed |-> ShouldPrintError(cs[i], supp, fs)]]

PrintedOf(cs) == {i \in DOMAIN cs : cs[i].printed}

\* The category a complaint is counted under.
CountedAs(cat) == IF counting = "toplevel" THEN Toplevel[cat] ELSE cat
Counters == Categories \cup {Toplevel[c] : c \in Categories}

IncrementErrorCount(cs) ==
    /\ error_count' = error_count + Cardinality(PrintedOf(cs))
    /\ errors_by_category' =
          IF counting = "total" THEN errors_by_category
          ELSE [k \in Counters |->
                  errors_by_category[k]
                    + Cardinality({i \in PrintedOf(cs) : CountedAs(cs[i].cat) = k})]

Error(cs) == IncrementErrorCount(cs) /\ calls' = calls \o cs

-----------------------------------------------------------------------------
(* NOLINT *)

\* Slip: a NOLINT always speaks of its own line.
TargetSame(line, n) == n

\* A line that is nothing but a NOLINT comment speaks of the next line.
Target(line, n) == IF line.alone THEN n + 1 ELSE n

NolintSuppressions(line, n) ==
    IF line.nolint \in {"none", "unknown"} THEN {} ELSE {<<line.nolint, Target(line, n)>>}
NolintComplaints(line, n) ==
    IF line.nolint = "unknown" THEN <<Complaint(NOLINT, 5, Target(line, n))>> ELSE <<>>

\* The elements of s that are in P, in their order.
Only(s, P) == FoldLeft(LAMBDA kept, x : IF x \in P THEN Append(kept, x) ELSE kept, <<>>, s)

\* GLOBAL_NOLINT: the search ends at the first mark without a known category.
LastSearched(lines) ==
    LET ends == {n \in DOMAIN lines : lines[n].global \in {"all", "unknown"}}
    IN  IF ends = {} THEN Len(lines) ELSE Min(ends)
GlobalMarks(lines, kinds) ==
    LET marks == [n \in 1..LastSearched(lines) |-> [mark |-> lines[n].global, line |-> n]]
    IN  Only(marks, {m \in Range(marks) : m.mark \in kinds})
GlobalFilters(lines) ==
    LET known == GlobalMarks(lines, Categories)
    IN  [i \in DOMAIN known |-> [sign |-> "-", text |-> known[i].mark]]
GlobalComplaints(lines) ==
    LET unknown == GlobalMarks(lines, {"unknown"})
    IN  [i \in DOMAIN unknown |-> Complaint(NOLINT, 5, unknown[i].line)]

-----------------------------------------------------------------------------
(* What the checks find *)

FoundIn(line, n, when) ==
    LET found == Only(line.errs, {e \in Range(line.errs) : e.when = when})
    IN  [i \in DOMAIN found |-> Complaint(found[i].cat, found[i].conf, n + found[i].ahead)]
Found(lines, when) == FlattenSeq([n \in DOMAIN lines |-> FoundIn(lines[n], n, when)])

\* The lines of the header guard whose style is wrong: their NOLINT is parsed
\* here, and again when the line is processed.
GuardLines(lines) == {n \in DOMAIN lines : FoundIn(lines[n], n, "guard") # <<>>}
GuardSuppressions(lines) == UNION {NolintSuppressions(lines[n], n) : n \in GuardLines(lines)}
GuardComplaints(lines) ==
    FlattenSeq([n \in DOMAIN lines |->
        IF n \in GuardLines(lines)
        THEN NolintComplaints(lines[n], n) \o FoundIn(lines[n], n, "guard") ELSE <<>>])

-----------------------------------------------------------------------------
(* _FunctionState and CheckForFunctionLengths *)

PowerOfTwo[k \in Nat] == IF k = 0 THEN 1 ELSE 2 * PowerOfTwo[k - 1]
FloorLog2(n) == CHOOSE k \in 0..n : PowerOfTwo[k] <= n /\ n < PowerOfTwo[k + 1]

FunctionTrigger(base) == base * PowerOfTwo[verbose_level]
ErrorLevel(lines, base) == Min({5, FloorLog2(lines \div base)})

\* Slip: a body of just the allowed size is reported.
CheckEarly(n) ==
    IF lines_in_function >= FunctionTrigger(base_trigger)
    THEN <<Complaint(FN_SIZE, ErrorLevel(Max({lines_in_function, base_trigger}), base_trigger), n)>>
    ELSE <<>>

Check(n) ==
    IF lines_in_function > FunctionTrigger(base_trigger)
    THEN <<Complaint(FN_SIZE, ErrorLevel(lines_in_function, base_trigger), n)>> ELSE <<>>

FunctionComplaints(line, n) ==
    CASE line.fn = "end" -> Check(n)
      [] line.fn = "nobody" -> <<Complaint(FN_SIZE, 5, n)>>
      [] OTHER -> <<>>

Begin(base) == in_a_function' = TRUE /\ lines_in_function' = 0 /\ base_trigger' = base
End == in_a_function' = FALSE /\ UNCHANGED <<lines_in_function, base_trigger>>
Count ==
    /\ lines_in_function' = IF in_a_function THEN lines_in_function + 1 ELSE lines_in_function
    /\ UNCHANGED <<in_a_function, base_trigger>>

UpdateFunction(fn) ==
    CASE fn = "begin" -> Begin(NormalTrigger)
      [] fn = "begin_test" -> Begin(TestTrigger)
      [] fn = "end" -> End
      [] fn = "code" -> Count
      [] OTHER -> UNCHANGED functionVars

-----------------------------------------------------------------------------
(* The command line *)

Init ==
    /\ status = "start" /\ exit_status = 0 /\ argv \in Args
    /\ verbose_level = 1 /\ filters = DefaultFilters /\ counting = "total"
    /\ error_count = 0 /\ errors_by_category = [k \in Counters |-> 0]
    /\ error_suppressions = {}
    /\ in_a_function = FALSE /\ lines_in_function = 0 /\ base_trigger = NormalTrigger
    /\ linenum = 0 /\ texts = <<>> /\ calls = <<>>

\* Wrong options and --help print the usage, an empty --filter the categories.
PrintUsage ==
    /\ status = "start" /\ argv.kind \in {"usage", "categories"}
    /\ status' = "exited"
    /\ exit_status' = IF argv.kind = "usage" THEN 1 ELSE 0
    /\ UNCHANGED <<options, filters, counts, fileVars, texts>>

ValidFilters(fs) == \A i \in DOMAIN fs : fs[i].sign \in {"+", "-"}

\* A filter without a sign raises a ValueError that nothing catches.
ParseArguments ==
    /\ status = "start" /\ argv.kind = "lint"
    /\ verbose_level' = argv.verbose
    /\ filters' = DefaultFilters \o argv.filters
    /\ IF ValidFilters(filters')
       THEN status' = "idle" /\ counting' = argv.counting /\ UNCHANGED exit_status
       ELSE status' = "exited" /\ exit_status' = 1 /\ UNCHANGED counting
    /\ UNCHANGED <<argv, counts, fileVars, texts>>

-----------------------------------------------------------------------------
(* ProcessFile *)

TotalLines == FoldLeft(LAMBDA n, f : n + Len(f.lines) + 1, 0, texts)

NextFile(f) ==
    /\ status = "idle" /\ Len(texts) < MaxFiles
    /\ texts' = Append(texts, f)

\* The file cannot be opened, or its extension is not one of C++.
SkipFile(f) ==
    /\ ~(f.readable /\ f.lintable)
    /\ NextFile(f)
    /\ UNCHANGED <<status, exit_status, options, filters, counts, fileVars>>

\* Slip: the suppressions of the file before stay.
Remembered == error_suppressions

Forgotten == {}  \* ResetNolintSuppressions

\* ProcessFileData up to the loop over the lines.  The complaint about
\* GLOBAL_NOLINT comes before the suppressions of the last file are forgotten.
OpenFile(f) ==
    LET file == Len(texts) + 1
        supp == Forgotten \cup GuardSuppressions(f.lines)
    IN  /\ f.readable /\ f.lintable
        /\ NextFile(f)
        /\ filters' = filters \o GlobalFilters(f.lines)
        /\ Error(Called(GlobalComplaints(f.lines), file, 0, error_suppressions, filters')
                 \o Called(Found(f.lines, "early"), file, 0, Forgotten, filters')
                 \o Called(GuardComplaints(f.lines) \o Found(f.lines, "open"), file, 0, supp, filters'))
        /\ error_suppressions' = supp
        /\ in_a_function' = FALSE /\ lines_in_function' = 0 /\ base_trigger' = NormalTrigger
        /\ status' = "file" /\ linenum' = 0
        /\ UNCHANGED <<exit_status, options>>

CurrentFile == texts[Len(texts)]
CurrentLines == CurrentFile.lines

\* CheckIncludeLine pops a scope that is not there.
Raises(line) == line.raises /\ ~line.asm

\* A line of inline assembly is looked at for NOLINT only.  Nothing catches
\* what a check raises: the interpreter ends the run with status 1 at once.
ProcessLine ==
    LET n == linenum + 1
        line == CurrentLines[n]
        supp == error_suppressions \cup NolintSuppressions(line, n)
        checks == FunctionComplaints(line, n) \o FoundIn(line, n, "now")
        all == NolintComplaints(line, n) \o (IF line.asm THEN <<>> ELSE checks)
    IN  /\ status = "file" /\ linenum < Len(CurrentLines)
        /\ linenum' = n
        /\ error_suppressions' = supp
        /\ Error(Called(all, Len(texts), n, supp, filters))
        /\ IF line.asm THEN UNCHANGED functionVars ELSE UpdateFunction(line.fn)
        /\ IF Raises(line) THEN status' = "exited" /\ exit_status' = 1
           ELSE UNCHANGED <<status, exit_status>>
        /\ UNCHANGED <<options, filters, texts>>

\* ProcessFile's own complaint about carriage returns.
CarriageReturn == IF CurrentFile.crlf THEN <<Complaint(NEWLINE, 1, 0)>> ELSE <<>>

\* The checks after the loop over the lines.
FinishFile ==
    LET late == Found(CurrentLines, "late") \o CarriageReturn
    IN  /\ status = "file" /\ linenum = Len(CurrentLines)
        /\ Error(Called(late, Len(texts), linenum + 1, error_suppressions, filters))
        /\ status' = "idle"
        /\ UNCHANGED <<exit_status, options, filters, fileVars, texts>>

\* main after the last of its files; without any, ParseArguments had exited.
Exit ==
    /\ status = "idle" /\ texts # <<>>
    /\ status' = "exited"
    /\ exit_status' = IF error_count > 0 THEN 1 ELSE 0
    /\ UNCHANGED <<options, filters, counts, fileVars, texts>>

Next ==
    \/ PrintUsage
    \/ ParseArguments
    \/ \E n \in DOMAIN Files : /\ TotalLines + n < MaxTotal
                               /\ \E f \in Files[n] : SkipFile(f) \/ OpenFile(f)
    \/ ProcessLine
    \/ FinishFile
    \/ Exit

Spec == Init /\ [][Next]_vars

-----------------------------------------------------------------------------
(* Properties *)

\* Does the text of a file ask to suppress the category on the line?
NolintOn(lines, n, cat) ==
    \E m \in DOMAIN lines :
        lines[m].nolint \in {"all", cat} /\ n = IF lines[m].alone THEN m + 1 ELSE m

\* Do the options filter the category out: is the last filter that matches a "-"?
OptionOff(cat) ==
    LET fs == DefaultFilters \o argv.filters
        matching == {i \in DOMAIN fs : cat \in Prefixed[fs[i].text]}
    IN  matching # {} /\ fs[Max(matching)].sign = "-"

\* Does a GLOBAL_NOLINT of this file or of one before it name the category,
\* or a prefix of it?
GlobalOff(file, cat) ==
    \E k \in 1..file : \E n \in DOMAIN texts[k].lines :
        LET lines == texts[k].lines
        IN  /\ texts[k].readable /\ texts[k].lintable
            /\ lines[n].global \in Categories /\ cat \in Prefixed[lines[n].global]
            /\ \A m \in 1..(n - 1) : lines[m].global \notin {"all", "unknown"}

Audible(e) == e.conf >= argv.verbose /\ ~OptionOff(e.cat) /\ ~GlobalOff(e.file, e.cat)
OfGlobalMark(e) == e.at = 0 /\ e.cat = NOLINT /\ texts[e.file].lines[e.line].global = "unknown"

\* A complaint that passes the verbosity, the options and the GLOBAL_NOLINT
\* marks of its own file and of all files before (filters are never taken
\* back) is swallowed only by a NOLINT of its own file: the suppressions of
\* one file silence nothing that ProcessFileData finds in a later one once it
\* has reset them.  The complaint about a GLOBAL_NOLINT comes before the reset
\* and is left out here: a NOLINT of the file before may swallow it.
SilenceHasReason ==
    \A i \in DOMAIN calls : LET e == calls[i] IN
        ~e.printed /\ ~OfGlobalMark(e) =>
            ~Audible(e) \/ NolintOn(texts[e.file].lines, e.line, e.cat)

\* What is printed passes the verbosity, the options and every GLOBAL_NOLINT
\* with a known category that the search has reached so far, and no NOLINT
\* speaks of it, for every complaint made at its own line or later.  (A bare
\* GLOBAL_NOLINT suppresses nothing, see GlobalSuppressesAll.  A NOLINT on a
\* line not yet processed comes too late, although the usage text says that it
\* "suppresses errors of all categories on that line".)
NolintHonoured ==
    \A i \in DOMAIN calls : LET e == calls[i] IN
        e.printed => /\ Audible(e)
                     /\ e.line <= e.at => ~NolintOn(texts[e.file].lines, e.line, e.cat)

Linted(k) == texts[k].readable /\ texts[k].lintable
Crashed == \E k \in DOMAIN texts : Linted(k) /\ \E n \in DOMAIN texts[k].lines : Raises(texts[k].lines[n])
Printed == {i \in DOMAIN calls : calls[i].printed}

\* What the checks of the lines find in file k, as the text has it.
FoundInText(k) ==
    LET lines == texts[k].lines
        Now(n) == {e \in Range(lines[n].errs) : e.when = "now"}
    IN  UNION {{[file |-> k, at |-> n, cat |-> e.cat, conf |-> e.conf, line |-> n + e.ahead] : e \in Now(n)} :
                    n \in {m \in DOMAIN lines : ~lines[m].asm}}

\* What an exit status says of the texts.  After 0 every file that is not
\* skipped was checked to its end, and whatever the checks of a line find in
\* it is filtered out, below the verbosity or excused by a NOLINT of the same
\* file.  After 1, once files are named, something was printed or a check
\* raised an exception.
ExitTells ==
    status = "exited" /\ texts # <<>> =>
        /\ exit_status = 0 =>
              /\ ~Crashed
              /\ \A k \in DOMAIN texts : Linted(k) =>
                    \A e \in FoundInText(k) : ~Audible(e) \/ NolintOn(texts[k].lines, e.line, e.cat)
        /\ exit_status = 1 => Crashed \/ Printed # {}

LinesOf(lines, kinds) == {n \in DOMAIN lines : lines[n].fn \in kinds /\ ~lines[n].asm}
Starts(lines, n) == {b \in LinesOf(lines, {"begin", "begin_test"}) : b < n}
\* The closing brace of the last function that begins before line n.
Closing(lines, n) == Min({m \in LinesOf(lines, {"end"}) : m > Max(Starts(lines, n))})
BodySize(lines, n) ==
    Cardinality({m \in LinesOf(lines, {"code"}) : Max(Starts(lines, n)) < m /\ m < Closing(lines, n)})
TriggerOf(line) == IF line.fn = "begin" THEN NormalTrigger ELSE TestTrigger

Processed(k, n) == Linted(k) /\ (k < Len(texts) \/ n <= linenum)

\* The closing brace of a function is reported for function size exactly when
\* the body is too long for the verbosity, asm lines and other functions not
\* counted; and the report is never lost because its confidence, computed from
\* the size, is below the verbosity.  (A later unindented brace repeats the
\* report of the last function, also of one whose last line has a NOLINT, which
\* the docstring says "disables this check": such braces are not in here.)
FnSizeByBody ==
    \A k \in DOMAIN texts : \A n \in LinesOf(texts[k].lines, {"end"}) :
        LET lines == texts[k].lines
            reports == {i \in DOMAIN calls : calls[i].file = k /\ calls[i].at = n /\ calls[i].cat = FN_SIZE}
        IN  Processed(k, n) /\ Starts(lines, n) # {} /\ n = Closing(lines, n) =>
                /\ reports # {} <=>
                      BodySize(lines, n) > TriggerOf(lines[Max(Starts(lines, n))]) * PowerOfTwo[argv.verbose]
                /\ argv.verbose <= 5 => \A i \in reports : calls[i].conf >= argv.verbose

-----------------------------------------------------------------------------
(* What a comment says, and the code does not *)

\* The comment in ParseGlobalNolintSuppressions on GLOBAL_NOLINT without a
\* category, "suppress all": nothing is printed of a file with one.
GlobalSuppressesAll ==
    \A i \in DOMAIN calls : LET lines == texts[calls[i].file].lines IN
        calls[i].printed => \A n \in 1..LastSearched(lines) : lines[n].global # "all"
==============================================================================
