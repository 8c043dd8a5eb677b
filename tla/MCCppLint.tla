------------------------------ MODULE MCCppLint ------------------------------
(* Lines with each kind of mark, function part and complaint, in one or      *)
(* several files; in the longest file, those that matter for functions.      *)
EXTENDS CppLint

MCCategories == {NOLINT, FN_SIZE, NEWLINE, "build/include", "build/include_order", "build/class"}
MCPrefixed ==
    [t \in MCCategories \cup {"build"} |->
        CASE t = "build" -> {"build/include", "build/include_order", "build/class"}
          [] t = "build/include" -> {"build/include", "build/include_order"}
          [] OTHER -> {t}]
MCToplevel ==
    [c \in MCCategories |->
        CASE c \in MCPrefixed["build"] -> "build" [] c = NEWLINE -> "whitespace" [] OTHER -> "readability"]
Minus(t) == [sign |-> "-", text |-> t]
Plus(t) == [sign |-> "+", text |-> t]
MCDefaultFilters == <<Minus("build/class")>>

Err(cat, conf, when) == [cat |-> cat, conf |-> conf, when |-> when, ahead |-> 0]
Below(cat, conf, ahead) == [cat |-> cat, conf |-> conf, when |-> "now", ahead |-> ahead]
Line(nolint, alone, global, fn, asm, errs) ==
    [nolint |-> nolint, alone |-> alone, global |-> global, fn |-> fn, asm |-> asm, raises |-> FALSE,
     errs |-> errs]
Plain(fn) == Line("none", FALSE, "none", fn, FALSE, <<>>)

Ordered == Line("none", FALSE, "none", "code", FALSE, <<Err("build/include_order", 4, "now")>>)
Excused == Line("build/include", FALSE, "none", "nobody", FALSE,
                <<Err("build/include", 4, "now"), Err("build/include_order", 4, "now"),
                  Below("build/include", 4, 1), Err("build/include", 5, "open")>>)
Comment == Line("all", TRUE, "none", "blank", FALSE, <<Err("build/class", 5, "late")>>)
Global(g, fn) == Line("none", FALSE, g, fn, FALSE, <<>>)
Guard == Line("unknown", FALSE, "none", "blank", FALSE,
              <<Err("build/include", 5, "guard"), Err("build/include_order", 5, "early")>>)
Stray == [Line("none", FALSE, "none", "code", FALSE, <<>>) EXCEPT !.raises = TRUE]
Asm == Line("none", FALSE, "all", "code", TRUE, <<Err("build/include", 4, "now")>>)

MCLines == {Ordered, Excused, Comment, Global("build/include", "blank"), Global("unknown", "begin_test"), Guard, Asm, Stray,
            Plain("begin"), Plain("end")}
MCFunctionLines == {Ordered, Excused, Asm, Global("unknown", "begin_test"), Plain("begin"), Plain("end")}

File(readable, lintable, crlf, lines) ==
    [readable |-> readable, lintable |-> lintable, crlf |-> crlf, lines |-> lines]
FilesOf(kinds, n) == {File(TRUE, TRUE, FALSE, l) : l \in [1..n -> kinds]}
Others(n) == CASE n = 0 -> {File(FALSE, TRUE, FALSE, <<>>), File(TRUE, TRUE, TRUE, <<>>)}
               [] n = 1 -> {File(TRUE, FALSE, FALSE, <<Ordered>>)}
               [] OTHER -> {}
MCFiles ==
    [n \in 0..MaxTotal |->
        FilesOf(IF n <= 3 THEN MCLines ELSE MCFunctionLines, n) \cup Others(n)]

Lint(v, fs, c) == [kind |-> "lint", verbose |-> v, filters |-> fs, counting |-> c]
Other(kind) == [kind |-> kind, verbose |-> 1, filters |-> <<>>, counting |-> "total"]
MCArgs == {Lint(0, <<>>, "toplevel"),
           Lint(1, <<Minus("build"), Plus("build/include_order")>>, "total"),
           Lint(0, <<[sign |-> "none", text |-> "build"]>>, "total"),
           Other("usage"), Other("categories")}
===============================================================================
