---------------------------- MODULE MCNestingState ----------------------------
(* Lines that open, close, declare and abandon blocks, alone and together.   *)
EXTENDS NestingState

Code(toks) == [pp |-> "none", toks |-> toks]
Pp(d) == [pp |-> d, toks |-> <<>>]

MCLines ==
    {Pp("if"), Pp("else"), Pp("endif"),
     Code(<<"namespace", "{">>),
     Code(<<"namespace">>),
     Code(<<"namespace", "{", "namespace", "{", "class", ";", "}", "}">>),
     Code(<<"class", "{">>),
     Code(<<"struct">>),
     Code(<<"class", ")", "{">>),
     Code(<<"private">>),
     Code(<<"{">>),
     Code(<<"}", ";">>),
     Code(<<"asm", "(">>),
     Code(<<")", ";">>),
     Code(<<"asm", "{">>)}
===============================================================================
