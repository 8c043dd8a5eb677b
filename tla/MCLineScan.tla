------------------------------ MODULE MCLineScan ------------------------------
(* One alphabet for each search, with the characters it tells apart.         *)
EXTENDS LineScan

Texts(chars, max) == [chars |-> chars, max |-> max]

MCAlphabets ==
    {Texts({"(", ")"}, 9),
     Texts({"(", ")", "{", "}"}, 6),
     Texts({"<", ">", "(", ")", ",", ";"}, 6),
     Texts({"/", "*"}, 10),
     Texts({"/", "*", " ", "x"}, 6),
     Texts({" ", "{", "}", ";"}, 8)}
===============================================================================
