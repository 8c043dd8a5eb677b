---------------------------- MODULE MCIncludeState ----------------------------
(* A C and two C++ system headers, the file's own header, two others.        *)
EXTENDS IncludeState

Hdr(name, sys, cpp, owned, related, rank, dir) ==
    [name |-> name, is_system |-> sys, is_cpp_h |-> cpp, owned |-> owned,
     related |-> related, own_module |-> owned, canonical |-> rank, has_dir |-> dir]

MCHeaders ==
    {Hdr("stdio.h", TRUE, FALSE, FALSE, FALSE, 6, FALSE),
     Hdr("map", TRUE, TRUE, FALSE, FALSE, 5, FALSE),
     Hdr("ext/list", TRUE, TRUE, FALSE, FALSE, 3, TRUE),
     Hdr("base/foo.h", FALSE, FALSE, TRUE, TRUE, 2, TRUE),
     Hdr("base/foo_util.h", FALSE, FALSE, FALSE, TRUE, 1, TRUE),
     Hdr("log/log.h", FALSE, FALSE, FALSE, FALSE, 4, TRUE)}
MCUses == {"map", "ext/list"}
MCOwnIncludes == {"map"}
===============================================================================
