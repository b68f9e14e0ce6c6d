------------------------------- MODULE MCMain -------------------------------
(* Small instances of main and its command line. *)
EXTENDS TdoMainProperties

Options == {"-t", "-j", "-o", "--internal-status", "--timeout", "--format",
            "-f", "-v", "-x", "-h", "-j2", "-j0", "-z"}
AllDashed == Options \cup {"-vv", "--help"}
Plain == {"2", "0", "4096", "nan", "json"}
Words == Options \cup Plain

AttachedJobs == [w \in {"-j2", "-j0"} |-> IF w = "-j2" THEN "2" ELSE "0"]
SomeJobs == [w \in {"2", "0", "4096"} |->
                IF w = "2" THEN 2 ELSE IF w = "0" THEN 0 ELSE 4096]
SomeLimits == [w \in {"2", "0", "4096", "nan"} |->
                IF w = "0" THEN "negative" ELSE IF w = "nan" THEN "nan" ELSE "positive"]

\* All command lines of up to three words, and longer ones that name every file.
ShortLines == UNION {[1..n -> Words] : n \in 0..3}
LongLines ==
    { <<"-o", "2">> \o rest : rest \in [1..2 -> {"-f", "-x", "json", "-t", "-o"}] }
        \cup { <<"--internal-status", "2", "-o", "0", "-f", "json">>,
               <<"-j", "2", "-j", "0", "--timeout", "nan">>,
               <<"--internal-status", "2", "-t", "json", "--format", "json">> }
CommandLines == ShortLines \cup LongLines
=============================================================================
