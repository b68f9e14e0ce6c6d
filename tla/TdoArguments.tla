---------------------------- MODULE TdoArguments ----------------------------
(***************************************************************************)
(* The command line (arguments.c): one step per turn of the loop, which    *)
(* takes an option with its value, a switch or a file name.  An error is   *)
(* remembered and the loop goes on; a later value replaces an earlier one. *)
(***************************************************************************)
EXTENDS Integers, Sequences, FiniteSetsExt

CONSTANTS
    ArgumentVectors,    \* the command lines, without the program's name
    Dashed,             \* the words that start with a dash
    Attached,           \* words such as -j2, each with the number behind -j
    Jobs,               \* what strtoul makes of the words it accepts whole
    Limits              \* what strtof makes of those it accepts: a number's
                        \* sign, "positive" or "negative" (or zero), or "nan"

ProcessMax == 2048
None == "none"

\* The options that take the next word, whatever it looks like.
Valued == {"-t", "-j", "-o", "--internal-status", "--timeout", "--format"}
Switches == {"-f", "-v", "-vv", "-x"}

\* None stands for NULL, which is no word.
ASSUME ArgumentAssumption ==
    /\ \A a \in ArgumentVectors : a \in Seq(STRING) /\ \A i \in 1..Len(a) : a[i] # None
    /\ Valued \cup Switches \cup DOMAIN Attached \subseteq Dashed
    /\ DOMAIN Attached \cap (Valued \cup Switches) = {}
    /\ \A w \in DOMAIN Jobs : Jobs[w] \in Nat
    /\ \A w \in DOMAIN Limits : Limits[w] \in {"positive", "negative", "nan"}

VARIABLES
    pc,
    argv, at,       \* the words and the place of the next one
    args,           \* struct TdoArguments
    result          \* "ok" or the kind of the error

Defaults ==
    [processes |-> 1, time_limit |-> "positive", single_test |-> None,
     test_file |-> None, output |-> None, internal_status |-> None,
     format |-> "human", verbosity |-> "none",
     overwrite |-> FALSE, stop_on_first_error |-> FALSE]

Flip(a, word) ==
    IF word = "-f" THEN [a EXCEPT !.overwrite = TRUE]
    ELSE IF word = "-x" THEN [a EXCEPT !.stop_on_first_error = TRUE]
    ELSE [a EXCEPT !.verbosity = IF word = "-v" THEN "minor" ELSE "major"]

ValidJobs(word) == word \in DOMAIN Jobs /\ Jobs[word] \in 1..ProcessMax

\* nan is not <= 0.
ValidLimit(word) == word \in DOMAIN Limits /\ Limits[word] # "negative"

Valid(option, value) ==
    /\ option = "-j" => ValidJobs(value)
    /\ option = "--timeout" => ValidLimit(value)
    /\ option = "--format" => value \in {"human", "json"}

Assign(a, option, value) ==
    IF option = "-j" THEN [a EXCEPT !.processes = Jobs[value]]
    ELSE IF option = "--timeout" THEN [a EXCEPT !.time_limit = Limits[value]]
    ELSE IF option = "--format" THEN [a EXCEPT !.format = value]
    ELSE IF option = "-t" THEN [a EXCEPT !.single_test = value]
    ELSE IF option = "-o" THEN [a EXCEPT !.output = value]
    ELSE [a EXCEPT !.internal_status = value]

Word == argv[at]
Parsing == pc = "arguments" /\ at <= Len(argv)

\* A slip: a good word after a bad one clears the error.
OutcomeForgotten(good) == IF good THEN "ok" ELSE "argument"

\* An error stays.
Outcome(good) == IF good THEN result ELSE "argument"

ArgumentsInit ==
    /\ argv \in ArgumentVectors
    /\ at = 1
    /\ args = Defaults
    /\ result = "ok"

TakeFile ==
    /\ Parsing /\ Word \notin Dashed
    /\ at' = at + 1
    /\ args' = IF args.test_file = None THEN [args EXCEPT !.test_file = Word] ELSE args
    /\ result' = Outcome(args.test_file = None)
    /\ UNCHANGED <<pc, argv>>

TakeSwitch ==
    /\ Parsing /\ Word \in Switches
    /\ at' = at + 1
    /\ args' = Flip(args, Word)
    /\ UNCHANGED <<pc, argv, result>>

TakeValue ==
    /\ Parsing /\ Word \in Valued /\ at < Len(argv)
    /\ LET value == argv[at + 1]
       IN  /\ args' = IF Valid(Word, value) THEN Assign(args, Word, value) ELSE args
           /\ result' = Outcome(Valid(Word, value))
    /\ at' = at + 2
    /\ UNCHANGED <<pc, argv>>

MissingValue ==
    /\ Parsing /\ Word \in Valued /\ at = Len(argv)
    /\ at' = at + 1
    /\ result' = Outcome(FALSE)
    /\ UNCHANGED <<pc, argv, args>>

TakeAttached ==
    /\ Parsing /\ Word \in DOMAIN Attached
    /\ LET value == Attached[Word]
       IN  /\ args' = IF ValidJobs(value) THEN Assign(args, "-j", value) ELSE args
           /\ result' = Outcome(ValidJobs(value))
    /\ at' = at + 1
    /\ UNCHANGED <<pc, argv>>

RefuseWord ==
    /\ Parsing
    /\ Word \in Dashed \ (Valued \cup Switches \cup DOMAIN Attached)
    /\ at' = at + 1
    /\ result' = Outcome(FALSE)
    /\ UNCHANGED <<pc, argv, args>>

\* The end of tdo_arguments_parse, and main's look at what it returned.
EndOfArguments ==
    /\ pc = "arguments" /\ at > Len(argv)
    /\ result' = Outcome(args.test_file = None \/ args.single_test = None)
    /\ pc' = IF result' = "ok" THEN "arena" ELSE "exit"
    /\ UNCHANGED <<argv, at, args>>

ParseArguments ==
    \/ TakeFile \/ TakeSwitch \/ TakeValue \/ MissingValue \/ TakeAttached
    \/ RefuseWord \/ EndOfArguments
=============================================================================
