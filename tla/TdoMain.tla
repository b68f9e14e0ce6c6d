------------------------------ MODULE TdoMain ------------------------------
(***************************************************************************)
(* main: what it acquires, in which order, the labels its errors jump to   *)
(* and what each label releases.  Reading the tests and running them are   *)
(* single steps here, with the outcomes TdoParse and the runner have.      *)
(* file is the output file: None, or what is in it, part by part.          *)
(***************************************************************************)
EXTENDS TdoArguments, SequencesExt

CONSTANTS
    Faults,         \* what may fail: "arena", "strings", "status", "input",
                    \* "output", "parse", "run"
    MaxTests,       \* bound on the tests an input defines
    OldFiles        \* how long the output file may be before the run

ASSUME MainAssumption ==
    /\ Faults \subseteq {"arena", "strings", "status", "input", "output", "parse", "run"}
    /\ MaxTests \in Nat /\ OldFiles \subseteq Nat

VARIABLES
    held,           \* what main has to release
    status, input, output,  \* the FILE pointers: "none" is NULL
    tests,          \* how many tests were read
    ran,            \* the tests were run
    file

vars == <<pc, argv, at, args, result, held, status, input, output, tests, ran, file>>
opened == <<status, input, output>>
given == <<argv, at, args>>

NoFile == <<"no file">>

Init ==
    /\ ArgumentsInit
    /\ pc = "help"
    /\ held = {}
    /\ status = "none" /\ input = "stdin" /\ output = "stdout"
    /\ tests = 0 /\ ran = FALSE
    /\ file \in {NoFile} \cup {[i \in 1..n |-> "old"] : n \in OldFiles}

Goto(label) == pc' = label

\* -h wins wherever it stands, also as the value of an option.
Help ==
    /\ pc = "help"
    /\ Goto(IF {"-h", "--help"} \cap ToSet(argv) # {} THEN "exit" ELSE "arguments")
    /\ UNCHANGED <<given, result, held, opened, tests, ran, file>>

Arguments ==
    /\ ParseArguments
    /\ UNCHANGED <<held, opened, tests, ran, file>>

\* An acquisition: the next step when it works, the label when it does not.
Acquire(what, next, label, error) ==
    \/ /\ held' = held \cup {what}
       /\ Goto(next) /\ UNCHANGED result
    \/ /\ what \in Faults
       /\ Goto(label) /\ result' = error /\ UNCHANGED held

\* A slip: the error is printed and result left as it was.
InitArenaUntold ==
    /\ pc = "arena"
    /\ Acquire("arena", "strings", "exit", result)
    /\ UNCHANGED <<given, opened, tests, ran, file>>

InitArena ==
    /\ pc = "arena"
    /\ Acquire("arena", "strings", "exit", "memory")
    /\ UNCHANGED <<given, opened, tests, ran, file>>

\* A slip: the first arena is not released.
InitStringsLeaving ==
    /\ pc = "strings"
    /\ Acquire("strings", "status", "exit", "memory")
    /\ UNCHANGED <<given, opened, tests, ran, file>>

InitStrings ==
    /\ pc = "strings"
    /\ Acquire("strings", "status", "error_init_string_arena", "memory")
    /\ UNCHANGED <<given, opened, tests, ran, file>>

\* A status file that cannot be opened leaves result as it is.
OpenStatus ==
    /\ pc = "status" /\ args.internal_status # None
    /\ Acquire("status", "input", "error_open_status", result)
    /\ status' = IF pc' = "input" THEN "file" ELSE "none"
    /\ UNCHANGED <<given, input, output, tests, ran, file>>

NoStatus ==
    /\ pc = "status" /\ args.internal_status = None
    /\ Goto("input")
    /\ UNCHANGED <<given, result, held, opened, tests, ran, file>>

\* A failed fopen leaves NULL in input, but its label comes after fclose(input).
OpenInput ==
    /\ pc = "input" /\ args.test_file # None
    /\ Acquire("input", "output", "error_open_input", "file")
    /\ input' = IF pc' = "output" THEN "file" ELSE "none"
    /\ UNCHANGED <<given, status, output, tests, ran, file>>

ReadStdin ==
    /\ pc = "input" /\ args.test_file = None
    /\ Goto("output")
    /\ UNCHANGED <<given, result, held, opened, tests, ran, file>>

\* tdo_file_open_exclusive: a file that is there needs -f, and is not truncated.
WriteStdout ==
    /\ pc = "output" /\ args.output = None
    /\ Goto("parse")
    /\ UNCHANGED <<given, result, held, opened, tests, ran, file>>

\* A slip: O_EXCL is forgotten.
MayOpenAlways == TRUE

MayOpen == file = NoFile \/ args.overwrite

OutputExists ==
    /\ pc = "output" /\ args.output # None
    /\ ~MayOpen
    /\ Goto("error_open_output") /\ result' = "file"
    /\ output' = "none"
    /\ UNCHANGED <<given, held, status, input, tests, ran, file>>

OpenOutput ==
    /\ pc = "output" /\ args.output # None
    /\ MayOpen
    /\ Goto("parse")
    /\ held' = held \cup {"output"} /\ output' = "file"
    /\ file' = IF file = NoFile THEN <<>> ELSE file
    /\ UNCHANGED <<given, result, status, input, tests, ran>>

\* Any other error is printed, and the program goes on with output = NULL.
OutputFails ==
    /\ pc = "output" /\ args.output # None /\ "output" \in Faults
    /\ Goto("parse") /\ result' = "unknown"
    /\ output' = "none"
    /\ UNCHANGED <<given, held, status, input, tests, ran, file>>

\* tdo_input_parse; a single test that does not parse leaves result "ok".
Parse ==
    /\ pc = "parse"
    /\ \E n \in 0..MaxTests :
         /\ args.single_test # None => n <= 1
         /\ tests' = n /\ result' = "ok"
         /\ Goto(IF args.single_test # None /\ n < 1 THEN "error_parse_input" ELSE "load")
    /\ UNCHANGED <<given, held, opened, ran, file>>

ParseFails ==
    /\ pc = "parse" /\ "parse" \in Faults
    /\ result' = "memory" /\ Goto("error_parse_input")
    /\ UNCHANGED <<given, held, opened, tests, ran, file>>

Load ==
    /\ pc = "load"
    /\ held' = held \cup {"libraries"}
    /\ Goto("run")
    /\ UNCHANGED <<given, result, opened, tests, ran, file>>

\* What a report of n tests leaves in a file: it is written over the start.
Report(n) == <<"[">> \o [i \in 1..n |-> "result"] \o <<"]">>
Overwritten(old, new) ==
    [i \in 1..Max({Len(old), Len(new)}) |-> IF i <= Len(new) THEN new[i] ELSE old[i]]

\* tdo_run_all; a NULL output is written to.
RunAll ==
    /\ pc = "run" /\ args.single_test = None
    /\ IF output = "none" THEN Goto("crashed") /\ UNCHANGED <<ran, file>>
       ELSE /\ Goto("unload") /\ ran' = TRUE
            /\ file' = IF output = "file" THEN Overwritten(file, Report(tests)) ELSE file
    /\ UNCHANGED <<given, result, held, opened, tests>>

RunFails ==
    /\ pc = "run" /\ args.single_test = None /\ "run" \in Faults
    /\ Goto("unload") /\ result' = "memory"
    /\ UNCHANGED <<given, held, opened, tests, ran, file>>

\* The test is called in this process, which it may end.
RunSingle ==
    /\ pc = "run" /\ args.single_test # None
    /\ ran' = TRUE
    /\ Goto("unload") \/ Goto("ended by the test")
    /\ UNCHANGED <<given, result, held, opened, tests, file>>

Release(what, present, next) ==
    /\ held' = IF present THEN held \ {what} ELSE held
    /\ Goto(next)
    /\ UNCHANGED <<given, result, opened, tests, ran, file>>

Unload == pc = "unload" /\ Release("libraries", TRUE, "error_parse_input")

\* fclose(NULL) when the output could not be opened.
CloseOutput ==
    /\ pc = "error_parse_input"
    /\ Release("output", output = "file",
               IF output = "none" THEN "crashed" ELSE "error_open_output")

CloseInput ==
    pc = "error_open_output" /\ Release("input", input # "stdin", "error_open_input")

CloseStatus ==
    pc = "error_open_input" /\ Release("status", status # "none", "error_open_status")

FreeStrings ==
    pc = "error_open_status" /\ Release("strings", TRUE, "error_init_string_arena")

FreeArena == pc = "error_init_string_arena" /\ Release("arena", TRUE, "exit")

Next ==
    \/ Help \/ Arguments
    \/ InitArena \/ InitStrings \/ OpenStatus \/ NoStatus \/ OpenInput \/ ReadStdin
    \/ WriteStdout \/ OutputExists \/ OpenOutput \/ OutputFails
    \/ Parse \/ ParseFails \/ Load \/ RunAll \/ RunFails \/ RunSingle
    \/ Unload \/ CloseOutput \/ CloseInput \/ CloseStatus \/ FreeStrings \/ FreeArena

Spec == Init /\ [][Next]_vars
=============================================================================
