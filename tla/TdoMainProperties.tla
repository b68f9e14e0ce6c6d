------------------------- MODULE TdoMainProperties -------------------------
(***************************************************************************)
(* What a user of the command line may rely on.                            *)
(***************************************************************************)
EXTENDS TdoMain

Labels == {"error_parse_input", "error_open_output", "error_open_input",
           "error_open_status", "error_init_string_arena"}

\* Everything stays of its type (arguments.h, the locals of main).
TypeOK ==
    /\ pc \in Labels \cup {"help", "arguments", "arena", "strings", "status", "input", "output",
                           "parse", "load", "run", "unload", "exit", "crashed",
                           "ended by the test"}
    /\ args.processes \in 1..ProcessMax
    /\ args.time_limit \in {"positive", "nan"}
    /\ args.format \in {"human", "json"}
    /\ result \in {"ok", "argument", "memory", "file", "unknown"}
    /\ status \in {"none", "file"} /\ input \in {"stdin", "file", "none"}
    /\ output \in {"stdout", "file", "none"}
    /\ tests \in 0..MaxTests /\ ran \in BOOLEAN
    /\ at \in 1..(Len(argv) + 1)

\* The places of argv where an option or a file name starts, the rest being the
\* values of the options before them.
Starts[i \in 0..Len(argv)] ==
    \/ i = 1
    \/ i > 1 /\ Starts[i - 1] /\ argv[i - 1] \notin Valued
    \/ i > 2 /\ Starts[i - 2] /\ argv[i - 2] \in Valued

Started == {i \in 1..Len(argv) : Starts[i]}
Given(option) == {i \in Started : argv[i] = option}
FileNames == {i \in Started : argv[i] \notin Dashed}

\* The value of an option: the last that was given, else the default.
ValueOf(option, default) ==
    IF Given(option) = {} THEN default ELSE argv[Max(Given(option)) + 1]

Processes ==
    LET places == {i \in Started : argv[i] = "-j" \/ argv[i] \in DOMAIN Attached}
        last == Max(places)
    IN  IF places = {} THEN 1
        ELSE Jobs[IF argv[last] = "-j" THEN argv[last + 1] ELSE Attached[argv[last]]]

Understood == pc \notin {"help", "arguments", "exit"}

\* When the arguments are accepted, args says what the words say, read as a whole
\* instead of one by one: the last value of every option, one file name at most,
\* not together with a single test, and no word left out (arguments.c 29-157).
ArgumentsAsGiven ==
    Understood =>
        /\ \A i \in Started \ FileNames : argv[i] \in Valued \cup Switches \cup DOMAIN Attached
        /\ \A i \in Started : argv[i] \in Valued => i < Len(argv) /\ Valid(argv[i], argv[i + 1])
        /\ \A i \in Started : argv[i] \in DOMAIN Attached => ValidJobs(Attached[argv[i]])
        /\ args.processes = Processes
        /\ args.single_test = ValueOf("-t", None)
        /\ args.output = ValueOf("-o", None)
        /\ args.internal_status = ValueOf("--internal-status", None)
        /\ args.format = ValueOf("--format", "human")
        /\ args.time_limit = (IF Given("--timeout") = {} THEN "positive"
                              ELSE Limits[ValueOf("--timeout", None)])
        /\ args.overwrite = (Given("-f") # {})
        /\ args.stop_on_first_error = (Given("-x") # {})
        /\ IF FileNames = {} THEN args.test_file = None
           ELSE /\ \A i \in FileNames : argv[i] = args.test_file /\ FileNames = {i}
                /\ args.single_test = None

\* Whatever fails, all that main acquired is released before it exits (main.c
\* 82-193 and its labels).
AllReleased == pc = "exit" => held = {}

\* Without -f nothing that was in the output file before is lost
\* (tdo_file_open_exclusive, posix.c 28-52).
OldFileIsKept ==
    [][~args.overwrite /\ file # NoFile /\ "old" \in ToSet(file) => file' = file]_<<file, args>>

\* tdo ends with status 0 only if it ran the tests or printed its help, a single
\* test and the internal status file aside (main.c 99-107, 155-161 leave the
\* status 0 on an error).
FailureIsTold ==
    pc = "exit" /\ result = "ok" =>
        \/ ran
        \/ {"-h", "--help"} \cap ToSet(argv) # {}
        \/ args.single_test # None \/ args.internal_status # None
=============================================================================
