--------------------------- MODULE TdoMainProofs ---------------------------
(***************************************************************************)
(* main releases what it acquired, tells its failures and keeps an old     *)
(* output file, for every command line, input, file and choice of faults.  *)
(***************************************************************************)
EXTENDS TdoMainProperties, SequenceTheorems, WellFoundedInduction, TLAPS

\* What an option that takes a word may be.
Texts == {None} \cup UNION {ToSet(a) : a \in ArgumentVectors}

StructArguments ==
    [processes : 1..ProcessMax, time_limit : {"positive", "nan"}, single_test : Texts,
     test_file : Texts, output : Texts, internal_status : Texts,
     format : {"human", "json"}, verbosity : {"none", "minor", "major"},
     overwrite : BOOLEAN, stop_on_first_error : BOOLEAN]

\* TypeOK, with what the words and the options are made of.
Types ==
    /\ TypeOK
    /\ argv \in ArgumentVectors
    /\ args \in StructArguments

\* The places before something is acquired, in the order of main.
BeforeArena == {"help", "arguments", "arena"}
BeforeStrings == BeforeArena \cup {"strings"}
BeforeStatus == BeforeStrings \cup {"status"}
BeforeInput == BeforeStatus \cup {"input"}
BeforeOutput == BeforeInput \cup {"output"}
BeforeLibraries == BeforeOutput \cup {"parse", "load"}

\* The labels that are behind a release.
LibrariesUnloaded == Labels \cup {"exit"}
OutputClosed == LibrariesUnloaded \ {"error_parse_input"}
InputClosed == OutputClosed \ {"error_open_output"}
StatusClosed == InputClosed \ {"error_open_input"}
StringsFreed == StatusClosed \ {"error_open_status"}
ArenaFreed == {"exit"}

\* Where each thing may be held, and which pointer says that it is.
Held ==
    /\ held \subseteq {"arena", "strings", "status", "input", "output", "libraries"}
    /\ "arena" \in held => pc \notin BeforeArena \cup ArenaFreed
    /\ "strings" \in held => pc \notin BeforeStrings \cup StringsFreed
    /\ "status" \in held => status = "file" /\ pc \notin BeforeStatus \cup StatusClosed
    /\ "input" \in held => input = "file" /\ pc \notin BeforeInput \cup InputClosed
    /\ "output" \in held => output = "file" /\ pc \notin BeforeOutput \cup OutputClosed
    /\ "libraries" \in held => pc \notin BeforeLibraries \cup LibrariesUnloaded

\* On the way out a result of "ok" has one of its reasons.
Told ==
    result = "ok" /\ pc \in Labels \cup {"unload", "exit"} =>
        \/ ran
        \/ {"-h", "--help"} \cap ToSet(argv) # {}
        \/ args.single_test # None \/ args.internal_status # None

\* Without -f the file main is about to write is one it created.
Created ==
    /\ pc \in BeforeOutput => output = "stdout"
    /\ pc \in {"parse", "load", "run"} /\ output = "file" /\ ~args.overwrite =>
           "old" \notin ToSet(file)

MInv == Types /\ Held /\ Told /\ Created

-----------------------------------------------------------------------------
\* At the start.
LEMMA InitInv == Init => MInv
<1> SUFFICES ASSUME Init PROVE MInv
    OBVIOUS
<1> USE DEF Init, ArgumentsInit
<1>1. Types
  <2>1. argv \in ArgumentVectors /\ Len(argv) \in Nat
    BY ArgumentAssumption
  <2>2. Defaults \in StructArguments
    <3>1. None \in Texts /\ None = "none" /\ 1 \in 1..ProcessMax
      BY DEF Texts, None, ProcessMax
    <3> QED
      BY <3>1, Zenon DEF Defaults, StructArguments
  <2>3. at \in 1..(Len(argv) + 1)
    BY <2>1
  <2>4. args.processes \in 1..ProcessMax /\ args.time_limit \in {"positive", "nan"}
        /\ args.format \in {"human", "json"}
    BY DEF Defaults, ProcessMax
  <2>5. tests \in 0..MaxTests
    BY MainAssumption
  <2> QED
    BY <2>1, <2>2, <2>3, <2>4, <2>5, Zenon DEF Types, TypeOK
<1>2. Held
  BY DEF Held
<1>3. Told
  BY DEF Told, Labels
<1>4. Created
  BY DEF Created
<1> QED
  BY <1>1, <1>2, <1>3, <1>4 DEF MInv

-----------------------------------------------------------------------------
\* A value that is accepted has the type of its option.
LEMMA AssignedTypes ==
    ASSUME NEW a \in StructArguments, NEW option \in Valued, NEW value \in Texts,
           Valid(option, value)
    PROVE  Assign(a, option, value) \in StructArguments
<1>1. CASE option = "-j"
  BY <1>1 DEF Valid, ValidJobs, Assign, StructArguments
<1>2. CASE option = "--timeout"
  <2>1. Limits[value] \in {"positive", "nan"}
    BY <1>2, ArgumentAssumption DEF Valid, ValidLimit
  <2> QED
    BY <1>2, <2>1 DEF Assign, StructArguments
<1>3. CASE option = "--format"
  BY <1>3 DEF Valid, Assign, StructArguments
<1>4. CASE option \in {"-t", "-o", "--internal-status"}
  BY <1>4 DEF Assign, StructArguments
<1> QED
  BY <1>1, <1>2, <1>3, <1>4 DEF Valued

\* Every word leaves the options of their types (arguments.c 29-157).
LEMMA WordTypes ==
    ASSUME Types, ParseArguments
    PROVE  /\ args' \in StructArguments
           /\ argv' = argv
           /\ at' \in 1..(Len(argv) + 1)
           /\ result' \in {"ok", "argument", "memory", "file", "unknown"}
           /\ pc' \in {"arguments", "arena", "exit"}
<1> USE DEF Parsing, Outcome
<1>0. /\ args \in StructArguments /\ argv \in Seq(STRING) /\ argv \in ArgumentVectors
      /\ result \in {"ok", "argument", "memory", "file", "unknown"}
      /\ at \in 1..(Len(argv) + 1)
  BY ArgumentAssumption, Zenon DEF Types, TypeOK
<1>1. CASE TakeFile
  <2>1. Word \in Texts
    BY <1>0, <1>1 DEF TakeFile, Word, Texts, ToSet
  <2>2. args' \in StructArguments
    BY <1>0, <1>1, <2>1 DEF TakeFile, StructArguments
  <2> QED
    BY <1>0, <1>1, <2>2 DEF TakeFile
<1>2. CASE TakeSwitch
  <2>1. args' \in StructArguments
    <3>1. /\ [args EXCEPT !.overwrite = TRUE] \in StructArguments
          /\ [args EXCEPT !.stop_on_first_error = TRUE] \in StructArguments
          /\ [args EXCEPT !.verbosity = "minor"] \in StructArguments
          /\ [args EXCEPT !.verbosity = "major"] \in StructArguments
      BY <1>0, Zenon DEF StructArguments
    <3> QED
      BY <3>1, <1>2 DEF TakeSwitch, Flip
  <2> QED
    BY <1>0, <1>2, <2>1 DEF TakeSwitch
<1>3. CASE TakeValue
  <2>1. argv[at + 1] \in Texts
    BY <1>0, <1>3 DEF TakeValue, Texts, ToSet
  <2>2. args' \in StructArguments
    BY <1>0, <1>3, <2>1, AssignedTypes, Word \in Valued DEF TakeValue
  <2> QED
    BY <1>0, <1>3, <2>2 DEF TakeValue
<1>4. CASE MissingValue
  BY <1>0, <1>4 DEF MissingValue
<1>5. CASE TakeAttached
  <2>1. args' \in StructArguments
    BY <1>0, <1>5 DEF TakeAttached, Assign, ValidJobs, StructArguments
  <2> QED
    BY <1>0, <1>5, <2>1 DEF TakeAttached
<1>6. CASE RefuseWord
  BY <1>0, <1>6 DEF RefuseWord
<1>7. CASE EndOfArguments
  BY <1>0, <1>7 DEF EndOfArguments
<1> QED
  BY <1>1, <1>2, <1>3, <1>4, <1>5, <1>6, <1>7 DEF ParseArguments
-----------------------------------------------------------------------------
\* The steps of main, the words of the command line aside.
Acquiring ==
    \/ InitArena \/ InitStrings \/ OpenStatus \/ NoStatus \/ OpenInput \/ ReadStdin
    \/ WriteStdout \/ OutputExists \/ OpenOutput \/ OutputFails

Working == Parse \/ ParseFails \/ Load \/ RunAll \/ RunFails \/ RunSingle

Releasing ==
    Unload \/ CloseOutput \/ CloseInput \/ CloseStatus \/ FreeStrings \/ FreeArena

LEMMA Steps == Next <=> Help \/ Arguments \/ Acquiring \/ Working \/ Releasing
BY DEF Next, Acquiring, Working, Releasing

\* After the command line was read it stays as it was.
LEMMA GivenKept ==
    ASSUME Help \/ Acquiring \/ Working \/ Releasing
    PROVE  argv' = argv /\ at' = at /\ args' = args
BY DEF Help, Acquiring, Working, Releasing, InitArena, InitStrings, OpenStatus, NoStatus,
       OpenInput, ReadStdin, WriteStdout, OutputExists, OpenOutput, OutputFails, Parse,
       ParseFails, Load, RunAll, RunFails, RunSingle, Unload, CloseOutput, CloseInput,
       CloseStatus, FreeStrings, FreeArena, Release, given

\* What each variable may become.
LEMMA LocalTypes ==
    ASSUME TypeOK, Help \/ Acquiring \/ Working \/ Releasing
    PROVE  /\ pc' \in Labels \cup {"arguments", "strings", "status", "input", "output",
                                    "parse", "load", "run", "unload", "exit", "crashed",
                                    "ended by the test"}
           /\ result' \in {"ok", "argument", "memory", "file", "unknown"}
           /\ status' \in {"none", "file"} /\ input' \in {"stdin", "file", "none"}
           /\ output' \in {"stdout", "file", "none"}
           /\ tests' \in 0..MaxTests /\ ran' \in BOOLEAN
<1> USE DEF Labels, opened, Goto
<1>0. /\ result \in {"ok", "argument", "memory", "file", "unknown"}
      /\ status \in {"none", "file"} /\ input \in {"stdin", "file", "none"}
      /\ output \in {"stdout", "file", "none"}
      /\ tests \in 0..MaxTests /\ ran \in BOOLEAN
  BY DEF TypeOK
<1>1. CASE Help
  BY <1>0, <1>1 DEF Help
<1>2. CASE Acquiring
  BY <1>0, <1>2 DEF Acquiring, InitArena, InitStrings, OpenStatus, NoStatus,
       OpenInput, ReadStdin, WriteStdout, OutputExists, OpenOutput, OutputFails, Acquire
<1>3. CASE Working
  <2>1. CASE Parse
    BY <1>0, <2>1, MainAssumption DEF Parse
  <2>2. CASE ParseFails \/ Load \/ RunFails
    BY <1>0, <2>2 DEF ParseFails, Load, RunFails
  <2>3. CASE RunAll
    BY <1>0, <2>3 DEF RunAll
  <2>4. CASE RunSingle
    BY <1>0, <2>4 DEF RunSingle
  <2> QED
    BY <1>3, <2>1, <2>2, <2>3, <2>4 DEF Working
<1>4. CASE Releasing
  BY <1>0, <1>4 DEF Releasing, Unload, CloseOutput, CloseInput, CloseStatus, FreeStrings,
       FreeArena, Release
<1> QED
  BY <1>1, <1>2, <1>3, <1>4

LEMMA TypesStep == Types /\ [Next]_vars => Types'
<1> SUFFICES ASSUME Types, [Next]_vars PROVE Types'
    OBVIOUS
<1>1. CASE UNCHANGED vars
  <2>1. /\ pc' = pc /\ argv' = argv /\ at' = at /\ args' = args /\ result' = result
        /\ status' = status /\ input' = input /\ output' = output
        /\ tests' = tests /\ ran' = ran
    BY <1>1 DEF vars
  <2>2. /\ args'.processes \in 1..ProcessMax
        /\ args'.time_limit \in {"positive", "nan"}
        /\ args'.format \in {"human", "json"}
    BY <2>1 DEF Types, TypeOK
  <2>3. at' \in 1..(Len(argv') + 1)
    BY <2>1 DEF Types, TypeOK
  <2>4. TypeOK'
    <3>1. /\ result' \in {"ok", "argument", "memory", "file", "unknown"}
          /\ status' \in {"none", "file"} /\ input' \in {"stdin", "file", "none"}
          /\ output' \in {"stdout", "file", "none"}
          /\ tests' \in 0..MaxTests /\ ran' \in BOOLEAN
      BY <2>1, Zenon DEF Types, TypeOK
    <3>2. pc' \in Labels \cup {"help", "arguments", "arena", "strings", "status", "input",
                              "output", "parse", "load", "run", "unload", "exit", "crashed",
                              "ended by the test"}
      BY <2>1, Zenon DEF Types, TypeOK
    <3> QED
      BY <2>2, <2>3, <3>1, <3>2, Zenon DEF TypeOK
  <2> QED
    BY <2>1, <2>4 DEF Types
<1>2. CASE Arguments
  <2>1. /\ args' \in StructArguments /\ argv' = argv /\ at' \in 1..(Len(argv) + 1)
        /\ result' \in {"ok", "argument", "memory", "file", "unknown"}
        /\ pc' \in {"arguments", "arena", "exit"}
        /\ UNCHANGED <<status, input, output, tests, ran>>
    BY <1>2, WordTypes DEF Arguments, opened
  <2>2. /\ args'.processes \in 1..ProcessMax
        /\ args'.time_limit \in {"positive", "nan"}
        /\ args'.format \in {"human", "json"}
    BY <2>1 DEF StructArguments
  <2> QED
    BY <2>1, <2>2 DEF Types, TypeOK
<1>3. CASE Help \/ Acquiring \/ Working \/ Releasing
  BY <1>3, GivenKept, LocalTypes, Zenon DEF Types, TypeOK
<1> QED
  BY <1>1, <1>2, <1>3, Steps

-----------------------------------------------------------------------------
\* What is acquired and what is released (main.c 82-193).
LEMMA HeldStep == Held /\ [Next]_vars => Held'
<1> SUFFICES ASSUME Held, [Next]_vars PROVE Held'
    OBVIOUS
<1> USE DEF BeforeArena, BeforeStrings, BeforeStatus, BeforeInput, BeforeOutput,
            BeforeLibraries, LibrariesUnloaded, OutputClosed, InputClosed, StatusClosed,
            StringsFreed, ArenaFreed, Labels, Goto, opened
<1>1. CASE UNCHANGED vars
  BY <1>1 DEF vars, Held
<1>2. CASE Help \/ Arguments
  BY <1>2 DEF Help, Arguments, ParseArguments, TakeFile, TakeSwitch, TakeValue, MissingValue,
       TakeAttached, RefuseWord, EndOfArguments, Parsing, Held
<1>3. CASE Acquiring
  <2>1. CASE InitArena
    BY <2>1 DEF InitArena, Acquire, Held
  <2>2. CASE InitStrings
    BY <2>2 DEF InitStrings, Acquire, Held
  <2>3. CASE OpenStatus
    BY <2>3 DEF OpenStatus, Acquire, Held
  <2>4. CASE OpenInput
    BY <2>4 DEF OpenInput, Acquire, Held
  <2>5. CASE NoStatus \/ ReadStdin \/ WriteStdout
    BY <2>5 DEF NoStatus, ReadStdin, WriteStdout, Held
  <2>6. CASE OutputExists \/ OutputFails
    BY <2>6 DEF OutputExists, OutputFails, Held
  <2>7. CASE OpenOutput
    BY <2>7 DEF OpenOutput, Held
  <2> QED
    BY <1>3, <2>1, <2>2, <2>3, <2>4, <2>5, <2>6, <2>7 DEF Acquiring
<1>4. CASE Working
  BY <1>4 DEF Working, Parse, ParseFails, Load, RunAll, RunFails, RunSingle, Held
<1>5. CASE Releasing
  BY <1>5 DEF Releasing, Unload, CloseOutput, CloseInput, CloseStatus, FreeStrings,
       FreeArena, Release, Held
<1> QED
  BY <1>1, <1>2, <1>3, <1>4, <1>5, Steps

-----------------------------------------------------------------------------
\* Why a run on its way out may have "ok" (main.c 82-193).
LEMMA ToldStep == Told /\ [Next]_vars => Told'
<1> SUFFICES ASSUME Told, [Next]_vars PROVE Told'
    OBVIOUS
<1> DEFINE Asked == {"-h", "--help"} \cap ToSet(argv) # {}
<1> USE DEF Labels, Goto
<1>1. CASE UNCHANGED vars
  BY <1>1 DEF vars, Told
<1>2. CASE Arguments
  <2>1. CASE EndOfArguments
    BY <2>1 DEF EndOfArguments, Told
  <2>2. CASE pc' = "arguments"
    BY <2>2 DEF Told
  <2>3. pc' = "arguments" \/ EndOfArguments
    BY <1>2 DEF Arguments, ParseArguments, TakeFile, TakeSwitch, TakeValue, MissingValue,
         TakeAttached, RefuseWord, Parsing
  <2> QED
    BY <2>1, <2>2, <2>3
<1>3. CASE Help
  BY <1>3 DEF Help, Told, given
<1>4. CASE Acquiring
  BY <1>4, GivenKept DEF Acquiring, InitArena, InitStrings, OpenStatus, NoStatus, OpenInput,
       ReadStdin, WriteStdout, OutputExists, OpenOutput, OutputFails, Acquire, Told
<1>5. CASE Working
  BY <1>5, GivenKept DEF Working, Parse, ParseFails, Load, RunAll, RunFails, RunSingle, Told
<1>6. CASE Releasing
  BY <1>6, GivenKept DEF Releasing, Unload, CloseOutput, CloseInput, CloseStatus, FreeStrings,
       FreeArena, Release, Told
<1> QED
  BY <1>1, <1>2, <1>3, <1>4, <1>5, <1>6, Steps

-----------------------------------------------------------------------------
\* The file main writes to without -f (posix.c 28-52).
LEMMA CreatedStep == Created /\ [Next]_vars => Created'
<1> SUFFICES ASSUME Created, [Next]_vars PROVE Created'
    OBVIOUS
<1> USE DEF BeforeArena, BeforeStrings, BeforeStatus, BeforeInput, BeforeOutput, Labels,
            Goto, opened
<1>1. CASE UNCHANGED vars
  BY <1>1 DEF vars, Created
<1>2. CASE Arguments
  BY <1>2 DEF Arguments, ParseArguments, TakeFile, TakeSwitch, TakeValue, MissingValue,
       TakeAttached, RefuseWord, EndOfArguments, Parsing, Created
<1>3. CASE Help
  BY <1>3 DEF Help, Created
<1>4. CASE Acquiring
  <2>1. CASE OpenOutput
    <3>1. "old" \notin ToSet(<<>>)
      BY DEF ToSet
    <3>2. ~args.overwrite => file' = <<>>
      BY <2>1 DEF OpenOutput, MayOpen
    <3>3. pc' = "parse" /\ args' = args
      BY <2>1 DEF OpenOutput, given
    <3>4. ~args'.overwrite => "old" \notin ToSet(file')
      BY <3>1, <3>2, <3>3
    <3> QED
      BY <3>3, <3>4 DEF Created
  <2>2. CASE InitArena \/ InitStrings \/ OpenStatus \/ OpenInput
    BY <2>2 DEF InitArena, InitStrings, OpenStatus, OpenInput, Acquire, Created
  <2>3. CASE NoStatus \/ ReadStdin \/ WriteStdout \/ OutputExists \/ OutputFails
    BY <2>3 DEF NoStatus, ReadStdin, WriteStdout, OutputExists, OutputFails, Created
  <2> QED
    BY <1>4, <2>1, <2>2, <2>3 DEF Acquiring
<1>5. CASE Working
  <2>1. CASE Parse \/ ParseFails \/ Load
    BY <2>1, GivenKept DEF Working, Parse, ParseFails, Load, Created
  <2>2. CASE RunAll \/ RunFails \/ RunSingle
    BY <2>2 DEF RunAll, RunFails, RunSingle, Created
  <2> QED
    BY <1>5, <2>1, <2>2 DEF Working
<1>6. CASE Releasing
  BY <1>6 DEF Releasing, Unload, CloseOutput, CloseInput, CloseStatus, FreeStrings,
       FreeArena, Release, Created
<1> QED
  BY <1>1, <1>2, <1>3, <1>4, <1>5, <1>6, Steps

-----------------------------------------------------------------------------
\* Together.
LEMMA InvStep == MInv /\ [Next]_vars => MInv'
BY TypesStep, HeldStep, ToldStep, CreatedStep DEF MInv

LEMMA MInvAlways == Spec => []MInv
<1>1. Init => MInv
  BY InitInv
<1>2. MInv /\ [Next]_vars => MInv'
  BY InvStep
<1> QED
  BY <1>1, <1>2, PTL DEF Spec

\* Whatever the command line holds, what is accepted of it stays in range: a
\* number of processes in 1..2048, a format that exists, a limit that is not
\* negative (arguments.c 29-157).
THEOREM TypeCorrect == Spec => []TypeOK
<1>1. MInv => TypeOK
  BY DEF MInv, Types
<1> QED
  BY <1>1, MInvAlways, PTL

\* On every way to the exit, through whichever label, nothing main acquired is
\* still held (main.c 82-193).
THEOREM EverythingReleased == Spec => []AllReleased
<1>1. MInv => AllReleased
  BY DEF MInv, Held, AllReleased, ArenaFreed, StringsFreed, StatusClosed, InputClosed,
         OutputClosed, LibrariesUnloaded, Labels
<1> QED
  BY <1>1, MInvAlways, PTL

\* Status 0 means that the tests ran or the help was asked for, -t and the status
\* file aside (main.c 99-107, 155-161).
THEOREM FailuresAreTold == Spec => []FailureIsTold
<1>1. MInv => FailureIsTold
  BY DEF MInv, Told, FailureIsTold
<1> QED
  BY <1>1, MInvAlways, PTL

\* Without -f no step changes a file that still has something of an old one in it
\* (main.c 132-150, posix.c 28-52).
THEOREM OldFilesAreKept == Spec => OldFileIsKept
<1>1. MInv /\ [Next]_vars =>
        [~args.overwrite /\ file # NoFile /\ "old" \in ToSet(file) => file' = file]_<<file, args>>
  <2> SUFFICES ASSUME MInv, [Next]_vars, ~args.overwrite, file # NoFile,
                      "old" \in ToSet(file)
               PROVE  file' = file
      OBVIOUS
  <2>1. CASE UNCHANGED vars
    BY <2>1 DEF vars
  <2>2. CASE Arguments
    BY <2>2 DEF Arguments
  <2>3. CASE Help
    BY <2>3 DEF Help
  <2>4. CASE Acquiring
    BY <2>4 DEF Acquiring, InitArena, InitStrings, OpenStatus, NoStatus, OpenInput, ReadStdin,
         WriteStdout, OutputExists, OpenOutput, OutputFails
  <2>5. CASE Working
    <3>1. CASE RunAll
      BY <3>1 DEF RunAll, MInv, Created
    <3>2. CASE Parse \/ ParseFails \/ Load \/ RunFails \/ RunSingle
      BY <3>2 DEF Parse, ParseFails, Load, RunFails, RunSingle
    <3> QED
      BY <2>5, <3>1, <3>2 DEF Working
  <2>6. CASE Releasing
    BY <2>6 DEF Releasing, Unload, CloseOutput, CloseInput, CloseStatus, FreeStrings,
         FreeArena, Release
  <2> QED
    BY <2>1, <2>2, <2>3, <2>4, <2>5, <2>6, Steps
<1> QED
  BY <1>1, MInvAlways, PTL DEF Spec, OldFileIsKept

-----------------------------------------------------------------------------
(* The places at which an option or a file name starts. *)

\* A set of numbers that is not empty has a least one.
LEMMA LeastNumber ==
    ASSUME NEW T \in SUBSET Nat, T # {}
    PROVE  \E x \in T : \A y \in T : x <= y
<1>1. IsWellFoundedOn(OpToRel(<, Nat), Nat)
  BY NatLessThanWellFounded, Zenon
<1>2. PICK x \in T : \A y \in T : <<y, x>> \notin OpToRel(<, Nat)
  BY <1>1, WFMin, Zenon
<1>3. \A y \in T : ~(y < x)
  BY <1>2 DEF OpToRel
<1> QED
  BY <1>3

\* What Starts says of place i, by what it says of the two places before.
Turn(a, i, p, q) ==
    \/ i = 1
    \/ i > 1 /\ p /\ a[i - 1] \notin Valued
    \/ i > 2 /\ q /\ a[i - 2] \in Valued

Starting(a, g, n) == g = [i \in 0..n |-> Turn(a, i, g[i - 1], g[i - 2])]
StartsOf(a) == CHOOSE g : Starting(a, g, Len(a))

\* The function defined by recursion exists, by induction on its domain.
LEMMA StartingExists ==
    ASSUME NEW a, NEW n \in Nat
    PROVE  \E g : Starting(a, g, n)
<1> SUFFICES ASSUME \A g : ~Starting(a, g, n) PROVE FALSE
    OBVIOUS
<1> DEFINE T == {m \in Nat : \A g : ~Starting(a, g, m)}
<1>1. PICK x \in T : \A y \in T : x <= y
  <2>1. T \in SUBSET Nat /\ n \in T
    OBVIOUS
  <2> HIDE DEF T
  <2> QED
    BY <2>1, LeastNumber
<1>2. x \in Nat /\ \A g : ~Starting(a, g, x)
  BY <1>1
<1>3. CASE x = 0
  <2> DEFINE g == [i \in 0..0 |-> FALSE]
             h == [i \in 0..0 |-> Turn(a, i, g[i - 1], g[i - 2])]
  <2>1. \A i \in 0..0 : Turn(a, i, g[i - 1], g[i - 2]) = FALSE
    <3>1. \A p, q : ~Turn(a, 0, p, q)
      BY DEF Turn
    <3>2. \A p, q : Turn(a, 0, p, q) \in BOOLEAN
      BY DEF Turn
    <3>3. \A i \in 0..0 : i = 0
      OBVIOUS
    <3> QED
      BY <3>1, <3>2, <3>3, Zenon
  <2>2. g = h
    BY <2>1, Zenon
  <2> HIDE DEF g
  <2>3. Starting(a, g, 0)
    BY <2>2 DEF Starting
  <2> QED
    BY <1>2, <1>3, <2>3
<1>4. CASE x # 0
  <2>1. x - 1 \in Nat /\ x - 1 \notin T
    BY <1>1, <1>4
  <2>2. PICK g : Starting(a, g, x - 1)
    BY <2>1
  <2> DEFINE new == Turn(a, x, g[x - 1], g[x - 2])
             h == [i \in 0..x |-> IF i <= x - 1 THEN g[i] ELSE new]
             k == [i \in 0..x |-> Turn(a, i, h[i - 1], h[i - 2])]
  <2>3. \A i \in 0..(x - 1) : g[i] = Turn(a, i, g[i - 1], g[i - 2])
    BY <2>2, Zenon DEF Starting
  <2>4. \A i \in 0..x : Turn(a, i, h[i - 1], h[i - 2]) = Turn(a, i, g[i - 1], g[i - 2])
    <3> SUFFICES ASSUME NEW i \in 0..x
                 PROVE  Turn(a, i, h[i - 1], h[i - 2]) = Turn(a, i, g[i - 1], g[i - 2])
      OBVIOUS
    <3> HIDE DEF new
    <3>1. i > 1 => h[i - 1] = g[i - 1]
      <4>1. i > 1 => i - 1 \in 0..x /\ i - 1 <= x - 1
        BY <1>2
      <4> QED
        BY <4>1
    <3>2. i > 2 => h[i - 2] = g[i - 2]
      <4>1. i > 2 => i - 2 \in 0..x /\ i - 2 <= x - 1
        BY <1>2
      <4> QED
        BY <4>1
    <3> HIDE DEF h
    <3>3. Turn(a, i, h[i - 1], h[i - 2]) <=> Turn(a, i, g[i - 1], g[i - 2])
      BY <3>1, <3>2 DEF Turn
    <3>4. \A p, q : Turn(a, i, p, q) \in BOOLEAN
      BY DEF Turn
    <3>5. \A X, Y \in BOOLEAN : (X <=> Y) => X = Y
      OBVIOUS
    <3> QED
      BY <3>3, <3>4, <3>5, Zenon
  <2>5. \A i \in 0..x : h[i] = Turn(a, i, g[i - 1], g[i - 2])
    <3> SUFFICES ASSUME NEW i \in 0..x PROVE h[i] = Turn(a, i, g[i - 1], g[i - 2])
      OBVIOUS
    <3>1. h[i] = IF i <= x - 1 THEN g[i] ELSE new
      BY Zenon
    <3>2. CASE i <= x - 1
      <4>1. i \in 0..(x - 1)
        BY <1>2, <3>2
      <4> QED
        BY <2>3, <3>1, <3>2, <4>1, Zenon
    <3>3. CASE ~(i <= x - 1)
      <4>1. i = x
        BY <1>2, <3>3
      <4> QED
        BY <3>1, <3>3, <4>1, Zenon
    <3> QED
      BY <3>2, <3>3
  <2>6. \A i \in 0..x : h[i] = k[i]
    <3> HIDE DEF h, new
    <3>1. \A i \in 0..x : k[i] = Turn(a, i, h[i - 1], h[i - 2])
      BY Zenon
    <3> QED
      BY <2>4, <2>5, <3>1, Zenon
  <2>7. h = k
    <3> HIDE DEF new
    <3>1. h = [i \in 0..x |-> h[i]]
      OBVIOUS
    <3> HIDE DEF h
    <3>2. k = [i \in 0..x |-> k[i]]
      OBVIOUS
    <3> HIDE DEF k
    <3> QED
      BY <2>6, <3>1, <3>2, Zenon
  <2> HIDE DEF new, h
  <2>8. Starting(a, h, x)
    BY <2>7, Zenon DEF Starting
  <2> QED
    BY <1>2, <2>8
<1> QED
  BY <1>3, <1>4

\* The places of a command line, each by those before it.
Places(a) == {i \in 1..Len(a) : StartsOf(a)[i]}

LEMMA StartsUnfold ==
    ASSUME NEW a \in Seq(STRING), NEW i \in 1..Len(a)
    PROVE  i \in Places(a) <=>
             \/ i = 1
             \/ i - 1 \in Places(a) /\ a[i - 1] \notin Valued
             \/ i - 2 \in Places(a) /\ a[i - 2] \in Valued
<1> DEFINE g == StartsOf(a)
<1>1. Len(a) \in Nat
  OBVIOUS
<1>2. Starting(a, g, Len(a))
  BY <1>1, StartingExists, Zenon DEF StartsOf
<1>3. \A j \in 0..Len(a) : g[j] = Turn(a, j, g[j - 1], g[j - 2])
  BY <1>2, Zenon DEF Starting
<1>4. i \in 0..Len(a)
  BY <1>1
<1>5. g[i] <=> Turn(a, i, g[i - 1], g[i - 2])
  BY <1>3, <1>4, Zenon
<1> HIDE DEF g
<1>6. /\ i - 1 \in Places(a) <=> i > 1 /\ g[i - 1]
      /\ i - 2 \in Places(a) <=> i > 2 /\ g[i - 2]
      /\ i \in Places(a) <=> g[i]
  <2>1. \A j : j \in Places(a) <=> j \in 1..Len(a) /\ g[j]
    BY DEF Places, g
  <2>2. /\ i - 1 \in 1..Len(a) <=> i > 1
        /\ i - 2 \in 1..Len(a) <=> i > 2
    BY <1>1
  <2> QED
    BY <2>1, <2>2, Zenon
<1> QED
  BY <1>5, <1>6, Zenon DEF Turn

LEMMA StartedPlaces == Started = Places(argv)
<1>1. Starts = StartsOf(argv)
  BY Zenon DEF Starts, StartsOf, Starting, Turn
<1> QED
  BY <1>1 DEF Started, Places

\* Place n is not the value of the option before it.
Clear(a, n) == n - 1 \in Places(a) => a[n - 1] \notin Valued

LEMMA NextPlace ==
    ASSUME NEW a \in Seq(STRING), NEW n \in Places(a), Clear(a, n)
    PROVE  /\ a[n] \notin Valued /\ n < Len(a) => n + 1 \in Places(a) /\ Clear(a, n + 1)
           /\ a[n] \in Valued => n + 1 \notin Places(a)
           /\ a[n] \in Valued /\ n + 2 <= Len(a) => n + 2 \in Places(a) /\ Clear(a, n + 2)
<1>1. n \in 1..Len(a) /\ Len(a) \in Nat
  BY DEF Places
<1>2. /\ (n + 1) - 1 = n /\ (n + 1) - 2 = n - 1 /\ (n + 2) - 1 = n + 1 /\ (n + 2) - 2 = n
      /\ n + 1 # 1 /\ n + 2 # 1
  BY <1>1
<1>3. n + 1 \in 1..Len(a) => (n + 1 \in Places(a) <=> a[n] \notin Valued)
  BY <1>2, StartsUnfold, Zenon DEF Clear
<1>4. n + 1 \in Places(a) => n + 1 \in 1..Len(a)
  BY DEF Places
<1>5. n + 2 \in 1..Len(a) /\ a[n] \in Valued => n + 2 \in Places(a)
  BY <1>2, StartsUnfold, Zenon
<1>6. /\ n < Len(a) => n + 1 \in 1..Len(a)
      /\ n + 2 <= Len(a) => n + 2 \in 1..Len(a)
  BY <1>1
<1>7. /\ Clear(a, n + 1) <=> (n \in Places(a) => a[n] \notin Valued)
      /\ Clear(a, n + 2) <=> (n + 1 \in Places(a) => a[n + 1] \notin Valued)
  BY <1>2, Zenon DEF Clear
<1> QED
  BY <1>3, <1>4, <1>5, <1>6, <1>7, Zenon

LEMMA FirstPlace ==
    ASSUME NEW a \in Seq(STRING), Len(a) >= 1
    PROVE  1 \in Places(a) /\ Clear(a, 1)
<1>1. 1 \in 1..Len(a)
  BY LenProperties
<1>2. 1 \in Places(a)
  BY <1>1, StartsUnfold
<1>3. 1 - 1 \notin Places(a)
  BY DEF Places
<1> QED
  BY <1>2, <1>3 DEF Clear

\* The places read when the next one is n.
Read(a, n) == {i \in Places(a) : i < n}

LEMMA ReadNext ==
    ASSUME NEW a \in Seq(STRING), NEW n \in Places(a), Clear(a, n)
    PROVE  /\ Read(a, n + 1) = Read(a, n) \cup {n}
           /\ a[n] \in Valued => Read(a, n + 2) = Read(a, n) \cup {n}
           /\ Read(a, n) \subseteq 1..(n - 1)
<1>1. n \in 1..Len(a) /\ Places(a) \subseteq Nat /\ n \in Nat
  BY LenProperties DEF Places
<1>2. Read(a, n + 1) = Read(a, n) \cup {n}
  BY <1>1 DEF Read
<1>3. a[n] \in Valued => Read(a, n + 2) = Read(a, n + 1)
  <2>1. \A i \in Nat : i < n + 2 <=> i < n + 1 \/ i = n + 1
    BY <1>1
  <2>2. a[n] \in Valued => n + 1 \notin Places(a)
    BY NextPlace
  <2> QED
    BY <1>1, <2>1, <2>2 DEF Read
<1>4. Read(a, n) \subseteq 1..(n - 1)
  BY <1>1 DEF Read, Places
<1> QED
  BY <1>2, <1>3, <1>4

LEMMA ReadAll ==
    ASSUME NEW a \in Seq(STRING)
    PROVE  Read(a, Len(a) + 1) = Places(a) /\ Read(a, 1) = {}
  BY LenProperties DEF Read, Places

-----------------------------------------------------------------------------
(* What the words at the places P say. *)

Said(a, P, option) == {i \in P : a[i] = option}
SaidLast(a, P, option, default) ==
    IF Said(a, P, option) = {} THEN default ELSE a[Max(Said(a, P, option)) + 1]

SaidJobs(a, P) == {i \in P : a[i] = "-j" \/ a[i] \in DOMAIN Attached}
JobsAt(a, i) == Jobs[IF a[i] = "-j" THEN a[i + 1] ELSE Attached[a[i]]]
SaidProcesses(a, P) == IF SaidJobs(a, P) = {} THEN 1 ELSE JobsAt(a, Max(SaidJobs(a, P)))

SaidLimit(a, P) ==
    IF Said(a, P, "--timeout") = {} THEN "positive"
    ELSE Limits[SaidLast(a, P, "--timeout", None)]

SaidFiles(a, P) == {i \in P : a[i] \notin Dashed}

\* Each word is one the code knows, with the value it needs.
Known(a, i) ==
    /\ a[i] \in Dashed => a[i] \in Valued \cup Switches \cup DOMAIN Attached
    /\ a[i] \in Valued => i < Len(a) /\ Valid(a[i], a[i + 1])
    /\ a[i] \in DOMAIN Attached => ValidJobs(Attached[a[i]])

\* r is what they say.
Says(a, P, r) ==
    /\ \A i \in P : Known(a, i)
    /\ r.processes = SaidProcesses(a, P)
    /\ r.single_test = SaidLast(a, P, "-t", None)
    /\ r.output = SaidLast(a, P, "-o", None)
    /\ r.internal_status = SaidLast(a, P, "--internal-status", None)
    /\ r.format = SaidLast(a, P, "--format", "human")
    /\ r.time_limit = SaidLimit(a, P)
    /\ r.overwrite = (Said(a, P, "-f") # {})
    /\ r.stop_on_first_error = (Said(a, P, "-x") # {})
    /\ IF SaidFiles(a, P) = {} THEN r.test_file = None
       ELSE \A i \in SaidFiles(a, P) : a[i] = r.test_file /\ SaidFiles(a, P) = {i}

LEMMA LastIsMax ==
    ASSUME NEW n \in Nat, NEW S \in SUBSET (1..n), n \in S
    PROVE  Max(S) = n
<1>1. \A y \in S : n >= y
  OBVIOUS
<1>2. \A x \in S : (\A y \in S : x >= y) => x = n
  OBVIOUS
<1> QED
  BY <1>1, <1>2 DEF Max

\* One word more, at a place behind the others.
Adds(a, P, n, Q) ==
    /\ \A o : a[n] = o => /\ Said(a, Q, o) # {}
                          /\ \A d : SaidLast(a, Q, o, d) = a[n + 1]
    /\ \A o : a[n] # o => /\ Said(a, Q, o) = Said(a, P, o)
                          /\ \A d : SaidLast(a, Q, o, d) = SaidLast(a, P, o, d)
    /\ a[n] = "-j" \/ a[n] \in DOMAIN Attached => SaidProcesses(a, Q) = JobsAt(a, n)
    /\ a[n] # "-j" /\ a[n] \notin DOMAIN Attached => SaidProcesses(a, Q) = SaidProcesses(a, P)
    /\ a[n] = "--timeout" => SaidLimit(a, Q) = Limits[a[n + 1]]
    /\ a[n] # "--timeout" => SaidLimit(a, Q) = SaidLimit(a, P)
    /\ a[n] \notin Dashed => SaidFiles(a, Q) = SaidFiles(a, P) \cup {n}
    /\ a[n] \in Dashed => SaidFiles(a, Q) = SaidFiles(a, P)

LEMMA OneMore ==
    ASSUME NEW a, NEW n \in Nat, n > 0, NEW P \in SUBSET (1..(n - 1))
    PROVE  Adds(a, P, n, P \cup {n})
<1> DEFINE Q == P \cup {n}
<1>1. Q \subseteq 1..n /\ n \in Q
  OBVIOUS
<1>2. ASSUME NEW o, a[n] = o
      PROVE  /\ Said(a, Q, o) # {}
             /\ \A d : SaidLast(a, Q, o, d) = a[n + 1]
  <2>1. n \in Said(a, Q, o) /\ Said(a, Q, o) \subseteq 1..n
    BY <1>1, <1>2 DEF Said
  <2>2. Max(Said(a, Q, o)) = n
    BY <2>1, LastIsMax
  <2> QED
    BY <2>1, <2>2 DEF SaidLast
<1>3. ASSUME NEW o, a[n] # o
      PROVE  /\ Said(a, Q, o) = Said(a, P, o)
             /\ \A d : SaidLast(a, Q, o, d) = SaidLast(a, P, o, d)
  <2>1. Said(a, Q, o) = Said(a, P, o)
    BY <1>3 DEF Said
  <2> QED
    BY <2>1 DEF SaidLast
<1>4. ASSUME a[n] = "-j" \/ a[n] \in DOMAIN Attached
      PROVE  SaidProcesses(a, Q) = JobsAt(a, n)
  <2>1. n \in SaidJobs(a, Q) /\ SaidJobs(a, Q) \subseteq 1..n
    BY <1>1, <1>4 DEF SaidJobs
  <2>2. Max(SaidJobs(a, Q)) = n
    BY <2>1, LastIsMax
  <2> QED
    BY <2>1, <2>2 DEF SaidProcesses
<1>5. ASSUME a[n] # "-j", a[n] \notin DOMAIN Attached
      PROVE  SaidProcesses(a, Q) = SaidProcesses(a, P)
  <2>1. SaidJobs(a, Q) = SaidJobs(a, P)
    BY <1>5 DEF SaidJobs
  <2> QED
    BY <2>1 DEF SaidProcesses
<1>6. a[n] = "--timeout" => SaidLimit(a, Q) = Limits[a[n + 1]]
  BY <1>2 DEF SaidLimit
<1>7. a[n] # "--timeout" => SaidLimit(a, Q) = SaidLimit(a, P)
  BY <1>3 DEF SaidLimit
<1>8. a[n] \notin Dashed => SaidFiles(a, Q) = SaidFiles(a, P) \cup {n}
  BY DEF SaidFiles
<1>9. a[n] \in Dashed => SaidFiles(a, Q) = SaidFiles(a, P)
  BY DEF SaidFiles
<1> HIDE DEF Q
<1>10. /\ \A o : a[n] = o => /\ Said(a, Q, o) # {}
                             /\ \A d : SaidLast(a, Q, o, d) = a[n + 1]
       /\ \A o : a[n] # o => /\ Said(a, Q, o) = Said(a, P, o)
                             /\ \A d : SaidLast(a, Q, o, d) = SaidLast(a, P, o, d)
  BY <1>2, <1>3
<1> QED
  BY <1>4, <1>5, <1>6, <1>7, <1>8, <1>9, <1>10 DEF Q, Adds

LEMMA NothingSaid ==
    ASSUME NEW a
    PROVE  Says(a, {}, Defaults)
  BY DEF Says, Defaults, SaidProcesses, SaidJobs, SaidLast, SaidLimit, SaidFiles, Said

\* The words are of four kinds.
LEMMA WordKinds ==
    ASSUME NEW w
    PROVE  /\ w \in Valued \cup Switches \cup DOMAIN Attached => w \in Dashed
           /\ w \in DOMAIN Attached => w \notin Valued \cup Switches
           /\ w \in Switches => w \notin Valued
  BY ArgumentAssumption DEF Valued, Switches

\* A word that is no file says nothing of the file.
LEMMA FileStays ==
    ASSUME NEW a, NEW P, NEW Q, SaidFiles(a, Q) = SaidFiles(a, P), NEW r, NEW q,
           q.test_file = r.test_file,
           IF SaidFiles(a, P) = {} THEN r.test_file = None
           ELSE \A i \in SaidFiles(a, P) : a[i] = r.test_file /\ SaidFiles(a, P) = {i}
    PROVE  IF SaidFiles(a, Q) = {} THEN q.test_file = None
           ELSE \A i \in SaidFiles(a, Q) : a[i] = q.test_file /\ SaidFiles(a, Q) = {i}
  OBVIOUS

LEMMA FileSaid ==
    ASSUME NEW a \in ArgumentVectors, NEW n \in 1..Len(a), NEW P \in SUBSET (1..(n - 1)),
           NEW r \in StructArguments, Says(a, P, r), a[n] \notin Dashed, r.test_file = None
    PROVE  Says(a, P \cup {n}, [r EXCEPT !.test_file = a[n]])
<1> DEFINE Q == P \cup {n}
           q == [r EXCEPT !.test_file = a[n]]
<1>0. a \in Seq(STRING) /\ Adds(a, P, n, Q)
  <2>1. a \in Seq(STRING) /\ n \in Nat /\ n > 0
    BY ArgumentAssumption
  <2> QED
    BY <2>1, OneMore
<1>1. /\ q.processes = r.processes /\ q.single_test = r.single_test /\ q.output = r.output
      /\ q.internal_status = r.internal_status /\ q.format = r.format
      /\ q.time_limit = r.time_limit /\ q.overwrite = r.overwrite
      /\ q.stop_on_first_error = r.stop_on_first_error /\ q.test_file = a[n]
  BY DEF StructArguments
<1>2. /\ a[n] \notin Valued /\ a[n] \notin Switches /\ a[n] \notin DOMAIN Attached
      /\ a[n] \notin {"-j", "-t", "-o", "--internal-status", "--format", "--timeout", "-f", "-x"}
  BY WordKinds DEF Valued, Switches
<1>3. SaidFiles(a, P) = {}
  <2>1. \A i \in SaidFiles(a, P) : a[i] # None
    <3>1. \A i \in P : i \in 1..Len(a)
      BY <1>0
    <3> QED
      BY <3>1, ArgumentAssumption DEF SaidFiles
  <2> QED
    BY <2>1 DEF Says
<1> HIDE DEF q, Q
<1>4. /\ \A i \in P : Known(a, i)
      /\ Known(a, n)
  BY <1>2 DEF Says, Known
<1>5. /\ q.processes = SaidProcesses(a, Q)
      /\ q.single_test = SaidLast(a, Q, "-t", None)
      /\ q.output = SaidLast(a, Q, "-o", None)
      /\ q.internal_status = SaidLast(a, Q, "--internal-status", None)
      /\ q.format = SaidLast(a, Q, "--format", "human")
      /\ q.time_limit = SaidLimit(a, Q)
      /\ q.overwrite = (Said(a, Q, "-f") # {})
      /\ q.stop_on_first_error = (Said(a, Q, "-x") # {})
  <2>1. /\ SaidProcesses(a, Q) = SaidProcesses(a, P) /\ SaidLimit(a, Q) = SaidLimit(a, P)
        /\ \A o \in {"-t", "-o", "--internal-status", "--format", "-f", "-x"} :
              /\ Said(a, Q, o) = Said(a, P, o)
              /\ \A d : SaidLast(a, Q, o, d) = SaidLast(a, P, o, d)
    BY <1>0, <1>2 DEF Adds
  <2> QED
    BY <1>1, <2>1 DEF Says
<1>6. SaidFiles(a, Q) = {n}
  BY <1>0, <1>3, Zenon DEF Adds
<1>7. IF SaidFiles(a, Q) = {} THEN q.test_file = None
      ELSE \A i \in SaidFiles(a, Q) : a[i] = q.test_file /\ SaidFiles(a, Q) = {i}
  BY <1>1, <1>6
<1>8. \A i \in Q : Known(a, i)
  BY <1>4 DEF Q
<1> QED
  BY <1>5, <1>7, <1>8 DEF Says, q, Q

LEMMA SwitchSaid ==
    ASSUME NEW a \in ArgumentVectors, NEW n \in 1..Len(a), NEW P \in SUBSET (1..(n - 1)),
           NEW r \in StructArguments, Says(a, P, r), a[n] \in Switches
    PROVE  Says(a, P \cup {n}, Flip(r, a[n]))
<1> DEFINE Q == P \cup {n}
<1>0. a \in Seq(STRING) /\ Adds(a, P, n, Q)
  <2>1. a \in Seq(STRING) /\ n \in Nat /\ n > 0
    BY ArgumentAssumption
  <2> QED
    BY <2>1, OneMore
<1>1. PICK q : q = Flip(r, a[n])
  OBVIOUS
<1>2. /\ q.processes = r.processes /\ q.single_test = r.single_test /\ q.output = r.output
      /\ q.internal_status = r.internal_status /\ q.format = r.format
      /\ q.time_limit = r.time_limit /\ q.test_file = r.test_file
  BY <1>1 DEF StructArguments, Flip
<1>3. /\ a[n] = "-f" => q.overwrite = TRUE
      /\ a[n] # "-f" => q.overwrite = r.overwrite
      /\ a[n] = "-x" => q.stop_on_first_error = TRUE
      /\ a[n] # "-x" => q.stop_on_first_error = r.stop_on_first_error
  BY <1>1 DEF StructArguments, Flip
<1>4. /\ a[n] \in Dashed /\ a[n] \notin Valued /\ a[n] \notin DOMAIN Attached
      /\ a[n] \notin {"-j", "-t", "-o", "--internal-status", "--format", "--timeout"}
  BY WordKinds DEF Valued
<1> HIDE DEF Q
<1>5. /\ \A i \in P : Known(a, i)
      /\ Known(a, n)
  BY <1>4 DEF Says, Known
<1>6. /\ q.processes = SaidProcesses(a, Q)
      /\ q.single_test = SaidLast(a, Q, "-t", None)
      /\ q.output = SaidLast(a, Q, "-o", None)
      /\ q.internal_status = SaidLast(a, Q, "--internal-status", None)
      /\ q.format = SaidLast(a, Q, "--format", "human")
      /\ q.time_limit = SaidLimit(a, Q)
  <2>1. /\ SaidProcesses(a, Q) = SaidProcesses(a, P) /\ SaidLimit(a, Q) = SaidLimit(a, P)
        /\ \A o \in {"-t", "-o", "--internal-status", "--format"} :
              \A d : SaidLast(a, Q, o, d) = SaidLast(a, P, o, d)
    BY <1>0, <1>4 DEF Adds
  <2> QED
    BY <1>2, <2>1 DEF Says
<1>7. q.overwrite = (Said(a, Q, "-f") # {})
  <2>1. CASE a[n] = "-f"
    <3>1. Said(a, Q, "-f") # {}
      BY <1>0, <2>1, Zenon DEF Adds
    <3> QED
      BY <1>3, <2>1, <3>1
  <2>2. CASE a[n] # "-f"
    <3>1. Said(a, Q, "-f") = Said(a, P, "-f")
      BY <1>0, <2>2, Zenon DEF Adds
    <3> QED
      BY <1>3, <2>2, <3>1 DEF Says
  <2> QED
    BY <2>1, <2>2
<1>8. q.stop_on_first_error = (Said(a, Q, "-x") # {})
  <2>1. CASE a[n] = "-x"
    <3>1. Said(a, Q, "-x") # {}
      BY <1>0, <2>1, Zenon DEF Adds
    <3> QED
      BY <1>3, <2>1, <3>1
  <2>2. CASE a[n] # "-x"
    <3>1. Said(a, Q, "-x") = Said(a, P, "-x")
      BY <1>0, <2>2, Zenon DEF Adds
    <3> QED
      BY <1>3, <2>2, <3>1 DEF Says
  <2> QED
    BY <2>1, <2>2
<1>9. IF SaidFiles(a, Q) = {} THEN q.test_file = None
      ELSE \A i \in SaidFiles(a, Q) : a[i] = q.test_file /\ SaidFiles(a, Q) = {i}
  <2>1. SaidFiles(a, Q) = SaidFiles(a, P)
    BY <1>0, <1>4, Zenon DEF Adds
  <2> QED
    BY <1>2, <2>1, FileStays DEF Says
<1>10. \A i \in Q : Known(a, i)
  BY <1>5 DEF Q
<1>11. Says(a, Q, q)
  BY <1>6, <1>7, <1>8, <1>9, <1>10 DEF Says
<1> QED
  BY <1>1, <1>11 DEF Q

\* An option with its value: its own word, or -j with the number behind it.
LEMMA ValueSaid ==
    ASSUME NEW a \in ArgumentVectors, NEW n \in 1..Len(a), NEW P \in SUBSET (1..(n - 1)),
           NEW r \in StructArguments, Says(a, P, r),
           NEW o \in Valued, NEW v, Valid(o, v),
           \/ a[n] = o /\ n < Len(a) /\ v = a[n + 1]
           \/ a[n] \in DOMAIN Attached /\ o = "-j" /\ v = Attached[a[n]]
    PROVE  Says(a, P \cup {n}, Assign(r, o, v))
<1> DEFINE Q == P \cup {n}
<1>0. a \in Seq(STRING) /\ Adds(a, P, n, Q)
  <2>1. a \in Seq(STRING) /\ n \in Nat /\ n > 0
    BY ArgumentAssumption
  <2> QED
    BY <2>1, OneMore
<1>1. PICK q : q = Assign(r, o, v)
  OBVIOUS
<1>2. /\ q.overwrite = r.overwrite /\ q.stop_on_first_error = r.stop_on_first_error
      /\ q.test_file = r.test_file
  BY <1>1 DEF StructArguments, Assign
<1>3. /\ q.processes = IF o = "-j" THEN Jobs[v] ELSE r.processes
      /\ q.time_limit = IF o = "--timeout" THEN Limits[v] ELSE r.time_limit
      /\ q.format = IF o = "--format" THEN v ELSE r.format
      /\ q.single_test = IF o = "-t" THEN v ELSE r.single_test
      /\ q.output = IF o = "-o" THEN v ELSE r.output
      /\ q.internal_status = IF o = "--internal-status" THEN v ELSE r.internal_status
  BY <1>1 DEF StructArguments, Assign, Valued
<1>4. /\ a[n] \in Dashed /\ a[n] \notin Switches
      /\ a[n] # "-f" /\ a[n] # "-x"
      /\ a[n] \in Valued <=> a[n] = o
      /\ a[n] \in DOMAIN Attached <=> a[n] # o
  BY WordKinds DEF Switches, Valued
<1> HIDE DEF Q
<1>5. /\ \A i \in P : Known(a, i)
      /\ Known(a, n)
  BY <1>4 DEF Says, Known, Valid
<1>6. q.processes = SaidProcesses(a, Q)
  <2>1. CASE o = "-j"
    <3>1. SaidProcesses(a, Q) = JobsAt(a, n)
      BY <1>0, <1>4, <2>1, Zenon DEF Adds
    <3>2. JobsAt(a, n) = Jobs[v]
      BY <1>4, <2>1 DEF JobsAt
    <3> QED
      BY <1>3, <2>1, <3>1, <3>2
  <2>2. CASE o # "-j"
    <3>1. a[n] # "-j" /\ a[n] \notin DOMAIN Attached
      BY <1>4, <2>2
    <3>2. SaidProcesses(a, Q) = SaidProcesses(a, P)
      BY <1>0, <3>1, Zenon DEF Adds
    <3> QED
      BY <1>3, <2>2, <3>2 DEF Says
  <2> QED
    BY <2>1, <2>2
<1>7. ASSUME NEW p \in {"-t", "-o", "--internal-status", "--format"}, NEW d
      PROVE  SaidLast(a, Q, p, d) = IF o = p THEN v ELSE SaidLast(a, P, p, d)
  <2>1. CASE o = p
    <3>1. a[n] = p /\ v = a[n + 1]
      BY <2>1
    <3> QED
      BY <1>0, <2>1, <3>1, Zenon DEF Adds
  <2>2. CASE o # p
    <3>1. a[n] # p
      BY <1>4, <2>2, p \in Valued DEF Valued
    <3> QED
      BY <1>0, <2>2, <3>1, Zenon DEF Adds
  <2> QED
    BY <2>1, <2>2
<1>8. /\ q.single_test = SaidLast(a, Q, "-t", None)
      /\ q.output = SaidLast(a, Q, "-o", None)
      /\ q.internal_status = SaidLast(a, Q, "--internal-status", None)
      /\ q.format = SaidLast(a, Q, "--format", "human")
  BY <1>3, <1>7 DEF Says
<1>9. q.time_limit = SaidLimit(a, Q)
  <2>1. CASE o = "--timeout"
    <3>1. a[n] = "--timeout" /\ v = a[n + 1]
      BY <2>1
    <3> QED
      BY <1>0, <1>3, <2>1, <3>1, Zenon DEF Adds
  <2>2. CASE o # "--timeout"
    <3>1. a[n] # "--timeout"
      BY <1>4, <2>2 DEF Valued
    <3>2. SaidLimit(a, Q) = SaidLimit(a, P)
      BY <1>0, <3>1, Zenon DEF Adds
    <3> QED
      BY <1>3, <2>2, <3>2 DEF Says
  <2> QED
    BY <2>1, <2>2
<1>10. /\ q.overwrite = (Said(a, Q, "-f") # {})
       /\ q.stop_on_first_error = (Said(a, Q, "-x") # {})
  <2>1. Said(a, Q, "-f") = Said(a, P, "-f") /\ Said(a, Q, "-x") = Said(a, P, "-x")
    BY <1>0, <1>4, Zenon DEF Adds
  <2> QED
    BY <1>2, <2>1 DEF Says
<1>11. IF SaidFiles(a, Q) = {} THEN q.test_file = None
       ELSE \A i \in SaidFiles(a, Q) : a[i] = q.test_file /\ SaidFiles(a, Q) = {i}
  <2>1. SaidFiles(a, Q) = SaidFiles(a, P)
    BY <1>0, <1>4, Zenon DEF Adds
  <2> QED
    BY <1>2, <2>1, FileStays DEF Says
<1>12. \A i \in Q : Known(a, i)
  BY <1>5 DEF Q
<1>13. Says(a, Q, q)
  BY <1>6, <1>8, <1>9, <1>10, <1>11, <1>12 DEF Says
<1> QED
  BY <1>1, <1>13 DEF Q

-----------------------------------------------------------------------------
(* The loop of the parser and what is kept after it. *)

\* The next word is not a value; while nothing was wrong, args says what the words
\* read so far say; and once they are accepted, what all of them say.
InTurn == pc \in {"help", "arguments"} /\ at <= Len(argv) =>
              at \in Places(argv) /\ Clear(argv, at)
SoFar == pc \in {"help", "arguments"} /\ result = "ok" => Says(argv, Read(argv, at), args)
InTheEnd == Understood => /\ Says(argv, Places(argv), args)
                          /\ args.test_file = None \/ args.single_test = None

AInv == Types /\ InTurn /\ SoFar /\ InTheEnd

LEMMA AInvInit == Init => AInv
<1> SUFFICES ASSUME Init PROVE AInv
    OBVIOUS
<1>1. /\ pc = "help" /\ argv \in ArgumentVectors /\ at = 1 /\ args = Defaults
      /\ argv \in Seq(STRING)
  BY ArgumentAssumption DEF Init, ArgumentsInit
<1>2. Types
  BY InitInv DEF MInv
<1>3. InTurn
  BY <1>1, FirstPlace DEF InTurn
<1>4. SoFar
  BY <1>1, ReadAll, NothingSaid DEF SoFar
<1>5. InTheEnd
  BY <1>1 DEF InTheEnd, Understood
<1> QED
  BY <1>2, <1>3, <1>4, <1>5 DEF AInv

\* A word, the last step of the loop aside: where it leaves the loop.
LEMMA TurnKept ==
    ASSUME AInv, ParseArguments, ~EndOfArguments
    PROVE  /\ pc = "arguments" /\ pc' = "arguments" /\ argv' = argv
           /\ argv \in ArgumentVectors /\ argv \in Seq(STRING) /\ args \in StructArguments
           /\ at \in Places(argv) /\ at \in 1..Len(argv) /\ Clear(argv, at)
           /\ InTurn'
           /\ result' = "ok" => /\ Read(argv, at') = Read(argv, at) \cup {at}
                                /\ result = "ok"
<1>1. /\ argv \in ArgumentVectors /\ argv \in Seq(STRING) /\ args \in StructArguments
      /\ at \in 1..(Len(argv) + 1) /\ Len(argv) \in Nat
  BY ArgumentAssumption, LenProperties DEF AInv, Types, TypeOK
<1>2. Parsing /\ pc' = pc /\ argv' = argv
  BY DEF ParseArguments, TakeFile, TakeSwitch, TakeValue, MissingValue, TakeAttached, RefuseWord
<1>3. at \in Places(argv) /\ at \in 1..Len(argv) /\ Clear(argv, at)
  BY <1>1, <1>2 DEF AInv, InTurn, Parsing
<1>4. \/ at' = at + 1 /\ argv[at] \notin Valued
      \/ at' = at + 2 /\ argv[at] \in Valued
      \/ at' = at + 1 /\ at = Len(argv) /\ result' # "ok"
  BY WordKinds DEF ParseArguments, TakeFile, TakeSwitch, TakeValue, MissingValue, TakeAttached,
     RefuseWord, Word, Outcome
<1>5. result' = "ok" => result = "ok"
  BY DEF ParseArguments, TakeFile, TakeSwitch, TakeValue, MissingValue, TakeAttached,
     RefuseWord, Outcome
<1>6. InTurn'
  <2>1. at' <= Len(argv) => at' \in Places(argv) /\ Clear(argv, at')
    <3>1. CASE at' = at + 1 /\ argv[at] \notin Valued
      <4>1. at' <= Len(argv) => at < Len(argv)
        BY <1>1, <3>1
      <4> QED
        BY <1>1, <1>3, <3>1, <4>1, NextPlace
    <3>2. CASE at' = at + 2 /\ argv[at] \in Valued
      BY <1>1, <1>3, <3>2, NextPlace
    <3>3. CASE at' = at + 1 /\ at = Len(argv)
      BY <1>1, <3>3
    <3> QED
      BY <1>4, <3>1, <3>2, <3>3
  <2> QED
    BY <1>2, <2>1 DEF InTurn
<1>7. result' = "ok" => Read(argv, at') = Read(argv, at) \cup {at}
  BY <1>1, <1>3, <1>4, ReadNext
<1> QED
  BY <1>1, <1>2, <1>3, <1>5, <1>6, <1>7 DEF Parsing

LEMMA SoFarKept ==
    ASSUME AInv, ParseArguments, ~EndOfArguments, result' = "ok"
    PROVE  Says(argv, Read(argv, at) \cup {at}, args')
<1>1. /\ pc = "arguments" /\ argv \in ArgumentVectors /\ argv \in Seq(STRING)
      /\ args \in StructArguments
      /\ at \in Places(argv) /\ at \in 1..Len(argv) /\ Clear(argv, at) /\ result = "ok"
  BY TurnKept
<1>2. Says(argv, Read(argv, at), args) /\ Read(argv, at) \in SUBSET (1..(at - 1))
  BY <1>1, ReadNext DEF AInv, SoFar
<1>3. CASE TakeFile
  <2>1. /\ args.test_file = None /\ argv[at] \notin Dashed
        /\ args' = [args EXCEPT !.test_file = argv[at]]
    BY <1>3 DEF TakeFile, Outcome, Word
  <2> QED
    BY <1>1, <1>2, <2>1, FileSaid
<1>4. CASE TakeSwitch
  <2>1. argv[at] \in Switches /\ args' = Flip(args, argv[at])
    BY <1>4 DEF TakeSwitch, Word
  <2> QED
    BY <1>1, <1>2, <2>1, SwitchSaid
<1>5. CASE TakeValue
  <2>1. /\ argv[at] \in Valued /\ at < Len(argv) /\ Valid(argv[at], argv[at + 1])
        /\ args' = Assign(args, argv[at], argv[at + 1])
    BY <1>5 DEF TakeValue, Outcome, Word
  <2> QED
    BY <1>1, <1>2, <2>1, ValueSaid
<1>6. CASE TakeAttached
  <2>1. /\ argv[at] \in DOMAIN Attached /\ ValidJobs(Attached[argv[at]])
        /\ args' = Assign(args, "-j", Attached[argv[at]])
    BY <1>6 DEF TakeAttached, Outcome, Word
  <2>2. "-j" \in Valued /\ Valid("-j", Attached[argv[at]])
    BY <2>1 DEF Valued, Valid
  <2> QED
    BY <1>1, <1>2, <2>1, <2>2, ValueSaid
<1>7. CASE MissingValue \/ RefuseWord
  BY <1>7 DEF MissingValue, RefuseWord, Outcome
<1> QED
  BY <1>3, <1>4, <1>5, <1>6, <1>7 DEF ParseArguments

LEMMA AfterArguments ==
    ASSUME Acquiring \/ Working \/ Releasing
    PROVE  Understood /\ pc' \notin {"help", "arguments"}
<1> USE DEF Understood, Goto
<1>1. CASE Acquiring
  BY <1>1 DEF Acquiring, InitArena, InitStrings, OpenStatus, NoStatus, OpenInput, ReadStdin,
     WriteStdout, OutputExists, OpenOutput, OutputFails, Acquire
<1>2. CASE Working
  BY <1>2 DEF Working, Parse, ParseFails, Load, RunAll, RunFails, RunSingle
<1>3. CASE Releasing
  BY <1>3 DEF Releasing, Unload, CloseOutput, CloseInput, CloseStatus, FreeStrings, FreeArena,
     Release
<1> QED
  BY <1>1, <1>2, <1>3

LEMMA AInvStep == AInv /\ [Next]_vars => AInv'
<1> SUFFICES ASSUME AInv, [Next]_vars PROVE AInv'
    OBVIOUS
<1>0. Types'
  BY TypesStep DEF AInv
<1>1. CASE UNCHANGED vars
  <2>1. pc' = pc /\ argv' = argv /\ at' = at /\ args' = args /\ result' = result
    BY <1>1 DEF vars
  <2>2. InTurn' /\ SoFar' /\ InTheEnd'
    BY <2>1 DEF AInv, InTurn, SoFar, InTheEnd, Understood
  <2> QED
    BY <1>0, <2>2 DEF AInv
<1>2. CASE Help
  <2>1. /\ pc = "help" /\ pc' \in {"exit", "arguments"}
        /\ argv' = argv /\ at' = at /\ args' = args /\ result' = result
    BY <1>2 DEF Help, Goto, given
  <2>2. InTurn' /\ SoFar' /\ InTheEnd'
    BY <2>1 DEF AInv, InTurn, SoFar, InTheEnd, Understood
  <2> QED
    BY <1>0, <2>2 DEF AInv
<1>3. CASE Arguments /\ ~EndOfArguments
  <2>1. ParseArguments
    BY <1>3 DEF Arguments
  <2>2. /\ pc' = "arguments" /\ argv' = argv /\ InTurn'
        /\ result' = "ok" => Read(argv, at') = Read(argv, at) \cup {at}
    BY <1>3, <2>1, TurnKept
  <2>3. SoFar'
    BY <1>3, <2>1, <2>2, SoFarKept DEF SoFar
  <2>4. InTheEnd'
    BY <2>2 DEF InTheEnd, Understood
  <2> QED
    BY <1>0, <2>2, <2>3, <2>4 DEF AInv
<1>4. CASE EndOfArguments
  <2>1. /\ argv \in Seq(STRING) /\ at \in 1..(Len(argv) + 1) /\ Len(argv) \in Nat
    BY ArgumentAssumption, LenProperties DEF AInv, Types, TypeOK
  <2>2. at = Len(argv) + 1 /\ pc = "arguments"
    BY <1>4, <2>1 DEF EndOfArguments
  <2>3. /\ argv' = argv /\ args' = args /\ pc' \in {"arena", "exit"}
        /\ pc' = "arena" => /\ result = "ok"
                            /\ args.test_file = None \/ args.single_test = None
    BY <1>4 DEF EndOfArguments, Outcome
  <2>4. pc' = "arena" => Says(argv, Places(argv), args)
    BY <2>1, <2>2, <2>3, ReadAll DEF AInv, SoFar
  <2>5. InTurn' /\ SoFar' /\ InTheEnd'
    BY <2>3, <2>4 DEF InTurn, SoFar, InTheEnd, Understood
  <2> QED
    BY <1>0, <2>5 DEF AInv
<1>5. CASE Acquiring \/ Working \/ Releasing
  <2>1. Understood /\ pc' \notin {"help", "arguments"} /\ argv' = argv /\ args' = args
    BY <1>5, AfterArguments, GivenKept
  <2>2. InTurn' /\ SoFar' /\ InTheEnd'
    BY <2>1 DEF AInv, InTurn, SoFar, InTheEnd
  <2> QED
    BY <1>0, <2>2 DEF AInv
<1> QED
  BY <1>1, <1>2, <1>3, <1>4, <1>5, Steps

\* What an accepted command line is taken for is what it says, read as a whole:
\* however many words, in any order, an option given twice or taking another
\* option for its value (arguments.c 29-157).
THEOREM ArgumentsUnderstood == Spec => []ArgumentsAsGiven
<1>1. AInv => ArgumentsAsGiven
  <2> SUFFICES ASSUME AInv, Understood PROVE ArgumentsAsGiven
    BY DEF ArgumentsAsGiven
  <2>1. /\ Says(argv, Started, args)
        /\ args.test_file = None \/ args.single_test = None
    BY StartedPlaces DEF AInv, InTheEnd
  <2>2. argv \in ArgumentVectors /\ Started \subseteq 1..Len(argv)
    BY DEF AInv, Types, Started
  <2>3. \A o : Given(o) = Said(argv, Started, o)
    BY DEF Given, Said
  <2>4. \A o, d : ValueOf(o, d) = SaidLast(argv, Started, o, d)
    BY <2>3 DEF ValueOf, SaidLast
  <2>5. Processes = SaidProcesses(argv, Started)
    BY DEF Processes, SaidProcesses, SaidJobs, JobsAt
  <2>6. FileNames = SaidFiles(argv, Started)
    BY DEF FileNames, SaidFiles
  <2>7. args.time_limit = IF Given("--timeout") = {} THEN "positive"
                          ELSE Limits[ValueOf("--timeout", None)]
    BY <2>1, <2>3, <2>4 DEF Says, SaidLimit
  <2>8. /\ \A i \in Started \ FileNames : argv[i] \in Valued \cup Switches \cup DOMAIN Attached
        /\ \A i \in Started : argv[i] \in Valued => i < Len(argv) /\ Valid(argv[i], argv[i + 1])
        /\ \A i \in Started : argv[i] \in DOMAIN Attached => ValidJobs(Attached[argv[i]])
    BY <2>1 DEF Says, Known, FileNames
  <2>9. IF FileNames = {} THEN args.test_file = None
        ELSE /\ \A i \in FileNames : argv[i] = args.test_file /\ FileNames = {i}
             /\ args.single_test = None
    <3>1. IF FileNames = {} THEN args.test_file = None
          ELSE \A i \in FileNames : argv[i] = args.test_file /\ FileNames = {i}
      BY <2>1, <2>6 DEF Says
    <3>2. \A i \in FileNames : argv[i] # None
      BY <2>2, ArgumentAssumption DEF FileNames
    <3> QED
      BY <2>1, <3>1, <3>2
  <2>10. /\ args.processes = Processes
         /\ args.single_test = ValueOf("-t", None)
         /\ args.output = ValueOf("-o", None)
         /\ args.internal_status = ValueOf("--internal-status", None)
         /\ args.format = ValueOf("--format", "human")
         /\ args.overwrite = (Given("-f") # {})
         /\ args.stop_on_first_error = (Given("-x") # {})
    BY <2>1, <2>3, <2>4, <2>5 DEF Says
  <2> QED
    BY <2>7, <2>8, <2>9, <2>10 DEF ArgumentsAsGiven
<1> QED
  BY <1>1, AInvInit, AInvStep, PTL DEF Spec
=============================================================================
