------------------------------ MODULE TdoParse ------------------------------
(***************************************************************************)
(* Reading test definitions (test.c) and loading the libraries they name   *)
(* (main.c).  A definition line is a sequence of items, each a prefix and  *)
(* the library of its symbol; a line without items is empty or a comment.  *)
(* The arrays live in one arena, move when they grow and were not the last *)
(* allocation, and symbols keep pointers into the array of libraries:      *)
(* blocks holds what is at each address an array was ever put.             *)
(***************************************************************************)
EXTENDS TdoArena, SequencesExt

CONSTANTS
    Lines,          \* the lines an input may have
    MaxLines,       \* bound on their number, for finite instances
    Loadable,       \* the libraries dlopen finds
    FirstCapacity,  \* capacity of an array that was empty
    FileSize, TestSize, FixtureSize,    \* sizeof the elements
    InitialCapacity

ASSUME ParseAssumption ==
    /\ MaxLines \in Nat
    /\ {FirstCapacity, FileSize, TestSize, FixtureSize} \subseteq Nat \ {0}
    /\ InitialCapacity \in 1..MallocMax
    /\ Lines \subseteq Seq([prefix : STRING, library : STRING])

Malformed == "malformed"    \* no "::", an empty name or one delimiter too many

VARIABLES
    pc,             \* "line", "test", "fixtures", "load", "ready", "failed", "aborted"
    input,          \* the lines read so far
    line,           \* what is left of the last one
    arena, blocks,
    test_files, tests,
    test            \* the test of this line

vars == <<pc, input, line, arena, blocks, test_files, tests, test>>

ArrayInit == [data |-> Null, length |-> 0, capacity |-> 0]
NoTest == [symbol |-> <<Null, 0>>, fixtures |-> ArrayInit]

Elements(array) ==
    IF array.data = Null THEN <<>> ELSE SubSeq(blocks[array.data], 1, array.length)

Put(blks, at, elements) ==
    [x \in DOMAIN blks \cup {at} |-> IF x = at THEN elements ELSE blks[x]]

\* The array, the arena and the blocks after an append: result is "ok", "memory"
\* or "abort".
Outcome(array, a, blks, result) ==
    [array |-> array, arena |-> a, blocks |-> blks, result |-> result]

\* A slip: arrays grow by one element.
NewCapacityByOne(array) == array.capacity + 1

NewCapacity(array) ==
    IF array.capacity = 0 THEN FirstCapacity ELSE 2 * array.capacity

\* A slip: <= for <.
HasSpaceAtLimit(array) == array.length <= array.capacity

HasSpace(array) == array.length < array.capacity

Appended(array, at, capacity, a, blks, item) ==
    LET old == IF array.data = Null THEN <<>>
               ELSE SubSeq(blks[array.data], 1, array.length)
    IN  Outcome([data |-> at, length |-> array.length + 1, capacity |-> capacity],
                a, Put(blks, at, Append(old, item)), "ok")

\* tdo_array_append: grows in place if the arena can, else moves and leaves the
\* old block as it is.
ArrayAppend(array, a, blks, size, item, granted) ==
    LET capacity == NewCapacity(array)
        moved == Alloc(a, size, capacity, granted)
    IN  IF HasSpace(array)
        THEN Appended(array, array.data, array.capacity, a, blks, item)
        ELSE IF ResizeAborts(a, array.data) THEN Outcome(array, a, blks, "abort")
        ELSE IF CanResize(a, array.data, size, capacity)
        THEN Appended(array, array.data, capacity,
                      Resize(a, array.data, size, capacity), blks, item)
        ELSE IF AllocAborts(a, size, capacity, granted) THEN Outcome(array, a, blks, "abort")
        ELSE IF moved.at = Null THEN Outcome(array, moved.arena, blks, "memory")
        ELSE Appended(array, moved.at, capacity, moved.arena, blks, item)

\* tdo_test_parse_symbol: the entry of a library, appended when it is new, and a
\* pointer to it: the block of the array and the place in it.
Known(library) ==
    {i \in 1..test_files.length : Elements(test_files)[i].name = library}

FileOf(library, granted) ==
    IF Known(library) # {} THEN Outcome(test_files, arena, blocks, "ok")
    ELSE ArrayAppend(test_files, arena, blocks, FileSize,
                     [name |-> library, loaded |-> FALSE], granted)

\* A slip: the pointer is to the end of the array whether it grew or not.
PointerToEnd(library, files) == <<files.data, files.length>>

PointerTo(library, files) ==
    <<files.data, IF Known(library) # {} THEN Min(Known(library)) ELSE files.length>>

IsTest(items) ==
    items # <<>> /\ Head(items).prefix = "test" /\ Head(items).library # Malformed
IsFixture(item) == item.prefix \in {"before", "after"}
NamesFixture(items) ==
    items # <<>> /\ IsFixture(Head(items)) /\ Head(items).library # Malformed
-----------------------------------------------------------------------------
Init ==
    /\ pc = "line"
    /\ input = <<>> /\ line = <<>>
    /\ arena = ArenaInit(InitialCapacity)
    /\ blocks = <<>>
    /\ test_files = ArrayInit /\ tests = ArrayInit
    /\ test = NoTest

\* tdo_input_parse gives back what it took; the arrays are as they were.
Fail(a) ==
    LET start == StateGet(ArenaInit(InitialCapacity))
    IN  /\ pc' = IF StateSetAborts(a, start) THEN "aborted" ELSE "failed"
        /\ arena' = StateSet(a, start)
        /\ test_files' = ArrayInit /\ tests' = ArrayInit
        /\ UNCHANGED <<input, line, blocks, test>>

\* tdo_read_line
ReadLine ==
    /\ pc = "line" /\ Len(input) < MaxLines
    /\ \E l \in Lines :
         /\ line' = l
         /\ input' = Append(input, l)
    /\ pc' = "test"
    /\ UNCHANGED <<arena, blocks, test_files, tests, test>>

\* No memory for the text of a line, or for a name in the string arena.
NoMemory ==
    /\ pc \in {"line", "test", "fixtures"}
    /\ pc = "test" => IsTest(line)
    /\ pc = "fixtures" => NamesFixture(line)
    /\ Fail(arena)

EndOfInput ==
    /\ pc = "line"
    /\ pc' = "load"
    /\ UNCHANGED <<input, line, arena, blocks, test_files, tests, test>>

NextLine ==
    /\ pc' = "line"
    /\ UNCHANGED <<input, line, arena, blocks, test_files, tests, test>>

\* tdo_test_parse_test
SkipLine == pc = "test" /\ ~IsTest(line) /\ NextLine

ParseTest ==
    /\ pc = "test" /\ IsTest(line)
    /\ \E granted \in BOOLEAN :
         LET library == Head(line).library
             out == FileOf(library, granted)
         IN  IF out.result = "memory" THEN Fail(out.arena)
             ELSE /\ arena' = out.arena /\ blocks' = out.blocks
                  /\ test_files' = out.array
                  /\ test' = [NoTest EXCEPT !.symbol = PointerTo(library, out.array)]
                  /\ line' = Tail(line)
                  /\ pc' = IF out.result = "abort" THEN "aborted" ELSE "fixtures"
                  /\ UNCHANGED <<input, tests>>

\* tdo_test_parse_fixture: a wrong prefix drops the test of the line, a malformed
\* symbol only ends its fixtures.
DropTest == pc = "fixtures" /\ line # <<>> /\ ~IsFixture(Head(line)) /\ NextLine

ParseFixture ==
    /\ pc = "fixtures" /\ NamesFixture(line)
    /\ \E granted \in BOOLEAN :
         LET item == Head(line)
             file == FileOf(item.library, granted)
             out == ArrayAppend(test.fixtures, file.arena, file.blocks, FixtureSize,
                        [kind |-> item.prefix,
                         symbol |-> PointerTo(item.library, file.array)], granted)
         IN  IF file.result = "memory" THEN Fail(file.arena)
             ELSE IF out.result = "memory" THEN Fail(out.arena)
             ELSE /\ arena' = out.arena /\ blocks' = out.blocks
                  /\ test_files' = file.array
                  /\ test' = [test EXCEPT !.fixtures = out.array]
                  /\ line' = Tail(line)
                  /\ pc' = IF "abort" \in {file.result, out.result} THEN "aborted"
                           ELSE "fixtures"
                  /\ UNCHANGED <<input, tests>>

\* The append to tests; when it fails tdo_input_parse returns at once.
AddTest ==
    /\ pc = "fixtures"
    /\ line # <<>> => IsFixture(Head(line)) /\ Head(line).library = Malformed
    /\ \E granted \in BOOLEAN :
         LET out == ArrayAppend(tests, arena, blocks, TestSize, test, granted)
         IN  /\ arena' = out.arena /\ blocks' = out.blocks
             /\ tests' = out.array
             /\ pc' = IF out.result = "ok" THEN "line"
                      ELSE IF out.result = "memory" THEN "failed" ELSE "aborted"
    /\ UNCHANGED <<input, line, test_files, test>>

\* main loads every library of the array.
LoadLibraries ==
    /\ pc = "load"
    /\ blocks' =
         IF test_files.length = 0 THEN blocks
         ELSE Put(blocks, test_files.data,
                  [i \in 1..test_files.length |->
                     LET name == Elements(test_files)[i].name
                     IN  [name |-> name, loaded |-> name \in Loadable]])
    /\ pc' = "ready"
    /\ UNCHANGED <<input, line, arena, test_files, tests, test>>

Next ==
    \/ ReadLine \/ NoMemory \/ EndOfInput
    \/ SkipLine \/ ParseTest \/ DropTest \/ ParseFixture \/ AddTest
    \/ LoadLibraries

Spec == Init /\ [][Next]_vars
=============================================================================
