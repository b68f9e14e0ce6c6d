------------------------- MODULE TdoParseProperties -------------------------
(***************************************************************************)
(* What tdo_input_parse hands to tdo_run_all.                              *)
(***************************************************************************)
EXTENDS TdoParse

Addresses == (0..Len(arena.nodes)) \X (0..MallocMax)
Arrays == [data : Addresses, length : 0..MallocMax, capacity : 0..MallocMax]

\* Everything stays of its type, an array never holds more than its block has room
\* for (test.h, tdo_array_ensure_space), and pc is never "aborted": the arena's own
\* checks hold for arrays of three element sizes that grow between each other, and
\* for the return to the first state after a failure (arena.c 59, 109, 138, 158).
TypeOK ==
    /\ pc \in {"line", "test", "fixtures", "load", "ready", "failed"}
    /\ arena.latest \in DOMAIN arena.nodes
    /\ \A n \in DOMAIN arena.nodes : arena.nodes[n].current \in 0..arena.nodes[n].end
    /\ \A array \in {test_files, tests, test.fixtures} :
          array \in Arrays /\ array.length <= array.capacity
    /\ \A at \in DOMAIN blocks : at \in Addresses

\* What a symbol's pointer leads to.
FileAt(pointer) == blocks[pointer[1]][pointer[2]]

\* The tests as a reader of the arrays sees them, and the lines they come from.
Meaning(t) ==
    [library |-> FileAt(t.symbol).name,
     fixtures |-> [i \in DOMAIN Elements(t.fixtures) |->
        <<Elements(t.fixtures)[i].kind, FileAt(Elements(t.fixtures)[i].symbol).name>>]]

\* The test a line defines: its fixtures up to the first malformed one, none at
\* all if another prefix comes before that.
Defined(items) ==
    LET stops == {i \in 2..Len(items) :
                    ~IsFixture(items[i]) \/ items[i].library = Malformed}
        stop == IF stops = {} THEN Len(items) + 1 ELSE Min(stops)
        fixtures == SubSeq(items, 2, stop - 1)
    IN  IF ~IsTest(items) \/ (stops # {} /\ ~IsFixture(items[stop])) THEN <<>>
        ELSE <<[library |-> items[1].library,
                fixtures |-> [i \in DOMAIN fixtures |->
                                <<fixtures[i].prefix, fixtures[i].library>>]]>>

\* The tests run are the tests the lines define, in their order, each with its
\* own libraries and fixtures, however often the arrays moved meanwhile
\* (tdo_input_parse and all it calls).
ParsedAsDefined ==
    pc \in {"load", "ready"} =>
        [i \in DOMAIN Elements(tests) |-> Meaning(Elements(tests)[i])]
            = FlattenSeq([i \in DOMAIN input |-> Defined(input[i])])

Symbols ==
    UNION {{t.symbol} \cup {f.symbol : f \in ToSet(Elements(t.fixtures))}
              : t \in ToSet(Elements(tests))}

\* When the tests start, the library of every symbol is loaded if it can be
\* (main.c 164-167 against tdo_assert_library_loaded, run.c 516-522).
SymbolsAreLoaded ==
    pc = "ready" =>
        \A s \in Symbols : FileAt(s).name \in Loadable => FileAt(s).loaded
=============================================================================
