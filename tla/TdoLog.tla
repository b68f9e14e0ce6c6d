------------------------------- MODULE TdoLog -------------------------------
(***************************************************************************)
(* The strings and logs of str.c in the arena of one run of tdo_run_all:   *)
(* the tables of the slots, the logs that grow while children print, and   *)
(* the step that a report assembles between state_get and state_set.       *)
(* memory holds the bytes written; an address nobody wrote is outside its  *)
(* domain.                                                                 *)
(***************************************************************************)
EXTENDS TdoArena, SequencesExt

CONSTANTS
    Logs,           \* the logs of all slots
    ChunkSizes,     \* how much one read may return
    Tables,         \* the sizes of the tables tdo_run_status_init allocates
    StepParts,      \* the strings a step is assembled from
    InitialCapacity,
    Parsed,         \* how much the parser may hold of the arena
    MaxLength       \* bound on what a log holds, for finite instances

\* The arena was allocated before and the tests parsed into it; reads fill a buffer
\* in memory, and the parts of a step are in memory too.
ASSUME LogAssumption ==
    /\ ChunkSizes \subseteq 1..(SizeMax \div 2)
    /\ Tables \in Seq(Nat \ {0}) /\ Tables # <<>>
    /\ StepParts \in Seq(Seq({"step"} \X Nat))
    /\ \A i \in 1..Len(StepParts) : Len(StepParts[i]) <= SizeMax \div 2
    /\ InitialCapacity \in 1..MallocMax
    /\ Parsed \subseteq Nat \ {0}
    /\ MaxLength \in Nat

VARIABLES
    pc,             \* "setup", "serve", "report", "done", "aborted"
    arena, memory,
    logs,           \* run->out, run->err, run->status of every slot
    tables,         \* the tables allocated so far
    outer, inner,   \* the saved states of tdo_run_all and of the report
    step,           \* the step being assembled
    parts           \* how many of its parts it has

vars == <<pc, arena, memory, logs, tables, outer, inner, step, parts>>

StringInit == [bytes |-> Null, length |-> 0]
\* A byte is what it belongs to and its place there.
Nul == <<"nul", 0>>
Junk == <<"junk", 0>>
TableByte == <<"table", 0>>

Cells(at, size) == {<<at[1], at[2] + i>> : i \in 0..(size - 1)}

Store(mem, at, data) ==
    [cell \in DOMAIN mem \cup Cells(at, Len(data)) |->
        IF cell \in Cells(at, Len(data)) THEN data[cell[2] - at[2] + 1] ELSE mem[cell]]

Load(mem, at, size) ==
    [i \in 1..size |-> LET cell == <<at[1], at[2] + i - 1>>
                       IN  IF cell \in DOMAIN mem THEN mem[cell] ELSE Junk]

\* What tdo_string_append leaves: result is "ok", "memory" or "abort".
Outcome(s, a, mem, result) == [string |-> s, arena |-> a, memory |-> mem, result |-> result]

\* A slip: the string moves and its bytes stay behind.
ExtendedWithoutCopy(s, at, a, mem, data) ==
    Outcome([bytes |-> at, length |-> s.length + Len(data)], a,
            Store(mem, <<at[1], at[2] + s.length>>, Append(data, Nul)), "ok")

\* The string behind s now at the given place: its bytes kept, data and NUL added.
Extended(s, at, a, mem, data) ==
    LET kept == IF at = s.bytes THEN mem ELSE Store(mem, at, Load(mem, s.bytes, s.length))
    IN  Outcome([bytes |-> at, length |-> s.length + Len(data)], a,
                Store(kept, <<at[1], at[2] + s.length>>, Append(data, Nul)), "ok")

AppendTo(s, a, mem, data, granted) ==
    LET size == s.length + 1 + Len(data)
        moved == Alloc(a, 1, size, granted)
    IN  IF size > SizeMax \/ ResizeAborts(a, s.bytes) THEN Outcome(s, a, mem, "abort")
        ELSE IF CanResize(a, s.bytes, 1, size)
             THEN Extended(s, s.bytes, Resize(a, s.bytes, 1, size), mem, data)
        ELSE IF AllocAborts(a, 1, size, granted) THEN Outcome(s, a, mem, "abort")
        ELSE IF moved.at = Null THEN Outcome(s, moved.arena, mem, "memory")
        ELSE Extended(s, moved.at, moved.arena, mem, data)

\* tdo_string_append; granted: malloc has memory if it is called.
StringAppend(s, a, mem, data, granted) ==
    LET first == Alloc(a, 1, 1, granted)
    IN  IF s.bytes # Null THEN AppendTo(s, a, mem, data, granted)
        ELSE IF AllocAborts(a, 1, 1, granted) THEN Outcome(s, a, mem, "abort")
        ELSE IF first.at = Null THEN Outcome(s, first.arena, mem, "memory")
        ELSE AppendTo([s EXCEPT !.bytes = first.at], first.arena,
                      Store(mem, first.at, <<Nul>>), data, granted)

LogInit == [data |-> StringInit, capacity |-> 0]

\* A slip: what the log already holds is not counted.
HasRoomEmpty(log, data) == Len(data) <= log.capacity

\* tdo_log_append: a copy while the capacity lasts, else through the arena.
HasRoom(log, data) == Len(data) <= log.capacity - log.data.length

LogAppend(log, a, mem, data, granted) ==
    IF HasRoom(log, data)
    THEN Outcome([log EXCEPT !.data.length = @ + Len(data)], a,
                 Store(mem, <<log.data.bytes[1], log.data.bytes[2] + log.data.length>>, data),
                 "ok")
    ELSE LET out == StringAppend(log.data, a, mem, data, granted)
         IN  [out EXCEPT !.string =
                [data |-> out.string,
                 capacity |-> IF out.result = "ok" THEN out.string.length ELSE log.capacity]]

LogReset(log) == [log EXCEPT !.data.length = 0]

-----------------------------------------------------------------------------
\* The arena as main passes it on: with the arrays of the parser in it, if any.
ParsedArenas ==
    LET empty == ArenaInit(InitialCapacity)
        parsed == {got \in {Alloc(empty, 1, n, TRUE) : n \in Parsed} : got.at # Null}
    IN  {empty} \cup {got.arena : got \in parsed}

Init ==
    /\ pc = "setup"
    /\ arena \in ParsedArenas
    /\ memory = <<>>
    /\ logs = [l \in Logs |-> LogInit]
    /\ tables = <<>>
    /\ outer = StateGet(arena)
    /\ inner = Null
    /\ step = StringInit
    /\ parts = 0

\* tdo_arena_state_set: what lies behind current is given back, and the next
\* allocation may take it; where the program goes then.
Return(a, mem, state, to) ==
    LET back == StateSet(a, state)
        kept == {cell \in DOMAIN mem : cell[2] < back.nodes[cell[1]].current}
    IN  IF StateSetAborts(a, state)
        THEN arena' = a /\ memory' = mem /\ pc' = "aborted"
        ELSE arena' = back /\ memory' = Restrict(mem, kept) /\ pc' = to

\* tdo_run_status_init: one table after the other, all given back if one fails.
SetupTable ==
    /\ pc = "setup"
    /\ \E granted \in BOOLEAN :
         LET size == Tables[Len(tables) + 1]
             got == Alloc(arena, 1, size, granted)
         IN  IF AllocAborts(arena, 1, size, granted)
             THEN pc' = "aborted" /\ UNCHANGED <<arena, tables, memory>>
             ELSE IF got.at = Null
             THEN Return(got.arena, memory, outer, "done") /\ UNCHANGED tables
             ELSE /\ arena' = got.arena
                  /\ tables' = Append(tables, got.at)
                  /\ memory' = Store(memory, got.at, [i \in 1..size |-> TableByte])
                  /\ pc' = IF Len(tables') = Len(Tables) THEN "serve" ELSE "setup"
    /\ UNCHANGED <<logs, outer, inner, step, parts>>

Bytes(l, length, size) == [i \in 1..size |-> <<l, length + i>>]

\* A read of a child's pipe returned data.
AppendLog(l) ==
    /\ pc = "serve"
    /\ \E size \in ChunkSizes, granted \in BOOLEAN :
         LET length == logs[l].data.length
             out == LogAppend(logs[l], arena, memory, Bytes(l, length, size), granted)
         IN  /\ length + size <= MaxLength
             /\ logs' = [logs EXCEPT ![l] = out.string]
             /\ arena' = out.arena
             /\ memory' = out.memory
             /\ pc' = IF out.result = "abort" THEN "aborted" ELSE "serve"
    /\ UNCHANGED <<tables, outer, inner, step, parts>>

\* The slot is given to the next test.
ResetLog(l) ==
    /\ pc = "serve"
    /\ logs' = [logs EXCEPT ![l] = LogReset(logs[l])]
    /\ UNCHANGED <<pc, arena, memory, tables, outer, inner, step, parts>>

StartReport ==
    /\ pc = "serve"
    /\ pc' = "report"
    /\ inner' = StateGet(arena)
    /\ step' = StringInit
    /\ parts' = 0
    /\ UNCHANGED <<arena, memory, logs, tables, outer>>

\* tdo_run_report_assemble_step; the first part that fails ends the report.
AssembleStep ==
    /\ pc = "report" /\ parts < Len(StepParts)
    /\ \E granted \in BOOLEAN :
         LET out == StringAppend(step, arena, memory, StepParts[parts + 1], granted)
         IN  IF out.result = "memory"
             THEN /\ Return(out.arena, out.memory, inner, "serve")
                  /\ step' = StringInit /\ parts' = 0 /\ inner' = Null
             ELSE /\ arena' = out.arena /\ memory' = out.memory
                  /\ step' = out.string /\ parts' = parts + 1
                  /\ pc' = IF out.result = "ok" THEN "report" ELSE "aborted"
                  /\ UNCHANGED inner
    /\ UNCHANGED <<logs, tables, outer>>

\* The report is written, with a step or, from the start, without one.
EndReport ==
    /\ pc = "report" /\ parts \in {0, Len(StepParts)}
    /\ Return(arena, memory, inner, "serve")
    /\ step' = StringInit /\ parts' = 0 /\ inner' = Null
    /\ UNCHANGED <<logs, tables, outer>>

Finish ==
    /\ pc = "serve"
    /\ Return(arena, memory, outer, "done")
    /\ UNCHANGED <<logs, tables, outer, inner, step, parts>>

Next ==
    \/ SetupTable
    \/ \E l \in Logs : AppendLog(l) \/ ResetLog(l)
    \/ StartReport \/ AssembleStep \/ EndReport
    \/ Finish

Spec == Init /\ [][Next]_vars
=============================================================================
