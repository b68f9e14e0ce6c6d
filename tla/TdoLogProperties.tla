-------------------------- MODULE TdoLogProperties --------------------------
(***************************************************************************)
(* What the arena owes the strings in it.                                  *)
(***************************************************************************)
EXTENDS TdoLog

Pointers == (0..Len(arena.nodes)) \X (0..MallocMax)
Strings == [bytes : Pointers, length : 0..MallocMax]

\* Everything stays of its type, and the pointers point into nodes there are
\* (arena.h, str.h).
TypeOK ==
    /\ pc \in {"setup", "serve", "report", "done", "aborted"}
    /\ arena.latest \in DOMAIN arena.nodes
    /\ arena.last \in Pointers
    /\ \A n \in DOMAIN arena.nodes : arena.nodes[n].current \in 0..arena.nodes[n].end
    /\ logs \in [Logs -> [data : Strings, capacity : 0..MallocMax]]
    /\ tables \in Seq(Pointers)
    /\ step \in Strings /\ parts \in 0..Len(StepParts)

\* None of the checks in arena.c and str.c that print and abort ever fails
\* (arena.c 59, 109, 138, 158, str.c 26, 33): states are restored in the order
\* they were taken, and a string is only resized where it was aligned.
NeverAborts == pc # "aborted"

\* The memory each live object may write: tables, logs with their NUL, the step.
LogCells(l) ==
    LET log == logs[l]
        room == Max({log.capacity, log.data.length})
    IN  IF log.data.bytes = Null THEN {} ELSE Cells(log.data.bytes, room + 1)
StepCells == IF step.bytes = Null THEN {} ELSE Cells(step.bytes, step.length + 1)
TableCells(k) == Cells(tables[k], Tables[k])

InUse == pc \in {"serve", "report"}

LogSpace == UNION {LogCells(l) : l \in Logs}
TableSpace == UNION {TableCells(k) : k \in DOMAIN tables}

\* Behind what the parser holds.
BehindParsed(cell) == cell[1] > outer[1] \/ (cell[1] = outer[1] /\ cell[2] >= outer[2])

\* Live objects never share memory, and none reaches into what the parser holds,
\* past its node or into what the next allocation takes: appending, reporting and
\* resetting in any order, with malloc failing at any point (tdo_arena_alloc,
\* tdo_arena_resize, tdo_arena_state_set).
BlocksApart ==
    InUse =>
        /\ \A l, m \in Logs : l # m => LogCells(l) \cap LogCells(m) = {}
        /\ \A j, k \in DOMAIN tables : j # k => TableCells(j) \cap TableCells(k) = {}
        /\ LogSpace \cap TableSpace = {}
        /\ StepCells \cap (LogSpace \cup TableSpace) = {}
        /\ \A cell \in LogSpace \cup TableSpace \cup StepCells :
              cell[2] < arena.nodes[cell[1]].current /\ BehindParsed(cell)

\* The step a report prints is its parts one after the other and a NUL, wherever
\* the string moved while it was assembled (run.c 353-369).
StepIsAssembled ==
    pc = "report" /\ parts > 0 =>
        Load(memory, step.bytes, step.length + 1)
            = Append(FlattenSeq(SubSeq(StepParts, 1, parts)), Nul)

\* What the logs hold, read from memory.
TextOf(l) ==
    IF pc = "done" THEN <<>>
    ELSE Load(memory, logs[l].data.bytes, logs[l].data.length)

Texts == INSTANCE TdoTexts WITH texts <- [l \in Logs |-> TextOf(l)]

\* Logs that move, share an arena with reports and lose some of their appends
\* to malloc still are texts that only grow by what was read for them.
ImplementsTexts == Texts!Spec
=============================================================================
