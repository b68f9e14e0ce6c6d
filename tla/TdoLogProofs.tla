---------------------------- MODULE TdoLogProofs ----------------------------
(***************************************************************************)
(* The live objects in the arena of a run are apart and hold what was put  *)
(* there, for every alignment, size of the headers, capacity, tables, reads *)
(* and reports.                                                            *)
(***************************************************************************)
EXTENDS TdoLogProperties, TdoArenaProofs

-----------------------------------------------------------------------------
(* Strings and logs (str.c). *)

\* What an append leaves of a string s with the given room: longer by n, or as it
\* was; or, if it had no place, with an empty one.
Appended(s, a, room, out, n) ==
    /\ out.string.bytes # Null
    /\ out.string.length = s.length + n
    /\ Moved(a, s.bytes, room, out.arena, out.string.bytes, out.string.length + 1)

AppendFailed(s, a, room, out) ==
    /\ out.string.length = s.length
    /\ IF s.bytes = Null
       THEN Moved(a, s.bytes, room, out.arena, out.string.bytes, 1)
       ELSE /\ out.string.bytes = s.bytes
            /\ Moved(a, s.bytes, room, out.arena, s.bytes, room)

TheStrings == [bytes : Places, length : Nat]

AppendOutcome(s, a, room, out, n) ==
    /\ out.string \in TheStrings
    /\ \/ out.result = "ok" /\ Appended(s, a, room, out, n)
       \/ out.result = "memory" /\ AppendFailed(s, a, room, out)

\* An object is never so large that the length of another part would overflow.
LEMMA SmallEnough ==
    ASSUME NEW a, ArenaOK(a), NEW at \in Places, NEW size \in Nat, Within(a, at, size)
    PROVE  size <= MallocMax /\ size <= SizeMax \div 2 /\ MallocMax \in Nat
<1>1. /\ a.nodes[at[1]].current <= a.nodes[at[1]].end /\ a.nodes[at[1]].end <= MallocMax
      /\ a.nodes[at[1]].current \in Nat /\ a.nodes[at[1]].end \in Nat
  BY NodesOf DEF ArenaOK, Within
<1>2. at[2] \in Nat /\ at[2] + size <= a.nodes[at[1]].current
  BY DEF Within, Places
<1>3. MallocMax \in Nat /\ MallocMax <= SizeMax \div 2 /\ SizeMax \div 2 \in Nat
  BY ArenaAssumption
<1> QED
  BY <1>1, <1>2, <1>3

\* str.c 33-51: the string has a place, and room for what it holds and a NUL. It
\* grows where it is, moves to a block of its own, or stays as it was.
LEMMA AppendToWays ==
    ASSUME NEW s \in TheStrings, NEW a, ArenaOK(a), NEW room \in Nat, s.bytes # Null,
           Within(a, s.bytes, room), s.length + 1 <= room,
           NEW mem, NEW data, Len(data) \in 0..(SizeMax \div 2), NEW granted,
           NEW out, out = AppendTo(s, a, mem, data, granted)
    PROVE  \/ \E at \in Places \ {Null} : \E b :
                 /\ out = Extended(s, at, b, mem, data)
                 /\ Moved(a, s.bytes, room, b, at, s.length + Len(data) + 1)
           \/ \E b : /\ out = Outcome(s, b, mem, "memory")
                     /\ Moved(a, s.bytes, room, b, s.bytes, room)
<1> DEFINE size == s.length + 1 + Len(data)
           moved == Alloc(a, 1, size, granted)
<1>1. s.bytes \in Places /\ s.length \in Nat /\ Len(data) \in Nat /\ size \in Sizes
  BY DEF TheStrings, Sizes
<1>2. size <= SizeMax /\ ~(size > SizeMax)
  <2>1. room <= SizeMax \div 2
    BY <1>1, SmallEnough
  <2>2. SizeMax \in Nat /\ 2 * (SizeMax \div 2) <= SizeMax /\ SizeMax \div 2 \in Nat
    BY ArenaAssumption
  <2> QED
    BY <1>1, <2>1, <2>2
<1>3. ~ResizeAborts(a, s.bytes)
  BY DEF ResizeAborts, ArenaOK
<1>4. ~AllocAborts(a, 1, size, granted)
  BY <1>1, AllocNeverAborts DEF Sizes
<1>5. s.length + Len(data) + 1 = size
  BY <1>1
<1>6. CASE CanResize(a, s.bytes, 1, size)
  <2>1. out = Extended(s, s.bytes, Resize(a, s.bytes, 1, size), mem, data)
    BY <1>2, <1>3, <1>6, Zenon DEF AppendTo
  <2>2. Moved(a, s.bytes, room, Resize(a, s.bytes, 1, size), s.bytes, size)
    BY <1>1, <1>2, <1>6, ResizedMoves
  <2> HIDE DEF size
  <2> QED
    BY <1>1, <1>5, <2>1, <2>2
<1>7. CASE ~CanResize(a, s.bytes, 1, size) /\ moved.at = Null
  <2>1. out = Outcome(s, moved.arena, mem, "memory")
    BY <1>2, <1>3, <1>4, <1>7, Zenon DEF AppendTo
  <2>2. NotAllocated(a, moved)
    BY <1>1, <1>7, AllocOutcome DEF Allocated, Sizes
  <2>3. Moved(a, s.bytes, room, moved.arena, s.bytes, room)
    BY <1>1, <2>2, RefusedMoves
  <2> HIDE DEF moved
  <2> QED
    BY <2>1, <2>3
<1>8. CASE ~CanResize(a, s.bytes, 1, size) /\ moved.at # Null
  <2>1. out = Extended(s, moved.at, moved.arena, mem, data)
    BY <1>2, <1>3, <1>4, <1>8, Zenon DEF AppendTo
  <2>2. Allocated(a, moved, size)
    BY <1>1, <1>8, AllocOutcome DEF NotAllocated, Sizes
  <2>3. Moved(a, s.bytes, room, moved.arena, moved.at, size)
    BY <1>1, <2>2, AllocatedMoves
  <2>4. moved.at \in Places \ {Null}
    BY <1>8, <2>2 DEF Allocated
  <2> HIDE DEF moved, size
  <2> QED
    BY <1>5, <2>1, <2>3, <2>4
<1> QED
  BY <1>6, <1>7, <1>8

LEMMA AppendToOutcome ==
    ASSUME NEW s \in TheStrings, NEW a, ArenaOK(a), NEW room \in Nat, s.bytes # Null,
           Within(a, s.bytes, room), s.length + 1 <= room,
           NEW mem, NEW data, Len(data) \in 0..(SizeMax \div 2), NEW granted,
           NEW out, out = AppendTo(s, a, mem, data, granted)
    PROVE  \/ /\ out.result = "ok" /\ Appended(s, a, room, out, Len(data))
              /\ out.string \in TheStrings
           \/ /\ out.result = "memory" /\ out.string = s
              /\ Moved(a, s.bytes, room, out.arena, s.bytes, room)
<1>1. CASE \E at \in Places \ {Null} : \E b :
             /\ out = Extended(s, at, b, mem, data)
             /\ Moved(a, s.bytes, room, b, at, s.length + Len(data) + 1)
  <2>1. PICK at, b :
          /\ at \in Places \ {Null}
          /\ out = Extended(s, at, b, mem, data)
          /\ Moved(a, s.bytes, room, b, at, s.length + Len(data) + 1)
    BY <1>1
  <2>2. /\ out.result = "ok" /\ out.arena = b
        /\ out.string = [bytes |-> at, length |-> s.length + Len(data)]
    BY <2>1 DEF Extended, Outcome
  <2>3. out.string \in TheStrings
    BY <2>1, <2>2 DEF TheStrings
  <2> QED
    BY <2>1, <2>2, <2>3 DEF Appended
<1>2. CASE \E b : /\ out = Outcome(s, b, mem, "memory")
                  /\ Moved(a, s.bytes, room, b, s.bytes, room)
  BY <1>2 DEF Outcome
<1> QED
  BY <1>1, <1>2, AppendToWays

\* tdo_string_append.
LEMMA StringAppendOutcome ==
    ASSUME NEW s \in TheStrings, NEW a, ArenaOK(a), NEW room \in Nat,
           s.bytes = Null => s.length = 0,
           s.bytes # Null => Within(a, s.bytes, room) /\ s.length + 1 <= room,
           NEW mem, NEW data, Len(data) \in 0..(SizeMax \div 2), NEW granted,
           NEW out, out = StringAppend(s, a, mem, data, granted)
    PROVE  AppendOutcome(s, a, room, out, Len(data))
<1> DEFINE first == Alloc(a, 1, 1, granted)
           t == [s EXCEPT !.bytes = first.at]
           mem2 == Store(mem, first.at, <<Nul>>)
<1>1. CASE s.bytes # Null
  <2>1. out = AppendTo(s, a, mem, data, granted)
    BY <1>1 DEF StringAppend
  <2>2. \/ /\ out.result = "ok" /\ Appended(s, a, room, out, Len(data))
           /\ out.string \in TheStrings
        \/ /\ out.result = "memory" /\ out.string = s
           /\ Moved(a, s.bytes, room, out.arena, s.bytes, room)
    BY <1>1, <2>1, AppendToOutcome
  <2> QED
    BY <1>1, <2>2 DEF AppendOutcome, AppendFailed
<1>2. ~AllocAborts(a, 1, 1, granted)
  BY AllocNeverAborts
<1>3. Allocated(a, first, 1) \/ NotAllocated(a, first)
  BY AllocOutcome
<1>4. s.bytes \in Places
  BY DEF TheStrings
<1>5. CASE s.bytes = Null /\ first.at = Null
  <2>1. out = Outcome(s, first.arena, mem, "memory")
    BY <1>2, <1>5 DEF StringAppend
  <2>2. out.result = "memory" /\ out.arena = first.arena /\ out.string = s
    BY <2>1 DEF Outcome
  <2>3. NotAllocated(a, first)
    BY <1>3, <1>5 DEF Allocated
  <2>4. Moved(a, s.bytes, 1, first.arena, s.bytes, 1)
    BY <1>4, <1>5, <2>3, RefusedMoves
  <2>5. Moved(a, s.bytes, room, first.arena, s.bytes, 1)
    BY <1>5, <2>4 DEF Moved, Beside
  <2> QED
    BY <1>5, <2>2, <2>5 DEF AppendOutcome, AppendFailed
<1>6. CASE s.bytes = Null /\ first.at # Null
  <2>1. out = AppendTo(t, first.arena, mem2, data, granted)
    BY <1>2, <1>6 DEF StringAppend
  <2>2. Allocated(a, first, 1)
    BY <1>3, <1>6 DEF NotAllocated
  <2>3. Moved(a, s.bytes, room, first.arena, first.at, 1)
    <3>1. 1 \in Sizes
      BY DEF Sizes
    <3> QED
      BY <2>2, <3>1, AllocatedMoves
  <2>4. /\ t \in TheStrings /\ t.bytes = first.at /\ t.length = 0 /\ s.length = 0
        /\ ArenaOK(first.arena) /\ Within(first.arena, first.at, 1)
    BY <1>6, <2>2 DEF TheStrings, Allocated
  <2> HIDE DEF t, mem2, first
  <2>5. \/ /\ out.result = "ok" /\ Appended(t, first.arena, 1, out, Len(data))
           /\ out.string \in TheStrings
        \/ /\ out.result = "memory" /\ out.string = t
           /\ Moved(first.arena, t.bytes, 1, out.arena, t.bytes, 1)
    <3>1. t.length + 1 <= 1 /\ 1 \in Nat /\ t.bytes # Null
      BY <1>6, <2>4
    <3> QED
      BY <2>1, <2>4, <3>1, AppendToOutcome
  <2>6. CASE /\ out.result = "ok" /\ Appended(t, first.arena, 1, out, Len(data))
             /\ out.string \in TheStrings
    <3>1. Moved(first.arena, first.at, 1, out.arena, out.string.bytes, out.string.length + 1)
      BY <2>4, <2>6 DEF Appended
    <3>2. Moved(a, s.bytes, room, out.arena, out.string.bytes, out.string.length + 1)
      BY <2>3, <3>1, MovedTwice
    <3> QED
      BY <2>4, <2>6, <3>2 DEF AppendOutcome, Appended
  <2>7. CASE /\ out.result = "memory" /\ out.string = t
             /\ Moved(first.arena, t.bytes, 1, out.arena, t.bytes, 1)
    <3>1. Moved(a, s.bytes, room, out.arena, out.string.bytes, 1)
      BY <2>3, <2>4, <2>7, MovedTwice
    <3> QED
      BY <1>6, <2>4, <2>7, <3>1 DEF AppendOutcome, AppendFailed
  <2> QED
    BY <2>5, <2>6, <2>7
<1> QED
  BY <1>1, <1>5, <1>6
\* The room a log has holds what is in it.
TheLogs == [data : TheStrings, capacity : Nat]
LogOK(log) ==
    /\ log.data.length <= log.capacity
    /\ log.data.bytes = Null => log.capacity = 0

\* tdo_log_append.
LEMMA LogAppendOutcome ==
    ASSUME NEW log \in TheLogs, LogOK(log), NEW a, ArenaOK(a),
           log.data.bytes # Null => Within(a, log.data.bytes, log.capacity + 1),
           NEW mem, NEW data, Len(data) \in 1..(SizeMax \div 2), NEW granted,
           NEW out, out = LogAppend(log, a, mem, data, granted)
    PROVE  /\ out.result \in {"ok", "memory"}
           /\ out.string \in TheLogs /\ LogOK(out.string)
           /\ Moved(a, log.data.bytes, log.capacity + 1,
                    out.arena, out.string.data.bytes, out.string.capacity + 1)
<1>1. /\ log.data \in TheStrings /\ log.data.bytes \in Places
      /\ log.data.length \in Nat /\ log.capacity \in Nat /\ log.capacity + 1 \in Nat
      /\ Len(data) \in Nat /\ Len(data) > 0 /\ Len(data) \in 0..(SizeMax \div 2)
  <2>1. SizeMax \div 2 \in Nat
    BY ArenaAssumption
  <2> QED
    BY <2>1 DEF TheLogs, TheStrings
<1>2. CASE HasRoom(log, data)
  <2>1. /\ out.result = "ok" /\ out.arena = a
        /\ out.string = [log EXCEPT !.data.length = log.data.length + Len(data)]
    BY <1>2 DEF LogAppend, Outcome
  <2>2. /\ out.string \in TheLogs /\ out.string.data.bytes = log.data.bytes
        /\ out.string.capacity = log.capacity
        /\ out.string.data.length = log.data.length + Len(data)
    BY <1>1, <2>1 DEF TheLogs, TheStrings
  <2>3. LogOK(out.string)
    BY <1>1, <1>2, <2>2 DEF LogOK, HasRoom
  <2>4. Moved(a, log.data.bytes, log.capacity + 1, a, log.data.bytes, log.capacity + 1)
    BY <1>1, NotMoved
  <2> QED
    BY <2>1, <2>2, <2>3, <2>4
<1>3. CASE ~HasRoom(log, data)
  <2> DEFINE app == StringAppend(log.data, a, mem, data, granted)
             grown == [data |-> app.string,
                       capacity |-> IF app.result = "ok" THEN app.string.length
                                    ELSE log.capacity]
  <2>1. /\ out.string = grown /\ out.arena = app.arena /\ out.result = app.result
        /\ out.string.data = app.string
        /\ out.string.capacity = IF app.result = "ok" THEN app.string.length
                                 ELSE log.capacity
    <3>1. app = Outcome(app.string, app.arena, app.memory, app.result)
      BY Zenon DEF StringAppend, AppendTo, Extended, Outcome
    <3> HIDE DEF app
    <3> QED
      BY <1>3, <3>1 DEF LogAppend, Outcome, app
  <2>2. AppendOutcome(log.data, a, log.capacity + 1, app, Len(data))
    <3>1. log.data.length + 1 <= log.capacity + 1
      BY <1>1 DEF LogOK
    <3>2. log.data.bytes = Null => log.data.length = 0
      BY <1>1 DEF LogOK
    <3> QED
      BY <1>1, <3>1, <3>2, StringAppendOutcome
  <2> HIDE DEF app
  <2>3. app.string \in TheStrings /\ app.string.length \in Nat /\ app.string.bytes \in Places
    BY <2>2 DEF AppendOutcome, TheStrings
  <2>4. out.string \in TheLogs
    BY <1>1, <2>1, <2>3 DEF TheLogs
  <2>5. CASE app.result = "ok" /\ Appended(log.data, a, log.capacity + 1, app, Len(data))
    BY <2>1, <2>3, <2>4, <2>5 DEF Appended, LogOK
  <2>6. CASE app.result = "memory" /\ AppendFailed(log.data, a, log.capacity + 1, app)
    <3>1. out.string.capacity = log.capacity /\ out.string.data = app.string
          /\ out.result = "memory" /\ app.string.length = log.data.length
          /\ out.arena = app.arena
      BY <2>1, <2>6 DEF AppendFailed
    <3>2. CASE log.data.bytes = Null
      <4>1. log.capacity = 0 /\ log.capacity + 1 = 1
        BY <3>2 DEF LogOK
      <4> QED
        BY <1>1, <2>4, <2>6, <3>1, <3>2, <4>1 DEF AppendFailed, LogOK
    <3>3. CASE log.data.bytes # Null
      BY <2>4, <2>6, <3>1, <3>3 DEF AppendFailed, LogOK
    <3> QED
      BY <3>2, <3>3
  <2> QED
    BY <2>2, <2>5, <2>6 DEF AppendOutcome
<1> QED
  BY <1>2, <1>3
-----------------------------------------------------------------------------
(* The invariant. *)

\* The objects in the arena: logs, tables and the step, with their place and what
\* they may write.
Step == <<"step", 0>>
Owners ==
    ({"log"} \X Logs) \cup ({"table"} \X (1..Len(tables))) \cup {Step}

PlaceOf(o) ==
    IF o[1] = "log" THEN logs[o[2]].data.bytes
    ELSE IF o[1] = "table" THEN tables[o[2]] ELSE step.bytes

RoomOf(o) ==
    IF o[1] = "log" THEN logs[o[2]].capacity + 1
    ELSE IF o[1] = "table" THEN Tables[o[2]] ELSE step.length + 1

Live(o) == PlaceOf(o) # Null

\* The objects of O are inside the arena a, and each is beside every other one.
AllApart(a, O) ==
    /\ \A o \in O : Live(o) => Within(a, PlaceOf(o), RoomOf(o))
    /\ \A o, p \in O : o # p /\ Live(o) =>
          Beside(a, PlaceOf(o), RoomOf(o), PlaceOf(p), RoomOf(p))

ObjectsApart == AllApart(arena, Owners)

\* While a step is assembled the state saved before can be restored: all but the
\* step was there then, and the step was not.
ReportOK ==
    pc = "report" =>
        /\ inner \in Places /\ Restorable(arena, inner)
        /\ \A o \in Owners \ {Step} : Live(o) => Saved(PlaceOf(o), RoomOf(o), inner)
        /\ step.bytes # Null => Since(step.bytes, inner)

LTypes ==
    /\ TypeOK
    /\ ArenaOK(arena)
    /\ \A l \in Logs : LogOK(logs[l])
    /\ step.bytes = Null => step.length = 0
    /\ Len(tables) <= Len(Tables)
    /\ \A k \in 1..Len(tables) : tables[k] # Null

Phases ==
    /\ pc # "aborted"
    /\ pc = "setup" => Len(tables) < Len(Tables) /\ \A l \in Logs : logs[l] = LogInit
    /\ pc # "report" => step = StringInit

\* The state tdo_run_all saved first can be restored, and what it was saved for, the
\* parser's arrays, lies before every object of the run.
OuterOK ==
    pc # "done" =>
        /\ outer \in Places /\ Restorable(arena, outer)
        /\ \A o \in Owners : Live(o) => Since(PlaceOf(o), outer)
        /\ pc = "report" => Since(inner, outer)

LInv ==
    /\ LTypes
    /\ Phases
    /\ pc # "done" => ObjectsApart
    /\ ReportOK
-----------------------------------------------------------------------------
(* The objects that are not moved. *)

LEMMA StringTypes ==
    ASSUME LTypes
    PROVE  /\ \A l \in Logs : logs[l] \in TheLogs
           /\ step \in TheStrings
           /\ \A k \in 1..Len(tables) : tables[k] \in Places /\ k \in 1..Len(Tables)
           /\ Len(tables) \in Nat /\ tables \in Seq(Places)
<1>1. Pointers \subseteq Places /\ MallocMax \in Nat
  <2>1. Len(arena.nodes) \in Nat /\ MallocMax \in Nat
    BY NodesOf, ArenaAssumption DEF LTypes
  <2> QED
    BY <2>1 DEF Pointers, Places
<1>2. Strings \subseteq TheStrings
  BY <1>1 DEF Strings, TheStrings
<1>3. \A l \in Logs : logs[l] \in [data : Strings, capacity : 0..MallocMax]
  BY DEF LTypes, TypeOK
<1>4. \A l \in Logs : logs[l] \in TheLogs
  BY <1>1, <1>2, <1>3 DEF TheLogs
<1>5. tables \in Seq(Places)
  BY <1>1 DEF LTypes, TypeOK
<1>6. Len(tables) \in Nat /\ Len(Tables) \in Nat /\ Len(tables) <= Len(Tables)
      /\ \A k \in 1..Len(tables) : tables[k] \in Places
  BY <1>5, LogAssumption, LenProperties DEF LTypes
<1> QED
  BY <1>2, <1>4, <1>5, <1>6 DEF LTypes, TypeOK

LEMMA OwnerTypes ==
    ASSUME LTypes
    PROVE  \A o \in Owners : PlaceOf(o) \in Places /\ RoomOf(o) \in Sizes
<1>1. ASSUME NEW l \in Logs, NEW o, o = <<"log", l>>
      PROVE  PlaceOf(o) \in Places /\ RoomOf(o) \in Sizes
  BY <1>1, StringTypes DEF PlaceOf, RoomOf, TheLogs, TheStrings, Sizes
<1>2. ASSUME NEW k \in 1..Len(tables), NEW o, o = <<"table", k>>
      PROVE  PlaceOf(o) \in Places /\ RoomOf(o) \in Sizes
  <2>1. Tables[k] \in Nat \ {0} /\ tables[k] \in Places
    BY StringTypes, LogAssumption
  <2> QED
    BY <1>2, <2>1 DEF PlaceOf, RoomOf, Sizes
<1>3. ASSUME NEW o, o = Step
      PROVE  PlaceOf(o) \in Places /\ RoomOf(o) \in Sizes
  BY <1>3, StringTypes DEF PlaceOf, RoomOf, TheStrings, Sizes, Step
<1> QED
  BY <1>1, <1>2, <1>3 DEF Owners

\* Objects that one other object was beside stay where they are when it moves.
LEMMA OthersStay ==
    ASSUME LTypes, NEW O \in SUBSET Owners, NEW a, NEW b, NEW p, NEW z, NEW q, NEW y,
           AllApart(a, O), Moved(a, p, z, b, q, y),
           \A o \in O : Live(o) => Beside(a, PlaceOf(o), RoomOf(o), p, z)
    PROVE  /\ AllApart(b, O)
           /\ \A o \in O : Live(o) => Beside(b, PlaceOf(o), RoomOf(o), q, y)
<1>1. \A o \in O : Live(o) =>
        /\ Beside(b, PlaceOf(o), RoomOf(o), q, y)
        /\ PlaceOf(o) = b.last => PlaceOf(o) = a.last
  BY OwnerTypes DEF Moved
<1>2. \A o \in O : Live(o) => Within(b, PlaceOf(o), RoomOf(o))
  BY <1>1 DEF Beside
<1>3. ASSUME NEW o \in O, NEW r \in O, o # r, Live(o)
      PROVE  Beside(b, PlaceOf(o), RoomOf(o), PlaceOf(r), RoomOf(r))
  <2>1. Beside(a, PlaceOf(o), RoomOf(o), PlaceOf(r), RoomOf(r))
    BY <1>3 DEF AllApart
  <2>2. Live(r) => (PlaceOf(r) = b.last => PlaceOf(r) = a.last)
    BY <1>1
  <2>3. PlaceOf(o) = b.last => PlaceOf(o) = a.last
    BY <1>1, <1>3
  <2> QED
    BY <1>2, <1>3, <2>1, <2>2, <2>3 DEF Beside, Live
<1> QED
  BY <1>1, <1>2, <1>3 DEF AllApart

\* The object that moved takes its place among the others.
LEMMA Rejoin ==
    ASSUME NEW O, NEW moved, moved \notin O, Owners' = O \cup {moved},
           \A o \in O : PlaceOf(o)' = PlaceOf(o) /\ RoomOf(o)' = RoomOf(o),
           AllApart(arena', O),
           \A o \in O : Live(o) =>
               Beside(arena', PlaceOf(o), RoomOf(o), PlaceOf(moved)', RoomOf(moved)'),
           PlaceOf(moved)' # Null => Within(arena', PlaceOf(moved)', RoomOf(moved)')
    PROVE  ObjectsApart'
<1>1. \A o \in O : Live(o)' <=> Live(o)
  BY DEF Live
<1>2. \A o \in Owners' : Live(o)' => Within(arena', PlaceOf(o)', RoomOf(o)')
  BY <1>1 DEF AllApart, Live
<1>3. ASSUME NEW o \in Owners', NEW p \in Owners', o # p, Live(o)'
      PROVE  Beside(arena', PlaceOf(o)', RoomOf(o)', PlaceOf(p)', RoomOf(p)')
  <2>1. CASE o \in O /\ p \in O
    BY <1>1, <1>3, <2>1 DEF AllApart
  <2>2. CASE o \in O /\ p = moved
    BY <1>1, <1>3, <2>2
  <2>3. CASE o = moved /\ p \in O
    <3>1. Within(arena', PlaceOf(o)', RoomOf(o)')
      BY <1>2, <1>3
    <3>2. PlaceOf(p)' # Null =>
            Beside(arena', PlaceOf(p), RoomOf(p), PlaceOf(o)', RoomOf(o)')
      BY <2>3 DEF Live
    <3>3. PlaceOf(o)' # Null
      BY <1>3 DEF Live
    <3>4. PlaceOf(p)' = PlaceOf(p) /\ RoomOf(p)' = RoomOf(p)
      BY <2>3
    <3>5. PlaceOf(p)' # Null =>
            /\ Apart(PlaceOf(o)', RoomOf(o)', PlaceOf(p)', RoomOf(p)')
            /\ PlaceOf(p)' = arena'.last => Below(PlaceOf(o)', RoomOf(o)', PlaceOf(p)')
            /\ PlaceOf(o)' = arena'.last => Below(PlaceOf(p)', RoomOf(p)', PlaceOf(o)')
      BY <3>2, <3>3, <3>4 DEF Beside, Apart
    <3> QED
      BY <3>1, <3>5 DEF Beside
  <2> QED
    BY <1>3, <2>1, <2>2, <2>3
<1> QED
  BY <1>2, <1>3 DEF ObjectsApart, AllApart

\* What was saved survives the return to the saved state.
LEMMA ReturnApart ==
    ASSUME LTypes, NEW O \in SUBSET Owners, NEW a, ArenaOK(a), AllApart(a, O),
           NEW state \in Places, Restorable(a, state),
           \A o \in O : Live(o) => Saved(PlaceOf(o), RoomOf(o), state)
    PROVE  AllApart(StateSet(a, state), O)
<1>1. \A o \in O : Live(o) => Within(StateSet(a, state), PlaceOf(o), RoomOf(o))
  <2>1. \A o \in O : PlaceOf(o) \in Places /\ RoomOf(o) \in Nat
    BY OwnerTypes DEF Sizes
  <2> QED
    BY <2>1, StateSetOutcome DEF AllApart
<1>2. StateSet(a, state).last = a.last
  BY StateSetOutcome
<1> QED
  BY <1>1, <1>2 DEF AllApart, Beside
-----------------------------------------------------------------------------
(* Types of the next state. *)

LEMMA PlaceTypes ==
    ASSUME NEW a, ArenaOK(a), NEW at \in Places, NEW size \in Nat, Within(a, at, size)
    PROVE  at \in (0..Len(a.nodes)) \X (0..MallocMax) /\ size \in 0..MallocMax
<1>1. /\ a.nodes[at[1]].current <= a.nodes[at[1]].end /\ a.nodes[at[1]].end <= MallocMax
      /\ a.nodes[at[1]].current \in Nat /\ a.nodes[at[1]].end \in Nat
      /\ at[1] \in 0..Len(a.nodes)
  BY NodesOf DEF ArenaOK, Within
<1>2. at[2] \in Nat /\ at[2] + size <= a.nodes[at[1]].current /\ MallocMax \in Nat
  BY ArenaAssumption DEF Within, Places
<1>3. at[2] \in 0..MallocMax /\ size \in 0..MallocMax
  <2> DEFINE current == a.nodes[at[1]].current
             end == a.nodes[at[1]].end
  <2>2. /\ current \in Nat /\ end \in Nat /\ MallocMax \in Nat /\ at[2] + size \in Nat
        /\ at[2] + size <= current /\ current <= end /\ end <= MallocMax
    BY <1>1, <1>2
  <2> HIDE DEF current, end
  <2>1. at[2] + size <= MallocMax
    BY <2>2
  <2> QED
    BY <1>2, <2>1
<1> QED
  BY <1>1, <1>3 DEF Places

LEMMA ArenaTypes ==
    ASSUME NEW a, ArenaOK(a)
    PROVE  /\ a.latest \in DOMAIN a.nodes
           /\ a.last \in (0..Len(a.nodes)) \X (0..MallocMax)
           /\ \A n \in DOMAIN a.nodes : a.nodes[n].current \in 0..a.nodes[n].end
<1>1. /\ Len(a.nodes) \in Nat \ {0} /\ DOMAIN a.nodes = 1..Len(a.nodes)
      /\ a.latest = Len(a.nodes) /\ a.last \in Places
      /\ \A n \in 1..Len(a.nodes) : a.nodes[n].current \in Nat /\ a.nodes[n].end \in Nat
      /\ \A n \in 1..Len(a.nodes) : a.nodes[n].current <= a.nodes[n].end
                                    /\ a.nodes[n].end <= MallocMax
  BY NodesOf DEF ArenaOK
<1>2. MallocMax \in Nat
  BY ArenaAssumption
<1>3. a.last \in (0..Len(a.nodes)) \X (0..MallocMax)
  <2>1. CASE a.last = Null
    BY <1>1, <1>2, <2>1 DEF Null
  <2>2. CASE a.last # Null
    <3>1. a.last[1] = Len(a.nodes) /\ a.last[2] <= a.nodes[Len(a.nodes)].end
      BY <1>1, <2>2 DEF ArenaOK
    <3>2. a.last[2] \in 0..MallocMax /\ a.last[1] \in 0..Len(a.nodes)
      BY <1>1, <1>2, <3>1 DEF Places
    <3> QED
      BY <1>1, <3>2 DEF Places
  <2> QED
    BY <2>1, <2>2
<1> QED
  BY <1>1, <1>3

\* Pointers into the nodes stay pointers when there are more of them.
LEMMA PointersStay ==
    ASSUME ArenaOK(arena), ArenaOK(arena)', Len(arena'.nodes) >= Len(arena.nodes)
    PROVE  Pointers \subseteq Pointers' /\ Strings \subseteq Strings'
<1>1. Len(arena.nodes) \in Nat /\ Len(arena'.nodes) \in Nat
  BY NodesOf
<1>2. Pointers \subseteq Pointers'
  BY <1>1 DEF Pointers
<1> QED
  BY <1>2 DEF Strings

\* The types when one kind of object changes.
LEMMA TypesKept ==
    ASSUME LTypes, ArenaOK(arena)', Len(arena'.nodes) >= Len(arena.nodes),
           pc' \in {"setup", "serve", "report", "done"},
           parts' \in 0..Len(StepParts),
           \/ logs' = logs
           \/ logs' \in [Logs -> [data : Strings', capacity : 0..MallocMax]]
              /\ \A l \in Logs : LogOK(logs'[l]),
           \/ tables' = tables
           \/ tables' \in Seq(Pointers') /\ Len(tables') <= Len(Tables)
              /\ \A k \in 1..Len(tables') : tables'[k] # Null,
           \/ step' = step
           \/ step' \in Strings' /\ (step'.bytes = Null => step'.length = 0)
    PROVE  LTypes'
<1>1. Pointers \subseteq Pointers' /\ Strings \subseteq Strings'
  BY PointersStay DEF LTypes
<1>2. /\ logs' \in [Logs -> [data : Strings', capacity : 0..MallocMax]]
      /\ \A l \in Logs : LogOK(logs'[l])
  <2>1. CASE logs' = logs
    BY <1>1, <2>1 DEF LTypes, TypeOK
  <2> QED
    BY <2>1
<1>3. /\ tables' \in Seq(Pointers') /\ Len(tables') <= Len(Tables)
      /\ \A k \in 1..Len(tables') : tables'[k] # Null
  <2>1. CASE tables' = tables
    BY <1>1, <2>1, SeqMonotonic DEF LTypes, TypeOK
  <2> QED
    BY <2>1
<1>4. step' \in Strings' /\ (step'.bytes = Null => step'.length = 0)
  BY <1>1 DEF LTypes, TypeOK
<1>5. /\ arena'.latest \in DOMAIN arena'.nodes
      /\ arena'.last \in Pointers'
      /\ \A n \in DOMAIN arena'.nodes : arena'.nodes[n].current \in 0..arena'.nodes[n].end
  BY ArenaTypes DEF Pointers
<1>6. TypeOK'
  BY <1>2, <1>3, <1>4, <1>5, Zenon DEF TypeOK
<1> QED
  BY <1>2, <1>3, <1>4, <1>6 DEF LTypes

LEMMA NullTypes == ArenaOK(arena)' => StringInit \in Strings' /\ StringInit.bytes = Null
                                     /\ StringInit.length = 0
<1> SUFFICES ASSUME ArenaOK(arena)'
             PROVE  StringInit \in Strings' /\ StringInit.bytes = Null /\ StringInit.length = 0
    OBVIOUS
<1>1. Len(arena'.nodes) \in Nat /\ MallocMax \in Nat
  BY NodesOf, ArenaAssumption
<1> QED
  BY <1>1 DEF StringInit, Strings, Pointers, Null

\* A state that can be restored is restored.
LEMMA Returned ==
    ASSUME NEW a, ArenaOK(a), NEW mem, NEW state \in Places, Restorable(a, state), NEW to,
           Return(a, mem, state, to)
    PROVE  /\ pc' = to /\ arena' = StateSet(a, state) /\ ArenaOK(arena)'
           /\ Len(arena'.nodes) = Len(a.nodes)
BY StateSetOutcome DEF Return

\* Going back to a state leaves the states saved before it restorable.
LEMMA EarlierRestorable ==
    ASSUME NEW a, ArenaOK(a), NEW state \in Places, Restorable(a, state),
           NEW first \in Places, Restorable(a, first), Since(state, first)
    PROVE  Restorable(StateSet(a, state), first)
<1> DEFINE b == StateSet(a, state)
           back(n) == IF n < state[1] THEN a.nodes[n].end
                      ELSE IF n = state[1] THEN state[2] ELSE 0
<1>1. /\ DOMAIN a.nodes = 1..Len(a.nodes) /\ first[1] \in 1..Len(a.nodes)
      /\ a.nodes \in [1..Len(a.nodes) -> Node] /\ Len(b.nodes) = Len(a.nodes)
  BY NodesOf, StateSetOutcome DEF Restorable
<1>2. /\ a.nodes[first[1]].current <= a.nodes[first[1]].end
      /\ a.nodes[first[1]].current \in Nat /\ a.nodes[first[1]].end \in Nat
      /\ first[1] \in Nat /\ first[2] \in Nat /\ state[1] \in Nat /\ state[2] \in Nat
      /\ a.nodes[first[1]].current >= first[2]
  BY <1>1, NodesOf DEF ArenaOK, Places, Restorable
<1>3. b.nodes = [n \in DOMAIN a.nodes |-> [a.nodes[n] EXCEPT !.current = back(n)]]
  BY DEF StateSet, ArenaOK
<1>4. b.nodes[first[1]].current = back(first[1])
  <2>1. b.nodes[first[1]] = [a.nodes[first[1]] EXCEPT !.current = back(first[1])]
    BY <1>1, <1>3
  <2>2. a.nodes[first[1]] \in Node
    BY <1>1
  <2> HIDE DEF back
  <2> QED
    BY <2>1, <2>2 DEF Node
<1>5. back(first[1]) >= first[2]
  BY <1>2 DEF Since
<1> QED
  BY <1>1, <1>4, <1>5 DEF Restorable
-----------------------------------------------------------------------------
(* The initial state and the actions. *)

LEMMA ParsedOK ==
    ASSUME NEW a \in ParsedArenas
    PROVE  ArenaOK(a)
<1> DEFINE node == [current |-> 0, end |-> InitialCapacity]
           empty == ArenaInit(InitialCapacity)
<1>1. /\ InitialCapacity \in Nat /\ InitialCapacity <= MallocMax /\ MallocMax \in Nat
  BY ArenaAssumption, LogAssumption
<1>2. node \in Node /\ node.current = 0 /\ node.end = InitialCapacity
  BY <1>1 DEF Node
<1> HIDE DEF node
<1>3. <<node>> \in Seq(Node) /\ Len(<<node>>) = 1 /\ <<node>>[1] = node
      /\ DOMAIN <<node>> = 1..1
  BY <1>2
<1>4. /\ empty.nodes = <<node>> /\ empty.latest = 1 /\ empty.last = Null
      /\ empty \in [nodes : Seq(Node), latest : Nat, last : Places]
  <2>1. Null \in Places
    BY DEF Null, Places
  <2> QED
    BY <1>3, <2>1 DEF ArenaInit, node
<1>5. ArenaOK(empty)
  BY <1>1, <1>2, <1>3, <1>4 DEF ArenaOK
<1> HIDE DEF empty
<1>6. CASE a = empty
  BY <1>5, <1>6
<1>7. CASE a # empty
  <2>1. PICK n \in Parsed : a = Alloc(empty, 1, n, TRUE).arena
    BY <1>7, Zenon DEF ParsedArenas, empty
  <2>2. n \in Nat
    BY LogAssumption
  <2> QED
    BY <1>5, <2>1, <2>2, AllocOutcome DEF Allocated, NotAllocated
<1> QED
  BY <1>6, <1>7

LEMMA InitLInv == Init => LInv /\ OuterOK
<1> SUFFICES ASSUME Init PROVE LInv /\ OuterOK
    OBVIOUS
<1> DEFINE top == Len(arena.nodes)
<1>1. /\ MallocMax \in Nat /\ Len(Tables) \in Nat /\ Len(Tables) > 0
      /\ Len(StepParts) \in Nat
  BY ArenaAssumption, LogAssumption, EmptySeq, LenProperties
<1>5. ArenaOK(arena)
  BY ParsedOK DEF Init
<1>3. /\ top \in Nat \ {0} /\ arena.latest = top /\ arena.nodes[top].current \in Nat
  BY <1>5, NodesOf DEF ArenaOK
<1>6. outer \in Places /\ Restorable(arena, outer)
  <2>1. outer = <<top, arena.nodes[top].current>>
    BY <1>3 DEF Init, StateGet
  <2> QED
    BY <1>3, <2>1 DEF Places, Restorable
<1>7. /\ StringInit \in Strings /\ StringInit.bytes = Null /\ StringInit.length = 0
      /\ LogInit.data = StringInit /\ LogInit.capacity = 0
      /\ LogInit \in [data : Strings, capacity : 0..MallocMax]
  BY <1>1, <1>3 DEF StringInit, LogInit, Strings, Pointers, Null
<1>8. /\ pc = "setup" /\ step = StringInit /\ parts = 0 /\ tables = <<>> /\ Len(tables) = 0
      /\ logs = [l \in Logs |-> LogInit]
  BY DEF Init
<1>9. TypeOK
  <2>1. /\ arena.latest \in DOMAIN arena.nodes /\ arena.last \in Pointers
        /\ \A n \in DOMAIN arena.nodes : arena.nodes[n].current \in 0..arena.nodes[n].end
    BY <1>5, ArenaTypes DEF Pointers
  <2>2. logs \in [Logs -> [data : Strings, capacity : 0..MallocMax]]
    BY <1>7, <1>8
  <2>3. tables \in Seq(Pointers) /\ parts \in 0..Len(StepParts)
    BY <1>1, <1>8
  <2> QED
    BY <1>7, <1>8, <2>1, <2>2, <2>3 DEF TypeOK
<1>10. LTypes
  BY <1>1, <1>5, <1>7, <1>8, <1>9 DEF LTypes, LogOK
<1>11. \A o \in Owners : ~Live(o)
  BY <1>7, <1>8 DEF Owners, Live, PlaceOf, Step
<1>12. ObjectsApart
  BY <1>11 DEF ObjectsApart, AllApart
<1>13. OuterOK
  BY <1>6, <1>8, <1>11 DEF OuterOK
<1> QED
  BY <1>1, <1>8, <1>10, <1>12, <1>13 DEF LInv, Phases, ReportOK

LEMMA SetupTableLInv == LInv /\ OuterOK /\ SetupTable => LInv' /\ OuterOK'
<1> SUFFICES ASSUME LInv, OuterOK, SetupTable PROVE LInv' /\ OuterOK'
    OBVIOUS
<1>0. PICK next : next = Len(tables) + 1
  OBVIOUS
<1> DEFINE size == Tables[next]
           got(granted) == Alloc(arena, 1, size, granted)
<1>1. /\ LTypes /\ Phases /\ ObjectsApart /\ pc = "setup" /\ step = StringInit
      /\ ArenaOK(arena) /\ parts \in 0..Len(StepParts)
      /\ outer \in Places /\ Restorable(arena, outer)
      /\ \A l \in Logs : logs[l] = LogInit
      /\ UNCHANGED <<logs, outer, inner, step, parts>>
  BY DEF LInv, OuterOK, SetupTable, Phases, LTypes, TypeOK
<1>2. /\ Len(tables) \in Nat /\ Len(Tables) \in Nat /\ next \in 1..Len(Tables)
      /\ size \in Sizes /\ size \in Nat /\ tables \in Seq(Places)
  <2>1. Len(tables) \in Nat /\ Len(Tables) \in Nat /\ Len(tables) < Len(Tables)
        /\ tables \in Seq(Places)
    BY <1>1, StringTypes, LogAssumption, LenProperties DEF Phases
  <2>2. next \in 1..Len(Tables)
    BY <1>0, <2>1
  <2>3. Tables[next] \in Nat \ {0}
    BY <2>2, LogAssumption
  <2> QED
    BY <2>1, <2>2, <2>3 DEF Sizes
<1> HIDE DEF size
<1>3. PICK granted \in BOOLEAN :
        IF AllocAborts(arena, 1, size, granted)
        THEN pc' = "aborted" /\ UNCHANGED <<arena, tables, memory>>
        ELSE IF got(granted).at = Null
        THEN Return(got(granted).arena, memory, outer, "done") /\ UNCHANGED tables
        ELSE /\ arena' = got(granted).arena
             /\ tables' = Append(tables, got(granted).at)
             /\ memory' = Store(memory, got(granted).at, [i \in 1..size |-> TableByte])
             /\ pc' = IF Len(tables') = Len(Tables) THEN "serve" ELSE "setup"
  BY <1>0, Zenon DEF SetupTable, size
<1> DEFINE out == got(granted)
<1>4. ~AllocAborts(arena, 1, size, granted)
  BY <1>1, <1>2, AllocNeverAborts
<1>5. Allocated(arena, out, size) \/ NotAllocated(arena, out)
  BY <1>1, <1>2, AllocOutcome
<1> HIDE DEF out
<1>6. CASE out.at = Null
  <2>1. Return(out.arena, memory, outer, "done") /\ UNCHANGED tables
    BY <1>3, <1>4, <1>6, Zenon DEF out
  <2>2. ArenaOK(out.arena) /\ Len(out.arena.nodes) = Len(arena.nodes)
    BY <1>5, <1>6 DEF Allocated, NotAllocated
  <2>5. Restorable(out.arena, outer)
    <3>1. Moved(arena, Null, 0, out.arena, Null, 0)
      BY <1>1, <1>5, <1>6, RefusedMoves DEF Allocated, Null, Places
    <3> QED
      BY <1>1, <3>1 DEF Moved
  <2>3. /\ pc' = "done" /\ ArenaOK(arena)' /\ Len(arena'.nodes) = Len(arena.nodes)
    BY <1>1, <2>1, <2>2, <2>5, Returned
  <2>4. LTypes'
    <3>1. Len(arena'.nodes) >= Len(arena.nodes)
      BY <1>1, <2>3, NodesOf
    <3> QED
      BY <1>1, <2>1, <2>3, <3>1, TypesKept
  <2> QED
    BY <1>1, <2>3, <2>4 DEF LInv, OuterOK, Phases, ReportOK
<1>7. CASE out.at # Null
  <2> DEFINE moved == <<"table", next>>
  <2>1. /\ arena' = out.arena /\ tables' = Append(tables, out.at)
        /\ pc' = IF Len(tables') = Len(Tables) THEN "serve" ELSE "setup"
    BY <1>3, <1>4, <1>7, Zenon DEF out
  <2>2. Allocated(arena, out, size)
    BY <1>5, <1>7 DEF NotAllocated
  <2>3. /\ ArenaOK(arena)' /\ Len(arena'.nodes) >= Len(arena.nodes)
        /\ out.at \in Places /\ Within(arena', out.at, size)
    BY <2>1, <2>2 DEF Allocated
  <2>4. /\ Len(tables') = next /\ tables'[next] = out.at
        /\ \A k \in 1..Len(tables) : tables'[k] = tables[k]
        /\ 1..Len(tables') = (1..Len(tables)) \cup {next} /\ next \notin 1..Len(tables)
    BY <1>0, <1>2, <2>1, <2>3, AppendProperties
  <2>5. LTypes'
    <3>1. out.at \in Pointers'
      BY <1>2, <2>3, PlaceTypes DEF Pointers
    <3>2. tables \in Seq(Pointers')
      BY <1>1, <2>3, PointersStay, SeqMonotonic DEF LTypes, TypeOK
    <3>3. tables' \in Seq(Pointers')
      BY <2>1, <3>1, <3>2, AppendProperties
    <3>4. /\ Len(tables') <= Len(Tables)
          /\ \A k \in 1..Len(tables') : tables'[k] # Null
      <4>1. \A k \in 1..Len(tables) : tables'[k] # Null
        BY <1>1, <2>4 DEF LTypes
      <4> QED
        BY <1>2, <1>7, <2>4, <4>1
    <3>5. pc' \in {"setup", "serve", "report", "done"}
      BY <2>1
    <3> QED
      BY <1>1, <2>3, <3>3, <3>4, <3>5, TypesKept
  <2>8. Moved(arena, Null, 0, arena', out.at, size)
    BY <1>1, <1>2, <2>1, <2>2, AllocatedMoves
  <2>9. moved \notin Owners /\ Owners' = Owners \cup {moved}
    BY <2>4 DEF Owners, Step
  <2>10. /\ \A o \in Owners : PlaceOf(o)' = PlaceOf(o) /\ RoomOf(o)' = RoomOf(o)
         /\ PlaceOf(moved)' = out.at /\ RoomOf(moved)' = size
    BY <1>1, <2>4 DEF Owners, PlaceOf, RoomOf, Step, size
  <2>6. ObjectsApart'
    <3>1. AllApart(arena, Owners)
      BY <1>1 DEF ObjectsApart
    <3>2. \A o \in Owners : Live(o) => Beside(arena, PlaceOf(o), RoomOf(o), Null, 0)
      BY <3>1 DEF AllApart, Beside
    <3>3. /\ AllApart(arena', Owners)
          /\ \A o \in Owners : Live(o) => Beside(arena', PlaceOf(o), RoomOf(o), out.at, size)
      BY <1>1, <2>8, <3>1, <3>2, OthersStay
    <3> HIDE DEF moved
    <3> QED
      BY <2>3, <2>9, <2>10, <3>3, Rejoin
  <2>7. Phases' /\ pc' # "report"
    <3>1. Len(tables') # Len(Tables) => Len(tables') < Len(Tables)
      BY <1>2, <2>4
    <3> QED
      BY <1>1, <2>1, <3>1 DEF Phases
  <2>11. OuterOK'
    <3>1. Restorable(arena', outer) /\ Since(out.at, outer)
      BY <1>1, <1>7, <2>8 DEF Moved
    <3>2. \A o \in Owners : Live(o) => Since(PlaceOf(o), outer)
      BY <1>1 DEF OuterOK
    <3> HIDE DEF moved
    <3>3. \A o \in Owners' : Live(o)' => Since(PlaceOf(o)', outer)
      BY <2>9, <2>10, <3>1, <3>2 DEF Live
    <3> QED
      BY <1>1, <2>7, <3>1, <3>3 DEF OuterOK
  <2> QED
    BY <2>5, <2>6, <2>7, <2>11 DEF LInv, ReportOK
<1> QED
  BY <1>6, <1>7

\* A read moves its log, if at all, to a place of its own.
LEMMA AppendLogMoves ==
    ASSUME LInv, NEW l \in Logs, AppendLog(l)
    PROVE  /\ pc = "serve" /\ pc' = "serve" /\ UNCHANGED <<tables, outer, inner, step, parts>>
           /\ \E log \in TheLogs :
                 /\ logs' = [logs EXCEPT ![l] = log] /\ LogOK(log)
                 /\ Moved(arena, logs[l].data.bytes, logs[l].capacity + 1,
                          arena', log.data.bytes, log.capacity + 1)
<1> DEFINE length == logs[l].data.length
           data(size) == Bytes(l, length, size)
           app(size, granted) == LogAppend(logs[l], arena, memory, data(size), granted)
<1>1. PICK size \in ChunkSizes, granted \in BOOLEAN :
        /\ logs' = [logs EXCEPT ![l] = app(size, granted).string]
        /\ arena' = app(size, granted).arena
        /\ pc' = IF app(size, granted).result = "abort" THEN "aborted" ELSE "serve"
  BY DEF AppendLog
<1>2. /\ ObjectsApart /\ pc = "serve" /\ ArenaOK(arena)
      /\ logs[l] \in TheLogs /\ LogOK(logs[l])
      /\ UNCHANGED <<tables, outer, inner, step, parts>>
  BY StringTypes DEF LInv, AppendLog, Phases, LTypes, TypeOK
<1> DEFINE out == app(size, granted)
<1>3. Len(data(size)) \in 1..(SizeMax \div 2)
  <2>1. size \in 1..(SizeMax \div 2) /\ SizeMax \div 2 \in Nat /\ size \in Nat
    BY LogAssumption, ArenaAssumption
  <2>2. data(size) \in [1..size -> {l} \X Nat]
    BY <1>2, <2>1 DEF Bytes, TheLogs, TheStrings
  <2>3. Len(data(size)) = size
    BY <2>1, <2>2, FunctionIsSeq
  <2> QED
    BY <2>1, <2>3
<1>4. logs[l].data.bytes # Null =>
         Within(arena, logs[l].data.bytes, logs[l].capacity + 1)
  <2> DEFINE moved == <<"log", l>>
  <2>1. /\ moved \in Owners /\ PlaceOf(moved) = logs[l].data.bytes
        /\ RoomOf(moved) = logs[l].capacity + 1
    BY DEF Owners, PlaceOf, RoomOf
  <2> HIDE DEF moved
  <2> QED
    BY <1>2, <2>1 DEF ObjectsApart, AllApart, Live
<1>5. /\ out.result \in {"ok", "memory"}
      /\ out.string \in TheLogs /\ LogOK(out.string)
      /\ Moved(arena, logs[l].data.bytes, logs[l].capacity + 1,
               out.arena, out.string.data.bytes, out.string.capacity + 1)
  <2> HIDE DEF data
  <2>1. out = LogAppend(logs[l], arena, memory, data(size), granted)
    OBVIOUS
  <2> HIDE DEF out
  <2> QED
    BY <1>2, <1>3, <1>4, <2>1, LogAppendOutcome
<1>6. logs' = [logs EXCEPT ![l] = out.string] /\ arena' = out.arena /\ pc' = "serve"
  BY <1>1, <1>5
<1> HIDE DEF out
<1> QED
  BY <1>2, <1>5, <1>6

LEMMA AppendLogLInv == \A l \in Logs : LInv /\ OuterOK /\ AppendLog(l) => LInv' /\ OuterOK'
<1> SUFFICES ASSUME NEW l \in Logs, LInv, OuterOK, AppendLog(l)
             PROVE  LInv' /\ OuterOK'
    OBVIOUS
<1>1. PICK log \in TheLogs :
        /\ logs' = [logs EXCEPT ![l] = log] /\ LogOK(log)
        /\ Moved(arena, logs[l].data.bytes, logs[l].capacity + 1,
                 arena', log.data.bytes, log.capacity + 1)
  BY AppendLogMoves
<1>2. /\ LTypes /\ Phases /\ ObjectsApart /\ pc' = "serve" /\ step = StringInit
      /\ ArenaOK(arena) /\ parts \in 0..Len(StepParts)
      /\ logs[l] \in TheLogs /\ LogOK(logs[l])
      /\ logs \in [Logs -> [data : Strings, capacity : 0..MallocMax]]
      /\ UNCHANGED <<tables, outer, inner, step, parts>>
  BY StringTypes, AppendLogMoves DEF LInv, AppendLog, Phases, LTypes, TypeOK
<1> DEFINE old == logs[l].data.bytes
           room == logs[l].capacity + 1
           moved == <<"log", l>>
           O == Owners \ {moved}
<1>4. /\ moved \in Owners /\ PlaceOf(moved) = old /\ RoomOf(moved) = room
      /\ old # Null => Within(arena, old, room)
      /\ \A o \in O : Live(o) => Beside(arena, PlaceOf(o), RoomOf(o), old, room)
      /\ AllApart(arena, O)
  <2>1. moved \in Owners /\ PlaceOf(moved) = old /\ RoomOf(moved) = room
    BY DEF Owners, PlaceOf, RoomOf
  <2> HIDE DEF moved, old, room
  <2>2. old # Null => Within(arena, old, room)
    BY <1>2, <2>1 DEF ObjectsApart, AllApart, Live
  <2>3. \A o \in O : Live(o) => Beside(arena, PlaceOf(o), RoomOf(o), old, room)
    BY <1>2, <2>1 DEF ObjectsApart, AllApart
  <2>4. AllApart(arena, O)
    BY <1>2 DEF ObjectsApart, AllApart
  <2> QED
    BY <2>1, <2>2, <2>3, <2>4
<1> HIDE DEF O
<1> DEFINE at == log.data.bytes
           space == log.capacity + 1
<1>7. /\ logs'[l] = log
      /\ \A m \in Logs : m # l => logs'[m] = logs[m]
  BY <1>2, <1>1
<1>8. /\ ArenaOK(arena)' /\ Len(arena'.nodes) >= Len(arena.nodes)
      /\ at # Null => Within(arena', at, space)
      /\ at \in Places /\ space \in Nat
  BY <1>1 DEF Moved, TheLogs, TheStrings
<1>5. moved \notin O /\ Owners' = O \cup {moved}
  BY <1>2, <1>4 DEF Owners, O
<1>6. /\ \A o \in O : PlaceOf(o)' = PlaceOf(o) /\ RoomOf(o)' = RoomOf(o)
      /\ PlaceOf(moved)' = at /\ RoomOf(moved)' = space
  BY <1>2, <1>7 DEF O, Owners, PlaceOf, RoomOf, Step
<1>9. ObjectsApart'
  <2>1. Moved(arena, old, room, arena', at, space)
    BY <1>1
  <2>2. O \in SUBSET Owners
    BY DEF O
  <2> HIDE DEF at, space, old, room
  <2>3. /\ AllApart(arena', O)
        /\ \A o \in O : Live(o) => Beside(arena', PlaceOf(o), RoomOf(o), at, space)
    <3>1. /\ LTypes /\ AllApart(arena, O)
          /\ \A o \in O : Live(o) => Beside(arena, PlaceOf(o), RoomOf(o), old, room)
      BY <1>2, <1>4
    <3> QED
      BY <2>1, <2>2, <3>1, OthersStay
  <2> HIDE DEF moved
  <2> QED
    BY <1>5, <1>6, <1>8, <2>3, Rejoin
<1>10. LTypes'
  <2>1. log \in [data : Strings', capacity : 0..MallocMax]
    <3>1. /\ log.data \in TheStrings /\ log.data.length \in Nat
          /\ log.capacity \in Nat /\ log \in TheLogs
          /\ log.data.length <= log.capacity
          /\ at = Null => log.capacity = 0
      BY <1>1 DEF TheLogs, TheStrings, LogOK
    <3>2. at \in Pointers' /\ log.capacity \in 0..MallocMax
      <4>1. CASE at = Null
        BY <1>8, <3>1, <4>1, NullTypes, ArenaAssumption DEF StringInit, Strings
      <4>2. CASE at # Null
        <5>1. at \in Pointers' /\ space \in 0..MallocMax
          BY <1>8, <4>2, PlaceTypes DEF Pointers
        <5> QED
          BY <3>1, <5>1, ArenaAssumption
      <4> QED
        BY <4>1, <4>2
    <3>3. log.data.length \in 0..MallocMax
      BY <3>1, <3>2, ArenaAssumption
    <3>4. log.data \in Strings'
      BY <3>1, <3>2, <3>3 DEF TheStrings, Strings
    <3> QED
      BY <3>1, <3>2, <3>4 DEF TheLogs
  <2>2. Strings \subseteq Strings'
    BY <1>2, <1>8, PointersStay
  <2>3. logs' \in [Logs -> [data : Strings', capacity : 0..MallocMax]]
    <3>1. logs \in [Logs -> [data : Strings', capacity : 0..MallocMax]]
      BY <1>2, <2>2
    <3> QED
      BY <1>1, <2>1, <3>1
  <2>4. \A m \in Logs : LogOK(logs'[m])
    BY <1>2, <1>1, <1>7 DEF LTypes
  <2> QED
    BY <1>2, <1>1, <1>8, <2>3, <2>4, TypesKept
<1>11. OuterOK'
  <2>1. /\ outer \in Places /\ Restorable(arena, outer)
        /\ \A o \in Owners : Live(o) => Since(PlaceOf(o), outer)
    BY <1>2, AppendLogMoves DEF OuterOK
  <2>2. Restorable(arena', outer) /\ (at # Null => Since(at, outer))
    BY <1>1, <1>4, <2>1 DEF Moved, Live
  <2> HIDE DEF moved, at, space, old, room
  <2>3. \A o \in Owners' : Live(o)' => Since(PlaceOf(o)', outer)
    BY <1>5, <1>6, <2>1, <2>2 DEF O, Live
  <2> QED
    BY <1>2, <2>1, <2>2, <2>3 DEF OuterOK
<1> QED
  BY <1>1, <1>2, <1>9, <1>10, <1>11 DEF LInv, Phases, ReportOK

\* An empty log keeps its place and its room.
LEMMA ResetLogLInv == \A l \in Logs : LInv /\ OuterOK /\ ResetLog(l) => LInv' /\ OuterOK'
<1> SUFFICES ASSUME NEW l \in Logs, LInv, OuterOK, ResetLog(l)
             PROVE  LInv' /\ OuterOK'
    OBVIOUS
<1>1. /\ LTypes /\ Phases /\ ObjectsApart /\ pc = "serve" /\ ArenaOK(arena)
      /\ logs \in [Logs -> [data : Strings, capacity : 0..MallocMax]]
      /\ logs[l] \in TheLogs /\ LogOK(logs[l])
      /\ logs' = [logs EXCEPT ![l] = LogReset(logs[l])]
      /\ UNCHANGED <<pc, arena, memory, tables, outer, inner, step, parts>>
  BY StringTypes DEF LInv, ResetLog, LTypes, TypeOK
<1>2. Strings' = Strings /\ ArenaOK(arena)' /\ Len(arena'.nodes) >= Len(arena.nodes)
  BY <1>1, NodesOf DEF Strings, Pointers
<1>3. /\ LogReset(logs[l]).data.bytes = logs[l].data.bytes
      /\ LogReset(logs[l]).data.length = 0
      /\ LogReset(logs[l]).capacity = logs[l].capacity
      /\ LogReset(logs[l]) \in [data : Strings, capacity : 0..MallocMax]
      /\ LogOK(LogReset(logs[l]))
  <2>1. logs[l] \in [data : Strings, capacity : 0..MallocMax] /\ MallocMax \in Nat
    BY <1>1, ArenaAssumption
  <2> QED
    BY <1>1, <2>1 DEF LogReset, Strings, LogOK, TheLogs
<1>4. /\ logs'[l] = LogReset(logs[l])
      /\ \A m \in Logs : m # l => logs'[m] = logs[m]
      /\ logs' \in [Logs -> [data : Strings, capacity : 0..MallocMax]]
  BY <1>1, <1>3
<1>5. LTypes'
  <2>1. \A m \in Logs : LogOK(logs'[m])
    BY <1>1, <1>3, <1>4 DEF LTypes
  <2>2. pc' \in {"setup", "serve", "report", "done"} /\ parts' \in 0..Len(StepParts)
    BY <1>1 DEF LTypes, TypeOK
  <2> QED
    BY <1>1, <1>2, <1>4, <2>1, <2>2, TypesKept
<1>6. /\ Owners' = Owners
      /\ \A o \in Owners : PlaceOf(o)' = PlaceOf(o) /\ RoomOf(o)' = RoomOf(o)
  <2>1. \A m \in Logs : /\ logs'[m].data.bytes = logs[m].data.bytes
                        /\ logs'[m].capacity = logs[m].capacity
    BY <1>3, <1>4
  <2> QED
    BY <1>1, <2>1 DEF Owners, PlaceOf, RoomOf, Step
<1>7. ObjectsApart'
  BY <1>1, <1>6 DEF ObjectsApart, AllApart, Live
<1>8. OuterOK'
  BY <1>1, <1>6 DEF OuterOK, Live
<1> QED
  BY <1>1, <1>5, <1>7, <1>8 DEF LInv, Phases, ReportOK

\* What was allocated before a report is saved by the state it starts with.
LEMMA StartReportLInv == LInv /\ OuterOK /\ StartReport => LInv' /\ OuterOK'
<1> SUFFICES ASSUME LInv, OuterOK, StartReport PROVE LInv' /\ OuterOK'
    OBVIOUS
<1>1. /\ LTypes /\ Phases /\ ObjectsApart /\ pc = "serve" /\ pc' = "report" /\ ArenaOK(arena)
      /\ step = StringInit /\ step' = StringInit /\ inner' = StateGet(arena)
      /\ parts' = 0
      /\ UNCHANGED <<arena, memory, logs, tables, outer>>
  BY DEF LInv, StartReport, LTypes, TypeOK, Phases
<1> DEFINE top == Len(arena.nodes)
<1>2. /\ top \in Nat \ {0} /\ arena.latest = top
      /\ \A n \in 1..top : arena.nodes[n].current \in Nat
  BY <1>1, NodesOf DEF ArenaOK
<1>3. inner' = <<top, arena.nodes[top].current>> /\ inner'[1] = top
      /\ inner'[2] = arena.nodes[top].current
  BY <1>1, <1>2 DEF StateGet
<1>4. inner' \in Places /\ Restorable(arena', inner')
  BY <1>1, <1>2, <1>3 DEF Places, Restorable
<1>5. /\ Owners' = Owners
      /\ \A o \in Owners : PlaceOf(o)' = PlaceOf(o) /\ RoomOf(o)' = RoomOf(o)
  BY <1>1 DEF Owners, PlaceOf, RoomOf
<1>6. ASSUME NEW o \in Owners, Live(o)
      PROVE  Saved(PlaceOf(o), RoomOf(o), inner')
  <2>1. Within(arena, PlaceOf(o), RoomOf(o))
    BY <1>1, <1>6 DEF ObjectsApart, AllApart
  <2>2. /\ PlaceOf(o)[1] \in 1..top
        /\ PlaceOf(o)[2] + RoomOf(o) <= arena.nodes[PlaceOf(o)[1]].current
    BY <2>1 DEF Within
  <2> QED
    BY <1>2, <1>3, <2>2 DEF Saved
<1>7. LTypes'
  <2>1. pc' \in {"setup", "serve", "report", "done"} /\ parts' \in 0..Len(StepParts)
    BY <1>1, LogAssumption, LenProperties
  <2>2. ArenaOK(arena)' /\ Len(arena'.nodes) >= Len(arena.nodes)
    BY <1>1, <1>2
  <2> QED
    BY <1>1, <2>1, <2>2, TypesKept
<1>8. ObjectsApart'
  BY <1>1, <1>5 DEF ObjectsApart, AllApart, Live
<1>9. ReportOK'
  <2>1. \A o \in Owners' \ {Step} : Live(o)' => Saved(PlaceOf(o)', RoomOf(o)', inner')
    BY <1>5, <1>6 DEF Live
  <2>2. step'.bytes = Null
    BY <1>1 DEF StringInit
  <2> QED
    BY <1>4, <2>1, <2>2 DEF ReportOK
<1>10. OuterOK'
  <2>1. /\ outer \in Places /\ Restorable(arena, outer)
        /\ \A o \in Owners : Live(o) => Since(PlaceOf(o), outer)
    BY <1>1 DEF OuterOK
  <2>2. Since(inner', outer)
    BY <1>2, <1>3, <2>1 DEF Restorable, Since, Places
  <2> QED
    BY <1>1, <1>5, <2>1, <2>2 DEF OuterOK, Live
<1> QED
  BY <1>1, <1>7, <1>8, <1>9, <1>10 DEF LInv, Phases

\* A report ends where it started, however far the arena got.
LEMMA ReportReturns ==
    ASSUME LInv, OuterOK, pc = "report", NEW a, ArenaOK(a), Len(a.nodes) >= Len(arena.nodes),
           AllApart(a, Owners \ {Step}), Restorable(a, inner), Restorable(a, outer),
           NEW mem, Return(a, mem, inner, "serve"),
           step' = StringInit, parts' = 0, UNCHANGED <<logs, tables, outer>>
    PROVE  LInv' /\ OuterOK'
<1> DEFINE O == Owners \ {Step}
<1>1. /\ LTypes /\ Phases /\ ArenaOK(arena) /\ inner \in Places
      /\ \A o \in O : Live(o) => Saved(PlaceOf(o), RoomOf(o), inner)
  BY DEF LInv, LTypes, ReportOK
<1>2. /\ pc' = "serve" /\ arena' = StateSet(a, inner) /\ ArenaOK(arena)'
      /\ Len(arena'.nodes) = Len(a.nodes)
  BY <1>1, Returned
<1>3. LTypes'
  <2>1. /\ StringInit \in Strings' /\ StringInit.bytes = Null /\ StringInit.length = 0
        /\ parts' \in 0..Len(StepParts)
    BY <1>2, NullTypes, LogAssumption, LenProperties
  <2>2. pc' \in {"setup", "serve", "report", "done"} /\ Len(arena'.nodes) >= Len(arena.nodes)
    BY <1>2
  <2>3. step' \in Strings' /\ (step'.bytes = Null => step'.length = 0)
    BY <2>1
  <2> QED
    BY <1>1, <1>2, <2>1, <2>2, <2>3, TypesKept
<1>4. ObjectsApart'
  <2>1. O \in SUBSET Owners /\ AllApart(a, O)
    OBVIOUS
  <2>2. AllApart(arena', O)
    BY <1>1, <1>2, <2>1, ReturnApart
  <2>3. PlaceOf(Step)' = Null
    BY DEF PlaceOf, Step, StringInit
  <2>4. Step \notin O /\ Owners' = O \cup {Step}
    BY DEF Owners
  <2>5. \A o \in O : PlaceOf(o)' = PlaceOf(o) /\ RoomOf(o)' = RoomOf(o)
    BY DEF Owners, PlaceOf, RoomOf, Step
  <2>6. \A o \in O : Live(o) =>
          Beside(arena', PlaceOf(o), RoomOf(o), PlaceOf(Step)', RoomOf(Step)')
    BY <2>2, <2>3 DEF AllApart, Beside
  <2> HIDE DEF O
  <2> QED
    BY <2>2, <2>3, <2>4, <2>5, <2>6, Rejoin
<1>5. OuterOK'
  <2>1. /\ outer \in Places /\ Since(inner, outer)
        /\ \A o \in Owners : Live(o) => Since(PlaceOf(o), outer)
    BY DEF OuterOK
  <2>2. Restorable(arena', outer)
    BY <1>1, <1>2, <2>1, EarlierRestorable
  <2>3. \A o \in Owners' : Live(o)' => o \in O
    BY DEF Owners, Live, PlaceOf, Step, StringInit
  <2>4. \A o \in O : PlaceOf(o)' = PlaceOf(o)
    BY DEF Owners, PlaceOf, Step
  <2> QED
    BY <1>2, <2>1, <2>2, <2>3, <2>4 DEF OuterOK, Live
<1> QED
  BY <1>2, <1>3, <1>4, <1>5 DEF LInv, Phases, ReportOK

LEMMA AssembleStepLInv == LInv /\ OuterOK /\ AssembleStep => LInv' /\ OuterOK'
<1> SUFFICES ASSUME LInv, OuterOK, AssembleStep PROVE LInv' /\ OuterOK'
    OBVIOUS
<1> DEFINE data == StepParts[parts + 1]
           app(granted) == StringAppend(step, arena, memory, data, granted)
           room == step.length + 1
           O == Owners \ {Step}
<1>1. PICK granted \in BOOLEAN :
        IF app(granted).result = "memory"
        THEN /\ Return(app(granted).arena, app(granted).memory, inner, "serve")
             /\ step' = StringInit /\ parts' = 0 /\ inner' = Null
        ELSE /\ arena' = app(granted).arena /\ memory' = app(granted).memory
             /\ step' = app(granted).string /\ parts' = parts + 1
             /\ pc' = IF app(granted).result = "ok" THEN "report" ELSE "aborted"
             /\ UNCHANGED inner
  BY Zenon DEF AssembleStep
<1>2. /\ LTypes /\ Phases /\ ObjectsApart /\ pc = "report" /\ ArenaOK(arena)
      /\ parts \in 0..Len(StepParts) /\ parts < Len(StepParts)
      /\ step \in TheStrings /\ (step.bytes = Null => step.length = 0)
      /\ inner \in Places /\ Restorable(arena, inner)
      /\ \A o \in O : Live(o) => Saved(PlaceOf(o), RoomOf(o), inner)
      /\ step.bytes # Null => Since(step.bytes, inner)
      /\ UNCHANGED <<logs, tables, outer>>
  BY StringTypes DEF LInv, AssembleStep, LTypes, TypeOK, ReportOK
<1>3. Len(data) \in 0..(SizeMax \div 2) /\ Len(data) \in Nat /\ parts + 1 \in 0..Len(StepParts)
  <2>1. parts + 1 \in 1..Len(StepParts)
    BY <1>2, LogAssumption, LenProperties
  <2>2. data \in Seq({"step"} \X Nat) /\ Len(data) <= SizeMax \div 2
    BY <2>1, LogAssumption
  <2>3. Len(data) \in Nat /\ SizeMax \div 2 \in Nat
    BY <2>2, ArenaAssumption, LenProperties
  <2> QED
    BY <2>1, <2>2, <2>3
<1>4. /\ Step \in Owners /\ PlaceOf(Step) = step.bytes /\ RoomOf(Step) = room
      /\ room \in Nat /\ step.bytes \in Places
      /\ step.bytes # Null => Within(arena, step.bytes, room)
      /\ \A o \in O : Live(o) => Beside(arena, PlaceOf(o), RoomOf(o), step.bytes, room)
      /\ AllApart(arena, O)
  <2>1. Step \in Owners /\ PlaceOf(Step) = step.bytes /\ RoomOf(Step) = room
    BY DEF Owners, PlaceOf, RoomOf, Step
  <2>2. room \in Nat /\ step.bytes \in Places
    BY <1>2 DEF TheStrings
  <2> HIDE DEF room
  <2>3. step.bytes # Null => Within(arena, step.bytes, room)
    BY <1>2, <2>1 DEF ObjectsApart, AllApart, Live
  <2>4. \A o \in O : Live(o) => Beside(arena, PlaceOf(o), RoomOf(o), step.bytes, room)
    BY <1>2, <2>1 DEF ObjectsApart, AllApart
  <2>5. AllApart(arena, O)
    BY <1>2 DEF ObjectsApart, AllApart
  <2> QED
    BY <2>1, <2>2, <2>3, <2>4, <2>5
<1> DEFINE out == app(granted)
<1>5. AppendOutcome(step, arena, room, out, Len(data))
  <2>1. out = StringAppend(step, arena, memory, data, granted)
    OBVIOUS
  <2>2. step.bytes # Null => Within(arena, step.bytes, room) /\ step.length + 1 <= room
    BY <1>2, <1>4
  <2> HIDE DEF out, data
  <2>3. /\ step \in TheStrings /\ ArenaOK(arena) /\ room \in Nat
        /\ step.bytes = Null => step.length = 0
        /\ Len(data) \in 0..(SizeMax \div 2)
    BY <1>2, <1>3, <1>4
  <2> QED
    BY <2>1, <2>2, <2>3, StringAppendOutcome
<1>6. O \in SUBSET Owners
  OBVIOUS
<1> HIDE DEF out, O, room
<1>7. CASE out.result = "ok" /\ Appended(step, arena, room, out, Len(data))
  <2> DEFINE at == out.string.bytes
             space == out.string.length + 1
  <2>1. /\ arena' = out.arena /\ step' = out.string /\ parts' = parts + 1 /\ pc' = "report"
        /\ UNCHANGED inner
    BY <1>1, <1>7, Zenon DEF out
  <2>2. /\ Moved(arena, step.bytes, room, arena', at, space) /\ at # Null
        /\ out.string \in TheStrings /\ at \in Places /\ space \in Nat
    BY <1>5, <1>7, <2>1 DEF Appended, AppendOutcome, TheStrings
  <2>3. /\ ArenaOK(arena)' /\ Len(arena'.nodes) >= Len(arena.nodes)
        /\ Within(arena', at, space)
    BY <2>2 DEF Moved
  <2>4. /\ AllApart(arena', O)
        /\ \A o \in O : Live(o) => Beside(arena', PlaceOf(o), RoomOf(o), at, space)
    <3> HIDE DEF at, space
    <3>1. /\ LTypes /\ AllApart(arena, O) /\ Moved(arena, step.bytes, room, arena', at, space)
          /\ \A o \in O : Live(o) => Beside(arena, PlaceOf(o), RoomOf(o), step.bytes, room)
      BY <1>2, <1>4, <2>2
    <3> QED
      BY <1>6, <3>1, OthersStay
  <2>5. \A o \in O : PlaceOf(o)' = PlaceOf(o) /\ RoomOf(o)' = RoomOf(o)
    BY <1>2 DEF O, Owners, PlaceOf, RoomOf, Step
  <2>6. PlaceOf(Step)' = at /\ RoomOf(Step)' = space
    BY <2>1 DEF PlaceOf, RoomOf, Step
  <2>7. ObjectsApart'
    <3>1. Step \notin O /\ Owners' = O \cup {Step}
      BY <1>2 DEF O, Owners
    <3> HIDE DEF at, space
    <3> QED
      BY <2>3, <2>4, <2>5, <2>6, <3>1, Rejoin
  <2>8. LTypes'
    <3>1. at \in Pointers' /\ space \in 0..MallocMax
      BY <2>2, <2>3, PlaceTypes DEF Pointers
    <3>2. out.string.length \in 0..MallocMax
      BY <2>2, <3>1, ArenaAssumption DEF TheStrings
    <3>3. step' \in Strings' /\ (step'.bytes = Null => step'.length = 0)
      BY <2>1, <2>2, <3>1, <3>2 DEF Strings, TheStrings
    <3>4. pc' \in {"setup", "serve", "report", "done"} /\ parts' \in 0..Len(StepParts)
      BY <1>3, <2>1
    <3> QED
      BY <1>2, <2>3, <3>3, <3>4, TypesKept
  <2>9. ReportOK'
    <3>1. Restorable(arena', inner) /\ Since(at, inner)
      BY <1>2, <2>2 DEF Moved
    <3>2. Owners' \ {Step} = O
      BY <1>2 DEF O, Owners
    <3>3. \A o \in O : Live(o)' => Saved(PlaceOf(o)', RoomOf(o)', inner')
      BY <1>2, <2>1, <2>5 DEF Live
    <3> QED
      BY <1>2, <2>1, <3>1, <3>2, <3>3 DEF ReportOK
  <2>10. OuterOK'
    <3>1. /\ outer \in Places /\ Restorable(arena, outer) /\ Since(inner, outer)
          /\ \A o \in Owners : Live(o) => Since(PlaceOf(o), outer)
      BY <1>2 DEF OuterOK
    <3>2. Restorable(arena', outer) /\ Since(at, outer)
      BY <1>4, <2>2, <3>1 DEF Moved, Live
    <3>3. Owners' = O \cup {Step}
      BY <1>2 DEF O, Owners
    <3> HIDE DEF at
    <3>4. \A o \in Owners' : Live(o)' => Since(PlaceOf(o)', outer)
      BY <2>5, <2>6, <3>1, <3>2, <3>3 DEF O, Live
    <3> QED
      BY <1>2, <2>1, <3>1, <3>2, <3>4 DEF OuterOK
  <2> QED
    BY <2>1, <2>7, <2>8, <2>9, <2>10 DEF LInv, Phases
<1>8. CASE out.result = "memory" /\ AppendFailed(step, arena, room, out)
  <2>1. /\ Return(out.arena, out.memory, inner, "serve")
        /\ step' = StringInit /\ parts' = 0
    BY <1>1, <1>8, Zenon DEF out
  <2>2. PICK at, space : Moved(arena, step.bytes, room, out.arena, at, space)
    BY <1>8 DEF AppendFailed
  <2>3. ArenaOK(out.arena) /\ Len(out.arena.nodes) >= Len(arena.nodes)
    BY <2>2 DEF Moved
  <2>4. AllApart(out.arena, O)
    BY <1>2, <1>4, <1>6, <2>2, OthersStay
  <2>5. Restorable(out.arena, inner)
    BY <1>2, <2>2 DEF Moved
  <2>6. Restorable(out.arena, outer)
    <3>1. /\ outer \in Places /\ Restorable(arena, outer)
          /\ step.bytes # Null => Since(step.bytes, outer)
      BY <1>2, <1>4 DEF OuterOK, Live
    <3> QED
      BY <2>2, <3>1 DEF Moved
  <2> QED
    BY <1>2, <2>1, <2>3, <2>4, <2>5, <2>6, ReportReturns DEF O
<1> QED
  BY <1>5, <1>7, <1>8 DEF AppendOutcome

LEMMA EndReportLInv == LInv /\ OuterOK /\ EndReport => LInv' /\ OuterOK'
<1> SUFFICES ASSUME LInv, OuterOK, EndReport PROVE LInv' /\ OuterOK'
    OBVIOUS
<1>1. /\ pc = "report" /\ Return(arena, memory, inner, "serve")
      /\ step' = StringInit /\ parts' = 0 /\ UNCHANGED <<logs, tables, outer>>
  BY DEF EndReport
<1>2. ArenaOK(arena) /\ ObjectsApart /\ Restorable(arena, inner) /\ Restorable(arena, outer)
  BY <1>1 DEF LInv, OuterOK, LTypes, ReportOK
<1>3. AllApart(arena, Owners \ {Step})
  BY <1>2 DEF ObjectsApart, AllApart
<1>4. Len(arena.nodes) >= Len(arena.nodes)
  BY <1>2, NodesOf
<1> QED
  BY <1>1, <1>2, <1>3, <1>4, ReportReturns

LEMMA FinishLInv == LInv /\ OuterOK /\ Finish => LInv' /\ OuterOK'
<1> SUFFICES ASSUME LInv, OuterOK, Finish PROVE LInv' /\ OuterOK'
    OBVIOUS
<1>1. /\ LTypes /\ Phases /\ ArenaOK(arena) /\ pc = "serve"
      /\ outer \in Places /\ Restorable(arena, outer)
      /\ parts \in 0..Len(StepParts)
      /\ Return(arena, memory, outer, "done")
      /\ UNCHANGED <<logs, tables, outer, inner, step, parts>>
  BY DEF LInv, OuterOK, LTypes, TypeOK, Finish
<1>2. /\ pc' = "done" /\ ArenaOK(arena)' /\ Len(arena'.nodes) = Len(arena.nodes)
  BY <1>1, Returned
<1>3. LTypes'
  <2>1. Len(arena'.nodes) >= Len(arena.nodes)
    BY <1>1, <1>2, NodesOf
  <2> QED
    BY <1>1, <1>2, <2>1, TypesKept
<1> QED
  BY <1>1, <1>2, <1>3 DEF LInv, OuterOK, Phases, ReportOK

LEMMA NextLInv == LInv /\ OuterOK /\ [Next]_vars => LInv' /\ OuterOK'
<1> SUFFICES ASSUME LInv, OuterOK, [Next]_vars PROVE LInv' /\ OuterOK'
    OBVIOUS
<1>1. CASE SetupTable
  BY <1>1, SetupTableLInv
<1>2. CASE \E l \in Logs : AppendLog(l) \/ ResetLog(l)
  BY <1>2, AppendLogLInv, ResetLogLInv
<1>3. CASE StartReport
  BY <1>3, StartReportLInv
<1>4. CASE AssembleStep
  BY <1>4, AssembleStepLInv
<1>5. CASE EndReport
  BY <1>5, EndReportLInv
<1>6. CASE Finish
  BY <1>6, FinishLInv
<1>7. CASE UNCHANGED vars
  <2>1. Owners' = Owners /\ \A o : PlaceOf(o)' = PlaceOf(o) /\ RoomOf(o)' = RoomOf(o)
    BY <1>7 DEF vars, Owners, PlaceOf, RoomOf
  <2>2. (pc # "done" => ObjectsApart)' /\ ReportOK'
    BY <1>7, <2>1 DEF vars, LInv, ObjectsApart, AllApart, ReportOK, Live
  <2>3. LTypes'
    BY <1>7 DEF vars, LInv, LTypes, TypeOK, Strings, Pointers
  <2>4. OuterOK'
    BY <1>7, <2>1 DEF vars, OuterOK, Live
  <2> QED
    BY <1>7, <2>2, <2>3, <2>4 DEF vars, LInv, Phases
<1> QED
  BY <1>1, <1>2, <1>3, <1>4, <1>5, <1>6, <1>7 DEF Next

LEMMA LInvAlways == Spec => [](LInv /\ OuterOK)
BY InitLInv, NextLInv, PTL DEF Spec
-----------------------------------------------------------------------------
(* The theorems. *)

\* Everything stays of its type, and pointers point into nodes there are, however
\* the arena grows and is wound back (arena.c 48-175, str.c 18-79).
THEOREM TypeCorrect == Spec => []TypeOK
<1>1. LInv => TypeOK
  BY DEF LInv, LTypes
<1> QED
  BY <1>1, LInvAlways, PTL

\* No check of arena.c or str.c that ends the program ever fails (arena.c 59,
\* 109, 138, 158, str.c 26, 33).
THEOREM ChecksNeverFail == Spec => []NeverAborts
<1>1. LInv => NeverAborts
  BY DEF LInv, Phases, NeverAborts
<1> QED
  BY <1>1, LInvAlways, PTL

\* The cells of two objects that are apart; those of an object inside its node.
LEMMA CellsApart ==
    ASSUME NEW at \in Places, NEW size \in Nat, NEW other \in Places, NEW room \in Nat,
           Apart(at, size, other, room)
    PROVE  Cells(at, size) \cap Cells(other, room) = {}
<1>1. at[2] \in Nat /\ other[2] \in Nat
  BY DEF Places
<1>2. ASSUME NEW cell, cell \in Cells(at, size), cell \in Cells(other, room)
      PROVE  FALSE
  <2>1. PICK i \in 0..(size - 1) : cell = <<at[1], at[2] + i>>
    BY <1>2 DEF Cells
  <2>2. PICK j \in 0..(room - 1) : cell = <<other[1], other[2] + j>>
    BY <1>2 DEF Cells
  <2>3. at[1] = other[1] /\ at[2] + i = other[2] + j
    BY <2>1, <2>2
  <2> QED
    BY <1>1, <2>3 DEF Apart
<1> QED
  BY <1>2

LEMMA CellsWithin ==
    ASSUME NEW a, ArenaOK(a), NEW at \in Places, NEW size \in Nat, Within(a, at, size)
    PROVE  \A cell \in Cells(at, size) : cell[2] < a.nodes[cell[1]].current
<1>1. /\ at[2] \in Nat /\ at[1] \in 1..Len(a.nodes) /\ a.nodes[at[1]].current \in Nat
      /\ at[2] + size <= a.nodes[at[1]].current
  BY NodesOf DEF Places, Within
<1> SUFFICES ASSUME NEW i \in 0..(size - 1)
             PROVE  <<at[1], at[2] + i>>[2] < a.nodes[<<at[1], at[2] + i>>[1]].current
    BY DEF Cells
<1>2. at[2] + i < a.nodes[at[1]].current
  BY <1>1
<1> QED
  BY <1>2

\* What an object may write.
CellsOf(o) == IF Live(o) THEN Cells(PlaceOf(o), RoomOf(o)) ELSE {}

LEMMA OwnersCells ==
    ASSUME LInv, OuterOK, pc # "done"
    PROVE  /\ \A o, p \in Owners : o # p => CellsOf(o) \cap CellsOf(p) = {}
           /\ \A o \in Owners : \A cell \in CellsOf(o) :
                 cell[2] < arena.nodes[cell[1]].current /\ BehindParsed(cell)
<1>1. /\ AllApart(arena, Owners) /\ ArenaOK(arena)
      /\ \A o \in Owners : PlaceOf(o) \in Places /\ RoomOf(o) \in Nat
  BY OwnerTypes DEF LInv, LTypes, ObjectsApart, Sizes
<1>2. ASSUME NEW o \in Owners, NEW p \in Owners, o # p
      PROVE  CellsOf(o) \cap CellsOf(p) = {}
  <2>1. CASE Live(o) /\ Live(p)
    <3>1. Apart(PlaceOf(o), RoomOf(o), PlaceOf(p), RoomOf(p))
      BY <1>1, <1>2, <2>1 DEF AllApart, Beside, Live
    <3> QED
      BY <1>1, <2>1, <3>1, CellsApart DEF CellsOf
  <2> QED
    BY <2>1 DEF CellsOf
<1>3. ASSUME NEW o \in Owners, NEW cell \in CellsOf(o)
      PROVE  cell[2] < arena.nodes[cell[1]].current /\ BehindParsed(cell)
  <2>1. Live(o) /\ cell \in Cells(PlaceOf(o), RoomOf(o))
    BY <1>3 DEF CellsOf
  <2>2. Within(arena, PlaceOf(o), RoomOf(o))
    BY <1>1, <2>1 DEF AllApart
  <2>3. BehindParsed(cell)
    <3>1. PICK i \in 0..(RoomOf(o) - 1) : cell = <<PlaceOf(o)[1], PlaceOf(o)[2] + i>>
      BY <2>1 DEF Cells
    <3>2. Since(PlaceOf(o), outer) /\ outer \in Places
      BY <2>1 DEF OuterOK
    <3>3. PlaceOf(o)[2] \in Nat /\ outer[2] \in Nat /\ i \in Nat
      BY <1>1, <3>2 DEF Places
    <3> QED
      BY <3>1, <3>2, <3>3 DEF Since, BehindParsed
  <2> QED
    BY <1>1, <2>1, <2>2, <2>3, CellsWithin
<1> QED
  BY <1>2, <1>3

LEMMA CellsOfObjects ==
    ASSUME LInv
    PROVE  /\ \A l \in Logs : LogCells(l) = CellsOf(<<"log", l>>) /\ <<"log", l>> \in Owners
           /\ \A k \in DOMAIN tables : /\ TableCells(k) = CellsOf(<<"table", k>>)
                                       /\ <<"table", k>> \in Owners
           /\ StepCells = CellsOf(Step) /\ Step \in Owners
<1>1. LTypes
  BY DEF LInv
<1>2. ASSUME NEW l \in Logs
      PROVE  LogCells(l) = CellsOf(<<"log", l>>) /\ <<"log", l>> \in Owners
  <2>1. /\ logs[l].capacity \in Nat /\ logs[l].data.length \in Nat
        /\ logs[l].data.length <= logs[l].capacity
    BY <1>1, StringTypes DEF LTypes, LogOK, TheLogs, TheStrings
  <2>2. Max({logs[l].capacity, logs[l].data.length}) = logs[l].capacity
    BY <2>1, MaxOfTwo
  <2> QED
    BY <2>2 DEF LogCells, CellsOf, Live, PlaceOf, RoomOf, Owners
<1>3. ASSUME NEW k \in DOMAIN tables
      PROVE  TableCells(k) = CellsOf(<<"table", k>>) /\ <<"table", k>> \in Owners
  <2>1. k \in 1..Len(tables) /\ tables[k] # Null
    BY <1>1, StringTypes, LenProperties DEF LTypes
  <2> QED
    BY <2>1 DEF TableCells, CellsOf, Live, PlaceOf, RoomOf, Owners
<1>4. StepCells = CellsOf(Step) /\ Step \in Owners
  BY DEF StepCells, CellsOf, Live, PlaceOf, RoomOf, Owners, Step
<1> QED
  BY <1>2, <1>3, <1>4

\* Logs, tables and the step never share memory, and none reaches into what the
\* parser holds or past what its node has given out: for every order of appends, reports and resets, and for
\* every call of malloc that fails (arena.c 48-175, str.c 18-79).
THEOREM ObjectsShareNothing == Spec => []BlocksApart
<1>1. ASSUME LInv, OuterOK, InUse
      PROVE  /\ \A l, m \in Logs : l # m => LogCells(l) \cap LogCells(m) = {}
             /\ \A j, k \in DOMAIN tables : j # k => TableCells(j) \cap TableCells(k) = {}
             /\ LogSpace \cap TableSpace = {}
             /\ StepCells \cap (LogSpace \cup TableSpace) = {}
             /\ \A cell \in LogSpace \cup TableSpace \cup StepCells :
                   cell[2] < arena.nodes[cell[1]].current /\ BehindParsed(cell)
  <2>1. /\ \A o, p \in Owners : o # p => CellsOf(o) \cap CellsOf(p) = {}
        /\ \A o \in Owners : \A cell \in CellsOf(o) :
              cell[2] < arena.nodes[cell[1]].current /\ BehindParsed(cell)
    BY <1>1, OwnersCells DEF InUse
  <2>2. /\ \A l \in Logs : LogCells(l) = CellsOf(<<"log", l>>) /\ <<"log", l>> \in Owners
        /\ \A k \in DOMAIN tables : /\ TableCells(k) = CellsOf(<<"table", k>>)
                                    /\ <<"table", k>> \in Owners
        /\ StepCells = CellsOf(Step) /\ Step \in Owners
    BY <1>1, CellsOfObjects
  <2>3. \A l, m \in Logs : l # m => LogCells(l) \cap LogCells(m) = {}
    BY <2>1, <2>2
  <2>4. \A j, k \in DOMAIN tables : j # k => TableCells(j) \cap TableCells(k) = {}
    BY <2>1, <2>2
  <2>5. \A l \in Logs, k \in DOMAIN tables : LogCells(l) \cap TableCells(k) = {}
    BY <2>1, <2>2
  <2>6. /\ \A l \in Logs : StepCells \cap LogCells(l) = {}
        /\ \A k \in DOMAIN tables : StepCells \cap TableCells(k) = {}
    BY <2>1, <2>2 DEF Step
  <2>7. LogSpace \cap TableSpace = {}
    BY <2>5 DEF LogSpace, TableSpace
  <2>8. StepCells \cap (LogSpace \cup TableSpace) = {}
    BY <2>6 DEF LogSpace, TableSpace
  <2>9. \A cell \in LogSpace \cup TableSpace \cup StepCells :
          cell[2] < arena.nodes[cell[1]].current /\ BehindParsed(cell)
    <3> TAKE cell \in LogSpace \cup TableSpace \cup StepCells
    <3>1. PICK o \in Owners : cell \in CellsOf(o)
      <4>1. CASE cell \in LogSpace
        BY <2>2, <4>1, Zenon DEF LogSpace
      <4>2. CASE cell \in TableSpace
        BY <2>2, <4>2, Zenon DEF TableSpace
      <4>3. CASE cell \in StepCells
        BY <2>2, <4>3, Zenon
      <4> QED
        BY <4>1, <4>2, <4>3
    <3> QED
      BY <2>1, <3>1
  <2> QED
    BY <2>3, <2>4, <2>7, <2>8, <2>9
<1>2. LInv /\ OuterOK => BlocksApart
  BY <1>1 DEF BlocksApart
<1> QED
  BY <1>2, LInvAlways, PTL
-----------------------------------------------------------------------------
(* The bytes in memory. *)

ByteOf(mem, at, i) ==
    IF <<at[1], at[2] + i>> \in DOMAIN mem THEN mem[<<at[1], at[2] + i>>] ELSE Junk

LEMMA LoadBytes ==
    ASSUME NEW mem, NEW at \in Places, NEW n \in Nat
    PROVE  /\ Load(mem, at, n) = [i \in 1..n |-> ByteOf(mem, at, i - 1)]
           /\ Len(Load(mem, at, n)) = n
<1>1. \A i \in 1..n : at[2] + i - 1 = at[2] + (i - 1)
  BY DEF Places
<1>2. Load(mem, at, n) = [i \in 1..n |-> ByteOf(mem, at, i - 1)]
  BY <1>1, Zenon DEF Load, ByteOf
<1> DEFINE text == [i \in 1..n |-> ByteOf(mem, at, i - 1)]
           S == {ByteOf(mem, at, i - 1) : i \in 1..n}
<1>3. text \in [1..n -> S]
  OBVIOUS
<1> QED
  BY <1>2, <1>3, FunctionIsSeq

\* Bytes are stored where they are meant to go, j behind at, and nowhere else.
Stored(mem, at, j, data, new) ==
    /\ \A i \in 0..(Len(data) - 1) : ByteOf(new, at, j + i) = data[i + 1]
    /\ \A i \in 0..(j - 1) : ByteOf(new, at, i) = ByteOf(mem, at, i)
    /\ \A other \in Places, size \in Nat :
          Apart(other, size, at, j + Len(data)) =>
              \A i \in 0..(size - 1) : ByteOf(new, other, i) = ByteOf(mem, other, i)

LEMMA StoredBytes ==
    ASSUME NEW mem, NEW at \in Places, NEW j \in Nat, NEW data, Len(data) \in Nat,
           NEW new, new = Store(mem, <<at[1], at[2] + j>>, data)
    PROVE  Stored(mem, at, j, data, new)
<1> DEFINE place == <<at[1], at[2] + j>>
           cells == Cells(place, Len(data))
<1>1. at[1] \in Nat /\ at[2] \in Nat /\ place[1] = at[1] /\ place[2] = at[2] + j
  BY DEF Places
<1>2. /\ DOMAIN new = DOMAIN mem \cup cells
      /\ \A cell \in DOMAIN mem \cup cells :
            new[cell] = IF cell \in cells THEN data[cell[2] - place[2] + 1] ELSE mem[cell]
  BY Zenon DEF Store
<1>3. cells = {<<at[1], at[2] + j + i>> : i \in 0..(Len(data) - 1)}
  BY <1>1 DEF Cells
<1> HIDE DEF cells, place
<1>4. ASSUME NEW i \in 0..(Len(data) - 1)
      PROVE  ByteOf(new, at, j + i) = data[i + 1]
  <2> DEFINE cell == <<at[1], at[2] + (j + i)>>
  <2>1. cell \in cells /\ cell[2] - place[2] + 1 = i + 1
    BY <1>1, <1>3
  <2>2. new[cell] = data[i + 1] /\ cell \in DOMAIN new
    BY <1>2, <2>1
  <2> QED
    BY <2>2 DEF ByteOf
<1>5. ASSUME NEW other \in Places, NEW i \in Nat, <<other[1], other[2] + i>> \notin cells
      PROVE  ByteOf(new, other, i) = ByteOf(mem, other, i)
  BY <1>2, <1>5, Zenon DEF ByteOf
<1>6. ASSUME NEW i \in 0..(j - 1)
      PROVE  ByteOf(new, at, i) = ByteOf(mem, at, i)
  <2>1. <<at[1], at[2] + i>> \notin cells
    BY <1>1, <1>3
  <2> QED
    BY <1>5, <2>1
<1>7. ASSUME NEW other \in Places, NEW size \in Nat, Apart(other, size, at, j + Len(data)),
             NEW i \in 0..(size - 1)
      PROVE  ByteOf(new, other, i) = ByteOf(mem, other, i)
  <2>1. other[2] \in Nat
    BY DEF Places
  <2>2. <<other[1], other[2] + i>> \notin cells
    <3>1. ASSUME NEW k \in 0..(Len(data) - 1),
                 <<other[1], other[2] + i>> = <<at[1], at[2] + j + k>>
          PROVE  FALSE
      <4> DEFINE d == Len(data)
      <4>1. other[1] = at[1] /\ other[2] + i = at[2] + j + k
        BY <3>1
      <4>2. other[2] + size <= at[2] \/ at[2] + (j + d) <= other[2]
        BY <1>7, <4>1 DEF Apart
      <4>3. /\ d \in Nat /\ i \in Nat /\ i < size /\ k \in Nat /\ k < d
            /\ other[2] \in Nat /\ at[2] \in Nat
        BY <1>1, <1>7, <2>1, <3>1
      <4> HIDE DEF d
      <4>4. CASE other[2] + size <= at[2]
        <5>1. other[2] + i < at[2]
          BY <4>3, <4>4
        <5> QED
          BY <4>1, <4>3, <5>1
      <4>5. CASE at[2] + (j + d) <= other[2]
        <5>1. at[2] + j + k < other[2]
          BY <4>3, <4>5
        <5> QED
          BY <4>1, <4>3, <5>1
      <4> QED
        BY <4>2, <4>4, <4>5
    <3> QED
      BY <1>3, <3>1
  <2> QED
    BY <1>5, <2>2
<1> QED
  BY <1>4, <1>6, <1>7 DEF Stored

\* The other objects keep their bytes.
Kept(a, p, z, mem, new) ==
    \A at \in Places, size \in Sizes :
        Beside(a, at, size, p, z) =>
            \A i \in 0..(size - 1) : ByteOf(new, at, i) = ByteOf(mem, at, i)

\* The string s became t: its bytes were kept, and the data added if there was
\* memory for it.
Grew(s, a, room, mem, data, t, new, result) ==
    /\ Kept(a, s.bytes, room, mem, new)
    /\ \A i \in 0..(s.length - 1) : ByteOf(new, t.bytes, i) = ByteOf(mem, s.bytes, i)
    /\ result # "ok" => t.length = s.length
    /\ result = "ok" =>
          /\ t.length = s.length + Len(data)
          /\ \A i \in 0..(Len(data) - 1) : ByteOf(new, t.bytes, s.length + i) = data[i + 1]

\* What tdo_string_append leaves ends in a NUL.
GrewAndClosed(s, a, room, mem, data, out) ==
    /\ Grew(s, a, room, mem, data, out.string, out.memory, out.result)
    /\ out.result = "ok" => ByteOf(out.memory, out.string.bytes, out.string.length) = Nul

LEMMA ExtendedBytes ==
    ASSUME NEW s \in TheStrings, NEW at \in Places, NEW a, NEW b, NEW room, NEW mem,
           NEW S, NEW data \in Seq(S),
           Moved(a, s.bytes, room, b, at, s.length + Len(data) + 1), at # Null,
           NEW out, out = Extended(s, at, b, mem, data)
    PROVE  GrewAndClosed(s, a, room, mem, data, out)
<1> DEFINE copied == Store(mem, at, Load(mem, s.bytes, s.length))
           kept == IF at = s.bytes THEN mem ELSE copied
           added == Append(data, Nul)
           size == s.length + Len(data) + 1
<1>1. /\ s.bytes \in Places /\ s.length \in Nat /\ Len(data) \in Nat
      /\ at = <<at[1], at[2] + 0>> /\ size \in Nat
  BY LenProperties DEF TheStrings, Places
<1>2. /\ Len(added) = Len(data) + 1
      /\ \A i \in 0..(Len(data) - 1) : added[i + 1] = data[i + 1]
      /\ added[Len(data) + 1] = Nul
  BY <1>1
<1>3. /\ out.memory = Store(kept, <<at[1], at[2] + s.length>>, added)
      /\ out.string.bytes = at /\ out.result = "ok"
      /\ out.string.length = s.length + Len(data)
  BY Zenon DEF Extended, Outcome
<1> HIDE DEF added
<1>4. /\ \A i \in 0..(s.length - 1) : ByteOf(kept, at, i) = ByteOf(mem, s.bytes, i)
      /\ \A other \in Places, n \in Nat :
            Apart(other, n, at, s.length) =>
                \A i \in 0..(n - 1) : ByteOf(kept, other, i) = ByteOf(mem, other, i)
  <2>1. CASE at = s.bytes
    BY <2>1
  <2>2. CASE at # s.bytes
    <3> DEFINE text == Load(mem, s.bytes, s.length)
    <3>1. /\ Len(text) = s.length
          /\ \A i \in 0..(s.length - 1) : text[i + 1] = ByteOf(mem, s.bytes, i)
      <4>1. text = [i \in 1..s.length |-> ByteOf(mem, s.bytes, i - 1)] /\ Len(text) = s.length
        BY <1>1, LoadBytes
      <4>2. \A i \in 0..(s.length - 1) : i + 1 \in 1..s.length /\ (i + 1) - 1 = i
        BY <1>1
      <4> HIDE DEF text
      <4> QED
        BY <4>1, <4>2
    <3> HIDE DEF text
    <3>2. copied = Store(mem, <<at[1], at[2] + 0>>, text)
      BY <1>1 DEF text
    <3>3. Stored(mem, at, 0, text, copied)
      <4> HIDE DEF copied
      <4>1. at \in Places /\ 0 \in Nat /\ Len(text) \in Nat
        BY <1>1, <3>1
      <4> QED
        BY <3>2, <4>1, StoredBytes, Zenon
    <3>4. \A i \in 0..(s.length - 1) : 0 + i = i
      BY <1>1
    <3>5. 0 + Len(text) = s.length /\ Len(text) = s.length /\ kept = copied
      BY <1>1, <2>2, <3>1
    <3> HIDE DEF copied, kept
    <3> QED
      BY <3>1, <3>3, <3>4, <3>5 DEF Stored
  <2> QED
    BY <2>1, <2>2
<1> HIDE DEF kept
<1>5. Stored(kept, at, s.length, added, out.memory)
  <2>1. Len(added) \in Nat /\ at \in Places /\ s.length \in Nat
    BY <1>1, <1>2
  <2> QED
    BY <1>3, <2>1, StoredBytes, Zenon
<1>6. Kept(a, s.bytes, room, mem, out.memory)
  <2> SUFFICES ASSUME NEW other \in Places, NEW n \in Sizes,
                      Beside(a, other, n, s.bytes, room), NEW i \in 0..(n - 1)
               PROVE  ByteOf(out.memory, other, i) = ByteOf(mem, other, i)
    BY DEF Kept
  <2>1. n \in Nat
    BY DEF Sizes
  <2>2. Apart(other, n, at, size)
    BY DEF Moved, Beside
  <2>3. Apart(other, n, at, s.length + Len(added))
    <3>1. s.length + Len(added) = size
      <4>1. s.length \in Nat /\ Len(data) \in Nat /\ Len(added) = Len(data) + 1
        BY <1>1, <1>2
      <4> QED
        BY <4>1
    <3> QED
      BY <2>2, <3>1
  <2>4. Apart(other, n, at, s.length)
    BY <1>1, <2>1, <2>2 DEF Apart, Places
  <2> QED
    BY <1>4, <1>5, <2>1, <2>3, <2>4 DEF Stored
<1>7. \A i \in 0..(Len(data) - 1) : ByteOf(out.memory, at, s.length + i) = data[i + 1]
  <2>1. \A i \in 0..(Len(data) - 1) : i \in 0..(Len(added) - 1)
    BY <1>1, <1>2
  <2> QED
    BY <1>2, <1>5, <2>1 DEF Stored
<1>8. ByteOf(out.memory, at, s.length + Len(data)) = Nul
  <2>1. Len(data) \in 0..(Len(added) - 1)
    BY <1>1, <1>2
  <2> QED
    BY <1>2, <1>5, <2>1 DEF Stored
<1>9. \A i \in 0..(s.length - 1) : ByteOf(out.memory, at, i) = ByteOf(mem, s.bytes, i)
  BY <1>4, <1>5 DEF Stored
<1> QED
  BY <1>3, <1>6, <1>7, <1>8, <1>9 DEF Grew, GrewAndClosed

LEMMA AppendToBytes ==
    ASSUME NEW s \in TheStrings, NEW a, ArenaOK(a), NEW room \in Nat, s.bytes # Null,
           Within(a, s.bytes, room), s.length + 1 <= room,
           NEW mem, NEW S, NEW data \in Seq(S), Len(data) \in 0..(SizeMax \div 2),
           NEW granted, NEW out, out = AppendTo(s, a, mem, data, granted)
    PROVE  GrewAndClosed(s, a, room, mem, data, out)
<1>1. CASE \E at \in Places \ {Null} : \E b :
             /\ out = Extended(s, at, b, mem, data)
             /\ Moved(a, s.bytes, room, b, at, s.length + Len(data) + 1)
  <2>1. PICK at, b :
          /\ at \in Places \ {Null}
          /\ out = Extended(s, at, b, mem, data)
          /\ Moved(a, s.bytes, room, b, at, s.length + Len(data) + 1)
    BY <1>1
  <2>2. at \in Places /\ at # Null
    BY <2>1
  <2> QED
    BY <2>1, <2>2, ExtendedBytes
<1>2. CASE \E b : /\ out = Outcome(s, b, mem, "memory")
                  /\ Moved(a, s.bytes, room, b, s.bytes, room)
  <2>1. out.memory = mem /\ out.string = s /\ out.result = "memory"
    BY <1>2 DEF Outcome
  <2> QED
    BY <2>1 DEF GrewAndClosed, Grew, Kept
<1> QED
  BY <1>1, <1>2, AppendToWays

LEMMA StringAppendBytes ==
    ASSUME NEW s \in TheStrings, NEW a, ArenaOK(a), NEW room \in Nat,
           s.bytes = Null => s.length = 0,
           s.bytes # Null => Within(a, s.bytes, room) /\ s.length + 1 <= room,
           NEW mem, NEW S, NEW data \in Seq(S), Len(data) \in 0..(SizeMax \div 2),
           NEW granted, NEW out, out = StringAppend(s, a, mem, data, granted)
    PROVE  GrewAndClosed(s, a, room, mem, data, out)
<1> DEFINE first == Alloc(a, 1, 1, granted)
           t == [s EXCEPT !.bytes = first.at]
           mem2 == Store(mem, first.at, <<Nul>>)
<1>1. CASE s.bytes # Null
  <2>1. out = AppendTo(s, a, mem, data, granted)
    BY <1>1 DEF StringAppend
  <2> QED
    BY <1>1, <2>1, AppendToBytes
<1>2. ~AllocAborts(a, 1, 1, granted)
  BY AllocNeverAborts
<1>3. Allocated(a, first, 1) \/ NotAllocated(a, first)
  BY AllocOutcome
<1>4. CASE s.bytes = Null /\ first.at = Null
  <2>1. out = Outcome(s, first.arena, mem, "memory")
    BY <1>2, <1>4 DEF StringAppend
  <2>2. out.memory = mem /\ out.string = s /\ out.result = "memory"
    BY <2>1 DEF Outcome
  <2> QED
    BY <2>2 DEF GrewAndClosed, Grew, Kept
<1>5. CASE s.bytes = Null /\ first.at # Null
  <2>1. out = AppendTo(t, first.arena, mem2, data, granted)
    BY <1>2, <1>5 DEF StringAppend
  <2>2. Allocated(a, first, 1)
    BY <1>3, <1>5 DEF NotAllocated
  <2>3. Moved(a, s.bytes, room, first.arena, first.at, 1)
    <3>1. 1 \in Sizes
      BY DEF Sizes
    <3> QED
      BY <2>2, <3>1, AllocatedMoves
  <2>4. /\ t \in TheStrings /\ t.bytes = first.at /\ t.length = 0 /\ s.length = 0
        /\ ArenaOK(first.arena) /\ Within(first.arena, first.at, 1)
        /\ first.at \in Places /\ first.at = <<first.at[1], first.at[2] + 0>>
    BY <1>5, <2>2 DEF TheStrings, Allocated, Places
  <2> HIDE DEF t, first
  <2>5. Kept(a, s.bytes, room, mem, mem2)
    <3> DEFINE nul == <<Nul>>
    <3>1. Len(nul) = 1 /\ Len(nul) \in Nat /\ 0 + Len(nul) = 1
      OBVIOUS
    <3>2. mem2 = Store(mem, <<first.at[1], first.at[2] + 0>>, nul) /\ 0 \in Nat
      BY <2>4
    <3> HIDE DEF mem2, nul
    <3>3. Stored(mem, first.at, 0, nul, mem2)
      BY <2>4, <3>1, <3>2, StoredBytes, Zenon
    <3>4. \A at \in Places, size \in Sizes :
            Beside(a, at, size, s.bytes, room) => Apart(at, size, first.at, 1) /\ size \in Nat
      BY <1>5, <2>3 DEF Moved, Beside, Sizes
    <3> QED
      BY <3>1, <3>3, <3>4 DEF Stored, Kept
  <2> HIDE DEF mem2
  <2>6. GrewAndClosed(t, first.arena, 1, mem2, data, out)
    <3>1. t.length + 1 <= 1 /\ 1 \in Nat /\ t.bytes # Null
      BY <1>5, <2>4
    <3> QED
      BY <2>1, <2>4, <3>1, AppendToBytes
  <2>7. Kept(a, s.bytes, room, mem, out.memory)
    <3>1. Kept(first.arena, first.at, 1, mem2, out.memory)
      BY <2>4, <2>6 DEF GrewAndClosed, Grew
    <3>2. \A at \in Places, size \in Sizes :
            Beside(a, at, size, s.bytes, room) => Beside(first.arena, at, size, first.at, 1)
      BY <2>3 DEF Moved
    <3> QED
      BY <2>5, <3>1, <3>2 DEF Kept
  <2> QED
    BY <2>4, <2>6, <2>7 DEF GrewAndClosed, Grew
<1> QED
  BY <1>1, <1>4, <1>5

\* tdo_log_append.
LEMMA LogAppendBytes ==
    ASSUME NEW log \in TheLogs, LogOK(log), NEW a, ArenaOK(a),
           log.data.bytes # Null => Within(a, log.data.bytes, log.capacity + 1),
           NEW mem, NEW S, NEW data \in Seq(S), Len(data) \in 1..(SizeMax \div 2),
           NEW granted, NEW out, out = LogAppend(log, a, mem, data, granted)
    PROVE  Grew(log.data, a, log.capacity + 1, mem, data,
                out.string.data, out.memory, out.result)
<1>1. /\ log.data \in TheStrings /\ log.data.bytes \in Places
      /\ log.data.length \in Nat /\ log.capacity \in Nat /\ log.capacity + 1 \in Nat
      /\ Len(data) \in Nat /\ Len(data) > 0 /\ Len(data) \in 0..(SizeMax \div 2)
  <2>1. SizeMax \div 2 \in Nat
    BY ArenaAssumption
  <2> QED
    BY <2>1 DEF TheLogs, TheStrings
<1>2. CASE HasRoom(log, data)
  <2> DEFINE at == log.data.bytes
             length == log.data.length
  <2>1. /\ out.result = "ok"
        /\ out.memory = Store(mem, <<at[1], at[2] + length>>, data)
        /\ out.string = [log EXCEPT !.data.length = length + Len(data)]
    BY <1>2 DEF LogAppend, Outcome
  <2>2. out.string.data.bytes = at /\ out.string.data.length = length + Len(data)
    BY <1>1, <2>1 DEF TheLogs, TheStrings
  <2>3. at \in Places /\ length \in Nat /\ Len(data) \in Nat
    BY <1>1
  <2> HIDE DEF at, length
  <2>4. Stored(mem, at, length, data, out.memory)
    BY <2>1, <2>3, StoredBytes, Zenon
  <2>5. Kept(a, at, log.capacity + 1, mem, out.memory)
    <3> SUFFICES ASSUME NEW other \in Places, NEW n \in Sizes,
                        Beside(a, other, n, at, log.capacity + 1), NEW i \in 0..(n - 1)
                 PROVE  ByteOf(out.memory, other, i) = ByteOf(mem, other, i)
      BY DEF Kept
    <3>1. at # Null
      BY <1>1, <1>2 DEF HasRoom, LogOK, at
    <3>2. Apart(other, n, at, log.capacity + 1) /\ n \in Nat
      BY <3>1 DEF Beside, Sizes
    <3>3. length + Len(data) <= log.capacity + 1
      BY <1>1, <1>2, <2>3 DEF HasRoom, length
    <3>4. Apart(other, n, at, length + Len(data))
      BY <1>1, <2>3, <3>2, <3>3 DEF Apart, Places
    <3> QED
      BY <2>4, <3>2, <3>4 DEF Stored
  <2> QED
    BY <2>1, <2>2, <2>4, <2>5 DEF Grew, Stored, at, length
<1>3. CASE ~HasRoom(log, data)
  <2> DEFINE app == StringAppend(log.data, a, mem, data, granted)
  <2>1. /\ out.memory = app.memory /\ out.result = app.result
        /\ out.string.data = app.string
    <3>1. app = Outcome(app.string, app.arena, app.memory, app.result)
      BY Zenon DEF StringAppend, AppendTo, Extended, Outcome
    <3> HIDE DEF app
    <3> QED
      BY <1>3, <3>1 DEF LogAppend, Outcome, app
  <2>2. GrewAndClosed(log.data, a, log.capacity + 1, mem, data, app)
    <3>1. log.data.length + 1 <= log.capacity + 1
      BY <1>1 DEF LogOK
    <3>2. log.data.bytes = Null => log.data.length = 0
      BY <1>1 DEF LogOK
    <3> QED
      BY <1>1, <3>1, <3>2, StringAppendBytes
  <2> HIDE DEF app
  <2> QED
    BY <2>1, <2>2 DEF GrewAndClosed
<1> QED
  BY <1>2, <1>3

-----------------------------------------------------------------------------
(* The texts. *)

\* The bytes of log l, read from mem, are those that were read for it.
TextRight(l, mem) ==
    \A i \in 0..(logs[l].data.length - 1) :
        ByteOf(mem, logs[l].data.bytes, i) = <<l, i + 1>>

TextsRight == pc # "done" => \A l \in Logs : TextRight(l, memory)

\* What a log knows of the other objects.
LEMMA LogObjects ==
    ASSUME LInv, pc # "done", NEW l \in Logs
    PROVE  LET at == logs[l].data.bytes
               room == logs[l].capacity + 1
           IN  /\ logs[l] \in TheLogs /\ LogOK(logs[l])
               /\ at \in Places /\ room \in Sizes /\ logs[l].data.length \in Nat
               /\ logs[l].data.length <= room
               /\ at = Null => logs[l].data.length = 0
               /\ at # Null =>
                     /\ Within(arena, at, room)
                     /\ \A m \in Logs \ {l} :
                           Beside(arena, at, room, logs[m].data.bytes, logs[m].capacity + 1)
                     /\ Beside(arena, at, room, step.bytes, step.length + 1)
<1> DEFINE at == logs[l].data.bytes
           room == logs[l].capacity + 1
<1>1. LTypes /\ ObjectsApart /\ logs[l] \in TheLogs /\ LogOK(logs[l])
  BY StringTypes DEF LInv, LTypes
<1>2. /\ at \in Places /\ logs[l].data.length \in Nat /\ logs[l].capacity \in Nat
      /\ room \in Sizes /\ logs[l].data.length <= room
      /\ at = Null => logs[l].data.length = 0
  BY <1>1 DEF TheLogs, TheStrings, Sizes, LogOK
<1>3. ASSUME at # Null
      PROVE  /\ Within(arena, at, room)
             /\ \A m \in Logs \ {l} :
                   Beside(arena, at, room, logs[m].data.bytes, logs[m].capacity + 1)
             /\ Beside(arena, at, room, step.bytes, step.length + 1)
  <2> DEFINE o(m) == <<"log", m>>
  <2>1. \A m \in Logs : /\ o(m) \in Owners
                        /\ PlaceOf(o(m)) = logs[m].data.bytes
                        /\ RoomOf(o(m)) = logs[m].capacity + 1
    BY DEF Owners, PlaceOf, RoomOf
  <2>2. /\ Step \in Owners /\ PlaceOf(Step) = step.bytes /\ RoomOf(Step) = step.length + 1
        /\ \A m \in Logs : o(m) # Step
    BY DEF Owners, PlaceOf, RoomOf, Step
  <2>3. \A m \in Logs \ {l} : o(l) # o(m)
    OBVIOUS
  <2>4. Live(o(l)) /\ o(l) \in Owners /\ PlaceOf(o(l)) = at /\ RoomOf(o(l)) = room
    BY <1>3, <2>1 DEF Live
  <2> HIDE DEF o, at, room
  <2>5. \A p \in Owners : o(l) # p => Beside(arena, at, room, PlaceOf(p), RoomOf(p))
    BY <1>1, <2>4 DEF ObjectsApart, AllApart
  <2>6. Within(arena, at, room)
    BY <1>1, <2>4 DEF ObjectsApart, AllApart
  <2> QED
    BY <2>1, <2>2, <2>3, <2>5, <2>6
<1> QED
  BY <1>1, <1>2, <1>3

\* Bytes that another object was written beside are still there.
LEMMA TextKept ==
    ASSUME LInv, pc # "done", NEW l \in Logs, TextRight(l, memory), NEW p, NEW z, NEW new,
           logs[l].data.bytes # Null =>
               Beside(arena, logs[l].data.bytes, logs[l].capacity + 1, p, z),
           Kept(arena, p, z, memory, new)
    PROVE  TextRight(l, new)
<1> DEFINE at == logs[l].data.bytes
           room == logs[l].capacity + 1
           length == logs[l].data.length
<1>1. /\ at \in Places /\ room \in Sizes /\ room \in Nat /\ length \in Nat
      /\ length <= room /\ (at = Null => length = 0)
  BY LogObjects DEF Sizes
<1>2. CASE at = Null
  BY <1>1, <1>2 DEF TextRight
<1>3. CASE at # Null
  <2>1. \A i \in 0..(room - 1) : ByteOf(new, at, i) = ByteOf(memory, at, i)
    BY <1>1, <1>3 DEF Kept
  <2> QED
    BY <1>1, <2>1 DEF TextRight
<1> QED
  BY <1>2, <1>3

\* What was in use when the state was saved is still there when it is restored.
LEMMA ReturnBytes ==
    ASSUME NEW a, ArenaOK(a), NEW state \in Places, Restorable(a, state), NEW mem, NEW to,
           Return(a, mem, state, to), NEW at \in Places, NEW size \in Nat,
           Within(a, at, size), Saved(at, size, state)
    PROVE  \A i \in 0..(size - 1) : ByteOf(memory', at, i) = ByteOf(mem, at, i)
<1> DEFINE back == StateSet(a, state)
           kept == {cell \in DOMAIN mem : cell[2] < back.nodes[cell[1]].current}
<1>1. memory' = Restrict(mem, kept)
  BY StateSetOutcome DEF Return
<1>2. Within(back, at, size) /\ ArenaOK(back)
  BY StateSetOutcome
<1> HIDE DEF back
<1>3. back.nodes[at[1]].current \in Nat /\ at[2] \in Nat
      /\ at[2] + size <= back.nodes[at[1]].current
  BY <1>2, NodesOf DEF Within, Places
<1>4. ASSUME NEW i \in 0..(size - 1)
      PROVE  ByteOf(memory', at, i) = ByteOf(mem, at, i)
  <2> DEFINE cell == <<at[1], at[2] + i>>
  <2>1. cell[1] = at[1] /\ cell[2] = at[2] + i /\ cell[2] < back.nodes[cell[1]].current
    BY <1>3
  <2> HIDE DEF cell
  <2>2. cell \in kept <=> cell \in DOMAIN mem
    BY <2>1
  <2> HIDE DEF kept
  <2>3. DOMAIN memory' = kept /\ \A c \in kept : memory'[c] = mem[c]
    BY <1>1 DEF Restrict
  <2> QED
    BY <2>2, <2>3 DEF ByteOf, cell
<1> QED
  BY <1>4

\* A report that ends leaves the logs as they are.
LEMMA ReportTexts ==
    ASSUME LInv, pc = "report", NEW a, ArenaOK(a), Restorable(a, inner), NEW mem,
           Return(a, mem, inner, "serve"), UNCHANGED logs,
           \A l \in Logs : logs[l].data.bytes # Null =>
               Within(a, logs[l].data.bytes, logs[l].capacity + 1),
           \A l \in Logs : TextRight(l, mem)
    PROVE  TextsRight'
<1>1. ASSUME NEW l \in Logs
      PROVE  TextRight(l, memory')
  <2> DEFINE at == logs[l].data.bytes
             room == logs[l].capacity + 1
             length == logs[l].data.length
             o == <<"log", l>>
  <2>1. /\ at \in Places /\ room \in Nat /\ length \in Nat
        /\ length <= room /\ (at = Null => length = 0)
    BY LogObjects DEF Sizes
  <2>2. CASE at = Null
    BY <2>1, <2>2 DEF TextRight
  <2>3. CASE at # Null
    <3>1. o \in Owners \ {Step} /\ PlaceOf(o) = at /\ RoomOf(o) = room /\ Live(o)
      BY <2>3 DEF Owners, Step, PlaceOf, RoomOf, Live
    <3>2. inner \in Places /\ Saved(at, room, inner)
      BY <3>1 DEF LInv, ReportOK
    <3>3. Within(a, at, room)
      BY <2>3
    <3> HIDE DEF at, room, length, o
    <3>4. \A i \in 0..(room - 1) : ByteOf(memory', at, i) = ByteOf(mem, at, i)
      BY <2>1, <3>2, <3>3, ReturnBytes
    <3>5. \A i \in 0..(length - 1) : ByteOf(mem, at, i) = <<l, i + 1>>
      BY DEF TextRight, at, length
    <3>6. \A i \in 0..(length - 1) : i \in 0..(room - 1)
      BY <2>1
    <3>7. \A i \in 0..(length - 1) : ByteOf(memory', at, i) = <<l, i + 1>>
      BY <3>4, <3>5, <3>6
    <3> QED
      BY <3>7 DEF TextRight, at, length
  <2> QED
    BY <2>2, <2>3
<1> QED
  BY <1>1 DEF TextsRight, TextRight

\* A part is added to the step, or there was no memory for it and the report ends.
LEMMA AssembleStepWays ==
    ASSUME LInv, AssembleStep
    PROVE  LET room == step.length + 1
               data == StepParts[parts + 1]
           IN  \/ /\ pc' = "report" /\ parts' = parts + 1
                  /\ Grew(step, arena, room, memory, data, step', memory', "ok")
                  /\ ByteOf(memory', step'.bytes, step'.length) = Nul
               \/ \E a, mem, at, size :
                     /\ Return(a, mem, inner, "serve")
                     /\ Kept(arena, step.bytes, room, memory, mem)
                     /\ Moved(arena, step.bytes, room, a, at, size)
<1> DEFINE data == StepParts[parts + 1]
           app(granted) == StringAppend(step, arena, memory, data, granted)
           room == step.length + 1
<1>1. PICK granted \in BOOLEAN :
        IF app(granted).result = "memory"
        THEN /\ Return(app(granted).arena, app(granted).memory, inner, "serve")
             /\ step' = StringInit /\ parts' = 0 /\ inner' = Null
        ELSE /\ arena' = app(granted).arena /\ memory' = app(granted).memory
             /\ step' = app(granted).string /\ parts' = parts + 1
             /\ pc' = IF app(granted).result = "ok" THEN "report" ELSE "aborted"
             /\ UNCHANGED inner
  BY Zenon DEF AssembleStep
<1>2. /\ ObjectsApart /\ pc = "report" /\ ArenaOK(arena)
      /\ parts \in 0..Len(StepParts) /\ parts < Len(StepParts)
      /\ step \in TheStrings /\ (step.bytes = Null => step.length = 0)
  BY StringTypes DEF LInv, AssembleStep, LTypes, TypeOK
<1>3. /\ data \in Seq({"step"} \X Nat) /\ Len(data) \in 0..(SizeMax \div 2)
  <2>1. parts + 1 \in 1..Len(StepParts)
    BY <1>2, LogAssumption, LenProperties
  <2>2. data \in Seq({"step"} \X Nat) /\ Len(data) <= SizeMax \div 2
    BY <2>1, LogAssumption
  <2>3. Len(data) \in Nat /\ SizeMax \div 2 \in Nat
    BY <2>2, ArenaAssumption, LenProperties
  <2> QED
    BY <2>2, <2>3
<1>4. /\ room \in Nat
      /\ step.bytes # Null => Within(arena, step.bytes, room) /\ step.length + 1 <= room
  <2>1. Step \in Owners /\ PlaceOf(Step) = step.bytes /\ RoomOf(Step) = room
    BY DEF Owners, PlaceOf, RoomOf, Step
  <2>2. room \in Nat /\ step.length + 1 <= room
    BY <1>2 DEF TheStrings
  <2> HIDE DEF room
  <2>3. step.bytes # Null => Within(arena, step.bytes, room)
    BY <1>2, <2>1 DEF ObjectsApart, AllApart, Live
  <2> QED
    BY <2>2, <2>3
<1> DEFINE out == app(granted)
<1>5. AppendOutcome(step, arena, room, out, Len(data))
      /\ GrewAndClosed(step, arena, room, memory, data, out)
  <2>1. out = StringAppend(step, arena, memory, data, granted)
    OBVIOUS
  <2> HIDE DEF out, data, room
  <2>2. step.bytes = Null => step.length = 0
    BY <1>2
  <2>3. AppendOutcome(step, arena, room, out, Len(data))
    BY <1>2, <1>3, <1>4, <2>1, StringAppendOutcome DEF room
  <2>4. GrewAndClosed(step, arena, room, memory, data, out)
    BY <1>2, <1>3, <1>4, <2>1, StringAppendBytes DEF room
  <2> QED
    BY <2>3, <2>4
<1> HIDE DEF out
<1>6. CASE out.result = "ok"
  <2>1. memory' = out.memory /\ step' = out.string /\ parts' = parts + 1 /\ pc' = "report"
    BY <1>1, <1>6, Zenon DEF out
  <2> QED
    BY <1>5, <1>6, <2>1 DEF GrewAndClosed
<1>7. CASE out.result = "memory" /\ AppendFailed(step, arena, room, out)
  <2>1. Return(out.arena, out.memory, inner, "serve")
    BY <1>1, <1>7, Zenon DEF out
  <2>2. PICK at, size : Moved(arena, step.bytes, room, out.arena, at, size)
    BY <1>7 DEF AppendFailed
  <2>3. Kept(arena, step.bytes, room, memory, out.memory)
    BY <1>5 DEF GrewAndClosed, Grew
  <2> QED
    BY <2>1, <2>2, <2>3
<1> QED
  BY <1>5, <1>6, <1>7 DEF AppendOutcome

LEMMA AssembleStepTexts == LInv /\ TextsRight /\ AssembleStep => TextsRight'
<1> SUFFICES ASSUME LInv, TextsRight, AssembleStep PROVE TextsRight'
    OBVIOUS
<1> DEFINE room == step.length + 1
<1>1. /\ pc = "report" /\ UNCHANGED logs
      /\ \A l \in Logs : TextRight(l, memory)
      /\ inner \in Places /\ Restorable(arena, inner)
      /\ step.bytes # Null => Since(step.bytes, inner)
  BY DEF AssembleStep, TextsRight, LInv, ReportOK
<1>2. ASSUME NEW mem, Kept(arena, step.bytes, room, memory, mem), NEW l \in Logs
      PROVE  TextRight(l, mem)
  <2>1. logs[l].data.bytes # Null =>
          Beside(arena, logs[l].data.bytes, logs[l].capacity + 1, step.bytes, room)
    BY <1>1, LogObjects
  <2> HIDE DEF room
  <2> QED
    BY <1>1, <1>2, <2>1, TextKept
<1>3. CASE /\ pc' = "report"
           /\ Grew(step, arena, room, memory, StepParts[parts + 1], step', memory', "ok")
  <2>1. \A l \in Logs : TextRight(l, memory')
    BY <1>2, <1>3 DEF Grew
  <2> QED
    BY <1>1, <2>1 DEF TextsRight, TextRight
<1>4. CASE \E a, mem, at, size :
             /\ Return(a, mem, inner, "serve")
             /\ Kept(arena, step.bytes, room, memory, mem)
             /\ Moved(arena, step.bytes, room, a, at, size)
  <2>1. PICK a, mem, at, size :
          /\ Return(a, mem, inner, "serve")
          /\ Kept(arena, step.bytes, room, memory, mem)
          /\ Moved(arena, step.bytes, room, a, at, size)
    BY <1>4
  <2>2. \A l \in Logs : TextRight(l, mem)
    BY <1>2, <2>1
  <2>3. ASSUME NEW l \in Logs, logs[l].data.bytes # Null
        PROVE  Within(a, logs[l].data.bytes, logs[l].capacity + 1)
    <3> DEFINE there == logs[l].data.bytes
               space == logs[l].capacity + 1
    <3>1. there \in Places /\ space \in Sizes /\ Beside(arena, there, space, step.bytes, room)
      BY <1>1, <2>3, LogObjects
    <3> HIDE DEF there, space, room
    <3>2. Beside(a, there, space, at, size)
      BY <2>1, <3>1 DEF Moved
    <3> QED
      BY <3>2 DEF Beside, there, space
  <2>4. ArenaOK(a) /\ Restorable(a, inner)
    BY <1>1, <2>1 DEF Moved
  <2> QED
    BY <1>1, <2>1, <2>2, <2>3, <2>4, ReportTexts
<1> QED
  BY <1>3, <1>4, AssembleStepWays

\* A read adds its bytes to its log, or nothing if there was no memory.
LEMMA AppendLogWays ==
    ASSUME LInv, NEW l \in Logs, AppendLog(l)
    PROVE  /\ pc = "serve" /\ pc' = "serve" /\ UNCHANGED step
           /\ \E size \in ChunkSizes : \E t, result :
                 /\ logs' = [logs EXCEPT ![l] = t]
                 /\ Len(Bytes(l, logs[l].data.length, size)) = size /\ size \in Nat
                 /\ Grew(logs[l].data, arena, logs[l].capacity + 1, memory,
                         Bytes(l, logs[l].data.length, size), t.data, memory', result)
<1> DEFINE length == logs[l].data.length
           data(size) == Bytes(l, length, size)
           app(size, granted) == LogAppend(logs[l], arena, memory, data(size), granted)
<1>1. PICK size \in ChunkSizes, granted \in BOOLEAN :
        /\ logs' = [logs EXCEPT ![l] = app(size, granted).string]
        /\ arena' = app(size, granted).arena
        /\ memory' = app(size, granted).memory
        /\ pc' = IF app(size, granted).result = "abort" THEN "aborted" ELSE "serve"
  BY DEF AppendLog
<1>2. pc = "serve" /\ UNCHANGED step /\ ArenaOK(arena)
  BY DEF AppendLog, LInv, LTypes
<1>3. /\ data(size) \in Seq({l} \X Nat) /\ Len(data(size)) = size /\ size \in Nat
      /\ Len(data(size)) \in 1..(SizeMax \div 2)
  <2>1. size \in 1..(SizeMax \div 2) /\ SizeMax \div 2 \in Nat /\ size \in Nat
    BY LogAssumption, ArenaAssumption
  <2>2. length \in Nat
    BY <1>2, LogObjects
  <2>3. data(size) \in [1..size -> {l} \X Nat]
    BY <2>1, <2>2 DEF Bytes
  <2>4. data(size) \in Seq({l} \X Nat) /\ Len(data(size)) = size
    BY <2>1, <2>3, FunctionIsSeq
  <2> QED
    BY <2>1, <2>4
<1> DEFINE out == app(size, granted)
<1>4. /\ logs[l] \in TheLogs /\ LogOK(logs[l])
      /\ logs[l].data.bytes # Null => Within(arena, logs[l].data.bytes, logs[l].capacity + 1)
  BY <1>2, LogObjects
<1>5. /\ out.result \in {"ok", "memory"}
      /\ Grew(logs[l].data, arena, logs[l].capacity + 1, memory, data(size),
              out.string.data, out.memory, out.result)
  <2> HIDE DEF data
  <2>1. out = LogAppend(logs[l], arena, memory, data(size), granted)
    OBVIOUS
  <2> HIDE DEF out
  <2>2. out.result \in {"ok", "memory"}
    BY <1>2, <1>3, <1>4, <2>1, LogAppendOutcome
  <2>3. Grew(logs[l].data, arena, logs[l].capacity + 1, memory, data(size),
             out.string.data, out.memory, out.result)
    BY <1>2, <1>3, <1>4, <2>1, LogAppendBytes
  <2> QED
    BY <2>2, <2>3
<1>6. logs' = [logs EXCEPT ![l] = out.string] /\ memory' = out.memory /\ pc' = "serve"
  BY <1>1, <1>5
<1> HIDE DEF app
<1> QED
  BY <1>2, <1>3, <1>5, <1>6

LEMMA AppendLogTexts ==
    \A l \in Logs : LInv /\ LInv' /\ TextsRight /\ AppendLog(l) => TextsRight'
<1> SUFFICES ASSUME NEW l \in Logs, LInv, LInv', TextsRight, AppendLog(l) PROVE TextsRight'
    OBVIOUS
<1> DEFINE length == logs[l].data.length
           data(size) == Bytes(l, length, size)
           room == logs[l].capacity + 1
<1>1. /\ pc = "serve" /\ pc' = "serve" /\ DOMAIN logs = Logs
      /\ \A m \in Logs : TextRight(m, memory)
  BY AppendLogWays DEF TextsRight, LInv, LTypes, TypeOK
<1>2. PICK size, t, result :
        /\ size \in ChunkSizes
        /\ logs' = [logs EXCEPT ![l] = t]
        /\ Len(data(size)) = size /\ size \in Nat
        /\ Grew(logs[l].data, arena, room, memory, data(size), t.data, memory', result)
  BY AppendLogWays
<1>3. logs'[l] = t /\ \A m \in Logs \ {l} : logs'[m] = logs[m]
  BY <1>1, <1>2
<1>4. length \in Nat
  BY <1>1, LogObjects
<1>5. ASSUME NEW m \in Logs \ {l}
      PROVE  TextRight(m, memory)'
  <2>1. Kept(arena, logs[l].data.bytes, room, memory, memory')
    BY <1>2 DEF Grew
  <2>2. logs[m].data.bytes # Null =>
          Beside(arena, logs[m].data.bytes, logs[m].capacity + 1, logs[l].data.bytes, room)
    BY <1>1, LogObjects
  <2> HIDE DEF room
  <2>3. TextRight(m, memory')
    BY <1>1, <2>1, <2>2, TextKept
  <2> QED
    BY <1>3, <2>3 DEF TextRight
<1>6. TextRight(l, memory)'
  <2> DEFINE at == t.data.bytes
  <2>1. \A i \in 0..(length - 1) : ByteOf(memory', at, i) = <<l, i + 1>>
    BY <1>1, <1>2 DEF Grew, TextRight
  <2>2. CASE result # "ok"
    BY <1>2, <1>3, <2>1, <2>2 DEF Grew, TextRight
  <2>3. CASE result = "ok"
    <3>1. t.data.length = length + size
      BY <1>2, <2>3 DEF Grew
    <3>2. \A i \in 0..(size - 1) : ByteOf(memory', at, length + i) = <<l, length + (i + 1)>>
      <4>1. \A i \in 0..(size - 1) : i + 1 \in 1..size
        BY <1>2
      <4>2. \A i \in 0..(size - 1) : data(size)[i + 1] = <<l, length + (i + 1)>>
        BY <4>1 DEF Bytes
      <4> HIDE DEF data
      <4> QED
        BY <1>2, <2>3, <4>2 DEF Grew
    <3>3. ASSUME NEW i \in 0..(t.data.length - 1), i >= length
          PROVE  ByteOf(memory', at, i) = <<l, i + 1>>
      <4>1. PICK j \in 0..(size - 1) : i = length + j
        <5>1. i - length \in 0..(size - 1) /\ i = length + (i - length)
          BY <1>2, <1>4, <3>1, <3>3
        <5> QED
          BY <5>1
      <4>2. length + (j + 1) = i + 1
        BY <1>4, <4>1
      <4> QED
        BY <3>2, <4>1, <4>2
    <3>4. \A i \in 0..(t.data.length - 1) : i >= length \/ i \in 0..(length - 1)
      BY <1>2, <1>4, <3>1
    <3>5. \A i \in 0..(t.data.length - 1) : ByteOf(memory', at, i) = <<l, i + 1>>
      BY <2>1, <3>3, <3>4
    <3> QED
      BY <1>3, <3>5 DEF TextRight
  <2> QED
    BY <2>2, <2>3
<1> QED
  BY <1>5, <1>6 DEF TextsRight

LEMMA NextTexts == LInv /\ LInv' /\ TextsRight /\ [Next]_vars => TextsRight'
<1> SUFFICES ASSUME LInv, LInv', TextsRight, [Next]_vars PROVE TextsRight'
    OBVIOUS
<1>1. DOMAIN logs = Logs
  BY DEF LInv, LTypes, TypeOK
<1>2. CASE SetupTable
  <2>1. \A l \in Logs : logs'[l].data.length = 0
    BY <1>2 DEF SetupTable, LInv, Phases, LogInit, StringInit
  <2> QED
    BY <2>1 DEF TextsRight, TextRight
<1>3. CASE \E l \in Logs : AppendLog(l)
  BY <1>3, AppendLogTexts
<1>4. CASE \E l \in Logs : ResetLog(l)
  <2>1. PICK l \in Logs : ResetLog(l)
    BY <1>4
  <2>2. /\ \A m \in Logs \ {l} : logs'[m] = logs[m]
        /\ logs'[l].data.length = 0 /\ memory' = memory /\ pc' = pc
    <3>1. logs[l] \in TheLogs
      BY <2>1, LogObjects DEF ResetLog
    <3> QED
      BY <1>1, <2>1, <3>1 DEF ResetLog, LogReset, TheLogs, TheStrings
  <2> QED
    BY <2>2 DEF TextsRight, TextRight
<1>5. CASE StartReport \/ UNCHANGED vars
  BY <1>5 DEF StartReport, vars, TextsRight, TextRight
<1>6. CASE AssembleStep
  BY <1>6, AssembleStepTexts
<1>7. CASE EndReport
  <2>1. /\ pc = "report" /\ Return(arena, memory, inner, "serve") /\ UNCHANGED logs
        /\ ArenaOK(arena) /\ Restorable(arena, inner)
    BY <1>7 DEF EndReport, LInv, LTypes, ReportOK
  <2>2. \A l \in Logs : logs[l].data.bytes # Null =>
          Within(arena, logs[l].data.bytes, logs[l].capacity + 1)
    BY <2>1, LogObjects
  <2>3. \A l \in Logs : TextRight(l, memory)
    BY <2>1 DEF TextsRight
  <2> QED
    BY <2>1, <2>2, <2>3, ReportTexts
<1>8. CASE Finish
  <2>1. pc' \in {"done", "aborted"} /\ pc' # "aborted"
    BY <1>8 DEF Finish, Return, LInv, Phases
  <2> QED
    BY <2>1 DEF TextsRight
<1> QED
  BY <1>2, <1>3, <1>4, <1>5, <1>6, <1>7, <1>8 DEF Next

LEMMA InitTexts == Init => TextsRight
BY DEF Init, TextsRight, TextRight, LogInit, StringInit

LEMMA TextsAlways == Spec => []TextsRight
BY LInvAlways, InitTexts, NextTexts, PTL DEF Spec

-----------------------------------------------------------------------------
(* The abstract texts. *)

\* What was read for log l, n bytes of it.
Prefix(l, n) == [i \in 1..n |-> <<l, i>>]
LengthOf(l) == IF pc = "done" THEN 0 ELSE logs[l].data.length

LEMMA TextIsPrefix ==
    ASSUME LInv, TextsRight, NEW l \in Logs
    PROVE  LengthOf(l) \in Nat /\ TextOf(l) = Prefix(l, LengthOf(l))
<1>1. CASE pc = "done"
  BY <1>1 DEF LengthOf, TextOf, Prefix
<1>2. CASE pc # "done"
  <2> DEFINE at == logs[l].data.bytes
             length == logs[l].data.length
  <2>1. at \in Places /\ length \in Nat
    BY <1>2, LogObjects
  <2>2. \A i \in 0..(length - 1) : ByteOf(memory, at, i) = <<l, i + 1>>
    BY <1>2 DEF TextsRight, TextRight
  <2>3. TextOf(l) = Load(memory, at, length) /\ LengthOf(l) = length
    BY <1>2 DEF TextOf, LengthOf
  <2> HIDE DEF at, length
  <2>4. Load(memory, at, length) = [i \in 1..length |-> ByteOf(memory, at, i - 1)]
    BY <2>1, LoadBytes
  <2>5. \A i \in 1..length : ByteOf(memory, at, i - 1) = <<l, i>>
    <3>1. \A i \in 1..length : i - 1 \in 0..(length - 1) /\ (i - 1) + 1 = i
      BY <2>1
    <3> QED
      BY <2>2, <3>1
  <2> QED
    BY <2>1, <2>3, <2>4, <2>5 DEF Prefix
<1> QED
  BY <1>1, <1>2

LEMMA PrefixGrows ==
    ASSUME NEW l, NEW n \in Nat, NEW size \in Nat
    PROVE  /\ Len(Prefix(l, n)) = n
           /\ Prefix(l, n) \o [i \in 1..size |-> <<l, n + i>>] = Prefix(l, n + size)
<1> DEFINE S == {l} \X Nat
           more == [i \in 1..size |-> <<l, n + i>>]
           both == Prefix(l, n) \o more
<1>1. /\ Prefix(l, n) \in [1..n -> S] /\ more \in [1..size -> S]
      /\ Prefix(l, n + size) \in [1..(n + size) -> S] /\ n + size \in Nat
  BY DEF Prefix
<1>2. /\ Prefix(l, n) \in Seq(S) /\ Len(Prefix(l, n)) = n
      /\ more \in Seq(S) /\ Len(more) = size
      /\ Prefix(l, n + size) \in Seq(S) /\ Len(Prefix(l, n + size)) = n + size
  <2> HIDE DEF S, more
  <2> QED
    BY <1>1, FunctionIsSeq
<1>3. /\ \A i \in 1..n : Prefix(l, n)[i] = <<l, i>>
      /\ \A i \in 1..size : more[i] = <<l, n + i>>
      /\ \A i \in 1..(n + size) : Prefix(l, n + size)[i] = <<l, i>>
  BY DEF Prefix
<1> HIDE DEF more, S
<1>4. /\ both \in Seq(S) /\ Len(both) = n + size
      /\ \A i \in 1..(n + size) :
            both[i] = IF i <= n THEN Prefix(l, n)[i] ELSE more[i - n]
  BY <1>2, ConcatProperties
<1>5. \A i \in 1..(n + size) : both[i] = <<l, i>>
  <2> TAKE i \in 1..(n + size)
  <2>1. CASE i <= n
    BY <1>3, <1>4, <2>1
  <2>2. CASE ~(i <= n)
    <3>1. i - n \in 1..size /\ n + (i - n) = i
      BY <2>2
    <3> QED
      BY <1>3, <1>4, <2>2, <3>1
  <2> QED
    BY <2>1, <2>2
<1> HIDE DEF both
<1>6. both = Prefix(l, n + size)
  <2>1. both \in Seq(S) /\ Prefix(l, n + size) \in Seq(S)
    BY <1>2, <1>4
  <2>2. /\ Len(both) = Len(Prefix(l, n + size))
        /\ \A i \in 1..Len(both) : both[i] = Prefix(l, n + size)[i]
    BY <1>2, <1>3, <1>4, <1>5
  <2> QED
    BY <2>1, <2>2, SeqEqual
<1> QED
  BY <1>2, <1>6 DEF both, more

\* The mapping, and what each step does to it.
TextMap == [l \in Logs |-> TextOf(l)]

LEMMA MapIsPrefixes ==
    LInv /\ TextsRight => TextMap = [m \in Logs |-> Prefix(m, LengthOf(m))]
BY TextIsPrefix DEF TextMap

LEMMA MapIsPrefixesNext ==
    LInv' /\ TextsRight' => TextMap' = [m \in Logs |-> Prefix(m, LengthOf(m)')]
<1>1. (LInv /\ TextsRight => TextMap = [m \in Logs |-> Prefix(m, LengthOf(m))])'
  BY MapIsPrefixes, PTL
<1> QED
  BY <1>1 DEF Prefix

LEMMA TextsStay ==
    ASSUME LInv, LInv', TextsRight, TextsRight', \A l \in Logs : LengthOf(l)' = LengthOf(l)
    PROVE  TextMap' = TextMap
<1>1. /\ TextMap = [m \in Logs |-> Prefix(m, LengthOf(m))]
      /\ TextMap' = [m \in Logs |-> Prefix(m, LengthOf(m)')]
  BY MapIsPrefixes, MapIsPrefixesNext
<1> QED
  BY <1>1

\* One log's length changes.
LEMMA OneTextChanges ==
    ASSUME LInv, LInv', TextsRight, TextsRight', NEW l \in Logs, NEW n, LengthOf(l)' = n,
           \A m \in Logs \ {l} : LengthOf(m)' = LengthOf(m)
    PROVE  TextMap' = [TextMap EXCEPT ![l] = Prefix(l, n)]
<1>1. TextMap = [m \in Logs |-> Prefix(m, LengthOf(m))]
  BY MapIsPrefixes
<1>2. TextMap' = [m \in Logs |-> Prefix(m, LengthOf(m)')]
  BY MapIsPrefixesNext
<1> QED
  BY <1>1, <1>2

LEMMA AppendLogRefines ==
    ASSUME LInv, LInv', TextsRight, TextsRight', NEW l \in Logs, AppendLog(l)
    PROVE  \/ TextMap' = TextMap
           \/ \E size \in ChunkSizes :
                 TextMap' = [TextMap EXCEPT ![l] = @ \o [i \in 1..size |-> <<l, Len(@) + i>>]]
<1> DEFINE length == logs[l].data.length
           data(size) == Bytes(l, length, size)
<1>1. pc = "serve" /\ pc' = "serve" /\ DOMAIN logs = Logs /\ length \in Nat
  BY AppendLogWays, LogObjects DEF LInv, LTypes, TypeOK
<1>2. PICK size, t, result :
        /\ size \in ChunkSizes
        /\ logs' = [logs EXCEPT ![l] = t]
        /\ Len(data(size)) = size /\ size \in Nat
        /\ Grew(logs[l].data, arena, logs[l].capacity + 1, memory, data(size), t.data,
                memory', result)
  BY AppendLogWays
<1>3. /\ logs'[l] = t /\ \A m \in Logs \ {l} : logs'[m] = logs[m]
      /\ t.data.length = IF result = "ok" THEN length + size ELSE length
  BY <1>1, <1>2 DEF Grew
<1>4. /\ LengthOf(l) = length /\ LengthOf(l)' = t.data.length
      /\ \A m \in Logs \ {l} : LengthOf(m)' = LengthOf(m)
  BY <1>1, <1>3 DEF LengthOf
<1> HIDE DEF length
<1>5. CASE result # "ok"
  BY <1>3, <1>4, <1>5, TextsStay
<1>6. CASE result = "ok"
  <2>1. TextMap' = [TextMap EXCEPT ![l] = Prefix(l, length + size)]
    BY <1>3, <1>4, <1>6, OneTextChanges
  <2>2. TextMap[l] = Prefix(l, length)
    BY <1>4, MapIsPrefixes
  <2>3. /\ Len(Prefix(l, length)) = length
        /\ Prefix(l, length) \o [i \in 1..size |-> <<l, length + i>>]
              = Prefix(l, length + size)
    BY <1>1, <1>2, PrefixGrows
  <2>4. TextMap' = [TextMap EXCEPT ![l] =
           TextMap[l] \o [i \in 1..size |-> <<l, Len(TextMap[l]) + i>>]]
    BY <2>1, <2>2, <2>3
  <2> QED
    BY <1>2, <2>4
<1> QED
  BY <1>5, <1>6

LEMMA InitRefines == LInv /\ TextsRight /\ Init => Texts!Init
<1> SUFFICES ASSUME LInv, TextsRight, Init PROVE Texts!Init
    OBVIOUS
<1>1. \A l \in Logs : LengthOf(l) = 0
  BY DEF Init, LengthOf, LogInit, StringInit
<1>2. \A l \in Logs : Prefix(l, 0) = <<>>
  BY DEF Prefix
<1>3. TextMap = [l \in Logs |-> <<>>]
  BY <1>1, <1>2, MapIsPrefixes
<1> QED
  BY <1>3 DEF Texts!Init, Texts!NoTexts, TextMap

LEMMA NextRefines ==
    LInv /\ LInv' /\ TextsRight /\ TextsRight' /\ [Next]_vars => [Texts!Next]_TextMap
<1> SUFFICES ASSUME LInv, LInv', TextsRight, TextsRight', [Next]_vars
             PROVE  [Texts!Next]_TextMap
    OBVIOUS
<1>1. /\ DOMAIN logs = Logs /\ pc # "aborted" /\ pc' # "aborted"
      /\ pc = "setup" => \A l \in Logs : logs[l] = LogInit
  BY DEF LInv, LTypes, TypeOK, Phases
<1>2. ASSUME logs' = logs, pc # "done", pc' # "done"
      PROVE  TextMap' = TextMap
  BY <1>2, TextsStay DEF LengthOf
<1>3. CASE SetupTable
  <2>1. pc = "setup" /\ logs' = logs /\ \A l \in Logs : logs[l].data.length = 0
    BY <1>1, <1>3 DEF SetupTable, LogInit, StringInit
  <2>2. \A l \in Logs : LengthOf(l)' = LengthOf(l)
    BY <2>1 DEF LengthOf
  <2> QED
    BY <2>2, TextsStay
<1>4. ASSUME NEW l \in Logs, AppendLog(l)
      PROVE  [Texts!Next]_TextMap
  <2>1. CASE TextMap' = TextMap
    BY <2>1
  <2>2. CASE \E size \in ChunkSizes :
               TextMap' = [TextMap EXCEPT ![l] = @ \o [i \in 1..size |-> <<l, Len(@) + i>>]]
    BY <2>2 DEF Texts!Next, Texts!Read, TextMap
  <2> QED
    BY <1>4, <2>1, <2>2, AppendLogRefines
<1>5. ASSUME NEW l \in Logs, ResetLog(l)
      PROVE  [Texts!Next]_TextMap
  <2>1. logs[l] \in TheLogs /\ pc = "serve" /\ pc' = "serve"
    BY <1>5, LogObjects DEF ResetLog
  <2>2. /\ \A m \in Logs \ {l} : LengthOf(m)' = LengthOf(m)
        /\ LengthOf(l)' = 0
    BY <1>1, <1>5, <2>1 DEF ResetLog, LogReset, TheLogs, TheStrings, LengthOf
  <2>3. TextMap' = [TextMap EXCEPT ![l] = Prefix(l, 0)]
    BY <2>2, OneTextChanges
  <2>4. TextMap' = [TextMap EXCEPT ![l] = <<>>]
    BY <2>3 DEF Prefix
  <2> QED
    BY <2>4 DEF Texts!Next, Texts!Empty, TextMap
<1>6. CASE StartReport
  BY <1>2, <1>6 DEF StartReport
<1>7. CASE AssembleStep
  <2>1. pc = "report" /\ logs' = logs
    BY <1>7 DEF AssembleStep
  <2>2. pc' \in {"serve", "report"}
    BY <1>1, <1>7, AssembleStepWays DEF Return
  <2> QED
    BY <1>2, <2>1, <2>2
<1>8. CASE EndReport
  <2>1. pc = "report" /\ logs' = logs /\ pc' \in {"serve", "aborted"}
    BY <1>8 DEF EndReport, Return
  <2> QED
    BY <1>1, <1>2, <2>1
<1>9. CASE Finish
  <2>1. pc' = "done"
    BY <1>1, <1>9 DEF Finish, Return
  <2>2. TextMap' = [l \in Logs |-> <<>>]
    BY <2>1 DEF TextMap, TextOf
  <2> QED
    BY <2>2 DEF Texts!Next, Texts!Release, Texts!NoTexts, TextMap
<1>10. CASE UNCHANGED vars
  <2>1. \A l \in Logs : LengthOf(l)' = LengthOf(l)
    BY <1>10 DEF vars, LengthOf
  <2> QED
    BY <2>1, TextsStay
<1> QED
  BY <1>3, <1>4, <1>5, <1>6, <1>7, <1>8, <1>9, <1>10 DEF Next

\* The bytes in memory are at all times texts that only grow by what was read for
\* them, are emptied with their slot, and are otherwise left alone: by the appends
\* to other logs, by moving, by reports, and by malloc failing (str.c, arena.c).
THEOREM TextsImplemented == Spec => ImplementsTexts
<1>1. Init => Texts!Init
  BY InitLInv, InitTexts, InitRefines
<1>2. LInv /\ LInv' /\ TextsRight /\ TextsRight' /\ [Next]_vars => [Texts!Next]_TextMap
  BY NextRefines
<1>3. LInv /\ LInv' /\ TextsRight /\ TextsRight' /\ [Next]_vars
        => [Texts!Next]_([l \in Logs |-> TextOf(l)])
  BY <1>2 DEF TextMap
<1> QED
  BY <1>1, <1>3, LInvAlways, TextsAlways, PTL DEF Spec, ImplementsTexts, Texts!Spec

-----------------------------------------------------------------------------
(* The step of a report. *)

PartBytes == {"step"} \X Nat
StepText == Flat(StepParts, parts)

\* So far the step is the parts there were, and a NUL behind them.
StepRight ==
    pc = "report" =>
        /\ StepText \in Seq(PartBytes) /\ step.length = Len(StepText)
        /\ \A i \in 0..(step.length - 1) :
              ByteOf(memory, step.bytes, i) = StepText[i + 1]
        /\ parts > 0 => ByteOf(memory, step.bytes, step.length) = Nul

LEMMA AssembleStepStep == LInv /\ StepRight /\ AssembleStep => StepRight'
<1> SUFFICES ASSUME LInv, StepRight, AssembleStep PROVE StepRight'
    OBVIOUS
<1> DEFINE data == StepParts[parts + 1]
           room == step.length + 1
           text == StepText
           old == step.length
<1>1. /\ pc = "report" /\ parts \in 0..(Len(StepParts) - 1) /\ parts \in Nat
      /\ step \in TheStrings /\ old \in Nat
  <2>1. pc = "report" /\ parts \in 0..Len(StepParts) /\ parts < Len(StepParts)
    BY DEF LInv, LTypes, TypeOK, AssembleStep
  <2>2. Len(StepParts) \in Nat
    BY LogAssumption, LenProperties
  <2>3. step \in TheStrings
    BY StringTypes DEF LInv
  <2> QED
    BY <2>1, <2>2, <2>3 DEF TheStrings
<1>2. CASE /\ pc' = "report" /\ parts' = parts + 1
           /\ Grew(step, arena, room, memory, data, step', memory', "ok")
           /\ ByteOf(memory', step'.bytes, step'.length) = Nul
  <2>1. data \in Seq(PartBytes) /\ Len(data) \in Nat
    <3>1. parts + 1 \in 1..Len(StepParts) /\ StepParts \in Seq(Seq(PartBytes))
      BY <1>1, LogAssumption DEF PartBytes
    <3>2. data \in Seq(PartBytes)
      BY <3>1
    <3> QED
      BY <3>2, LenProperties
  <2>2. /\ text \in Seq(PartBytes) /\ old = Len(text)
        /\ \A i \in 0..(old - 1) : ByteOf(memory, step.bytes, i) = text[i + 1]
    BY <1>1 DEF StepRight
  <2>3. StepText' = text \o data
    <3>1. StepParts \in Seq(Seq(PartBytes))
      BY LogAssumption DEF PartBytes
    <3>2. Flat(StepParts, parts + 1) = Flat(StepParts, parts) \o StepParts[parts + 1]
      BY <1>1, <2>2, <3>1, FlatGrows DEF StepText
    <3> QED
      BY <1>2, <3>2 DEF StepText
  <2>4. /\ step'.length = old + Len(data)
        /\ \A i \in 0..(old - 1) :
              ByteOf(memory', step'.bytes, i) = ByteOf(memory, step.bytes, i)
        /\ \A i \in 0..(Len(data) - 1) : ByteOf(memory', step'.bytes, old + i) = data[i + 1]
    BY <1>2 DEF Grew
  <2> HIDE DEF text, data, old
  <2>5. /\ text \o data \in Seq(PartBytes) /\ Len(text \o data) = old + Len(data)
        /\ \A i \in 1..(old + Len(data)) :
              (text \o data)[i] = IF i <= old THEN text[i] ELSE data[i - old]
    BY <2>1, <2>2, ConcatProperties
  <2>6. ASSUME NEW i \in 0..(step'.length - 1)
        PROVE  ByteOf(memory', step'.bytes, i) = StepText'[i + 1]
    <3>1. /\ old \in Nat /\ Len(data) \in Nat /\ i \in Nat
          /\ i < old + Len(data) /\ i + 1 \in 1..(old + Len(data))
      BY <1>1, <2>1, <2>4 DEF old
    <3>2. CASE i < old
      <4>1. i \in 0..(old - 1) /\ i + 1 <= old
        BY <3>1, <3>2
      <4> QED
        BY <2>2, <2>3, <2>4, <2>5, <3>1, <4>1
    <3>3. CASE ~(i < old)
      <4>1. PICK j : j = i - old
        OBVIOUS
      <4>2. j \in 0..(Len(data) - 1) /\ old + j = i /\ ~(i + 1 <= old) /\ (i + 1) - old = j + 1
        BY <3>1, <3>3, <4>1
      <4> QED
        BY <2>3, <2>4, <2>5, <3>1, <4>2
    <3> QED
      BY <3>2, <3>3
  <2>7. StepText' \in Seq(PartBytes) /\ step'.length = Len(StepText')
    BY <2>3, <2>4, <2>5
  <2> HIDE DEF room
  <2> QED
    BY <1>2, <2>6, <2>7 DEF StepRight
<1>3. CASE \E a, mem, at, size :
             /\ Return(a, mem, inner, "serve")
             /\ Kept(arena, step.bytes, room, memory, mem)
             /\ Moved(arena, step.bytes, room, a, at, size)
  <2>1. pc' # "report"
    BY <1>3 DEF Return
  <2> QED
    BY <2>1 DEF StepRight
<1> QED
  BY <1>2, <1>3, AssembleStepWays

LEMMA NextStep == LInv /\ StepRight /\ [Next]_vars => StepRight'
<1> SUFFICES ASSUME LInv, StepRight, [Next]_vars PROVE StepRight'
    OBVIOUS
<1>1. CASE AssembleStep
  BY <1>1, AssembleStepStep
<1>2. CASE StartReport
  <2>1. pc' = "report" /\ parts' = 0 /\ step'.length = 0
    BY <1>2 DEF StartReport, StringInit
  <2>2. Flat(StepParts, 0) = <<>>
    <3>1. StepParts \in Seq(Seq(PartBytes))
      BY LogAssumption DEF PartBytes
    <3> QED
      BY <3>1, FlatGrows
  <2>3. StepText' = <<>>
    BY <2>1, <2>2 DEF StepText
  <2>4. <<>> \in Seq(PartBytes) /\ Len(<<>>) = 0
    OBVIOUS
  <2> QED
    BY <2>1, <2>3, <2>4 DEF StepRight
<1>3. CASE UNCHANGED vars
  BY <1>3 DEF vars, StepRight, StepText
<1>4. CASE SetupTable \/ EndReport \/ Finish \/ \E l \in Logs : AppendLog(l) \/ ResetLog(l)
  <2>1. pc' # "report"
    BY <1>4 DEF SetupTable, EndReport, Finish, Return, AppendLog, ResetLog
  <2> QED
    BY <2>1 DEF StepRight
<1> QED
  BY <1>1, <1>2, <1>3, <1>4 DEF Next

\* The step a report prints is its parts one after the other and a NUL, wherever
\* the string moved while it was assembled (run.c 353-369).
THEOREM StepAssembled == Spec => []StepIsAssembled
<1>1. Init => StepRight
  BY DEF Init, StepRight
<1>2. LInv /\ StepRight => StepIsAssembled
  <2> SUFFICES ASSUME LInv, StepRight, pc = "report", parts > 0
               PROVE  Load(memory, step.bytes, step.length + 1) = Append(StepText, Nul)
    BY DEF StepIsAssembled, StepText, Flat
  <2> DEFINE at == step.bytes
             n == step.length
             text == StepText
             S == PartBytes \cup {Nul}
             loaded == Load(memory, at, n + 1)
             wanted == Append(text, Nul)
  <2>1. at \in Places /\ n \in Nat /\ n + 1 \in Nat
    BY StringTypes DEF LInv, TheStrings
  <2>2. /\ text \in Seq(PartBytes) /\ n = Len(text)
        /\ \A i \in 0..(n - 1) : ByteOf(memory, at, i) = text[i + 1]
        /\ ByteOf(memory, at, n) = Nul
    BY DEF StepRight
  <2> HIDE DEF at, n, text
  <2>3. /\ wanted \in Seq(S) /\ Len(wanted) = n + 1 /\ wanted[n + 1] = Nul
        /\ \A i \in 1..n : wanted[i] = text[i]
    <3>1. text \in Seq(S) /\ Nul \in S
      BY <2>2
    <3> QED
      BY <2>2, <3>1, AppendProperties
  <2>4. loaded = [i \in 1..(n + 1) |-> ByteOf(memory, at, i - 1)] /\ Len(loaded) = n + 1
    BY <2>1, LoadBytes
  <2>5. ASSUME NEW i \in 1..(n + 1)
        PROVE  ByteOf(memory, at, i - 1) = wanted[i]
    <3>1. CASE i = n + 1
      <4>1. i - 1 = n
        BY <2>1, <3>1
      <4> QED
        BY <2>2, <2>3, <3>1, <4>1
    <3>2. CASE i # n + 1
      <4>1. i \in 1..n /\ i - 1 \in 0..(n - 1) /\ (i - 1) + 1 = i
        BY <2>1, <3>2
      <4> QED
        BY <2>2, <2>3, <4>1
    <3> QED
      BY <3>1, <3>2
  <2> HIDE DEF wanted
  <2>6. loaded = [i \in 1..(n + 1) |-> wanted[i]]
    BY <2>4, <2>5
  <2>7. wanted = [i \in 1..(n + 1) |-> wanted[i]]
    BY <2>1, <2>3
  <2> QED
    BY <2>6, <2>7 DEF at, n, text, wanted
<1> QED
  BY <1>1, <1>2, LInvAlways, NextStep, PTL DEF Spec
=============================================================================
