--------------------------- MODULE TdoPosixProofs ---------------------------
(* Proofs about the POSIX runner, for any number of tests, slots, fixtures   *)
(* and faults: its counters and slots, the children that the slots watch,    *)
(* the abstract runner it implements, and what its results say.              *)
EXTENDS TdoPosixProperties, TdoLoopProofs

USE DEF Tests, Slots, LoopTypes

-----------------------------------------------------------------------------
(* Types. *)

LEMMA ProcessReaped ==
    \A p \in Process : [p EXCEPT !.reaped = TRUE] \in Process
  BY DEF Process

\* Giving up a slot keeps the types and frees that slot only.
LEMMA ReleaseType ==
    ASSUME StateTypes, NEW s \in Slots, runs[s].active, NEW result \in Verdict,
           Release(s, result)
    PROVE  /\ report' \in [Tests -> Seq(Verdict)]
           /\ tally' \in [Outcomes -> Nat]
           /\ any_failed' \in BOOLEAN
           /\ finished' \in Nat
           /\ running' \in Int
           /\ runs' \in [Slots -> Run]
           /\ Active' = Active \ {s}
           /\ \A r \in Slots : runs'[r].test = runs[r].test
           /\ pipe' \in [Tests -> Contents]
<1>1. runs[s].test \in Tests
  BY ActiveTest DEF Active, StateTypes
<1>2. ReportAll({runs[s].test}, result) /\ {runs[s].test} \in SUBSET Tests
  BY <1>1 DEF Release
<1>3. runs' \in [Slots -> Run] /\ \A r \in Slots : runs'[r].test = runs[r].test
  BY DEF Release, StateTypes, Run
<1>4. Active' = Active \ {s}
  BY DEF Release, StateTypes, Active, Run
<1>5. EmptyPipes \in Contents
  BY DEF EmptyPipes, Pipes, Streams, Contents
<1>6. pipe' \in [Tests -> Contents]
  BY <1>1, <1>5 DEF Release, StateTypes
<1>7. running' \in Int
  BY DEF Release, StateTypes
<1> QED
  BY <1>2, <1>3, <1>4, <1>6, <1>7, ReportAllType DEF StateTypes

\* Killing and waiting keep the processes in their type.
LEMMA KillType ==
    ASSUME StateTypes, NEW t \in Tests, Kill(t)
    PROVE  proc' \in [Tests -> Process]
<1>1. Killed(t) \in ProcessStates
  BY DEF Killed, StateTypes, Process, ProcessStates, Alive
<1> QED
  BY <1>1 DEF Kill, StateTypes, Process

-----------------------------------------------------------------------------
(* The steps of the children and of the clock. *)

LEMMA EnvironmentTypes ==
    ASSUME StateTypes, Environment
    PROVE  StateTypes'
<1>1. UNCHANGED <<pc, cursor, ready, clock, runs, started, finished, running,
                  tally, fork_failed, log_setup_failed, any_failed, report,
                  Active>>
  BY DEF Environment, loopVars, statusVars, Active
<1>2. ChildTyped' /\ overdue' \in overdue..NTests
  <2>1. LoopTypes /\ (Elapse \/ \E t \in Tests : ChildStep(t))
    BY DEF StateTypes, Environment
  <2>2. ChildTyped'
    BY <2>1, ChildTypes
  <2>3. overdue' = overdue \/ overdue' = overdue + 1
    BY <2>1, ChildActs DEF Elapse
  <2> QED
    BY <2>2, <2>3, TestsAssumption DEF ChildTyped, StateTypes
<1> QED
  BY <1>1, <1>2, TestsAssumption DEF ChildTyped, StateTypes
-----------------------------------------------------------------------------
(* The steps of the parent. *)

\* The logs of a slot are typed as the pipes are.
LEMMA LogType ==
    ASSUME NEW run \in Run, NEW k \in Pipes
    PROVE  run.log[k] \in Seq(Item)
<1>1. run.log \in [Pipes -> Seq(Item)]
  BY DEF Run, Contents
<1> QED
  BY <1>1

LEMMA LogUpdate ==
    \A run \in Run, k \in Pipes, items \in Seq(Item) :
        [run EXCEPT !.log = [run.log EXCEPT ![k] = items]] \in Run
  BY DEF Run, Contents

LEMMA StartTypes ==
    ASSUME StateTypes, StatusInit \/ Start
    PROVE  StateTypes'
<1> USE DEF childVars, loopVars, statusVars
<1>1. CASE StatusInit
  BY <1>1 DEF StatusInit, StateTypes, Active, ParentStates
<1>2. ASSUME NEW s \in Slots, pc = "start", CanStart, StartNew(s)
      PROVE  StateTypes'
  <2>1. started + 1 \in 0..NTests /\ started + 1 \in Tests /\ started + 1 \in 1..started'
    BY <1>2, TestsAssumption DEF StartNew, CanStart, StateTypes
  <2>2. EmptyLogs \in Contents
    BY DEF EmptyLogs, Contents
  <2>3. FilledSlot(s, started + 1) \in Run
    BY <2>1, <2>2 DEF FilledSlot, Run
  <2>4. runs' \in [Slots -> Run]
    BY <1>2, <2>3 DEF StartNew, StateTypes
  <2>5. proc' \in [Tests -> Process]
    <3>1. proc \in [Tests -> Process]
          /\ proc' = [proc EXCEPT ![started + 1] = [proc[started + 1] EXCEPT !.state = "running"]]
      BY <1>2 DEF StartNew, Fork, StateTypes
    <3>2. [proc[started + 1] EXCEPT !.state = "running"] \in Process
      BY <2>1, <3>1 DEF Process, ProcessStates
    <3> QED
      BY <3>1, <3>2
  <2>6. \A r \in Active' : runs'[r].test \in 1..started'
    <3>1. ASSUME NEW r \in Active', r # s
          PROVE  runs'[r].test \in 1..started'
      <4>1. r \in Active /\ runs'[r] = runs[r]
        BY <1>2, <3>1 DEF StartNew, StateTypes, Active
      <4> QED
        BY <1>2, <2>1, <4>1 DEF StartNew, StateTypes
    <3>2. runs'[s].test = started + 1
      BY <1>2 DEF StartNew, StateTypes, FilledSlot
    <3> QED
      BY <2>1, <3>1, <3>2
  <2>7. running' \in Int
    BY <1>2 DEF StartNew, StateTypes
  <2> QED
    BY <1>2, <2>1, <2>4, <2>5, <2>6, <2>7 DEF StartNew, StateTypes
<1>3. CASE StartFails
  BY <1>3 DEF StartFails, RestoreStarted, StateTypes, Active
<1>4. CASE Start /\ pc' = "aborted"
  BY <1>4 DEF Start, StartNew, StartFails, StateTypes, Active, ParentStates
<1> QED
  BY <1>1, <1>2, <1>3, <1>4 DEF Start

LEMMA PollTypes ==
    ASSUME StateTypes, Poll \/ PollFails
    PROVE  StateTypes'
<1> USE DEF childVars, loopVars, statusVars
<1>1. CASE Poll
  <2>1. ready' \subseteq Fds
    BY <1>1 DEF Poll
  <2> QED
    BY <1>1, <2>1 DEF Poll, StateTypes, Active, ParentStates
<1>2. CASE PollFails
  <2>1. {runs[s].test : s \in Active} \union Remaining \in SUBSET Tests
    BY ActiveTest DEF Remaining, StateTypes
  <2>2. ErrorVerdict("poll", NoStep) \in Verdict
    BY ErrorVerdictType DEF Causes
  <2>3. ReportAll({runs[s].test : s \in Active} \union Remaining,
                  ErrorVerdict("poll", NoStep))
    BY <1>2 DEF PollFails
  <2>4. runs' \in [Slots -> Run] /\ Active' = {}
    BY <1>2 DEF PollFails, StateTypes, Run, Active
  <2> HIDE DEF ReportAll
  <2> QED
    BY <1>2, <2>1, <2>2, <2>3, <2>4, ReportAllType
       DEF PollFails, StateTypes, ParentStates
<1> QED
  BY <1>1, <1>2

LEMMA EventTypes ==
    ASSUME StateTypes, NEW fd \in ready,
           SkipEvent(fd) \/ DrainEvent(fd) \/ DrainFails(fd)
    PROVE  StateTypes'
<1> USE DEF childVars, loopVars, statusVars
<1>1. /\ fd[1] \in Slots /\ PipeOf(fd) \in Pipes
      /\ ready' \subseteq Fds /\ pc' \in ParentStates \ {"limit"}
      /\ cursor' = cursor /\ clock' = clock
  <2>1. fd \in Fds /\ ready \subseteq Fds
    BY DEF StateTypes
  <2>2. fd[1] \in Slots /\ fd[2] \in 1..3
    BY <2>1 DEF Fds
  <2>3. PipeOf(fd) \in Pipes
    BY <2>2 DEF PipeOf, PipeOrder, Pipes, Streams
  <2> QED
    BY <2>1, <2>2, <2>3 DEF SkipEvent, DrainEvent, DrainFails, HandleFirst, ParentStates
<1>2. CASE SkipEvent(fd)
  BY <1>1, <1>2 DEF SkipEvent, StateTypes, Active
<1>3. CASE DrainEvent(fd)
  <2> DEFINE s == fd[1]
             k == PipeOf(fd)
             t == runs[s].test
  <2>1. t \in Tests
    BY <1>1, <1>3, ActiveTest DEF DrainEvent, Active, StateTypes
  <2>2. pipe[t][k] \in Seq(Item)
    BY <1>1, <2>1, PipeType DEF StateTypes
  <2>3. runs[s] \in Run
    BY <1>1 DEF StateTypes
  <2>4. runs[s].log[k] \o pipe[t][k] \in Seq(Item)
    <3>1. runs[s].log[k] \in Seq(Item)
      BY <1>1, <2>3, LogType
    <3> QED
      BY <2>2, <3>1
  <2>5. [runs[s] EXCEPT !.log = [runs[s].log EXCEPT ![k] = runs[s].log[k] \o pipe[t][k]]]
          \in Run
    BY <1>1, <2>3, <2>4, LogUpdate
  <2>6. runs' = [runs EXCEPT ![s] =
           [runs[s] EXCEPT !.log = [runs[s].log EXCEPT ![k] = runs[s].log[k] \o pipe[t][k]]]]
    BY <1>3 DEF DrainEvent
  <2>7. runs' \in [Slots -> Run]
    BY <1>1, <2>5, <2>6 DEF StateTypes
  <2>8. \A r \in Slots : runs'[r].active = runs[r].active /\ runs'[r].test = runs[r].test
    BY <1>1, <2>3, <2>6 DEF StateTypes, Run
  <2>9. Active' = Active
    BY <2>8 DEF Active
  <2>10. pipe' \in [Tests -> Contents]
    <3>1. <<>> \in Seq(Item)
      OBVIOUS
    <3> QED
      BY <1>1, <1>3, <2>1, <3>1, PipeUpdate DEF DrainEvent, StateTypes
  <2>11. \A r \in Active' : runs'[r].test \in 1..started'
    BY <1>3, <2>8, <2>9 DEF DrainEvent, StateTypes, Active
  <2> QED
    BY <1>1, <1>3, <2>7, <2>10, <2>11 DEF DrainEvent, StateTypes
<1>4. CASE DrainFails(fd)
  <2>1. PICK cause \in {"memory", "read"} \cap Faults :
          Release(fd[1], ErrorVerdict(cause, NoStep))
    BY <1>4 DEF DrainFails
  <2>2. ErrorVerdict(cause, NoStep) \in Verdict
    BY ErrorVerdictType DEF Causes
  <2>3. runs[fd[1]].active /\ runs[fd[1]].test \in Tests
    BY <1>1, <1>4, ActiveTest DEF DrainFails, Active, StateTypes
  <2>4. proc' \in [Tests -> Process]
    BY <1>4, <2>3, KillType DEF DrainFails
  <2>5. \A r \in Active' : runs'[r].test \in 1..started'
    BY <1>1, <1>4, <2>1, <2>2, <2>3, ReleaseType DEF DrainFails, StateTypes, Active
  <2> QED
    BY <1>1, <1>4, <2>1, <2>2, <2>3, <2>4, <2>5, ReleaseType DEF DrainFails, StateTypes
<1> QED
  BY <1>2, <1>3, <1>4

\* The slot of a child that can be waited for, read to the end, and its result.
LEMMA DrainedResult ==
    ASSUME StateTypes, NEW s \in Active, Waitable(runs[s].test)
    PROVE  /\ Drained(s) \in Run
           /\ \A granted \in Granted :
                 StatusVerdict(Drained(s), proc[runs[s].test].state, FALSE, granted)
                    \in Verdict
<1> DEFINE t == runs[s].test
           logs == [k \in Pipes |-> runs[s].log[k] \o pipe[t][k]]
<1>1. s \in Slots /\ t \in Tests /\ runs[s] \in Run
  BY ActiveTest DEF Active, StateTypes
<1>2. proc[t].state \in {"exited", "signalled", "stopped"}
  BY DEF Waitable, Ended, Stopped
<1>3. logs \in Contents
  <2>1. \A k \in Pipes : runs[s].log[k] \in Seq(Item)
    BY <1>1, LogType
  <2>2. \A k \in Pipes : pipe[t][k] \in Seq(Item)
    BY <1>1, PipeType DEF StateTypes
  <2> QED
    BY <2>1, <2>2 DEF Contents
<1>4. Drained(s) = [runs[s] EXCEPT !.log = logs]
  BY DEF Drained
<1> HIDE DEF logs
<1>5. Drained(s) \in Run /\ Drained(s).test \in Tests
  BY <1>1, <1>3, <1>4 DEF Run
<1> QED
  BY <1>2, <1>5, StatusVerdictType DEF Run

LEMMA WaitEndVerdict ==
    ASSUME StateTypes, WaitEnd
    PROVE  \E result \in Verdict : Release(cursor, result)
<1>1. cursor \in Active /\ Waitable(runs[cursor].test)
  BY DEF WaitEnd, Active, StateTypes
<1>2. \A granted \in Granted :
         StatusVerdict(Drained(cursor), proc[runs[cursor].test].state, FALSE, granted)
            \in Verdict
  BY <1>1, DrainedResult
<1>3. \A cause \in DrainFaults(runs[cursor].test) : ErrorVerdict(cause, NoStep) \in Verdict
  BY ErrorVerdictType DEF DrainFaults, Causes
<1> QED
  BY <1>2, <1>3 DEF WaitEnd

\* The result of a test that ran out of time.
LEMMA ExpiredResult ==
    ASSUME StateTypes, NEW s \in Active, NEW granted \in Granted
    PROVE  StatusVerdict(runs[s], "exited", TRUE, granted) \in Verdict
<1>1. runs[s] \in Run /\ runs[s].test \in Tests
  BY ActiveTest DEF Active, StateTypes
<1> QED
  BY <1>1, StatusVerdictType DEF Run

LEMMA ExpireVerdict ==
    ASSUME StateTypes, Expire
    PROVE  /\ cursor \in Slots /\ cursor \in Active
           /\ \E granted \in Granted :
                 /\ StatusVerdict(runs[cursor], "exited", TRUE, granted) \in Verdict
                 /\ Release(cursor, StatusVerdict(runs[cursor], "exited", TRUE, granted))
<1>1. cursor \in Slots /\ cursor \in Active
  BY DEF Expire, StateTypes, Active
<1>2. PICK granted \in Granted :
         Release(cursor, StatusVerdict(runs[cursor], "exited", TRUE, granted))
  BY DEF Expire, ReleaseExpired
<1> QED
  BY <1>1, <1>2, ExpiredResult

LEMMA SlotTypes ==
    ASSUME StateTypes,
           ReadClock \/ SkipSlot \/ WaitNone \/ WaitEnd \/ WithinLimit \/ Expire
    PROVE  StateTypes'
<1> USE DEF childVars, loopVars, statusVars
<1>1. ASSUME NextSlot
      PROVE  /\ pc' \in ParentStates \ {"limit"} /\ cursor' \in Slots
             /\ ready' = ready /\ clock' = clock
  BY <1>1, ProcessesAssumption DEF NextSlot, StateTypes, ParentStates
<1>2. CASE ReadClock
  BY <1>2, ProcessesAssumption
     DEF ReadClock, Transition, StateTypes, Active, ParentStates
<1>3. CASE SkipSlot
  BY <1>1, <1>3 DEF SkipSlot, StateTypes, Active
<1>4. CASE WaitNone
  BY <1>4 DEF WaitNone, Transition, StateTypes, Active, ParentStates
<1>5. CASE WithinLimit
  BY <1>1, <1>5 DEF WithinLimit, StateTypes, Active
<1>6. ASSUME cursor \in Slots, runs[cursor].active, NEW result \in Verdict,
             Release(cursor, result), NextSlot, proc' \in [Tests -> Process],
             UNCHANGED <<wrote, overdue, started, fork_failed, log_setup_failed>>
      PROVE  StateTypes'
  <2>1. \A r \in Active' : runs'[r].test \in 1..started'
    BY <1>6, ReleaseType DEF StateTypes, Active
  <2> QED
    BY <1>1, <1>6, <2>1, ReleaseType DEF StateTypes
<1>7. cursor \in Slots
  BY DEF StateTypes
<1>8. CASE WaitEnd
  <2> DEFINE t == runs[cursor].test
  <2>1. /\ runs[cursor].active /\ t \in Tests /\ runs[cursor] \in Run
        /\ Waitable(t) /\ Collect(t)
    BY <1>7, <1>8, ActiveTest DEF WaitEnd, Active, StateTypes
  <2>2. proc[t].state \in {"exited", "signalled", "stopped"}
    BY <2>1 DEF Waitable, Ended, Stopped
  <2>3. proc' \in [Tests -> Process]
    <3>1. CASE Stopped(t)
      BY <2>1, <3>1, KillType DEF Collect
    <3>2. CASE ~Stopped(t)
      <4>1. proc[t] \in Process
        BY <2>1 DEF StateTypes
      <4>2. [proc[t] EXCEPT !.reaped = TRUE] \in Process
        BY <4>1, ProcessReaped
      <4> QED
        BY <2>1, <3>2, <4>2 DEF Collect, StateTypes
    <3> QED
      BY <3>1, <3>2
  <2>4. PICK result \in Verdict : Release(cursor, result)
    BY <1>8, WaitEndVerdict
  <2> QED
    BY <1>6, <1>7, <1>8, <2>1, <2>3, <2>4 DEF WaitEnd
<1>9. CASE Expire
  <2> DEFINE t == runs[cursor].test
  <2>1. runs[cursor].active
    BY <1>9 DEF Expire, StateTypes
  <2>2. t \in Tests /\ runs[cursor] \in Run
    BY <1>7, <2>1, ActiveTest DEF Active, StateTypes
  <2>3. \E result \in Verdict : Release(cursor, result)
    BY <1>9, ExpireVerdict
  <2>4. proc' \in [Tests -> Process]
    BY <1>9, <2>2, KillType DEF Expire
  <2> QED
    BY <1>6, <1>7, <1>9, <2>1, <2>3, <2>4 DEF Expire
<1> QED
  BY <1>2, <1>3, <1>4, <1>5, <1>8, <1>9
-----------------------------------------------------------------------------
(* The inductive invariant. *)

\* poll fails for good in a run in which pipe or fork may fail as well.
NeverBoth == ~("poll" \in Faults /\ Faults \cap {"pipe", "fork"} # {})

\* Once a failing call made the loop report every test left, nothing is active
\* and the loop only runs to its end; a second report of the tests left is
\* possible only after a failed start.
GivenUp ==
    /\ Active = {}
    /\ finished >= NTests
    /\ running \in 0..Processes
    /\ pc \in {"clock", "slots", "check", "done"}
    /\ \A t \in Tests : report[t] # <<>>
    /\ NeverBoth => /\ \A t \in Tests : Len(report[t]) <= 1
                    /\ pc # "done" => ~fork_failed /\ ~log_setup_failed

IInv == /\ StateTypes
        /\ pc # "aborted"
        /\ fork_failed => "fork" \in Faults
        /\ log_setup_failed => "pipe" \in Faults
        /\ any_failed => SomeFailure
        /\ pc = "done" => finished >= NTests \/ (StopOnFirstError /\ any_failed)
        /\ Counting \/ GivenUp

LEMMA InitInv == Init => IInv
<1> SUFFICES ASSUME Init
             PROVE  IInv
  OBVIOUS
<1> USE DEF Init, ChildInit
<1>1. Active = {}
  BY DEF Active
<1>2. Cardinality({}) = 0
  BY FS_EmptySet
<1>3. StateTypes
  <2>1. NoProcess \in Process
    BY DEF NoProcess, Process, ProcessStates, NoStep, Step
  <2>2. EmptyPipes \in Contents /\ EmptyLogs \in Contents
    BY DEF EmptyPipes, EmptyLogs, Contents
  <2>3. proc \in [Tests -> Process] /\ pipe \in [Tests -> Contents]
    BY <2>1, <2>2
  <2>4. runs \in [Slots -> Run]
    BY <2>2, TestsAssumption DEF Run
  <2>5. wrote \in [Tests -> [Streams -> Nat]] /\ tally \in [Outcomes -> Nat]
    OBVIOUS
  <2>6. report \in [Tests -> Seq(Verdict)]
    OBVIOUS
  <2>7. /\ overdue \in 0..NTests /\ clock \in 0..overdue /\ started \in 0..NTests
        /\ cursor \in Slots
    BY TestsAssumption, ProcessesAssumption
  <2>8. pc \in ParentStates \ {"limit"} /\ ready \subseteq Fds
    BY DEF ParentStates
  <2>9. finished \in Nat /\ running \in Int
    OBVIOUS
  <2>10. /\ fork_failed \in BOOLEAN /\ log_setup_failed \in BOOLEAN
         /\ any_failed \in BOOLEAN
    OBVIOUS
  <2> HIDE DEF Init, ChildInit
  <2> QED
    BY <1>1, <2>3, <2>4, <2>5, <2>6, <2>7, <2>8, <2>9, <2>10 DEF StateTypes
<1>4. Counting
  BY <1>1, <1>2 DEF Counting
<1> QED
  BY <1>1, <1>3, <1>4 DEF IInv

-----------------------------------------------------------------------------
(* Every step keeps the types. *)

LEMMA CheckTypes ==
    ASSUME StateTypes, Check
    PROVE  StateTypes'
<1> USE DEF childVars
<1>1. /\ report' \in [Tests -> Seq(Verdict)]
      /\ tally' \in [Outcomes -> Nat]
      /\ any_failed' \in BOOLEAN
      /\ finished' \in Nat
  <2>1. CASE StartsFailed
    <3> DEFINE cause == IF fork_failed THEN "fork" ELSE "pipe"
    <3>1. ReportAll(Remaining, ErrorVerdict(cause, NoStep))
      BY <2>1 DEF Check
    <3>2. Remaining \in SUBSET Tests /\ ErrorVerdict(cause, NoStep) \in Verdict
      BY ErrorVerdictType DEF Remaining, Causes
    <3> QED
      BY <3>1, <3>2, ReportAllType DEF StateTypes
  <2>2. CASE ~StartsFailed
    BY <2>2 DEF Check, ReportNone, StateTypes
  <2> QED
    BY <2>1, <2>2
<1>2. pc' \in ParentStates \ {"limit"}
  BY DEF Check, LeaveOrLoop, ParentStates
<1>3. Active' = Active
  BY DEF Check, Active
<1> QED
  BY <1>1, <1>2, <1>3 DEF Check, StateTypes

LEMMA TypesStep ==
    ASSUME StateTypes, [Next]_vars
    PROVE  StateTypes'
<1>1. CASE UNCHANGED vars
  BY <1>1 DEF vars, childVars, loopVars, statusVars, StateTypes, Active
<1>2. CASE Terminated
  BY <1>1, <1>2 DEF Terminated
<1>3. CASE Environment
  BY <1>3, EnvironmentTypes
<1>4. CASE Parent
  BY <1>4, StartTypes, PollTypes, EventTypes, SlotTypes, CheckTypes DEF Parent
<1> QED
  BY <1>1, <1>2, <1>3, <1>4 DEF Next

-----------------------------------------------------------------------------
(* What a step does to the counters and the results. *)

LEMMA QuietSteps ==
    ASSUME StateTypes,
           \/ UNCHANGED vars \/ Environment \/ StatusInit
           \/ (Start /\ Active = Slots) \/ Poll
           \/ \E fd \in ready : SkipEvent(fd) \/ DrainEvent(fd)
           \/ ReadClock \/ SkipSlot \/ WaitNone \/ WithinLimit
    PROVE  CountersKept
<1>1. CASE \E fd \in ready : DrainEvent(fd)
  <2>1. PICK fd \in ready : DrainEvent(fd)
    BY <1>1
  <2>2. fd[1] \in Slots
    BY <2>1 DEF StateTypes, Fds
  <2>3. \A s \in Slots : runs[s] \in Run
    BY DEF StateTypes
  <2>4. \A s \in Slots : /\ runs'[s].active = runs[s].active
                         /\ runs'[s].test = runs[s].test
    BY <2>1, <2>2, <2>3 DEF DrainEvent, StateTypes, Run
  <2> QED
    BY <2>1, <2>4 DEF CountersKept, DrainEvent, statusVars
<1>2. CASE UNCHANGED <<statusVars, report, runs>>
  BY <1>2 DEF CountersKept
<1> QED
  BY <1>1, <1>2
     DEF vars, loopVars, statusVars, Environment, StatusInit, Start, Poll, SkipEvent,
         ReadClock, SkipSlot, WaitNone, WithinLimit

\* Starting a test and giving one up are what the shared proofs say of them.
LEMMA StartFills ==
    ASSUME StateTypes, NEW s \in Slots, StartNew(s)
    PROVE  Filled(s)
  BY DEF StartNew, FilledSlot, FirstFree, StateTypes, Filled

LEMMA ReleaseReleases ==
    ASSUME StateTypes, NEW s \in Slots, runs[s].active, NEW result \in Verdict,
           Release(s, result), UNCHANGED started
    PROVE  Released(s, result)
  BY ReleaseType DEF Released, Release, StateTypes, Active, Run

\* The steps that report the test of one slot.
LEMMA ReleaseSteps ==
    ASSUME StateTypes, WaitEnd \/ Expire \/ \E fd \in ready : DrainFails(fd)
    PROVE  /\ \E s \in Slots : \E result \in Verdict :
                 runs[s].active /\ Release(s, result)
           /\ UNCHANGED <<started, fork_failed, log_setup_failed>>
<1>1. CASE WaitEnd
  <2>1. cursor \in Slots /\ runs[cursor].active
    BY <1>1 DEF WaitEnd, StateTypes
  <2> QED
    BY <1>1, <2>1, WaitEndVerdict DEF WaitEnd
<1>2. CASE Expire
  <2> QED
    BY <1>2, ExpireVerdict DEF Expire, Active
<1>3. CASE \E fd \in ready : DrainFails(fd)
  <2>1. PICK fd \in ready : DrainFails(fd)
    BY <1>3
  <2>2. fd[1] \in Slots /\ runs[fd[1]].active
    BY <2>1 DEF DrainFails, StateTypes, Fds
  <2>3. PICK cause \in {"memory", "read"} \cap Faults :
          Release(fd[1], ErrorVerdict(cause, NoStep))
    BY <2>1 DEF DrainFails
  <2>4. ErrorVerdict(cause, NoStep) \in Verdict
    BY ErrorVerdictType DEF Causes
  <2> QED
    BY <2>1, <2>2, <2>3, <2>4 DEF DrainFails
<1> QED
  BY <1>1, <1>2, <1>3
\* Once every test left was reported, only the way to the end of the loop is open.
LEMMA GivenUpStep ==
    ASSUME StateTypes, GivenUp, [Next]_vars
    PROVE  GivenUp'
<1>1. /\ Active = {}
      /\ \A s \in Slots : ~runs[s].active
      /\ pc \in {"clock", "slots", "check", "done"}
      /\ cursor \in Slots /\ ready \subseteq Fds
  BY DEF GivenUp, Active, StateTypes
<1>2. \/ UNCHANGED vars \/ Environment \/ ReadClock \/ SkipSlot
      \/ Check
  <2>1. \A fd \in ready : ~SkipEvent(fd) /\ ~DrainEvent(fd) /\ ~DrainFails(fd)
    BY <1>1 DEF SkipEvent, DrainEvent, DrainFails, HandleFirst
  <2>2. ~StatusInit /\ ~Start /\ ~Poll /\ ~PollFails /\ ~WithinLimit /\ ~Expire
    BY <1>1 DEF StatusInit, Start, Poll, PollFails, WithinLimit, Expire
  <2>3. ~WaitNone /\ ~WaitEnd
    BY <1>1 DEF WaitNone, WaitEnd
  <2> QED
    BY <2>1, <2>2, <2>3 DEF Next, Parent, Terminated
<1>3. CASE UNCHANGED vars \/ Environment \/ ReadClock \/ SkipSlot
  <2>1. CountersKept
    BY <1>3, QuietSteps
  <2>2. pc' \in {"clock", "slots", "check", "done"} /\ (pc' = "done" => pc = "done")
    BY <1>1, <1>3 DEF vars, loopVars, Environment, ReadClock, Transition, SkipSlot,
                      NextSlot
  <2>3. Active' = {}
    BY <1>1, <2>1 DEF CountersKept, Active
  <2>4. pc' # "done" => pc # "done"
    BY <1>3 DEF vars, loopVars, Environment, ReadClock, Transition, SkipSlot
  <2> QED
    BY <2>1, <2>2, <2>3, <2>4 DEF GivenUp, CountersKept, statusVars
<1>4. CASE Check
  <2> DEFINE result == ErrorVerdict(IF fork_failed THEN "fork" ELSE "pipe", NoStep)
  <2>1. /\ Active' = Active /\ running' = running
        /\ fork_failed' = fork_failed /\ log_setup_failed' = log_setup_failed
        /\ pc = "check"
    BY <1>4 DEF Check, Active
  <2>2. \/ ReportAll(Remaining, result)
        \/ ReportNone /\ UNCHANGED <<report, finished>>
    BY <1>4 DEF Check, ReportNone
  <2>3. finished' >= NTests
    <3>1. Cardinality(Remaining) \in Nat
      BY TestsFinite DEF Remaining
    <3> QED
      BY <2>2, <3>1, TestsAssumption DEF ReportAll, GivenUp, StateTypes
  <2>4. pc' = "done"
    BY <1>4, <2>3 DEF Check, LeaveOrLoop
  <2>5. \A t \in Tests : report'[t] # <<>>
    <3>1. ASSUME NEW t \in Tests
          PROVE  report'[t] # <<>>
      <4>1. report[t] # <<>> /\ report[t] \in Seq(Verdict)
        BY DEF GivenUp, StateTypes
      <4>2. Append(report[t], result) # <<>>
        BY <4>1
      <4> HIDE DEF result
      <4> QED
        BY <2>2, <4>1, <4>2 DEF ReportAll
    <3> QED
      BY <3>1
  <2>6. NeverBoth => \A t \in Tests : Len(report'[t]) <= 1
    <3>1. NeverBoth => ~StartsFailed
      BY <2>1 DEF GivenUp, StartsFailed
    <3>2. NeverBoth => report' = report
      BY <1>4, <3>1 DEF Check, ReportNone
    <3> QED
      BY <3>2 DEF GivenUp
  <2> QED
    BY <2>1, <2>3, <2>4, <2>5, <2>6 DEF GivenUp
<1> QED
  BY <1>2, <1>3, <1>4

\* Before that, every step keeps the count or reports every test left.
LEMMA CountingStep ==
    ASSUME StateTypes, Counting, [Next]_vars, pc # "aborted",
           fork_failed => "fork" \in Faults,
           log_setup_failed => "pipe" \in Faults
    PROVE  (Counting' /\ pc' # "aborted") \/ GivenUp'
<1>1. running \in 0..Processes /\ ~(CanStart /\ Active = Slots)
  BY ActiveCount, ProcessesAssumption DEF Counting, CanStart
<1>2. ASSUME \/ UNCHANGED vars \/ Environment \/ StatusInit \/ Poll
             \/ \E fd \in ready : SkipEvent(fd) \/ DrainEvent(fd)
             \/ ReadClock \/ SkipSlot \/ WaitNone \/ WithinLimit
      PROVE  Counting' /\ pc' # "aborted"
  <2>1. CountersKept
    BY <1>2, QuietSteps
  <2>2. Counting'
    BY <2>1, CountingKept DEF CountersKept, statusVars, StateTypes
  <2>3. pc' # "aborted"
    BY <1>2 DEF vars, loopVars, Environment, StatusInit, Poll, SkipEvent, DrainEvent,
                HandleFirst, ReadClock, Transition, SkipSlot, WaitNone, WithinLimit, NextSlot
  <2> QED
    BY <2>2, <2>3
<1>3. CASE Start
  <2>1. pc' = pc
    BY <1>1, <1>3 DEF Start, StartNew, StartFails, loopVars
  <2>2. CASE \E s \in Slots : StartNew(s)
    BY <1>3, <2>1, <2>2, StartFills, CountingStart DEF Start, StateTypes
  <2>3. CASE StartFails
    BY <2>1, <2>3, CountingKept DEF StartFails, RestoreStarted, StateTypes
  <2> QED
    BY <1>1, <1>3, <2>2, <2>3 DEF Start
<1>4. CASE WaitEnd \/ Expire \/ \E fd \in ready : DrainFails(fd)
  <2>1. PICK s \in Slots : \E result \in Verdict :
           runs[s].active /\ Release(s, result)
    BY <1>4, ReleaseSteps
  <2>2. PICK result \in Verdict : runs[s].active /\ Release(s, result)
    BY <2>1
  <2>3. UNCHANGED started
    BY <1>4, ReleaseSteps
  <2>4. pc' # "aborted"
    BY <1>4 DEF WaitEnd, Expire, DrainFails, HandleFirst, NextSlot
  <2> QED
    BY <2>2, <2>3, <2>4, ReleaseReleases, CountingRelease DEF StateTypes
<1>5. CASE PollFails
  <2> DEFINE S == {runs[s].test : s \in Active} \union Remaining
  <2>1. S \in SUBSET Tests
    BY ActiveTest DEF Remaining, StateTypes
  <2>2. ReportAll(S, ErrorVerdict("poll", NoStep))
    BY <1>5 DEF PollFails
  <2>3. ErrorVerdict("poll", NoStep) \in Verdict
    BY ErrorVerdictType DEF Causes
  <2>4. finished' = NTests /\ \A t \in Tests : report'[t] # <<>> /\ Len(report'[t]) <= 1
    BY <2>1, <2>2, <2>3, GivingUp DEF StateTypes
  <2>5. Active' = {}
    BY <1>5 DEF PollFails, Active
  <2>6. /\ "poll" \in Faults /\ pc' = "clock" /\ running' = running
        /\ fork_failed' = fork_failed /\ log_setup_failed' = log_setup_failed
    BY <1>5 DEF PollFails
  <2>7. NeverBoth => ~fork_failed' /\ ~log_setup_failed'
    BY <2>6 DEF NeverBoth
  <2>8. finished' >= NTests
    BY <2>4, TestsAssumption
  <2> QED
    BY <1>1, <2>4, <2>5, <2>6, <2>7, <2>8 DEF GivenUp
<1>6. CASE Check /\ StartsFailed
  <2> DEFINE result == ErrorVerdict(IF fork_failed THEN "fork" ELSE "pipe", NoStep)
  <2>1. Active = {} /\ running = 0
    BY <1>6, ActiveCount DEF StartsFailed, Counting
  <2>2. ReportAll(Remaining, result) /\ result \in Verdict
        /\ Remaining \in SUBSET Tests
    BY <1>6, ErrorVerdictType DEF Check, Causes, Remaining
  <2>3. Remaining = {runs[s].test : s \in Active} \union Remaining
    BY <2>1
  <2> HIDE DEF result
  <2>4. finished' = NTests /\ \A t \in Tests : report'[t] # <<>> /\ Len(report'[t]) <= 1
    BY <2>2, <2>3, GivingUp DEF StateTypes
  <2>5. finished' >= NTests
    BY <2>4, TestsAssumption
  <2>6. pc' = "done"
    BY <1>6, <2>5 DEF Check, LeaveOrLoop
  <2>7. Active' = Active /\ running' = running
    BY <1>6 DEF Check, Active
  <2> QED
    BY <1>1, <2>1, <2>4, <2>5, <2>6, <2>7 DEF GivenUp
<1>7. CASE Check /\ ~StartsFailed
  <2>1. Counting'
    BY <1>7, CountingKept DEF Check, ReportNone, StateTypes
  <2> QED
    BY <1>7, <2>1 DEF Check, LeaveOrLoop
<1> QED
  BY <1>2, <1>3, <1>4, <1>5, <1>6, <1>7 DEF Next, Parent, Terminated
\* Every step leaves the results alone or reports some tests.
LEMMA ReportSteps ==
    ASSUME StateTypes, [Next]_vars
    PROVE  \/ UNCHANGED <<report, any_failed, finished, tally>>
           \/ \E S \in SUBSET Tests : \E result \in Verdict : ReportAll(S, result)
<1>1. CASE CountersKept
  BY <1>1 DEF CountersKept, statusVars
<1>2. CASE Start
  BY <1>2 DEF Start, StartNew, StartFails, statusVars
<1>3. CASE WaitEnd \/ Expire \/ \E fd \in ready : DrainFails(fd)
  <2>1. PICK s \in Slots : \E result \in Verdict :
           runs[s].active /\ Release(s, result)
    BY <1>3, ReleaseSteps
  <2>2. PICK result \in Verdict : runs[s].active /\ Release(s, result)
    BY <2>1
  <2>3. {runs[s].test} \in SUBSET Tests
    BY <2>2, ActiveTest DEF Active, StateTypes
  <2> QED
    BY <2>2, <2>3 DEF Release
<1>4. CASE PollFails
  <2>1. {runs[s].test : s \in Active} \union Remaining \in SUBSET Tests
    BY ActiveTest DEF Remaining, StateTypes
  <2>2. ErrorVerdict("poll", NoStep) \in Verdict
    BY ErrorVerdictType DEF Causes
  <2> QED
    BY <1>4, <2>1, <2>2 DEF PollFails
<1>5. CASE Check
  <2>1. Remaining \in SUBSET Tests
    BY DEF Remaining
  <2>2. ErrorVerdict(IF fork_failed THEN "fork" ELSE "pipe", NoStep) \in Verdict
    BY ErrorVerdictType DEF Causes
  <2> QED
    BY <1>5, <2>1, <2>2 DEF Check, ReportNone
<1> QED
  BY <1>1, <1>2, <1>3, <1>4, <1>5, QuietSteps DEF Next, Parent, Terminated

\* The loop is left only when all tests are counted, or for -x.
LEMMA DoneSteps ==
    ASSUME StateTypes, [Next]_vars,
           pc = "done" => finished >= NTests \/ (StopOnFirstError /\ any_failed)
    PROVE  pc' = "done" => finished' >= NTests \/ (StopOnFirstError /\ any_failed')
<1>1. CASE Check
  BY <1>1 DEF Check, LeaveOrLoop
<1>2. CASE StatusInit
  BY <1>2, TestsAssumption DEF StatusInit, statusVars, StateTypes
<1>3. CASE UNCHANGED vars \/ Environment
  BY <1>3 DEF vars, statusVars, loopVars, Environment
<1>4. CASE Parent /\ ~Check /\ ~StatusInit
  <2>1. pc' # "done"
    BY <1>4 DEF Parent, Start, StartNew, StartFails, loopVars, Poll, PollFails,
                SkipEvent, DrainEvent, DrainFails, HandleFirst, ReadClock, Transition,
                SkipSlot, WaitNone, WaitEnd, WithinLimit, Expire, NextSlot
  <2> QED
    BY <2>1
<1> QED
  BY <1>1, <1>2, <1>3, <1>4 DEF Next, Terminated

\* A start that failed is one the environment made fail.
LEMMA FaultSteps ==
    ASSUME StateTypes, [Next]_vars,
           fork_failed => "fork" \in Faults,
           log_setup_failed => "pipe" \in Faults
    PROVE  /\ fork_failed' => "fork" \in Faults
           /\ log_setup_failed' => "pipe" \in Faults
<1>1. CASE CountersKept
  BY <1>1 DEF CountersKept, statusVars
<1>2. CASE Start /\ Active # Slots
  BY <1>2 DEF Start, StartNew, StartFails
<1>3. CASE WaitEnd \/ Expire \/ \E fd \in ready : DrainFails(fd)
  BY <1>3, ReleaseSteps
<1>4. CASE PollFails \/ Check
  BY <1>4 DEF PollFails, Check
<1> QED
  BY <1>1, <1>2, <1>3, <1>4, QuietSteps DEF Next, Parent, Terminated

LEMMA InvStep == IInv /\ [Next]_vars => IInv'
<1> SUFFICES ASSUME IInv, [Next]_vars
             PROVE  IInv'
  OBVIOUS
<1>1. /\ StateTypes /\ pc # "aborted" /\ (Counting \/ GivenUp)
      /\ fork_failed => "fork" \in Faults
      /\ log_setup_failed => "pipe" \in Faults
      /\ any_failed => SomeFailure
      /\ pc = "done" => finished >= NTests \/ (StopOnFirstError /\ any_failed)
  BY DEF IInv
<1>2. StateTypes'
  BY <1>1, TypesStep
<1>3. (Counting \/ GivenUp)' /\ pc' # "aborted"
  <2>1. GivenUp => pc # "aborted"
    BY DEF GivenUp
  <2>2. GivenUp' => pc' # "aborted"
    BY DEF GivenUp
  <2>3. CASE Counting
    BY <1>1, <2>2, <2>3, CountingStep
  <2>4. CASE GivenUp
    BY <1>1, <2>2, <2>4, GivenUpStep
  <2> QED
    BY <1>1, <2>3, <2>4
<1>4. any_failed' => SomeFailure'
  <2>1. CASE UNCHANGED <<report, any_failed, finished, tally>>
    BY <1>1, <2>1 DEF SomeFailure
  <2>2. CASE \E S \in SUBSET Tests : \E result \in Verdict : ReportAll(S, result)
    <3>1. PICK S \in SUBSET Tests : \E result \in Verdict : ReportAll(S, result)
      BY <2>2
    <3>2. PICK result \in Verdict : ReportAll(S, result)
      BY <3>1
    <3> QED
      BY <1>1, <3>2, FailureKept DEF StateTypes
  <2> QED
    BY <1>1, <2>1, <2>2, ReportSteps
<1>5. /\ fork_failed' => "fork" \in Faults
      /\ log_setup_failed' => "pipe" \in Faults
  BY <1>1, FaultSteps
<1>6. pc' = "done" => finished' >= NTests \/ (StopOnFirstError /\ any_failed')
  BY <1>1, DoneSteps
<1> QED
  BY <1>2, <1>3, <1>4, <1>5, <1>6 DEF IInv

LEMMA Invariant == Spec => []IInv
  BY InitInv, InvStep, PTL DEF Spec

-----------------------------------------------------------------------------
(* The theorems about the counters. *)

\* running counts the active slots, so the unsigned counter of the code
\* neither wraps nor exceeds -j, and every variable keeps its type.
THEOREM TypeCorrect == Spec => []TypeOK
<1>1. IInv => TypeOK
  BY ActiveCount DEF IInv, TypeOK, Counting, GivenUp
<1> QED
  BY <1>1, Invariant, PTL

\* tdo_run_all never finds all slots taken when it starts a test: it does not
\* abort, whatever calls fail.
THEOREM SlotAlwaysFree == Spec => []NeverAborts
<1>1. IInv => NeverAborts
  BY DEF IInv, NeverAborts
<1> QED
  BY <1>1, Invariant, PTL

\* No test gets a second result, provided poll does not fail for good in a run
\* in which pipe or fork fails too.
THEOREM ReportedOnce ==
    ASSUME NeverBoth
    PROVE  Spec => []ReportedAtMostOnce
<1>1. IInv => ReportedAtMostOnce
  BY DEF IInv, ReportedAtMostOnce, Counting, GivenUp
<1> QED
  BY <1>1, Invariant, PTL

LEMMA AllReported ==
    ASSUME StateTypes, Counting \/ GivenUp, finished >= NTests
    PROVE  \A t \in Tests : report[t] # <<>>
<1>1. CASE Counting
  BY <1>1, CountedAll DEF StateTypes
<1>2. CASE GivenUp
  BY <1>2 DEF GivenUp
<1> QED
  BY <1>1, <1>2, Zenon

\* The loop is not left before every test has a result, but for a failure
\* under -x.
THEOREM NothingForgotten == Spec => []NoTestForgotten
<1>1. ASSUME IInv, finished >= NTests
      PROVE  \A t \in Tests : report[t] # <<>>
  BY <1>1, AllReported DEF IInv
<1>2. IInv => NoTestForgotten
  <2> SUFFICES ASSUME IInv, pc = "done", ~(finished >= NTests)
               PROVE  /\ StopOnFirstError
                      /\ \E t \in Tests : \E v \in Verdicts(t) :
                            v.outcome \in Failures
    BY <1>1 DEF NoTestForgotten
  <2>1. StopOnFirstError /\ SomeFailure
    BY DEF IInv
  <2> QED
    BY <2>1, FailureFound
<1> QED
  BY <1>2, Invariant, PTL
-----------------------------------------------------------------------------
(* The counters of the summary. *)

LEMMA AccountsInit == Init => Accounts
  BY AccountsBegin DEF Init

LEMMA AccountsStep ==
    ASSUME StateTypes, Accounts, [Next]_vars
    PROVE  Accounts'
<1>1. CASE UNCHANGED <<report, any_failed, finished, tally>>
  BY <1>1 DEF Accounts, Reported, ReportedAs
<1>2. CASE \E S \in SUBSET Tests : \E result \in Verdict : ReportAll(S, result)
  BY <1>2, AccountsReport DEF StateTypes
<1> QED
  BY <1>1, <1>2, ReportSteps

LEMMA AccountsAlways == Spec => [](IInv /\ Accounts)
<1>1. IInv => StateTypes
  BY DEF IInv
<1> QED
  BY <1>1, AccountsInit, AccountsStep, Invariant, PTL DEF Spec

\* The summary's counters agree with the results at all times, and with the
\* slots while the loop goes on.
THEOREM AccountsBalanced == Spec => []AccountsBalance
<1>1. IInv /\ Accounts => AccountsBalance
  <2>1. Counting /\ StateTypes => running = Cardinality(Active) /\ started = finished + running
    BY ActiveCount, ProcessesAssumption DEF Counting, StateTypes
  <2>2. GivenUp /\ StateTypes => ~(finished < NTests)
    BY TestsAssumption DEF GivenUp, StateTypes
  <2> QED
    BY <2>1, <2>2 DEF IInv, Accounts, AccountsBalance
<1> QED
  BY <1>1, AccountsAlways, PTL

\* Under -x the loop does not come back to its start after a failure.
NoMoreStarts == StopOnFirstError /\ any_failed => pc \notin {"init", "start"}

LEMMA NoMoreStartsStep ==
    ASSUME NoMoreStarts, StateTypes, [Next]_vars
    PROVE  NoMoreStarts'
<1>1. CASE UNCHANGED vars \/ Environment \/ Terminated
  BY <1>1 DEF NoMoreStarts, vars, Environment, Terminated, loopVars, statusVars
<1>2. CASE StatusInit \/ Start \/ Poll
  BY <1>2 DEF NoMoreStarts, StatusInit, Start, StartNew, StartFails, Poll, loopVars,
              statusVars
<1>3. CASE Check
  BY <1>3, StopAssumption DEF NoMoreStarts, Check, LeaveOrLoop
<1>4. CASE Parent /\ ~Check /\ ~StatusInit /\ ~Start /\ ~Poll
  <2>1. pc' \notin {"init", "start"}
    BY <1>4 DEF Parent, PollFails, SkipEvent, DrainEvent, DrainFails, HandleFirst,
                ReadClock, Transition, SkipSlot, WaitNone, WaitEnd, WithinLimit,
                Expire, NextSlot
  <2> QED
    BY <2>1 DEF NoMoreStarts
<1> QED
  BY <1>1, <1>2, <1>3, <1>4 DEF Next, Parent

LEMMA NoMoreStartsAlways == Spec => []NoMoreStarts
<1>1. Init => NoMoreStarts
  BY DEF Init, NoMoreStarts
<1>2. IInv => StateTypes
  BY DEF IInv
<1> QED
  BY <1>1, <1>2, NoMoreStartsStep, Invariant, PTL DEF Spec

\* -x: no test is started once a failure was reported.
THEOREM NothingStartedAfterFailure == Spec => NoStartAfterFailure
<1>1. NoMoreStarts /\ StateTypes /\ [Next]_vars =>
        [StopOnFirstError /\ any_failed => started' = started]_<<started, any_failed>>
  <2> SUFFICES ASSUME NoMoreStarts, StateTypes, [Next]_vars, StopOnFirstError, any_failed
               PROVE  started' = started
    OBVIOUS
  <2>1. ~Start
    BY DEF NoMoreStarts, Start
  <2>2. CASE WaitEnd \/ Expire \/ \E fd \in ready : DrainFails(fd)
    BY <2>2, ReleaseSteps
  <2>3. CASE PollFails \/ Check
    BY <2>3 DEF PollFails, Check
  <2>4. CASE CountersKept
    BY <2>4 DEF CountersKept, statusVars
  <2> QED
    BY <2>1, <2>2, <2>3, <2>4, QuietSteps DEF Next, Parent, Terminated
<1>2. IInv => StateTypes
  BY DEF IInv
<1> QED
  BY <1>1, <1>2, NoMoreStartsAlways, Invariant, PTL DEF Spec, NoStartAfterFailure
-----------------------------------------------------------------------------
(* The steps, sorted by what they do to the children and the slots. *)

\* The parent gives up slot s: its child ended, timed out, or could not be read.
GivesUp(s, result) ==
    /\ s \in Active /\ result \in Verdict
    /\ Release(s, result)
    /\ UNCHANGED <<wrote, overdue, started>>
    /\ \/ /\ result \in {ErrorVerdict("memory", NoStep), ErrorVerdict("read", NoStep)}
          /\ \/ Kill(TestOf(s))
             \/ Waitable(TestOf(s)) /\ Collect(TestOf(s))
       \/ /\ \E granted \in Granted :
                result = StatusVerdict(Drained(s), proc[TestOf(s)].state, FALSE, granted)
          /\ Waitable(TestOf(s)) /\ Collect(TestOf(s))
       \/ /\ \E granted \in Granted :
                result = StatusVerdict(runs[s], "exited", TRUE, granted)
          /\ pc = "limit" /\ s = cursor /\ OverLimit(s)
          /\ Kill(TestOf(s))

ParentAlone == UNCHANGED <<loopVars, statusVars, runs, report>>
SlotsKept == UNCHANGED <<childVars, runs, started>>

\* A slot's limit is looked at once waitpid returned nothing for its child.
LimitKept == pc' = "limit" => WaitNone \/ UNCHANGED <<pc, cursor, clock>>

\* The tests left after a failed start are reported together.
RestReported ==
    \E cause \in {"fork", "pipe"} : ReportAll(Remaining, ErrorVerdict(cause, NoStep))

LEMMA GiveUpSteps ==
    ASSUME StateTypes, WaitEnd \/ Expire \/ \E fd \in ready : DrainFails(fd)
    PROVE  \E s \in Slots : \E result : GivesUp(s, result) /\ pc' # "limit"
<1>1. CASE WaitEnd
  <2>1. cursor \in Slots /\ cursor \in Active
    BY <1>1 DEF WaitEnd, StateTypes, Active
  <2>2. UNCHANGED <<wrote, overdue, started>> /\ Waitable(TestOf(cursor))
        /\ Collect(TestOf(cursor)) /\ pc' # "limit"
    BY <1>1 DEF WaitEnd, NextSlot, TestOf
  <2>3. PICK result \in Verdict :
           /\ Release(cursor, result)
           /\ \/ \E granted \in Granted :
                    result = StatusVerdict(Drained(cursor), proc[TestOf(cursor)].state,
                                           FALSE, granted)
              \/ result \in {ErrorVerdict("memory", NoStep), ErrorVerdict("read", NoStep)}
    <3>1. CASE \E granted \in Granted :
                  Release(cursor, StatusVerdict(Drained(cursor),
                                     proc[runs[cursor].test].state, FALSE, granted))
      BY <2>1, <2>2, <3>1, DrainedResult DEF TestOf
    <3>2. CASE \E cause \in DrainFaults(runs[cursor].test) :
                  Release(cursor, ErrorVerdict(cause, NoStep))
      BY <3>2, ErrorVerdictType DEF DrainFaults, Causes
    <3> QED
      BY <1>1, <3>1, <3>2 DEF WaitEnd
  <2> QED
    BY <2>1, <2>2, <2>3 DEF GivesUp
<1>2. CASE Expire
  <2>1. pc' # "limit" /\ Kill(TestOf(cursor)) /\ OverLimit(cursor) /\ pc = "limit"
        /\ UNCHANGED <<wrote, overdue, started>>
    BY <1>2 DEF Expire, NextSlot, TestOf
  <2> QED
    BY <1>2, <2>1, ExpireVerdict DEF GivesUp
<1>3. CASE \E fd \in ready : DrainFails(fd)
  <2>1. PICK fd \in ready : DrainFails(fd)
    BY <1>3
  <2>2. fd[1] \in Slots /\ fd[1] \in Active
    BY <2>1 DEF DrainFails, StateTypes, Fds, Active
  <2>3. PICK cause \in {"memory", "read"} : Release(fd[1], ErrorVerdict(cause, NoStep))
    BY <2>1 DEF DrainFails
  <2>4. ErrorVerdict(cause, NoStep) \in Verdict
    BY ErrorVerdictType DEF Causes
  <2> QED
    BY <2>1, <2>2, <2>3, <2>4 DEF DrainFails, GivesUp, HandleFirst, TestOf
<1> QED
  BY <1>1, <1>2, <1>3

LEMMA StepsSorted ==
    ASSUME StateTypes, [Next]_vars
    PROVE  \/ SlotsKept /\ LimitKept /\ (report' = report \/ RestReported)
           \/ (\E t \in Tests : ChildStep(t)) /\ ParentAlone
           \/ Elapse /\ ParentAlone
           \/ pc = "start" /\ CanStart /\ (\E s \in Slots : StartNew(s)) /\ UNCHANGED loopVars
           \/ \E fd \in ready : DrainEvent(fd)
           \/ \E s \in Slots : \E result : GivesUp(s, result) /\ pc' # "limit"
           \/ PollFails
<1> USE DEF SlotsKept, LimitKept, childVars, statusVars
<1>1. CASE UNCHANGED vars \/ Terminated
  BY <1>1 DEF vars, loopVars, Terminated
<1>2. CASE Environment
  BY <1>2 DEF Environment, ParentAlone
<1>3. CASE StatusInit \/ Poll
  BY <1>3 DEF StatusInit, Poll
<1>4. CASE Start
  <2>1. CASE \E s \in Slots : StartNew(s)
    BY <1>4, <2>1 DEF Start, StartNew
  <2>2. CASE StartFails
    BY <2>2 DEF StartFails, RestoreStarted, loopVars
  <2>3. CASE Active = Slots
    BY <1>4, <2>3 DEF Start
  <2> QED
    BY <1>4, <2>1, <2>2, <2>3 DEF Start
<1>5. CASE \E fd \in ready : SkipEvent(fd)
  BY <1>5 DEF SkipEvent, HandleFirst
<1>6. CASE ReadClock \/ SkipSlot \/ WaitNone \/ WithinLimit
  BY <1>6 DEF ReadClock, SkipSlot, WaitNone, WithinLimit, NextSlot, Transition
<1>7. CASE WaitEnd \/ Expire \/ \E fd \in ready : DrainFails(fd)
  BY <1>7, GiveUpSteps
<1>8. CASE Check
  BY <1>8 DEF Check, LeaveOrLoop, ReportNone, RestReported
<1> QED
  BY <1>1, <1>2, <1>3, <1>4, <1>5, <1>6, <1>7, <1>8 DEF Next, Parent

\* Killing or waiting for a child that was not reaped leaves one that ended.
LEMMA ChildGivenUp ==
    ASSUME StateTypes, NEW t \in Tests, ~proc[t].reaped,
           proc[t].state \in {"running", "exited", "signalled", "stopped"},
           Kill(t) \/ (Waitable(t) /\ Collect(t))
    PROVE  /\ proc'[t].state = IF Alive(t) THEN "killed" ELSE proc[t].state
           /\ proc'[t].step = proc[t].step /\ proc'[t].failed = proc[t].failed
           /\ proc'[t].late = proc[t].late /\ proc'[t].index = proc[t].index
           /\ \A u \in Tests \ {t} : proc'[u] = proc[u]
<1>1. proc[t] \in Process /\ proc \in [Tests -> Process]
  BY DEF StateTypes
<1>2. CASE Kill(t)
  BY <1>1, <1>2 DEF Kill, Killed, Alive, Process
<1>3. CASE Waitable(t) /\ Collect(t) /\ ~Stopped(t)
  <2>1. proc' = [proc EXCEPT ![t].reaped = TRUE] /\ ~Alive(t)
    BY <1>3 DEF Collect, Waitable, Ended, Alive
  <2> QED
    BY <1>1, <2>1 DEF Process
<1>4. Kill(t) \/ (Waitable(t) /\ Collect(t) /\ ~Stopped(t))
  BY DEF Collect
<1> QED
  BY <1>2, <1>3, <1>4, Zenon

-----------------------------------------------------------------------------
(* The slots watch the children. *)

\* The child of an active slot can still be waited for and killed.
Watchable(t) == /\ ~proc[t].reaped
                /\ proc[t].state \in {"running", "exited", "signalled", "stopped"}

\* A child found alive when the clock had been read ends late if its limit had
\* passed by then.
Timed(t) == proc[t].state # "running" => proc[t].late \/ clock < t

\* Children exist for the tests started, in order; those of the active slots
\* can be waited for; the child whose limit is being looked at was alive.
Watched ==
    /\ \A t \in Tests : t > started => Unborn(t)
    /\ \A t \in Tests : t <= started => proc[t].state # "none"
    /\ overdue <= started
    /\ \A s \in Active : Watchable(TestOf(s))
    /\ NoStrayKill
    /\ pc = "limit" => Timed(TestOf(cursor))

\* No test sits in two slots.
SlotsApart == \A r, s \in Active : TestOf(r) = TestOf(s) => r = s

LEMMA Apart == IInv => SlotsApart
  BY DEF IInv, Counting, GivenUp, SlotsApart, TestOf

LEMMA WatchedInit == Init => Watched
<1> SUFFICES ASSUME Init
             PROVE  Watched
  OBVIOUS
<1>1. /\ started = 0 /\ overdue = 0 /\ pc = "init"
      /\ \A t \in Tests : Unborn(t)
  BY DEF Init, ChildInit, Unborn
<1>2. Active = {}
  BY DEF Init, Active
<1>3. NoStrayKill
  BY DEF Init, ChildInit, NoProcess, NoStrayKill
<1>4. \A t \in Tests : ~(t <= 0)
  BY TestsAssumption
<1> QED
  BY <1>1, <1>2, <1>3, <1>4 DEF Watched

LEMMA WatchedStep ==
    ASSUME StateTypes, SlotsApart, Watched, [Next]_vars
    PROVE  Watched'
<1>1. /\ \A t \in Tests : t > started => Unborn(t)
      /\ \A t \in Tests : t <= started => proc[t].state # "none"
      /\ overdue <= started
      /\ \A s \in Active : Watchable(TestOf(s))
      /\ NoStrayKill
      /\ pc = "limit" => Timed(TestOf(cursor))
  BY DEF Watched
<1>2. /\ overdue \in Nat /\ clock \in Nat /\ clock <= overdue /\ started \in Nat
      /\ cursor \in Slots /\ (pc = "limit" => cursor \in Active)
      /\ \A s \in Active : TestOf(s) \in Tests /\ TestOf(s) <= started
      /\ runs \in [Slots -> Run] /\ proc \in [Tests -> Process]
  BY ActiveTest, TestsAssumption DEF StateTypes, Active, TestOf
<1>3. CASE SlotsKept /\ LimitKept
  <2>1. pc' = "limit" => Timed(TestOf(cursor))'
    <3>1. CASE WaitNone
      <4>1. proc[TestOf(cursor)].state = "running"
        BY <1>1, <1>2, <3>1 DEF WaitNone, Watchable, Waitable, Ended, Stopped, Active,
                                TestOf
      <4> QED
        BY <1>3, <3>1, <4>1 DEF WaitNone, Timed, SlotsKept, childVars, TestOf
    <3>2. CASE UNCHANGED <<pc, cursor, clock>>
      BY <1>1, <1>3, <3>2 DEF Timed, SlotsKept, childVars, TestOf
    <3> QED
      BY <1>3, <3>1, <3>2 DEF LimitKept
  <2>2. Active' = Active
    BY <1>3 DEF SlotsKept, Active
  <2> QED
    BY <1>1, <1>3, <2>1, <2>2 DEF Watched, SlotsKept, childVars, Unborn, Watchable,
                                  NoStrayKill, TestOf
<1>4. CASE (\E t \in Tests : ChildStep(t)) /\ ParentAlone
  <2>1. PICK t \in Tests : ChildStep(t)
    BY <1>4
  <2>2. /\ started' = started /\ runs' = runs /\ Active' = Active
        /\ pc' = pc /\ cursor' = cursor /\ clock' = clock
    BY <1>4 DEF ParentAlone, loopVars, statusVars, Active
  <2>3. t <= started
    BY <1>1, <1>2, <2>1, ChildActs DEF Unborn, Running, NoProcess, StateTypes
  <2>4. \A u \in Tests : u > started' => Unborn(u)'
    <3>1. ASSUME NEW u \in Tests, u > started
          PROVE  Unborn(u)'
      <4>1. u # t
        BY <1>2, <2>3, <3>1
      <4>2. proc'[u] = proc[u] /\ pipe'[u] = pipe[u] /\ wrote'[u] = wrote[u]
        BY <2>1, <4>1, ChildActs DEF StateTypes
      <4> QED
        BY <1>1, <3>1, <4>2 DEF Unborn
    <3> QED
      BY <2>2, <3>1
  <2>5. \A u \in Tests : u <= started' => proc'[u].state # "none"
    BY <1>1, <2>1, <2>2, ChildActs DEF StateTypes
  <2>6. ASSUME NEW u \in Tests, Watchable(u)
        PROVE  Watchable(u)'
    BY <2>1, <2>6, ChildActs DEF Watchable, StateTypes
  <2>7. \A s \in Active' : Watchable(TestOf(s))'
    BY <1>1, <1>2, <2>2, <2>6 DEF TestOf
  <2>8. NoStrayKill'
    BY <1>1, <2>1, ChildActs DEF NoStrayKill, StateTypes
  <2>9. ASSUME NEW u \in Tests, Timed(u)
        PROVE  Timed(u)'
    <3>1. CASE u = t
      BY <1>2, <2>1, <2>2, <3>1, ChildActs DEF Timed, StateTypes
    <3>2. CASE u # t
      BY <2>1, <2>2, <2>9, <3>2, ChildActs DEF Timed, StateTypes
    <3> QED
      BY <3>1, <3>2
  <2>10. pc' = "limit" => Timed(TestOf(cursor))'
    BY <1>1, <1>2, <2>2, <2>9 DEF TestOf
  <2>11. overdue' <= started'
    BY <1>1, <2>1, <2>2, ChildActs DEF StateTypes
  <2> QED
    BY <2>4, <2>5, <2>7, <2>8, <2>10, <2>11 DEF Watched
<1>5. CASE Elapse /\ ParentAlone
  <2>1. /\ UNCHANGED <<started, runs, pc, cursor, clock, proc, pipe, wrote>>
        /\ Active' = Active
    BY <1>5 DEF ParentAlone, loopVars, statusVars, Active, Elapse
  <2>2. overdue' = overdue + 1 /\ overdue + 1 \in Tests /\ proc[overdue + 1].state # "none"
    BY <1>2, <1>5, TestsAssumption DEF Elapse
  <2>3. overdue' <= started'
    BY <1>1, <1>2, <2>1, <2>2 DEF Unborn, NoProcess
  <2> QED
    BY <1>1, <2>1, <2>3 DEF Watched, Unborn, Watchable, NoStrayKill, Timed, TestOf
<1>6. CASE pc = "start" /\ CanStart /\ (\E s \in Slots : StartNew(s)) /\ UNCHANGED loopVars
  <2>1. PICK s \in Slots : StartNew(s)
    BY <1>6
  <2> DEFINE u == started + 1
  <2>0. u \in Tests
    BY <1>2, <1>6, TestsAssumption DEF CanStart
  <2>2. /\ u \in Tests /\ started' = u /\ pipe' = pipe /\ wrote' = wrote
        /\ overdue' = overdue /\ proc' = [proc EXCEPT ![u].state = "running"]
        /\ runs' = [runs EXCEPT ![s] = FilledSlot(s, u)]
        /\ UNCHANGED <<pc, cursor, clock>>
    BY <1>6, <2>1, <2>0 DEF StartNew, Fork, loopVars
  <2>3. Unborn(u)
    BY <1>1, <1>2, <2>2
  <2>4. proc'[u].state = "running" /\ ~proc'[u].reaped /\ \A t \in Tests \ {u} : proc'[t] = proc[t]
    BY <1>2, <2>2, <2>3 DEF Unborn, NoProcess
  <2>5. /\ runs'[s].test = u
        /\ \A r \in Active' \ {s} : r \in Active /\ runs'[r] = runs[r]
    BY <1>2, <2>1, <2>2 DEF FilledSlot, Active
  <2>6. \A t \in Tests : t > started' => Unborn(t)'
    BY <1>1, <1>2, <2>2, <2>4 DEF Unborn
  <2>7. \A t \in Tests : t <= started' => proc'[t].state # "none"
    BY <1>1, <1>2, <2>2, <2>4
  <2>8. \A r \in Active' : Watchable(TestOf(r))'
    <3>1. ASSUME NEW r \in Active', r # s
          PROVE  Watchable(TestOf(r))'
      <4>1. r \in Active /\ TestOf(r)' = TestOf(r) /\ TestOf(r) # u /\ TestOf(r) \in Tests
        BY <1>2, <2>5, <3>1 DEF TestOf
      <4> QED
        BY <1>1, <2>4, <4>1 DEF Watchable
    <3>2. Watchable(TestOf(s))'
      BY <2>4, <2>5 DEF Watchable, TestOf
    <3> QED
      BY <3>1, <3>2
  <2>9. NoStrayKill'
    BY <1>1, <2>4 DEF NoStrayKill
  <2>10. pc' # "limit"
    BY <1>6, <2>2
  <2> QED
    BY <1>1, <1>2, <2>2, <2>6, <2>7, <2>8, <2>9, <2>10 DEF Watched
<1>7. CASE \E fd \in ready : DrainEvent(fd)
  <2>1. PICK fd \in ready : DrainEvent(fd)
    BY <1>7
  <2>2. UNCHANGED <<proc, wrote, overdue, started, clock, cursor>> /\ pc' # "limit"
    BY <2>1 DEF DrainEvent, HandleFirst, statusVars
  <2>3. fd[1] \in Slots /\ fd[1] \in Active
    BY <2>1 DEF DrainEvent, StateTypes, Fds, Active
  <2>4. Active' = Active /\ \A s \in Slots : TestOf(s)' = TestOf(s)
    BY <1>2, <2>1, <2>3 DEF DrainEvent, Run, Active, TestOf
  <2>5. \A u \in Tests : u # TestOf(fd[1]) => pipe'[u] = pipe[u]
    BY <2>1 DEF DrainEvent, StateTypes, TestOf
  <2>6. \A u \in Tests : u > started' => Unborn(u)'
    BY <1>1, <1>2, <2>2, <2>3, <2>5 DEF Unborn
  <2>7. \A s \in Active' : Watchable(TestOf(s))'
    BY <1>1, <2>2, <2>4 DEF Watchable, Active
  <2> QED
    BY <1>1, <2>2, <2>6, <2>7 DEF Watched, NoStrayKill
<1>8. CASE \E s \in Slots : \E result : GivesUp(s, result) /\ pc' # "limit"
  <2>1. PICK s \in Slots : \E result : GivesUp(s, result) /\ pc' # "limit"
    BY <1>8
  <2>2. PICK result : GivesUp(s, result)
    BY <2>1
  <2> DEFINE t == TestOf(s)
  <2>3. /\ s \in Active /\ t \in Tests /\ t <= started /\ runs[s].active
        /\ result \in Verdict /\ Release(s, result)
        /\ UNCHANGED <<wrote, overdue, started>>
        /\ Kill(t) \/ (Waitable(t) /\ Collect(t))
    BY <1>2, <2>2 DEF GivesUp, Active
  <2>4. Watchable(t)
    BY <1>1, <2>3
  <2>5. /\ proc'[t].state = IF Alive(t) THEN "killed" ELSE proc[t].state
        /\ \A u \in Tests \ {t} : proc'[u] = proc[u]
    BY <2>3, <2>4, ChildGivenUp DEF Watchable
  <2>6. proc'[t].state \notin {"none", "stray"}
    BY <2>4, <2>5 DEF Watchable
  <2>7. Active' = Active \ {s} /\ \A r \in Slots : TestOf(r)' = TestOf(r)
    BY <2>3, ReleaseType DEF TestOf
  <2>8. \A u \in Tests \ {t} : pipe'[u] = pipe[u]
    BY <2>3 DEF Release, StateTypes, TestOf
  <2>9. \A u \in Tests : u > started' => Unborn(u)'
    <3>1. ASSUME NEW u \in Tests, u > started
          PROVE  Unborn(u)'
      <4>1. u # t
        BY <1>2, <2>3, <3>1
      <4> QED
        BY <1>1, <2>3, <2>5, <2>8, <3>1, <4>1 DEF Unborn
    <3> QED
      BY <2>3, <3>1
  <2>10. \A u \in Tests : u <= started' => proc'[u].state # "none"
    BY <1>1, <2>3, <2>5, <2>6
  <2>11. \A r \in Active' : Watchable(TestOf(r))'
    <3>1. ASSUME NEW r \in Active'
          PROVE  Watchable(TestOf(r))'
      <4>1. r \in Active /\ r # s /\ TestOf(r) \in Tests /\ TestOf(r)' = TestOf(r)
        BY <1>2, <2>7, <3>1 DEF Active
      <4>2. TestOf(r) # t
        BY <2>3, <4>1 DEF SlotsApart
      <4> QED
        BY <1>1, <2>5, <4>1, <4>2 DEF Watchable
    <3> QED
      BY <3>1
  <2>12. NoStrayKill'
    BY <1>1, <2>5, <2>6 DEF NoStrayKill
  <2> QED
    BY <1>1, <2>1, <2>3, <2>9, <2>10, <2>11, <2>12 DEF Watched
<1>9. CASE PollFails
  <2>1. UNCHANGED <<childVars, started>> /\ pc' # "limit"
    BY <1>9 DEF PollFails
  <2>2. Active' = {}
    BY <1>9 DEF PollFails, Active
  <2> QED
    BY <1>1, <2>1, <2>2 DEF Watched, childVars, Unborn, NoStrayKill
<1> QED
  BY <1>3, <1>4, <1>5, <1>6, <1>7, <1>8, <1>9, StepsSorted

LEMMA WatchedAlways == Spec => [](IInv /\ SlotsApart /\ Watched)
<1>1. IInv => StateTypes
  BY DEF IInv
<1> QED
  BY <1>1, Apart, WatchedInit, WatchedStep, Invariant, PTL DEF Spec

\* Once waitpid released a child, no kill reaches its pid: every kill is for the
\* child of an active slot, and none of those was released.
THEOREM NoKillGoesAstray == Spec => []NoStrayKill
<1>1. Watched => NoStrayKill
  BY DEF Watched
<1> QED
  BY <1>1, WatchedAlways, PTL

-----------------------------------------------------------------------------
(* The runner implements the abstract one: each of its steps begins or       *)
(* reports one test, gives up on all that are left, ends the run, or is      *)
(* invisible.                                                                *)

RInv == IInv /\ SlotsApart /\ FailureSeen /\ NoMoreStarts

LEMMA RInvAlways == Spec => []RInv
<1>1. IInv /\ Accounts => FailureSeen
  BY FailureIsSeen DEF IInv, StateTypes
<1> QED
  BY <1>1, Apart, AccountsAlways, NoMoreStartsAlways, PTL DEF RInv

LEMMA StepsSeen ==
    ASSUME StateTypes, [Next]_vars
    PROVE  \/ Unseen
           \/ StatusInit \/ Check \/ PollFails
           \/ pc = "start" /\ pc' = "start" /\ CanStart /\ \E s \in Slots : StartNew(s)
           \/ /\ pc # "done" /\ pc' # "done"
              /\ \E s \in Slots : \E result : GivesUp(s, result)
<1>1. CASE CountersKept /\ (pc' = "done") = (pc = "done")
  <2>1. report' = report /\ \A t : Held(t)' <=> Held(t)
    BY <1>1, SlotsHold DEF CountersKept
  <2> QED
    BY <1>1, <2>1, PhaseKept DEF Unseen
<1>2. CASE UNCHANGED vars \/ Environment \/ Terminated
  <2>1. CountersKept /\ pc' = pc
    BY <1>2, QuietSteps DEF vars, loopVars, Environment, Terminated
  <2> QED
    BY <1>1, <2>1
<1>3. CASE Start
  <2>1. CASE Active = Slots
    <3>1. pc = "start" /\ pc' = "aborted"
      BY <1>3, <2>1 DEF Start
    <3> QED
      BY <1>1, <1>3, <2>1, <3>1, QuietSteps
  <2>2. CASE \E s \in Slots : StartNew(s)
    BY <1>3, <2>2 DEF Start, StartNew, loopVars
  <2>3. CASE StartFails
    <3>1. runs' = runs /\ report' = report /\ pc' = pc
      BY <2>3 DEF StartFails, loopVars
    <3>2. \A t : Held(t)' <=> Held(t)
      BY <3>1, SlotsHold
    <3> QED
      BY <3>1, <3>2, PhaseKept DEF Unseen
  <2> QED
    BY <1>3, <2>1, <2>2, <2>3 DEF Start
<1>4. CASE \/ Poll \/ \E fd \in ready : SkipEvent(fd) \/ DrainEvent(fd)
           \/ ReadClock \/ SkipSlot \/ WaitNone \/ WithinLimit
  <2>1. CountersKept
    BY <1>4, QuietSteps
  <2>2. pc # "done" /\ pc' # "done"
    BY <1>4 DEF Poll, SkipEvent, DrainEvent, HandleFirst, ReadClock, Transition, SkipSlot,
                WaitNone, WithinLimit, NextSlot
  <2> QED
    BY <1>1, <2>1, <2>2
<1>5. CASE WaitEnd \/ Expire \/ \E fd \in ready : DrainFails(fd)
  <2>1. pc # "done" /\ pc' # "done"
    BY <1>5 DEF WaitEnd, Expire, DrainFails, HandleFirst, NextSlot
  <2> QED
    BY <1>5, <2>1, GiveUpSteps
<1> QED
  BY <1>2, <1>3, <1>4, <1>5 DEF Next, Parent

LEMMA RunnerInit == Init => Runner!Init
<1> SUFFICES ASSUME Init
             PROVE  Runner!Init
  OBVIOUS
<1>1. Active = {} /\ (\A t \in Tests : report[t] = <<>>) /\ pc # "done"
  BY DEF Init, Active
<1> QED
  BY <1>1, RunnerBegin

\* poll fails: the loop gives up.
LEMMA PollGivesUp ==
    ASSUME RInv, PollFails
    PROVE  Runner!GiveUp \/ Unseen
<1>1. StateTypes /\ Counting /\ pc = "start" /\ pc' = "clock"
  BY DEF RInv, IInv, GivenUp, PollFails
<1>2. ErrorVerdict("poll", NoStep) \in Verdict
      /\ ErrorVerdict("poll", NoStep).outcome # "success"
  BY ErrorVerdictType DEF ErrorVerdict, Causes
<1>3. ReportAll({runs[s].test : s \in Active} \union Remaining, ErrorVerdict("poll", NoStep))
  BY DEF PollFails
<1> QED
  BY <1>1, <1>2, <1>3, ReportsRest DEF Unseen, StateTypes

\* The end of the loop body: the tests left are reported, the run ends, or the
\* loop goes on.
LEMMA CheckSeen ==
    ASSUME RInv, Check
    PROVE  Runner!GiveUp \/ Runner!Finish \/ Unseen
<1>1. /\ StateTypes /\ LoopTypes /\ (Counting \/ GivenUp) /\ pc = "check" /\ runs' = runs
      /\ any_failed => SomeFailure
  BY DEF RInv, IInv, Check, StateTypes
<1>2. CASE StartsFailed
  <2>1. PICK cause \in {"fork", "pipe"} :
           cause = IF fork_failed THEN "fork" ELSE "pipe"
    OBVIOUS
  <2> DEFINE result == ErrorVerdict(cause, NoStep)
  <2>2. result \in Verdict /\ result.outcome # "success"
    BY ErrorVerdictType DEF ErrorVerdict, Causes
  <2>3. ReportAll(Remaining, result) /\ Remaining \in SUBSET Tests
    BY <1>2, <2>1 DEF Check, Remaining
  <2> HIDE DEF result
  <2>4. CASE Counting
    <3>1. Active = {}
      BY <1>2, <2>4, ActiveCount DEF Counting, StartsFailed
    <3> QED
      BY <1>1, <2>2, <2>3, <2>4, <3>1, RestSeen
  <2>5. CASE GivenUp
    <3>1. \A t \in Tests : report[t] # <<>>
      BY <2>5 DEF GivenUp
    <3>2. \A t \in Tests : PhaseOf(t)' = PhaseOf(t)
      BY <1>1, <2>2, <2>3, <3>1, PhaseStays
    <3> QED
      BY <1>1, <3>1, <3>2, AllSeen
  <2> QED
    BY <1>1, <2>4, <2>5
<1>3. CASE ~StartsFailed
  <2>1. ReportNone /\ LeaveOrLoop
    BY <1>3 DEF Check
  <2>2. finished >= NTests => \A t \in Tests : report[t] # <<>>
    BY <1>1, AllReported
  <2>3. \/ \A t \in Tests : report[t] # <<>>
        \/ \A t \in Tests : Len(report[t]) <= 1
    BY <1>1 DEF Counting, GivenUp
  <2> QED
    BY <1>1, <2>1, <2>2, <2>3, LeaveSeen
<1> QED
  BY <1>2, <1>3

LEMMA RunnerStep == RInv /\ [Next]_vars => [Runner!Next]_(Runner!vars)
<1> SUFFICES ASSUME RInv, [Next]_vars
             PROVE  Runner!Next \/ UNCHANGED Runner!vars
  OBVIOUS
<1>1. StateTypes
  BY DEF RInv, IInv
<1>2. CASE Unseen
  <2>1. [t \in Tests |-> PhaseOf(t)]' = [t \in Tests |-> PhaseOf(t)]
    BY <1>2 DEF Unseen
  <2> QED
    BY <1>2, <2>1 DEF Unseen, Runner!vars
<1>3. CASE pc = "start" /\ pc' = "start" /\ CanStart /\ \E s \in Slots : StartNew(s)
  <2>1. PICK s \in Slots : StartNew(s)
    BY <1>3
  <2>2. Filled(s)
    BY <1>1, <2>1, StartFills
  <2>3. Counting /\ ~(StopOnFirstError /\ any_failed)
    BY <1>3 DEF RInv, IInv, GivenUp, NoMoreStarts
  <2> QED
    BY <1>1, <1>3, <2>2, <2>3, StartBegins DEF StateTypes, RInv, Runner!Next, Runner!Tests
<1>4. CASE pc # "done" /\ pc' # "done" /\ \E s \in Slots : \E result : GivesUp(s, result)
  <2>1. PICK s \in Slots : \E result : GivesUp(s, result)
    BY <1>4
  <2>2. PICK result : GivesUp(s, result)
    BY <2>1
  <2>3. result \in Verdict /\ Released(s, result) /\ Counting
    BY <1>1, <2>2, ReleaseReleases DEF GivesUp, RInv, IInv, GivenUp, Active
  <2> QED
    BY <1>1, <1>4, <2>3, ReleaseReports DEF StateTypes, Runner!Next, Runner!Tests, Runner!Results
<1>5. CASE StatusInit
  <2>1. pc # "done" /\ (pc' = "done" => NTests = 0) /\ UNCHANGED <<report, runs>>
    BY <1>5 DEF StatusInit
  <2> QED
    BY <1>2, <2>1, BeginSeen DEF Runner!Next
<1>6. CASE Check
  BY <1>2, <1>6, CheckSeen DEF Runner!Next
<1>7. CASE PollFails
  BY <1>2, <1>7, PollGivesUp DEF Runner!Next
<1> QED
  BY <1>1, <1>2, <1>3, <1>4, <1>5, <1>6, <1>7, StepsSeen

\* tdo_run_all implements the abstract runner, whatever calls fail: tests begin
\* in order and at most Processes at a time, each gets one verdict or all that
\* are left are given up at once, and the run ends only when every test has its
\* verdict or, under -x, after a failure.
THEOREM RunnerImplemented == Spec => ImplementsRunner
<1>1. Init => Runner!Init
  BY RunnerInit
<1>2. RInv /\ [Next]_vars => [Runner!Next]_(Runner!vars)
  BY RunnerStep
<1> QED
  BY <1>1, <1>2, RInvAlways, PTL DEF Spec, ImplementsRunner, Runner!Spec
-----------------------------------------------------------------------------
(* What a child wrote: the logs of a slot belong to it. *)

Logs == /\ \A t \in Tests : Named(t)
        /\ \A s \in Active : \A k \in Pipes : Own(s, k)

LEMMA LogsInit == Init => Logs
<1> SUFFICES ASSUME Init
             PROVE  Logs
  OBVIOUS
<1>1. \A t \in Tests : Unborn(t)
  BY DEF Init, ChildInit, Unborn
<1>2. Active = {}
  BY DEF Init, Active
<1> QED
  BY <1>1, <1>2, UnbornWrites DEF Logs

LEMMA LogsStep ==
    ASSUME StateTypes, SlotsApart, Watched, Logs, [Next]_vars
    PROVE  Logs'
<1>1. /\ \A t \in Tests : Named(t)
      /\ \A s \in Active : \A k \in Pipes : Own(s, k)
      /\ \A s \in Active : s \in Slots /\ TestOf(s) \in Tests /\ TestOf(s) <= started
      /\ \A r, s \in Active : TestOf(r) = TestOf(s) => r = s
      /\ \A s \in Active : Watchable(TestOf(s))
      /\ proc \in [Tests -> Process] /\ runs \in [Slots -> Run]
  BY ActiveTest DEF Logs, StateTypes, TestOf, SlotsApart, Watched
<1>2. ASSUME NEW t \in Tests, wrote'[t] = wrote[t],
             proc'[t].step = proc[t].step, proc'[t].index = proc[t].index,
             proc'[t].failed = proc[t].failed
      PROVE  Named(t)' /\ \A k \in Pipes : Written(t, k)' = Written(t, k)
  BY <1>1, <1>2, NamedKept, WrittenKept
<1>3. CASE SlotsKept
  <2>1. /\ UNCHANGED <<proc, pipe, wrote, runs>> /\ Active' = Active
    BY <1>3 DEF SlotsKept, childVars, Active
  <2>2. \A t \in Tests : Named(t)' /\ \A k \in Pipes : Written(t, k)' = Written(t, k)
    BY <1>2, <2>1
  <2>3. \A s \in Active' : \A k \in Pipes : Own(s, k)'
    BY <1>1, <2>1, <2>2, OwnKept
  <2> QED
    BY <2>2, <2>3 DEF Logs
<1>4. CASE (\E t \in Tests : ChildStep(t)) /\ ParentAlone
  <2>1. PICK t \in Tests : ChildStep(t)
    BY <1>4
  <2>2. runs' = runs /\ Active' = Active
    BY <1>4 DEF ParentAlone, Active
  <2>3. Named(t)' /\ \A k \in Pipes : Adds(t, k)
    BY <1>1, <2>1, ChildAdds DEF StateTypes
  <2>4. \A u \in Tests \ {t} : proc'[u] = proc[u] /\ pipe'[u] = pipe[u] /\ wrote'[u] = wrote[u]
    BY <2>1, ChildActs DEF StateTypes
  <2>5. \A u \in Tests \ {t} : Named(u)' /\ \A k \in Pipes : Written(u, k)' = Written(u, k)
    BY <1>2, <2>4
  <2>6. ASSUME NEW s \in Active, NEW k \in Pipes
        PROVE  Own(s, k)'
    <3>1. CASE TestOf(s) = t
      BY <1>1, <2>2, <2>3, <3>1, OwnAdds DEF StateTypes, Run
    <3>2. CASE TestOf(s) # t
      BY <1>1, <2>2, <2>4, <2>5, <3>2, OwnKept
    <3> QED
      BY <3>1, <3>2
  <2> QED
    BY <2>2, <2>3, <2>5, <2>6 DEF Logs
<1>5. CASE Elapse /\ ParentAlone
  <2>1. /\ UNCHANGED <<proc, pipe, wrote, runs>> /\ Active' = Active
    BY <1>5 DEF ParentAlone, Elapse, Active
  <2>2. \A t \in Tests : Named(t)' /\ \A k \in Pipes : Written(t, k)' = Written(t, k)
    BY <1>2, <2>1
  <2>3. \A s \in Active' : \A k \in Pipes : Own(s, k)'
    BY <1>1, <2>1, <2>2, OwnKept
  <2> QED
    BY <2>2, <2>3 DEF Logs
<1>6. CASE pc = "start" /\ CanStart /\ (\E s \in Slots : StartNew(s)) /\ UNCHANGED loopVars
  <2>1. PICK s \in Slots : StartNew(s)
    BY <1>6
  <2>0. started + 1 \in Tests /\ started + 1 > started
    BY <1>6, TestsAssumption DEF CanStart, StateTypes
  <2>9. PICK u \in Tests : u = started + 1
    BY <2>0
  <2>2. /\ u \in Tests /\ u > started /\ pipe' = pipe /\ wrote' = wrote
        /\ proc' = [proc EXCEPT ![u].state = "running"]
        /\ runs' = [runs EXCEPT ![s] = FilledSlot(s, u)]
    BY <2>0, <2>1, <2>9 DEF StartNew, Fork
  <2>3. Unborn(u)
    BY <2>2 DEF Watched
  <2>4. \A t \in Tests : /\ proc'[t].step = proc[t].step /\ proc'[t].index = proc[t].index
                         /\ proc'[t].failed = proc[t].failed
    BY <1>1, <2>2 DEF Process
  <2>5. \A t \in Tests : Named(t)' /\ \A k \in Pipes : Written(t, k)' = Written(t, k)
    BY <1>2, <2>2, <2>4
  <2>6. /\ runs'[s].test = u /\ \A k \in Pipes : runs'[s].log[k] = <<>>
        /\ \A r \in Active' \ {s} : r \in Active /\ runs'[r] = runs[r]
    BY <1>1, <2>1, <2>2 DEF FilledSlot, EmptyLogs, Active
  <2>7. ASSUME NEW k \in Pipes
        PROVE  Own(s, k)'
    <3>1. pipe'[u][k] = <<>> /\ runs'[s].log[k] = <<>>
      BY <2>2, <2>3, <2>6 DEF Unborn, EmptyPipes
    <3>4. Written(u, k)' = <<>>
      BY <2>3, <2>5, UnbornWrites
    <3>2. <<>> \o <<>> = <<>>
      OBVIOUS
    <3>3. TestOf(s)' = u
      BY <2>6 DEF TestOf
    <3> QED
      BY <3>1, <3>2, <3>3, <3>4 DEF Own
  <2>8. \A r \in Active' : \A k \in Pipes : Own(r, k)'
    BY <1>1, <2>2, <2>5, <2>6, <2>7, OwnKept
  <2> QED
    BY <2>5, <2>8 DEF Logs
<1>7. CASE \E fd \in ready : DrainEvent(fd)
  <2>1. PICK fd \in ready : DrainEvent(fd)
    BY <1>7
  <2>0. fd[1] \in Active /\ fd \in Fds
    BY <2>1 DEF DrainEvent, StateTypes, Fds, Active
  <2>11. PipeOf(fd) \in Pipes
    BY <2>0 DEF Fds, PipeOf, PipeOrder, Pipes, Streams
  <2>12. PICK s \in Active, k \in Pipes : s = fd[1] /\ k = PipeOf(fd)
    BY <2>0, <2>11
  <2>13. PICK t \in Tests : t = TestOf(s)
    BY <1>1, <2>12
  <2>2. s \in Active /\ k \in Pipes /\ t \in Tests /\ TestOf(s) = t
    BY <2>12, <2>13
  <2>3. /\ runs' = [runs EXCEPT ![s].log[k] = @ \o pipe[t][k]]
        /\ pipe' = [pipe EXCEPT ![t][k] = <<>>]
        /\ UNCHANGED <<proc, wrote>>
    BY <2>1, <2>12, <2>13 DEF DrainEvent, TestOf
  <2>4. \A u \in Tests : Named(u)' /\ \A j \in Pipes : Written(u, j)' = Written(u, j)
    BY <1>2, <2>3
  <2>5. runs[s].log \in Contents /\ pipe[t] \in Contents
    BY <1>1, <2>2 DEF Run, StateTypes
  <2>6. /\ runs'[s].log[k] = runs[s].log[k] \o pipe[t][k] /\ pipe'[t][k] = <<>>
        /\ \A j \in Pipes \ {k} : runs'[s].log[j] = runs[s].log[j] /\ pipe'[t][j] = pipe[t][j]
        /\ runs'[s].test = t /\ Active' = Active
    BY <1>1, <2>2, <2>3, <2>5 DEF Run, Contents, Active, TestOf, StateTypes
  <2>7. /\ \A r \in Active \ {s} : runs'[r] = runs[r] /\ pipe'[TestOf(r)] = pipe[TestOf(r)]
    BY <1>1, <2>2, <2>3 DEF StateTypes
  <2>8. Own(s, k)'
    <3>1. runs[s].log[k] \in Seq(Item) /\ pipe[t][k] \in Seq(Item)
      BY <2>2, <2>5 DEF Contents
    <3>2. (runs[s].log[k] \o pipe[t][k]) \o <<>> = runs[s].log[k] \o pipe[t][k]
      BY <3>1, ConcatProperties, ConcatEmptySeq
    <3>3. runs[s].log[k] \o pipe[t][k] = Written(t, k)
      BY <1>1, <2>2 DEF Own
    <3>4. TestOf(s)' = t
      BY <2>6 DEF TestOf
    <3>5. runs'[s].log[k] \o pipe'[t][k] = Written(t, k)'
      BY <2>2, <2>4, <2>6, <3>2, <3>3
    <3> QED
      BY <3>4, <3>5 DEF Own
  <2>9. ASSUME NEW j \in Pipes, j # k
        PROVE  Own(s, j)'
    <3>1. TestOf(s)' = t
      BY <2>6 DEF TestOf
    <3>2. runs[s].log[j] \o pipe[t][j] = Written(t, j)
      BY <1>1, <2>2 DEF Own
    <3>3. runs'[s].log[j] \o pipe'[t][j] = Written(t, j)'
      BY <2>2, <2>4, <2>6, <2>9, <3>2
    <3> QED
      BY <3>1, <3>3 DEF Own
  <2>10. \A r \in Active \ {s} : \A j \in Pipes : Own(r, j)'
    BY <1>1, <2>4, <2>7, OwnKept
  <2> QED
    BY <2>4, <2>6, <2>8, <2>9, <2>10 DEF Logs
<1>8. CASE \E s \in Slots : \E result : GivesUp(s, result) /\ pc' # "limit"
  <2>1. PICK s \in Slots : \E result : GivesUp(s, result)
    BY <1>8
  <2>2. PICK result : GivesUp(s, result)
    BY <2>1
  <2> DEFINE t == TestOf(s)
  <2>3. /\ s \in Active /\ t \in Tests /\ runs[s].active
        /\ result \in Verdict /\ Release(s, result) /\ wrote' = wrote
        /\ Kill(t) \/ (Waitable(t) /\ Collect(t))
    BY <1>1, <2>2 DEF GivesUp, Active
  <2>4. \A u \in Tests : /\ proc'[u].step = proc[u].step /\ proc'[u].index = proc[u].index
                         /\ proc'[u].failed = proc[u].failed
    BY <1>1, <2>3, ChildGivenUp DEF Watchable
  <2>5. \A u \in Tests : Named(u)' /\ \A k \in Pipes : Written(u, k)' = Written(u, k)
    BY <1>2, <2>3, <2>4
  <2>6. Active' = Active \ {s}
    BY <2>3, ReleaseType
  <2>7. \A r \in Active' : /\ r \in Active /\ runs'[r] = runs[r] /\ TestOf(r) # t
                           /\ pipe'[TestOf(r)] = pipe[TestOf(r)]
    BY <1>1, <2>3, <2>6 DEF Release, StateTypes, TestOf
  <2>8. \A r \in Active' : \A j \in Pipes : Own(r, j)'
    BY <1>1, <2>5, <2>7, OwnKept
  <2> QED
    BY <2>5, <2>8 DEF Logs
<1>9. CASE PollFails
  <2>1. UNCHANGED <<proc, wrote>> /\ Active' = {}
    BY <1>9 DEF PollFails, Active, childVars
  <2>2. \A t \in Tests : Named(t)'
    BY <1>2, <2>1
  <2> QED
    BY <2>1, <2>2 DEF Logs
<1> QED
  BY <1>3, <1>4, <1>5, <1>6, <1>7, <1>8, <1>9, StepsSorted

LEMMA LogsAlways == Spec => [](IInv /\ SlotsApart /\ Watched /\ Logs)
<1>1. IInv => StateTypes
  BY DEF IInv
<1> QED
  BY <1>1, WatchedAlways, LogsInit, LogsStep, PTL DEF Spec

\* What tdo read from a child and what is still in its pipes is what that child
\* wrote, in order, stream by stream: whatever its slot held before, however the
\* reads and the other children interleave.
THEOREM LogsStayWithTheirChild == Spec => []LogsBelongToSlot
<1>1. Logs => LogsBelongToSlot
  BY DEF Logs, Own, TestOf, LogsBelongToSlot
<1> QED
  BY <1>1, LogsAlways, PTL

-----------------------------------------------------------------------------
(* What is read off the logs of a slot: every result says what became of its child. *)

TimeRight(t, v) ==
    v.outcome = "timeout" =>
        /\ t <= overdue
        /\ proc[t].state \in {"exited", "signalled", "stopped"} => proc[t].late

Right(t, v) == EndRight(t, v) /\ StepRight(t, v) /\ OutputRight(t, v) /\ TimeRight(t, v)

\* A child with a result is over, unless poll failed and tdo left it alone.
Settled(t, v) ==
    /\ Right(t, v)
    /\ Alive(t) => v = ErrorVerdict("poll", NoStep) /\ "poll" \in Faults

Results == \A t \in Tests : \A v \in Verdicts(t) : Settled(t, v)

LEMMA ErrorRight ==
    ASSUME NEW t \in Tests, NEW cause \in {"nodata", "step", "memory", "read", "poll", "fork", "pipe"}
    PROVE  Right(t, ErrorVerdict(cause, NoStep)) /\ Right(t, ErrorVerdict(cause, NoStep))'
  BY DEF Right, EndRight, StepRight, OutputRight, TimeRight, ErrorVerdict, EndedOutcomes

LEMMA SettledKept ==
    ASSUME NEW t \in Tests, NEW v, Settled(t, v), overdue \in Nat, overdue' \in Nat,
           t \in Nat, overdue <= overdue',
           \/ ~Alive(t) /\ proc'[t] = proc[t] /\ wrote'[t] = wrote[t]
           \/ Alive(t)
    PROVE  Settled(t, v)'
<1>1. CASE Alive(t)
  <2>1. v = ErrorVerdict("poll", NoStep) /\ "poll" \in Faults
    BY <1>1 DEF Settled
  <2>2. Right(t, v)'
    BY <2>1, ErrorRight
  <2> QED
    BY <2>1, <2>2 DEF Settled
<1>2. CASE ~Alive(t) /\ proc'[t] = proc[t] /\ wrote'[t] = wrote[t]
  <2>1. Announced(t)' = Announced(t) /\ ~Alive(t)'
    BY <1>2 DEF Announced, Alive
  <2>2. EndRight(t, v)' /\ OutputRight(t, v)'
    BY <1>2 DEF Settled, Right, EndRight, OutputRight
  <2>3. StepRight(t, v)'
    BY <1>2, <2>1 DEF Settled, Right, StepRight
  <2>4. TimeRight(t, v)'
    BY <1>2 DEF Settled, Right, TimeRight
  <2> QED
    BY <2>1, <2>2, <2>3, <2>4 DEF Settled, Right
<1> QED
  BY <1>1, <1>2

\* What is written for a slot that is given up is right, and its child is over.
LEMMA GivenUpRight ==
    ASSUME StateTypes, Watched, Logs, NEW s \in Slots, NEW result, GivesUp(s, result),
           NEW t \in Tests, t = TestOf(s)
    PROVE  Settled(t, result)'
<1>1. /\ s \in Active /\ wrote' = wrote /\ overdue' = overdue
      /\ Kill(t) \/ (Waitable(t) /\ Collect(t))
  BY DEF GivesUp
<1>2. /\ Watchable(t) /\ Named(t) /\ proc[t] \in Process
      /\ \A k \in Pipes : Own(s, k)
  BY <1>1 DEF Watched, Logs, StateTypes
<1>3. /\ proc'[t].state = IF Alive(t) THEN "killed" ELSE proc[t].state
      /\ proc'[t].step = proc[t].step /\ proc'[t].failed = proc[t].failed
      /\ proc'[t].late = proc[t].late /\ proc'[t].index = proc[t].index
  BY <1>1, <1>2, ChildGivenUp DEF Watchable
<1>4. ~Alive(t)' /\ Announced(t)' = Announced(t)
  BY <1>2, <1>3, NamedKept DEF Watchable, Alive
<1>5. runs[s] \in Run /\ runs[s].test = t
  BY DEF StateTypes, TestOf
<1>6. \A k \in Pipes : /\ runs[s].log[k] \in Seq(Item) /\ pipe[t][k] \in Seq(Item)
                       /\ runs[s].log[k] \o pipe[t][k] = Written(t, k)
  BY <1>2, <1>5, LogType, PipeType DEF Own, StateTypes
<1>7. CASE result \in {ErrorVerdict("memory", NoStep), ErrorVerdict("read", NoStep),
                       ErrorVerdict("nodata", NoStep), ErrorVerdict("step", NoStep)}
  BY <1>4, <1>7, ErrorRight DEF Settled
<1>8. CASE proc[t].failed /\ result = ErrorVerdict("load", proc[t].step)
  BY <1>3, <1>4, <1>8 DEF Settled, Right, EndRight, StepRight, OutputRight, TimeRight,
                          ErrorVerdict, EndedOutcomes
<1>9. ASSUME NEW granted \in Granted,
             result = StatusVerdict(Drained(s), proc[t].state, FALSE, granted),
             Waitable(t)
      PROVE  Settled(t, result)'
  <2> DEFINE run == Drained(s)
             state == proc[t].state
  <2>1. run \in Run /\ run.test = t /\ \A k \in Pipes : run.log[k] = Written(t, k)
    <3>1. run \in Run
      BY <1>1, <1>5, <1>9, DrainedResult
    <3>2. run.test = t /\ run.log = [k \in Pipes |-> runs[s].log[k] \o pipe[t][k]]
      BY <1>5 DEF Drained, Run
    <3> QED
      BY <1>6, <3>1, <3>2
  <2>2. /\ Len(run.log["out"]) = wrote[t]["out"]
        /\ Len(run.log["err"]) = wrote[t]["err"]
    <3>1. wrote[t]["out"] \in Nat /\ wrote[t]["err"] \in Nat
      BY DEF StateTypes, Streams
    <3> QED
      BY <2>1, <3>1 DEF Written, Pipes, Streams
  <2>3. state \in {"exited", "signalled", "stopped"}
    BY <1>9 DEF Waitable, Ended, Stopped
  <2>4. /\ run.log["status"] \o <<>> = Written(t, "status") /\ <<>> \in Seq(Item)
    <3>1. Written(t, "status") \in Seq(Item)
      BY <1>2, StatusLines DEF StateTypes
    <3> QED
      BY <2>1, <3>1, ConcatEmptySeq DEF Pipes
  <2> HIDE DEF run, state
  <2>5. \/ result \in {ErrorVerdict("nodata", NoStep), ErrorVerdict("step", NoStep)}
        \/ proc[t].failed /\ result = ErrorVerdict("load", proc[t].step)
        \/ /\ ~proc[t].failed
           /\ result =
                 [outcome |-> ExitOutcome(state, proc[t].step, FALSE),
                  cause |-> "none", step |-> proc[t].step,
                  out |-> Len(run.log["out"]), err |-> Len(run.log["err"])]
    <3>1. ReadAs(t, run, <<>>, state, FALSE, granted)
      BY <1>2, <2>1, <2>4, StatusRead DEF StateTypes, Run
    <3>2. result = StatusVerdict(run, state, FALSE, granted)
      BY <1>9 DEF run, state
    <3> QED
      BY <3>1, <3>2 DEF ReadAs
  <2>6. ASSUME ~proc[t].failed,
               result = [outcome |-> ExitOutcome(state, proc[t].step, FALSE),
                  cause |-> "none", step |-> proc[t].step,
                  out |-> wrote[t]["out"], err |-> wrote[t]["err"]]
        PROVE  Settled(t, result)'
    <3> DEFINE outcome == ExitOutcome(state, proc[t].step, FALSE)
    <3>1. /\ state = "exited" /\ proc[t].step = FinishedStep => outcome = "success"
          /\ state = "exited" /\ proc[t].step # FinishedStep => outcome = "exit"
          /\ state = "signalled" => outcome = "signal"
          /\ state = "stopped" => outcome = "stop"
      BY DEF ExitOutcome
    <3>2. proc'[t].state = IF state = "stopped" THEN "killed" ELSE state
      BY <1>3, <2>3 DEF Alive, state
    <3> HIDE DEF outcome
    <3>3. result.outcome = outcome /\ result.cause = "none" /\ result.step = proc[t].step
          /\ result.out = wrote[t]["out"] /\ result.err = wrote[t]["err"]
      BY <2>6 DEF outcome
    <3>4. outcome # "timeout"
      BY <2>3, <3>1
    <3>5. EndRight(t, result)'
      BY <1>3, <2>3, <2>6, <3>1, <3>2, <3>3 DEF EndRight, EndedOutcomes
    <3>6. StepRight(t, result)' /\ OutputRight(t, result)' /\ TimeRight(t, result)'
      BY <1>1, <1>3, <3>3, <3>4 DEF StepRight, OutputRight, TimeRight
    <3> QED
      BY <1>4, <3>5, <3>6 DEF Settled, Right
  <2> QED
    BY <1>7, <1>8, <1>9, <2>2, <2>5, <2>6 DEF run, state
<1>10. ASSUME NEW granted \in Granted,
              result = StatusVerdict(runs[s], "exited", TRUE, granted),
              pc = "limit", s = cursor, OverLimit(s)
       PROVE  Settled(t, result)'
  <2>1. t <= clock /\ clock <= overdue /\ overdue \in Nat /\ clock \in Nat /\ t \in Nat
    BY <1>10, TestsAssumption DEF OverLimit, TestOf, StateTypes
  <2>2. proc[t].state # "running" => proc[t].late
    BY <1>10, <2>1 DEF Watched, Timed
  <2>3. \/ result \in {ErrorVerdict("nodata", NoStep), ErrorVerdict("step", NoStep)}
        \/ proc[t].failed /\ result = ErrorVerdict("load", proc[t].step)
        \/ \E n \in 1..Announced(t) :
              result = [outcome |-> ExitOutcome("exited", StepOf(t, AllLines(t)[n]), TRUE),
                        cause |-> "none", step |-> StepOf(t, AllLines(t)[n]),
                        out |-> Len(runs[s].log["out"]), err |-> Len(runs[s].log["err"])]
    <3>1. pipe[t]["status"] \in Seq(Item)
          /\ runs[s].log["status"] \o pipe[t]["status"] = Written(t, "status")
      BY <1>6 DEF Pipes
    <3>2. ReadAs(t, runs[s], pipe[t]["status"], "exited", TRUE, granted)
      BY <1>2, <1>5, <3>1, StatusRead DEF StateTypes, Run
    <3> QED
      BY <1>10, <3>2 DEF ReadAs
  <2>4. ASSUME NEW n \in 1..Announced(t),
               result = [outcome |-> ExitOutcome("exited", StepOf(t, AllLines(t)[n]), TRUE),
                        cause |-> "none", step |-> StepOf(t, AllLines(t)[n]),
                        out |-> Len(runs[s].log["out"]), err |-> Len(runs[s].log["err"])]
        PROVE  Settled(t, result)'
    <3>1. result.outcome = "timeout" /\ result.cause = "none"
          /\ result.step = StepOf(t, AllLines(t)[n])
      BY <2>4 DEF ExitOutcome
    <3>2. EndRight(t, result)' /\ OutputRight(t, result)'
      BY <3>1 DEF EndRight, OutputRight, EndedOutcomes
    <3>3. StepRight(t, result)'
      BY <1>4, <3>1 DEF StepRight, EndedOutcomes
    <3>4. TimeRight(t, result)'
      BY <1>1, <1>2, <1>3, <2>1, <2>2 DEF TimeRight, Watchable, Alive
    <3> QED
      BY <1>4, <3>2, <3>3, <3>4 DEF Settled, Right
  <2> QED
    BY <1>7, <1>8, <2>3, <2>4
<1> QED
  BY <1>7, <1>9, <1>10 DEF GivesUp

LEMMA SettledStay ==
    ASSUME StateTypes, Results, overdue' \in Nat, overdue <= overdue',
           \A t \in Tests : \/ report[t] = <<>> \/ Alive(t)
                            \/ proc'[t] = proc[t] /\ wrote'[t] = wrote[t]
    PROVE  \A t \in Tests : \A v \in Verdicts(t) : Settled(t, v)'
<1> SUFFICES ASSUME NEW t \in Tests, NEW v \in Verdicts(t)
             PROVE  Settled(t, v)'
  OBVIOUS
<1>1. Settled(t, v) /\ overdue \in Nat /\ t \in Nat
  BY TestsAssumption DEF Results, StateTypes
<1>2. report[t] # <<>>
  BY DEF Verdicts
<1> QED
  BY <1>1, <1>2, SettledKept

LEMMA ResultsInit == Init => Results
  BY DEF Init, Results, Verdicts

LEMMA ResultsStep ==
    ASSUME StateTypes, Counting \/ GivenUp, Watched, Logs, Results, [Next]_vars
    PROVE  Results'
<1>1. /\ \A s \in Active : s \in Slots /\ TestOf(s) \in Tests
      /\ overdue \in Nat /\ overdue' \in Nat
      /\ proc \in [Tests -> Process]
  <2>1. StateTypes'
    BY TypesStep
  <2>2. overdue \in Nat /\ overdue' \in Nat
    BY <2>1, TestsAssumption DEF StateTypes
  <2>3. \A s \in Active : s \in Slots /\ TestOf(s) \in Tests
    BY ActiveTest DEF TestOf, StateTypes
  <2> QED
    BY <2>2, <2>3 DEF StateTypes
<1>2. ASSUME overdue <= overdue',
             \A t \in Tests : \/ report[t] = <<>> \/ Alive(t)
                              \/ proc'[t] = proc[t] /\ wrote'[t] = wrote[t],
             report' = report
      PROVE  Results'
  <2>1. \A t \in Tests : Verdicts(t)' = Verdicts(t)
    BY <1>2 DEF Verdicts
  <2>2. \A t \in Tests : \A v \in Verdicts(t) : Settled(t, v)'
    BY <1>1, <1>2, SettledStay
  <2> QED
    BY <2>1, <2>2 DEF Results
<1>3. ASSUME overdue <= overdue',
             \A t \in Tests : \/ report[t] = <<>> \/ Alive(t)
                              \/ proc'[t] = proc[t] /\ wrote'[t] = wrote[t],
             NEW S \in SUBSET Tests, NEW result \in Verdict, ReportAll(S, result),
             \A t \in S : Settled(t, result)'
      PROVE  Results'
  <2>1. \A t \in Tests : \A v \in Verdicts(t)' : v \in Verdicts(t) \/ (t \in S /\ v = result)
    BY <1>3, VerdictsGrow DEF StateTypes
  <2>2. \A t \in Tests : \A v \in Verdicts(t) : Settled(t, v)'
    BY <1>1, <1>3, SettledStay
  <2> QED
    BY <1>3, <2>1, <2>2 DEF Results
<1>4. CASE SlotsKept /\ LimitKept /\ (report' = report \/ RestReported)
  <2>1. UNCHANGED <<proc, wrote, overdue>>
    BY <1>4 DEF SlotsKept, childVars
  <2>2. CASE report' = report
    BY <1>1, <1>2, <2>1, <2>2
  <2>3. CASE RestReported
    <3>1. PICK cause \in {"fork", "pipe"} : ReportAll(Remaining, ErrorVerdict(cause, NoStep))
      BY <2>3 DEF RestReported
    <3>2. ErrorVerdict(cause, NoStep) \in Verdict /\ Remaining \in SUBSET Tests
      BY ErrorVerdictType DEF Causes, Remaining
    <3>3. \A t \in Remaining : ~Alive(t)'
      BY <2>1 DEF Remaining, Watched, Unborn, NoProcess, Alive
    <3>4. \A t \in Remaining : Settled(t, ErrorVerdict(cause, NoStep))'
      BY <3>2, <3>3, ErrorRight DEF Settled
    <3>5. \A t \in Tests : proc'[t] = proc[t] /\ wrote'[t] = wrote[t]
      BY <2>1
    <3>6. overdue <= overdue'
      BY <1>1, <2>1 DEF IInv, StateTypes
    <3> HIDE DEF Remaining
    <3> QED
      BY <1>3, <3>1, <3>2, <3>4, <3>5, <3>6, Zenon
  <2> QED
    BY <1>4, <2>2, <2>3
<1>5. CASE (\E t \in Tests : ChildStep(t)) /\ ParentAlone
  <2>1. PICK t \in Tests : ChildStep(t)
    BY <1>5
  <2>2. report' = report
    BY <1>5 DEF ParentAlone
  <2>3. Alive(t) /\ overdue' = overdue
        /\ \A u \in Tests \ {t} : proc'[u] = proc[u] /\ wrote'[u] = wrote[u]
    BY <2>1, ChildActs DEF Running, Alive, StateTypes
  <2> QED
    BY <1>1, <1>2, <2>2, <2>3
<1>6. CASE Elapse /\ ParentAlone
  BY <1>1, <1>2, <1>6 DEF ParentAlone, Elapse
<1>7. CASE pc = "start" /\ CanStart /\ (\E s \in Slots : StartNew(s)) /\ UNCHANGED loopVars
  <2>1. PICK s \in Slots : StartNew(s)
    BY <1>7
  <2>2. UNCHANGED <<report, wrote, overdue>>
        /\ proc' = [proc EXCEPT ![started + 1].state = "running"]
    BY <2>1 DEF StartNew, Fork
  <2>3. started + 1 \in Tests /\ started + 1 > started
    BY <1>7, TestsAssumption DEF CanStart, StateTypes
  <2>4. report[started + 1] = <<>>
    BY <1>7, <2>3 DEF Counting, GivenUp
  <2>5. \A t \in Tests : report[t] = <<>> \/ (proc'[t] = proc[t] /\ wrote'[t] = wrote[t])
    BY <1>1, <2>2, <2>3, <2>4
  <2> QED
    BY <1>1, <1>2, <2>2, <2>5
<1>8. CASE \E fd \in ready : DrainEvent(fd)
  <2>1. UNCHANGED <<report, wrote, overdue, proc>>
    BY <1>8 DEF DrainEvent
  <2> QED
    BY <1>1, <1>2, <2>1
<1>9. CASE \E s \in Slots : \E result : GivesUp(s, result) /\ pc' # "limit"
  <2>1. PICK s \in Slots : \E result : GivesUp(s, result)
    BY <1>9
  <2>2. PICK result : GivesUp(s, result)
    BY <2>1
  <2>3. /\ s \in Active /\ result \in Verdict
        /\ Release(s, result) /\ UNCHANGED <<wrote, overdue>>
        /\ Kill(TestOf(s)) \/ (Waitable(TestOf(s)) /\ Collect(TestOf(s)))
    BY <2>2 DEF GivesUp
  <2>4. PICK t \in Tests : t = TestOf(s)
    BY <1>1, <2>3
  <2>5. ReportAll({t}, result)
    BY <2>3, <2>4 DEF Release, TestOf
  <2>6. report[t] = <<>>
    BY <2>3, <2>4 DEF Counting, GivenUp, TestOf
  <2>7. Watchable(t)
    BY <2>3, <2>4 DEF Watched
  <2>8. \A u \in Tests \ {t} : proc'[u] = proc[u]
    BY <2>3, <2>4, <2>7, ChildGivenUp DEF Watchable
  <2>9. Settled(t, result)'
    BY <2>2, <2>4, GivenUpRight
  <2>10. \A u \in Tests : \/ report[u] = <<>> \/ Alive(u)
                          \/ proc'[u] = proc[u] /\ wrote'[u] = wrote[u]
    BY <2>3, <2>6, <2>8
  <2> QED
    BY <1>1, <1>3, <2>3, <2>5, <2>9, <2>10
<1>10. CASE PollFails
  <2> DEFINE S == {runs[s].test : s \in Active} \union Remaining
             result == ErrorVerdict("poll", NoStep)
  <2>1. /\ UNCHANGED <<proc, wrote, overdue>> /\ ReportAll(S, result)
        /\ "poll" \in Faults
    BY <1>10 DEF PollFails, childVars
  <2>2. result \in Verdict /\ S \in SUBSET Tests
    BY <1>1, ErrorVerdictType DEF Causes, Remaining, TestOf
  <2>3. \A t \in S : Settled(t, result)'
    BY <2>1, <2>2, ErrorRight DEF Settled
  <2> HIDE DEF S, result
  <2> QED
    BY <1>1, <1>3, <2>1, <2>2, <2>3
<1> QED
  BY <1>4, <1>5, <1>6, <1>7, <1>8, <1>9, <1>10, StepsSorted

LEMMA ResultsAlways == Spec => [](IInv /\ Watched /\ Results)
<1>1. IInv => StateTypes /\ (Counting \/ GivenUp)
  BY DEF IInv
<1> QED
  BY <1>1, LogsAlways, ResultsInit, ResultsStep, PTL DEF Spec

-----------------------------------------------------------------------------
(* The theorems about the results. *)

\* A success is a child that announced "finished" and exited, an exit one that
\* exited before, a signal one that crashed, a stop one that was stopped and then
\* killed; a load error is one the child reported.  No line of a child is ever
\* malformed to tdo.
THEOREM VerdictIsTheEnd == Spec => []VerdictMatchesEnd
<1>1. Results => VerdictMatchesEnd
  BY DEF Results, Settled, Right, EndRight, VerdictMatchesEnd
<1> QED
  BY <1>1, ResultsAlways, PTL

\* The current step of a result is the step its child was in when it ended.
THEOREM StepIsTheEnd == Spec => []StepIsWhereItEnded
<1>1. Results => StepIsWhereItEnded
  BY DEF Results, Settled, Right, StepRight, StepIsWhereItEnded
<1> QED
  BY <1>1, ResultsAlways, PTL

\* The result of a child that ended carries all the output it wrote.
THEOREM OutputComplete == Spec => []OutputIsComplete
<1>1. Results => OutputIsComplete
  BY DEF Results, Settled, Right, OutputRight, OutputIsComplete
<1> QED
  BY <1>1, ResultsAlways, PTL

\* A test that ended within its limit is not reported as a timeout, however
\* late tdo comes to look at it.
THEOREM TimeoutsAreReal == Spec => []NoFalseTimeout
<1>1. Results => NoFalseTimeout
  BY DEF Results, Settled, Right, TimeRight, NoFalseTimeout
<1> QED
  BY <1>1, ResultsAlways, PTL

\* Unless poll fails for good, a child that is alive sits in exactly one slot.
THEOREM LivingAreWatched ==
    ASSUME "poll" \notin Faults
    PROVE  Spec => []AliveIsWatched
<1>1. ASSUME IInv, Watched, Results, NEW t \in Tests, Alive(t)
      PROVE  Cardinality({s \in Active : runs[s].test = t}) = 1
  <2>1. report[t] = <<>>
    <3>1. ASSUME report[t] # <<>>
          PROVE  FALSE
      <4>1. report[t] \in Seq(Verdict)
        BY <1>1 DEF IInv, StateTypes
      <4>2. report[t][1] \in Verdicts(t)
        BY <3>1, <4>1 DEF Verdicts
      <4> QED
        BY <1>1, <4>2 DEF Results, Settled
    <3> QED
      BY <3>1
  <2>2. t <= started
    <3>1. started \in Nat /\ t \in Nat
      BY <1>1, TestsAssumption DEF IInv, StateTypes
    <3>2. ~(t > started)
      BY <1>1 DEF Watched, Unborn, NoProcess, Alive
    <3> QED
      BY <3>1, <3>2
  <2>3. Counting
    BY <1>1, <2>1 DEF IInv, GivenUp
  <2>4. PICK s \in Active : runs[s].test = t
    BY <2>1, <2>2, <2>3 DEF Counting
  <2>5. {r \in Active : runs[r].test = t} = {s}
    BY <2>3, <2>4 DEF Counting
  <2>6. Cardinality({s}) = 1
    BY FS_Singleton
  <2> QED
    BY <2>5, <2>6
<1>2. IInv /\ Watched /\ Results => AliveIsWatched
  BY <1>1 DEF AliveIsWatched
<1> QED
  BY <1>2, ResultsAlways, PTL

\* When the loop ends by itself, every test has its result and, unless poll
\* failed for good, no child of tdo's is left alive.
THEOREM NobodyLeftRunning ==
    ASSUME "poll" \notin Faults, ~StopOnFirstError
    PROVE  Spec => []NothingLeftRunning
<1>1. ASSUME IInv, Results, NoTestForgotten, pc = "done", NEW t \in Tests
      PROVE  ~Alive(t)
  <2>1. report[t] # <<>> /\ report[t] \in Seq(Verdict)
    BY <1>1 DEF NoTestForgotten, IInv, StateTypes
  <2>2. report[t][1] \in Verdicts(t)
    BY <2>1 DEF Verdicts
  <2> QED
    BY <1>1, <2>2 DEF Results, Settled
<1>2. IInv /\ Results /\ NoTestForgotten => NothingLeftRunning
  BY <1>1 DEF NothingLeftRunning
<1> QED
  BY <1>2, ResultsAlways, NothingForgotten, PTL
=============================================================================
