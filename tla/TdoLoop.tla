------------------------------ MODULE TdoLoop ------------------------------
(***************************************************************************)
(* What tdo_run_all does on every platform: the counters, the results, the *)
(* conditions under which it starts a test, gives up and leaves its loop.   *)
(* TdoPosix and TdoWindows add the slots' own state and the events.         *)
(***************************************************************************)
EXTENDS TdoStatus

CONSTANTS
    Processes,          \* -j
    StopOnFirstError    \* -x

ASSUME ProcessesAssumption == Processes \in Nat \ {0}
ASSUME StopAssumption == StopOnFirstError \in BOOLEAN

Slots == 1..Processes

VARIABLES
    pc,                 \* where the parent is
    runs,               \* status.runs: the slots, each with active and test
    started, finished, running, tally,
    fork_failed, log_setup_failed, any_failed,
    report              \* report[t]: the results written for test t

statusVars == <<started, finished, running, tally, fork_failed,
                log_setup_failed, any_failed>>

Active == {s \in Slots : runs[s].active}
Transition(from, to) == pc = from /\ pc' = to

-----------------------------------------------------------------------------
(* Results and counters. *)

\* The same result is written for each of the tests in S, and counted.
ReportAll(S, verdict) ==
    /\ report' = [t \in Tests |->
                    IF t \in S THEN Append(report[t], verdict) ELSE report[t]]
    /\ tally' = [tally EXCEPT ![verdict.outcome] = @ + Cardinality(S)]
    /\ any_failed' = (any_failed \/ (S # {} /\ verdict.outcome \in Failures))
    /\ finished' = finished + Cardinality(S)

ReportNone == UNCHANGED <<report, tally, any_failed, finished>>

\* Two slips: the tests left are counted from the first; none is reported.
RemainingFromFirst == Tests
RemainingNone == {}

\* The tests no child was started for; a failed start is rolled back.
Remaining == {t \in Tests : t > started}

-----------------------------------------------------------------------------
(* The conditions of the loop. *)

\* The condition of the loop that fills the slots.
CanStart == /\ running < Processes
            /\ started < NTests
            /\ ~fork_failed
            /\ ~log_setup_failed

\* A slip: the test that could not be started stays counted.
RestoreStartedForgotten == started' = started + 1

\* status->started -= 1 undoes the increment made before the call.
RestoreStarted == UNCHANGED started

\* Two slips: the loop is left once all tests are started; never for -x.
LeaveWhenStarted == pc' = IF (StopOnFirstError /\ any_failed') \/ started >= NTests
                          THEN "done" ELSE "start"
LeaveAtEndOnly == pc' = IF finished' >= NTests THEN "done" ELSE "start"

\* -x leaves the loop after a failure; so does the last result.
LeaveOrLoop == pc' = IF (StopOnFirstError /\ any_failed') \/ finished' >= NTests
                     THEN "done" ELSE "start"

\* A slip: the tests left are reported while others still run.
StartsFailedEarly == fork_failed \/ log_setup_failed

\* A failed start is only acted on once nothing runs.
StartsFailed == running = 0 /\ (fork_failed \/ log_setup_failed)
=============================================================================
