------------------------------ MODULE TdoRunner ------------------------------
(***************************************************************************)
(* What tdo promises about a list of tests, whatever the platform: every   *)
(* test is begun in order, at most Processes of them run at a time, each   *)
(* gets one verdict, and the run is over when every test has one, or with   *)
(* -x after a failure.  TdoPosix is shown to implement it.                  *)
(***************************************************************************)
EXTENDS Naturals, FiniteSets

CONSTANTS NTests, Processes, StopOnFirstError

Tests == 1..NTests
Results == {"pass", "fail"}

VARIABLES
    phase,     \* phase[t]: "waiting", "running", or the test's result
    over       \* the run has ended: nothing changes any more

vars == <<phase, over>>

Unreported == {t \in Tests : phase[t] \notin Results}
InProgress == {t \in Tests : phase[t] = "running"}
SomeFailed == \E t \in Tests : phase[t] = "fail"

Init == /\ phase = [t \in Tests |-> "waiting"]
        /\ over = FALSE

\* The next test is begun, unless a failure was already reported under -x.
Begin(t) ==
    /\ ~over
    /\ phase[t] = "waiting"
    /\ \A u \in 1..(t - 1) : phase[u] # "waiting"
    /\ Cardinality(InProgress) < Processes
    /\ ~(StopOnFirstError /\ SomeFailed)
    /\ phase' = [phase EXCEPT ![t] = "running"]
    /\ UNCHANGED over

\* One running test gets its verdict.
Report(t, result) ==
    /\ ~over
    /\ phase[t] = "running"
    /\ phase' = [phase EXCEPT ![t] = result]
    /\ UNCHANGED over

\* A system call failed for good: every test left fails at once, so a test
\* that never ran is reported only when no verdict is left to come.
GiveUp ==
    /\ ~over
    /\ Unreported # {}
    /\ phase' = [t \in Tests |-> IF t \in Unreported THEN "fail" ELSE phase[t]]
    /\ over' \in BOOLEAN

Finish ==
    /\ ~over
    /\ Unreported = {} \/ (StopOnFirstError /\ SomeFailed)
    /\ over' = TRUE
    /\ UNCHANGED phase

Next == \/ \E t \in Tests : Begin(t)
        \/ \E t \in Tests, result \in Results : Report(t, result)
        \/ GiveUp
        \/ Finish

Spec == Init /\ [][Next]_vars
=============================================================================
