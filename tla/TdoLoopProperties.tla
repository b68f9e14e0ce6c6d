------------------------- MODULE TdoLoopProperties -------------------------
(* What tdo_run_all owes its user on every platform, and how its state is   *)
(* read as a state of the abstract runner.                                  *)
EXTENDS TdoLoop, Integers

Verdicts(t) == {report[t][i] : i \in 1..Len(report[t])}

\* The lines a test that runs through prints, and how many it has printed.
CountOf(t, kind) == Cardinality({i \in FixturePlaces(t) : Fixtures[t][i] = kind})
AllLines(t) ==
    LET linesOf(kind, n) ==
            [i \in 1..n |-> [test |-> t, tag |-> kind,
                             index |-> IF kind \in FixtureKinds THEN i - 1 ELSE 0]]
    IN  linesOf("before", CountOf(t, "before")) \o linesOf("test", 1)
        \o linesOf("after", CountOf(t, "after")) \o linesOf("finished", 1)
Announced(t) ==
    LET last == proc[t].step.kind
    IN  CASE last = "none" -> 0
          [] last = "before" -> proc[t].index
          [] last = "test" -> CountOf(t, "before") + 1
          [] last = "after" -> CountOf(t, "before") + 1 + proc[t].index
          [] last = "finished" -> Len(AllLines(t))

-----------------------------------------------------------------------------
(* Types the platforms share. *)

ProcessStates == {"none", "running", "stopped", "exited", "signalled",
                  "killed", "stray"}
Process == [state : ProcessStates, reaped : BOOLEAN, step : Step, index : Nat,
            failed : BOOLEAN, late : BOOLEAN]
Tags == FixtureKinds \union Streams \union {"test", "finished", "error"}
Item == [test : Tests, tag : Tags, index : Nat]
Contents == [Pipes -> Seq(Item)]

\* An active slot holds a test that was started.
LoopTypes ==
    /\ proc \in [Tests -> Process]
    /\ pipe \in [Tests -> Contents]
    /\ wrote \in [Tests -> [Streams -> Nat]]
    /\ overdue \in 0..NTests
    /\ \A s \in Active : runs[s].test \in 1..started
    /\ started \in 0..NTests /\ finished \in Nat /\ running \in Int
    /\ tally \in [Outcomes -> Nat]
    /\ fork_failed \in BOOLEAN /\ log_setup_failed \in BOOLEAN
    /\ any_failed \in BOOLEAN
    /\ report \in [Tests -> Seq(Verdict)]

-----------------------------------------------------------------------------
(* The results. *)

EndedOutcomes == {"success", "exit", "signal", "stop"}
\* The result says how the process really ended: success exactly for a child
\* that announced "finished" and exited; an exit, a crash or a stop for one
\* that did that before finishing; a load error for one that reported it.  The
\* reporter finds no line it cannot place.
VerdictMatchesEnd ==
    \A t \in Tests : \A v \in Verdicts(t) :
        /\ v.outcome = "success" =>
              proc[t].state = "exited" /\ proc[t].step = FinishedStep
        /\ v.outcome = "exit" =>
              proc[t].state = "exited" /\ proc[t].step # FinishedStep
        /\ v.outcome = "signal" => proc[t].state = "signalled"
        /\ v.outcome = "stop" => proc[t].state = "killed"
        /\ v.cause = "load" => proc[t].failed
        /\ v.outcome \in EndedOutcomes => ~proc[t].failed
        /\ v.cause # "malformed"

\* The "current step" printed for a test is the step its process was in when
\* it ended: the fixture, by its place in the file, that the child's b_/a_
\* counter and the reporter's count agree on.  After a timeout it is a step
\* the child had announced.
StepIsWhereItEnded ==
    \A t \in Tests : \A v \in Verdicts(t) :
        /\ v.outcome \in EndedOutcomes \/ v.cause = "load"
              => v.step = proc[t].step
        /\ v.outcome = "timeout" =>
              v.step \in {StepOf(t, AllLines(t)[n]) : n \in 1..Announced(t)}

\* The result of a child that ended carries everything it printed: the pipes
\* are drained after waitpid, when nothing can be added to them.
OutputIsComplete ==
    \A t \in Tests : \A v \in Verdicts(t) :
        v.outcome \in EndedOutcomes =>
            v.out = wrote[t]["out"] /\ v.err = wrote[t]["err"]

\* No test gets a second result, whatever calls failed and whichever loop
\* reported it: the slots, the poll failure or the rest after a failed start.
ReportedAtMostOnce == \A t \in Tests : Len(report[t]) <= 1

\* When the loop ends by itself, every test has a result; with -x it may end
\* early, but only after a failure was reported.
NoTestForgotten ==
    pc = "done" => \/ \A t \in Tests : report[t] # <<>>
                   \/ StopOnFirstError
                      /\ \E t \in Tests : \E v \in Verdicts(t) :
                            v.outcome \in Failures

\* Every child that is alive sits in one active slot, so some later iteration
\* will wait for it or time it out.
AliveIsWatched ==
    \A t \in Tests : Alive(t) =>
        Cardinality({s \in Active : runs[s].test = t}) = 1

\* A slot is free whenever running says so: tdo_run_all never aborts.
NeverAborts == pc # "aborted"

\* The results written so far, as the test and its place among the test's results.
Reported == UNION {{t} \X (1..Len(report[t])) : t \in Tests}
ReportedAs(o) == {r \in Reported : report[r[1]][r[2]].outcome = o}

\* The counters of the summary agree with the results written, and while the
\* loop goes on every started test is either running or finished.
AccountsBalance ==
    /\ finished = Cardinality(Reported)
    /\ \A o \in Outcomes : tally[o] = Cardinality(ReportedAs(o))
    /\ finished = tally["success"] + tally["exit"] + tally["timeout"]
                    + tally["signal"] + tally["error"] + tally["stop"]
    /\ any_failed = (\E o \in Failures : tally[o] > 0)
    /\ finished < NTests =>
          running = Cardinality(Active) /\ started = finished + running

\* When tdo_run_all returns no child of its is left running.
NothingLeftRunning == pc = "done" => \A t \in Tests : ~Alive(t)

Written(t, k) ==
    IF k = "status"
    THEN SubSeq(AllLines(t), 1, Announced(t))
         \o (IF proc[t].failed THEN <<ErrorLine(t)>> ELSE <<>>)
    ELSE [n \in 1..wrote[t][k] |-> Chunk(t, k, n)]

\* A slot's logs and what is still in the pipes are together exactly what the
\* slot's own child wrote, in order: nothing of the slot's earlier test, of
\* another child or of another stream.
LogsBelongToSlot ==
    \A s \in Active : \A k \in Pipes :
        runs[s].log[k] \o pipe[runs[s].test][k] = Written(runs[s].test, k)

\* -x: once a failure is reported no other test is started.
NoStartAfterFailure ==
    [][StopOnFirstError /\ any_failed => started' = started]_<<started, any_failed>>

-----------------------------------------------------------------------------
(* Progress. *)

\* tdo_run_all returns, even if every child hangs: the limit ends them.
RunEnds == <>(pc \in {"done", "error"})

\* A child past its limit does not stay alive.
LimitIsEnforced ==
    \A t \in Tests : (Alive(t) /\ t <= overdue) ~> ~Alive(t)

-----------------------------------------------------------------------------
(* The abstract runner this one implements. *)

PhaseOf(t) ==
    CASE report[t] # <<>> ->
            IF Head(report[t]).outcome = "success" THEN "pass" ELSE "fail"
      [] report[t] = <<>> /\ (\E s \in Active : runs[s].test = t) -> "running"
      [] OTHER -> "waiting"

Runner == INSTANCE TdoRunner WITH phase <- [t \in Tests |-> PhaseOf(t)],
                                  over <- pc = "done"

\* Each step of the loop is a step of the abstract runner or leaves it alone.
ImplementsRunner == Runner!Spec
=============================================================================
