----------------------------- MODULE TdoStatus -----------------------------
(***************************************************************************)
(* The verdict on a test, as run.c reads it off the logs of its slot and   *)
(* the status of its process.  Both platforms share this code.             *)
(***************************************************************************)
EXTENDS TdoChild

CONSTANT Faults      \* the calls the environment may make fail

\* Whether malloc has memory for the step of a report.
Granted == IF "memory" \in Faults THEN BOOLEAN ELSE {TRUE}

Failures == {"exit", "timeout", "signal", "error", "stop"}
Outcomes == Failures \union {"success"}
Causes == {"none", "load", "nodata", "malformed", "memory", "step", "read", "poll",
           "fork", "pipe"}
Step == [kind : FixtureKinds \union {"none", "test", "finished"}, pos : Nat]
Verdict == [outcome : Outcomes, cause : Causes, step : Step,
            out : Nat, err : Nat]

-----------------------------------------------------------------------------
(* tdo_run_report_status: the verdict read off a slot's logs. *)

\* A slip: the index of a line taken for a place in the whole list.
FixturesAtPlace(t, line) == {i \in FixturePlaces(t) : i = line.index + 1}

\* The fixture a b_/a_ line stands for: the loop counts those of its kind.
FixturesAt(t, line) ==
    {i \in FixturePlaces(t) :
        /\ Fixtures[t][i] = line.tag
        /\ Cardinality({j \in 1..(i - 1) : Fixtures[t][j] = line.tag}) = line.index}

ErrorVerdict(cause, step) ==
    [outcome |-> "error", cause |-> cause, step |-> step, out |-> 0, err |-> 0]

\* A slip: a process that exited is a success, wherever it was.
ExitOutcomeAnyStep(state, step, timed_out) ==
    CASE timed_out -> "timeout"
      [] ~timed_out /\ state = "exited" -> "success"
      [] ~timed_out /\ state = "signalled" -> "signal"
      [] ~timed_out /\ state = "stopped" -> "stop"

\* tdo_run_report_exit: a timeout outranks the process status, which is the
\* state of the child; "exited" is a success when the last line is "finished".
ExitOutcome(state, step, timed_out) ==
    CASE timed_out -> "timeout"
      [] ~timed_out /\ state = "exited" ->
            IF step = FinishedStep THEN "success" ELSE "exit"
      [] ~timed_out /\ state = "signalled" -> "signal"
      [] ~timed_out /\ state = "stopped" -> "stop"

\* The step a line names; NoStep when its index names no fixture.
StepOf(t, line) ==
    CASE line.tag = "test" -> TestStep
      [] line.tag = "finished" -> FinishedStep
      [] line.tag \in FixtureKinds ->
            IF FixturesAt(t, line) = {} THEN NoStep
            ELSE FixtureStep(line.tag, CHOOSE i \in FixturesAt(t, line) : TRUE)
      [] OTHER -> NoStep

\* Unless the child finished, the step it was in is assembled in the arena.
StatusVerdict(run, state, timed_out, granted) ==
    LET lines == run.log["status"]
        step == IF lines = <<>> THEN NoStep
                ELSE StepOf(run.test, lines[Len(lines)])
        failedStep == IF Len(lines) < 2 THEN NoStep
                      ELSE StepOf(run.test, lines[Len(lines) - 1])
    IN  IF lines = <<>> THEN ErrorVerdict("nodata", NoStep)
        ELSE IF lines[Len(lines)].tag = "error"
             THEN IF failedStep.kind \notin FixtureKinds \union {"test"}
                  THEN ErrorVerdict("malformed", NoStep)
                  ELSE IF granted THEN ErrorVerdict("load", failedStep)
                  ELSE ErrorVerdict("step", NoStep)
        ELSE IF step = NoStep THEN ErrorVerdict("malformed", NoStep)
        ELSE IF step # FinishedStep /\ ~granted THEN ErrorVerdict("step", NoStep)
        ELSE [outcome |-> ExitOutcome(state, step, timed_out),
              cause |-> "none", step |-> step,
              out |-> Len(run.log["out"]), err |-> Len(run.log["err"])]
=============================================================================
