------------------------------ MODULE TdoChild ------------------------------
(***************************************************************************)
(* The processes tdo starts: one child per test, which announces each step *)
(* on its status pipe, runs the user's code (which may print, exit, crash,  *)
(* stop itself or run for ever), and announces "finished".                  *)
(*                                                                         *)
(* Only what the parent can observe is kept: the state waitpid sees and    *)
(* the bytes waiting in the three pipes.  A line or a chunk of output is   *)
(* one element of a pipe, because the child flushes it with one write      *)
(* shorter than PIPE_BUF; each element carries the test that wrote it.     *)
(***************************************************************************)
EXTENDS Naturals, Sequences, FiniteSets

CONSTANTS
    NTests,       \* length of the tests array; tests are 1..NTests
    Fixtures,     \* Fixtures[t]: kinds of the test's fixtures, in file order
    MaxChunks,    \* MaxChunks[k]: bound on what a child prints on stream k
    Fates         \* what may happen in a child besides its code returning

FixtureKinds == {"before", "after"}
Streams == {"out", "err"}
Pipes == Streams \union {"status"}
Tests == 1..NTests

ASSUME TestsAssumption == /\ NTests \in Nat
                          /\ Fixtures \in [Tests -> Seq(FixtureKinds)]
ASSUME OutputAssumption == MaxChunks \in [Streams -> Nat]
ASSUME FatesAssumption ==
    Fates \subseteq {"exit", "signal", "stop", "loadError"}

VARIABLES
    proc,         \* proc[t]: the child of test t
    pipe,         \* pipe[t][k]: what t wrote on k and the parent has not read
    wrote,        \* wrote[t][k]: the chunks t printed on stream k so far
    overdue       \* the tests 1..overdue were started longer ago than the limit

childVars == <<proc, pipe, wrote, overdue>>

-----------------------------------------------------------------------------
(* A step is the test, a fixture (by its place in the file) or the end. *)

NoStep == [kind |-> "none", pos |-> 0]
TestStep == [kind |-> "test", pos |-> 0]
FinishedStep == [kind |-> "finished", pos |-> 0]
FixtureStep(kind, pos) == [kind |-> kind, pos |-> pos]

FixturePlaces(t) == 1..Len(Fixtures[t])
StepsOf(t) == {TestStep, FinishedStep} \union
              {FixtureStep(kind, pos) : kind \in FixtureKinds,
                                        pos \in FixturePlaces(t)}

\* The loop of tdo_run_fixtures, past place "from", stops at the next fixture
\* of its kind, or finds none.
NextOfKind(t, kind, from, pos) ==
    /\ pos > from
    /\ Fixtures[t][pos] = kind
    /\ \A i \in (from + 1)..(pos - 1) : Fixtures[t][i] # kind
NoneLeft(t, kind, from) ==
    \A i \in FixturePlaces(t) : i > from => Fixtures[t][i] # kind

\* tdo_run_single: the before fixtures, the test, the after fixtures.
Follows(t, step, last) ==
    \/ /\ last.kind \in {"none", "before"}
       /\ \/ step.kind = "before" /\ NextOfKind(t, "before", last.pos, step.pos)
          \/ step = TestStep /\ NoneLeft(t, "before", last.pos)
    \/ /\ last.kind \in {"test", "after"}
       /\ \/ step.kind = "after" /\ NextOfKind(t, "after", last.pos, step.pos)
          \/ step = FinishedStep /\ NoneLeft(t, "after", last.pos)

-----------------------------------------------------------------------------
(* proc[t].step is the last step announced, index the counter the child     *)
(* prints after b_ and a_, which starts at 0 for each kind; late says, for  *)
(* a child that ended or stopped, whether it did past its limit.            *)

NoProcess == [state |-> "none", reaped |-> FALSE, step |-> NoStep, index |-> 0,
              failed |-> FALSE, late |-> FALSE]
EmptyPipes == [k \in Pipes |-> <<>>]

ChildInit == /\ proc = [t \in Tests |-> NoProcess]
             /\ pipe = [t \in Tests |-> EmptyPipes]
             /\ wrote = [t \in Tests |-> [k \in Streams |-> 0]]
             /\ overdue = 0

Running(t) == proc[t].state = "running"
Stopped(t) == proc[t].state = "stopped"
Ended(t) == proc[t].state \in {"exited", "signalled"}
Alive(t) == proc[t].state \in {"running", "stopped"}

\* The user's code runs: a step is announced and did not fail to load.
InUserCode(t) == /\ Running(t)
                 /\ proc[t].step.kind \in FixtureKinds \union {"test"}
                 /\ ~proc[t].failed

\* The counter of the tdo_run_fixtures call that runs the step.
IndexFor(t, step) == IF step.kind = proc[t].step.kind THEN proc[t].index ELSE 0
StatusLine(t, step) ==
    [test |-> t, tag |-> step.kind,
     index |-> IF step.kind \in FixtureKinds THEN IndexFor(t, step) ELSE 0]
Chunk(t, k, n) == [test |-> t, tag |-> k, index |-> n]
ErrorLine(t) == [test |-> t, tag |-> "error", index |-> 0]

\* The child prints the step's line; when the symbol does not load it adds an
\* error line.  One flush writes them, before the symbol is called.
Announce(t, step, failed) ==
    /\ Running(t) /\ ~proc[t].failed
    /\ Follows(t, step, proc[t].step)
    /\ proc' = [proc EXCEPT ![t].step = step,
                            ![t].index = IndexFor(t, step) + 1,
                            ![t].failed = failed]
    /\ pipe' = [pipe EXCEPT ![t]["status"] = @ \o
                   (IF failed THEN <<StatusLine(t, step), ErrorLine(t)>>
                              ELSE <<StatusLine(t, step)>>)]
    /\ UNCHANGED <<wrote, overdue>>

Proceed(t) == \E step \in StepsOf(t) : Announce(t, step, FALSE)

\* The library or the symbol is missing: the abort that follows is Signal.
LoadError(t) == /\ "loadError" \in Fates
                /\ \E step \in StepsOf(t) \ {FinishedStep} :
                      Announce(t, step, TRUE)

\* The user's code prints on stdout or stderr.
Write(t, k) ==
    /\ InUserCode(t)
    /\ wrote[t][k] < MaxChunks[k]
    /\ wrote' = [wrote EXCEPT ![t][k] = @ + 1]
    /\ pipe' = [pipe EXCEPT ![t][k] = Append(@, Chunk(t, k, wrote[t][k] + 1))]
    /\ UNCHANGED <<proc, overdue>>

EndAs(t, state) ==
    /\ proc' = [proc EXCEPT ![t].state = state, ![t].late = (t <= overdue)]
    /\ UNCHANGED <<pipe, wrote, overdue>>

\* _exit(0) after "finished", or an exit the user's code makes on its own.
Exit(t) ==
    /\ \/ Running(t) /\ proc[t].step = FinishedStep
       \/ "exit" \in Fates /\ InUserCode(t)
    /\ EndAs(t, "exited")

\* A crash, tdo's own abort after a load error, or a signal from outside.
Signal(t) ==
    /\ Running(t)
    /\ "signal" \in Fates \/ proc[t].failed
    /\ EndAs(t, "signalled")

Stop(t) ==
    /\ "stop" \in Fates
    /\ InUserCode(t)
    /\ EndAs(t, "stopped")

ChildStep(t) == \/ Proceed(t) \/ LoadError(t)
                \/ \E k \in Streams : Write(t, k)
                \/ Exit(t) \/ Signal(t) \/ Stop(t)

\* Time passes.  Children are forked in order, so they exceed the limit in
\* order: the tests that have are always 1..overdue, up to the last one forked.
Elapse ==
    /\ overdue < NTests
    /\ proc[overdue + 1].state # "none"
    /\ overdue' = overdue + 1
    /\ UNCHANGED <<proc, pipe, wrote>>

-----------------------------------------------------------------------------
(* What the parent does to a child. *)

Fork(t) == proc' = [proc EXCEPT ![t].state = "running"]

\* waitpid with WNOHANG and WUNTRACED has something to return.
Waitable(t) == \/ Ended(t) /\ ~proc[t].reaped
               \/ Stopped(t)

\* SIGKILL does nothing to a child that ended; the pid of a child that was
\* reaped may belong to an unrelated process by now.
Killed(t) == CASE proc[t].reaped -> "stray"
               [] ~proc[t].reaped /\ Alive(t) -> "killed"
               [] OTHER -> proc[t].state
Kill(t) == proc' = [proc EXCEPT ![t].state = Killed(t)]
=============================================================================
