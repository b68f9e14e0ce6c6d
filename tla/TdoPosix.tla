------------------------------ MODULE TdoPosix ------------------------------
(***************************************************************************)
(* tdo_run_all over platform/run_posix.c: one parent that starts a child    *)
(* per test in up to Processes slots, polls their pipes, waits for them,    *)
(* enforces the time limit and reports each test.                           *)
(*                                                                         *)
(* A parent action is the code between two points where what the children   *)
(* or the clock do meanwhile can change its course: each system call that   *)
(* observes them is a step of its own.                                      *)
(***************************************************************************)
EXTENDS TdoLoop

ASSUME FaultsAssumption ==
    Faults \subseteq {"init", "pipe", "fork", "poll", "interrupt",
                      "memory", "read"}

VARIABLES
    cursor,             \* the slot, or the poll event, it handles next
    ready,              \* the fds <<slot, pipe>> poll found readable
    clock               \* overdue, as read before the slots are inspected

loopVars == <<pc, cursor, ready, clock>>
vars == <<childVars, loopVars, statusVars, runs, report>>

EmptyLogs == [k \in Pipes |-> <<>>]

-----------------------------------------------------------------------------
(* Bookkeeping that every report and every slot goes through. *)

\* Two slips: the slot stays active; the caller counts it down once more.
ReleaseNotFreed(s, verdict) ==
    /\ ReportAll({runs[s].test}, verdict)
    /\ pipe' = [pipe EXCEPT ![runs[s].test] = EmptyPipes]
    /\ running' = running - 1
    /\ UNCHANGED runs
ReleaseCountedTwice(s, verdict) ==
    /\ ReportAll({runs[s].test}, verdict)
    /\ runs' = [runs EXCEPT ![s].active = FALSE]
    /\ pipe' = [pipe EXCEPT ![runs[s].test] = EmptyPipes]
    /\ running' = running - 2

\* A slot's test is reported, its pipes are closed and the slot is free.
Release(s, verdict) ==
    /\ ReportAll({runs[s].test}, verdict)
    /\ runs' = [runs EXCEPT ![s].active = FALSE]
    /\ pipe' = [pipe EXCEPT ![runs[s].test] = EmptyPipes]
    /\ running' = running - 1

-----------------------------------------------------------------------------
Init ==
    /\ ChildInit
    /\ pc = "init" /\ cursor = 1 /\ ready = {} /\ clock = 0
    /\ runs = [s \in Slots |-> [active |-> FALSE, test |-> 0, log |-> EmptyLogs]]
    /\ started = 0 /\ finished = 0 /\ running = 0
    /\ tally = [o \in Outcomes |-> 0]
    /\ fork_failed = FALSE /\ log_setup_failed = FALSE /\ any_failed = FALSE
    /\ report = [t \in Tests |-> <<>>]

\* tdo_run_status_init: the slots are allocated, or the run ends at once.
StatusInit ==
    /\ pc = "init"
    /\ \/ pc' = IF NTests = 0 THEN "done" ELSE "start"
       \/ "init" \in Faults /\ pc' = "error"
    /\ UNCHANGED <<childVars, cursor, ready, clock, statusVars, runs, report>>

\* tdo_run_new: the first slot that is not active.
FirstFree(s) == ~runs[s].active /\ \A r \in 1..(s - 1) : runs[r].active

\* A slip: the logs of the slot's earlier test are kept.
FilledSlotNotReset(s, t) == [active |-> TRUE, test |-> t, log |-> runs[s].log]

\* The slot as tdo_run_start_new leaves it, its logs reset.
FilledSlot(s, t) == [active |-> TRUE, test |-> t, log |-> EmptyLogs]

\* tdo_run_start_new forks the child of the next test.
StartNew(s) ==
    /\ FirstFree(s)
    /\ Fork(started + 1)
    /\ runs' = [runs EXCEPT ![s] = FilledSlot(s, started + 1)]
    /\ started' = started + 1
    /\ running' = running + 1
    /\ UNCHANGED <<pipe, wrote, overdue, loopVars, report, finished, tally,
                   fork_failed, log_setup_failed, any_failed>>

\* pipe or fork fails: started is restored and no test is started again.
StartFails ==
    /\ \/ /\ "pipe" \in Faults
          /\ log_setup_failed' = TRUE /\ UNCHANGED fork_failed
       \/ /\ "fork" \in Faults
          /\ fork_failed' = TRUE /\ UNCHANGED log_setup_failed
    /\ RestoreStarted
    /\ UNCHANGED <<childVars, loopVars, runs, report, finished, running, tally,
                   any_failed>>

\* tdo_run_start_new; tdo aborts when tdo_run_new finds every slot taken.
Start ==
    /\ pc = "start" /\ CanStart
    /\ IF Active = Slots
       THEN /\ pc' = "aborted"
            /\ UNCHANGED <<childVars, cursor, ready, clock, statusVars, runs,
                           report>>
       ELSE (\E s \in Slots : StartNew(s)) \/ StartFails

-----------------------------------------------------------------------------
(* tdo_run_poll_event: poll and the pipes it found readable. *)

\* The fds array: for each active slot its out, err and status pipes.
PipeOrder == <<"out", "err", "status">>
Fds == Slots \X (1..3)
PipeOf(fd) == PipeOrder[fd[2]]
Precedes(fd, other) == \/ fd[1] < other[1]
                       \/ fd[1] = other[1] /\ fd[2] <= other[2]
Readable(fd) == /\ runs[fd[1]].active
                /\ pipe[runs[fd[1]].test][PipeOf(fd)] # <<>>

\* poll returns the readable pipes, or nothing after 100 ms or a signal.
Poll ==
    /\ pc = "start" /\ ~CanStart
    /\ \/ ready' = {fd \in Fds : Readable(fd)}
       \/ "interrupt" \in Faults /\ ready' = {}
    /\ pc' = IF ready' = {} THEN "clock" ELSE "events"
    /\ UNCHANGED <<childVars, cursor, clock, statusVars, runs, report>>

\* poll fails: every test without a result is reported.  The children are
\* neither killed nor waited for, and running is left as it is.
PollFails ==
    /\ "poll" \in Faults
    /\ pc = "start" /\ ~CanStart
    /\ ReportAll({runs[s].test : s \in Active} \union Remaining,
                 ErrorVerdict("poll", NoStep))
    /\ runs' = [s \in Slots |-> [runs[s] EXCEPT !.active = FALSE]]
    /\ pc' = "clock"
    /\ UNCHANGED <<childVars, cursor, ready, clock, started, running,
                   fork_failed, log_setup_failed>>

\* The readable pipes are handled in the order of the array.
HandleFirst(fd) ==
    /\ pc = "events"
    /\ \A other \in ready : Precedes(fd, other)
    /\ ready' = ready \ {fd}
    /\ pc' = IF ready' = {} THEN "clock" ELSE "events"
    /\ UNCHANGED <<cursor, clock>>

\* The slot was given up on an earlier pipe of the same poll.
SkipEvent(fd) ==
    /\ HandleFirst(fd)
    /\ ~runs[fd[1]].active
    /\ UNCHANGED <<childVars, statusVars, runs, report>>

\* tdo_log_drain reads until the pipe is empty.
DrainEvent(fd) ==
    /\ HandleFirst(fd)
    /\ runs[fd[1]].active
    /\ LET k == PipeOf(fd)
           t == runs[fd[1]].test
       IN  /\ runs' = [runs EXCEPT ![fd[1]].log[k] = @ \o pipe[t][k]]
           /\ pipe' = [pipe EXCEPT ![t][k] = <<>>]
    /\ UNCHANGED <<proc, wrote, overdue, statusVars, report>>

\* A read or an allocation fails: the test is reported and its child killed.
DrainFails(fd) ==
    /\ HandleFirst(fd)
    /\ runs[fd[1]].active
    /\ \E cause \in {"memory", "read"} \cap Faults :
          Release(fd[1], ErrorVerdict(cause, NoStep))
    /\ Kill(runs[fd[1]].test)
    /\ UNCHANGED <<wrote, overdue, started, fork_failed, log_setup_failed>>

-----------------------------------------------------------------------------
(* tdo_run_poll_event: every active slot is waited for, then timed. *)

ReadClock ==
    /\ Transition("clock", "slots")
    /\ clock' = overdue
    /\ cursor' = 1
    /\ UNCHANGED <<childVars, ready, statusVars, runs, report>>

NextSlot == /\ pc' = IF cursor = Processes THEN "check" ELSE "slots"
            /\ cursor' = IF cursor = Processes THEN 1 ELSE cursor + 1
            /\ UNCHANGED <<ready, clock>>

SkipSlot ==
    /\ pc = "slots"
    /\ ~runs[cursor].active
    /\ NextSlot
    /\ UNCHANGED <<childVars, statusVars, runs, report>>

\* waitpid returns nothing: the limit decides.
WaitNone ==
    /\ Transition("slots", "limit")
    /\ runs[cursor].active
    /\ ~Waitable(runs[cursor].test)
    /\ UNCHANGED <<childVars, cursor, ready, clock, statusVars, runs, report>>

\* A slip: only the status pipe is drained.
DrainedStatusOnly(s) == [runs[s] EXCEPT !.log["status"] =
                           @ \o pipe[runs[s].test]["status"]]

\* The slot after its three pipes are read to the end.
Drained(s) == [runs[s] EXCEPT !.log =
                 [k \in Pipes |-> @[k] \o pipe[runs[s].test][k]]]

\* Memory is only asked for when there is something to append.
DrainFaults(t) ==
    {cause \in {"memory", "read"} \cap Faults :
        cause = "memory" => \E k \in Pipes : pipe[t][k] # <<>>}

\* Two slips: whatever waitpid returned is killed; a child that stopped is left as
\* it is.
CollectAlwaysKilling(t) ==
    proc' = [proc EXCEPT ![t].reaped = ~Stopped(t),
                         ![t].state = IF Stopped(t) THEN "killed" ELSE "stray"]
CollectWithoutKill(t) == proc' = [proc EXCEPT ![t].reaped = TRUE]

\* waitpid releases a child that ended; one that stopped is killed.
Collect(t) == IF Stopped(t) THEN Kill(t)
              ELSE proc' = [proc EXCEPT ![t].reaped = TRUE]

\* tdo_run_poll_exit: waitpid returned the child, so its pipes are drained and
\* the test is reported.
WaitEnd ==
    /\ pc = "slots"
    /\ runs[cursor].active
    /\ LET t == runs[cursor].test
       IN  /\ Waitable(t)
           /\ \/ \E granted \in Granted :
                    Release(cursor, StatusVerdict(Drained(cursor), proc[t].state,
                                                  FALSE, granted))
              \/ \E cause \in DrainFaults(t) :
                    Release(cursor, ErrorVerdict(cause, NoStep))
           /\ Collect(t)
    /\ NextSlot
    /\ UNCHANGED <<wrote, overdue, started, fork_failed, log_setup_failed>>

\* A slip: the time is read again after waitpid.
OverLimitNow(s) == runs[s].test <= overdue

\* The elapsed time is taken from the clock read before waitpid.
OverLimit(s) == runs[s].test <= clock

WithinLimit ==
    /\ pc = "limit"
    /\ ~OverLimit(cursor)
    /\ NextSlot
    /\ UNCHANGED <<childVars, statusVars, runs, report>>

\* The test is reported from what was read so far.
ReleaseExpired ==
    \E granted \in Granted :
        Release(cursor, StatusVerdict(runs[cursor], "exited", TRUE, granted))

\* A slip: the slot is given up, the child lives on.
ExpireNotKilled ==
    /\ pc = "limit"
    /\ OverLimit(cursor)
    /\ ReleaseExpired
    /\ NextSlot
    /\ UNCHANGED <<proc, wrote, overdue, started, fork_failed, log_setup_failed>>

\* The child ran past the limit: reported, killed.
Expire ==
    /\ pc = "limit"
    /\ OverLimit(cursor)
    /\ ReleaseExpired
    /\ Kill(runs[cursor].test)
    /\ NextSlot
    /\ UNCHANGED <<wrote, overdue, started, fork_failed, log_setup_failed>>

-----------------------------------------------------------------------------
\* The end of the loop body of tdo_run_all: the tests left get an error.
Check ==
    /\ pc = "check"
    /\ IF StartsFailed
       THEN ReportAll(Remaining,
                ErrorVerdict(IF fork_failed THEN "fork" ELSE "pipe", NoStep))
       ELSE ReportNone
    /\ LeaveOrLoop
    /\ UNCHANGED <<childVars, cursor, ready, clock, runs, started, running,
                   fork_failed, log_setup_failed>>

\* tdo_run_all returned or aborted.
Terminated == /\ pc \in {"done", "error", "aborted"}
              /\ UNCHANGED vars

Parent == \/ StatusInit
          \/ Start \/ Poll \/ PollFails
          \/ \E fd \in ready : SkipEvent(fd) \/ DrainEvent(fd) \/ DrainFails(fd)
          \/ ReadClock \/ SkipSlot \/ WaitNone \/ WaitEnd
          \/ WithinLimit \/ Expire
          \/ Check

Environment == /\ \/ \E t \in Tests : ChildStep(t)
                  \/ Elapse
               /\ UNCHANGED <<loopVars, statusVars, runs, report>>

Next == Parent \/ Environment \/ Terminated

Spec == Init /\ [][Next]_vars

\* The parent keeps running and time passes; no child has to do anything.
FairSpec == /\ Spec
            /\ WF_vars(Parent)
            /\ WF_vars(Elapse /\ UNCHANGED <<loopVars, statusVars, runs, report>>)
=============================================================================
