----------------------------- MODULE TdoWindows -----------------------------
(***************************************************************************)
(* tdo_run_all over platform/run_windows.c.  Three named pipes per slot     *)
(* live as long as the run; every overlapped operation on them, and the end *)
(* of every process of the job, is announced by a packet on one completion  *)
(* port, which the parent takes off one at a time.                          *)
(*                                                                         *)
(* A child opens its status pipe itself, by name; its two output pipes are  *)
(* opened for it before it is created.                                      *)
(***************************************************************************)
EXTENDS TdoLoop

CONSTANT Habits  \* what else a test's code may do: print for ever, start a process

ASSUME FaultsAssumption ==
    Faults \subseteq {"init", "command", "connect", "client", "process", "memory",
                      "open"}
ASSUME HabitsAssumption == Habits \subseteq {"chatter", "spawn"}
ASSUME NoStopAssumption == "stop" \notin Fates

VARIABLES
    io,          \* io[s][k]: the kernel's side of pipe k of slot s
    iocp,        \* the packets on the completion port, oldest first
    jobExits,    \* the tests whose exit the job has announced
    reconnected  \* history: a pipe was connected while an earlier connect of it
                 \* was pending, with the same OVERLAPPED

jobVars == <<jobExits, reconnected>>
osVars == <<io, iocp, jobVars>>
vars == <<childVars, pc, statusVars, runs, report, osVars>>

-----------------------------------------------------------------------------
(* The pipes.  listening counts the connects not yet completed, reading says *)
(* whether a read is pending, client is the test at the other end and open   *)
(* whether that end is still open.                                           *)

IdlePipe == [listening |-> 0, reading |-> FALSE, client |-> 0, open |-> FALSE]

\* A data packet carries n lines or chunks; they stay in the child's pipe until
\* the packet is handled.
IoPacket(s, k, what, n) == [slot |-> s, pipe |-> k, what |-> what, n |-> n]
ExitPacket(t) == [what |-> "exit", test |-> t]

\* A client opens the pipe: every pending connect completes.
Opened(end, t) == [end EXCEPT !.listening = 0, !.client = t, !.open = TRUE]
ConnectedPackets(s, k, connects) ==
    [i \in 1..connects |-> IoPacket(s, k, "connected", 0)]

\* CancelIoEx gives back what is pending, each with a packet; if nothing is,
\* there is no packet.
Cancelled(end) == [end EXCEPT !.listening = 0, !.reading = FALSE]
CancelPackets(s, k, end) ==
    [i \in 1..(end.listening + IF end.reading THEN 1 ELSE 0) |->
        IoPacket(s, k, "aborted", 0)]

\* DisconnectNamedPipe: a pending read fails, and nothing the client writes
\* arrives any more.
Disconnected(end) == [end EXCEPT !.client = 0, !.open = FALSE, !.reading = FALSE]
DisconnectPackets(s, k) ==
    IF io[s][k].reading THEN <<IoPacket(s, k, "disconnected", 0)>> ELSE <<>>

-----------------------------------------------------------------------------
Init ==
    /\ ChildInit
    /\ pc = "init"
    /\ runs = [s \in Slots |->
                 [active |-> FALSE, test |-> 0, handle |-> FALSE, state |-> "none",
                  timed_out |-> FALSE, read_too_much |-> FALSE,
                  ov |-> [k \in Pipes |-> "idle"], log |-> EmptyPipes]]
    /\ started = 0 /\ finished = 0 /\ running = 0
    /\ tally = [o \in Outcomes |-> 0]
    /\ fork_failed = FALSE /\ log_setup_failed = FALSE /\ any_failed = FALSE
    /\ report = [t \in Tests |-> <<>>]
    /\ io = [s \in Slots |-> [k \in Pipes |-> IdlePipe]]
    /\ iocp = <<>>
    /\ jobExits = {} /\ reconnected = FALSE

\* tdo_run_status_init: slots, port, job and pipes, or the run ends at once.
StatusInit ==
    /\ pc = "init"
    /\ \/ pc' = IF NTests = 0 THEN "done" ELSE "start"
       \/ "init" \in Faults /\ pc' = "error"
    /\ UNCHANGED <<childVars, statusVars, runs, report, osVars>>

-----------------------------------------------------------------------------
(* tdo_run_start_new. *)

\* A slip: a slot is taken while it is active.
UsableActive(run) == \A k \in Pipes : run.ov[k] # "cancelling"

\* tdo_run_new passes over slots that are active or being cancelled.
Usable(run) == ~run.active /\ \A k \in Pipes : run.ov[k] # "cancelling"
FirstFree(s) == Usable(runs[s]) /\ \A r \in 1..(s - 1) : ~Usable(runs[r])

\* A slip: the logs keep what the slot's earlier test printed.
PreparedNotReset(s, t) == [runs[s] EXCEPT !.test = t, !.handle = FALSE]

\* The slot before its pipes are connected: the test set, the logs reset.
Prepared(s, t) == [runs[s] EXCEPT !.test = t, !.handle = FALSE, !.state = "none",
                                  !.log = EmptyPipes]

\* The pipes of K get a connect each, then those of C their client, test t.
Listening(end) == [end EXCEPT !.listening = @ + 1]

Connect(s, t, K, C) ==
    [k \in Pipes |-> IF k \in C THEN Opened(Listening(io[s][k]), t)
                     ELSE IF k \in K THEN Listening(io[s][k]) ELSE io[s][k]]
ClientPackets(s, C) ==
    LET of(k) == IF k \in C THEN ConnectedPackets(s, k, io[s][k].listening + 1)
                 ELSE <<>>
    IN  of("out") \o of("err")

\* K are the pipes connected before this one fails or the start succeeds.  What a
\* free slot may have pending is a connect of its status pipe, the last of the
\* three; it is connected again whatever came of the others.
Reconnect(s, K) ==
    reconnected' = (reconnected \/ (Streams \subseteq K /\ io[s]["status"].listening > 0))

\* Everything succeeds: the child is created suspended, tied to the job, resumed;
\* its status pipe waits until it opens it.
StartNew(s) ==
    LET t == started + 1
    IN  /\ Fork(t)
        /\ runs' = [runs EXCEPT ![s] =
                      [Prepared(s, t) EXCEPT !.active = TRUE, !.handle = TRUE,
                            !.timed_out = FALSE, !.read_too_much = FALSE,
                            !.ov = [k \in Pipes |-> "waiting"]]]
        /\ io' = [io EXCEPT ![s] = Connect(s, t, Pipes, Streams)]
        /\ iocp' = iocp \o ClientPackets(s, Streams)
        /\ Reconnect(s, Pipes)
        /\ started' = t
        /\ running' = running + 1
        /\ UNCHANGED <<pipe, wrote, overdue, pc, report, finished, tally,
                       fork_failed, log_setup_failed, any_failed, jobExits>>

\* The pipes a start that fails had connected (K) and had clients for (C).
Reached(fault, K, C) ==
    \/ /\ fault = "connect" /\ C = {}
       /\ K \in {{}, {"out"}, {"out", "err"}}
    \/ /\ fault = "client" /\ K = Pipes
       /\ C \in {{}, {"out"}}
    \/ fault = "process" /\ K = Pipes /\ C = Streams

\* A start fails half way: what was connected is cancelled, the last first; a
\* pipe whose client was open already has its packet.
StartFailsAt(s, K, C) ==
    LET end == Connect(s, 0, K, C)
        cancels(k) == IF k \in K THEN CancelPackets(s, k, end[k]) ELSE <<>>
    IN  /\ runs' = [runs EXCEPT ![s] =
                      [Prepared(s, started + 1) EXCEPT !.ov =
                          [k \in Pipes |-> IF k \in K THEN "cancelling"
                                          ELSE IF K = Streams THEN "idle" ELSE @[k]]]]
        /\ io' = [io EXCEPT ![s] = [k \in Pipes |-> IF k \in K
                        THEN Cancelled([end[k] EXCEPT !.open = FALSE]) ELSE end[k]]]
        /\ iocp' = iocp \o ClientPackets(s, C)
                        \o cancels("status") \o cancels("err") \o cancels("out")

\* fork_failed or log_setup_failed is set and started restored.
StartFails(s) ==
    /\ \/ /\ "command" \in Faults
          /\ fork_failed' = TRUE
          /\ UNCHANGED <<log_setup_failed, runs, io, iocp, reconnected>>
       \/ \E fault \in {"connect", "client", "process"} \cap Faults,
             K \in SUBSET Pipes, C \in SUBSET Streams :
             /\ Reached(fault, K, C)
             /\ StartFailsAt(s, K, C)
             /\ Reconnect(s, K)
             /\ IF fault = "process"
                THEN fork_failed' = TRUE /\ UNCHANGED log_setup_failed
                ELSE log_setup_failed' = TRUE /\ UNCHANGED fork_failed
    /\ RestoreStarted
    /\ UNCHANGED <<childVars, pc, report, finished, running, tally, any_failed,
                   jobExits>>

\* The filling loop; tdo aborts when tdo_run_new finds no slot.
Start ==
    /\ pc = "start" /\ CanStart
    /\ IF \A s \in Slots : ~Usable(runs[s])
       THEN /\ pc' = "aborted"
            /\ UNCHANGED <<childVars, statusVars, runs, report, osVars>>
       ELSE \E s \in Slots : FirstFree(s) /\ (StartNew(s) \/ StartFails(s))

-----------------------------------------------------------------------------
(* tdo_run_maybe_report_exit. *)

\* A slip: only the status pipe is waited for.
MayReportAtStatus(run) == /\ ~run.handle
                          /\ run.ov["status"] \notin {"connected", "cancelling"}

\* The process has ended and no pipe is connected or being cancelled; one that
\* still waits for its connection does not count.
MayReport(run) == /\ ~run.handle
                  /\ \A k \in Pipes : run.ov[k] \notin {"connected", "cancelling"}

RunVerdict(run, granted) ==
    IF run.read_too_much THEN ErrorVerdict("memory", NoStep)
    ELSE StatusVerdict(run, run.state, run.timed_out, granted)

\* The result of run's test is written.
ReportRun(run) == \E granted \in Granted : ReportAll({run.test}, RunVerdict(run, granted))

\* The slot becomes run; if that lets its test be reported, it is, and the slot
\* is free again.
Settled(s, run) == [runs EXCEPT ![s] = [run EXCEPT !.active = @ /\ ~MayReport(run)]]

\* A slip: the slot is counted down twice.
SettleReportTwice(run) ==
    IF MayReport(run)
    THEN ReportRun(run) /\ running' = running - 2
    ELSE ReportNone /\ UNCHANGED running

SettleReport(run) ==
    IF MayReport(run)
    THEN ReportRun(run) /\ running' = running - 1
    ELSE ReportNone /\ UNCHANGED running
Settle(s, run) == SettleReport(run) /\ runs' = Settled(s, run)

-----------------------------------------------------------------------------
(* tdo_run_poll_event: one packet. *)

Packet == Head(iocp)
Dequeue(what) == /\ pc = "start" /\ ~CanStart
                 /\ iocp # <<>> /\ Packet.what = what
Run == runs[Packet.slot]
With(status) == [Run EXCEPT !.ov[Packet.pipe] = status]

\* Back in the loop of tdo_run_all, whose end has something to do only after a
\* report or a failed start.
Return == pc' = IF finished' = finished /\ ~fork_failed /\ ~log_setup_failed
                THEN "start" ELSE "check"

\* tdo_run_handle_pipe_disconnect of the packet's pipe; the packet is gone.
Disconnect ==
    /\ io' = [io EXCEPT ![Packet.slot][Packet.pipe] = Disconnected(@)]
    /\ iocp' = Tail(iocp) \o DisconnectPackets(Packet.slot, Packet.pipe)

\* The exit of a process the job holds: its slot is found by the process id.
ExitDequeued ==
    /\ Dequeue("exit")
    /\ \E s \in Active :
          /\ runs[s].test = Packet.test
          /\ Settle(s, [runs[s] EXCEPT !.handle = FALSE,
                                       !.state = proc[Packet.test].state])
    /\ iocp' = Tail(iocp)
    /\ Return
    /\ UNCHANGED <<childVars, started, fork_failed, log_setup_failed, io, jobVars>>

\* No active slot has the process id: tdo aborts.
UnknownExit ==
    /\ Dequeue("exit")
    /\ \A s \in Active : runs[s].test # Packet.test
    /\ pc' = "aborted"
    /\ iocp' = Tail(iocp)
    /\ UNCHANGED <<childVars, statusVars, runs, report, io, jobVars>>

\* A packet of a pipe that was cancelled only disconnects it; nothing is reported.
CancelledDequeued ==
    /\ \E what \in {"connected", "data"} : Dequeue(what)
    /\ Run.ov[Packet.pipe] = "cancelling"
    /\ runs' = [runs EXCEPT ![Packet.slot] = With("idle")]
    /\ Disconnect
    /\ ReportNone
    /\ Return
    /\ UNCHANGED <<childVars, started, running, fork_failed, log_setup_failed,
                   jobVars>>

\* ReadFile, with "left" still in the pipe: with data it completes and posts a
\* packet, without it is pending, and if the client is gone there is nothing more
\* to read: the pipe is disconnected and the test may be reported.
ReadNext(run, left) ==
    LET s == Packet.slot  k == Packet.pipe
    IN  IF left = <<>> /\ ~io[s][k].open
        THEN /\ Disconnect
             /\ Settle(s, [run EXCEPT !.ov[k] = "idle"])
        ELSE /\ io' = [io EXCEPT ![s][k].reading = (left = <<>>)]
             /\ iocp' = Tail(iocp) \o
                    (IF left = <<>> THEN <<>> ELSE <<IoPacket(s, k, "data", Len(left))>>)
             /\ runs' = [runs EXCEPT ![s] = run]
             /\ ReportNone /\ UNCHANGED running

\* What the child at the other end of the packet's pipe has in it.
Client == io[Packet.slot][Packet.pipe].client
InPipe == IF Client = 0 THEN <<>> ELSE pipe[Client][Packet.pipe]

\* Any packet of a waiting pipe is taken for its connection: the first read starts.
\* (Data comes here only if the pipe was disconnected under it and used again.)
WaitingDequeued == /\ \E what \in {"connected", "data"} : Dequeue(what)
                   /\ Run.ov[Packet.pipe] = "waiting"

ConnectedDequeued ==
    /\ WaitingDequeued
    /\ io[Packet.slot][Packet.pipe].listening = 0
    /\ ReadNext(With("connected"), InPipe)
    /\ Return
    /\ UNCHANGED <<childVars, started, fork_failed, log_setup_failed, jobVars>>

\* tdo_log_append.
LogAppend(log, data) == log \o data

\* The pipe still waits for its client: the read fails with a code that is not
\* expected, and tdo aborts.
ListeningDequeued ==
    /\ WaitingDequeued
    /\ io[Packet.slot][Packet.pipe].listening > 0
    /\ pc' = "aborted"
    /\ iocp' = Tail(iocp)
    /\ UNCHANGED <<childVars, statusVars, runs, report, io, jobVars>>

\* What was read is appended to the log and the next read starts.
DataDequeued ==
    /\ Dequeue("data")
    /\ Run.ov[Packet.pipe] = "connected"
    /\ LET read == SubSeq(InPipe, 1, Packet.n)
           left == SubSeq(InPipe, Packet.n + 1, Len(InPipe))
       IN  /\ ReadNext([Run EXCEPT !.log[Packet.pipe] = LogAppend(@, read)], left)
           /\ pipe' = [pipe EXCEPT ![Client][Packet.pipe] = left]
    /\ Return
    /\ UNCHANGED <<proc, wrote, overdue, started, fork_failed, log_setup_failed,
                   jobVars>>

TerminateAll(S) ==
    proc' = [t \in Tests |-> IF t \in S /\ Alive(t)
                             THEN [proc[t] EXCEPT !.state = "killed"] ELSE proc[t]]
HandleOf(run) == IF run.handle THEN {run.test} ELSE {}

\* The exit packets of the tests in S, at most one.
ExitPackets(S) == IF S = {} THEN <<>> ELSE <<ExitPacket(CHOOSE t \in S : TRUE)>>

\* CancelIoEx for a pipe that is not the packet's own.
CancelOther(k) == IF k = Packet.pipe THEN <<>>
                  ELSE CancelPackets(Packet.slot, k, io[Packet.slot][k])

\* The append fails: the child is terminated, this pipe disconnected, the other
\* two marked as being cancelled whatever state they are in.  The kernel may
\* announce the exit before the cancels are made.
AppendFails ==
    /\ "memory" \in Faults
    /\ Dequeue("data")
    /\ Run.ov[Packet.pipe] = "connected"
    /\ LET s == Packet.slot  others == Pipes \ {Packet.pipe}
       IN  /\ runs' = [runs EXCEPT ![s] =
                         [Run EXCEPT !.read_too_much = TRUE,
                             !.ov = [k \in Pipes |-> IF k \in others THEN "cancelling"
                                                     ELSE "idle"]]]
           /\ io' = [io EXCEPT ![s] =
                       [k \in Pipes |-> IF k \in others THEN Cancelled(@[k])
                                        ELSE Disconnected(@[k])]]
           /\ TerminateAll(HandleOf(Run))
           /\ \E early \in SUBSET {t \in HandleOf(Run) : t \notin jobExits} :
                 /\ jobExits' = jobExits \union early
                 /\ iocp' = Tail(iocp) \o ExitPackets(early)
                              \o CancelOther("out") \o CancelOther("err")
                              \o CancelOther("status")
    /\ ReportNone
    /\ Return
    /\ UNCHANGED <<pipe, wrote, overdue, started, running, fork_failed,
                   log_setup_failed, reconnected>>

\* A packet without bytes on a connected pipe is taken for its end.
EmptyDequeued ==
    /\ Dequeue("connected")
    /\ Run.ov[Packet.pipe] = "connected"
    /\ Disconnect
    /\ Settle(Packet.slot, With("idle"))
    /\ Return
    /\ UNCHANGED <<childVars, started, fork_failed, log_setup_failed, jobVars>>

\* A packet that says it succeeded on an idle pipe: tdo aborts.
IdleDequeued ==
    /\ \E what \in {"connected", "data"} : Dequeue(what)
    /\ Run.ov[Packet.pipe] = "idle"
    /\ pc' = "aborted"
    /\ iocp' = Tail(iocp)
    /\ UNCHANGED <<childVars, statusVars, runs, report, io, jobVars>>

\* The read of a pipe that was disconnected under it fails with a code that is
\* not expected: tdo aborts.
UnexpectedFailure ==
    /\ Dequeue("disconnected")
    /\ pc' = "aborted"
    /\ iocp' = Tail(iocp)
    /\ UNCHANGED <<childVars, statusVars, runs, report, io, jobVars>>

\* The slots past the limit: marked, and their processes terminated.
OverLimit(s) == runs[s].test <= overdue
Marked(rs) == [s \in Slots |-> IF rs[s].active /\ OverLimit(s)
                               THEN [rs[s] EXCEPT !.timed_out = TRUE] ELSE rs[s]]

\* A slip: the slots are marked, the processes live on.
EnforceNotKilled(rs) == runs' = Marked(rs) /\ UNCHANGED proc

\* The limits, looked at with the slots as the packet left them.
Enforce(rs) ==
    /\ runs' = Marked(rs)
    /\ TerminateAll({rs[s].test : s \in {s \in Slots :
                        rs[s].active /\ rs[s].handle /\ OverLimit(s)}})

WasCancelled == Run.ov[Packet.pipe] = "cancelling"

\* A failed packet: the pipe is disconnected, and unless it was cancelled the
\* test may be reported; then the limits are looked at.
FailedDequeued ==
    /\ \E what \in {"broken", "aborted"} : Dequeue(what)
    /\ Disconnect
    /\ IF WasCancelled
       THEN /\ ReportNone /\ UNCHANGED running
            /\ Enforce([runs EXCEPT ![Packet.slot] = With("idle")])
       ELSE /\ SettleReport(With("idle"))
            /\ Enforce(Settled(Packet.slot, With("idle")))
    /\ Return
    /\ UNCHANGED <<pipe, wrote, overdue, started, fork_failed, log_setup_failed,
                   jobVars>>

\* Nothing arrives for 100 ms: the limits are looked at.
WaitTimeout ==
    /\ pc = "start" /\ ~CanStart
    /\ iocp = <<>>
    /\ Enforce(runs)
    /\ ReportNone
    /\ Return
    /\ UNCHANGED <<pipe, wrote, overdue, started, running, fork_failed,
                   log_setup_failed, osVars>>

-----------------------------------------------------------------------------
\* tdo_run_status_deinit closes the job, which ends every process in it.
CloseJob == TerminateAll(Tests)

\* The end of the loop body of tdo_run_all; leaving the loop closes the job.
Check ==
    /\ pc = "check"
    /\ IF StartsFailed
       THEN ReportAll(Remaining,
                ErrorVerdict(IF fork_failed THEN "fork" ELSE "pipe", NoStep))
       ELSE ReportNone
    /\ LeaveOrLoop
    /\ IF pc' = "done" THEN CloseJob ELSE UNCHANGED proc
    /\ UNCHANGED <<pipe, wrote, overdue, runs, started, running, fork_failed,
                   log_setup_failed, osVars>>

\* tdo_run_all returned or aborted.
Terminated == /\ pc \in {"done", "error", "aborted"}
              /\ UNCHANGED vars

Parent == \/ StatusInit \/ Start
          \/ ExitDequeued \/ UnknownExit \/ CancelledDequeued
          \/ ConnectedDequeued \/ ListeningDequeued
          \/ DataDequeued \/ AppendFails
          \/ EmptyDequeued \/ IdleDequeued \/ FailedDequeued
          \/ UnexpectedFailure
          \/ WaitTimeout \/ Check

-----------------------------------------------------------------------------
(* The children and the kernel, until the run is over.  A child's step       *)
(* commutes with Check, which observes no child, so none happens before it.  *)

parentVars == <<pc, statusVars, runs, report>>

\* main of the child opens its status pipe, whenever it comes to it.
StatusOpened(s) == io[s]["status"].client = runs[s].test
OpenStatus(s) ==
    /\ Running(runs[s].test)
    /\ io[s]["status"].listening > 0
    /\ io' = [io EXCEPT ![s]["status"] = Opened(@, runs[s].test)]
    /\ iocp' = iocp \o ConnectedPackets(s, "status", io[s]["status"].listening)
    /\ UNCHANGED <<childVars, jobVars>>

\* What the child wrote completes the read that is pending on its pipe.
Delivers(s) ==
    LET k == CHOOSE k \in Pipes : pipe'[runs[s].test][k] # pipe[runs[s].test][k]
        data == pipe'[runs[s].test][k]
    IN  IF pipe' # pipe /\ io[s][k].reading
        THEN /\ io' = [io EXCEPT ![s][k].reading = FALSE]
             /\ iocp' = Append(iocp, IoPacket(s, k, "data", Len(data)))
        ELSE UNCHANGED <<io, iocp>>

\* It may end before: it crashes, or gives up where it could not open the pipe.
EndEarly(t) == \/ Signal(t)
               \/ "open" \in Faults /\ Running(t) /\ EndAs(t, "exited")

\* A step of the child.
Child(s) ==
    /\ IF StatusOpened(s) THEN ChildStep(runs[s].test) ELSE EndEarly(runs[s].test)
    /\ Delivers(s)
    /\ UNCHANGED jobVars

\* A test's code that prints for ever; what it prints is not recorded.
Chatter(s) ==
    /\ "chatter" \in Habits
    /\ InUserCode(runs[s].test)
    /\ io[s]["out"].reading
    /\ io' = [io EXCEPT ![s]["out"].reading = FALSE]
    /\ iocp' = Append(iocp, IoPacket(s, "out", "data", 0))
    /\ UNCHANGED <<childVars, jobVars>>

\* A process the test's code started ends; the job announces it too.
SpawnedExit(s) ==
    /\ "spawn" \in Habits
    /\ InUserCode(runs[s].test)
    /\ 0 \notin jobExits
    /\ iocp' = Append(iocp, ExitPacket(0))
    /\ jobExits' = jobExits \union {0}
    /\ UNCHANGED <<childVars, io, reconnected>>

\* The process of slot s has ended: its ends of the pipes are closed, which fails
\* the reads that are pending, ...
CloseEnds(s) ==
    LET mine == {k \in Pipes : io[s][k].client = runs[s].test /\ io[s][k].open}
        broken(k) == IF k \in mine /\ io[s][k].reading
                     THEN <<IoPacket(s, k, "broken", 0)>> ELSE <<>>
    IN  /\ ~Alive(runs[s].test)
        /\ mine # {}
        /\ io' = [io EXCEPT ![s] = [k \in Pipes |-> IF k \in mine
                       THEN [io[s][k] EXCEPT !.open = FALSE, !.reading = FALSE]
                       ELSE io[s][k]]]
        /\ iocp' = iocp \o broken("out") \o broken("err") \o broken("status")
        /\ UNCHANGED <<childVars, jobVars>>

\* ... and the job announces its exit, before or after.
AnnounceExit(s) ==
    /\ ~Alive(runs[s].test)
    /\ runs[s].test \notin jobExits
    /\ jobExits' = jobExits \union {runs[s].test}
    /\ iocp' = Append(iocp, ExitPacket(runs[s].test))
    /\ UNCHANGED <<childVars, io, reconnected>>

Over == pc \in {"done", "error", "aborted"}

Kernel == /\ ~Over
          /\ \E s \in Active : CloseEnds(s) \/ AnnounceExit(s)
          /\ UNCHANGED parentVars

Time == ~Over /\ Elapse /\ UNCHANGED <<parentVars, osVars>>

Children == /\ pc = "start"
            /\ \E s \in Active : \/ OpenStatus(s) \/ Child(s)
                                \/ Chatter(s) \/ SpawnedExit(s)
            /\ UNCHANGED parentVars

Next == Parent \/ Children \/ Kernel \/ Time \/ Terminated

Spec == Init /\ [][Next]_vars

\* The parent keeps running, the kernel finishes what a process left, and time
\* passes; no child has to do anything.
FairSpec == Spec /\ WF_vars(Parent) /\ WF_vars(Kernel) /\ WF_vars(Time)
=============================================================================
