------------------------ MODULE TdoWindowsProperties ------------------------
(* What the Windows runner owes its user, and the agreement between a       *)
(* slot's pipes, the kernel and the completion port it rests on.            *)
EXTENDS TdoWindows, TdoLoopProperties

PipeStates == {"idle", "waiting", "connected", "cancelling"}
Slot == [active : BOOLEAN, test : 0..NTests, handle : BOOLEAN,
         state : ProcessStates, timed_out : BOOLEAN, read_too_much : BOOLEAN,
         ov : [Pipes -> PipeStates], log : Contents]
End == [listening : Nat, reading : BOOLEAN, client : 0..NTests, open : BOOLEAN]
Packets ==
    [slot : Slots, pipe : Pipes, n : Nat,
     what : {"connected", "data", "broken", "aborted", "disconnected"}]
    \union [what : {"exit"}, test : 0..NTests]

StateTypes ==
    /\ LoopTypes
    /\ pc \in {"init", "start", "check", "done", "error", "aborted"}
    /\ runs \in [Slots -> Slot]
    /\ io \in [Slots -> [Pipes -> End]]
    /\ iocp \in Seq(Packets)
    /\ jobExits \subseteq 0..NTests
    /\ reconnected \in BOOLEAN

\* Every variable stays in its type; running, an unsigned count in the code,
\* never wraps below zero and never exceeds the slots (run_windows.c:274-315), up
\* to the first pipe that is connected again.
TypeOK == StateTypes /\ (reconnected \/ running \in 0..Processes)

-----------------------------------------------------------------------------
\* The operations of a pipe that are under way: pending in the kernel, or done
\* with their packet still on the port.
UnderWay(s, k) ==
    io[s][k].listening + (IF io[s][k].reading THEN 1 ELSE 0)
    + Cardinality({i \in 1..Len(iocp) :
          iocp[i].what # "exit" /\ iocp[i].slot = s /\ iocp[i].pipe = k})

(* What tdo owes up to the moment at which it connects a pipe that an earlier *)
(* connect is still pending on: from then on one OVERLAPPED serves two        *)
(* operations, and nothing holds (windows_twice).                             *)

\* A pipe that is not idle has exactly one operation under way, so one packet
\* will move it on; an idle pipe has none, so no packet finds it idle (the
\* abort at run_windows.c:456).
OnePacketPerPipe ==
    reconnected \/ \A s \in Slots, k \in Pipes :
        UnderWay(s, k) = IF runs[s].ov[k] = "idle" THEN 0 ELSE 1

\* No test gets a second result, whatever calls failed and in whatever order its
\* packets came (run_windows.c:301-316).
OneResultEach == reconnected \/ ReportedAtMostOnce

\* None of the aborts of run_windows.c is reached, and a slot is free whenever
\* running says so.
NoAbort == reconnected \/ NeverAborts

\* Every child that is alive sits in one active slot.
NobodyLost == reconnected \/ AliveIsWatched

\* The loop ends with a result for every test, or with -x after a failure.
NobodyForgotten == reconnected \/ NoTestForgotten

\* The counters agree with the results and with the slots.
CountersAgree == reconnected \/ AccountsBalance

\* Each step up to there is a step of the abstract runner or leaves it alone.
ActsAsRunner == Runner!Init /\ [][reconnected' \/ Runner!Next]_(Runner!vars)

\* tdo_run_all returns, even if every child hangs.
Returns == <>(reconnected \/ pc \in {"done", "error"})

\* A child past its limit does not stay alive, however packets keep coming.
LimitKept ==
    \A t \in Tests : (Alive(t) /\ t <= overdue) ~> (reconnected \/ ~Alive(t))
=============================================================================
