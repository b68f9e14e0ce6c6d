------------------------- MODULE TdoPosixProperties -------------------------
(* What the POSIX runner owes its user, over every interleaving with the    *)
(* children, the clock and the failures the environment may cause.          *)
EXTENDS TdoPosix, TdoLoopProperties

-----------------------------------------------------------------------------
(* Types. *)

Run == [active : BOOLEAN, test : 0..NTests, log : Contents]
ParentStates == {"init", "start", "events", "clock", "slots", "limit", "check",
                 "done", "error", "aborted"}

\* The limit is only looked at for an active slot.
StateTypes ==
    /\ LoopTypes
    /\ clock \in 0..overdue
    /\ pc \in ParentStates
    /\ cursor \in Slots
    /\ pc = "limit" => runs[cursor].active
    /\ ready \subseteq Fds
    /\ runs \in [Slots -> Run]

\* Every variable stays in its type; running, an unsigned count in the code,
\* never wraps below zero and never exceeds the slots (run_posix.c:181-291).
TypeOK == StateTypes /\ running \in 0..Processes

-----------------------------------------------------------------------------
(* The results. *)

\* A test is reported as a timeout only if it was past its limit before its
\* process ended: the clock is read before waitpid looks at the child.
NoFalseTimeout ==
    \A t \in Tests : \A v \in Verdicts(t) :
        v.outcome = "timeout" =>
            /\ t <= overdue
            /\ proc[t].state \in {"exited", "signalled", "stopped"} => proc[t].late

-----------------------------------------------------------------------------
(* The slots and the children. *)

\* kill is never given a pid that waitpid already released.
NoStrayKill == \A t \in Tests : proc[t].state # "stray"
=============================================================================
