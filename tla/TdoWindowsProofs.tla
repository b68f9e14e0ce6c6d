-------------------------- MODULE TdoWindowsProofs --------------------------
(* The Windows runner: what the parent does with each packet keeps the        *)
(* agreement of slots, pipes and completion port, and so the loop counts what  *)
(* it holds and meets no packet it does not expect.                           *)
EXTENDS TdoWindowsKernelProofs

USE DEF Tests, Slots, LoopTypes

\* A part of one packet, or of none.
LEMMA PartMade ==
    ASSUME NEW s \in Slots, NEW k \in Pipes, NEW w \in PacketKinds, NEW n \in Nat, NEW c,
           NEW x, x = IF c THEN <<IoPacket(s, k, w, n)>> ELSE <<>>
    PROVE  /\ x \in Seq(Packets) /\ \A i \in 1..Len(x) : x[i] \in Io(s, k)
           /\ c => x # <<>> /\ \A W : w \in W => OneOf(x, Io(s, k), IoOf(s, k, W))
           /\ ~c => x = <<>>
<1> DEFINE p == IoPacket(s, k, w, n)
<1>1. p \in Packets /\ p \in Io(s, k) /\ \A W : w \in W => p \in IoOf(s, k, W)
  BY PacketMade
<1> HIDE DEF p
<1>2. CASE c
  <2>1. x = <<p>>
    BY <1>2 DEF p
  <2>2. x \in Seq(Packets) /\ x # <<>> /\ \A i \in 1..Len(x) : x[i] \in Io(s, k)
    BY <1>1, <2>1
  <2>3. \A W : w \in W => OneOf(<<p>>, Io(s, k), IoOf(s, k, W))
    BY <1>1, Single
  <2> QED
    BY <1>2, <2>1, <2>2, <2>3
<1>3. CASE ~c
  BY <1>3
<1> QED
  BY <1>2, <1>3

LEMMA ThreePipes == Pipes = {"out", "err", "status"} /\ Streams \subseteq Pipes
  BY DEF Pipes, Streams

-----------------------------------------------------------------------------
(* The kernel closes the ends of a process. *)

LEMMA CloseRight ==
    ASSUME StateTypes, AllRight, NEW s \in Active, CloseEnds(s), UNCHANGED parentVars
    PROVE  StateTypes' /\ AllRight'
<1> DEFINE mine == {k \in Pipes : io[s][k].client = runs[s].test /\ io[s][k].open}
           lost == {k \in mine : io[s][k].reading}
           f == [k \in Pipes |-> IF k \in lost THEN <<IoPacket(s, k, "broken", 0)>>
                                 ELSE <<>>]
           F == {<<s, k>> : k \in lost}
           end == [k \in Pipes |-> IF k \in mine
                       THEN [io[s][k] EXCEPT !.open = FALSE, !.reading = FALSE]
                       ELSE io[s][k]]
<1>1. /\ s \in Slots /\ io' = [io EXCEPT ![s] = end] /\ jobExits' = jobExits
      /\ reconnected' = reconnected
      /\ iocp' = iocp \o f["out"] \o f["err"] \o f["status"]
      /\ UNCHANGED <<childVars, parentVars>>
  <2>1. /\ f["out"] = IF "out" \in mine /\ io[s]["out"].reading
                      THEN <<IoPacket(s, "out", "broken", 0)>> ELSE <<>>
        /\ f["err"] = IF "err" \in mine /\ io[s]["err"].reading
                      THEN <<IoPacket(s, "err", "broken", 0)>> ELSE <<>>
        /\ f["status"] = IF "status" \in mine /\ io[s]["status"].reading
                         THEN <<IoPacket(s, "status", "broken", 0)>> ELSE <<>>
    BY ThreePipes
  <2> HIDE DEF f
  <2> QED
    BY <2>1 DEF CloseEnds, Active, jobVars
<1>2. \A k \in Pipes : /\ f[k] \in Seq(Packets) /\ \A i \in 1..Len(f[k]) : f[k][i] \in Io(s, k)
                       /\ k \in lost => OneOf(f[k], Io(s, k), IoOf(s, k, {"broken"}))
                       /\ k \notin lost => f[k] = <<>>
  <2> SUFFICES ASSUME NEW k \in Pipes
               PROVE  /\ f[k] \in Seq(Packets) /\ \A i \in 1..Len(f[k]) : f[k][i] \in Io(s, k)
                      /\ k \in lost => OneOf(f[k], Io(s, k), IoOf(s, k, {"broken"}))
                      /\ k \notin lost => f[k] = <<>>
    OBVIOUS
  <2>1. f[k] = IF k \in lost THEN <<IoPacket(s, k, "broken", 0)>> ELSE <<>>
    OBVIOUS
  <2>2. "broken" \in PacketKinds
    BY DEF PacketKinds
  <2> HIDE DEF f, lost
  <2> QED
    BY <1>1, <2>1, <2>2, PartMade
<1>3. Parts(f, s)
  BY <1>2 DEF Parts
<1>4. \A k \in Pipes : /\ io[s][k] \in End /\ end[k] \in End
                       /\ end[k].listening = io[s][k].listening
                       /\ end[k].client = io[s][k].client
                       /\ end[k].open => io[s][k].open
                       /\ end[k].reading = (io[s][k].reading /\ k \notin mine)
  <2>1. \A e \in End : /\ [e EXCEPT !.open = FALSE, !.reading = FALSE] \in End
                       /\ [e EXCEPT !.open = FALSE, !.reading = FALSE].listening = e.listening
                       /\ [e EXCEPT !.open = FALSE, !.reading = FALSE].client = e.client
                       /\ ~[e EXCEPT !.open = FALSE, !.reading = FALSE].open
                       /\ ~[e EXCEPT !.open = FALSE, !.reading = FALSE].reading
                       /\ e.reading \in BOOLEAN
    BY DEF End
  <2>2. \A k \in Pipes : io[s][k] \in End
    BY <1>1 DEF StateTypes
  <2>3. \A k \in Pipes : end[k] = IF k \in mine
                       THEN [io[s][k] EXCEPT !.open = FALSE, !.reading = FALSE]
                       ELSE io[s][k]
    OBVIOUS
  <2> HIDE DEF end, mine, lost
  <2>4. ASSUME NEW k \in Pipes
        PROVE  /\ io[s][k] \in End /\ end[k] \in End
               /\ end[k].listening = io[s][k].listening
               /\ end[k].client = io[s][k].client
               /\ end[k].open => io[s][k].open
               /\ end[k].reading = (io[s][k].reading /\ k \notin mine)
    <3>1. PICK e \in End : e = io[s][k]
      BY <2>2
    <3>2. CASE k \in mine
      BY <2>1, <2>3, <3>1, <3>2
    <3>3. CASE k \notin mine
      BY <2>1, <2>3, <3>1, <3>3
    <3> QED
      BY <3>2, <3>3
  <2> QED
    BY <2>4
<1>5. /\ \A k \in Pipes : <<s, k>> \in F <=> k \in lost
      /\ \A r \in Slots, k \in Pipes : <<r, k>> \in F => r = s /\ k \in lost
  OBVIOUS
<1>6. QuietStep
  BY <1>1, KernelQuiet
<1> HIDE DEF F, f, end, QuietStep
<1>7. \A k \in Pipes : k \in lost <=> k \in mine /\ io[s][k].reading
  OBVIOUS
<1> HIDE DEF lost, mine
<1>8. /\ QueueStep(F, {}) /\ iocp' \in Seq(Packets)
      /\ \A k \in Pipes : \A Y : NoneOf(iocp, Io(s, k)) /\ OneOf(f[k], Io(s, k), Y)
                                => OneOf(iocp', Io(s, k), Y)
  <2>1. iocp \in Seq(Packets) /\ \A k \in Pipes : f[k] # <<>> => <<s, k>> \in F
    BY <1>2, <1>5 DEF StateTypes
  <2> QED
    BY <1>1, <1>3, <2>1, ThreePipes, PartsQueue
<1>9. io' \in [Slots -> [Pipes -> End]] /\ io'[s] = end
      /\ \A r \in Slots : r # s => io'[r] = io[r]
  <2>1. end \in [Pipes -> End]
    BY <1>4 DEF end
  <2> QED
    BY <1>1, <2>1 DEF StateTypes
<1>10. StateTypes'
  BY <1>1, <1>8, <1>9, ParentsTypes, ChildTypedKept DEF StateTypes
<1>11. /\ \A r \in Slots : SlotRight(r)'
       /\ \A t \in Tests : TestRight(t)'
       /\ \A r \in Slots, k \in Pipes : <<r, k>> \notin F => Same(Io(r, k))
  <2>1. JobKept({}) /\ (\A t \in Tests \cap {} : Held(t)) /\ ListeningKept
    <3>1. ListeningKept
      BY <1>4, <1>9 DEF ListeningKept
    <3> QED
      BY <1>1, <3>1 DEF JobKept
  <2>2. \A r \in Slots, k \in Pipes : <<r, k>> \in F => io[r][k].reading
    BY <1>5, <1>7
  <2>3. \A t \in Tests : t \in jobExits' => t \in jobExits \/ t <= started
    BY <1>1
  <2>4. /\ \A r \in Slots : runs[r].active /\ TestOf(r) \notin {} => SlotRight(r)'
        /\ \A r \in Slots : ~runs[r].active => SlotRight(r)'
        /\ \A t \in Tests : TestRight(t)'
        /\ \A r \in Slots, k \in Pipes : <<r, k>> \notin F => Same(Io(r, k))
    BY <1>6, <1>8, <1>10, <2>1, <2>2, <2>3, QuietSlots
  <2> QED
    BY <2>4
<1>12. ASSUME NEW r \in Slots, NEW k \in Pipes
       PROVE  PipeRight(r, k)'
  <2>1. CASE <<r, k>> \notin F
    <3>1. Same(Io(r, k)) /\ io[r][k].reading = io'[r][k].reading
          /\ io'[r][k].listening = io[r][k].listening /\ io'[r][k].client = io[r][k].client
          /\ (io'[r][k].open => io[r][k].open)
      <4>1. Same(Io(r, k))
        BY <1>11, <2>1
      <4>2. CASE r # s
        BY <1>9, <4>1, <4>2
      <4>3. CASE r = s
        <5>1. io'[s][k] = end[k] /\ k \notin lost
          BY <1>5, <1>9, <2>1, <4>3
        <5>2. io[s][k].reading = end[k].reading
          <6>1. io[s][k].reading \in BOOLEAN
            BY <1>4 DEF End
          <6>2. end[k].reading = (io[s][k].reading /\ k \notin mine)
            BY <1>4
          <6>3. CASE io[s][k].reading = TRUE
            BY <1>7, <5>1, <6>2, <6>3
          <6>4. CASE io[s][k].reading = FALSE
            BY <6>2, <6>4
          <6> QED
            BY <6>1, <6>3, <6>4
        <5> QED
          BY <1>4, <4>1, <4>3, <5>1, <5>2
      <4> QED
        BY <4>2, <4>3
    <3> QED
      BY <1>6, <1>10, <3>1, QuietPipe
  <2>2. CASE <<r, k>> \in F
    <3>1. r = s /\ k \in lost /\ PipeRight(s, k) /\ runs' = runs
      BY <1>1, <1>5, <2>2 DEF AllRight, parentVars
    <3>2. runs[s].ov[k] = "connected" /\ NoneOf(iocp, Io(s, k)) /\ io[s][k].listening = 0
          /\ runs[s].active /\ io[s][k].client = runs[s].test
      BY <1>7, <3>1 DEF PipeRight
    <3>3. OneOf(iocp', Io(s, k), IoOf(s, k, {"broken"}))
      BY <1>2, <1>8, <3>1, <3>2
    <3>4. ~io'[s][k].reading /\ io'[s][k].listening = 0 /\ io'[s][k].client = runs[s].test
      BY <1>4, <1>7, <1>9, <3>1, <3>2
    <3> QED
      BY <3>1, <3>2, <3>3, <3>4 DEF PipeRight, Coming
  <2> QED
    BY <2>1, <2>2
<1>13. "spawn" \notin Habits => NoneOf(iocp', ExitOf(0))
  <2>1. Same(ExitOf(0))
    BY <1>8, QueueFrame DEF StateTypes
  <2> QED
    BY <2>1 DEF AllRight, Same
<1> QED
  BY <1>10, <1>11, <1>12, <1>13 DEF AllRight
-----------------------------------------------------------------------------
(* The steps of the parent that look at no packet. *)

LEMMA PipesStay ==
    ASSUME StateTypes, pipe' = pipe
    PROVE  PipesGrow
<1>1. \A t \in Tests, k \in Pipes : Len(pipe[t][k]) \in Nat
  BY PipeType DEF StateTypes
<1> QED
  BY <1>1 DEF PipesGrow

\* Processes are terminated.
SameBut(p, q) == /\ p.reaped = q.reaped /\ p.step = q.step /\ p.index = q.index
                 /\ p.failed = q.failed /\ p.late = q.late

LEMMA TerminateType ==
    ASSUME StateTypes, NEW S, TerminateAll(S)
    PROVE  /\ proc' \in [Tests -> Process]
           /\ \A t \in Tests : /\ ProcStep(t) /\ SameBut(proc'[t], proc[t])
                               /\ proc'[t].state \in {proc[t].state, "killed"}
                               /\ t \notin S => proc'[t] = proc[t]
                               /\ t \in S => ~Alive(t)'
<1>1. \A p \in Process : /\ [p EXCEPT !.state = "killed"] \in Process
                         /\ SameBut([p EXCEPT !.state = "killed"], p)
                         /\ [p EXCEPT !.state = "killed"].state = "killed"
  BY DEF Process, ProcessStates, SameBut
<1>2. ASSUME NEW t \in Tests
      PROVE  /\ proc'[t] \in Process
             /\ ProcStep(t) /\ SameBut(proc'[t], proc[t])
             /\ proc'[t].state \in {proc[t].state, "killed"}
             /\ t \notin S => proc'[t] = proc[t]
             /\ t \in S => ~Alive(t)'
  <2>1. proc[t] \in Process
    BY DEF StateTypes
  <2>2. proc'[t] = IF t \in S /\ Alive(t) THEN [proc[t] EXCEPT !.state = "killed"] ELSE proc[t]
    BY DEF TerminateAll
  <2>3. CASE t \in S /\ Alive(t)
    <3>1. /\ proc'[t] \in Process /\ SameBut(proc'[t], proc[t]) /\ proc'[t].state = "killed"
      BY <1>1, <2>1, <2>2, <2>3
    <3> QED
      BY <2>3, <3>1 DEF ProcStep, Alive
  <2>4. CASE ~(t \in S /\ Alive(t))
    BY <2>1, <2>2, <2>4 DEF ProcStep, Alive, SameBut
  <2> QED
    BY <2>3, <2>4
<1>3. proc' \in [Tests -> Process]
  <2>1. DOMAIN proc' = Tests /\ proc' = [t \in Tests |-> proc'[t]]
    BY Zenon DEF TerminateAll
  <2> QED
    BY <1>2, <2>1
<1> QED
  BY <1>2, <1>3

\* What a slot is but for its mark.
Alike(run, was) == /\ run.active = was.active /\ run.test = was.test
                   /\ run.handle = was.handle /\ run.state = was.state
                   /\ run.read_too_much = was.read_too_much
                   /\ run.ov = was.ov /\ run.log = was.log

\* The limits are enforced on the slots rs.
LEMMA EnforceSlots ==
    ASSUME StateTypes, NEW rs \in [Slots -> Slot],
           \A s \in Slots : rs[s].test = runs[s].test, Enforce(rs)
    PROVE  /\ runs' \in [Slots -> Slot] /\ proc' \in [Tests -> Process]
           /\ \A t \in Tests : ProcStep(t) /\ SameBut(proc'[t], proc[t])
           /\ \A s \in Slots :
                 /\ Alike(runs'[s], rs[s])
                 /\ rs[s].timed_out => runs'[s].timed_out
                 /\ runs'[s].timed_out => rs[s].timed_out \/ runs[s].test <= overdue
                 /\ rs[s].active /\ runs[s].test \in Tests
                    /\ proc'[runs[s].test].state = "killed"
                       => proc[runs[s].test].state = "killed" \/ runs'[s].timed_out
<1> DEFINE S == {rs[s].test : s \in {s \in Slots :
                    rs[s].active /\ rs[s].handle /\ OverLimit(s)}}
<1>1. TerminateAll(S) /\ runs' = Marked(rs)
  BY DEF Enforce
<1> HIDE DEF S
<1>2. /\ proc' \in [Tests -> Process]
      /\ \A t \in Tests : ProcStep(t) /\ SameBut(proc'[t], proc[t])
      /\ \A t \in Tests : t \notin S => proc'[t] = proc[t]
  BY <1>1, TerminateType
<1>3. \A run \in Slot : /\ [run EXCEPT !.timed_out = TRUE] \in Slot
                        /\ Alike([run EXCEPT !.timed_out = TRUE], run)
                        /\ [run EXCEPT !.timed_out = TRUE].timed_out
                        /\ Alike(run, run)
  BY DEF Slot, Alike
<1>4. ASSUME NEW s \in Slots
      PROVE  /\ runs'[s] \in Slot /\ Alike(runs'[s], rs[s])
             /\ rs[s].timed_out => runs'[s].timed_out
             /\ runs'[s].timed_out => rs[s].timed_out \/ OverLimit(s)
             /\ rs[s].active /\ OverLimit(s) => runs'[s].timed_out
  <2>1. runs'[s] = IF rs[s].active /\ OverLimit(s) THEN [rs[s] EXCEPT !.timed_out = TRUE]
                   ELSE rs[s]
    BY <1>1 DEF Marked
  <2>2. rs[s] \in Slot
    OBVIOUS
  <2> QED
    BY <1>3, <2>1, <2>2
<1>5. runs' \in [Slots -> Slot]
  <2>1. runs' = [s \in Slots |-> runs'[s]]
    BY <1>1, Zenon DEF Marked
  <2> QED
    BY <1>4, <2>1
<1>6. ASSUME NEW s \in Slots, rs[s].active, runs[s].test \in Tests,
             proc'[runs[s].test].state = "killed", proc[runs[s].test].state # "killed"
      PROVE  runs'[s].timed_out
  <2>1. runs[s].test \in S
    BY <1>2, <1>6
  <2>2. OverLimit(s)
    BY <2>1 DEF S, OverLimit
  <2> QED
    BY <1>4, <1>6, <2>2
<1> QED
  BY <1>2, <1>4, <1>5, <1>6 DEF OverLimit

\* The types, when the parent only touches slots, processes and its place.
LEMMA IdleTypes ==
    ASSUME StateTypes, runs' \in [Slots -> Slot], proc' \in [Tests -> Process],
           \A s \in Slots : runs'[s].active = runs[s].active /\ runs'[s].test = runs[s].test,
           UNCHANGED <<pipe, wrote, overdue, started, running, osVars>>,
           fork_failed' \in BOOLEAN, log_setup_failed' \in BOOLEAN,
           pc' \in {"init", "start", "check", "done", "error", "aborted"},
           /\ report' \in [Tests -> Seq(Verdict)] /\ tally' \in [Outcomes -> Nat]
           /\ any_failed' \in BOOLEAN /\ finished' \in Nat
    PROVE  StateTypes'
<1>1. \A s \in Active' : runs'[s].test \in 1..started'
  <2>1. \A s \in Active : runs[s].test \in 1..started
    BY DEF StateTypes
  <2> QED
    BY <2>1 DEF Active
<1> QED
  BY <1>1 DEF StateTypes, osVars, jobVars

LEMMA TimeoutRight ==
    ASSUME StateTypes, AllRight, WaitTimeout
    PROVE  StateTypes' /\ AllRight'
<1>1. /\ Enforce(runs) /\ ReportNone /\ Return /\ pc = "start"
      /\ UNCHANGED <<pipe, wrote, overdue, started, running, fork_failed,
                     log_setup_failed, osVars>>
  BY DEF WaitTimeout
<1>2. /\ runs' \in [Slots -> Slot] /\ proc' \in [Tests -> Process]
      /\ \A t \in Tests : ProcStep(t)
      /\ \A s \in Slots :
            /\ Alike(runs'[s], runs[s])
            /\ runs[s].timed_out => runs'[s].timed_out
            /\ runs[s].active /\ runs[s].test \in Tests
               /\ proc'[runs[s].test].state = "killed"
                  => proc[runs[s].test].state = "killed" \/ runs'[s].timed_out
  <2>1. runs \in [Slots -> Slot] /\ \A s \in Slots : runs[s].test = runs[s].test
    BY DEF StateTypes
  <2> QED
    BY <1>1, <2>1, EnforceSlots
<1>3. StateTypes'
  <2>1. pc' \in {"start", "check"}
    BY <1>1 DEF Return
  <2> QED
    BY <1>1, <1>2, <2>1, IdleTypes DEF Alike, ReportNone, StateTypes
<1>4. QuietStep
  <2>1. ASSUME NEW s \in Slots
        PROVE  SlotKept(s) /\ runs'[s].ov = runs[s].ov
    <3>1. runs[s].active => runs[s].test \in Tests
      BY ActiveTest DEF StateTypes, Active
    <3> QED
      BY <1>2, <3>1 DEF SlotKept, Alike, TestOf
  <2>2. PipesGrow
    BY <1>1, PipesStay
  <2> QED
    BY <1>1, <1>2, <2>1, <2>2 DEF QuietStep
<1> QED
  BY <1>1, <1>3, <1>4, QuietRight

\* The parent's place, its flags and the results; a child ends only with the run.
LEMMA CalmRight ==
    ASSUME StateTypes, AllRight, runs' = runs, proc' = proc \/ pc' = "done",
           proc' \in [Tests -> Process], \A t \in Tests : ProcStep(t),
           UNCHANGED <<pipe, wrote, overdue, started, running, osVars>>,
           fork_failed' \in BOOLEAN, log_setup_failed' \in BOOLEAN,
           fork_failed \/ log_setup_failed => fork_failed' \/ log_setup_failed',
           pc' \in {"init", "start", "check", "done", "error", "aborted"}, pc # "done",
           /\ report' \in [Tests -> Seq(Verdict)] /\ tally' \in [Outcomes -> Nat]
           /\ any_failed' \in BOOLEAN /\ finished' \in Nat
    PROVE  StateTypes' /\ AllRight'
<1>1. StateTypes'
  <2>1. runs' \in [Slots -> Slot]
    BY DEF StateTypes
  <2> QED
    BY <2>1, IdleTypes
<1>2. QuietStep
  <2>1. \A s \in Slots : SlotKept(s) /\ runs'[s].ov = runs[s].ov
    BY DEF SlotKept
  <2>2. PipesGrow
    BY PipesStay
  <2> QED
    BY <2>1, <2>2 DEF QuietStep
<1> QED
  BY <1>1, <1>2, QuietRight

LEMMA BeginRight ==
    ASSUME StateTypes, AllRight, StatusInit
    PROVE  StateTypes' /\ AllRight'
<1>1. /\ pc' \in {"done", "start", "error"} /\ pc = "init"
      /\ UNCHANGED <<childVars, statusVars, runs, report, osVars>>
  BY DEF StatusInit
<1>2. \A t \in Tests : ProcStep(t)
  BY <1>1 DEF ProcStep, childVars
<1> QED
  BY <1>1, <1>2, CalmRight DEF childVars, statusVars, StateTypes

\* A start that fails before it touches a pipe.
LEMMA CommandRight ==
    ASSUME StateTypes, AllRight, pc = "start", fork_failed' = TRUE,
           UNCHANGED <<log_setup_failed, runs, io, iocp, childVars, pc, report, finished,
                       running, tally, any_failed, jobVars, started>>
    PROVE  StateTypes' /\ AllRight'
<1>1. \A t \in Tests : ProcStep(t)
  BY DEF ProcStep, childVars
<1> QED
  BY <1>1, CalmRight DEF childVars, osVars, StateTypes

LEMMA CheckRight ==
    ASSUME StateTypes, AllRight, Check
    PROVE  StateTypes' /\ AllRight'
<1>1. /\ pc = "check" /\ pc' \in {"done", "start"} /\ runs' = runs
      /\ UNCHANGED <<pipe, wrote, overdue, started, running, fork_failed,
                     log_setup_failed, osVars>>
  BY DEF Check, LeaveOrLoop
<1>2. /\ proc' = proc \/ pc' = "done"
      /\ proc' \in [Tests -> Process] /\ \A t \in Tests : ProcStep(t)
  <2>1. CASE pc' = "done"
    <3>1. TerminateAll(Tests)
      BY <2>1 DEF Check, CloseJob
    <3> QED
      BY <2>1, <3>1, TerminateType
  <2>2. CASE pc' # "done"
    <3>1. proc' = proc
      BY <2>2 DEF Check
    <3> QED
      BY <3>1 DEF ProcStep, StateTypes
  <2> QED
    BY <2>1, <2>2
<1>3. /\ report' \in [Tests -> Seq(Verdict)] /\ tally' \in [Outcomes -> Nat]
      /\ any_failed' \in BOOLEAN /\ finished' \in Nat
  <2>1. CASE StartsFailed
    <3> DEFINE result == ErrorVerdict(IF fork_failed THEN "fork" ELSE "pipe", NoStep)
    <3>1. result \in Verdict
      <4>1. (IF fork_failed THEN "fork" ELSE "pipe") \in Causes
        BY DEF Causes
      <4> QED
        BY <4>1, ErrorVerdictType
    <3>2. ReportAll(Remaining, result)
      BY <2>1 DEF Check
    <3>3. Remaining \in SUBSET Tests
      BY DEF Remaining
    <3> HIDE DEF result
    <3> QED
      BY <3>1, <3>2, <3>3, ReportAllType DEF StateTypes
  <2>2. CASE ~StartsFailed
    <3>1. ReportNone
      BY <2>2 DEF Check
    <3> QED
      BY <3>1 DEF ReportNone, StateTypes
  <2> QED
    BY <2>1, <2>2
<1> QED
  BY <1>1, <1>2, <1>3, CalmRight DEF StateTypes

LEMMA StutterRight ==
    ASSUME StateTypes, AllRight, UNCHANGED vars
    PROVE  StateTypes' /\ AllRight'
<1>1. UNCHANGED <<childVars, parentVars, osVars>>
  BY DEF vars, parentVars
<1>2. QuietStep
  BY <1>1, KernelQuiet
<1>3. StateTypes'
  BY DEF StateTypes, vars, childVars, statusVars, osVars, jobVars, Active
<1>4. AllRight'
  BY <1>1, <1>2, <1>3, QuietRight
<1> QED
  BY <1>3, <1>4

-----------------------------------------------------------------------------
(* Steps that touch one slot. *)

\* The slots but s, their pipes and what they count on are left alone.
SlotStep(s) ==
    /\ \A r \in Slots \ {s} : SlotKept(r) /\ runs'[r].ov = runs[r].ov /\ io'[r] = io[r]
    /\ \A t \in Tests : ProcStep(t)
    /\ \A r \in Active \ {s} : \A k \in Pipes :
          Len(pipe[TestOf(r)][k]) <= Len(pipe'[TestOf(r)][k])
    /\ pc = "done" => pc' = "done"
    /\ fork_failed \/ log_setup_failed => fork_failed' \/ log_setup_failed'
    /\ \A r \in Active \ {s} : TestOf(r) \in jobExits' <=> TestOf(r) \in jobExits

LEMMA OthersRight ==
    ASSUME StateTypes, StateTypes', AllRight, NEW s \in Slots, SlotStep(s),
           NEW F, NEW E, QueueStep(F, E), \A r, k : <<r, k>> \in F => r = s,
           \A r \in Active \ {s} : TestOf(r) \notin E
    PROVE  \A r \in Slots \ {s} : SlotRight(r)' /\ \A k \in Pipes : PipeRight(r, k)'
<1> SUFFICES ASSUME NEW r \in Slots \ {s}
             PROVE  SlotRight(r)' /\ \A k \in Pipes : PipeRight(r, k)'
  OBVIOUS
<1>1. /\ SlotRight(r) /\ SlotKept(r) /\ runs'[r].ov = runs[r].ov /\ io'[r] = io[r]
      /\ pc = "done" => pc' = "done"
      /\ fork_failed \/ log_setup_failed => fork_failed' \/ log_setup_failed'
  BY DEF AllRight, SlotStep
<1>2. SlotRight(r)'
  <2>2. runs[r].active => /\ TestOf(r) \notin E /\ ProcStep(TestOf(r))
                          /\ TestOf(r) \in jobExits' <=> TestOf(r) \in jobExits
    BY ActiveTest DEF SlotStep, Active, TestOf, StateTypes
  <2>3. \A k \in Pipes : /\ runs'[r].ov[k] = runs[r].ov[k] /\ <<r, k>> \notin F
                         /\ io'[r][k].listening = io[r][k].listening
    BY <1>1
  <2> QED
    BY <1>1, <2>2, <2>3, SlotRightKept
<1>3. ASSUME NEW k \in Pipes
      PROVE  PipeRight(r, k)'
  <2>1. PipeRight(r, k) /\ Same(Io(r, k))
    <3>1. <<r, k>> \notin F
      OBVIOUS
    <3> QED
      BY <3>1, QueueFrame DEF AllRight, StateTypes
  <2>2. runs[r].active => Len(pipe[TestOf(r)][k]) <= Len(pipe'[TestOf(r)][k])
    BY DEF SlotStep, Active
  <2> QED
    BY <1>1, <2>1, <2>2, PipeKept DEF SlotKept
<1> QED
  BY <1>2, <1>3

\* The tests whose slot and packets stay as they are.
LEMMA TestsKept ==
    ASSUME StateTypes, StateTypes', AllRight, NEW F, NEW E, QueueStep(F, E),
           NEW t \in Tests, t \in jobExits' => t \in jobExits \/ t <= started,
           ProcStep(t), started <= started' ,
           Held(t) => Held(t)', t \in E => Held(t)'
    PROVE  TestRight(t)'
<1>1. TestRight(t) /\ started \in Nat /\ started' \in Int
  BY DEF AllRight, StateTypes
<1>2. ~Held(t)' => ~Held(t) /\ Same(ExitOf(t))
  BY QueueFrame DEF StateTypes
<1>3. t > started' => t > started /\ (t \in jobExits' => t \in jobExits)
  <2>1. t \in Nat
    BY TestsAssumption
  <2> QED
    BY <1>1, <2>1
<1> QED
  BY <1>1, <1>2, <1>3, TestRightKept
-----------------------------------------------------------------------------
(* The packet that is taken off. *)

LEMMA PacketRight ==
    ASSUME StateTypes, AllRight, iocp # <<>>, Packet.what # "exit",
           NEW s, s = Packet.slot, NEW k, k = Packet.pipe
    PROVE  /\ s \in Slots /\ k \in Pipes /\ Packet.what \in PacketKinds
           /\ Packet \in Io(s, k) /\ NoneOf(Tail(iocp), Io(s, k))
           /\ ~io[s][k].reading /\ io[s][k].listening = 0
           /\ runs[s].ov[k] \in {"waiting", "connected", "cancelling"}
           /\ runs[s].ov[k] = "waiting" => Packet.what = "connected"
           /\ runs[s].ov[k] = "connected" =>
                 \/ Packet.what = "broken"
                 \/ /\ Packet.what = "data"
                    /\ Packet.n \in 0..Len(pipe[runs[s].test][k])
           /\ runs[s].ov[k] = "cancelling"
                 => Packet.what \in {"connected", "data", "broken", "aborted"}
           /\ runs[s].ov[k] # "cancelling"
                 => runs[s].active /\ io[s][k].client = runs[s].test
           /\ runs[s].ov[k] = "waiting" => Coming(s, k)
<1>1. iocp \in Seq(Packets) /\ Packet \in Packets
  BY TailPlaces DEF StateTypes, Packet
<1>2. /\ s \in Slots /\ k \in Pipes /\ Packet.what \in PacketKinds
      /\ Packet \in IoOf(s, k, {Packet.what})
  BY <1>1, PacketTypes
<1>3. Packet \in Io(s, k)
  BY <1>2, PacketSets
<1>4. ~NoneOf(iocp, Io(s, k))
  BY <1>1, <1>3, TailNone DEF Packet
<1>5. ASSUME NEW Y, OneOf(iocp, Io(s, k), Y)
      PROVE  Packet \in Y /\ NoneOf(Tail(iocp), Io(s, k))
  BY <1>1, <1>3, <1>5, TailOwn DEF Packet
<1>6. PipeRight(s, k)
  BY <1>2 DEF AllRight
<1>7. runs[s].ov[k] \in PipeStates
  BY <1>2 DEF StateTypes, Slot
<1>8. /\ ~io[s][k].reading /\ io[s][k].listening = 0
      /\ runs[s].ov[k] \in {"waiting", "connected", "cancelling"}
      /\ runs[s].ov[k] # "cancelling" => runs[s].active /\ io[s][k].client = runs[s].test
  BY <1>4, <1>6, <1>7 DEF PipeRight, PipeStates, Coming
<1>9. CASE runs[s].ov[k] = "waiting"
  <2>1. OneOf(iocp, Io(s, k), IoOf(s, k, {"connected"})) /\ Coming(s, k)
    BY <1>6, <1>8, <1>9 DEF PipeRight, Coming
  <2>2. Packet.what \in {"connected"} /\ NoneOf(Tail(iocp), Io(s, k))
    BY <1>5, <2>1, PacketSets
  <2> QED
    BY <1>2, <1>3, <1>8, <1>9, <2>1, <2>2
<1>10. CASE runs[s].ov[k] = "connected"
  <2> DEFINE m == Len(pipe[runs[s].test][k])
  <2>1. \/ OneOf(iocp, Io(s, k), DataOf(s, k, m))
        \/ OneOf(iocp, Io(s, k), IoOf(s, k, {"broken"}))
    BY <1>6, <1>8, <1>10 DEF PipeRight
  <2> HIDE DEF m
  <2>2. NoneOf(Tail(iocp), Io(s, k))
    BY <1>5, <2>1
  <2>3. \/ Packet.what \in {"broken"}
        \/ Packet.what = "data" /\ Packet.n \in 0..m
    BY <1>5, <2>1, PacketSets
  <2> QED
    BY <1>2, <1>3, <1>8, <1>10, <2>2, <2>3 DEF m
<1>11. CASE runs[s].ov[k] = "cancelling"
  <2>1. OneOf(iocp, Io(s, k), IoOf(s, k, {"connected", "data", "broken", "aborted"}))
    BY <1>4, <1>6, <1>11 DEF PipeRight
  <2>2. /\ Packet.what \in {"connected", "data", "broken", "aborted"}
        /\ NoneOf(Tail(iocp), Io(s, k))
    BY <1>5, <2>1, PacketSets
  <2> QED
    BY <1>2, <1>3, <1>8, <1>11, <2>2
<1> QED
  BY <1>8, <1>9, <1>10, <1>11

\* The exit of a test is announced to the slot that holds it; its pipes are
\* connected by then.
LEMMA ExitPacketRight ==
    ASSUME StateTypes, AllRight, iocp # <<>>, Packet.what = "exit",
           NEW t, t = Packet.test
    PROVE  /\ t \in Tests \/ "spawn" \in Habits
           /\ t \in Tests => Held(t)
           /\ \A s \in Active : runs[s].test = t =>
                 /\ t \in jobExits /\ runs[s].handle /\ NoneOf(Tail(iocp), ExitOf(t))
                 /\ \A k \in Pipes : ~Coming(s, k)
<1>1. iocp \in Seq(Packets) /\ Packet \in Packets
  BY TailPlaces DEF StateTypes, Packet
<1>2. t \in 0..NTests /\ Packet \in ExitOf(t)
  BY <1>1, PacketTypes
<1>3. ~NoneOf(iocp, ExitOf(t))
  BY <1>1, <1>2, TailNone DEF Packet
<1>4. t \in Tests \/ "spawn" \in Habits
  <2>1. CASE t = 0
    BY <1>3, <2>1 DEF AllRight
  <2>2. CASE t # 0
    BY <1>2, <2>2, TestsAssumption
  <2> QED
    BY <2>1, <2>2
<1>5. t \in Tests => Held(t)
  BY <1>3 DEF AllRight, TestRight
<1>6. ASSUME NEW s \in Active, runs[s].test = t
      PROVE  /\ t \in jobExits /\ runs[s].handle /\ NoneOf(Tail(iocp), ExitOf(t))
             /\ \A k \in Pipes : ~Coming(s, k)
  <2>1. ExitRight(s)
    BY DEF AllRight, SlotRight, Active
  <2>2. t \in jobExits /\ runs[s].handle /\ OneOf(iocp, ExitOf(t), ExitOf(t))
    BY <1>3, <1>6, <2>1 DEF ExitRight
  <2>3. NoneOf(Tail(iocp), ExitOf(t))
    BY <1>1, <1>2, <2>2, TailOwn DEF Packet
  <2>4. ASSUME NEW k \in Pipes, Coming(s, k)
        PROVE  FALSE
    <3>1. Behind(iocp, Io(s, k), ExitOf(t))
      BY <1>6, <2>1, <2>4 DEF ExitRight
    <3>2. Packet \notin ExitOf(t)
      BY <1>1, <3>1, TailBehind DEF Packet
    <3> QED
      BY <1>2, <3>2
  <2> QED
    BY <2>2, <2>3, <2>4
<1> QED
  BY <1>4, <1>5, <1>6

\* The slot gives up its test, whose exit was handled.
Dropped(s) ==
    /\ runs[s].active /\ ~runs'[s].active
    /\ runs'[s].test = runs[s].test /\ ~runs'[s].handle
    /\ \A k \in Pipes : runs'[s].ov[k] \notin {"connected", "cancelling"}

LEMMA TestDropped ==
    ASSUME StateTypes, AllRight, NEW s \in Active, NEW t \in Tests, t = TestOf(s),
           t \in jobExits, NoneOf(iocp', ExitOf(t)), ProcStep(t), started' = started
    PROVE  TestRight(t)'
<1>1. s \in Slots /\ TestRight(t) /\ ExitRight(s) /\ t <= started
  BY ActiveTest DEF AllRight, SlotRight, Active, StateTypes, TestOf
<1>2. ~Alive(t) /\ ~Alive(t)'
  BY <1>1 DEF ExitRight, ProcStep, TestOf, Alive
<1>3. started \in Nat
  BY DEF StateTypes
<1> QED
  BY <1>1, <1>2, <1>3 DEF TestRight, ProcStep

\* The other tests, when slot s keeps or gives up its test.
LEMMA OtherTests ==
    ASSUME StateTypes, StateTypes', AllRight, NEW s \in Slots, SlotStep(s), started' = started,
           runs'[s].test = runs[s].test, runs'[s].active => runs[s].active,
           NEW F, NEW E, QueueStep(F, E), NEW t \in Tests,
           (runs[s].active /\ t = TestOf(s)) => runs'[s].active,
           t \in E => Held(t)', t \in jobExits' => t \in jobExits \/ t <= started
    PROVE  TestRight(t)'
<1>1. Held(t) => Held(t)'
  <2> SUFFICES ASSUME Held(t) PROVE Held(t)'
    OBVIOUS
  <2>1. PICK r \in Active : runs[r].test = t
    BY DEF Held
  <2>2. r \in Slots /\ r \in Active' /\ runs'[r].test = t
    <3>1. CASE r = s
      BY <2>1, <3>1 DEF Active, TestOf
    <3>2. CASE r # s
      BY <2>1, <3>2 DEF Active, SlotStep, SlotKept
    <3> QED
      BY <3>1, <3>2
  <2> QED
    BY <2>2 DEF Held
<1>2. started <= started' /\ ProcStep(t)
  BY DEF StateTypes, SlotStep
<1> QED
  BY <1>1, <1>2, TestsKept

\* A packet of pipe k of slot s is taken off; the next one of that pipe may follow.
LEMMA PipeMoves ==
    ASSUME StateTypes, StateTypes', AllRight, iocp # <<>>, Packet.what # "exit",
           NEW s, s = Packet.slot, NEW k, k = Packet.pipe, SlotStep(s), started' = started,
           jobExits' = jobExits, NEW r \in Seq(Packets), iocp' = Tail(iocp) \o r,
           \A i \in 1..Len(r) : r[i] \in Io(s, k),
           SlotKept(s) \/ (Dropped(s) /\ runs'[s].handle = runs[s].handle),
           \A j \in Pipes \ {k} :
               /\ runs'[s].ov[j] = runs[s].ov[j] /\ io'[s][j] = io[s][j]
               /\ runs[s].active => Len(pipe[TestOf(s)][j]) <= Len(pipe'[TestOf(s)][j]),
           runs'[s].ov[k] = "idle" \/ (runs'[s].ov[k] = "connected" /\ runs[s].active),
           PipeRight(s, k)'
    PROVE  AllRight'
<1> DEFINE F == {<<s, k>>}
<1>1. /\ s \in Slots /\ k \in Pipes /\ iocp \in Seq(Packets)
      /\ SlotRight(s) /\ \A j \in Pipes : PipeRight(s, j)
  BY PacketRight DEF StateTypes, AllRight
<1>2. QueueStep(F, {})
  <2>1. Touched(Packet, F, {})
    BY DEF Touched
  <2>2. \A i \in 1..Len(r) : Touched(r[i], F, {})
    <3>1. ASSUME NEW p \in Io(s, k)
          PROVE  p.slot = s /\ p.pipe = k /\ p.what # "exit"
      <4>1. p \in IoOf(s, k, PacketKinds)
        BY DEF Io
      <4>2. p.slot = s /\ p.pipe = k /\ p.what \in PacketKinds
        BY <4>1, PacketSets
      <4> QED
        BY <4>2 DEF PacketKinds
    <3>2. \A p \in Io(s, k) : Touched(p, F, {})
      BY <3>1 DEF Touched
    <3> QED
      BY <3>2
  <2>3. Tail(iocp) \in Seq(Packets)
    BY <1>1, TailPlaces
  <2> HIDE DEF F
  <2> QED
    BY <1>1, <2>1, <2>2, <2>3, Zenon DEF QueueStep
<1>3. /\ \A q, j : <<q, j>> \in F <=> q = s /\ j = k
  OBVIOUS
<1> HIDE DEF F
<1>4. \A q \in Slots \ {s} : SlotRight(q)' /\ \A j \in Pipes : PipeRight(q, j)'
  <2>1. PICK E : E = {}
    OBVIOUS
  <2>2. QueueStep(F, E) /\ \A q \in Active \ {s} : TestOf(q) \notin E
    BY <1>2, <2>1
  <2>3. \A q, j : <<q, j>> \in F => q = s
    BY <1>3
  <2> QED
    BY <1>1, <2>2, <2>3, OthersRight
<1>5. ASSUME SlotKept(s)
      PROVE  SlotRight(s)'
  <2>2. runs[s].active => /\ TestOf(s) \notin {} /\ ProcStep(TestOf(s))
                          /\ TestOf(s) \in jobExits' <=> TestOf(s) \in jobExits
    BY <1>1, ActiveTest DEF SlotStep, Active, TestOf, StateTypes
  <2>3. ASSUME NEW j \in Pipes
        PROVE  \/ /\ runs'[s].ov[j] = runs[s].ov[j] /\ <<s, j>> \notin F
                  /\ io'[s][j].listening = io[s][j].listening
               \/ runs'[s].ov[j] = "idle"
               \/ runs'[s].ov[j] \in {"connected", "cancelling"} /\ runs[s].active
    BY <1>3
  <2> QED
    BY <1>1, <1>2, <1>5, <2>2, <2>3, SlotRightKept DEF SlotStep
<1>6. ASSUME Dropped(s), runs'[s].handle = runs[s].handle
      PROVE  /\ SlotRight(s)'
             /\ \A j \in Pipes : runs'[s].ov[j] = "idle" \/ io[s][j].listening # 0
             /\ s \in Active /\ TestOf(s) \in Tests /\ TestOf(s) \in jobExits
             /\ NoneOf(iocp', ExitOf(TestOf(s)))
  <2>1. s \in Active /\ ExitRight(s) /\ ~runs[s].handle
    BY <1>1, <1>6 DEF SlotRight, Active, Dropped
  <2>2. TestOf(s) \in jobExits /\ NoneOf(iocp, ExitOf(TestOf(s)))
        /\ \A j \in Pipes : ~Coming(s, j)
    BY <2>1 DEF ExitRight, TestOf
  <2>3. NoneOf(iocp', ExitOf(TestOf(s)))
    <3>1. Same(ExitOf(TestOf(s)))
      BY <1>1, <1>2, QueueFrame
    <3> QED
      BY <2>2, <3>1 DEF Same
  <2>4. ASSUME NEW j \in Pipes
        PROVE  \/ runs'[s].ov[j] = "idle"
               \/ /\ runs'[s].ov[j] = "waiting" /\ io'[s][j].listening # 0
                  /\ io[s][j].listening # 0
    <3>1. runs'[s].ov[j] \in {"idle", "waiting"}
      BY <1>1, <1>6 DEF StateTypes, Slot, PipeStates, Dropped
    <3>2. runs'[s].ov[j] = "waiting" =>
             runs[s].ov[j] = "waiting" /\ io'[s][j] = io[s][j]
      OBVIOUS
    <3> QED
      BY <2>2, <3>1, <3>2 DEF Coming
  <2>5. SlotRight(s)'
    BY <1>6, <2>4 DEF SlotRight, FreeRight, Dropped
  <2> QED
    BY <2>1, <2>2, <2>3, <2>4, <2>5, ActiveTest DEF TestOf, StateTypes
<1>7. SlotRight(s)'
  BY <1>5, <1>6
<1>8. ASSUME NEW j \in Pipes
      PROVE  PipeRight(s, j)'
  <2>1. CASE j = k
    BY <2>1
  <2>2. CASE j # k
    <3>1. Same(Io(s, j))
      <4>1. <<s, j>> \notin F
        BY <1>3, <2>2
      <4> QED
        BY <1>1, <1>2, <4>1, QueueFrame
    <3>2. runs[s].ov[j] # "idle" /\ io[s][j].listening = 0 =>
             runs'[s].active = runs[s].active /\ runs'[s].test = runs[s].test
      BY <1>6, <2>2 DEF SlotKept
    <3>3. runs'[s].ov[j] = runs[s].ov[j] /\ io'[s][j] = io[s][j] /\ PipeRight(s, j)
      BY <1>1, <2>2
    <3>4. runs[s].active => Len(pipe[TestOf(s)][j]) <= Len(pipe'[TestOf(s)][j])
      BY <2>2
    <3> QED
      BY <1>1, <3>1, <3>2, <3>3, <3>4, PipeKept
  <2> QED
    BY <2>1, <2>2
<1>9. ASSUME NEW t \in Tests
      PROVE  TestRight(t)'
  <2>1. CASE (runs[s].active /\ t = TestOf(s)) => runs'[s].active
    <3>1. runs'[s].test = runs[s].test /\ (runs'[s].active => runs[s].active)
      BY DEF SlotKept, Dropped
    <3>2. t \in {} => Held(t)'
      OBVIOUS
    <3>3. PICK E : E = {}
      OBVIOUS
    <3>4. QueueStep(F, E) /\ (t \in E => Held(t)')
      BY <1>2, <3>2, <3>3
    <3> QED
      BY <1>1, <2>1, <3>1, <3>4, OtherTests, Zenon
  <2>2. CASE ~((runs[s].active /\ t = TestOf(s)) => runs'[s].active)
    <3>1. Dropped(s) /\ runs'[s].handle = runs[s].handle
      BY <2>2 DEF SlotKept
    <3>2. ProcStep(t)
      BY DEF SlotStep
    <3> QED
      BY <1>6, <2>2, <3>1, <3>2, TestDropped
  <2> QED
    BY <2>1, <2>2
<1>10. "spawn" \notin Habits => NoneOf(iocp', ExitOf(0))
  <2>1. Same(ExitOf(0))
    BY <1>1, <1>2, QueueFrame
  <2> QED
    BY <2>1 DEF AllRight, Same
<1> QED
  BY <1>4, <1>7, <1>8, <1>9, <1>10 DEF AllRight
-----------------------------------------------------------------------------
(* The slot after its packet. *)

\* The types, when a packet was handled.
LEMMA HandledTypes ==
    ASSUME StateTypes, runs' \in [Slots -> Slot], proc' \in [Tests -> Process],
           pipe' \in [Tests -> Contents], io' \in [Slots -> [Pipes -> End]],
           iocp' \in Seq(Packets), pc' \in {"start", "check", "aborted"},
           \A s \in Slots : /\ runs'[s].test = runs[s].test
                            /\ runs'[s].active => runs[s].active,
           UNCHANGED <<wrote, overdue, started, fork_failed, log_setup_failed, reconnected>>,
           jobExits' \subseteq 0..NTests, running' \in Int,
           /\ report' \in [Tests -> Seq(Verdict)] /\ tally' \in [Outcomes -> Nat]
           /\ any_failed' \in BOOLEAN /\ finished' \in Nat
    PROVE  StateTypes'
<1>1. \A s \in Active' : runs'[s].test \in 1..started'
  <2>1. \A s \in Active : runs[s].test \in 1..started
    BY DEF StateTypes
  <2> QED
    BY <2>1 DEF Active
<1> QED
  BY <1>1 DEF StateTypes

LEMMA WithType ==
    ASSUME NEW run \in Slot, NEW k \in Pipes, NEW w \in PipeStates
    PROVE  /\ [run EXCEPT !.ov[k] = w] \in Slot
           /\ [run EXCEPT !.ov[k] = w].active = run.active
           /\ [run EXCEPT !.ov[k] = w].test = run.test
           /\ [run EXCEPT !.ov[k] = w].handle = run.handle
           /\ [run EXCEPT !.ov[k] = w].state = run.state
           /\ [run EXCEPT !.ov[k] = w].timed_out = run.timed_out
           /\ [run EXCEPT !.ov[k] = w].read_too_much = run.read_too_much
           /\ [run EXCEPT !.ov[k] = w].log = run.log
           /\ [run EXCEPT !.ov[k] = w].ov[k] = w
           /\ \A j \in Pipes \ {k} : [run EXCEPT !.ov[k] = w].ov[j] = run.ov[j]
  BY DEF Slot

\* The slots once s has become run, and been given up or not.
LEMMA SettledSlots ==
    ASSUME StateTypes, NEW s \in Slots, NEW run \in Slot,
           run.test = runs[s].test, run.active = runs[s].active
    PROVE  /\ Settled(s, run) \in [Slots -> Slot]
           /\ \A r \in Slots \ {s} : Settled(s, run)[r] = runs[r]
           /\ \A r \in Slots : Settled(s, run)[r].test = runs[r].test
           /\ Settled(s, run)[s].active = (run.active /\ ~MayReport(run))
           /\ Settled(s, run)[s].test = run.test /\ Settled(s, run)[s].handle = run.handle
           /\ Settled(s, run)[s].state = run.state
           /\ Settled(s, run)[s].timed_out = run.timed_out
           /\ Settled(s, run)[s].read_too_much = run.read_too_much
           /\ Settled(s, run)[s].ov = run.ov /\ Settled(s, run)[s].log = run.log
<1> DEFINE b == run.active /\ ~MayReport(run)
           new == [run EXCEPT !.active = b]
<1>1. b \in BOOLEAN
  BY DEF Slot
<1>2. Settled(s, run) = [runs EXCEPT ![s] = new]
  BY DEF Settled
<1> HIDE DEF b
<1>3. /\ new \in Slot /\ new.active = b /\ new.test = run.test /\ new.handle = run.handle
      /\ new.state = run.state /\ new.timed_out = run.timed_out
      /\ new.read_too_much = run.read_too_much /\ new.ov = run.ov /\ new.log = run.log
  BY <1>1 DEF Slot
<1> HIDE DEF new
<1>4. runs \in [Slots -> Slot]
  BY DEF StateTypes
<1>5. Settled(s, run) \in [Slots -> Slot] /\ Settled(s, run)[s] = new
      /\ \A r \in Slots \ {s} : Settled(s, run)[r] = runs[r]
  BY <1>2, <1>3, <1>4
<1> QED
  BY <1>3, <1>5 DEF b

\* A slot whose exit was handled has something to report.
LEMMA SlotEnded ==
    ASSUME StateTypes, AllRight, pc # "done", NEW s \in Active, ~runs[s].handle
    PROVE  \/ runs[s].read_too_much \/ runs[s].timed_out
           \/ runs[s].state \in {"exited", "signalled"}
<1>1. PICK t \in Tests : t = runs[s].test
  BY ActiveTest DEF StateTypes
<1>2. ExitRight(s) /\ TestRight(t)
  BY <1>1 DEF AllRight, SlotRight, Active
<1>3. runs[s].state = proc[t].state /\ ~Alive(t) /\ proc[t].state # "none"
  BY <1>1, <1>2 DEF ExitRight
<1>4. proc[t].state \in {"exited", "signalled", "killed"}
  BY <1>2, <1>3 DEF TestRight, Alive
<1> QED
  BY <1>1, <1>2, <1>3, <1>4 DEF ExitRight

LEMMA RunVerdictType ==
    ASSUME NEW run \in Slot, run.test \in Tests, NEW granted \in Granted,
           run.read_too_much \/ run.timed_out \/ run.state \in {"exited", "signalled"}
    PROVE  RunVerdict(run, granted) \in Verdict
<1>1. CASE run.read_too_much
  <2>1. "memory" \in Causes
    BY DEF Causes
  <2> QED
    BY <1>1, <2>1, ErrorVerdictType DEF RunVerdict
<1>2. CASE ~run.read_too_much
  <2>1. run.log \in Contents /\ run.timed_out \in BOOLEAN
    BY DEF Slot
  <2>2. StatusVerdict(run, run.state, run.timed_out, granted) \in Verdict
    BY <1>2, <2>1, StatusVerdictType
  <2> QED
    BY <1>2, <2>2 DEF RunVerdict
<1> QED
  BY <1>1, <1>2

LEMMA SettleTypes ==
    ASSUME StateTypes, NEW run, SettleReport(run),
           MayReport(run) => /\ run.test \in Tests
                             /\ \A granted \in Granted : RunVerdict(run, granted) \in Verdict
    PROVE  /\ running' \in Int
           /\ report' \in [Tests -> Seq(Verdict)] /\ tally' \in [Outcomes -> Nat]
           /\ any_failed' \in BOOLEAN /\ finished' \in Nat
<1>1. CASE MayReport(run)
  <2>1. PICK granted \in Granted : /\ ReportAll({run.test}, RunVerdict(run, granted))
                                  /\ running' = running - 1
    BY <1>1 DEF SettleReport, ReportRun
  <2>2. {run.test} \in SUBSET Tests /\ RunVerdict(run, granted) \in Verdict
    BY <1>1
  <2>3. LoopTypes /\ running \in Int
    BY DEF StateTypes
  <2>4. /\ report' \in [Tests -> Seq(Verdict)] /\ tally' \in [Outcomes -> Nat]
        /\ any_failed' \in BOOLEAN /\ finished' \in Nat
    <3> DEFINE S == {run.test}
               result == RunVerdict(run, granted)
    <3>1. S \in SUBSET Tests /\ result \in Verdict /\ ReportAll(S, result)
      BY <2>1, <2>2
    <3> HIDE DEF S, result
    <3> QED
      BY <2>3, <3>1, ReportAllType
  <2> QED
    BY <2>1, <2>3, <2>4
<1>2. CASE ~MayReport(run)
  BY <1>2 DEF SettleReport, ReportNone, StateTypes
<1> QED
  BY <1>1, <1>2

\* The packet's pipe is disconnected.
LEMMA Disconnects ==
    ASSUME StateTypes, AllRight, iocp # <<>>, Packet.what # "exit",
           NEW s, s = Packet.slot, NEW k, k = Packet.pipe, Disconnect
    PROVE  /\ iocp' = Tail(iocp) \o <<>> /\ iocp' \in Seq(Packets)
           /\ NoneOf(iocp', Io(s, k))
           /\ io' \in [Slots -> [Pipes -> End]]
           /\ \A r \in Slots \ {s} : io'[r] = io[r]
           /\ \A j \in Pipes \ {k} : io'[s][j] = io[s][j]
           /\ io'[s][k].listening = 0 /\ ~io'[s][k].reading /\ ~io'[s][k].open
<1>1. /\ s \in Slots /\ k \in Pipes /\ NoneOf(Tail(iocp), Io(s, k))
      /\ ~io[s][k].reading /\ io[s][k].listening = 0
  BY PacketRight
<1>2. Tail(iocp) \in Seq(Packets)
  BY TailPlaces DEF StateTypes
<1>3. iocp' = Tail(iocp) \o <<>>
  BY <1>1 DEF Disconnect, DisconnectPackets
<1>4. Tail(iocp) \o <<>> = Tail(iocp)
  BY <1>2, ConcatEmptySeq
<1>5. io' = [io EXCEPT ![s][k] = Disconnected(io[s][k])]
  BY DEF Disconnect
<1>6. \A e \in End : Disconnected(e) \in End /\ Disconnected(e).listening = e.listening
                     /\ ~Disconnected(e).reading /\ ~Disconnected(e).open
  <2>1. 0 \in 0..NTests
    BY TestsAssumption
  <2> QED
    BY <2>1 DEF End, Disconnected
<1>7. io \in [Slots -> [Pipes -> End]] /\ io[s][k] \in End
  BY <1>1 DEF StateTypes
<1>8. PICK e \in End : e = Disconnected(io[s][k]) /\ e.listening = 0 /\ ~e.reading
                 /\ ~e.open
  BY <1>1, <1>6, <1>7
<1>9. /\ io' \in [Slots -> [Pipes -> End]]
      /\ \A r \in Slots \ {s} : io'[r] = io[r]
      /\ \A j \in Pipes \ {k} : io'[s][j] = io[s][j]
      /\ io'[s][k] = e
  BY <1>1, <1>5, <1>7, <1>8
<1> QED
  BY <1>1, <1>2, <1>3, <1>4, <1>8, <1>9

\* The packet's pipe is disconnected and idle.
LEMMA PipeEnds ==
    ASSUME StateTypes, StateTypes', AllRight, iocp # <<>>, Packet.what # "exit",
           NEW s, s = Packet.slot, NEW k, k = Packet.pipe, SlotStep(s), started' = started,
           jobExits' = jobExits, Disconnect, SlotKept(s) \/ (Dropped(s) /\ runs'[s].handle = runs[s].handle),
           \A j \in Pipes \ {k} :
               /\ runs'[s].ov[j] = runs[s].ov[j]
               /\ runs[s].active => Len(pipe[TestOf(s)][j]) <= Len(pipe'[TestOf(s)][j]),
           runs'[s].ov[k] = "idle"
    PROVE  AllRight'
<1>1. /\ iocp' = Tail(iocp) \o <<>> /\ NoneOf(iocp', Io(s, k))
      /\ \A j \in Pipes \ {k} : io'[s][j] = io[s][j]
      /\ io'[s][k].listening = 0 /\ ~io'[s][k].reading /\ ~io'[s][k].open
  BY Disconnects
<1>2. PipeRight(s, k)'
  BY <1>1 DEF PipeRight, Coming
<1>3. <<>> \in Seq(Packets) /\ \A i \in 1..Len(<<>>) : <<>>[i] \in Io(s, k)
  OBVIOUS
<1> QED
  BY <1>1, <1>2, <1>3, PipeMoves
-----------------------------------------------------------------------------
(* The packets of the pipes. *)

LEMMA SlotAlone ==
    ASSUME StateTypes, NEW s \in Slots, pc # "done",
           \A r \in Slots \ {s} : runs'[r] = runs[r] /\ io'[r] = io[r],
           \A r \in Active \ {s} : \A k \in Pipes : pipe'[TestOf(r)][k] = pipe[TestOf(r)][k],
           UNCHANGED <<proc, fork_failed, log_setup_failed, jobExits>>
    PROVE  SlotStep(s)
<1>1. \A r \in Active \ {s} : \A k \in Pipes :
          Len(pipe[TestOf(r)][k]) <= Len(pipe'[TestOf(r)][k])
  <2>1. \A t \in Tests, k \in Pipes : Len(pipe[t][k]) \in Nat
    BY PipeType DEF StateTypes
  <2>2. \A r \in Active : TestOf(r) \in Tests
    BY ActiveTest DEF TestOf, StateTypes
  <2> QED
    BY <2>1, <2>2
<1>2. \A t \in Tests : ProcStep(t)
  BY DEF ProcStep
<1>3. \A r \in Slots \ {s} : SlotKept(r)
  BY DEF SlotKept
<1> QED
  BY <1>1, <1>2, <1>3 DEF SlotStep

LEMMA CancelledRight ==
    ASSUME StateTypes, AllRight, CancelledDequeued
    PROVE  StateTypes' /\ AllRight'
<1> DEFINE s == Packet.slot
           k == Packet.pipe
           new == [runs[s] EXCEPT !.ov[k] = "idle"]
<1>1. /\ pc = "start" /\ pc' \in {"start", "check"} /\ iocp # <<>> /\ Packet.what # "exit"
      /\ runs' = [runs EXCEPT ![s] = new] /\ Disconnect /\ ReportNone
      /\ UNCHANGED <<childVars, started, running, fork_failed, log_setup_failed,
                   jobExits, reconnected>>
  BY DEF CancelledDequeued, Dequeue, Return, With, Run, jobVars
<1>2. s \in Slots /\ k \in Pipes /\ runs[s] \in Slot
  BY <1>1, PacketRight DEF StateTypes
<1>3. /\ new \in Slot /\ new.active = runs[s].active /\ new.test = runs[s].test
      /\ new.handle = runs[s].handle /\ new.state = runs[s].state
      /\ new.timed_out = runs[s].timed_out /\ new.read_too_much = runs[s].read_too_much
      /\ new.ov[k] = "idle" /\ \A j \in Pipes \ {k} : new.ov[j] = runs[s].ov[j]
  <2>1. "idle" \in PipeStates
    BY DEF PipeStates
  <2> QED
    BY <1>2, <2>1, WithType
<1> HIDE DEF new
<1>4. /\ runs' \in [Slots -> Slot] /\ runs'[s] = new
      /\ \A r \in Slots \ {s} : runs'[r] = runs[r]
  BY <1>1, <1>2, <1>3 DEF StateTypes
<1>5. /\ iocp' \in Seq(Packets) /\ io' \in [Slots -> [Pipes -> End]]
      /\ \A r \in Slots \ {s} : io'[r] = io[r]
  BY <1>1, Disconnects
<1> HIDE DEF s, k
<1>6. StateTypes'
  <2>1. \A r \in Slots : runs'[r].test = runs[r].test /\ (runs'[r].active => runs[r].active)
    BY <1>3, <1>4
  <2> QED
    BY <1>1, <1>4, <1>5, <2>1, HandledTypes DEF StateTypes, childVars, ReportNone
<1>7. SlotStep(s)
  BY <1>1, <1>2, <1>4, <1>5, SlotAlone DEF childVars
<1>8. SlotKept(s)
  BY <1>1, <1>3, <1>4 DEF SlotKept, childVars
<1>9. \A j \in Pipes \ {k} :
          /\ runs'[s].ov[j] = runs[s].ov[j]
          /\ runs[s].active => Len(pipe[TestOf(s)][j]) <= Len(pipe'[TestOf(s)][j])
  <2>1. PipesGrow
    BY <1>1, PipesStay DEF childVars
  <2>2. runs[s].active => TestOf(s) \in Tests
    BY <1>2, ActiveTest DEF TestOf, StateTypes, Active
  <2> QED
    BY <1>3, <1>4, <2>1, <2>2 DEF PipesGrow
<1>10. runs'[s].ov[k] = "idle" /\ started' = started
  BY <1>1, <1>3, <1>4
<1>11. s = Packet.slot /\ k = Packet.pipe
  BY DEF s, k
<1>12. AllRight'
  BY <1>1, <1>6, <1>7, <1>8, <1>9, <1>10, <1>11, PipeEnds
<1> QED
  BY <1>6, <1>12

\* What a packet's handling makes of its slot but for the pipe, the logs and the
\* slot's being active.
OwnLike(run, was) == /\ run.active = was.active /\ run.test = was.test
                     /\ run.handle = was.handle /\ run.state = was.state
                     /\ run.timed_out = was.timed_out
                     /\ run.read_too_much = was.read_too_much

\* A slot that settles keeps its test or gives it up.
LEMMA SettlesOr ==
    ASSUME StateTypes, AllRight, NEW s \in Active, pc # "done",
           NEW run \in Slot, OwnLike(run, runs[s])
    PROVE  /\ MayReport(run) =>
                 /\ run.test \in Tests
                 /\ \A granted \in Granted : RunVerdict(run, granted) \in Verdict
           /\ run.active
           /\ ~MayReport(run) => Settled(s, run)[s].active
           /\ MayReport(run) =>
                 /\ ~Settled(s, run)[s].active /\ ~Settled(s, run)[s].handle
                 /\ \A k \in Pipes : Settled(s, run)[s].ov[k] \notin {"connected", "cancelling"}
<1>1. s \in Slots /\ runs[s].active /\ runs[s].test \in Tests
  BY ActiveTest DEF Active, StateTypes
<1>2. /\ Settled(s, run)[s].active = (run.active /\ ~MayReport(run))
      /\ Settled(s, run)[s].handle = run.handle /\ Settled(s, run)[s].ov = run.ov
  BY <1>1, SettledSlots DEF OwnLike
<1>3. ASSUME MayReport(run)
      PROVE  /\ run.test \in Tests
             /\ \A granted \in Granted : RunVerdict(run, granted) \in Verdict
  <2>1. ~runs[s].handle
    BY <1>3 DEF MayReport, OwnLike
  <2>2. run.read_too_much \/ run.timed_out \/ run.state \in {"exited", "signalled"}
    BY <2>1, SlotEnded DEF OwnLike
  <2>3. run.test \in Tests
    BY <1>1 DEF OwnLike
  <2> QED
    BY <2>2, <2>3, RunVerdictType
<1> QED
  BY <1>1, <1>2, <1>3 DEF MayReport, OwnLike

\* A slot with pipe k in another state.
Moved(run, k, w) == [run EXCEPT !.ov[k] = w]

LEMMA MovedSlot ==
    ASSUME NEW run \in Slot, NEW was, OwnLike(run, was), NEW k \in Pipes,
           NEW w \in PipeStates
    PROVE  /\ Moved(run, k, w) \in Slot /\ OwnLike(Moved(run, k, w), was)
           /\ Moved(run, k, w).ov[k] = w
           /\ \A j \in Pipes \ {k} : Moved(run, k, w).ov[j] = run.ov[j]
<1> DEFINE new == [run EXCEPT !.ov[k] = w]
<1>1. /\ new \in Slot /\ new.active = run.active /\ new.test = run.test
      /\ new.handle = run.handle /\ new.state = run.state
      /\ new.timed_out = run.timed_out /\ new.read_too_much = run.read_too_much
      /\ new.ov[k] = w /\ \A j \in Pipes \ {k} : new.ov[j] = run.ov[j]
  BY WithType
<1> HIDE DEF new
<1>2. OwnLike(new, was)
  BY <1>1 DEF OwnLike
<1>3. new = Moved(run, k, w)
  BY DEF new, Moved
<1> QED
  BY <1>1, <1>2, <1>3

LEMMA OwnSlot == \A run : OwnLike(run, run)
  BY DEF OwnLike

LEMMA SettledLike ==
    ASSUME StateTypes, NEW s \in Slots, NEW run \in Slot, OwnLike(run, runs[s])
    PROVE  /\ Settled(s, run) \in [Slots -> Slot]
           /\ \A r \in Slots \ {s} : Settled(s, run)[r] = runs[r]
           /\ \A r \in Slots : Settled(s, run)[r].test = runs[r].test
           /\ Settled(s, run)[s].handle = run.handle /\ Settled(s, run)[s].ov = run.ov
           /\ Settled(s, run)[s].state = run.state
           /\ Settled(s, run)[s].timed_out = run.timed_out
           /\ Settled(s, run)[s].read_too_much = run.read_too_much
<1>1. run.test = runs[s].test /\ run.active = runs[s].active
  BY DEF OwnLike
<1> QED
  BY <1>1, SettledSlots

OnlyPipe(t, k) ==
    \A u \in Tests, j \in Pipes : u # t \/ j # k => pipe'[u][j] = pipe[u][j]

\* The next read of a pipe that is connected.
LEMMA ReadRight ==
    ASSUME StateTypes, AllRight, Apart, pc = "start", pc' \in {"start", "check"},
           iocp # <<>>, Packet.what # "exit", NEW s, s = Packet.slot, NEW k, k = Packet.pipe,
           s \in Active, NEW run \in Slot, OwnLike(run, runs[s]), run.ov[k] = "connected",
           \A j \in Pipes \ {k} : run.ov[j] = runs[s].ov[j],
           io[s][k].client = runs[s].test,
           NEW left \in Seq(Item), pipe' \in [Tests -> Contents],
           pipe'[TestOf(s)][k] = left,
           OnlyPipe(TestOf(s), k),
           ReadNext(run, left),
           UNCHANGED <<proc, wrote, overdue, started, fork_failed, log_setup_failed,
                       jobExits, reconnected>>
    PROVE  StateTypes' /\ AllRight'
<1>1. /\ s \in Slots /\ k \in Pipes /\ NoneOf(Tail(iocp), Io(s, k)) /\ io[s][k].listening = 0
      /\ runs[s].active /\ TestOf(s) \in Tests /\ runs \in [Slots -> Slot]
  BY PacketRight, ActiveTest DEF TestOf, StateTypes, Active
<1>2. \A r \in Active \ {s} : \A j \in Pipes : pipe'[TestOf(r)][j] = pipe[TestOf(r)][j]
  BY ActiveTest DEF Apart, StateTypes, TestOf, OnlyPipe
<1>3. \A j \in Pipes \ {k} :
          runs[s].active => Len(pipe[TestOf(s)][j]) <= Len(pipe'[TestOf(s)][j])
  <2>1. \A t \in Tests, j \in Pipes : Len(pipe[t][j]) \in Nat
    BY PipeType DEF StateTypes
  <2> QED
    BY <1>1, <2>1 DEF OnlyPipe
<1>4. CASE left = <<>> /\ ~io[s][k].open
  <2> DEFINE new == Moved(run, k, "idle")
  <2>1. Disconnect /\ SettleReport(new) /\ runs' = Settled(s, new)
    BY <1>4 DEF ReadNext, Settle, Moved
  <2>2. /\ new \in Slot /\ OwnLike(new, runs[s]) /\ new.ov[k] = "idle"
        /\ \A j \in Pipes \ {k} : new.ov[j] = runs[s].ov[j]
    <3>1. "idle" \in PipeStates
      BY DEF PipeStates
    <3> QED
      BY <1>1, <3>1, MovedSlot
  <2> HIDE DEF new
  <2>3. /\ runs' \in [Slots -> Slot]
        /\ \A r \in Slots \ {s} : runs'[r] = runs[r]
        /\ \A r \in Slots : runs'[r].test = runs[r].test
        /\ runs'[s].handle = new.handle /\ runs'[s].ov = new.ov
        /\ runs'[s].state = new.state /\ runs'[s].timed_out = new.timed_out
        /\ runs'[s].read_too_much = new.read_too_much
    <3>1. /\ Settled(s, new) \in [Slots -> Slot]
          /\ \A r \in Slots \ {s} : Settled(s, new)[r] = runs[r]
          /\ \A r \in Slots : Settled(s, new)[r].test = runs[r].test
          /\ Settled(s, new)[s].handle = new.handle /\ Settled(s, new)[s].ov = new.ov
          /\ Settled(s, new)[s].state = new.state
          /\ Settled(s, new)[s].timed_out = new.timed_out
          /\ Settled(s, new)[s].read_too_much = new.read_too_much
      BY <1>1, <2>2, SettledLike
    <3> QED
      BY <2>1, <3>1
  <2>4. /\ MayReport(new) =>
              /\ new.test \in Tests
              /\ \A granted \in Granted : RunVerdict(new, granted) \in Verdict
        /\ ~MayReport(new) => runs'[s].active
        /\ MayReport(new) =>
              /\ ~runs'[s].active /\ ~runs'[s].handle
              /\ \A j \in Pipes : runs'[s].ov[j] \notin {"connected", "cancelling"}
    BY <2>1, <2>2, SettlesOr
  <2>5. /\ running' \in Int
        /\ report' \in [Tests -> Seq(Verdict)] /\ tally' \in [Outcomes -> Nat]
        /\ any_failed' \in BOOLEAN /\ finished' \in Nat
    BY <2>1, <2>4, SettleTypes
  <2>6. /\ iocp' \in Seq(Packets) /\ io' \in [Slots -> [Pipes -> End]]
        /\ \A r \in Slots \ {s} : io'[r] = io[r]
    BY <2>1, Disconnects
  <2>7. StateTypes'
    <3>1. \A r \in Slots : runs'[r].test = runs[r].test /\ (runs'[r].active => runs[r].active)
      BY <1>1, <2>3
    <3> QED
      BY <2>3, <2>5, <2>6, <3>1, HandledTypes DEF StateTypes
  <2>8. SlotStep(s)
    BY <1>1, <1>2, <2>3, <2>6, SlotAlone
  <2>9. SlotKept(s) \/ (Dropped(s) /\ runs'[s].handle = runs[s].handle)
    BY <1>1, <2>2, <2>3, <2>4 DEF SlotKept, Dropped, OwnLike
  <2>10. /\ runs'[s].ov[k] = "idle"
         /\ \A j \in Pipes \ {k} : runs'[s].ov[j] = runs[s].ov[j]
    BY <2>2, <2>3
  <2>11. AllRight'
    BY <1>3, <2>1, <2>7, <2>8, <2>9, <2>10, PipeEnds
  <2> QED
    BY <2>7, <2>11
<1>5. CASE ~(left = <<>> /\ ~io[s][k].open)
  <2> DEFINE x == IF left = <<>> THEN <<>> ELSE <<IoPacket(s, k, "data", Len(left))>>
  <2>1. /\ io' = [io EXCEPT ![s][k].reading = (left = <<>>)]
        /\ iocp' = Tail(iocp) \o x
        /\ runs' = [runs EXCEPT ![s] = run]
        /\ ReportNone /\ running' = running
    BY <1>5 DEF ReadNext
  <2>2. /\ x \in Seq(Packets) /\ \A i \in 1..Len(x) : x[i] \in Io(s, k)
        /\ left # <<>> => x = <<IoPacket(s, k, "data", Len(left))>>
        /\ left = <<>> => x = <<>>
    <3>1. "data" \in PacketKinds /\ Len(left) \in Nat
      BY DEF PacketKinds
    <3>2. x = IF left # <<>> THEN <<IoPacket(s, k, "data", Len(left))>> ELSE <<>>
      OBVIOUS
    <3>3. x \in Seq(Packets) /\ \A i \in 1..Len(x) : x[i] \in Io(s, k)
      <4> HIDE DEF x
      <4> QED
        BY <1>1, <3>1, <3>2, PartMade
    <3> QED
      BY <3>3
  <2> HIDE DEF x
  <2>3. /\ runs' \in [Slots -> Slot] /\ runs'[s] = run
        /\ \A r \in Slots \ {s} : runs'[r] = runs[r]
    BY <1>1, <2>1
  <2>4. /\ io' \in [Slots -> [Pipes -> End]]
        /\ \A r \in Slots \ {s} : io'[r] = io[r]
        /\ \A j \in Pipes \ {k} : io'[s][j] = io[s][j]
        /\ io'[s][k].listening = 0 /\ io'[s][k].client = runs[s].test
        /\ io'[s][k].reading = (left = <<>>)
    <3>1. PICK b \in BOOLEAN : b = (left = <<>>)
      OBVIOUS
    <3>2. io' = [io EXCEPT ![s][k].reading = b]
      BY <2>1, <3>1
    <3>3. io' \in [Slots -> [Pipes -> End]]
      BY <1>1, <3>2, ReadingType
    <3>4. io \in [Slots -> [Pipes -> End]] /\ io[s] \in [Pipes -> End] /\ io[s][k] \in End
      BY <1>1 DEF StateTypes
    <3>5. \A r \in Slots \ {s} : io'[r] = io[r]
      BY <1>1, <3>2, <3>4
    <3>6. io'[s] = [io[s] EXCEPT ![k] = [io[s][k] EXCEPT !.reading = b]]
      BY <1>1, <3>2, <3>4
    <3>7. io'[s][k] = [io[s][k] EXCEPT !.reading = b]
          /\ \A j \in Pipes \ {k} : io'[s][j] = io[s][j]
      BY <1>1, <3>4, <3>6
    <3>8. /\ io'[s][k].listening = io[s][k].listening
          /\ io'[s][k].client = io[s][k].client /\ io'[s][k].reading = b
      BY <3>4, <3>7 DEF End
    <3> QED
      BY <1>1, <3>1, <3>3, <3>5, <3>7, <3>8
  <2>5. Tail(iocp) \in Seq(Packets) /\ iocp' \in Seq(Packets)
    BY <2>1, <2>2, TailPlaces DEF StateTypes
  <2>6. StateTypes'
    <3>1. \A r \in Slots : runs'[r].test = runs[r].test /\ (runs'[r].active => runs[r].active)
      BY <1>1, <2>3 DEF OwnLike
    <3> QED
      BY <2>1, <2>3, <2>4, <2>5, <3>1, HandledTypes DEF StateTypes, ReportNone
  <2>7. SlotStep(s)
    BY <1>1, <1>2, <2>3, <2>4, SlotAlone
  <2>8. SlotKept(s)
    BY <2>3 DEF SlotKept, OwnLike
  <2>9. PipeRight(s, k)'
    <3>1. /\ runs'[s].ov[k] = "connected" /\ runs'[s].active /\ runs'[s].test = runs[s].test
      BY <1>1, <2>3 DEF OwnLike
    <3>2. CASE left = <<>>
      <4>1. io'[s][k].reading /\ iocp' = Tail(iocp) \o <<>>
        BY <2>1, <2>2, <2>4, <3>2
      <4>2. NoneOf(iocp', Io(s, k))
        BY <1>1, <2>5, <4>1, ConcatEmptySeq
      <4> QED
        BY <2>4, <3>1, <4>1, <4>2 DEF PipeRight, Coming
    <3>3. CASE left # <<>>
      <4> DEFINE p == IoPacket(s, k, "data", Len(left))
      <4>1. x = <<p>> /\ ~io'[s][k].reading
        BY <2>2, <2>4, <3>3
      <4>2. p \in DataOf(s, k, Len(left))
        <5>1. "data" \in PacketKinds /\ Len(left) \in Nat
          BY DEF PacketKinds
        <5> QED
          BY <1>1, <5>1, PacketMade
      <4> HIDE DEF p
      <4>3. OneOf(x, Io(s, k), DataOf(s, k, Len(left)))
        BY <4>1, <4>2, Single
      <4>4. OneOf(Tail(iocp) \o x, Io(s, k), DataOf(s, k, Len(left)))
        BY <1>1, <2>2, <2>5, <4>3, ConcatRight
      <4>5. OneOf(iocp', Io(s, k), DataOf(s, k, Len(pipe'[runs'[s].test][k])))
        BY <2>1, <3>1, <4>4 DEF TestOf
      <4> QED
        BY <2>4, <3>1, <4>1, <4>5 DEF PipeRight, Coming
    <3> QED
      BY <3>2, <3>3
  <2>10. /\ runs'[s].ov[k] = "connected" /\ runs[s].active
         /\ \A j \in Pipes \ {k} : runs'[s].ov[j] = runs[s].ov[j] /\ io'[s][j] = io[s][j]
    BY <1>1, <2>3, <2>4
  <2>11. AllRight'
    <3>1. \A j \in Pipes \ {k} :
             /\ runs'[s].ov[j] = runs[s].ov[j] /\ io'[s][j] = io[s][j]
             /\ runs[s].active => Len(pipe[TestOf(s)][j]) <= Len(pipe'[TestOf(s)][j])
      BY <1>3, <2>10
    <3>2. iocp' = Tail(iocp) \o x /\ started' = started
      BY <2>1
    <3> QED
      BY <2>2, <2>6, <2>7, <2>8, <2>9, <2>10, <3>1, <3>2, PipeMoves
  <2> QED
    BY <2>6, <2>11
<1> QED
  BY <1>4, <1>5

\* A waiting pipe gets the packet of its connection, and waits for no client then.
LEMMA WaitingConnected ==
    ASSUME StateTypes, AllRight, WaitingDequeued
    PROVE  Packet.what = "connected" /\ io[Packet.slot][Packet.pipe].listening = 0
<1>1. /\ iocp # <<>> /\ Packet.what \in {"connected", "data"}
      /\ runs[Packet.slot].ov[Packet.pipe] = "waiting"
  BY DEF WaitingDequeued, Dequeue, Run
<1> QED
  BY <1>1, PacketRight

LEMMA ConnectedRight ==
    ASSUME StateTypes, AllRight, Apart, ConnectedDequeued
    PROVE  StateTypes' /\ AllRight'
<1>1. /\ pc = "start" /\ pc' \in {"start", "check"} /\ iocp # <<>> /\ Packet.what # "exit"
      /\ Run.ov[Packet.pipe] = "waiting" /\ ReadNext(With("connected"), InPipe)
      /\ UNCHANGED <<childVars, started, fork_failed, log_setup_failed,
                   jobExits, reconnected>>
  BY DEF ConnectedDequeued, WaitingDequeued, Dequeue, Return, jobVars
<1>2. PICK s \in Slots, k \in Pipes : s = Packet.slot /\ k = Packet.pipe
  BY <1>1, PacketRight
<1>3. runs[s].ov[k] = "waiting" /\ runs[s] \in Slot
  BY <1>1, <1>2 DEF Run, StateTypes
<1>4. s \in Active /\ io[s][k].client = runs[s].test /\ runs[s].test \in Tests
  BY <1>1, <1>2, <1>3, PacketRight, ActiveTest DEF Active, StateTypes
<1> DEFINE run == Moved(runs[s], k, "connected")
<1>5. With("connected") = run
  BY <1>2 DEF With, Run, Moved
<1>6. /\ run \in Slot /\ OwnLike(run, runs[s]) /\ run.ov[k] = "connected"
      /\ \A j \in Pipes \ {k} : run.ov[j] = runs[s].ov[j]
  <2>1. "connected" \in PipeStates
    BY DEF PipeStates
  <2> QED
    BY <1>2, <1>3, <2>1, MovedSlot, OwnSlot
<1> HIDE DEF run
<1> DEFINE left == pipe[TestOf(s)][k]
<1>7. InPipe = left
  BY <1>2, <1>4 DEF InPipe, Client, TestOf
<1>8. left \in Seq(Item) /\ pipe \in [Tests -> Contents] /\ pipe' = pipe
  BY <1>1, <1>2, <1>4, PipeType DEF StateTypes, TestOf, childVars, Contents
<1>9. pipe'[TestOf(s)][k] = left /\ ReadNext(run, left)
  BY <1>1, <1>5, <1>7, <1>8
<1>10. UNCHANGED <<proc, wrote, overdue, started, fork_failed, log_setup_failed,
                   jobExits, reconnected>>
  BY <1>1 DEF childVars
<1> HIDE DEF left
<1>11. OnlyPipe(TestOf(s), k)
  BY <1>8 DEF OnlyPipe
<1> QED
  BY <1>1, <1>2, <1>4, <1>6, <1>8, <1>9, <1>10, <1>11, ReadRight

\* What was read is appended to one log of the slot.
Logged(run, k, data) == [run EXCEPT !.log[k] = LogAppend(@, data)]

LEMMA LoggedSlot ==
    ASSUME NEW run \in Slot, NEW k \in Pipes, NEW data \in Seq(Item)
    PROVE  /\ Logged(run, k, data) \in Slot /\ OwnLike(Logged(run, k, data), run)
           /\ Logged(run, k, data).ov = run.ov
           /\ Logged(run, k, data).log = [run.log EXCEPT ![k] = run.log[k] \o data]
<1> DEFINE new == Logged(run, k, data)
<1>1. PICK logs : logs = [run.log EXCEPT ![k] = run.log[k] \o data]
  OBVIOUS
<1>2. logs \in Contents
  <2>1. run.log \in [Pipes -> Seq(Item)]
    BY DEF Slot, Contents
  <2>2. run.log[k] \o data \in Seq(Item)
    BY <2>1
  <2> QED
    BY <1>1, <2>1, <2>2 DEF Contents
<1>3. new = [run EXCEPT !.log = logs]
  BY <1>1 DEF LogAppend, Logged
<1> HIDE DEF new
<1>4. \A e \in Slot, c \in Contents : [e EXCEPT !.log = c] \in Slot
  BY DEF Slot
<1>5. new \in Slot
  BY <1>2, <1>3, <1>4
<1>6. /\ new.active = run.active /\ new.test = run.test /\ new.handle = run.handle
      /\ new.state = run.state /\ new.timed_out = run.timed_out
      /\ new.read_too_much = run.read_too_much /\ new.ov = run.ov /\ new.log = logs
  BY <1>3 DEF Slot
<1>7. OwnLike(new, run) /\ new.log = [run.log EXCEPT ![k] = run.log[k] \o data]
  BY <1>1, <1>6 DEF OwnLike
<1> QED
  BY <1>5, <1>6, <1>7 DEF new

LEMMA Pieces ==
    ASSUME NEW q \in Seq(Item), NEW n \in 0..Len(q)
    PROVE  SubSeq(q, 1, n) \in Seq(Item) /\ SubSeq(q, n + 1, Len(q)) \in Seq(Item)
  OBVIOUS

LEMMA DataRight ==
    ASSUME StateTypes, AllRight, Apart, DataDequeued
    PROVE  StateTypes' /\ AllRight'
<1>1. /\ pc = "start" /\ pc' \in {"start", "check"} /\ iocp # <<>> /\ Packet.what = "data"
      /\ Run.ov[Packet.pipe] = "connected"
      /\ UNCHANGED <<proc, wrote, overdue, started, fork_failed, log_setup_failed,
                   jobExits, reconnected>>
  BY DEF DataDequeued, Dequeue, Return, jobVars
<1>2. Packet.what # "exit"
  BY <1>1
<1>3. PICK s \in Slots, k \in Pipes : s = Packet.slot /\ k = Packet.pipe
  BY <1>1, <1>2, PacketRight
<1>4. runs[s].ov[k] = "connected" /\ runs[s] \in Slot
  BY <1>1, <1>3 DEF Run, StateTypes
<1>5. s \in Active /\ io[s][k].client = runs[s].test /\ runs[s].test \in Tests
      /\ Packet.n \in 0..Len(pipe[runs[s].test][k])
  <2>1. runs[s].active /\ io[s][k].client = runs[s].test
    BY <1>1, <1>2, <1>3, <1>4, PacketRight
  <2>2. Packet.n \in 0..Len(pipe[runs[s].test][k])
    BY <1>1, <1>2, <1>3, <1>4, PacketRight
  <2> QED
    BY <2>1, <2>2, ActiveTest DEF Active, StateTypes
<1>6. PICK q \in Seq(Item) : q = pipe[TestOf(s)][k]
  BY <1>5, PipeType DEF StateTypes, TestOf
<1>7. InPipe = q /\ Client = TestOf(s)
  BY <1>3, <1>5, <1>6 DEF InPipe, Client, TestOf
<1>8. PICK n \in 0..Len(q) : n = Packet.n
  BY <1>5, <1>6 DEF TestOf
<1>9. PICK read \in Seq(Item), left \in Seq(Item) :
         read = SubSeq(q, 1, n) /\ left = SubSeq(q, n + 1, Len(q))
  BY Pieces
<1> DEFINE run == Logged(runs[s], k, read)
<1>10. ReadNext(run, left) /\ pipe' = [pipe EXCEPT ![TestOf(s)][k] = left]
  BY <1>3, <1>7, <1>8, <1>9 DEF DataDequeued, Run, Logged
<1>11. run \in Slot /\ OwnLike(run, runs[s]) /\ run.ov = runs[s].ov
  BY <1>4, LoggedSlot
<1> HIDE DEF run
<1>12. /\ pipe' \in [Tests -> Contents] /\ pipe'[TestOf(s)][k] = left
       /\ OnlyPipe(TestOf(s), k)
  <2>1. pipe \in [Tests -> Contents] /\ TestOf(s) \in Tests
    BY <1>5 DEF StateTypes, TestOf
  <2>2. pipe' \in [Tests -> Contents]
    BY <1>9, <1>10, <2>1, PipeUpdate
  <2>3. \A t \in Tests : pipe[t] \in [Pipes -> Seq(Item)]
    BY <2>1 DEF Contents
  <2> QED
    BY <1>10, <2>1, <2>2, <2>3 DEF OnlyPipe
<1>13. run.ov[k] = "connected" /\ \A j \in Pipes \ {k} : run.ov[j] = runs[s].ov[j]
  BY <1>4, <1>11
<1>14. /\ pc = "start" /\ pc' \in {"start", "check"} /\ iocp # <<>>
       /\ UNCHANGED <<proc, wrote, overdue, started, fork_failed, log_setup_failed,
                   jobExits, reconnected>>
  BY <1>1
<1>15. s = Packet.slot /\ k = Packet.pipe /\ s \in Active /\ io[s][k].client = runs[s].test
  BY <1>3, <1>5
<1>16. ReadNext(run, left)
  BY <1>10
<1> QED
  BY <1>2, <1>11, <1>12, <1>13, <1>14, <1>15, <1>16, ReadRight

\* A slot is what it was, or gives up its test with no pipe left in use.
GivenUp(run, was) ==
    /\ was.active /\ ~run.active /\ ~was.handle /\ ~run.handle
    /\ \A j \in Pipes : run.ov[j] \notin {"connected", "cancelling"}

\* Only slot s changes, whose pipe k ends.
PipeEnded(rs, s, k) ==
    /\ \A r \in Slots : rs[r].test = runs[r].test
    /\ \A r \in Slots \ {s} : rs[r] = runs[r]
    /\ OwnLike(rs[s], runs[s]) \/ GivenUp(rs[s], runs[s])
    /\ rs[s].ov[k] = "idle" /\ \A j \in Pipes \ {k} : rs[s].ov[j] = runs[s].ov[j]

\* The limits are enforced once the packet's pipe is disconnected.
LEMMA EnforceRight ==
    ASSUME StateTypes, AllRight, pc = "start", pc' \in {"start", "check"}, iocp # <<>>,
           Packet.what # "exit", NEW s, s = Packet.slot, NEW k, k = Packet.pipe, Disconnect,
           NEW rs \in [Slots -> Slot], Enforce(rs),
           PipeEnded(rs, s, k),
           UNCHANGED <<pipe, wrote, overdue, started, fork_failed, log_setup_failed,
                   jobExits, reconnected>>,
           running' \in Int,
           /\ report' \in [Tests -> Seq(Verdict)] /\ tally' \in [Outcomes -> Nat]
           /\ any_failed' \in BOOLEAN /\ finished' \in Nat
    PROVE  StateTypes' /\ AllRight'
<1>1. s \in Slots /\ k \in Pipes /\ runs \in [Slots -> Slot]
  BY PacketRight DEF StateTypes
<1>2. /\ runs' \in [Slots -> Slot] /\ proc' \in [Tests -> Process]
      /\ \A t \in Tests : ProcStep(t)
      /\ \A r \in Slots :
            /\ Alike(runs'[r], rs[r])
            /\ rs[r].timed_out => runs'[r].timed_out
            /\ rs[r].active /\ runs[r].test \in Tests
               /\ proc'[runs[r].test].state = "killed"
                  => proc[runs[r].test].state = "killed" \/ runs'[r].timed_out
  <2>1. \A r \in Slots : rs[r].test = runs[r].test
    BY DEF PipeEnded
  <2> QED
    BY <2>1, EnforceSlots
<1>3. /\ iocp' \in Seq(Packets) /\ io' \in [Slots -> [Pipes -> End]]
      /\ \A r \in Slots \ {s} : io'[r] = io[r]
  BY Disconnects
<1>4. \A r \in Slots : runs[r].active => runs[r].test \in Tests
  BY ActiveTest DEF StateTypes, Active
<1>5. \A r \in Slots \ {s} : SlotKept(r) /\ runs'[r].ov = runs[r].ov
  BY <1>2, <1>4 DEF SlotKept, Alike, TestOf, PipeEnded
<1>6. SlotKept(s) \/ (Dropped(s) /\ runs'[s].handle = runs[s].handle)
  <2>1. CASE OwnLike(rs[s], runs[s])
    <3>1. Alike(runs'[s], rs[s]) /\ (rs[s].timed_out => runs'[s].timed_out)
      BY <1>1, <1>2
    <3>2. runs[s].active /\ proc'[runs[s].test].state = "killed"
             => proc[runs[s].test].state = "killed" \/ runs'[s].timed_out
      BY <1>1, <1>2, <1>4, <2>1 DEF OwnLike
    <3> QED
      BY <2>1, <3>1, <3>2 DEF SlotKept, Alike, TestOf, OwnLike
  <2>2. CASE GivenUp(rs[s], runs[s])
    <3>1. Alike(runs'[s], rs[s]) /\ runs'[s].test = runs[s].test
      BY <1>1, <1>2 DEF Alike, PipeEnded
    <3>2. /\ runs[s].active /\ ~runs'[s].active /\ ~runs[s].handle /\ ~runs'[s].handle
          /\ \A j \in Pipes : runs'[s].ov[j] \notin {"connected", "cancelling"}
      BY <2>2, <3>1 DEF Alike, GivenUp
    <3>3. runs'[s].handle = FALSE /\ runs[s].handle = FALSE
      <4>1. runs[s].handle \in BOOLEAN /\ runs'[s].handle \in BOOLEAN
        BY <1>1, <1>2 DEF Slot
      <4> QED
        BY <3>2, <4>1
    <3>4. Dropped(s)
      BY <3>1, <3>2 DEF Dropped
    <3> QED
      BY <3>3, <3>4
  <2> QED
    BY <2>1, <2>2 DEF PipeEnded
<1>7. StateTypes'
  <2>1. \A r \in Slots : runs'[r].test = runs[r].test /\ (runs'[r].active => runs[r].active)
    BY <1>1, <1>2, <1>5, <1>6 DEF Alike, SlotKept, Dropped
  <2> QED
    BY <1>2, <1>3, <2>1, HandledTypes DEF StateTypes
<1>8. PipesGrow
  BY PipesStay
<1>9. SlotStep(s)
  <2>1. \A r \in Active \ {s} : \A j \in Pipes :
            Len(pipe[TestOf(r)][j]) <= Len(pipe'[TestOf(r)][j])
    BY <1>4, <1>8 DEF PipesGrow, Active, TestOf
  <2> QED
    BY <1>2, <1>3, <1>5, <2>1 DEF SlotStep
<1>10. \A j \in Pipes \ {k} :
          /\ runs'[s].ov[j] = runs[s].ov[j]
          /\ runs[s].active => Len(pipe[TestOf(s)][j]) <= Len(pipe'[TestOf(s)][j])
  BY <1>1, <1>2, <1>4, <1>8 DEF Alike, PipesGrow, TestOf, PipeEnded
<1>11. runs'[s].ov[k] = "idle" /\ started' = started
  BY <1>1, <1>2 DEF Alike, PipeEnded
<1>12. AllRight'
  BY <1>6, <1>7, <1>9, <1>10, <1>11, PipeEnds
<1> QED
  BY <1>7, <1>12

LEMMA FailedRight ==
    ASSUME StateTypes, AllRight, FailedDequeued
    PROVE  StateTypes' /\ AllRight'
<1>1. /\ pc = "start" /\ pc' \in {"start", "check"} /\ iocp # <<>> /\ Packet.what # "exit"
      /\ Disconnect
      /\ UNCHANGED <<pipe, wrote, overdue, started, fork_failed, log_setup_failed,
                   jobExits, reconnected>>
  BY DEF FailedDequeued, Dequeue, Return, jobVars
<1>2. PICK s \in Slots, k \in Pipes : s = Packet.slot /\ k = Packet.pipe
  BY <1>1, PacketRight
<1>3. runs[s] \in Slot /\ runs \in [Slots -> Slot]
  BY <1>2 DEF StateTypes
<1> DEFINE new == Moved(runs[s], k, "idle")
<1>4. With("idle") = new
  BY <1>2 DEF With, Run, Moved
<1>5. /\ new \in Slot /\ OwnLike(new, runs[s]) /\ new.ov[k] = "idle"
      /\ \A j \in Pipes \ {k} : new.ov[j] = runs[s].ov[j]
  <2>1. "idle" \in PipeStates
    BY DEF PipeStates
  <2> QED
    BY <1>2, <1>3, <2>1, MovedSlot, OwnSlot
<1> HIDE DEF new
<1>6. CASE WasCancelled
  <2>1. ReportNone /\ running' = running /\ Enforce([runs EXCEPT ![s] = new])
    BY <1>2, <1>4, <1>6 DEF FailedDequeued
  <2>2. PICK rs : rs = [runs EXCEPT ![s] = new]
    OBVIOUS
  <2>3. /\ rs \in [Slots -> Slot] /\ rs[s] = new /\ \A r \in Slots \ {s} : rs[r] = runs[r]
        /\ Enforce(rs)
    BY <1>2, <1>3, <1>5, <2>1, <2>2
  <2>4. \A r \in Slots : rs[r].test = runs[r].test
    BY <1>5, <2>3 DEF OwnLike
  <2>5. /\ running' \in Int
        /\ report' \in [Tests -> Seq(Verdict)] /\ tally' \in [Outcomes -> Nat]
        /\ any_failed' \in BOOLEAN /\ finished' \in Nat
    BY <2>1 DEF ReportNone, StateTypes
  <2> QED
    <3>1. PipeEnded(rs, s, k)
      BY <1>5, <2>3, <2>4 DEF PipeEnded
    <3> QED
      BY <1>1, <1>2, <2>3, <2>5, <3>1, EnforceRight
<1>7. CASE ~WasCancelled
  <2>1. SettleReport(new) /\ Enforce(Settled(s, new))
    BY <1>2, <1>4, <1>7 DEF FailedDequeued
  <2>2. runs[s].ov[k] # "cancelling"
    BY <1>2, <1>7 DEF WasCancelled, Run
  <2>3. s \in Active /\ pc # "done"
    BY <1>1, <1>2, <2>2, PacketRight DEF Active
  <2>4. PICK rs : rs = Settled(s, new)
    OBVIOUS
  <2>5. /\ rs \in [Slots -> Slot] /\ \A r \in Slots \ {s} : rs[r] = runs[r]
        /\ \A r \in Slots : rs[r].test = runs[r].test
        /\ rs[s].handle = new.handle /\ rs[s].ov = new.ov
        /\ rs[s].state = new.state /\ rs[s].timed_out = new.timed_out
        /\ rs[s].read_too_much = new.read_too_much
    BY <1>2, <1>5, <2>4, SettledLike
  <2>6. /\ MayReport(new) =>
              /\ new.test \in Tests
              /\ \A granted \in Granted : RunVerdict(new, granted) \in Verdict
        /\ ~MayReport(new) => rs[s].active
        /\ MayReport(new) =>
              /\ ~rs[s].active /\ ~rs[s].handle
              /\ \A j \in Pipes : rs[s].ov[j] \notin {"connected", "cancelling"}
    BY <1>5, <2>3, <2>4, SettlesOr
  <2>7. /\ running' \in Int
        /\ report' \in [Tests -> Seq(Verdict)] /\ tally' \in [Outcomes -> Nat]
        /\ any_failed' \in BOOLEAN /\ finished' \in Nat
    BY <2>1, <2>6, SettleTypes
  <2>8. OwnLike(rs[s], runs[s]) \/ GivenUp(rs[s], runs[s])
    BY <1>2, <1>5, <2>3, <2>5, <2>6 DEF OwnLike, Active, GivenUp
  <2>9. rs[s].ov[k] = "idle" /\ \A j \in Pipes \ {k} : rs[s].ov[j] = runs[s].ov[j]
    BY <1>5, <2>5
  <2>10. Enforce(rs)
    BY <2>1, <2>4
  <2> QED
    <3>1. PipeEnded(rs, s, k)
      BY <2>5, <2>8, <2>9 DEF PipeEnded
    <3> QED
      BY <1>1, <1>2, <2>5, <2>7, <2>10, <3>1, EnforceRight
<1> QED
  BY <1>6, <1>7
-----------------------------------------------------------------------------
(* Exits. *)

\* The slot s once its exit was handled.
EndedRun(s) == [runs[s] EXCEPT !.handle = FALSE, !.state = proc[runs[s].test].state]

LEMMA EndedSlot ==
    ASSUME StateTypes, AllRight, pc # "done", NEW s \in Active, TestOf(s) \in jobExits
    PROVE  /\ EndedRun(s) \in Slot /\ EndedRun(s).active /\ EndedRun(s).test = runs[s].test
           /\ ~EndedRun(s).handle /\ EndedRun(s).state = proc[TestOf(s)].state
           /\ EndedRun(s).timed_out = runs[s].timed_out
           /\ EndedRun(s).read_too_much = runs[s].read_too_much
           /\ EndedRun(s).ov = runs[s].ov /\ EndedRun(s).log = runs[s].log
           /\ EndedRun(s).test \in Tests
           /\ \A granted \in Granted : RunVerdict(EndedRun(s), granted) \in Verdict
<1>1. PICK t \in Tests : t = runs[s].test
  BY ActiveTest DEF StateTypes
<1>2. s \in Slots /\ ExitRight(s) /\ TestRight(t) /\ runs[s] \in Slot /\ runs[s].active
  BY <1>1 DEF AllRight, SlotRight, Active, StateTypes
<1>3. ~Alive(t) /\ proc[t].state # "none"
  BY <1>1, <1>2 DEF ExitRight, TestOf
<1>4. proc[t].state \in {"exited", "signalled", "killed"}
  BY <1>2, <1>3 DEF TestRight, Alive
<1>5. PICK st \in ProcessStates : st = proc[t].state
  BY <1>4 DEF ProcessStates
<1>6. EndedRun(s) = [runs[s] EXCEPT !.handle = FALSE, !.state = st]
  BY <1>1, <1>5 DEF EndedRun
<1>7. \A e \in Slot : [e EXCEPT !.handle = FALSE, !.state = st] \in Slot
  BY DEF Slot
<1>8. /\ EndedRun(s) \in Slot /\ EndedRun(s).active = runs[s].active /\ EndedRun(s).test = t
      /\ EndedRun(s).handle = FALSE /\ EndedRun(s).state = st
      /\ EndedRun(s).timed_out = runs[s].timed_out
      /\ EndedRun(s).read_too_much = runs[s].read_too_much
      /\ EndedRun(s).ov = runs[s].ov /\ EndedRun(s).log = runs[s].log
  BY <1>1, <1>2, <1>6, <1>7 DEF Slot
<1>9. \/ EndedRun(s).read_too_much \/ EndedRun(s).timed_out
      \/ EndedRun(s).state \in {"exited", "signalled"}
  BY <1>1, <1>2, <1>4, <1>5, <1>8 DEF ExitRight
<1>10. \A granted \in Granted : RunVerdict(EndedRun(s), granted) \in Verdict
  BY <1>8, <1>9, RunVerdictType
<1> QED
  BY <1>1, <1>2, <1>5, <1>8, <1>10 DEF TestOf

LEMMA ExitHandled ==
    ASSUME StateTypes, AllRight, Apart, ExitDequeued
    PROVE  StateTypes' /\ AllRight'
<1>1. /\ pc = "start" /\ pc' \in {"start", "check"} /\ iocp # <<>> /\ Packet.what = "exit"
      /\ iocp' = Tail(iocp)
      /\ UNCHANGED <<childVars, started, fork_failed, log_setup_failed, io,
                   jobExits, reconnected>>
  BY DEF ExitDequeued, Dequeue, Return, jobVars
<1>2. PICK s \in Active : runs[s].test = Packet.test /\ Settle(s, EndedRun(s))
  BY DEF ExitDequeued, EndedRun
<1>3. PICK t \in Tests : t = runs[s].test
  BY ActiveTest DEF StateTypes
<1>4. /\ s \in Slots /\ runs[s].active /\ t \in jobExits /\ TestOf(s) = t
      /\ NoneOf(Tail(iocp), ExitOf(t)) /\ \A k \in Pipes : ~Coming(s, k)
      /\ ExitRight(s) /\ \A k \in Pipes : PipeRight(s, k)
  BY <1>1, <1>2, <1>3, ExitPacketRight DEF Active, TestOf, AllRight, SlotRight
<1>5. PICK run \in Slot : run = EndedRun(s)
  BY <1>1, <1>3, <1>4, EndedSlot
<1>6. /\ run.active /\ run.test = t /\ ~run.handle /\ run.state = proc[t].state
      /\ run.timed_out = runs[s].timed_out /\ run.read_too_much = runs[s].read_too_much
      /\ run.ov = runs[s].ov
      /\ \A granted \in Granted : RunVerdict(run, granted) \in Verdict
  BY <1>1, <1>3, <1>4, <1>5, EndedSlot
<1>7. SettleReport(run) /\ runs' = Settled(s, run)
  BY <1>2, <1>5 DEF Settle
<1>8. /\ runs' \in [Slots -> Slot]
      /\ \A r \in Slots \ {s} : runs'[r] = runs[r]
      /\ \A r \in Slots : runs'[r].test = runs[r].test
      /\ runs'[s].active = (run.active /\ ~MayReport(run))
      /\ runs'[s].test = run.test /\ runs'[s].handle = run.handle
      /\ runs'[s].state = run.state /\ runs'[s].timed_out = run.timed_out
      /\ runs'[s].read_too_much = run.read_too_much /\ runs'[s].ov = run.ov
  <2>1. run.test = runs[s].test /\ run.active = runs[s].active
    <3>1. runs[s].active \in BOOLEAN /\ run.active \in BOOLEAN
      BY <1>4 DEF StateTypes, Slot
    <3> QED
      BY <1>3, <1>4, <1>6, <3>1
  <2>2. /\ Settled(s, run) \in [Slots -> Slot]
        /\ \A r \in Slots \ {s} : Settled(s, run)[r] = runs[r]
        /\ \A r \in Slots : Settled(s, run)[r].test = runs[r].test
        /\ Settled(s, run)[s].active = (run.active /\ ~MayReport(run))
        /\ Settled(s, run)[s].test = run.test /\ Settled(s, run)[s].handle = run.handle
        /\ Settled(s, run)[s].state = run.state
        /\ Settled(s, run)[s].timed_out = run.timed_out
        /\ Settled(s, run)[s].read_too_much = run.read_too_much
        /\ Settled(s, run)[s].ov = run.ov
    BY <1>4, <2>1, SettledSlots
  <2> QED
    BY <1>7, <2>2
<1>9. Tail(iocp) \in Seq(Packets) /\ iocp' \in Seq(Packets)
  BY <1>1, TailPlaces DEF StateTypes
<1>10. StateTypes'
  <2>1. /\ running' \in Int
        /\ report' \in [Tests -> Seq(Verdict)] /\ tally' \in [Outcomes -> Nat]
        /\ any_failed' \in BOOLEAN /\ finished' \in Nat
    BY <1>6, <1>7, SettleTypes
  <2>2. \A r \in Slots : runs'[r].test = runs[r].test /\ (runs'[r].active => runs[r].active)
    BY <1>4, <1>8
  <2> QED
    BY <1>1, <1>8, <1>9, <2>1, <2>2, HandledTypes DEF StateTypes, childVars
<1>11. SlotStep(s)
  <2>1. \A r \in Active \ {s} : \A k \in Pipes : pipe'[TestOf(r)][k] = pipe[TestOf(r)][k]
    BY <1>1 DEF childVars
  <2> QED
    BY <1>1, <1>4, <1>8, <2>1, SlotAlone DEF childVars
<1> DEFINE E == {t}
           F == {}
<1>12. QueueStep(F, E)
  <2>1. iocp' = Tail(iocp) \o <<>> /\ <<>> \in Seq(Packets) /\ Len(<<>>) = 0
    BY <1>1, <1>9, ConcatEmptySeq
  <2>2. Touched(Packet, F, E)
    BY <1>1, <1>2, <1>3 DEF Touched
  <2>3. \A i \in 1..Len(<<>>) : Touched(<<>>[i], F, E)
    BY <2>1
  <2> HIDE DEF F, E
  <2> QED
    BY <1>1, <1>9, <2>1, <2>2, <2>3, Zenon DEF QueueStep
<1>13. /\ \A r, k : <<r, k>> \notin F
       /\ \A u : u \in E <=> u = t
  OBVIOUS
<1> HIDE DEF E, F
<1>14. \A r \in Slots \ {s} : SlotRight(r)' /\ \A k \in Pipes : PipeRight(r, k)'
  <2>1. \A r \in Active \ {s} : TestOf(r) \notin E
    BY <1>2, <1>4, <1>13 DEF Apart
  <2>2. \A r, k : <<r, k>> \in F => r = s
    BY <1>13
  <2> QED
    BY <1>4, <1>10, <1>11, <1>12, <2>1, <2>2, OthersRight
<1>15. NoneOf(iocp', ExitOf(t)) /\ proc' = proc /\ jobExits' = jobExits /\ ~Alive(t)
       /\ proc[t].state # "none"
       /\ (proc[t].state = "killed" => runs[s].timed_out \/ runs[s].read_too_much)
  BY <1>1, <1>3, <1>4 DEF childVars, ExitRight
<1>16. CASE MayReport(run)
  <2>1. \A k \in Pipes : \/ run.ov[k] = "idle"
                         \/ run.ov[k] = "waiting" /\ io[s][k].listening # 0
    <3>1. \A k \in Pipes : run.ov[k] \in PipeStates
      BY DEF Slot
    <3>2. \A k \in Pipes : run.ov[k] \notin {"connected", "cancelling"}
      BY <1>4, <1>6, <1>16 DEF MayReport
    <3>3. \A k \in Pipes : run.ov[k] = "waiting" => io[s][k].listening # 0
      BY <1>4, <1>6 DEF Coming
    <3> QED
      BY <3>1, <3>2, <3>3 DEF PipeStates
  <2>2. ~runs'[s].active
    BY <1>8, <1>16
  <2>3. SlotRight(s)'
    BY <1>1, <1>6, <1>8, <2>1, <2>2 DEF SlotRight, FreeRight
  <2>4. ASSUME NEW k \in Pipes
        PROVE  PipeRight(s, k)'
    <3>1. Same(Io(s, k))
      BY <1>12, <1>13, QueueFrame DEF StateTypes
    <3>2. /\ runs'[s].ov[k] = runs[s].ov[k] /\ io' = io
          /\ runs[s].ov[k] = "idle" \/ io[s][k].listening # 0
      BY <1>1, <1>6, <1>8, <2>1
    <3>3. Len(pipe[t][k]) <= Len(pipe'[t][k])
      <4>1. pipe' = pipe /\ Len(pipe[t][k]) \in Nat
        BY <1>1, PipeType DEF childVars, StateTypes
      <4> QED
        BY <4>1
    <3> QED
      BY <1>4, <1>10, <3>1, <3>2, <3>3, PipeKept
  <2>5. ASSUME NEW u \in Tests
        PROVE  TestRight(u)'
    <3>1. CASE u = t
      <4>1. ProcStep(u) /\ started' = started
        BY <1>1, <1>11 DEF SlotStep
      <4> QED
        BY <1>2, <1>4, <1>15, <3>1, <4>1, TestDropped
    <3>2. CASE u # t
      <4>1. u \notin E /\ started' = started
        BY <1>1, <1>13, <3>2
      <4> QED
        BY <1>4, <1>8, <1>10, <1>11, <1>12, <1>15, <3>2, <4>1, OtherTests
    <3> QED
      BY <3>1, <3>2
  <2>6. "spawn" \notin Habits => NoneOf(iocp', ExitOf(0))
    <3>1. 0 \notin E
      BY <1>13, TestsAssumption
    <3>2. Same(ExitOf(0))
      BY <1>12, <3>1, QueueFrame DEF StateTypes
    <3> QED
      BY <3>2 DEF AllRight, Same
  <2>7. AllRight'
    BY <1>14, <2>3, <2>4, <2>5, <2>6 DEF AllRight
  <2> QED
    BY <1>10, <2>7
<1>17. CASE ~MayReport(run)
  <2>1. runs'[s].active
    BY <1>6, <1>8, <1>17
  <2>2. SlotRight(s)'
    <3>1. ExitRight(s)'
      BY <1>1, <1>3, <1>4, <1>6, <1>8, <1>15 DEF ExitRight, Alive, Coming
    <3> QED
      BY <2>1, <3>1 DEF SlotRight
  <2>3. ASSUME NEW k \in Pipes
        PROVE  PipeRight(s, k)'
    <3>1. Same(Io(s, k))
      BY <1>12, <1>13, QueueFrame DEF StateTypes
    <3>2. runs'[s].ov[k] = runs[s].ov[k] /\ io' = io
          /\ runs'[s].active = runs[s].active /\ runs'[s].test = runs[s].test
      <4>1. runs[s].active \in BOOLEAN /\ runs'[s].active \in BOOLEAN
        BY <1>4, <1>8 DEF StateTypes, Slot
      <4> QED
        BY <1>1, <1>4, <1>6, <1>8, <2>1, <4>1
    <3>3. Len(pipe[t][k]) <= Len(pipe'[t][k])
      <4>1. pipe' = pipe /\ Len(pipe[t][k]) \in Nat
        BY <1>1, PipeType DEF childVars, StateTypes
      <4> QED
        BY <4>1
    <3> QED
      BY <1>4, <1>10, <3>1, <3>2, <3>3, PipeKept
  <2>4. ASSUME NEW u \in Tests
        PROVE  TestRight(u)'
    <3>1. u = t => Held(u)'
      BY <1>4, <1>8, <2>1 DEF Held, Active, TestOf
    <3>2. (u \in E => Held(u)') /\ started' = started
      BY <1>1, <1>13, <3>1
    <3> QED
      BY <1>4, <1>8, <1>10, <1>11, <1>12, <1>15, <2>1, <3>2, OtherTests
  <2>5. "spawn" \notin Habits => NoneOf(iocp', ExitOf(0))
    <3>1. 0 \notin E
      BY <1>13, TestsAssumption
    <3>2. Same(ExitOf(0))
      BY <1>12, <3>1, QueueFrame DEF StateTypes
    <3> QED
      BY <3>2 DEF AllRight, Same
  <2>6. AllRight'
    BY <1>14, <2>2, <2>3, <2>4, <2>5 DEF AllRight
  <2> QED
    BY <1>10, <2>6
<1> QED
  BY <1>16, <1>17

\* An exit no slot knows is that of a process a child started.
LEMMA UnknownRight ==
    ASSUME StateTypes, AllRight, UnknownExit
    PROVE  "spawn" \in Habits /\ StateTypes' /\ AllRight'
<1>1. /\ pc = "start" /\ pc' = "aborted" /\ iocp # <<>> /\ Packet.what = "exit"
      /\ \A s \in Active : runs[s].test # Packet.test
      /\ iocp' = Tail(iocp)
      /\ UNCHANGED <<childVars, statusVars, runs, report, io, jobExits, reconnected>>
  BY DEF UnknownExit, Dequeue, jobVars
<1>2. PICK t : t = Packet.test
  OBVIOUS
<1>3. t \notin Tests /\ "spawn" \in Habits
  BY <1>1, <1>2, ExitPacketRight DEF Held
<1>4. Tail(iocp) \in Seq(Packets) /\ iocp' \in Seq(Packets)
  BY <1>1, TailPlaces DEF StateTypes
<1>5. UNCHANGED <<started, finished, running, tally, fork_failed, log_setup_failed, any_failed>>
  BY <1>1 DEF statusVars
<1>6. StateTypes'
  BY <1>1, <1>4, <1>5, HandledTypes DEF StateTypes, childVars
<1> DEFINE E == {t}
           F == {}
<1>7. QueueStep(F, E)
  <2>1. iocp' = Tail(iocp) \o <<>> /\ <<>> \in Seq(Packets) /\ Len(<<>>) = 0
    BY <1>1, <1>4, ConcatEmptySeq
  <2>2. Touched(Packet, F, E)
    BY <1>1, <1>2 DEF Touched
  <2>3. \A i \in 1..Len(<<>>) : Touched(<<>>[i], F, E)
    BY <2>1
  <2> HIDE DEF F, E
  <2> QED
    BY <1>1, <1>4, <2>1, <2>2, <2>3, Zenon DEF QueueStep
<1>8. QuietStep
  <2>1. \A s \in Slots : SlotKept(s) /\ runs'[s].ov = runs[s].ov
    BY <1>1 DEF SlotKept, childVars
  <2>2. PipesGrow
    BY <1>1, PipesStay DEF childVars
  <2> QED
    BY <1>1, <1>5, <2>1, <2>2 DEF QuietStep, ProcStep, childVars
<1>9. /\ \A u \in Tests : u \notin E /\ (u \in jobExits' => u \in jobExits)
      /\ \A r \in Slots, k \in Pipes : <<r, k>> \notin F
      /\ JobKept(E) /\ ListeningKept
  BY <1>1, <1>3 DEF JobKept, ListeningKept
<1>10. \A r \in Slots : runs[r].active => TestOf(r) \notin E
  BY <1>9, ActiveTest DEF StateTypes, Active, TestOf
<1> HIDE DEF E, F
<1>11. /\ \A r \in Slots : SlotRight(r)'
       /\ \A u \in Tests : TestRight(u)'
       /\ \A r \in Slots, k \in Pipes : Same(Io(r, k))
  BY <1>6, <1>7, <1>8, <1>9, <1>10, QuietSlots
<1>12. \A r \in Slots, k \in Pipes : PipeRight(r, k)'
  BY <1>1, <1>6, <1>8, <1>11, QuietPipe
<1> QED
  BY <1>3, <1>6, <1>11, <1>12 DEF AllRight

\* No packet finds its pipe idle, none that is empty a connected one, none a pipe
\* that still listens, and no read is lost with its pipe.
LEMMA NeverUnexpected ==
    ASSUME StateTypes, AllRight
    PROVE  ~EmptyDequeued /\ ~IdleDequeued /\ ~UnexpectedFailure /\ ~ListeningDequeued
<1>1. ASSUME EmptyDequeued
      PROVE  FALSE
  <2>1. /\ iocp # <<>> /\ Packet.what = "connected"
        /\ runs[Packet.slot].ov[Packet.pipe] = "connected"
    BY <1>1 DEF EmptyDequeued, Dequeue, Run
  <2> QED
    BY <2>1, PacketRight
<1>2. ASSUME IdleDequeued
      PROVE  FALSE
  <2>1. /\ iocp # <<>> /\ Packet.what \in {"connected", "data"}
        /\ runs[Packet.slot].ov[Packet.pipe] = "idle"
    BY <1>2 DEF IdleDequeued, Dequeue, Run
  <2> QED
    BY <2>1, PacketRight
<1>3. ASSUME UnexpectedFailure
      PROVE  FALSE
  <2>1. iocp # <<>> /\ Packet.what = "disconnected"
    BY <1>3 DEF UnexpectedFailure, Dequeue
  <2> QED
    BY <2>1, PacketRight
<1> QED
  BY <1>1, <1>2, <1>3, WaitingConnected DEF ListeningDequeued
-----------------------------------------------------------------------------
(* What is cancelled. *)

LEMMA OneTimes ==
    ASSUME NEW p
    PROVE  [i \in 1..0 |-> p] = <<>> /\ [i \in 1..1 |-> p] = <<p>>
  OBVIOUS

LEMMA CancelMade ==
    ASSUME NEW s \in Slots, NEW k \in Pipes, NEW end \in End,
           end.listening = 0 \/ (end.listening = 1 /\ ~end.reading),
           NEW x, x = CancelPackets(s, k, end), NEW c,
           c <=> (end.reading \/ end.listening = 1)
    PROVE  /\ x \in Seq(Packets) /\ \A i \in 1..Len(x) : x[i] \in Io(s, k)
           /\ c => x # <<>> /\ OneOf(x, Io(s, k), IoOf(s, k, {"aborted"}))
           /\ ~c => x = <<>>
<1>1. "aborted" \in PacketKinds
  BY DEF PacketKinds
<1> DEFINE p == IoPacket(s, k, "aborted", 0)
           n == end.listening + IF end.reading THEN 1 ELSE 0
<1>2. CASE c
  <2>1. n = 1
    BY <1>2 DEF End
  <2>2. x = [i \in 1..n |-> p]
    BY DEF CancelPackets
  <2>3. x = <<p>>
    <3> HIDE DEF p, n
    <3> QED
      BY <2>1, <2>2, OneTimes
  <2>4. x = IF c THEN <<p>> ELSE <<>>
    BY <1>2, <2>3
  <2> QED
    BY <1>1, <1>2, <2>4, PartMade
<1>3. CASE ~c
  <2>1. n = 0
    BY <1>3 DEF End
  <2>2. x = [i \in 1..n |-> p]
    BY DEF CancelPackets
  <2>3. x = <<>>
    <3> HIDE DEF p, n
    <3> QED
      BY <2>1, <2>2, OneTimes
  <2> QED
    BY <1>3, <2>3
<1> QED
  BY <1>2, <1>3

LEMMA CancelEnds ==
    ASSUME NEW end \in End
    PROVE  /\ Cancelled(end) \in End /\ Cancelled(end).listening = 0
           /\ ~Cancelled(end).reading /\ Cancelled(end).client = end.client
           /\ Cancelled(end).open = end.open
           /\ Disconnected(end) \in End /\ Disconnected(end).listening = end.listening
           /\ ~Disconnected(end).reading /\ ~Disconnected(end).open
<1>1. 0 \in 0..NTests
  BY TestsAssumption
<1> QED
  BY <1>1 DEF Cancelled, Disconnected, End

\* A packet of fewer kinds is one of more.
LEMMA WiderPackets ==
    ASSUME NEW q, NEW X, NEW s, NEW k, NEW V, NEW W \in SUBSET V, OneOf(q, X, IoOf(s, k, W))
    PROVE  OneOf(q, X, IoOf(s, k, V))
<1>1. IoOf(s, k, W) \subseteq IoOf(s, k, V)
  BY PacketSets
<1> QED
  BY <1>1 DEF OneOf

\* The packet a pipe has to come, if it has one and no read is pending.
LEMMA NextPacket ==
    ASSUME NEW s \in Slots, NEW k \in Pipes, PipeRight(s, k), ~io[s][k].reading,
           runs[s].ov[k] \in PipeStates, Len(pipe[runs[s].test][k]) \in Nat
    PROVE  \/ OneOf(iocp, Io(s, k), IoOf(s, k, {"connected", "data", "broken", "aborted"}))
           \/ NoneOf(iocp, Io(s, k))
<1> DEFINE V == {"connected", "data", "broken", "aborted"}
           m == Len(pipe[runs[s].test][k])
<1>1. \A W \in SUBSET V :
         OneOf(iocp, Io(s, k), IoOf(s, k, W)) => OneOf(iocp, Io(s, k), IoOf(s, k, V))
  BY WiderPackets
<1>2. OneOf(iocp, Io(s, k), DataOf(s, k, m)) => OneOf(iocp, Io(s, k), IoOf(s, k, {"data"}))
  <2>1. DataOf(s, k, m) \subseteq IoOf(s, k, {"data"})
    BY DEF DataOf, IoOf
  <2> QED
    BY <2>1 DEF OneOf
<1>3. {"connected"} \in SUBSET V /\ {"data"} \in SUBSET V /\ {"broken"} \in SUBSET V
  OBVIOUS
<1> HIDE DEF V
<1>4. \/ OneOf(iocp, Io(s, k), IoOf(s, k, V)) \/ NoneOf(iocp, Io(s, k))
  <2>1. CASE runs[s].ov[k] = "idle"
    BY <2>1 DEF PipeRight
  <2>2. CASE runs[s].ov[k] = "waiting"
    <3>1. \/ OneOf(iocp, Io(s, k), IoOf(s, k, {"connected"}))
          \/ NoneOf(iocp, Io(s, k))
      BY <2>2 DEF PipeRight, Coming
    <3> QED
      BY <1>1, <1>3, <3>1
  <2>3. CASE runs[s].ov[k] = "connected"
    <3>1. OneOf(iocp, Io(s, k), DataOf(s, k, m)) \/ OneOf(iocp, Io(s, k), IoOf(s, k, {"broken"}))
      BY <2>3 DEF PipeRight
    <3> QED
      BY <1>1, <1>2, <1>3, <3>1
  <2>4. CASE runs[s].ov[k] = "cancelling"
    BY <2>4 DEF PipeRight, V
  <2> QED
    BY <2>1, <2>2, <2>3, <2>4 DEF PipeStates
<1> QED
  BY <1>4 DEF V

LEMMA ExitsMade ==
    ASSUME NEW t \in Tests, NEW E \in SUBSET {t}, NEW e, e = ExitPackets(E)
    PROVE  /\ e \in Seq(Packets)
           /\ \A i \in 1..Len(e) : t \in E /\ e[i] \in ExitOf(t)
           /\ t \in E => OneOf(e, ExitOf(t), ExitOf(t))
           /\ t \notin E => e = <<>>
<1>1. ExitPacket(t) \in Packets /\ ExitPacket(t) \in ExitOf(t)
  <2>1. t \in 0..NTests
    BY TestsAssumption
  <2> QED
    BY <2>1, ExitMade
<1>2. CASE t \in E
  <2>1. E = {t}
    BY <1>2
  <2>2. (CHOOSE u \in E : TRUE) = t
    BY <2>1
  <2>3. e = <<ExitPacket(t)>>
    BY <2>1, <2>2 DEF ExitPackets
  <2>4. OneOf(e, ExitOf(t), ExitOf(t))
    BY <1>1, <2>3, Single
  <2> QED
    BY <1>1, <1>2, <2>3, <2>4
<1>3. CASE t \notin E
  <2>1. E = {}
    BY <1>3
  <2> QED
    BY <1>3, <2>1 DEF ExitPackets
<1> QED
  BY <1>2, <1>3

\* A packet of slot s is taken off, the exit of its test put behind, or none, and
\* then a part for each of its pipes.
LEMMA TailQueue ==
    ASSUME iocp \in Seq(Packets), iocp # <<>>, NEW s \in Slots, NEW f, Parts(f, s),
           NEW F, \A j \in Pipes : f[j] # <<>> => <<s, j>> \in F,
           NEW t \in Tests, NEW E \in SUBSET {t}, NEW e, e = ExitPackets(E),
           Touched(Packet, F, E),
           iocp' = Tail(iocp) \o e \o f["out"] \o f["err"] \o f["status"]
    PROVE  /\ QueueStep(F, E) /\ iocp' \in Seq(Packets)
           /\ t \in E /\ NoneOf(iocp, ExitOf(t)) => OneOf(iocp', ExitOf(t), ExitOf(t))
           /\ \A j \in Pipes :
                 /\ NoneOf(Tail(iocp), Io(s, j)) /\ f[j] = <<>> => NoneOf(iocp', Io(s, j))
                 /\ \A Y : /\ NoneOf(Tail(iocp), Io(s, j)) /\ OneOf(f[j], Io(s, j), Y)
                                => OneOf(iocp', Io(s, j), Y)
                           /\ OneOf(Tail(iocp), Io(s, j), Y) /\ f[j] = <<>>
                                => OneOf(iocp', Io(s, j), Y)
<1>1. /\ e \in Seq(Packets)
      /\ \A i \in 1..Len(e) : t \in E /\ e[i] \in ExitOf(t)
      /\ t \in E => OneOf(e, ExitOf(t), ExitOf(t))
  BY ExitsMade
<1>2. PICK q : q = Tail(iocp)
  OBVIOUS
<1>3. q \in Seq(Packets)
  BY <1>2, TailPlaces
<1>4. PICK p : p = Glue(q, e)
  OBVIOUS
<1>5. PICK r : r = Glue(Glue(f["out"], f["err"]), f["status"])
  OBVIOUS
<1>6. p \in Seq(Packets) /\ p = q \o e /\ f \in [Pipes -> Seq(Packets)]
  BY <1>1, <1>3, <1>4, GlueTwo DEF Glue, Parts
<1>7. Pipes = {"out", "err", "status"} /\ "out" # "err" /\ "out" # "status" /\ "err" # "status"
  BY ThreePipes
<1>8. ThreeOf(r, f, "out", "err", "status")
  BY <1>5, Zenon DEF ThreeOf, Glue
<1>9. iocp' = Glue(p, r)
  <2>1. f["out"] \in Seq(Packets) /\ f["err"] \in Seq(Packets) /\ f["status"] \in Seq(Packets)
    BY <1>6, <1>7
  <2>2. iocp' = Glue(Glue(Glue(Glue(q, e), f["out"]), f["err"]), f["status"])
    BY <1>2, Zenon DEF Glue
  <2>3. Glue(Glue(Glue(p, f["out"]), f["err"]), f["status"])
           = Glue(p, Glue(Glue(f["out"], f["err"]), f["status"]))
    <3> DEFINE x == f["out"]
               y == f["err"]
               z == f["status"]
    <3> HIDE DEF x, y, z
    <3>1. x \in Seq(Packets) /\ y \in Seq(Packets) /\ z \in Seq(Packets)
      BY <2>1 DEF x, y, z
    <3>2. Glue(Glue(Glue(p, x), y), z) = Glue(p, Glue(Glue(x, y), z))
      <4>1. p \in Seq(Packets)
        BY <1>6
      <4> QED
        BY <3>1, <4>1, GlueThree
    <3> QED
      BY <3>2, Zenon DEF x, y, z
  <2> QED
    BY <1>4, <1>5, <2>2, <2>3, Zenon
<1>10. Glued(iocp', p, r)
  BY <1>9, Zenon DEF Glued, Glue
<1>11. iocp' \in Seq(Packets) /\ r \in Seq(Packets) /\ BehindBy(iocp', p, r, f, s)
  BY <1>6, <1>7, <1>8, <1>10, PartsBehind
<1>12. \A j \in Pipes : NoneOf(e, Io(s, j))
  BY <1>1, PacketsApart DEF NoneOf
<1>13. \A j \in Pipes :
          /\ NoneOf(q, Io(s, j)) => NoneOf(p, Io(s, j))
          /\ \A Y : OneOf(q, Io(s, j), Y) => OneOf(p, Io(s, j), Y)
  BY <1>1, <1>3, <1>6, <1>12, GluedBehind
<1>14. \A j \in Pipes :
          /\ NoneOf(q, Io(s, j)) /\ f[j] = <<>> => NoneOf(iocp', Io(s, j))
          /\ \A Y : /\ NoneOf(q, Io(s, j)) /\ OneOf(f[j], Io(s, j), Y)
                         => OneOf(iocp', Io(s, j), Y)
                    /\ OneOf(q, Io(s, j), Y) /\ f[j] = <<>>
                         => OneOf(iocp', Io(s, j), Y)
  BY <1>11, <1>13 DEF BehindBy
<1>15. \A i \in 1..Len(r) : Touched(r[i], F, {}) /\ r[i] \notin ExitOf(t)
  <2>1. \A i \in 1..Len(r) : Touched(r[i], F, {})
    BY <1>11 DEF BehindBy
  <2>2. \A x : Touched(x, F, {}) => x \notin ExitOf(t)
    BY PacketSets DEF Touched
  <2> QED
    BY <2>1, <2>2
<1>16. ASSUME t \in E, NoneOf(iocp, ExitOf(t))
       PROVE  OneOf(iocp', ExitOf(t), ExitOf(t))
  <2>1. NoneOf(q, ExitOf(t))
    BY <1>2, <1>16, TailNone
  <2>2. OneOf(p, ExitOf(t), ExitOf(t))
    BY <1>1, <1>3, <1>6, <1>16, <2>1, GluedBehind
  <2>3. NoneOf(r, ExitOf(t))
    BY <1>15 DEF NoneOf
  <2>4. iocp' = p \o r
    BY <1>9, Zenon DEF Glue
  <2> QED
    BY <1>6, <1>11, <2>2, <2>3, <2>4, GluedBehind
<1>17. QueueStep(F, E)
  <2>1. PICK x : x = Glue(e, r)
    OBVIOUS
  <2>2. x \in Seq(Packets) /\ iocp' = Glue(q, x)
    BY <1>1, <1>3, <1>4, <1>9, <1>11, <2>1, GlueTwo
  <2>3. iocp' = q \o x /\ x = e \o r
    BY <2>1, <2>2, Zenon DEF Glue
  <2>4. \A i \in 1..Len(e) : Touched(e[i], F, E)
    BY <1>1, PacketSets DEF Touched
  <2>5. \A i \in 1..Len(r) : Touched(r[i], F, E)
    BY <1>15 DEF Touched
  <2>6. \A i \in 1..Len(x) : Touched(x[i], F, E)
    BY <1>1, <1>11, <2>3, <2>4, <2>5, ConcatItem
  <2>7. q = iocp \/ (iocp # <<>> /\ q = Tail(iocp) /\ Touched(Packet, F, E))
    BY <1>2
  <2> QED
    BY <1>3, <2>2, <2>3, <2>6, <2>7, Zenon DEF QueueStep
<1> QED
  BY <1>2, <1>11, <1>14, <1>16, <1>17

\* The append fails: the slot is spoilt, its process terminated, its other two
\* pipes are cancelled.
LEMMA AppendRight ==
    ASSUME StateTypes, AllRight, Apart, AppendFails
    PROVE  StateTypes' /\ AllRight'
<1>1. /\ pc = "start" /\ pc' \in {"start", "check"} /\ iocp # <<>> /\ Packet.what = "data"
      /\ Run.ov[Packet.pipe] = "connected" /\ "memory" \in Faults /\ ReportNone
      /\ UNCHANGED <<pipe, wrote, overdue, started, running, fork_failed,
                     log_setup_failed, reconnected>>
  BY DEF AppendFails, Dequeue, Return
<1>2. Packet.what # "exit"
  BY <1>1
<1>3. PICK s \in Slots, k \in Pipes : s = Packet.slot /\ k = Packet.pipe
  BY <1>1, <1>2, PacketRight
<1>4. /\ runs[s].ov[k] = "connected" /\ runs[s] \in Slot /\ runs \in [Slots -> Slot]
      /\ io \in [Slots -> [Pipes -> End]] /\ iocp \in Seq(Packets)
  BY <1>1, <1>3 DEF Run, StateTypes
<1>5. s \in Active /\ runs[s].active /\ TestOf(s) \in Tests
      /\ Packet \in Io(s, k) /\ NoneOf(Tail(iocp), Io(s, k)) /\ io[s][k].listening = 0
  <2>1. runs[s].active
    BY <1>1, <1>2, <1>3, <1>4, PacketRight
  <2>2. Packet \in Io(s, k) /\ NoneOf(Tail(iocp), Io(s, k)) /\ io[s][k].listening = 0
    BY <1>1, <1>2, <1>3, PacketRight
  <2> QED
    BY <2>1, <2>2, ActiveTest DEF Active, StateTypes, TestOf
<1> DEFINE ov == [j \in Pipes |-> IF j \in Pipes \ {k} THEN "cancelling" ELSE "idle"]
           new == [runs[s] EXCEPT !.read_too_much = TRUE, !.ov = ov]
           end == [j \in Pipes |-> IF j \in Pipes \ {k} THEN Cancelled(io[s][j])
                                   ELSE Disconnected(io[s][j])]
           f == [j \in Pipes |-> CancelOther(j)]
<1>t. PICK t \in Tests : t = TestOf(s)
  BY <1>5
<1>6. /\ runs' = [runs EXCEPT ![s] = new] /\ io' = [io EXCEPT ![s] = end]
      /\ TerminateAll(HandleOf(runs[s]))
      /\ \E E \in SUBSET {u \in HandleOf(runs[s]) : u \notin jobExits} :
            /\ jobExits' = jobExits \union E
            /\ iocp' = Tail(iocp) \o ExitPackets(E) \o f["out"] \o f["err"] \o f["status"]
  <2>1. /\ f["out"] = CancelOther("out") /\ f["err"] = CancelOther("err")
        /\ f["status"] = CancelOther("status")
    BY ThreePipes
  <2> HIDE DEF f
  <2> QED
    BY <1>3, <2>1 DEF AppendFails, Run
<1>7. ov \in [Pipes -> PipeStates] /\ ov[k] = "idle"
      /\ \A j \in Pipes \ {k} : ov[j] = "cancelling"
  BY <1>3 DEF PipeStates
<1>8. /\ new \in Slot /\ new.active = runs[s].active /\ new.test = runs[s].test
      /\ new.handle = runs[s].handle /\ new.state = runs[s].state
      /\ new.timed_out = runs[s].timed_out /\ new.read_too_much /\ new.ov = ov
  <2> HIDE DEF ov
  <2>1. \A e \in Slot : [e EXCEPT !.read_too_much = TRUE, !.ov = ov] \in Slot
    BY <1>7 DEF Slot
  <2>2. new \in Slot
    BY <1>4, <2>1
  <2> QED
    BY <1>4, <2>2 DEF Slot
<1> HIDE DEF ov, new
<1>9. \A j \in Pipes : /\ PipeRight(s, j) /\ io[s][j] \in End
                       /\ \/ io[s][j].listening = 0
                          \/ io[s][j].listening = 1 /\ ~io[s][j].reading
  <2>1. \A j \in Pipes : PipeRight(s, j) /\ io[s][j] \in End
    BY <1>3, <1>4 DEF AllRight
  <2> QED
    BY <2>1 DEF PipeRight
<1>10. /\ end \in [Pipes -> End] /\ ~end[k].open
       /\ \A j \in Pipes : end[j].listening = 0 /\ ~end[j].reading
  <2>1. ASSUME NEW j \in Pipes
        PROVE  /\ end[j] \in End /\ end[j].listening = 0 /\ ~end[j].reading
               /\ j = k => ~end[j].open
    <3>1. end[j] = IF j \in Pipes \ {k} THEN Cancelled(io[s][j]) ELSE Disconnected(io[s][j])
      OBVIOUS
    <3> HIDE DEF end
    <3> QED
      BY <1>3, <1>5, <1>9, <3>1, CancelEnds
  <2> QED
    BY <1>3, <2>1
<1>11. \A j \in Pipes : /\ f[j] \in Seq(Packets) /\ \A i \in 1..Len(f[j]) : f[j][i] \in Io(s, j)
                        /\ j # k /\ (io[s][j].reading \/ io[s][j].listening = 1)
                              => OneOf(f[j], Io(s, j), IoOf(s, j, {"aborted"}))
                        /\ j = k \/ (~io[s][j].reading /\ io[s][j].listening = 0) => f[j] = <<>>
  <2> SUFFICES ASSUME NEW j \in Pipes
               PROVE  /\ f[j] \in Seq(Packets) /\ \A i \in 1..Len(f[j]) : f[j][i] \in Io(s, j)
                      /\ j # k /\ (io[s][j].reading \/ io[s][j].listening = 1)
                            => OneOf(f[j], Io(s, j), IoOf(s, j, {"aborted"}))
                      /\ j = k \/ (~io[s][j].reading /\ io[s][j].listening = 0) => f[j] = <<>>
    OBVIOUS
  <2>1. f[j] = IF j = k THEN <<>> ELSE CancelPackets(s, j, io[s][j])
    BY <1>3 DEF CancelOther
  <2> HIDE DEF f
  <2>2. CASE j = k
    BY <2>1, <2>2
  <2>3. CASE j # k
    <3>1. PICK x : x = CancelPackets(s, j, io[s][j])
      OBVIOUS
    <3>2. PICK c \in BOOLEAN : c <=> (io[s][j].reading \/ io[s][j].listening = 1)
      OBVIOUS
    <3>3. /\ x \in Seq(Packets) /\ \A i \in 1..Len(x) : x[i] \in Io(s, j)
          /\ c => x # <<>> /\ OneOf(x, Io(s, j), IoOf(s, j, {"aborted"}))
          /\ ~c => x = <<>>
      BY <1>9, <3>1, <3>2, CancelMade
    <3>4. f[j] = x
      BY <1>9, <2>1, <2>3, <3>1, <3>2
    <3> QED
      BY <1>9, <2>3, <3>2, <3>3, <3>4
  <2> QED
    BY <2>2, <2>3
<1> DEFINE F == {<<s, j>> : j \in Pipes}
<1>12. Parts(f, s) /\ \A j \in Pipes : <<s, j>> \in F
  BY <1>11 DEF Parts
<1> HIDE DEF F, f, end
<1>13. PICK E : /\ E \in SUBSET {t} /\ jobExits' = jobExits \union E
                /\ t \in E => runs[s].handle /\ t \notin jobExits
                /\ iocp' = Tail(iocp) \o ExitPackets(E) \o f["out"] \o f["err"] \o f["status"]
  BY <1>6, <1>t DEF HandleOf, TestOf
<1>14. /\ \A r, j : <<r, j>> \in F => r = s
       /\ QueueStep(F, E) /\ iocp' \in Seq(Packets)
       /\ t \in E /\ NoneOf(iocp, ExitOf(t)) => OneOf(iocp', ExitOf(t), ExitOf(t))
       /\ \A j \in Pipes :
             /\ NoneOf(Tail(iocp), Io(s, j)) /\ f[j] = <<>> => NoneOf(iocp', Io(s, j))
             /\ \A Y : /\ NoneOf(Tail(iocp), Io(s, j)) /\ OneOf(f[j], Io(s, j), Y)
                            => OneOf(iocp', Io(s, j), Y)
                       /\ OneOf(Tail(iocp), Io(s, j), Y) /\ f[j] = <<>>
                            => OneOf(iocp', Io(s, j), Y)
  <2>1. Touched(Packet, F, E)
    BY <1>2, <1>3, <1>12 DEF Touched
  <2>2. \A r, j : <<r, j>> \in F => r = s
    BY DEF F
  <2>3. PICK e : e = ExitPackets(E)
    OBVIOUS
  <2>4. iocp' = Tail(iocp) \o e \o f["out"] \o f["err"] \o f["status"]
    BY <1>13, <2>3
  <2>5. t \in Tests /\ \A j \in Pipes : f[j] # <<>> => <<s, j>> \in F
    BY <1>12
  <2> QED
    BY <1>1, <1>3, <1>4, <1>12, <1>13, <2>1, <2>2, <2>3, <2>4, <2>5, TailQueue
<1>15. /\ runs' \in [Slots -> Slot] /\ runs'[s] = new
       /\ \A r \in Slots \ {s} : runs'[r] = runs[r]
  BY <1>3, <1>4, <1>6, <1>8
<1>16. /\ io' \in [Slots -> [Pipes -> End]] /\ io'[s] = end
       /\ \A r \in Slots \ {s} : io'[r] = io[r]
  BY <1>3, <1>4, <1>6, <1>10
<1>17. /\ proc' \in [Tests -> Process] /\ \A u \in Tests : ProcStep(u)
       /\ \A u \in Tests : u \notin HandleOf(runs[s]) => proc'[u] = proc[u]
  BY <1>6, TerminateType
<1>18. StateTypes'
  <2>1. \A r \in Slots : runs'[r].test = runs[r].test /\ (runs'[r].active => runs[r].active)
    BY <1>8, <1>15
  <2>2. /\ running' \in Int
        /\ report' \in [Tests -> Seq(Verdict)] /\ tally' \in [Outcomes -> Nat]
        /\ any_failed' \in BOOLEAN /\ finished' \in Nat
    BY <1>1 DEF ReportNone, StateTypes
  <2>3. pipe' \in [Tests -> Contents]
    BY <1>1 DEF StateTypes
  <2>4. jobExits' \subseteq 0..NTests
    <3>1. jobExits \subseteq 0..NTests /\ t \in 0..NTests
      BY TestsAssumption DEF StateTypes
    <3> QED
      BY <1>13, <3>1
  <2> QED
    BY <1>1, <1>14, <1>15, <1>16, <1>17, <2>1, <2>2, <2>3, <2>4, HandledTypes
<1>19. \A r \in Active \ {s} : /\ TestOf(r) \in Tests /\ proc'[TestOf(r)] = proc[TestOf(r)]
                               /\ TestOf(r) \notin E
                               /\ TestOf(r) \in jobExits' <=> TestOf(r) \in jobExits
  <2>1. \A r \in Active \ {s} : TestOf(r) \in Tests /\ TestOf(r) # TestOf(s)
    BY <1>5, ActiveTest DEF Apart, StateTypes, TestOf
  <2> QED
    BY <1>13, <1>17, <1>t, <2>1 DEF HandleOf, TestOf
<1>20. PipesGrow
  BY <1>1, PipesStay
<1>21. SlotStep(s)
  <2>1. \A r \in Slots \ {s} : SlotKept(r)
    BY <1>15, <1>19 DEF SlotKept, Active
  <2>2. \A r \in Active \ {s} : \A j \in Pipes :
            Len(pipe[TestOf(r)][j]) <= Len(pipe'[TestOf(r)][j])
    BY <1>19, <1>20 DEF PipesGrow
  <2> QED
    BY <1>1, <1>15, <1>16, <1>17, <1>19, <2>1, <2>2 DEF SlotStep
<1>22. \A r \in Slots \ {s} : SlotRight(r)' /\ \A j \in Pipes : PipeRight(r, j)'
  BY <1>3, <1>14, <1>18, <1>19, <1>21, OthersRight
<1>23. SlotRight(s)'
  <2>1. SlotKept(s) /\ SlotRight(s) /\ ExitRight(s)
    BY <1>3, <1>5, <1>8, <1>15 DEF SlotKept, AllRight, SlotRight
  <2>2. \A j \in Pipes : runs'[s].ov[j] \in {"idle", "cancelling"}
    BY <1>7, <1>8, <1>15
  <2>3. CASE t \notin E
    <3>1. TestOf(s) \in jobExits' <=> TestOf(s) \in jobExits
      BY <1>13, <1>t, <2>3
    <3>2. runs[s].active => /\ TestOf(s) \notin E /\ ProcStep(TestOf(s))
                            /\ TestOf(s) \in jobExits' <=> TestOf(s) \in jobExits
      BY <1>17, <1>t, <2>3, <3>1
    <3>3. \A j \in Pipes :
             \/ /\ runs'[s].ov[j] = runs[s].ov[j] /\ <<s, j>> \notin F
                /\ io'[s][j].listening = io[s][j].listening
             \/ runs'[s].ov[j] = "idle"
             \/ runs'[s].ov[j] \in {"connected", "cancelling"} /\ runs[s].active
      BY <1>5, <2>2
    <3>4. (pc = "done" => pc' = "done")
          /\ (fork_failed \/ log_setup_failed => fork_failed' \/ log_setup_failed')
      BY <1>1
    <3> QED
      BY <1>3, <1>14, <2>1, <3>2, <3>3, <3>4, SlotRightKept
  <2>4. CASE t \in E
    <3>1. runs[s].handle /\ t \notin jobExits /\ t \in jobExits' /\ NoneOf(iocp, ExitOf(t))
      BY <1>13, <1>t, <2>1, <2>4 DEF ExitRight, TestOf
    <3>2. OneOf(iocp', ExitOf(t), ExitOf(t))
      BY <1>14, <2>4, <3>1
    <3>3. ~Alive(t)' /\ proc'[t].state \in {proc[t].state, "killed"}
      <4>1. t \in HandleOf(runs[s])
        BY <1>t, <3>1 DEF HandleOf, TestOf
      <4>2. PICK S : S = HandleOf(runs[s])
        OBVIOUS
      <4>3. TerminateAll(S) /\ t \in S
        BY <1>6, <4>1, <4>2
      <4> QED
        BY <4>3, TerminateType
    <3>4. /\ runs'[s].active /\ runs'[s].handle /\ runs'[s].test = t
          /\ runs'[s].read_too_much
      BY <1>5, <1>8, <1>15, <1>t, <3>1 DEF TestOf
    <3>5. \A j \in Pipes : ~Coming(s, j)'
      BY <2>2 DEF Coming
    <3>6. proc[t].state # "none" /\ proc'[t].state # "none"
      BY <1>t, <2>1, <3>3 DEF ExitRight, TestOf
    <3> QED
      BY <3>1, <3>2, <3>3, <3>4, <3>5, <3>6 DEF SlotRight, ExitRight
  <2> QED
    BY <2>3, <2>4
<1>24. ASSUME NEW j \in Pipes
       PROVE  PipeRight(s, j)'
  <2>1. CASE j = k
    <3>1. NoneOf(iocp', Io(s, k))
      BY <1>3, <1>5, <1>11, <1>14
    <3> QED
      BY <1>7, <1>8, <1>10, <1>15, <1>16, <2>1, <3>1 DEF PipeRight, Coming
  <2>2. CASE j # k
    <3>1. /\ runs'[s].ov[j] = "cancelling" /\ runs'[s].active
          /\ ~io'[s][j].reading /\ io'[s][j].listening = 0
      BY <1>5, <1>7, <1>8, <1>10, <1>15, <1>16, <2>2
    <3> DEFINE Y == IoOf(s, j, {"connected", "data", "broken", "aborted"})
    <3>2. OneOf(iocp', Io(s, j), Y) \/ NoneOf(iocp', Io(s, j))
      <4>1. Packet \notin Io(s, j)
        BY <1>5, <2>2, PacketsApart
      <4>2. \A Z \in SUBSET Io(s, j) : OneOf(iocp, Io(s, j), Z) => OneOf(Tail(iocp), Io(s, j), Z)
        BY <1>1, <1>4, <4>1, TailOther DEF Packet
      <4>3. NoneOf(iocp, Io(s, j)) => NoneOf(Tail(iocp), Io(s, j))
        BY <1>1, <1>4, TailNone
      <4>4. CASE io[s][j].reading \/ io[s][j].listening = 1
        <5>1. NoneOf(iocp, Io(s, j))
          BY <1>9, <4>4 DEF PipeRight
        <5>2. OneOf(iocp', Io(s, j), IoOf(s, j, {"aborted"}))
          <6>1. OneOf(f[j], Io(s, j), IoOf(s, j, {"aborted"}))
            BY <1>11, <2>2, <4>4
          <6>2. NoneOf(Tail(iocp), Io(s, j))
            BY <4>3, <5>1
          <6> QED
            BY <1>14, <6>1, <6>2
        <5>3. IoOf(s, j, {"aborted"}) \subseteq Y
          BY DEF IoOf
        <5> HIDE DEF Y
        <5> QED
          BY <5>2, <5>3 DEF OneOf
      <4>5. CASE ~io[s][j].reading /\ io[s][j].listening = 0
        <5>1. f[j] = <<>>
          BY <1>11, <4>5
        <5>2. OneOf(iocp, Io(s, j), Y) \/ NoneOf(iocp, Io(s, j))
          <6>1. runs[s].ov[j] \in PipeStates
            BY <1>4 DEF Slot
          <6>2. Len(pipe[runs[s].test][j]) \in Nat
            BY <1>5, PipeType DEF StateTypes, TestOf
          <6> QED
            BY <1>9, <4>5, <6>1, <6>2, NextPacket
        <5>3. Y \in SUBSET Io(s, j)
          BY PacketSets DEF PacketKinds
        <5> HIDE DEF Y
        <5> QED
          BY <1>14, <4>2, <4>3, <5>1, <5>2, <5>3
      <4> QED
        BY <1>9, <4>4, <4>5
    <3> QED
      BY <1>1, <3>1, <3>2 DEF PipeRight, Coming
  <2> QED
    BY <2>1, <2>2
<1>25. ASSUME NEW u \in Tests
       PROVE  TestRight(u)'
  <2>1. runs'[s].test = runs[s].test /\ runs'[s].active /\ started' = started
    BY <1>1, <1>5, <1>8, <1>15
  <2>2. u \in E => Held(u)'
    BY <1>3, <1>13, <1>t, <2>1 DEF Held, Active, TestOf
  <2>3. u \in jobExits' => u \in jobExits \/ u <= started
    <3>1. TestOf(s) <= started
      BY <1>5, ActiveTest DEF StateTypes, TestOf
    <3> QED
      BY <1>13, <1>t, <3>1
  <2> QED
    BY <1>3, <1>5, <1>14, <1>18, <1>21, <2>1, <2>2, <2>3, OtherTests
<1>26. "spawn" \notin Habits => NoneOf(iocp', ExitOf(0))
  <2>1. 0 \notin E
    BY <1>5, <1>13, TestsAssumption
  <2>2. Same(ExitOf(0))
    BY <1>4, <1>14, <2>1, QueueFrame
  <2> QED
    BY <2>2 DEF AllRight, Same
<1>27. AllRight'
  BY <1>22, <1>23, <1>24, <1>25, <1>26 DEF AllRight
<1> QED
  BY <1>18, <1>27
-----------------------------------------------------------------------------
(* The start of a test. *)

\* The slots but s, their tests and what they count on are left alone.
OthersKept(s) ==
    /\ \A r \in Slots \ {s} : runs'[r] = runs[r] /\ io'[r] = io[r]
    /\ \A r \in Active \ {s} : proc'[TestOf(r)] = proc[TestOf(r)]
    /\ pipe' = pipe /\ pc' = pc
    /\ fork_failed \/ log_setup_failed => fork_failed' \/ log_setup_failed'
    /\ jobExits' = jobExits

LEMMA NeighboursRight ==
    ASSUME StateTypes, StateTypes', AllRight, NEW s \in Slots, OthersKept(s),
           NEW F, QueueStep(F, {}), \A r, k : <<r, k>> \in F => r = s
    PROVE  \A r \in Slots \ {s} : SlotRight(r)' /\ \A k \in Pipes : PipeRight(r, k)'
<1> SUFFICES ASSUME NEW r \in Slots \ {s}
             PROVE  SlotRight(r)' /\ \A k \in Pipes : PipeRight(r, k)'
  OBVIOUS
<1>1. SlotRight(r) /\ runs'[r] = runs[r] /\ io'[r] = io[r] /\ pc' = pc
  BY DEF AllRight, OthersKept
<1>2. runs[r].active => proc'[TestOf(r)] = proc[TestOf(r)] /\ ProcStep(TestOf(r))
  BY DEF OthersKept, Active, ProcStep
<1>3. SlotKept(r)
  BY <1>1, <1>2 DEF SlotKept
<1>4. SlotRight(r)'
  <2>2. \A k \in Pipes : /\ runs'[r].ov[k] = runs[r].ov[k] /\ <<r, k>> \notin F
                         /\ io'[r][k].listening = io[r][k].listening
    BY <1>1
  <2>3. fork_failed \/ log_setup_failed => fork_failed' \/ log_setup_failed'
    BY DEF OthersKept
  <2>4. PICK E : E = {}
    OBVIOUS
  <2>5. QueueStep(F, E)
    BY <2>4
  <2>6. runs[r].active => /\ TestOf(r) \notin E /\ ProcStep(TestOf(r))
                          /\ TestOf(r) \in jobExits' <=> TestOf(r) \in jobExits
    BY <1>2, <2>4 DEF OthersKept
  <2> QED
    BY <1>1, <1>3, <2>2, <2>3, <2>5, <2>6, SlotRightKept
<1>5. ASSUME NEW k \in Pipes
      PROVE  PipeRight(r, k)'
  <2>1. PipeRight(r, k) /\ Same(Io(r, k))
    <3>1. <<r, k>> \notin F
      OBVIOUS
    <3> QED
      BY <3>1, QueueFrame DEF AllRight, StateTypes
  <2>2. runs[r].active => Len(pipe[TestOf(r)][k]) <= Len(pipe'[TestOf(r)][k])
    <3>1. runs[r].active => Len(pipe[TestOf(r)][k]) \in Nat
      <4>1. pipe \in [Tests -> Contents] /\ (runs[r].active => TestOf(r) \in Tests)
        BY ActiveTest DEF StateTypes, Active, TestOf
      <4>2. runs[r].active => \E x \in Seq(Item) : x = pipe[TestOf(r)][k]
        BY <4>1, PipeType
      <4> QED
        BY <4>2
    <3> QED
      BY <3>1 DEF OthersKept
  <2> QED
    BY <1>1, <2>1, <2>2, PipeKept
<1> QED
  BY <1>4, <1>5

\* A slot that tdo_run_new may take has nothing under way but, maybe, a connect
\* of its status pipe.
LEMMA UsableSlot ==
    ASSUME StateTypes, AllRight, NEW s \in Slots, Usable(runs[s])
    PROVE  /\ s \notin Active /\ ~runs[s].active /\ ~runs[s].handle
           /\ \A k \in Pipes : /\ NoneOf(iocp, Io(s, k)) /\ ~io[s][k].reading
                               /\ ~io[s][k].open
                               /\ io[s][k].listening = 0 => runs[s].ov[k] = "idle"
                               /\ io[s][k].listening # 0 =>
                                     k = "status" /\ runs[s].ov[k] = "waiting"
<1>1. ~runs[s].active /\ s \notin Active
  BY DEF Usable, Active
<1>2. FreeRight(s)
  BY <1>1 DEF AllRight, SlotRight
<1>3. \A k \in Pipes : runs[s].ov[k] = "idle" \/ io[s][k].listening # 0
  BY <1>2 DEF FreeRight, Usable
<1>4. \A k \in Pipes : PipeRight(s, k)
  BY DEF AllRight
<1> QED
  BY <1>1, <1>2, <1>3, <1>4 DEF PipeRight, FreeRight

\* The test that is to start is known to nobody.
LEMMA NextTest ==
    ASSUME StateTypes, AllRight, CanStart, NEW t, t = started + 1
    PROVE  /\ t \in Tests /\ started \in Nat /\ t \notin jobExits /\ proc[t].state = "none"
           /\ ~Held(t) /\ NoneOf(iocp, ExitOf(t))
           /\ \A r \in Active : TestOf(r) \in Tests /\ TestOf(r) # t
<1>1. t \in Tests /\ started \in Nat /\ t > started
  BY TestsAssumption DEF StateTypes, CanStart
<1>2. \A r \in Active : TestOf(r) \in Tests /\ TestOf(r) # t
  <2>1. \A r \in Active : TestOf(r) \in Tests /\ TestOf(r) <= started
    BY ActiveTest DEF StateTypes, TestOf
  <2> QED
    BY <1>1, <2>1
<1>3. ~Held(t)
  BY <1>2 DEF Held, TestOf
<1>4. TestRight(t)
  BY <1>1 DEF AllRight
<1> QED
  BY <1>1, <1>2, <1>3, <1>4 DEF TestRight

\* The packets of the clients that connect.
ClientParts(s, C) ==
    [k \in Pipes |-> IF k \in C THEN <<IoPacket(s, k, "connected", 0)>> ELSE <<>>]

\* Each client adds the packet of its connection.
ClientsAdd(f, s, C) ==
    /\ Parts(f, s) /\ ClientPackets(s, C) = f["out"] \o f["err"] \o f["status"]
    /\ \A k \in Pipes : k \in C => /\ f[k] # <<>>
                                   /\ OneOf(f[k], Io(s, k), IoOf(s, k, {"connected"}))
    /\ \A k \in Pipes : k \notin C => f[k] = <<>>

LEMMA ClientsMade ==
    ASSUME NEW s \in Slots, NEW C \in SUBSET Streams,
           \A k \in Streams : io[s][k].listening = 0,
           NEW f, f = ClientParts(s, C)
    PROVE  ClientsAdd(f, s, C)
<1>1. ASSUME NEW k \in Pipes
      PROVE  /\ f[k] \in Seq(Packets) /\ \A i \in 1..Len(f[k]) : f[k][i] \in Io(s, k)
             /\ k \in C => /\ f[k] # <<>>
                           /\ OneOf(f[k], Io(s, k), IoOf(s, k, {"connected"}))
             /\ k \notin C => f[k] = <<>>
  <2>1. f[k] = IF k \in C THEN <<IoPacket(s, k, "connected", 0)>> ELSE <<>>
    BY DEF ClientParts
  <2>2. "connected" \in PacketKinds /\ 0 \in Nat /\ "connected" \in {"connected"}
    BY DEF PacketKinds
  <2> QED
    BY <2>1, <2>2, PartMade
<1>2. Parts(f, s)
  <2>1. f \in [Pipes -> Seq(Packets)]
    BY <1>1 DEF ClientParts
  <2> QED
    BY <1>1, <2>1 DEF Parts
<1>3. ClientPackets(s, C) = f["out"] \o f["err"] \o f["status"]
  <2>1. \A k \in Streams : ConnectedPackets(s, k, io[s][k].listening + 1)
                              = <<IoPacket(s, k, "connected", 0)>>
    <3>1. \A k \in Streams : io[s][k].listening + 1 = 1
      OBVIOUS
    <3> QED
      BY <3>1, OneTimes DEF ConnectedPackets
  <2>2. "out" \in Pipes /\ "err" \in Pipes /\ "status" \in Pipes /\ "status" \notin C
        /\ "out" \in Streams /\ "err" \in Streams
    BY ThreePipes DEF Streams
  <2>3. ClientPackets(s, C) = f["out"] \o f["err"]
    BY <2>1, <2>2 DEF ClientPackets, ClientParts
  <2>4. f["status"] = <<>> /\ f["out"] \in Seq(Packets) /\ f["err"] \in Seq(Packets)
    BY <1>1, <2>2
  <2>5. PICK x \in Seq(Packets), y \in Seq(Packets) : x = f["out"] /\ y = f["err"]
    BY <2>4
  <2>6. (x \o y) \o <<>> = x \o y
    OBVIOUS
  <2> QED
    BY <2>3, <2>4, <2>5, <2>6
<1> QED
  BY <1>1, <1>2, <1>3 DEF ClientsAdd

\* A connect and its client leave nothing pending.
LEMMA ClientEnds ==
    ASSUME NEW end \in End, NEW t \in 0..NTests
    PROVE  /\ Listening(end) \in End /\ Listening(end).listening = end.listening + 1
           /\ Listening(end).reading = end.reading /\ Listening(end).client = end.client
           /\ Listening(end).open = end.open
           /\ Opened(Listening(end), t) \in End /\ Opened(Listening(end), t).listening = 0
           /\ Opened(Listening(end), t).reading = end.reading
           /\ Opened(Listening(end), t).client = t
<1>1. PICK n \in Nat : n = end.listening
  BY DEF End
<1>2. PICK mid : mid = Listening(end)
  OBVIOUS
<1>3. /\ mid \in End /\ mid.listening = end.listening + 1
      /\ mid.reading = end.reading /\ mid.client = end.client /\ mid.open = end.open
  BY <1>1, <1>2 DEF End, Listening
<1>4. Opened(mid, t) \in End /\ Opened(mid, t).listening = 0
  BY <1>3 DEF End, Opened
<1>5. Opened(mid, t).reading = mid.reading /\ Opened(mid, t).client = t
  BY <1>3 DEF End, Opened
<1> QED
  BY <1>2, <1>3, <1>4, <1>5

\* The slot of a test that has started.
StartedRun(s, t) ==
    [Prepared(s, t) EXCEPT !.active = TRUE, !.handle = TRUE, !.timed_out = FALSE,
                           !.read_too_much = FALSE, !.ov = [k \in Pipes |-> "waiting"]]

LEMMA StartedSlot ==
    ASSUME StateTypes, NEW s \in Slots, NEW t \in 0..NTests
    PROVE  /\ StartedRun(s, t) \in Slot /\ StartedRun(s, t).active
           /\ StartedRun(s, t).test = t /\ StartedRun(s, t).handle
           /\ StartedRun(s, t).log = EmptyPipes
           /\ \A k \in Pipes : StartedRun(s, t).ov[k] = "waiting"
<1>1. runs[s] \in Slot
  BY DEF StateTypes
<1>2. EmptyPipes \in Contents /\ [k \in Pipes |-> "waiting"] \in [Pipes -> PipeStates]
  BY DEF EmptyPipes, Contents, PipeStates
<1>3. "none" \in ProcessStates
  BY DEF ProcessStates
<1> QED
  BY <1>1, <1>2, <1>3 DEF StartedRun, Prepared, Slot

\* What StartNew does where no connect of the slot is pending: the output pipes have
\* their clients, the status pipe waits for its own.
LEMMA StartMade ==
    ASSUME StateTypes, AllRight, ~reconnected', CanStart, NEW s \in Slots, Usable(runs[s]),
           StartNew(s), NEW t, t = started + 1
    PROVE  /\ runs' \in [Slots -> Slot] /\ runs'[s] = StartedRun(s, t)
           /\ \A r \in Slots \ {s} : runs'[r] = runs[r] /\ io'[r] = io[r]
           /\ proc' \in [Tests -> Process] /\ proc'[t].state = "running"
           /\ \A u \in Tests \ {t} : proc'[u] = proc[u]
           /\ io' \in [Slots -> [Pipes -> End]]
           /\ \A k \in Pipes : io[s][k].listening = 0 /\ ~io'[s][k].reading
           /\ \A k \in Streams : io'[s][k].listening = 0 /\ io'[s][k].client = t
           /\ io'[s]["status"].listening = 1 /\ ~io'[s]["status"].open
           /\ iocp' = iocp \o ClientPackets(s, Streams)
<1>1. t \in Tests /\ t \in 0..NTests
  BY NextTest
<1>2. \A k \in Pipes : /\ io[s][k].listening = 0 /\ ~io[s][k].reading /\ ~io[s][k].open
                       /\ io[s][k] \in End
  <2>1. \A k \in Pipes : io[s][k] \in End
    BY DEF StateTypes
  <2>2. io[s]["status"].listening = 0
    <3>1. ~(io[s]["status"].listening > 0)
      BY ThreePipes DEF StartNew, Reconnect
    <3>2. io[s]["status"].listening \in Nat
      BY <2>1, ThreePipes DEF End
    <3> QED
      BY <3>1, <3>2
  <2> QED
    BY <2>1, <2>2, UsableSlot
<1>3. runs \in [Slots -> Slot] /\ io \in [Slots -> [Pipes -> End]] /\ proc \in [Tests -> Process]
  BY DEF StateTypes
<1>4. runs' = [runs EXCEPT ![s] = StartedRun(s, t)]
  BY Zenon DEF StartNew, StartedRun
<1>5. StartedRun(s, t) \in Slot
  BY <1>1, StartedSlot
<1>6. /\ io' = [io EXCEPT ![s] = Connect(s, t, Pipes, Streams)]
      /\ iocp' = iocp \o ClientPackets(s, Streams)
  BY DEF StartNew
<1>7. Connect(s, t, Pipes, Streams)
         = [k \in Pipes |-> IF k \in Streams THEN Opened(Listening(io[s][k]), t)
                            ELSE Listening(io[s][k])]
  BY DEF Connect
<1>8. \A k \in Pipes : /\ Opened(Listening(io[s][k]), t) \in End
                       /\ Opened(Listening(io[s][k]), t).listening = 0
                       /\ ~Opened(Listening(io[s][k]), t).reading
                       /\ Opened(Listening(io[s][k]), t).client = t
                       /\ Listening(io[s][k]) \in End /\ Listening(io[s][k]).listening = 1
                       /\ ~Listening(io[s][k]).reading /\ ~Listening(io[s][k]).open
  BY <1>1, <1>2, ClientEnds
<1>9. /\ io' \in [Slots -> [Pipes -> End]]
      /\ \A k \in Pipes : io'[s][k] = IF k \in Streams THEN Opened(Listening(io[s][k]), t)
                                      ELSE Listening(io[s][k])
      /\ \A r \in Slots \ {s} : io'[r] = io[r]
  BY <1>3, <1>6, <1>7, <1>8
<1>a. "status" \in Pipes /\ "status" \notin Streams /\ Streams \subseteq Pipes
  BY ThreePipes DEF Streams
<1>10. proc' = [proc EXCEPT ![t].state = "running"]
  BY DEF StartNew, Fork
<1>11. /\ proc' \in [Tests -> Process] /\ proc'[t].state = "running"
       /\ \A u \in Tests \ {t} : proc'[u] = proc[u]
  <2>1. [proc[t] EXCEPT !.state = "running"] \in Process
    BY <1>1, <1>3 DEF Process, ProcessStates
  <2>2. proc[t] \in Process
    BY <1>1, <1>3
  <2>3. [proc[t] EXCEPT !.state = "running"].state = "running"
    BY <2>2 DEF Process
  <2> QED
    BY <1>1, <1>3, <1>10, <2>1, <2>3
<1>12. /\ runs' \in [Slots -> Slot] /\ runs'[s] = StartedRun(s, t)
       /\ \A r \in Slots \ {s} : runs'[r] = runs[r]
  BY <1>3, <1>4, <1>5
<1> QED
  BY <1>2, <1>6, <1>8, <1>9, <1>11, <1>12, <1>a

LEMMA StartRight ==
    ASSUME StateTypes, AllRight, ~reconnected', pc = "start", CanStart, NEW s \in Slots,
           Usable(runs[s]), StartNew(s)
    PROVE  StateTypes' /\ AllRight' /\ Filled(s)
<1> DEFINE F == {s} \X Pipes
<1>1. PICK t : t = started + 1
  OBVIOUS
<1>2. /\ t \in Tests /\ started \in Nat /\ t \notin jobExits /\ proc[t].state = "none"
      /\ ~Held(t) /\ NoneOf(iocp, ExitOf(t))
      /\ \A r \in Active : TestOf(r) \in Tests /\ TestOf(r) # t
  BY <1>1, NextTest
<1>3. /\ s \notin Active /\ ~runs[s].active /\ ~runs[s].handle
      /\ \A k \in Pipes : NoneOf(iocp, Io(s, k))
  BY UsableSlot
<1>4. /\ runs' \in [Slots -> Slot] /\ runs'[s] = StartedRun(s, t)
      /\ \A r \in Slots \ {s} : runs'[r] = runs[r] /\ io'[r] = io[r]
      /\ proc' \in [Tests -> Process] /\ proc'[t].state = "running"
      /\ \A u \in Tests \ {t} : proc'[u] = proc[u]
      /\ io' \in [Slots -> [Pipes -> End]]
      /\ \A k \in Pipes : io[s][k].listening = 0 /\ ~io'[s][k].reading
      /\ \A k \in Streams : io'[s][k].listening = 0 /\ io'[s][k].client = t
      /\ io'[s]["status"].listening = 1 /\ ~io'[s]["status"].open
      /\ iocp' = iocp \o ClientPackets(s, Streams)
  BY <1>1, StartMade
<1>5. /\ runs'[s] \in Slot /\ runs'[s].active /\ runs'[s].test = t /\ runs'[s].handle
      /\ \A k \in Pipes : runs'[s].ov[k] = "waiting"
  BY <1>2, <1>4, StartedSlot
<1>6. /\ pipe' = pipe /\ wrote' = wrote /\ overdue' = overdue /\ pc' = pc /\ report' = report
      /\ finished' = finished /\ tally' = tally /\ fork_failed' = fork_failed
      /\ log_setup_failed' = log_setup_failed /\ any_failed' = any_failed
      /\ jobExits' = jobExits /\ reconnected' \in BOOLEAN /\ started' = started + 1 /\ running' = running + 1
  BY DEF StartNew, Reconnect, StateTypes
<1>7. PICK f : f = ClientParts(s, Streams)
  OBVIOUS
<1>8. /\ Parts(f, s) /\ ClientPackets(s, Streams) = f["out"] \o f["err"] \o f["status"]
      /\ \A k \in Streams : f[k] # <<>> /\ OneOf(f[k], Io(s, k), IoOf(s, k, {"connected"}))
      /\ f["status"] = <<>>
  <2>1. "status" \in Pipes /\ "status" \notin Streams /\ Streams \subseteq Pipes
    BY ThreePipes DEF Streams
  <2>2. \A k \in Streams : io[s][k].listening = 0
    BY <1>4, <2>1
  <2>3. ClientsAdd(f, s, Streams)
    BY <1>7, <2>2, ClientsMade
  <2> QED
    BY <2>1, <2>3 DEF ClientsAdd
<1>9. PICK q : q = ClientPackets(s, Streams)
  OBVIOUS
<1>10. iocp \in Seq(Packets)
  BY DEF StateTypes
<1>11. /\ iocp' \in Seq(Packets) /\ q \in Seq(Packets)
       /\ \A k \in Streams : OneOf(iocp', Io(s, k), IoOf(s, k, {"connected"}))
       /\ NoneOf(iocp', Io(s, "status"))
       /\ \A i \in 1..Len(q) : Touched(q[i], F, {})
  <2>1. Pipes = {"out", "err", "status"} /\ "out" # "err" /\ "out" # "status" /\ "err" # "status"
    BY ThreePipes
  <2>2. \A k \in Pipes : f[k] # <<>> => <<s, k>> \in F
    OBVIOUS
  <2>3. iocp' = iocp \o q /\ q = f["out"] \o f["err"] \o f["status"]
    BY <1>4, <1>8, <1>9
  <2> HIDE DEF F
  <2>4. /\ iocp' \in Seq(Packets) /\ q \in Seq(Packets)
        /\ \A k \in Pipes : \A Y : NoneOf(iocp, Io(s, k)) /\ OneOf(f[k], Io(s, k), Y)
                                     => OneOf(iocp', Io(s, k), Y)
        /\ \A k \in Pipes : NoneOf(iocp, Io(s, k)) /\ f[k] = <<>> => NoneOf(iocp', Io(s, k))
        /\ \A G : (\A k \in Pipes : f[k] # <<>> => <<s, k>> \in G)
                        => \A i \in 1..Len(q) : Touched(q[i], G, {})
    <3>1. ThreeOf(q, f, "out", "err", "status") /\ Glued(iocp', iocp, q)
      BY <2>3 DEF ThreeOf, Glued
    <3>2. iocp' \in Seq(Packets) /\ q \in Seq(Packets) /\ BehindBy(iocp', iocp, q, f, s)
      BY <1>8, <1>10, <2>1, <3>1, PartsBehind
    <3> QED
      BY <3>2 DEF BehindBy
  <2>5. "status" \in Pipes /\ Streams \subseteq Pipes
    BY ThreePipes
  <2> QED
    BY <1>3, <1>8, <2>2, <2>4, <2>5
<1>12. QueueStep(F, {})
  BY <1>4, <1>9, <1>10, <1>11, Zenon DEF QueueStep
<1>13. \A r, k : <<r, k>> \in F => r = s
  OBVIOUS
<1> HIDE DEF F
<1>14. StateTypes'
  <2>1. started' \in 0..NTests /\ running' \in Int
    BY <1>2, <1>6, <1>1 DEF StateTypes
  <2>2. \A r \in Active' : runs'[r].test \in 1..started'
    <3>1. \A r \in Slots : runs'[r].active => runs'[r].test \in 1..started'
      <4>1. ASSUME NEW r \in Slots \ {s}, runs'[r].active
            PROVE  runs'[r].test \in 1..started'
        <5>1. r \in Active
          BY <1>4, <4>1 DEF Active
        <5>2. runs[r].test \in Tests /\ runs[r].test <= started
          BY <5>1, ActiveTest DEF StateTypes
        <5> QED
          BY <1>2, <1>4, <1>6, <4>1, <5>2
      <4> QED
        BY <1>1, <1>2, <1>5, <1>6, <4>1
    <3> QED
      BY <3>1 DEF Active
  <2>3. LoopTypes'
    BY <1>4, <1>6, <2>1, <2>2 DEF StateTypes
  <2> QED
    BY <1>4, <1>6, <1>11, <2>3 DEF StateTypes
<1>15. \A r \in Slots \ {s} : SlotRight(r)' /\ \A k \in Pipes : PipeRight(r, k)'
  <2>1. OthersKept(s)
    BY <1>2, <1>4, <1>6 DEF OthersKept
  <2> QED
    BY <1>12, <1>13, <1>14, <2>1, NeighboursRight
<1>16. Same(ExitOf(t)) /\ Same(ExitOf(0)) /\ \A u : Same(ExitOf(u))
  BY <1>10, <1>12, QueueFrame
<1>17. SlotRight(s)'
  <2>1. NoneOf(iocp', ExitOf(t))
    BY <1>2, <1>16 DEF Same
  <2>2. \A k \in Pipes : Behind(iocp', Io(s, k), ExitOf(t))
    BY <2>1, NoneBehind
  <2>3. ExitRight(s)'
    BY <1>2, <1>4, <1>5, <1>6, <2>1, <2>2 DEF ExitRight
  <2> QED
    BY <1>5, <2>3 DEF SlotRight
<1>18. ASSUME NEW k \in Pipes
       PROVE  PipeRight(s, k)'
  <2>1. runs'[s].ov[k] = "waiting" /\ ~io'[s][k].reading
    BY <1>4, <1>5
  <2>2. CASE k \in Streams
    BY <1>4, <1>5, <1>11, <2>1, <2>2 DEF PipeRight, Coming
  <2>3. CASE k = "status"
    BY <1>4, <1>5, <1>11, <2>1, <2>3 DEF PipeRight, Coming
  <2> QED
    BY <2>2, <2>3, ThreePipes DEF Streams
<1>19. ASSUME NEW u \in Tests
       PROVE  TestRight(u)'
  <2>1. CASE u = t
    <3>1. Held(t)'
      BY <1>5 DEF Held, Active
    <3> QED
      BY <1>1, <1>2, <1>4, <1>6, <2>1, <3>1 DEF TestRight
  <2>2. CASE u # t
    <3>1. ProcStep(u)
      BY <1>4, <2>2 DEF ProcStep
    <3>2. Held(u) => Held(u)'
      <4>1. ASSUME NEW r \in Active, runs[r].test = u
            PROVE  Held(u)'
        BY <1>3, <1>4, <4>1 DEF Held, Active
      <4> QED
        BY <4>1 DEF Held
    <3>3. started <= started'
      BY <1>2, <1>6
    <3>4. PICK E : E = {}
      OBVIOUS
    <3>5. QueueStep(F, E) /\ u \notin E
      BY <1>12, <3>4
    <3> QED
      BY <1>6, <1>14, <3>1, <3>2, <3>3, <3>5, TestsKept
  <2> QED
    BY <2>1, <2>2
<1>20. "spawn" \notin Habits => NoneOf(iocp', ExitOf(0))
  BY <1>16 DEF AllRight, Same
<1>21. Filled(s)
  BY <1>1, <1>3, <1>4, <1>5, <1>6 DEF Filled
<1> QED
  BY <1>14, <1>15, <1>17, <1>18, <1>19, <1>20, <1>21 DEF AllRight

AllTouched(q, F) == \A i \in 1..Len(q) : Touched(q[i], F, {})

LEMMA GluedTouched ==
    ASSUME NEW q \in Seq(Packets), NEW r \in Seq(Packets), NEW b, Glued(b, q, r),
           NEW F, AllTouched(q, F), AllTouched(r, F)
    PROVE  AllTouched(b, F)
<1>1. ASSUME NEW i \in 1..Len(b)
      PROVE  (\E j \in 1..Len(q) : b[i] = q[j]) \/ (\E j \in 1..Len(r) : b[i] = r[j])
  <2>1. b = q \o r
    BY DEF Glued
  <2>2. i \in 1..Len(q \o r)
    BY <2>1
  <2>3. (\E j \in 1..Len(q) : (q \o r)[i] = q[j]) \/ (\E j \in 1..Len(r) : (q \o r)[i] = r[j])
    BY <2>2, ConcatItem
  <2> QED
    BY <2>1, <2>3
<1> QED
  BY <1>1 DEF AllTouched

\* Packets put behind the others in two rounds, one part a pipe in each.
TwoRounds(q, z, f, g, s) ==
    \A k \in Pipes :
        /\ NoneOf(q, Io(s, k)) /\ f[k] = <<>> /\ g[k] = <<>> => NoneOf(z, Io(s, k))
        /\ \A Y : NoneOf(q, Io(s, k)) /\ OneOf(f[k], Io(s, k), Y) /\ g[k] = <<>>
                    => OneOf(z, Io(s, k), Y)
        /\ \A Y : NoneOf(q, Io(s, k)) /\ f[k] = <<>> /\ OneOf(g[k], Io(s, k), Y)
                    => OneOf(z, Io(s, k), Y)

LEMMA TwoRoundsQueue ==
    ASSUME iocp \in Seq(Packets), NEW s \in Slots, NEW f, NEW g, Parts(f, s), Parts(g, s),
           NEW F, \A k \in Pipes : f[k] # <<>> \/ g[k] # <<>> => <<s, k>> \in F,
           NEW p, p = f["out"] \o f["err"] \o f["status"],
           iocp' = iocp \o p \o g["status"] \o g["err"] \o g["out"]
    PROVE  QueueStep(F, {}) /\ iocp' \in Seq(Packets) /\ TwoRounds(iocp, iocp', f, g, s)
<1>1. /\ Pipes = {"out", "err", "status"} /\ Pipes = {"status", "err", "out"}
      /\ "out" # "err" /\ "out" # "status" /\ "err" # "status"
  BY ThreePipes
<1>2. PICK z : z = iocp \o p
  OBVIOUS
<1>3. z \in Seq(Packets) /\ p \in Seq(Packets) /\ BehindBy(z, iocp, p, f, s)
  <2>1. ThreeOf(p, f, "out", "err", "status") /\ Glued(z, iocp, p)
    BY <1>2 DEF ThreeOf, Glued
  <2>2. iocp \in Seq(Packets) /\ Parts(f, s)
    OBVIOUS
  <2>3. /\ Pipes = {"out", "err", "status"}
        /\ "out" # "err" /\ "out" # "status" /\ "err" # "status"
    BY <1>1
  <2> QED
    BY <2>1, <2>2, <2>3, PartsBehind
<1>4. PICK r : r = g["status"] \o g["err"] \o g["out"]
  OBVIOUS
<1>5. g["status"] \in Seq(Packets) /\ g["err"] \in Seq(Packets) /\ g["out"] \in Seq(Packets)
  BY <1>1 DEF Parts
<1>6. iocp' = z \o r
  <2>1. Glue(Glue(Glue(z, g["status"]), g["err"]), g["out"])
          = Glue(z, Glue(Glue(g["status"], g["err"]), g["out"]))
    BY <1>3, <1>5, GlueThree
  <2>2. iocp' = Glue(Glue(Glue(z, g["status"]), g["err"]), g["out"])
    BY <1>2, Zenon DEF Glue
  <2>3. Glue(z, Glue(Glue(g["status"], g["err"]), g["out"])) = z \o r
    BY <1>4, Zenon DEF Glue
  <2> QED
    BY <2>1, <2>2, <2>3, Zenon
<1>7. PICK new : new = iocp'
  OBVIOUS
<1>8. new \in Seq(Packets) /\ r \in Seq(Packets) /\ BehindBy(new, z, r, g, s)
  <2>1. ThreeOf(r, g, "status", "err", "out") /\ Glued(new, z, r)
    BY <1>4, <1>6, <1>7 DEF ThreeOf, Glued
  <2> QED
    BY <1>1, <1>3, <2>1, PartsBehind
<1>9. PICK b : b = p \o r
  OBVIOUS
<1>10. b \in Seq(Packets) /\ new = iocp \o b
  <2>1. Glue(Glue(iocp, p), r) = Glue(iocp, Glue(p, r)) /\ Glue(p, r) \in Seq(Packets)
    BY <1>3, <1>8, GlueTwo
  <2>2. new = Glue(Glue(iocp, p), r)
    BY <1>2, <1>6, <1>7, Zenon DEF Glue
  <2>3. Glue(iocp, Glue(p, r)) = iocp \o b /\ Glue(p, r) = b
    BY <1>9, Zenon DEF Glue
  <2> QED
    BY <2>1, <2>2, <2>3, Zenon
<1>11. ASSUME NEW i \in 1..Len(b)
       PROVE  Touched(b[i], F, {})
  <2>1. AllTouched(p, F) /\ AllTouched(r, F)
    BY <1>3, <1>8 DEF BehindBy, AllTouched
  <2>2. Glued(b, p, r)
    BY <1>9 DEF Glued
  <2>3. AllTouched(b, F)
    BY <1>3, <1>8, <2>1, <2>2, GluedTouched
  <2> QED
    BY <2>3 DEF AllTouched
<1>12. QueueStep(F, {})
  <2>1. iocp' = iocp \o b
    BY <1>7, <1>10
  <2> QED
    BY <1>10, <1>11, <2>1, Zenon DEF QueueStep
<1>13. TwoRounds(iocp, new, f, g, s)
  BY <1>3, <1>8 DEF TwoRounds, BehindBy
<1> QED
  BY <1>7, <1>8, <1>12, <1>13

\* The packets of what is cancelled when a start fails.
CancelParts(s, S) ==
    [k \in Pipes |-> IF k \in S THEN <<IoPacket(s, k, "aborted", 0)>> ELSE <<>>]

LEMMA AbortsMade ==
    ASSUME NEW s \in Slots, NEW S
    PROVE  /\ Parts(CancelParts(s, S), s)
           /\ \A k \in Pipes : k \in S =>
                 /\ CancelParts(s, S)[k] # <<>>
                 /\ OneOf(CancelParts(s, S)[k], Io(s, k), IoOf(s, k, {"aborted"}))
           /\ \A k \in Pipes : k \notin S => CancelParts(s, S)[k] = <<>>
<1>1. ASSUME NEW k \in Pipes
      PROVE  /\ CancelParts(s, S)[k] \in Seq(Packets)
             /\ \A i \in 1..Len(CancelParts(s, S)[k]) : CancelParts(s, S)[k][i] \in Io(s, k)
             /\ k \in S =>
                   /\ CancelParts(s, S)[k] # <<>>
                   /\ OneOf(CancelParts(s, S)[k], Io(s, k), IoOf(s, k, {"aborted"}))
             /\ k \notin S => CancelParts(s, S)[k] = <<>>
  <2>1. CancelParts(s, S)[k] = IF k \in S THEN <<IoPacket(s, k, "aborted", 0)>> ELSE <<>>
    BY DEF CancelParts
  <2>2. "aborted" \in PacketKinds /\ 0 \in Nat /\ "aborted" \in {"aborted"}
    BY DEF PacketKinds
  <2> QED
    BY <2>1, <2>2, PartMade
<1>2. CancelParts(s, S) \in [Pipes -> Seq(Packets)]
  BY <1>1 DEF CancelParts
<1> QED
  BY <1>1, <1>2 DEF Parts

\* The slot of a test that could not be started.
FailedRun(s, t, K) ==
    [Prepared(s, t) EXCEPT !.ov = [k \in Pipes |-> IF k \in K THEN "cancelling"
                                                  ELSE IF K = Streams THEN "idle" ELSE @[k]]]

LEMMA FailedSlot ==
    ASSUME StateTypes, NEW s \in Slots, NEW t \in 0..NTests, NEW K, ~runs[s].active,
           K = Streams => \A k \in Pipes : runs[s].ov[k] = "idle"
    PROVE  /\ FailedRun(s, t, K) \in Slot /\ ~FailedRun(s, t, K).active
           /\ ~FailedRun(s, t, K).handle
           /\ \A k \in Pipes : FailedRun(s, t, K).ov[k]
                                  = IF k \in K THEN "cancelling" ELSE runs[s].ov[k]
<1>1. runs[s] \in Slot
  BY DEF StateTypes
<1>2. EmptyPipes \in Contents /\ "none" \in ProcessStates
  BY DEF EmptyPipes, Contents, ProcessStates
<1>3. PICK p : p = Prepared(s, t)
  OBVIOUS
<1>4. /\ p \in Slot /\ p.ov = runs[s].ov /\ ~p.active /\ ~p.handle
  BY <1>1, <1>2, <1>3 DEF Prepared, Slot
<1>5. PICK ov : ov = [k \in Pipes |-> IF k \in K THEN "cancelling"
                                      ELSE IF K = Streams THEN "idle" ELSE p.ov[k]]
  OBVIOUS
<1>6. \A k \in Pipes : /\ ov[k] = IF k \in K THEN "cancelling" ELSE runs[s].ov[k]
                       /\ ov[k] \in PipeStates
  BY <1>1, <1>4, <1>5 DEF PipeStates, Slot
<1>7. ov \in [Pipes -> PipeStates]
  BY <1>5, <1>6
<1>8. FailedRun(s, t, K) = [p EXCEPT !.ov = ov]
  BY <1>3, <1>5 DEF FailedRun
<1>9. /\ [p EXCEPT !.ov = ov] \in Slot /\ [p EXCEPT !.ov = ov].ov = ov
      /\ [p EXCEPT !.ov = ov].active = p.active /\ [p EXCEPT !.ov = ov].handle = p.handle
  BY <1>4, <1>7 DEF Slot
<1> QED
  BY <1>4, <1>6, <1>8, <1>9

\* The end of a pipe whose start failed.
FailedEnd(end, k, K, C) ==
    IF k \in C THEN Cancelled([Opened(Listening(end), 0) EXCEPT !.open = FALSE])
    ELSE IF k \in K THEN Cancelled([Listening(end) EXCEPT !.open = FALSE]) ELSE end

LEMMA FailedEnds ==
    ASSUME NEW end \in End, ~end.reading, NEW k, NEW K, NEW C \in SUBSET K
    PROVE  /\ FailedEnd(end, k, K, C) \in End /\ ~FailedEnd(end, k, K, C).reading
           /\ k \in K => /\ FailedEnd(end, k, K, C).listening = 0
                         /\ ~FailedEnd(end, k, K, C).open
           /\ k \notin K => FailedEnd(end, k, K, C) = end
<1>1. \A e \in End : /\ Cancelled([e EXCEPT !.open = FALSE]) \in End
                     /\ Cancelled([e EXCEPT !.open = FALSE]).listening = 0
                     /\ ~Cancelled([e EXCEPT !.open = FALSE]).reading
                     /\ ~Cancelled([e EXCEPT !.open = FALSE]).open
  <2>1. \A e \in End : [e EXCEPT !.open = FALSE] \in End /\ ~[e EXCEPT !.open = FALSE].open
    BY DEF End
  <2> QED
    BY <2>1, CancelEnds
<1>2. Listening(end) \in End /\ Opened(Listening(end), 0) \in End
  <2>1. 0 \in 0..NTests
    BY TestsAssumption
  <2> QED
    BY <2>1, ClientEnds
<1> QED
  BY <1>1, <1>2 DEF FailedEnd

FailDone(s, K, C, g) ==
    /\ runs' = [runs EXCEPT ![s] = FailedRun(s, started + 1, K)]
    /\ io' = [io EXCEPT ![s] = [k \in Pipes |-> FailedEnd(io[s][k], k, K, C)]]
    /\ iocp' = iocp \o ClientPackets(s, C) \o g["status"] \o g["err"] \o g["out"]

LEMMA FailMade ==
    ASSUME StateTypes, AllRight, CanStart, NEW s \in Slots, Usable(runs[s]),
           NEW K \in SUBSET Pipes, NEW C \in SUBSET K, StartFailsAt(s, K, C),
           \A k \in K : io[s][k].listening = 0,
           NEW g, g = CancelParts(s, K \ C)
    PROVE  FailDone(s, K, C, g)
<1> DEFINE end == Connect(s, 0, K, C)
<1>1. runs' = [runs EXCEPT ![s] = FailedRun(s, started + 1, K)]
  BY Zenon DEF StartFailsAt, FailedRun
<1>2. \A k \in Pipes : io[s][k] \in End /\ ~io[s][k].reading
  BY UsableSlot DEF StateTypes
<1>3. \A k \in Pipes : end[k] = IF k \in C THEN Opened(Listening(io[s][k]), 0)
                                ELSE IF k \in K THEN Listening(io[s][k]) ELSE io[s][k]
  BY DEF Connect
<1>4. io' = [io EXCEPT ![s] = [k \in Pipes |-> IF k \in K
                        THEN Cancelled([end[k] EXCEPT !.open = FALSE]) ELSE end[k]]]
  BY DEF StartFailsAt
<1>5. \A k \in Pipes : FailedEnd(io[s][k], k, K, C)
        = IF k \in K THEN Cancelled([end[k] EXCEPT !.open = FALSE]) ELSE end[k]
  BY <1>3 DEF FailedEnd
<1>6. ASSUME NEW k \in Pipes
      PROVE  g[k] = IF k \in K THEN CancelPackets(s, k, end[k]) ELSE <<>>
  <2>1. g[k] = IF k \in K /\ k \notin C THEN <<IoPacket(s, k, "aborted", 0)>> ELSE <<>>
    BY DEF CancelParts
  <2>2. CASE k \in C
    <3>1. end[k].listening = 0 /\ ~end[k].reading
      <4>1. 0 \in 0..NTests
        BY TestsAssumption
      <4> QED
        BY <1>2, <1>3, <2>2, <4>1, ClientEnds
    <3>2. end[k].listening + (IF end[k].reading THEN 1 ELSE 0) = 0
      BY <3>1
    <3>3. CancelPackets(s, k, end[k]) = <<>>
      BY <3>2, OneTimes DEF CancelPackets
    <3> QED
      BY <2>1, <2>2, <3>3
  <2>3. CASE k \in K \ C
    <3>1. end[k].listening = 1 /\ ~end[k].reading
      <4>1. 0 \in 0..NTests
        BY TestsAssumption
      <4>2. io[s][k].listening + 1 = 1
        BY <2>3
      <4> QED
        BY <1>2, <1>3, <2>3, <4>1, <4>2, ClientEnds
    <3>2. end[k].listening + (IF end[k].reading THEN 1 ELSE 0) = 1
      BY <3>1
    <3>3. CancelPackets(s, k, end[k]) = <<IoPacket(s, k, "aborted", 0)>>
      BY <3>2, OneTimes DEF CancelPackets
    <3> QED
      BY <2>1, <2>3, <3>3
  <2> QED
    BY <2>1, <2>2, <2>3
<1>7. iocp' = iocp \o ClientPackets(s, C) \o g["status"] \o g["err"] \o g["out"]
  <2> DEFINE cancels(k) == IF k \in K THEN CancelPackets(s, k, end[k]) ELSE <<>>
  <2>1. iocp' = iocp \o ClientPackets(s, C)
                        \o cancels("status") \o cancels("err") \o cancels("out")
    BY Zenon DEF StartFailsAt
  <2>2. /\ g["status"] = cancels("status") /\ g["err"] = cancels("err")
        /\ g["out"] = cancels("out")
    BY <1>6, ThreePipes
  <2> HIDE DEF cancels
  <2> QED
    BY <2>1, <2>2, Zenon
<1>8. [k \in Pipes |-> FailedEnd(io[s][k], k, K, C)]
        = [k \in Pipes |-> IF k \in K
                        THEN Cancelled([end[k] EXCEPT !.open = FALSE]) ELSE end[k]]
  <2> HIDE DEF end
  <2> QED
    BY <1>5
<1>9. io' = [io EXCEPT ![s] = [k \in Pipes |-> FailedEnd(io[s][k], k, K, C)]]
  <2> HIDE DEF end
  <2> QED
    BY <1>4, <1>8
<1> QED
  BY <1>1, <1>7, <1>9 DEF FailDone

LEMMA FailRight ==
    ASSUME StateTypes, AllRight, pc = "start", CanStart, NEW s \in Slots, Usable(runs[s]),
           NEW K \in SUBSET Pipes, NEW C \in SUBSET K, StartFailsAt(s, K, C),
           C \in SUBSET Streams, "status" \in K => K = Pipes,
           Reconnect(s, K), ~reconnected',
           fork_failed' \in BOOLEAN, log_setup_failed' \in BOOLEAN,
           fork_failed' \/ log_setup_failed',
           UNCHANGED <<childVars, pc, report, finished, running, tally, any_failed,
                       jobExits, started>>
    PROVE  /\ StateTypes' /\ AllRight'
           /\ ~runs[s].active /\ ~runs'[s].active
           /\ \A r \in Slots \ {s} : runs'[r] = runs[r]
<1> DEFINE F == {s} \X Pipes
<1>1. PICK g : g = CancelParts(s, K \ C)
  OBVIOUS
<1>2. PICK f : f = ClientParts(s, C)
  OBVIOUS
<1>3. /\ s \notin Active /\ ~runs[s].active /\ ~runs[s].handle
      /\ \A k \in Pipes : /\ NoneOf(iocp, Io(s, k)) /\ ~io[s][k].reading
                          /\ ~io[s][k].open /\ io[s][k] \in End
                          /\ io[s][k].listening = 0 => runs[s].ov[k] = "idle"
                          /\ io[s][k].listening # 0 =>
                                k = "status" /\ runs[s].ov[k] = "waiting"
  BY UsableSlot DEF StateTypes
<1>a. /\ \A k \in Streams : k \in Pipes /\ io[s][k].listening = 0
      /\ Streams \subseteq K => \A k \in Pipes : io[s][k].listening = 0
      /\ \A k \in K : io[s][k].listening = 0
      /\ K = Streams => \A k \in Pipes : runs[s].ov[k] = "idle"
  <2>1. Streams \subseteq Pipes /\ "status" \notin Streams /\ Pipes = Streams \union {"status"}
    BY DEF Pipes, Streams
  <2>2. \A k \in Streams : k \in Pipes /\ io[s][k].listening = 0
    BY <1>3, <2>1
  <2>3. Streams \subseteq K => io[s]["status"].listening = 0
    <3>1. io[s]["status"].listening \in Nat
      BY <1>3, <2>1 DEF End
    <3> QED
      BY <3>1 DEF Reconnect
  <2>4. \A k \in Pipes : k \in Streams \/ k = "status"
    BY <2>1
  <2>5. Streams \subseteq K => \A k \in Pipes : io[s][k].listening = 0
    BY <2>2, <2>3, <2>4
  <2>6. \A k \in K : io[s][k].listening = 0
    BY <2>1, <2>2, <2>4, <2>5
  <2> QED
    BY <1>3, <2>2, <2>5, <2>6
<1>4. /\ runs' = [runs EXCEPT ![s] = FailedRun(s, started + 1, K)]
      /\ io' = [io EXCEPT ![s] = [k \in Pipes |-> FailedEnd(io[s][k], k, K, C)]]
      /\ iocp' = iocp \o ClientPackets(s, C) \o g["status"] \o g["err"] \o g["out"]
  <2>1. FailDone(s, K, C, g)
    BY <1>1, <1>a, FailMade
  <2> QED
    BY <2>1 DEF FailDone
<1>5. runs \in [Slots -> Slot] /\ io \in [Slots -> [Pipes -> End]] /\ iocp \in Seq(Packets)
  BY DEF StateTypes
<1>6. /\ FailedRun(s, started + 1, K) \in Slot /\ ~FailedRun(s, started + 1, K).active
      /\ ~FailedRun(s, started + 1, K).handle
      /\ \A k \in Pipes : FailedRun(s, started + 1, K).ov[k]
                             = IF k \in K THEN "cancelling" ELSE runs[s].ov[k]
  <2>1. started + 1 \in 0..NTests
    BY NextTest
  <2> QED
    BY <1>3, <1>a, <2>1, FailedSlot
<1>7. /\ runs' \in [Slots -> Slot] /\ ~runs'[s].active /\ ~runs'[s].handle
      /\ \A k \in Pipes : runs'[s].ov[k] = IF k \in K THEN "cancelling" ELSE runs[s].ov[k]
      /\ \A r \in Slots \ {s} : runs'[r] = runs[r]
  BY <1>4, <1>5, <1>6
<1>8. /\ io' \in [Slots -> [Pipes -> End]]
      /\ \A k \in Pipes : /\ ~io'[s][k].reading
                          /\ k \in K => io'[s][k].listening = 0 /\ ~io'[s][k].open
                          /\ k \notin K => io'[s][k] = io[s][k]
      /\ \A r \in Slots \ {s} : io'[r] = io[r]
  <2>1. \A k \in Pipes : /\ FailedEnd(io[s][k], k, K, C) \in End
                         /\ ~FailedEnd(io[s][k], k, K, C).reading
                         /\ k \in K => /\ FailedEnd(io[s][k], k, K, C).listening = 0
                                       /\ ~FailedEnd(io[s][k], k, K, C).open
                         /\ k \notin K => FailedEnd(io[s][k], k, K, C) = io[s][k]
    BY <1>3, FailedEnds
  <2> QED
    BY <1>4, <1>5, <2>1
<1>9. ClientsAdd(f, s, C)
  BY <1>2, <1>a, ClientsMade
<1>10. /\ Parts(g, s)
       /\ \A k \in Pipes : k \in K \ C => OneOf(g[k], Io(s, k), IoOf(s, k, {"aborted"}))
       /\ \A k \in Pipes : k \notin K \ C => g[k] = <<>>
  BY <1>1, AbortsMade
<1>11. QueueStep(F, {}) /\ iocp' \in Seq(Packets) /\ TwoRounds(iocp, iocp', f, g, s)
  <2>1. \A k \in Pipes : f[k] # <<>> \/ g[k] # <<>> => <<s, k>> \in F
    OBVIOUS
  <2>2. PICK p : p = ClientPackets(s, C)
    OBVIOUS
  <2>3. p = f["out"] \o f["err"] \o f["status"]
    BY <1>9, <2>2 DEF ClientsAdd
  <2>4. iocp' = iocp \o p \o g["status"] \o g["err"] \o g["out"]
    BY <1>4, <2>2
  <2>5. Parts(f, s)
    BY <1>9 DEF ClientsAdd
  <2> HIDE DEF F
  <2> QED
    BY <1>5, <1>10, <2>1, <2>3, <2>4, <2>5, TwoRoundsQueue
<1>12. \A r, k : <<r, k>> \in F => r = s
  OBVIOUS
<1> HIDE DEF F
<1>13. ASSUME NEW k \in Pipes
       PROVE  /\ k \in C => OneOf(iocp', Io(s, k), IoOf(s, k, {"connected"}))
              /\ k \in K \ C => OneOf(iocp', Io(s, k), IoOf(s, k, {"aborted"}))
              /\ k \notin K => NoneOf(iocp', Io(s, k))
  <2>1. /\ k \in C => g[k] = <<>> /\ OneOf(f[k], Io(s, k), IoOf(s, k, {"connected"}))
        /\ k \in K \ C => f[k] = <<>> /\ OneOf(g[k], Io(s, k), IoOf(s, k, {"aborted"}))
        /\ k \notin K => f[k] = <<>> /\ g[k] = <<>>
    BY <1>9, <1>10 DEF ClientsAdd
  <2> QED
    BY <1>3, <1>11, <2>1 DEF TwoRounds
<1>14. StateTypes'
  <2>1. \A r \in Active' : runs'[r].test \in 1..started'
    <3>1. \A r \in Active' : r \in Active /\ runs'[r] = runs[r]
      BY <1>7 DEF Active
    <3> QED
      BY <3>1 DEF StateTypes
  <2>2. LoopTypes'
    BY <2>1 DEF StateTypes, childVars
  <2>3. pc' = pc /\ jobExits' = jobExits
    OBVIOUS
  <2>4. reconnected' \in BOOLEAN
    BY Zenon DEF Reconnect
  <2> QED
    BY <1>7, <1>8, <1>11, <2>2, <2>3, <2>4 DEF StateTypes
<1>15. \A r \in Slots \ {s} : SlotRight(r)' /\ \A k \in Pipes : PipeRight(r, k)'
  <2>1. OthersKept(s)
    BY <1>7, <1>8 DEF OthersKept, childVars
  <2> QED
    BY <1>11, <1>12, <1>14, <2>1, NeighboursRight
<1>16. SlotRight(s)'
  <2>1. \A k \in Pipes \ K : \/ runs'[s].ov[k] = "idle"
                             \/ runs'[s].ov[k] = "waiting" /\ io'[s][k].listening # 0
    BY <1>3, <1>7, <1>8
  <2>2. \A k \in K : runs'[s].ov[k] = "cancelling"
    BY <1>7
  <2> QED
    BY <1>7, <2>1, <2>2 DEF SlotRight, FreeRight
<1>17. ASSUME NEW k \in Pipes
       PROVE  PipeRight(s, k)'
  <2>1. CASE k \in K
    <3> DEFINE V == {"connected", "data", "broken", "aborted"}
    <3>1. \/ OneOf(iocp', Io(s, k), IoOf(s, k, {"connected"}))
          \/ OneOf(iocp', Io(s, k), IoOf(s, k, {"aborted"}))
      BY <1>13, <2>1
    <3>2. {"connected"} \in SUBSET V /\ {"aborted"} \in SUBSET V
      OBVIOUS
    <3> HIDE DEF V
    <3>3. OneOf(iocp', Io(s, k), IoOf(s, k, V))
      BY <3>1, <3>2, WiderPackets
    <3>4. OneOf(iocp', Io(s, k), IoOf(s, k, {"connected", "data", "broken", "aborted"}))
      BY <3>3 DEF V
    <3>5. runs'[s].ov[k] = "cancelling" /\ io'[s][k].listening = 0 /\ ~io'[s][k].reading
      BY <1>7, <1>8, <2>1
    <3> QED
      BY <3>4, <3>5 DEF PipeRight, Coming
  <2>2. CASE k \notin K
    <3>1. runs'[s].ov[k] = runs[s].ov[k] /\ NoneOf(iocp', Io(s, k)) /\ io'[s][k] = io[s][k]
      BY <1>7, <1>8, <1>13, <2>2
    <3>2. PipeRight(s, k)
      BY DEF AllRight
    <3>3. CASE io[s][k].listening = 0
      <4>1. runs'[s].ov[k] = "idle" /\ ~io'[s][k].open /\ ~io'[s][k].reading
        BY <1>3, <3>1, <3>3
      <4> QED
        BY <3>1, <3>3, <4>1 DEF PipeRight, Coming
    <3>4. CASE io[s][k].listening # 0
      <4>1. runs'[s].ov[k] = "waiting" /\ ~io'[s][k].open /\ ~io'[s][k].reading
            /\ k = "status" /\ io'[s][k].listening = 1
        BY <1>3, <3>1, <3>2, <3>4 DEF PipeRight
      <4> QED
        BY <3>1, <4>1 DEF PipeRight, Coming
    <3> QED
      BY <3>3, <3>4
  <2> QED
    BY <2>1, <2>2
<1>18. ASSUME NEW u \in Tests
       PROVE  TestRight(u)'
  <2>1. ProcStep(u)
    BY DEF ProcStep, childVars
  <2>2. Held(u) => Held(u)'
    <3>1. ASSUME NEW r \in Active, runs[r].test = u
          PROVE  Held(u)'
      BY <1>3, <1>7, <3>1 DEF Held, Active
    <3> QED
      BY <3>1 DEF Held
  <2>3. started <= started' /\ jobExits' = jobExits
    BY DEF StateTypes
  <2>4. PICK E : E = {}
    OBVIOUS
  <2>5. QueueStep(F, E) /\ u \notin E
    BY <1>11, <2>4
  <2> QED
    BY <1>14, <2>1, <2>2, <2>3, <2>5, TestsKept
<1>19. "spawn" \notin Habits => NoneOf(iocp', ExitOf(0))
  <2>1. Same(ExitOf(0))
    BY <1>5, <1>11, QueueFrame
  <2> QED
    BY <2>1 DEF AllRight, Same
<1> QED
  BY <1>3, <1>7, <1>14, <1>15, <1>16, <1>17, <1>18, <1>19 DEF AllRight
-----------------------------------------------------------------------------
(* What the loop counts. *)

\* A step that starts no test and reports none: counters, results and what the
\* slots hold stay.
Calm == /\ UNCHANGED <<started, finished, running, tally, any_failed, report>>
        /\ \A s \in Slots : /\ runs'[s].active = runs[s].active
                            /\ runs[s].active => runs'[s].test = runs[s].test
        /\ pc' = pc \/ (pc = "start" /\ pc' # "done")
        /\ pc' = "aborted" => pc = "aborted" \/ "spawn" \in Habits

\* A test is reported and its slot free.
Releases == /\ pc = "start" /\ pc' = "check"
            /\ \E s \in Active, result \in Verdict : Released(s, result)

\* The next test takes a free slot.
Starts == /\ pc = "start" /\ pc' = pc /\ CanStart /\ UNCHANGED <<tally, any_failed>>
          /\ \E s \in Slots : Filled(s)

LEMMA SettleMoves ==
    ASSUME StateTypes, AllRight, pc = "start", NEW s \in Active, NEW run \in Slot,
           run.test = runs[s].test, run.active = runs[s].active, SettleReport(run),
           MayReport(run) => \A granted \in Granted : RunVerdict(run, granted) \in Verdict,
           \A r \in Slots : /\ runs'[r].active = Settled(s, run)[r].active
                            /\ runs'[r].test = Settled(s, run)[r].test,
           Return, started' = started
    PROVE  Calm \/ Releases
<1>1. /\ s \in Slots /\ runs[s].active /\ runs[s].test \in Tests /\ run.active
      /\ finished \in Nat
  BY ActiveTest DEF Active, StateTypes
<1>2. /\ \A r \in Slots \ {s} : Settled(s, run)[r] = runs[r]
      /\ \A r \in Slots : Settled(s, run)[r].test = runs[r].test
      /\ Settled(s, run)[s].active = (run.active /\ ~MayReport(run))
  BY <1>1, SettledSlots
<1>3. /\ \A r \in Slots \ {s} : runs'[r].active = runs[r].active
      /\ \A r \in Slots : runs'[r].test = runs[r].test
      /\ runs'[s].active = (run.active /\ ~MayReport(run))
  BY <1>1, <1>2
<1>4. CASE MayReport(run)
  <2>0. PICK granted \in Granted : ReportAll({runs[s].test}, RunVerdict(run, granted))
    BY <1>4 DEF SettleReport, ReportRun
  <2>1. ReportAll({runs[s].test}, RunVerdict(run, granted)) /\ running' = running - 1
        /\ RunVerdict(run, granted) \in Verdict
    BY <1>4, <2>0 DEF SettleReport
  <2>2. Released(s, RunVerdict(run, granted))
    BY <1>1, <1>3, <1>4, <2>1 DEF Released
  <2>3. finished' = finished + 1
    <3>1. Cardinality({runs[s].test}) = 1
      BY FS_Singleton
    <3> QED
      BY <2>1, <3>1 DEF ReportAll
  <2>4. pc' = "check"
    BY <1>1, <2>3 DEF Return
  <2> QED
    BY <1>4, <2>2, <2>4 DEF Releases
<1>5. CASE ~MayReport(run)
  <2>1. ReportNone /\ running' = running
    BY <1>5 DEF SettleReport
  <2>2. \A r \in Slots : runs'[r].active = runs[r].active
    BY <1>1, <1>3, <1>5
  <2>3. pc' \in {"start", "check"}
    BY DEF Return
  <2> QED
    BY <1>3, <2>1, <2>2, <2>3 DEF Calm, ReportNone
<1> QED
  BY <1>4, <1>5

LEMMA ReadMoves ==
    ASSUME StateTypes, AllRight, pc = "start", NEW s \in Active, NEW k \in Pipes,
           s = Packet.slot, k = Packet.pipe, NEW run \in Slot, OwnLike(run, runs[s]),
           NEW left, ReadNext(run, left), Return, started' = started
    PROVE  Calm \/ Releases
<1>1. s \in Slots /\ runs \in [Slots -> Slot]
  BY DEF Active, StateTypes
<1>2. CASE left = <<>> /\ ~io[s][k].open
  <2> DEFINE new == Moved(run, k, "idle")
  <2>1. SettleReport(new) /\ runs' = Settled(s, new)
    BY <1>2 DEF ReadNext, Settle, Moved
  <2>2. new \in Slot /\ OwnLike(new, runs[s])
    <3>1. "idle" \in PipeStates
      BY DEF PipeStates
    <3> QED
      BY <3>1, MovedSlot
  <2> HIDE DEF new
  <2>3. MayReport(new) => \A granted \in Granted : RunVerdict(new, granted) \in Verdict
    BY <2>2, SettlesOr
  <2>4. new.test = runs[s].test /\ new.active = runs[s].active
    BY <2>2 DEF OwnLike
  <2> QED
    BY <2>1, <2>2, <2>3, <2>4, SettleMoves
<1>3. CASE ~(left = <<>> /\ ~io[s][k].open)
  <2>1. runs' = [runs EXCEPT ![s] = run] /\ ReportNone /\ running' = running
    BY <1>3 DEF ReadNext
  <2>2. \A r \in Slots : runs'[r].active = runs[r].active /\ runs'[r].test = runs[r].test
    BY <1>1, <2>1 DEF OwnLike
  <2>3. pc' \in {"start", "check"}
    BY DEF Return
  <2> QED
    BY <2>1, <2>2, <2>3 DEF Calm, ReportNone
<1> QED
  BY <1>2, <1>3

LEMMA ConnectedMoves ==
    ASSUME StateTypes, AllRight, ConnectedDequeued
    PROVE  Calm \/ Releases
<1>1. /\ pc = "start" /\ iocp # <<>> /\ Packet.what # "exit" /\ Return /\ started' = started
      /\ Run.ov[Packet.pipe] = "waiting" /\ ReadNext(With("connected"), InPipe)
  BY DEF ConnectedDequeued, WaitingDequeued, Dequeue
<1>2. PICK s \in Slots, k \in Pipes : s = Packet.slot /\ k = Packet.pipe
  BY <1>1, PacketRight
<1>3. runs[s].ov[k] = "waiting" /\ runs[s] \in Slot
  BY <1>1, <1>2 DEF Run, StateTypes
<1>4. s \in Active
  BY <1>1, <1>2, <1>3, PacketRight DEF Active
<1> DEFINE run == Moved(runs[s], k, "connected")
<1>5. With("connected") = run
  BY <1>2 DEF With, Run, Moved
<1>6. run \in Slot /\ OwnLike(run, runs[s])
  <2>1. "connected" \in PipeStates
    BY DEF PipeStates
  <2> QED
    BY <1>2, <1>3, <2>1, MovedSlot, OwnSlot
<1>7. PICK left : left = InPipe
  OBVIOUS
<1>8. ReadNext(run, left)
  BY <1>1, <1>5, <1>7
<1> HIDE DEF run
<1> QED
  BY <1>1, <1>2, <1>4, <1>6, <1>8, ReadMoves

LEMMA DataMoves ==
    ASSUME StateTypes, AllRight, DataDequeued
    PROVE  Calm \/ Releases
<1>1. /\ pc = "start" /\ iocp # <<>> /\ Packet.what = "data" /\ Return /\ started' = started
      /\ Run.ov[Packet.pipe] = "connected"
  BY DEF DataDequeued, Dequeue
<1>2. Packet.what # "exit"
  BY <1>1
<1>3. PICK s \in Slots, k \in Pipes : s = Packet.slot /\ k = Packet.pipe
  BY <1>1, <1>2, PacketRight
<1>4. runs[s].ov[k] = "connected" /\ runs[s] \in Slot
  BY <1>1, <1>3 DEF Run, StateTypes
<1>5. /\ runs[s].active /\ io[s][k].client = runs[s].test
      /\ Packet.n \in 0..Len(pipe[runs[s].test][k])
  BY <1>1, <1>2, <1>3, <1>4, PacketRight
<1>6. s \in Active /\ runs[s].test \in Tests
  BY <1>3, <1>5, ActiveTest DEF Active, StateTypes
<1>7. PICK q \in Seq(Item) : q = pipe[TestOf(s)][k]
  BY <1>6, PipeType DEF StateTypes, TestOf
<1>8. InPipe = q
  BY <1>3, <1>5, <1>6, <1>7 DEF InPipe, Client, TestOf
<1>9. PICK n \in 0..Len(q) : n = Packet.n
  BY <1>5, <1>7 DEF TestOf
<1>10. PICK read \in Seq(Item), left \in Seq(Item) :
         read = SubSeq(q, 1, n) /\ left = SubSeq(q, n + 1, Len(q))
  BY Pieces
<1> DEFINE run == Logged(runs[s], k, read)
<1>11. ReadNext(run, left)
  BY <1>3, <1>8, <1>9, <1>10 DEF DataDequeued, Run, Logged
<1>12. run \in Slot /\ OwnLike(run, runs[s])
  BY <1>4, LoggedSlot
<1> HIDE DEF run
<1> QED
  BY <1>1, <1>3, <1>6, <1>11, <1>12, ReadMoves

LEMMA QuietMoves ==
    ASSUME UNCHANGED parentVars
    PROVE  Calm
  BY DEF parentVars, statusVars, Calm

LEMMA FailedMoves ==
    ASSUME StateTypes, AllRight, FailedDequeued
    PROVE  Calm \/ Releases
<1>1. /\ pc = "start" /\ iocp # <<>> /\ Packet.what # "exit" /\ Return /\ started' = started
  BY DEF FailedDequeued, Dequeue
<1>2. PICK s \in Slots, k \in Pipes : s = Packet.slot /\ k = Packet.pipe
  BY <1>1, PacketRight
<1>3. runs[s] \in Slot /\ runs \in [Slots -> Slot]
  BY <1>2 DEF StateTypes
<1> DEFINE new == Moved(runs[s], k, "idle")
<1>4. With("idle") = new
  BY <1>2 DEF With, Run, Moved
<1>5. new \in Slot /\ OwnLike(new, runs[s])
  <2>1. "idle" \in PipeStates
    BY DEF PipeStates
  <2> QED
    BY <1>2, <1>3, <2>1, MovedSlot, OwnSlot
<1> HIDE DEF new
<1>6. CASE WasCancelled
  <2>1. ReportNone /\ running' = running /\ Enforce([runs EXCEPT ![s] = new])
    BY <1>2, <1>4, <1>6 DEF FailedDequeued
  <2>2. PICK rs : rs = [runs EXCEPT ![s] = new]
    OBVIOUS
  <2>3. /\ rs \in [Slots -> Slot] /\ rs[s] = new /\ \A r \in Slots \ {s} : rs[r] = runs[r]
        /\ Enforce(rs)
    BY <1>2, <1>3, <1>5, <2>1, <2>2
  <2>4. \A r \in Slots : rs[r].test = runs[r].test /\ rs[r].active = runs[r].active
    BY <1>5, <2>3 DEF OwnLike
  <2>5. \A r \in Slots : Alike(runs'[r], rs[r])
    BY <2>3, <2>4, EnforceSlots
  <2>6. \A r \in Slots : runs'[r].active = runs[r].active /\ runs'[r].test = runs[r].test
    BY <2>4, <2>5 DEF Alike
  <2>7. pc' \in {"start", "check"}
    BY <1>1 DEF Return
  <2> QED
    BY <1>1, <2>1, <2>6, <2>7 DEF Calm, ReportNone
<1>7. CASE ~WasCancelled
  <2>1. SettleReport(new) /\ Enforce(Settled(s, new))
    BY <1>2, <1>4, <1>7 DEF FailedDequeued
  <2>2. runs[s].ov[k] # "cancelling"
    BY <1>2, <1>7 DEF WasCancelled, Run
  <2>3. s \in Active /\ pc # "done"
    BY <1>1, <1>2, <2>2, PacketRight DEF Active
  <2>4. /\ Settled(s, new) \in [Slots -> Slot]
        /\ \A r \in Slots : Settled(s, new)[r].test = runs[r].test
    BY <1>2, <1>5, SettledLike
  <2>5. \A r \in Slots : Alike(runs'[r], Settled(s, new)[r])
    BY <2>1, <2>4, EnforceSlots
  <2>6. MayReport(new) => \A granted \in Granted : RunVerdict(new, granted) \in Verdict
    BY <1>5, <2>3, SettlesOr
  <2>7. \A r \in Slots : /\ runs'[r].active = Settled(s, new)[r].active
                         /\ runs'[r].test = Settled(s, new)[r].test
    BY <2>5 DEF Alike
  <2>8. new.test = runs[s].test /\ new.active = runs[s].active
    BY <1>5 DEF OwnLike
  <2> QED
    BY <1>1, <1>5, <2>1, <2>3, <2>6, <2>7, <2>8, SettleMoves
<1> QED
  BY <1>6, <1>7

LEMMA ExitMoves ==
    ASSUME StateTypes, AllRight, ExitDequeued
    PROVE  Calm \/ Releases
<1>1. /\ pc = "start" /\ iocp # <<>> /\ Packet.what = "exit" /\ Return /\ started' = started
  BY DEF ExitDequeued, Dequeue
<1>2. PICK s \in Active : runs[s].test = Packet.test /\ Settle(s, EndedRun(s))
  BY DEF ExitDequeued, EndedRun
<1>3. s \in Slots /\ runs[s].active /\ runs[s].active \in BOOLEAN
  BY DEF Active, StateTypes, Slot
<1>4. TestOf(s) \in jobExits
  BY <1>1, <1>2, ExitPacketRight DEF TestOf
<1>5. PICK run : run = EndedRun(s)
  OBVIOUS
<1>6. /\ run \in Slot /\ run.active /\ run.test = runs[s].test
      /\ \A granted \in Granted : RunVerdict(run, granted) \in Verdict
  BY <1>1, <1>4, <1>5, EndedSlot
<1>7. run.active = runs[s].active
  BY <1>3, <1>6 DEF Slot
<1>8. SettleReport(run) /\ runs' = Settled(s, run)
  BY <1>2, <1>5 DEF Settle
<1>9. \A r \in Slots : /\ runs'[r].active = Settled(s, run)[r].active
                       /\ runs'[r].test = Settled(s, run)[r].test
  BY <1>8
<1> QED
  BY <1>1, <1>6, <1>7, <1>8, <1>9, SettleMoves

LEMMA CancelledMoves ==
    ASSUME StateTypes, AllRight, CancelledDequeued
    PROVE  Calm
<1>1. /\ pc = "start" /\ iocp # <<>> /\ Packet.what # "exit" /\ Return /\ started' = started
      /\ runs' = [runs EXCEPT ![Packet.slot] = With("idle")] /\ ReportNone
      /\ running' = running
  BY DEF CancelledDequeued, Dequeue
<1>2. PICK s \in Slots, k \in Pipes : s = Packet.slot /\ k = Packet.pipe
  BY <1>1, PacketRight
<1>3. runs[s] \in Slot /\ runs \in [Slots -> Slot]
  BY <1>2 DEF StateTypes
<1> DEFINE new == Moved(runs[s], k, "idle")
<1>4. With("idle") = new
  BY <1>2 DEF With, Run, Moved
<1>5. OwnLike(new, runs[s])
  <2>1. "idle" \in PipeStates
    BY DEF PipeStates
  <2> QED
    BY <1>2, <1>3, <2>1, MovedSlot, OwnSlot
<1> HIDE DEF new
<1>6. \A r \in Slots : runs'[r].active = runs[r].active /\ runs'[r].test = runs[r].test
  BY <1>1, <1>2, <1>3, <1>4, <1>5 DEF OwnLike
<1>7. pc' \in {"start", "check"}
  BY <1>1 DEF Return
<1> QED
  BY <1>1, <1>6, <1>7 DEF Calm, ReportNone

LEMMA AppendMoves ==
    ASSUME StateTypes, AllRight, AppendFails
    PROVE  Calm
<1>1. /\ pc = "start" /\ iocp # <<>> /\ Packet.what # "exit" /\ Return /\ started' = started
      /\ ReportNone /\ running' = running
  BY DEF AppendFails, Dequeue
<1>2. PICK s \in Slots, k \in Pipes : s = Packet.slot /\ k = Packet.pipe
  BY <1>1, PacketRight
<1>3. runs[s] \in Slot /\ runs \in [Slots -> Slot]
  BY <1>2 DEF StateTypes
<1>4. PICK ov : ov = [j \in Pipes |-> IF j \in Pipes \ {k} THEN "cancelling" ELSE "idle"]
  OBVIOUS
<1>5. runs' = [runs EXCEPT ![s] = [runs[s] EXCEPT !.read_too_much = TRUE, !.ov = ov]]
  BY <1>2, <1>4 DEF AppendFails, Run
<1>6. \A run \in Slot : LET new == [run EXCEPT !.read_too_much = TRUE, !.ov = ov]
                        IN  new.active = run.active /\ new.test = run.test
  BY DEF Slot
<1>7. \A r \in Slots : runs'[r].active = runs[r].active /\ runs'[r].test = runs[r].test
  BY <1>3, <1>5, <1>6
<1>8. pc' \in {"start", "check"}
  BY <1>1 DEF Return
<1> QED
  BY <1>1, <1>7, <1>8 DEF Calm, ReportNone

LEMMA TimeoutMoves ==
    ASSUME StateTypes, AllRight, WaitTimeout
    PROVE  Calm
<1>1. /\ Enforce(runs) /\ ReportNone /\ Return /\ pc = "start"
      /\ started' = started /\ running' = running
  BY DEF WaitTimeout
<1>2. \A r \in Slots : Alike(runs'[r], runs[r])
  <2>1. runs \in [Slots -> Slot] /\ \A s \in Slots : runs[s].test = runs[s].test
    BY DEF StateTypes
  <2> QED
    BY <1>1, <2>1, EnforceSlots
<1>3. \A r \in Slots : runs'[r].active = runs[r].active /\ runs'[r].test = runs[r].test
  BY <1>2 DEF Alike
<1>4. pc' \in {"start", "check"}
  BY <1>1 DEF Return
<1> QED
  BY <1>1, <1>3, <1>4 DEF Calm, ReportNone

LEMMA UnknownMoves ==
    ASSUME StateTypes, AllRight, UnknownExit
    PROVE  Calm
<1>1. /\ pc = "start" /\ pc' = "aborted" /\ runs' = runs /\ UNCHANGED <<statusVars, report>>
  BY DEF UnknownExit, Dequeue
<1>2. "spawn" \in Habits
  BY UnknownRight
<1> QED
  BY <1>1, <1>2 DEF Calm, statusVars

\* A slot is free whenever a test may start: only failed starts leave free slots
\* whose pipes are still being cancelled.
LEMMA SlotLeft ==
    ASSUME StateTypes, AllRight, Counting, CanStart
    PROVE  \E s \in Slots : Usable(runs[s])
<1>1. Active # Slots /\ Active \subseteq Slots
  BY ActiveCount, ProcessesAssumption DEF CanStart, Counting, Active
<1>2. PICK s \in Slots : s \notin Active
  BY <1>1
<1>3. ~runs[s].active /\ FreeRight(s)
  BY <1>2 DEF Active, AllRight, SlotRight
<1>4. \A k \in Pipes : runs[s].ov[k] # "cancelling"
  BY <1>3 DEF FreeRight, CanStart
<1>5. Usable(runs[s])
  BY <1>3, <1>4 DEF Usable
<1> QED
  BY <1>5

LEMMA FailMoves ==
    ASSUME StateTypes, AllRight, pc = "start", CanStart, NEW s \in Slots, Usable(runs[s]),
           StartFails(s), ~reconnected'
    PROVE  StateTypes' /\ AllRight' /\ Calm
<1>1. /\ started' = started /\ pc' = pc
      /\ UNCHANGED <<childVars, pc, report, finished, running, tally, any_failed, jobExits,
                     started>>
  BY DEF StartFails, RestoreStarted
<1>2. fork_failed \in BOOLEAN /\ log_setup_failed \in BOOLEAN
  BY DEF StateTypes
<1>3. CASE fork_failed' = TRUE /\ UNCHANGED <<log_setup_failed, runs, io, iocp, reconnected>>
  <2>1. StateTypes' /\ AllRight'
    <3>1. UNCHANGED jobVars
      BY <1>1, <1>3 DEF jobVars
    <3> QED
      BY <1>1, <1>3, <3>1, CommandRight
  <2>2. Calm
    BY <1>1, <1>3 DEF Calm
  <2> QED
    BY <2>1, <2>2
<1>4. ASSUME NEW fault \in {"connect", "client", "process"},
             NEW K \in SUBSET Pipes, NEW C \in SUBSET Streams, Reached(fault, K, C),
             StartFailsAt(s, K, C), Reconnect(s, K),
             IF fault = "process"
             THEN fork_failed' = TRUE /\ UNCHANGED log_setup_failed
             ELSE log_setup_failed' = TRUE /\ UNCHANGED fork_failed
      PROVE  StateTypes' /\ AllRight' /\ Calm
  <2>1. C \in SUBSET K /\ ("status" \in K => K = Pipes)
    BY <1>4, ThreePipes DEF Reached, Streams
  <2>2. /\ fork_failed' \in BOOLEAN /\ log_setup_failed' \in BOOLEAN
        /\ fork_failed' \/ log_setup_failed'
    BY <1>2, <1>4
  <2>3. /\ StateTypes' /\ AllRight'
        /\ ~runs[s].active /\ ~runs'[s].active
        /\ \A r \in Slots \ {s} : runs'[r] = runs[r]
    BY <1>1, <1>4, <2>1, <2>2, FailRight
  <2>4. runs[s].active \in BOOLEAN /\ runs'[s].active \in BOOLEAN
    BY <2>3 DEF StateTypes, Slot
  <2>5. \A r \in Slots : /\ runs'[r].active = runs[r].active
                         /\ runs[r].active => runs'[r].test = runs[r].test
    BY <2>3, <2>4
  <2>6. Calm
    BY <1>1, <2>5 DEF Calm
  <2> QED
    BY <2>3, <2>6
<1> QED
  <2>1. \/ fork_failed' = TRUE /\ UNCHANGED <<log_setup_failed, runs, io, iocp, reconnected>>
        \/ \E fault \in {"connect", "client", "process"} \cap Faults,
              K \in SUBSET Pipes, C \in SUBSET Streams :
              /\ Reached(fault, K, C)
              /\ StartFailsAt(s, K, C)
              /\ Reconnect(s, K)
              /\ IF fault = "process"
                 THEN fork_failed' = TRUE /\ UNCHANGED log_setup_failed
                 ELSE log_setup_failed' = TRUE /\ UNCHANGED fork_failed
    BY DEF StartFails
  <2>2. CASE \E fault \in {"connect", "client", "process"} \cap Faults,
              K \in SUBSET Pipes, C \in SUBSET Streams :
              /\ Reached(fault, K, C)
              /\ StartFailsAt(s, K, C)
              /\ Reconnect(s, K)
              /\ IF fault = "process"
                 THEN fork_failed' = TRUE /\ UNCHANGED log_setup_failed
                 ELSE log_setup_failed' = TRUE /\ UNCHANGED fork_failed
    <3>1. PICK fault \in {"connect", "client", "process"} \cap Faults,
               K \in SUBSET Pipes, C \in SUBSET Streams :
              /\ Reached(fault, K, C)
              /\ StartFailsAt(s, K, C)
              /\ Reconnect(s, K)
              /\ IF fault = "process"
                 THEN fork_failed' = TRUE /\ UNCHANGED log_setup_failed
                 ELSE log_setup_failed' = TRUE /\ UNCHANGED fork_failed
      BY <2>2
    <3>2. fault \in {"connect", "client", "process"}
      OBVIOUS
    <3> QED
      BY <1>4, <3>1, <3>2
  <2> QED
    BY <1>3, <2>1, <2>2

LEMMA StartMoves ==
    ASSUME StateTypes, AllRight, Counting, Start, ~reconnected'
    PROVE  StateTypes' /\ AllRight' /\ (Calm \/ Starts)
<1>1. pc = "start" /\ CanStart
  BY DEF Start
<1>2. ~\A s \in Slots : ~Usable(runs[s])
  BY <1>1, SlotLeft
<1>3. PICK s \in Slots : FirstFree(s) /\ (StartNew(s) \/ StartFails(s))
  BY <1>2 DEF Start
<1>4. Usable(runs[s])
  BY <1>3 DEF FirstFree
<1>5. CASE StartNew(s)
  <2>1. StateTypes' /\ AllRight' /\ Filled(s)
    BY <1>1, <1>4, <1>5, StartRight
  <2>2. pc' = pc /\ UNCHANGED <<tally, any_failed>>
    BY <1>5 DEF StartNew
  <2>3. Starts
    BY <1>1, <2>1, <2>2 DEF Starts
  <2> QED
    BY <2>1, <2>3
<1>6. CASE StartFails(s)
  BY <1>1, <1>4, <1>6, FailMoves
<1> QED
  BY <1>3, <1>5, <1>6
-----------------------------------------------------------------------------
(* Every step but the first and the check of the loop. *)

\* No two slots hold the same test.
LEMMA CountingApart ==
    ASSUME Counting
    PROVE  Apart
  BY DEF Counting, Apart, TestOf

LEMMA ParentMoves ==
    ASSUME StateTypes, AllRight, Counting, Parent, ~StatusInit, ~Check, ~reconnected'
    PROVE  StateTypes' /\ AllRight' /\ (Calm \/ Releases \/ Starts)
<1>1. Apart
  BY CountingApart
<1>2. CASE Start
  BY <1>2, StartMoves
<1>3. CASE ExitDequeued
  BY <1>1, <1>3, ExitHandled, ExitMoves
<1>4. CASE UnknownExit
  BY <1>4, UnknownRight, UnknownMoves
<1>5. CASE CancelledDequeued
  BY <1>5, CancelledRight, CancelledMoves
<1>6. CASE ConnectedDequeued
  BY <1>1, <1>6, ConnectedRight, ConnectedMoves
<1>7. CASE DataDequeued
  BY <1>1, <1>7, DataRight, DataMoves
<1>8. CASE AppendFails
  BY <1>1, <1>8, AppendRight, AppendMoves
<1>9. CASE FailedDequeued
  BY <1>9, FailedRight, FailedMoves
<1>10. CASE WaitTimeout
  BY <1>10, TimeoutRight, TimeoutMoves
<1> QED
  BY <1>2, <1>3, <1>4, <1>5, <1>6, <1>7, <1>8, <1>9, <1>10, NeverUnexpected DEF Parent

\* The child opens its status pipe: the connect that is pending completes.
LEMMA OpenRight ==
    ASSUME StateTypes, AllRight, NEW s \in Active, OpenStatus(s), UNCHANGED parentVars
    PROVE  StateTypes' /\ AllRight'
<1> DEFINE F == {<<s, "status">>}
           new == Opened(io[s]["status"], runs[s].test)
           packet == IoPacket(s, "status", "connected", 0)
<1>1. /\ s \in Slots /\ runs[s].active /\ runs[s].test \in Tests /\ "status" \in Pipes
      /\ UNCHANGED <<childVars, parentVars, jobVars, pc, runs>>
  BY ActiveTest DEF Active, StateTypes, OpenStatus, Pipes, Streams, parentVars
<1>2. PICK t \in Tests : t = runs[s].test
  BY <1>1
<1>3. /\ io[s]["status"].listening = 1 /\ ~io[s]["status"].reading
      /\ runs[s].ov["status"] = "waiting" /\ NoneOf(iocp, Io(s, "status"))
      /\ io[s]["status"] \in End
  <2>1. PipeRight(s, "status")
    BY <1>1 DEF AllRight
  <2>2. io[s]["status"].listening \in Nat /\ io[s]["status"].listening > 0
    BY <1>1 DEF OpenStatus, StateTypes, End
  <2>3. io[s]["status"].listening # 0
    BY <2>2
  <2>4. io[s]["status"] \in End
    BY <1>1 DEF StateTypes
  <2> QED
    BY <2>1, <2>3, <2>4 DEF PipeRight
<1>4. t \notin jobExits /\ NoneOf(iocp, ExitOf(t)) /\ TestOf(s) = t
  <2>1. ExitRight(s)
    BY <1>1 DEF AllRight, SlotRight
  <2>2. Alive(t)
    BY <1>2 DEF OpenStatus, Running, Alive
  <2> QED
    BY <1>2, <2>1, <2>2 DEF ExitRight, TestOf
<1>5. /\ new \in End /\ new.listening = 0 /\ new.client = t
      /\ ~new.reading
  <2>1. PICK end \in End : end = io[s]["status"] /\ ~end.reading
    BY <1>3
  <2>2. new = Opened(end, t) /\ t \in 0..NTests
    BY <1>2, <2>1
  <2>3. /\ Opened(end, t) \in End /\ Opened(end, t).listening = 0
        /\ Opened(end, t).client = t /\ ~Opened(end, t).reading
    BY <2>1, <2>2 DEF Opened, End
  <2> QED
    BY <2>2, <2>3
<1>6. packet \in Packets /\ packet \in IoOf(s, "status", {"connected"})
      /\ packet \in Io(s, "status") /\ packet.what # "exit"
      /\ packet.slot = s /\ packet.pipe = "status"
  <2>1. "connected" \in PacketKinds /\ 0 \in Nat
    BY DEF PacketKinds
  <2>2. packet.what # "exit" /\ packet.slot = s /\ packet.pipe = "status"
    BY DEF IoPacket
  <2> QED
    BY <1>1, <2>1, <2>2, PacketMade
<1>7. iocp' = Append(iocp, packet) /\ iocp' = iocp \o <<packet>>
  <2>1. ConnectedPackets(s, "status", io[s]["status"].listening) = <<packet>>
    BY <1>3, OneTimes DEF ConnectedPackets
  <2>2. iocp' = iocp \o <<packet>>
    BY <2>1 DEF OpenStatus
  <2> HIDE DEF packet
  <2> QED
    BY <1>6, <2>2 DEF StateTypes
<1>8. io' = [io EXCEPT ![s]["status"] = new]
  BY DEF OpenStatus
<1> HIDE DEF packet, new
<1>9. /\ iocp \in Seq(Packets) /\ iocp' \in Seq(Packets)
      /\ io' \in [Slots -> [Pipes -> End]] /\ io'[s]["status"] = new
      /\ \A k \in Pipes \ {"status"} : io'[s][k] = io[s][k]
      /\ \A r \in Slots \ {s} : io'[r] = io[r]
  BY <1>1, <1>5, <1>6, <1>7, <1>8 DEF StateTypes
<1>10. StateTypes'
  BY <1>1, <1>9, ParentsTypes, ChildTypedKept DEF StateTypes, jobVars
<1>11. QuietStep
  BY <1>1, KernelQuiet
<1>12. PICK E : E = {}
  OBVIOUS
<1>13. QueueStep(F, E) /\ \A r, k : <<r, k>> \in F => r = s /\ k = "status"
  <2>1. Touched(packet, F, E)
    BY <1>6 DEF Touched
  <2> HIDE DEF F
  <2>2. QueueStep(F, E)
    BY <1>6, <1>7, <1>9, <2>1, QueueAppended
  <2> QED
    BY <2>2 DEF F
<1>14. OneOf(iocp', Io(s, "status"), IoOf(s, "status", {"connected"}))
  <2>1. OneOf(<<packet>>, Io(s, "status"), IoOf(s, "status", {"connected"}))
    BY <1>6, Single
  <2>2. <<packet>> \in Seq(Packets)
    BY <1>6
  <2> QED
    BY <1>3, <1>7, <1>9, <2>1, <2>2, ConcatRight
<1>15. \A u : Same(ExitOf(u))
  BY <1>9, <1>12, <1>13, QueueFrame
<1>16. \A r \in Slots \ {s} : SlotRight(r)' /\ \A k \in Pipes : PipeRight(r, k)'
  <2>1. SlotStep(s)
    <3>1. \A r \in Active \ {s} : r \in Slots /\ TestOf(r) \in Tests
      BY ActiveTest DEF Active, StateTypes, TestOf
    <3> QED
      BY <1>1, <1>9, <1>11, <3>1 DEF SlotStep, QuietStep, PipesGrow, jobVars
  <2>2. \A r, k : <<r, k>> \in F => r = s
    BY <1>13
  <2>3. \A r \in Active \ {s} : TestOf(r) \notin E
    BY <1>12
  <2> HIDE DEF F
  <2> QED
    BY <1>1, <1>10, <1>13, <2>1, <2>2, <2>3, OthersRight
<1>17. SlotRight(s)'
  <2>1. ExitRight(s) /\ SlotKept(s) /\ ProcStep(TestOf(s))
    BY <1>1, <1>2, <1>4, <1>11 DEF AllRight, SlotRight, QuietStep
  <2>2. NoneOf(iocp', ExitOf(t))
    BY <1>4, <1>15 DEF Same
  <2>3. \A k \in Pipes : Coming(s, k)' =>
               /\ Coming(s, k) \/ TestOf(s) \notin jobExits
               /\ Behind(iocp', Io(s, k), ExitOf(TestOf(s)))
    BY <1>4, <2>2, NoneBehind
  <2>4. TestOf(s) \in jobExits' <=> TestOf(s) \in jobExits
    BY <1>1 DEF jobVars
  <2>5. Same(ExitOf(TestOf(s)))
    BY <1>15
  <2>6. ExitRight(s)'
    BY <1>1, <2>1, <2>3, <2>4, <2>5, ExitKept
  <2> QED
    BY <1>1, <2>6 DEF SlotRight
<1>18. ASSUME NEW k \in Pipes
       PROVE  PipeRight(s, k)'
  <2>1. CASE k = "status"
    <3>1. /\ runs'[s] = runs[s] /\ io'[s][k] = new /\ runs[s].ov[k] = "waiting"
          /\ new.listening = 0 /\ new.client = runs'[s].test /\ ~new.reading
          /\ runs'[s].active
      BY <1>1, <1>2, <1>3, <1>5, <1>9, <2>1
    <3> QED
      BY <1>14, <2>1, <3>1 DEF PipeRight, Coming
  <2>2. CASE k # "status"
    <3>1. <<s, k>> \notin F /\ io'[s][k] = io[s][k]
      BY <1>9, <1>13, <2>2
    <3> HIDE DEF F
    <3>2. Same(Io(s, k)) /\ PipeRight(s, k)
      BY <1>1, <1>9, <1>13, <3>1, QueueFrame DEF AllRight
    <3>3. runs[s].active => Len(pipe[TestOf(s)][k]) <= Len(pipe'[TestOf(s)][k])
      BY <1>2, <1>4, <1>11 DEF QuietStep, PipesGrow
    <3> QED
      BY <1>1, <1>10, <3>1, <3>2, <3>3, PipeKept
  <2> QED
    BY <2>1, <2>2
<1>19. ASSUME NEW u \in Tests
       PROVE  TestRight(u)'
  <2>1. ProcStep(u) /\ Held(u)' = Held(u) /\ started' = started /\ jobExits' = jobExits
    BY <1>1, <1>11 DEF QuietStep, Held, Active, jobVars
  <2>2. started <= started' /\ u \notin E
    BY <1>12, <2>1 DEF StateTypes
  <2> HIDE DEF F
  <2> QED
    BY <1>10, <1>13, <2>1, <2>2, TestsKept
<1>20. "spawn" \notin Habits => NoneOf(iocp', ExitOf(0))
  BY <1>15 DEF AllRight, Same
<1> QED
  BY <1>10, <1>16, <1>17, <1>18, <1>19, <1>20 DEF AllRight

LEMMA OthersMove ==
    ASSUME StateTypes, AllRight, Counting, Children \/ Kernel \/ Time \/ UNCHANGED vars
    PROVE  StateTypes' /\ AllRight' /\ Calm
<1>1. UNCHANGED parentVars
  BY DEF Children, Kernel, Time, vars, parentVars
<1>2. Apart
  BY CountingApart
<1>3. CASE Children
  <2>1. PICK s \in Active : \/ OpenStatus(s) \/ Child(s) \/ Chatter(s) \/ SpawnedExit(s)
    BY <1>3 DEF Children
  <2>2. s \in Slots /\ pc = "start"
    BY <1>3 DEF Active, Children
  <2> QED
    BY <1>1, <2>1, <2>2, OpenRight, ChildRight, ChatterRight, SpawnedRight, QuietMoves
<1>4. CASE Kernel
  <2>1. PICK s \in Active : CloseEnds(s) \/ AnnounceExit(s)
    BY <1>4 DEF Kernel
  <2> QED
    BY <1>1, <1>2, <2>1, CloseRight, AnnounceRight, QuietMoves
<1>5. CASE Time
  BY <1>1, <1>5, TimeRight, QuietMoves
<1>6. CASE UNCHANGED vars
  BY <1>1, <1>6, StutterRight, QuietMoves
<1> QED
  BY <1>3, <1>4, <1>5, <1>6
-----------------------------------------------------------------------------
(* What calm steps keep.  The test of a free slot may change: a failed start    *)
(* leaves its own there.                                                       *)

LEMMA CalmSlots ==
    ASSUME Calm
    PROVE  /\ Active' = Active /\ \A s \in Active : runs'[s].test = runs[s].test
           /\ \A t : Held(t)' <=> Held(t)
<1>1. Active' = Active /\ \A s \in Active : runs'[s].test = runs[s].test
  BY DEF Calm, Active
<1> QED
  BY <1>1 DEF Held

LEMMA CalmCounting ==
    ASSUME StateTypes, Counting, Calm
    PROVE  Counting'
<1>1. Active' = Active /\ \A s \in Active : runs'[s].test = runs[s].test
  BY CalmSlots
<1>2. started' = started /\ finished' = finished /\ running' = running /\ report' = report
  BY DEF Calm
<1> QED
  BY <1>1, <1>2 DEF Counting

LEMMA CalmUnseen ==
    ASSUME Calm, pc # "done"
    PROVE  Unseen
<1>1. \A t : Held(t)' <=> Held(t)
  BY CalmSlots
<1>2. report' = report /\ pc' # "done"
  BY DEF Calm
<1>3. \A t \in Tests : PhaseOf(t)' = PhaseOf(t)
  BY <1>1, <1>2, PhaseKept
<1> QED
  BY <1>2, <1>3 DEF Unseen

\* What every step but the first and the check of the loop keeps.
LEMMA MovesKeep ==
    ASSUME StateTypes, Counting, any_failed => SomeFailure, pc # "done",
           pc = "aborted" => "spawn" \in Habits,
           pc \in {"init", "start"} => ~(StopOnFirstError /\ any_failed),
           Calm \/ Releases \/ Starts
    PROVE  /\ Counting' /\ pc' # "done"
           /\ pc' = "aborted" => "spawn" \in Habits
           /\ any_failed' => SomeFailure'
           /\ pc' \in {"init", "start"} => ~(StopOnFirstError /\ any_failed')
<1>0. LoopTypes
  BY DEF StateTypes
<1>1. CASE Calm
  <2>1. Counting'
    BY <1>1, CalmCounting
  <2>2. /\ any_failed' = any_failed /\ report' = report
        /\ pc' = pc \/ (pc = "start" /\ pc' # "done")
        /\ pc' = "aborted" => pc = "aborted" \/ "spawn" \in Habits
    BY <1>1 DEF Calm
  <2>3. any_failed' => SomeFailure'
    BY <2>2 DEF SomeFailure
  <2> QED
    BY <2>1, <2>2, <2>3
<1>2. CASE Releases
  <2>1. PICK s \in Active, result \in Verdict : Released(s, result)
    BY <1>2 DEF Releases
  <2>2. s \in Slots /\ ReportAll({runs[s].test}, result) /\ runs[s].test \in Tests
    BY <1>0, <2>1, ActiveTest DEF Released, Active
  <2>3. Counting'
    BY <1>0, <2>1, <2>2, CountingRelease
  <2>4. any_failed' => SomeFailure'
    BY <1>0, <2>1, <2>2, FailureKept
  <2> QED
    BY <1>2, <2>3, <2>4 DEF Releases
<1>3. CASE Starts
  <2>1. PICK s \in Slots : Filled(s)
    BY <1>3 DEF Starts
  <2>2. CanStart /\ any_failed' = any_failed /\ pc' = pc /\ pc = "start"
    BY <1>3 DEF Starts
  <2>3. Counting'
    BY <1>0, <2>1, <2>2, CountingStart
  <2>4. any_failed' => SomeFailure'
    BY <2>1, <2>2 DEF Filled, SomeFailure
  <2> QED
    BY <2>2, <2>3, <2>4
<1> QED
  BY <1>1, <1>2, <1>3

\* The end of the loop body keeps the count, or reports every test left and ends
\* the run.
LEMMA CheckKeeps ==
    ASSUME StateTypes, Counting, any_failed => SomeFailure, Check
    PROVE  /\ Counting' \/ RestFailed'
           /\ pc' # "aborted"
           /\ any_failed' => SomeFailure'
           /\ pc' = "done" => finished' >= NTests \/ (StopOnFirstError /\ any_failed')
           /\ pc' \in {"init", "start"} => ~(StopOnFirstError /\ any_failed')
<1>0. /\ LoopTypes /\ runs' = runs /\ started' = started /\ running' = running /\ LeaveOrLoop
      /\ Active' = Active
  BY DEF StateTypes, Check, Active
<1>1. /\ pc' \in {"done", "start"}
      /\ pc' = "done" <=> finished' >= NTests \/ (StopOnFirstError /\ any_failed')
  BY <1>0 DEF LeaveOrLoop
<1>2. CASE ~StartsFailed
  <2>1. /\ report' = report /\ any_failed' = any_failed /\ finished' = finished
    BY <1>2 DEF Check, ReportNone
  <2>2. Counting'
    BY <1>0, <2>1, CountingKept
  <2>3. any_failed' => SomeFailure'
    BY <2>1 DEF SomeFailure
  <2> QED
    BY <1>1, <2>2, <2>3
<1>3. CASE StartsFailed
  <2> DEFINE result == ErrorVerdict(IF fork_failed THEN "fork" ELSE "pipe", NoStep)
  <2>1. Active = {} /\ running = 0
    BY <1>3, ActiveCount DEF StartsFailed, Counting
  <2>2. ReportAll(Remaining, result) /\ result \in Verdict
        /\ Remaining \in SUBSET Tests
    BY <1>3, ErrorVerdictType DEF Check, Causes, Remaining
  <2>3. Remaining = {runs[s].test : s \in Active} \union Remaining
    BY <2>1
  <2> HIDE DEF result
  <2>4. finished' = NTests /\ \A t \in Tests : report'[t] # <<>> /\ Len(report'[t]) <= 1
    BY <1>0, <2>2, <2>3, GivingUp
  <2>5. finished' >= NTests
    BY <2>4, TestsAssumption
  <2>6. pc' = "done"
    BY <1>1, <2>5
  <2>7. report' \in [Tests -> Seq(Verdict)]
    BY <1>0, <2>2, ReportAllType
  <2>8. \A t \in Tests : Len(report'[t]) = 1
    <3>1. ASSUME NEW t \in Tests
          PROVE  Len(report'[t]) = 1
      <4>1. report'[t] \in Seq(Verdict) /\ report'[t] # <<>> /\ Len(report'[t]) <= 1
        BY <2>4, <2>7
      <4>2. Len(report'[t]) # 0 /\ Len(report'[t]) \in Nat
        BY <4>1, EmptySeq, LenProperties
      <4>3. PICK n : n = Len(report'[t])
        OBVIOUS
      <4>4. n \in Nat /\ n # 0 /\ n <= 1
        BY <4>1, <4>2, <4>3
      <4>5. n = 1
        BY <4>4
      <4> QED
        BY <4>3, <4>5
    <3> QED
      BY <3>1
  <2>9. RestFailed'
    BY <1>0, <2>1, <2>4, <2>6, <2>8 DEF RestFailed
  <2>10. any_failed' => SomeFailure'
    BY <1>0, <2>2, FailureKept
  <2> QED
    BY <1>1, <2>5, <2>6, <2>9, <2>10
<1> QED
  BY <1>2, <1>3
-----------------------------------------------------------------------------
(* The invariant. *)

LEMMA InitRight == Init => WInv
<1> SUFFICES ASSUME Init
             PROVE  WInv
  OBVIOUS
<1> USE DEF Init, ChildInit
<1>1. Active = {}
  BY DEF Active
<1>2. Cardinality({}) = 0
  BY FS_EmptySet
<1>3. StateTypes
  <2>1. NoProcess \in Process
    BY DEF NoProcess, Process, ProcessStates, NoStep, Step
  <2>2. EmptyPipes \in Contents
    BY DEF EmptyPipes, Contents
  <2>3. proc \in [Tests -> Process] /\ pipe \in [Tests -> Contents]
    BY <2>1, <2>2
  <2>4. runs \in [Slots -> Slot]
    BY <2>2, TestsAssumption DEF Slot, ProcessStates, PipeStates
  <2>5. wrote \in [Tests -> [Streams -> Nat]] /\ tally \in [Outcomes -> Nat]
    OBVIOUS
  <2>6. report \in [Tests -> Seq(Verdict)]
    OBVIOUS
  <2>7. /\ overdue \in 0..NTests /\ started \in 0..NTests
    BY TestsAssumption
  <2>8. pc \in {"init", "start", "check", "done", "error", "aborted"}
    OBVIOUS
  <2>9. finished \in Nat /\ running \in Int
    OBVIOUS
  <2>10. /\ fork_failed \in BOOLEAN /\ log_setup_failed \in BOOLEAN
         /\ any_failed \in BOOLEAN
    OBVIOUS
  <2>11. IdlePipe \in End
    BY TestsAssumption DEF IdlePipe, End
  <2>12. /\ io \in [Slots -> [Pipes -> End]] /\ iocp \in Seq(Packets)
         /\ jobExits \subseteq 0..NTests
    BY <2>11
  <2>13. reconnected \in BOOLEAN
    OBVIOUS
  <2> HIDE DEF Init, ChildInit
  <2> QED
    BY <1>1, <2>3, <2>4, <2>5, <2>6, <2>7, <2>8, <2>9, <2>10, <2>12, <2>13
    DEF StateTypes
<1>4. Counting
  BY <1>1, <1>2 DEF Counting
<1>5. AllRight
  <2>1. \A X : NoneOf(iocp, X)
    BY Empty
  <2>2. ASSUME NEW s \in Slots
        PROVE  SlotRight(s)
    BY DEF SlotRight, FreeRight
  <2>3. ASSUME NEW s \in Slots, NEW k \in Pipes
        PROVE  PipeRight(s, k)
    <3>1. /\ runs[s].ov[k] = "idle" /\ io[s][k].listening = 0
          /\ io[s][k].reading = FALSE /\ io[s][k].open = FALSE
      BY DEF IdlePipe
    <3> HIDE DEF Init, ChildInit
    <3> QED
      BY <2>1, <3>1 DEF PipeRight, Coming
  <2>4. ASSUME NEW t \in Tests
        PROVE  TestRight(t)
    BY <2>1 DEF TestRight, Alive, NoProcess
  <2> QED
    BY <2>1, <2>2, <2>3, <2>4 DEF AllRight
<1> QED
  BY <1>3, <1>4, <1>5 DEF WInv

LEMMA ParentPlace == Parent => pc \in {"init", "start", "check"}
<1>1. StatusInit \/ Start \/ WaitTimeout \/ Check => pc \in {"init", "start", "check"}
  BY DEF StatusInit, Start, WaitTimeout, Check
<1>2. ASSUME \/ ExitDequeued \/ UnknownExit \/ CancelledDequeued \/ ConnectedDequeued
             \/ ListeningDequeued \/ DataDequeued \/ AppendFails \/ EmptyDequeued \/ IdleDequeued
             \/ FailedDequeued \/ UnexpectedFailure
      PROVE  pc = "start"
  BY <1>2 DEF ExitDequeued, UnknownExit, CancelledDequeued, ConnectedDequeued, DataDequeued,
         AppendFails, EmptyDequeued, IdleDequeued, FailedDequeued, UnexpectedFailure,
         ListeningDequeued, WaitingDequeued, Dequeue
<1> QED
  BY <1>1, <1>2 DEF Parent

LEMMA StepMoves ==
    ASSUME WInv, [Next]_vars, ~reconnected'
    PROVE  /\ StateTypes' /\ AllRight'
           /\ \/ UNCHANGED vars
              \/ /\ Counting /\ pc \notin {"done", "error", "aborted"}
                 /\ StatusInit \/ Check \/ Calm \/ Releases \/ Starts
<1>1. StateTypes /\ AllRight /\ (Counting \/ RestFailed)
  BY DEF WInv
<1>2. CASE UNCHANGED vars
  BY <1>1, <1>2, StutterRight
<1>3. CASE Next /\ ~UNCHANGED vars
  <2>1. pc \notin {"done", "error", "aborted"} /\ ~Terminated
    <3>1. ~Terminated
      BY <1>3 DEF Terminated
    <3>2. CASE Parent
      BY <3>1, <3>2, ParentPlace
    <3>3. CASE Children \/ Kernel \/ Time
      BY <3>1, <3>3 DEF Children, Kernel, Time, Over
    <3> QED
      BY <1>3, <3>1, <3>2, <3>3 DEF Next
  <2>2. Counting
    BY <1>1, <2>1 DEF RestFailed
  <2>3. CASE StatusInit
    BY <1>1, <2>1, <2>2, <2>3, BeginRight
  <2>4. CASE Check
    BY <1>1, <2>1, <2>2, <2>4, CheckRight
  <2>5. CASE Parent /\ ~StatusInit /\ ~Check
    BY <1>1, <2>1, <2>2, <2>5, ParentMoves
  <2>6. CASE Children \/ Kernel \/ Time
    BY <1>1, <2>1, <2>2, <2>6, OthersMove
  <2> QED
    BY <1>3, <2>1, <2>3, <2>4, <2>5, <2>6 DEF Next
<1> QED
  BY <1>2, <1>3

LEMMA StepKept ==
    ASSUME WInv, [Next]_vars, ~reconnected'
    PROVE  WInv'
<1>1. /\ StateTypes /\ AllRight /\ (Counting \/ RestFailed)
      /\ pc = "aborted" => "spawn" \in Habits
      /\ any_failed => SomeFailure
      /\ pc = "done" => finished >= NTests \/ (StopOnFirstError /\ any_failed)
      /\ pc \in {"init", "start"} => ~(StopOnFirstError /\ any_failed)
  BY DEF WInv
<1>2. StateTypes' /\ AllRight'
  BY StepMoves
<1>3. CASE UNCHANGED vars
  <2>1. UNCHANGED <<report, pc, finished, any_failed, runs, running, started>>
    BY <1>3 DEF vars, statusVars
  <2>2. (Counting \/ RestFailed)'
    BY <1>1, <2>1 DEF Counting, RestFailed, Active
  <2>3. any_failed' => SomeFailure'
    BY <1>1, <2>1 DEF SomeFailure
  <2> QED
    BY <1>1, <1>2, <2>1, <2>2, <2>3 DEF WInv
<1>4. CASE Counting /\ StatusInit
  <2>1. /\ UNCHANGED <<report, finished, any_failed, runs, running, started>>
        /\ pc = "init" /\ pc' \in {"done", "start", "error"}
        /\ pc' = "done" => NTests = 0
    BY <1>4 DEF StatusInit, statusVars
  <2>2. Counting'
    BY <1>4, <2>1 DEF Counting, Active
  <2>3. any_failed' => SomeFailure'
    BY <1>1, <2>1 DEF SomeFailure
  <2>4. pc' = "done" => finished' >= NTests
    BY <1>1, <2>1 DEF StateTypes
  <2> QED
    BY <1>1, <1>2, <2>1, <2>2, <2>3, <2>4 DEF WInv
<1>5. CASE Counting /\ Check
  BY <1>1, <1>2, <1>5, CheckKeeps DEF WInv
<1>6. CASE Counting /\ pc # "done" /\ (Calm \/ Releases \/ Starts)
  <2>1. /\ Counting' /\ pc' # "done"
        /\ pc' = "aborted" => "spawn" \in Habits
        /\ any_failed' => SomeFailure'
        /\ pc' \in {"init", "start"} => ~(StopOnFirstError /\ any_failed')
    BY <1>1, <1>6, MovesKeep
  <2> QED
    BY <1>2, <2>1 DEF WInv
<1> QED
  BY <1>3, <1>4, <1>5, <1>6, StepMoves

\* A pipe that was connected again is not forgotten.
LEMMA ReconnectedStays ==
    ASSUME [Next]_vars, reconnected
    PROVE  reconnected'
<1>1. ASSUME NEW s \in Slots, StartNew(s) \/ StartFails(s)
      PROVE  reconnected'
  BY <1>1 DEF StartNew, StartFails, Reconnect
<1>2. CASE Start
  BY <1>1, <1>2 DEF Start, osVars, jobVars
<1>3. CASE StatusInit \/ Check \/ WaitTimeout
  BY <1>3 DEF StatusInit, Check, WaitTimeout, osVars, jobVars
<1>4. CASE \/ ExitDequeued \/ UnknownExit \/ CancelledDequeued \/ ConnectedDequeued
           \/ DataDequeued
  BY <1>4 DEF ExitDequeued, UnknownExit, CancelledDequeued, ConnectedDequeued,
          DataDequeued, jobVars
<1>5. CASE \/ AppendFails \/ EmptyDequeued \/ IdleDequeued \/ FailedDequeued
           \/ UnexpectedFailure \/ ListeningDequeued
  BY <1>5 DEF AppendFails, EmptyDequeued, IdleDequeued, FailedDequeued,
          UnexpectedFailure, ListeningDequeued, jobVars
<1>6. ASSUME NEW s \in Slots,
             \/ OpenStatus(s) \/ Child(s) \/ Chatter(s) \/ SpawnedExit(s)
             \/ CloseEnds(s) \/ AnnounceExit(s)
      PROVE  reconnected'
  BY <1>6 DEF OpenStatus, Child, Chatter, SpawnedExit, CloseEnds, AnnounceExit, jobVars
<1>7. CASE Children \/ Kernel
  BY <1>6, <1>7 DEF Children, Kernel, Active
<1>8. CASE Time \/ Terminated \/ UNCHANGED vars
  BY <1>8 DEF Time, Terminated, vars, osVars, jobVars
<1> QED
  BY <1>2, <1>3, <1>4, <1>5, <1>7, <1>8 DEF Next, Parent

\* The invariant holds up to the first pipe that is connected again.
LEMMA Invariant == Spec => [](reconnected \/ WInv)
<1>1. (reconnected \/ WInv) /\ [Next]_vars => (reconnected \/ WInv)'
  BY StepKept, ReconnectedStays
<1> QED
  BY InitRight, <1>1, PTL DEF Spec

-----------------------------------------------------------------------------
(* The theorems. *)

(* No child is assumed to do anything: one that has started may open its       *)
(* status pipe at any time until it ends, or never, whatever the others and    *)
(* the parent have done by then.  The theorems speak of a run up to the step   *)
(* at which tdo connects a pipe whose earlier connect is still pending         *)
(* (run_windows.c:192 for the status pipe of a test that was reported without  *)
(* it); that tdo aborts and reports twice behind that step is what             *)
(* windows_twice shows.                                                       *)

\* running counts the active slots, so the unsigned counter of the code neither
\* wraps nor exceeds -j, and every variable keeps its type.
THEOREM TypeCorrect == Spec => [](reconnected \/ TypeOK)
<1>1. WInv => TypeOK
  BY ActiveCount, ProcessesAssumption DEF WInv, TypeOK, Counting, RestFailed
<1> QED
  BY <1>1, Invariant, PTL

\* No packet finds a pipe idle, none fails in a way that is not expected, no exit
\* is of a process without a slot, and a slot is free for every test that starts:
\* tdo does not abort, unless a test starts a process of its own.
THEOREM NeverAborted ==
    ASSUME "spawn" \notin Habits
    PROVE  Spec => []NoAbort
<1>1. reconnected \/ WInv => NoAbort
  BY DEF WInv, NeverAborts, NoAbort
<1> QED
  BY <1>1, Invariant, PTL

\* No test gets a second result, whatever calls fail.
THEOREM ReportedOnce == Spec => []OneResultEach
<1>1. WInv => ReportedAtMostOnce
  <2>1. RestFailed => \A t \in Tests : Len(report[t]) <= 1
    <3> SUFFICES ASSUME RestFailed, NEW t \in Tests PROVE Len(report[t]) <= 1
      OBVIOUS
    <3>1. PICK n : n = Len(report[t])
      OBVIOUS
    <3>2. n = 1
      BY <3>1 DEF RestFailed
    <3>3. n <= 1
      BY <3>2
    <3> QED
      BY <3>1, <3>3
  <2> QED
    BY <2>1 DEF WInv, ReportedAtMostOnce, Counting
<1>2. reconnected \/ WInv => OneResultEach
  BY <1>1 DEF OneResultEach
<1> QED
  BY <1>2, Invariant, PTL

LEMMA AllReported ==
    ASSUME StateTypes, Counting \/ RestFailed, finished >= NTests
    PROVE  \A t \in Tests : report[t] # <<>>
<1>1. CASE Counting
  BY <1>1, CountedAll DEF StateTypes
<1>2. CASE RestFailed
  <2>1. Len(<<>>) = 0
    OBVIOUS
  <2> QED
    BY <1>2, <2>1 DEF RestFailed
<1> QED
  BY <1>1, <1>2, Zenon

\* The loop is not left before every test has a result, but for a failure under
\* -x.
THEOREM NothingForgotten == Spec => []NobodyForgotten
<1>1. ASSUME WInv, finished >= NTests
      PROVE  \A t \in Tests : report[t] # <<>>
  BY <1>1, AllReported DEF WInv
<1>2. WInv => NoTestForgotten
  <2> SUFFICES ASSUME WInv, pc = "done", ~(finished >= NTests)
               PROVE  /\ StopOnFirstError
                      /\ \E t \in Tests : \E v \in Verdicts(t) :
                            v.outcome \in Failures
    BY <1>1 DEF NoTestForgotten
  <2>1. StopOnFirstError /\ SomeFailure
    BY DEF WInv
  <2> QED
    BY <2>1, FailureFound
<1>3. reconnected \/ WInv => NobodyForgotten
  BY <1>2 DEF NobodyForgotten
<1> QED
  BY <1>3, Invariant, PTL

\* Every child that is alive sits in exactly one slot, until the run is over.
THEOREM EveryChildWatched == Spec => []NobodyLost
<1>1. WInv => AliveIsWatched
  <2> SUFFICES ASSUME WInv, NEW t \in Tests, Alive(t)
               PROVE  Cardinality({s \in Active : runs[s].test = t}) = 1
    BY DEF AliveIsWatched
  <2>1. Held(t) /\ (Counting \/ RestFailed)
    BY DEF WInv, AllRight, TestRight
  <2>2. PICK s \in Active : runs[s].test = t
    BY <2>1 DEF Held
  <2>3. \A r \in Active : runs[r].test = t => r = s
    BY <2>1, <2>2 DEF Counting, RestFailed
  <2>4. {r \in Active : runs[r].test = t} = {s}
    BY <2>2, <2>3
  <2> QED
    BY <2>4, FS_Singleton
<1>2. reconnected \/ WInv => NobodyLost
  BY <1>1 DEF NobodyLost
<1> QED
  BY <1>2, Invariant, PTL

-----------------------------------------------------------------------------
(* The summary's counters, and the starts under -x. *)

LEMMA CheckReports ==
    ASSUME Check
    PROVE  \/ UNCHANGED <<report, any_failed, finished, tally>>
           \/ \E S \in SUBSET Tests : \E result \in Verdict : ReportAll(S, result)
<1>1. Remaining \in SUBSET Tests
  BY DEF Remaining
<1>2. ErrorVerdict(IF fork_failed THEN "fork" ELSE "pipe", NoStep) \in Verdict
  BY ErrorVerdictType DEF Causes
<1> QED
  BY <1>1, <1>2 DEF Check, ReportNone

LEMMA AccountsStep ==
    ASSUME WInv, Accounts, [Next]_vars, ~reconnected'
    PROVE  Accounts'
<1>1. LoopTypes
  BY DEF WInv, StateTypes
<1>2. \/ UNCHANGED <<report, any_failed, finished, tally>>
      \/ \E S \in SUBSET Tests : \E result \in Verdict : ReportAll(S, result)
  <2>1. UNCHANGED vars \/ StatusInit \/ Calm \/ Starts
          => UNCHANGED <<report, any_failed, finished, tally>>
    BY DEF vars, StatusInit, statusVars, Calm, Starts, Filled
  <2>2. ASSUME Releases
        PROVE  \E S \in SUBSET Tests : \E result \in Verdict : ReportAll(S, result)
    <3>1. PICK s \in Active, result \in Verdict : Released(s, result)
      BY <2>2 DEF Releases
    <3>2. {runs[s].test} \in SUBSET Tests /\ ReportAll({runs[s].test}, result)
      BY <1>1, <3>1, ActiveTest DEF Released
    <3> QED
      BY <3>2
  <2> QED
    BY <2>1, <2>2, StepMoves, CheckReports
<1>3. CASE UNCHANGED <<report, any_failed, finished, tally>>
  BY <1>3 DEF Accounts, Reported, ReportedAs
<1>4. CASE \E S \in SUBSET Tests : \E result \in Verdict : ReportAll(S, result)
  BY <1>1, <1>4, AccountsReport
<1> QED
  BY <1>2, <1>3, <1>4

LEMMA AccountsAlways == Spec => [](reconnected \/ (WInv /\ Accounts))
<1>1. Init => Accounts
  BY AccountsBegin DEF Init
<1>2. (reconnected \/ (WInv /\ Accounts)) /\ [Next]_vars
        => (reconnected \/ (WInv /\ Accounts))'
  BY AccountsStep, StepKept, ReconnectedStays
<1> QED
  BY <1>1, <1>2, InitRight, PTL DEF Spec

\* The summary's counters agree with the results at all times, and with the slots
\* while the loop goes on.
THEOREM AccountsBalanced == Spec => []CountersAgree
<1>1. WInv /\ Accounts => AccountsBalance
  <2>1. Counting /\ StateTypes => running = Cardinality(Active) /\ started = finished + running
    BY ActiveCount, ProcessesAssumption DEF Counting, StateTypes
  <2>2. RestFailed /\ StateTypes => ~(finished < NTests)
    BY TestsAssumption DEF RestFailed, StateTypes
  <2> QED
    BY <2>1, <2>2 DEF WInv, Accounts, AccountsBalance
<1>2. reconnected \/ (WInv /\ Accounts) => CountersAgree
  BY <1>1 DEF CountersAgree
<1> QED
  BY <1>2, AccountsAlways, PTL

\* At the filling loop nothing has failed under -x, however many results a test has
\* got.
NoneFailed == finished \in Nat /\ (pc \in {"init", "start"} => ~(StopOnFirstError /\ any_failed))

\* A result sends the loop to its end.
LEMMA ReportLeaves ==
    ASSUME finished \in Nat, NEW t, NEW result, ReportAll({t}, result), Return
    PROVE  finished' \in Nat /\ pc' = "check"
<1>1. Cardinality({t}) = 1
  BY FS_Singleton
<1>2. finished' = finished + 1
  BY <1>1 DEF ReportAll
<1> QED
  BY <1>2 DEF Return

LEMMA SettleLeaves ==
    ASSUME finished \in Nat, NEW run, SettleReport(run), Return
    PROVE  finished' \in Nat /\ (pc' = "check" \/ UNCHANGED <<any_failed, finished>>)
<1>1. CASE MayReport(run)
  BY <1>1, ReportLeaves DEF SettleReport, ReportRun
<1>2. CASE ~MayReport(run)
  BY <1>2 DEF SettleReport, ReportNone
<1> QED
  BY <1>1, <1>2

\* Every step but the start of a test and the end of the loop body leaves what was
\* started alone, and the flag unless it goes to the check.
Keeps == /\ started' = started /\ finished' \in Nat
         /\ \/ pc' = "check"
            \/ any_failed' = any_failed /\ (pc' \in {"init", "start"} => pc \in {"init", "start"})

LEMMA DequeueKeeps ==
    ASSUME NoneFailed,
           \/ ExitDequeued \/ UnknownExit \/ CancelledDequeued \/ ConnectedDequeued
           \/ DataDequeued \/ AppendFails \/ EmptyDequeued \/ IdleDequeued
           \/ FailedDequeued \/ UnexpectedFailure \/ ListeningDequeued
           \/ WaitTimeout
    PROVE  Keeps
<1>1. finished \in Nat
  BY DEF NoneFailed
<1>2. ASSUME pc = "start", started' = started, Return,
             ReportNone \/ \E run : SettleReport(run)
      PROVE  Keeps
  BY <1>1, <1>2, SettleLeaves DEF Keeps, ReportNone
<1>3. ASSUME NEW run, NEW left, ReadNext(run, left)
      PROVE  ReportNone \/ \E r : SettleReport(r)
  BY <1>3 DEF ReadNext, Settle
<1>4. CASE ExitDequeued
  BY <1>2, <1>4 DEF ExitDequeued, Dequeue, Settle
<1>5. CASE ConnectedDequeued
  BY <1>2, <1>3, <1>5 DEF ConnectedDequeued, WaitingDequeued, Dequeue
<1>6. CASE DataDequeued
  <2>1. \E run, left : ReadNext(run, left)
    BY <1>6 DEF DataDequeued
  <2> QED
    BY <1>2, <1>3, <1>6, <2>1 DEF DataDequeued, Dequeue
<1>7. CASE EmptyDequeued
  BY <1>2, <1>7 DEF EmptyDequeued, Dequeue, Settle
<1>8. CASE FailedDequeued
  BY <1>2, <1>8 DEF FailedDequeued, Dequeue
<1>9. CASE CancelledDequeued \/ AppendFails \/ WaitTimeout
  BY <1>2, <1>9 DEF CancelledDequeued, AppendFails, WaitTimeout, Dequeue
<1>10. CASE UnknownExit \/ IdleDequeued \/ UnexpectedFailure \/ ListeningDequeued
  <2>1. pc' = "aborted" /\ UNCHANGED statusVars
    BY <1>10 DEF UnknownExit, IdleDequeued, UnexpectedFailure, ListeningDequeued
  <2> QED
    BY <1>1, <2>1 DEF Keeps, statusVars
<1> QED
  BY <1>4, <1>5, <1>6, <1>7, <1>8, <1>9, <1>10

LEMMA StartKeeps ==
    ASSUME NoneFailed, Start
    PROVE  NoneFailed' /\ (StopOnFirstError /\ any_failed => started' = started)
<1>1. pc = "start" /\ finished \in Nat /\ ~(StopOnFirstError /\ any_failed)
  BY DEF Start, NoneFailed
<1>2. UNCHANGED <<any_failed, finished>>
  BY DEF Start, StartNew, StartFails, statusVars
<1> QED
  BY <1>1, <1>2 DEF NoneFailed

LEMMA CheckKeepsFlag ==
    ASSUME NoneFailed, Check
    PROVE  NoneFailed' /\ started' = started
<1>1. finished' \in Nat
  <2>1. Cardinality(Remaining) \in Nat
    <3>1. IsFiniteSet(Remaining)
      BY TestsAssumption, FS_Interval, FS_Subset DEF Remaining
    <3> QED
      BY <3>1, FS_CardinalityType
  <2> QED
    BY <2>1 DEF Check, ReportAll, ReportNone, NoneFailed
<1> QED
  BY <1>1 DEF Check, LeaveOrLoop, NoneFailed

\* -x: no test is started once a failure was reported, whatever happens to the
\* pipes.
THEOREM NothingStartedAfterFailure == Spec => NoStartAfterFailure
<1>1. Init => NoneFailed
  BY DEF Init, NoneFailed
<1>2. NoneFailed /\ [Next]_vars =>
        NoneFailed' /\ (StopOnFirstError /\ any_failed => started' = started)
  <2> SUFFICES ASSUME NoneFailed, [Next]_vars
               PROVE  NoneFailed' /\ (StopOnFirstError /\ any_failed => started' = started)
    OBVIOUS
  <2>1. Keeps => NoneFailed' /\ started' = started
    BY DEF NoneFailed, Keeps
  <2>2. CASE Start
    BY <2>2, StartKeeps
  <2>3. CASE Check
    BY <2>3, CheckKeepsFlag
  <2>4. CASE StatusInit
    <3>1. UNCHANGED statusVars /\ pc = "init"
      BY <2>4 DEF StatusInit
    <3> QED
      BY <3>1 DEF statusVars, NoneFailed
  <2>5. CASE Parent /\ ~Start /\ ~Check /\ ~StatusInit
    BY <2>1, <2>5, DequeueKeeps DEF Parent
  <2>6. CASE Children \/ Kernel \/ Time \/ Terminated \/ UNCHANGED vars
    <3>1. UNCHANGED <<pc, statusVars>>
      BY <2>6 DEF Children, Kernel, Time, Terminated, vars, parentVars
    <3> QED
      BY <3>1 DEF statusVars, NoneFailed
  <2> QED
    BY <2>2, <2>3, <2>4, <2>5, <2>6 DEF Next
<1>3. NoneFailed /\ [Next]_vars =>
        [StopOnFirstError /\ any_failed => started' = started]_<<started, any_failed>>
  BY <1>2
<1> QED
  BY <1>1, <1>2, <1>3, PTL DEF Spec, NoStartAfterFailure

-----------------------------------------------------------------------------
(* The Windows runner implements the abstract one too. *)

LEMMA CheckSeen ==
    ASSUME WInv, Counting, Check
    PROVE  Runner!GiveUp \/ Runner!Finish \/ Unseen
<1>1. /\ StateTypes /\ LoopTypes /\ pc = "check" /\ runs' = runs
      /\ any_failed => SomeFailure
  BY DEF WInv, Check, StateTypes
<1>2. CASE StartsFailed
  <2>1. PICK cause \in {"fork", "pipe"} :
           cause = IF fork_failed THEN "fork" ELSE "pipe"
    OBVIOUS
  <2> DEFINE result == ErrorVerdict(cause, NoStep)
  <2>2. result \in Verdict /\ result.outcome # "success"
    BY ErrorVerdictType DEF ErrorVerdict, Causes
  <2>3. ReportAll(Remaining, result)
    BY <1>2, <2>1 DEF Check
  <2> HIDE DEF result
  <2>4. Active = {}
    BY <1>2, ActiveCount DEF Counting, StartsFailed
  <2> QED
    BY <1>1, <2>2, <2>3, <2>4, RestSeen
<1>3. CASE ~StartsFailed
  <2>1. ReportNone /\ LeaveOrLoop
    BY <1>3 DEF Check
  <2>2. finished >= NTests => \A t \in Tests : report[t] # <<>>
    BY <1>1, AllReported
  <2>3. \A t \in Tests : Len(report[t]) <= 1
    BY DEF Counting
  <2> QED
    BY <1>1, <2>1, <2>2, <2>3, LeaveSeen
<1> QED
  BY <1>2, <1>3

LEMMA RunnerStep ==
    ASSUME WInv, Accounts, [Next]_vars, ~reconnected'
    PROVE  [Runner!Next]_(Runner!vars)
<1>1. LoopTypes /\ FailureSeen /\ (pc = "start" => ~(StopOnFirstError /\ any_failed))
  BY FailureIsSeen DEF WInv, StateTypes
<1>2. CASE Unseen
  <2>1. [t \in Tests |-> PhaseOf(t)]' = [t \in Tests |-> PhaseOf(t)]
    BY <1>2 DEF Unseen
  <2> QED
    BY <1>2, <2>1 DEF Unseen, Runner!vars
<1>3. CASE UNCHANGED vars
  <2>1. report' = report /\ runs' = runs /\ pc' = pc
    BY <1>3 DEF vars
  <2>2. \A t : Held(t)' <=> Held(t)
    BY <2>1, SlotsHold
  <2>3. Unseen
    BY <2>1, <2>2, PhaseKept DEF Unseen
  <2> QED
    BY <1>2, <2>3
<1>4. CASE StatusInit
  <2>1. pc # "done" /\ (pc' = "done" => NTests = 0) /\ UNCHANGED <<report, runs>>
    BY <1>4 DEF StatusInit
  <2> QED
    BY <1>2, <2>1, BeginSeen DEF Runner!Next
<1>5. CASE Counting /\ Check
  BY <1>2, <1>5, CheckSeen DEF Runner!Next
<1>6. CASE Calm /\ pc # "done"
  BY <1>2, <1>6, CalmUnseen
<1>7. CASE Counting /\ Releases
  <2>1. PICK s \in Active, result \in Verdict : Released(s, result)
    BY <1>7 DEF Releases
  <2>2. s \in Slots /\ pc # "done" /\ pc' # "done"
    BY <1>7 DEF Active, Releases
  <2>3. \E t \in Tests, r \in {"pass", "fail"} : Runner!Report(t, r)
    BY <1>1, <1>7, <2>1, <2>2, ReleaseReports
  <2> QED
    BY <2>3 DEF Runner!Next, Runner!Tests, Runner!Results
<1>8. CASE Counting /\ Starts
  <2>1. PICK s \in Slots : Filled(s)
    BY <1>8 DEF Starts
  <2>2. pc = "start" /\ pc' = "start" /\ CanStart
    BY <1>8 DEF Starts
  <2>3. \E t \in Tests : Runner!Begin(t)
    BY <1>1, <1>8, <2>1, <2>2, StartBegins
  <2> QED
    BY <2>3 DEF Runner!Next, Runner!Tests
<1> QED
  BY <1>3, <1>4, <1>5, <1>6, <1>7, <1>8, StepMoves

LEMMA RunnerInit == Init => Runner!Init
<1> SUFFICES ASSUME Init
             PROVE  Runner!Init
  OBVIOUS
<1>1. Active = {} /\ (\A t \in Tests : report[t] = <<>>) /\ pc # "done"
  BY DEF Init, Active
<1> QED
  BY <1>1, RunnerBegin

\* tdo_run_all implements the abstract runner on Windows as well, whatever calls
\* fail and in whatever order packets arrive.
THEOREM RunnerImplemented == Spec => ActsAsRunner
<1>1. Init => Runner!Init
  BY RunnerInit
<1>2. (reconnected \/ (WInv /\ Accounts)) /\ [Next]_vars
        => [reconnected' \/ Runner!Next]_(Runner!vars)
  BY RunnerStep, ReconnectedStays
<1> QED
  BY <1>1, <1>2, AccountsAlways, PTL DEF Spec, ActsAsRunner

\* In a queue without packets of a pipe there is no index of one, and in a queue
\* with one packet there is one.
LEMMA PlacesOfIo ==
    ASSUME StateTypes, NEW s \in Slots, NEW k \in Pipes
    PROVE  LET I == {i \in 1..Len(iocp) :
                        iocp[i].what # "exit" /\ iocp[i].slot = s /\ iocp[i].pipe = k}
           IN  /\ NoneOf(iocp, Io(s, k)) => Cardinality(I) = 0
               /\ \A Y \in SUBSET Io(s, k) :
                      OneOf(iocp, Io(s, k), Y) => Cardinality(I) = 1
<1> DEFINE I == {i \in 1..Len(iocp) :
                    iocp[i].what # "exit" /\ iocp[i].slot = s /\ iocp[i].pipe = k}
<1>1. ASSUME NEW i \in I PROVE iocp[i] \in Io(s, k)
  <2>1. iocp[i] \in Packets
    BY ElementOfSeq DEF StateTypes
  <2>2. iocp[i] \in IoOf(s, k, {iocp[i].what}) /\ iocp[i].what \in PacketKinds
    BY <2>1, PacketTypes
  <2> QED
    BY <2>2 DEF Io, IoOf
<1>2. NoneOf(iocp, Io(s, k)) => I = {}
  BY <1>1 DEF NoneOf
<1>3. ASSUME NEW Y \in SUBSET Io(s, k), OneOf(iocp, Io(s, k), Y)
      PROVE  \E i : I = {i}
  <2>1. PICK i \in 1..Len(iocp) : /\ iocp[i] \in Y
                                  /\ \A j \in 1..Len(iocp) : iocp[j] \in Io(s, k) => j = i
    BY <1>3 DEF OneOf
  <2>2. iocp[i].what \in PacketKinds /\ iocp[i].slot = s /\ iocp[i].pipe = k
    BY <2>1, <1>3, PacketSets DEF Io
  <2>3. i \in I
    BY <2>2 DEF PacketKinds
  <2>4. \A j \in I : j = i
    BY <1>1, <2>1
  <2>5. I = {i}
    BY <2>3, <2>4
  <2> QED
    BY <2>5
<1> HIDE DEF I
<1>4. NoneOf(iocp, Io(s, k)) => Cardinality(I) = 0
  BY <1>2, FS_EmptySet
<1>5. \A Y \in SUBSET Io(s, k) : OneOf(iocp, Io(s, k), Y) => Cardinality(I) = 1
  BY <1>3, FS_Singleton
<1> QED
  BY <1>4, <1>5 DEF I

\* Each pipe of a slot has one OVERLAPPED structure, for one operation: a pipe in
\* use has exactly one under way or waiting as a packet, and an idle pipe none
\* (a pipe is cancelled with nothing to cancel only where memory failed).
THEOREM OnePacketEach ==
    ASSUME "memory" \notin Faults
    PROVE  Spec => []OnePacketPerPipe
<1>1. WInv => OnePacketPerPipe
  <2> SUFFICES ASSUME WInv, NEW s \in Slots, NEW k \in Pipes
               PROVE  UnderWay(s, k) = IF runs[s].ov[k] = "idle" THEN 0 ELSE 1
    BY DEF OnePacketPerPipe
  <2> DEFINE I == {i \in 1..Len(iocp) :
                      iocp[i].what # "exit" /\ iocp[i].slot = s /\ iocp[i].pipe = k}
             ov == runs[s].ov[k]
             end == io[s][k]
  <2>1. /\ NoneOf(iocp, Io(s, k)) => Cardinality(I) = 0
        /\ \A Y \in SUBSET Io(s, k) : OneOf(iocp, Io(s, k), Y) => Cardinality(I) = 1
    BY PlacesOfIo DEF WInv
  <2>2. PipeRight(s, k)
    BY DEF WInv, AllRight
  <2>3. UnderWay(s, k) = end.listening + (IF end.reading THEN 1 ELSE 0) + Cardinality(I)
    BY DEF UnderWay
  <2>4. end.listening \in Nat /\ end.reading \in BOOLEAN
    BY DEF WInv, StateTypes, End
  <2> HIDE DEF I
  <2>5. CASE end.listening # 0
    <3>1. ov = "waiting" /\ end.listening = 1 /\ Cardinality(I) = 0 /\ ~end.reading
      BY <2>1, <2>2, <2>5 DEF PipeRight
    <3> QED
      BY <2>3, <3>1
  <2>6. CASE end.listening = 0 /\ end.reading
    <3>1. ov = "connected" /\ Cardinality(I) = 0
      BY <2>1, <2>2, <2>6 DEF PipeRight
    <3> QED
      BY <2>3, <2>6, <3>1
  <2>7. CASE end.listening = 0 /\ ~end.reading /\ ov = "idle"
    <3>1. Cardinality(I) = 0
      BY <2>1, <2>2, <2>7 DEF PipeRight
    <3> QED
      BY <2>3, <2>7, <3>1
  <2>8. CASE end.listening = 0 /\ ~end.reading /\ ov # "idle"
    <3>1. \A W \in SUBSET PacketKinds : IoOf(s, k, W) \subseteq Io(s, k)
      BY DEF Io, IoOf
    <3>2. \A m : DataOf(s, k, m) \subseteq Io(s, k)
      BY DEF DataOf, Io, IoOf, PacketKinds
    <3>3. \A W \in SUBSET PacketKinds :
              OneOf(iocp, Io(s, k), IoOf(s, k, W)) => Cardinality(I) = 1
      BY <2>1, <3>1
    <3>4. \A m : OneOf(iocp, Io(s, k), DataOf(s, k, m)) => Cardinality(I) = 1
      BY <2>1, <3>2
    <3>5. ov \in PipeStates
      BY DEF WInv, StateTypes, Slot
    <3>6. CASE ov = "waiting"
      <4>1. OneOf(iocp, Io(s, k), IoOf(s, k, {"connected"}))
        BY <2>2, <2>8, <3>6 DEF PipeRight, Coming
      <4>2. Cardinality(I) = 1
        BY <3>3, <4>1 DEF PacketKinds
      <4> QED
        BY <2>3, <2>8, <4>2
    <3>7. CASE ov = "connected"
      <4>1. \/ OneOf(iocp, Io(s, k), DataOf(s, k, Len(pipe[runs[s].test][k])))
            \/ OneOf(iocp, Io(s, k), IoOf(s, k, {"broken"}))
        BY <2>2, <2>8, <3>7 DEF PipeRight
      <4>2. Cardinality(I) = 1
        BY <3>3, <3>4, <4>1 DEF PacketKinds
      <4> QED
        BY <2>3, <2>8, <4>2
    <3>8. CASE ov = "cancelling"
      <4>1. OneOf(iocp, Io(s, k), IoOf(s, k, {"connected", "data", "broken", "aborted"}))
        BY <2>2, <3>8 DEF PipeRight
      <4>2. Cardinality(I) = 1
        BY <3>3, <4>1 DEF PacketKinds
      <4> QED
        BY <2>3, <2>8, <4>2
    <3> QED
      BY <2>8, <3>5, <3>6, <3>7, <3>8 DEF PipeStates
  <2> QED
    BY <2>4, <2>5, <2>6, <2>7, <2>8
<1>2. reconnected \/ WInv => OnePacketPerPipe
  BY <1>1 DEF OnePacketPerPipe
<1> QED
  BY <1>2, Invariant, PTL
=============================================================================
