----------------------- MODULE TdoWindowsKernelProofs -----------------------
(* The Windows runner: a pipe that is not idle has one packet to come, the    *)
(* exit of a process comes behind the connection of its pipes, and so the     *)
(* loop counts what it holds and meets no packet it does not expect.          *)
EXTENDS TdoWindowsProperties, TdoLoopProofs

USE DEF Tests, Slots, LoopTypes

-----------------------------------------------------------------------------
(* Queues.  X, Y and Z are sets of packets. *)

\* No packet of X is waiting.
NoneOf(q, X) == \A i \in 1..Len(q) : q[i] \notin X

\* One packet of X is waiting, and it is in Y.
OneOf(q, X, Y) == \E i \in 1..Len(q) : /\ q[i] \in Y
                                       /\ \A j \in 1..Len(q) : q[j] \in X => j = i

\* In front of each packet of Z one of X is waiting.
Behind(q, X, Z) ==
    \A j \in 1..Len(q) : q[j] \in Z => \E i \in 1..(j - 1) : q[i] \in X

LEMMA TailPlaces ==
    ASSUME NEW S, NEW q \in Seq(S), q # <<>>
    PROVE  /\ Tail(q) \in Seq(S) /\ Len(Tail(q)) = Len(q) - 1
           /\ Head(q) \in S /\ Head(q) = q[1] /\ 1 \in 1..Len(q)
           /\ \A i \in 1..Len(Tail(q)) : Tail(q)[i] = q[i + 1] /\ i + 1 \in 1..Len(q)
           /\ \A i \in 1..Len(q) : i # 1 => i - 1 \in 1..Len(Tail(q)) /\ Tail(q)[i - 1] = q[i]
  OBVIOUS

LEMMA ConcatPlaces ==
    ASSUME NEW S, NEW q \in Seq(S), NEW r \in Seq(S)
    PROVE  /\ q \o r \in Seq(S)
           /\ \A i \in 1..Len(q) : i \in 1..Len(q \o r) /\ (q \o r)[i] = q[i]
           /\ \A i \in 1..Len(r) : Len(q) + i \in 1..Len(q \o r) /\ (q \o r)[Len(q) + i] = r[i]
           /\ \A i \in 1..Len(q \o r) :
                 \/ i \in 1..Len(q) /\ (q \o r)[i] = q[i]
                 \/ i > Len(q) /\ i - Len(q) \in 1..Len(r) /\ (q \o r)[i] = r[i - Len(q)]
  OBVIOUS

LEMMA ConcatItem ==
    ASSUME NEW S, NEW q \in Seq(S), NEW r \in Seq(S), NEW i \in 1..Len(q \o r)
    PROVE  \/ \E j \in 1..Len(q) : (q \o r)[i] = q[j]
           \/ \E j \in 1..Len(r) : (q \o r)[i] = r[j]
  BY ConcatPlaces

\* Taking the first packet off.
LEMMA TailNone ==
    ASSUME NEW S, NEW q \in Seq(S), q # <<>>, NEW X, NoneOf(q, X)
    PROVE  NoneOf(Tail(q), X) /\ Head(q) \notin X
  BY TailPlaces DEF NoneOf

LEMMA TailOther ==
    ASSUME NEW S, NEW q \in Seq(S), q # <<>>, NEW X, NEW Y, OneOf(q, X, Y),
           Y \subseteq X, Head(q) \notin X
    PROVE  OneOf(Tail(q), X, Y)
<1>1. PICK i \in 1..Len(q) : q[i] \in Y /\ \A j \in 1..Len(q) : q[j] \in X => j = i
  BY DEF OneOf
<1>2. i # 1
  BY <1>1, TailPlaces
<1>3. i - 1 \in 1..Len(Tail(q)) /\ Tail(q)[i - 1] = q[i]
  BY <1>2, TailPlaces
<1>4. \A j \in 1..Len(Tail(q)) : Tail(q)[j] \in X => j = i - 1
  BY <1>1, TailPlaces
<1> QED
  BY <1>1, <1>3, <1>4 DEF OneOf

LEMMA TailOwn ==
    ASSUME NEW S, NEW q \in Seq(S), q # <<>>, NEW X, NEW Y, OneOf(q, X, Y),
           Head(q) \in X
    PROVE  Head(q) \in Y /\ NoneOf(Tail(q), X)
<1>1. PICK i \in 1..Len(q) : q[i] \in Y /\ \A j \in 1..Len(q) : q[j] \in X => j = i
  BY DEF OneOf
<1>2. i = 1
  BY <1>1, TailPlaces
<1> QED
  BY <1>1, <1>2, TailPlaces DEF NoneOf

LEMMA TailBehind ==
    ASSUME NEW S, NEW q \in Seq(S), q # <<>>, NEW X, NEW Z, Behind(q, X, Z)
    PROVE  /\ Head(q) \notin Z
           /\ Head(q) \notin X => Behind(Tail(q), X, Z)
<1>1. Head(q) \notin Z
  BY TailPlaces DEF Behind
<1>2. ASSUME Head(q) \notin X, NEW j \in 1..Len(Tail(q)), Tail(q)[j] \in Z
      PROVE  \E i \in 1..(j - 1) : Tail(q)[i] \in X
  <2>1. q[j + 1] \in Z /\ j + 1 \in 1..Len(q)
    BY <1>2, TailPlaces
  <2>2. PICK i \in 1..j : q[i] \in X
    BY <2>1 DEF Behind
  <2>3. i # 1 /\ i \in 1..Len(q)
    BY <1>2, <2>1, <2>2, TailPlaces
  <2> QED
    BY <2>2, <2>3, TailPlaces
<1> QED
  BY <1>1, <1>2 DEF Behind

\* Putting packets behind the others.
LEMMA ConcatNone ==
    ASSUME NEW S, NEW q \in Seq(S), NEW r \in Seq(S), NEW X
    PROVE  NoneOf(q \o r, X) <=> NoneOf(q, X) /\ NoneOf(r, X)
<1>1. ASSUME NoneOf(q \o r, X)
      PROVE  NoneOf(q, X) /\ NoneOf(r, X)
  <2>1. ASSUME NEW i \in 1..Len(q)
        PROVE  q[i] \notin X
    BY <1>1, ConcatPlaces DEF NoneOf
  <2>2. ASSUME NEW i \in 1..Len(r)
        PROVE  r[i] \notin X
    <3>1. Len(q) + i \in 1..Len(q \o r) /\ (q \o r)[Len(q) + i] = r[i]
      BY ConcatPlaces
    <3> QED
      BY <1>1, <3>1 DEF NoneOf
  <2> QED
    BY <2>1, <2>2 DEF NoneOf
<1>2. ASSUME NoneOf(q, X), NoneOf(r, X), NEW i \in 1..Len(q \o r)
      PROVE  (q \o r)[i] \notin X
  BY <1>2, ConcatPlaces DEF NoneOf
<1> QED
  BY <1>1, <1>2 DEF NoneOf

LEMMA ConcatLeft ==
    ASSUME NEW S, NEW q \in Seq(S), NEW r \in Seq(S), NEW X, NEW Y,
           OneOf(q, X, Y), NoneOf(r, X)
    PROVE  OneOf(q \o r, X, Y)
<1>1. PICK i \in 1..Len(q) : q[i] \in Y /\ \A j \in 1..Len(q) : q[j] \in X => j = i
  BY DEF OneOf
<1>2. i \in 1..Len(q \o r) /\ (q \o r)[i] \in Y
  BY <1>1, ConcatPlaces
<1>3. \A j \in 1..Len(q \o r) : (q \o r)[j] \in X => j = i
  BY <1>1, ConcatPlaces DEF NoneOf
<1> QED
  BY <1>2, <1>3 DEF OneOf

LEMMA ConcatRight ==
    ASSUME NEW S, NEW q \in Seq(S), NEW r \in Seq(S), NEW X, NEW Y,
           NoneOf(q, X), OneOf(r, X, Y)
    PROVE  OneOf(q \o r, X, Y)
<1>1. PICK i \in 1..Len(r) : r[i] \in Y /\ \A j \in 1..Len(r) : r[j] \in X => j = i
  BY DEF OneOf
<1>2. Len(q) + i \in 1..Len(q \o r) /\ (q \o r)[Len(q) + i] \in Y
  BY <1>1, ConcatPlaces
<1>3. ASSUME NEW j \in 1..Len(q \o r), (q \o r)[j] \in X
      PROVE  j = Len(q) + i
  <2>1. ~(j \in 1..Len(q) /\ (q \o r)[j] = q[j])
    BY <1>3 DEF NoneOf
  <2>2. j - Len(q) \in 1..Len(r) /\ (q \o r)[j] = r[j - Len(q)]
    BY <2>1, ConcatPlaces
  <2>3. j - Len(q) = i
    BY <1>1, <1>3, <2>2
  <2> QED
    BY <2>3
<1> QED
  BY <1>2, <1>3 DEF OneOf

LEMMA ConcatBehind ==
    ASSUME NEW S, NEW q \in Seq(S), NEW r \in Seq(S), NEW X, NEW Z, Behind(q, X, Z),
           NoneOf(r, Z) \/ \E i \in 1..Len(q) : q[i] \in X
    PROVE  Behind(q \o r, X, Z)
<1>1. ASSUME NEW j \in 1..Len(q \o r), (q \o r)[j] \in Z
      PROVE  \E i \in 1..(j - 1) : (q \o r)[i] \in X
  <2>1. CASE j \in 1..Len(q)
    <3>1. q[j] \in Z
      BY <1>1, <2>1, ConcatPlaces
    <3>2. PICK i \in 1..(j - 1) : q[i] \in X
      BY <2>1, <3>1 DEF Behind
    <3>3. i \in 1..Len(q)
      BY <2>1, <3>2
    <3> QED
      BY <3>2, <3>3, ConcatPlaces
  <2>2. CASE j \notin 1..Len(q)
    <3>1. j > Len(q) /\ ~NoneOf(r, Z)
      BY <1>1, <2>2, ConcatPlaces DEF NoneOf
    <3>2. PICK i \in 1..Len(q) : q[i] \in X
      BY <3>1
    <3> QED
      BY <3>1, <3>2, ConcatPlaces
  <2> QED
    BY <2>1, <2>2
<1> QED
  BY <1>1 DEF Behind

LEMMA NoneBehind ==
    ASSUME NEW q, NEW X, NEW Z, NoneOf(q, Z)
    PROVE  Behind(q, X, Z)
  BY DEF NoneOf, Behind

\* Queues of one packet and of none.
LEMMA Single ==
    ASSUME NEW p, NEW X, NEW Y
    PROVE  /\ p \notin X => NoneOf(<<p>>, X)
           /\ p \in Y => OneOf(<<p>>, X, Y)
  BY DEF NoneOf, OneOf

LEMMA Empty == \A X : NoneOf(<<>>, X)
  BY DEF NoneOf
-----------------------------------------------------------------------------
(* Packets. *)

PacketKinds == {"connected", "data", "broken", "aborted", "disconnected"}
IoOf(s, k, W) == [slot : {s}, pipe : {k}, n : Nat, what : W]
Io(s, k) == IoOf(s, k, PacketKinds)
DataOf(s, k, m) == [slot : {s}, pipe : {k}, n : 0..m, what : {"data"}]
ExitOf(t) == [what : {"exit"}, test : {t}]

LEMMA PacketTypes ==
    ASSUME NEW p \in Packets
    PROVE  /\ p.what = "exit" => p.test \in 0..NTests /\ p \in ExitOf(p.test)
           /\ p.what # "exit" => /\ p.slot \in Slots /\ p.pipe \in Pipes
                                 /\ p.what \in PacketKinds
                                 /\ p \in IoOf(p.slot, p.pipe, {p.what})
  BY DEF Packets, IoOf, ExitOf, PacketKinds

LEMMA PacketSets ==
    /\ \A s, k, W : \A p \in IoOf(s, k, W) : p.slot = s /\ p.pipe = k /\ p.what \in W
    /\ \A t : \A p \in ExitOf(t) : p.what = "exit" /\ p.test = t
    /\ \A s, k, m : \A p \in DataOf(s, k, m) : p.n \in 0..m /\ p.what = "data"
    /\ \A s, k, W, V : W \subseteq V => IoOf(s, k, W) \subseteq IoOf(s, k, V)
    /\ \A s, k, W : W \subseteq PacketKinds => IoOf(s, k, W) \subseteq Io(s, k)
    /\ \A s, k : \A m \in Nat : DataOf(s, k, m) \subseteq Io(s, k)
    /\ \A s, k : \A m \in Nat : \A n \in Nat : m <= n => DataOf(s, k, m) \subseteq DataOf(s, k, n)
  BY DEF IoOf, Io, ExitOf, DataOf, PacketKinds

LEMMA PacketMade ==
    ASSUME NEW s \in Slots, NEW k \in Pipes, NEW w \in PacketKinds, NEW n \in Nat
    PROVE  /\ IoPacket(s, k, w, n) \in Packets
           /\ \A W : w \in W => IoPacket(s, k, w, n) \in IoOf(s, k, W)
           /\ IoPacket(s, k, w, n) \in Io(s, k)
           /\ w = "data" => IoPacket(s, k, w, n) \in DataOf(s, k, n)
  BY DEF IoPacket, Packets, IoOf, Io, DataOf, PacketKinds

LEMMA ExitMade ==
    ASSUME NEW t \in 0..NTests
    PROVE  ExitPacket(t) \in Packets /\ ExitPacket(t) \in ExitOf(t)
  BY DEF ExitPacket, Packets, ExitOf

\* The packets of one pipe are no other's, nor exits; an exit is no other's.
LEMMA PacketsApart ==
    /\ \A s, k, r, j : \A p \in Io(s, k) : p \in Io(r, j) => r = s /\ j = k
    /\ \A s, k, t : \A p \in Io(s, k) : p \notin ExitOf(t)
    /\ \A s, k, t : \A p \in ExitOf(t) : p \notin Io(s, k)
    /\ \A t, u : \A p \in ExitOf(t) : p \in ExitOf(u) => t = u
  BY PacketSets DEF Io, PacketKinds

\* A step leaves the packets of X as they are.
Same(X) == /\ NoneOf(iocp, X) => NoneOf(iocp', X)
           /\ \A Y \in SUBSET X : OneOf(iocp, X, Y) => OneOf(iocp', X, Y)

\* It does when it takes a packet off, or none, and adds some, of other kinds.
LEMMA Elsewhere ==
    ASSUME iocp \in Seq(Packets), NEW X, NEW q, NEW r \in Seq(Packets), iocp' = q \o r,
           q = iocp \/ (iocp # <<>> /\ q = Tail(iocp) /\ Packet \notin X),
           NoneOf(r, X)
    PROVE  Same(X)
<1>1. q \in Seq(Packets)
  BY TailPlaces
<1>2. ASSUME NoneOf(iocp, X)
      PROVE  NoneOf(q, X)
  <2>1. CASE iocp # <<>> /\ q = Tail(iocp)
    <3>1. NoneOf(Tail(iocp), X)
      BY <1>2, <2>1, TailNone
    <3> QED
      BY <2>1, <3>1
  <2> QED
    BY <1>2, <2>1
<1>3. ASSUME NEW Y \in SUBSET X, OneOf(iocp, X, Y)
      PROVE  OneOf(q, X, Y)
  BY <1>3, TailOther DEF Packet
<1> QED
  BY <1>1, <1>2, <1>3, ConcatNone, ConcatLeft DEF Same

LEMMA BehindElsewhere ==
    ASSUME iocp \in Seq(Packets), NEW X, NEW Z, NEW q, NEW r \in Seq(Packets), iocp' = q \o r,
           q = iocp \/ (iocp # <<>> /\ q = Tail(iocp) /\ Packet \notin X),
           Behind(iocp, X, Z), NoneOf(r, Z)
    PROVE  Behind(iocp', X, Z)
<1>1. q \in Seq(Packets)
  BY TailPlaces
<1>2. Behind(q, X, Z)
  <2>1. CASE iocp # <<>> /\ q = Tail(iocp) /\ Packet \notin X
    <3>1. Behind(Tail(iocp), X, Z)
      BY <2>1, TailBehind DEF Packet
    <3> QED
      BY <2>1, <3>1
  <2> QED
    BY <2>1
<1> QED
  BY <1>1, <1>2, ConcatBehind
-----------------------------------------------------------------------------
(* The inductive invariant. *)

\* A pipe waits for its connection, which is announced.
Coming(s, k) == runs[s].ov[k] = "waiting" /\ io[s][k].listening = 0

\* A pipe that is not idle has one packet to come; but one that is being cancelled
\* after a failed append may have none, and a status pipe that waits has none
\* until it is opened, its connect being pending.  A pipe that is announced or
\* connected has the slot's child at its other end.
PipeRight(s, k) ==
    LET end == io[s][k]
        ov == runs[s].ov[k]
        onePacket(Y) == OneOf(iocp, Io(s, k), Y)
    IN  /\ end.listening # 0 => /\ k = "status" /\ ov = "waiting" /\ end.listening = 1
                               /\ ~end.open /\ NoneOf(iocp, Io(s, k))
        /\ Coming(s, k) \/ ov = "connected" =>
              runs[s].active /\ end.client = runs[s].test
        /\ end.reading => ov = "connected" /\ NoneOf(iocp, Io(s, k))
        /\ ov = "idle" => ~end.open /\ NoneOf(iocp, Io(s, k))
        /\ Coming(s, k) => onePacket(IoOf(s, k, {"connected"}))
        /\ ov = "connected" /\ ~end.reading =>
              \/ onePacket(DataOf(s, k, Len(pipe[runs[s].test][k])))
              \/ onePacket(IoOf(s, k, {"broken"}))
        /\ ov = "cancelling" =>
              \/ onePacket(IoOf(s, k, {"connected", "data", "broken", "aborted"}))
              \/ "memory" \in Faults /\ runs[s].active /\ NoneOf(iocp, Io(s, k))

\* An active slot: its handle is closed when the exit was handled, which comes
\* after the connections of its pipes, the status pipe's if the child opened it;
\* tdo ends a child only to report that.
ExitRight(s) ==
    LET t == runs[s].test
    IN  /\ t \notin jobExits => runs[s].handle /\ NoneOf(iocp, ExitOf(t))
        /\ t \in jobExits => ~Alive(t)
        /\ t \in jobExits /\ runs[s].handle => OneOf(iocp, ExitOf(t), ExitOf(t))
        /\ ~runs[s].handle =>
              /\ NoneOf(iocp, ExitOf(t))
              /\ runs[s].state = proc[t].state
              /\ \A k \in Pipes : ~Coming(s, k)
        /\ \A k \in Pipes : Coming(s, k) => Behind(iocp, Io(s, k), ExitOf(t))
        /\ proc[t].state # "none"
        /\ proc[t].state = "killed" /\ pc # "done"
              => runs[s].timed_out \/ runs[s].read_too_much

\* A free slot: only a failed start leaves it pipes that are being cancelled, and
\* only a child that never opened its status pipe a connect that is pending.
FreeRight(s) ==
    /\ ~runs[s].handle
    /\ \A k \in Pipes : \/ runs[s].ov[k] = "idle"
                        \/ runs[s].ov[k] = "waiting" /\ io[s][k].listening # 0
                        \/ runs[s].ov[k] = "cancelling" /\ (fork_failed \/ log_setup_failed)

SlotRight(s) == IF runs[s].active THEN ExitRight(s) ELSE FreeRight(s)

\* A test no slot holds is not alive and has no exit to come.
TestRight(t) ==
    /\ proc[t].state \in {"none", "running", "exited", "signalled", "killed"}
    /\ ~Held(t) => ~Alive(t) /\ NoneOf(iocp, ExitOf(t))
    /\ t > started => proc[t].state = "none" /\ t \notin jobExits

AllRight == /\ \A s \in Slots : SlotRight(s) /\ \A k \in Pipes : PipeRight(s, k)
            /\ \A t \in Tests : TestRight(t)
            /\ "spawn" \notin Habits => NoneOf(iocp, ExitOf(0))

\* After failed starts the tests left are reported, and the run is over.
RestFailed == /\ pc = "done" /\ Active = {} /\ running = 0 /\ finished = NTests
              /\ \A t \in Tests : Len(report[t]) = 1

WInv == /\ StateTypes
        /\ AllRight
        /\ Counting \/ RestFailed
        /\ pc = "aborted" => "spawn" \in Habits
        /\ any_failed => SomeFailure
        /\ pc = "done" => finished >= NTests \/ (StopOnFirstError /\ any_failed)
        /\ pc \in {"init", "start"} => ~(StopOnFirstError /\ any_failed)
-----------------------------------------------------------------------------
(* What a step leaves alone.  F are the pipes, E the tests whose packets it   *)
(* takes off the queue or puts on it.                                         *)

Touched(p, F, E) == IF p.what = "exit" THEN p.test \in E ELSE <<p.slot, p.pipe>> \in F

QueueStep(F, E) ==
    \E q \in Seq(Packets), r \in Seq(Packets) :
        /\ iocp' = q \o r
        /\ q = iocp \/ (iocp # <<>> /\ q = Tail(iocp) /\ Touched(Packet, F, E))
        /\ \A i \in 1..Len(r) : Touched(r[i], F, E)

LEMMA QueueKept ==
    ASSUME iocp \in Seq(Packets), iocp' = iocp, NEW F, NEW E
    PROVE  QueueStep(F, E)
<1>1. iocp \o <<>> = iocp /\ <<>> \in Seq(Packets) /\ Len(<<>>) = 0
  BY ConcatEmptySeq
<1>2. \A i \in 1..Len(<<>>) : Touched(<<>>[i], F, E)
  BY <1>1
<1>3. /\ iocp' = iocp \o <<>>
      /\ iocp = iocp \/ (iocp # <<>> /\ iocp = Tail(iocp) /\ Touched(Packet, F, E))
  BY <1>1
<1> QED
  BY <1>1, <1>2, <1>3, Zenon DEF QueueStep

LEMMA QueueAppended ==
    ASSUME iocp \in Seq(Packets), NEW p \in Packets, NEW F, NEW E, Touched(p, F, E),
           iocp' = Append(iocp, p)
    PROVE  /\ QueueStep(F, E)
           /\ iocp' = iocp \o <<p>> /\ <<p>> \in Seq(Packets) /\ iocp' \in Seq(Packets)
<1>1. iocp' = iocp \o <<p>> /\ <<p>> \in Seq(Packets) /\ iocp' \in Seq(Packets)
  OBVIOUS
<1>2. \A i \in 1..Len(<<p>>) : Touched(<<p>>[i], F, E)
  OBVIOUS
<1> QED
  BY <1>1, <1>2 DEF QueueStep

LEMMA QueueFrame ==
    ASSUME iocp \in Seq(Packets), NEW F, NEW E, QueueStep(F, E)
    PROVE  /\ iocp' \in Seq(Packets)
           /\ \A s, k : <<s, k>> \notin F => Same(Io(s, k))
           /\ \A t : t \notin E => Same(ExitOf(t))
           /\ \A s, k, t : <<s, k>> \notin F /\ t \notin E
                           /\ Behind(iocp, Io(s, k), ExitOf(t))
                              => Behind(iocp', Io(s, k), ExitOf(t))
<1>1. PICK q \in Seq(Packets), r \in Seq(Packets) :
        /\ iocp' = q \o r
        /\ q = iocp \/ (iocp # <<>> /\ q = Tail(iocp) /\ Touched(Packet, F, E))
        /\ \A i \in 1..Len(r) : Touched(r[i], F, E)
  BY DEF QueueStep
<1>2. iocp' \in Seq(Packets)
  BY <1>1
<1>3. ASSUME NEW s, NEW k, <<s, k>> \notin F
      PROVE  /\ NoneOf(r, Io(s, k))
             /\ q = iocp \/ (iocp # <<>> /\ q = Tail(iocp) /\ Packet \notin Io(s, k))
  <2>1. ASSUME NEW p, Touched(p, F, E), p \in Io(s, k)
        PROVE  FALSE
    <3>1. p.slot = s /\ p.pipe = k /\ p.what # "exit"
      BY <2>1, PacketSets DEF Io, PacketKinds
    <3> QED
      BY <1>3, <2>1, <3>1 DEF Touched
  <2> QED
    BY <1>1, <2>1 DEF NoneOf
<1>4. ASSUME NEW t, t \notin E
      PROVE  /\ NoneOf(r, ExitOf(t))
             /\ q = iocp \/ (iocp # <<>> /\ q = Tail(iocp) /\ Packet \notin ExitOf(t))
  <2>1. \A p : Touched(p, F, E) => p \notin ExitOf(t)
    BY <1>4, PacketSets DEF Touched
  <2> QED
    BY <1>1, <2>1 DEF NoneOf
<1>5. ASSUME NEW s, NEW k, <<s, k>> \notin F
      PROVE  Same(Io(s, k))
  BY <1>1, <1>3, <1>5, Elsewhere
<1>6. ASSUME NEW t, t \notin E
      PROVE  Same(ExitOf(t))
  BY <1>1, <1>4, <1>6, Elsewhere
<1>7. ASSUME NEW s, NEW k, NEW t, <<s, k>> \notin F, t \notin E,
             Behind(iocp, Io(s, k), ExitOf(t))
      PROVE  Behind(iocp', Io(s, k), ExitOf(t))
  BY <1>1, <1>3, <1>4, <1>7, BehindElsewhere
<1> QED
  BY <1>2, <1>5, <1>6, <1>7

LEMMA PipeKept ==
    ASSUME StateTypes, StateTypes', NEW s \in Slots, NEW k \in Pipes, PipeRight(s, k),
           Same(Io(s, k)),
           runs'[s].ov[k] = runs[s].ov[k],
           runs[s].ov[k] # "idle" /\ io[s][k].listening = 0 =>
               runs'[s].active = runs[s].active /\ runs'[s].test = runs[s].test,
           io'[s][k].listening = io[s][k].listening,
           io'[s][k].reading = io[s][k].reading,
           io'[s][k].client = io[s][k].client,
           io'[s][k].open => io[s][k].open,
           runs[s].active => Len(pipe[TestOf(s)][k]) <= Len(pipe'[TestOf(s)][k])
    PROVE  PipeRight(s, k)'
<1> DEFINE ov == runs[s].ov[k]
           m == Len(pipe[runs[s].test][k])
           n == Len(pipe'[runs[s].test][k])
<1>1. NoneOf(iocp, Io(s, k)) => NoneOf(iocp', Io(s, k))
  BY DEF Same
<1>2. \A W \in SUBSET PacketKinds : OneOf(iocp, Io(s, k), IoOf(s, k, W))
                                  => OneOf(iocp', Io(s, k), IoOf(s, k, W))
  BY PacketSets DEF Same
<1>3. ASSUME ov = "connected", OneOf(iocp, Io(s, k), DataOf(s, k, m))
      PROVE  OneOf(iocp', Io(s, k), DataOf(s, k, n))
  <2>1. runs[s].test \in Tests /\ runs[s].active
    BY <1>3, ActiveTest DEF PipeRight, Active, StateTypes
  <2>2. m \in Nat /\ n \in Nat /\ m <= n
    <3>1. pipe \in [Tests -> Contents] /\ pipe' \in [Tests -> Contents]
      BY DEF StateTypes
    <3>2. pipe[runs[s].test][k] \in Seq(Item) /\ pipe'[runs[s].test][k] \in Seq(Item)
      BY <2>1, <3>1, PipeType
    <3>3. PICK x \in Seq(Item) : x = pipe[runs[s].test][k]
      BY <3>2
    <3>4. PICK y \in Seq(Item) : y = pipe'[runs[s].test][k]
      BY <3>2
    <3>5. Len(x) \in Nat /\ Len(y) \in Nat
      OBVIOUS
    <3> QED
      BY <2>1, <3>3, <3>4, <3>5 DEF TestOf
  <2> HIDE DEF m, n
  <2>3. OneOf(iocp', Io(s, k), DataOf(s, k, m))
    BY <1>3, <2>2, PacketSets DEF Same
  <2>4. DataOf(s, k, m) \subseteq DataOf(s, k, n)
    BY <2>2, PacketSets
  <2> QED
    BY <2>3, <2>4 DEF OneOf
<1>4. Coming(s, k)' <=> Coming(s, k)
  BY DEF Coming
<1> QED
  BY <1>1, <1>2, <1>3, <1>4 DEF PipeRight, PacketKinds, Coming

\* Only a child that is alive changes its state.
ProcStep(t) ==
    \/ proc'[t].state = proc[t].state
    \/ Alive(t) /\ proc'[t].state \in {"running", "exited", "signalled", "killed"}

\* Slot s keeps what its child left, and a child it ended is to be reported so.
SlotKept(s) ==
    /\ runs'[s].active = runs[s].active /\ runs'[s].test = runs[s].test
    /\ runs'[s].handle = runs[s].handle /\ runs'[s].state = runs[s].state
    /\ runs[s].timed_out => runs'[s].timed_out
    /\ runs[s].read_too_much => runs'[s].read_too_much
    /\ runs[s].active /\ proc'[TestOf(s)].state = "killed" =>
          \/ proc[TestOf(s)].state = "killed" \/ pc' = "done"
          \/ runs'[s].timed_out \/ runs'[s].read_too_much

\* The job announces no exit but those of E.
JobKept(E) == \A t : t \notin E => (t \in jobExits' <=> t \in jobExits)

LEMMA ExitKept ==
    ASSUME StateTypes, NEW s \in Slots, runs[s].active, ExitRight(s), SlotKept(s), ProcStep(TestOf(s)),
           pc = "done" => pc' = "done",
           TestOf(s) \in jobExits' <=> TestOf(s) \in jobExits,
           Same(ExitOf(TestOf(s))),
           \A k \in Pipes : Coming(s, k)' =>
               /\ Coming(s, k) \/ TestOf(s) \notin jobExits
               /\ Behind(iocp', Io(s, k), ExitOf(TestOf(s)))
    PROVE  ExitRight(s)'
<1>0. runs[s].test \in Tests
  BY ActiveTest DEF Active, StateTypes
<1>a. PICK t \in Tests : t = runs[s].test
  BY <1>0
<1>1. t \in Tests /\ runs[s].test = t /\ runs'[s].test = t /\ TestOf(s) = t
  BY <1>a DEF SlotKept, TestOf
<1>2. /\ NoneOf(iocp, ExitOf(t)) => NoneOf(iocp', ExitOf(t))
      /\ OneOf(iocp, ExitOf(t), ExitOf(t)) => OneOf(iocp', ExitOf(t), ExitOf(t))
  BY <1>1 DEF Same
<1>3. t \in jobExits => ~Alive(t) /\ proc'[t].state = proc[t].state /\ ~Alive(t)'
  BY <1>1 DEF ExitRight, ProcStep, Alive
<1>4. proc'[t].state # "none"
  BY <1>1 DEF ExitRight, ProcStep
<1>5. t \in jobExits' <=> t \in jobExits
  BY <1>1
<1>6. proc'[t].state = "killed" /\ pc' # "done" => runs'[s].timed_out \/ runs'[s].read_too_much
  <2>1. ASSUME proc'[t].state = "killed", pc' # "done"
        PROVE  \/ proc[t].state = "killed" /\ pc # "done"
               \/ runs'[s].timed_out \/ runs'[s].read_too_much
    BY <1>1, <2>1 DEF SlotKept
  <2>2. ASSUME proc[t].state = "killed", pc # "done"
        PROVE  runs'[s].timed_out \/ runs'[s].read_too_much
    <3>1. runs[s].timed_out \/ runs[s].read_too_much
      BY <1>1, <2>2 DEF ExitRight
    <3> QED
      BY <3>1 DEF SlotKept
  <2> QED
    BY <2>1, <2>2
<1>7. ~runs[s].handle => t \in jobExits
  BY <1>1 DEF ExitRight
<1>8. \A k \in Pipes : Coming(s, k)' =>
          (Coming(s, k) \/ t \notin jobExits) /\ Behind(iocp', Io(s, k), ExitOf(t))
  BY <1>1
<1>9. runs'[s].handle = runs[s].handle /\ runs'[s].state = runs[s].state
  BY DEF SlotKept
<1>10. ExitRight(s)' <=>
         /\ t \notin jobExits' => runs'[s].handle /\ NoneOf(iocp', ExitOf(t))
         /\ t \in jobExits' => ~Alive(t)'
         /\ t \in jobExits' /\ runs'[s].handle => OneOf(iocp', ExitOf(t), ExitOf(t))
         /\ ~runs'[s].handle =>
              /\ NoneOf(iocp', ExitOf(t))
              /\ runs'[s].state = proc'[t].state
              /\ \A k \in Pipes : ~Coming(s, k)'
         /\ \A k \in Pipes : Coming(s, k)' => Behind(iocp', Io(s, k), ExitOf(t))
         /\ proc'[t].state # "none"
         /\ proc'[t].state = "killed" /\ pc' # "done"
              => runs'[s].timed_out \/ runs'[s].read_too_much
  BY <1>1 DEF ExitRight, Alive
<1>11. /\ t \notin jobExits => runs[s].handle /\ NoneOf(iocp, ExitOf(t))
       /\ t \in jobExits /\ runs[s].handle => OneOf(iocp, ExitOf(t), ExitOf(t))
       /\ ~runs[s].handle =>
              /\ NoneOf(iocp, ExitOf(t))
              /\ runs[s].state = proc[t].state
              /\ \A k \in Pipes : ~Coming(s, k)
  BY <1>1 DEF ExitRight, TestOf
<1> QED
  BY <1>2, <1>3, <1>4, <1>5, <1>6, <1>7, <1>8, <1>9, <1>10, <1>11

\* A step that keeps the slot and touches none of its waiting pipes.
LEMMA SlotRightKept ==
    ASSUME StateTypes, NEW s \in Slots, SlotRight(s), SlotKept(s),
           pc = "done" => pc' = "done",
           NEW F, NEW E, QueueStep(F, E),
           runs[s].active => /\ TestOf(s) \notin E /\ ProcStep(TestOf(s))
                             /\ TestOf(s) \in jobExits' <=> TestOf(s) \in jobExits,
           \A k \in Pipes :
               \/ /\ runs'[s].ov[k] = runs[s].ov[k] /\ <<s, k>> \notin F
                  /\ io'[s][k].listening = io[s][k].listening
               \/ runs'[s].ov[k] = "idle"
               \/ runs'[s].ov[k] \in {"connected", "cancelling"} /\ runs[s].active,
           fork_failed \/ log_setup_failed => fork_failed' \/ log_setup_failed'
    PROVE  SlotRight(s)'
<1>1. CASE runs[s].active
  <2>1. ExitRight(s) /\ runs'[s].active
    BY <1>1 DEF SlotRight, SlotKept
  <2>2. Same(ExitOf(TestOf(s)))
    BY <1>1, QueueFrame DEF StateTypes
  <2>3. ASSUME NEW k \in Pipes, Coming(s, k)'
        PROVE  Coming(s, k) /\ Behind(iocp', Io(s, k), ExitOf(TestOf(s)))
    <3>1. Coming(s, k) /\ <<s, k>> \notin F
      BY <2>3 DEF Coming
    <3>2. Behind(iocp, Io(s, k), ExitOf(TestOf(s)))
      BY <2>1, <3>1 DEF ExitRight, TestOf
    <3> QED
      BY <1>1, <3>1, <3>2, QueueFrame DEF StateTypes
  <2>4. ExitRight(s)'
    BY <1>1, <2>1, <2>2, <2>3, ExitKept
  <2> QED
    BY <2>1, <2>4 DEF SlotRight
<1>2. CASE ~runs[s].active
  BY <1>2 DEF SlotRight, FreeRight, SlotKept
<1> QED
  BY <1>1, <1>2

LEMMA TestRightKept ==
    ASSUME StateTypes, NEW t \in Tests, TestRight(t), ProcStep(t),
           ~Held(t)' => ~Held(t) /\ Same(ExitOf(t)),
           t > started' => t > started /\ (t \in jobExits' => t \in jobExits)
    PROVE  TestRight(t)'
<1>1. proc'[t].state \in {"none", "running", "exited", "signalled", "killed"}
  BY DEF TestRight, ProcStep
<1>2. ~Held(t)' => ~Alive(t)' /\ NoneOf(iocp', ExitOf(t))
  BY DEF TestRight, ProcStep, Same, Alive
<1>3. t > started' => proc'[t].state = "none" /\ t \notin jobExits'
  BY DEF TestRight, ProcStep, Alive
<1> QED
  BY <1>1, <1>2, <1>3 DEF TestRight

-----------------------------------------------------------------------------
(* The steps of the children, the kernel and the clock, and those of the      *)
(* parent that look at no packet.                                             *)

PipesGrow == \A t \in Tests, k \in Pipes : Len(pipe[t][k]) <= Len(pipe'[t][k])

\* Nothing but logs, pipes, children and the place in the loop changes.
QuietStep ==
    /\ \A s \in Slots : SlotKept(s) /\ runs'[s].ov = runs[s].ov
    /\ \A t \in Tests : ProcStep(t)
    /\ PipesGrow
    /\ pc = "done" => pc' = "done"
    /\ started' = started
    /\ fork_failed \/ log_setup_failed => fork_failed' \/ log_setup_failed'

\* No connect is made, none is given up.
ListeningKept ==
    \A s \in Slots, k \in Pipes : io'[s][k].listening = io[s][k].listening

LEMMA HeldKept ==
    ASSUME \A s \in Slots : SlotKept(s)
    PROVE  \A t : Held(t)' <=> Held(t)
  BY SlotsHold DEF SlotKept

\* Such a step, with packets of the pipes in F, of the slots' tests or of no test.
LEMMA QuietSlots ==
    ASSUME StateTypes, StateTypes', AllRight, QuietStep, NEW F, NEW E, QueueStep(F, E),
           JobKept(E), ListeningKept,
           \A s \in Slots, k \in Pipes : <<s, k>> \in F => io[s][k].reading,
           \A t \in Tests \cap E : Held(t),
           \A t \in Tests : t \in jobExits' => t \in jobExits \/ t <= started
    PROVE  /\ \A s \in Slots : runs[s].active /\ TestOf(s) \notin E => SlotRight(s)'
           /\ \A s \in Slots : ~runs[s].active => SlotRight(s)'
           /\ \A t \in Tests : TestRight(t)'
           /\ \A s \in Slots, k \in Pipes : <<s, k>> \notin F => Same(Io(s, k))
<1>1. ASSUME NEW s \in Slots, runs[s].active => TestOf(s) \notin E
      PROVE  SlotRight(s)'
  <2>1. SlotRight(s) /\ SlotKept(s)
    BY DEF AllRight, QuietStep
  <2>2. runs[s].active => /\ ProcStep(TestOf(s)) /\ TestOf(s) \notin E
                          /\ TestOf(s) \in jobExits' <=> TestOf(s) \in jobExits
    BY <1>1, ActiveTest DEF QuietStep, Active, TestOf, StateTypes, JobKept
  <2>3. ASSUME NEW k \in Pipes
        PROVE  \/ /\ runs'[s].ov[k] = runs[s].ov[k] /\ <<s, k>> \notin F
                  /\ io'[s][k].listening = io[s][k].listening
               \/ runs'[s].ov[k] \in {"connected", "cancelling"} /\ runs[s].active
    <3>1. runs'[s].ov[k] = runs[s].ov[k] /\ PipeRight(s, k)
      BY DEF AllRight, QuietStep
    <3>2. CASE <<s, k>> \in F
      <4>1. io[s][k].reading
        BY <3>2
      <4> QED
        BY <3>1, <4>1 DEF PipeRight, Coming
    <3> QED
      BY <3>1, <3>2 DEF ListeningKept
  <2> QED
    BY <1>1, <2>1, <2>2, <2>3, SlotRightKept DEF QuietStep
<1>2. ASSUME NEW t \in Tests
      PROVE  TestRight(t)'
  <2>1. TestRight(t) /\ ProcStep(t) /\ started' = started
    BY DEF AllRight, QuietStep
  <2>2. Held(t)' <=> Held(t)
    BY HeldKept DEF QuietStep
  <2>3. ~Held(t) => Same(ExitOf(t))
    BY QueueFrame DEF StateTypes
  <2> QED
    BY <2>1, <2>2, <2>3, TestRightKept DEF StateTypes
<1>3. \A s \in Slots, k \in Pipes : <<s, k>> \notin F => Same(Io(s, k))
  BY QueueFrame DEF StateTypes
<1> QED
  BY <1>1, <1>2, <1>3

\* The pipes of a slot whose kernel side stays as it is.
LEMMA QuietPipe ==
    ASSUME StateTypes, StateTypes', AllRight, QuietStep, NEW s \in Slots, NEW k \in Pipes,
           Same(Io(s, k)), io'[s][k].listening = io[s][k].listening,
           io'[s][k].reading = io[s][k].reading, io'[s][k].client = io[s][k].client,
           io'[s][k].open => io[s][k].open
    PROVE  PipeRight(s, k)'
<1>1. runs[s].active => Len(pipe[TestOf(s)][k]) <= Len(pipe'[TestOf(s)][k])
  BY ActiveTest DEF QuietStep, PipesGrow, Active, TestOf, StateTypes
<1>2. PipeRight(s, k) /\ SlotKept(s) /\ runs'[s].ov = runs[s].ov
  BY DEF AllRight, QuietStep
<1> QED
  BY <1>1, <1>2, PipeKept DEF SlotKept

LEMMA QuietRight ==
    ASSUME StateTypes, StateTypes', AllRight, QuietStep, UNCHANGED osVars
    PROVE  AllRight'
<1>1. QueueStep({}, {})
  BY QueueKept DEF osVars, StateTypes
<1>2. /\ \A s \in Slots : SlotRight(s)'
      /\ \A t \in Tests : TestRight(t)'
      /\ \A s \in Slots, k \in Pipes : Same(Io(s, k))
  <2> DEFINE F == {}
             E == {}
  <2>1. /\ \A s \in Slots, k \in Pipes : <<s, k>> \notin F
        /\ \A t \in Tests : t \notin E
        /\ \A s \in Slots : TestOf(s) \notin E
        /\ jobExits' = jobExits /\ JobKept(E) /\ ListeningKept
    BY DEF osVars, jobVars, JobKept, ListeningKept
  <2>2. QueueStep(F, E) /\ \A t \in Tests \cap E : Held(t)
    BY <1>1
  <2> HIDE DEF F, E
  <2>3. /\ \A s \in Slots : runs[s].active /\ TestOf(s) \notin E => SlotRight(s)'
        /\ \A s \in Slots : ~runs[s].active => SlotRight(s)'
        /\ \A t \in Tests : TestRight(t)'
        /\ \A s \in Slots, k \in Pipes : <<s, k>> \notin F => Same(Io(s, k))
    BY <2>1, <2>2, QuietSlots
  <2> QED
    BY <2>1, <2>3, Zenon
<1>3. \A s \in Slots, k \in Pipes : PipeRight(s, k)'
  BY <1>2, QuietPipe DEF osVars
<1>4. "spawn" \notin Habits => NoneOf(iocp', ExitOf(0))
  BY DEF AllRight, osVars
<1> QED
  BY <1>2, <1>3, <1>4 DEF AllRight

\* A packet of data is put behind the others when a read was pending.
LEMMA DeliverRight ==
    ASSUME StateTypes, StateTypes', AllRight, QuietStep, jobExits' = jobExits,
           NEW s \in Active, NEW k \in Pipes, NEW n \in Nat, io[s][k].reading,
           n <= Len(pipe'[TestOf(s)][k]),
           io' = [io EXCEPT ![s][k].reading = FALSE],
           iocp' = Append(iocp, IoPacket(s, k, "data", n))
    PROVE  AllRight'
<1> DEFINE p == IoPacket(s, k, "data", n)
           F == {<<s, k>>}
<1>1. s \in Slots /\ p \in Packets /\ p \in Io(s, k) /\ p \in DataOf(s, k, n)
      /\ Touched(p, F, {})
  BY PacketMade DEF Active, PacketKinds, Touched, IoPacket
<1> HIDE DEF p
<1>2. iocp' = iocp \o <<p>> /\ <<p>> \in Seq(Packets) /\ QueueStep(F, {})
  <2>1. iocp \in Seq(Packets) /\ iocp' = Append(iocp, p)
    BY DEF StateTypes, p
  <2> HIDE DEF F
  <2> QED
    BY <1>1, <2>1, QueueAppended
<1>3. QueueStep(F, {})
  BY <1>2
<1>4. \A r \in Slots, j \in Pipes : <<r, j>> \in F => r = s /\ j = k
  OBVIOUS
<1>5. /\ \A r \in Slots : SlotRight(r)'
      /\ \A t \in Tests : TestRight(t)'
      /\ \A r \in Slots, j \in Pipes : <<r, j>> \notin F => Same(Io(r, j))
  <2>1. JobKept({}) /\ (\A t \in Tests \cap {} : Held(t)) /\ ListeningKept
    <3>1. ListeningKept
      BY <1>1 DEF ListeningKept, StateTypes, End
    <3> QED
      BY <3>1 DEF JobKept
  <2> HIDE DEF F
  <2> QED
    BY <1>3, <1>4, <2>1, QuietSlots
<1>6. ASSUME NEW r \in Slots, NEW j \in Pipes
      PROVE  PipeRight(r, j)'
  <2>1. CASE r # s \/ j # k
    <3>1. Same(Io(r, j)) /\ io'[r][j] = io[r][j]
      BY <1>1, <1>5, <2>1 DEF StateTypes
    <3> QED
      BY <3>1, QuietPipe
  <2>2. CASE r = s /\ j = k
    <3>1. PipeRight(s, k) /\ runs'[s].ov[k] = runs[s].ov[k] /\ SlotKept(s)
      BY <1>1 DEF AllRight, QuietStep
    <3>2. runs[s].ov[k] = "connected" /\ NoneOf(iocp, Io(s, k)) /\ io[s][k].listening = 0
          /\ io[s][k].client = runs[s].test
      BY <3>1 DEF PipeRight
    <3>3. OneOf(iocp', Io(s, k), DataOf(s, k, Len(pipe'[TestOf(s)][k])))
      <4>1. PICK m \in Nat : m = Len(pipe'[TestOf(s)][k])
        <5>1. pipe' \in [Tests -> Contents] /\ TestOf(s) \in Tests
          BY ActiveTest DEF StateTypes, TestOf
        <5>2. PICK q \in Seq(Item) : q = pipe'[TestOf(s)][k]
          BY <5>1, PipeType
        <5>3. Len(q) \in Nat
          BY <5>2
        <5> QED
          BY <5>2, <5>3
      <4>2. p \in DataOf(s, k, m)
        BY <1>1, <4>1, PacketSets
      <4>3. OneOf(<<p>>, Io(s, k), DataOf(s, k, m))
        BY <4>2, Single
      <4>4. OneOf(iocp', Io(s, k), DataOf(s, k, m))
        <5>1. iocp \in Seq(Packets) /\ NoneOf(iocp, Io(s, k))
          BY <3>2 DEF StateTypes
        <5>2. OneOf(iocp \o <<p>>, Io(s, k), DataOf(s, k, m))
          BY <1>2, <4>3, <5>1, ConcatRight
        <5> QED
          BY <1>2, <5>2
      <4> QED
        BY <4>1, <4>4
    <3>4. io'[s][k] = [io[s][k] EXCEPT !.reading = FALSE] /\ io[s][k] \in End
      BY <1>1 DEF StateTypes
    <3>5. /\ ~io'[s][k].reading /\ io'[s][k].listening = 0
          /\ io'[s][k].client = runs[s].test
      BY <3>2, <3>4 DEF End
    <3> QED
      BY <2>2, <3>1, <3>2, <3>3, <3>5 DEF PipeRight, Coming, SlotKept, TestOf, Active
  <2> QED
    BY <2>1, <2>2
<1>7. "spawn" \notin Habits => NoneOf(iocp', ExitOf(0))
  BY <1>3, QueueFrame DEF AllRight, Same, StateTypes
<1> QED
  BY <1>5, <1>6, <1>7 DEF AllRight
-----------------------------------------------------------------------------
(* The steps of the children and of the clock. *)

\* A child fills its own pipes, and ends without being stopped.
LEMMA ChildFills ==
    ASSUME LoopTypes, NEW t \in Tests, ChildStep(t)
    PROVE  /\ proc'[t].state \in {"running", "exited", "signalled"}
           /\ \A k \in Pipes : Len(pipe[t][k]) <= Len(pipe'[t][k])
           /\ pipe' # pipe => \E k \in Pipes : pipe'[t][k] # pipe[t][k]
<1>1. proc[t] \in Process /\ proc \in [Tests -> Process] /\ pipe \in [Tests -> Contents]
      /\ pipe[t] \in Contents /\ \A k \in Pipes : pipe[t][k] \in Seq(Item)
  BY PipeType
<1>2. ASSUME NEW j \in Pipes, NEW items, pipe' = [pipe EXCEPT ![t][j] = items],
             Len(pipe[t][j]) <= Len(items)
      PROVE  /\ \A k \in Pipes : Len(pipe[t][k]) <= Len(pipe'[t][k])
             /\ pipe' # pipe => \E k \in Pipes : pipe'[t][k] # pipe[t][k]
  <2>1. pipe'[t] = [pipe[t] EXCEPT ![j] = items] /\ pipe'[t][j] = items
    BY <1>1, <1>2 DEF Contents
  <2>2. ASSUME NEW k \in Pipes, k # j
        PROVE  pipe'[t][k] = pipe[t][k] /\ Len(pipe[t][k]) <= Len(pipe[t][k])
    <3>1. Len(pipe[t][k]) \in Nat
      BY <1>1
    <3> QED
      BY <1>1, <2>1, <2>2, <3>1 DEF Contents
  <2>3. ASSUME pipe'[t][j] = pipe[t][j]
        PROVE  pipe' = pipe
    <3>1. items = pipe[t][j]
      BY <2>1, <2>3
    <3>2. [pipe[t] EXCEPT ![j] = pipe[t][j]] = pipe[t]
      BY <1>1 DEF Contents
    <3>3. pipe' = [pipe EXCEPT ![t] = pipe[t]]
      BY <1>2, <3>1, <3>2
    <3> QED
      BY <1>1, <3>3
  <2> QED
    BY <1>2, <2>1, <2>2, <2>3
<1>3. ASSUME pipe' = pipe
      PROVE  /\ \A k \in Pipes : Len(pipe[t][k]) <= Len(pipe'[t][k])
             /\ pipe' # pipe => \E k \in Pipes : pipe'[t][k] # pipe[t][k]
  <2>1. \A k \in Pipes : Len(pipe[t][k]) \in Nat
    BY <1>1
  <2> QED
    BY <1>3, <2>1
<1>4. ASSUME NEW step, NEW failed \in BOOLEAN, Announce(t, step, failed)
      PROVE  /\ proc'[t].state = "running"
             /\ \A k \in Pipes : Len(pipe[t][k]) <= Len(pipe'[t][k])
             /\ pipe' # pipe => \E k \in Pipes : pipe'[t][k] # pipe[t][k]
  <2> DEFINE line == StatusLine(t, step)
             last == ErrorLine(t)
             new == IF failed THEN <<line, last>> ELSE <<line>>
  <2>1. pipe' = [pipe EXCEPT ![t]["status"] = pipe[t]["status"] \o new]
    BY <1>4 DEF Announce
  <2>2. "status" \in Pipes
    BY DEF Pipes
  <2>3. Len(pipe[t]["status"]) <= Len(pipe[t]["status"] \o new)
    <3> HIDE DEF line, last
    <3>1. PICK q \in Seq(Item) : q = pipe[t]["status"]
      BY <1>1, <2>2
    <3>2. Len(q \o <<line, last>>) = Len(q) + 2 /\ Len(q \o <<line>>) = Len(q) + 1
          /\ Len(q) \in Nat
      OBVIOUS
    <3>3. Len(q) <= Len(q \o new)
      BY <3>2
    <3> QED
      BY <3>1, <3>3
  <2>4. proc'[t].state = "running"
    BY <1>1, <1>4 DEF Announce, Running, Process
  <2> HIDE DEF new
  <2> QED
    BY <1>2, <2>1, <2>2, <2>3, <2>4
<1>5. CASE Proceed(t) \/ LoadError(t)
  BY <1>4, <1>5 DEF Proceed, LoadError
<1>6. CASE \E k \in Streams : Write(t, k)
  <2>1. PICK k \in Streams : Write(t, k)
    BY <1>6
  <2> DEFINE chunk == Chunk(t, k, wrote[t][k] + 1)
  <2>2. pipe' = [pipe EXCEPT ![t][k] = Append(pipe[t][k], chunk)]
        /\ k \in Pipes /\ proc' = proc /\ proc[t].state = "running"
    BY <2>1 DEF Write, Pipes, InUserCode, Running
  <2>3. Len(pipe[t][k]) <= Len(Append(pipe[t][k], chunk))
    <3> HIDE DEF chunk
    <3>1. PICK q \in Seq(Item) : q = pipe[t][k]
      BY <1>1, <2>2
    <3>2. Len(Append(q, chunk)) = Len(q) + 1
      OBVIOUS
    <3> QED
      BY <3>1, <3>2
  <2> HIDE DEF chunk
  <2> QED
    BY <1>2, <2>2, <2>3
<1>7. CASE Exit(t) \/ Signal(t)
  <2>0. EndAs(t, "exited") \/ EndAs(t, "signalled")
    BY <1>7 DEF Exit, Signal
  <2>1. proc'[t].state \in {"exited", "signalled"}
    <3>1. ASSUME NEW state, EndAs(t, state)
          PROVE  proc'[t].state = state
      BY <1>1, <3>1 DEF EndAs, Process
    <3> QED
      BY <2>0, <3>1
  <2>2. pipe' = pipe
    BY <1>7 DEF Exit, Signal, EndAs
  <2> QED
    BY <1>3, <2>1, <2>2
<1>8. ~Stop(t)
  BY NoStopAssumption DEF Stop
<1> QED
  BY <1>5, <1>6, <1>7, <1>8 DEF ChildStep

\* Such a step, or an end before the status pipe is opened.
LEMMA ChildSteps ==
    ASSUME LoopTypes, NEW t \in Tests, ChildStep(t) \/ EndEarly(t)
    PROVE  /\ ChildTyped' /\ Running(t) /\ overdue' = overdue
           /\ proc'[t].state \in {"running", "exited", "signalled"}
           /\ \A u \in Tests \ {t} : proc'[u] = proc[u] /\ pipe'[u] = pipe[u]
           /\ \A k \in Pipes : Len(pipe[t][k]) <= Len(pipe'[t][k])
           /\ pipe' # pipe => \E k \in Pipes : pipe'[t][k] # pipe[t][k]
<1>1. CASE ChildStep(t)
  BY <1>1, ChildTypes, ChildActs, ChildFills
<1>2. CASE Running(t) /\ EndAs(t, "exited")
  <2>1. proc' = [proc EXCEPT ![t].state = "exited", ![t].late = (t <= overdue)]
        /\ UNCHANGED <<pipe, wrote, overdue>>
    BY <1>2 DEF EndAs
  <2>2. /\ proc[t] \in Process /\ proc \in [Tests -> Process]
        /\ (t <= overdue) \in BOOLEAN
    OBVIOUS
  <2>3. /\ proc' \in [Tests -> Process] /\ proc'[t].state = "exited"
        /\ \A u \in Tests \ {t} : proc'[u] = proc[u]
    <3>1. [proc[t] EXCEPT !.state = "exited", !.late = (t <= overdue)] \in Process
      BY <2>2 DEF Process, ProcessStates
    <3>2. proc'[t] = [proc[t] EXCEPT !.state = "exited", !.late = (t <= overdue)]
          /\ proc'[t].state = "exited"
      BY <2>1, <2>2 DEF Process
    <3> QED
      BY <2>1, <2>2, <3>1, <3>2
  <2>4. \A k \in Pipes : Len(pipe[t][k]) \in Nat
    BY PipeType
  <2> QED
    BY <1>2, <2>1, <2>3, <2>4 DEF ChildTyped
<1> QED
  BY <1>1, <1>2 DEF EndEarly, ChildStep

\* The types, when only the children, the kernel and the clock act.
LEMMA ParentsTypes ==
    ASSUME StateTypes, ChildTyped', UNCHANGED parentVars,
           io' \in [Slots -> [Pipes -> End]], iocp' \in Seq(Packets),
           jobExits' \subseteq 0..NTests, reconnected' = reconnected
    PROVE  StateTypes'
<1>1. Active' = Active
  BY DEF parentVars, Active
<1> QED
  BY <1>1 DEF StateTypes, ChildTyped, parentVars, statusVars

LEMMA ChildTypedKept ==
    ASSUME StateTypes, UNCHANGED childVars
    PROVE  ChildTyped'
  BY DEF StateTypes, ChildTyped, childVars

LEMMA ReadingType ==
    ASSUME StateTypes, NEW s \in Slots, NEW k \in Pipes, NEW b \in BOOLEAN
    PROVE  [io EXCEPT ![s][k].reading = b] \in [Slots -> [Pipes -> End]]
<1>1. [io[s][k] EXCEPT !.reading = b] \in End
  <2>1. \A e \in End : [e EXCEPT !.reading = b] \in End
    BY DEF End
  <2>2. io[s][k] \in End
    BY DEF StateTypes
  <2> QED
    BY <2>1, <2>2
<1> QED
  BY <1>1 DEF StateTypes

LEMMA ChildRight ==
    ASSUME StateTypes, AllRight, pc = "start", NEW s \in Active, Child(s), UNCHANGED parentVars
    PROVE  StateTypes' /\ AllRight'
<1>1. PICK t \in Tests : t = TestOf(s)
  BY ActiveTest DEF StateTypes, TestOf
<1>2. (ChildStep(t) \/ EndEarly(t)) /\ s \in Slots
  BY <1>1 DEF Child, TestOf, Active
<1>3. /\ ChildTyped' /\ Running(t) /\ overdue' = overdue
      /\ proc'[t].state \in {"running", "exited", "signalled"}
      /\ \A u \in Tests \ {t} : proc'[u] = proc[u] /\ pipe'[u] = pipe[u]
      /\ \A k \in Pipes : Len(pipe[t][k]) <= Len(pipe'[t][k])
      /\ pipe' # pipe => \E k \in Pipes : pipe'[t][k] # pipe[t][k]
  BY <1>2, ChildSteps DEF StateTypes
<1>4. QuietStep /\ jobExits' = jobExits /\ reconnected' = reconnected
  <2>1. runs' = runs /\ pc' = pc /\ started' = started
        /\ fork_failed' = fork_failed /\ log_setup_failed' = log_setup_failed
        /\ jobExits' = jobExits /\ reconnected' = reconnected
    BY DEF parentVars, statusVars, Child, jobVars
  <2>2. \A u \in Tests : ProcStep(u)
    BY <1>3 DEF ProcStep, Alive, Running
  <2>3. PipesGrow
    <3>1. \A u \in Tests, k \in Pipes : Len(pipe[u][k]) \in Nat
      BY PipeType DEF StateTypes
    <3> QED
      BY <1>3, <3>1 DEF PipesGrow
  <2>4. ASSUME NEW r \in Slots
        PROVE  SlotKept(r)
    <3>1. runs[r].active => TestOf(r) \in Tests
      BY ActiveTest DEF StateTypes, TestOf, Active
    <3>2. runs[r].active /\ proc'[TestOf(r)].state = "killed" => proc[TestOf(r)].state = "killed"
      BY <1>3, <3>1
    <3> QED
      BY <2>1, <3>2 DEF SlotKept
  <2> QED
    BY <2>1, <2>2, <2>3, <2>4 DEF QuietStep
<1> DEFINE k == CHOOSE k \in Pipes : pipe'[t][k] # pipe[t][k]
           n == Len(pipe'[t][k])
<1>5. CASE pipe' # pipe /\ io[s][k].reading
  <2>1. k \in Pipes
    BY <1>3, <1>5
  <2> HIDE DEF k
  <2>2. io' = [io EXCEPT ![s][k].reading = FALSE]
        /\ iocp' = Append(iocp, IoPacket(s, k, "data", n))
    BY <1>1, <1>5 DEF Child, Delivers, TestOf, k
  <2>3. n \in Nat
    <3>1. pipe'[t][k] \in Seq(Item)
      BY <1>3, <2>1, PipeType DEF ChildTyped
    <3> QED
      BY <3>1
  <2> HIDE DEF n
  <2>4. StateTypes'
    <3>1. io' \in [Slots -> [Pipes -> End]]
      BY <1>2, <2>1, <2>2, ReadingType
    <3>2. IoPacket(s, k, "data", n) \in Packets
      BY <1>2, <2>1, <2>3, PacketMade DEF PacketKinds
    <3>3. iocp' \in Seq(Packets)
      BY <2>2, <3>2 DEF StateTypes
    <3> QED
      BY <1>3, <1>4, <3>1, <3>3, ParentsTypes DEF StateTypes
  <2>5. n <= Len(pipe'[TestOf(s)][k])
    BY <1>1, <2>3 DEF n
  <2> QED
    BY <1>4, <1>5, <2>1, <2>2, <2>3, <2>4, <2>5, DeliverRight
<1>6. CASE ~(pipe' # pipe /\ io[s][k].reading)
  <2>1. UNCHANGED osVars
    BY <1>1, <1>4, <1>6 DEF Child, Delivers, osVars, jobVars, TestOf
  <2>2. StateTypes'
    BY <1>3, <2>1, ParentsTypes DEF StateTypes, osVars, jobVars
  <2> QED
    BY <1>4, <2>1, <2>2, QuietRight
<1> QED
  BY <1>5, <1>6

\* A step of the kernel alone is a quiet one.
LEMMA KernelQuiet ==
    ASSUME StateTypes, UNCHANGED <<childVars, parentVars>>
    PROVE  QuietStep
<1>1. PipesGrow
  <2>1. \A t \in Tests, k \in Pipes : Len(pipe[t][k]) \in Nat
    BY PipeType DEF StateTypes
  <2> QED
    BY <2>1 DEF PipesGrow, childVars
<1>2. /\ \A s \in Slots : SlotKept(s) /\ runs'[s].ov = runs[s].ov
      /\ \A t \in Tests : ProcStep(t)
  BY DEF SlotKept, ProcStep, childVars, parentVars
<1> QED
  BY <1>1, <1>2 DEF QuietStep, parentVars, statusVars

LEMMA ChatterRight ==
    ASSUME StateTypes, AllRight, NEW s \in Active, Chatter(s), UNCHANGED parentVars
    PROVE  StateTypes' /\ AllRight'
<1>1. /\ s \in Slots /\ "out" \in Pipes /\ UNCHANGED <<childVars, parentVars>>
      /\ io[s]["out"].reading /\ io' = [io EXCEPT ![s]["out"].reading = FALSE]
      /\ iocp' = Append(iocp, IoPacket(s, "out", "data", 0)) /\ jobExits' = jobExits
      /\ reconnected' = reconnected
  BY DEF Chatter, Active, Pipes, Streams, jobVars
<1>2. IoPacket(s, "out", "data", 0) \in Packets
  BY <1>1, PacketMade DEF PacketKinds
<1>3. iocp' \in Seq(Packets) /\ io' \in [Slots -> [Pipes -> End]]
  <2>1. [io EXCEPT ![s]["out"].reading = FALSE] \in [Slots -> [Pipes -> End]]
    BY <1>1, ReadingType
  <2>2. iocp \in Seq(Packets)
    BY DEF StateTypes
  <2> QED
    BY <1>1, <1>2, <2>1, <2>2
<1>4. StateTypes'
  BY <1>1, <1>3, ParentsTypes, ChildTypedKept DEF StateTypes
<1>5. 0 <= Len(pipe'[TestOf(s)]["out"])
  <2>1. TestOf(s) \in Tests /\ pipe' \in [Tests -> Contents]
    BY <1>4, ActiveTest DEF StateTypes, TestOf
  <2>2. PICK q \in Seq(Item) : q = pipe'[TestOf(s)]["out"]
    BY <1>1, <2>1, PipeType
  <2>3. 0 <= Len(q)
    BY <2>2
  <2> QED
    BY <2>2, <2>3
<1>6. QuietStep
  BY <1>1, KernelQuiet
<1> HIDE DEF QuietStep
<1> QED
  BY <1>1, <1>4, <1>5, <1>6, DeliverRight

LEMMA SpawnedRight ==
    ASSUME StateTypes, AllRight, NEW s \in Active, SpawnedExit(s), UNCHANGED parentVars
    PROVE  StateTypes' /\ AllRight'
<1> DEFINE E == {0}
           F == {}
<1>1. /\ ExitPacket(0) \in Packets /\ Touched(ExitPacket(0), F, E)
  <2>1. 0 \in 0..NTests
    BY TestsAssumption
  <2>2. ExitPacket(0) \in Packets
    BY <2>1, ExitMade
  <2> QED
    BY <2>2 DEF Touched, ExitPacket
<1>2. QueueStep(F, E) /\ iocp' \in Seq(Packets)
  <2>1. iocp \in Seq(Packets) /\ iocp' = Append(iocp, ExitPacket(0))
    BY DEF StateTypes, SpawnedExit
  <2> HIDE DEF E, F
  <2> QED
    BY <1>1, <2>1, QueueAppended
<1>3. QuietStep /\ io' = io /\ UNCHANGED <<childVars, reconnected>>
  BY KernelQuiet DEF SpawnedExit
<1>4. StateTypes'
  <2>1. jobExits' \subseteq 0..NTests
    BY TestsAssumption DEF StateTypes, SpawnedExit
  <2> QED
    BY <1>2, <1>3, <2>1, ParentsTypes, ChildTypedKept DEF StateTypes
<1>5. /\ \A t \in Tests : t \notin E /\ (t \in jobExits' => t \in jobExits)
      /\ \A r \in Slots, k \in Pipes : <<r, k>> \notin F
      /\ JobKept(E) /\ ListeningKept
  BY DEF SpawnedExit, JobKept, ListeningKept
<1>6. \A r \in Slots : runs[r].active => TestOf(r) \notin E
  BY <1>5, ActiveTest DEF StateTypes, Active, TestOf
<1>7. "spawn" \in Habits
  BY DEF SpawnedExit
<1> HIDE DEF E, F
<1>8. /\ \A r \in Slots : SlotRight(r)'
      /\ \A t \in Tests : TestRight(t)'
      /\ \A r \in Slots, k \in Pipes : Same(Io(r, k))
  BY <1>2, <1>3, <1>4, <1>5, <1>6, QuietSlots
<1>9. \A r \in Slots, k \in Pipes : PipeRight(r, k)'
  BY <1>3, <1>4, <1>8, QuietPipe
<1> QED
  BY <1>4, <1>7, <1>8, <1>9 DEF AllRight

LEMMA TimeRight ==
    ASSUME StateTypes, AllRight, Time
    PROVE  StateTypes' /\ AllRight'
<1>1. Elapse /\ UNCHANGED <<parentVars, osVars, proc, pipe, wrote>>
  BY DEF Time, Elapse
<1>2. StateTypes'
  BY <1>1, ChildTypes, ParentsTypes DEF StateTypes, osVars, jobVars
<1>3. QuietStep
  <2>1. PipesGrow
    <3>1. \A t \in Tests, k \in Pipes : Len(pipe[t][k]) \in Nat
      BY PipeType DEF StateTypes
    <3> QED
      BY <1>1, <3>1 DEF PipesGrow
  <2>2. /\ \A s \in Slots : SlotKept(s) /\ runs'[s].ov = runs[s].ov
        /\ \A t \in Tests : ProcStep(t)
    BY <1>1 DEF SlotKept, ProcStep, parentVars
  <2> QED
    BY <1>1, <2>1, <2>2 DEF QuietStep, parentVars, statusVars
<1> QED
  BY <1>1, <1>2, <1>3, QuietRight

-----------------------------------------------------------------------------
(* The steps of the kernel after the end of a process. *)

\* No test sits in two slots.
Apart == \A r, s \in Active : TestOf(r) = TestOf(s) => r = s

LEMMA AnnounceRight ==
    ASSUME StateTypes, AllRight, Apart, NEW s \in Active, AnnounceExit(s), UNCHANGED parentVars
    PROVE  StateTypes' /\ AllRight'
<1>1. PICK t \in Tests : t = TestOf(s)
  BY ActiveTest DEF StateTypes, TestOf
<1>2. /\ s \in Slots /\ ~Alive(t) /\ t \notin jobExits /\ jobExits' = jobExits \union {t}
      /\ iocp' = Append(iocp, ExitPacket(t)) /\ io' = io
      /\ UNCHANGED <<childVars, parentVars, reconnected>>
  BY <1>1 DEF AnnounceExit, TestOf, Active
<1> DEFINE E == {t}
           F == {}
           p == ExitPacket(t)
<1>3. /\ p \in Packets /\ p \in ExitOf(t) /\ Touched(p, F, E)
  BY ExitMade, TestsAssumption DEF Touched, ExitPacket
<1>4. QueueStep(F, E) /\ iocp' \in Seq(Packets) /\ iocp' = iocp \o <<p>> /\ <<p>> \in Seq(Packets)
  <2>1. iocp \in Seq(Packets) /\ iocp' = Append(iocp, p)
    BY <1>2 DEF StateTypes
  <2> HIDE DEF E, F, p
  <2> QED
    BY <1>3, <2>1, QueueAppended
<1>5. QuietStep
  BY <1>2, KernelQuiet
<1>6. StateTypes'
  <2>1. jobExits' \subseteq 0..NTests
    BY <1>2, TestsAssumption DEF StateTypes
  <2> QED
    BY <1>2, <1>4, <2>1, ParentsTypes, ChildTypedKept DEF StateTypes
<1>7. /\ \A u \in Tests : u \in E => u = t
      /\ \A r \in Slots, k \in Pipes : <<r, k>> \notin F
      /\ JobKept(E) /\ Held(t) /\ ListeningKept
  BY <1>1, <1>2 DEF JobKept, Held, TestOf, ListeningKept
<1>8. \A r \in Slots : runs[r].active /\ r # s => TestOf(r) \notin E
  BY <1>1, <1>2 DEF Apart, Active
<1>9. \A u \in Tests : u \in jobExits' => u \in jobExits \/ u <= started
  BY <1>1, <1>2, ActiveTest DEF StateTypes, TestOf
<1> HIDE DEF E, F, p
<1>10. /\ \A r \in Slots : r # s => SlotRight(r)'
       /\ \A u \in Tests : TestRight(u)'
       /\ \A r \in Slots, k \in Pipes : Same(Io(r, k))
  BY <1>4, <1>5, <1>6, <1>7, <1>8, <1>9, QuietSlots
<1>11. \A r \in Slots, k \in Pipes : PipeRight(r, k)'
  BY <1>2, <1>5, <1>6, <1>10, QuietPipe
<1>12. SlotRight(s)'
  <2>1. runs[s].active /\ runs' = runs /\ proc' = proc /\ pc' = pc /\ runs[s].test = t
    BY <1>1, <1>2 DEF Active, parentVars, childVars, TestOf
  <2>2. ExitRight(s)
    BY <1>2, <2>1 DEF AllRight, SlotRight
  <2>3. runs[s].handle /\ NoneOf(iocp, ExitOf(t))
    BY <1>2, <2>1, <2>2 DEF ExitRight
  <2>4. OneOf(iocp', ExitOf(t), ExitOf(t))
    <3>1. OneOf(<<p>>, ExitOf(t), ExitOf(t))
      BY <1>3, Single
    <3>2. iocp \in Seq(Packets)
      BY DEF StateTypes
    <3>3. OneOf(iocp \o <<p>>, ExitOf(t), ExitOf(t))
      BY <1>4, <2>3, <3>1, <3>2, ConcatRight
    <3> QED
      BY <1>4, <3>3
  <2>5. ASSUME NEW k \in Pipes, Coming(s, k)
        PROVE  Behind(iocp', Io(s, k), ExitOf(t))
    <3>1. PipeRight(s, k) /\ Behind(iocp, Io(s, k), ExitOf(t))
      BY <1>2, <2>1, <2>2, <2>5 DEF AllRight, ExitRight
    <3>2. OneOf(iocp, Io(s, k), IoOf(s, k, {"connected"}))
      BY <2>5, <3>1 DEF PipeRight
    <3>3. IoOf(s, k, {"connected"}) \subseteq Io(s, k)
      BY PacketSets DEF PacketKinds
    <3>4. \E i \in 1..Len(iocp) : iocp[i] \in Io(s, k)
      BY <3>2, <3>3 DEF OneOf
    <3>5. iocp \in Seq(Packets)
      BY DEF StateTypes
    <3>6. Behind(iocp \o <<p>>, Io(s, k), ExitOf(t))
      BY <1>4, <3>1, <3>4, <3>5, ConcatBehind
    <3> QED
      BY <1>4, <3>6
  <2>6. proc[t].state # "none" /\
        (proc[t].state = "killed" /\ pc # "done" => runs[s].timed_out \/ runs[s].read_too_much)
    BY <2>1, <2>2 DEF ExitRight
  <2>7. ~Alive(t)' /\ t \in jobExits'
    BY <1>2, <2>1 DEF Alive
  <2>8. ExitRight(s)'
    BY <1>2, <2>1, <2>3, <2>4, <2>5, <2>6, <2>7 DEF ExitRight, Alive, Coming
  <2> QED
    BY <2>1, <2>8 DEF SlotRight
<1>13. "spawn" \notin Habits => NoneOf(iocp', ExitOf(0))
  <2>1. 0 \notin E
    BY DEF E
  <2>2. Same(ExitOf(0))
    BY <1>4, <2>1, QueueFrame DEF StateTypes
  <2> QED
    BY <2>2 DEF AllRight, Same
<1> QED
  BY <1>6, <1>10, <1>11, <1>12, <1>13 DEF AllRight

-----------------------------------------------------------------------------
(* Packets put behind the others for the three pipes of a slot at once. *)

Parts(f, s) == /\ f \in [Pipes -> Seq(Packets)]
               /\ \A k \in Pipes : \A i \in 1..Len(f[k]) : f[k][i] \in Io(s, k)

\* Each pipe's packets are in the whole as they are in its part.
LEMMA ThreeParts ==
    ASSUME NEW s, NEW f, Parts(f, s), NEW a, NEW b, NEW c, Pipes = {a, b, c},
           a # b, a # c, b # c
    PROVE  LET r == f[a] \o f[b] \o f[c]
           IN  /\ r \in Seq(Packets)
               /\ \A k \in Pipes : f[k] = <<>> => NoneOf(r, Io(s, k))
               /\ \A k \in Pipes : \A Y : OneOf(f[k], Io(s, k), Y) => OneOf(r, Io(s, k), Y)
               /\ \A i \in 1..Len(r) : \E k \in Pipes : f[k] # <<>> /\ r[i] \in Io(s, k)
<1> DEFINE q == f[a] \o f[b]
           r == q \o f[c]
<1>1. f[a] \in Seq(Packets) /\ f[b] \in Seq(Packets) /\ f[c] \in Seq(Packets)
  BY DEF Parts
<1>2. q \in Seq(Packets) /\ r \in Seq(Packets)
  BY <1>1
<1>3. \A j, k \in Pipes : j # k => NoneOf(f[j], Io(s, k))
  BY PacketsApart DEF Parts, NoneOf
<1>4. \A k \in Pipes : f[k] = <<>> => NoneOf(f[k], Io(s, k))
  BY Empty
<1>5. ASSUME NEW k \in Pipes, f[k] = <<>>
      PROVE  NoneOf(r, Io(s, k))
  <2>1. NoneOf(f[a], Io(s, k)) /\ NoneOf(f[b], Io(s, k)) /\ NoneOf(f[c], Io(s, k))
    BY <1>3, <1>4, <1>5
  <2>2. NoneOf(q, Io(s, k))
    BY <1>1, <2>1, ConcatNone
  <2> HIDE DEF q
  <2> QED
    BY <1>1, <1>2, <2>1, <2>2, ConcatNone
<1>6. ASSUME NEW k \in Pipes, NEW Y, OneOf(f[k], Io(s, k), Y)
      PROVE  OneOf(r, Io(s, k), Y)
  <2>1. CASE k = a
    <3>1. OneOf(q, Io(s, k), Y)
      BY <1>1, <1>3, <1>6, <2>1, ConcatLeft
    <3>2. NoneOf(f[c], Io(s, k))
      BY <1>3, <2>1
    <3> HIDE DEF q
    <3> QED
      BY <1>1, <1>2, <3>1, <3>2, ConcatLeft
  <2>2. CASE k = b
    <3>1. OneOf(q, Io(s, k), Y)
      BY <1>1, <1>3, <1>6, <2>2, ConcatRight
    <3>2. NoneOf(f[c], Io(s, k))
      BY <1>3, <2>2
    <3> HIDE DEF q
    <3> QED
      BY <1>1, <1>2, <3>1, <3>2, ConcatLeft
  <2>3. CASE k = c
    <3>1. NoneOf(f[a], Io(s, k)) /\ NoneOf(f[b], Io(s, k))
      BY <1>3, <2>3
    <3>2. NoneOf(q, Io(s, k))
      BY <1>1, <3>1, ConcatNone
    <3> HIDE DEF q
    <3> QED
      BY <1>1, <1>2, <1>6, <2>3, <3>2, ConcatRight
  <2> QED
    BY <2>1, <2>2, <2>3
<1>7. ASSUME NEW i \in 1..Len(r)
      PROVE  \E k \in Pipes : f[k] # <<>> /\ r[i] \in Io(s, k)
  <2>1. \A k \in Pipes : \A j \in 1..Len(f[k]) : f[k] # <<>> /\ f[k][j] \in Io(s, k)
    BY DEF Parts
  <2>2. \/ \E j \in 1..Len(q) : r[i] = q[j]
        \/ \E j \in 1..Len(f[c]) : r[i] = f[c][j]
    <3> HIDE DEF q
    <3> QED
      BY <1>1, <1>2, ConcatItem
  <2>3. ASSUME NEW n \in 1..Len(q)
        PROVE  \/ \E j \in 1..Len(f[a]) : q[n] = f[a][j]
               \/ \E j \in 1..Len(f[b]) : q[n] = f[b][j]
    <3>1. PICK x \in Seq(Packets) : x = f[a]
      BY <1>1
    <3>2. PICK y \in Seq(Packets) : y = f[b]
      BY <1>1
    <3>3. q = x \o y
      BY <3>1, <3>2
    <3> HIDE DEF q
    <3>4. n \in 1..Len(x \o y)
      BY <2>3, <3>3
    <3>5. \/ \E j \in 1..Len(x) : (x \o y)[n] = x[j]
          \/ \E j \in 1..Len(y) : (x \o y)[n] = y[j]
      BY <3>4, ConcatItem
    <3> QED
      BY <3>1, <3>2, <3>3, <3>5
  <2> HIDE DEF q, r
  <2> QED
    BY <2>1, <2>2, <2>3
<1> QED
  BY <1>2, <1>5, <1>6, <1>7

\* One queue behind another; a name of its own spares the provers the equations
\* of concatenation.
Glue(q, r) == q \o r

LEMMA GlueTwo ==
    ASSUME NEW q \in Seq(Packets), NEW x \in Seq(Packets), NEW y \in Seq(Packets)
    PROVE  Glue(Glue(q, x), y) = Glue(q, Glue(x, y)) /\ Glue(q, x) \in Seq(Packets)
  BY ConcatAssociative, ConcatProperties DEF Glue

LEMMA GlueThree ==
    ASSUME NEW q \in Seq(Packets), NEW x \in Seq(Packets), NEW y \in Seq(Packets),
           NEW z \in Seq(Packets)
    PROVE  Glue(Glue(Glue(q, x), y), z) = Glue(q, Glue(Glue(x, y), z))
  BY GlueTwo

LEMMA GluedBehind ==
    ASSUME NEW q \in Seq(Packets), NEW r \in Seq(Packets), NEW z, z = q \o r
    PROVE  /\ z \in Seq(Packets)
           /\ \A X : NoneOf(q, X) /\ NoneOf(r, X) => NoneOf(z, X)
           /\ \A X, Y : NoneOf(q, X) /\ OneOf(r, X, Y) => OneOf(z, X, Y)
           /\ \A X, Y : OneOf(q, X, Y) /\ NoneOf(r, X) => OneOf(z, X, Y)
<1>1. \A X : NoneOf(q, X) /\ NoneOf(r, X) => NoneOf(z, X)
  BY ConcatNone
<1>2. \A X, Y : NoneOf(q, X) /\ OneOf(r, X, Y) => OneOf(z, X, Y)
  BY ConcatRight
<1>3. \A X, Y : OneOf(q, X, Y) /\ NoneOf(r, X) => OneOf(z, X, Y)
  BY ConcatLeft
<1> QED
  BY <1>1, <1>2, <1>3

\* The parts behind a queue: each pipe has there what it had, or its part.
ThreeOf(r, f, a, b, c) == r = f[a] \o f[b] \o f[c]
Glued(z, q, r) == z = q \o r
BehindBy(z, q, r, f, s) ==
    /\ \A k \in Pipes : NoneOf(q, Io(s, k)) /\ f[k] = <<>> => NoneOf(z, Io(s, k))
    /\ \A k \in Pipes : \A Y : NoneOf(q, Io(s, k)) /\ OneOf(f[k], Io(s, k), Y)
                              => OneOf(z, Io(s, k), Y)
    /\ \A k \in Pipes : \A Y : OneOf(q, Io(s, k), Y) /\ f[k] = <<>>
                              => OneOf(z, Io(s, k), Y)
    /\ \A F : (\A k \in Pipes : f[k] # <<>> => <<s, k>> \in F)
                 => \A i \in 1..Len(r) : Touched(r[i], F, {})

LEMMA PartsBehind ==
    ASSUME NEW s \in Slots, NEW f, Parts(f, s),
           NEW a, NEW b, NEW c, Pipes = {a, b, c}, a # b, a # c, b # c,
           NEW q \in Seq(Packets), NEW r, ThreeOf(r, f, a, b, c), NEW z, Glued(z, q, r)
    PROVE  z \in Seq(Packets) /\ r \in Seq(Packets) /\ BehindBy(z, q, r, f, s)
<1>1. /\ r \in Seq(Packets)
      /\ \A k \in Pipes : f[k] = <<>> => NoneOf(r, Io(s, k))
      /\ \A k \in Pipes : \A Y : OneOf(f[k], Io(s, k), Y) => OneOf(r, Io(s, k), Y)
      /\ \A i \in 1..Len(r) : \E k \in Pipes : f[k] # <<>> /\ r[i] \in Io(s, k)
  BY ThreeParts DEF ThreeOf
<1>2. ASSUME NEW F, \A k \in Pipes : f[k] # <<>> => <<s, k>> \in F, NEW i \in 1..Len(r)
      PROVE  Touched(r[i], F, {})
  <2>1. PICK k \in Pipes : f[k] # <<>> /\ r[i] \in Io(s, k)
    BY <1>1
  <2>2. r[i] \in IoOf(s, k, PacketKinds)
    BY <2>1 DEF Io
  <2>3. r[i].slot = s /\ r[i].pipe = k /\ r[i].what \in PacketKinds
    BY <2>2, PacketSets
  <2>4. r[i].what # "exit"
    BY <2>3 DEF PacketKinds
  <2> QED
    BY <1>2, <2>1, <2>3, <2>4 DEF Touched
<1>3. /\ z \in Seq(Packets)
      /\ \A X : NoneOf(q, X) /\ NoneOf(r, X) => NoneOf(z, X)
      /\ \A X, Y : NoneOf(q, X) /\ OneOf(r, X, Y) => OneOf(z, X, Y)
      /\ \A X, Y : OneOf(q, X, Y) /\ NoneOf(r, X) => OneOf(z, X, Y)
  BY <1>1, GluedBehind DEF Glued
<1> QED
  BY <1>1, <1>2, <1>3 DEF BehindBy

\* The queue after such a step: a packet of slot s taken off, or none, and the
\* parts behind the others.
LEMMA PartsQueue ==
    ASSUME iocp \in Seq(Packets), NEW s \in Slots, NEW f, Parts(f, s),
           NEW a, NEW b, NEW c, Pipes = {a, b, c}, a # b, a # c, b # c,
           NEW F, \A k \in Pipes : f[k] # <<>> => <<s, k>> \in F,
           NEW q, q = iocp \/ (iocp # <<>> /\ q = Tail(iocp) /\ Touched(Packet, F, {})),
           iocp' = q \o f[a] \o f[b] \o f[c]
    PROVE  /\ QueueStep(F, {}) /\ iocp' \in Seq(Packets)
           /\ \A k \in Pipes : NoneOf(q, Io(s, k)) /\ f[k] = <<>> => NoneOf(iocp', Io(s, k))
           /\ \A k \in Pipes : \A Y : NoneOf(q, Io(s, k)) /\ OneOf(f[k], Io(s, k), Y)
                                     => OneOf(iocp', Io(s, k), Y)
           /\ \A k \in Pipes : \A Y : OneOf(q, Io(s, k), Y) /\ f[k] = <<>>
                                     => OneOf(iocp', Io(s, k), Y)
<1> DEFINE r == f[a] \o f[b] \o f[c]
<1>1. /\ r \in Seq(Packets)
      /\ \A k \in Pipes : f[k] = <<>> => NoneOf(r, Io(s, k))
      /\ \A k \in Pipes : \A Y : OneOf(f[k], Io(s, k), Y) => OneOf(r, Io(s, k), Y)
      /\ \A i \in 1..Len(r) : \E k \in Pipes : f[k] # <<>> /\ r[i] \in Io(s, k)
  BY ThreeParts
<1>2. q \in Seq(Packets)
  BY TailPlaces
<1>3. iocp' = q \o r
  <2>1. f[a] \in Seq(Packets) /\ f[b] \in Seq(Packets) /\ f[c] \in Seq(Packets)
    BY DEF Parts
  <2>2. Glue(Glue(Glue(q, f[a]), f[b]), f[c]) = Glue(q, Glue(Glue(f[a], f[b]), f[c]))
    BY <1>2, <2>1, GlueThree
  <2>3. iocp' = Glue(Glue(Glue(q, f[a]), f[b]), f[c])
    BY Zenon DEF Glue
  <2>4. Glue(q, Glue(Glue(f[a], f[b]), f[c])) = q \o r
    BY Zenon DEF Glue
  <2> QED
    BY <2>2, <2>3, <2>4, Zenon
<1> HIDE DEF r
<1>4. ASSUME NEW i \in 1..Len(r)
      PROVE  Touched(r[i], F, {})
  <2>1. PICK k \in Pipes : f[k] # <<>> /\ r[i] \in Io(s, k)
    BY <1>1
  <2>2. r[i] \in IoOf(s, k, PacketKinds)
    BY <2>1 DEF Io
  <2>3. r[i].slot = s /\ r[i].pipe = k /\ r[i].what \in PacketKinds
    BY <2>2, PacketSets
  <2>4. r[i].what # "exit"
    BY <2>3 DEF PacketKinds
  <2> QED
    BY <2>1, <2>3, <2>4 DEF Touched
<1>5. QueueStep(F, {}) /\ iocp' \in Seq(Packets)
  <2>1. q \in Seq(Packets) /\ r \in Seq(Packets)
    BY <1>1, <1>2
  <2>2. \A i \in 1..Len(r) : Touched(r[i], F, {})
    BY <1>4
  <2>3. q = iocp \/ (iocp # <<>> /\ q = Tail(iocp) /\ Touched(Packet, F, {}))
    OBVIOUS
  <2>4. QueueStep(F, {})
    BY <1>3, <2>1, <2>2, <2>3, Zenon DEF QueueStep
  <2> QED
    BY <1>3, <2>1, <2>4
<1> QED
  BY <1>1, <1>2, <1>3, <1>5, ConcatNone, ConcatLeft, ConcatRight
=============================================================================
