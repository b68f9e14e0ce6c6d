---------------------------- MODULE TdoLoopProofs ----------------------------
(* Proofs about what both platforms share, for any number of tests, slots and *)
(* fixtures: the lines of the status pipe and the step read off them, what a  *)
(* child does, the counters, the results and the abstract runner.             *)
EXTENDS TdoLoopProperties, FiniteSetTheorems, SequenceTheorems, TLAPS

-----------------------------------------------------------------------------
(* Counting fixtures of a kind. *)

OfKind(t, kind, p) == {i \in 1..p : Fixtures[t][i] = kind}
CountTo(t, kind, p) == Cardinality(OfKind(t, kind, p))

LEMMA FixtureTypes ==
    ASSUME NEW t \in Tests
    PROVE  /\ Len(Fixtures[t]) \in Nat
           /\ \A i \in FixturePlaces(t) : i \in Nat /\ Fixtures[t][i] \in FixtureKinds
  BY TestsAssumption DEF FixturePlaces

LEMMA CountToType ==
    ASSUME NEW t, NEW kind, NEW p \in Nat
    PROVE  IsFiniteSet(OfKind(t, kind, p)) /\ CountTo(t, kind, p) \in Nat
<1>1. IsFiniteSet(1..p)
  BY FS_Interval
<1>2. OfKind(t, kind, p) \in SUBSET (1..p)
  BY DEF OfKind
<1> QED
  BY <1>1, <1>2, FS_Subset, FS_CardinalityType DEF CountTo

LEMMA CountToZero == \A t, kind : CountTo(t, kind, 0) = 0
<1>1. \A t, kind : OfKind(t, kind, 0) = {}
  BY DEF OfKind
<1> QED
  BY <1>1, FS_EmptySet DEF CountTo

LEMMA CountToMonotone ==
    ASSUME NEW t, NEW kind, NEW p \in Nat, NEW q \in Nat, p <= q
    PROVE  CountTo(t, kind, p) <= CountTo(t, kind, q)
<1>1. OfKind(t, kind, p) \in SUBSET OfKind(t, kind, q)
  BY DEF OfKind
<1> QED
  BY <1>1, CountToType, FS_Subset DEF CountTo

\* Past a fixture of the kind the count is one more.
LEMMA CountToNext ==
    ASSUME NEW t, NEW kind, NEW p \in Nat, Fixtures[t][p + 1] = kind
    PROVE  CountTo(t, kind, p + 1) = CountTo(t, kind, p) + 1
<1>1. OfKind(t, kind, p + 1) = OfKind(t, kind, p) \union {p + 1}
  BY DEF OfKind
<1>2. p + 1 \notin OfKind(t, kind, p)
  BY DEF OfKind
<1> QED
  BY <1>1, <1>2, CountToType, FS_AddElement DEF CountTo

\* The next fixture of the kind is the first after "from".
LEMMA CountToNextOfKind ==
    ASSUME NEW t \in Tests, NEW kind, NEW from \in Nat, NEW pos \in FixturePlaces(t),
           NextOfKind(t, kind, from, pos)
    PROVE  /\ CountTo(t, kind, pos - 1) = CountTo(t, kind, from)
           /\ CountTo(t, kind, pos) = CountTo(t, kind, from) + 1
<1>1. pos \in Nat /\ pos - 1 \in Nat /\ from <= pos - 1 /\ (pos - 1) + 1 = pos
  BY DEF NextOfKind, FixturePlaces
<1>2. OfKind(t, kind, pos - 1) = OfKind(t, kind, from)
  BY <1>1 DEF OfKind, NextOfKind
<1>3. CountTo(t, kind, (pos - 1) + 1) = CountTo(t, kind, pos - 1) + 1
  BY <1>1, CountToNext DEF NextOfKind
<1> QED
  BY <1>1, <1>2, <1>3 DEF CountTo

\* When none is left, all were counted.
LEMMA CountToAll ==
    ASSUME NEW t \in Tests, NEW kind, NEW from \in Nat, from <= Len(Fixtures[t]),
           NoneLeft(t, kind, from)
    PROVE  CountTo(t, kind, from) = CountOf(t, kind)
<1>1. OfKind(t, kind, from) = {i \in FixturePlaces(t) : Fixtures[t][i] = kind}
  BY FixtureTypes DEF OfKind, NoneLeft, FixturePlaces
<1> QED
  BY <1>1 DEF CountTo, CountOf

LEMMA CountOfBound ==
    ASSUME NEW t \in Tests, NEW kind
    PROVE  /\ CountOf(t, kind) \in Nat
           /\ \A p \in FixturePlaces(t) \union {0} : CountTo(t, kind, p) <= CountOf(t, kind)
<1>1. CountOf(t, kind) = CountTo(t, kind, Len(Fixtures[t]))
  BY DEF CountOf, CountTo, OfKind, FixturePlaces
<1>2. ASSUME NEW p \in FixturePlaces(t) \union {0}
      PROVE  CountTo(t, kind, p) <= CountOf(t, kind)
  <2>1. p \in Nat /\ p <= Len(Fixtures[t])
    BY FixtureTypes DEF FixturePlaces
  <2> QED
    BY <1>1, <2>1, CountToMonotone, FixtureTypes
<1> QED
  BY <1>1, <1>2, CountToType, FixtureTypes

\* A line names one fixture at most: the counts of two fixtures of a kind differ.
LEMMA FixtureFound ==
    ASSUME NEW t \in Tests, NEW kind \in FixtureKinds, NEW pos \in FixturePlaces(t),
           Fixtures[t][pos] = kind, NEW line, line.tag = kind,
           line.index = CountTo(t, kind, pos - 1)
    PROVE  StepOf(t, line) = FixtureStep(kind, pos)
<1>1. FixturesAt(t, line) = {i \in FixturePlaces(t) :
            Fixtures[t][i] = kind /\ CountTo(t, kind, i - 1) = line.index}
  BY DEF FixturesAt, CountTo, OfKind
<1>2. \A i \in FixturePlaces(t) : i \in Nat /\ i - 1 \in Nat /\ (i - 1) + 1 = i
  BY DEF FixturePlaces
<1>3. ASSUME NEW i \in FixturePlaces(t), NEW j \in FixturePlaces(t), i < j,
             Fixtures[t][i] = kind
      PROVE  CountTo(t, kind, i - 1) # CountTo(t, kind, j - 1)
  <2>1. CountTo(t, kind, (i - 1) + 1) = CountTo(t, kind, i - 1) + 1
    <3>1. i - 1 \in Nat /\ Fixtures[t][(i - 1) + 1] = kind
      BY <1>2, <1>3
    <3> QED
      BY <3>1, CountToNext
  <2>2. CountTo(t, kind, i) <= CountTo(t, kind, j - 1)
    <3>1. i \in Nat /\ j - 1 \in Nat /\ i <= j - 1
      BY <1>2, <1>3
    <3> QED
      BY <3>1, CountToMonotone
  <2>3. CountTo(t, kind, i - 1) \in Nat /\ CountTo(t, kind, j - 1) \in Nat
    BY <1>2, CountToType
  <2>4. CountTo(t, kind, i) = CountTo(t, kind, i - 1) + 1
    BY <1>2, <2>1
  <2> QED
    BY <2>2, <2>3, <2>4
<1>4. FixturesAt(t, line) = {pos}
  <2>1. pos \in FixturesAt(t, line)
    BY <1>1
  <2>2. ASSUME NEW i \in FixturesAt(t, line)
        PROVE  i = pos
    <3>1. i \in FixturePlaces(t) /\ Fixtures[t][i] = kind
          /\ CountTo(t, kind, i - 1) = CountTo(t, kind, pos - 1)
      BY <1>1
    <3>2. ~(i < pos) /\ ~(pos < i)
      BY <1>3, <3>1
    <3> QED
      BY <1>2, <3>1, <3>2
  <2> QED
    BY <2>1, <2>2
<1>5. (CHOOSE i \in FixturesAt(t, line) : TRUE) = pos
  BY <1>4
<1> QED
  BY <1>4, <1>5 DEF StepOf, FixtureKinds

-----------------------------------------------------------------------------
(* The lines of a test. *)

Line(t, kind, n) == [test |-> t, tag |-> kind, index |-> n]
FixtureLines(t, kind) == [i \in 1..CountOf(t, kind) |-> Line(t, kind, i - 1)]

LEMMA ItemAdded ==
    ASSUME NEW B \in Seq(Item), NEW e \in Item
    PROVE  /\ B \o <<e>> \in Seq(Item) /\ Len(B \o <<e>>) = Len(B) + 1
           /\ \A n \in 1..Len(B) : (B \o <<e>>)[n] = B[n]
           /\ (B \o <<e>>)[Len(B) + 1] = e
  OBVIOUS

LEMMA ItemsJoined ==
    ASSUME NEW B \in Seq(Item), NEW A \in Seq(Item)
    PROVE  /\ B \o A \in Seq(Item) /\ Len(B \o A) = Len(B) + Len(A)
           /\ \A n \in 1..Len(B) : (B \o A)[n] = B[n]
           /\ \A n \in 1..Len(A) : (B \o A)[Len(B) + n] = A[n]
  OBVIOUS

\* Two sequences, an item after each.
FourParts(B, e, A, f) == ((B \o <<e>>) \o A) \o <<f>>

LEMMA FourJoined ==
    ASSUME NEW B \in Seq(Item), NEW A \in Seq(Item), NEW e \in Item, NEW f \in Item
    PROVE  /\ FourParts(B, e, A, f) \in Seq(Item)
           /\ Len(FourParts(B, e, A, f)) = Len(B) + 1 + Len(A) + 1
           /\ \A n \in 1..Len(B) : FourParts(B, e, A, f)[n] = B[n]
           /\ FourParts(B, e, A, f)[Len(B) + 1] = e
           /\ \A n \in 1..Len(A) : FourParts(B, e, A, f)[Len(B) + 1 + n] = A[n]
           /\ FourParts(B, e, A, f)[Len(B) + 1 + Len(A) + 1] = f
<1> DEFINE X == B \o <<e>>
           Y == X \o A
           all == Y \o <<f>>
<1>1. /\ X \in Seq(Item) /\ Len(X) = Len(B) + 1
      /\ \A n \in 1..Len(B) : X[n] = B[n]
      /\ X[Len(B) + 1] = e
  BY ItemAdded, Zenon
<1>2. Len(B) \in Nat /\ Len(A) \in Nat
  OBVIOUS
<1> HIDE DEF X
<1>3. /\ Y \in Seq(Item) /\ Len(Y) = Len(X) + Len(A)
      /\ \A n \in 1..Len(X) : Y[n] = X[n]
      /\ \A n \in 1..Len(A) : Y[Len(X) + n] = A[n]
  BY <1>1, ItemsJoined, Zenon
<1> HIDE DEF Y
<1>4. /\ all \in Seq(Item) /\ Len(all) = Len(Y) + 1
      /\ \A n \in 1..Len(Y) : all[n] = Y[n]
      /\ all[Len(Y) + 1] = f
  BY <1>3, ItemAdded, Zenon
<1> HIDE DEF all
<1>5. \A n \in 1..Len(B) : all[n] = B[n]
  BY <1>1, <1>2, <1>3, <1>4
<1>6. all[Len(B) + 1] = e
  <2>1. Len(B) + 1 \in 1..Len(X) /\ Len(B) + 1 \in 1..Len(Y)
    BY <1>1, <1>2, <1>3
  <2> QED
    BY <1>1, <1>3, <1>4, <2>1
<1>7. \A n \in 1..Len(A) : all[Len(B) + 1 + n] = A[n]
  <2>1. \A n \in 1..Len(A) : Len(B) + 1 + n \in 1..Len(Y)
    BY <1>1, <1>2, <1>3
  <2> QED
    BY <1>1, <1>3, <1>4, <2>1
<1>8. Len(all) = Len(B) + 1 + Len(A) + 1 /\ all[Len(B) + 1 + Len(A) + 1] = f
  BY <1>1, <1>2, <1>3, <1>4
<1> QED
  BY <1>4, <1>5, <1>6, <1>7, <1>8 DEF FourParts, all, Y, X
\* The lines in order: the before fixtures, the test, the after fixtures, the end.
LEMMA LinesInOrder ==
    ASSUME NEW t \in Tests
    PROVE  /\ AllLines(t) \in Seq(Item)
           /\ Len(AllLines(t)) = CountOf(t, "before") + 1 + CountOf(t, "after") + 1
           /\ \A n \in 1..CountOf(t, "before") :
                 AllLines(t)[n] = Line(t, "before", n - 1)
           /\ AllLines(t)[CountOf(t, "before") + 1] = Line(t, "test", 0)
           /\ \A n \in 1..CountOf(t, "after") :
                 AllLines(t)[CountOf(t, "before") + 1 + n] = Line(t, "after", n - 1)
           /\ AllLines(t)[CountOf(t, "before") + 1 + CountOf(t, "after") + 1]
                 = Line(t, "finished", 0)
<1>1. PICK b \in Nat, a \in Nat : b = CountOf(t, "before") /\ a = CountOf(t, "after")
  BY CountOfBound
<1>2. ASSUME NEW kind \in FixtureKinds
      PROVE  FixtureLines(t, kind) \in Seq(Item)
  <2>1. \A n \in 1..CountOf(t, kind) : Line(t, kind, n - 1) \in Item
    BY CountOfBound DEF Line, Item, Tags
  <2> QED
    BY CountOfBound, <2>1 DEF FixtureLines
<1>3. PICK B \in Seq(Item) :
        B = FixtureLines(t, "before") /\ Len(B) = b
        /\ \A n \in 1..b : B[n] = Line(t, "before", n - 1)
  BY <1>1, <1>2 DEF FixtureLines, FixtureKinds
<1>4. PICK A \in Seq(Item) :
        A = FixtureLines(t, "after") /\ Len(A) = a
        /\ \A n \in 1..a : A[n] = Line(t, "after", n - 1)
  BY <1>1, <1>2 DEF FixtureLines, FixtureKinds
<1>5. PICK e \in Item, f \in Item : e = Line(t, "test", 0) /\ f = Line(t, "finished", 0)
  BY DEF Line, Item, Tags
<1>6. AllLines(t) = ((B \o <<e>>) \o A) \o <<f>>
  <2>1. [i \in 1..1 |-> [test |-> t, tag |-> "test", index |-> 0]] = <<e>>
    BY <1>5 DEF Line
  <2>2. [i \in 1..1 |-> [test |-> t, tag |-> "finished", index |-> 0]] = <<f>>
    BY <1>5 DEF Line
  <2> QED
    BY <1>3, <1>4, <2>1, <2>2 DEF AllLines, FixtureLines, Line, FixtureKinds
<1> DEFINE all == FourParts(B, e, A, f)
<1>7. /\ all \in Seq(Item) /\ Len(all) = Len(B) + 1 + Len(A) + 1
      /\ \A n \in 1..Len(B) : all[n] = B[n]
      /\ all[Len(B) + 1] = e
      /\ \A n \in 1..Len(A) : all[Len(B) + 1 + n] = A[n]
      /\ all[Len(B) + 1 + Len(A) + 1] = f
  <2>1. all \in Seq(Item)
    BY FourJoined
  <2>2. Len(all) = Len(B) + 1 + Len(A) + 1
    BY FourJoined
  <2>3. \A n \in 1..Len(B) : all[n] = B[n]
    BY FourJoined
  <2>4. all[Len(B) + 1] = e
    BY FourJoined
  <2>5. \A n \in 1..Len(A) : all[Len(B) + 1 + n] = A[n]
    BY FourJoined
  <2>6. all[Len(B) + 1 + Len(A) + 1] = f
    BY FourJoined
  <2> QED
    BY <2>1, <2>2, <2>3, <2>4, <2>5, <2>6
<1>8. AllLines(t) = all
  BY <1>6 DEF FourParts
<1> HIDE DEF all
<1> QED
  BY <1>1, <1>3, <1>4, <1>5, <1>7, <1>8

-----------------------------------------------------------------------------
(* What a child has announced. *)

\* The child's step is one of its test's, and its counter that of the fixtures.
InStep(t) ==
    /\ proc[t].step.kind = "none" => proc[t].step = NoStep /\ ~proc[t].failed
    /\ proc[t].step.kind \in FixtureKinds =>
          /\ proc[t].step.pos \in FixturePlaces(t)
          /\ Fixtures[t][proc[t].step.pos] = proc[t].step.kind
          /\ proc[t].index = CountTo(t, proc[t].step.kind, proc[t].step.pos)
    /\ proc[t].step.kind = "test" => proc[t].step = TestStep
    /\ proc[t].step.kind = "finished" => proc[t].step = FinishedStep /\ ~proc[t].failed

LEMMA AnnouncedBound ==
    ASSUME NEW t \in Tests, proc[t] \in Process, InStep(t)
    PROVE  Announced(t) \in Nat /\ Announced(t) <= Len(AllLines(t))
<1>1. /\ CountOf(t, "before") \in Nat /\ CountOf(t, "after") \in Nat
      /\ Len(AllLines(t)) = CountOf(t, "before") + 1 + CountOf(t, "after") + 1
  BY CountOfBound, LinesInOrder
<1>2. proc[t].step.kind \in FixtureKinds \union {"none", "test", "finished"}
  BY DEF Process, Step
<1>3. ASSUME proc[t].step.kind \in FixtureKinds
      PROVE  proc[t].index \in Nat /\ proc[t].index <= CountOf(t, proc[t].step.kind)
  BY <1>3, CountOfBound DEF InStep, Process
<1> QED
  BY <1>1, <1>2, <1>3 DEF Announced, FixtureKinds

\* Before a fixture of the kind the counter is that of the fixtures passed.
LEMMA IndexBefore ==
    ASSUME NEW t \in Tests, proc[t] \in Process, InStep(t), NEW kind \in FixtureKinds,
           NEW step, step.kind = kind,
           proc[t].step.kind \in {kind, IF kind = "before" THEN "none" ELSE "test"}
    PROVE  /\ proc[t].step.pos \in FixturePlaces(t) \union {0}
           /\ IndexFor(t, step) = CountTo(t, kind, proc[t].step.pos)
<1>1. CASE proc[t].step.kind = kind
  BY <1>1 DEF InStep, IndexFor
<1>2. CASE proc[t].step.kind # kind
  <2>1. proc[t].step.pos = 0
    BY <1>2 DEF InStep, NoStep, TestStep
  <2> QED
    BY <1>2, <2>1, CountToZero DEF IndexFor
<1> QED
  BY <1>1, <1>2

\* Announcing a step prints the next line of the test, the one that names it.
LEMMA AnnounceNext ==
    ASSUME NEW t \in Tests, proc \in [Tests -> Process], InStep(t),
           NEW step \in StepsOf(t), NEW failed \in BOOLEAN,
           failed => step # FinishedStep, Announce(t, step, failed)
    PROVE  /\ InStep(t)'
           /\ Announced(t)' = Announced(t) + 1
           /\ Announced(t) \in Nat /\ Announced(t) + 1 <= Len(AllLines(t))
           /\ AllLines(t)[Announced(t) + 1] = StatusLine(t, step)
           /\ StepOf(t, StatusLine(t, step)) = step
<1>1. /\ proc[t] \in Process
      /\ proc'[t].step = step /\ proc'[t].index = IndexFor(t, step) + 1
      /\ proc'[t].failed = failed
      /\ ~proc[t].failed /\ Follows(t, step, proc[t].step)
  BY DEF Announce, Process
<1>2. /\ CountOf(t, "before") \in Nat /\ CountOf(t, "after") \in Nat
      /\ Len(AllLines(t)) = CountOf(t, "before") + 1 + CountOf(t, "after") + 1
  BY CountOfBound, LinesInOrder
<1>3. /\ proc[t].step.kind = "none" => Announced(t) = 0
      /\ proc[t].step.kind = "before" => Announced(t) = proc[t].index
      /\ proc[t].step.kind = "test" => Announced(t) = CountOf(t, "before") + 1
      /\ proc[t].step.kind = "after" =>
            Announced(t) = CountOf(t, "before") + 1 + proc[t].index
  BY DEF Announced
<1>4. /\ step.kind = "before" => Announced(t)' = proc'[t].index
      /\ step.kind = "test" => Announced(t)' = CountOf(t, "before") + 1
      /\ step.kind = "after" => Announced(t)' = CountOf(t, "before") + 1 + proc'[t].index
      /\ step.kind = "finished" => Announced(t)' = Len(AllLines(t))
  BY <1>1 DEF Announced
<1>5. ASSUME NEW kind \in FixtureKinds, step.kind = kind
      PROVE  /\ InStep(t)'
             /\ IndexFor(t, step) \in Nat /\ IndexFor(t, step) < CountOf(t, kind)
             /\ StatusLine(t, step) = Line(t, kind, IndexFor(t, step))
             /\ StepOf(t, StatusLine(t, step)) = step
             /\ proc[t].step.kind \in {kind, IF kind = "before" THEN "none" ELSE "test"}
  <2> DEFINE last == proc[t].step.pos
  <2>1. step = FixtureStep(kind, step.pos) /\ step.pos \in FixturePlaces(t)
    BY <1>5 DEF StepsOf, FixtureStep, TestStep, FinishedStep, FixtureKinds
  <2>2. /\ NextOfKind(t, kind, last, step.pos)
        /\ proc[t].step.kind \in {kind, IF kind = "before" THEN "none" ELSE "test"}
    BY <1>1, <1>5 DEF Follows, FixtureKinds, TestStep, FinishedStep
  <2>3. last \in FixturePlaces(t) \union {0} /\ IndexFor(t, step) = CountTo(t, kind, last)
    BY <1>1, <1>5, <2>2, IndexBefore
  <2>4. last \in Nat
    BY <2>3, FixtureTypes
  <2>5. /\ CountTo(t, kind, step.pos - 1) = CountTo(t, kind, last)
        /\ CountTo(t, kind, step.pos) = CountTo(t, kind, last) + 1
    BY <2>1, <2>2, <2>4, CountToNextOfKind
  <2>6. CountTo(t, kind, last) \in Nat
    BY <2>4, CountToType
  <2>7. CountTo(t, kind, last) < CountOf(t, kind)
    <3>1. CountTo(t, kind, step.pos) <= CountOf(t, kind) /\ CountOf(t, kind) \in Nat
      BY <2>1, CountOfBound
    <3> QED
      BY <2>5, <2>6, <3>1
  <2>8. Fixtures[t][step.pos] = kind
    BY <2>2 DEF NextOfKind
  <2>9. InStep(t)'
    BY <1>1, <1>5, <2>1, <2>3, <2>5, <2>8 DEF InStep, FixtureKinds
  <2>10. StatusLine(t, step) = Line(t, kind, IndexFor(t, step))
    BY <1>5 DEF StatusLine, Line
  <2>11. StepOf(t, StatusLine(t, step)) = step
    <3>1. Line(t, kind, IndexFor(t, step)).tag = kind
          /\ Line(t, kind, IndexFor(t, step)).index = CountTo(t, kind, step.pos - 1)
      BY <2>3, <2>5 DEF Line
    <3> QED
      BY <2>1, <2>8, <2>10, <3>1, FixtureFound
  <2> QED
    BY <2>2, <2>3, <2>6, <2>7, <2>9, <2>10, <2>11
<1>6. CASE step.kind = "before"
  <2>1. /\ InStep(t)'
        /\ IndexFor(t, step) \in Nat /\ IndexFor(t, step) < CountOf(t, "before")
        /\ StatusLine(t, step) = Line(t, "before", IndexFor(t, step))
        /\ StepOf(t, StatusLine(t, step)) = step
        /\ proc[t].step.kind \in {"before", "none"}
    BY <1>5, <1>6 DEF FixtureKinds
  <2>2. Announced(t) = IndexFor(t, step)
    BY <1>3, <1>6, <2>1 DEF IndexFor
  <2>3. AllLines(t)[IndexFor(t, step) + 1] = Line(t, "before", (IndexFor(t, step) + 1) - 1)
    <3>1. IndexFor(t, step) + 1 \in 1..CountOf(t, "before")
      BY <1>2, <2>1
    <3>2. \A n \in 1..CountOf(t, "before") : AllLines(t)[n] = Line(t, "before", n - 1)
      BY LinesInOrder
    <3> QED
      BY <3>1, <3>2, Zenon
  <2>4. Announced(t) \in Nat /\ Announced(t) + 1 <= Len(AllLines(t))
    BY <1>2, <2>1, <2>2
  <2>5. Announced(t)' = Announced(t) + 1
    BY <1>1, <1>4, <1>6, <2>2
  <2>6. (IndexFor(t, step) + 1) - 1 = IndexFor(t, step)
    BY <2>1
  <2> QED
    BY <2>1, <2>2, <2>3, <2>4, <2>5, <2>6
<1>7. CASE step.kind = "after"
  <2>1. /\ InStep(t)'
        /\ IndexFor(t, step) \in Nat /\ IndexFor(t, step) < CountOf(t, "after")
        /\ StatusLine(t, step) = Line(t, "after", IndexFor(t, step))
        /\ StepOf(t, StatusLine(t, step)) = step
        /\ proc[t].step.kind \in {"after", "test"}
    BY <1>5, <1>7 DEF FixtureKinds
  <2>2. Announced(t) = CountOf(t, "before") + 1 + IndexFor(t, step)
    BY <1>2, <1>3, <1>7, <2>1 DEF IndexFor
  <2>3. AllLines(t)[CountOf(t, "before") + 1 + (IndexFor(t, step) + 1)]
          = Line(t, "after", (IndexFor(t, step) + 1) - 1)
    <3>1. IndexFor(t, step) + 1 \in 1..CountOf(t, "after")
      BY <1>2, <2>1
    <3>2. \A n \in 1..CountOf(t, "after") :
             AllLines(t)[CountOf(t, "before") + 1 + n] = Line(t, "after", n - 1)
      BY LinesInOrder
    <3> QED
      BY <3>1, <3>2, Zenon
  <2>4. /\ (IndexFor(t, step) + 1) - 1 = IndexFor(t, step)
        /\ CountOf(t, "before") + 1 + (IndexFor(t, step) + 1) = Announced(t) + 1
    BY <1>2, <2>1, <2>2
  <2>5. Announced(t) \in Nat /\ Announced(t) + 1 <= Len(AllLines(t))
    BY <1>2, <2>1, <2>2
  <2>6. Announced(t)' = Announced(t) + 1
    BY <1>1, <1>2, <1>4, <1>7, <2>1, <2>2
  <2> QED
    BY <2>1, <2>3, <2>4, <2>5, <2>6
<1>8. CASE step = TestStep
  <2>1. proc[t].step.kind \in {"none", "before"} /\ NoneLeft(t, "before", proc[t].step.pos)
    BY <1>1, <1>8 DEF Follows, TestStep, FinishedStep
  <2>2. /\ proc[t].step.pos \in FixturePlaces(t) \union {0}
        /\ proc[t].step.kind = "before" =>
              proc[t].index = CountTo(t, "before", proc[t].step.pos)
        /\ proc[t].step.kind = "none" => proc[t].step.pos = 0
    BY <2>1 DEF InStep, FixtureKinds, NoStep
  <2>3. CountTo(t, "before", proc[t].step.pos) = CountOf(t, "before")
    <3>1. proc[t].step.pos \in Nat /\ proc[t].step.pos <= Len(Fixtures[t])
      BY <2>2, FixtureTypes DEF FixturePlaces
    <3> QED
      BY <2>1, <3>1, CountToAll
  <2>4. Announced(t) = CountOf(t, "before")
    BY <1>3, <2>1, <2>2, <2>3, CountToZero
  <2>5. StatusLine(t, step) = Line(t, "test", 0) /\ StepOf(t, StatusLine(t, step)) = step
    BY <1>8 DEF StatusLine, Line, TestStep, FixtureKinds, StepOf
  <2>6. AllLines(t)[CountOf(t, "before") + 1] = Line(t, "test", 0)
    BY LinesInOrder
  <2>7. InStep(t)'
    BY <1>1, <1>8 DEF InStep, TestStep, FixtureKinds
  <2>8. Announced(t)' = CountOf(t, "before") + 1
    BY <1>4, <1>8 DEF TestStep
  <2> QED
    BY <1>2, <2>4, <2>5, <2>6, <2>7, <2>8
<1>9. CASE step = FinishedStep
  <2>1. proc[t].step.kind \in {"test", "after"} /\ NoneLeft(t, "after", proc[t].step.pos)
    BY <1>1, <1>9 DEF Follows, TestStep, FinishedStep
  <2>2. /\ proc[t].step.pos \in FixturePlaces(t) \union {0}
        /\ proc[t].step.kind = "after" =>
              proc[t].index = CountTo(t, "after", proc[t].step.pos)
        /\ proc[t].step.kind = "test" => proc[t].step.pos = 0
    BY <2>1 DEF InStep, FixtureKinds, TestStep
  <2>3. CountTo(t, "after", proc[t].step.pos) = CountOf(t, "after")
    <3>1. proc[t].step.pos \in Nat /\ proc[t].step.pos <= Len(Fixtures[t])
      BY <2>2, FixtureTypes DEF FixturePlaces
    <3> QED
      BY <2>1, <3>1, CountToAll
  <2>4. Announced(t) = CountOf(t, "before") + 1 + CountOf(t, "after")
    BY <1>2, <1>3, <2>1, <2>2, <2>3, CountToZero
  <2>5. StatusLine(t, step) = Line(t, "finished", 0) /\ StepOf(t, StatusLine(t, step)) = step
    BY <1>9 DEF StatusLine, Line, FinishedStep, FixtureKinds, StepOf
  <2>6. /\ AllLines(t)[CountOf(t, "before") + 1 + CountOf(t, "after") + 1]
             = Line(t, "finished", 0)
        /\ Len(AllLines(t)) = CountOf(t, "before") + 1 + CountOf(t, "after") + 1
    BY LinesInOrder
  <2>7. InStep(t)'
    BY <1>1, <1>9 DEF InStep, FinishedStep, FixtureKinds
  <2>8. Announced(t)' = Len(AllLines(t))
    BY <1>4, <1>9 DEF FinishedStep
  <2> QED
    BY <1>2, <2>4, <2>5, <2>6, <2>7, <2>8
<1> QED
  BY <1>6, <1>7, <1>8, <1>9 DEF StepsOf, FixtureStep, FixtureKinds

\* Each line announced so far names a step, and the last one the child's own.
Named(t) ==
    /\ InStep(t)
    /\ \A n \in 1..Announced(t) : StepOf(t, AllLines(t)[n]) # NoStep
    /\ Announced(t) = 0 => proc[t].step = NoStep
    /\ Announced(t) # 0 => StepOf(t, AllLines(t)[Announced(t)]) = proc[t].step

LEMMA NamedInit ==
    ASSUME NEW t \in Tests, proc[t] = NoProcess
    PROVE  Named(t) /\ Announced(t) = 0
  BY DEF Named, InStep, Announced, NoProcess, NoStep, FixtureKinds

LEMMA AnnounceNamed ==
    ASSUME NEW t \in Tests, proc \in [Tests -> Process], Named(t),
           NEW step \in StepsOf(t), NEW failed \in BOOLEAN,
           failed => step # FinishedStep, Announce(t, step, failed)
    PROVE  Named(t)'
<1>1. /\ InStep(t)' /\ Announced(t)' = Announced(t) + 1
      /\ AllLines(t)[Announced(t) + 1] = StatusLine(t, step)
      /\ StepOf(t, StatusLine(t, step)) = step
  BY AnnounceNext DEF Named
<1>2. Announced(t) \in Nat
  BY AnnouncedBound DEF Named
<1>3. proc'[t].step = step
  BY DEF Announce, Process
<1>4. step # NoStep
  BY DEF StepsOf, TestStep, FinishedStep, FixtureStep, FixtureKinds, NoStep
<1>5. Announced(t)' # 0 /\ StepOf(t, AllLines(t)[Announced(t)']) = proc'[t].step
  BY <1>1, <1>2, <1>3
<1>6. \A n \in 1..Announced(t)' : StepOf(t, AllLines(t)[n]) # NoStep
  <2>1. \A n \in 1..Announced(t)' : n = Announced(t) + 1 \/ n \in 1..Announced(t)
    BY <1>1, <1>2
  <2> QED
    BY <1>1, <1>4, <2>1 DEF Named
<1> QED
  BY <1>1, <1>5, <1>6 DEF Named

\* Nothing is announced unless the step, its counter or the failure changes.
LEMMA NamedKept ==
    ASSUME NEW t \in Tests, Named(t),
           proc'[t].step = proc[t].step, proc'[t].index = proc[t].index,
           proc'[t].failed = proc[t].failed
    PROVE  Named(t)' /\ Announced(t)' = Announced(t)
<1>1. Announced(t)' = Announced(t)
  BY DEF Announced
<1>2. InStep(t)'
  BY DEF InStep, Named
<1> QED
  BY <1>1, <1>2 DEF Named

USE DEF Tests, Slots

-----------------------------------------------------------------------------
(* Types. *)

\* The updates the actions make to a process keep it one.
LEMMA ProcessStep ==
    \A p \in Process, step \in Step, n \in Nat, b \in BOOLEAN :
        [p EXCEPT !.step = step, !.index = n, !.failed = b] \in Process
  BY DEF Process

LEMMA ProcessEnd ==
    \A p \in Process, state \in ProcessStates, b \in BOOLEAN :
        [p EXCEPT !.state = state, !.late = b] \in Process
  BY DEF Process

\* So do the updates of a pipe, for all the pipes.
LEMMA PipeType ==
    \A p \in [Tests -> Contents], t \in Tests, k \in Pipes : p[t][k] \in Seq(Item)
  BY DEF Contents

LEMMA PipeUpdate ==
    \A p \in [Tests -> Contents], t \in Tests, k \in Pipes, items \in Seq(Item) :
        [p EXCEPT ![t][k] = items] \in [Tests -> Contents]
  BY DEF Contents

LEMMA ContentsType == \A log \in Contents, k \in Pipes : log[k] \in Seq(Item)
  BY DEF Contents

\* The report of a test that is read off its logs is a result.
LEMMA StatusVerdictType ==
    ASSUME NEW run, run.log \in Contents, run.test \in Tests,
           NEW state, NEW timed_out \in BOOLEAN, NEW granted \in Granted,
           timed_out \/ state \in {"exited", "signalled", "stopped"}
    PROVE  StatusVerdict(run, state, timed_out, granted) \in Verdict
<1> DEFINE lines == run.log["status"]
           step == IF lines = <<>> THEN NoStep
                   ELSE StepOf(run.test, lines[Len(lines)])
           failedStep == IF Len(lines) < 2 THEN NoStep
                         ELSE StepOf(run.test, lines[Len(lines) - 1])
<1>1. lines \in Seq(Item)
  <2>1. run.log \in [Pipes -> Seq(Item)] /\ "status" \in Pipes
    BY DEF Contents, Pipes
  <2> QED
    BY <2>1
<1>2. ASSUME NEW line \in Item
      PROVE  StepOf(run.test, line) \in Step
  <2>1. CASE FixturesAt(run.test, line) = {}
    BY <2>1 DEF StepOf, Step, NoStep, TestStep, FinishedStep, Item, FixtureKinds
  <2>2. CASE FixturesAt(run.test, line) # {}
    <3>1. (CHOOSE i \in FixturesAt(run.test, line) : TRUE) \in FixturePlaces(run.test)
      BY <2>2 DEF FixturesAt
    <3>2. FixturePlaces(run.test) \subseteq Nat
      BY DEF FixturePlaces
    <3> QED
      BY <3>1, <3>2 DEF StepOf, Step, NoStep, TestStep, FinishedStep, FixtureStep,
                        Item, FixtureKinds
  <2> QED
    BY <2>1, <2>2
<1>3. NoStep \in Step
  BY DEF NoStep, Step
<1>4. step \in Step
  BY <1>1, <1>2, <1>3
<1>5. failedStep \in Step
  BY <1>1, <1>2, <1>3
<1>6. ExitOutcome(state, step, timed_out) \in Outcomes
  BY DEF ExitOutcome, Outcomes, Failures
<1>7. Len(run.log["out"]) \in Nat /\ Len(run.log["err"]) \in Nat
  BY DEF Contents, Pipes, Streams
<1>8. \A cause \in Causes, s \in Step : ErrorVerdict(cause, s) \in Verdict
  BY DEF ErrorVerdict, Verdict, Outcomes, Failures
<1>9. [outcome |-> ExitOutcome(state, step, timed_out), cause |-> "none",
       step |-> step, out |-> Len(run.log["out"]), err |-> Len(run.log["err"])]
         \in Verdict
  BY <1>4, <1>6, <1>7 DEF Verdict, Causes
<1> HIDE DEF step, failedStep
<1> QED
  BY <1>3, <1>5, <1>8, <1>9 DEF StatusVerdict, Causes, step, failedStep

\* Error verdicts are verdicts.
LEMMA ErrorVerdictType ==
    \A cause \in Causes : ErrorVerdict(cause, NoStep) \in Verdict
  BY DEF ErrorVerdict, Verdict, Outcomes, Failures, NoStep, Step

\* The sets of tests that are reported together are finite.
LEMMA TestsFinite == \A S \in SUBSET Tests : IsFiniteSet(S) /\ Cardinality(S) \in Nat
<1>1. IsFiniteSet(Tests)
  BY TestsAssumption, FS_Interval, NTests \in Int, 1 \in Int
<1> QED
  BY <1>1, FS_Subset, FS_CardinalityType

\* Reporting leaves the report, the tally and the counter in their types.
LEMMA ReportAllType ==
    ASSUME LoopTypes, NEW S \in SUBSET Tests, NEW result \in Verdict,
           ReportAll(S, result)
    PROVE  /\ report' \in [Tests -> Seq(Verdict)]
           /\ tally' \in [Outcomes -> Nat]
           /\ any_failed' \in BOOLEAN
           /\ finished' \in Nat
<1>1. Cardinality(S) \in Nat
  BY TestsFinite
<1>2. result.outcome \in Outcomes
  BY DEF Verdict
<1>3. report' \in [Tests -> Seq(Verdict)]
  BY DEF ReportAll, LoopTypes
<1>4. tally' \in [Outcomes -> Nat]
  BY <1>1, <1>2 DEF ReportAll, LoopTypes
<1>5. any_failed' \in BOOLEAN
  BY DEF ReportAll, LoopTypes
<1>6. finished' \in Nat
  BY <1>1 DEF ReportAll, LoopTypes
<1> QED
  BY <1>3, <1>4, <1>5, <1>6

\* An active slot holds a test that was started.
LEMMA ActiveTest ==
    ASSUME LoopTypes, NEW s \in Active
    PROVE  /\ s \in Slots
           /\ runs[s].test \in Tests
           /\ runs[s].test <= started
<1>1. started \in Nat /\ started <= NTests
  BY TestsAssumption DEF LoopTypes
<1> QED
  BY <1>1, TestsAssumption DEF LoopTypes, Active

-----------------------------------------------------------------------------
(* The steps of the children and of the clock. *)

ChildTyped ==
    /\ proc \in [Tests -> Process]
    /\ pipe \in [Tests -> Contents]
    /\ wrote \in [Tests -> [Streams -> Nat]]
    /\ overdue \in 0..NTests

LEMMA ChildTypes ==
    ASSUME LoopTypes, Elapse \/ \E t \in Tests : ChildStep(t)
    PROVE  ChildTyped'
<1>1. ASSUME NEW t \in Tests, NEW step \in StepsOf(t), NEW failed \in BOOLEAN,
             Announce(t, step, failed)
      PROVE  ChildTyped'
  <2>1. step \in Step
    BY <1>1 DEF StepsOf, Step, TestStep, FinishedStep, FixtureStep, FixturePlaces,
                FixtureKinds
  <2>2. IndexFor(t, step) \in Nat
    BY DEF IndexFor, LoopTypes, Process
  <2>3. proc' \in [Tests -> Process]
    <3>1. proc[t] \in Process
      BY DEF LoopTypes
    <3>2. [proc[t] EXCEPT !.step = step, !.index = IndexFor(t, step) + 1,
                          !.failed = failed] \in Process
      <4>1. IndexFor(t, step) + 1 \in Nat
        BY <2>2
      <4> QED
        BY <2>1, <3>1, <4>1, ProcessStep
    <3> QED
      BY <1>1, <3>2 DEF Announce, LoopTypes
  <2>4. StatusLine(t, step) \in Item /\ ErrorLine(t) \in Item
    BY <1>1, <2>2 DEF StatusLine, ErrorLine, Item, Tags, StepsOf, TestStep, FinishedStep,
                      FixtureStep, FixtureKinds
  <2>5. pipe' \in [Tests -> Contents]
    <3>1. "status" \in Pipes /\ pipe \in [Tests -> Contents]
      BY DEF Pipes, LoopTypes
    <3>2. pipe[t]["status"] \o
             (IF failed THEN <<StatusLine(t, step), ErrorLine(t)>>
                        ELSE <<StatusLine(t, step)>>) \in Seq(Item)
      <4>1. <<StatusLine(t, step), ErrorLine(t)>> \in Seq(Item)
            /\ <<StatusLine(t, step)>> \in Seq(Item)
        BY <2>4
      <4>2. pipe[t]["status"] \in Seq(Item)
        BY <3>1, PipeType
      <4> HIDE DEF StatusLine, ErrorLine
      <4> QED
        BY <4>1, <4>2
    <3> QED
      BY <1>1, <3>1, <3>2, PipeUpdate DEF Announce
  <2> QED
    BY <1>1, <2>3, <2>5 DEF Announce, LoopTypes, ChildTyped
<1>2. ASSUME NEW t \in Tests, NEW k \in Streams, Write(t, k)
      PROVE  ChildTyped'
  <2>1. wrote' \in [Tests -> [Streams -> Nat]]
    BY <1>2 DEF Write, LoopTypes
  <2>2. Chunk(t, k, wrote[t][k] + 1) \in Item
    BY <1>2 DEF LoopTypes, Chunk, Item, Tags
  <2>3. pipe' \in [Tests -> Contents]
    <3>1. k \in Pipes /\ pipe \in [Tests -> Contents]
      BY DEF Pipes, LoopTypes
    <3>2. Append(pipe[t][k], Chunk(t, k, wrote[t][k] + 1)) \in Seq(Item)
      <4>1. pipe[t][k] \in Seq(Item)
        BY <3>1, PipeType
      <4> QED
        BY <2>2, <4>1
    <3> QED
      BY <1>2, <3>1, <3>2, PipeUpdate DEF Write
  <2> QED
    BY <1>2, <2>1, <2>3 DEF Write, LoopTypes, ChildTyped
<1>3. ASSUME NEW t \in Tests, NEW state \in ProcessStates, EndAs(t, state)
      PROVE  ChildTyped'
  <2>1. proc' \in [Tests -> Process]
    <3>1. proc[t] \in Process
      BY DEF LoopTypes
    <3>2. [proc[t] EXCEPT !.state = state, !.late = (t <= overdue)] \in Process
      <4>1. t \in Int /\ overdue \in Int
        BY TestsAssumption DEF LoopTypes
      <4>2. (t <= overdue) \in BOOLEAN
        BY <4>1
      <4> QED
        BY <3>1, <4>2, ProcessEnd
    <3> QED
      BY <1>3, <3>2 DEF EndAs, LoopTypes
  <2> QED
    BY <1>3, <2>1 DEF EndAs, LoopTypes, ChildTyped
<1>4. ASSUME Elapse
      PROVE  ChildTyped'
  BY <1>4, TestsAssumption DEF Elapse, LoopTypes, ChildTyped
<1>5. ASSUME NEW t \in Tests, ChildStep(t)
      PROVE  ChildTyped'
  <2>1. CASE Proceed(t)
    BY <1>1, <2>1 DEF Proceed
  <2>2. CASE LoadError(t)
    BY <1>1, <2>2 DEF LoadError
  <2>3. CASE \E k \in Streams : Write(t, k)
    BY <1>2, <2>3
  <2>4. CASE Exit(t)
    BY <1>3, <2>4 DEF Exit, ProcessStates
  <2>5. CASE Signal(t)
    BY <1>3, <2>5 DEF Signal, ProcessStates
  <2>6. CASE Stop(t)
    BY <1>3, <2>6 DEF Stop, ProcessStates
  <2> QED
    BY <1>5, <2>1, <2>2, <2>3, <2>4, <2>5, <2>6 DEF ChildStep
<1> QED
  BY <1>4, <1>5

\* A child acts only while it runs, and only on what is its own.
LEMMA ChildActs ==
    ASSUME LoopTypes, NEW t \in Tests, ChildStep(t)
    PROVE  /\ Running(t)
           /\ proc'[t].state \in {"running", "exited", "signalled", "stopped"}
           /\ proc'[t].reaped = proc[t].reaped
           /\ proc'[t].state # "running" => (proc'[t].late <=> t <= overdue)
           /\ overdue' = overdue
           /\ \A u \in Tests \ {t} : /\ proc'[u] = proc[u] /\ pipe'[u] = pipe[u]
                                     /\ wrote'[u] = wrote[u]
<1>1. proc[t] \in Process
  BY DEF LoopTypes
<1>2. ASSUME NEW step, NEW failed, Announce(t, step, failed)
      PROVE  /\ Running(t) /\ proc'[t].state = "running"
             /\ proc'[t].reaped = proc[t].reaped
             /\ overdue' = overdue
             /\ \A u \in Tests \ {t} : /\ proc'[u] = proc[u] /\ pipe'[u] = pipe[u]
                                       /\ wrote'[u] = wrote[u]
  BY <1>1, <1>2 DEF Announce, Running, LoopTypes, Process
<1>3. CASE Proceed(t) \/ LoadError(t)
  BY <1>2, <1>3 DEF Proceed, LoadError
<1>4. CASE \E k \in Streams : Write(t, k)
  BY <1>1, <1>4 DEF Write, InUserCode, Running, LoopTypes
<1>5. ASSUME NEW state \in {"exited", "signalled", "stopped"}, EndAs(t, state)
      PROVE  /\ proc'[t].state = state /\ proc'[t].reaped = proc[t].reaped
             /\ proc'[t].late <=> t <= overdue
             /\ UNCHANGED <<pipe, wrote, overdue>>
             /\ \A u \in Tests \ {t} : proc'[u] = proc[u]
  BY <1>1, <1>5 DEF EndAs, LoopTypes, Process
<1>6. CASE Exit(t) \/ Signal(t) \/ Stop(t)
  BY <1>5, <1>6 DEF Exit, Signal, Stop, InUserCode, Running
<1> QED
  BY <1>3, <1>4, <1>6 DEF ChildStep

Unborn(t) == /\ proc[t] = NoProcess /\ pipe[t] = EmptyPipes
             /\ wrote[t] = [k \in Streams |-> 0]

-----------------------------------------------------------------------------
(* What a child wrote. *)

LEMMA WrittenType ==
    ASSUME LoopTypes, NEW t \in Tests, Named(t), NEW k \in Pipes
    PROVE  Written(t, k) \in Seq(Item)
<1>1. Announced(t) \in Nat /\ Announced(t) <= Len(AllLines(t)) /\ AllLines(t) \in Seq(Item)
  BY AnnouncedBound, LinesInOrder DEF Named, LoopTypes
<1>2. SubSeq(AllLines(t), 1, Announced(t)) \in Seq(Item)
  BY <1>1
<1>3. ErrorLine(t) \in Item
  BY DEF ErrorLine, Item, Tags
<1>4. CASE k = "status"
  BY <1>2, <1>3, <1>4, ConcatProperties DEF Written
<1>5. CASE k \in Streams
  <2>1. wrote[t][k] \in Nat
    BY <1>5 DEF LoopTypes
  <2>2. \A n \in 1..wrote[t][k] : Chunk(t, k, n) \in Item
    BY <1>5 DEF Chunk, Item, Tags
  <2> QED
    BY <1>5, <2>1, <2>2 DEF Written, Streams
<1> QED
  BY <1>4, <1>5 DEF Pipes

LEMMA WrittenKept ==
    ASSUME NEW t \in Tests, Named(t), wrote'[t] = wrote[t],
           proc'[t].step = proc[t].step, proc'[t].index = proc[t].index,
           proc'[t].failed = proc[t].failed
    PROVE  \A k \in Pipes : Written(t, k)' = Written(t, k)
<1>1. Announced(t)' = Announced(t)
  BY NamedKept
<1> QED
  BY <1>1 DEF Written, ErrorLine

\* What a child adds to a pipe is what it is said to have written.
Adds(t, k) == \E new \in Seq(Item) : /\ pipe'[t][k] = pipe[t][k] \o new
                                     /\ Written(t, k)' = Written(t, k) \o new

LEMMA AddsNothing ==
    ASSUME LoopTypes, NEW t \in Tests, Named(t), NEW k \in Pipes,
           pipe'[t][k] = pipe[t][k], Written(t, k)' = Written(t, k)
    PROVE  Adds(t, k)
<1>1. pipe[t][k] \in Seq(Item) /\ Written(t, k) \in Seq(Item)
  BY PipeType, WrittenType DEF LoopTypes
<1>2. <<>> \in Seq(Item) /\ pipe[t][k] \o <<>> = pipe[t][k]
      /\ Written(t, k) \o <<>> = Written(t, k)
  BY <1>1, ConcatEmptySeq
<1> QED
  BY <1>2 DEF Adds

LEMMA TwoItems ==
    ASSUME NEW a \in Item, NEW b \in Item
    PROVE  <<a>> \o <<b>> = <<a, b>>
<1> DEFINE x == <<a>> \o <<b>>
           y == <<a, b>>
<1>1. /\ x \in Seq(Item) /\ Len(x) = 2 /\ x[1] = a /\ x[2] = b
  BY ConcatProperties
<1>2. y \in Seq(Item)
  OBVIOUS
<1>3. Len(x) = Len(y) /\ \A i \in 1..Len(x) : x[i] = y[i]
  BY <1>1
<1> HIDE DEF x, y
<1>4. x = y
  BY <1>1, <1>2, <1>3, SeqEqual
<1> QED
  BY <1>4 DEF x, y

LEMMA AnnounceAdds ==
    ASSUME LoopTypes, NEW t \in Tests, Named(t),
           NEW step \in StepsOf(t), NEW failed \in BOOLEAN,
           failed => step # FinishedStep, Announce(t, step, failed)
    PROVE  \A k \in Pipes : Adds(t, k)
<1>1. /\ Announced(t)' = Announced(t) + 1 /\ InStep(t)'
      /\ AllLines(t)[Announced(t) + 1] = StatusLine(t, step)
  BY AnnounceNext DEF Named, LoopTypes
<1>2. /\ Announced(t) \in Nat /\ Announced(t) + 1 <= Len(AllLines(t))
      /\ AllLines(t) \in Seq(Item)
  BY AnnounceNext, LinesInOrder DEF Named, LoopTypes
<1> DEFINE line == StatusLine(t, step)
           before == SubSeq(AllLines(t), 1, Announced(t))
           error == IF failed THEN <<ErrorLine(t)>> ELSE <<>>
<1>3. /\ line \in Item /\ ErrorLine(t) \in Item /\ error \in Seq(Item)
      /\ before \in Seq(Item)
  <2>1. line \in Item
    BY <1>1, <1>2
  <2>2. ErrorLine(t) \in Item
    BY DEF ErrorLine, Item, Tags
  <2>3. before \in Seq(Item)
    BY <1>2
  <2> QED
    BY <2>1, <2>2, <2>3
<1>4. SubSeq(AllLines(t), 1, Announced(t) + 1) = before \o <<line>>
  <2>1. 1 \in 1..Len(AllLines(t)) /\ Announced(t) + 1 \in 1..Len(AllLines(t))
    BY <1>2
  <2>2. SubSeq(AllLines(t), 1, Announced(t) + 1)
          = SubSeq(AllLines(t), 1, (Announced(t) + 1) - 1) \o <<AllLines(t)[Announced(t) + 1]>>
    BY <1>2, <2>1, SubSeqRecursiveSecond
  <2>3. (Announced(t) + 1) - 1 = Announced(t)
    BY <1>2
  <2> QED
    BY <1>1, <2>2, <2>3
<1>5. proc'[t].failed = failed /\ ~proc[t].failed /\ wrote' = wrote
      /\ pipe'[t]["status"] = pipe[t]["status"] \o (<<line>> \o error)
      /\ \A k \in Streams : pipe'[t][k] = pipe[t][k]
  <2>1. proc'[t].failed = failed /\ ~proc[t].failed /\ wrote' = wrote
    BY DEF Announce, LoopTypes, Process
  <2>2. pipe'[t] = [pipe[t] EXCEPT !["status"] = @ \o
                      (IF failed THEN <<line, ErrorLine(t)>> ELSE <<line>>)]
    BY DEF Announce, LoopTypes
  <2>3. pipe[t] \in [Pipes -> Seq(Item)]
    BY DEF LoopTypes, Contents
  <2>4. (IF failed THEN <<line, ErrorLine(t)>> ELSE <<line>>) = <<line>> \o error
    <3>1. <<line>> \in Seq(Item)
      BY <1>3
    <3> HIDE DEF line
    <3>2. <<line>> \o <<>> = <<line>>
      BY <3>1, ConcatEmptySeq
    <3>3. <<line>> \o <<ErrorLine(t)>> = <<line, ErrorLine(t)>>
      BY <1>3, TwoItems
    <3>4. CASE failed
      BY <3>3, <3>4
    <3>5. CASE ~failed
      BY <3>2, <3>5
    <3> QED
      BY <3>4, <3>5
  <2> HIDE DEF line, error
  <2>5. pipe'[t]["status"] = pipe[t]["status"] \o (<<line>> \o error)
    BY <2>2, <2>3, <2>4 DEF Pipes
  <2>6. \A k \in Streams : pipe'[t][k] = pipe[t][k]
    BY <2>2, <2>3 DEF Pipes, Streams
  <2> QED
    BY <2>1, <2>5, <2>6
<1>6. Adds(t, "status")
  <2>1. Written(t, "status") = before
    <3>1. before \o <<>> = before
      BY <1>3, ConcatEmptySeq
    <3>2. Written(t, "status") = before \o <<>>
      BY <1>5 DEF Written
    <3> QED
      BY <3>1, <3>2
  <2>2. Written(t, "status")' = (before \o <<line>>) \o error
    BY <1>1, <1>4, <1>5 DEF Written, ErrorLine
  <2>3. <<line>> \in Seq(Item) /\ <<line>> \o error \in Seq(Item)
    BY <1>3, ConcatProperties
  <2> HIDE DEF line, before, error
  <2>4. (before \o <<line>>) \o error = before \o (<<line>> \o error)
    <3>1. before \in Seq(Item) /\ <<line>> \in Seq(Item) /\ error \in Seq(Item)
      BY <1>3, <2>3
    <3> QED
      BY <3>1, ConcatAssociative
  <2> QED
    BY <1>5, <2>1, <2>2, <2>3, <2>4 DEF Adds
<1>7. \A k \in Streams : Adds(t, k)
  <2>1. \A k \in Streams : Written(t, k)' = Written(t, k)
    BY <1>5 DEF Written, Streams
  <2> QED
    BY <1>5, <2>1, AddsNothing DEF Pipes
<1> QED
  BY <1>6, <1>7 DEF Pipes

LEMMA WriteAdds ==
    ASSUME LoopTypes, NEW t \in Tests, Named(t), NEW k \in Streams, Write(t, k)
    PROVE  \A j \in Pipes : Adds(t, j)
<1> DEFINE n == wrote[t][k]
           chunk == Chunk(t, k, n + 1)
<1>1. /\ n \in Nat /\ wrote'[t] = [wrote[t] EXCEPT ![k] = n + 1]
      /\ pipe'[t] = [pipe[t] EXCEPT ![k] = Append(@, chunk)]
      /\ proc' = proc
  BY DEF Write, LoopTypes
<1>2. /\ pipe[t] \in [Pipes -> Seq(Item)] /\ wrote[t] \in [Streams -> Nat]
      /\ chunk \in Item
  <2>1. pipe[t] \in [Pipes -> Seq(Item)] /\ wrote[t] \in [Streams -> Nat]
    BY DEF LoopTypes, Contents
  <2>2. k \in Tags /\ n + 1 \in Nat
    BY <1>1 DEF Tags
  <2>3. chunk \in Item
    BY <2>2 DEF Chunk, Item
  <2> QED
    BY <2>1, <2>3
<1>3. Announced(t)' = Announced(t)
  BY <1>1 DEF Announced
<1>4. ASSUME NEW j \in Pipes, j # k
      PROVE  Adds(t, j)
  <2>1. pipe'[t][j] = pipe[t][j]
    BY <1>1, <1>2, <1>4
  <2>2. j \in Streams => wrote'[t][j] = wrote[t][j]
    BY <1>1, <1>2, <1>4
  <2>3. Written(t, j)' = Written(t, j)
    BY <1>1, <1>3, <2>2 DEF Written, ErrorLine, Pipes
  <2> QED
    BY <2>1, <2>3, AddsNothing
<1>5. Adds(t, k)
  <2>1. k \in Pipes /\ k # "status"
    BY DEF Pipes, Streams
  <2>2. pipe'[t][k] = pipe[t][k] \o <<chunk>>
    <3>1. pipe'[t][k] = Append(pipe[t][k], chunk)
      BY <1>1, <1>2, <2>1
    <3> QED
      BY <1>2, <2>1, <3>1, AppendIsConcat
  <2>3. Written(t, k)' = Written(t, k) \o <<chunk>>
    <3> DEFINE w == [i \in 1..n |-> Chunk(t, k, i)]
               v == [i \in 1..(n + 1) |-> Chunk(t, k, i)]
    <3>1. \A i \in 1..(n + 1) : Chunk(t, k, i) \in Item
      BY <1>1 DEF Chunk, Item, Tags
    <3>2. w \in Seq(Item) /\ Len(w) = n /\ v \in Seq(Item) /\ Len(v) = n + 1
      <4>1. n \in Nat /\ n + 1 \in Nat
        BY <1>1
      <4>2. w \in [1..n -> Item] /\ v \in [1..(n + 1) -> Item]
        BY <3>1, <4>1
      <4> HIDE DEF w, v, n
      <4> QED
        BY <4>1, <4>2
    <3>3. \A i \in 1..(n + 1) : v[i] = Chunk(t, k, i)
      OBVIOUS
    <3>4. \A i \in 1..n : w[i] = Chunk(t, k, i)
      OBVIOUS
    <3>5. Written(t, k) = w /\ Written(t, k)' = v
      BY <1>1, <1>2, <2>1 DEF Written
    <3> HIDE DEF w, v, chunk, n
    <3>6. /\ Append(w, chunk) \in Seq(Item) /\ Len(Append(w, chunk)) = n + 1
          /\ \A i \in 1..n : Append(w, chunk)[i] = w[i]
          /\ Append(w, chunk)[n + 1] = chunk
      BY <1>1, <1>2, <3>2, AppendProperties
    <3>7. \A i \in 1..(n + 1) : Append(w, chunk)[i] = v[i]
      BY <1>1, <3>3, <3>4, <3>6 DEF chunk
    <3>8. Append(w, chunk) = v
      BY <3>2, <3>6, <3>7, SeqEqual
    <3>9. Append(w, chunk) = w \o <<chunk>>
      BY <1>2, <3>2, AppendIsConcat
    <3> QED
      BY <3>5, <3>8, <3>9
  <2>4. <<chunk>> \in Seq(Item)
    BY <1>2
  <2> QED
    BY <2>2, <2>3, <2>4 DEF Adds
<1> QED
  BY <1>4, <1>5

\* A child's own step.
LEMMA ChildAdds ==
    ASSUME LoopTypes, NEW t \in Tests, Named(t), ChildStep(t)
    PROVE  Named(t)' /\ \A k \in Pipes : Adds(t, k)
<1>1. proc \in [Tests -> Process] /\ proc[t] \in Process
  BY DEF LoopTypes
<1>2. ASSUME NEW step \in StepsOf(t), NEW failed \in BOOLEAN,
             failed => step # FinishedStep, Announce(t, step, failed)
      PROVE  Named(t)' /\ \A k \in Pipes : Adds(t, k)
  BY <1>1, <1>2, AnnounceNamed, AnnounceAdds
<1>3. CASE Proceed(t) \/ LoadError(t)
  BY <1>2, <1>3 DEF Proceed, LoadError
<1>4. CASE \E k \in Streams : Write(t, k)
  <2>1. proc' = proc
    BY <1>4 DEF Write
  <2> QED
    BY <1>4, <2>1, WriteAdds, NamedKept
<1>5. CASE Exit(t) \/ Signal(t) \/ Stop(t)
  <2>1. PICK state : EndAs(t, state)
    BY <1>5 DEF Exit, Signal, Stop
  <2>2. /\ proc'[t].step = proc[t].step /\ proc'[t].index = proc[t].index
        /\ proc'[t].failed = proc[t].failed /\ pipe' = pipe /\ wrote' = wrote
    BY <1>1, <2>1 DEF EndAs, Process
  <2>3. \A k \in Pipes : Written(t, k)' = Written(t, k)
    BY <2>2, WrittenKept
  <2> QED
    BY <2>2, <2>3, NamedKept, AddsNothing
<1> QED
  BY <1>3, <1>4, <1>5 DEF ChildStep

LEMMA UnbornWrites ==
    ASSUME NEW t \in Tests, Unborn(t)
    PROVE  Named(t) /\ \A k \in Pipes : Written(t, k) = <<>>
<1>1. Named(t) /\ Announced(t) = 0 /\ ~proc[t].failed
  <2>1. proc[t] = NoProcess
    BY DEF Unborn
  <2>2. Named(t) /\ Announced(t) = 0
    BY <2>1, NamedInit
  <2>3. ~proc[t].failed
    BY <2>1 DEF NoProcess
  <2> QED
    BY <2>2, <2>3
<1>2. Written(t, "status") = <<>>
  <2>1. AllLines(t) \in Seq(Item)
    BY LinesInOrder
  <2>2. SubSeq(AllLines(t), 1, 0) = <<>>
    BY <2>1
  <2>3. Written(t, "status") = SubSeq(AllLines(t), 1, 0) \o <<>>
    BY <1>1 DEF Written
  <2> QED
    BY <2>2, <2>3
<1>3. ASSUME NEW k \in Streams
      PROVE  Written(t, k) = <<>>
  <2>1. k # "status" /\ wrote[t][k] = 0
    BY DEF Unborn, Streams
  <2>2. Written(t, k) = [n \in 1..0 |-> Chunk(t, k, n)]
    BY <2>1 DEF Written
  <2> QED
    BY <2>2
<1> QED
  BY <1>1, <1>2, <1>3 DEF Pipes

-----------------------------------------------------------------------------
(* The logs of a slot belong to its child. *)

TestOf(s) == runs[s].test

\* What tdo read of a pipe and what is still in it.
Own(s, k) == runs[s].log[k] \o pipe[TestOf(s)][k] = Written(TestOf(s), k)

LEMMA OwnKept ==
    ASSUME NEW s \in Slots, NEW t \in Tests, TestOf(s) = t, NEW k \in Pipes, Own(s, k),
           runs'[s] = runs[s], pipe'[t] = pipe[t], Written(t, k)' = Written(t, k)
    PROVE  Own(s, k)'
<1>1. TestOf(s)' = t /\ runs'[s].log[k] = runs[s].log[k]
  BY DEF TestOf
<1> QED
  BY <1>1 DEF Own, TestOf

LEMMA OwnAdds ==
    ASSUME LoopTypes, NEW s \in Slots, NEW t \in Tests, TestOf(s) = t, NEW k \in Pipes,
           runs[s].log \in Contents, Named(t), Own(s, k), runs'[s] = runs[s], Adds(t, k)
    PROVE  Own(s, k)'
<1>1. PICK new \in Seq(Item) : /\ pipe'[t][k] = pipe[t][k] \o new
                               /\ Written(t, k)' = Written(t, k) \o new
  BY DEF Adds
<1> DEFINE log == runs[s].log[k]
           rest == pipe[t][k]
<1>2. log \in Seq(Item) /\ rest \in Seq(Item)
  BY PipeType, ContentsType DEF LoopTypes
<1>3. log \o rest = Written(t, k)
  BY DEF Own
<1>4. TestOf(s)' = t /\ runs'[s].log[k] = log
  BY DEF TestOf
<1>5. (log \o rest) \o new = log \o (rest \o new)
  <2> HIDE DEF log, rest
  <2> QED
    BY <1>2, ConcatAssociative
<1>6. log \o (rest \o new) = Written(t, k)'
  BY <1>1, <1>3, <1>5
<1> QED
  BY <1>1, <1>4, <1>6 DEF Own, TestOf

-----------------------------------------------------------------------------
(* What is read off the logs of a slot. *)

\* The lines a child wrote on its status pipe: the steps it announced, each of
\* which names a step, then the error line if a symbol did not load.
LEMMA StatusLines ==
    ASSUME LoopTypes, NEW t \in Tests, Named(t)
    PROVE  /\ Announced(t) \in Nat
           /\ Written(t, "status") \in Seq(Item)
           /\ Len(Written(t, "status"))
                 = IF proc[t].failed THEN Announced(t) + 1 ELSE Announced(t)
           /\ \A n \in 1..Announced(t) :
                 /\ Written(t, "status")[n] = AllLines(t)[n]
                 /\ Written(t, "status")[n].tag # "error"
                 /\ StepOf(t, Written(t, "status")[n]) # NoStep
           /\ proc[t].failed =>
                 /\ Announced(t) >= 1
                 /\ Written(t, "status")[Announced(t) + 1].tag = "error"
                 /\ proc[t].step.kind \in FixtureKinds \union {"test"}
<1>1. /\ Announced(t) \in Nat /\ Announced(t) <= Len(AllLines(t))
      /\ AllLines(t) \in Seq(Item)
  BY AnnouncedBound, LinesInOrder DEF Named, LoopTypes
<1> DEFINE before == SubSeq(AllLines(t), 1, Announced(t))
           error == IF proc[t].failed THEN <<ErrorLine(t)>> ELSE <<>>
<1>2. /\ before \in Seq(Item) /\ Len(before) = Announced(t)
      /\ \A n \in 1..Announced(t) : before[n] = AllLines(t)[n]
  BY <1>1
<1>3. /\ error \in Seq(Item) /\ Len(error) = IF proc[t].failed THEN 1 ELSE 0
      /\ proc[t].failed => error[1].tag = "error"
  <2>1. ErrorLine(t) \in Item /\ ErrorLine(t).tag = "error"
    BY DEF ErrorLine, Item, Tags
  <2>2. CASE proc[t].failed
    BY <2>1, <2>2
  <2>3. CASE ~proc[t].failed
    BY <2>3
  <2> QED
    BY <2>2, <2>3
<1>4. Written(t, "status") = before \o error
  BY DEF Written
<1>5. \A n \in 1..Announced(t) : /\ StepOf(t, AllLines(t)[n]) # NoStep
                                 /\ AllLines(t)[n].tag # "error"
  BY DEF Named, StepOf, FixtureKinds
<1>6. proc[t].failed => /\ Announced(t) >= 1
                        /\ proc[t].step.kind \in FixtureKinds \union {"test"}
  <2>1. proc[t].step.kind \in FixtureKinds \union {"none", "test", "finished"}
    BY DEF LoopTypes, Process, Step
  <2> QED
    BY <1>1, <2>1 DEF Named, InStep, NoStep
<1> DEFINE whole == before \o error
<1>7. /\ whole \in Seq(Item) /\ Len(whole) = Len(before) + Len(error)
      /\ \A n \in 1..Len(before) : whole[n] = before[n]
      /\ \A n \in 1..Len(error) : whole[Len(before) + n] = error[n]
  BY <1>2, <1>3, ItemsJoined
<1> HIDE DEF before, error, whole
<1>8. Len(whole) = IF proc[t].failed THEN Announced(t) + 1 ELSE Announced(t)
  BY <1>1, <1>2, <1>3, <1>7
<1>9. \A n \in 1..Announced(t) : whole[n] = AllLines(t)[n]
  BY <1>2, <1>7
<1>10. proc[t].failed => whole[Announced(t) + 1].tag = "error"
  BY <1>1, <1>2, <1>3, <1>7
<1>11. Written(t, "status") = whole
  BY <1>4 DEF whole
<1> QED
  BY <1>1, <1>5, <1>6, <1>7, <1>8, <1>9, <1>10, <1>11

\* What tdo reads off a log that begins what the child wrote, rest being still
\* in the pipe: nothing, a load error at the child's step, or the step of a line
\* the child wrote, which is its last one when nothing is left in the pipe.  With
\* no memory for that step the report is an error of its own.
ReadAs(t, run, rest, state, timed_out, granted) ==
    LET verdict == StatusVerdict(run, state, timed_out, granted)
    IN  \/ verdict = ErrorVerdict("nodata", NoStep)
        \/ ~granted /\ verdict = ErrorVerdict("step", NoStep)
        \/ proc[t].failed /\ verdict = ErrorVerdict("load", proc[t].step)
        \/ \E n \in 1..Announced(t) :
              /\ verdict = [outcome |-> ExitOutcome(state, StepOf(t, AllLines(t)[n]), timed_out),
                            cause |-> "none", step |-> StepOf(t, AllLines(t)[n]),
                            out |-> Len(run.log["out"]), err |-> Len(run.log["err"])]
              /\ rest = <<>> => /\ ~proc[t].failed
                                /\ StepOf(t, AllLines(t)[n]) = proc[t].step

LEMMA StatusRead ==
    ASSUME LoopTypes, NEW t \in Tests, Named(t), NEW run, run.test = t,
           run.log \in Contents,
           NEW rest \in Seq(Item), run.log["status"] \o rest = Written(t, "status"),
           NEW state, NEW timed_out \in BOOLEAN, NEW granted \in Granted
    PROVE  ReadAs(t, run, rest, state, timed_out, granted)
<1> DEFINE lines == run.log["status"]
           W == Written(t, "status")
           a == Announced(t)
           verdict == StatusVerdict(run, state, timed_out, granted)
<1>1. /\ a \in Nat /\ W \in Seq(Item)
      /\ Len(W) = IF proc[t].failed THEN a + 1 ELSE a
      /\ \A n \in 1..a : /\ W[n] = AllLines(t)[n] /\ W[n].tag # "error"
                         /\ StepOf(t, W[n]) # NoStep
      /\ proc[t].failed => /\ a >= 1 /\ W[a + 1].tag = "error"
                           /\ proc[t].step.kind \in FixtureKinds \union {"test"}
  BY StatusLines
<1>2. lines \in Seq(Item)
  BY ContentsType DEF Pipes
<1>3. /\ Len(W) = Len(lines) + Len(rest) /\ Len(rest) \in Nat
      /\ \A n \in 1..Len(lines) : W[n] = lines[n]
  <2>1. /\ Len(lines \o rest) = Len(lines) + Len(rest)
        /\ \A n \in 1..Len(lines) : (lines \o rest)[n] = lines[n]
    BY <1>2, ItemsJoined
  <2> QED
    BY <2>1
<1>4. a # 0 => StepOf(t, AllLines(t)[a]) = proc[t].step
  BY DEF Named
<1>5. run.test = t
  OBVIOUS
<1> DEFINE step == IF lines = <<>> THEN NoStep ELSE StepOf(t, lines[Len(lines)])
           failedStep == IF Len(lines) < 2 THEN NoStep
                         ELSE StepOf(t, lines[Len(lines) - 1])
           unbuilt == ~granted /\ verdict = ErrorVerdict("step", NoStep)
<1>6. \/ unbuilt
      \/ verdict =
           IF lines = <<>> THEN ErrorVerdict("nodata", NoStep)
           ELSE IF lines[Len(lines)].tag = "error"
                THEN IF failedStep.kind \in FixtureKinds \union {"test"}
                     THEN ErrorVerdict("load", failedStep)
                     ELSE ErrorVerdict("malformed", NoStep)
           ELSE IF step = NoStep THEN ErrorVerdict("malformed", NoStep)
           ELSE [outcome |-> ExitOutcome(state, step, timed_out),
                 cause |-> "none", step |-> step,
                 out |-> Len(run.log["out"]), err |-> Len(run.log["err"])]
  <2>1. granted \in BOOLEAN
    BY DEF Granted
  <2> QED
    BY <1>5, <2>1 DEF StatusVerdict
<1>10. CASE unbuilt
  BY <1>10 DEF verdict, unbuilt, ReadAs
<1> SUFFICES ASSUME ~unbuilt PROVE ReadAs(t, run, rest, state, timed_out, granted)
  BY <1>10
<1> HIDE DEF verdict, W, a, unbuilt
<1>7. CASE lines = <<>>
  BY <1>6, <1>7 DEF verdict, ReadAs
<1>8. CASE lines # <<>> /\ Len(lines) <= a
  <2> DEFINE n == Len(lines)
  <2>1. n \in 1..a
    BY <1>1, <1>2, <1>8
  <2>2. lines[n] = AllLines(t)[n] /\ lines[n].tag # "error" /\ StepOf(t, lines[n]) # NoStep
    <3>4. n \in 1..Len(lines) /\ \A m \in 1..Len(lines) : W[m] = lines[m]
      <4>1. n = Len(lines) /\ Len(lines) \in Nat /\ Len(lines) > 0
        BY <1>1, <2>1
      <4> HIDE DEF n, lines
      <4> QED
        BY <1>3, <4>1
    <3> HIDE DEF n, lines
    <3>1. W[n] = lines[n]
      BY <3>4, Zenon
    <3>2. \A m \in 1..a : /\ W[m] = AllLines(t)[m] /\ W[m].tag # "error"
                          /\ StepOf(t, W[m]) # NoStep
      BY <1>1
    <3>3. W[n] = AllLines(t)[n] /\ W[n].tag # "error" /\ StepOf(t, W[n]) # NoStep
      BY <2>1, <3>2, Zenon
    <3> QED
      BY <3>1, <3>3, Zenon
  <2>3. step = StepOf(t, AllLines(t)[n]) /\ step # NoStep
    BY <1>8, <2>2
  <2>4. rest = <<>> => ~proc[t].failed /\ n = a
    BY <1>1, <1>2, <1>3, <2>1
  <2>5. rest = <<>> => ~proc[t].failed /\ StepOf(t, AllLines(t)[n]) = proc[t].step
    BY <1>1, <1>4, <2>1, <2>4
  <2> HIDE DEF step, failedStep
  <2>6. verdict = [outcome |-> ExitOutcome(state, step, timed_out),
                   cause |-> "none", step |-> step,
                   out |-> Len(run.log["out"]), err |-> Len(run.log["err"])]
    BY <1>6, <1>8, <2>2, <2>3
  <2>7. n \in 1..Announced(t)
    BY <2>1 DEF a
  <2> HIDE DEF n, lines
  <2> QED
    BY <2>3, <2>5, <2>6, <2>7 DEF verdict, ReadAs
<1>9. CASE Len(lines) > a
  <2>1. proc[t].failed /\ Len(lines) = a + 1 /\ a >= 1
    BY <1>1, <1>2, <1>3, <1>9
  <2>2. lines[Len(lines)].tag = "error"
    <3>1. W[a + 1].tag = "error" /\ Len(lines) = a + 1 /\ a \in Nat
      BY <1>1, <2>1
    <3> HIDE DEF lines
    <3>2. W[a + 1] = lines[a + 1]
      BY <1>3, <3>1
    <3> QED
      BY <3>1, <3>2, Zenon
  <2>3. lines[Len(lines) - 1] = AllLines(t)[a] /\ ~(Len(lines) < 2) /\ lines # <<>>
    BY <1>1, <1>2, <1>3, <2>1
  <2>4. failedStep = proc[t].step
    BY <1>1, <1>4, <2>1, <2>3
  <2> HIDE DEF step, failedStep
  <2>5. verdict = ErrorVerdict("load", proc[t].step)
    BY <1>1, <1>6, <2>1, <2>2, <2>3, <2>4
  <2> QED
    BY <2>1, <2>5 DEF verdict, ReadAs
<1> QED
  BY <1>1, <1>2, <1>7, <1>8, <1>9

\* What a result v of test t says of the child's end, of its step, of its
\* output and of its time is so.
EndRight(t, v) ==
    /\ v.outcome = "success" => proc[t].state = "exited" /\ proc[t].step = FinishedStep
    /\ v.outcome = "exit" => proc[t].state = "exited" /\ proc[t].step # FinishedStep
    /\ v.outcome = "signal" => proc[t].state = "signalled"
    /\ v.outcome = "stop" => proc[t].state = "killed"
    /\ v.cause = "load" => proc[t].failed
    /\ v.outcome \in EndedOutcomes => ~proc[t].failed
    /\ v.cause # "malformed"

StepRight(t, v) ==
    /\ v.outcome \in EndedOutcomes \/ v.cause = "load" => v.step = proc[t].step
    /\ v.outcome = "timeout" =>
          v.step \in {StepOf(t, AllLines(t)[n]) : n \in 1..Announced(t)}

OutputRight(t, v) ==
    v.outcome \in EndedOutcomes => v.out = wrote[t]["out"] /\ v.err = wrote[t]["err"]

LEMMA VerdictsGrow ==
    ASSUME LoopTypes, NEW S \in SUBSET Tests, NEW result \in Verdict,
           ReportAll(S, result), NEW t \in Tests
    PROVE  /\ \A v \in Verdicts(t)' : v \in Verdicts(t) \/ (t \in S /\ v = result)
           /\ report[t] = <<>> => Verdicts(t) = {}
<1>1. report[t] \in Seq(Verdict)
  BY DEF LoopTypes
<1>2. report'[t] = IF t \in S THEN Append(report[t], result) ELSE report[t]
  BY DEF ReportAll
<1>3. ASSUME NEW v \in Verdicts(t)'
      PROVE  v \in Verdicts(t) \/ (t \in S /\ v = result)
  <2>1. PICK i \in 1..Len(report'[t]) : v = report'[t][i]
    BY DEF Verdicts
  <2>2. CASE t \in S
    <3>1. /\ Len(report'[t]) = Len(report[t]) + 1
          /\ \A j \in 1..Len(report[t]) : report'[t][j] = report[t][j]
          /\ report'[t][Len(report[t]) + 1] = result
      BY <1>1, <1>2, <2>2, AppendProperties
    <3>2. CASE i = Len(report[t]) + 1
      BY <2>1, <2>2, <3>1, <3>2
    <3>3. CASE i \in 1..Len(report[t])
      BY <2>1, <3>1, <3>3 DEF Verdicts
    <3> QED
      BY <1>1, <2>1, <3>1, <3>2, <3>3
  <2>3. CASE t \notin S
    BY <1>2, <2>1, <2>3 DEF Verdicts
  <2> QED
    BY <2>2, <2>3
<1>4. report[t] = <<>> => Verdicts(t) = {}
  BY DEF Verdicts
<1> QED
  BY <1>3, <1>4

-----------------------------------------------------------------------------
(* The counters and the slots. *)

\* While the loop goes on, the counters count the slots, no two slots hold the
\* same test, and exactly the started tests no slot holds have their result.
Counting ==
    /\ running = Cardinality(Active)
    /\ finished + running = started
    /\ \A r, s \in Active : runs[r].test = runs[s].test => r = s
    /\ \A s \in Active : report[runs[s].test] = <<>>
    /\ \A t \in Tests : t > started => report[t] = <<>>
    /\ \A t \in Tests : Len(report[t]) <= 1
    /\ \A t \in Tests : t <= started =>
          report[t] # <<>> \/ \E s \in Active : runs[s].test = t

\* The bounds the counters have in both parts of the invariant.
LEMMA ActiveCount ==
    /\ IsFiniteSet(Active) /\ Cardinality(Active) \in 0..Processes
    /\ Cardinality(Active) = 0 <=> Active = {}
    /\ Cardinality(Active) = Processes <=> Active = Slots
<1>1. IsFiniteSet(Slots) /\ Cardinality(Slots) = Processes
  BY ProcessesAssumption, FS_Interval, 1 \in Int, Processes \in Int, ~(1 > Processes)
<1>2. Active \in SUBSET Slots
  BY DEF Active
<1>3. IsFiniteSet(Active) /\ Cardinality(Active) <= Processes
  BY <1>1, <1>2, FS_Subset
<1>4. Cardinality(Active) \in Nat
  BY <1>3, FS_CardinalityType
<1>5. Cardinality(Active) = Processes => Active = Slots
  BY <1>1, <1>2, FS_Subset
<1>6. Cardinality(Active) = 0 <=> Active = {}
  BY <1>3, FS_EmptySet
<1> QED
  BY <1>1, <1>3, <1>4, <1>5, <1>6, ProcessesAssumption

\* The steps that leave the counters, the results and the slots' tests alone.
CountersKept == /\ UNCHANGED <<statusVars, report>>
         /\ \A s \in Slots : runs'[s].active = runs[s].active
                             /\ runs'[s].test = runs[s].test

\* Steps that only touch logs, pipes, processes and the place in the loop.
LEMMA CountingKept ==
    ASSUME LoopTypes, Counting,
           UNCHANGED <<started, finished, running, report>>,
           \A s \in Slots : runs'[s].active = runs[s].active
                            /\ runs'[s].test = runs[s].test
    PROVE  Counting'
<1>1. Active' = Active
  BY DEF Active
<1>2. \A s \in Active : s \in Slots
  BY DEF Active
<1> QED
  BY <1>1, <1>2 DEF Counting

\* Slot s was free and takes the next test.
Filled(s) ==
    /\ ~runs[s].active /\ runs'[s].active /\ runs'[s].test = started + 1
    /\ \A r \in Slots \ {s} : runs'[r] = runs[r]
    /\ started' = started + 1 /\ running' = running + 1
    /\ finished' = finished /\ report' = report

\* Starting a test: its slot was free and the test had no result.
LEMMA CountingStart ==
    ASSUME LoopTypes, Counting, NEW s \in Slots, CanStart, Filled(s)
    PROVE  Counting'
<1>1. started + 1 \in Tests /\ ~runs[s].active /\ started \in Nat
  BY TestsAssumption DEF Filled, CanStart, LoopTypes
<1>2. /\ runs'[s].test = started + 1 /\ runs'[s].active
      /\ \A r \in Slots \ {s} : runs'[r] = runs[r]
  BY DEF Filled
<1>3. Active' = Active \union {s} /\ s \notin Active
  BY <1>1, <1>2 DEF Active
<1>4. Cardinality(Active') = Cardinality(Active) + 1
  BY <1>3, ActiveCount, FS_AddElement
<1>5. /\ started' = started + 1 /\ running' = running + 1
      /\ finished' = finished /\ report' = report
  BY DEF Filled
<1>6. \A r \in Active : r \in Slots \ {s} /\ runs'[r].test = runs[r].test
                        /\ runs[r].test <= started /\ runs[r].test \in Tests
  BY <1>2, <1>3, ActiveTest DEF Active
<1>7. running' = Cardinality(Active') /\ finished' + running' = started'
  BY <1>4, <1>5, ActiveCount DEF Counting, LoopTypes
<1>8. \A q, r \in Active' : runs'[q].test = runs'[r].test => q = r
  BY <1>1, <1>2, <1>3, <1>6, TestsAssumption DEF Counting
<1>9. \A r \in Active' : report'[runs'[r].test] = <<>>
  BY <1>1, <1>2, <1>3, <1>5, <1>6 DEF Counting
<1>10. \A t \in Tests : /\ t > started' => report'[t] = <<>>
                        /\ Len(report'[t]) <= 1
  BY <1>1, <1>5 DEF Counting
<1>11. \A t \in Tests : t <= started' =>
          report'[t] # <<>> \/ \E r \in Active' : runs'[r].test = t
  <2>1. ASSUME NEW t \in Tests, t <= started
        PROVE  report'[t] # <<>> \/ \E r \in Active' : runs'[r].test = t
    BY <1>3, <1>5, <1>6, <2>1 DEF Counting
  <2> QED
    BY <1>1, <1>2, <1>3, <1>5, <2>1
<1> QED
  BY <1>7, <1>8, <1>9, <1>10, <1>11 DEF Counting

\* Slot s gives up its test with its result, and nothing else.
Released(s, result) ==
    /\ runs[s].active /\ ~runs'[s].active
    /\ \A r \in Slots : runs'[r].test = runs[r].test
    /\ \A r \in Slots \ {s} : runs'[r].active = runs[r].active
    /\ ReportAll({runs[s].test}, result)
    /\ running' = running - 1 /\ started' = started

\* Giving up a slot: its test gets its one result.
LEMMA CountingRelease ==
    ASSUME LoopTypes, Counting, NEW s \in Slots,
           NEW result \in Verdict, Released(s, result)
    PROVE  Counting'
<1> DEFINE u == runs[s].test
<1>1. u \in Tests /\ s \in Active /\ u <= started /\ started \in Nat
  BY ActiveTest, TestsAssumption DEF Released, Active, LoopTypes
<1>2. Active' = Active \ {s} /\ \A r \in Slots : runs'[r].test = runs[r].test
  BY DEF Released, Active
<1>3. Cardinality(Active') = Cardinality(Active) - 1
  BY <1>1, <1>2, ActiveCount, FS_RemoveElement
<1>4. Cardinality({u}) = 1
  BY FS_Singleton
<1>5. finished' = finished + 1 /\ running' = running - 1
  BY <1>4 DEF Released, ReportAll
<1>6. running' = Cardinality(Active') /\ finished' + running' = started'
  BY <1>3, <1>5, ActiveCount DEF Counting, Released, LoopTypes
<1>7. /\ report'[u] = Append(report[u], result)
      /\ \A t \in Tests \ {u} : report'[t] = report[t]
  BY <1>1 DEF Released, ReportAll, LoopTypes
<1>8. report'[u] = <<result>>
  <2>1. report[u] = <<>>
    BY <1>1 DEF Counting
  <2>2. Append(<<>>, result) = <<result>>
    OBVIOUS
  <2> QED
    BY <1>7, <2>1, <2>2
<1>9. \A r \in Active' : r \in Active /\ r \in Slots /\ runs[r].test \in Tests \ {u}
  BY <1>1, <1>2, ActiveTest DEF Counting
<1>10. \A q, r \in Active' : runs'[q].test = runs'[r].test => q = r
  BY <1>2, <1>9 DEF Counting
<1>11. \A r \in Active' : report'[runs'[r].test] = <<>>
  BY <1>2, <1>7, <1>9 DEF Counting
<1>12. \A t \in Tests : t > started' => report'[t] = <<>>
  <2>1. ASSUME NEW t \in Tests, t > started
        PROVE  t # u /\ report[t] = <<>>
    BY <1>1, <2>1, TestsAssumption DEF Counting
  <2> QED
    BY <1>7, <2>1 DEF Released
<1>13. \A t \in Tests : Len(report'[t]) <= 1
  <2>1. Len(<<result>>) = 1
    OBVIOUS
  <2>2. Len(report'[u]) <= 1
    BY <1>8, <2>1
  <2>3. \A t \in Tests \ {u} : Len(report'[t]) <= 1
    BY <1>7 DEF Counting
  <2> QED
    BY <2>2, <2>3
<1>14. \A t \in Tests : t <= started' =>
          report'[t] # <<>> \/ \E r \in Active' : runs'[r].test = t
  <2>1. ASSUME NEW t \in Tests \ {u}, t <= started
        PROVE  report'[t] # <<>> \/ \E r \in Active' : runs'[r].test = t
    <3>1. CASE report[t] # <<>>
      BY <1>7, <2>1, <3>1
    <3>2. CASE \E r \in Active : runs[r].test = t
      <4>1. PICK r \in Active : runs[r].test = t
        BY <3>2
      <4>2. r \in Active' /\ runs'[r].test = t
        BY <1>2, <2>1, <4>1 DEF Active
      <4> QED
        BY <4>2
    <3> QED
      BY <2>1, <3>1, <3>2 DEF Counting
  <2>2. report'[u] # <<>>
    BY <1>8
  <2>3. started' = started
    BY DEF Released
  <2> QED
    BY <2>1, <2>2, <2>3
<1> QED
  BY <1>6, <1>10, <1>11, <1>12, <1>13, <1>14 DEF Counting

\* Reporting every test left: the poll failure and the failed start.
LEMMA GivingUp ==
    ASSUME LoopTypes, Counting, NEW S \in SUBSET Tests, NEW result \in Verdict,
           ReportAll(S, result),
           S = {runs[s].test : s \in Active} \union Remaining
    PROVE  /\ finished' = NTests
           /\ \A t \in Tests : report'[t] # <<>> /\ Len(report'[t]) <= 1
<1> DEFINE Held == {runs[s].test : s \in Active}
           holds == [s \in Active |-> runs[s].test]
<1>1. started \in Nat /\ started <= NTests /\ NTests \in Nat
  BY TestsAssumption DEF LoopTypes
<1>2. holds \in Bijection(Active, Held)
  <2>1. holds \in [Active -> Held]
    OBVIOUS
  <2>2. \A r, s \in Active : holds[r] = holds[s] => r = s
    BY DEF Counting
  <2>3. \A t \in Held : \E s \in Active : holds[s] = t
    OBVIOUS
  <2> HIDE DEF holds, Held
  <2> QED
    BY <2>1, <2>2, <2>3 DEF Bijection, Injection, Surjection, IsInjective
<1>3. IsFiniteSet(Held) /\ Cardinality(Held) = Cardinality(Active)
  BY <1>2, ActiveCount, FS_Bijection DEF ExistsBijection
<1>4. Remaining = (started + 1)..NTests
  BY <1>1 DEF Remaining
<1>5. IsFiniteSet(Remaining) /\ Cardinality(Remaining) = NTests - started
  <2>1. started + 1 \in Int /\ NTests \in Int
    BY <1>1
  <2>2. /\ IsFiniteSet((started + 1)..NTests)
        /\ Cardinality((started + 1)..NTests) =
             IF started + 1 > NTests THEN 0 ELSE NTests - (started + 1) + 1
    BY <2>1, FS_Interval
  <2> QED
    BY <1>1, <1>4, <2>2
<1>6. Held \cap Remaining = {}
  BY <1>1, ActiveTest, TestsAssumption DEF Remaining
<1>7. Cardinality(S) = Cardinality(Active) + (NTests - started)
  <2>1. Cardinality(Held \union Remaining) =
          Cardinality(Held) + Cardinality(Remaining) - Cardinality(Held \cap Remaining)
    BY <1>3, <1>5, FS_Union
  <2>2. Cardinality({}) = 0
    BY FS_EmptySet
  <2>3. S = Held \union Remaining
    OBVIOUS
  <2>4. Cardinality(Active) \in Nat
    BY ActiveCount, ProcessesAssumption
  <2> HIDE DEF Held
  <2>5. Cardinality(S) = Cardinality(Held) + Cardinality(Remaining) - 0
    BY <1>6, <2>1, <2>2, <2>3
  <2> QED
    BY <1>1, <1>3, <1>5, <2>4, <2>5
<1>8. finished' = NTests
  <2>1. finished' = finished + Cardinality(S)
    BY DEF ReportAll
  <2> QED
    BY <1>1, <1>7, <2>1, ActiveCount DEF Counting, LoopTypes
<1>9. ASSUME NEW t \in Tests
      PROVE  report'[t] # <<>> /\ Len(report'[t]) <= 1
  <2>1. CASE t \in S
    <3>1. report[t] = <<>>
      BY <2>1 DEF Counting, Remaining
    <3>2. report'[t] = Append(report[t], result)
      BY <2>1 DEF ReportAll
    <3>3. Append(<<>>, result) = <<result>> /\ Len(<<result>>) = 1
          /\ <<result>> # <<>>
      OBVIOUS
    <3> QED
      BY <3>1, <3>2, <3>3
  <2>2. CASE t \notin S
    <3>1. report'[t] = report[t]
      BY <2>2 DEF ReportAll
    <3>2. t <= started /\ ~\E s \in Active : runs[s].test = t
      BY <1>1, <2>2 DEF Remaining
    <3> QED
      BY <3>1, <3>2 DEF Counting
  <2> QED
    BY <2>1, <2>2
<1> QED
  BY <1>8, <1>9

SomeFailure ==
    \E t \in Tests : \E i \in 1..Len(report[t]) : report[t][i].outcome \in Failures

\* A failure once reported stays reported.
LEMMA FailureKept ==
    ASSUME LoopTypes, any_failed => SomeFailure,
           NEW S \in SUBSET Tests, NEW result \in Verdict, ReportAll(S, result)
    PROVE  any_failed' => SomeFailure'
<1>1. CASE any_failed
  <2>0. PICK t \in Tests :
           \E i \in 1..Len(report[t]) : report[t][i].outcome \in Failures
    BY <1>1 DEF SomeFailure
  <2>1. PICK i \in 1..Len(report[t]) : report[t][i].outcome \in Failures
    BY <2>0
  <2>2. report[t] \in Seq(Verdict)
    BY DEF LoopTypes
  <2>3. report'[t] \in {report[t], Append(report[t], result)}
    BY DEF ReportAll
  <2>4. i \in 1..Len(report'[t]) /\ report'[t][i] = report[t][i]
    BY <2>2, <2>3
  <2> QED
    BY <2>1, <2>4 DEF SomeFailure
<1>2. CASE ~any_failed /\ any_failed'
  <2>1. S # {} /\ result.outcome \in Failures
    BY <1>2 DEF ReportAll
  <2>2. PICK t \in S : TRUE
    BY <2>1
  <2>3. report[t] \in Seq(Verdict) /\ report'[t] = Append(report[t], result)
    BY DEF ReportAll, LoopTypes
  <2>4. Len(report'[t]) \in 1..Len(report'[t]) /\ report'[t][Len(report'[t])] = result
    BY <2>3
  <2> QED
    BY <2>1, <2>4 DEF SomeFailure
<1> QED
  BY <1>1, <1>2

\* Once as many results are counted as there are tests, each test has its own.
LEMMA CountedAll ==
    ASSUME LoopTypes, Counting, finished >= NTests
    PROVE  Active = {} /\ \A t \in Tests : report[t] # <<>>
<1>1. started \in 0..NTests /\ Cardinality(Active) \in Nat /\ NTests \in Nat
  BY ActiveCount, ProcessesAssumption, TestsAssumption DEF LoopTypes
<1>2. started = NTests /\ Cardinality(Active) = 0
  BY <1>1 DEF Counting, LoopTypes
<1>3. Active = {}
  BY <1>2, ActiveCount
<1> QED
  BY <1>1, <1>2, <1>3 DEF Counting

\* A failure that is known is in the results.
LEMMA FailureFound ==
    ASSUME SomeFailure
    PROVE  \E t \in Tests : \E v \in Verdicts(t) : v.outcome \in Failures
<1>1. PICK t \in Tests : \E i \in 1..Len(report[t]) : report[t][i].outcome \in Failures
  BY DEF SomeFailure
<1>2. \E v \in Verdicts(t) : v.outcome \in Failures
  BY <1>1 DEF Verdicts
<1> QED
  BY <1>2, Zenon

-----------------------------------------------------------------------------
(* The counters of the summary. *)

\* A result is a test and a place in its report.
LEMMA ReportedMember ==
    \A r : r \in Reported <=> \E t \in Tests : \E i \in 1..Len(report[t]) : r = <<t, i>>
  BY DEF Reported

\* The results that reporting S adds: one at the end of each report.
Added(S) == {<<t, Len(report[t]) + 1>> : t \in S}

LEMMA AddedResults ==
    ASSUME LoopTypes, NEW S \in SUBSET Tests
    PROVE  /\ IsFiniteSet(Added(S)) /\ Cardinality(Added(S)) = Cardinality(S)
           /\ Added(S) \cap Reported = {}
<1>1. \A t \in Tests : Len(report[t]) \in Nat
  BY DEF LoopTypes
<1>2. IsFiniteSet(Added(S)) /\ Cardinality(Added(S)) = Cardinality(S)
  <2> DEFINE f == [t \in S |-> <<t, Len(report[t]) + 1>>]
  <2>1. f \in [S -> Added(S)]
    BY DEF Added
  <2>2. \A t, u \in S : f[t] = f[u] => t = u
    OBVIOUS
  <2>3. \A r \in Added(S) : \E t \in S : f[t] = r
    BY DEF Added
  <2> HIDE DEF f
  <2>4. f \in Bijection(S, Added(S))
    BY <2>1, <2>2, <2>3 DEF Bijection, Injection, Surjection, IsInjective
  <2> QED
    BY <2>4, TestsFinite, FS_Bijection DEF ExistsBijection
<1>3. ASSUME NEW r \in Added(S), r \in Reported
      PROVE  FALSE
  <2>1. PICK t \in S : r = <<t, Len(report[t]) + 1>>
    BY DEF Added
  <2>2. PICK u \in Tests : \E i \in 1..Len(report[u]) : r = <<u, i>>
    BY <1>3, ReportedMember
  <2>3. PICK i \in 1..Len(report[u]) : r = <<u, i>>
    BY <2>2
  <2>4. t = u /\ i = Len(report[t]) + 1
    BY <2>1, <2>3
  <2> QED
    BY <1>1, <2>4
<1> QED
  BY <1>2, <1>3

\* Reporting adds exactly those results, and leaves the earlier ones as they were.
LEMMA ReportedGrows ==
    ASSUME LoopTypes, NEW S \in SUBSET Tests, NEW result \in Verdict,
           ReportAll(S, result)
    PROVE  /\ Reported' = Reported \union Added(S)
           /\ \A o \in Outcomes : ReportedAs(o)' =
                 ReportedAs(o) \union (IF o = result.outcome THEN Added(S) ELSE {})
<1>1. \A t \in Tests : report[t] \in Seq(Verdict) /\ Len(report[t]) \in Nat
  BY DEF LoopTypes
<1>2. \A t \in Tests : /\ t \in S => report'[t] = Append(report[t], result)
                       /\ t \notin S => report'[t] = report[t]
  BY DEF ReportAll
<1>3. \A t \in Tests : Len(report'[t]) = IF t \in S THEN Len(report[t]) + 1 ELSE Len(report[t])
  BY <1>1, <1>2
<1>4. \A t \in Tests : \A i \in 1..Len(report[t]) : report'[t][i] = report[t][i]
  BY <1>1, <1>2
<1>5. \A t \in S : report'[t][Len(report[t]) + 1] = result
  BY <1>1, <1>2
<1>6. \A r : r \in Reported' <=> \E t \in Tests : \E i \in 1..Len(report'[t]) : r = <<t, i>>
  BY DEF Reported
<1>7. ASSUME NEW r
      PROVE  r \in Reported' <=> r \in Reported \/ r \in Added(S)
  <2>1. ASSUME r \in Reported'
        PROVE  r \in Reported \/ r \in Added(S)
    <3>1. PICK t \in Tests : \E i \in 1..Len(report'[t]) : r = <<t, i>>
      BY <1>6, <2>1
    <3>2. PICK i \in 1..Len(report'[t]) : r = <<t, i>>
      BY <3>1
    <3>3. i \in 1..Len(report[t]) \/ (t \in S /\ i = Len(report[t]) + 1)
      BY <1>1, <1>3
    <3> QED
      BY <3>2, <3>3, ReportedMember DEF Added
  <2>2. ASSUME r \in Reported
        PROVE  r \in Reported'
    <3>1. PICK t \in Tests : \E i \in 1..Len(report[t]) : r = <<t, i>>
      BY <2>2, ReportedMember
    <3>2. PICK i \in 1..Len(report[t]) : r = <<t, i>>
      BY <3>1
    <3>3. i \in 1..Len(report'[t])
      BY <1>1, <1>3
    <3> QED
      BY <1>6, <3>2, <3>3
  <2>3. ASSUME r \in Added(S)
        PROVE  r \in Reported'
    <3>1. PICK t \in S : r = <<t, Len(report[t]) + 1>>
      BY <2>3 DEF Added
    <3>2. Len(report[t]) + 1 \in 1..Len(report'[t])
      BY <1>1, <1>3
    <3> QED
      BY <1>6, <3>1, <3>2
  <2> QED
    BY <2>1, <2>2, <2>3
<1>8. Reported' = Reported \union Added(S)
  BY <1>7
<1>9. \A r \in Reported : report'[r[1]][r[2]] = report[r[1]][r[2]]
  BY <1>4, ReportedMember
<1>10. \A r \in Added(S) : report'[r[1]][r[2]] = result
  BY <1>5 DEF Added
<1>11. \A o : ReportedAs(o)' = {r \in Reported' : report'[r[1]][r[2]].outcome = o}
  BY DEF ReportedAs
<1>12. ASSUME NEW o \in Outcomes
       PROVE  ReportedAs(o)' =
                ReportedAs(o) \union (IF o = result.outcome THEN Added(S) ELSE {})
  BY <1>8, <1>9, <1>10, <1>11 DEF ReportedAs
<1> QED
  BY <1>8, <1>12

\* The counters are the numbers of results.
Accounts ==
    /\ IsFiniteSet(Reported) /\ finished = Cardinality(Reported)
    /\ \A o \in Outcomes : tally[o] = Cardinality(ReportedAs(o))
    /\ finished = tally["success"] + tally["exit"] + tally["timeout"]
                    + tally["signal"] + tally["error"] + tally["stop"]
    /\ any_failed = (\E o \in Failures : tally[o] > 0)

LEMMA AccountsBegin ==
    ASSUME report = [t \in Tests |-> <<>>], tally = [o \in Outcomes |-> 0],
           finished = 0, any_failed = FALSE
    PROVE  Accounts
<1>1. \A t \in Tests : 1..Len(report[t]) = {}
  OBVIOUS
<1>2. Reported = {}
  BY <1>1 DEF Reported
<1>3. \A o \in Outcomes : ReportedAs(o) = {}
  BY <1>2 DEF ReportedAs
<1>4. tally = [o \in Outcomes |-> 0] /\ finished = 0 /\ any_failed = FALSE
  OBVIOUS
<1>5. IsFiniteSet(Reported) /\ finished = Cardinality(Reported)
  BY <1>2, <1>4, FS_EmptySet
<1>6. \A o \in Outcomes : tally[o] = Cardinality(ReportedAs(o))
  BY <1>3, <1>4, FS_EmptySet
<1>7. finished = tally["success"] + tally["exit"] + tally["timeout"]
                    + tally["signal"] + tally["error"] + tally["stop"]
  BY <1>4 DEF Outcomes, Failures
<1>8. any_failed <=> \E o \in Failures : tally[o] > 0
  BY <1>4 DEF Outcomes, Failures
<1> QED
  BY <1>4, <1>5, <1>6, <1>7, <1>8, Zenon DEF Accounts

LEMMA AccountsReport ==
    ASSUME LoopTypes, Accounts, NEW S \in SUBSET Tests, NEW result \in Verdict,
           ReportAll(S, result)
    PROVE  Accounts'
<1> DEFINE n == Cardinality(S)
           o == result.outcome
<1>1. n \in Nat /\ IsFiniteSet(S) /\ (n = 0 <=> S = {})
  BY TestsFinite, FS_EmptySet
<1>2. o \in Outcomes
  BY DEF Verdict
<1>3. /\ tally' = [tally EXCEPT ![o] = @ + n]
      /\ finished' = finished + n
      /\ any_failed' = (any_failed \/ (S # {} /\ o \in Failures))
  BY DEF ReportAll
<1>4. /\ IsFiniteSet(Added(S)) /\ Cardinality(Added(S)) = n
      /\ Added(S) \cap Reported = {}
  BY AddedResults
<1>5. ASSUME NEW R, IsFiniteSet(R), R \subseteq Reported
      PROVE  /\ IsFiniteSet(R \union Added(S))
             /\ Cardinality(R \union Added(S)) = Cardinality(R) + n
  <2>1. R \cap Added(S) = {}
    BY <1>4, <1>5
  <2>2. Cardinality(R) \in Nat
    BY <1>5, FS_CardinalityType
  <2>3. Cardinality(R \cap Added(S)) = 0
    BY <2>1, FS_EmptySet
  <2>4. /\ IsFiniteSet(R \union Added(S))
        /\ Cardinality(R \union Added(S)) =
             Cardinality(R) + Cardinality(Added(S)) - Cardinality(R \cap Added(S))
    BY <1>4, <1>5, FS_Union
  <2> QED
    BY <1>1, <1>4, <2>2, <2>3, <2>4
<1>6. \A p \in Outcomes : IsFiniteSet(ReportedAs(p)) /\ ReportedAs(p) \subseteq Reported
  BY FS_Subset DEF Accounts, ReportedAs
<1>7. IsFiniteSet(Reported') /\ finished' = Cardinality(Reported')
  BY <1>3, <1>5, ReportedGrows DEF Accounts
<1>8. ASSUME NEW p \in Outcomes
      PROVE  tally'[p] = Cardinality(ReportedAs(p)')
  <2>1. ReportedAs(p)' = ReportedAs(p) \union (IF p = o THEN Added(S) ELSE {})
    BY ReportedGrows
  <2>2. tally[p] = Cardinality(ReportedAs(p)) /\ tally \in [Outcomes -> Nat]
    BY DEF Accounts, LoopTypes
  <2>3. tally'[p] = IF p = o THEN tally[p] + n ELSE tally[p]
    BY <1>2, <1>3, <2>2
  <2>4. CASE p = o
    BY <1>5, <1>6, <2>1, <2>2, <2>3, <2>4
  <2>5. CASE p # o
    BY <2>1, <2>2, <2>3, <2>5
  <2> QED
    BY <2>4, <2>5
<1>9. /\ tally \in [Outcomes -> Nat] /\ finished \in Nat
  BY DEF LoopTypes
<1>10. finished' = tally'["success"] + tally'["exit"] + tally'["timeout"]
                     + tally'["signal"] + tally'["error"] + tally'["stop"]
  BY <1>1, <1>2, <1>3, <1>9 DEF Accounts, Outcomes, Failures
<1>11. any_failed' = (\E p \in Failures : tally'[p] > 0)
  <2>1. Failures \subseteq Outcomes
    BY DEF Outcomes
  <2>2. \A p \in Outcomes : tally'[p] = IF p = o THEN tally[p] + n ELSE tally[p]
    BY <1>2, <1>3, <1>9
  <2>3. any_failed \in BOOLEAN /\ any_failed' \in BOOLEAN
    BY <1>3 DEF LoopTypes
  <2>4. any_failed <=> \E p \in Failures : tally[p] > 0
    BY Zenon DEF Accounts
  <2>5. any_failed' <=> any_failed \/ (S # {} /\ o \in Failures)
    BY <1>3
  <2>6. ASSUME any_failed
        PROVE  \E p \in Failures : tally'[p] > 0
    <3>1. PICK p \in Failures : tally[p] > 0
      BY <2>4, <2>6
    <3>2. tally'[p] > 0
      BY <1>1, <1>9, <2>1, <2>2, <3>1
    <3> QED
      BY <3>2
  <2>7. ASSUME S # {}, o \in Failures
        PROVE  \E p \in Failures : tally'[p] > 0
    <3>1. tally'[o] > 0
      <4>1. n \in Nat /\ n # 0
        BY <1>1, <2>7
      <4>2. tally[o] \in Nat
        BY <1>2, <1>9
      <4>3. tally'[o] = tally[o] + n
        BY <1>2, <2>2
      <4> HIDE DEF n, o
      <4> QED
        BY <4>1, <4>2, <4>3
    <3>2. o \in Failures
      BY <2>7
    <3> WITNESS o \in Failures
    <3> QED
      BY <3>1
  <2>8. ASSUME NEW p \in Failures, tally'[p] > 0
        PROVE  any_failed \/ (S # {} /\ o \in Failures)
    <3>1. CASE tally[p] > 0
      BY <2>4, <3>1
    <3>2. CASE ~(tally[p] > 0)
      <4>1. p = o /\ n > 0
        BY <1>1, <1>9, <2>1, <2>2, <2>8, <3>2
      <4> QED
        BY <1>1, <4>1
    <3> QED
      BY <3>1, <3>2
  <2>9. any_failed' <=> \E p \in Failures : tally'[p] > 0
    BY <2>5, <2>6, <2>7, <2>8, Zenon
  <2> QED
    BY <2>3, <2>9, Zenon
<1> QED
  BY <1>7, <1>8, <1>10, <1>11, Zenon DEF Accounts

-----------------------------------------------------------------------------
(* The state of the loop, read as a state of the abstract runner. *)

Held(t) == \E s \in Active : runs[s].test = t

LEMMA PhaseType ==
    ASSUME NEW t
    PROVE  /\ PhaseOf(t) \in {"pass", "fail"} <=> report[t] # <<>>
           /\ PhaseOf(t) = "running" <=> report[t] = <<>> /\ Held(t)
           /\ PhaseOf(t) = "waiting" <=> report[t] = <<>> /\ ~Held(t)
           /\ PhaseOf(t) = "fail" => Head(report[t]).outcome # "success"
           /\ report[t] # <<>> /\ Head(report[t]).outcome # "success" => PhaseOf(t) = "fail"
  BY DEF PhaseOf, Held

\* A test whose report and slot are as before is in the phase it was in.
LEMMA PhaseKept ==
    ASSUME NEW t, report'[t] = report[t], Held(t)' <=> Held(t)
    PROVE  PhaseOf(t)' = PhaseOf(t)
  BY DEF PhaseOf, Held

LEMMA SlotsHold ==
    ASSUME \A s \in Slots : runs'[s].active = runs[s].active /\ runs'[s].test = runs[s].test
    PROVE  \A t : Held(t)' <=> Held(t)
<1>1. Active' = Active /\ Active \subseteq Slots
  BY DEF Active
<1> QED
  BY <1>1 DEF Held

\* While the loop counts, the phases are those of its counters and slots.
LEMMA PhasesCounted ==
    ASSUME LoopTypes, Counting
    PROVE  /\ \A t \in Tests : PhaseOf(t) = "waiting" <=> t > started
           /\ \A t \in Tests : PhaseOf(t) = "running" <=> Held(t)
<1>1. started \in Nat /\ \A t \in Tests : t \in Nat
  BY TestsAssumption DEF LoopTypes
<1>2. \A t \in Tests : Held(t) => t <= started /\ report[t] = <<>>
  BY ActiveTest DEF Held, Counting
<1>3. \A t \in Tests : t > started => report[t] = <<>>
  BY DEF Counting
<1>4. \A t \in Tests : t <= started => report[t] # <<>> \/ Held(t)
  BY DEF Counting, Held
<1> QED
  BY <1>1, <1>2, <1>3, <1>4, PhaseType

\* Reporting the tests in S, none of which had a result, puts them in the phase
\* their result stands for.
LEMMA PhaseReported ==
    ASSUME LoopTypes, NEW S \in SUBSET Tests, NEW result \in Verdict,
           ReportAll(S, result), NEW t \in S, report[t] = <<>>
    PROVE  PhaseOf(t)' = IF result.outcome = "success" THEN "pass" ELSE "fail"
<1>1. report'[t] = Append(<<>>, result)
  BY DEF ReportAll
<1>2. Append(<<>>, result) = <<result>> /\ Head(<<result>>) = result /\ <<result>> # <<>>
  OBVIOUS
<1>3. report'[t] # <<>> /\ Head(report'[t]) = result
  BY <1>1, <1>2
<1> QED
  BY <1>3 DEF PhaseOf

\* A test that has a result keeps the phase of its first one.
LEMMA PhaseStays ==
    ASSUME LoopTypes, NEW S \in SUBSET Tests, NEW result \in Verdict,
           ReportAll(S, result), NEW t \in Tests, report[t] # <<>>
    PROVE  report'[t] # <<>> /\ PhaseOf(t)' = PhaseOf(t)
<1>1. report[t] \in Seq(Verdict) /\ report[t] # <<>>
  BY DEF LoopTypes
<1>2. report'[t] = IF t \in S THEN Append(report[t], result) ELSE report[t]
  BY DEF ReportAll
<1>3. Append(report[t], result) # <<>> /\ Head(Append(report[t], result)) = Head(report[t])
  BY <1>1
<1>4. report'[t] # <<>> /\ Head(report'[t]) = Head(report[t])
  BY <1>1, <1>2, <1>3
<1> QED
  BY <1>1, <1>4 DEF PhaseOf

\* A failure in a report is a failure to the loop.
FailureSeen == \A t \in Tests : PhaseOf(t) = "fail" => any_failed

LEMMA FailureIsSeen == LoopTypes /\ Accounts => FailureSeen
<1> SUFFICES ASSUME LoopTypes, Accounts, NEW t \in Tests, PhaseOf(t) = "fail"
             PROVE  any_failed
  BY DEF FailureSeen
<1>1. report[t] # <<>> /\ Head(report[t]).outcome # "success"
  BY PhaseType
<1>2. /\ report[t] \in Seq(Verdict) /\ 1 \in 1..Len(report[t])
      /\ Head(report[t]) = report[t][1] /\ report[t][1] \in Verdict
  BY <1>1 DEF LoopTypes
<1> DEFINE o == report[t][1].outcome
<1>3. o \in Failures /\ o \in Outcomes
  BY <1>1, <1>2 DEF Verdict, Outcomes
<1>4. <<t, 1>> \in ReportedAs(o) /\ ReportedAs(o) \in SUBSET Reported
  BY <1>2, ReportedMember DEF ReportedAs
<1>5. IsFiniteSet(ReportedAs(o)) /\ Cardinality(ReportedAs(o)) # 0
  BY <1>4, FS_Subset, FS_EmptySet DEF Accounts
<1>6. tally[o] > 0
  <2>1. tally[o] = Cardinality(ReportedAs(o)) /\ tally[o] \in Nat
    BY <1>3 DEF Accounts, LoopTypes
  <2> QED
    BY <1>5, <2>1
<1> QED
  BY <1>3, <1>6 DEF Accounts

\* What the abstract runner sees of a step that it does not see.
Unseen == /\ \A t \in Tests : PhaseOf(t)' = PhaseOf(t)
          /\ (pc' = "done") = (pc = "done")

\* The tests in progress are those the slots hold: at most as many as slots.
LEMMA HeldCount ==
    ASSUME LoopTypes, Counting
    PROVE  /\ IsFiniteSet({t \in Tests : Held(t)})
           /\ Cardinality({t \in Tests : Held(t)}) = running
<1> DEFINE InSlots == {t \in Tests : Held(t)}
           holds == [s \in Active |-> runs[s].test]
<1>1. holds \in Bijection(Active, InSlots)
  <2>1. holds \in [Active -> InSlots]
    BY ActiveTest DEF Held
  <2>2. \A r, s \in Active : holds[r] = holds[s] => r = s
    BY DEF Counting
  <2>3. \A t \in InSlots : \E s \in Active : holds[s] = t
    BY DEF Held
  <2> HIDE DEF holds, InSlots
  <2> QED
    BY <2>1, <2>2, <2>3 DEF Bijection, Injection, Surjection, IsInjective
<1>2. IsFiniteSet(InSlots) /\ Cardinality(InSlots) = Cardinality(Active)
  BY <1>1, ActiveCount, FS_Bijection DEF ExistsBijection
<1> QED
  BY <1>2 DEF Counting

LEMMA StartBegins ==
    ASSUME LoopTypes, Counting, FailureSeen, ~(StopOnFirstError /\ any_failed),
           pc # "done", pc' # "done", CanStart, NEW s \in Slots, Filled(s)
    PROVE  \E t \in Tests : Runner!Begin(t)
<1>1. LoopTypes /\ Counting /\ FailureSeen /\ ~(StopOnFirstError /\ any_failed)
  OBVIOUS
<1>2. started + 1 \in Tests
  BY <1>1, TestsAssumption DEF CanStart, LoopTypes
<1>3. PICK u \in Tests : u = started + 1
  BY <1>2
<1>4. PhaseOf(u) = "waiting" /\ \A v \in 1..(u - 1) : PhaseOf(v) # "waiting" /\ v \in Tests
  <2>1. started \in Nat /\ started <= NTests /\ NTests \in Nat
    BY <1>1, TestsAssumption DEF LoopTypes
  <2>2. u > started /\ \A v \in 1..(u - 1) : v \in Tests /\ ~(v > started)
    BY <1>3, <2>1
  <2> QED
    BY <1>1, <2>2, PhasesCounted
<1>5. Cardinality({t \in Tests : PhaseOf(t) = "running"}) < Processes
  <2>1. {t \in Tests : PhaseOf(t) = "running"} = {t \in Tests : Held(t)}
    BY <1>1, PhasesCounted
  <2> QED
    BY <1>1, <2>1, HeldCount DEF CanStart
<1>6. ~(StopOnFirstError /\ \E t \in Tests : PhaseOf(t) = "fail")
  BY <1>1 DEF FailureSeen
<1>7. /\ report' = report /\ runs'[s].test = u /\ runs'[s].active
      /\ \A r \in Slots \ {s} : runs'[r] = runs[r]
      /\ ~runs[s].active
  BY <1>3 DEF Filled
<1>8. Active' = Active \union {s} /\ s \notin Active /\ Active \subseteq Slots
  BY <1>7 DEF Active
<1>9. /\ Held(u)' /\ \A t \in Tests \ {u} : Held(t)' <=> Held(t)
  <2>1. Held(u)'
    BY <1>7, <1>8 DEF Held
  <2>2. ASSUME NEW t \in Tests \ {u}
        PROVE  Held(t)' <=> Held(t)
    BY <1>7, <1>8 DEF Held
  <2> QED
    BY <2>1, <2>2
<1>10. /\ PhaseOf(u)' = "running"
       /\ \A t \in Tests \ {u} : PhaseOf(t)' = PhaseOf(t)
  <2>1. report'[u] = <<>>
    BY <1>4, <1>7, PhaseType
  <2>2. PhaseOf(u)' = "running"
    BY <1>9, <2>1 DEF PhaseOf, Held
  <2>3. \A t \in Tests \ {u} : PhaseOf(t)' = PhaseOf(t)
    BY <1>7, <1>9, PhaseKept
  <2> QED
    BY <2>2, <2>3
<1>11. [t \in Tests |-> PhaseOf(t)]' = [[t \in Tests |-> PhaseOf(t)] EXCEPT ![u] = "running"]
  BY <1>10
<1>12. Runner!Cardinality(Runner!InProgress) < Processes
  <2>1. Runner!InProgress = {t \in Tests : PhaseOf(t) = "running"}
    BY DEF Runner!InProgress, Runner!Tests
  <2>2. \A S : Runner!Cardinality(S) = Cardinality(S)
    BY DEF Runner!Cardinality, Cardinality
  <2> QED
    BY <1>5, <2>1, <2>2
<1>13. ~(StopOnFirstError /\ Runner!SomeFailed)
  BY <1>6 DEF Runner!SomeFailed, Runner!Tests
<1>14. Runner!Begin(u)
  BY <1>4, <1>11, <1>12, <1>13 DEF Runner!Begin
<1> QED
  BY <1>14

LEMMA ReleaseReports ==
    ASSUME LoopTypes, Counting, pc # "done", pc' # "done", NEW s \in Slots,
           NEW result \in Verdict, Released(s, result)
    PROVE  \E t \in Tests, r \in {"pass", "fail"} : Runner!Report(t, r)
<1>1. s \in Active /\ runs[s].active
  BY DEF Released, Active
<1>2. PICK t \in Tests : t = runs[s].test
  BY <1>1, ActiveTest
<1>3. ReportAll({t}, result) /\ report[t] = <<>>
  BY <1>1, <1>2 DEF Released, Counting
<1>4. PICK r \in {"pass", "fail"} : r = IF result.outcome = "success" THEN "pass" ELSE "fail"
  OBVIOUS
<1>5. PhaseOf(t)' = r
  BY <1>1, <1>3, <1>4, PhaseReported
<1>6. PhaseOf(t) = "running"
  BY <1>1, <1>2, <1>3, PhaseType DEF Held
<1>7. ASSUME NEW u \in Tests, u # t
      PROVE  PhaseOf(u)' = PhaseOf(u)
  <2>1. report'[u] = report[u]
    BY <1>3, <1>7 DEF ReportAll
  <2>2. Active' = Active \ {s} /\ \A x \in Slots : runs'[x].test = runs[x].test
    BY <1>1 DEF Released, Active
  <2>3. Held(u)' <=> Held(u)
    BY <1>2, <1>7, <2>2 DEF Held, Active
  <2> QED
    BY <2>1, <2>3, PhaseKept
<1>8. [x \in Tests |-> PhaseOf(x)]' = [[x \in Tests |-> PhaseOf(x)] EXCEPT ![t] = r]
  BY <1>5, <1>7
<1> QED
  BY <1>6, <1>8 DEF Runner!Report, Runner!Tests

\* Reporting all the tests that have no result is giving up, or nothing to see
\* when there is none.
LEMMA ReportsRest ==
    ASSUME LoopTypes, Counting, NEW result \in Verdict, result.outcome # "success",
           ReportAll({runs[s].test : s \in Active} \union Remaining, result), pc # "done"
    PROVE  \/ Runner!GiveUp
           \/ /\ \A t \in Tests : PhaseOf(t)' = PhaseOf(t) /\ report[t] # <<>>
<1> DEFINE S == {runs[s].test : s \in Active} \union Remaining
           Left == {t \in Tests : PhaseOf(t) \notin {"pass", "fail"}}
<1>1. S \in SUBSET Tests
  BY ActiveTest DEF Remaining
<1>2. \A t \in Tests : t \in S <=> report[t] = <<>>
  <2>1. started \in Nat /\ \A t \in Tests : t \in Nat
    BY TestsAssumption DEF LoopTypes
  <2>2. \A t \in Tests : t \in S <=> t > started \/ \E s \in Active : runs[s].test = t
    BY DEF Remaining
  <2> HIDE DEF S
  <2> QED
    BY <2>1, <2>2 DEF Counting
<1>3. S = Left
  BY <1>1, <1>2, PhaseType
<1> HIDE DEF S
<1>4. ReportAll(S, result)
  BY DEF S
<1>5. \A t \in Tests : t \in S => PhaseOf(t)' = "fail"
  BY <1>1, <1>2, <1>4, PhaseReported
<1>6. \A t \in Tests : t \notin S => PhaseOf(t)' = PhaseOf(t)
  BY <1>1, <1>2, <1>4, PhaseStays
<1>7. CASE S = {}
  BY <1>2, <1>6, <1>7
<1>8. CASE S # {}
  <2>1. [t \in Tests |-> PhaseOf(t)]'
          = [t \in Tests |-> IF t \in Left THEN "fail" ELSE [x \in Tests |-> PhaseOf(x)][t]]
    BY <1>3, <1>5, <1>6
  <2>2. Left # {}
    BY <1>3, <1>8
  <2>3. (pc = "done")' \in BOOLEAN
    OBVIOUS
  <2> QED
    BY <2>1, <2>2, <2>3 DEF Runner!GiveUp, Runner!Unreported, Runner!Results, Runner!Tests
<1> QED
  BY <1>7, <1>8

\* When every test has a result the run may end, and nothing else is seen.
LEMMA AllSeen ==
    ASSUME pc # "done", \A t \in Tests : PhaseOf(t)' = PhaseOf(t),
           \A t \in Tests : report[t] # <<>>
    PROVE  Runner!Finish \/ Unseen
<1>1. Runner!Unreported = {}
  BY PhaseType DEF Runner!Unreported, Runner!Results, Runner!Tests
<1>2. [t \in Tests |-> PhaseOf(t)]' = [t \in Tests |-> PhaseOf(t)]
  OBVIOUS
<1>3. CASE pc' = "done"
  BY <1>1, <1>2, <1>3 DEF Runner!Finish
<1>4. CASE pc' # "done"
  BY <1>4 DEF Unseen
<1> QED
  BY <1>3, <1>4

\* The end of the loop body without a report: the run ends, or the loop goes on.
LEMMA LeaveSeen ==
    ASSUME LoopTypes, pc = "check", runs' = runs, ReportNone, LeaveOrLoop,
           finished >= NTests => \A t \in Tests : report[t] # <<>>,
           any_failed => SomeFailure,
           \/ \A t \in Tests : report[t] # <<>>
           \/ \A t \in Tests : Len(report[t]) <= 1
    PROVE  Runner!Finish \/ Unseen
<1>1. report' = report /\ finished' = finished /\ any_failed' = any_failed
  BY DEF ReportNone
<1>2. \A t \in Tests : PhaseOf(t)' = PhaseOf(t)
  <2>1. \A t : Held(t)' <=> Held(t)
    BY SlotsHold
  <2> QED
    BY <1>1, <2>1, PhaseKept
<1>3. CASE \A t \in Tests : report[t] # <<>>
  BY <1>2, <1>3, AllSeen
<1>4. CASE ~(finished >= NTests) /\ ~(StopOnFirstError /\ any_failed)
  BY <1>1, <1>2, <1>4 DEF LeaveOrLoop, Unseen
<1>5. CASE StopOnFirstError /\ any_failed /\ ~\A t \in Tests : report[t] # <<>>
  <2>1. PICK t \in Tests : \E i \in 1..Len(report[t]) : report[t][i].outcome \in Failures
    BY <1>5 DEF SomeFailure
  <2>2. report[t] \in Seq(Verdict) /\ Len(report[t]) <= 1
    BY <1>5 DEF LoopTypes
  <2>3. report[t] # <<>> /\ Head(report[t]).outcome # "success"
    BY <2>1, <2>2 DEF Failures
  <2>4. PhaseOf(t) = "fail"
    BY <2>3, PhaseType
  <2>5. Runner!SomeFailed
    BY <2>4 DEF Runner!SomeFailed, Runner!Tests
  <2>6. [x \in Tests |-> PhaseOf(x)]' = [x \in Tests |-> PhaseOf(x)]
    BY <1>2
  <2>7. pc' = "done"
    BY <1>1, <1>5 DEF LeaveOrLoop
  <2> QED
    BY <1>5, <2>5, <2>6, <2>7 DEF Runner!Finish
<1> QED
  BY <1>3, <1>4, <1>5

\* The end of the loop body with a report of the tests left: the runner gives up.
LEMMA RestSeen ==
    ASSUME LoopTypes, Counting, Active = {}, pc = "check", NEW result \in Verdict,
           result.outcome # "success", ReportAll(Remaining, result)
    PROVE  Runner!GiveUp \/ Runner!Finish \/ Unseen
<1>1. {runs[s].test : s \in Active} \union Remaining = Remaining
  OBVIOUS
<1>2. \/ Runner!GiveUp
      \/ \A t \in Tests : PhaseOf(t)' = PhaseOf(t) /\ report[t] # <<>>
  BY <1>1, ReportsRest
<1> QED
  BY <1>2, AllSeen

\* The first step: without tests the run is over.
LEMMA BeginSeen ==
    ASSUME pc # "done", pc' = "done" => NTests = 0, UNCHANGED <<report, runs>>
    PROVE  Runner!Finish \/ Unseen
<1>1. \A t : Held(t)' <=> Held(t)
  BY SlotsHold
<1>2. \A t \in Tests : PhaseOf(t)' = PhaseOf(t)
  BY <1>1, PhaseKept
<1>3. CASE pc' = "done"
  <2>1. \A t \in Tests : report[t] # <<>>
    BY <1>3
  <2> QED
    BY <1>2, <2>1, AllSeen
<1>4. CASE pc' # "done"
  BY <1>2, <1>4 DEF Unseen
<1> QED
  BY <1>3, <1>4

LEMMA RunnerBegin ==
    ASSUME Active = {}, \A t \in Tests : report[t] = <<>>, pc # "done"
    PROVE  Runner!Init
<1>1. \A t \in Tests : PhaseOf(t) = "waiting"
  BY PhaseType DEF Held
<1> QED
  BY <1>1 DEF Runner!Init, Runner!Tests
=============================================================================
