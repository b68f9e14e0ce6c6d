--------------------------- MODULE TdoArenaProofs ---------------------------
(***************************************************************************)
(* Lemmas about the allocator, for any sizes: its checks never fail, an    *)
(* object it gives out lies behind the others, and what moves when one is  *)
(* resized.  At the end, induction and FlattenSeq.                         *)
(***************************************************************************)
EXTENDS TdoArena, SequencesExt, SequenceTheorems, WellFoundedInduction, TLAPS

Node == [current : Nat, end : Nat]
Places == Nat \X Nat

\* The arena between two calls: it allocates from its last node, and the last
\* allocation is aligned and inside that node.
ArenaOK(a) ==
    /\ a \in [nodes : Seq(Node), latest : Nat, last : Places]
    /\ a.latest = Len(a.nodes) /\ a.latest > 0
    /\ \A n \in 1..Len(a.nodes) :
          a.nodes[n].current <= a.nodes[n].end /\ a.nodes[n].end <= MallocMax
    /\ a.last # Null =>
          /\ a.last[1] = a.latest
          /\ a.last[2] <= a.nodes[a.latest].end
          /\ Aligned(a.last[1], a.last[2]) = a.last[2]

\* An object lies inside what its node has given out; two objects do not overlap;
\* an object ends before a place.
Within(a, at, size) ==
    /\ at[1] \in 1..Len(a.nodes)
    /\ at[2] + size <= a.nodes[at[1]].current

Apart(at, size, other, room) ==
    at[1] = other[1] => at[2] + size <= other[2] \/ other[2] + room <= at[2]

Below(at, size, place) == at[1] = place[1] => at[2] + size <= place[2]

-----------------------------------------------------------------------------
(* Arithmetic. *)

LEMMA MaxOfTwo ==
    ASSUME NEW x \in Nat, NEW y \in Nat
    PROVE  Max({x, y}) \in {x, y} /\ Max({x, y}) >= x /\ Max({x, y}) >= y
BY DEF Max

LEMMA MinOfOne == ASSUME NEW x \in Nat PROVE Min({x}) = x
BY DEF Min

\* Alignment moves an offset up by less than the alignment, to a place that is
\* aligned (arena.c 68-83).
LEMMA AlignedPlace ==
    ASSUME NEW n \in Nat, NEW offset \in Nat
    PROVE  /\ Aligned(n, offset) \in Nat
           /\ offset <= Aligned(n, offset) /\ Aligned(n, offset) < offset + Align
           /\ Aligned(n, Aligned(n, offset)) = Aligned(n, offset)
<1> DEFINE base == BufferStart(n)
           gap == (Align - ((base + offset) % Align)) % Align
<1>1. Align \in Nat \ {0} /\ base \in Nat
  BY ArenaAssumption DEF BufferStart
<1> HIDE DEF base
<1>2. (base + offset) % Align \in 0..(Align - 1)
  BY <1>1
<1>3. gap = IF (base + offset) % Align = 0 THEN 0 ELSE Align - ((base + offset) % Align)
  BY <1>1, <1>2
<1>4. Aligned(n, offset) = offset + gap
  BY DEF Aligned, base
<1>5. gap \in 0..(Align - 1)
  BY <1>1, <1>2, <1>3
<1>6. (base + (offset + gap)) % Align = 0
  <2> DEFINE r == (base + offset) % Align
             q == (base + offset) \div Align
  <2>1. base + offset = Align * q + r /\ q \in Nat
    BY <1>1
  <2>2. CASE r = 0
    BY <1>1, <1>3, <2>2
  <2>3. CASE r # 0
    <3> HIDE DEF gap
    <3>1. gap = Align - r /\ r \in 0..(Align - 1)
      BY <1>1, <1>2, <1>3, <2>3
    <3> HIDE DEF q, r
    <3>2. base + (offset + gap) = Align * (q + 1)
      BY <1>1, <2>1, <3>1
    <3> DEFINE x == base + (offset + gap)
    <3>3. x \in Nat /\ q + 1 \in Nat
      BY <1>1, <1>5, <2>1
    <3> HIDE DEF x
    <3>4. \A m \in Nat : x = Align * m => x % Align = 0
      BY <1>1, <3>3
    <3> QED
      BY <3>2, <3>3, <3>4 DEF x
  <2> QED
    BY <2>2, <2>3
<1> HIDE DEF gap
<1>7. (Align - 0) % Align = 0
  BY <1>1
<1>8. Aligned(n, offset + gap) = (offset + gap) + 0
  BY <1>6, <1>7 DEF Aligned, base
<1> QED
  BY <1>1, <1>4, <1>5, <1>8
-----------------------------------------------------------------------------
(* The allocator (arena.c 85-175). *)

\* A function on 1..n is a sequence.
LEMMA FunctionIsSeq ==
    ASSUME NEW S, NEW n \in Nat, NEW f \in [1..n -> S]
    PROVE  f \in Seq(S) /\ Len(f) = n
OBVIOUS

LEMMA NodesOf ==
    ASSUME NEW a, ArenaOK(a)
    PROVE  /\ a.nodes \in [1..Len(a.nodes) -> Node]
           /\ Len(a.nodes) \in Nat \ {0}
           /\ DOMAIN a.nodes = 1..Len(a.nodes)
           /\ \A n \in 1..Len(a.nodes) : a.nodes[n].current \in Nat /\ a.nodes[n].end \in Nat
<1>1. a.nodes \in Seq(Node) /\ Len(a.nodes) > 0
  BY DEF ArenaOK
<1>2. /\ a.nodes \in [1..Len(a.nodes) -> Node]
      /\ Len(a.nodes) \in Nat
      /\ DOMAIN a.nodes = 1..Len(a.nodes)
  BY <1>1, LenProperties
<1>3. \A n \in 1..Len(a.nodes) : a.nodes[n] \in Node
  BY <1>2
<1> QED
  BY <1>1, <1>2, <1>3 DEF Node

\* Only the last node can be given up by a search.
LEMMA SkippedNodes ==
    ASSUME NEW a, ArenaOK(a)
    PROVE  /\ Skipped(a, a.latest - 1) = a.nodes
           /\ Skipped(a, Len(a.nodes))
                = [a.nodes EXCEPT ![a.latest].current = a.nodes[a.latest].end]
<1>1. /\ a.nodes \in [1..Len(a.nodes) -> Node] /\ DOMAIN a.nodes = 1..Len(a.nodes)
      /\ a.latest = Len(a.nodes) /\ Len(a.nodes) \in Nat \ {0}
  BY NodesOf DEF ArenaOK
<1>2. Skipped(a, a.latest - 1) = [n \in 1..Len(a.nodes) |-> a.nodes[n]]
  BY <1>1 DEF Skipped
<1>3. Skipped(a, Len(a.nodes))
        = [n \in 1..Len(a.nodes) |-> IF n = a.latest
              THEN [a.nodes[n] EXCEPT !.current = a.nodes[n].end] ELSE a.nodes[n]]
  BY <1>1 DEF Skipped
<1> QED
  BY <1>1, <1>2, <1>3

\* The node that is added holds what it was added for.
LEMMA GrownNodes ==
    ASSUME NEW a, ArenaOK(a), NEW bytes \in Nat, CanGrow(a, bytes)
    PROVE  LET grown == Grown(a, bytes)
               last == Len(a.nodes) + 1
           IN  /\ grown \in Seq(Node) /\ Len(grown) = last
               /\ \A n \in 1..Len(a.nodes) : grown[n] = Skipped(a, Len(a.nodes))[n]
               /\ grown[last].current = 0 /\ grown[last].end <= MallocMax
               /\ grown[last] \in Node
               /\ Fits(grown, last, bytes)
<1> DEFINE old == Skipped(a, Len(a.nodes))
           new == [current |-> 0, end |-> GrownCapacity(a, bytes)]
           last == Len(a.nodes) + 1
<1>1. Len(a.nodes) \in Nat \ {0} /\ a.latest \in 1..Len(a.nodes)
  BY NodesOf DEF ArenaOK
<1>2. old \in [1..Len(a.nodes) -> Node]
  <2>1. /\ a.nodes \in [1..Len(a.nodes) -> Node] /\ a.nodes[a.latest].end \in Nat
        /\ old = [a.nodes EXCEPT ![a.latest].current = a.nodes[a.latest].end]
    BY <1>1, NodesOf, SkippedNodes
  <2> HIDE DEF old
  <2> QED
    BY <1>1, <2>1 DEF Node
<1>3. /\ GrownCapacity(a, bytes) \in Nat
      /\ GrownCapacity(a, bytes) >= bytes + Align
  <2>1. a.nodes[a.latest].end \in Nat /\ Align \in Nat
    BY NodesOf, ArenaAssumption, <1>1
  <2> DEFINE x == 2 * a.nodes[a.latest].end
             y == bytes + Align
  <2>2. x \in Nat /\ y \in Nat
    BY <2>1
  <2>3. GrownCapacity(a, bytes) = Max({x, y})
    BY DEF GrownCapacity
  <2> HIDE DEF x, y
  <2>4. Max({x, y}) \in {x, y} /\ Max({x, y}) >= y
    BY <2>2, MaxOfTwo, Zenon
  <2>5. Max({x, y}) \in Nat
    BY <2>2, <2>4
  <2> QED
    BY <2>3, <2>4, <2>5 DEF y
<1>4. GrownCapacity(a, bytes) <= MallocMax
  BY <1>3, ArenaAssumption DEF CanGrow
<1>5. new \in Node
  BY <1>3 DEF Node
<1>6. old \in Seq(Node) /\ Len(old) = Len(a.nodes)
  BY <1>1, <1>2, FunctionIsSeq
<1> HIDE DEF old, new
<1>7. /\ Append(old, new) \in Seq(Node) /\ Len(Append(old, new)) = last
      /\ \A n \in 1..Len(a.nodes) : Append(old, new)[n] = old[n]
      /\ Append(old, new)[last] = new
  BY <1>5, <1>6, AppendProperties
<1>8. Grown(a, bytes) = Append(old, new)
  BY DEF Grown, old, new
<1>9. Aligned(last, 0) \in Nat /\ Aligned(last, 0) < 0 + Align
  <2>1. last \in Nat /\ 0 \in Nat
    BY <1>1
  <2> QED
    BY <2>1, AlignedPlace, Zenon
<1>10. new.current = 0 /\ new.end = GrownCapacity(a, bytes)
  BY DEF new
<1>11. Fits(Grown(a, bytes), last, bytes)
  <2>1. /\ Grown(a, bytes)[last].current = 0
        /\ Grown(a, bytes)[last].end = GrownCapacity(a, bytes)
    BY <1>7, <1>8, <1>10
  <2>2. Align \in Nat
    BY ArenaAssumption
  <2>3. Aligned(last, 0) + bytes <= GrownCapacity(a, bytes)
    BY <1>3, <1>9, <2>2
  <2> QED
    BY <2>1, <2>3 DEF Fits
<1> QED
  <2>1. /\ \A n \in 1..Len(a.nodes) : Grown(a, bytes)[n] = Skipped(a, Len(a.nodes))[n]
        /\ Grown(a, bytes) \in Seq(Node) /\ Len(Grown(a, bytes)) = last
    BY <1>7, <1>8, Zenon DEF old
  <2>2. Grown(a, bytes)[last] = new
    BY <1>7, <1>8
  <2> QED
    BY <1>4, <1>5, <1>10, <1>11, <2>1, <2>2, Zenon
\* The node found by a search is the last one, for the others are behind it.
LEMMA CandidateNodes ==
    ASSUME NEW a, ArenaOK(a), NEW bytes \in Nat
    PROVE  Candidates(a, bytes) = IF Fits(a.nodes, a.latest, bytes) THEN {a.latest} ELSE {}
<1>1. a.latest = Len(a.nodes) /\ Len(a.nodes) \in Nat
  BY NodesOf DEF ArenaOK
<1>2. a.latest..Len(a.nodes) = {a.latest}
  BY <1>1
<1> QED
  BY <1>2 DEF Candidates

\* No call fails one of the checks of tdo_arena_alloc (arena.c 109, 138).
LEMMA AllocNeverAborts ==
    ASSUME NEW a, ArenaOK(a), NEW amount \in Nat, NEW granted
    PROVE  ~AllocAborts(a, 1, amount, granted)
<1>1. a.latest = Len(a.nodes) /\ 1 * amount = amount
  BY DEF ArenaOK
<1>2. CanGrow(a, amount) => Fits(Grown(a, amount), Len(a.nodes) + 1, amount)
  BY GrownNodes
<1> QED
  BY <1>1, <1>2 DEF AllocAborts

\* What an object that is placed gets, and what the arena is then: the objects in
\* it stay inside, the new one is behind them and the last.
Allocated(a, out, amount) ==
    /\ ArenaOK(out.arena)
    /\ out.at \in Places /\ out.at # Null
    /\ out.arena.last = out.at
    /\ Len(out.arena.nodes) >= Len(a.nodes)
    /\ Within(out.arena, out.at, amount)
    /\ \A n \in 1..Len(a.nodes) : out.arena.nodes[n].current >= a.nodes[n].current
    /\ \/ out.at[1] > Len(a.nodes)
       \/ out.at[1] = Len(a.nodes) /\ out.at[2] >= a.nodes[Len(a.nodes)].current

\* What a call that fails leaves.
NotAllocated(a, out) ==
    /\ ArenaOK(out.arena)
    /\ out.at = Null
    /\ out.arena.last = a.last
    /\ Len(out.arena.nodes) = Len(a.nodes)
    /\ \A n \in 1..Len(a.nodes) : out.arena.nodes[n].current >= a.nodes[n].current

\* Placing an object in the last node, where it fits.
LEMMA PlacedOutcome ==
    ASSUME NEW nodes \in Seq(Node), Len(nodes) > 0,
           \A m \in 1..Len(nodes) : nodes[m].current <= nodes[m].end /\ nodes[m].end <= MallocMax,
           NEW bytes \in Nat, Fits(nodes, Len(nodes), bytes),
           NEW out, out = Placed(nodes, Len(nodes), bytes)
    PROVE  /\ ArenaOK(out.arena)
           /\ out.at \in Places /\ out.at # Null
           /\ out.arena.last = out.at
           /\ Len(out.arena.nodes) = Len(nodes)
           /\ Within(out.arena, out.at, bytes)
           /\ \A m \in 1..Len(nodes) : out.arena.nodes[m].current >= nodes[m].current
           /\ out.at[1] = Len(nodes) /\ out.at[2] >= nodes[Len(nodes)].current
<1> DEFINE n == Len(nodes)
           offset == Aligned(n, nodes[n].current)
           after == [nodes EXCEPT ![n].current = offset + bytes]
           arena2 == [nodes |-> after, latest |-> n, last |-> <<n, offset>>]
<1>1. nodes \in [1..n -> Node] /\ DOMAIN nodes = 1..n /\ n \in Nat \ {0} /\ n \in 1..n
  BY LenProperties
<1>2. nodes[n].current \in Nat /\ nodes[n].end \in Nat
  BY <1>1 DEF Node
<1>3. offset \in Nat /\ nodes[n].current <= offset /\ Aligned(n, offset) = offset
  BY <1>1, <1>2, AlignedPlace
<1>4. offset + bytes <= nodes[n].end
  BY DEF Fits
<1> HIDE DEF n, offset
<1>5. after \in [1..n -> Node]
  <2>1. [nodes[n] EXCEPT !.current = offset + bytes] \in Node
    BY <1>1, <1>3 DEF Node
  <2> QED
    BY <1>1, <2>1
<1>6. after \in Seq(Node) /\ Len(after) = n
  BY <1>1, <1>5, FunctionIsSeq
<1>7. /\ after[n].current = offset + bytes /\ after[n].end = nodes[n].end
      /\ \A m \in 1..n : m # n => after[m] = nodes[m]
  BY <1>1
<1>8. \A m \in 1..n : nodes[m].current \in Nat /\ nodes[m].end \in Nat
  BY <1>1 DEF Node
<1>9. \A m \in 1..n : /\ after[m].current >= nodes[m].current
                      /\ after[m].current <= after[m].end /\ after[m].end <= MallocMax
  <2> TAKE m \in 1..n
  <2>1. nodes[m].current <= nodes[m].end /\ nodes[m].end <= MallocMax
    BY DEF n
  <2>2. MallocMax \in Nat
    BY ArenaAssumption
  <2>3. CASE m = n
    BY <1>2, <1>3, <1>4, <1>7, <2>1, <2>2, <2>3
  <2>4. CASE m # n
    BY <1>7, <1>8, <2>1, <2>4
  <2> QED
    BY <2>3, <2>4
<1> HIDE DEF after
<1>10. /\ arena2.nodes = after /\ arena2.latest = n /\ arena2.last = <<n, offset>>
       /\ arena2 \in [nodes : Seq(Node), latest : Nat, last : Places]
  BY <1>1, <1>3, <1>6 DEF Places
<1>11. /\ <<n, offset>>[1] = n /\ <<n, offset>>[2] = offset /\ <<n, offset>> # Null
       /\ <<n, offset>> \in Places
  BY <1>1, <1>3 DEF Null, Places
<1> HIDE DEF arena2
<1>12. ArenaOK(arena2)
  <2>1. n > 0 /\ offset <= nodes[n].end
    BY <1>1, <1>2, <1>3, <1>4
  <2>2. arena2.last[1] = n /\ arena2.last[2] = offset
    BY <1>10, <1>11
  <2>3. offset <= arena2.nodes[n].end /\ Len(arena2.nodes) = n
    BY <1>6, <1>7, <1>10, <2>1
  <2>4. \A m \in 1..n : arena2.nodes[m].current <= arena2.nodes[m].end
                        /\ arena2.nodes[m].end <= MallocMax
    BY <1>9, <1>10
  <2> QED
    BY <1>3, <1>10, <2>1, <2>2, <2>3, <2>4, Zenon DEF ArenaOK
<1>13. Within(arena2, <<n, offset>>, bytes)
  BY <1>1, <1>6, <1>7, <1>10, <1>11, <1>3 DEF Within
<1>14. out = [arena |-> arena2, at |-> <<n, offset>>]
  BY DEF Placed, arena2, n, offset, after
<1>15. out.arena = arena2 /\ out.at = <<n, offset>>
  BY <1>14
<1> QED
  <2>1. \A m \in 1..n : arena2.nodes[m].current >= nodes[m].current
    BY <1>9, <1>10
  <2>2. <<n, offset>>[2] >= nodes[n].current
    BY <1>2, <1>3, <1>11, SMT
  <2>3. n = Len(nodes)
    BY DEF n
  <2> QED
    BY <1>6, <1>10, <1>11, <1>12, <1>13, <1>15, <2>1, <2>2, <2>3, Zenon
\* tdo_arena_alloc of bytes (arena.c 85-146).
LEMMA AllocOutcome ==
    ASSUME NEW a, ArenaOK(a), NEW amount \in Nat, NEW granted
    PROVE  LET out == Alloc(a, 1, amount, granted)
           IN  Allocated(a, out, amount) \/ NotAllocated(a, out)
<1> DEFINE out == Alloc(a, 1, amount, granted)
           top == Len(a.nodes)
           old == Skipped(a, top)
<1>1. /\ a.nodes \in Seq(Node) /\ top \in Nat \ {0} /\ a.latest = top /\ a.latest - 1 \in Nat
      /\ \A n \in 1..top : a.nodes[n].current \in Nat /\ a.nodes[n].end \in Nat
      /\ \A n \in 1..top : a.nodes[n].current <= a.nodes[n].end /\ a.nodes[n].end <= MallocMax
  BY NodesOf DEF ArenaOK
<1>2. 1 * amount = amount
  OBVIOUS
<1>3. old = [a.nodes EXCEPT ![top].current = a.nodes[top].end]
  BY <1>1, SkippedNodes
<1>4. a.nodes \in [1..top -> Node]
  BY NodesOf
<1>5. /\ old \in [1..top -> Node]
      /\ \A n \in 1..top : old[n].end = a.nodes[n].end
      /\ \A n \in 1..top : old[n].current = IF n = top THEN a.nodes[n].end
                                           ELSE a.nodes[n].current
  <2>1. [a.nodes[top] EXCEPT !.current = a.nodes[top].end] \in Node
    <3>1. a.nodes[top] \in Node /\ a.nodes[top].end \in Nat
      BY <1>1, <1>4
    <3> QED
      BY <3>1 DEF Node
  <2>2. old \in [1..top -> Node]
    BY <1>1, <1>3, <1>4, <2>1
  <2>3. /\ old[top] = [a.nodes[top] EXCEPT !.current = a.nodes[top].end]
        /\ \A n \in 1..top : n # top => old[n] = a.nodes[n]
    BY <1>1, <1>3, <1>4
  <2>4. old[top].current = a.nodes[top].end /\ old[top].end = a.nodes[top].end
    BY <1>1, <1>4, <2>3 DEF Node
  <2> HIDE DEF old
  <2> QED
    BY <2>2, <2>3, <2>4
<1> HIDE DEF old
<1>6. old \in Seq(Node) /\ Len(old) = top
  <2>1. top \in Nat /\ old \in [1..top -> Node]
    BY <1>1, <1>5
  <2> HIDE DEF top
  <2> QED
    BY <2>1, FunctionIsSeq
<1>7. \A n \in 1..top : old[n].current >= a.nodes[n].current /\ old[n].current <= old[n].end
                        /\ old[n].end <= MallocMax
  BY <1>1, <1>5
<1>8. CASE amount > SizeMax \div 1
  <2>1. out = Refused(a)
    BY <1>2, <1>8 DEF Alloc
  <2> QED
    BY <1>1, <2>1 DEF Refused, NotAllocated
<1>9. CASE ~(amount > SizeMax \div 1) /\ Fits(a.nodes, top, amount)
  <2>1. Candidates(a, amount) = {top}
    BY <1>1, <1>9, CandidateNodes
  <2>2. Min({top}) = top
    BY <1>1, MinOfOne
  <2>3. Skipped(a, top - 1) = a.nodes
    BY <1>1, SkippedNodes
  <2>4. out = Placed(a.nodes, top, amount)
    BY <1>2, <1>9, <2>1, <2>2, <2>3 DEF Alloc
  <2> HIDE DEF out
  <2>5. /\ a.nodes \in Seq(Node) /\ Len(a.nodes) > 0
        /\ \A m \in 1..Len(a.nodes) :
              a.nodes[m].current <= a.nodes[m].end /\ a.nodes[m].end <= MallocMax
        /\ Fits(a.nodes, Len(a.nodes), amount) /\ out = Placed(a.nodes, Len(a.nodes), amount)
    BY <1>1, <1>9, <2>4
  <2>6. /\ ArenaOK(out.arena)
        /\ out.at \in Places /\ out.at # Null
        /\ out.arena.last = out.at
        /\ Len(out.arena.nodes) = top
        /\ Within(out.arena, out.at, amount)
        /\ \A m \in 1..top : out.arena.nodes[m].current >= a.nodes[m].current
        /\ out.at[1] = top /\ out.at[2] >= a.nodes[top].current
    BY <2>5, PlacedOutcome, ZenonT(60)
  <2>7. Len(out.arena.nodes) >= top
    BY <1>1, <2>6
  <2>8. Allocated(a, out, amount)
    BY <2>6, <2>7 DEF Allocated
  <2> QED
    BY <2>8 DEF out
<1>10. CASE /\ ~(amount > SizeMax \div 1) /\ ~Fits(a.nodes, top, amount)
            /\ granted /\ CanGrow(a, amount)
  <2> DEFINE grown == Grown(a, amount)
  <2>1. Candidates(a, amount) = {}
    BY <1>1, <1>10, CandidateNodes
  <2>2. out = Placed(grown, top + 1, amount)
    BY <1>2, <1>10, <2>1 DEF Alloc
  <2>3. /\ grown \in Seq(Node) /\ Len(grown) = top + 1
        /\ \A n \in 1..top : grown[n] = old[n]
        /\ grown[top + 1].current = 0 /\ grown[top + 1].end <= MallocMax
        /\ grown[top + 1] \in Node
        /\ Fits(grown, top + 1, amount)
    BY <1>10, GrownNodes DEF old
  <2> HIDE DEF grown, out
  <2>4. \A n \in 1..Len(grown) : grown[n].current <= grown[n].end /\ grown[n].end <= MallocMax
    <3> TAKE n \in 1..Len(grown)
    <3>1. CASE n = top + 1
      BY <2>3, <3>1 DEF Node
    <3>2. CASE n \in 1..top
      BY <1>7, <2>3, <3>2
    <3> QED
      BY <1>1, <2>3, <3>1, <3>2
  <2>5. /\ ArenaOK(out.arena)
        /\ out.at \in Places /\ out.at # Null
        /\ out.arena.last = out.at
        /\ Len(out.arena.nodes) = Len(grown)
        /\ Within(out.arena, out.at, amount)
        /\ \A m \in 1..Len(grown) : out.arena.nodes[m].current >= grown[m].current
        /\ out.at[1] = Len(grown)
    <3>1. Len(grown) > 0
      BY <1>1, <2>3
    <3>2. out = Placed(grown, Len(grown), amount) /\ Fits(grown, Len(grown), amount)
      BY <2>2, <2>3
    <3> QED
      BY <2>3, <2>4, <3>1, <3>2, PlacedOutcome
  <2>6. \A n \in 1..top : out.arena.nodes[n].current >= a.nodes[n].current
    <3> TAKE n \in 1..top
    <3>1. n \in 1..Len(grown) /\ n \in 1..Len(out.arena.nodes)
      BY <1>1, <2>3, <2>5
    <3>2. out.arena.nodes[n].current >= old[n].current /\ old[n].current >= a.nodes[n].current
      BY <1>7, <2>3, <2>5, <3>1
    <3>3. /\ out.arena.nodes[n].current \in Nat /\ a.nodes[n].current \in Nat
          /\ old[n].current \in Nat
      BY <1>1, <1>5, <2>5, <3>1, NodesOf
    <3> QED
      BY <3>2, <3>3
  <2>7. Len(out.arena.nodes) >= top /\ out.at[1] > top
    BY <1>1, <2>3, <2>5
  <2> QED
    BY <2>5, <2>6, <2>7, Zenon DEF Allocated, out
<1>11. CASE /\ ~(amount > SizeMax \div 1) /\ ~Fits(a.nodes, top, amount)
            /\ ~(granted /\ CanGrow(a, amount))
  <2>1. Candidates(a, amount) = {}
    BY <1>1, <1>11, CandidateNodes
  <2>2. out = Refused([a EXCEPT !.nodes = old])
    BY <1>2, <1>11, <2>1 DEF Alloc, old
  <2>3. /\ out.at = Null /\ out.arena.nodes = old /\ out.arena.last = a.last
        /\ out.arena.latest = top
        /\ out.arena \in [nodes : Seq(Node), latest : Nat, last : Places]
    BY <1>1, <1>6, <2>2 DEF Refused, ArenaOK
  <2> HIDE DEF out
  <2>4. ArenaOK(out.arena)
    <3>1. a.last # Null =>
            /\ a.last[1] = top /\ a.last[2] <= old[top].end
            /\ Aligned(a.last[1], a.last[2]) = a.last[2]
      BY <1>1, <1>5 DEF ArenaOK
    <3> QED
      BY <1>1, <1>6, <1>7, <2>3, <3>1 DEF ArenaOK
  <2>5. \A n \in 1..top : out.arena.nodes[n].current >= a.nodes[n].current
    BY <1>7, <2>3
  <2> QED
    BY <1>6, <2>3, <2>4, <2>5 DEF NotAllocated, out
<1> QED
  BY <1>8, <1>9, <1>10, <1>11

\* tdo_arena_resize of bytes: the objects behind the last allocation stay inside,
\* and it gets what it asks for (arena.c 148-175).
LEMMA ResizeOutcome ==
    ASSUME NEW a, ArenaOK(a), NEW at \in Places, NEW amount \in Nat,
           CanResize(a, at, 1, amount), amount <= SizeMax
    PROVE  LET b == Resize(a, at, 1, amount)
           IN  /\ ArenaOK(b)
               /\ b.last = a.last /\ b.last = at
               /\ Len(b.nodes) = Len(a.nodes)
               /\ Within(b, at, amount)
               /\ at[1] = Len(a.nodes)
               /\ b.nodes[at[1]].current = at[2] + amount
               /\ \A n \in 1..Len(a.nodes) : n # at[1] => b.nodes[n] = a.nodes[n]
<1> DEFINE top == Len(a.nodes)
           b == Resize(a, at, 1, amount)
<1>1. /\ a.nodes \in [1..top -> Node] /\ top \in Nat \ {0} /\ a.latest = top
      /\ \A n \in 1..top : a.nodes[n].current \in Nat /\ a.nodes[n].end \in Nat
      /\ \A n \in 1..top : a.nodes[n].current <= a.nodes[n].end /\ a.nodes[n].end <= MallocMax
  BY NodesOf DEF ArenaOK
<1>2. ResizeBytes(1, amount) = amount
  <2>1. 1 * amount = amount /\ amount \in 0..((SizeMax + 1) - 1) /\ SizeMax + 1 \in Nat \ {0}
    BY ArenaAssumption
  <2>2. amount % (SizeMax + 1) = amount
    BY <2>1
  <2> QED
    BY <2>1, <2>2 DEF ResizeBytes
<1>3. /\ at # Null /\ a.last = at /\ at[1] = top /\ at[2] \in Nat
      /\ Aligned(at[1], at[2]) = at[2]
      /\ at[2] + amount <= a.nodes[top].end
  <2>1. at # Null /\ a.last = at /\ Aligned(at[1], at[2]) + amount <= a.nodes[top].end
    BY <1>1, <1>2 DEF CanResize
  <2> QED
    BY <1>1, <2>1 DEF ArenaOK, Places
<1> DEFINE after == [a.nodes EXCEPT ![top].current = at[2] + amount]
<1>4. after \in [1..top -> Node]
  <2>1. [a.nodes[top] EXCEPT !.current = at[2] + amount] \in Node
    <3>1. a.nodes[top] \in Node /\ at[2] + amount \in Nat
      BY <1>1, <1>3
    <3> QED
      BY <3>1 DEF Node
  <2> QED
    BY <1>1, <2>1
<1>5. after \in Seq(Node) /\ Len(after) = top
  BY <1>1, <1>4, FunctionIsSeq
<1>6. /\ after[top].current = at[2] + amount /\ after[top].end = a.nodes[top].end
      /\ \A n \in 1..top : n # top => after[n] = a.nodes[n]
  BY <1>1
<1> HIDE DEF after
<1>7. /\ b.nodes = after /\ b.latest = top /\ b.last = at
      /\ b \in [nodes : Seq(Node), latest : Nat, last : Places]
  BY <1>1, <1>2, <1>3, <1>5 DEF Resize, ArenaOK, after
<1> HIDE DEF b
<1>8. \A n \in 1..top : after[n].current <= after[n].end /\ after[n].end <= MallocMax
  <2> TAKE n \in 1..top
  <2>1. CASE n = top
    BY <1>1, <1>3, <1>6, <2>1
  <2>2. CASE n # top
    BY <1>1, <1>6, <2>2
  <2> QED
    BY <2>1, <2>2
<1>9. at[2] <= after[top].end
  BY <1>1, <1>3, <1>6
<1>10. ArenaOK(b)
  BY <1>1, <1>3, <1>5, <1>7, <1>8, <1>9 DEF ArenaOK
<1>11. Within(b, at, amount)
  BY <1>1, <1>3, <1>5, <1>6, <1>7 DEF Within
<1> QED
  BY <1>3, <1>5, <1>6, <1>7, <1>10, <1>11 DEF b
-----------------------------------------------------------------------------
(* One object is allocated, resized or moved, from place p with room z to q   *)
(* with room y, while the arena goes from a to b.  Null is no object yet.     *)

\* Another object beside it: apart, and behind it if it is the last.
Beside(a, at, size, p, z) ==
    /\ Within(a, at, size)
    /\ p # Null =>
          /\ Apart(at, size, p, z)
          /\ p = a.last => Below(at, size, p)
          /\ at = a.last => Below(p, z, at)

\* A saved state can be restored; a place is behind what was in use then.
Restorable(a, state) ==
    state[1] \in 1..Len(a.nodes) /\ a.nodes[state[1]].current >= state[2]
Since(at, state) == at[1] > state[1] \/ (at[1] = state[1] /\ at[2] >= state[2])

Sizes == Nat \ {0}

Moved(a, p, z, b, q, y) ==
    /\ ArenaOK(b)
    /\ Len(b.nodes) >= Len(a.nodes)
    /\ q \in Places
    /\ q # Null => Within(b, q, y)
    /\ \A at \in Places, size \in Sizes :
          Beside(a, at, size, p, z) =>
              Beside(b, at, size, q, y) /\ (at = b.last => at = a.last)
    /\ \A state \in Places :
          Restorable(a, state) /\ (p # Null => Since(p, state)) =>
              Restorable(b, state) /\ (q # Null => Since(q, state))

LEMMA MovedTwice ==
    ASSUME NEW a, NEW p, NEW z, NEW b, NEW q, NEW y, NEW c, NEW r, NEW x,
           ArenaOK(a), Moved(a, p, z, b, q, y), Moved(b, q, y, c, r, x)
    PROVE  Moved(a, p, z, c, r, x)
<1>1. ArenaOK(b) /\ ArenaOK(c)
  BY DEF Moved
<1>2. Len(a.nodes) \in Nat /\ Len(b.nodes) \in Nat /\ Len(c.nodes) \in Nat
  BY <1>1, NodesOf
<1>3. Len(c.nodes) >= Len(a.nodes)
  BY <1>2 DEF Moved
<1> QED
  BY <1>3 DEF Moved

LEMMA NotMoved ==
    ASSUME NEW a, NEW p \in Places, NEW z, ArenaOK(a), p # Null => Within(a, p, z)
    PROVE  Moved(a, p, z, a, p, z)
BY NodesOf DEF Moved

\* An object stays inside while its node gives out more.
LEMMA WithinStays ==
    ASSUME NEW a, NEW b, ArenaOK(a), ArenaOK(b), Len(b.nodes) >= Len(a.nodes),
           \A n \in 1..Len(a.nodes) : b.nodes[n].current >= a.nodes[n].current
    PROVE  /\ \A at \in Places, size \in Nat : Within(a, at, size) => Within(b, at, size)
           /\ \A state \in Places : Restorable(a, state) => Restorable(b, state)
<1>1. /\ Len(a.nodes) \in Nat /\ Len(b.nodes) \in Nat
      /\ \A n \in 1..Len(a.nodes) : a.nodes[n].current \in Nat
      /\ \A n \in 1..Len(b.nodes) : b.nodes[n].current \in Nat
  BY NodesOf
<1>2. \A n \in 1..Len(a.nodes) : n \in 1..Len(b.nodes)
  BY <1>1
<1>3. ASSUME NEW at \in Places, NEW size \in Nat, Within(a, at, size)
      PROVE  Within(b, at, size)
  <2>1. /\ at[1] \in 1..Len(a.nodes) /\ at[2] + size \in Nat
        /\ at[2] + size <= a.nodes[at[1]].current
    BY <1>3 DEF Within, Places
  <2>2. /\ at[1] \in 1..Len(b.nodes) /\ b.nodes[at[1]].current >= a.nodes[at[1]].current
        /\ b.nodes[at[1]].current \in Nat /\ a.nodes[at[1]].current \in Nat
    BY <1>1, <1>2, <2>1
  <2> QED
    BY <2>1, <2>2 DEF Within
<1>4. ASSUME NEW state \in Places, Restorable(a, state)
      PROVE  Restorable(b, state)
  BY <1>1, <1>2, <1>4 DEF Restorable, Places
<1> QED
  BY <1>3, <1>4

LEMMA RefusedMoves ==
    ASSUME NEW a, NEW p \in Places, NEW z \in Nat, ArenaOK(a), p # Null => Within(a, p, z),
           NEW out, NotAllocated(a, out)
    PROVE  Moved(a, p, z, out.arena, p, z)
<1>1. Len(a.nodes) \in Nat /\ Len(out.arena.nodes) = Len(a.nodes) /\ ArenaOK(out.arena)
  BY NodesOf DEF NotAllocated
<1>2. /\ \A at \in Places, size \in Nat : Within(a, at, size) => Within(out.arena, at, size)
      /\ \A state \in Places : Restorable(a, state) => Restorable(out.arena, state)
  BY <1>1, WithinStays DEF NotAllocated
<1>3. out.arena.last = a.last /\ Sizes \subseteq Nat
  BY DEF NotAllocated, Sizes
<1> QED
  BY <1>1, <1>2, <1>3 DEF Moved, Beside

LEMMA AllocatedMoves ==
    ASSUME NEW a, NEW p, NEW z, ArenaOK(a), NEW amount \in Sizes,
           NEW out, Allocated(a, out, amount)
    PROVE  Moved(a, p, z, out.arena, out.at, amount)
<1> DEFINE b == out.arena
           q == out.at
           top == Len(a.nodes)
<1>1. /\ top \in Nat /\ Len(b.nodes) \in Nat /\ Len(b.nodes) >= top /\ ArenaOK(b)
      /\ \A n \in 1..top : a.nodes[n].current \in Nat
      /\ a.nodes[top].current \in Nat
  BY NodesOf DEF Allocated
<1>2. /\ \A at \in Places, size \in Nat : Within(a, at, size) => Within(b, at, size)
      /\ \A state \in Places : Restorable(a, state) => Restorable(b, state)
  BY <1>1, WithinStays DEF Allocated
<1>3. /\ q \in Places /\ b.last = q /\ q # Null /\ q[1] \in Nat /\ q[2] \in Nat
      /\ Within(b, q, amount)
      /\ q[1] > top \/ (q[1] = top /\ q[2] >= a.nodes[top].current)
  BY DEF Allocated, Places
<1> HIDE DEF b, q
<1>4. ASSUME NEW at \in Places, NEW size \in Sizes, Within(a, at, size)
      PROVE  Below(at, size, q) /\ Apart(at, size, q, amount) /\ at # q
  <2>1. at[1] \in 1..top /\ at[2] + size <= a.nodes[at[1]].current /\ at[2] \in Nat
    BY <1>4 DEF Within, Places
  <2>2. at[1] = q[1] => at[2] + size <= q[2]
    <3>1. CASE at[1] = q[1]
      <4>1. /\ at[1] = top /\ q[2] >= a.nodes[top].current
            /\ at[2] + size <= a.nodes[top].current
        BY <1>1, <1>3, <2>1, <3>1
      <4>2. at[2] + size \in Nat /\ q[2] \in Nat /\ a.nodes[top].current \in Nat
        BY <1>1, <1>3, <2>1 DEF Sizes
      <4> QED
        BY <4>1, <4>2
    <3> QED
      BY <3>1
  <2>3. at # q
    BY <2>1, <2>2 DEF Sizes
  <2> QED
    BY <2>2, <2>3 DEF Below, Apart
<1>5. ASSUME NEW at \in Places, NEW size \in Sizes, Beside(a, at, size, p, z)
      PROVE  Beside(b, at, size, q, amount) /\ (at = b.last => at = a.last)
  <2>1. Within(a, at, size) /\ size \in Nat
    BY <1>5 DEF Beside, Sizes
  <2> QED
    BY <1>2, <1>3, <1>4, <2>1 DEF Beside
<1>6. ASSUME NEW state \in Places, Restorable(a, state)
      PROVE  Restorable(b, state) /\ Since(q, state)
  <2>1. state[1] \in 1..top /\ state[2] <= a.nodes[state[1]].current /\ state[2] \in Nat
    BY <1>6 DEF Restorable, Places
  <2>2. Since(q, state)
    BY <1>1, <1>3, <2>1 DEF Since
  <2> QED
    BY <1>2, <1>6, <2>2
<1> QED
  BY <1>1, <1>3, <1>5, <1>6 DEF Moved, b, q

LEMMA ResizedMoves ==
    ASSUME NEW a, NEW p \in Places, NEW z, ArenaOK(a), NEW amount \in Sizes,
           CanResize(a, p, 1, amount), amount <= SizeMax
    PROVE  Moved(a, p, z, Resize(a, p, 1, amount), p, amount)
<1> DEFINE b == Resize(a, p, 1, amount)
           top == Len(a.nodes)
<1>1. /\ ArenaOK(b) /\ b.last = a.last /\ b.last = p /\ Len(b.nodes) = top
      /\ Within(b, p, amount) /\ p[1] = top
      /\ b.nodes[p[1]].current = p[2] + amount
      /\ \A n \in 1..top : n # p[1] => b.nodes[n] = a.nodes[n]
  BY ResizeOutcome DEF Sizes
<1>2. /\ top \in Nat /\ p[1] \in Nat /\ p[2] \in Nat /\ p # Null
      /\ \A n \in 1..top : a.nodes[n].current \in Nat
  BY NodesOf DEF Places, CanResize
<1> HIDE DEF b
<1>3. ASSUME NEW at \in Places, NEW size \in Sizes, Beside(a, at, size, p, z)
      PROVE  Beside(b, at, size, p, amount) /\ (at = b.last => at = a.last)
  <2>1. /\ Within(a, at, size) /\ Below(at, size, p) /\ at[1] \in Nat /\ at[2] \in Nat
        /\ size \in Nat /\ size > 0
    BY <1>1, <1>2, <1>3 DEF Beside, Places, Sizes
  <2>2. Within(b, at, size)
    <3>1. CASE at[1] = p[1]
      BY <1>1, <1>2, <2>1, <3>1 DEF Within, Below, Sizes
    <3>2. CASE at[1] # p[1]
      BY <1>1, <2>1, <3>2 DEF Within
    <3> QED
      BY <3>1, <3>2
  <2>3. at # p
    BY <1>2, <2>1 DEF Below
  <2> QED
    BY <1>1, <1>2, <2>1, <2>2, <2>3 DEF Beside, Apart, Below
<1>4. ASSUME NEW state \in Places, Restorable(a, state), Since(p, state)
      PROVE  Restorable(b, state) /\ Since(p, state)
  <2>1. state[1] \in 1..top /\ a.nodes[state[1]].current >= state[2] /\ state[2] \in Nat
    BY <1>4 DEF Restorable, Places
  <2>2. CASE state[1] = p[1]
    BY <1>1, <1>2, <1>4, <2>1, <2>2 DEF Restorable, Since, Sizes
  <2>3. CASE state[1] # p[1]
    BY <1>1, <1>4, <2>1, <2>3 DEF Restorable
  <2> QED
    BY <2>2, <2>3, <1>4
<1> QED
  BY <1>1, <1>2, <1>3, <1>4 DEF Moved, b
-----------------------------------------------------------------------------
(* Going back to a saved state (arena.c 48-76). *)

\* What was in use when the state was saved.
Saved(at, size, state) ==
    at[1] < state[1] \/ (at[1] = state[1] /\ at[2] + size <= state[2])

LEMMA StateSetOutcome ==
    ASSUME NEW a, ArenaOK(a), NEW state \in Places, Restorable(a, state)
    PROVE  /\ ~StateSetAborts(a, state)
           /\ ArenaOK(StateSet(a, state))
           /\ StateSet(a, state).last = a.last
           /\ Len(StateSet(a, state).nodes) = Len(a.nodes)
           /\ \A at \in Places, size \in Nat :
                 Within(a, at, size) /\ Saved(at, size, state) =>
                     Within(StateSet(a, state), at, size)
<1> DEFINE top == Len(a.nodes)
           b == StateSet(a, state)
           back(n) == IF n < state[1] THEN a.nodes[n].end
                      ELSE IF n = state[1] THEN state[2] ELSE 0
           after == [n \in 1..top |-> [a.nodes[n] EXCEPT !.current = back(n)]]
<1>1. /\ a.nodes \in [1..top -> Node] /\ top \in Nat \ {0} /\ a.latest = top
      /\ DOMAIN a.nodes = 1..top
      /\ \A n \in 1..top : a.nodes[n].current \in Nat /\ a.nodes[n].end \in Nat
      /\ \A n \in 1..top : a.nodes[n].current <= a.nodes[n].end /\ a.nodes[n].end <= MallocMax
  BY NodesOf DEF ArenaOK
<1>2. /\ state[1] \in 1..top /\ state[2] \in Nat
      /\ state[2] <= a.nodes[state[1]].current
  BY DEF Restorable, Places
<1>3. ~StateSetAborts(a, state)
  BY <1>1, <1>2 DEF StateSetAborts
<1>4. \A n \in 1..top : back(n) \in Nat /\ back(n) <= a.nodes[n].end
  BY <1>1, <1>2
<1>5. \A n \in 1..top : /\ after[n] \in Node
                        /\ after[n].current = back(n) /\ after[n].end = a.nodes[n].end
  <2> TAKE n \in 1..top
  <2>1. after[n] = [a.nodes[n] EXCEPT !.current = back(n)] /\ a.nodes[n] \in Node
    BY <1>1
  <2>2. back(n) \in Nat
    BY <1>4
  <2> HIDE DEF back
  <2> QED
    BY <2>1, <2>2 DEF Node
<1>6. after \in [1..top -> Node]
  BY <1>5
<1>7. after \in Seq(Node) /\ Len(after) = top
  BY <1>1, <1>6, FunctionIsSeq
<1>8. b = [a EXCEPT !.nodes = after]
  BY <1>1 DEF StateSet
<1> HIDE DEF after
<1>9. /\ b.nodes = after /\ b.latest = top /\ b.last = a.last
      /\ b \in [nodes : Seq(Node), latest : Nat, last : Places]
  BY <1>1, <1>7, <1>8 DEF ArenaOK
<1> HIDE DEF b
<1>10. \A n \in 1..top : after[n].current <= after[n].end /\ after[n].end <= MallocMax
  BY <1>1, <1>4, <1>5
<1>11. a.last # Null =>
         /\ a.last[1] = top /\ a.last[2] <= after[top].end
         /\ Aligned(a.last[1], a.last[2]) = a.last[2]
  BY <1>1, <1>5 DEF ArenaOK
<1>12. ArenaOK(b)
  <2>1. top > 0
    BY <1>1
  <2> QED
    BY <1>7, <1>9, <1>10, <1>11, <2>1 DEF ArenaOK
<1>13. ASSUME NEW at \in Places, NEW size \in Nat, Within(a, at, size), Saved(at, size, state)
       PROVE  Within(b, at, size)
  <2>1. /\ at[1] \in 1..top /\ at[2] \in Nat
        /\ at[2] + size <= a.nodes[at[1]].current
    BY <1>13 DEF Within, Places
  <2>2. at[2] + size <= back(at[1])
    <3>1. at[2] + size \in Nat /\ state[1] \in Nat
      BY <1>2, <2>1
    <3>2. CASE at[1] < state[1]
      BY <1>1, <2>1, <3>1, <3>2
    <3>3. CASE at[1] = state[1] /\ at[2] + size <= state[2]
      BY <1>2, <3>3
    <3> QED
      BY <1>13, <3>2, <3>3 DEF Saved
  <2>3. b.nodes[at[1]].current = back(at[1]) /\ Len(b.nodes) = top
    BY <1>5, <1>7, <1>9, <2>1
  <2> HIDE DEF back
  <2> QED
    BY <2>1, <2>2, <2>3 DEF Within
<1> QED
  BY <1>3, <1>7, <1>9, <1>12, <1>13 DEF b
-----------------------------------------------------------------------------
(* Induction, and what it says of FlattenSeq. *)

\* A set of numbers that is not empty has a least one.
LEMMA LeastNumber ==
    ASSUME NEW T \in SUBSET Nat, T # {}
    PROVE  \E x \in T : \A y \in T : x <= y
<1>1. IsWellFoundedOn(OpToRel(<, Nat), Nat)
  BY NatLessThanWellFounded, Zenon
<1>2. PICK x \in T : \A y \in T : <<y, x>> \notin OpToRel(<, Nat)
  BY <1>1, WFMin, Zenon
<1>3. \A y \in T : ~(y < x)
  BY <1>2 DEF OpToRel
<1> QED
  BY <1>3

\* Induction: a set with 0 and, with each number, the next one has them all.
LEMMA Induction ==
    ASSUME NEW T, 0 \in T, \A n \in Nat : n \in T => n + 1 \in T
    PROVE  Nat \subseteq T
<1> SUFFICES ASSUME Nat \ T # {} PROVE FALSE
    OBVIOUS
<1>1. PICK x \in Nat \ T : \A y \in Nat \ T : x <= y
  BY LeastNumber
<1>2. x # 0 /\ x - 1 \in Nat
  BY <1>1
<1>3. x - 1 \in T
  BY <1>1, <1>2
<1> QED
  BY <1>1, <1>2, <1>3

\* g adds up the first n pieces, one after the other.
Sums(pieces, g, n) ==
    g = [i \in 1..n |-> IF i = 1 THEN pieces[i] ELSE g[i - 1] \o pieces[i]]

LEMMA SumsExist ==
    ASSUME NEW pieces, NEW n \in Nat
    PROVE  \E g : Sums(pieces, g, n)
<1> DEFINE T == {m \in Nat : \E g : Sums(pieces, g, m)}
<1>1. 0 \in T
  <2> DEFINE g == [i \in 1..0 |-> i]
  <2>1. Sums(pieces, g, 0)
    BY DEF Sums
  <2> QED
    BY <2>1
<1>2. ASSUME NEW m \in Nat, m \in T
      PROVE  m + 1 \in T
  <2>1. PICK g : Sums(pieces, g, m)
    BY <1>2
  <2> DEFINE next == IF m = 0 THEN pieces[1] ELSE g[m] \o pieces[m + 1]
             h == [i \in 1..(m + 1) |-> IF i <= m THEN g[i] ELSE next]
             k == [i \in 1..(m + 1) |-> IF i = 1 THEN pieces[i] ELSE h[i - 1] \o pieces[i]]
  <2>2. \A i \in 1..m : g[i] = IF i = 1 THEN pieces[i] ELSE g[i - 1] \o pieces[i]
    BY <2>1 DEF Sums
  <2>3. ASSUME NEW i \in 1..(m + 1)
        PROVE  h[i] = IF i = 1 THEN pieces[i] ELSE h[i - 1] \o pieces[i]
    <3> HIDE DEF next
    <3>1. CASE i <= m
      <4>1. h[i] = g[i] /\ i \in 1..m /\ (i # 1 => i - 1 \in 1..m /\ h[i - 1] = g[i - 1])
        BY <3>1
      <4> HIDE DEF h
      <4> QED
        BY <2>2, <4>1
    <3>2. CASE ~(i <= m)
      <4>1. i = m + 1 /\ h[i] = next /\ (m # 0 => i - 1 = m /\ m \in 1..(m + 1) /\ h[i - 1] = g[m])
        BY <3>2
      <4>2. i = 1 <=> m = 0
        BY <4>1
      <4> HIDE DEF h
      <4> QED
        BY <4>1, <4>2 DEF next
    <3> QED
      BY <3>1, <3>2
  <2> HIDE DEF next
  <2>4. h = k
    <3>1. \A i \in 1..(m + 1) : h[i] = k[i]
      BY <2>3
    <3>2. h = [i \in 1..(m + 1) |-> h[i]] /\ k = [i \in 1..(m + 1) |-> k[i]]
      OBVIOUS
    <3> HIDE DEF h, k
    <3> QED
      BY <3>1, <3>2
  <2>5. Sums(pieces, h, m + 1)
    <3> HIDE DEF h
    <3> QED
      BY <2>4 DEF Sums
  <2> HIDE DEF h
  <2> QED
    BY <2>5
<1> HIDE DEF T
<1>3. Nat \subseteq T
  BY <1>1, <1>2, Induction
<1> QED
  BY <1>3 DEF T

LEMMA SumsAgree ==
    ASSUME NEW pieces, NEW m \in Nat, NEW n \in Nat, m <= n,
           NEW g, Sums(pieces, g, m), NEW h, Sums(pieces, h, n)
    PROVE  \A i \in 1..m : g[i] = h[i]
<1> DEFINE T == {k \in Nat : k \in 1..m => g[k] = h[k]}
<1>1. /\ \A i \in 1..m : g[i] = IF i = 1 THEN pieces[i] ELSE g[i - 1] \o pieces[i]
      /\ \A i \in 1..n : h[i] = IF i = 1 THEN pieces[i] ELSE h[i - 1] \o pieces[i]
  BY DEF Sums
<1>2. 0 \in T
  OBVIOUS
<1>3. ASSUME NEW k \in Nat, k \in T
      PROVE  k + 1 \in T
  <2> SUFFICES ASSUME k + 1 \in 1..m
               PROVE  g[k + 1] = h[k + 1]
    OBVIOUS
  <2>1. k + 1 \in 1..n /\ (k + 1) - 1 = k /\ (k + 1 = 1 \/ k \in 1..m)
    OBVIOUS
  <2>2. k + 1 = 1 \/ g[k] = h[k]
    BY <1>3, <2>1
  <2> QED
    BY <1>1, <2>1, <2>2
<1> HIDE DEF T
<1>4. Nat \subseteq T
  BY <1>2, <1>3, Induction
<1> QED
  BY <1>4 DEF T

Flat(pieces, n) == FlattenSeq(SubSeq(pieces, 1, n))

LEMMA FlatIsSum ==
    ASSUME NEW S, NEW pieces \in Seq(S), NEW n \in 1..Len(pieces),
           NEW g, Sums(pieces, g, n)
    PROVE  Flat(pieces, n) = g[n]
<1> DEFINE sub == SubSeq(pieces, 1, n)
           f == CHOOSE f : f = [i \in 1..Len(sub) |-> IF i = 1 THEN sub[i] ELSE f[i - 1] \o sub[i]]
<1>1. Len(sub) = n /\ \A i \in 1..n : sub[i] = pieces[i]
  OBVIOUS
<1>2. Flat(pieces, n) = FlattenSeq(sub)
  BY DEF Flat
<1> HIDE DEF sub
<1>8. FlattenSeq(sub) = f[Len(sub)]
  <2>1. Len(sub) # 0
    BY <1>1
  <2> QED
    BY <2>1, Zenon DEF FlattenSeq
<1>3. ASSUME NEW k
      PROVE  Sums(pieces, k, n) <=>
               k = [i \in 1..Len(sub) |-> IF i = 1 THEN sub[i] ELSE k[i - 1] \o sub[i]]
  <2>1. [i \in 1..Len(sub) |-> IF i = 1 THEN sub[i] ELSE k[i - 1] \o sub[i]]
          = [i \in 1..n |-> IF i = 1 THEN pieces[i] ELSE k[i - 1] \o pieces[i]]
    BY <1>1
  <2> QED
    BY <2>1 DEF Sums
<1>4. f = [i \in 1..Len(sub) |-> IF i = 1 THEN sub[i] ELSE f[i - 1] \o sub[i]]
  <2>1. g = [i \in 1..Len(sub) |-> IF i = 1 THEN sub[i] ELSE g[i - 1] \o sub[i]]
    BY <1>3
  <2> QED
    BY <2>1, Zenon
<1> HIDE DEF f
<1>5. Sums(pieces, f, n)
  BY <1>3, <1>4
<1>6. n \in Nat /\ n \in 1..n
  OBVIOUS
<1>7. f[n] = g[n]
  BY <1>5, <1>6, SumsAgree
<1> QED
  BY <1>1, <1>2, <1>7, <1>8

\* FlattenSeq, one part at a time.
LEMMA FlatGrows ==
    ASSUME NEW S, NEW pieces \in Seq(Seq(S))
    PROVE  /\ Flat(pieces, 0) = <<>>
           /\ \A n \in 0..(Len(pieces) - 1) :
                 Flat(pieces, n) \in Seq(S) => Flat(pieces, n + 1) = Flat(pieces, n) \o pieces[n + 1]
<1>1. Flat(pieces, 0) = <<>>
  <2>1. SubSeq(pieces, 1, 0) = <<>> /\ Len(SubSeq(pieces, 1, 0)) = 0
    OBVIOUS
  <2> QED
    BY <2>1 DEF Flat, FlattenSeq
<1>2. ASSUME NEW n \in 0..(Len(pieces) - 1), Flat(pieces, n) \in Seq(S)
      PROVE  Flat(pieces, n + 1) = Flat(pieces, n) \o pieces[n + 1]
  <2>1. n \in Nat /\ n + 1 \in Nat /\ n + 1 \in 1..Len(pieces) /\ pieces[n + 1] \in Seq(S)
    OBVIOUS
  <2>2. PICK g : Sums(pieces, g, n)
    BY <2>1, SumsExist
  <2>3. PICK h : Sums(pieces, h, n + 1)
    BY <2>1, SumsExist
  <2>4. Flat(pieces, n + 1) = h[n + 1]
    BY <2>1, <2>3, FlatIsSum
  <2>5. h[n + 1] = IF n + 1 = 1 THEN pieces[n + 1] ELSE h[(n + 1) - 1] \o pieces[n + 1]
    <3>1. n + 1 \in 1..(n + 1)
      BY <2>1
    <3> QED
      BY <2>3, <3>1 DEF Sums
  <2>6. CASE n = 0
    <3>1. <<>> \o pieces[n + 1] = pieces[n + 1]
      BY <2>1, ConcatEmptySeq
    <3> QED
      BY <1>1, <2>4, <2>5, <2>6, <3>1
  <2>7. CASE n # 0
    <3>1. n \in 1..Len(pieces) /\ n \in 1..n /\ n <= n + 1
      BY <2>1, <2>7
    <3>2. Flat(pieces, n) = g[n]
      BY <2>2, <3>1, FlatIsSum
    <3>3. g[n] = h[n]
      BY <2>1, <2>2, <2>3, <3>1, SumsAgree
    <3>4. n + 1 # 1 /\ (n + 1) - 1 = n
      BY <2>1, <2>7
    <3> QED
      BY <2>4, <2>5, <3>2, <3>3, <3>4
  <2> QED
    BY <2>6, <2>7
<1> QED
  BY <1>1, <1>2
=============================================================================
