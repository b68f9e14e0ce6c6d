--------------------------- MODULE TdoParseProofs ---------------------------
(***************************************************************************)
(* The theorems of TdoParseProperties, for every set of lines, any sizes   *)
(* of the elements and any arena.                                          *)
(***************************************************************************)
EXTENDS TdoParseProperties, TdoArenaProofs, FiniteSetTheorems

-----------------------------------------------------------------------------
(* Allocations of elements (arena.c 85-175): as many bytes as they take. *)

LEMMA Product ==
    ASSUME NEW x \in Sizes, NEW y \in Nat
    PROVE  x * y \in Nat /\ y <= x * y /\ (y # 0 => x * y # 0)
<1>1. \A n \in Nat : (n + 1) * y = n * y + y /\ n * y \in Nat
  OBVIOUS
<1>2. x - 1 \in Nat /\ (x - 1) + 1 = x
  BY DEF Sizes
<1>3. x * y = (x - 1) * y + y /\ (x - 1) * y \in Nat
  BY <1>1, <1>2
<1> HIDE DEF Sizes
<1> DEFINE p == x * y
           q == (x - 1) * y
<1> HIDE DEF p, q
<1>4. p = q + y /\ q \in Nat
  BY <1>3 DEF p, q
<1>5. p \in Nat /\ y <= p /\ (y # 0 => p # 0)
  BY <1>4
<1> QED
  BY <1>5 DEF p

\* The check against overflow divides.
LEMMA QuotientBound ==
    ASSUME NEW x \in Sizes, NEW y \in Nat, NEW m \in Nat
    PROVE  y <= m \div x => x * y <= m
<1>1. m = x * (m \div x) + (m % x) /\ m % x \in Nat /\ m \div x \in Nat
  BY DEF Sizes
<1> SUFFICES ASSUME y <= m \div x PROVE x * y <= m
  OBVIOUS
<1> DEFINE d == (m \div x) - y
           q == m \div x
<1>2. q \in Nat /\ d \in Nat /\ q = y + d /\ x \in Nat
  BY <1>1 DEF Sizes
<1> HIDE DEF d, q
<1>3. x * q = x * y + x * d
  BY <1>2
<1>4. x * y \in Nat /\ x * d \in Nat
  BY <1>2
<1>5. m = x * q + (m % x)
  BY <1>1 DEF q
<1> QED
  BY <1>1, <1>3, <1>4, <1>5

LEMMA AllocElements ==
    ASSUME NEW a, ArenaOK(a), NEW size \in Sizes, NEW n \in Nat, NEW granted
    PROVE  /\ ~AllocAborts(a, size, n, granted)
           /\ LET out == Alloc(a, size, n, granted)
              IN  Allocated(a, out, size * n) \/ NotAllocated(a, out)
<1> DEFINE bytes == size * n
<1>1. SizeMax \in Nat /\ size \in Nat \ {0} /\ bytes \in Nat
  BY ArenaAssumption, Product DEF Sizes
<1>2. n <= SizeMax \div size => bytes <= SizeMax
  BY <1>1, QuotientBound
<1>3. SizeMax \div 1 = SizeMax /\ SizeMax \div size \in Nat
  BY <1>1
<1>4. CASE n > SizeMax \div size
  <2>1. ~AllocAborts(a, size, n, granted)
    BY <1>3, <1>4 DEF AllocAborts
  <2>2. Alloc(a, size, n, granted) = Refused(a)
    BY <1>4 DEF Alloc
  <2>3. NotAllocated(a, Refused(a))
    <3>1. \A k \in 1..Len(a.nodes) : a.nodes[k].current \in Nat
      BY NodesOf
    <3> QED
      BY <3>1 DEF NotAllocated, Refused
  <2> QED
    BY <2>1, <2>2, <2>3
<1>5. CASE ~(n > SizeMax \div size)
  <2>1. bytes <= SizeMax /\ n <= SizeMax \div size
    BY <1>2, <1>3, <1>5
  <2> HIDE DEF bytes
  <2>2. 1 * bytes = bytes /\ bytes <= SizeMax \div 1 /\ ~(bytes > SizeMax \div 1)
    BY <1>1, <1>3, <2>1
  <2>3. Alloc(a, size, n, granted) = Alloc(a, 1, bytes, granted)
    BY <1>5, <2>2 DEF Alloc, bytes
  <2>4. AllocAborts(a, size, n, granted) <=> AllocAborts(a, 1, bytes, granted)
    BY <2>1, <2>2 DEF AllocAborts, bytes
  <2>5. ~AllocAborts(a, 1, bytes, granted)
    BY <1>1, AllocNeverAborts
  <2>6. Allocated(a, Alloc(a, 1, bytes, granted), bytes)
        \/ NotAllocated(a, Alloc(a, 1, bytes, granted))
    BY <1>1, AllocOutcome
  <2> QED
    BY <2>3, <2>4, <2>5, <2>6 DEF bytes
<1> QED
  BY <1>4, <1>5

\* Where an array may be resized, its bytes did not wrap around.
LEMMA ResizeElements ==
    ASSUME NEW a, ArenaOK(a), NEW at \in Places, NEW size \in Sizes, NEW n \in Nat,
           n # 0, size * n <= SizeMax, CanResize(a, at, size, n)
    PROVE  /\ CanResize(a, at, 1, size * n) /\ size * n <= SizeMax
           /\ Resize(a, at, size, n) = Resize(a, at, 1, size * n)
<1> DEFINE bytes == size * n
           top == Len(a.nodes)
<1>1. /\ SizeMax \in Nat /\ MallocMax \in Nat /\ MallocMax <= SizeMax \div 2
      /\ bytes \in Nat /\ bytes # 0
  BY ArenaAssumption, Product DEF Sizes
<1>2. bytes <= SizeMax
  OBVIOUS
<1> HIDE DEF bytes
<1>3. 1 * bytes = bytes /\ bytes % (SizeMax + 1) = bytes
  BY <1>1, <1>2
<1>4. ResizeBytes(size, n) = bytes /\ ResizeBytes(1, bytes) = bytes
  BY <1>3 DEF ResizeBytes, bytes
<1>5. /\ at # Null /\ a.last = at /\ at[1] \in Nat /\ at[2] \in Nat
      /\ Aligned(at[1], at[2]) + bytes <= a.nodes[a.latest].end
  BY <1>4 DEF CanResize, Places
<1>6. Aligned(at[1], at[2]) \in Nat
  BY <1>5, AlignedPlace
<1>7. a.nodes[a.latest].end <= MallocMax /\ a.nodes[a.latest].end \in Nat
  BY NodesOf DEF ArenaOK
<1>8. bytes <= MallocMax
  BY <1>1, <1>5, <1>6, <1>7
<1>9. bytes <= SizeMax - 1
  BY <1>1, <1>8
<1>10. CanResize(a, at, 1, bytes)
  BY <1>4, <1>5, <1>9 DEF CanResize
<1>11. Resize(a, at, size, n) = Resize(a, at, 1, bytes)
  BY <1>4 DEF Resize
<1> QED
  BY <1>2, <1>10, <1>11 DEF bytes
-----------------------------------------------------------------------------
(* Arrays that grow between each other (test.c 15-71).                      *)

IsSeq(s) == \E S : s \in Seq(S)

LEMMA Appending ==
    ASSUME NEW s, IsSeq(s), NEW e
    PROVE  /\ IsSeq(Append(s, e)) /\ Len(s) \in Nat /\ Len(Append(s, e)) = Len(s) + 1
           /\ \A i \in 1..Len(s) : Append(s, e)[i] = s[i]
           /\ Append(s, e)[Len(s) + 1] = e
           /\ SubSeq(s, 1, Len(s)) = s
<1>1. PICK S : s \in Seq(S)
  BY DEF IsSeq
<1> DEFINE T == S \cup {e}
<1>2. s \in Seq(T) /\ e \in T
  BY <1>1
<1> HIDE DEF T
<1>3. Append(s, e) \in Seq(T)
  BY <1>2
<1>4. IsSeq(Append(s, e))
  BY <1>3 DEF IsSeq
<1>5. SubSeq(s, 1, Len(s)) = s
  BY <1>2
<1> QED
  BY <1>2, <1>4, <1>5

\* A block starts inside what its node has given out, and not behind the last
\* allocation, which is the one that may be cut back.
Settled(a, at) ==
    /\ Within(a, at, 1)
    /\ a.last # Null /\ at # a.last => Below(at, 1, a.last)

BlocksOK(a, blks) ==
    \A at \in DOMAIN blks : at \in Places /\ IsSeq(blks[at]) /\ Settled(a, at)

ArrayOf == [data : Places, length : Nat, capacity : Nat]

\* An array of elements of a size never holds more than its block has room for.
ArrayOK(array, size) ==
    /\ array \in ArrayOf
    /\ array.length <= array.capacity
    /\ size * array.capacity <= MallocMax
    /\ array.data = Null => array.capacity = 0

\* An array that is still appended to: its block has its elements and no more.
Live(array, blks) ==
    array.data # Null =>
        /\ array.capacity # 0
        /\ array.data \in DOMAIN blks
        /\ Len(blks[array.data]) = array.length

Held(array, blks) ==
    IF array.data = Null THEN <<>> ELSE SubSeq(blks[array.data], 1, array.length)

\* What an append leaves: when it succeeds, and when there is no memory.
AppendedTo(array, a, blks, size, item, out) ==
    /\ out.result = "ok"
    /\ ArenaOK(out.arena) /\ BlocksOK(out.arena, out.blocks)
    /\ ArrayOK(out.array, size) /\ Live(out.array, out.blocks)
    /\ out.array.data # Null /\ out.array.length = array.length + 1
    /\ out.blocks = Put(blks, out.array.data, Append(Held(array, blks), item))
    /\ IsSeq(Held(array, blks)) /\ Len(Held(array, blks)) = array.length
    /\ out.array.data = array.data \/ out.array.data \notin DOMAIN blks
    /\ HasSpace(array) => out.array.data = array.data /\ out.array.capacity = array.capacity
    /\ array.data = Null => out.array.capacity = FirstCapacity

NotAppended(array, blks, out) ==
    /\ out.result = "memory" /\ out.array = array /\ out.blocks = blks
    /\ ArenaOK(out.arena) /\ BlocksOK(out.arena, blks)

\* The blocks stay settled.
LEMMA SettledAfterAlloc ==
    ASSUME NEW a, ArenaOK(a), NEW out, NEW bytes \in Sizes, Allocated(a, out, bytes)
    PROVE  /\ \A at \in Places : Settled(a, at) => Settled(out.arena, at) /\ at # out.at
           /\ Settled(out.arena, out.at)
<1> DEFINE b == out.arena
           q == out.at
           top == Len(a.nodes)
<1>1. /\ top \in Nat \ {0} /\ Len(b.nodes) \in Nat /\ Len(b.nodes) >= top /\ ArenaOK(b)
      /\ \A n \in 1..top : a.nodes[n].current \in Nat
      /\ \A n \in 1..Len(b.nodes) : b.nodes[n].current \in Nat
      /\ \A n \in 1..top : b.nodes[n].current >= a.nodes[n].current
  BY NodesOf DEF Allocated
<1>2. /\ q \in Places /\ b.last = q /\ q # Null /\ q[1] \in Nat /\ q[2] \in Nat
      /\ Within(b, q, bytes)
      /\ q[1] > top \/ (q[1] = top /\ q[2] >= a.nodes[top].current)
  BY DEF Allocated, Places
<1> HIDE DEF b, q
<1>3. ASSUME NEW at \in Places, Settled(a, at)
      PROVE  Settled(b, at) /\ at # q
  <2>1. /\ at[1] \in 1..top /\ at[2] \in Nat /\ at[2] + 1 <= a.nodes[at[1]].current
    BY <1>3 DEF Settled, Within, Places
  <2>2. /\ a.nodes[at[1]].current \in Nat /\ b.nodes[at[1]].current \in Nat
        /\ b.nodes[at[1]].current >= a.nodes[at[1]].current
        /\ at[1] \in 1..Len(b.nodes)
    BY <1>1, <2>1
  <2>3. Within(b, at, 1)
    BY <2>1, <2>2 DEF Within
  <2>4. at[1] = q[1] => at[2] + 1 <= q[2]
    <3>1. CASE at[1] = q[1]
      <4>1. at[1] = top /\ q[2] >= a.nodes[top].current
        BY <1>1, <1>2, <2>1, <3>1
      <4>2. at[2] + 1 <= a.nodes[top].current /\ a.nodes[top].current \in Nat
        BY <2>1, <2>2, <4>1
      <4> QED
        BY <1>2, <2>1, <4>1, <4>2
    <3> QED
      BY <3>1
  <2>5. at # q
    BY <2>1, <2>4
  <2> QED
    BY <1>2, <2>3, <2>4, <2>5 DEF Settled, Below
<1>4. Settled(b, q)
  <2>1. q[1] \in 1..Len(b.nodes) /\ q[2] + bytes <= b.nodes[q[1]].current
    BY <1>2 DEF Within
  <2>2. q[2] + 1 <= b.nodes[q[1]].current
    BY <1>1, <1>2, <2>1 DEF Sizes
  <2> QED
    BY <1>2, <2>1, <2>2 DEF Settled, Within
<1> QED
  BY <1>3, <1>4 DEF b, q

LEMMA SettledAfterRefusal ==
    ASSUME NEW a, ArenaOK(a), NEW out, NotAllocated(a, out)
    PROVE  \A at \in Places : Settled(a, at) => Settled(out.arena, at)
<1>1. /\ ArenaOK(out.arena) /\ Len(out.arena.nodes) = Len(a.nodes) /\ Len(a.nodes) \in Nat
      /\ out.arena.last = a.last
  BY NodesOf DEF NotAllocated
<1>2. \A at \in Places, size \in Nat : Within(a, at, size) => Within(out.arena, at, size)
  BY <1>1, WithinStays DEF NotAllocated
<1> QED
  BY <1>1, <1>2 DEF Settled

LEMMA SettledAfterResize ==
    ASSUME NEW a, ArenaOK(a), NEW p \in Places, NEW bytes \in Sizes,
           CanResize(a, p, 1, bytes), bytes <= SizeMax
    PROVE  \A at \in Places : Settled(a, at) => Settled(Resize(a, p, 1, bytes), at)
<1> DEFINE b == Resize(a, p, 1, bytes)
           top == Len(a.nodes)
<1>1. /\ ArenaOK(b) /\ b.last = a.last /\ b.last = p /\ Len(b.nodes) = top
      /\ p[1] = top /\ p # Null
      /\ b.nodes[p[1]].current = p[2] + bytes
      /\ \A n \in 1..top : n # p[1] => b.nodes[n] = a.nodes[n]
  BY ResizeOutcome DEF Sizes, CanResize
<1>2. top \in Nat /\ p[1] \in Nat /\ p[2] \in Nat /\ bytes \in Nat /\ bytes # 0
  BY NodesOf DEF Places, Sizes
<1> HIDE DEF b
<1>3. ASSUME NEW at \in Places, Settled(a, at)
      PROVE  Settled(b, at)
  <2>1. /\ at[1] \in 1..top /\ at[2] \in Nat /\ at[2] + 1 <= a.nodes[at[1]].current
        /\ at # p => Below(at, 1, p)
    BY <1>1, <1>3 DEF Settled, Within, Places
  <2>2. Within(b, at, 1)
    <3>1. CASE at[1] # p[1]
      BY <1>1, <2>1, <3>1 DEF Within
    <3>2. CASE at[1] = p[1]
      <4>1. at = p \/ at[2] + 1 <= p[2]
        BY <2>1, <3>2 DEF Below
      <4>2. at[2] + 1 <= p[2] + bytes
        BY <1>2, <2>1, <4>1
      <4> QED
        BY <1>1, <2>1, <3>2, <4>2 DEF Within
    <3> QED
      BY <3>1, <3>2
  <2> QED
    BY <1>1, <2>1, <2>2 DEF Settled
<1> QED
  BY <1>3 DEF b

\* What an array holds, read from its block.
LEMMA HeldElements ==
    ASSUME NEW array \in ArrayOf, NEW blks, Live(array, blks),
           array.data = Null => array.length = 0,
           array.data # Null => IsSeq(blks[array.data])
    PROVE  /\ IsSeq(Held(array, blks)) /\ Len(Held(array, blks)) = array.length
           /\ array.data # Null => Held(array, blks) = blks[array.data]
<1>1. CASE array.data = Null
  <2>1. Held(array, blks) = <<>> /\ <<>> \in Seq({})
    BY <1>1 DEF Held
  <2> QED
    BY <1>1, <2>1 DEF IsSeq
<1>2. CASE array.data # Null
  <2>1. Held(array, blks) = SubSeq(blks[array.data], 1, Len(blks[array.data]))
    BY <1>2 DEF Held, Live
  <2>2. Held(array, blks) = blks[array.data]
    BY <1>2, <2>1, Appending
  <2> QED
    BY <1>2, <2>2 DEF Live
<1> QED
  BY <1>1, <1>2

\* An object is never larger than a node.
LEMMA WithinBound ==
    ASSUME NEW a, ArenaOK(a), NEW at \in Places, NEW size \in Nat, Within(a, at, size)
    PROVE  /\ at[1] \in 1..Len(a.nodes) /\ at[2] \in 0..MallocMax
           /\ size <= MallocMax
<1>1. /\ at[1] \in 1..Len(a.nodes) /\ at[2] \in Nat
      /\ at[2] + size <= a.nodes[at[1]].current
  BY DEF Within, Places
<1> DEFINE current == a.nodes[at[1]].current
           end == a.nodes[at[1]].end
<1>2. /\ current \in Nat /\ end \in Nat /\ current <= end /\ end <= MallocMax
      /\ MallocMax \in Nat
  BY <1>1, NodesOf, ArenaAssumption DEF ArenaOK
<1>3. at[2] + size <= current
  BY <1>1
<1> HIDE DEF current, end
<1> QED
  BY <1>1, <1>2, <1>3

\* The end of an append, wherever the element goes.
LEMMA AppendedOutcome ==
    ASSUME NEW array, NEW a, NEW blks, NEW size \in Sizes, NEW item,
           BlocksOK(a, blks), ArrayOK(array, size), Live(array, blks),
           NEW at \in Places, NEW capacity \in Nat, NEW b, ArenaOK(b),
           \A x \in Places : Settled(a, x) => Settled(b, x),
           Settled(b, at), at = array.data \/ at \notin DOMAIN blks,
           array.length + 1 <= capacity, size * capacity <= MallocMax,
           HasSpace(array) => at = array.data /\ capacity = array.capacity,
           array.data = Null => capacity = FirstCapacity
    PROVE  AppendedTo(array, a, blks, size, item, Appended(array, at, capacity, b, blks, item))
<1> DEFINE out == Appended(array, at, capacity, b, blks, item)
           held == Held(array, blks)
           new == [data |-> at, length |-> array.length + 1, capacity |-> capacity]
<1>1. /\ array \in ArrayOf /\ array.length \in Nat /\ array.capacity \in Nat
      /\ array.data = Null => array.length = 0
      /\ array.data # Null => IsSeq(blks[array.data])
  BY DEF ArrayOK, ArrayOf, Live, BlocksOK
<1>2. /\ IsSeq(held) /\ Len(held) = array.length
      /\ array.data # Null => held = blks[array.data]
  BY <1>1, HeldElements
<1>3. out = [array |-> new, arena |-> b, blocks |-> Put(blks, at, Append(held, item)),
             result |-> "ok"]
  BY DEF Appended, Outcome, Held
<1> HIDE DEF held
<1>4. IsSeq(Append(held, item)) /\ Len(Append(held, item)) = array.length + 1
  BY <1>2, Appending
<1> DEFINE after == Append(held, item)
<1> HIDE DEF after
<1>5. /\ DOMAIN Put(blks, at, after) = DOMAIN blks \cup {at}
      /\ Put(blks, at, after)[at] = after
      /\ \A x \in DOMAIN blks : x # at => Put(blks, at, after)[x] = blks[x]
  BY DEF Put
<1>6. BlocksOK(b, Put(blks, at, after))
  BY <1>4, <1>5 DEF BlocksOK, after
<1>7. at # Null
  BY DEF Settled, Within, Null
<1>8. new \in ArrayOf /\ new.data = at /\ new.length = array.length + 1 /\ new.capacity = capacity
  BY <1>1 DEF ArrayOf
<1>9. ArrayOK(new, size)
  BY <1>7, <1>8 DEF ArrayOK
<1>10. Live(new, Put(blks, at, after))
  <2>1. capacity # 0
    BY <1>1
  <2> QED
    BY <1>4, <1>5, <1>8, <2>1 DEF Live, after
<1> HIDE DEF new
<1>11. /\ out.array = new /\ out.arena = b /\ out.blocks = Put(blks, at, Append(held, item))
       /\ out.result = "ok"
  BY <1>3
<1> QED
  BY <1>2, <1>6, <1>7, <1>8, <1>9, <1>10, <1>11 DEF AppendedTo, held, after

LEMMA AppendOutcome ==
    ASSUME NEW array, NEW a, ArenaOK(a), NEW blks, NEW size \in Sizes, NEW item, NEW granted,
           BlocksOK(a, blks), ArrayOK(array, size), Live(array, blks)
    PROVE  LET out == ArrayAppend(array, a, blks, size, item, granted)
           IN  AppendedTo(array, a, blks, size, item, out) \/ NotAppended(array, blks, out)
<1> DEFINE out == ArrayAppend(array, a, blks, size, item, granted)
           capacity == NewCapacity(array)
           moved == Alloc(a, size, capacity, granted)
           bytes == size * capacity
<1>1. /\ array \in ArrayOf /\ array.length \in Nat /\ array.capacity \in Nat
      /\ array.data \in Places /\ array.length <= array.capacity
      /\ size * array.capacity <= MallocMax /\ size \in Nat \ {0}
      /\ array.data = Null <=> array.capacity = 0
  BY DEF ArrayOK, ArrayOf, Live, Sizes
<1>2. /\ FirstCapacity \in Nat \ {0}
      /\ SizeMax \in Nat /\ MallocMax \in Nat /\ MallocMax <= SizeMax \div 2
  BY ParseAssumption, ArenaAssumption
<1>3. capacity \in Nat /\ capacity # 0
  BY <1>1, <1>2 DEF NewCapacity
<1>4. array.data # Null => capacity = 2 * array.capacity
  BY <1>1 DEF NewCapacity
<1>5. array.data = Null => capacity = FirstCapacity
  BY <1>1 DEF NewCapacity
<1>6. bytes \in Sizes /\ bytes \in Nat
  BY <1>3, Product DEF Sizes
<1> HIDE DEF capacity
<1>7. ~ResizeAborts(a, array.data)
  BY DEF ResizeAborts, ArenaOK
<1>8. ~AllocAborts(a, size, capacity, granted)
      /\ (Allocated(a, moved, bytes) \/ NotAllocated(a, moved))
  BY <1>3, AllocElements
<1>9. CASE HasSpace(array)
  <2>1. out = Appended(array, array.data, array.capacity, a, blks, item)
    BY <1>9 DEF ArrayAppend
  <2>2. array.length + 1 <= array.capacity /\ array.data # Null
    BY <1>1, <1>9 DEF HasSpace
  <2>3. Settled(a, array.data)
    BY <2>2 DEF Live, BlocksOK
  <2>4. AppendedTo(array, a, blks, size, item,
                   Appended(array, array.data, array.capacity, a, blks, item))
    BY <1>1, <2>2, <2>3, AppendedOutcome
  <2> QED
    BY <2>1, <2>4
<1>10. CASE ~HasSpace(array) /\ CanResize(a, array.data, size, capacity)
  <2> DEFINE b == Resize(a, array.data, size, capacity)
  <2>1. out = Appended(array, array.data, capacity, b, blks, item)
    BY <1>7, <1>10 DEF ArrayAppend, capacity
  <2>2. array.data # Null
    BY <1>10 DEF CanResize
  <2>3. capacity = 2 * array.capacity
    BY <1>4, <2>2
  <2>4. bytes <= SizeMax
    <3>1. bytes = 2 * (size * array.capacity)
      BY <1>1, <2>3
    <3>2. size * array.capacity \in Nat
      BY <1>1, Product
    <3> QED
      BY <1>1, <1>2, <3>1, <3>2
  <2>5. /\ CanResize(a, array.data, 1, bytes) /\ bytes <= SizeMax
        /\ b = Resize(a, array.data, 1, bytes)
    BY <1>1, <1>3, <1>10, <2>4, ResizeElements
  <2>6. ArenaOK(b) /\ Within(b, array.data, bytes)
    BY <1>1, <1>6, <2>5, ResizeOutcome
  <2>7. \A x \in Places : Settled(a, x) => Settled(b, x)
    BY <1>1, <1>6, <2>5, SettledAfterResize
  <2>8. Settled(b, array.data)
    BY <1>1, <2>2, <2>7 DEF Live, BlocksOK
  <2>9. bytes <= MallocMax
    BY <1>1, <1>6, <2>6, WithinBound
  <2>10. array.length + 1 <= capacity
    BY <1>1, <2>2, <2>3
  <2> HIDE DEF b
  <2>11. AppendedTo(array, a, blks, size, item,
                    Appended(array, array.data, capacity, b, blks, item))
    BY <1>1, <1>3, <1>10, <2>2, <2>6, <2>7, <2>8, <2>9, <2>10, AppendedOutcome
  <2> QED
    BY <2>1, <2>11
<1>11. CASE ~HasSpace(array) /\ ~CanResize(a, array.data, size, capacity)
            /\ NotAllocated(a, moved)
  <2>1. moved.at = Null
    BY <1>11 DEF NotAllocated
  <2>2. out = Outcome(array, moved.arena, blks, "memory")
    BY <1>7, <1>8, <1>11, <2>1 DEF ArrayAppend, capacity
  <2>3. ArenaOK(moved.arena) /\ \A x \in Places : Settled(a, x) => Settled(moved.arena, x)
    BY <1>11, SettledAfterRefusal DEF NotAllocated
  <2> HIDE DEF moved
  <2>4. BlocksOK(moved.arena, blks)
    BY <2>3 DEF BlocksOK
  <2> QED
    BY <2>2, <2>3, <2>4 DEF NotAppended, Outcome
<1>12. CASE ~HasSpace(array) /\ ~CanResize(a, array.data, size, capacity)
            /\ Allocated(a, moved, bytes)
  <2>1. /\ moved.at # Null /\ moved.at \in Places /\ ArenaOK(moved.arena)
        /\ Within(moved.arena, moved.at, bytes)
    BY <1>12 DEF Allocated
  <2>2. out = Appended(array, moved.at, capacity, moved.arena, blks, item)
    BY <1>7, <1>8, <1>12, <2>1 DEF ArrayAppend, capacity
  <2>3. /\ \A x \in Places : Settled(a, x) => Settled(moved.arena, x) /\ x # moved.at
        /\ Settled(moved.arena, moved.at)
    BY <1>6, <1>12, SettledAfterAlloc
  <2>4. moved.at \notin DOMAIN blks
    BY <2>3 DEF BlocksOK
  <2>5. bytes <= MallocMax
    BY <1>6, <2>1, WithinBound
  <2>6. array.length + 1 <= capacity
    <3>1. CASE array.data = Null
      BY <1>1, <1>3, <3>1
    <3>2. CASE array.data # Null
      BY <1>1, <1>4, <3>2
    <3> QED
      BY <3>1, <3>2
  <2> HIDE DEF moved
  <2>7. AppendedTo(array, a, blks, size, item,
                   Appended(array, moved.at, capacity, moved.arena, blks, item))
    BY <1>1, <1>3, <1>5, <1>12, <2>1, <2>3, <2>4, <2>5, <2>6, AppendedOutcome
  <2> QED
    BY <2>2, <2>7
<1> QED
  BY <1>8, <1>9, <1>10, <1>11, <1>12
-----------------------------------------------------------------------------
(* Memory: the arrays of libraries and tests and the fixtures of the line's  *)
(* test.                                                                     *)

Separate(array, other) == array.data # Null => array.data # other.data

\* The array of fixtures that is being appended to.
Growing == IF pc = "fixtures" THEN test.fixtures ELSE ArrayInit

Running(a, blks, files, all, fixtures) ==
    /\ BlocksOK(a, blks)
    /\ Live(files, blks) /\ Live(all, blks) /\ Live(fixtures, blks)
    /\ Separate(files, all) /\ Separate(files, fixtures) /\ Separate(all, fixtures)

MemoryInv ==
    /\ pc \in {"line", "test", "fixtures", "load", "ready", "failed"}
    /\ ArenaOK(arena)
    /\ ArrayOK(test_files, FileSize) /\ ArrayOK(tests, TestSize)
    /\ test \in [symbol : Places \X Nat, fixtures : ArrayOf]
    /\ ArrayOK(test.fixtures, FixtureSize)
    /\ DOMAIN blocks \subseteq Addresses
    /\ \A array \in {test_files, tests, test.fixtures} :
          array.data # Null => array.data \in DOMAIN blocks
    /\ pc # "failed" => Running(arena, blocks, test_files, tests, Growing)

LEMMA ElementSizes ==
    FileSize \in Sizes /\ TestSize \in Sizes /\ FixtureSize \in Sizes /\ MallocMax \in Nat
BY ParseAssumption, ArenaAssumption DEF Sizes

LEMMA EmptyArray ==
    /\ ArrayInit \in ArrayOf /\ ArrayInit.data = Null /\ ArrayInit.length = 0
    /\ \A size \in Sizes : ArrayOK(ArrayInit, size)
    /\ \A blks : Live(ArrayInit, blks)
    /\ \A array : Separate(ArrayInit, array) /\ Separate(array, ArrayInit)
<1>1. ArrayInit \in ArrayOf /\ ArrayInit.data = Null /\ ArrayInit.length = 0 /\ ArrayInit.capacity = 0
  BY DEF ArrayInit, ArrayOf, Places, Null
<1>2. \A size \in Sizes : size * 0 = 0
  BY DEF Sizes
<1>3. MallocMax \in Nat
  BY ArenaAssumption
<1> QED
  BY <1>1, <1>2, <1>3 DEF ArrayOK, Live, Separate

\* The first blocks stay as they are and what is appended to a block stays behind
\* what was there.
Extended(blks, later) ==
    \A at \in DOMAIN blks :
        /\ at \in DOMAIN later
        /\ Len(blks[at]) \in Nat /\ Len(later[at]) \in Nat /\ Len(blks[at]) <= Len(later[at])
        /\ \A i \in 1..Len(blks[at]) : later[at][i] = blks[at][i]

LEMMA ExtendedTwice ==
    ASSUME NEW b, NEW c, NEW d, Extended(b, c), Extended(c, d)
    PROVE  Extended(b, d)
<1> SUFFICES ASSUME NEW at \in DOMAIN b
             PROVE  /\ at \in DOMAIN d
                    /\ Len(b[at]) \in Nat /\ Len(d[at]) \in Nat /\ Len(b[at]) <= Len(d[at])
                    /\ \A i \in 1..Len(b[at]) : d[at][i] = b[at][i]
  BY DEF Extended
<1>1. /\ at \in DOMAIN c
      /\ Len(b[at]) \in Nat /\ Len(c[at]) \in Nat /\ Len(b[at]) <= Len(c[at])
      /\ \A i \in 1..Len(b[at]) : c[at][i] = b[at][i]
  BY DEF Extended
<1>2. /\ at \in DOMAIN d /\ Len(d[at]) \in Nat /\ Len(c[at]) <= Len(d[at])
      /\ \A i \in 1..Len(c[at]) : d[at][i] = c[at][i]
  BY <1>1 DEF Extended
<1> QED
  BY <1>1, <1>2

LEMMA NotExtended ==
    ASSUME NEW a, NEW blks, BlocksOK(a, blks)
    PROVE  Extended(blks, blks)
<1>1. \A at \in DOMAIN blks : Len(blks[at]) \in Nat
  BY Appending DEF BlocksOK
<1> QED
  BY <1>1 DEF Extended

\* What an append does to the blocks, and to an array in another one.
LEMMA AppendedBlocks ==
    ASSUME NEW array \in ArrayOf, NEW a, NEW blks, NEW size, NEW item, NEW out,
           BlocksOK(a, blks), Live(array, blks), AppendedTo(array, a, blks, size, item, out)
    PROVE  /\ Extended(blks, out.blocks)
           /\ \A other : Live(other, blks) /\ Separate(other, array) =>
                Live(other, out.blocks) /\ Separate(other, out.array) /\ Separate(out.array, other)
           /\ out.array.data \in DOMAIN out.blocks
           /\ out.blocks[out.array.data][array.length + 1] = item
           /\ array.data # Null => \A i \in 1..array.length :
                out.blocks[out.array.data][i] = blks[array.data][i]
           /\ \A at \in DOMAIN blks : at # out.array.data => out.blocks[at] = blks[at]
<1> DEFINE at == out.array.data
           held == Held(array, blks)
<1>1. /\ IsSeq(held) /\ Len(held) = array.length /\ array.length \in Nat
      /\ out.blocks = Put(blks, at, Append(held, item))
      /\ at = array.data \/ at \notin DOMAIN blks
      /\ at # Null
  BY DEF AppendedTo, ArrayOf
<1>2. array.data # Null => held = blks[array.data]
  <2>1. array.data # Null => IsSeq(blks[array.data])
    BY DEF Live, BlocksOK
  <2>2. array.data # Null => SubSeq(blks[array.data], 1, Len(blks[array.data])) = blks[array.data]
    BY <2>1, Appending
  <2> QED
    BY <2>2 DEF Held, Live
<1> HIDE DEF at, held
<1>3. /\ DOMAIN out.blocks = DOMAIN blks \cup {at}
      /\ out.blocks[at] = Append(held, item)
      /\ \A x \in DOMAIN blks : x # at => out.blocks[x] = blks[x]
  BY <1>1 DEF Put
<1>4. /\ Len(Append(held, item)) = Len(held) + 1 /\ Len(held) \in Nat
      /\ \A i \in 1..Len(held) : Append(held, item)[i] = held[i]
      /\ Append(held, item)[Len(held) + 1] = item
  BY <1>1, Appending
<1>5. ASSUME NEW x \in DOMAIN blks
      PROVE  /\ x \in DOMAIN out.blocks
             /\ Len(blks[x]) \in Nat /\ Len(out.blocks[x]) \in Nat
             /\ Len(blks[x]) <= Len(out.blocks[x])
             /\ \A i \in 1..Len(blks[x]) : out.blocks[x][i] = blks[x][i]
  <2>1. Len(blks[x]) \in Nat
    BY Appending DEF BlocksOK
  <2>2. CASE x # at
    BY <1>3, <2>1, <2>2
  <2>3. CASE x = at
    <3>1. x = array.data /\ array.data # Null
      BY <1>1, <2>3
    <3> QED
      BY <1>2, <1>3, <1>4, <2>1, <2>3, <3>1
  <2> QED
    BY <2>2, <2>3
<1>6. Extended(blks, out.blocks)
  BY <1>5 DEF Extended
<1>7. \A other : Live(other, blks) /\ Separate(other, array) =>
                Live(other, out.blocks) /\ Separate(other, out.array) /\ Separate(out.array, other)
  <2> SUFFICES ASSUME NEW other, Live(other, blks), Separate(other, array)
               PROVE  Live(other, out.blocks) /\ Separate(other, out.array) /\ Separate(out.array, other)
    OBVIOUS
  <2>1. other.data # Null => other.data # at /\ other.data \in DOMAIN blks
    BY <1>1 DEF Live, Separate
  <2>2. Live(other, out.blocks)
    BY <1>3, <2>1 DEF Live
  <2> QED
    BY <1>1, <2>1, <2>2 DEF Separate, at
<1> QED
  BY <1>1, <1>2, <1>3, <1>4, <1>6, <1>7 DEF at

\* The addresses in an arena.
LEMMA BlocksInReach ==
    ASSUME NEW a, ArenaOK(a), NEW blks, BlocksOK(a, blks)
    PROVE  DOMAIN blks \subseteq (0..Len(a.nodes)) \X (0..MallocMax)
<1>1. Len(a.nodes) \in Nat
  BY NodesOf
<1>2. ASSUME NEW at \in DOMAIN blks
      PROVE  at \in (0..Len(a.nodes)) \X (0..MallocMax)
  <2>1. at \in Nat \X Nat /\ Within(a, at, 1) /\ at \in Places
    BY DEF BlocksOK, Settled, Places
  <2>2. at[1] \in 1..Len(a.nodes) /\ at[2] \in 0..MallocMax
    BY <2>1, WithinBound
  <2> QED
    BY <1>1, <2>1, <2>2
<1> QED
  BY <1>2

\* The first entry of a library that is known.
LEMMA KnownFirst ==
    ASSUME NEW library
    PROVE  Known(library) # {} =>
              Min(Known(library)) \in Known(library) /\ Known(library) \subseteq Nat
<1>1. Known(library) \subseteq Nat
  BY DEF Known
<1>2. Known(library) # {} => \E x \in Known(library) : \A y \in Known(library) : x <= y
  BY <1>1, LeastNumber
<1> QED
  BY <1>1, <1>2 DEF Min

\* tdo_test_parse_symbol (test.c): a known library changes nothing.
LEMMA FileOfOutcome ==
    ASSUME MemoryInv, pc # "failed", NEW library, NEW granted
    PROVE  LET out == FileOf(library, granted)
           IN  \/ Known(library) # {} /\ out = Outcome(test_files, arena, blocks, "ok")
               \/ Known(library) = {}
                  /\ AppendedTo(test_files, arena, blocks, FileSize,
                                [name |-> library, loaded |-> FALSE], out)
               \/ Known(library) = {} /\ NotAppended(test_files, blocks, out)
<1> DEFINE item == [name |-> library, loaded |-> FALSE]
           out == ArrayAppend(test_files, arena, blocks, FileSize, item, granted)
<1>1. AppendedTo(test_files, arena, blocks, FileSize, item, out)
      \/ NotAppended(test_files, blocks, out)
  BY AppendOutcome, ElementSizes DEF MemoryInv, Running
<1>2. Known(library) # {} => FileOf(library, granted) = Outcome(test_files, arena, blocks, "ok")
  BY DEF FileOf
<1>3. Known(library) = {} => FileOf(library, granted) = out
  BY DEF FileOf
<1> QED
  BY <1>1, <1>2, <1>3

LEMMA FileOfFails ==
    ASSUME MemoryInv, pc # "failed", NEW library, NEW granted,
           NEW out, out = FileOf(library, granted), out.result = "memory"
    PROVE  Known(library) = {} /\ NotAppended(test_files, blocks, out)
<1>1. \/ out = Outcome(test_files, arena, blocks, "ok")
      \/ AppendedTo(test_files, arena, blocks, FileSize, [name |-> library, loaded |-> FALSE], out)
      \/ Known(library) = {} /\ NotAppended(test_files, blocks, out)
  BY FileOfOutcome
<1>2. out.result # "ok"
  OBVIOUS
<1> QED
  BY <1>1, <1>2 DEF AppendedTo, Outcome

\* The memory after it, when it succeeded.
LEMMA FileOfRuns ==
    ASSUME MemoryInv, pc # "failed", NEW library, NEW granted,
           NEW out, out = FileOf(library, granted), out.result # "memory"
    PROVE  /\ out.result = "ok" /\ ArenaOK(out.arena) /\ ArrayOK(out.array, FileSize)
           /\ Running(out.arena, out.blocks, out.array, tests, Growing)
           /\ Extended(blocks, out.blocks)
           /\ out.array.data # Null /\ out.array.data \in DOMAIN out.blocks
           /\ PointerTo(library, out.array) \in Places \X Nat
<1> DEFINE item == [name |-> library, loaded |-> FALSE]
<1>1. /\ ArenaOK(arena) /\ ArrayOK(test_files, FileSize)
      /\ Running(arena, blocks, test_files, tests, Growing)
  BY DEF MemoryInv
<1>2. CASE Known(library) # {} /\ out = Outcome(test_files, arena, blocks, "ok")
  <2>1. /\ out.result = "ok" /\ out.arena = arena /\ out.array = test_files /\ out.blocks = blocks
    BY <1>2 DEF Outcome
  <2>2. Extended(blocks, blocks)
    BY <1>1, NotExtended DEF Running
  <2>3. Min(Known(library)) \in Known(library) /\ Known(library) \subseteq Nat
    BY <1>2, KnownFirst
  <2>4. test_files.data # Null
    BY <1>1, <2>3 DEF ArrayOK, ArrayOf, Known
  <2>5. PointerTo(library, test_files) = <<test_files.data, Min(Known(library))>>
    BY <1>2 DEF PointerTo
  <2>6. test_files.data \in Places
    BY <1>1 DEF ArrayOK, ArrayOf
  <2>7. test_files.data \in DOMAIN blocks
    BY <1>1, <2>4 DEF Running, Live
  <2> QED
    BY <1>1, <2>1, <2>2, <2>3, <2>4, <2>5, <2>6, <2>7
<1>3. CASE Known(library) = {}
           /\ AppendedTo(test_files, arena, blocks, FileSize, item, out)
  <2>1. /\ Extended(blocks, out.blocks)
        /\ \A other : Live(other, blocks) /\ Separate(other, test_files) =>
              Live(other, out.blocks) /\ Separate(other, out.array) /\ Separate(out.array, other)
        /\ out.array.data \in DOMAIN out.blocks
    BY <1>1, <1>3, AppendedBlocks DEF Running, ArrayOK
  <2>2. Separate(tests, test_files) /\ Separate(Growing, test_files)
    BY <1>1 DEF Running, Separate
  <2>3. /\ Live(tests, out.blocks) /\ Separate(out.array, tests)
        /\ Live(Growing, out.blocks) /\ Separate(out.array, Growing)
    BY <1>1, <2>1, <2>2 DEF Running
  <2>4. /\ out.result = "ok" /\ ArenaOK(out.arena) /\ ArrayOK(out.array, FileSize)
        /\ BlocksOK(out.arena, out.blocks) /\ Live(out.array, out.blocks)
        /\ out.array.data # Null
    BY <1>3 DEF AppendedTo
  <2>5. Running(out.arena, out.blocks, out.array, tests, Growing)
    BY <1>1, <2>3, <2>4 DEF Running
  <2>6. PointerTo(library, out.array) = <<out.array.data, out.array.length>>
    BY <1>3 DEF PointerTo
  <2>7. out.array.data \in Places /\ out.array.length \in Nat
    BY <2>4 DEF ArrayOK, ArrayOf
  <2> QED
    BY <2>1, <2>4, <2>5, <2>6, <2>7
<1>4. CASE Known(library) = {} /\ NotAppended(test_files, blocks, out)
  BY <1>4 DEF NotAppended
<1> QED
  BY <1>2, <1>3, <1>4, FileOfOutcome

\* Giving everything back (test.c): the first state can always be restored.
LEMMA FailKeepsMemory ==
    ASSUME MemoryInv, pc # "failed", NEW a, ArenaOK(a), BlocksOK(a, blocks), Fail(a)
    PROVE  MemoryInv' /\ pc' = "failed"
<1> DEFINE start == StateGet(ArenaInit(InitialCapacity))
<1>1. start = <<1, 0>>
  BY DEF StateGet, ArenaInit
<1>2. start \in Places /\ Restorable(a, start)
  <2>1. a.nodes[1].current \in Nat /\ 1 \in 1..Len(a.nodes)
    BY NodesOf
  <2> QED
    BY <1>1, <2>1 DEF Places, Restorable
<1>3. /\ ~StateSetAborts(a, start) /\ ArenaOK(StateSet(a, start))
      /\ Len(StateSet(a, start).nodes) = Len(a.nodes)
  BY <1>2, StateSetOutcome
<1> HIDE DEF start
<1>4. /\ pc' = "failed" /\ arena' = StateSet(a, start)
      /\ test_files' = ArrayInit /\ tests' = ArrayInit
      /\ blocks' = blocks /\ test' = test
  BY <1>3 DEF Fail, start
<1>5. DOMAIN blocks \subseteq Addresses'
  BY <1>3, <1>4, BlocksInReach DEF Addresses
<1> QED
  BY <1>3, <1>4, <1>5, EmptyArray, ElementSizes DEF MemoryInv

LEMMA InitMemory == Init => MemoryInv
<1> SUFFICES ASSUME Init PROVE MemoryInv
  OBVIOUS
<1> DEFINE node == [current |-> 0, end |-> InitialCapacity]
<1>1. /\ InitialCapacity \in Nat /\ InitialCapacity <= MallocMax /\ MallocMax \in Nat
  BY ParseAssumption, ArenaAssumption
<1>2. node \in Node /\ node.current = 0 /\ node.end = InitialCapacity
  BY <1>1 DEF Node
<1> HIDE DEF node
<1>3. /\ arena = [nodes |-> <<node>>, latest |-> 1, last |-> Null]
  BY DEF Init, ArenaInit, node
<1>4. <<node>> \in Seq(Node) /\ Len(<<node>>) = 1 /\ <<node>>[1] = node /\ Null \in Places
  BY <1>2 DEF Null, Places
<1>5. ArenaOK(arena)
  BY <1>1, <1>2, <1>3, <1>4 DEF ArenaOK
<1>6. blocks = <<>> /\ DOMAIN blocks = {}
  BY DEF Init
<1>7. test = [symbol |-> <<Null, 0>>, fixtures |-> ArrayInit]
  BY DEF Init, NoTest
<1>8. test \in [symbol : Places \X Nat, fixtures : ArrayOf] /\ test.fixtures = ArrayInit
  BY <1>4, <1>7, EmptyArray
<1>9. Running(arena, blocks, ArrayInit, ArrayInit, ArrayInit)
  BY <1>6, EmptyArray DEF Running, BlocksOK
<1>10. /\ pc = "line" /\ test_files = ArrayInit /\ tests = ArrayInit
       /\ Growing = ArrayInit
  BY DEF Init, Growing
<1> QED
  BY <1>5, <1>6, <1>8, <1>9, <1>10, EmptyArray, ElementSizes DEF MemoryInv

\* Steps between lines, which leave memory alone.
LEMMA IdleKeepsMemory ==
    ASSUME MemoryInv, pc # "failed",
           pc' \in {"line", "test", "load"},
           UNCHANGED <<arena, blocks, test_files, tests, test>>
    PROVE  MemoryInv'
<1>1. Growing' = ArrayInit
  BY DEF Growing
<1>2. Running(arena, blocks, test_files, tests, ArrayInit)
  BY EmptyArray DEF MemoryInv, Running
<1>3. Running(arena, blocks, test_files, tests, Growing)'
  BY <1>1, <1>2
<1>4. Addresses' = Addresses
  BY DEF Addresses
<1> QED
  BY <1>3, <1>4 DEF MemoryInv

LEMMA ParseTestKeepsMemory == ASSUME MemoryInv, ParseTest PROVE MemoryInv'
<1>1. PICK granted \in BOOLEAN :
         LET library == Head(line).library
             out == FileOf(library, granted)
         IN  IF out.result = "memory" THEN Fail(out.arena)
             ELSE /\ arena' = out.arena /\ blocks' = out.blocks
                  /\ test_files' = out.array
                  /\ test' = [NoTest EXCEPT !.symbol = PointerTo(library, out.array)]
                  /\ line' = Tail(line)
                  /\ pc' = IF out.result = "abort" THEN "aborted" ELSE "fixtures"
                  /\ UNCHANGED <<input, tests>>
  BY DEF ParseTest
<1> DEFINE library == Head(line).library
           out == FileOf(library, granted)
<1>2. pc = "test"
  BY DEF ParseTest
<1> HIDE DEF library
<1>3. CASE out.result = "memory"
  <2>1. Fail(out.arena)
    BY <1>1, <1>3 DEF library
  <2>2. NotAppended(test_files, blocks, out)
    BY <1>2, <1>3, FileOfFails
  <2> QED
    BY <1>2, <2>1, <2>2, FailKeepsMemory DEF NotAppended
<1>4. CASE out.result # "memory"
  <2>1. /\ out.result = "ok" /\ ArenaOK(out.arena) /\ ArrayOK(out.array, FileSize)
        /\ Running(out.arena, out.blocks, out.array, tests, Growing)
        /\ Extended(blocks, out.blocks)
        /\ out.array.data # Null /\ out.array.data \in DOMAIN out.blocks
        /\ PointerTo(library, out.array) \in Places \X Nat
    BY <1>2, <1>4, FileOfRuns
  <2>2. /\ arena' = out.arena /\ blocks' = out.blocks /\ test_files' = out.array
        /\ test' = [NoTest EXCEPT !.symbol = PointerTo(library, out.array)]
        /\ pc' = "fixtures" /\ tests' = tests
    BY <1>1, <1>4, <2>1 DEF library
  <2> HIDE DEF out
  <2>3. test' = [symbol |-> PointerTo(library, out.array), fixtures |-> ArrayInit]
    BY <2>2 DEF NoTest
  <2>4. test' \in [symbol : Places \X Nat, fixtures : ArrayOf] /\ test'.fixtures = ArrayInit
    BY <2>1, <2>3, EmptyArray
  <2>5. Growing' = ArrayInit
    BY <2>2, <2>4 DEF Growing
  <2>6. Running(out.arena, out.blocks, out.array, tests, ArrayInit)
    BY <2>1, EmptyArray DEF Running
  <2>7. DOMAIN blocks' \subseteq Addresses'
    BY <2>1, <2>2, BlocksInReach DEF Running, Addresses
  <2>8. tests.data # Null => tests.data \in DOMAIN out.blocks
    BY <2>6 DEF Running, Live
  <2> QED
    BY <2>1, <2>2, <2>4, <2>5, <2>6, <2>7, <2>8, EmptyArray, ElementSizes DEF MemoryInv
<1> QED
  BY <1>3, <1>4

\* What the append to the fixtures of the line's test finds and leaves.
LEMMA FixtureOutcome ==
    ASSUME MemoryInv, pc = "fixtures", NEW library, NEW granted, NEW item, NEW file,
           file = FileOf(library, granted), file.result # "memory", NEW out,
           out = ArrayAppend(test.fixtures, file.arena, file.blocks, FixtureSize, item, granted)
    PROVE  \/ NotAppended(test.fixtures, file.blocks, out)
           \/ /\ AppendedTo(test.fixtures, file.arena, file.blocks, FixtureSize, item, out)
              /\ Running(out.arena, out.blocks, file.array, tests, out.array)
              /\ Extended(file.blocks, out.blocks)
<1>1. /\ ArenaOK(file.arena) /\ ArrayOK(test.fixtures, FixtureSize)
      /\ Running(file.arena, file.blocks, file.array, tests, test.fixtures)
  BY FileOfRuns DEF MemoryInv, Growing
<1>2. AppendedTo(test.fixtures, file.arena, file.blocks, FixtureSize, item, out)
      \/ NotAppended(test.fixtures, file.blocks, out)
  BY <1>1, AppendOutcome, ElementSizes DEF Running
<1>3. CASE AppendedTo(test.fixtures, file.arena, file.blocks, FixtureSize, item, out)
  <2>1. /\ Extended(file.blocks, out.blocks)
        /\ \A other : Live(other, file.blocks) /\ Separate(other, test.fixtures) =>
              Live(other, out.blocks) /\ Separate(other, out.array) /\ Separate(out.array, other)
    BY <1>1, <1>3, AppendedBlocks DEF Running, ArrayOK
  <2>2. BlocksOK(out.arena, out.blocks) /\ Live(out.array, out.blocks)
    BY <1>3 DEF AppendedTo
  <2> QED
    BY <1>1, <1>3, <2>1, <2>2 DEF Running
<1> QED
  BY <1>2, <1>3

LEMMA ParseFixtureKeepsMemory == ASSUME MemoryInv, ParseFixture PROVE MemoryInv'
<1>1. PICK granted \in BOOLEAN :
         LET item == Head(line)
             file == FileOf(item.library, granted)
             out == ArrayAppend(test.fixtures, file.arena, file.blocks, FixtureSize,
                        [kind |-> item.prefix,
                         symbol |-> PointerTo(item.library, file.array)], granted)
         IN  IF file.result = "memory" THEN Fail(file.arena)
             ELSE IF out.result = "memory" THEN Fail(out.arena)
             ELSE /\ arena' = out.arena /\ blocks' = out.blocks
                  /\ test_files' = file.array
                  /\ test' = [test EXCEPT !.fixtures = out.array]
                  /\ line' = Tail(line)
                  /\ pc' = IF "abort" \in {file.result, out.result} THEN "aborted"
                           ELSE "fixtures"
                  /\ UNCHANGED <<input, tests>>
  BY DEF ParseFixture
<1> DEFINE library == Head(line).library
           file == FileOf(library, granted)
           item == [kind |-> Head(line).prefix, symbol |-> PointerTo(library, file.array)]
           out == ArrayAppend(test.fixtures, file.arena, file.blocks, FixtureSize, item, granted)
<1>2. pc = "fixtures"
  BY DEF ParseFixture
<1>3. CASE file.result = "memory"
  <2>1. Fail(file.arena)
    BY <1>1, <1>3
  <2> HIDE DEF library
  <2>2. NotAppended(test_files, blocks, file)
    BY <1>2, <1>3, FileOfFails
  <2> QED
    BY <1>2, <2>1, <2>2, FailKeepsMemory DEF NotAppended
<1>4. CASE file.result # "memory" /\ out.result = "memory"
  <2>1. Fail(out.arena)
    BY <1>1, <1>4
  <2> HIDE DEF library, item
  <2>2. NotAppended(test.fixtures, file.blocks, out)
    BY <1>2, <1>4, FixtureOutcome DEF AppendedTo
  <2>3. Extended(blocks, file.blocks)
    BY <1>2, <1>4, FileOfRuns
  <2>4. \A at \in DOMAIN blocks : at \in DOMAIN file.blocks
    BY <2>3 DEF Extended
  <2>5. \A at \in DOMAIN blocks : at \in Places /\ IsSeq(blocks[at])
    BY <1>2 DEF MemoryInv, Running, BlocksOK
  <2>6. BlocksOK(out.arena, file.blocks) /\ ArenaOK(out.arena)
    BY <2>2 DEF NotAppended
  <2> HIDE DEF out, file
  <2>7. BlocksOK(out.arena, blocks)
    BY <2>4, <2>5, <2>6 DEF BlocksOK
  <2> QED
    BY <1>2, <2>1, <2>6, <2>7, FailKeepsMemory
<1>5. CASE file.result # "memory" /\ out.result # "memory"
  <2>1. /\ arena' = out.arena /\ blocks' = out.blocks
        /\ test_files' = file.array
        /\ test' = [test EXCEPT !.fixtures = out.array]
        /\ pc' = IF "abort" \in {file.result, out.result} THEN "aborted" ELSE "fixtures"
        /\ tests' = tests
    BY <1>1, <1>5
  <2> HIDE DEF library, item
  <2>2. file.result = "ok" /\ ArrayOK(file.array, FileSize)
    BY <1>2, <1>5, FileOfRuns
  <2>3. /\ AppendedTo(test.fixtures, file.arena, file.blocks, FixtureSize, item, out)
        /\ Running(out.arena, out.blocks, file.array, tests, out.array)
    BY <1>2, <1>5, FixtureOutcome DEF NotAppended
  <2> HIDE DEF out, file
  <2>4. /\ out.result = "ok" /\ ArenaOK(out.arena) /\ ArrayOK(out.array, FixtureSize)
        /\ out.array.data \in DOMAIN out.blocks
    BY <2>3 DEF AppendedTo, Live
  <2>5. /\ test \in [symbol : Places \X Nat, fixtures : ArrayOf]
        /\ out.array \in ArrayOf
    BY <2>4 DEF MemoryInv, ArrayOK
  <2>6. test' \in [symbol : Places \X Nat, fixtures : ArrayOf] /\ test'.fixtures = out.array
    BY <2>1, <2>5
  <2>7. pc' = "fixtures" /\ Growing' = out.array
    BY <2>1, <2>2, <2>4, <2>6 DEF Growing
  <2>8. DOMAIN blocks' \subseteq Addresses'
    BY <2>1, <2>3, <2>4, BlocksInReach DEF Running, Addresses
  <2>9. /\ tests.data # Null => tests.data \in DOMAIN out.blocks
        /\ file.array.data # Null => file.array.data \in DOMAIN out.blocks
    BY <2>3 DEF Running, Live
  <2>10. ArrayOK(tests, TestSize)
    BY DEF MemoryInv
  <2> QED
    BY <2>1, <2>2, <2>3, <2>4, <2>6, <2>7, <2>8, <2>9, <2>10 DEF MemoryInv
<1> QED
  BY <1>3, <1>4, <1>5

LEMMA AddTestKeepsMemory == ASSUME MemoryInv, AddTest PROVE MemoryInv'
<1>1. PICK granted \in BOOLEAN :
         LET out == ArrayAppend(tests, arena, blocks, TestSize, test, granted)
         IN  /\ arena' = out.arena /\ blocks' = out.blocks
             /\ tests' = out.array
             /\ pc' = IF out.result = "ok" THEN "line"
                      ELSE IF out.result = "memory" THEN "failed" ELSE "aborted"
  BY DEF AddTest
<1> DEFINE out == ArrayAppend(tests, arena, blocks, TestSize, test, granted)
<1>2. pc = "fixtures" /\ test_files' = test_files /\ test' = test
  BY DEF AddTest
<1>3. /\ ArenaOK(arena) /\ ArrayOK(tests, TestSize)
      /\ Running(arena, blocks, test_files, tests, test.fixtures)
      /\ ArrayOK(test_files, FileSize) /\ ArrayOK(test.fixtures, FixtureSize)
      /\ test \in [symbol : Places \X Nat, fixtures : ArrayOf]
  BY <1>2 DEF MemoryInv, Growing
<1>4. AppendedTo(tests, arena, blocks, TestSize, test, out) \/ NotAppended(tests, blocks, out)
  BY <1>3, AppendOutcome, ElementSizes DEF Running
<1> HIDE DEF out
<1>5. CASE NotAppended(tests, blocks, out)
  <2>1. /\ out.arena = arena' /\ blocks' = blocks /\ tests' = tests /\ pc' = "failed"
        /\ ArenaOK(out.arena) /\ BlocksOK(out.arena, blocks)
    BY <1>1, <1>5 DEF NotAppended, out
  <2>2. DOMAIN blocks \subseteq Addresses'
    BY <2>1, BlocksInReach DEF Addresses
  <2> QED
    BY <1>2, <1>3, <2>1, <2>2 DEF MemoryInv
<1>6. CASE AppendedTo(tests, arena, blocks, TestSize, test, out)
  <2>1. /\ out.result = "ok" /\ ArenaOK(out.arena) /\ BlocksOK(out.arena, out.blocks)
        /\ ArrayOK(out.array, TestSize) /\ Live(out.array, out.blocks)
    BY <1>6 DEF AppendedTo
  <2>2. /\ arena' = out.arena /\ blocks' = out.blocks /\ tests' = out.array /\ pc' = "line"
    BY <1>1, <2>1 DEF out
  <2>3. /\ Extended(blocks, out.blocks)
        /\ \A other : Live(other, blocks) /\ Separate(other, tests) =>
              Live(other, out.blocks) /\ Separate(other, out.array) /\ Separate(out.array, other)
    BY <1>3, <1>6, AppendedBlocks DEF Running, ArrayOK
  <2>4. Separate(test_files, tests) /\ Separate(test.fixtures, tests)
    BY <1>3 DEF Running, Separate
  <2>5. Running(out.arena, out.blocks, test_files, out.array, ArrayInit)
    BY <1>3, <2>1, <2>3, <2>4, EmptyArray DEF Running
  <2>6. Live(test.fixtures, out.blocks)
    BY <1>3, <2>3, <2>4 DEF Running
  <2>7. Growing' = ArrayInit
    BY <2>2 DEF Growing
  <2>8. DOMAIN blocks' \subseteq Addresses'
    BY <2>1, <2>2, BlocksInReach DEF Addresses
  <2>9. /\ out.array.data # Null => out.array.data \in DOMAIN out.blocks
        /\ test_files.data # Null => test_files.data \in DOMAIN out.blocks
        /\ test.fixtures.data # Null => test.fixtures.data \in DOMAIN out.blocks
    BY <2>5, <2>6 DEF Running, Live
  <2> QED
    BY <1>2, <1>3, <2>1, <2>2, <2>5, <2>7, <2>8, <2>9 DEF MemoryInv
<1> QED
  BY <1>4, <1>5, <1>6

LEMMA LoadKeepsMemory == ASSUME MemoryInv, LoadLibraries PROVE MemoryInv'
<1> DEFINE n == test_files.length
           loaded == [i \in 1..n |->
                        LET name == Elements(test_files)[i].name
                        IN  [name |-> name, loaded |-> name \in Loadable]]
<1>1. /\ pc = "load" /\ pc' = "ready"
      /\ blocks' = IF n = 0 THEN blocks ELSE Put(blocks, test_files.data, loaded)
      /\ UNCHANGED <<arena, test_files, tests, test>>
  BY DEF LoadLibraries
<1>2. /\ ArrayOK(test_files, FileSize) /\ n \in Nat
      /\ Running(arena, blocks, test_files, tests, ArrayInit)
  BY <1>1 DEF MemoryInv, Growing, ArrayOK, ArrayOf
<1>3. IsSeq(loaded) /\ Len(loaded) = n
  <2> DEFINE S == {loaded[i] : i \in 1..n}
  <2>1. loaded \in [1..n -> S]
    <3> DEFINE e(i) == LET name == Elements(test_files)[i].name
                       IN  [name |-> name, loaded |-> name \in Loadable]
    <3>1. loaded = [i \in 1..n |-> e(i)] /\ \A i \in 1..n : e(i) = loaded[i]
      OBVIOUS
    <3> HIDE DEF e
    <3> QED
      BY <3>1
  <2> HIDE DEF loaded, S
  <2>2. loaded \in Seq(S) /\ Len(loaded) = n
    BY <1>2, <2>1, FunctionIsSeq
  <2> QED
    BY <2>2 DEF IsSeq
<1> HIDE DEF loaded
<1>4. CASE n = 0
  <2>1. blocks' = blocks /\ Growing' = ArrayInit
    BY <1>1, <1>4 DEF Growing
  <2>2. Addresses' = Addresses
    BY <1>1 DEF Addresses
  <2> QED
    BY <1>1, <1>2, <2>1, <2>2 DEF MemoryInv
<1>5. CASE n # 0
  <2>1. blocks' = Put(blocks, test_files.data, loaded)
    BY <1>1, <1>5
  <2>2. test_files.data # Null /\ test_files.data \in DOMAIN blocks
    BY <1>2, <1>5 DEF ArrayOK, ArrayOf, Running, Live
  <2>3. /\ DOMAIN blocks' = DOMAIN blocks
        /\ blocks'[test_files.data] = loaded
        /\ \A x \in DOMAIN blocks : x # test_files.data => blocks'[x] = blocks[x]
    BY <2>1, <2>2 DEF Put
  <2>4. BlocksOK(arena, blocks')
    BY <1>2, <1>3, <2>3 DEF BlocksOK, Running
  <2>5. Live(test_files, blocks')
    BY <1>2, <1>3, <2>2, <2>3 DEF Live, Running
  <2>6. Live(tests, blocks')
    <3>1. tests.data # Null => tests.data # test_files.data /\ tests.data \in DOMAIN blocks
      BY <1>2, <2>2 DEF Running, Separate, Live
    <3> QED
      BY <1>2, <2>3, <3>1 DEF Running, Live
  <2>7. Running(arena, blocks', test_files, tests, ArrayInit)
    BY <1>2, <2>4, <2>5, <2>6, EmptyArray DEF Running
  <2>8. Growing' = ArrayInit
    BY <1>1 DEF Growing
  <2>9. Addresses' = Addresses
    BY <1>1 DEF Addresses
  <2> QED
    BY <1>1, <1>2, <2>3, <2>7, <2>8, <2>9 DEF MemoryInv
<1> QED
  BY <1>4, <1>5

LEMMA MemoryKept == MemoryInv /\ [Next]_vars => MemoryInv'
<1> SUFFICES ASSUME MemoryInv, [Next]_vars PROVE MemoryInv'
  OBVIOUS
<1>1. CASE ReadLine
  BY <1>1, IdleKeepsMemory DEF ReadLine
<1>2. CASE NoMemory
  <2>1. pc # "failed" /\ Fail(arena)
    BY <1>2 DEF NoMemory
  <2> QED
    BY <2>1, FailKeepsMemory DEF MemoryInv, Running
<1>3. CASE EndOfInput
  BY <1>3, IdleKeepsMemory DEF EndOfInput
<1>4. CASE SkipLine
  BY <1>4, IdleKeepsMemory DEF SkipLine, NextLine
<1>5. CASE ParseTest
  BY <1>5, ParseTestKeepsMemory
<1>6. CASE DropTest
  BY <1>6, IdleKeepsMemory DEF DropTest, NextLine
<1>7. CASE ParseFixture
  BY <1>7, ParseFixtureKeepsMemory
<1>8. CASE AddTest
  BY <1>8, AddTestKeepsMemory
<1>9. CASE LoadLibraries
  BY <1>9, LoadKeepsMemory
<1>10. CASE UNCHANGED vars
  BY <1>10 DEF vars, MemoryInv, Growing, Addresses
<1> QED
  BY <1>1, <1>2, <1>3, <1>4, <1>5, <1>6, <1>7, <1>8, <1>9, <1>10 DEF Next

LEMMA MemoryTyped == ASSUME MemoryInv PROVE TypeOK
<1>1. /\ arena.latest \in DOMAIN arena.nodes
      /\ \A n \in DOMAIN arena.nodes : arena.nodes[n].current \in 0..arena.nodes[n].end
  BY NodesOf DEF MemoryInv, ArenaOK
<1>2. ASSUME NEW array, NEW size \in Sizes, ArrayOK(array, size),
             array.data # Null => array.data \in DOMAIN blocks
      PROVE  array \in Arrays /\ array.length <= array.capacity
  <2>1. /\ array = [data |-> array.data, length |-> array.length, capacity |-> array.capacity]
        /\ array.length \in Nat /\ array.capacity \in Nat
        /\ array.length <= array.capacity /\ size * array.capacity <= MallocMax
    BY <1>2 DEF ArrayOK, ArrayOf
  <2>2. array.capacity <= size * array.capacity /\ size * array.capacity \in Nat
    BY <2>1, Product
  <2>3. Null \in Addresses
    <3>1. Len(arena.nodes) \in Nat /\ MallocMax \in Nat
      BY NodesOf, ArenaAssumption DEF MemoryInv
    <3> QED
      BY <3>1 DEF Addresses, Null
  <2>4. array.data \in Addresses
    BY <1>2, <2>3 DEF MemoryInv
  <2>5. array.capacity \in 0..MallocMax /\ array.length \in 0..MallocMax
    BY <2>1, <2>2, ArenaAssumption
  <2> QED
    BY <2>1, <2>4, <2>5 DEF Arrays
<1>3. \A array \in {test_files, tests, test.fixtures} :
          array \in Arrays /\ array.length <= array.capacity
  BY <1>2, ElementSizes DEF MemoryInv
<1> QED
  BY <1>1, <1>3 DEF TypeOK, MemoryInv

\* For any lines and any sizes, and with a malloc that fails whenever it likes: the
\* three kinds of arrays grow between each other in one arena without one of the
\* checks that end the program, and no array holds more than its block has room for.
\* A failure gives everything back (test.c, arena.c).
THEOREM TypeCorrect == Spec => []TypeOK
<1>1. Spec => []MemoryInv
  BY InitMemory, MemoryKept, PTL DEF Spec
<1>2. MemoryInv => TypeOK
  BY MemoryTyped
<1> QED
  BY <1>1, <1>2, PTL
-----------------------------------------------------------------------------
(* Pointers to libraries, and the tests that hold them.                      *)

\* The libraries the lines name; whether the first block of libraries has room
\* for them, so that it never moves.
Libraries == (UNION {{l[i].library : i \in DOMAIN l} : l \in Lines}) \ {Malformed}
Few == IsFiniteSet(Libraries) /\ Cardinality(Libraries) <= FirstCapacity

PointsTo(pointer, library, blks, files) ==
    /\ pointer[1] \in DOMAIN blks
    /\ pointer[2] \in 1..Len(blks[pointer[1]])
    /\ blks[pointer[1]][pointer[2]].name = library
    /\ Few => pointer[1] = files

\* No library is entered twice.
FilesOK(files, blks) ==
    /\ files.data # Null =>
          \A i, j \in 1..files.length :
              /\ blks[files.data][i].name \in Libraries
              /\ blks[files.data][i].name = blks[files.data][j].name => i = j
    /\ Few /\ files.data # Null => files.capacity = FirstCapacity

\* The array of libraries stays where it was, or moves to a new block, which it
\* does not when they are few and it was not empty.
FilesMove(files, blks, later) ==
    later = files \/ (later \notin DOMAIN blks /\ (Few => files \notin DOMAIN blks))

Means(t, m, blks, files) ==
    /\ PointsTo(t.symbol, m.library, blks, files)
    /\ t.fixtures.length = Len(m.fixtures)
    /\ t.fixtures.data = Null => t.fixtures.length = 0
    /\ t.fixtures.data # Null =>
          /\ t.fixtures.data \in DOMAIN blks
          /\ t.fixtures.data # files
          /\ t.fixtures.length <= Len(blks[t.fixtures.data])
          /\ \A i \in 1..t.fixtures.length :
                LET f == blks[t.fixtures.data][i]
                IN  /\ f.kind = m.fixtures[i][1]
                    /\ PointsTo(f.symbol, m.fixtures[i][2], blks, files)

LEMMA PointsLater ==
    ASSUME NEW p, NEW library, NEW blks, NEW files, PointsTo(p, library, blks, files),
           NEW later, NEW moved, Extended(blks, later), FilesMove(files, blks, moved)
    PROVE  PointsTo(p, library, later, moved)
<1>1. /\ p[1] \in DOMAIN blks /\ p[2] \in 1..Len(blks[p[1]])
      /\ blks[p[1]][p[2]].name = library
      /\ Few => p[1] = files
  BY DEF PointsTo
<1>2. /\ p[1] \in DOMAIN later
      /\ Len(blks[p[1]]) \in Nat /\ Len(later[p[1]]) \in Nat
      /\ Len(blks[p[1]]) <= Len(later[p[1]])
      /\ later[p[1]][p[2]] = blks[p[1]][p[2]]
  BY <1>1 DEF Extended
<1>3. p[2] \in 1..Len(later[p[1]])
  BY <1>1, <1>2
<1>4. Few => p[1] = moved
  BY <1>1 DEF FilesMove
<1> QED
  BY <1>1, <1>2, <1>3, <1>4 DEF PointsTo

\* There is room for one library more than the n that were different from it.
LEMMA Enough ==
    ASSUME Few, NEW n \in Nat, NEW name,
           \A i \in 1..n : name[i] \in Libraries,
           \A i, j \in 1..n : name[i] = name[j] => i = j,
           NEW library \in Libraries, \A i \in 1..n : name[i] # library
    PROVE  n + 1 <= FirstCapacity
<1> DEFINE f == [i \in 1..(n + 1) |-> IF i <= n THEN name[i] ELSE library]
<1>1. f \in [1..(n + 1) -> Libraries]
  OBVIOUS
<1>2. \A i, j \in 1..(n + 1) : f[i] = f[j] => i = j
  <2> SUFFICES ASSUME NEW i \in 1..(n + 1), NEW j \in 1..(n + 1), f[i] = f[j]
               PROVE  i = j
    OBVIOUS
  <2>1. CASE i <= n /\ j <= n
    BY <2>1
  <2>2. CASE ~(i <= n) /\ ~(j <= n)
    BY <2>2
  <2>3. CASE (i <= n /\ ~(j <= n)) \/ (~(i <= n) /\ j <= n)
    BY <2>3
  <2> QED
    BY <2>1, <2>2, <2>3
<1>3. IsFiniteSet(1..(n + 1)) /\ Cardinality(1..(n + 1)) = n + 1
  BY FS_Interval
<1>4. IsFiniteSet(Libraries) /\ Cardinality(Libraries) <= FirstCapacity
      /\ Cardinality(Libraries) \in Nat /\ FirstCapacity \in Nat
  BY FS_CardinalityType, ParseAssumption DEF Few
<1> HIDE DEF f
<1>5. ~(Cardinality(Libraries) < Cardinality(1..(n + 1)))
  <2> SUFFICES ASSUME Cardinality(Libraries) < Cardinality(1..(n + 1))
               PROVE  FALSE
    OBVIOUS
  <2>1. \E x, y \in 1..(n + 1) : x # y /\ f[x] = f[y]
    BY <1>1, <1>3, <1>4, FS_PigeonHole
  <2> QED
    BY <1>2, <2>1
<1> QED
  BY <1>3, <1>4, <1>5

\* The elements of an array that is appended to are those of its block.
LEMMA LiveElements ==
    ASSUME NEW array, NEW a, NEW size, BlocksOK(a, blocks), ArrayOK(array, size),
           Live(array, blocks)
    PROVE  /\ array.length \in Nat /\ array.data \in Places
           /\ Elements(array) = Held(array, blocks)
           /\ DOMAIN Elements(array) = 1..array.length
           /\ array.length # 0 => array.data # Null
           /\ \A i \in 1..array.length : Elements(array)[i] = blocks[array.data][i]
<1>1. /\ array \in ArrayOf /\ array.length \in Nat /\ array.data \in Places
      /\ array.data = Null => array.length = 0
      /\ array.data # Null => IsSeq(blocks[array.data])
  BY DEF ArrayOK, ArrayOf, Live, BlocksOK
<1>2. /\ IsSeq(Held(array, blocks)) /\ Len(Held(array, blocks)) = array.length
      /\ array.data # Null => Held(array, blocks) = blocks[array.data]
  BY <1>1, HeldElements
<1>3. Elements(array) = Held(array, blocks)
  BY DEF Elements, Held
<1>4. DOMAIN Held(array, blocks) = 1..Len(Held(array, blocks))
  BY <1>2 DEF IsSeq
<1> QED
  BY <1>1, <1>2, <1>3, <1>4

\* The pointer that a symbol gets, and what becomes of the entries.
LEMMA FileOfPoints ==
    ASSUME MemoryInv, pc # "failed", FilesOK(test_files, blocks),
           NEW library \in Libraries, NEW granted,
           NEW out, out = FileOf(library, granted), out.result # "memory"
    PROVE  /\ FilesOK(out.array, out.blocks)
           /\ FilesMove(test_files.data, blocks, out.array.data)
           /\ PointsTo(PointerTo(library, out.array), library, out.blocks, out.array.data)
<1> DEFINE item == [name |-> library, loaded |-> FALSE]
           n == test_files.length
           F == test_files.data
<1>1. /\ ArrayOK(test_files, FileSize) /\ BlocksOK(arena, blocks) /\ Live(test_files, blocks)
      /\ test_files \in ArrayOf
  BY DEF MemoryInv, Running, ArrayOK
<1>2. /\ n \in Nat /\ F \in Places /\ (n # 0 => F # Null)
      /\ \A i \in 1..n : Elements(test_files)[i] = blocks[F][i]
  BY <1>1, LiveElements
<1>3. Known(library) = {i \in 1..n : blocks[F][i].name = library}
  BY <1>2 DEF Known
<1>4. CASE Known(library) # {} /\ out = Outcome(test_files, arena, blocks, "ok")
  <2>1. out.array = test_files /\ out.blocks = blocks
    BY <1>4 DEF Outcome
  <2> DEFINE k == Min(Known(library))
  <2>2. k \in Known(library)
    BY <1>4, KnownFirst
  <2>3. PointerTo(library, test_files) = <<F, k>>
    BY <1>4 DEF PointerTo
  <2> HIDE DEF k
  <2>4. k \in 1..n /\ blocks[F][k].name = library /\ F # Null
    BY <1>2, <1>3, <2>2
  <2>5. F \in DOMAIN blocks /\ Len(blocks[F]) = n
    BY <1>1, <2>4 DEF Live
  <2> HIDE DEF F, n
  <2>6. PointsTo(<<F, k>>, library, blocks, F)
    BY <2>4, <2>5 DEF PointsTo
  <2> QED
    BY <2>1, <2>3, <2>6 DEF FilesMove, F
<1>5. CASE Known(library) = {} /\ AppendedTo(test_files, arena, blocks, FileSize, item, out)
  <2> DEFINE G == out.array.data
  <2>1. /\ G \in DOMAIN out.blocks /\ out.blocks[G][n + 1] = item
        /\ F # Null => \A i \in 1..n : out.blocks[G][i] = blocks[F][i]
    BY <1>1, <1>5, AppendedBlocks
  <2>2. /\ out.array.length = n + 1 /\ Live(out.array, out.blocks) /\ G # Null
        /\ G = F \/ G \notin DOMAIN blocks
        /\ HasSpace(test_files) => G = F /\ out.array.capacity = test_files.capacity
        /\ F = Null => out.array.capacity = FirstCapacity
    BY <1>5 DEF AppendedTo
  <2>3. Len(out.blocks[G]) = n + 1
    BY <2>2 DEF Live
  <2>4. PointerTo(library, out.array) = <<G, n + 1>>
    BY <1>5, <2>2 DEF PointerTo
  <2>5. PointsTo(<<G, n + 1>>, library, out.blocks, G)
    <3>1. item.name = library /\ n + 1 \in 1..(n + 1)
      BY <1>2
    <3> HIDE DEF item, G, n
    <3> QED
      BY <2>1, <2>3, <3>1 DEF PointsTo
  <2>6. \A i \in 1..n : /\ out.blocks[G][i].name = blocks[F][i].name
                        /\ blocks[F][i].name \in Libraries /\ blocks[F][i].name # library
                        /\ \A j \in 1..n : blocks[F][i].name = blocks[F][j].name => i = j
    <3> SUFFICES ASSUME NEW i \in 1..n
                 PROVE  /\ out.blocks[G][i].name = blocks[F][i].name
                        /\ blocks[F][i].name \in Libraries /\ blocks[F][i].name # library
                        /\ \A j \in 1..n : blocks[F][i].name = blocks[F][j].name => i = j
      OBVIOUS
    <3>1. F # Null
      BY <1>2
    <3>2. blocks[F][i].name # library
      BY <1>3, <1>5
    <3> QED
      BY <2>1, <3>1, <3>2 DEF FilesOK
  <2>7. ASSUME Few, F # Null
        PROVE  HasSpace(test_files) /\ test_files.capacity = FirstCapacity
    <3> DEFINE name == [i \in 1..n |-> blocks[F][i].name]
    <3>1. /\ \A i \in 1..n : name[i] \in Libraries /\ name[i] # library
          /\ \A i, j \in 1..n : name[i] = name[j] => i = j
      BY <2>6
    <3> HIDE DEF name, n
    <3>2. n + 1 <= FirstCapacity
      BY <1>2, <2>7, <3>1, Enough
    <3>3. test_files.capacity = FirstCapacity
      BY <2>7 DEF FilesOK
    <3> QED
      BY <1>2, <3>2, <3>3, ParseAssumption DEF HasSpace, n
  <2>8. ASSUME Few
        PROVE  out.array.capacity = FirstCapacity /\ (G = F \/ F = Null)
    BY <2>2, <2>7, <2>8
  <2>9. ~(Null \in DOMAIN blocks)
    BY <1>1 DEF BlocksOK, Settled, Within, Null
  <2>10. FilesMove(F, blocks, G)
    BY <2>2, <2>8, <2>9 DEF FilesMove
  <2>11. \A i, j \in 1..(n + 1) :
            /\ out.blocks[G][i].name \in Libraries
            /\ out.blocks[G][i].name = out.blocks[G][j].name => i = j
    <3> SUFFICES ASSUME NEW i \in 1..(n + 1), NEW j \in 1..(n + 1)
                 PROVE  /\ out.blocks[G][i].name \in Libraries
                        /\ out.blocks[G][i].name = out.blocks[G][j].name => i = j
      OBVIOUS
    <3>1. out.blocks[G][n + 1].name = library
      BY <2>1
    <3> HIDE DEF G, F, n
    <3>2. (i \in 1..n \/ i = n + 1) /\ (j \in 1..n \/ j = n + 1)
      BY <1>2
    <3> QED
      BY <2>6, <3>1, <3>2
  <2>12. FilesOK(out.array, out.blocks)
    BY <2>2, <2>8, <2>11 DEF FilesOK
  <2> QED
    BY <2>4, <2>5, <2>10, <2>12
<1> QED
  BY <1>4, <1>5, FileOfOutcome DEF NotAppended
-----------------------------------------------------------------------------
(* What a line defines (test.c), and what the lines define.                  *)

Meanings == [library : STRING, fixtures : Seq(STRING \X STRING)]

\* Items 2..k of the line are fixtures; the test they and the first item give.
Fixtures(l, k) == \A i \in 2..k : IsFixture(l[i]) /\ l[i].library # Malformed
Partial(l, k) ==
    [library |-> l[1].library,
     fixtures |-> [i \in 1..(k - 1) |-> <<l[i + 1].prefix, l[i + 1].library>>]]

LEMMA LinesAre ==
    ASSUME NEW l \in Lines
    PROVE  /\ l \in Seq([prefix : STRING, library : STRING]) /\ Len(l) \in Nat
           /\ DOMAIN l = 1..Len(l)
           /\ \A i \in 1..Len(l) : l[i].prefix \in STRING /\ l[i].library \in STRING
           /\ \A i \in 1..Len(l) : l[i].library # Malformed => l[i].library \in Libraries
<1> DEFINE Items == [prefix : STRING, library : STRING]
<1>1. l \in Seq(Items)
  BY ParseAssumption
<1>2. /\ Len(l) \in Nat /\ DOMAIN l = 1..Len(l)
      /\ \A i \in 1..Len(l) : l[i] \in Items
  <2> HIDE DEF Items
  <2> QED
    BY <1>1, LenProperties
<1>3. \A i \in 1..Len(l) : l[i].prefix \in STRING /\ l[i].library \in STRING
  BY <1>2
<1>4. ASSUME NEW i \in 1..Len(l), l[i].library # Malformed
      PROVE  l[i].library \in Libraries
  <2> DEFINE all == {{m[k].library : k \in DOMAIN m} : m \in Lines}
             own == {l[k].library : k \in DOMAIN l}
  <2>1. l[i].library \in own /\ own \in all
    BY <1>2
  <2>2. Libraries = (UNION all) \ {Malformed}
    BY DEF Libraries
  <2> HIDE DEF all, own
  <2> QED
    BY <1>4, <2>1, <2>2
<1> QED
  BY <1>1, <1>2, <1>3, <1>4

LEMMA PartialMeans ==
    ASSUME NEW l \in Lines, NEW k \in 1..Len(l)
    PROVE  /\ Partial(l, k) \in Meanings
           /\ Len(Partial(l, k).fixtures) = k - 1
           /\ Partial(l, k).library = l[1].library
           /\ \A i \in 1..(k - 1) :
                 Partial(l, k).fixtures[i] = <<l[i + 1].prefix, l[i + 1].library>>
<1> DEFINE f == [i \in 1..(k - 1) |-> <<l[i + 1].prefix, l[i + 1].library>>]
<1>1. k - 1 \in Nat /\ Len(l) \in Nat /\ \A i \in 1..(k - 1) : i + 1 \in 1..Len(l)
  BY LinesAre
<1>2. f \in [1..(k - 1) -> STRING \X STRING]
  BY <1>1, LinesAre
<1>3. \A i \in 1..(k - 1) : f[i] = <<l[i + 1].prefix, l[i + 1].library>>
  OBVIOUS
<1> HIDE DEF f
<1>4. f \in Seq(STRING \X STRING) /\ Len(f) = k - 1
  BY <1>1, <1>2, FunctionIsSeq
<1>5. Partial(l, k) = [library |-> l[1].library, fixtures |-> f]
  BY DEF Partial, f
<1>6. l[1].library \in STRING
  BY <1>1, LinesAre
<1> QED
  BY <1>3, <1>4, <1>5, <1>6 DEF Meanings

\* A line defines a test or none, as the item behind its fixtures says.
LEMMA DefinedByLine ==
    ASSUME NEW l \in Lines
    PROVE  /\ ~IsTest(l) => Defined(l) = <<>>
           /\ \A k \in 1..Len(l) : IsTest(l) /\ Fixtures(l, k) =>
                 /\ k # Len(l) /\ ~IsFixture(l[k + 1]) => Defined(l) = <<>>
                 /\ k # Len(l) /\ IsFixture(l[k + 1]) /\ l[k + 1].library = Malformed
                    => Defined(l) = <<Partial(l, k)>>
                 /\ k = Len(l) => Defined(l) = <<Partial(l, k)>>
<1> DEFINE stops == {i \in 2..Len(l) : ~IsFixture(l[i]) \/ l[i].library = Malformed}
           stop == IF stops = {} THEN Len(l) + 1 ELSE Min(stops)
           fixtures == SubSeq(l, 2, stop - 1)
           means == [library |-> l[1].library,
                     fixtures |-> [i \in DOMAIN fixtures |->
                                     <<fixtures[i].prefix, fixtures[i].library>>]]
<1>1. Defined(l) = IF ~IsTest(l) \/ (stops # {} /\ ~IsFixture(l[stop])) THEN <<>> ELSE <<means>>
  BY DEF Defined
<1>2. l \in Seq([prefix : STRING, library : STRING]) /\ Len(l) \in Nat
  BY LinesAre
<1>3. ASSUME NEW k \in 1..Len(l), Fixtures(l, k), stop = k + 1
      PROVE  means = Partial(l, k)
  <2>1. fixtures = SubSeq(l, 2, k)
    <3>1. stop - 1 = k
      BY <1>3
    <3> HIDE DEF stop
    <3> QED
      BY <3>1
  <2>2. Len(SubSeq(l, 2, k)) = k - 1
        /\ \A i \in 1..(k - 1) : SubSeq(l, 2, k)[i] = l[i + 1]
    BY <1>2
  <2>3. DOMAIN SubSeq(l, 2, k) = 1..(k - 1)
    BY <1>2, <2>2
  <2> HIDE DEF fixtures
  <2>4. [i \in DOMAIN fixtures |-> <<fixtures[i].prefix, fixtures[i].library>>]
          = [i \in 1..(k - 1) |-> <<l[i + 1].prefix, l[i + 1].library>>]
    BY <2>1, <2>2, <2>3
  <2> QED
    BY <2>4 DEF Partial
<1>4. ASSUME NEW k \in 1..Len(l), Fixtures(l, k)
      PROVE  \A i \in stops : i \in Nat /\ k + 1 <= i
  BY <1>2, <1>4 DEF Fixtures
<1>5. ASSUME NEW k \in 1..Len(l), Fixtures(l, k), k # Len(l),
             ~IsFixture(l[k + 1]) \/ l[k + 1].library = Malformed
      PROVE  stops # {} /\ stop = k + 1
  <2>1. k + 1 \in stops
    BY <1>2, <1>5
  <2>2. \A i \in stops : i \in Nat /\ k + 1 <= i
    BY <1>4, <1>5
  <2> HIDE DEF stops
  <2>3. Min(stops) = k + 1
    BY <2>1, <2>2 DEF Min
  <2> QED
    BY <2>1, <2>3
<1>6. ASSUME NEW k \in 1..Len(l), Fixtures(l, k), k = Len(l)
      PROVE  stops = {} /\ stop = k + 1
  <2>1. \A i \in stops : i \in Nat /\ k + 1 <= i /\ i <= Len(l)
    BY <1>2, <1>4, <1>6
  <2> HIDE DEF stops
  <2>2. stops = {}
    BY <1>2, <1>6, <2>1
  <2> QED
    BY <1>6, <2>2
<1> HIDE DEF stop, stops, means, fixtures
<1>7. ~IsTest(l) => Defined(l) = <<>>
  BY <1>1
<1>8. ASSUME NEW k \in 1..Len(l), IsTest(l), Fixtures(l, k)
      PROVE  /\ k # Len(l) /\ ~IsFixture(l[k + 1]) => Defined(l) = <<>>
             /\ k # Len(l) /\ IsFixture(l[k + 1]) /\ l[k + 1].library = Malformed
                => Defined(l) = <<Partial(l, k)>>
             /\ k = Len(l) => Defined(l) = <<Partial(l, k)>>
  <2>1. CASE k # Len(l) /\ ~IsFixture(l[k + 1])
    BY <1>1, <1>5, <1>8, <2>1
  <2>2. CASE k # Len(l) /\ IsFixture(l[k + 1]) /\ l[k + 1].library = Malformed
    BY <1>1, <1>3, <1>5, <1>8, <2>2
  <2>3. CASE k # Len(l) /\ IsFixture(l[k + 1]) /\ l[k + 1].library # Malformed
    BY <2>3
  <2>4. CASE k = Len(l)
    BY <1>1, <1>3, <1>6, <1>8, <2>4
  <2> QED
    BY <2>1, <2>2, <2>3, <2>4
<1> QED
  BY <1>7, <1>8

LEMMA DefinedIs ==
    ASSUME NEW l \in Lines
    PROVE  Defined(l) \in Seq(Meanings)
<1> DEFINE stops == {i \in 2..Len(l) : ~IsFixture(l[i]) \/ l[i].library = Malformed}
<1>1. CASE ~IsTest(l)
  <2>1. Defined(l) = <<>>
    BY <1>1, DefinedByLine
  <2> QED
    BY <2>1
<1>2. CASE IsTest(l)
  <2>1. Len(l) \in Nat /\ l # <<>> /\ l \in Seq([prefix : STRING, library : STRING])
    BY <1>2, LinesAre DEF IsTest
  <2>2. Len(l) # 0
    BY <2>1
  <2>3. \E k \in 1..Len(l) : /\ Fixtures(l, k)
                             /\ k # Len(l) => ~IsFixture(l[k + 1]) \/ l[k + 1].library = Malformed
    <3>1. CASE stops = {}
      BY <2>1, <2>2, <3>1 DEF Fixtures
    <3>2. CASE stops # {}
      <4>1. stops \in SUBSET Nat
        BY <2>1
      <4>2. PICK s \in stops : \A i \in stops : s <= i
        BY <3>2, <4>1, LeastNumber
      <4>3. /\ s - 1 \in 1..Len(l) /\ s - 1 # Len(l) /\ (s - 1) + 1 = s
            /\ ~IsFixture(l[s]) \/ l[s].library = Malformed
        BY <2>1
      <4>4. Fixtures(l, s - 1)
        BY <2>1, <4>2, <4>3 DEF Fixtures
      <4> QED
        BY <4>3, <4>4
    <3> QED
      BY <3>1, <3>2
  <2>4. PICK k \in 1..Len(l) :
             /\ Fixtures(l, k)
             /\ k # Len(l) => ~IsFixture(l[k + 1]) \/ l[k + 1].library = Malformed
    BY <2>3
  <2>5. Defined(l) = <<>> \/ Defined(l) = <<Partial(l, k)>>
    BY <1>2, <2>4, DefinedByLine
  <2>6. Partial(l, k) \in Meanings
    BY PartialMeans
  <2>7. <<>> \in Seq(Meanings) /\ \A m \in Meanings : <<m>> \in Seq(Meanings)
    OBVIOUS
  <2> QED
    BY <2>5, <2>6, <2>7
<1> QED
  BY <1>1, <1>2

\* The tests of the lines, one line at a time.
AllDefined(lines) == FlattenSeq([i \in DOMAIN lines |-> Defined(lines[i])])

LEMMA AllDefinedGrows ==
    /\ AllDefined(<<>>) = <<>>
    /\ \A lines \in Seq(Lines), l \in Lines :
          AllDefined(lines) \in Seq(Meanings) =>
              AllDefined(Append(lines, l)) = AllDefined(lines) \o Defined(l)
<1>1. AllDefined(<<>>) = <<>>
  <2>1. [i \in DOMAIN <<>> |-> Defined(<<>>[i])] = <<>>
    OBVIOUS
  <2>2. Len(<<>>) = 0
    OBVIOUS
  <2> QED
    BY <2>1, <2>2 DEF AllDefined, FlattenSeq
<1>2. ASSUME NEW lines \in Seq(Lines), NEW l \in Lines, AllDefined(lines) \in Seq(Meanings)
      PROVE  AllDefined(Append(lines, l)) = AllDefined(lines) \o Defined(l)
  <2> DEFINE n == Len(lines)
             more == Append(lines, l)
             pieces == [i \in DOMAIN lines |-> Defined(lines[i])]
             later == [i \in DOMAIN more |-> Defined(more[i])]
  <2>1. /\ n \in Nat /\ DOMAIN lines = 1..n /\ more \in Seq(Lines) /\ Len(more) = n + 1
        /\ DOMAIN more = 1..(n + 1)
        /\ \A i \in 1..n : more[i] = lines[i] /\ lines[i] \in Lines
        /\ more[n + 1] = l
    OBVIOUS
  <2> HIDE DEF more, n
  <2>2. /\ \A i \in 1..(n + 1) : later[i] = Defined(more[i])
        /\ later \in [1..(n + 1) -> Seq(Meanings)]
    <3>1. \A i \in 1..(n + 1) : more[i] \in Lines
      BY <2>1
    <3>2. \A i \in 1..(n + 1) : Defined(more[i]) \in Seq(Meanings)
      BY <3>1, DefinedIs
    <3> QED
      BY <2>1, <3>2
  <2>3. pieces = [i \in 1..n |-> Defined(lines[i])]
    BY <2>1
  <2>4. later \in Seq(Seq(Meanings)) /\ Len(later) = n + 1
    BY <2>1, <2>2, FunctionIsSeq
  <2> HIDE DEF later
  <2>5. SubSeq(later, 1, n) = pieces
    <3>1. SubSeq(later, 1, n) = [i \in 1..n |-> later[i]]
      BY <2>1, <2>4
    <3>2. \A i \in 1..n : later[i] = Defined(lines[i])
      BY <2>1, <2>2
    <3> QED
      BY <2>3, <3>1, <3>2
  <2>6. SubSeq(later, 1, n + 1) = later
    BY <2>1, <2>4
  <2>7. Flat(later, n) = AllDefined(lines)
    BY <2>5 DEF Flat, AllDefined
  <2>8. Flat(later, n + 1) = AllDefined(more)
    BY <2>6 DEF Flat, AllDefined, later
  <2>9. Flat(later, n) \in Seq(Meanings) => Flat(later, n + 1) = Flat(later, n) \o later[n + 1]
    <3>1. n \in 0..(Len(later) - 1)
      BY <2>1, <2>4
    <3> QED
      BY <2>4, <3>1, FlatGrows
  <2>10. later[n + 1] = Defined(l)
    BY <2>1, <2>2
  <2> QED
    BY <1>2, <2>7, <2>8, <2>9, <2>10 DEF more
<1> QED
  BY <1>1, <1>2
-----------------------------------------------------------------------------
(* The tests so far are those of the lines so far.                           *)

TestsMean(all, meanings, blks, files) ==
    /\ meanings \in Seq(Meanings) /\ all.length = Len(meanings)
    /\ \A i \in 1..Len(meanings) : Means(blks[all.data][i], meanings[i], blks, files)

\* The last line and those before it, whose tests are in the array.
Before(before, l) ==
    /\ input = Append(before, l)
    /\ TestsMean(tests, AllDefined(before), blocks, test_files.data)

\* The first k items of the line are in its test, the others are left.
Rest(l, k, left) ==
    /\ left \in Seq([prefix : STRING, library : STRING])
    /\ Len(left) = Len(l) - k
    /\ \A i \in 1..Len(left) : left[i] = l[k + i]

InFixtures(l) ==
    \E k \in 1..Len(l) :
        /\ IsTest(l) /\ Fixtures(l, k) /\ Rest(l, k, line)
        /\ Means(test, Partial(l, k), blocks, test_files.data)

ParsedInv ==
    /\ MemoryInv
    /\ input \in Seq(Lines)
    /\ pc # "failed" => FilesOK(test_files, blocks)
    /\ pc \in {"line", "load", "ready"} =>
          TestsMean(tests, AllDefined(input), blocks, test_files.data)
    /\ pc \in {"test", "fixtures"} =>
          \E before \in Seq(Lines), l \in Lines :
              /\ Before(before, l)
              /\ pc = "test" => line = l
              /\ pc = "fixtures" => InFixtures(l)
    /\ pc = "ready" =>
          \A i \in 1..test_files.length :
              blocks[test_files.data][i].name \in Loadable => blocks[test_files.data][i].loaded

LEMMA MeansLater ==
    ASSUME NEW t, NEW m \in Meanings, NEW blks, NEW files, Means(t, m, blks, files),
           NEW later, NEW moved, Extended(blks, later), FilesMove(files, blks, moved)
    PROVE  Means(t, m, later, moved)
<1> DEFINE D == t.fixtures.data
           n == t.fixtures.length
<1>1. n \in Nat
  BY DEF Means, Meanings
<1>2. PointsTo(t.symbol, m.library, later, moved)
  BY PointsLater DEF Means
<1>3. ASSUME D # Null
      PROVE  /\ D \in DOMAIN later /\ D # moved /\ n <= Len(later[D])
             /\ \A i \in 1..n :
                   LET f == later[D][i]
                   IN  /\ f.kind = m.fixtures[i][1]
                       /\ PointsTo(f.symbol, m.fixtures[i][2], later, moved)
  <2>1. /\ D \in DOMAIN blks /\ D # files /\ n <= Len(blks[D])
        /\ \A i \in 1..n : /\ blks[D][i].kind = m.fixtures[i][1]
                           /\ PointsTo(blks[D][i].symbol, m.fixtures[i][2], blks, files)
    BY <1>3 DEF Means
  <2>2. /\ D \in DOMAIN later /\ Len(blks[D]) \in Nat /\ Len(later[D]) \in Nat
        /\ Len(blks[D]) <= Len(later[D])
        /\ \A i \in 1..Len(blks[D]) : later[D][i] = blks[D][i]
    BY <2>1 DEF Extended
  <2>3. D # moved
    BY <2>1 DEF FilesMove
  <2> HIDE DEF D, n
  <2>4. \A i \in 1..n : later[D][i] = blks[D][i]
    BY <1>1, <2>1, <2>2
  <2>5. \A i \in 1..n : PointsTo(blks[D][i].symbol, m.fixtures[i][2], later, moved)
    BY <2>1, PointsLater
  <2> QED
    BY <1>1, <2>1, <2>2, <2>3, <2>4, <2>5
<1> QED
  BY <1>2, <1>3 DEF Means

LEMMA TestsLater ==
    ASSUME NEW all, NEW meanings, NEW blks, NEW files, TestsMean(all, meanings, blks, files),
           Live(all, blks), all \in ArrayOf, all.data = Null => all.length = 0,
           NEW later, NEW moved, Extended(blks, later), FilesMove(files, blks, moved)
    PROVE  TestsMean(all, meanings, later, moved)
<1>1. /\ meanings \in Seq(Meanings) /\ all.length = Len(meanings) /\ Len(meanings) \in Nat
  BY DEF TestsMean
<1>2. ASSUME NEW i \in 1..Len(meanings)
      PROVE  Means(later[all.data][i], meanings[i], later, moved)
  <2>1. all.data \in DOMAIN blks /\ Len(blks[all.data]) = all.length
    BY <1>1 DEF Live
  <2>2. later[all.data][i] = blks[all.data][i]
    BY <1>1, <2>1 DEF Extended
  <2>3. meanings[i] \in Meanings
    BY <1>1
  <2>4. Means(blks[all.data][i], meanings[i], blks, files)
    BY DEF TestsMean
  <2> QED
    BY <2>2, <2>3, <2>4, MeansLater
<1> QED
  BY <1>1, <1>2 DEF TestsMean

\* Loading the libraries changes no name.
LEMMA MeansLoaded ==
    ASSUME NEW t, NEW m, NEW blks, NEW files, Means(t, m, blks, files), NEW later,
           DOMAIN later = DOMAIN blks,
           \A at \in DOMAIN blks : at # files => later[at] = blks[at],
           Len(later[files]) = Len(blks[files]),
           \A i \in 1..Len(blks[files]) : later[files][i].name = blks[files][i].name
    PROVE  Means(t, m, later, files)
<1>1. ASSUME NEW p, NEW library, PointsTo(p, library, blks, files)
      PROVE  PointsTo(p, library, later, files)
  <2>1. CASE p[1] = files
    BY <1>1, <2>1 DEF PointsTo
  <2>2. CASE p[1] # files
    BY <1>1, <2>2 DEF PointsTo
  <2> QED
    BY <2>1, <2>2
<1>2. t.fixtures.data # Null => later[t.fixtures.data] = blks[t.fixtures.data]
  BY DEF Means
<1> QED
  BY <1>1, <1>2 DEF Means

LEMMA InitParsed == Init => ParsedInv
<1> SUFFICES ASSUME Init PROVE ParsedInv
  OBVIOUS
<1>1. MemoryInv /\ pc = "line" /\ input = <<>> /\ test_files = ArrayInit /\ tests = ArrayInit
  BY InitMemory DEF Init
<1>2. TestsMean(tests, <<>>, blocks, test_files.data)
  <2>1. <<>> \in Seq(Meanings) /\ Len(<<>>) = 0 /\ tests.length = 0
    BY <1>1, EmptyArray
  <2> QED
    BY <2>1 DEF TestsMean
<1>3. FilesOK(test_files, blocks)
  BY <1>1, EmptyArray DEF FilesOK
<1>4. AllDefined(input) = <<>> /\ input \in Seq(Lines)
  BY <1>1, AllDefinedGrows
<1> QED
  BY <1>1, <1>2, <1>3, <1>4 DEF ParsedInv

\* A line that gave nothing.
LEMMA NextLineParsed ==
    ASSUME ParsedInv, MemoryInv', NEW before \in Seq(Lines), NEW l \in Lines,
           Before(before, l), pc # "failed", Defined(l) = <<>>, NextLine
    PROVE  ParsedInv'
<1>1. /\ pc' = "line" /\ input' = input /\ blocks' = blocks /\ test_files' = test_files
      /\ tests' = tests
  BY DEF NextLine
<1>2. /\ input = Append(before, l) /\ TestsMean(tests, AllDefined(before), blocks, test_files.data)
      /\ AllDefined(before) \in Seq(Meanings)
  BY DEF Before, TestsMean
<1>3. AllDefined(input) = AllDefined(before)
  <2>1. AllDefined(input) = AllDefined(before) \o <<>>
    BY <1>2, AllDefinedGrows
  <2> QED
    BY <1>2, <2>1
<1> QED
  BY <1>1, <1>2, <1>3 DEF ParsedInv

LEMMA ReadLineParsed == ASSUME ParsedInv, MemoryInv', ReadLine PROVE ParsedInv'
<1>1. PICK l \in Lines : line' = l /\ input' = Append(input, l)
  BY DEF ReadLine
<1>2. /\ pc = "line" /\ pc' = "test" /\ blocks' = blocks /\ test_files' = test_files
      /\ tests' = tests
  BY DEF ReadLine
<1>3. input \in Seq(Lines) /\ TestsMean(tests, AllDefined(input), blocks, test_files.data)
      /\ FilesOK(test_files, blocks)
  BY <1>2 DEF ParsedInv
<1>4. \E before \in Seq(Lines), m \in Lines :
          Before(before, m)' /\ line' = m
  <2>1. PICK before \in Seq(Lines) : before = input
    BY <1>3
  <2>2. Before(before, l)'
    BY <1>1, <1>2, <1>3, <2>1 DEF Before
  <2> QED
    BY <1>1, <2>2
<1>5. input' \in Seq(Lines)
  BY <1>1, <1>3
<1> QED
  BY <1>2, <1>3, <1>4, <1>5 DEF ParsedInv

LEMMA FailParsed == ASSUME ParsedInv, MemoryInv', pc' = "failed", input' = input PROVE ParsedInv'
BY DEF ParsedInv

LEMMA EndOfInputParsed == ASSUME ParsedInv, MemoryInv', EndOfInput PROVE ParsedInv'
BY DEF ParsedInv, EndOfInput

LEMMA SkipLineParsed == ASSUME ParsedInv, MemoryInv', SkipLine PROVE ParsedInv'
<1>1. pc = "test" /\ ~IsTest(line) /\ NextLine
  BY DEF SkipLine
<1>2. PICK before \in Seq(Lines), l \in Lines : Before(before, l) /\ line = l
  BY <1>1 DEF ParsedInv
<1>3. Defined(l) = <<>>
  BY <1>1, <1>2, DefinedByLine
<1> QED
  BY <1>1, <1>2, <1>3, NextLineParsed

LEMMA DropTestParsed == ASSUME ParsedInv, MemoryInv', DropTest PROVE ParsedInv'
<1>1. pc = "fixtures" /\ line # <<>> /\ ~IsFixture(Head(line)) /\ NextLine
  BY DEF DropTest
<1>2. PICK before \in Seq(Lines), l \in Lines : Before(before, l) /\ InFixtures(l)
  BY <1>1 DEF ParsedInv
<1>3. PICK k \in 1..Len(l) : IsTest(l) /\ Fixtures(l, k) /\ Rest(l, k, line)
  BY <1>2 DEF InFixtures
<1>4. Len(line) # 0 /\ Len(line) \in Nat /\ Head(line) = line[1]
  BY <1>1, <1>3 DEF Rest
<1>5. k # Len(l) /\ line[1] = l[k + 1]
  BY <1>3, <1>4, LinesAre DEF Rest
<1>6. Defined(l) = <<>>
  BY <1>1, <1>3, <1>4, <1>5, DefinedByLine
<1> QED
  BY <1>1, <1>2, <1>6, NextLineParsed

\* The first item: a test without fixtures.
LEMMA ParseTestParsed == ASSUME ParsedInv, MemoryInv', ParseTest PROVE ParsedInv'
<1>1. PICK granted \in BOOLEAN :
         LET library == Head(line).library
             out == FileOf(library, granted)
         IN  IF out.result = "memory" THEN Fail(out.arena)
             ELSE /\ arena' = out.arena /\ blocks' = out.blocks
                  /\ test_files' = out.array
                  /\ test' = [NoTest EXCEPT !.symbol = PointerTo(library, out.array)]
                  /\ line' = Tail(line)
                  /\ pc' = IF out.result = "abort" THEN "aborted" ELSE "fixtures"
                  /\ UNCHANGED <<input, tests>>
  BY DEF ParseTest
<1> DEFINE library == Head(line).library
           out == FileOf(library, granted)
<1>2. pc = "test" /\ IsTest(line) /\ MemoryInv /\ FilesOK(test_files, blocks) /\ input \in Seq(Lines)
  BY DEF ParseTest, ParsedInv
<1>3. PICK before \in Seq(Lines), l \in Lines : Before(before, l) /\ line = l
  BY <1>2 DEF ParsedInv
<1>4. /\ l \in Seq([prefix : STRING, library : STRING]) /\ Len(l) \in Nat /\ Len(l) # 0
      /\ 1 \in 1..Len(l) /\ Head(l) = l[1]
      /\ Tail(l) \in Seq([prefix : STRING, library : STRING]) /\ Len(Tail(l)) = Len(l) - 1
      /\ \A i \in 1..Len(Tail(l)) : Tail(l)[i] = l[1 + i]
  <2> DEFINE Items == [prefix : STRING, library : STRING]
  <2>1. l \in Seq(Items) /\ l # <<>>
    BY <1>2, <1>3, LinesAre DEF IsTest
  <2> HIDE DEF Items
  <2>2. Len(l) \in Nat /\ Len(l) # 0 /\ Head(l) = l[1]
    BY <2>1
  <2>3. /\ Tail(l) \in Seq(Items) /\ Len(Tail(l)) = Len(l) - 1
        /\ \A i \in 1..Len(Tail(l)) : Tail(l)[i] = l[1 + i]
    BY <2>1, <2>2
  <2> QED
    BY <2>1, <2>2, <2>3 DEF Items
<1>5. library = l[1].library /\ library \in Libraries
  <2>1. l[1].library # Malformed
    BY <1>2, <1>3, <1>4 DEF IsTest
  <2> QED
    BY <1>3, <1>4, <2>1, LinesAre
<1>6. CASE out.result = "memory"
  <2>1. Fail(out.arena)
    BY <1>1, <1>6
  <2> HIDE DEF library
  <2>2. NotAppended(test_files, blocks, out)
    BY <1>2, <1>6, FileOfFails
  <2>3. pc' = "failed" /\ input' = input
    BY <1>2, <2>1, <2>2, FailKeepsMemory DEF NotAppended, Fail
  <2> QED
    BY <2>3, FailParsed
<1>7. CASE out.result # "memory"
  <2> DEFINE p == PointerTo(library, out.array)
  <2> HIDE DEF library
  <2>1. out.result = "ok" /\ Extended(blocks, out.blocks)
    BY <1>2, <1>7, FileOfRuns
  <2>2. /\ FilesOK(out.array, out.blocks) /\ FilesMove(test_files.data, blocks, out.array.data)
        /\ PointsTo(p, library, out.blocks, out.array.data)
    BY <1>2, <1>5, <1>7, FileOfPoints
  <2>3. /\ blocks' = out.blocks /\ test_files' = out.array /\ line' = Tail(line)
        /\ test' = [NoTest EXCEPT !.symbol = p]
        /\ pc' = "fixtures" /\ input' = input /\ tests' = tests
    BY <1>1, <1>7, <2>1 DEF library
  <2> HIDE DEF out, p
  <2>4. test' = [symbol |-> p, fixtures |-> ArrayInit]
    BY <2>3 DEF NoTest
  <2>5. Means(test', Partial(l, 1), blocks', test_files'.data)
    <3>1. Partial(l, 1).library = library /\ Len(Partial(l, 1).fixtures) = 0
      BY <1>4, <1>5, PartialMeans
    <3>2. test'.symbol = p /\ test'.fixtures = ArrayInit
      BY <2>4
    <3> QED
      BY <2>2, <2>3, <3>1, <3>2, EmptyArray DEF Means
  <2>6. TestsMean(tests, AllDefined(before), out.blocks, out.array.data)
    <3>1. /\ Live(tests, blocks) /\ tests \in ArrayOf
          /\ tests.data = Null => tests.length = 0
      BY <1>2 DEF MemoryInv, Running, ArrayOK, ArrayOf
    <3> QED
      BY <1>3, <2>1, <2>2, <3>1, TestsLater DEF Before
  <2>7. Before(before, l)'
    BY <1>3, <2>3, <2>6 DEF Before
  <2>8. InFixtures(l)'
    <3>1. Fixtures(l, 1) /\ IsTest(l)
      BY <1>2, <1>3 DEF Fixtures
    <3>2. Rest(l, 1, line')
      BY <1>3, <1>4, <2>3 DEF Rest
    <3>3. /\ 1 \in 1..Len(l) /\ IsTest(l) /\ Fixtures(l, 1) /\ Rest(l, 1, line')
          /\ Means(test', Partial(l, 1), blocks', test_files'.data)
      BY <1>4, <2>5, <3>1, <3>2
    <3> QED
      BY <3>3 DEF InFixtures
  <2> QED
    BY <1>2, <2>2, <2>3, <2>7, <2>8 DEF ParsedInv
<1> QED
  BY <1>6, <1>7

\* One fixture more in the test of the line.
LEMMA FixtureMeans ==
    ASSUME NEW l \in Lines, NEW k \in 1..Len(l), k # Len(l),
           NEW array, NEW symbol, NEW a, NEW blks, NEW files, NEW size, NEW item, NEW out,
           Means([symbol |-> symbol, fixtures |-> array], Partial(l, k), blks, files),
           array \in ArrayOf, BlocksOK(a, blks), Live(array, blks),
           AppendedTo(array, a, blks, size, item, out), files # out.array.data,
           item.kind = l[k + 1].prefix,
           PointsTo(item.symbol, l[k + 1].library, blks, files)
    PROVE  Means([symbol |-> symbol, fixtures |-> out.array], Partial(l, k + 1),
                 out.blocks, files)
<1> DEFINE D == array.data
           G == out.array.data
           m == Partial(l, k)
           next == Partial(l, k + 1)
           old == [symbol |-> symbol, fixtures |-> array]
           new == [symbol |-> symbol, fixtures |-> out.array]
<1>1. /\ Len(l) \in Nat /\ k + 1 \in 1..Len(l) /\ (k + 1) - 1 = k
      /\ \A i \in 1..(k - 1) : i \in 1..k
  BY LinesAre
<1>2. /\ Len(m.fixtures) = k - 1 /\ m.library = l[1].library
      /\ \A i \in 1..(k - 1) : m.fixtures[i] = <<l[i + 1].prefix, l[i + 1].library>>
  BY PartialMeans
<1>3. /\ Len(next.fixtures) = k /\ next.library = l[1].library
      /\ \A i \in 1..k : next.fixtures[i] = <<l[i + 1].prefix, l[i + 1].library>>
  <2>1. /\ Len(next.fixtures) = (k + 1) - 1 /\ next.library = l[1].library
        /\ \A i \in 1..((k + 1) - 1) : next.fixtures[i] = <<l[i + 1].prefix, l[i + 1].library>>
    BY <1>1, PartialMeans
  <2> QED
    BY <1>1, <2>1
<1>4. old.symbol = symbol /\ old.fixtures = array /\ new.symbol = symbol /\ new.fixtures = out.array
  OBVIOUS
<1> HIDE DEF m, next, old, new
<1>5. Means(old, m, blks, files)
  BY DEF old, m
<1>6. /\ PointsTo(symbol, m.library, blks, files)
      /\ array.length = k - 1
      /\ D = Null => array.length = 0
      /\ D # Null => \A i \in 1..(k - 1) :
            /\ blks[D][i].kind = m.fixtures[i][1]
            /\ PointsTo(blks[D][i].symbol, m.fixtures[i][2], blks, files)
  BY <1>2, <1>4, <1>5 DEF Means
<1>7. /\ Extended(blks, out.blocks) /\ G \in DOMAIN out.blocks
      /\ out.blocks[G][array.length + 1] = item
      /\ D # Null => \A i \in 1..array.length : out.blocks[G][i] = blks[D][i]
  BY AppendedBlocks
<1>8. /\ out.array.length = array.length + 1 /\ G # Null
      /\ Len(out.blocks[G]) = out.array.length
  BY DEF AppendedTo, Live
<1>9. out.array.length = k /\ array.length + 1 = k /\ k \in Nat
  BY <1>1, <1>6, <1>8
<1>10. FilesMove(files, blks, files)
  BY DEF FilesMove
<1> HIDE DEF D, G
<1>11. PointsTo(symbol, next.library, out.blocks, files)
  BY <1>2, <1>3, <1>6, <1>7, <1>10, PointsLater
<1>12. ASSUME NEW i \in 1..k
       PROVE  /\ out.blocks[G][i].kind = next.fixtures[i][1]
              /\ PointsTo(out.blocks[G][i].symbol, next.fixtures[i][2], out.blocks, files)
  <2>1. CASE i = k
    <3>1. out.blocks[G][i] = item
      BY <1>7, <1>9, <2>1
    <3>2. next.fixtures[i][1] = item.kind /\ next.fixtures[i][2] = l[k + 1].library
      BY <1>3, <2>1
    <3>3. PointsTo(item.symbol, l[k + 1].library, out.blocks, files)
      BY <1>7, <1>10, PointsLater
    <3> QED
      BY <3>1, <3>2, <3>3
  <2>2. CASE i # k
    <3>1. i \in 1..(k - 1) /\ array.length # 0
      BY <1>9, <2>2
    <3>2. D # Null /\ out.blocks[G][i] = blks[D][i]
      BY <1>6, <1>7, <1>9, <3>1
    <3>3. next.fixtures[i] = m.fixtures[i]
      BY <1>2, <1>3, <3>1
    <3>4. /\ blks[D][i].kind = m.fixtures[i][1]
          /\ PointsTo(blks[D][i].symbol, m.fixtures[i][2], blks, files)
      BY <1>6, <3>1, <3>2
    <3>5. PointsTo(blks[D][i].symbol, m.fixtures[i][2], out.blocks, files)
      BY <1>7, <1>10, <3>4, PointsLater
    <3> QED
      BY <3>2, <3>3, <3>4, <3>5
  <2> QED
    BY <2>1, <2>2
<1>13. out.array.length = Len(next.fixtures) /\ out.array.length <= Len(out.blocks[G])
  BY <1>3, <1>8, <1>9
<1>14. Means(new, next, out.blocks, files)
  BY <1>4, <1>7, <1>8, <1>9, <1>11, <1>12, <1>13 DEF Means, G
<1> QED
  BY <1>14 DEF new, next

LEMMA ParseFixtureParsed == ASSUME ParsedInv, MemoryInv', ParseFixture PROVE ParsedInv'
<1>1. PICK granted \in BOOLEAN :
         LET item == Head(line)
             file == FileOf(item.library, granted)
             out == ArrayAppend(test.fixtures, file.arena, file.blocks, FixtureSize,
                        [kind |-> item.prefix,
                         symbol |-> PointerTo(item.library, file.array)], granted)
         IN  IF file.result = "memory" THEN Fail(file.arena)
             ELSE IF out.result = "memory" THEN Fail(out.arena)
             ELSE /\ arena' = out.arena /\ blocks' = out.blocks
                  /\ test_files' = file.array
                  /\ test' = [test EXCEPT !.fixtures = out.array]
                  /\ line' = Tail(line)
                  /\ pc' = IF "abort" \in {file.result, out.result} THEN "aborted"
                           ELSE "fixtures"
                  /\ UNCHANGED <<input, tests>>
  BY DEF ParseFixture
<1> DEFINE library == Head(line).library
           file == FileOf(library, granted)
           item == [kind |-> Head(line).prefix, symbol |-> PointerTo(library, file.array)]
           out == ArrayAppend(test.fixtures, file.arena, file.blocks, FixtureSize, item, granted)
<1>2. /\ pc = "fixtures" /\ NamesFixture(line) /\ MemoryInv /\ FilesOK(test_files, blocks)
      /\ input \in Seq(Lines)
  BY DEF ParseFixture, ParsedInv
<1>3. CASE file.result = "memory" \/ out.result = "memory"
  <2>1. Fail(file.arena) \/ Fail(out.arena)
    BY <1>1, <1>3
  <2>2. input' = input /\ pc' \in {"failed", "aborted"}
    BY <2>1 DEF Fail
  <2>3. pc' = "failed"
    BY <2>2 DEF MemoryInv
  <2> QED
    BY <2>2, <2>3, FailParsed
<1>4. CASE file.result # "memory" /\ out.result # "memory"
  <2>1. PICK before \in Seq(Lines), l \in Lines : Before(before, l) /\ InFixtures(l)
    BY <1>2 DEF ParsedInv
  <2>2. PICK k \in 1..Len(l) :
             /\ IsTest(l) /\ Fixtures(l, k) /\ Rest(l, k, line)
             /\ Means(test, Partial(l, k), blocks, test_files.data)
    BY <2>1 DEF InFixtures
  <2>3. /\ line \in Seq([prefix : STRING, library : STRING]) /\ Len(line) = Len(l) - k
        /\ \A i \in 1..Len(line) : line[i] = l[k + i]
        /\ line # <<>> /\ Len(l) \in Nat
    BY <1>2, <2>2, LinesAre DEF Rest, NamesFixture
  <2>4. /\ Len(line) \in Nat /\ Len(line) # 0 /\ Head(line) = line[1]
        /\ Tail(line) \in Seq([prefix : STRING, library : STRING])
        /\ Len(Tail(line)) = Len(line) - 1
        /\ \A i \in 1..Len(Tail(line)) : Tail(line)[i] = line[i + 1]
    <3> DEFINE Items == [prefix : STRING, library : STRING]
    <3>1. line \in Seq(Items) /\ line # <<>>
      BY <2>3
    <3> HIDE DEF Items
    <3>2. Len(line) \in Nat /\ Len(line) # 0 /\ Head(line) = line[1]
      BY <3>1
    <3>3. /\ Tail(line) \in Seq(Items) /\ Len(Tail(line)) = Len(line) - 1
          /\ \A i \in 1..Len(Tail(line)) : Tail(line)[i] = line[i + 1]
      BY <3>1, <3>2
    <3> QED
      BY <3>2, <3>3 DEF Items
  <2>5. k # Len(l) /\ k + 1 \in 1..Len(l) /\ Head(line) = l[k + 1]
    BY <2>3, <2>4
  <2>6. library = l[k + 1].library /\ library \in Libraries /\ IsFixture(l[k + 1])
        /\ library # Malformed
    BY <1>2, <2>5, LinesAre DEF NamesFixture
  <2> HIDE DEF library
  <2>7. /\ file.result = "ok" /\ ArrayOK(file.array, FileSize)
        /\ Running(file.arena, file.blocks, file.array, tests, test.fixtures)
        /\ Extended(blocks, file.blocks) /\ file.array.data # Null
    BY <1>2, <1>4, FileOfRuns DEF Growing
  <2>8. /\ FilesOK(file.array, file.blocks)
        /\ FilesMove(test_files.data, blocks, file.array.data)
        /\ PointsTo(PointerTo(library, file.array), library, file.blocks, file.array.data)
    BY <1>2, <1>4, <2>6, FileOfPoints
  <2>9. /\ item.kind = l[k + 1].prefix /\ item.symbol = PointerTo(library, file.array)
    BY <2>5
  <2> HIDE DEF item
  <2>10. /\ AppendedTo(test.fixtures, file.arena, file.blocks, FixtureSize, item, out)
         /\ Running(out.arena, out.blocks, file.array, tests, out.array)
         /\ Extended(file.blocks, out.blocks)
    BY <1>2, <1>4, FixtureOutcome DEF NotAppended
  <2>11. /\ blocks' = out.blocks /\ test_files' = file.array
         /\ test' = [test EXCEPT !.fixtures = out.array]
         /\ line' = Tail(line) /\ pc' = "fixtures" /\ input' = input /\ tests' = tests
    <3>1. out.result = "ok"
      BY <2>10 DEF AppendedTo
    <3> QED
      BY <1>1, <1>4, <2>7, <3>1 DEF library, item
  <2> HIDE DEF file, out
  <2>12. test = [symbol |-> test.symbol, fixtures |-> test.fixtures] /\ test.fixtures \in ArrayOf
    BY <1>2 DEF MemoryInv
  <2>13. test' = [symbol |-> test.symbol, fixtures |-> out.array]
    BY <2>11, <2>12
  <2>14. Means(test, Partial(l, k), file.blocks, file.array.data)
    BY <2>2, <2>7, <2>8, PartialMeans, MeansLater
  <2>15. Means(test', Partial(l, k + 1), out.blocks, file.array.data)
    <3>1. Means([symbol |-> test.symbol, fixtures |-> test.fixtures], Partial(l, k),
                file.blocks, file.array.data)
      BY <2>12, <2>14
    <3>2. file.array.data # out.array.data
      BY <2>7, <2>10 DEF Running, Separate
    <3>3. BlocksOK(file.arena, file.blocks) /\ Live(test.fixtures, file.blocks)
      BY <2>7 DEF Running
    <3>4. PointsTo(item.symbol, l[k + 1].library, file.blocks, file.array.data)
      BY <2>6, <2>8, <2>9
    <3>5. Means([symbol |-> test.symbol, fixtures |-> out.array], Partial(l, k + 1),
                out.blocks, file.array.data)
      BY <2>5, <2>9, <2>10, <2>12, <3>1, <3>2, <3>3, <3>4, FixtureMeans
    <3> QED
      BY <2>13, <3>5
  <2>16. InFixtures(l)'
    <3>1. Fixtures(l, k + 1)
      BY <2>2, <2>5, <2>6 DEF Fixtures
    <3>2. Rest(l, k + 1, line')
      <4>1. Len(Tail(line)) = Len(l) - (k + 1)
        BY <2>3, <2>4
      <4>2. \A i \in 1..Len(Tail(line)) : Tail(line)[i] = l[(k + 1) + i]
        <5> SUFFICES ASSUME NEW i \in 1..Len(Tail(line))
                     PROVE  Tail(line)[i] = l[(k + 1) + i]
          OBVIOUS
        <5>1. i + 1 \in 1..Len(line) /\ k + (i + 1) = (k + 1) + i
          BY <2>3, <2>4
        <5> QED
          BY <2>3, <2>4, <5>1
      <4> QED
        BY <2>4, <2>11, <4>1, <4>2 DEF Rest
    <3>3. /\ k + 1 \in 1..Len(l) /\ IsTest(l) /\ Fixtures(l, k + 1) /\ Rest(l, k + 1, line')
          /\ Means(test', Partial(l, k + 1), blocks', test_files'.data)
      BY <2>2, <2>5, <2>11, <2>15, <3>1, <3>2
    <3> QED
      BY <3>3 DEF InFixtures
  <2>17. Extended(blocks, out.blocks)
    BY <2>7, <2>10, ExtendedTwice
  <2>18. TestsMean(tests, AllDefined(before), out.blocks, file.array.data)
    <3>1. /\ Live(tests, blocks) /\ tests \in ArrayOf
          /\ tests.data = Null => tests.length = 0
      BY <1>2 DEF MemoryInv, Running, ArrayOK, ArrayOf
    <3> QED
      BY <2>1, <2>8, <2>17, <3>1, TestsLater DEF Before
  <2>19. Before(before, l)'
    BY <2>1, <2>11, <2>18 DEF Before
  <2>20. FilesOK(file.array, out.blocks)
    <3>1. \A i \in 1..file.array.length :
             out.blocks[file.array.data][i] = file.blocks[file.array.data][i]
      BY <2>7, <2>10 DEF Extended, Running, Live
    <3> QED
      BY <2>8, <3>1 DEF FilesOK
  <2> QED
    BY <1>2, <2>11, <2>16, <2>19, <2>20 DEF ParsedInv
<1> QED
  BY <1>3, <1>4

\* The test of the line behind those of the lines before it.
LEMMA AddTestParsed == ASSUME ParsedInv, MemoryInv', AddTest PROVE ParsedInv'
<1>1. PICK granted \in BOOLEAN :
         LET out == ArrayAppend(tests, arena, blocks, TestSize, test, granted)
         IN  /\ arena' = out.arena /\ blocks' = out.blocks
             /\ tests' = out.array
             /\ pc' = IF out.result = "ok" THEN "line"
                      ELSE IF out.result = "memory" THEN "failed" ELSE "aborted"
  BY DEF AddTest
<1> DEFINE out == ArrayAppend(tests, arena, blocks, TestSize, test, granted)
           F == test_files.data
<1>2. /\ pc = "fixtures" /\ test_files' = test_files /\ input' = input
      /\ line # <<>> => IsFixture(Head(line)) /\ Head(line).library = Malformed
      /\ MemoryInv /\ FilesOK(test_files, blocks) /\ input \in Seq(Lines)
  BY DEF AddTest, ParsedInv
<1>3. /\ ArenaOK(arena) /\ ArrayOK(tests, TestSize) /\ tests \in ArrayOf
      /\ Running(arena, blocks, test_files, tests, test.fixtures)
      /\ tests.data = Null => tests.length = 0
  BY <1>2 DEF MemoryInv, Growing, ArrayOK, ArrayOf
<1>4. AppendedTo(tests, arena, blocks, TestSize, test, out) \/ NotAppended(tests, blocks, out)
  BY <1>3, AppendOutcome, ElementSizes DEF Running
<1>5. /\ arena' = out.arena /\ blocks' = out.blocks /\ tests' = out.array
      /\ pc' = IF out.result = "ok" THEN "line"
               ELSE IF out.result = "memory" THEN "failed" ELSE "aborted"
  BY <1>1
<1> HIDE DEF out
<1>6. CASE NotAppended(tests, blocks, out)
  <2>1. pc' = "failed"
    BY <1>5, <1>6 DEF NotAppended
  <2> QED
    BY <1>2, <2>1, FailParsed
<1>7. CASE AppendedTo(tests, arena, blocks, TestSize, test, out)
  <2>1. PICK before \in Seq(Lines), l \in Lines : Before(before, l) /\ InFixtures(l)
    BY <1>2 DEF ParsedInv
  <2>2. PICK k \in 1..Len(l) :
             /\ IsTest(l) /\ Fixtures(l, k) /\ Rest(l, k, line)
             /\ Means(test, Partial(l, k), blocks, F)
    BY <2>1 DEF InFixtures
  <2> DEFINE meanings == AllDefined(before)
             m == Partial(l, k)
  <2>3. /\ input = Append(before, l) /\ TestsMean(tests, meanings, blocks, F)
        /\ meanings \in Seq(Meanings) /\ tests.length = Len(meanings)
    BY <2>1 DEF Before, TestsMean
  <2>4. m \in Meanings
    BY PartialMeans
  <2>5. Defined(l) = <<m>>
    <3>1. CASE line = <<>>
      <4>1. Len(line) = 0 /\ Len(l) \in Nat /\ Len(line) = Len(l) - k
        BY <2>2, <3>1, LinesAre DEF Rest
      <4>2. k = Len(l)
        BY <4>1
      <4> QED
        BY <2>2, <4>2, DefinedByLine
    <3>2. CASE line # <<>>
      <4>1. Len(line) # 0 /\ Len(line) \in Nat /\ Head(line) = line[1]
        BY <2>2, <3>2 DEF Rest
      <4>2. k # Len(l) /\ line[1] = l[k + 1]
        BY <2>2, <4>1, LinesAre DEF Rest
      <4> QED
        BY <1>2, <2>2, <3>2, <4>1, <4>2, DefinedByLine
    <3> QED
      BY <3>1, <3>2
  <2>6. AllDefined(input) = Append(meanings, m)
    <3>1. AllDefined(input) = meanings \o <<m>>
      BY <2>3, <2>5, AllDefinedGrows
    <3> HIDE DEF meanings, m
    <3> QED
      BY <2>3, <2>4, <3>1
  <2>7. pc' = "line" /\ out.array.length = tests.length + 1
    BY <1>5, <1>7 DEF AppendedTo
  <2>8. /\ Extended(blocks, out.blocks)
        /\ out.blocks[out.array.data][tests.length + 1] = test
        /\ tests.data # Null => \A i \in 1..tests.length :
              out.blocks[out.array.data][i] = blocks[tests.data][i]
    BY <1>3, <1>7, AppendedBlocks DEF Running
  <2>9. FilesMove(F, blocks, F)
    BY DEF FilesMove
  <2>10. Means(test, m, out.blocks, F)
    BY <2>2, <2>4, <2>8, <2>9, MeansLater
  <2> HIDE DEF meanings, m, F
  <2>11. TestsMean(tests, meanings, out.blocks, F)
    BY <1>3, <2>3, <2>8, <2>9, TestsLater DEF Running
  <2>12. /\ Append(meanings, m) \in Seq(Meanings) /\ Len(meanings) \in Nat
         /\ Len(Append(meanings, m)) = Len(meanings) + 1
         /\ \A i \in 1..Len(meanings) : Append(meanings, m)[i] = meanings[i]
         /\ Append(meanings, m)[Len(meanings) + 1] = m
    BY <2>3, <2>4
  <2>13. ASSUME NEW i \in 1..(Len(meanings) + 1)
         PROVE  Means(out.blocks[out.array.data][i], Append(meanings, m)[i], out.blocks, F)
    <3>1. CASE i = Len(meanings) + 1
      BY <2>3, <2>8, <2>10, <2>12, <3>1
    <3>2. CASE i # Len(meanings) + 1
      <4>1. i \in 1..Len(meanings) /\ tests.length # 0
        BY <2>3, <2>12, <3>2
      <4>2. out.blocks[out.array.data][i] = blocks[tests.data][i] /\ tests.data \in DOMAIN blocks
            /\ Len(blocks[tests.data]) = tests.length
        BY <1>3, <2>3, <2>8, <4>1 DEF Running, Live
      <4>3. out.blocks[tests.data][i] = blocks[tests.data][i]
        BY <2>3, <2>8, <4>1, <4>2 DEF Extended
      <4>4. Means(out.blocks[tests.data][i], meanings[i], out.blocks, F)
        BY <2>11, <4>1 DEF TestsMean
      <4> QED
        BY <2>12, <4>1, <4>2, <4>3, <4>4
    <3> QED
      BY <3>1, <3>2
  <2>14. TestsMean(out.array, Append(meanings, m), out.blocks, F)
    BY <2>3, <2>7, <2>12, <2>13 DEF TestsMean
  <2>15. FilesOK(test_files, out.blocks)
    <3>1. F # Null => \A i \in 1..test_files.length : out.blocks[F][i] = blocks[F][i]
      BY <1>3, <2>8 DEF Extended, Running, Live, F
    <3> QED
      BY <1>2, <3>1 DEF FilesOK, F
  <2> QED
    BY <1>2, <1>5, <2>6, <2>7, <2>14, <2>15 DEF ParsedInv, F
<1> QED
  BY <1>4, <1>6, <1>7

LEMMA LoadParsed == ASSUME ParsedInv, MemoryInv', LoadLibraries PROVE ParsedInv'
<1> DEFINE n == test_files.length
           F == test_files.data
           loaded == [i \in 1..n |->
                        LET name == Elements(test_files)[i].name
                        IN  [name |-> name, loaded |-> name \in Loadable]]
<1>1. /\ pc = "load" /\ pc' = "ready"
      /\ blocks' = IF n = 0 THEN blocks ELSE Put(blocks, F, loaded)
      /\ UNCHANGED <<input, arena, test_files, tests, test>>
  BY DEF LoadLibraries
<1>2. /\ MemoryInv /\ input \in Seq(Lines) /\ FilesOK(test_files, blocks)
      /\ TestsMean(tests, AllDefined(input), blocks, F)
      /\ ArrayOK(test_files, FileSize)
      /\ Running(arena, blocks, test_files, tests, Growing)
  BY <1>1 DEF ParsedInv, MemoryInv
<1>3. /\ n \in Nat /\ (n # 0 => F # Null)
      /\ \A i \in 1..n : Elements(test_files)[i] = blocks[F][i]
  BY <1>2, LiveElements DEF Running
<1>4. CASE n = 0
  <2>1. blocks' = blocks
    BY <1>1, <1>4
  <2> QED
    BY <1>1, <1>2, <1>4, <2>1 DEF ParsedInv
<1>5. CASE n # 0
  <2>1. F # Null /\ F \in DOMAIN blocks /\ Len(blocks[F]) = n
    BY <1>2, <1>3, <1>5 DEF Running, Live
  <2>2. \A i \in 1..n : /\ loaded[i].name = blocks[F][i].name
                        /\ loaded[i].loaded = (blocks[F][i].name \in Loadable)
    BY <1>3
  <2>3. Len(loaded) = n
    BY <1>3
  <2> HIDE DEF loaded
  <2>4. /\ DOMAIN blocks' = DOMAIN blocks /\ blocks'[F] = loaded
        /\ \A x \in DOMAIN blocks : x # F => blocks'[x] = blocks[x]
    BY <1>1, <1>5, <2>1 DEF Put
  <2>5. \A t, m : Means(t, m, blocks, F) => Means(t, m, blocks', F)
    <3> SUFFICES ASSUME NEW t, NEW m, Means(t, m, blocks, F)
                 PROVE  Means(t, m, blocks', F)
      OBVIOUS
    <3> HIDE DEF F, n
    <3> QED
      BY <2>1, <2>2, <2>3, <2>4, MeansLoaded
  <2>6. TestsMean(tests, AllDefined(input), blocks', F)
    <3>1. tests.data # Null => tests.data # F /\ tests.data \in DOMAIN blocks
      BY <1>2, <2>1 DEF Running, Separate, Live
    <3>2. tests.length # 0 => tests.data # Null
      BY <1>2 DEF MemoryInv, ArrayOK, ArrayOf
    <3>3. Len(AllDefined(input)) \in Nat /\ tests.length = Len(AllDefined(input))
      BY <1>2 DEF TestsMean
    <3>4. ASSUME NEW i \in 1..Len(AllDefined(input))
          PROVE  Means(blocks'[tests.data][i], AllDefined(input)[i], blocks', F)
      <4>1. blocks'[tests.data] = blocks[tests.data]
        BY <2>4, <3>1, <3>2, <3>3
      <4>2. Means(blocks[tests.data][i], AllDefined(input)[i], blocks, F)
        BY <1>2 DEF TestsMean
      <4> QED
        BY <2>5, <4>1, <4>2
    <3> QED
      BY <1>2, <3>4 DEF TestsMean
  <2>7. FilesOK(test_files, blocks')
    BY <1>2, <2>1, <2>2, <2>4 DEF FilesOK
  <2>8. \A i \in 1..n : blocks'[F][i].name \in Loadable => blocks'[F][i].loaded
    BY <2>2, <2>4
  <2> QED
    BY <1>1, <1>2, <2>6, <2>7, <2>8 DEF ParsedInv
<1> QED
  BY <1>4, <1>5

LEMMA ParsedKept == ParsedInv /\ [Next]_vars => ParsedInv'
<1> SUFFICES ASSUME ParsedInv, [Next]_vars PROVE ParsedInv'
  OBVIOUS
<1>1. MemoryInv /\ MemoryInv'
  BY MemoryKept DEF ParsedInv
<1>2. CASE ReadLine
  BY <1>1, <1>2, ReadLineParsed
<1>3. CASE NoMemory
  <2>1. pc # "failed" /\ Fail(arena)
    BY <1>3 DEF NoMemory
  <2>2. pc' = "failed" /\ input' = input
    BY <1>1, <2>1, FailKeepsMemory DEF MemoryInv, Running, Fail
  <2> QED
    BY <1>1, <2>2, FailParsed
<1>4. CASE EndOfInput
  BY <1>1, <1>4, EndOfInputParsed
<1>5. CASE SkipLine
  BY <1>1, <1>5, SkipLineParsed
<1>6. CASE ParseTest
  BY <1>1, <1>6, ParseTestParsed
<1>7. CASE DropTest
  BY <1>1, <1>7, DropTestParsed
<1>8. CASE ParseFixture
  BY <1>1, <1>8, ParseFixtureParsed
<1>9. CASE AddTest
  BY <1>1, <1>9, AddTestParsed
<1>10. CASE LoadLibraries
  BY <1>1, <1>10, LoadParsed
<1>11. CASE UNCHANGED vars
  BY <1>1, <1>11 DEF vars, ParsedInv, Before, InFixtures
<1> QED
  BY <1>2, <1>3, <1>4, <1>5, <1>6, <1>7, <1>8, <1>9, <1>10, <1>11 DEF Next
-----------------------------------------------------------------------------
(* The theorems about the tests and their libraries.                         *)

\* The fixtures of a test, read from their block.
LEMMA FixtureElements ==
    ASSUME BlocksOK(arena, blocks), NEW t, NEW m \in Meanings, NEW files,
           Means(t, m, blocks, files)
    PROVE  /\ Len(m.fixtures) \in Nat
           /\ DOMAIN Elements(t.fixtures) = 1..Len(m.fixtures)
           /\ \A i \in 1..Len(m.fixtures) :
                 /\ Elements(t.fixtures)[i].kind = m.fixtures[i][1]
                 /\ PointsTo(Elements(t.fixtures)[i].symbol, m.fixtures[i][2], blocks, files)
<1> DEFINE D == t.fixtures.data
           n == Len(m.fixtures)
<1>1. n \in Nat /\ t.fixtures.length = n
  BY DEF Means, Meanings
<1>2. CASE D = Null
  <2>1. Elements(t.fixtures) = <<>> /\ n = 0
    BY <1>1, <1>2 DEF Elements, Means
  <2> QED
    BY <1>1, <2>1
<1>3. CASE D # Null
  <2>1. /\ D \in DOMAIN blocks /\ n <= Len(blocks[D])
        /\ \A i \in 1..n : /\ blocks[D][i].kind = m.fixtures[i][1]
                           /\ PointsTo(blocks[D][i].symbol, m.fixtures[i][2], blocks, files)
    BY <1>1, <1>3 DEF Means
  <2>2. IsSeq(blocks[D])
    BY <2>1 DEF BlocksOK
  <2>3. PICK S : blocks[D] \in Seq(S)
    BY <2>2 DEF IsSeq
  <2>4. Elements(t.fixtures) = SubSeq(blocks[D], 1, n)
    BY <1>1, <1>3 DEF Elements
  <2> HIDE DEF D, n
  <2>5. /\ DOMAIN SubSeq(blocks[D], 1, n) = 1..n
        /\ \A i \in 1..n : SubSeq(blocks[D], 1, n)[i] = blocks[D][i]
    BY <1>1, <2>1, <2>3
  <2> QED
    BY <1>1, <2>1, <2>4, <2>5 DEF n
<1> QED
  BY <1>2, <1>3

LEMMA MeaningOf ==
    ASSUME BlocksOK(arena, blocks), NEW t, NEW m \in Meanings, NEW files,
           Means(t, m, blocks, files)
    PROVE  Meaning(t) = m
<1> DEFINE n == Len(m.fixtures)
           read == [i \in DOMAIN Elements(t.fixtures) |->
                      <<Elements(t.fixtures)[i].kind, FileAt(Elements(t.fixtures)[i].symbol).name>>]
<1>1. /\ n \in Nat /\ DOMAIN Elements(t.fixtures) = 1..n
      /\ \A i \in 1..n :
            /\ Elements(t.fixtures)[i].kind = m.fixtures[i][1]
            /\ PointsTo(Elements(t.fixtures)[i].symbol, m.fixtures[i][2], blocks, files)
  BY FixtureElements
<1>2. FileAt(t.symbol).name = m.library
  BY DEF Means, PointsTo, FileAt
<1>3. \A i \in 1..n : FileAt(Elements(t.fixtures)[i].symbol).name = m.fixtures[i][2]
  BY <1>1 DEF PointsTo, FileAt
<1>4. /\ m = [library |-> m.library, fixtures |-> m.fixtures]
      /\ m.fixtures \in Seq(STRING \X STRING)
  BY DEF Meanings
<1>5. /\ m.fixtures = [i \in 1..n |-> m.fixtures[i]]
      /\ \A i \in 1..n : m.fixtures[i] = <<m.fixtures[i][1], m.fixtures[i][2]>>
  <2> DEFINE Pairs == STRING \X STRING
             f == m.fixtures
  <2>1. f \in [1..n -> Pairs]
    <3> HIDE DEF Pairs
    <3> QED
      BY <1>4, LenProperties DEF Pairs
  <2>2. f = [i \in 1..n |-> f[i]]
    BY <2>1
  <2>3. \A i \in 1..n : f[i] \in Pairs
    BY <2>1
  <2>4. \A p \in Pairs : p = <<p[1], p[2]>>
    OBVIOUS
  <2> QED
    BY <2>2, <2>3, <2>4
<1>6. read = [i \in 1..n |-> <<m.fixtures[i][1], m.fixtures[i][2]>>]
  BY <1>1, <1>3
<1>7. [i \in 1..n |-> <<m.fixtures[i][1], m.fixtures[i][2]>>] = [i \in 1..n |-> m.fixtures[i]]
  BY <1>5
<1>8. read = m.fixtures
  BY <1>5, <1>6, <1>7
<1>9. Meaning(t) = [library |-> FileAt(t.symbol).name, fixtures |-> read]
  BY DEF Meaning
<1> HIDE DEF read
<1> QED
  BY <1>2, <1>4, <1>8, <1>9

LEMMA ParsedAsMeant == ASSUME ParsedInv PROVE ParsedAsDefined
<1> SUFFICES ASSUME pc \in {"load", "ready"}
             PROVE  [i \in DOMAIN Elements(tests) |-> Meaning(Elements(tests)[i])]
                      = FlattenSeq([i \in DOMAIN input |-> Defined(input[i])])
  BY DEF ParsedAsDefined
<1> DEFINE meanings == AllDefined(input)
           F == test_files.data
<1>1. /\ MemoryInv /\ TestsMean(tests, meanings, blocks, F)
      /\ ArrayOK(tests, TestSize) /\ Running(arena, blocks, test_files, tests, Growing)
  BY DEF ParsedInv, MemoryInv
<1>2. /\ DOMAIN Elements(tests) = 1..tests.length
      /\ \A i \in 1..tests.length : Elements(tests)[i] = blocks[tests.data][i]
  BY <1>1, LiveElements DEF Running
<1>3. /\ meanings \in Seq(Meanings) /\ tests.length = Len(meanings)
      /\ \A i \in 1..Len(meanings) : Means(blocks[tests.data][i], meanings[i], blocks, F)
  BY <1>1 DEF TestsMean
<1> HIDE DEF meanings, F
<1>4. ASSUME NEW i \in 1..tests.length
      PROVE  Meaning(Elements(tests)[i]) = meanings[i]
  <2>1. Means(Elements(tests)[i], meanings[i], blocks, F) /\ meanings[i] \in Meanings
    BY <1>2, <1>3
  <2> QED
    BY <1>1, <2>1, MeaningOf DEF Running
<1>5. [i \in DOMAIN Elements(tests) |-> Meaning(Elements(tests)[i])]
        = [i \in 1..tests.length |-> meanings[i]]
  BY <1>2, <1>4
<1>6. meanings = [i \in 1..tests.length |-> meanings[i]]
  BY <1>3
<1> QED
  BY <1>5, <1>6 DEF meanings, AllDefined

LEMMA SymbolsPoint ==
    ASSUME ParsedInv, pc = "ready", NEW s \in Symbols
    PROVE  \E library : PointsTo(s, library, blocks, test_files.data)
<1> DEFINE meanings == AllDefined(input)
           F == test_files.data
<1>1. /\ MemoryInv /\ TestsMean(tests, meanings, blocks, F)
      /\ ArrayOK(tests, TestSize) /\ Running(arena, blocks, test_files, tests, Growing)
  BY DEF ParsedInv, MemoryInv
<1>2. /\ DOMAIN Elements(tests) = 1..tests.length
      /\ \A i \in 1..tests.length : Elements(tests)[i] = blocks[tests.data][i]
  BY <1>1, LiveElements DEF Running
<1>3. PICK t \in ToSet(Elements(tests)) :
         s \in {t.symbol} \cup {f.symbol : f \in ToSet(Elements(t.fixtures))}
  BY DEF Symbols
<1>4. PICK i \in DOMAIN Elements(tests) : t = Elements(tests)[i]
  BY <1>3 DEF ToSet
<1>5. Means(t, meanings[i], blocks, F) /\ meanings[i] \in Meanings
  BY <1>1, <1>2, <1>4 DEF TestsMean
<1> HIDE DEF meanings, F
<1>6. CASE s = t.symbol
  BY <1>5, <1>6 DEF Means, F
<1>7. CASE s \in {f.symbol : f \in ToSet(Elements(t.fixtures))}
  <2>1. PICK k \in DOMAIN Elements(t.fixtures) : s = Elements(t.fixtures)[k].symbol
    BY <1>7 DEF ToSet
  <2>2. PointsTo(s, meanings[i].fixtures[k][2], blocks, F)
    BY <1>1, <1>5, <2>1, FixtureElements DEF Running
  <2> QED
    BY <2>2 DEF F
<1> QED
  BY <1>3, <1>6, <1>7

LEMMA SymbolsLoaded == ASSUME ParsedInv, Few PROVE SymbolsAreLoaded
<1> SUFFICES ASSUME pc = "ready", NEW s \in Symbols, FileAt(s).name \in Loadable
             PROVE  FileAt(s).loaded
  BY DEF SymbolsAreLoaded
<1> DEFINE F == test_files.data
<1>1. PICK library : PointsTo(s, library, blocks, F)
  BY SymbolsPoint
<1>2. s[1] = F /\ F \in DOMAIN blocks /\ s[2] \in 1..Len(blocks[F])
  BY <1>1 DEF PointsTo
<1>3. Running(arena, blocks, test_files, tests, Growing)
  BY DEF ParsedInv, MemoryInv
<1>4. F # Null
  BY <1>2, <1>3 DEF Running, BlocksOK, Settled, Within, Null
<1>5. Len(blocks[F]) = test_files.length
  BY <1>3, <1>4 DEF Running, Live
<1>6. \A i \in 1..test_files.length : blocks[F][i].name \in Loadable => blocks[F][i].loaded
  BY DEF ParsedInv
<1>7. FileAt(s) = blocks[F][s[2]]
  BY <1>2 DEF FileAt
<1> QED
  BY <1>2, <1>5, <1>6, <1>7

\* For any lines and any sizes: the tests that are run are those that the lines
\* define, in their order, each with its own libraries and fixtures, however often
\* the three kinds of arrays moved while pointers into them were kept (test.c).
THEOREM TestsAsDefined == Spec => []ParsedAsDefined
<1>1. Spec => []ParsedInv
  BY InitParsed, ParsedKept, PTL DEF Spec
<1>2. ParsedInv => ParsedAsDefined
  BY ParsedAsMeant
<1> QED
  BY <1>1, <1>2, PTL

\* When the lines name no more libraries than the first block has room for, every
\* library that can be loaded is loaded for every symbol that points to it.  The
\* hypothesis is what the code lacks: with more libraries the block moves and the
\* first symbols point to entries that are never loaded (main.c 164-167).
THEOREM LibrariesLoaded == ASSUME Few PROVE Spec => []SymbolsAreLoaded
<1>1. Spec => []ParsedInv
  BY InitParsed, ParsedKept, PTL DEF Spec
<1>2. ParsedInv => SymbolsAreLoaded
  BY SymbolsLoaded
<1> QED
  BY <1>1, <1>2, PTL
=============================================================================
