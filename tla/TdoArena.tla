------------------------------ MODULE TdoArena ------------------------------
(***************************************************************************)
(* The arena allocator of arena.c, as operators on the record it keeps:    *)
(* its nodes, the node it allocates from and the allocation it may still   *)
(* resize.  A pointer is <<node, offset>>, the offset counted from the     *)
(* start of the node's buffer; current and end are such offsets.           *)
(***************************************************************************)
EXTENDS Integers, Sequences, FiniteSetsExt

CONSTANTS
    Align,          \* TDO_ARENA_ALIGNMENT
    ArenaHeader,    \* sizeof(struct TdoArena)
    NodeHeader,     \* sizeof(struct TdoArenaNode)
    SizeMax,        \* SIZE_MAX
    MallocMax       \* the largest block malloc ever returns (PTRDIFF_MAX)

ASSUME ArenaAssumption ==
    /\ Align \in Nat \ {0}
    /\ ArenaHeader \in Nat /\ NodeHeader \in Nat
    /\ SizeMax \in Nat
    /\ MallocMax \in 0..(SizeMax \div 2)

Null == <<0, 0>>

ArenaInit(capacity) ==
    [nodes |-> <<[current |-> 0, end |-> capacity]>>, latest |-> 1, last |-> Null]

\* malloc aligns the block; the buffer starts behind the headers.
BufferStart(n) == IF n = 1 THEN ArenaHeader + NodeHeader ELSE NodeHeader

\* The first offset from the given one on where an object may start.
Aligned(n, offset) ==
    offset + ((Align - ((BufferStart(n) + offset) % Align)) % Align)

\* A slip: the size is compared with the space before the alignment.
FitsUnaligned(nodes, n, bytes) == nodes[n].current + bytes <= nodes[n].end

Fits(nodes, n, bytes) ==
    Aligned(n, nodes[n].current) + bytes <= nodes[n].end

\* A slip: the aligned address is computed and not used.
PlacedUnaligned(nodes, n, bytes) ==
    LET offset == nodes[n].current
    IN  [arena |-> [nodes |-> [nodes EXCEPT ![n].current = offset + bytes],
                    latest |-> n, last |-> <<n, offset>>],
         at |-> <<n, offset>>]

\* An allocation, and the arena after it; at is Null when it failed.
Placed(nodes, n, bytes) ==
    LET offset == Aligned(n, nodes[n].current)
    IN  [arena |-> [nodes |-> [nodes EXCEPT ![n].current = offset + bytes],
                    latest |-> n, last |-> <<n, offset>>],
         at |-> <<n, offset>>]

Refused(a) == [arena |-> a, at |-> Null]

\* The nodes the search went past: what is left of them is given up.
Skipped(a, upto) ==
    [n \in DOMAIN a.nodes |->
        IF n \in a.latest..upto THEN [a.nodes[n] EXCEPT !.current = a.nodes[n].end]
        ELSE a.nodes[n]]

GrownCapacity(a, bytes) == Max({2 * a.nodes[a.latest].end, bytes + Align})

CanGrow(a, bytes) ==
    /\ a.nodes[a.latest].end <= SizeMax \div 2
    /\ bytes <= SizeMax - Align
    /\ GrownCapacity(a, bytes) + NodeHeader <= MallocMax

Grown(a, bytes) ==
    Append(Skipped(a, Len(a.nodes)), [current |-> 0, end |-> GrownCapacity(a, bytes)])

Candidates(a, bytes) == {n \in a.latest..Len(a.nodes) : Fits(a.nodes, n, bytes)}

\* tdo_arena_alloc; granted: malloc has memory when the arena must grow.
Alloc(a, type_size, amount, granted) ==
    LET bytes == type_size * amount
        found == Candidates(a, bytes)
    IN  IF amount > SizeMax \div type_size THEN Refused(a)
        ELSE IF found # {}
             THEN Placed(Skipped(a, Min(found) - 1), Min(found), bytes)
        ELSE IF granted /\ CanGrow(a, bytes)
             THEN Placed(Grown(a, bytes), Len(a.nodes) + 1, bytes)
        ELSE Refused([a EXCEPT !.nodes = Skipped(a, Len(a.nodes))])

\* The two checks of tdo_arena_alloc that end the program.
AllocAborts(a, type_size, amount, granted) ==
    LET bytes == type_size * amount
    IN  /\ amount <= SizeMax \div type_size
        /\ Candidates(a, bytes) = {}
        /\ \/ a.latest # Len(a.nodes)
           \/ granted /\ CanGrow(a, bytes)
                      /\ ~Fits(Grown(a, bytes), Len(a.nodes) + 1, bytes)

\* tdo_arena_resize: only the last allocation, and only inside its node.  The
\* overflow check subtracts where it should divide.
ResizeBytes(type_size, amount) == (type_size * amount) % (SizeMax + 1)

\* A slip: any allocation of the latest node may be resized.
CanResizeAny(a, at, type_size, amount) ==
    /\ at # Null /\ at[1] = a.latest
    /\ amount <= SizeMax - type_size
    /\ Aligned(at[1], at[2]) + ResizeBytes(type_size, amount) <= a.nodes[a.latest].end

CanResize(a, at, type_size, amount) ==
    /\ at # Null /\ a.last = at
    /\ amount <= SizeMax - type_size
    /\ Aligned(at[1], at[2]) + ResizeBytes(type_size, amount) <= a.nodes[a.latest].end

Resize(a, at, type_size, amount) ==
    [a EXCEPT !.nodes[a.latest].current = at[2] + ResizeBytes(type_size, amount)]

\* The pointer is not one of the latest node, or not aligned.
ResizeAborts(a, at) ==
    /\ at # Null /\ a.last = at
    /\ at[1] # a.latest \/ Aligned(at[1], at[2]) # at[2]

StateGet(a) == <<a.latest, a.nodes[a.latest].current>>

\* tdo_arena_state_set leaves latest and last_allocation as they are.
StateSet(a, state) ==
    [a EXCEPT !.nodes =
        [n \in DOMAIN a.nodes |->
            [a.nodes[n] EXCEPT !.current =
                IF n < state[1] THEN a.nodes[n].end
                ELSE IF n = state[1] THEN state[2] ELSE 0]]]

StateSetAborts(a, state) == a.nodes[state[1]].current < state[2]
=============================================================================
