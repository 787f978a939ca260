-------------------------------- MODULE Heap --------------------------------
(***************************************************************************)
(* The guest heap: CRTState.simple_alloc and simple_free                   *)
(* (tew/api/_state.py) and the handlers that call them: HeapAlloc,         *)
(* HeapFree, HeapReAlloc, malloc, free, realloc, IMalloc, LocalAlloc.      *)
(*                                                                         *)
(* Blocks are handed out first-fit from a list of freed blocks, else by    *)
(* moving a cursor.  Sizes are recorded as asked for, while the space a    *)
(* block takes is rounded up to 16 bytes.                                  *)
(***************************************************************************)
EXTENDS Integers, Sequences, SequencesExt

CONSTANTS
    HEAP_BASE,
    THREAD_STACK_BASE,   \* the heap must stay below it
    Sizes                \* the sizes the guest asks for

ASSUME BaseAssumption  == HEAP_BASE \in Nat /\ HEAP_BASE % 16 = 0
ASSUME LimitAssumption == THREAD_STACK_BASE \in Nat /\ HEAP_BASE <= THREAD_STACK_BASE
ASSUME SizesAssumption == Sizes \subseteq Nat

VARIABLES
    next_heap_alloc,   \* the cursor
    live,              \* heap_alloc_sizes: the blocks handed out
    heap_free_list,    \* freed blocks, searched first-fit
    failed             \* an allocation raised: the program is over

vars == <<next_heap_alloc, live, heap_free_list, failed>>

Block == [addr : Nat, size : Nat]
At(a, n) == [addr |-> a, size |-> n]

TypeOK ==
    /\ next_heap_alloc \in Nat
    /\ live \subseteq Block
    /\ heap_free_list \in Seq(Block)
    /\ failed \in BOOLEAN

Init ==
    /\ next_heap_alloc = HEAP_BASE
    /\ live = {}
    /\ heap_free_list = << >>
    /\ failed = FALSE

-----------------------------------------------------------------------------
\* (n + 15) & ~15, of the two places that round.
Aligned(n) == 16 * ((n + 15) \div 16)

\* bump_alloc_next, of the native library, by the formula its binding gives;
\* the sizes are such that the sum stays within 32 bits.
BumpNext(cursor, n) == Aligned(cursor + n)

\* heap_alloc_sizes[a] = n, which overwrites an entry for the same address.
Recorded(a, n) == {b \in live : b.addr # a} \cup {At(a, n)}

Fits(i, n) ==
    /\ i \in DOMAIN heap_free_list
    /\ heap_free_list[i].size >= n

FirstFit(i, n) == Fits(i, n) /\ \A j \in DOMAIN heap_free_list : j < i => ~ Fits(j, n)

\* Mutant of Remainder: the block is never split.
Remainder_Never(b, n) == << >>

\* What is left of the free block b when n bytes of it are used.
Remainder(b, n) ==
    IF Aligned(n) < b.size
    THEN << At(b.addr + Aligned(n), b.size - Aligned(n)) >>
    ELSE << >>

NoFit(n) == \A i \in DOMAIN heap_free_list : ~ Fits(i, n)

\* Mutant of FromList: the block stays in the free list.
FromList_Keeps(i, n) ==
    LET b == heap_free_list[i]
    IN  [cursor |-> next_heap_alloc,
         blocks |-> Recorded(b.addr, n),
         list   |-> heap_free_list]

\* The tables as simple_alloc(n) leaves them, taking the i-th free block ...
FromList(i, n) ==
    LET b == heap_free_list[i]
    IN  [cursor |-> next_heap_alloc,
         blocks |-> Recorded(b.addr, n),
         list   |-> RemoveAt(heap_free_list, i) \o Remainder(b, n)]

\* ... or moving the cursor.
FromCursor(n) ==
    [cursor |-> BumpNext(next_heap_alloc, n),
     blocks |-> Recorded(next_heap_alloc, n),
     list   |-> heap_free_list]

simple_alloc(n) ==
    IF NoFit(n)
    THEN {FromCursor(n)}
    ELSE {FromList(i, n) : i \in {j \in DOMAIN heap_free_list : FirstFit(j, n)}}

-----------------------------------------------------------------------------
(* The callers: t is what simple_alloc left them.                          *)

\* "heap allocator ran into THREAD_STACK_BASE", before anything is written.
Raises(t) ==
    /\ t.cursor > THREAD_STACK_BASE
    /\ failed' = TRUE
    /\ UNCHANGED <<next_heap_alloc, live, heap_free_list>>

\* The caller returns, having made the tables blocks and list.
Returns(t, blocks, list) ==
    /\ t.cursor <= THREAD_STACK_BASE
    /\ next_heap_alloc' = t.cursor
    /\ live' = blocks
    /\ heap_free_list' = list
    /\ UNCHANGED failed

NonZero(n) == IF n = 0 THEN 1 ELSE n

\* HeapAlloc, malloc, calloc, operator new and IMalloc::Alloc, which never
\* pass a size of zero on; also HeapReAlloc and realloc of a null pointer.
HeapAlloc(n) ==
    /\ ~ failed
    /\ \E t \in simple_alloc(NonZero(n)) : Returns(t, t.blocks, t.list) \/ Raises(t)

\* LocalAlloc and GlobalAlloc, which do.
LocalAlloc(n) ==
    /\ ~ failed
    /\ \E t \in simple_alloc(n) : Returns(t, t.blocks, t.list) \/ Raises(t)

simple_free(b) ==
    /\ live' = live \ {b}
    /\ heap_free_list' = Append(heap_free_list, b)
    /\ UNCHANGED <<next_heap_alloc, failed>>

\* HeapFree, free and operator delete.
HeapFree(b) == ~ failed /\ simple_free(b)

\* HeapReAlloc: allocate, copy, free the old block.
HeapReAlloc(b, n) ==
    /\ ~ failed
    /\ \E t \in simple_alloc(NonZero(n)) :
          \/ \E c \in t.blocks : /\ c.addr = b.addr
                                 /\ Returns(t, t.blocks \ {c}, Append(t.list, c))
          \/ Raises(t)

\* realloc of msvcrt: allocate and copy; the old block stays handed out.
realloc(b, n) ==
    /\ ~ failed
    /\ n > 0
    /\ \E t \in simple_alloc(n) : Returns(t, t.blocks, t.list) \/ Raises(t)

\* IMalloc::Free, and Realloc to size zero: the block is forgotten, and its
\* memory with it.
IMallocFree(b) ==
    /\ ~ failed
    /\ live' = live \ {b}
    /\ UNCHANGED <<next_heap_alloc, heap_free_list, failed>>

IMallocRealloc(b, n) ==
    /\ ~ failed
    /\ n > 0
    /\ \E t \in simple_alloc(n) :
          \/ Returns(t, {c \in t.blocks : c.addr # b.addr}, t.list)
          \/ Raises(t)

\* The blocks of HeapAlloc and its like.  (LocalFree and GlobalFree do not
\* reach the allocator, and only their blocks can have a size of zero.)
Freeable == {b \in live : b.size > 0}

Next ==
    \/ \E n \in Sizes : HeapAlloc(n) \/ LocalAlloc(n)
    \/ \E b \in Freeable : HeapFree(b) \/ IMallocFree(b)
    \/ \E b \in Freeable, n \in Sizes :
          HeapReAlloc(b, n) \/ realloc(b, n) \/ IMallocRealloc(b, n)

Spec == Init /\ [][Next]_vars

-----------------------------------------------------------------------------
(* Properties.                                                             *)

\* The addresses a block really takes: its size rounded up.
End(b) == b.addr + Aligned(b.size)

Apart(b, c) == End(b) <= c.addr \/ End(c) <= b.addr

\* No byte belongs to two blocks that are handed out, nor to one and to the
\* free list, whatever was split, reused and freed before
\* (tew/api/_state.py:531-586).
NoOverlap ==
    /\ \A b, c \in live : b # c => Apart(b, c)
    /\ \A b \in live, i \in DOMAIN heap_free_list : Apart(b, heap_free_list[i])
    /\ \A i, j \in DOMAIN heap_free_list :
          i # j => Apart(heap_free_list[i], heap_free_list[j])

\* Every block lies between the base and the cursor, which stays below the
\* thread stacks (tew/api/_state.py:558-570).
InArena ==
    LET Inside(b) == HEAP_BASE <= b.addr /\ End(b) <= next_heap_alloc
    IN  /\ \A b \in live : Inside(b)
        /\ \A i \in DOMAIN heap_free_list : Inside(heap_free_list[i])
        /\ next_heap_alloc <= THREAD_STACK_BASE

\* The 16-byte cells in use by a block or kept for one.
Cells(b) == {a \in b.addr .. End(b) - 1 : a % 16 = 0}

Accounted ==
    (UNION {Cells(b) : b \in live}) \cup
    (UNION {Cells(heap_free_list[i]) : i \in DOMAIN heap_free_list})

\* Splitting, freeing and reallocating lose no memory, to the last cell;
\* only IMalloc's Free and Realloc do (tew/api/_state.py:543-556).
NothingIsLost ==
    [][ \/ \E b \in live : IMallocFree(b) \/ \E n \in Sizes : IMallocRealloc(b, n)
        \/ Accounted \subseteq Accounted' ]_vars
=============================================================================
