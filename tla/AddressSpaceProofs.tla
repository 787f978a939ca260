-------------------------- MODULE AddressSpaceProofs --------------------------
(***************************************************************************)
(* What fills the guest's address space, for arenas, tables and numbers of *)
(* threads of any size: the heap (no two blocks overlap, handed out or     *)
(* free, all lie in the arena, and no cell is lost), the pages of          *)
(* VirtualAlloc, the static initializers of the DLLs loaded, and the       *)
(* libraries themselves: every slot a mapped DLL exposes is patched or is  *)
(* about to be, COM's references to them balance, and the stubs of those   *)
(* that have no file belong to the DLL they were asked of.                 *)
(***************************************************************************)
EXTENDS Heap, VirtualMemory, Initializers, OleCom, StubTable, DataLemmas

-----------------------------------------------------------------------------
(* Arithmetic of the rounding.                                             *)

\* Aligned rounds up, to a multiple of 16.
LEMMA AlignedUp ==
    ASSUME NEW n \in Nat
    PROVE  /\ Aligned(n) \in Nat
           /\ n <= Aligned(n)
           /\ Aligned(n) % 16 = 0
BY Z3 DEF Aligned

\* Rounding the cursor after a block rounds the block.
LEMMA AlignedShift ==
    ASSUME NEW x \in Nat, x % 16 = 0, NEW n \in Nat
    PROVE  Aligned(x + n) = x + Aligned(n)
BY Z3 DEF Aligned

\* The two parts of a split block take the space of the whole.
LEMMA AlignedSplit ==
    ASSUME NEW n \in Nat, NEW m \in Nat, n <= m
    PROVE  /\ Aligned(n) < m => Aligned(n) + Aligned(m - Aligned(n)) = Aligned(m)
           /\ ~ (Aligned(n) < m) => Aligned(n) = Aligned(m)
BY Z3 DEF Aligned

-----------------------------------------------------------------------------
(* The inductive invariant, as a predicate on a cursor, a set of blocks    *)
(* and a free list, so that it can be said of the tables inside a step.    *)

\* A block between the base and the cursor, on a 16-byte boundary.
Placed(b, cursor) ==
    /\ b \in Block
    /\ b.addr % 16 = 0
    /\ HEAP_BASE <= b.addr
    /\ End(b) <= cursor

Sound(cursor, blocks, list) ==
    /\ cursor \in Nat /\ cursor % 16 = 0
    /\ HEAP_BASE <= cursor /\ cursor <= THREAD_STACK_BASE
    /\ list \in Seq(Block)
    /\ \A b \in blocks : Placed(b, cursor)
    /\ \A i \in 1 .. Len(list) : Placed(list[i], cursor)
    /\ \A b, c \in blocks : b # c => Apart(b, c)
    /\ \A b \in blocks, i \in 1 .. Len(list) : Apart(b, list[i])
    /\ \A i, j \in 1 .. Len(list) : i # j => Apart(list[i], list[j])

Inv == failed \in BOOLEAN /\ Sound(next_heap_alloc, live, heap_free_list)

\* Inv says what the run checks.
LEMMA InvImplies == Inv => TypeOK /\ NoOverlap /\ InArena
<1> SUFFICES ASSUME Inv PROVE TypeOK /\ NoOverlap /\ InArena
  OBVIOUS
<1>1. DOMAIN heap_free_list = 1 .. Len(heap_free_list)
  BY DEF Inv, Sound
<1>2. TypeOK
  BY DEF Inv, Sound, Placed, TypeOK
<1>3. NoOverlap
  BY <1>1 DEF Inv, Sound, NoOverlap
<1>4. InArena
  BY <1>1 DEF Inv, Sound, Placed, InArena
<1> QED BY <1>2, <1>3, <1>4

-----------------------------------------------------------------------------
(* What each change of the tables preserves.                               *)

\* Blocks that are taken out of the set leave the rest sound.
LEMMA SubsetSound ==
    ASSUME NEW cursor, NEW blocks, NEW list, Sound(cursor, blocks, list),
           NEW rest \in SUBSET blocks
    PROVE  Sound(cursor, rest, list)
BY DEF Sound

\* A block apart from all others is added to the end of the free list.
LEMMA AppendSound ==
    ASSUME NEW cursor, NEW blocks, NEW list, Sound(cursor, blocks, list),
           NEW b, Placed(b, cursor),
           \A c \in blocks : Apart(c, b),
           \A i \in 1 .. Len(list) : Apart(list[i], b)
    PROVE  Sound(cursor, blocks, Append(list, b))
<1> DEFINE new == Append(list, b)
<1>1. list \in Seq(Block) /\ b \in Block /\ Len(list) \in Nat
  BY DEF Sound, Placed
<1>2. /\ new \in Seq(Block)
      /\ Len(new) = Len(list) + 1
      /\ \A i \in 1 .. Len(list) : new[i] = list[i]
      /\ new[Len(list) + 1] = b
  BY <1>1, AppendProperties
<1> HIDE DEF new
<1>3. \A i \in 1 .. Len(new) : i \in 1 .. Len(list) \/ i = Len(list) + 1
  BY <1>1, <1>2
<1>4. \A i \in 1 .. Len(new) : Placed(new[i], cursor)
  BY <1>2, <1>3 DEF Sound
<1>5. \A c \in blocks, i \in 1 .. Len(new) : Apart(c, new[i])
  BY <1>2, <1>3 DEF Sound
<1>6. \A i \in 1 .. Len(list) : Apart(b, list[i]) /\ Apart(list[i], b)
  BY DEF Apart
<1>7. \A i, j \in 1 .. Len(new) : i # j => Apart(new[i], new[j])
  BY <1>2, <1>3, <1>6 DEF Sound
<1> QED BY <1>2, <1>4, <1>5, <1>7 DEF Sound, new

\* A block moves from the set to the end of the free list.
LEMMA FreeSound ==
    ASSUME NEW cursor, NEW blocks, NEW list, Sound(cursor, blocks, list),
           NEW b \in blocks
    PROVE  Sound(cursor, blocks \ {b}, Append(list, b))
<1>1. Sound(cursor, blocks \ {b}, list)
  BY SubsetSound
<1>2. Placed(b, cursor) /\ \A c \in blocks \ {b} : Apart(c, b)
  BY DEF Sound
<1>3. \A i \in 1 .. Len(list) : Apart(list[i], b)
  BY DEF Sound, Apart
<1> QED BY <1>1, <1>2, <1>3, AppendSound

\* A block leaves the free list, and is apart from all that remain.
LEMMA RemoveSound ==
    ASSUME NEW cursor, NEW blocks, NEW list, Sound(cursor, blocks, list),
           NEW i \in 1 .. Len(list)
    PROVE  /\ Sound(cursor, blocks, RemoveAt(list, i))
           /\ \A j \in 1 .. Len(RemoveAt(list, i)) : Apart(RemoveAt(list, i)[j], list[i])
<1> DEFINE new == RemoveAt(list, i)
<1>1. list \in Seq(Block) /\ Len(list) \in Nat
  BY DEF Sound
<1>2. /\ new \in Seq(Block)
      /\ Len(new) = Len(list) - 1
      /\ \A j \in 1 .. Len(list) - 1 : new[j] = IF j < i THEN list[j] ELSE list[j + 1]
  BY <1>1, RemoveAtElements
<1> HIDE DEF new
<1>3. \A j \in 1 .. Len(new) : \E k \in 1 .. Len(list) :
         new[j] = list[k] /\ k # i /\ k = IF j < i THEN j ELSE j + 1
  BY <1>1, <1>2
<1>4. \A j \in 1 .. Len(new) : Placed(new[j], cursor) /\ Apart(new[j], list[i])
  BY <1>3 DEF Sound
<1>5. \A b \in blocks, j \in 1 .. Len(new) : Apart(b, new[j])
  BY <1>3 DEF Sound
<1>6. \A j, k \in 1 .. Len(new) : j # k => Apart(new[j], new[k])
  BY <1>1, <1>2, <1>3 DEF Sound
<1> QED BY <1>2, <1>4, <1>5, <1>6 DEF Sound, new

\* A block apart from all others is recorded under its address.
LEMMA RecordSound ==
    ASSUME NEW cursor, NEW blocks, NEW list, Sound(cursor, blocks, list),
           NEW b, Placed(b, cursor),
           \A c \in blocks : Apart(c, b),
           \A i \in 1 .. Len(list) : Apart(list[i], b)
    PROVE  Sound(cursor, {c \in blocks : c.addr # b.addr} \cup {b}, list)
<1>1. \A i \in 1 .. Len(list) : Apart(b, list[i])
  BY DEF Apart
<1>2. \A c \in blocks : Apart(b, c)
  BY DEF Apart
<1> QED BY <1>1, <1>2 DEF Sound

\* The cursor moves up, to another 16-byte boundary.
LEMMA CursorSound ==
    ASSUME NEW cursor, NEW blocks, NEW list, Sound(cursor, blocks, list),
           NEW next \in Nat, next % 16 = 0, cursor <= next, next <= THREAD_STACK_BASE
    PROVE  Sound(next, blocks, list)
<1>1. ASSUME NEW b, Placed(b, cursor) PROVE Placed(b, next)
  <2>1. End(b) \in Nat
    BY <1>1, AlignedUp DEF Placed, End, Block
  <2> QED BY <1>1, <2>1, LimitAssumption DEF Sound, Placed
<1> QED BY <1>1, BaseAssumption, LimitAssumption DEF Sound

-----------------------------------------------------------------------------
(* simple_alloc.                                                           *)

\* The two parts of a free block of which n bytes are used.
LEMMA SplitBlock ==
    ASSUME NEW cursor \in Nat, NEW b, Placed(b, cursor), NEW n \in Nat, n <= b.size
    PROVE  LET used == At(b.addr, n)
               rest == At(b.addr + Aligned(n), b.size - Aligned(n))
           IN  /\ Placed(used, cursor)
               /\ Aligned(n) < b.size =>
                    Placed(rest, cursor) /\ Apart(used, rest)
               /\ \A c \in Block : Apart(c, b) =>
                    /\ Apart(c, used)
                    /\ Aligned(n) < b.size => Apart(c, rest)
<1> DEFINE used == At(b.addr, n)
           rest == At(b.addr + Aligned(n), b.size - Aligned(n))
<1>1. /\ b.addr \in Nat /\ b.size \in Nat /\ Aligned(n) \in Nat
      /\ Aligned(n) % 16 = 0 /\ b.addr % 16 = 0
  BY AlignedUp DEF Placed, Block
<1>2. /\ used \in Block /\ used.addr = b.addr /\ used.size = n
  BY <1>1 DEF At, Block
<1>3. Aligned(n) <= Aligned(b.size) /\ Aligned(b.size) \in Nat
  <2>1. CASE Aligned(n) < b.size
    BY <1>1, <2>1, AlignedUp
  <2>2. CASE ~ (Aligned(n) < b.size)
    BY <1>1, <2>2, AlignedSplit, AlignedUp
  <2> QED BY <2>1, <2>2
<1>4. End(used) <= End(b) /\ End(used) \in Nat /\ End(b) \in Nat
  BY <1>1, <1>2, <1>3 DEF End
<1>5. ASSUME Aligned(n) < b.size
      PROVE  /\ rest \in Block /\ rest.addr = End(used) /\ End(rest) = End(b)
             /\ rest.addr % 16 = 0 /\ b.addr <= rest.addr
  <2>1. rest \in Block /\ rest.addr = b.addr + Aligned(n) /\ rest.size = b.size - Aligned(n)
    BY <1>1, <1>5 DEF At, Block
  <2>2. Aligned(n) + Aligned(b.size - Aligned(n)) = Aligned(b.size)
    BY <1>1, <1>5, AlignedSplit
  <2>3. (b.addr + Aligned(n)) % 16 = 0
    BY <1>1, Z3
  <2>4. Aligned(rest.size) \in Nat
    BY <2>1, AlignedUp DEF Block
  <2> QED BY <1>1, <1>2, <1>3, <2>1, <2>2, <2>3, <2>4 DEF End
<1> HIDE DEF used, rest
<1>6. Placed(used, cursor)
  BY <1>1, <1>2, <1>4, BaseAssumption DEF Placed
<1>7. ASSUME Aligned(n) < b.size PROVE Placed(rest, cursor) /\ Apart(used, rest)
  BY <1>1, <1>4, <1>5, <1>7, BaseAssumption DEF Placed, Apart
<1>8. ASSUME NEW c \in Block, Apart(c, b)
      PROVE  /\ Apart(c, used)
             /\ Aligned(n) < b.size => Apart(c, rest)
  <2>1. End(c) \in Nat /\ c.addr \in Nat
    BY AlignedUp DEF End, Block
  <2> QED BY <1>1, <1>2, <1>4, <1>5, <1>8, <2>1 DEF Apart
<1> QED BY <1>6, <1>7, <1>8 DEF used, rest

\* simple_alloc from the free list keeps the tables sound ...
LEMMA FromListSound ==
    ASSUME Inv, NEW i \in 1 .. Len(heap_free_list), NEW n \in Nat,
           heap_free_list[i].size >= n
    PROVE  Sound(next_heap_alloc,
                 Recorded(heap_free_list[i].addr, n),
                 RemoveAt(heap_free_list, i) \o Remainder(heap_free_list[i], n))
<1> DEFINE b    == heap_free_list[i]
           used == At(b.addr, n)
           rest == At(b.addr + Aligned(n), b.size - Aligned(n))
           list == RemoveAt(heap_free_list, i)
           blocks == Recorded(b.addr, n)
<1>1. Sound(next_heap_alloc, live, heap_free_list)
  BY DEF Inv
<1>2. /\ Placed(b, next_heap_alloc) /\ next_heap_alloc \in Nat
      /\ \A c \in live : c \in Block /\ Apart(c, b)
  BY <1>1 DEF Sound, Placed
<1>3. /\ Sound(next_heap_alloc, live, list)
      /\ \A j \in 1 .. Len(list) : list[j] \in Block /\ Apart(list[j], b)
  <2>1. /\ Sound(next_heap_alloc, live, list)
        /\ \A j \in 1 .. Len(list) : Apart(list[j], b)
    BY <1>1, RemoveSound
  <2> HIDE DEF list
  <2> QED BY <2>1 DEF Sound, Placed
<1>4. /\ Placed(used, next_heap_alloc)
      /\ Aligned(n) < b.size => Placed(rest, next_heap_alloc) /\ Apart(used, rest)
      /\ \A c \in Block : Apart(c, b) =>
           /\ Apart(c, used)
           /\ Aligned(n) < b.size => Apart(c, rest)
  BY <1>2, SplitBlock
<1>5. used.addr = b.addr
  BY DEF At
<1>6. blocks = {c \in live : c.addr # used.addr} \cup {used}
  BY <1>5 DEF Recorded
<1>7. Sound(next_heap_alloc, blocks, list)
  <2> HIDE DEF b, used, rest, list, blocks
  <2>1. \A c \in live : Apart(c, used)
    BY <1>2, <1>4
  <2>2. \A j \in 1 .. Len(list) : Apart(list[j], used)
    BY <1>3, <1>4
  <2> QED BY <1>3, <1>4, <1>6, <2>1, <2>2, RecordSound
<1>8. CASE Aligned(n) < b.size
  <2>1. list \o Remainder(b, n) = Append(list, rest)
    <3>1. Remainder(b, n) = << rest >>
      BY <1>8 DEF Remainder
    <3>2. list \in Seq(Block) /\ rest \in Block
      BY <1>3, <1>4, <1>8 DEF Sound, Placed
    <3> HIDE DEF b, used, rest, list, blocks
    <3> QED BY <3>1, <3>2, AppendIsConcat
  <2> HIDE DEF b, used, rest, list, blocks
  <2>2. \A c \in blocks : Apart(c, rest)
    BY <1>2, <1>4, <1>6, <1>8
  <2>3. \A j \in 1 .. Len(list) : Apart(list[j], rest)
    BY <1>3, <1>4, <1>8
  <2>4. Sound(next_heap_alloc, blocks, Append(list, rest))
    BY <1>4, <1>7, <1>8, <2>2, <2>3, AppendSound
  <2> QED BY <2>1, <2>4 DEF b, list, blocks
<1>9. CASE ~ (Aligned(n) < b.size)
  <2>1. Remainder(b, n) = << >>
    BY <1>9 DEF Remainder
  <2>2. list \o << >> = list
    <3>1. list \in Seq(Block)
      BY <1>3 DEF Sound
    <3> HIDE DEF list
    <3> QED BY <3>1, ConcatEmptySeq
  <2> QED BY <1>7, <2>1, <2>2
<1> QED BY <1>8, <1>9

\* ... and so does simple_alloc from the cursor.
LEMMA FromCursorSound ==
    ASSUME Inv, NEW n \in Nat, BumpNext(next_heap_alloc, n) <= THREAD_STACK_BASE
    PROVE  Sound(BumpNext(next_heap_alloc, n), Recorded(next_heap_alloc, n), heap_free_list)
<1> DEFINE next == BumpNext(next_heap_alloc, n)
           b    == At(next_heap_alloc, n)
<1>1. /\ next_heap_alloc \in Nat /\ next_heap_alloc % 16 = 0
      /\ HEAP_BASE <= next_heap_alloc
      /\ Sound(next_heap_alloc, live, heap_free_list)
  BY DEF Inv, Sound
<1>2. /\ next = next_heap_alloc + Aligned(n)
      /\ next \in Nat /\ next % 16 = 0 /\ next_heap_alloc <= next
  <2>1. BumpNext(next_heap_alloc, n) = next_heap_alloc + Aligned(n)
    BY <1>1, AlignedShift DEF BumpNext
  <2>2. Aligned(n) \in Nat /\ Aligned(n) % 16 = 0
    BY AlignedUp
  <2>3. (next_heap_alloc + Aligned(n)) % 16 = 0
    BY <1>1, <2>2, Z3
  <2> QED BY <1>1, <2>1, <2>2, <2>3
<1>3. Sound(next, live, heap_free_list)
  <2>1. next <= THREAD_STACK_BASE
    OBVIOUS
  <2> HIDE DEF next
  <2> QED BY <1>1, <1>2, <2>1, CursorSound
<1>4. b \in Block /\ b.addr = next_heap_alloc /\ End(b) = next
  BY <1>1, <1>2 DEF At, Block, End
<1>5. \A c \in live : Apart(c, b)
  BY <1>1, <1>4 DEF Sound, Placed, Apart
<1>6. \A i \in 1 .. Len(heap_free_list) : Apart(heap_free_list[i], b)
  BY <1>1, <1>4 DEF Sound, Placed, Apart
<1>7. Placed(b, next)
  BY <1>1, <1>2, <1>4 DEF Placed
<1>8. Recorded(next_heap_alloc, n) = {c \in live : c.addr # b.addr} \cup {b}
  BY <1>4 DEF Recorded
<1> HIDE DEF next, b
<1>9. Sound(next, Recorded(next_heap_alloc, n), heap_free_list)
  BY <1>3, <1>5, <1>6, <1>7, <1>8, RecordSound
<1> QED BY <1>9 DEF next

-----------------------------------------------------------------------------
(* The handlers.                                                           *)

\* Whichever way simple_alloc went, what it leaves is sound, unless its
\* caller raises.
LEMMA AllocSound ==
    ASSUME Inv, NEW n \in Nat, NEW t \in simple_alloc(n), t.cursor <= THREAD_STACK_BASE
    PROVE  Sound(t.cursor, t.blocks, t.list)
<1>1. CASE NoFit(n)
  <2>1. t = FromCursor(n)
    BY <1>1 DEF simple_alloc
  <2> QED BY <2>1, FromCursorSound DEF FromCursor
<1>2. CASE ~ NoFit(n)
  <2>1. PICK i \in DOMAIN heap_free_list : FirstFit(i, n) /\ t = FromList(i, n)
    BY <1>2 DEF simple_alloc
  <2>2. i \in 1 .. Len(heap_free_list) /\ heap_free_list[i].size >= n
    BY <2>1 DEF FirstFit, Fits, Inv, Sound
  <2> QED BY <2>1, <2>2, FromListSound DEF FromList
<1> QED BY <1>1, <1>2

\* A caller that leaves sound tables, or raises, keeps the invariant.
LEMMA ReturnsInv ==
    ASSUME NEW t, NEW blocks, NEW list, Returns(t, blocks, list),
           Inv, Sound(t.cursor, blocks, list)
    PROVE  Inv'
BY DEF Returns, Inv

\* A call that raises leaves the heap's invariant true.
LEMMA RaisesInv ==
    ASSUME NEW t, Raises(t), Inv
    PROVE  Inv'
BY DEF Raises, Inv

\* HeapAlloc, LocalAlloc and realloc, which keep what they got.
LEMMA KeepInv ==
    ASSUME Inv, NEW n \in Nat, NEW t \in simple_alloc(n),
           Returns(t, t.blocks, t.list) \/ Raises(t)
    PROVE  Inv'
<1>1. CASE Raises(t)
  BY <1>1, RaisesInv
<1>2. CASE Returns(t, t.blocks, t.list)
  <2>1. Sound(t.cursor, t.blocks, t.list)
    BY <1>2, AllocSound DEF Returns
  <2> QED BY <1>2, <2>1, ReturnsInv
<1> QED BY <1>1, <1>2

\* HeapReAlloc keeps the invariant: the old block moves to the free list.
LEMMA HeapReAllocInv ==
    ASSUME Inv, NEW b, NEW n \in Nat, HeapReAlloc(b, n)
    PROVE  Inv'
<1>1. NonZero(n) \in Nat
  BY DEF NonZero
<1>2. PICK t \in simple_alloc(NonZero(n)) :
         \/ \E c \in t.blocks : Returns(t, t.blocks \ {c}, Append(t.list, c))
         \/ Raises(t)
  BY DEF HeapReAlloc
<1>3. CASE Raises(t)
  BY <1>3, RaisesInv
<1>4. ASSUME NEW c \in t.blocks, Returns(t, t.blocks \ {c}, Append(t.list, c))
      PROVE  Inv'
  <2>1. Sound(t.cursor, t.blocks, t.list)
    BY <1>1, <1>4, AllocSound DEF Returns
  <2>2. Sound(t.cursor, t.blocks \ {c}, Append(t.list, c))
    BY <2>1, FreeSound
  <2> QED BY <1>4, <2>2, ReturnsInv
<1> QED BY <1>2, <1>3, <1>4

\* IMalloc::Realloc keeps the invariant: the old block is forgotten.
LEMMA IMallocReallocInv ==
    ASSUME Inv, NEW b, NEW n \in Nat, IMallocRealloc(b, n)
    PROVE  Inv'
<1>1. PICK t \in simple_alloc(n) :
         Returns(t, {c \in t.blocks : c.addr # b.addr}, t.list) \/ Raises(t)
  BY DEF IMallocRealloc
<1>2. CASE Raises(t)
  BY <1>2, RaisesInv
<1>3. CASE Returns(t, {c \in t.blocks : c.addr # b.addr}, t.list)
  <2>1. Sound(t.cursor, t.blocks, t.list)
    BY <1>3, AllocSound DEF Returns
  <2>2. Sound(t.cursor, {c \in t.blocks : c.addr # b.addr}, t.list)
    BY <2>1, SubsetSound
  <2> QED BY <1>3, <2>2, ReturnsInv
<1> QED BY <1>1, <1>2, <1>3

\* Nothing is allocated at first.
LEMMA InitInv == Init => Inv
<1> SUFFICES ASSUME Init PROVE Inv
  OBVIOUS
<1>1. heap_free_list \in Seq(Block) /\ Len(heap_free_list) = 0 /\ live = {}
  BY DEF Init
<1>2. \A i : i \notin 1 .. Len(heap_free_list)
  BY <1>1
<1>3. Sound(HEAP_BASE, live, heap_free_list)
  BY <1>1, <1>2, BaseAssumption, LimitAssumption DEF Sound
<1> QED BY <1>3 DEF Init, Inv

\* Every handler keeps the invariant.
LEMMA NextInv == Inv /\ [Next]_vars => Inv'
<1> SUFFICES ASSUME Inv, [Next]_vars PROVE Inv'
  OBVIOUS
<1>1. ASSUME NEW n \in Sizes, HeapAlloc(n) PROVE Inv'
  <2>1. NonZero(n) \in Nat
    BY SizesAssumption DEF NonZero
  <2> QED BY <1>1, <2>1, KeepInv DEF HeapAlloc
<1>2. ASSUME NEW n \in Sizes, LocalAlloc(n) PROVE Inv'
  BY <1>2, SizesAssumption, KeepInv DEF LocalAlloc
<1>3. ASSUME NEW b \in Freeable, HeapFree(b) PROVE Inv'
  BY <1>3, FreeSound DEF Freeable, HeapFree, simple_free, Inv
<1>4. ASSUME NEW b \in Freeable, IMallocFree(b) PROVE Inv'
  BY <1>4, SubsetSound DEF IMallocFree, Inv
<1>5. ASSUME NEW b \in Freeable, NEW n \in Sizes, HeapReAlloc(b, n) PROVE Inv'
  BY <1>5, SizesAssumption, HeapReAllocInv
<1>6. ASSUME NEW b \in Freeable, NEW n \in Sizes, realloc(b, n) PROVE Inv'
  BY <1>6, SizesAssumption, KeepInv DEF realloc
<1>7. ASSUME NEW b \in Freeable, NEW n \in Sizes, IMallocRealloc(b, n) PROVE Inv'
  BY <1>7, SizesAssumption, IMallocReallocInv
<1>8. CASE UNCHANGED vars
  BY <1>8 DEF vars, Inv
<1> QED BY <1>1, <1>2, <1>3, <1>4, <1>5, <1>6, <1>7, <1>8 DEF Next

\* The heap's invariant holds of every behaviour.
LEMMA Invariance == Spec => []Inv
BY InitInv, NextInv, PTL DEF Spec

-----------------------------------------------------------------------------
\* The tables have the types the code gives them, in every arena.
THEOREM TypeCorrect == Spec => []TypeOK
BY Invariance, InvImplies, PTL

\* However blocks are split, reused, freed and reallocated, sizes of zero
\* included, no two blocks share a byte, handed out or free
\* (tew/api/_state.py:531-586).
THEOREM BlocksApart == Spec => []NoOverlap
BY Invariance, InvImplies, PTL

\* Every block lies between the heap's base and its cursor, which never
\* passes the thread stacks.
THEOREM BlocksInArena == Spec => []InArena
BY Invariance, InvImplies, PTL
-----------------------------------------------------------------------------
(***************************************************************************)
(* No memory is lost.  Beside Inv, this rests on two facts: the free list  *)
(* holds no block of size zero, so that a block handed out at the address  *)
(* of a free one takes no room; and heap_alloc_sizes has one block per     *)
(* address, so that HeapReAlloc frees the block it was given.              *)
(***************************************************************************)
Filled(list) == \A i \in 1 .. Len(list) : list[i].size > 0

OnePerAddress(blocks) == \A b, c \in blocks : b.addr = c.addr => b = c

WholeInv == Inv /\ Filled(heap_free_list) /\ OnePerAddress(live)

\* x is a cell of one of the blocks, or of one in the list.
Covered(x, blocks, list) ==
    \/ \E b \in blocks : x \in Cells(b)
    \/ \E i \in 1 .. Len(list) : x \in Cells(list[i])

CellsCounted == \A x : x \in Accounted <=> Covered(x, live, heap_free_list)

\* It implies that every cell is counted once.
LEMMA AccountedCells == Inv => CellsCounted
<1> SUFFICES ASSUME Inv, NEW x
             PROVE  x \in Accounted <=> Covered(x, live, heap_free_list)
  BY DEF CellsCounted
<1> DEFINE U == UNION {Cells(b) : b \in live}
           F == UNION {Cells(heap_free_list[i]) : i \in DOMAIN heap_free_list}
<1>1. DOMAIN heap_free_list = 1 .. Len(heap_free_list)
  BY DEF Inv, Sound
<1>2. x \in U <=> \E b \in live : x \in Cells(b)
  OBVIOUS
<1>3. x \in F <=> \E i \in 1 .. Len(heap_free_list) : x \in Cells(heap_free_list[i])
  BY <1>1
<1>4. Accounted = U \cup F
  BY DEF Accounted
<1> HIDE DEF U, F
<1>5. x \in Accounted <=> (x \in U \/ x \in F)
  BY <1>4
<1> QED BY <1>2, <1>3, <1>5 DEF Covered

\* The cells of a block are those of the two parts it is split into.
LEMMA SplitCells ==
    ASSUME NEW b \in Block, NEW n \in Nat, n <= b.size, NEW a \in Cells(b)
    PROVE  \/ a \in Cells(At(b.addr, n))
           \/ /\ Aligned(n) < b.size
              /\ a \in Cells(At(b.addr + Aligned(n), b.size - Aligned(n)))
<1>a. /\ b.addr \in Nat /\ b.size \in Nat
      /\ Aligned(n) \in Nat /\ Aligned(b.size) \in Nat
  BY AlignedUp DEF Block
<1>b. a \in b.addr .. (b.addr + Aligned(b.size)) - 1 /\ a % 16 = 0
  BY Zenon DEF Cells, End
<1>1. a \in Int /\ b.addr <= a /\ a < b.addr + Aligned(b.size)
  BY <1>a, <1>b
<1>2. CASE a < b.addr + Aligned(n)
  <2>1. a \in Cells(At(b.addr, n))
    BY <1>a, <1>b, <1>1, <1>2 DEF Cells, End, At
  <2> QED BY <2>1
<1>3. CASE ~ (a < b.addr + Aligned(n))
  <2>1. Aligned(n) < b.size
    BY <1>a, <1>1, <1>3, AlignedSplit
  <2>2. Aligned(n) + Aligned(b.size - Aligned(n)) = Aligned(b.size)
    BY <1>a, <2>1, AlignedSplit
  <2>3. b.size - Aligned(n) \in Nat /\ Aligned(b.size - Aligned(n)) \in Nat
    BY <1>a, <2>1, AlignedUp
  <2>4. a \in Cells(At(b.addr + Aligned(n), b.size - Aligned(n)))
    BY <1>a, <1>b, <1>1, <1>3, <2>2, <2>3 DEF Cells, End, At
  <2> QED BY <2>1, <2>4
<1> QED BY <1>2, <1>3

\* A block of the set moves to the end of the free list with all its cells.
LEMMA FreeKeepsCells ==
    ASSUME NEW blocks, NEW list \in Seq(Block), NEW b \in blocks, b \in Block
    PROVE  \A x : Covered(x, blocks, list) => Covered(x, blocks \ {b}, Append(list, b))
<1> DEFINE new == Append(list, b)
<1>1. /\ new \in Seq(Block)
      /\ Len(new) = Len(list) + 1 /\ Len(list) \in Nat
      /\ \A i \in 1 .. Len(list) : new[i] = list[i]
      /\ new[Len(list) + 1] = b
  BY AppendProperties
<1> HIDE DEF new
<1>2. Len(list) + 1 \in 1 .. Len(new) /\ \A i \in 1 .. Len(list) : i \in 1 .. Len(new)
  BY <1>1
<1>3. ASSUME NEW x, NEW c \in blocks, x \in Cells(c)
      PROVE  Covered(x, blocks \ {b}, new)
  BY <1>1, <1>2, <1>3 DEF Covered
<1>4. ASSUME NEW x, NEW i \in 1 .. Len(list), x \in Cells(list[i])
      PROVE  Covered(x, blocks \ {b}, new)
  BY <1>1, <1>2, <1>4 DEF Covered
<1>5. \A x : Covered(x, blocks, list) => Covered(x, blocks \ {b}, new)
  BY <1>3, <1>4 DEF Covered
<1> QED BY <1>5 DEF new

\* Recording a block under an address no room is taken at loses no cell.
LEMMA RecordKeepsCells ==
    ASSUME Inv, NEW a \in Nat, NEW n \in Nat,
           \A c \in live : c.addr = a => End(c) <= a
    PROVE  /\ \A x, c : (c \in live /\ x \in Cells(c)) =>
                 \E d \in Recorded(a, n) : x \in Cells(d)
           /\ At(a, n) \in Recorded(a, n)
<1>1. ASSUME NEW c \in live, c.addr = a, NEW x \in Cells(c) PROVE FALSE
  <2>1. c \in Block
    BY DEF Inv, Sound, Placed
  <2>2. End(c) \in Nat /\ c.addr \in Nat
    BY <2>1, AlignedUp DEF End, Block
  <2> QED BY <1>1, <2>2 DEF Cells
<1>2. \A c \in live : c.addr # a => c \in Recorded(a, n)
  BY DEF Recorded
<1> QED BY <1>1, <1>2 DEF Recorded

\* simple_alloc loses no cell, and leaves no free block of size zero and no two
\* blocks at one address.
LEMMA FromListKeepsCells ==
    ASSUME WholeInv, NEW i \in 1 .. Len(heap_free_list), NEW n \in Nat,
           heap_free_list[i].size >= n
    PROVE  LET new == FromList(i, n)
           IN  /\ \A x : Covered(x, live, heap_free_list) => Covered(x, new.blocks, new.list)
               /\ Filled(new.list)
               /\ OnePerAddress(new.blocks)
<1> DEFINE b    == heap_free_list[i]
           rest == At(b.addr + Aligned(n), b.size - Aligned(n))
           list == RemoveAt(heap_free_list, i)
           tail == Remainder(b, n)
           blocks == Recorded(b.addr, n)
<1>1. /\ b \in Block /\ b.size \in Nat /\ b.size > 0 /\ b.addr \in Nat
      /\ heap_free_list \in Seq(Block) /\ Len(heap_free_list) \in Nat
      /\ Aligned(n) \in Nat
  <2>1. heap_free_list \in Seq(Block)
    BY DEF WholeInv, Inv, Sound
  <2>2. b \in Block /\ Len(heap_free_list) \in Nat
    BY <2>1
  <2>3. b.size > 0
    BY DEF WholeInv, Filled
  <2>4. Aligned(n) \in Nat
    BY AlignedUp
  <2> HIDE DEF b
  <2> QED BY <2>1, <2>2, <2>3, <2>4 DEF Block
<1>2. /\ list \in Seq(Block)
      /\ Len(list) = Len(heap_free_list) - 1
      /\ \A j \in 1 .. Len(heap_free_list) - 1 :
            list[j] = IF j < i THEN heap_free_list[j] ELSE heap_free_list[j + 1]
  BY <1>1, RemoveAtElements
<1>3. /\ tail \in Seq(Block)
      /\ Aligned(n) < b.size => Len(tail) = 1 /\ tail[1] = rest /\ rest.size > 0
      /\ ~ (Aligned(n) < b.size) => Len(tail) = 0
  <2>1. CASE Aligned(n) < b.size
    <3>1. tail = << rest >>
      BY <2>1 DEF Remainder
    <3>2. rest \in Block /\ rest.size = b.size - Aligned(n)
      <4> HIDE DEF b
      <4>1. b.size - Aligned(n) \in Nat /\ b.addr + Aligned(n) \in Nat
        BY <1>1, <2>1
      <4> QED BY <4>1 DEF At, Block
    <3> HIDE DEF rest, tail
    <3> QED BY <1>1, <2>1, <3>1, <3>2
  <2>2. CASE ~ (Aligned(n) < b.size)
    <3>1. tail = << >>
      BY <2>2 DEF Remainder
    <3> QED BY <2>2, <3>1
  <2> QED BY <2>1, <2>2
<1>4. \A c \in live : c.addr = b.addr => End(c) <= b.addr
  <2> SUFFICES ASSUME NEW c \in live, c.addr = b.addr PROVE End(c) <= b.addr
    OBVIOUS
  <2>1. Apart(c, b) /\ c \in Block
    BY DEF WholeInv, Inv, Sound, Placed
  <2>2. Aligned(b.size) > 0 /\ Aligned(b.size) \in Nat
    <3>1. b.size <= Aligned(b.size) /\ Aligned(b.size) \in Nat
      BY <1>1, AlignedUp
    <3> HIDE DEF b
    <3> QED BY <1>1, <3>1
  <2>3. End(c) \in Nat
    <3>1. c.addr \in Nat /\ c.size \in Nat
      BY <2>1 DEF Block
    <3>2. Aligned(c.size) \in Nat
      BY <3>1, AlignedUp
    <3> HIDE DEF b
    <3> QED BY <3>1, <3>2 DEF End
  <2>4. End(b) = b.addr + Aligned(b.size)
    BY DEF End
  <2> HIDE DEF b
  <2> QED BY <1>1, <2>1, <2>2, <2>3, <2>4 DEF Apart
<1>5. /\ \A x, c : (c \in live /\ x \in Cells(c)) => \E d \in blocks : x \in Cells(d)
      /\ At(b.addr, n) \in blocks
  BY <1>1, <1>4, RecordKeepsCells DEF WholeInv
<1>6. \A x \in Cells(b) :
         x \in Cells(At(b.addr, n)) \/ (Aligned(n) < b.size /\ x \in Cells(rest))
  <2>1. n <= b.size
    BY <1>1
  <2> QED BY <1>1, <2>1, SplitCells
<1>7. OnePerAddress(blocks)
  BY DEF WholeInv, OnePerAddress, Recorded, At
<1>f. \A j \in 1 .. Len(heap_free_list) : heap_free_list[j].size > 0
  BY DEF WholeInv, Filled
<1>8. FromList(i, n).blocks = blocks /\ FromList(i, n).list = list \o tail
  BY DEF FromList
<1>b. b = heap_free_list[i]
  OBVIOUS
<1> HIDE DEF b, rest, list, tail, blocks
<1>9. /\ list \o tail \in Seq(Block)
      /\ Len(list \o tail) = Len(list) + Len(tail)
      /\ \A j \in 1 .. Len(list) + Len(tail) :
            (list \o tail)[j] = IF j <= Len(list) THEN list[j] ELSE tail[j - Len(list)]
  BY <1>2, <1>3, ConcatProperties
<1>10. \A j \in 1 .. Len(heap_free_list) : j # i =>
          \E k \in 1 .. Len(list \o tail) : (list \o tail)[k] = heap_free_list[j]
  <2> SUFFICES ASSUME NEW j \in 1 .. Len(heap_free_list), j # i
               PROVE  \E k \in 1 .. Len(list \o tail) : (list \o tail)[k] = heap_free_list[j]
    OBVIOUS
  <2> DEFINE k == IF j < i THEN j ELSE j - 1
  <2>1. k \in 1 .. Len(list) /\ list[k] = heap_free_list[j]
    <3>1. CASE j < i
      <4>1. j \in 1 .. Len(heap_free_list) - 1 /\ k = j
        BY <1>1, <3>1
      <4> QED BY <1>2, <3>1, <4>1
    <3>2. CASE ~ (j < i)
      <4>1. j - 1 \in 1 .. Len(heap_free_list) - 1 /\ ~ (j - 1 < i) /\ (j - 1) + 1 = j /\ k = j - 1
        BY <1>1, <3>2
      <4>2. list[j - 1] = heap_free_list[(j - 1) + 1]
        BY <1>2, <4>1
      <4> QED BY <1>2, <4>1, <4>2
    <3> QED BY <3>1, <3>2
  <2>2. k \in 1 .. Len(list) + Len(tail) /\ k <= Len(list)
    BY <1>1, <1>2, <1>3, <2>1
  <2> HIDE DEF k
  <2> QED BY <1>9, <2>1, <2>2
<1>11. Aligned(n) < b.size =>
          \E k \in 1 .. Len(list \o tail) : (list \o tail)[k] = rest
  <2> SUFFICES ASSUME Aligned(n) < b.size
               PROVE  \E k \in 1 .. Len(list \o tail) : (list \o tail)[k] = rest
    OBVIOUS
  <2>1. Len(list) \in Nat /\ Len(tail) = 1
    BY <1>2, <1>3
  <2>a. Len(list) + 1 \in 1 .. Len(list) + Len(tail)
    BY <2>1
  <2>2. (list \o tail)[Len(list) + 1] = tail[1]
    BY <1>9, <2>1, <2>a
  <2> QED BY <1>3, <1>9, <2>a, <2>2
<1>12. \A x : Covered(x, live, heap_free_list) => Covered(x, blocks, list \o tail)
  <2>1. ASSUME NEW x, NEW c \in live, x \in Cells(c)
        PROVE  Covered(x, blocks, list \o tail)
    BY <1>5, <2>1 DEF Covered
  <2>2. ASSUME NEW x, NEW j \in 1 .. Len(heap_free_list), x \in Cells(heap_free_list[j])
        PROVE  Covered(x, blocks, list \o tail)
    <3>1. CASE j = i
      <4>1. CASE x \in Cells(At(b.addr, n))
        BY <1>5, <4>1 DEF Covered
      <4>2. CASE Aligned(n) < b.size /\ x \in Cells(rest)
        BY <1>11, <4>2 DEF Covered
      <4> QED BY <1>6, <1>b, <2>2, <3>1, <4>1, <4>2
    <3>2. CASE j # i
      <4>1. PICK k \in 1 .. Len(list \o tail) : (list \o tail)[k] = heap_free_list[j]
        BY <1>10, <3>2
      <4>2. x \in Cells((list \o tail)[k])
        BY <2>2, <4>1
      <4> QED BY <4>2 DEF Covered
    <3> QED BY <3>1, <3>2
  <2> QED BY <2>1, <2>2 DEF Covered
<1>13. Filled(list \o tail)
  <2> SUFFICES ASSUME NEW j \in 1 .. Len(list) + Len(tail)
               PROVE  (list \o tail)[j].size > 0
    BY <1>9 DEF Filled
  <2>1. CASE j <= Len(list)
    <3>1. PICK k \in 1 .. Len(heap_free_list) : list[j] = heap_free_list[k]
      BY <1>1, <1>2, <2>1
    <3>2. (list \o tail)[j] = list[j]
      BY <1>9, <2>1
    <3> QED BY <1>f, <3>1, <3>2
  <2>2. CASE ~ (j <= Len(list))
    <3>a. Len(list) \in Nat /\ Len(tail) \in Nat
      BY <1>2, <1>3
    <3>b. Len(tail) # 0
      BY <2>2, <3>a
    <3>1. Aligned(n) < b.size /\ j = Len(list) + 1
      <4>1. Aligned(n) < b.size /\ Len(tail) = 1
        BY <1>3, <3>b
      <4> QED BY <2>2, <3>a, <4>1
    <3>2. (list \o tail)[j] = tail[1]
      BY <1>1, <1>2, <1>9, <2>2, <3>1
    <3> QED BY <1>3, <3>1, <3>2
  <2> QED BY <2>1, <2>2
<1> QED BY <1>7, <1>8, <1>12, <1>13

\* An allocation at the cursor covers every cell that was covered.
LEMMA FromCursorKeepsCells ==
    ASSUME WholeInv, NEW n \in Nat
    PROVE  LET new == FromCursor(n)
           IN  /\ \A x : Covered(x, live, heap_free_list) => Covered(x, new.blocks, new.list)
               /\ Filled(new.list)
               /\ OnePerAddress(new.blocks)
<1> DEFINE blocks == Recorded(next_heap_alloc, n)
<1>1. FromCursor(n).blocks = blocks /\ FromCursor(n).list = heap_free_list
  BY DEF FromCursor
<1>2. next_heap_alloc \in Nat /\ \A c \in live : End(c) <= next_heap_alloc
  BY DEF WholeInv, Inv, Sound, Placed
<1>3. \A x, c : (c \in live /\ x \in Cells(c)) => \E d \in blocks : x \in Cells(d)
  BY <1>2, RecordKeepsCells DEF WholeInv
<1>4. OnePerAddress(blocks)
  BY DEF WholeInv, OnePerAddress, Recorded, At
<1> HIDE DEF blocks
<1>5. \A x : Covered(x, live, heap_free_list) => Covered(x, blocks, heap_free_list)
  BY <1>3 DEF Covered
<1> QED BY <1>1, <1>4, <1>5 DEF WholeInv

\* Whichever way simple_alloc went; and every block it leaves under an address
\* of a block of size n > 0 has a size.
LEMMA AllocKeepsCells ==
    ASSUME WholeInv, NEW n \in Nat, NEW t \in simple_alloc(n)
    PROVE  /\ \A x : Covered(x, live, heap_free_list) => Covered(x, t.blocks, t.list)
           /\ Filled(t.list)
           /\ OnePerAddress(t.blocks)
           /\ \E a : t.blocks = Recorded(a, n)
<1>1. CASE NoFit(n)
  <2>1. t = FromCursor(n)
    BY <1>1 DEF simple_alloc
  <2>2. t.blocks = Recorded(next_heap_alloc, n)
    BY <2>1 DEF FromCursor
  <2> QED BY <2>1, <2>2, FromCursorKeepsCells
<1>2. CASE ~ NoFit(n)
  <2>1. PICK i \in DOMAIN heap_free_list : FirstFit(i, n) /\ t = FromList(i, n)
    BY <1>2 DEF simple_alloc
  <2>2. i \in 1 .. Len(heap_free_list) /\ heap_free_list[i].size >= n
    BY <2>1 DEF FirstFit, Fits, WholeInv, Inv, Sound
  <2>3. t.blocks = Recorded(heap_free_list[i].addr, n)
    BY <2>1 DEF FromList
  <2> QED BY <2>1, <2>2, <2>3, FromListKeepsCells
<1> QED BY <1>1, <1>2

-----------------------------------------------------------------------------
\* A step of the heap loses no cell and keeps WholeInv.
CellsKept == \A x : Covered(x, live, heap_free_list) => Covered(x, live, heap_free_list)'

\* Every outcome of simple_alloc keeps the blocks whole and every cell.
LEMMA KeepWhole ==
    ASSUME WholeInv, NEW n \in Nat, NEW t \in simple_alloc(n),
           Returns(t, t.blocks, t.list) \/ Raises(t)
    PROVE  Filled(heap_free_list') /\ OnePerAddress(live') /\ CellsKept
BY AllocKeepsCells DEF Returns, Raises, WholeInv, CellsKept

\* So does HeapReAlloc, which may allocate, copy and free.
LEMMA HeapReAllocWhole ==
    ASSUME WholeInv, NEW b \in Freeable, NEW n \in Nat, HeapReAlloc(b, n)
    PROVE  Filled(heap_free_list') /\ OnePerAddress(live') /\ CellsKept
<1>1. NonZero(n) \in Nat /\ NonZero(n) > 0
  BY DEF NonZero
<1>2. PICK t \in simple_alloc(NonZero(n)) :
         \/ \E c \in t.blocks : /\ c.addr = b.addr
                                /\ Returns(t, t.blocks \ {c}, Append(t.list, c))
         \/ Raises(t)
  BY DEF HeapReAlloc
<1>3. CASE Raises(t)
  BY <1>3 DEF Raises, WholeInv, CellsKept
<1>4. ASSUME NEW c \in t.blocks, c.addr = b.addr,
             Returns(t, t.blocks \ {c}, Append(t.list, c))
      PROVE  Filled(heap_free_list') /\ OnePerAddress(live') /\ CellsKept
  <2>1. Sound(t.cursor, t.blocks, t.list)
    BY <1>1, <1>4, AllocSound DEF Returns, WholeInv
  <2>2. t.list \in Seq(Block) /\ c \in Block
    BY <2>1 DEF Sound, Placed
  <2>3. /\ \A x : Covered(x, live, heap_free_list) => Covered(x, t.blocks, t.list)
        /\ Filled(t.list)
        /\ OnePerAddress(t.blocks)
    BY <1>1, AllocKeepsCells
  <2>4. c.size > 0
    <3>1. PICK a : t.blocks = Recorded(a, NonZero(n))
      BY <1>1, AllocKeepsCells
    <3>2. CASE c = At(a, NonZero(n))
      BY <1>1, <3>2 DEF At
    <3>3. CASE c # At(a, NonZero(n))
      <4>1. c \in live
        BY <3>1, <3>3 DEF Recorded
      <4>2. c = b
        BY <1>4, <4>1 DEF WholeInv, OnePerAddress, Freeable
      <4> QED BY <4>2 DEF Freeable
    <3> QED BY <3>2, <3>3
  <2>5. Filled(Append(t.list, c))
    <3>1. /\ Len(Append(t.list, c)) = Len(t.list) + 1 /\ Len(t.list) \in Nat
          /\ \A i \in 1 .. Len(t.list) : Append(t.list, c)[i] = t.list[i]
          /\ Append(t.list, c)[Len(t.list) + 1] = c
      BY <2>2, AppendProperties
    <3> QED BY <2>3, <2>4, <3>1 DEF Filled
  <2>6. OnePerAddress(t.blocks \ {c})
    BY <2>3 DEF OnePerAddress
  <2>7. \A x : Covered(x, t.blocks, t.list)
                => Covered(x, t.blocks \ {c}, Append(t.list, c))
    BY <2>2, FreeKeepsCells
  <2> QED BY <1>4, <2>3, <2>5, <2>6, <2>7 DEF Returns, CellsKept
<1> QED BY <1>2, <1>3, <1>4

\* What every step but IMalloc's keeps.
Forgets ==
    \E b \in live : IMallocFree(b) \/ \E n \in Sizes : IMallocRealloc(b, n)

\* Every step keeps them, or is IMalloc's, which forgets the cells it frees.
LEMMA NextWhole ==
    ASSUME WholeInv, [Next]_vars PROVE WholeInv' /\ (Forgets \/ CellsKept)
<1>0. Inv'
  BY NextInv DEF WholeInv
<1>1. ASSUME NEW n \in Sizes, HeapAlloc(n) PROVE WholeInv' /\ CellsKept
  <2>1. NonZero(n) \in Nat
    BY SizesAssumption DEF NonZero
  <2> QED BY <1>0, <1>1, <2>1, KeepWhole DEF HeapAlloc, WholeInv
<1>2. ASSUME NEW n \in Sizes, LocalAlloc(n) PROVE WholeInv' /\ CellsKept
  BY <1>0, <1>2, SizesAssumption, KeepWhole DEF LocalAlloc, WholeInv
<1>3. ASSUME NEW b \in Freeable, HeapFree(b) PROVE WholeInv' /\ CellsKept
  <2>1. heap_free_list \in Seq(Block) /\ b \in Block /\ b \in live /\ b.size > 0
    BY DEF WholeInv, Inv, Sound, Placed, Freeable
  <2>2. Filled(Append(heap_free_list, b))
    <3>1. /\ Len(Append(heap_free_list, b)) = Len(heap_free_list) + 1
          /\ Len(heap_free_list) \in Nat
          /\ \A i \in 1 .. Len(heap_free_list) :
                Append(heap_free_list, b)[i] = heap_free_list[i]
          /\ Append(heap_free_list, b)[Len(heap_free_list) + 1] = b
      BY <2>1, AppendProperties
    <3> QED BY <2>1, <3>1 DEF WholeInv, Filled
  <2>3. OnePerAddress(live \ {b})
    BY DEF WholeInv, OnePerAddress
  <2>4. \A x : Covered(x, live, heap_free_list)
                => Covered(x, live \ {b}, Append(heap_free_list, b))
    BY <2>1, FreeKeepsCells
  <2> QED BY <1>0, <1>3, <2>2, <2>3, <2>4 DEF HeapFree, simple_free, WholeInv, CellsKept
<1>4. ASSUME NEW b \in Freeable, IMallocFree(b) PROVE WholeInv' /\ Forgets
  <2>1. b \in live
    BY DEF Freeable
  <2>2. OnePerAddress(live \ {b})
    BY DEF WholeInv, OnePerAddress
  <2>3. WholeInv'
    BY <1>0, <1>4, <2>2 DEF IMallocFree, WholeInv
  <2> QED BY <1>4, <2>1, <2>3 DEF Forgets
<1>5. ASSUME NEW b \in Freeable, NEW n \in Sizes, HeapReAlloc(b, n) PROVE WholeInv' /\ CellsKept
  BY <1>0, <1>5, SizesAssumption, HeapReAllocWhole DEF WholeInv
<1>6. ASSUME NEW b \in Freeable, NEW n \in Sizes, realloc(b, n) PROVE WholeInv' /\ CellsKept
  BY <1>0, <1>6, SizesAssumption, KeepWhole DEF realloc, WholeInv
<1>7. ASSUME NEW b \in Freeable, NEW n \in Sizes, IMallocRealloc(b, n)
      PROVE  WholeInv' /\ Forgets
  <2>1. b \in live
    BY DEF Freeable
  <2>2. Forgets
    BY <1>7, <2>1 DEF Forgets
  <2>3. PICK t \in simple_alloc(n) :
           Returns(t, {c \in t.blocks : c.addr # b.addr}, t.list) \/ Raises(t)
    BY <1>7 DEF IMallocRealloc
  <2>4. Filled(t.list) /\ OnePerAddress(t.blocks)
    BY SizesAssumption, AllocKeepsCells
  <2>5. Filled(heap_free_list') /\ OnePerAddress(live')
    BY <2>3, <2>4 DEF Returns, Raises, WholeInv, OnePerAddress
  <2> QED BY <1>0, <2>2, <2>5 DEF WholeInv
<1>8. CASE UNCHANGED vars
  BY <1>0, <1>8 DEF vars, WholeInv, CellsKept
<1> QED BY <1>1, <1>2, <1>3, <1>4, <1>5, <1>6, <1>7, <1>8 DEF Next

\* Splitting, freeing and reallocating blocks, of whatever sizes and in
\* whatever order, never loses a 16-byte cell; only IMalloc's Free and Realloc
\* do (tew/api/_state.py:543-556).
THEOREM MemoryIsKept == Spec => NothingIsLost
<1>1. Init => WholeInv
  <2> SUFFICES ASSUME Init PROVE WholeInv
    OBVIOUS
  <2>1. Len(heap_free_list) = 0 /\ live = {}
    BY DEF Init
  <2> QED BY <2>1, InitInv DEF WholeInv, Filled, OnePerAddress
<1>2. WholeInv /\ [Next]_vars => WholeInv'
  BY NextWhole
<1>3. WholeInv => CellsCounted
  BY AccountedCells DEF WholeInv
<1>4. WholeInv /\ CellsCounted /\ CellsCounted' /\ [Next]_vars =>
        [\/ \E b \in live : IMallocFree(b) \/ \E n \in Sizes : IMallocRealloc(b, n)
         \/ Accounted \subseteq Accounted']_vars
  <2> SUFFICES ASSUME WholeInv, CellsCounted, CellsCounted', [Next]_vars, ~ Forgets
               PROVE  Accounted \subseteq Accounted'
    BY DEF Forgets
  <2>1. CellsKept
    BY NextWhole
  <2> QED BY <2>1 DEF CellsKept, CellsCounted
<1> QED BY <1>1, <1>2, <1>3, <1>4, PTL DEF Spec, NothingIsLost

-----------------------------------------------------------------------------
(***************************************************************************)
(* VirtualAlloc.                                                           *)
(* The regions, in the order of their bases, end before the next begins.   *)
(***************************************************************************)
Regions ==
    /\ DOMAIN virtual_reserved \subseteq 0 .. VaEnd
    /\ \A b \in DOMAIN virtual_reserved : virtual_reserved[b] \in Nat
    /\ \A b, c \in DOMAIN virtual_reserved : b < c => b + virtual_reserved[b] <= c

GapStart(from) == IF from < VaFloor THEN VaFloor ELSE from

\* The candidates of the search are what its loop computes.
LEMMA CandidatesAre ==
    ASSUME Regions, NEW from \in Nat, NEW n \in Nat
    PROVE  LET at == Candidates(from, n)
           IN  /\ at \in [0 .. VaEnd + 1 -> Nat]
               /\ at[0] = GapStart(from)
               /\ \A i \in 1 .. VaEnd + 1 : at[i] = Past(at[i - 1], i - 1, n)
<1> DEFINE F == [p \in Nat \X Nat |-> Past(p[1], p[2] - 1, n)]
           Defines(g) == g = [i \in 0 .. (VaEnd + 1) |->
                                IF i = 0 THEN GapStart(from) ELSE Past(g[i - 1], i - 1, n)]
<1>1. GapStart(from) \in Nat /\ VaEnd + 1 \in Nat
  BY VirtualMemoryAssumption DEF GapStart
<1>2. \A at \in Nat : \A b : Past(at, b, n) \in Nat
  BY VirtualMemoryAssumption DEF Regions, Past
<1>3. F \in [Nat \X Nat -> Nat]
  BY <1>2
<1>4. \A x, i \in Nat : F[<<x, i>>] = Past(x, i - 1, n)
  OBVIOUS
<1>5. PICK g \in [0 .. VaEnd + 1 -> Nat] :
         /\ g[0] = GapStart(from)
         /\ \A i \in 1 .. VaEnd + 1 : g[i] = F[<<g[i - 1], i>>]
  <2> DEFINE s == GapStart(from)
             N == VaEnd + 1
  <2>1. s \in Nat /\ N \in Nat
    BY <1>1
  <2> HIDE DEF F, s, N
  <2>2. \E g : IsIteration(g, Nat, s, F, N)
    BY <1>3, <2>1, Iteration
  <2> QED BY <2>2 DEF IsIteration, s, N
<1>6. \A i \in 1 .. VaEnd + 1 : g[i] = Past(g[i - 1], i - 1, n)
  <2> SUFFICES ASSUME NEW i \in 1 .. VaEnd + 1 PROVE g[i] = Past(g[i - 1], i - 1, n)
    OBVIOUS
  <2>1. g[i - 1] \in Nat /\ i \in Nat
    BY <1>1
  <2> HIDE DEF F
  <2> QED BY <1>4, <1>5, <2>1
<1>7. Defines(g)
  BY <1>1, <1>5, <1>6
<1>8. Candidates(from, n) = CHOOSE at : Defines(at)
  BY Zenon DEF Candidates, GapStart
<1>9. Defines(Candidates(from, n))
  <2> HIDE DEF Defines
  <2> QED BY <1>7, <1>8, Zenon
<1> QED
  <2> DEFINE at == Candidates(from, n)
  <2>1. at = [i \in 0 .. (VaEnd + 1) |->
                IF i = 0 THEN GapStart(from) ELSE Past(at[i - 1], i - 1, n)]
    BY <1>9
  <2>2. g = [i \in 0 .. (VaEnd + 1) |->
                IF i = 0 THEN GapStart(from) ELSE Past(g[i - 1], i - 1, n)]
    BY <1>7
  <2> HIDE DEF at, Defines
  <2>3. at[0] = GapStart(from) /\ \A i \in 1 .. VaEnd + 1 : at[i] = Past(at[i - 1], i - 1, n)
    BY <1>1, <2>1
  <2> DEFINE S == {i \in Nat : i <= VaEnd + 1 => at[i] \in Nat}
  <2>4. 0 \in S
    BY <1>1, <2>3
  <2>5. ASSUME NEW i \in S PROVE i + 1 \in S
    <3> SUFFICES ASSUME i + 1 <= VaEnd + 1 PROVE at[i + 1] \in Nat
      OBVIOUS
    <3>1. i \in Nat /\ i <= VaEnd + 1 /\ i + 1 \in 1 .. VaEnd + 1 /\ (i + 1) - 1 = i
      BY VirtualMemoryAssumption
    <3>2. at[i] \in Nat /\ at[i + 1] = Past(at[i], i, n)
      BY <2>3, <3>1
    <3> QED BY <1>2, <3>2
  <2>6. S = Nat
    <3>1. S \in SUBSET Nat
      OBVIOUS
    <3> HIDE DEF S
    <3> QED BY <2>4, <2>5, <3>1, Induction
  <2>7. \A i \in 0 .. VaEnd + 1 : at[i] \in Nat
    BY <1>1, <2>6
  <2>8. at \in [0 .. VaEnd + 1 -> Nat]
    BY <2>1, <2>7, Zenon
  <2> QED BY <2>3, <2>8 DEF at

\* A range of n pages at a meets no region.
Clear(a, n) ==
    \A b \in DOMAIN virtual_reserved : b + virtual_reserved[b] <= a \/ a + n <= b

\* _find_free_vaddr's test is that of the ranges being disjoint.
LEMMA ClearIsNoOverlap ==
    ASSUME Regions, NEW a \in Nat, NEW n \in Nat
    PROVE  Clear(a, n) <=> ~ Overlaps(a, n)
<1>1. \A b \in DOMAIN virtual_reserved : b \in Nat /\ virtual_reserved[b] \in Nat
  BY VirtualMemoryAssumption DEF Regions
<1> QED BY <1>1 DEF Clear, Overlaps

\* What is known after the regions with bases below i have been looked at: the
\* candidate meets none of them, and every place before it meets one.
Sought(at, from, n, i) ==
    /\ at \in Nat /\ at >= GapStart(from)
    /\ \A b \in DOMAIN virtual_reserved :
          b < i => (b + virtual_reserved[b] <= at \/ at + n <= b)
    /\ \A a \in Nat : (GapStart(from) <= a /\ a < at) => Overlaps(a, n)

\* One more round of _find_free_vaddr's loop.
LEMMA SearchStep ==
    ASSUME Regions, NEW from \in Nat, NEW n \in Nat, NEW i \in Nat,
           NEW at, Sought(at, from, n, i)
    PROVE  Sought(Past(at, i, n), from, n, i + 1)
<1>1. \A b \in DOMAIN virtual_reserved : b \in Nat /\ virtual_reserved[b] \in Nat
  BY VirtualMemoryAssumption DEF Regions
<1>2. at \in Nat /\ at >= GapStart(from) /\ GapStart(from) \in Nat
  BY VirtualMemoryAssumption DEF Sought, GapStart
<1>3. CASE i \notin DOMAIN virtual_reserved
  <2>1. \A b \in DOMAIN virtual_reserved : b < i + 1 => b < i
    BY <1>1, <1>3
  <2> QED BY <1>3, <2>1 DEF Sought, Past
<1>4. CASE /\ i \in DOMAIN virtual_reserved
           /\ i + virtual_reserved[i] <= at \/ at + n <= i
  <2>1. \A b \in DOMAIN virtual_reserved : b < i + 1 => b < i \/ b = i
    BY <1>1
  <2> QED BY <1>4, <2>1 DEF Sought, Past
<1>5. CASE /\ i \in DOMAIN virtual_reserved
           /\ ~ (i + virtual_reserved[i] <= at) /\ ~ (at + n <= i)
  <2> DEFINE end == i + virtual_reserved[i]
  <2>1. Past(at, i, n) = end /\ end \in Nat /\ at < end /\ i < at + n
    BY <1>1, <1>2, <1>5 DEF Past
  <2>2. end >= GapStart(from)
    BY <1>2, <2>1
  <2>3. ASSUME NEW b \in DOMAIN virtual_reserved, b < i + 1
        PROVE  b + virtual_reserved[b] <= end
    <3>1. CASE b = i
      BY <1>1, <3>1
    <3>2. CASE b # i
      <4>1. b < i
        BY <1>1, <2>3, <3>2
      <4>2. b + virtual_reserved[b] <= i
        BY <1>5, <4>1 DEF Regions
      <4> QED BY <1>1, <1>5, <4>2
    <3> QED BY <3>1, <3>2
  <2>4. ASSUME NEW a \in Nat, GapStart(from) <= a, a < end PROVE Overlaps(a, n)
    <3>1. CASE a < at
      BY <2>4, <3>1 DEF Sought
    <3>2. CASE ~ (a < at)
      <4>1. i < a + n
        BY <1>2, <2>1, <3>2
      <4> QED BY <1>5, <2>4, <4>1 DEF Overlaps
    <3> QED BY <3>1, <3>2
  <2> HIDE DEF end
  <2> QED BY <2>1, <2>2, <2>3, <2>4 DEF Sought
<1> QED BY <1>3, <1>4, <1>5

\* The search comes to the first place at or after its start where n pages meet
\* no region.
LEMMA GapIsFirst ==
    ASSUME Regions, NEW from \in Nat, NEW n \in Nat
    PROVE  /\ Gap(from, n) \in Nat /\ Gap(from, n) >= GapStart(from)
           /\ Clear(Gap(from, n), n)
           /\ \A a \in Nat : (GapStart(from) <= a /\ a < Gap(from, n)) => Overlaps(a, n)
<1> DEFINE at == Candidates(from, n)
           S  == {i \in Nat : i <= VaEnd + 1 => Sought(at[i], from, n, i)}
<1>1. /\ at \in [0 .. VaEnd + 1 -> Nat]
      /\ at[0] = GapStart(from)
      /\ \A i \in 1 .. VaEnd + 1 : at[i] = Past(at[i - 1], i - 1, n)
  BY CandidatesAre
<1>a. VaEnd + 1 \in Nat /\ GapStart(from) \in Nat
  BY VirtualMemoryAssumption DEF GapStart
<1> HIDE DEF at
<1>2. 0 \in S
  <2>1. \A b \in DOMAIN virtual_reserved : ~ (b < 0)
    BY VirtualMemoryAssumption DEF Regions
  <2> QED BY <1>1, <1>a, <2>1 DEF Sought
<1>3. ASSUME NEW i \in S PROVE i + 1 \in S
  <2> SUFFICES ASSUME i + 1 <= VaEnd + 1 PROVE Sought(at[i + 1], from, n, i + 1)
    OBVIOUS
  <2>1. i \in Nat /\ i <= VaEnd + 1 /\ i + 1 \in 1 .. VaEnd + 1 /\ (i + 1) - 1 = i
    BY <1>a
  <2>2. at[i + 1] = Past(at[i], i, n) /\ Sought(at[i], from, n, i)
    BY <1>1, <2>1
  <2> QED BY <2>1, <2>2, SearchStep
<1>4. S = Nat
  <2>1. S \in SUBSET Nat
    OBVIOUS
  <2> HIDE DEF S
  <2> QED BY <1>2, <1>3, <2>1, Induction
<1>5. Sought(at[VaEnd + 1], from, n, VaEnd + 1)
  BY <1>4, <1>a
<1>6. Gap(from, n) = at[VaEnd + 1]
  BY DEF Gap, at
<1>7. \A b \in DOMAIN virtual_reserved : b < VaEnd + 1
  BY VirtualMemoryAssumption DEF Regions
<1> QED BY <1>5, <1>6, <1>7 DEF Sought, Clear

\* _find_free_range: what it gives lies below the end and meets no region ...
LEMMA FreeRangeIsClear ==
    ASSUME Regions, next_virtual_alloc \in Nat, NEW n \in Nat, FreeRange(n) # None
    PROVE  /\ FreeRange(n) \in Nat
           /\ FreeRange(n) + n <= VaEnd
           /\ Clear(FreeRange(n), n)
BY GapIsFirst, VirtualMemoryAssumption DEF FreeRange

\* ... and is the first such place at or after the cursor, or else the floor.
LEMMA SearchIsFirst ==
    ASSUME Regions, next_virtual_alloc \in Nat
    PROVE  FindsFirstGap
<1> SUFFICES ASSUME NEW n \in PageCounts \ {0}
             PROVE  LET gaps == {a \in VaFloor .. (VaEnd - n) : ~ Overlaps(a, n)}
                        ahead == {a \in gaps : a >= next_virtual_alloc}
                        first(set) == CHOOSE a \in set : \A b \in set : a <= b
                    IN  FreeRange(n) = IF ahead # {} THEN first(ahead)
                                       ELSE IF gaps # {} THEN first(gaps) ELSE None
  BY Zenon DEF FindsFirstGap
<1> DEFINE gaps == {a \in VaFloor .. (VaEnd - n) : ~ Overlaps(a, n)}
           ahead == {a \in gaps : a >= next_virtual_alloc}
           first(set) == CHOOSE a \in set : \A b \in set : a <= b
           g == Gap(next_virtual_alloc, n)
           h == Gap(VaFloor, n)
<1>1. n \in Nat /\ VaFloor \in Nat /\ VaEnd \in Nat
  BY VirtualMemoryAssumption
<1>2. ASSUME NEW T \in SUBSET Nat, NEW m \in T, \A b \in T : m <= b
      PROVE  first(T) = m
  <2>1. first(T) \in T /\ \A b \in T : first(T) <= b
    BY <1>2
  <2> HIDE DEF first
  <2>2. first(T) <= m /\ m <= first(T) /\ m \in Nat /\ first(T) \in Nat
    BY <1>2, <2>1
  <2> QED BY <2>2
<1>3. /\ g \in Nat /\ g >= GapStart(next_virtual_alloc) /\ ~ Overlaps(g, n)
      /\ \A a \in Nat : (GapStart(next_virtual_alloc) <= a /\ a < g) => Overlaps(a, n)
  BY <1>1, GapIsFirst, ClearIsNoOverlap
<1>4. /\ h \in Nat /\ h >= VaFloor /\ ~ Overlaps(h, n)
      /\ \A a \in Nat : (VaFloor <= a /\ a < h) => Overlaps(a, n)
  BY <1>1, GapIsFirst, ClearIsNoOverlap DEF GapStart
<1>5. FreeRange(n) = IF g + n <= VaEnd THEN g ELSE IF h + n <= VaEnd THEN h ELSE None
  BY DEF FreeRange
<1>6. /\ GapStart(next_virtual_alloc) >= VaFloor
      /\ GapStart(next_virtual_alloc) >= next_virtual_alloc
      /\ \A a \in Nat : (a >= VaFloor /\ a >= next_virtual_alloc)
                          => a >= GapStart(next_virtual_alloc)
      /\ GapStart(next_virtual_alloc) \in Nat
  BY <1>1 DEF GapStart
<1>7. /\ gaps \subseteq Nat /\ ahead \subseteq Nat
      /\ \A a \in gaps : a \in Nat /\ a >= VaFloor /\ a + n <= VaEnd /\ ~ Overlaps(a, n)
      /\ \A a \in ahead : a \in gaps /\ a >= next_virtual_alloc
      /\ \A a \in Nat : (a >= VaFloor /\ a + n <= VaEnd /\ ~ Overlaps(a, n)) => a \in gaps
      /\ \A a \in gaps : a >= next_virtual_alloc => a \in ahead
  BY <1>1
<1> HIDE DEF gaps, ahead, g, h, first
<1>8. \A a \in ahead : g <= a
  BY <1>3, <1>6, <1>7
<1>9. \A a \in gaps : h <= a
  BY <1>1, <1>4, <1>7
<1>10. CASE g + n <= VaEnd
  <2>1. g \in ahead
    BY <1>1, <1>3, <1>6, <1>7, <1>10
  <2>2. first(ahead) = g
    BY <1>2, <1>7, <1>8, <2>1
  <2> QED BY <1>5, <1>10, <2>1, <2>2 DEF gaps, ahead, first
<1>11. CASE ~ (g + n <= VaEnd)
  <2>1. ahead = {}
    BY <1>1, <1>3, <1>7, <1>8, <1>11
  <2>2. CASE h + n <= VaEnd
    <3>1. h \in gaps
      BY <1>1, <1>4, <1>7, <2>2
    <3>2. first(gaps) = h
      BY <1>2, <1>7, <1>9, <3>1
    <3> QED BY <1>5, <1>11, <2>1, <2>2, <3>1, <3>2 DEF gaps, ahead, first
  <2>3. CASE ~ (h + n <= VaEnd)
    <3>1. gaps = {}
      BY <1>1, <1>4, <1>7, <1>9, <2>3
    <3> QED BY <1>5, <1>11, <2>1, <2>3, <3>1 DEF gaps, ahead, first
  <2> QED BY <2>2, <2>3
<1> QED BY <1>10, <1>11

-----------------------------------------------------------------------------
(***************************************************************************)
(* The inductive invariant: the regions are apart; and, in a tidy program, *)
(* none is empty, the reservations handed out are the regions, and what is *)
(* committed is the base of one.                                           *)
(***************************************************************************)
LiveRegions ==
    \A r : r \in live_pages
             <=> \E b \in DOMAIN virtual_reserved : r = <<b, virtual_reserved[b]>>

TidyInv ==
    /\ \A b \in DOMAIN virtual_reserved : virtual_reserved[b] > 0
    /\ LiveRegions
    /\ virtual_committed \subseteq DOMAIN virtual_reserved

VmInv ==
    /\ Regions
    /\ next_virtual_alloc \in Nat
    /\ Tidy => TidyInv

\* A region is entered where it meets no other.
LEMMA EnteredApart ==
    ASSUME Regions, NEW a \in 0 .. VaEnd, NEW n \in Nat, Clear(a, n),
           virtual_reserved' = Entered(virtual_reserved, a, n)
    PROVE  Regions'
<1> DEFINE D == DOMAIN virtual_reserved
           new == Entered(virtual_reserved, a, n)
<1>1. /\ DOMAIN new = D \cup {a}
      /\ new[a] = n
      /\ \A b \in D : b # a => new[b] = virtual_reserved[b]
  BY DEF Entered
<1>2. /\ \A b \in D : b \in Nat /\ b \in 0 .. VaEnd /\ virtual_reserved[b] \in Nat
      /\ \A b, c \in D : b < c => b + virtual_reserved[b] <= c
      /\ \A b \in D : b + virtual_reserved[b] <= a \/ a + n <= b
      /\ a \in Nat
  BY VirtualMemoryAssumption DEF Regions, Clear
<1> HIDE DEF D, new
<1>3. DOMAIN new \subseteq 0 .. VaEnd /\ \A b \in DOMAIN new : new[b] \in Nat
  BY <1>1, <1>2
<1>4. ASSUME NEW b \in DOMAIN new, NEW c \in DOMAIN new, b < c PROVE b + new[b] <= c
  <2>1. CASE b = a
    <3>1. c \in D /\ c # a
      BY <1>1, <1>2, <1>4, <2>1
    <3>2. ~ (c + virtual_reserved[c] <= a)
      BY <1>2, <1>4, <2>1, <3>1
    <3> QED BY <1>1, <1>2, <2>1, <3>1, <3>2
  <2>2. CASE c = a
    <3>1. b \in D /\ b # a
      BY <1>1, <1>2, <1>4, <2>2
    <3>2. ~ (a + n <= b)
      BY <1>2, <1>4, <2>2, <3>1
    <3> QED BY <1>1, <1>2, <2>2, <3>1, <3>2
  <2>3. CASE b # a /\ c # a
    BY <1>1, <1>2, <1>4, <2>3
  <2> QED BY <2>1, <2>2, <2>3
<1> QED BY <1>3, <1>4 DEF Regions, new

\* A place that meets no region is the base of none, when none is empty.
LEMMA ClearIsNoBase ==
    ASSUME Regions, TidyInv, NEW a \in Nat, NEW n \in Nat, n > 0, Clear(a, n)
    PROVE  a \notin DOMAIN virtual_reserved
BY DEF Regions, TidyInv, Clear

\* Reserving and committing keep the invariant, under what their callers check.
LEMMA TakeKeeps ==
    ASSUME VmInv, NEW a \in 0 .. VaEnd, NEW n \in Nat, NEW type, Take(a, n, type),
           next_virtual_alloc' \in Nat,
           "reserve" \in type => Clear(a, n),
           Tidy => n > 0,
           (Tidy /\ "commit" \in type /\ "reserve" \notin type)
              => a \in DOMAIN virtual_reserved
    PROVE  VmInv'
<1>1. CASE "reserve" \notin type
  <2>1. virtual_reserved' = virtual_reserved /\ live_pages' = live_pages
    BY <1>1 DEF Take
  <2>2. Tidy => virtual_committed' \subseteq DOMAIN virtual_reserved
    BY <1>1 DEF Take, VmInv, TidyInv
  <2> QED BY <2>1, <2>2 DEF VmInv, Regions, TidyInv, LiveRegions
<1>2. CASE "reserve" \in type
  <2>1. /\ virtual_reserved' = Entered(virtual_reserved, a, n)
        /\ live_pages' = live_pages \cup {<<a, n>>}
        /\ virtual_committed' \subseteq virtual_committed \cup {a}
    BY <1>2 DEF Take
  <2>2. Regions'
    BY <1>2, <2>1, EnteredApart DEF VmInv
  <2>3. ASSUME Tidy PROVE TidyInv'
    <3> DEFINE D == DOMAIN virtual_reserved
               new == Entered(virtual_reserved, a, n)
    <3>1. a \in Nat
      BY VirtualMemoryAssumption
    <3>2. a \notin D /\ n > 0
      BY <1>2, <2>3, <3>1, ClearIsNoBase DEF VmInv
    <3>3. /\ DOMAIN new = D \cup {a}
          /\ new[a] = n
          /\ \A b \in D : b # a => new[b] = virtual_reserved[b]
      BY DEF Entered
    <3>4. /\ \A b \in D : virtual_reserved[b] > 0
          /\ \A r : r \in live_pages <=> \E b \in D : r = <<b, virtual_reserved[b]>>
          /\ virtual_committed \subseteq D
      BY <2>3 DEF VmInv, TidyInv, LiveRegions
    <3> HIDE DEF D, new
    <3>5. \A b \in DOMAIN new : new[b] > 0
      BY <3>2, <3>3, <3>4
    <3>6. virtual_committed' \subseteq DOMAIN new
      BY <2>1, <3>3, <3>4
    <3>7. \A r : r \in live_pages' <=> \E b \in DOMAIN new : r = <<b, new[b]>>
      <4>1. \A r : (\E b \in DOMAIN new : r = <<b, new[b]>>)
                     <=> (r = <<a, n>> \/ \E b \in D : r = <<b, virtual_reserved[b]>>)
        BY <3>2, <3>3
      <4> QED BY <2>1, <3>4, <4>1
    <3>8. virtual_reserved' = new
      BY <2>1 DEF new
    <3> QED BY <3>5, <3>6, <3>7, <3>8 DEF TidyInv, LiveRegions
  <2> QED BY <2>2, <2>3 DEF VmInv
<1> QED BY <1>1, <1>2

\* Every call that changes nothing, or only stops the program.
LEMMA NothingChanges ==
    ASSUME VmInv, Halt \/ Fail PROVE VmInv'
BY DEF VmInv, Halt, Fail, Regions, TidyInv, LiveRegions

\* VirtualAlloc at an address of its own choice.
LEMMA AllocAnywhereKeeps ==
    ASSUME VmInv, NEW n \in Nat, NEW type, AllocAnywhere(n, type),
           Tidy => n > 0 /\ ("commit" \in type => type = {"commit"} \/ "reserve" \in type)
    PROVE  VmInv'
<1> DEFINE a == FreeRange(n)
           taken == IF type = {"commit"} THEN {"commit", "reserve"} ELSE type
<1>1. CASE a = None
  BY <1>1, NothingChanges DEF AllocAnywhere
<1>2. CASE a # None
  <2>1. a \in Nat /\ a + n <= VaEnd /\ Clear(a, n)
    BY <1>2, FreeRangeIsClear DEF VmInv
  <2>2. a \in 0 .. VaEnd /\ a + n \in Nat
    BY <2>1, VirtualMemoryAssumption
  <2>3. Take(a, n, taken) /\ next_virtual_alloc' = a + n
    BY <1>2 DEF AllocAnywhere
  <2>4. (Tidy /\ "commit" \in taken) => "reserve" \in taken
    OBVIOUS
  <2> HIDE DEF a, taken
  <2> QED BY <2>1, <2>2, <2>3, <2>4, TakeKeeps
<1> QED BY <1>1, <1>2

\* VirtualAlloc that commits pages of a region.
LEMMA CommitKeeps ==
    ASSUME VmInv, NEW a \in Nat, NEW n \in Nat, Commit(a, n),
           Tidy => n > 0 /\ a \in DOMAIN virtual_reserved
    PROVE  VmInv'
<1>1. CASE Region(a) = {}
  BY <1>1, NothingChanges DEF Commit
<1>2. CASE Region(a) # {}
  <2>1. Take(a, n, {"commit"}) /\ next_virtual_alloc' = next_virtual_alloc
    BY <1>2 DEF Commit
  <2>2. virtual_reserved' = virtual_reserved /\ live_pages' = live_pages
    BY <2>1 DEF Take
  <2>3. Tidy => virtual_committed' \subseteq DOMAIN virtual_reserved
    BY <2>1 DEF Take, VmInv, TidyInv
  <2> QED BY <2>1, <2>2, <2>3 DEF VmInv, Regions, TidyInv, LiveRegions
<1> QED BY <1>1, <1>2

\* VirtualAlloc at the address asked for.
LEMMA AllocAtKeeps ==
    ASSUME VmInv, NEW a \in Int, NEW n \in Nat, NEW type, AllocAt(a, n, type),
           Tidy => n > 0 /\ ("commit" \in type => "reserve" \in type)
    PROVE  VmInv'
<1>1. CASE Refused(a, n, type)
  BY <1>1, NothingChanges DEF AllocAt
<1>2. CASE ~ Refused(a, n, type)
  <2>1. a \in Nat /\ a + n <= VaEnd /\ ("reserve" \in type => ~ Overlaps(a, n))
    BY <1>2, VirtualMemoryAssumption DEF Refused
  <2>2. a \in 0 .. VaEnd /\ a + n \in Nat
    BY <2>1, VirtualMemoryAssumption
  <2>3. "reserve" \in type => Clear(a, n)
    BY <2>1, ClearIsNoOverlap DEF VmInv
  <2>4. Take(a, n, type) /\ next_virtual_alloc' \in Nat
    BY <1>2, <2>2 DEF AllocAt, VmInv
  <2> QED BY <2>2, <2>3, <2>4, TakeKeeps
<1> QED BY <1>1, <1>2

\* VirtualFree that releases a region.
LEMMA ReleaseKeeps ==
    ASSUME VmInv, NEW a, Release(a) PROVE VmInv'
<1>1. CASE a \notin DOMAIN virtual_reserved
  BY <1>1, NothingChanges DEF Release
<1>2. CASE a \in DOMAIN virtual_reserved
  <2> DEFINE D == DOMAIN virtual_reserved
             new == Forget(virtual_reserved, a)
  <2>1. /\ virtual_reserved' = new /\ live_pages' = {r \in live_pages : r[1] # a}
        /\ virtual_committed' = virtual_committed \ {a}
        /\ next_virtual_alloc' = next_virtual_alloc
    BY <1>2 DEF Release, Released
  <2>2. DOMAIN new = D \ {a} /\ \A b \in D \ {a} : new[b] = virtual_reserved[b]
    BY DEF Forget
  <2> HIDE DEF D, new
  <2>3. Regions'
    BY <2>1, <2>2 DEF VmInv, Regions, D
  <2>4. ASSUME Tidy PROVE TidyInv'
    <3>1. /\ \A b \in D : virtual_reserved[b] > 0
          /\ \A r : r \in live_pages <=> \E b \in D : r = <<b, virtual_reserved[b]>>
          /\ virtual_committed \subseteq D
      BY <2>4 DEF VmInv, TidyInv, LiveRegions, D
    <3>2. \A r : r \in live_pages' <=> \E b \in DOMAIN new : r = <<b, new[b]>>
      BY <2>1, <2>2, <3>1
    <3>3. /\ \A b \in DOMAIN new : new[b] > 0
          /\ virtual_committed' \subseteq DOMAIN new
      BY <2>1, <2>2, <3>1
    <3> QED BY <2>1, <3>2, <3>3 DEF TidyInv, LiveRegions
  <2> QED BY <2>1, <2>3, <2>4 DEF VmInv
<1> QED BY <1>1, <1>2

\* Every call keeps the invariant.
LEMMA VmNextKeeps == VmInv /\ [VmNext]_vmVars => VmInv'
<1> SUFFICES ASSUME VmInv, [VmNext]_vmVars PROVE VmInv'
  OBVIOUS
<1>1. ASSUME NEW a \in {0} \cup (VaStart - 1) .. VaEnd, NEW n \in PageCounts,
             NEW type \in SUBSET {"commit", "reserve"}, VirtualAlloc(a, n, type)
      PROVE  VmInv'
  <2>1. n \in Nat /\ a \in Int
    BY VirtualMemoryAssumption
  <2>2. Tidy => /\ n > 0 /\ type # {}
                /\ type = {"commit"} => a = 0 \/ a \in DOMAIN virtual_reserved
    BY <1>1, <2>1 DEF VirtualAlloc, IsTidy
  <2>3. CASE a = 0
    <3>1. AllocAnywhere(n, type)
      BY <1>1, <2>3 DEF VirtualAlloc
    <3>2. "commit" \in type => type = {"commit"} \/ "reserve" \in type
      OBVIOUS
    <3> QED BY <2>1, <2>2, <3>1, <3>2, AllocAnywhereKeeps
  <2>4. CASE a # 0 /\ type = {"commit"}
    <3>1. Commit(a, n)
      BY <1>1, <2>4 DEF VirtualAlloc
    <3>2. CASE a < 0
      <4>1. Region(a) = {}
        BY <2>1, <3>2, VirtualMemoryAssumption DEF Region, VmInv, Regions
      <4> QED BY <3>1, <4>1, NothingChanges DEF Commit
    <3>3. CASE ~ (a < 0)
      <4>1. a \in Nat
        BY <2>1, <3>3
      <4> QED BY <2>1, <2>2, <2>4, <3>1, <4>1, CommitKeeps
    <3> QED BY <3>2, <3>3
  <2>5. CASE a # 0 /\ type # {"commit"}
    <3>1. AllocAt(a, n, type)
      BY <1>1, <2>5 DEF VirtualAlloc
    <3>2. "commit" \in type => "reserve" \in type
      BY <2>5
    <3> QED BY <2>1, <2>2, <3>1, <3>2, AllocAtKeeps
  <2> QED BY <2>3, <2>4, <2>5
<1>2. ASSUME NEW a, Decommit(a) PROVE VmInv'
  BY <1>2 DEF Decommit, VmInv, Regions, TidyInv, LiveRegions
<1>3. ASSUME NEW a, VirtualQuery(a) PROVE VmInv'
  BY <1>3, NothingChanges DEF VirtualQuery
<1>4. CASE UNCHANGED vmVars
  BY <1>4 DEF vmVars, VmInv, Regions, TidyInv, LiveRegions
<1> QED BY <1>1, <1>2, <1>3, <1>4, ReleaseKeeps DEF VmNext

\* The invariant says what the run checks.
LEMMA VmInvImplies == VmInv => PagesAreKept
<1> SUFFICES ASSUME VmInv PROVE PagesAreKept
  OBVIOUS
<1>1. FindsFirstGap
  BY SearchIsFirst DEF VmInv
<1>2. NoPageTwice
  <2> SUFFICES ASSUME Tidy, NEW r \in live_pages, NEW s \in live_pages, r # s
               PROVE  Pages(r[1], r[2]) \cap Pages(s[1], s[2]) = {}
    BY DEF NoPageTwice
  <2>1. PICK b \in DOMAIN virtual_reserved : r = <<b, virtual_reserved[b]>>
    BY DEF VmInv, TidyInv, LiveRegions
  <2>2. PICK c \in DOMAIN virtual_reserved : s = <<c, virtual_reserved[c]>>
    BY DEF VmInv, TidyInv, LiveRegions
  <2>3. /\ b \in Nat /\ c \in Nat /\ b # c
        /\ virtual_reserved[b] \in Nat /\ virtual_reserved[c] \in Nat
    BY <2>1, <2>2, VirtualMemoryAssumption DEF VmInv, Regions
  <2>4. b + virtual_reserved[b] <= c \/ c + virtual_reserved[c] <= b
    BY <2>3 DEF VmInv, Regions
  <2> QED BY <2>1, <2>2, <2>3, <2>4 DEF Pages
<1>3. CommittedIsReserved
  BY DEF CommittedIsReserved, VmInv, TidyInv
<1> QED BY <1>1, <1>2, <1>3 DEF PagesAreKept

\* VirtualAlloc, for an address space and requests of any size: the search for
\* a gap gives the first one and fails only when there is none; and in a tidy
\* program no page has two owners and none is committed that is not reserved
\* (tew/api/kernel32_memory.py:217-239, 303-324, 400-401).
THEOREM PagesKept == VmSpec => []PagesAreKept
<1>1. VmInit => VmInv
  <2> SUFFICES ASSUME VmInit PROVE VmInv
    OBVIOUS
  <2>1. DOMAIN virtual_reserved = {}
    BY DEF VmInit, Empty
  <2> QED BY <2>1, VirtualMemoryAssumption
          DEF VmInit, VmInv, Regions, TidyInv, LiveRegions
<1> QED BY <1>1, VmNextKeeps, VmInvImplies, PTL DEF VmSpec

-----------------------------------------------------------------------------
(***************************************************************************)
(* Static initializers run once and in order, for tables of any length and *)
(* any number of threads, when the loads of the guest stay apart.  What     *)
(* keeps them so is that there is then one loop at a time: the thread whose *)
(* code is in an initializer is the one whose loop is running.              *)
(***************************************************************************)

AfterTable == Len(Table) + 1

\* There is a next slot: the end of the table if no other.
LEMMA NextSlotIsThere ==
    ASSUME NEW i \in 0 .. Len(Table)
    PROVE  NextSlot(i) \in Slots \cup {AfterTable}
<1>1. Len(Table) \in Nat /\ Slots = 1 .. Len(Table)
  BY InitializersAssumption DEF Slots
<1> DEFINE R == OpToRel(<, Nat)
           T == {j \in Slots \cup {AfterTable} : j > i /\ (j \in Slots => Table[j])}
<1>2. T \subseteq Nat /\ AfterTable \in T
  BY <1>1 DEF AfterTable
<1>3. PICK j \in T : \A k \in T : <<k, j>> \notin R
  <2>1. IsWellFoundedOn(R, Nat)
    BY NatLessThanWellFounded
  <2>2. T # {}
    BY <1>2
  <2> HIDE DEF T, R
  <2>3. QED
    BY <1>2, <2>1, <2>2, WFMin
<1>4. \A k \in T : ~ (k < j)
  BY <1>2, <1>3 DEF OpToRel
<1>5. \A k \in Slots : (i < k /\ k < j) => ~ Table[k]
  BY <1>1, <1>4
<1>6. \E x \in Slots \cup {Len(Table) + 1} :
        /\ x > i /\ (x \in Slots => Table[x])
        /\ \A k \in Slots : (i < k /\ k < x) => ~ Table[k]
  BY <1>5 DEF AfterTable
<1>7. QED
  BY <1>6 DEF NextSlot, AfterTable

-----------------------------------------------------------------------------
LoopFrame == [thread : InitThread, slot : Slots]
Run   == [slot : Slots, by : InitThread]

\* The slot t has come to.
LastSlot(t) == IF ran[t] = <<>> THEN 0 ELSE ran[t][Len(ran[t])].slot

InLoop(t) == loops # <<>> /\ loops[1].thread = t

Types ==
    /\ load \in [callers : Callers, waiting : Waiting]
    /\ loaded \in InitThread
    /\ ran \in [InitThread -> Seq(Run)]
    /\ inside \in [InitThread -> BOOLEAN]
    /\ called \in [InitThread -> {"not yet", "pending", "returned", "error"}]
    /\ dead = {}

\* One loop at most, of a thread that loads; its code alone is inside, and
\* nobody else runs unless it waits.
OneLoop ==
    /\ loops = <<>> \/ \E f \in LoopFrame : f.thread \in load.callers /\ loops = <<f>>
    /\ \A t \in InitThread : /\ inside[t] <=> InLoop(t)
                             /\ called[t] = "pending" <=> InLoop(t)
                             /\ (load.waiting = {} /\ InLoop(t)) => t = loaded

InOrder(t) ==
    /\ \A i \in DOMAIN ran[t] :
         /\ ran[t][i].by = t
         /\ ran[t][i].slot = NextSlot(IF i = 1 THEN 0 ELSE ran[t][i - 1].slot)
    /\ called[t] = "not yet" => ran[t] = <<>>
    /\ InLoop(t) => loops[1].slot = NextSlot(LastSlot(t))
    /\ called[t] = "returned" => NextSlot(LastSlot(t)) = AfterTable

OneByOne == Types /\ OneLoop /\ \A t \in InitThread : InOrder(t)

InitializersInv == LoadsApart => OneByOne

\* The initializers' invariant holds at first.
LEMMA Starts == InitializersInit => InitializersInv
<1> SUFFICES ASSUME InitializersInit PROVE OneByOne
  BY DEF InitializersInv
<1>1. Types
  <2>1. <<>> \in Seq(Run)
    BY EmptySeq
  <2>2. QED
    BY <2>1 DEF InitializersInit, Types
<1>2. OneLoop
  BY DEF InitializersInit, OneLoop, InLoop
<1>3. ASSUME NEW t \in InitThread PROVE InOrder(t)
  <2>1. ran[t] = <<>> /\ called[t] = "not yet" /\ loops = <<>>
    BY DEF InitializersInit
  <2>2. DOMAIN ran[t] = {}
    <3>1. <<>> \in Seq(Run) /\ Len(<<>>) = 0
      BY EmptySeq
    <3>2. DOMAIN <<>> = 1 .. 0
      BY <3>1, LenProperties
    <3>3. 1 .. 0 = {}
      OBVIOUS
    <3>4. QED
      BY <2>1, <3>2, <3>3, Zenon
  <2>3. QED
    BY <2>1, <2>2 DEF InOrder, InLoop
<1>4. QED
  BY <1>1, <1>2, <1>3 DEF OneByOne

\* The innermost loop is the only one.
LEMMA TheLoop ==
    ASSUME OneByOne, loops # <<>>
    PROVE  /\ Innermost \in LoopFrame /\ Innermost.thread \in load.callers
           /\ loops = <<Innermost>> /\ OutOfLoop = <<>>
           /\ InLoop(Innermost.thread)
<1>1. PICK f \in LoopFrame : f.thread \in load.callers /\ loops = <<f>>
  BY DEF OneByOne, OneLoop
<1>2. Innermost = f /\ OutOfLoop = <<>>
  <2>1. Len(loops) = 1 /\ loops[1] = f
    BY <1>1
  <2>2. OutOfLoop = SubSeq(loops, 1, 0) /\ loops \in Seq(LoopFrame)
    BY <1>1, <2>1 DEF OutOfLoop
  <2>3. QED
    BY <2>1, <2>2 DEF Innermost
<1>3. QED
  BY <1>1, <1>2 DEF InLoop

\* When a thread that loads calls and nobody waits, no loop runs.
LEMMA NoLoopYet ==
    ASSUME OneByOne, LoadsApart, loaded \in load.callers, ~ inside[loaded]
    PROVE  loops = <<>>
<1> SUFFICES ASSUME loops # <<>> PROVE FALSE
  OBVIOUS
<1>1. Innermost.thread \in load.callers /\ Innermost.thread \in InitThread
      /\ InLoop(Innermost.thread)
  BY TheLoop DEF LoopFrame
<1>2. Innermost.thread # loaded
  BY <1>1 DEF OneByOne, OneLoop, Types
<1>3. QED
  BY <1>1, <1>2 DEF OneByOne, OneLoop, LoadsApart

\* Whose code is inside is whose loop runs.
LEMMA InsideIsTheLoop ==
    ASSUME OneByOne, inside[loaded]
    PROVE  /\ loops # <<>> /\ Innermost \in LoopFrame /\ Innermost.thread = loaded
           /\ loops = <<Innermost>> /\ OutOfLoop = <<>> /\ InLoop(loaded)
<1>1. InLoop(loaded)
  BY DEF OneByOne, OneLoop, Types
<1>2. QED
  BY <1>1, TheLoop DEF InLoop

-----------------------------------------------------------------------------
\* The steps that only switch threads, or halt.
LEMMA OthersRun ==
    ASSUME OneByOne, UNCHANGED <<load, loops, inside, ran, called, dead>>,
           loaded' \in InitThread,
           loaded' = loaded \/ load.waiting # {} \/ ~ inside[loaded]
    PROVE  OneByOne'
<1>1. Types'
  BY DEF OneByOne, Types
<1>2. OneLoop'
  <2>1. (load.waiting = {} /\ loaded' # loaded) => \A t \in InitThread : ~ InLoop(t)
    BY DEF OneByOne, OneLoop, Types
  <2>2. QED
    BY <2>1 DEF OneByOne, OneLoop, InLoop
<1>3. ASSUME NEW t \in InitThread PROVE InOrder(t)'
  <2>1. LastSlot(t)' = LastSlot(t) /\ (InLoop(t)' <=> InLoop(t))
    BY DEF LastSlot, InLoop
  <2>2. InOrder(t)
    BY DEF OneByOne
  <2>3. QED
    BY <2>1, <2>2 DEF InOrder
<1>4. QED
  BY <1>1, <1>2, <1>3 DEF OneByOne

\* What a thread has run grows by the slot it was in.
LEMMA OneMoreRun ==
    ASSUME OneByOne, inside[loaded], UNCHANGED loaded,
           ran' = [ran EXCEPT ![Innermost.thread] =
                     Append(@, [slot |-> Innermost.slot, by |-> loaded])]
    PROVE  /\ ran' \in [InitThread -> Seq(Run)]
           /\ \A t \in InitThread \ {loaded} : ran'[t] = ran[t]
           /\ \A i \in DOMAIN ran'[loaded] :
                /\ ran'[loaded][i].by = loaded
                /\ ran'[loaded][i].slot =
                     NextSlot(IF i = 1 THEN 0 ELSE ran'[loaded][i - 1].slot)
           /\ LastSlot(loaded)' = Innermost.slot
<1> DEFINE r == ran[loaded]
           e == [slot |-> Innermost.slot, by |-> loaded]
<1>1. /\ Innermost \in LoopFrame /\ Innermost.thread = loaded
      /\ loops = <<Innermost>> /\ InLoop(loaded)
  BY InsideIsTheLoop
<1>2. loaded \in InitThread /\ r \in Seq(Run) /\ e \in Run /\ ran \in [InitThread -> Seq(Run)]
  BY <1>1 DEF OneByOne, Types, LoopFrame, Run
<1>3. ran' = [ran EXCEPT ![loaded] = Append(r, e)]
  BY <1>1
<1>4. loops[1] = Innermost
  BY <1>1
<1>5. /\ \A i \in DOMAIN r : /\ r[i].by = loaded
                             /\ r[i].slot = NextSlot(IF i = 1 THEN 0 ELSE r[i - 1].slot)
      /\ e.slot = NextSlot(LastSlot(loaded)) /\ e.by = loaded
  BY <1>1, <1>2, <1>4 DEF OneByOne, InOrder
<1>6. LastSlot(loaded) = IF r = <<>> THEN 0 ELSE r[Len(r)].slot
  BY DEF LastSlot
<1> HIDE DEF r, e
<1>7. /\ Append(r, e) \in Seq(Run) /\ Len(Append(r, e)) = Len(r) + 1 /\ Len(r) \in Nat
      /\ DOMAIN Append(r, e) = 1 .. Len(r) + 1 /\ DOMAIN r = 1 .. Len(r)
      /\ \A i \in 1 .. Len(r) : Append(r, e)[i] = r[i]
      /\ Append(r, e)[Len(r) + 1] = e
  BY <1>2
<1>8. ran'[loaded] = Append(r, e) /\ ran' \in [InitThread -> Seq(Run)]
      /\ \A t \in InitThread \ {loaded} : ran'[t] = ran[t]
  BY <1>2, <1>3, <1>7
<1>9. ASSUME NEW i \in 1 .. Len(r) + 1
      PROVE  /\ Append(r, e)[i].by = loaded
             /\ Append(r, e)[i].slot = NextSlot(IF i = 1 THEN 0 ELSE Append(r, e)[i - 1].slot)
  <2>1. CASE i = Len(r) + 1 /\ r = <<>>
    <3>1. i = 1 /\ LastSlot(loaded) = 0
      BY <1>6, <2>1
    <3>2. QED
      BY <1>5, <1>7, <2>1, <3>1
  <2>2. CASE i = Len(r) + 1 /\ r # <<>>
    <3>1. Len(r) # 0
      BY <1>2, <2>2, EmptySeq
    <3>2. i - 1 = Len(r) /\ i # 1 /\ Append(r, e)[i - 1] = r[Len(r)]
      <4>1. i - 1 = Len(r) /\ i # 1 /\ Len(r) \in 1 .. Len(r)
        <5>1. Len(r) \in Nat /\ i = Len(r) + 1
          BY <1>7, <2>2, Zenon
        <5> QED BY <3>1, <5>1
      <4>2. QED
        BY <1>7, <4>1
    <3>3. LastSlot(loaded) = Append(r, e)[i - 1].slot
      BY <1>6, <2>2, <3>2
    <3>4. LastSlot(loaded) = IF i = 1 THEN 0 ELSE Append(r, e)[i - 1].slot
      BY <3>2, <3>3
    <3>5. Append(r, e)[i] = e
      BY <1>7, <2>2
    <3>6. QED
      BY <1>5, <3>4, <3>5
  <2>3. CASE i \in 1 .. Len(r)
    <3>1. Append(r, e)[i] = r[i] /\ (i # 1 => Append(r, e)[i - 1] = r[i - 1])
      BY <1>7, <2>3
    <3>2. QED
      BY <1>5, <1>7, <2>3, <3>1
  <2>4. QED
    BY <1>7, <2>1, <2>2, <2>3
<1>10. LastSlot(loaded)' = Innermost.slot
  <2>1. ran'[loaded] # <<>> /\ ran'[loaded][Len(ran'[loaded])] = e
    <3>1. Append(r, e) # <<>> /\ Append(r, e)[Len(Append(r, e))] = e
      BY <1>7
    <3> QED BY <1>8, <3>1
  <2>2. e.slot = Innermost.slot
    BY DEF e
  <2>3. QED
    BY <2>1, <2>2 DEF LastSlot
<1>11. \A i \in DOMAIN ran'[loaded] :
         /\ ran'[loaded][i].by = loaded
         /\ ran'[loaded][i].slot = NextSlot(IF i = 1 THEN 0 ELSE ran'[loaded][i - 1].slot)
  BY <1>7, <1>8, <1>9
<1>12. QED
  BY <1>8, <1>10, <1>11

-----------------------------------------------------------------------------
(* The steps of a load.                                                    *)

\* The table goes on behind the slot the loaded thread has come to: no loop
\* but its own was running.
LEMMA GoesOn ==
    ASSUME OneByOne, loaded \in load.callers, loaded \in InitThread,
           UNCHANGED <<load, loaded, dead>>,
           \A t \in InitThread \ {loaded} : ~ InLoop(t) /\ ran'[t] = ran[t],
           ran' \in [InitThread -> Seq(Run)],
           \A i \in DOMAIN ran'[loaded] :
             /\ ran'[loaded][i].by = loaded
             /\ ran'[loaded][i].slot = NextSlot(IF i = 1 THEN 0 ELSE ran'[loaded][i - 1].slot),
           LastSlot(loaded)' \in 0 .. Len(Table),
           CallSlot(loaded, NextSlot(LastSlot(loaded)'), <<>>)
    PROVE  OneByOne'
<1> DEFINE n == NextSlot(LastSlot(loaded)')
<1>1. n \in Slots \cup {AfterTable}
  BY NextSlotIsThere
<1>2. AfterTable \notin Slots
  BY InitializersAssumption DEF AfterTable, Slots
<1>3. /\ inside' = [inside EXCEPT ![loaded] = n \in Slots]
      /\ called' = [called EXCEPT ![loaded] = IF n \in Slots THEN "pending" ELSE "returned"]
  BY DEF CallSlot
<1>4. n \in Slots => loops' = <<[thread |-> loaded, slot |-> n]>>
  BY DEF CallSlot
<1>5. n \notin Slots => loops' = <<>>
  BY DEF CallSlot
<1>6. n = NextSlot(LastSlot(loaded)')
  OBVIOUS
<1> HIDE DEF n
<1>7. Types'
  <2>1. (n \in Slots) \in BOOLEAN
    OBVIOUS
  <2>2. /\ inside' \in [InitThread -> BOOLEAN]
        /\ called' \in [InitThread -> {"not yet", "pending", "returned", "error"}]
    BY <1>3, <2>1 DEF OneByOne, Types
  <2>3. QED
    BY <2>2 DEF OneByOne, Types
<1>8. \A t \in InitThread : InLoop(t)' <=> (n \in Slots /\ t = loaded)
  <2>1. CASE n \in Slots
    <3>1. loops' # <<>> /\ loops'[1] = [thread |-> loaded, slot |-> n]
      <4> DEFINE f == [thread |-> loaded, slot |-> n]
      <4>1. loops' = <<f>>
        BY <1>4, <2>1
      <4> HIDE DEF f
      <4>2. loops' # <<>> /\ loops'[1] = f
        BY <4>1
      <4>3. QED
        BY <4>2 DEF f
    <3>2. loops'[1].thread = loaded
      BY <3>1
    <3>3. QED
      BY <2>1, <3>1, <3>2 DEF InLoop
  <2>2. CASE n \notin Slots
    BY <1>5, <2>2 DEF InLoop
  <2>3. QED
    BY <2>1, <2>2
<1>9. OneLoop'
  <2>1. (loops = <<>> \/ \E f \in LoopFrame : f.thread \in load.callers /\ loops = <<f>>)'
    <3>1. CASE n \in Slots
      <4>1. [thread |-> loaded, slot |-> n] \in LoopFrame
        BY <3>1 DEF LoopFrame
      <4>2. QED
        BY <1>4, <3>1, <4>1
    <3>2. QED
      BY <1>5, <3>1
  <2>2. \A t \in InitThread : inside'[t] <=> InLoop(t)'
    BY <1>3, <1>8 DEF OneByOne, Types, OneLoop
  <2>3. \A t \in InitThread : called'[t] = "pending" <=> InLoop(t)'
    BY <1>3, <1>8 DEF OneByOne, Types, OneLoop
  <2>4. QED
    BY <1>8, <2>1, <2>2, <2>3 DEF OneLoop
<1>10. ASSUME NEW t \in InitThread \ {loaded} PROVE InOrder(t)'
  <2>1. LastSlot(t)' = LastSlot(t) /\ called'[t] = called[t] /\ ran'[t] = ran[t]
    BY <1>3 DEF LastSlot, OneByOne, Types
  <2>2. InOrder(t) /\ ~ InLoop(t)'
    BY <1>8 DEF OneByOne
  <2>3. QED
    BY <2>1, <2>2 DEF InOrder
<1>11. InOrder(loaded)'
  <2>1. called'[loaded] = IF n \in Slots THEN "pending" ELSE "returned"
    BY <1>3 DEF OneByOne, Types
  <2>2. InLoop(loaded)' => loops'[1].slot = n
    BY <1>4, <1>8
  <2>3. called'[loaded] = "returned" => n = AfterTable
    BY <1>1, <2>1
  <2>4. QED
    BY <1>6, <2>1, <2>2, <2>3 DEF InOrder
<1>12. QED
  <2>1. \A t \in InitThread : InOrder(t)'
    BY <1>10, <1>11
  <2>2. QED
    BY <1>7, <1>9, <2>1 DEF OneByOne

\* _initterm begins its loop.
LEMMA InittermStep == OneByOne /\ LoadsApart /\ Initterm => OneByOne'
<1> SUFFICES ASSUME OneByOne, LoadsApart, Initterm PROVE OneByOne'
  OBVIOUS
<1>1. /\ loaded \in load.callers /\ called[loaded] = "not yet" /\ ~ inside[loaded]
      /\ CallSlot(loaded, NextSlot(0), loops)
      /\ UNCHANGED <<load, loaded, dead, ran>>
  BY DEF Initterm
<1>2. loops = <<>> /\ loaded \in InitThread
  BY <1>1, NoLoopYet DEF OneByOne, Types
<1>3. InOrder(loaded) /\ ran[loaded] = <<>>
  BY <1>1, <1>2 DEF OneByOne, InOrder
<1>4. LastSlot(loaded)' = 0 /\ 0 \in 0 .. Len(Table)
  <2>1. ran'[loaded'] = <<>>
    BY <1>1, <1>3
  <2>2. QED
    BY <2>1, InitializersAssumption DEF LastSlot
<1>5. \A t \in InitThread : ~ InLoop(t)
  BY <1>2 DEF InLoop
<1>6. ran' \in [InitThread -> Seq(Run)]
  BY <1>1 DEF OneByOne, Types
<1>7. QED
  BY <1>1, <1>2, <1>3, <1>4, <1>5, <1>6, GoesOn DEF InOrder

\* Nobody else's loop runs.
LEMMA NobodyElse ==
    ASSUME OneByOne, NEW u \in InitThread, InLoop(u)
    PROVE  \A t \in InitThread \ {u} : ~ InLoop(t)
BY DEF InLoop

\* An initializer returns and the next one is called.
LEMMA ReturnStep == OneByOne /\ InitializerReturns => OneByOne'
<1> SUFFICES ASSUME OneByOne, InitializerReturns PROVE OneByOne'
  OBVIOUS
<1>1. /\ inside[loaded] /\ UNCHANGED <<load, loaded, dead>>
      /\ ran' = [ran EXCEPT ![Innermost.thread] =
                    Append(@, [slot |-> Innermost.slot, by |-> loaded])]
      /\ CallSlot(Innermost.thread, NextSlot(Innermost.slot), OutOfLoop)
  BY DEF InitializerReturns, Ended
<1>2. /\ Innermost \in LoopFrame /\ Innermost.thread = loaded /\ OutOfLoop = <<>>
      /\ InLoop(loaded) /\ loops # <<>>
  BY <1>1, InsideIsTheLoop
<1>3. loaded \in load.callers /\ loaded \in InitThread
  BY <1>2, TheLoop DEF OneByOne, Types
<1>4. LastSlot(loaded)' = Innermost.slot
  BY <1>1, OneMoreRun
<1>5. Innermost.slot \in 0 .. Len(Table)
  BY <1>2, InitializersAssumption DEF LoopFrame, Slots
<1>6. CallSlot(loaded, NextSlot(LastSlot(loaded)'), <<>>)
  BY <1>1, <1>2, <1>4
<1>7. \A t \in InitThread \ {loaded} : ~ InLoop(t) /\ ran'[t] = ran[t]
  BY <1>1, <1>2, <1>3, NobodyElse, OneMoreRun
<1>8. QED
  BY <1>1, <1>3, <1>4, <1>5, <1>6, <1>7, OneMoreRun, GoesOn

\* An initializer fails.
LEMMA FailStep == OneByOne /\ InitializerFails => OneByOne'
<1> SUFFICES ASSUME OneByOne, InitializerFails PROVE OneByOne'
  OBVIOUS
<1>1. /\ inside[loaded] /\ UNCHANGED <<load, loaded, dead>>
      /\ ran' = [ran EXCEPT ![Innermost.thread] =
                    Append(@, [slot |-> Innermost.slot, by |-> loaded])]
      /\ loops' = OutOfLoop
      /\ inside' = [inside EXCEPT ![loaded] = FALSE]
      /\ called' = [called EXCEPT ![Innermost.thread] = "error"]
  BY DEF InitializerFails
<1>2. /\ Innermost.thread = loaded /\ OutOfLoop = <<>> /\ InLoop(loaded)
  BY <1>1, InsideIsTheLoop
<1>3. loaded \in InitThread /\ loops' = <<>>
  BY <1>1, <1>2 DEF OneByOne, Types
<1>4. \A t \in InitThread : ~ InLoop(t)'
  BY <1>3 DEF InLoop
<1>5. Types'
  BY <1>1, <1>2, <1>3, OneMoreRun DEF OneByOne, Types
<1>6. \A t \in InitThread : ~ inside'[t] /\ called'[t] # "pending"
  <2>1. \A t \in InitThread \ {loaded} : ~ InLoop(t)
    BY <1>2, <1>3, NobodyElse
  <2>2. QED
    BY <1>1, <1>2, <1>3, <2>1 DEF OneByOne, Types, OneLoop
<1>7. OneLoop'
  BY <1>3, <1>4, <1>6 DEF OneLoop
<1>8. ASSUME NEW t \in InitThread \ {loaded} PROVE InOrder(t)'
  <2>1. ran'[t] = ran[t] /\ called'[t] = called[t]
    <3>1. ran'[t] = ran[t]
      <4>1. UNCHANGED loaded
        BY <1>1
      <4> QED BY <1>1, <4>1, OneMoreRun
    <3>2. DOMAIN called = InitThread
      BY DEF OneByOne, Types
    <3> QED BY <1>1, <1>2, <3>1, <3>2
  <2>2. LastSlot(t)' = LastSlot(t) /\ InOrder(t)
    BY <2>1 DEF LastSlot, OneByOne
  <2>3. QED
    BY <1>4, <2>1, <2>2 DEF InOrder
<1>9. InOrder(loaded)'
  <2>4. loaded' = loaded
    BY <1>1
  <2>1. called'[loaded] = "error"
    BY <1>1, <1>2, <1>3 DEF OneByOne, Types
  <2>2. \A i \in DOMAIN ran'[loaded] :
          /\ ran'[loaded][i].by = loaded
          /\ ran'[loaded][i].slot = NextSlot(IF i = 1 THEN 0 ELSE ran'[loaded][i - 1].slot)
    BY <1>1, OneMoreRun
  <2>3. QED
    BY <1>3, <1>4, <2>1, <2>2, <2>4 DEF InOrder
<1>10. QED
  <2>1. \A t \in InitThread : InOrder(t)'
    BY <1>1, <1>8, <1>9
  <2>2. QED
    BY <1>5, <1>7, <2>1 DEF OneByOne

-----------------------------------------------------------------------------
\* Every step keeps the initializers' invariant.
LEMMA Steps == InitializersInv /\ [InitializersNext]_initVars => InitializersInv'
<1> SUFFICES ASSUME InitializersInv, [InitializersNext]_initVars, LoadsApart' PROVE OneByOne'
  BY DEF InitializersInv
<1>1. UNCHANGED load
  BY DEF InitializersNext, Initterm, InitializerReturns, InitializerFails, Wait, Wake,
         HaltsInside, initVars
<1>2. LoadsApart /\ OneByOne
  BY <1>1 DEF LoadsApart, InitializersInv
<1>3. CASE Initterm
  BY <1>2, <1>3, InittermStep
<1>4. CASE InitializerReturns
  BY <1>2, <1>4, ReturnStep
<1>5. CASE InitializerFails
  BY <1>2, <1>5, FailStep
<1>6. CASE Wait
  <2>1. loaded' \in InitThread /\ (load.waiting # {} \/ ~ inside[loaded])
    BY <1>6 DEF Wait
  <2>2. QED
    BY <1>2, <1>6, <2>1, OthersRun DEF Wait
<1>7. ASSUME NEW t \in InitThread, Wake(t) PROVE OneByOne'
  BY <1>2, <1>7, OthersRun DEF Wake, OneByOne, Types
<1>8. CASE HaltsInside \/ UNCHANGED initVars
  BY <1>2, <1>8, OthersRun DEF HaltsInside, initVars, OneByOne, Types
<1>9. QED
  BY <1>3, <1>4, <1>5, <1>6, <1>7, <1>8 DEF InitializersNext

\* _initterm runs the functions of a table once each, in order and on the
\* thread that loads the DLL, and leaves none out, for tables of any length
\* and any number of threads (msvcrt_handlers.py).
THEOREM RunInOrder == InitializersSpec => []InitializersInOrder
<1>1. InitializersInv => InitializersInOrder
  BY DEF InitializersInv, InitializersInOrder, OneByOne, Types, InOrder, LastSlot, AfterTable
<1>2. QED
  BY <1>1, Starts, Steps, PTL DEF InitializersSpec

-----------------------------------------------------------------------------

(***************************************************************************)
(* The libraries.  A stack of frames is good if each frame rests on one it *)
(* may rest on: a dependency on the load that needs it, what a server runs *)
(* on its activation; and while the program starts there are dependencies  *)
(* only, each within the reach of those below it.                          *)
(***************************************************************************)
FrameKinds ==
    {"startup", "pending", "library", "dependency", "server_dll", "activation"} \union GuestFrames

LoadFrame ==
    {f \in [at : FrameKinds, dll : Dll \union {Program}, k : Nat, notify : {"now", "later", "no"}] :
        /\ IF f.at \in {"startup", "pending"} THEN f.dll = Program ELSE f.dll \in Dll
        /\ f.at \in LoadingFrames => f.k # 0}

Rests(f, g) ==
    /\ f.at \notin {"startup", "pending"}
    /\ f.at = "dependency" => g.at \in LoadingFrames
    /\ f.at \in {"server_dll", "server_main", "server"} => g.at = "activation"

GoodStack(s) ==
    /\ s \in Seq(LoadFrame)
    /\ Len(s) > 0 => s[1].at \notin {"dependency", "server_dll", "server_main", "server"}
    /\ \A i \in 2 .. Len(s) : Rests(s[i], s[i - 1])
    /\ (Len(s) > 0 /\ s[1].at = "startup") =>
          /\ s[1].notify = "later"
          /\ \A i \in 2 .. Len(s) :
                /\ s[i].at = "dependency" /\ s[i].notify = "later"
                /\ \A j \in 2 .. i : s[i].dll \in Reaches[s[j].dll]
    /\ \A i \in 1 .. Len(s) :
          s[i].at \in LoadingFrames /\ s[i].notify = "later" => s[1].at = "startup"

\* A frame more, on top.
LEMMA Pushed ==
    ASSUME NEW s \in Seq(LoadFrame), NEW f \in LoadFrame
    PROVE  /\ Append(s, f) \in Seq(LoadFrame)
           /\ Len(Append(s, f)) = Len(s) + 1 /\ Append(s, f)[Len(s) + 1] = f
           /\ \A i \in 1 .. Len(s) : Append(s, f)[i] = s[i]
OBVIOUS

\* The first k elements of a sequence are k.
LEMMA PrefixLength ==
    ASSUME NEW s, NEW k \in Nat
    PROVE  Len(SubSeq(s, 1, k)) = k
OBVIOUS

\* A sequence without its last element.
LEMMA FrontOf ==
    ASSUME NEW S, NEW s \in Seq(S), s # << >>
    PROVE  /\ Front(s) \in Seq(S) /\ Len(Front(s)) = Len(s) - 1
           /\ Len(s) \in Nat \ {0} /\ Last(s) = s[Len(s)] /\ Last(s) \in S
           /\ \A i \in 1 .. Len(s) - 1 : Front(s)[i] = s[i]
<1>1. Len(s) \in Nat \ {0} /\ Len(s) - 1 \in Nat
  OBVIOUS
<1>2. Last(s) = s[Len(s)] /\ s[Len(s)] \in S
  BY DEF Last
<1>3. Front(s) \in Seq(S)
  BY DEF Front
<1>4. \A i \in 1 .. Len(s) - 1 : Front(s)[i] = s[i]
  BY DEF Front
<1>5. Len(SubSeq(s, 1, Len(s) - 1)) = Len(s) - 1
  BY <1>1, PrefixLength, Zenon
<1> QED BY <1>1, <1>2, <1>3, <1>4, <1>5 DEF Front

\* The top frame gone.
LEMMA Popped ==
    ASSUME NEW s \in Seq(LoadFrame), s # << >>
    PROVE  /\ Front(s) \in Seq(LoadFrame) /\ Len(Front(s)) = Len(s) - 1
           /\ Len(s) \in Nat \ {0} /\ Last(s) = s[Len(s)] /\ Last(s) \in LoadFrame
           /\ \A i \in 1 .. Len(s) - 1 : Front(s)[i] = s[i]
BY FrontOf, Zenon

\* The top frame one import further.
LEMMA AdvancedIs ==
    ASSUME NEW s \in Seq(LoadFrame), s # << >>, s[Len(s)].at \in LoadingFrames
    PROVE  /\ Advanced(s) \in Seq(LoadFrame) /\ Len(Advanced(s)) = Len(s)
           /\ \A i \in 1 .. Len(s) - 1 : Advanced(s)[i] = s[i]
           /\ LET f == s[Len(s)]   g == Advanced(s)[Len(s)]
              IN  g.at = f.at /\ g.dll = f.dll /\ g.notify = f.notify /\ g.k = f.k + 1
<1> DEFINE n == Len(s)
           g == [s[n] EXCEPT !.k = @ + 1]
<1>1. n \in 1 .. Len(s) /\ s[n] \in LoadFrame
  OBVIOUS
<1>2. g.at = s[n].at /\ g.dll = s[n].dll /\ g.notify = s[n].notify /\ g.k = s[n].k + 1 /\ g \in LoadFrame
  BY <1>1 DEF LoadFrame
<1> DEFINE q == [s EXCEPT ![n] = g]
<1>3. Advanced(s) = q
  BY <1>1 DEF Advanced
<1> HIDE DEF g
<1>4. /\ q \in Seq(LoadFrame) /\ Len(q) = n /\ q[n] = g
      /\ \A i \in 1 .. n - 1 : q[i] = s[i]
  BY <1>1, <1>2
<1> HIDE DEF q
<1> QED BY <1>2, <1>3, <1>4, Zenon

\* Everything a DLL imports is in its reach, and its reach in that of whoever
\* has it in reach.
LEMMA ReachGrows ==
    ASSUME NEW x \in Dll, NEW y \in Reaches[x], NEW z \in Range(Imports[y])
    PROVE  y \in Dll /\ x \in Reaches[x] /\ z \in Dll /\ z \in Reaches[x] /\ y \in Reaches[y]
<1>1. Reaches[x] = {m \in Dll : \A set \in SUBSET Dll : x \in set /\ Closed(set) => m \in set}
  BY DEF Reaches
<1>2. y \in Dll
  BY <1>1
<1>3. z \in Dll
  BY <1>2, LoaderAssumption DEF Range
<1>4. \A set \in SUBSET Dll : x \in set /\ Closed(set) => z \in set
  BY <1>1 DEF Closed
<1>5. Reaches[y] = {m \in Dll : \A set \in SUBSET Dll : y \in set /\ Closed(set) => m \in set}
  BY <1>2 DEF Reaches
<1> QED BY <1>1, <1>2, <1>3, <1>4, <1>5

\* A frame on a good stack that may rest on its top, while the program is not
\* starting.
LEMMA GoodPush ==
    ASSUME NEW s, GoodStack(s), NEW f \in LoadFrame,
           s # << >> => Rests(f, s[Len(s)]) /\ s[1].at # "startup",
           s = << >> => f.at \notin {"startup", "dependency", "server_dll", "server_main", "server"},
           f.at \in LoadingFrames => f.notify # "later"
    PROVE  GoodStack(Append(s, f))
<1> DEFINE q == Append(s, f)   n == Len(s)
<1>1. /\ s \in Seq(LoadFrame) /\ n \in Nat /\ q \in Seq(LoadFrame) /\ Len(q) = n + 1 /\ q[n + 1] = f
      /\ \A i \in 1 .. n : q[i] = s[i]
  BY Pushed DEF GoodStack
<1>2. s = << >> <=> n = 0
  BY <1>1
<1> HIDE DEF q, n
<1>3. q[1] = IF n = 0 THEN f ELSE s[1]
  BY <1>1
<1>4. \A i \in 2 .. n + 1 : Rests(q[i], q[i - 1])
  <2> SUFFICES ASSUME NEW i \in 2 .. n + 1 PROVE Rests(q[i], q[i - 1])
    OBVIOUS
  <2>1. CASE i = n + 1
    BY <1>1, <1>2, <2>1 DEF n
  <2>2. CASE i \in 2 .. n
    BY <1>1, <2>2 DEF GoodStack, n
  <2> QED BY <2>1, <2>2, <1>1
<1>5. q[1].at # "startup"
  BY <1>2, <1>3, <1>1
<1>6. \A i \in 1 .. n + 1 : ~ (q[i].at \in LoadingFrames /\ q[i].notify = "later")
  BY <1>1, <1>2 DEF GoodStack, n
<1>7. q[1].at \notin {"dependency", "server_dll", "server_main", "server"}
  BY <1>1, <1>2, <1>3 DEF GoodStack, n
<1> QED BY <1>1, <1>4, <1>5, <1>6, <1>7 DEF GoodStack, q, n

\* One more dependency of the load on top.
LEMMA GoodDependency ==
    ASSUME NEW s, GoodStack(s), s # << >>, s[Len(s)].at \in LoadingFrames,
           NEW m \in Range(Imports[s[Len(s)].dll])
    PROVE  /\ Frame("dependency", m, 1, s[Len(s)].notify) \in LoadFrame
           /\ GoodStack(Append(s, Frame("dependency", m, 1, s[Len(s)].notify)))
<1> DEFINE n == Len(s)
           f == Frame("dependency", m, 1, s[n].notify)
           q == Append(s, f)
<1>1. s \in Seq(LoadFrame) /\ n \in Nat \ {0} /\ s[n] \in LoadFrame /\ s[1] \in LoadFrame
  BY DEF GoodStack
<1>2. m \in Dll
  BY <1>1, LoaderAssumption DEF Range, LoadFrame
<1>3. f \in LoadFrame /\ f.at = "dependency" /\ f.dll = m /\ f.notify = s[n].notify
  BY <1>1, <1>2 DEF Frame, LoadFrame, FrameKinds, LoadingFrames
<1>4. /\ q \in Seq(LoadFrame) /\ Len(q) = n + 1 /\ q[n + 1] = f /\ \A i \in 1 .. n : q[i] = s[i]
  BY <1>1, <1>3, Pushed
<1> HIDE DEF f, q
<1>5. Rests(f, s[n])
  BY <1>3 DEF Rests
<1>6. \A i \in 2 .. n + 1 : Rests(q[i], q[i - 1])
  <2> SUFFICES ASSUME NEW i \in 2 .. n + 1 PROVE Rests(q[i], q[i - 1])
    OBVIOUS
  <2>1. CASE i = n + 1
    BY <1>1, <1>4, <1>5, <2>1
  <2>2. CASE i \in 2 .. n
    BY <1>1, <1>4, <2>2 DEF GoodStack
  <2> QED BY <2>1, <2>2, <1>1
<1>7. ASSUME s[1].at = "startup", NEW i \in 2 .. n + 1
      PROVE  /\ q[i].at = "dependency" /\ q[i].notify = "later"
             /\ \A j \in 2 .. i : q[i].dll \in Reaches[q[j].dll]
  <2>1. CASE i \in 2 .. n
    <3>1. /\ s[i].at = "dependency" /\ s[i].notify = "later"
          /\ \A j \in 2 .. i : s[i].dll \in Reaches[s[j].dll]
      BY <1>1, <1>7, <2>1 DEF GoodStack
    <3>2. q[i] = s[i] /\ \A j \in 2 .. i : q[j] = s[j]
      BY <1>1, <1>4, <2>1
    <3> QED BY <3>1, <3>2
  <2>2. CASE i = n + 1
    <3>1. s[n].notify = "later"
      BY <1>1, <1>7 DEF GoodStack
    <3>2. \A j \in 2 .. n : m \in Reaches[s[j].dll]
      <4> SUFFICES ASSUME NEW j \in 2 .. n PROVE m \in Reaches[s[j].dll]
        OBVIOUS
      <4>1. s[j] \in LoadFrame /\ s[j].at = "dependency" /\ s[n].dll \in Reaches[s[j].dll]
        <5>1. n \in 2 .. Len(s) /\ j \in 2 .. n /\ j \in 1 .. Len(s)
          BY <1>1
        <5>2. s[j] \in LoadFrame
          BY <1>1, <5>1 DEF GoodStack
        <5>3. /\ s[j].at = "dependency"
              /\ \A x \in 2 .. n : s[n].dll \in Reaches[s[x].dll]
          BY <1>1, <1>7, <5>1 DEF GoodStack
        <5> QED BY <5>1, <5>2, <5>3
      <4>2. s[j].dll \in Dll
        BY <4>1 DEF LoadFrame
      <4> QED BY <4>1, <4>2, ReachGrows
    <3>3. m \in Reaches[m]
      BY <1>2 DEF Reaches
    <3> QED BY <1>1, <1>3, <1>4, <2>2, <3>1, <3>2, <3>3
  <2> QED BY <2>1, <2>2, <1>1
<1>8. \A i \in 1 .. n + 1 : q[i].at \in LoadingFrames /\ q[i].notify = "later" => q[1].at = "startup"
  <2> SUFFICES ASSUME NEW i \in 1 .. n + 1, q[i].at \in LoadingFrames, q[i].notify = "later"
               PROVE  q[1].at = "startup"
    OBVIOUS
  <2>1. CASE i \in 1 .. n
    BY <1>1, <1>4, <2>1 DEF GoodStack
  <2>2. CASE i = n + 1
    BY <1>1, <1>3, <1>4, <2>2 DEF GoodStack
  <2> QED BY <2>1, <2>2, <1>1
<1>9. q[1] = s[1] /\ q[1].at \notin {"dependency", "server_dll", "server_main", "server"}
  BY <1>1, <1>4 DEF GoodStack
<1>10. GoodStack(q)
  BY <1>4, <1>6, <1>7, <1>8, <1>9 DEF GoodStack
<1> QED BY <1>3, <1>10 DEF f, q

\* What is under the top is good without it.
LEMMA GoodPop ==
    ASSUME NEW s, GoodStack(s), s # << >>
    PROVE  GoodStack(Front(s))
<1> DEFINE q == Front(s)   n == Len(s)
<1>1. /\ s \in Seq(LoadFrame) /\ n \in Nat \ {0} /\ q \in Seq(LoadFrame) /\ Len(q) = n - 1
      /\ \A i \in 1 .. n - 1 : q[i] = s[i]
  BY Popped DEF GoodStack
<1> HIDE DEF q, n
<1>2. /\ \A i \in 2 .. n : Rests(s[i], s[i - 1])
      /\ s[1].at \notin {"dependency", "server_dll", "server_main", "server"}
      /\ s[1].at = "startup" =>
          /\ s[1].notify = "later"
          /\ \A i \in 2 .. n :
                /\ s[i].at = "dependency" /\ s[i].notify = "later"
                /\ \A j \in 2 .. i : s[i].dll \in Reaches[s[j].dll]
      /\ \A i \in 1 .. n : s[i].at \in LoadingFrames /\ s[i].notify = "later" => s[1].at = "startup"
  BY <1>1 DEF GoodStack, n
<1>3. ASSUME NEW i \in 2 .. n - 1 PROVE Rests(q[i], q[i - 1])
  <2>1. i \in 2 .. n /\ i \in 1 .. n - 1 /\ i - 1 \in 1 .. n - 1
    BY <1>1
  <2>2. q[i] = s[i] /\ q[i - 1] = s[i - 1] /\ Rests(s[i], s[i - 1])
    BY <1>1, <1>2, <2>1, Zenon
  <2> QED BY <2>2
<1>4. n - 1 > 0 => q[1] = s[1]
  BY <1>1
<1>5. ASSUME s[1].at = "startup", NEW i \in 2 .. n - 1
      PROVE  /\ q[i].at = "dependency" /\ q[i].notify = "later"
             /\ \A j \in 2 .. i : q[i].dll \in Reaches[q[j].dll]
  <2>1. /\ s[i].at = "dependency" /\ s[i].notify = "later"
        /\ \A j \in 2 .. i : s[i].dll \in Reaches[s[j].dll]
    BY <1>1, <1>2, <1>5
  <2>2. q[i] = s[i] /\ \A j \in 2 .. i : q[j] = s[j]
    BY <1>1
  <2> QED BY <2>1, <2>2
<1>6. ASSUME NEW i \in 1 .. n - 1, q[i].at \in LoadingFrames, q[i].notify = "later"
      PROVE  q[1].at = "startup"
  <2>1. q[i] = s[i] /\ q[1] = s[1] /\ i \in 1 .. n
    BY <1>1
  <2> QED BY <1>2, <1>6, <2>1
<1>7. GoodStack(q)
  BY <1>1, <1>2, <1>3, <1>4, <1>5, <1>6 DEF GoodStack
<1> QED BY <1>7 DEF q

\* The top one import further.
LEMMA GoodAdvance ==
    ASSUME NEW s, GoodStack(s), s # << >>, s[Len(s)].at \in LoadingFrames
    PROVE  GoodStack(Advanced(s))
<1> DEFINE q == Advanced(s)   n == Len(s)
<1>1. /\ s \in Seq(LoadFrame) /\ n \in Nat \ {0} /\ q \in Seq(LoadFrame) /\ Len(q) = n
      /\ \A i \in 1 .. n : q[i].at = s[i].at /\ q[i].dll = s[i].dll /\ q[i].notify = s[i].notify
  <2>1. s \in Seq(LoadFrame) /\ n \in Nat \ {0}
    BY DEF GoodStack
  <2> QED BY <2>1, AdvancedIs
<1> HIDE DEF q, n
<1>2. /\ \A i \in 2 .. n : Rests(s[i], s[i - 1])
      /\ s[1].at \notin {"dependency", "server_dll", "server_main", "server"}
      /\ s[1].at = "startup" =>
          /\ s[1].notify = "later"
          /\ \A i \in 2 .. n :
                /\ s[i].at = "dependency" /\ s[i].notify = "later"
                /\ \A j \in 2 .. i : s[i].dll \in Reaches[s[j].dll]
      /\ \A i \in 1 .. n : s[i].at \in LoadingFrames /\ s[i].notify = "later" => s[1].at = "startup"
  BY <1>1 DEF GoodStack, n
<1>3. \A i \in 2 .. n : Rests(q[i], q[i - 1])
  <2> SUFFICES ASSUME NEW i \in 2 .. n PROVE Rests(q[i], q[i - 1])
    OBVIOUS
  <2>1. q[i].at = s[i].at /\ q[i - 1].at = s[i - 1].at /\ Rests(s[i], s[i - 1])
    BY <1>1, <1>2
  <2> QED BY <2>1 DEF Rests
<1>4. 1 \in 1 .. n
  BY <1>1
<1>5. \A i \in 2 .. n : \A j \in 2 .. i : i \in 1 .. n /\ j \in 1 .. n
  BY <1>1
<1>6. q[1].at = s[1].at /\ q[1].notify = s[1].notify
  BY <1>1, <1>4
<1>7. \A i \in 2 .. n : \A j \in 2 .. i :
         /\ q[i].at = s[i].at /\ q[i].notify = s[i].notify /\ q[i].dll = s[i].dll /\ q[j].dll = s[j].dll
  BY <1>1, <1>5
<1>8. ASSUME s[1].at = "startup", NEW i \in 2 .. n
      PROVE  /\ q[i].at = "dependency" /\ q[i].notify = "later"
             /\ \A j \in 2 .. i : q[i].dll \in Reaches[q[j].dll]
  <2>1. /\ s[i].at = "dependency" /\ s[i].notify = "later"
        /\ \A j \in 2 .. i : s[i].dll \in Reaches[s[j].dll]
    BY <1>2, <1>8
  <2>2. q[i].at = s[i].at /\ q[i].notify = s[i].notify
    BY <1>1, <1>5
  <2>3. \A j \in 2 .. i : q[i].dll = s[i].dll /\ q[j].dll = s[j].dll
    BY <1>7
  <2> QED BY <2>1, <2>2, <2>3
<1>9. \A i \in 1 .. n : q[i].at \in LoadingFrames /\ q[i].notify = "later" => q[1].at = "startup"
  BY <1>1, <1>2, <1>6
<1> QED BY <1>1, <1>2, <1>3, <1>6, <1>8, <1>9 DEF GoodStack, q, n

-----------------------------------------------------------------------------
(* The invariant.                                                          *)

IsLoad(f) == f.at \in LoadingFrames
Loads(s) == {s[i] : i \in {j \in 1 .. Len(s) : IsLoad(s[j])}}
OneLoadEach(s) ==
    \A i, j \in 1 .. Len(s) : IsLoad(s[i]) /\ IsLoad(s[j]) /\ s[i].dll = s[j].dll => i = j
IsStarting(s) == s # << >> /\ s[1].at = "startup"
Inside(s) == \E i \in 1 .. Len(s) : s[i].at # "main"

\* The loads in progress, of all threads; whether the program is starting.
Lds == UNION {Loads(stack[t]) : t \in Thread}
Half(d) == \E f \in Lds : f.dll = d
Starting == \E t \in Thread : IsStarting(stack[t])

\* One thread at a time is inside a handler, and slots wait to be patched
\* only while it loads.
Stacks ==
    /\ stack \in [Thread -> Seq(LoadFrame)]
    /\ \A t \in Thread : GoodStack(stack[t]) /\ OneLoadEach(stack[t])
    /\ \A t, u \in Thread : Inside(stack[t]) /\ Inside(stack[u]) => t = u
    /\ unpatched # {} => \E t \in Thread : stack[t] # << >> /\ IsLoad(stack[t][Len(stack[t])])

SlotsKnown ==
    /\ Loaded \subseteq Dll
    /\ slot \in [DOMAIN slot -> {"raw", "real", "handler", "stub"}]
    /\ DOMAIN slot \subseteq (Loaded \union {Program}) \X Dll
    /\ unpatched \subseteq DOMAIN slot
    /\ \A d \in Loaded : {d} \X Range(Imports[d]) \subseteq DOMAIN slot
    /\ \A f \in Lds : {f.dll} \X Range(Imports[f.dll]) \subseteq DOMAIN slot

\* A slot that holds what the file had will be patched, or linked by the load
\* of its DLL.
SlotsFilled ==
    \A p \in DOMAIN slot : slot[p] = "raw" =>
        \/ p \in unpatched
        \/ \E f \in Lds : f.dll = p[1] /\ \E j \in f.k .. Len(Imports[f.dll]) : Imports[f.dll][j] = p[2]

\* No DllMain starts before its DLL is loaded, and none that waits has started.
AttachedOnce ==
    /\ dllMain \in [Dll -> {"no", "running", "true", "false"}]
    /\ attaches \in [Dll -> Nat] /\ pending \in Seq(Dll)
    /\ \A d \in Dll : d \notin Loaded => attaches[d] = 0 /\ d \notin Range(pending)
    /\ \A d \in Dll : Half(d) => d \in Loaded /\ attaches[d] = 0 /\ d \notin Range(pending)
    /\ \A d \in Range(pending) : attaches[d] = 0
    /\ \A i, j \in 1 .. Len(pending) : pending[i] = pending[j] => i = j

\* Until COM loads a server, every DllMain there is has started, waits, or
\* is that of a DLL which is being loaded.
ImportsFirst ==
    /\ \A p \in DOMAIN slot : slot[p] = "real" => p[2] \in Loaded
    /\ activation = << >> =>
          /\ \A d \in Loaded \cap HasEntry : dllMain[d] # "no" \/ Half(d) \/ d \in Range(pending)
          /\ \A f \in Lds : f.notify # "no"

\* The slot of d for m holds, or will hold, the address of an export of m.
Link(d, m) ==
    LET p == <<d, m>>
    IN  \/ p \in DOMAIN slot /\ slot[p] = "real"
        \/ p \in unpatched /\ m \in Loaded

\* x waits before y.
Before(x, y) == \E i, j \in 1 .. Len(pending) : i < j /\ pending[i] = x /\ pending[j] = y

\* The DllMains that wait are in the order of the links, but for cycles.
StartsInOrder ==
    /\ \A x, y : Before(x, y) /\ Link(x, y) => x \in Reaches[y]
    /\ Starting =>
          /\ \A d \in Range(pending), f \in Lds :
                f.dll # Program /\ Link(d, f.dll) => d \in Reaches[f.dll]
          /\ \A p \in unpatched : p[2] \notin Loaded => ~ CanLoad(p[2], FALSE)

Tables == SlotsKnown /\ SlotsFilled /\ AttachedOnce /\ ImportsFirst /\ StartsInOrder

-----------------------------------------------------------------------------
(* The loads of a stack.                                                   *)

\* A frame on top adds its load, if it is one.
LEMMA LoadsPush ==
    ASSUME NEW s \in Seq(LoadFrame), NEW f \in LoadFrame, OneLoadEach(s),
           IsLoad(f) => \A g \in Loads(s) : g.dll # f.dll
    PROVE  /\ Loads(Append(s, f)) = Loads(s) \union (IF IsLoad(f) THEN {f} ELSE {})
           /\ OneLoadEach(Append(s, f))
<1> DEFINE q == Append(s, f)   n == Len(s)
<1>1. /\ n \in Nat /\ Len(q) = n + 1 /\ q[n + 1] = f /\ \A i \in 1 .. n : q[i] = s[i]
  BY Pushed
<1> HIDE DEF q, n
<1>2. \A i \in 1 .. n + 1 : i \in 1 .. n \/ i = n + 1
  BY <1>1
<1>3. \A i \in 1 .. n : i \in 1 .. n + 1 /\ i # n + 1
  BY <1>1
<1>4. n + 1 \in 1 .. n + 1
  BY <1>1
<1>5. Loads(q) = Loads(s) \union (IF IsLoad(f) THEN {f} ELSE {})
  <2>1. ASSUME NEW i \in 1 .. n + 1, IsLoad(q[i])
        PROVE  q[i] \in Loads(s) \union (IF IsLoad(f) THEN {f} ELSE {})
    <3>1. CASE i \in 1 .. n
      BY <1>1, <2>1, <3>1 DEF Loads, n
    <3>2. CASE i = n + 1
      BY <1>1, <2>1, <3>2
    <3> QED BY <1>2, <3>1, <3>2
  <2>2. ASSUME NEW i \in 1 .. n, IsLoad(s[i]) PROVE s[i] \in Loads(q)
    <3>1. i \in 1 .. Len(q) /\ q[i] = s[i]
      BY <1>1, <1>3
    <3> QED BY <2>2, <3>1 DEF Loads
  <2>3. IsLoad(f) => f \in Loads(q)
    BY <1>1, <1>4 DEF Loads
  <2>4. Loads(q) \subseteq Loads(s) \union (IF IsLoad(f) THEN {f} ELSE {})
    BY <1>1, <2>1 DEF Loads
  <2>5. Loads(s) \subseteq Loads(q)
    BY <2>2 DEF Loads, n
  <2> QED BY <2>3, <2>4, <2>5
<1>6. OneLoadEach(q)
  <2> SUFFICES ASSUME NEW i \in 1 .. n + 1, NEW j \in 1 .. n + 1,
                      IsLoad(q[i]), IsLoad(q[j]), q[i].dll = q[j].dll
               PROVE  i = j
    BY <1>1 DEF OneLoadEach
  <2>1. ASSUME NEW x \in 1 .. n, IsLoad(q[x]) PROVE q[x] = s[x] /\ s[x] \in Loads(s)
    BY <1>1, <2>1 DEF Loads, n
  <2>2. CASE i \in 1 .. n /\ j \in 1 .. n
    BY <1>1, <2>2 DEF OneLoadEach, n
  <2>3. CASE i = n + 1 /\ j \in 1 .. n
    BY <1>1, <2>1, <2>3
  <2>4. CASE i \in 1 .. n /\ j = n + 1
    BY <1>1, <2>1, <2>4
  <2> QED BY <1>2, <2>2, <2>3, <2>4
<1> QED BY <1>5, <1>6 DEF q

\* Without its top frame a stack is without the load that was on top.
LEMMA LoadsPop ==
    ASSUME NEW s \in Seq(LoadFrame), s # << >>, OneLoadEach(s)
    PROVE  /\ Loads(Front(s)) = Loads(s) \ {s[Len(s)]}
           /\ OneLoadEach(Front(s))
           /\ IsLoad(s[Len(s)]) => /\ s[Len(s)] \in Loads(s)
                                   /\ \A g \in Loads(s) : g.dll = s[Len(s)].dll => g = s[Len(s)]
<1> DEFINE q == Front(s)   n == Len(s)
<1>1. /\ n \in Nat \ {0} /\ Len(q) = n - 1 /\ \A i \in 1 .. n - 1 : q[i] = s[i]
  BY Popped
<1> HIDE DEF q, n
<1>2. \A i \in 1 .. n : i \in 1 .. n - 1 \/ i = n
  BY <1>1
<1>3. n \in 1 .. n /\ \A i \in 1 .. n - 1 : i \in 1 .. n /\ i # n
  BY <1>1
<1>4. \A i \in 1 .. n - 1 : IsLoad(s[i]) => s[i] # s[n]
  BY <1>3 DEF OneLoadEach, n
<1>5. Loads(q) = Loads(s) \ {s[n]}
  <2>1. ASSUME NEW i \in 1 .. n - 1, IsLoad(q[i]) PROVE q[i] \in Loads(s) \ {s[n]}
    BY <1>1, <1>3, <1>4, <2>1 DEF Loads, n
  <2>2. ASSUME NEW i \in 1 .. n, IsLoad(s[i]), s[i] # s[n] PROVE s[i] \in Loads(q)
    <3>1. i \in 1 .. Len(q) /\ q[i] = s[i]
      BY <1>1, <1>2, <2>2
    <3> QED BY <2>2, <3>1 DEF Loads
  <2>3. Loads(q) \subseteq Loads(s) \ {s[n]}
    BY <1>1, <2>1 DEF Loads
  <2>4. Loads(s) \ {s[n]} \subseteq Loads(q)
    BY <2>2 DEF Loads, n
  <2> QED BY <2>3, <2>4
<1>6. OneLoadEach(q)
  BY <1>1, <1>3 DEF OneLoadEach, n
<1>7. IsLoad(s[n]) => s[n] \in Loads(s) /\ \A g \in Loads(s) : g.dll = s[n].dll => g = s[n]
  BY <1>3 DEF Loads, OneLoadEach, n
<1> QED BY <1>5, <1>6, <1>7 DEF q, n

\* The load on top, one import further, takes the place of what it was.
LEMMA LoadsAdvance ==
    ASSUME NEW s \in Seq(LoadFrame), s # << >>, OneLoadEach(s), IsLoad(s[Len(s)])
    PROVE  /\ OneLoadEach(Advanced(s)) /\ Advanced(s) \in Seq(LoadFrame) /\ Advanced(s) # << >>
           /\ \E g \in LoadFrame :
                /\ Loads(Advanced(s)) = (Loads(s) \ {s[Len(s)]}) \union {g}
                /\ g = Advanced(s)[Len(Advanced(s))] /\ IsLoad(g)
                /\ g.at = s[Len(s)].at /\ g.dll = s[Len(s)].dll
                /\ g.notify = s[Len(s)].notify /\ g.k = s[Len(s)].k + 1
<1> DEFINE q == Advanced(s)   n == Len(s)   g == q[n]
<1>1. /\ n \in Nat \ {0} /\ Len(q) = n /\ q \in Seq(LoadFrame) /\ \A i \in 1 .. n - 1 : q[i] = s[i]
      /\ g.at = s[n].at /\ g.dll = s[n].dll /\ g.notify = s[n].notify /\ g.k = s[n].k + 1
  <2>1. Len(s) \in Nat \ {0}
    BY Popped
  <2> QED BY <2>1, AdvancedIs DEF IsLoad
<1> HIDE DEF q, n
<1>2. \A i \in 1 .. n : i \in 1 .. n - 1 \/ i = n
  BY <1>1
<1>3. n \in 1 .. n /\ \A i \in 1 .. n - 1 : i \in 1 .. n /\ i # n
  BY <1>1
<1>4. IsLoad(g) /\ IsLoad(s[n]) /\ g \in LoadFrame /\ q # << >>
  BY <1>1, <1>3 DEF IsLoad, n
<1>5. \A i \in 1 .. n : /\ IsLoad(q[i]) <=> IsLoad(s[i])
                        /\ q[i].dll = s[i].dll
  BY <1>1, <1>2, <1>4
<1>6. OneLoadEach(q)
  BY <1>1, <1>5 DEF OneLoadEach, n
<1>7. \A i \in 1 .. n - 1 : IsLoad(s[i]) => s[i] # s[n]
  BY <1>3, <1>4 DEF OneLoadEach, n
<1>8. Loads(q) = (Loads(s) \ {s[n]}) \union {g}
  <2>1. ASSUME NEW i \in 1 .. n, IsLoad(q[i]) PROVE q[i] \in (Loads(s) \ {s[n]}) \union {g}
    <3>1. CASE i = n
      BY <3>1
    <3>2. CASE i \in 1 .. n - 1
      BY <1>1, <1>3, <1>7, <2>1, <3>2 DEF Loads, n
    <3> QED BY <1>2, <3>1, <3>2
  <2>2. ASSUME NEW i \in 1 .. n, IsLoad(s[i]), s[i] # s[n] PROVE s[i] \in Loads(q)
    <3>1. i \in 1 .. Len(q) /\ q[i] = s[i]
      BY <1>1, <1>2, <2>2
    <3> QED BY <2>2, <3>1 DEF Loads
  <2>3. g \in Loads(q)
    BY <1>1, <1>3, <1>4 DEF Loads
  <2>4. Loads(q) \subseteq (Loads(s) \ {s[n]}) \union {g}
    BY <1>1, <2>1 DEF Loads
  <2>5. Loads(s) \ {s[n]} \subseteq Loads(q)
    BY <2>2 DEF Loads, n
  <2> QED BY <2>3, <2>4, <2>5
<1> QED BY <1>1, <1>4, <1>6, <1>8 DEF q, n

\* A thread in no handler loads nothing and is not starting the program.
LEMMA NobodyInside ==
    ASSUME NEW s \in Seq(LoadFrame), ~ Inside(s)
    PROVE  Loads(s) = {} /\ ~ IsStarting(s)
<1>1. \A i \in 1 .. Len(s) : s[i].at = "main"
  BY DEF Inside
<1>2. s # << >> => 1 \in 1 .. Len(s)
  OBVIOUS
<1>3. "main" \notin LoadingFrames /\ "main" # "startup"
  BY DEF LoadingFrames
<1> QED BY <1>1, <1>2, <1>3 DEF Loads, IsLoad, IsStarting

\* A step of a thread that has the handlers to itself.
LEMMA StackStep ==
    ASSUME Stacks, NEW t \in Thread, Turn(t), NEW s, GoodStack(s), OneLoadEach(s),
           stack' = [stack EXCEPT ![t] = s],
           unpatched' # {} => s # << >> /\ IsLoad(s[Len(s)])
    PROVE  /\ Stacks' /\ stack'[t] = s
           /\ Lds = Loads(stack[t]) /\ Lds' = Loads(s)
           /\ Starting <=> IsStarting(stack[t])
           /\ Starting' <=> IsStarting(s)
<1>1. s \in Seq(LoadFrame) /\ stack \in [Thread -> Seq(LoadFrame)]
  BY DEF GoodStack, Stacks
<1>2. \A u \in Thread \ {t} : ~ Inside(stack[u])
  <2> SUFFICES ASSUME NEW u \in Thread \ {t} PROVE ~ Inside(stack[u])
    OBVIOUS
  <2>1. DOMAIN stack[u] = 1 .. Len(stack[u])
    BY <1>1
  <2> QED BY <2>1 DEF Turn, InHandler, Inside
<1>3. \A u \in Thread \ {t} : Loads(stack[u]) = {} /\ ~ IsStarting(stack[u])
  BY <1>1, <1>2, NobodyInside
<1>4. /\ stack' \in [Thread -> Seq(LoadFrame)] /\ stack'[t] = s
      /\ \A u \in Thread \ {t} : stack'[u] = stack[u]
  BY <1>1
<1>5. Lds = Loads(stack[t]) /\ Lds' = Loads(s)
  BY <1>3, <1>4 DEF Lds
<1>6. (Starting <=> IsStarting(stack[t])) /\ (Starting' <=> IsStarting(s))
  BY <1>3, <1>4 DEF Starting
<1>7. \A u \in Thread : GoodStack(stack'[u]) /\ OneLoadEach(stack'[u])
  BY <1>4 DEF Stacks
<1>8. \A u, v \in Thread : Inside(stack'[u]) /\ Inside(stack'[v]) => u = v
  BY <1>2, <1>4
<1>9. unpatched' # {} => \E u \in Thread : stack'[u] # << >> /\ IsLoad(stack'[u][Len(stack'[u])])
  BY <1>4
<1>10. Stacks'
  BY <1>4, <1>7, <1>8, <1>9 DEF Stacks
<1> QED BY <1>4, <1>5, <1>6, <1>10

\* Guest code runs, and every slot is patched.
LEMMA AllPatched ==
    ASSUME Stacks, NEW t \in Thread, Turn(t),
           stack[t] # << >> => ~ IsLoad(stack[t][Len(stack[t])])
    PROVE  unpatched = {}
<1> SUFFICES ASSUME NEW u \in Thread, stack[u] # << >>, IsLoad(stack[u][Len(stack[u])]) PROVE FALSE
  BY DEF Stacks
<1>1. u # t
  OBVIOUS
<1>2. stack[u] \in Seq(LoadFrame)
  BY DEF Stacks
<1>3. Len(stack[u]) \in 1 .. Len(stack[u]) /\ DOMAIN stack[u] = 1 .. Len(stack[u])
  BY <1>2
<1>4. stack[u][Len(stack[u])].at # "main"
  BY DEF IsLoad, LoadingFrames
<1> QED BY <1>1, <1>3, <1>4 DEF Turn, InHandler

-----------------------------------------------------------------------------
(* What happens to the tables.                                             *)

\* HalfLoaded, of Loader, says it of the stacks.
LEMMA HalfIsHalfLoaded ==
    ASSUME Stacks
    PROVE  \A d : HalfLoaded(d) <=> Half(d)
<1>1. \A t \in Thread : DOMAIN stack[t] = 1 .. Len(stack[t])
  BY DEF Stacks
<1> QED BY <1>1 DEF HalfLoaded, Half, Lds, Loads, IsLoad

\* Loads and tables stay as they are, and nothing waits to be patched.
LEMMA TablesStay ==
    ASSUME Tables, Lds' = Lds, UNCHANGED <<base, slot, unpatched, attaches, pending>>,
           dllMain' \in [Dll -> {"no", "running", "true", "false"}],
           \A d \in Dll : dllMain[d] # "no" => dllMain'[d] # "no",
           activation' = << >> => activation = << >>,
           ~ Starting'
    PROVE  Tables'
<1>1. Loaded' = Loaded
  BY DEF Loaded
<1>2. \A d : Half(d)' <=> Half(d)
  BY DEF Half
<1>3. SlotsKnown'
  BY <1>1 DEF Tables, SlotsKnown
<1>4. SlotsFilled'
  BY DEF Tables, SlotsFilled
<1>5. AttachedOnce'
  BY <1>1, <1>2 DEF Tables, AttachedOnce
<1>6. ImportsFirst'
  <2>1. Loaded \subseteq Dll
    BY DEF Tables, SlotsKnown
  <2> QED BY <1>1, <1>2, <2>1 DEF Tables, ImportsFirst
<1>7. \A d, m : (Link(d, m)' <=> Link(d, m)) /\ (Before(d, m)' <=> Before(d, m))
  BY <1>1 DEF Link, Before
<1>8. StartsInOrder'
  BY <1>7 DEF Tables, StartsInOrder
<1> QED BY <1>3, <1>4, <1>5, <1>6, <1>8 DEF Tables

\* A DLL more: what could not be loaded before cannot be loaded now.
LEMMA LessRoom ==
    ASSUME NEW d \in Dll \ Loaded, Map(d), UNCHANGED <<searched, notFound>>, NEW m
    PROVE  CanLoad(m, FALSE)' => CanLoad(m, FALSE)
<1>1. DOMAIN base' = DOMAIN base \union {d} /\ \A x \in DOMAIN base : base'[x] = base[x]
  BY DEF Map, Loaded
<1>2. \A b : Available(b)' => Available(b)
  BY <1>1 DEF Available, Loaded
<1>3. HasBase(m)' => HasBase(m)
  BY <1>2 DEF HasBase, KeepsBase, Rebased
<1> QED BY <1>3 DEF CanLoad, Findable, OnDisk

\* A DLL is mapped, and its load begins.
LEMMA TablesMapped ==
    ASSUME Tables, NEW d \in Dll \ Loaded, Map(d),
           NEW f \in LoadFrame, f.dll = d, f.k = 1, Lds' = Lds \union {f},
           UNCHANGED <<unpatched, dllMain, attaches, pending>>,
           activation' = << >> => activation = << >> /\ f.notify # "no",
           Starting' => Starting /\ CanLoad(d, FALSE) /\ UNCHANGED <<searched, notFound>>
    PROVE  Tables'
<1>1. Loaded' = Loaded \union {d}
  BY DEF Map, Loaded
<1>2. \A m : Half(m)' <=> Half(m) \/ m = d
  BY DEF Half
<1>3. d \notin Range(pending) /\ attaches[d] = 0
  BY DEF Tables, AttachedOnce
<1> DEFINE new == {d} \X Range(Imports[d])
<1>4. /\ DOMAIN slot' = DOMAIN slot \union new
      /\ \A p \in DOMAIN slot : slot'[p] = slot[p]
      /\ \A p \in DOMAIN slot' : p \notin DOMAIN slot => slot'[p] = "raw"
      /\ slot' = [p \in DOMAIN slot' |-> slot'[p]]
  BY DEF Map
<1>5. new \subseteq {d} \X Dll
  BY LoaderAssumption DEF Range
<1>6. SlotsKnown'
  <2>1. \A p \in DOMAIN slot' : slot'[p] \in {"raw", "real", "handler", "stub"}
    BY <1>4 DEF Tables, SlotsKnown
  <2>2. slot' \in [DOMAIN slot' -> {"raw", "real", "handler", "stub"}]
    BY <1>4, <2>1
  <2>3. DOMAIN slot' \subseteq (Loaded' \union {Program}) \X Dll
    BY <1>1, <1>4, <1>5 DEF Tables, SlotsKnown
  <2>4. \A m \in Loaded' : {m} \X Range(Imports[m]) \subseteq DOMAIN slot'
    BY <1>1, <1>4 DEF Tables, SlotsKnown
  <2>5. \A g \in Lds' : {g.dll} \X Range(Imports[g.dll]) \subseteq DOMAIN slot'
    BY <1>4 DEF Tables, SlotsKnown
  <2>6. unpatched' \subseteq DOMAIN slot'
    BY <1>4 DEF Tables, SlotsKnown
  <2>7. Loaded' \subseteq Dll
    BY <1>1 DEF Tables, SlotsKnown
  <2> QED BY <2>2, <2>3, <2>4, <2>5, <2>6, <2>7 DEF SlotsKnown
<1>7. SlotsFilled'
  <2> SUFFICES ASSUME NEW p \in DOMAIN slot', slot'[p] = "raw"
               PROVE  \/ p \in unpatched'
                      \/ \E g \in Lds' : g.dll = p[1] /\ \E j \in g.k .. Len(Imports[g.dll]) : Imports[g.dll][j] = p[2]
    BY DEF SlotsFilled
  <2>1. CASE p \in DOMAIN slot
    BY <1>4, <2>1 DEF Tables, SlotsFilled
  <2>2. CASE p \notin DOMAIN slot
    <3>1. p[1] = d /\ p[2] \in Range(Imports[d])
      BY <1>4, <2>2
    <3>2. Imports[d] \in Seq(Dll)
      BY LoaderAssumption
    <3>3. PICK j \in 1 .. Len(Imports[d]) : Imports[d][j] = p[2]
      BY <3>1, <3>2 DEF Range
    <3> QED BY <3>1, <3>3
  <2> QED BY <2>1, <2>2
<1>8. AttachedOnce'
  BY <1>1, <1>2, <1>3 DEF Tables, AttachedOnce
<1>9. ImportsFirst'
  <2>1. \A p \in DOMAIN slot' : slot'[p] = "real" => p[2] \in Loaded'
    BY <1>1, <1>4 DEF Tables, ImportsFirst
  <2>2. ASSUME activation' = << >>
        PROVE  /\ \A m \in Loaded' \cap HasEntry : dllMain'[m] # "no" \/ Half(m)' \/ m \in Range(pending')
               /\ \A g \in Lds' : g.notify # "no"
    BY <1>1, <1>2, <2>2 DEF Tables, ImportsFirst
  <2> QED BY <2>1, <2>2 DEF ImportsFirst
<1>10. \A x, m : m # d /\ Link(x, m)' => Link(x, m)
  <2> SUFFICES ASSUME NEW x, NEW m, m # d, Link(x, m)' PROVE Link(x, m)
    OBVIOUS
  <2> DEFINE p == <<x, m>>
  <2>1. CASE p \in DOMAIN slot' /\ slot'[p] = "real"
    <3>1. p \in DOMAIN slot /\ slot[p] = "real"
      BY <1>4, <2>1
    <3> QED BY <3>1 DEF Link
  <2>2. CASE p \in unpatched' /\ m \in Loaded'
    BY <1>1, <2>2 DEF Link
  <2> QED BY <2>1, <2>2 DEF Link
<1>11. ASSUME NEW x, Starting' PROVE ~ Link(x, d)'
  <2> DEFINE p == <<x, d>>
  <2>1. p \in DOMAIN slot' => slot'[p] # "real"
    <3>1. p \in DOMAIN slot => slot[p] # "real"
      BY DEF Tables, ImportsFirst
    <3> QED BY <1>4, <3>1
  <2>2. p \notin unpatched'
    BY <1>11 DEF Tables, StartsInOrder
  <2> QED BY <2>1, <2>2 DEF Link
<1>12. StartsInOrder'
  <2>1. ASSUME NEW x, NEW y, Before(x, y)', Link(x, y)' PROVE x \in Reaches[y]
    <3>1. Before(x, y)
      BY <2>1 DEF Before
    <3>2. y # d
      BY <1>3, <3>1 DEF Tables, AttachedOnce, Range, Before
    <3> QED BY <1>10, <2>1, <3>1, <3>2 DEF Tables, StartsInOrder
  <2>2. ASSUME Starting'
        PROVE  /\ \A x \in Range(pending), g \in Lds' :
                     g.dll # Program /\ Link(x, g.dll)' => x \in Reaches[g.dll]
               /\ \A p \in unpatched : p[2] \notin Loaded' => ~ CanLoad(p[2], FALSE)'
    <3>1. ASSUME NEW x \in Range(pending), NEW g \in Lds', g.dll # Program, Link(x, g.dll)'
          PROVE  x \in Reaches[g.dll]
      <4>1. g.dll # d
        BY <1>11, <2>2, <3>1
      <4> QED BY <1>10, <2>2, <3>1, <4>1 DEF Tables, StartsInOrder
    <3>2. ASSUME NEW p \in unpatched, p[2] \notin Loaded' PROVE ~ CanLoad(p[2], FALSE)'
      <4>1. ~ CanLoad(p[2], FALSE)
        BY <1>1, <2>2, <3>2 DEF Tables, StartsInOrder
      <4> QED BY <2>2, <4>1, LessRoom
    <3> QED BY <3>1, <3>2
  <2> QED BY <2>1, <2>2 DEF StartsInOrder
<1> QED BY <1>6, <1>7, <1>8, <1>9, <1>12 DEF Tables

\* An import is linked, and the load goes on to the next.
LEMMA TablesLinked ==
    ASSUME Tables, NEW f \in Lds, f \in LoadFrame, HasImport(f),
           NEW g \in LoadFrame, g.dll = f.dll, g.k = f.k + 1, g.notify = f.notify,
           NEW m, m = Import(f), ~ (m \notin Loaded /\ CanLoad(m, FALSE)),
           Lds' = (Lds \ {f}) \union {g},
           slot' = Linked(f.dll, m), unpatched' = unpatched \union {<<f.dll, m>>},
           notFound \subseteq notFound',
           UNCHANGED <<base, searched, dllMain, attaches, pending, activation>>,
           Starting' => Starting
    PROVE  Tables'
<1> DEFINE it == <<f.dll, m>>
<1>1. Loaded' = Loaded
  BY DEF Loaded
<1>2. \A d : Half(d)' <=> Half(d)
  BY DEF Half
<1>3. f.k \in 1 .. Len(Imports[f.dll]) /\ m = Imports[f.dll][f.k] /\ f.k \in Nat /\ f.dll \in Dll \union {Program}
  <2>1. f.k \in Nat \ {0} /\ f.dll \in Dll \union {Program}
    <3>1. g.k \in Nat /\ f.k \in Nat /\ f.dll \in Dll \union {Program} /\ f.at \in FrameKinds
      BY DEF LoadFrame
    <3>2. IsLoad(f)
      BY DEF Lds, Loads
    <3> QED BY <3>1, <3>2 DEF LoadFrame, IsLoad
  <2>2. Imports[f.dll] \in Seq(Dll)
    BY <2>1, LoaderAssumption
  <2> QED BY <2>1, <2>2 DEF HasImport, Import
<1>4. m \in Dll /\ m \in Range(Imports[f.dll])
  <2>1. Imports[f.dll] \in Seq(Dll)
    BY <1>3, LoaderAssumption
  <2> QED BY <1>3, <2>1 DEF Range
<1>5. it \in DOMAIN slot
  BY <1>4 DEF Tables, SlotsKnown
<1>6. /\ DOMAIN slot' = DOMAIN slot
      /\ \A p \in DOMAIN slot : p # it => slot'[p] = slot[p]
      /\ slot'[it] = IF m \in Loaded /\ f.dll # Program THEN "real" ELSE slot[it]
      /\ slot' = [p \in DOMAIN slot' |-> slot'[p]]
  BY <1>5 DEF Linked
<1>7. SlotsKnown'
  <2>1. \A p \in DOMAIN slot : slot'[p] \in {"raw", "real", "handler", "stub"}
    BY <1>6 DEF Tables, SlotsKnown
  <2>2. slot' \in [DOMAIN slot' -> {"raw", "real", "handler", "stub"}]
    BY <1>6, <2>1
  <2>3. \A h \in Lds' : {h.dll} \X Range(Imports[h.dll]) \subseteq DOMAIN slot'
    BY <1>6 DEF Tables, SlotsKnown
  <2> QED BY <1>1, <1>5, <1>6, <2>2, <2>3 DEF Tables, SlotsKnown
<1>8. SlotsFilled'
  <2> SUFFICES ASSUME NEW p \in DOMAIN slot, slot'[p] = "raw", p \notin unpatched'
               PROVE  \E h \in Lds' : h.dll = p[1] /\ \E j \in h.k .. Len(Imports[h.dll]) : Imports[h.dll][j] = p[2]
    BY <1>6 DEF SlotsFilled
  <2>1. p # it /\ slot[p] = "raw" /\ p \notin unpatched
    BY <1>6
  <2>2. PICK h \in Lds : h.dll = p[1] /\ \E j \in h.k .. Len(Imports[h.dll]) : Imports[h.dll][j] = p[2]
    BY <2>1 DEF Tables, SlotsFilled
  <2>3. CASE h # f
    BY <2>2, <2>3
  <2>4. CASE h = f
    <3>1. PICK j \in f.k .. Len(Imports[f.dll]) : Imports[f.dll][j] = p[2]
      BY <2>2, <2>4
    <3>2. p = <<p[1], p[2]>>
      BY DEF Tables, SlotsKnown
    <3>3. j # f.k
      BY <1>3, <2>1, <2>2, <2>4, <3>1, <3>2
    <3>4. Len(Imports[f.dll]) \in Nat
      <4>1. Imports[f.dll] \in Seq(Dll)
        BY <1>3, LoaderAssumption
      <4> QED BY <4>1
    <3>5. j \in g.k .. Len(Imports[g.dll])
      BY <1>3, <3>1, <3>3, <3>4
    <3> QED BY <2>2, <2>4, <3>1, <3>5
  <2> QED BY <2>3, <2>4
<1>9. AttachedOnce'
  BY <1>1, <1>2 DEF Tables, AttachedOnce
<1>10. ImportsFirst'
  <2>1. \A p \in DOMAIN slot' : slot'[p] = "real" => p[2] \in Loaded'
    BY <1>1, <1>6 DEF Tables, ImportsFirst
  <2>2. ASSUME activation' = << >>
        PROVE  /\ \A d \in Loaded' \cap HasEntry : dllMain'[d] # "no" \/ Half(d)' \/ d \in Range(pending')
               /\ \A h \in Lds' : h.notify # "no"
    BY <1>1, <1>2, <2>2 DEF Tables, ImportsFirst
  <2> QED BY <2>1, <2>2 DEF ImportsFirst
<1>11. \A d, x : d # f.dll /\ Link(d, x)' => Link(d, x)
  <2> SUFFICES ASSUME NEW d, NEW x, d # f.dll, Link(d, x)' PROVE Link(d, x)
    OBVIOUS
  <2> DEFINE p == <<d, x>>
  <2>1. p # it
    OBVIOUS
  <2> HIDE DEF p
  <2>2. \/ p \in DOMAIN slot' /\ slot'[p] = "real"
        \/ p \in unpatched' /\ x \in Loaded'
    BY DEF Link, p
  <2>3. \/ p \in DOMAIN slot /\ slot[p] = "real"
        \/ p \in unpatched /\ x \in Loaded
    BY <1>1, <1>6, <2>1, <2>2
  <2> QED BY <2>3 DEF Link, p
<1>12. \A d \in Range(pending) : d # f.dll
  <2>1. f.dll \in Dll => Half(f.dll)
    BY DEF Half
  <2>2. \A d \in Range(pending) : d \in Dll
    BY DEF Tables, AttachedOnce, Range
  <2> QED BY <2>1, <2>2 DEF Tables, AttachedOnce
<1>13. \A x : CanLoad(x, FALSE)' => CanLoad(x, FALSE)
  BY DEF CanLoad, Findable, OnDisk, HasBase, KeepsBase, Rebased, Available, Loaded
<1>14. StartsInOrder'
  <2>1. ASSUME NEW x, NEW y, Before(x, y)', Link(x, y)' PROVE x \in Reaches[y]
    <3>1. Before(x, y)
      BY <2>1 DEF Before
    <3>2. x \in Range(pending)
      BY <3>1 DEF Tables, AttachedOnce, Range, Before
    <3> QED BY <1>11, <1>12, <2>1, <3>1, <3>2 DEF Tables, StartsInOrder
  <2>2. ASSUME Starting', NEW d \in Range(pending), NEW h \in Lds', h.dll # Program, Link(d, h.dll)'
        PROVE  d \in Reaches[h.dll]
    <3>1. Link(d, h.dll)
      BY <1>11, <1>12, <2>2
    <3>2. \E e \in Lds : e.dll = h.dll
      OBVIOUS
    <3> QED BY <2>2, <3>1, <3>2 DEF Tables, StartsInOrder
  <2>3. ASSUME Starting', NEW p \in unpatched', p[2] \notin Loaded' PROVE ~ CanLoad(p[2], FALSE)'
    <3>1. CASE p \in unpatched
      BY <1>1, <1>13, <2>3, <3>1 DEF Tables, StartsInOrder
    <3>2. CASE p = it
      BY <1>1, <1>13, <2>3, <3>2
    <3> QED BY <3>1, <3>2
  <2> QED BY <2>1, <2>2, <2>3 DEF StartsInOrder
<1> QED BY <1>7, <1>8, <1>9, <1>10, <1>14 DEF Tables

\* Whoever gets DLL_PROCESS_ATTACH gets it first now, after its imports.
Ready ==
    \A d \in Dll : Attaches(d) =>
        /\ attaches[d] = 0
        /\ activation = << >> =>
              \A m \in Range(Imports[d]) \cap HasEntry : FollowsItsImport(d, m)

Patching == PatchIats \/ UNCHANGED <<slot, unpatched>>

\* Without slots that wait there is nothing to patch.
LEMMA NothingToPatch ==
    ASSUME SlotsKnown, unpatched = {}, PatchIats
    PROVE  UNCHANGED <<slot, unpatched>>
<1>1. slot = [p \in DOMAIN slot |-> slot[p]]
  BY DEF SlotsKnown
<1> QED BY <1>1 DEF PatchIats, Patched

\* A slot that patching leaves raw was raw and still waits; one it makes real names a loaded DLL.
LEMMA PatchedSlots ==
    ASSUME SlotsKnown, Patching
    PROVE  /\ slot' \in [DOMAIN slot -> {"raw", "real", "handler", "stub"}] /\ unpatched' \subseteq unpatched
           /\ \A p \in DOMAIN slot :
                /\ slot'[p] = "real" => slot[p] = "real" \/ (p \in unpatched /\ p[2] \in Loaded)
                /\ slot'[p] = "raw" => slot[p] = "raw" /\ (p \in unpatched => p \in unpatched')
<1>1. CASE PatchIats
  <2>1. /\ DOMAIN slot' = DOMAIN slot /\ unpatched' = {} /\ slot' = [p \in DOMAIN slot |-> slot'[p]]
        /\ \A p \in DOMAIN slot : slot'[p] = IF p \in unpatched THEN Binding(p[2]) ELSE slot[p]
    BY <1>1 DEF PatchIats, Patched
  <2>2. \A m : Binding(m) \in {"real", "handler", "stub"} /\ (Binding(m) = "real" => m \in Loaded)
    BY DEF Binding
  <2>3. \A p \in DOMAIN slot : slot'[p] \in {"raw", "real", "handler", "stub"}
    BY <2>1, <2>2 DEF SlotsKnown
  <2>4. slot' \in [DOMAIN slot -> {"raw", "real", "handler", "stub"}]
    BY <2>1, <2>3
  <2> QED BY <2>1, <2>2, <2>4
<1>2. CASE UNCHANGED <<slot, unpatched>>
  BY <1>2 DEF SlotsKnown
<1> QED BY <1>1, <1>2 DEF Patching

\* A load is over, and its slots may have been patched.
LEMMA LoadOver ==
    ASSUME Tables, Patching, UNCHANGED base,
           NEW f \in Lds, f \in LoadFrame, ~ HasImport(f), Lds' = Lds \ {f}
    PROVE  /\ SlotsKnown' /\ SlotsFilled' /\ Loaded' = Loaded
           /\ \A p \in DOMAIN slot' : slot'[p] = "real" => p[2] \in Loaded
           /\ \A x, m : Link(x, m)' => Link(x, m)
           /\ \A x, m : <<x, m>> \in DOMAIN slot /\ slot'[<<x, m>>] = "real" => Link(x, m)
<1>1. Loaded' = Loaded
  BY DEF Loaded
<1>2. /\ slot' \in [DOMAIN slot -> {"raw", "real", "handler", "stub"}] /\ unpatched' \subseteq unpatched
      /\ \A p \in DOMAIN slot :
           /\ slot'[p] = "real" => slot[p] = "real" \/ (p \in unpatched /\ p[2] \in Loaded)
           /\ slot'[p] = "raw" => slot[p] = "raw" /\ (p \in unpatched => p \in unpatched')
  BY PatchedSlots DEF Tables
<1>3. DOMAIN slot' = DOMAIN slot
  BY <1>2
<1>4. SlotsKnown'
  <2>1. \A g \in Lds' : {g.dll} \X Range(Imports[g.dll]) \subseteq DOMAIN slot'
    BY <1>3 DEF Tables, SlotsKnown
  <2> QED BY <1>1, <1>2, <1>3, <2>1 DEF Tables, SlotsKnown
<1>5. SlotsFilled'
  <2> SUFFICES ASSUME NEW p \in DOMAIN slot, slot'[p] = "raw", p \notin unpatched'
               PROVE  \E h \in Lds' : h.dll = p[1] /\ \E j \in h.k .. Len(Imports[h.dll]) : Imports[h.dll][j] = p[2]
    BY <1>3 DEF SlotsFilled
  <2>1. slot[p] = "raw" /\ p \notin unpatched
    BY <1>2
  <2>2. PICK h \in Lds : h.dll = p[1] /\ \E j \in h.k .. Len(Imports[h.dll]) : Imports[h.dll][j] = p[2]
    BY <2>1 DEF Tables, SlotsFilled
  <2>3. h # f
    <3>1. f.k \in Nat /\ Len(Imports[f.dll]) \in Nat
      <4>1. f.k \in Nat /\ f.dll \in Dll \union {Program}
        BY DEF LoadFrame
      <4>2. Imports[f.dll] \in Seq(Dll)
        BY <4>1, LoaderAssumption
      <4> QED BY <4>1, <4>2
    <3>2. ~ (f.k <= Len(Imports[f.dll]))
      BY DEF HasImport
    <3> QED BY <2>2, <3>1, <3>2
  <2> QED BY <2>2, <2>3
<1>6. \A p \in DOMAIN slot' : slot'[p] = "real" => p[2] \in Loaded
  BY <1>2, <1>3 DEF Tables, ImportsFirst
<1>7. \A x, m : <<x, m>> \in DOMAIN slot /\ slot'[<<x, m>>] = "real" => Link(x, m)
  <2> SUFFICES ASSUME NEW x, NEW m, <<x, m>> \in DOMAIN slot, slot'[<<x, m>>] = "real" PROVE Link(x, m)
    OBVIOUS
  <2> DEFINE p == <<x, m>>
  <2>1. p[2] = m
    OBVIOUS
  <2> HIDE DEF p
  <2>2. slot[p] = "real" \/ (p \in unpatched /\ p[2] \in Loaded)
    BY <1>2 DEF p
  <2> QED BY <2>1, <2>2 DEF Link, p
<1>8. \A x, m : Link(x, m)' => Link(x, m)
  BY <1>1, <1>2, <1>3, <1>7 DEF Link
<1> QED BY <1>1, <1>4, <1>5, <1>6, <1>7, <1>8

\* A load ends without a DllMain.
LEMMA LoadEnds ==
    ASSUME Tables, Patching, NEW f \in Lds, f \in LoadFrame, ~ HasImport(f), Lds' = Lds \ {f},
           f.notify = "no" \/ f.dll \notin HasEntry,
           UNCHANGED <<base, searched, notFound, dllMain, attaches, pending, activation>>,
           Starting' => Starting
    PROVE  Tables'
<1>1. /\ SlotsKnown' /\ SlotsFilled' /\ Loaded' = Loaded
      /\ \A p \in DOMAIN slot' : slot'[p] = "real" => p[2] \in Loaded
      /\ \A x, m : Link(x, m)' => Link(x, m)
  BY LoadOver
<1>2. \A d : Half(d)' => Half(d)
  BY DEF Half
<1>3. AttachedOnce'
  BY <1>1, <1>2 DEF Tables, AttachedOnce
<1>4. ImportsFirst'
  <2>1. ASSUME activation = << >>, NEW d \in Loaded \cap HasEntry PROVE dllMain[d] # "no" \/ Half(d)' \/ d \in Range(pending)
    <3>1. f.dll # d
      BY <2>1 DEF Tables, ImportsFirst
    <3>2. Half(d) => Half(d)'
      BY <3>1 DEF Half
    <3> QED BY <2>1, <3>2 DEF Tables, ImportsFirst
  <2>2. activation = << >> => \A g \in Lds' : g.notify # "no"
    BY DEF Tables, ImportsFirst
  <2> QED BY <1>1, <2>1, <2>2 DEF ImportsFirst
<1>5. \A x : CanLoad(x, FALSE)' => CanLoad(x, FALSE)
  BY DEF CanLoad, Findable, OnDisk, HasBase, KeepsBase, Rebased, Available, Loaded
<1>6. unpatched' \subseteq unpatched
  BY PatchedSlots DEF Tables
<1>7. StartsInOrder'
  <2>1. \A x, y : Before(x, y)' /\ Link(x, y)' => x \in Reaches[y]
    BY <1>1 DEF Tables, StartsInOrder, Before
  <2>2. ASSUME Starting', NEW d \in Range(pending), NEW g \in Lds', g.dll # Program, Link(d, g.dll)'
        PROVE  d \in Reaches[g.dll]
    <3>1. g \in Lds
      OBVIOUS
    <3> QED BY <1>1, <2>2, <3>1 DEF Tables, StartsInOrder
  <2>3. ASSUME Starting', NEW p \in unpatched', p[2] \notin Loaded PROVE ~ CanLoad(p[2], FALSE)'
    BY <1>5, <1>6, <2>3 DEF Tables, StartsInOrder
  <2> QED BY <1>1, <2>1, <2>2, <2>3 DEF StartsInOrder
<1> QED BY <1>1, <1>3, <1>4, <1>7 DEF Tables

\* It ends while the program starts, and the DllMain has to wait.
LEMMA LoadWaits ==
    ASSUME Tables, NEW f \in Lds, f \in LoadFrame, ~ HasImport(f), Lds' = Lds \ {f}, f.dll \in Dll,
           \A g \in Lds : g.dll = f.dll => g = f,
           \A g \in Lds : g.dll # Program => f.dll \in Reaches[g.dll],
           pending' = Append(pending, f.dll), Starting,
           UNCHANGED <<base, slot, unpatched, searched, notFound, dllMain, attaches, activation>>
    PROVE  Tables'
<1> DEFINE d == f.dll   n == Len(pending)
<1>1. /\ SlotsKnown' /\ SlotsFilled' /\ Loaded' = Loaded
      /\ \A p \in DOMAIN slot' : slot'[p] = "real" => p[2] \in Loaded
      /\ \A x, m : Link(x, m)' => Link(x, m)
  <2>1. Patching
    BY DEF Patching
  <2> QED BY <2>1, LoadOver
<1>2. /\ \A m : Half(m)' <=> Half(m) /\ m # d
      /\ Half(d)
  BY DEF Half
<1>3. d \in Loaded /\ attaches[d] = 0 /\ d \notin Range(pending) /\ d \in Dll
  BY <1>2 DEF Tables, AttachedOnce
<1>4. pending \in Seq(Dll)
  BY DEF Tables, AttachedOnce
<1> HIDE DEF d
<1>5. /\ pending' \in Seq(Dll) /\ Len(pending') = n + 1 /\ n \in Nat /\ pending'[n + 1] = d
      /\ \A i \in 1 .. n : pending'[i] = pending[i]
  BY <1>3, <1>4 DEF d
<1>6. Range(pending') = Range(pending) \union {d}
  <2>1. DOMAIN pending = 1 .. n /\ DOMAIN pending' = 1 .. n + 1
    BY <1>4, <1>5
  <2>2. \A i \in 1 .. n + 1 : i \in 1 .. n \/ i = n + 1
    BY <1>5
  <2>3. n + 1 \in 1 .. n + 1 /\ \A i \in 1 .. n : i \in 1 .. n + 1
    BY <1>5
  <2> HIDE DEF n
  <2> QED BY <1>5, <2>1, <2>2, <2>3 DEF Range
<1>7. \A i \in 1 .. n : pending[i] # d
  BY <1>3, <1>4 DEF Range
<1>8. \A i \in 1 .. n + 1 : i \in 1 .. n \/ i = n + 1
  BY <1>5
<1>9. AttachedOnce'
  <2>1. \A i, j \in 1 .. n + 1 : pending'[i] = pending'[j] => i = j
    <3>1. \A i, j \in 1 .. n : pending[i] = pending[j] => i = j
      BY DEF Tables, AttachedOnce, n
    <3> HIDE DEF n
    <3> QED BY <1>5, <1>7, <1>8, <3>1
  <2>2. \A m \in Dll : Half(m)' => m \in Loaded' /\ attaches'[m] = 0 /\ m \notin Range(pending')
    BY <1>1, <1>2, <1>6 DEF Tables, AttachedOnce
  <2>3. \A m \in Dll : m \notin Loaded' => attaches'[m] = 0 /\ m \notin Range(pending')
    BY <1>1, <1>3, <1>6 DEF Tables, AttachedOnce
  <2>4. \A m \in Range(pending') : attaches'[m] = 0
    BY <1>3, <1>6 DEF Tables, AttachedOnce
  <2> QED BY <1>5, <2>1, <2>2, <2>3, <2>4 DEF Tables, AttachedOnce
<1>10. ImportsFirst'
  <2>1. ASSUME activation = << >>, NEW m \in Loaded \cap HasEntry
        PROVE  dllMain[m] # "no" \/ Half(m)' \/ m \in Range(pending')
    BY <1>2, <1>6, <2>1 DEF Tables, ImportsFirst
  <2>2. activation = << >> => \A g \in Lds' : g.notify # "no"
    BY DEF Tables, ImportsFirst
  <2> QED BY <1>1, <2>1, <2>2 DEF ImportsFirst
<1>11. \A x : CanLoad(x, FALSE)' => CanLoad(x, FALSE)
  BY DEF CanLoad, Findable, OnDisk, HasBase, KeepsBase, Rebased, Available, Loaded
<1>12. \A i \in 1 .. n : pending[i] \in Range(pending)
  BY <1>4 DEF Range
<1>13. StartsInOrder'
  <2>1. ASSUME NEW x, NEW y, Before(x, y)', Link(x, y)' PROVE x \in Reaches[y]
    <3>1. PICK i, j \in 1 .. n + 1 : i < j /\ pending'[i] = x /\ pending'[j] = y
      BY <1>5, <2>1 DEF Before
    <3>2. i \in 1 .. n /\ pending[i] = x /\ Link(x, y)
      BY <1>1, <1>5, <2>1, <3>1
    <3>3. CASE j \in 1 .. n
      <4>1. Before(x, y)
        BY <1>5, <3>1, <3>2, <3>3 DEF Before, n
      <4> QED BY <3>2, <4>1 DEF Tables, StartsInOrder
    <3>4. CASE j = n + 1
      <4>1. y = d /\ d # Program /\ x \in Range(pending)
        BY <1>3, <1>5, <1>12, <3>1, <3>2, <3>4, LoaderAssumption
      <4> QED BY <3>2, <4>1 DEF Tables, StartsInOrder, d
    <3> QED BY <1>8, <3>3, <3>4
  <2>2. ASSUME NEW x \in Range(pending'), NEW g \in Lds', g.dll # Program, Link(x, g.dll)'
        PROVE  x \in Reaches[g.dll]
    <3>1. g \in Lds /\ Link(x, g.dll)
      BY <1>1, <2>2
    <3>2. CASE x = d
      BY <2>2, <3>1, <3>2 DEF d
    <3>3. CASE x \in Range(pending)
      BY <2>2, <3>1, <3>3 DEF Tables, StartsInOrder
    <3> QED BY <1>6, <3>2, <3>3
  <2>3. ASSUME NEW p \in unpatched', p[2] \notin Loaded' PROVE ~ CanLoad(p[2], FALSE)'
    BY <1>1, <1>11, <2>3 DEF Tables, StartsInOrder
  <2> QED BY <1>5, <2>1, <2>2, <2>3 DEF StartsInOrder
<1> QED BY <1>1, <1>9, <1>10, <1>13 DEF Tables

\* It ends and the DllMain begins.
LEMMA LoadAttaches ==
    ASSUME Stacks, Tables, Patching, NEW f \in Lds, f \in LoadFrame, ~ HasImport(f), Lds' = Lds \ {f},
           f.dll \in Dll, \A g \in Lds : g.dll = f.dll => g = f,
           Attach(f.dll), UNCHANGED <<base, pending, activation>>, ~ Starting'
    PROVE  Tables' /\ Ready
<1> DEFINE d == f.dll
<1>1. /\ SlotsKnown' /\ SlotsFilled' /\ Loaded' = Loaded
      /\ \A p \in DOMAIN slot' : slot'[p] = "real" => p[2] \in Loaded
      /\ \A x, m : Link(x, m)' => Link(x, m)
  BY LoadOver
<1>2. /\ \A m : Half(m)' <=> Half(m) /\ m # d
      /\ Half(d)
  BY DEF Half
<1>3. d \in Loaded /\ attaches[d] = 0 /\ d \notin Range(pending) /\ d \in Dll
  BY <1>2 DEF Tables, AttachedOnce
<1> HIDE DEF d
<1>4. /\ dllMain' \in [Dll -> {"no", "running", "true", "false"}] /\ attaches' \in [Dll -> Nat]
      /\ dllMain'[d] = "running" /\ attaches'[d] = 1
      /\ \A m \in Dll \ {d} : dllMain'[m] = dllMain[m] /\ attaches'[m] = attaches[m]
  BY <1>3 DEF Tables, AttachedOnce, Attach, d
<1>5. AttachedOnce'
  <2>1. \A m \in Range(pending) : m \in Dll \ {d}
    BY <1>3 DEF Tables, AttachedOnce, Range
  <2>2. \A m \in Range(pending) : attaches'[m] = 0
    BY <1>4, <2>1 DEF Tables, AttachedOnce
  <2>3. \A m \in Dll : m \notin Loaded => attaches'[m] = 0 /\ m \notin Range(pending)
    BY <1>3, <1>4 DEF Tables, AttachedOnce
  <2>4. \A m \in Dll : Half(m)' => m \in Loaded /\ attaches'[m] = 0 /\ m \notin Range(pending)
    BY <1>2, <1>4 DEF Tables, AttachedOnce
  <2> QED BY <1>1, <1>4, <2>2, <2>3, <2>4 DEF Tables, AttachedOnce
<1>6. ImportsFirst'
  <2>1. ASSUME activation = << >>, NEW m \in Loaded \cap HasEntry
        PROVE  dllMain'[m] # "no" \/ Half(m)' \/ m \in Range(pending')
    <3>1. m \in Dll
      BY DEF Tables, SlotsKnown
    <3> QED BY <1>2, <1>4, <2>1, <3>1 DEF Tables, ImportsFirst
  <2>2. activation = << >> => \A g \in Lds' : g.notify # "no"
    BY DEF Tables, ImportsFirst
  <2> QED BY <1>1, <2>1, <2>2 DEF ImportsFirst
<1>7. StartsInOrder'
  <2>1. \A x, y : Before(x, y)' => Before(x, y)
    BY DEF Before
  <2> QED BY <1>1, <2>1 DEF Tables, StartsInOrder
<1>8. Ready
  <2> SUFFICES ASSUME NEW x \in Dll, Attaches(x)
               PROVE  /\ attaches[x] = 0
                      /\ activation = << >> => \A m \in Range(Imports[x]) \cap HasEntry : FollowsItsImport(x, m)
    BY DEF Ready
  <2>1. x = d
    <3>1. attaches[x] \in Nat
      BY DEF Tables, AttachedOnce
    <3> QED BY <1>4, <3>1 DEF Attaches
  <2>2. ASSUME activation = << >>, NEW m \in Range(Imports[d]) \cap HasEntry PROVE FollowsItsImport(d, m)
    <3> SUFFICES ASSUME slot'[<<d, m>>] = "real", dllMain'[m] = "no", ~ Half(m)
                 PROVE  m \in Range(pending') /\ d \notin Range(pending)
      BY HalfIsHalfLoaded DEF FollowsItsImport
    <3>1. <<d, m>> \in DOMAIN slot
      BY <1>3 DEF Tables, SlotsKnown
    <3>2. <<d, m>> \in DOMAIN slot'
      BY <1>1, <1>3 DEF SlotsKnown
    <3>3. <<d, m>>[2] = m
      OBVIOUS
    <3>4. m \in Loaded
      BY <1>1, <3>2, <3>3
    <3>5. m \in Dll \ {d} /\ dllMain[m] = "no"
      <4>1. m \in Dll
        BY <3>4 DEF Tables, SlotsKnown
      <4> QED BY <1>4, <4>1
    <3> QED BY <1>3, <2>2, <3>4, <3>5 DEF Tables, ImportsFirst
  <2> QED BY <1>3, <2>1, <2>2
<1> QED BY <1>1, <1>5, <1>6, <1>7, <1>8 DEF Tables

\* The first DllMain that waits begins.
LEMMA PendingStarts ==
    ASSUME Stacks, Tables, pending # << >>, Attach(Head(pending)), pending' = Tail(pending),
           Lds' = Lds, UNCHANGED <<base, slot, unpatched, activation>>, ~ Starting'
    PROVE  Tables' /\ Ready
<1> DEFINE d == Head(pending)   n == Len(pending)
<1>1. pending \in Seq(Dll)
  BY DEF Tables, AttachedOnce
<1>2. /\ n \in Nat \ {0} /\ d = pending[1] /\ d \in Dll
      /\ pending' \in Seq(Dll) /\ Len(pending') = n - 1 /\ \A i \in 1 .. n - 1 : pending'[i] = pending[i + 1]
      /\ DOMAIN pending = 1 .. n /\ DOMAIN pending' = 1 .. n - 1
  BY <1>1
<1> HIDE DEF d, n
<1>3. 1 \in 1 .. n /\ \A i \in 1 .. n - 1 : i + 1 \in 1 .. n /\ i + 1 # 1
  BY <1>2
<1>4. \A i \in 1 .. n : i = 1 \/ (i - 1 \in 1 .. n - 1 /\ (i - 1) + 1 = i)
  BY <1>2
<1>5. \A i, j \in 1 .. n : pending[i] = pending[j] => i = j
  BY DEF Tables, AttachedOnce, n
<1>6. Range(pending') = Range(pending) \ {d} /\ d \in Range(pending)
  <2>1. ASSUME NEW i \in 1 .. n - 1 PROVE pending'[i] \in Range(pending) \ {d}
    <3>1. pending'[i] = pending[i + 1] /\ i + 1 \in 1 .. n /\ i + 1 # 1
      BY <1>2, <1>3
    <3> QED BY <1>2, <1>3, <1>5, <3>1 DEF Range
  <2>2. ASSUME NEW i \in 1 .. n, pending[i] # d PROVE pending[i] \in Range(pending')
    <3>1. i - 1 \in 1 .. n - 1 /\ pending'[i - 1] = pending[i]
      BY <1>2, <1>4, <2>2
    <3> QED BY <1>2, <3>1 DEF Range
  <2>3. d \in Range(pending)
    BY <1>2, <1>3 DEF Range
  <2>4. Range(pending') \subseteq Range(pending) \ {d}
    BY <1>2, <2>1 DEF Range
  <2>5. Range(pending) \ {d} \subseteq Range(pending')
    BY <1>2, <2>2 DEF Range
  <2> QED BY <2>3, <2>4, <2>5
<1>7. Loaded' = Loaded /\ (\A m : Half(m)' <=> Half(m)) /\ (\A x, m : Link(x, m)' <=> Link(x, m))
  BY DEF Loaded, Half, Link
<1>8. d \in Loaded /\ attaches[d] = 0 /\ ~ Half(d)
  BY <1>2, <1>6 DEF Tables, AttachedOnce
<1>9. /\ dllMain' \in [Dll -> {"no", "running", "true", "false"}] /\ attaches' \in [Dll -> Nat]
      /\ dllMain'[d] = "running" /\ attaches'[d] = 1
      /\ \A m \in Dll \ {d} : dllMain'[m] = dllMain[m] /\ attaches'[m] = attaches[m]
  BY <1>2, <1>8 DEF Tables, AttachedOnce, Attach, d
<1>10. SlotsKnown' /\ SlotsFilled'
  BY <1>7 DEF Tables, SlotsKnown, SlotsFilled
<1>11. AttachedOnce'
  <2>1. \A m \in Range(pending') : m \in Dll \ {d}
    BY <1>2, <1>6 DEF Range
  <2>2. \A i, j \in 1 .. n - 1 : pending'[i] = pending'[j] => i = j
    BY <1>2, <1>3, <1>5
  <2>3. \A m \in Dll : Half(m)' => m \in Loaded' /\ attaches'[m] = 0 /\ m \notin Range(pending')
    BY <1>6, <1>7, <1>8, <1>9 DEF Tables, AttachedOnce
  <2>4. \A m \in Dll : m \notin Loaded' => attaches'[m] = 0 /\ m \notin Range(pending')
    BY <1>6, <1>7, <1>8, <1>9 DEF Tables, AttachedOnce
  <2>5. \A m \in Range(pending') : attaches'[m] = 0
    BY <1>6, <1>9, <2>1 DEF Tables, AttachedOnce
  <2> QED BY <1>2, <1>9, <2>2, <2>3, <2>4, <2>5 DEF AttachedOnce
<1>12. ImportsFirst'
  <2>1. ASSUME activation = << >>, NEW m \in Loaded \cap HasEntry
        PROVE  dllMain'[m] # "no" \/ Half(m)' \/ m \in Range(pending')
    <3>1. m \in Dll
      BY DEF Tables, SlotsKnown
    <3> QED BY <1>6, <1>7, <1>9, <2>1, <3>1 DEF Tables, ImportsFirst
  <2> QED BY <1>7, <2>1 DEF Tables, ImportsFirst
<1>13. StartsInOrder'
  <2>1. ASSUME NEW x, NEW y, Before(x, y)' PROVE Before(x, y)
    <3>1. PICK i, j \in 1 .. n - 1 : i < j /\ pending'[i] = x /\ pending'[j] = y
      BY <1>2, <2>1 DEF Before
    <3>2. i + 1 \in 1 .. n /\ j + 1 \in 1 .. n /\ i + 1 < j + 1
      BY <1>2, <3>1
    <3>3. pending[i + 1] = x /\ pending[j + 1] = y
      BY <1>2, <3>1
    <3> QED BY <3>2, <3>3 DEF Before, n
  <2> QED BY <1>7, <2>1 DEF Tables, StartsInOrder
<1>14. Ready
  <2> SUFFICES ASSUME NEW x \in Dll, Attaches(x)
               PROVE  /\ attaches[x] = 0
                      /\ activation = << >> => \A m \in Range(Imports[x]) \cap HasEntry : FollowsItsImport(x, m)
    BY DEF Ready
  <2>1. x = d
    <3>1. attaches[x] \in Nat
      BY DEF Tables, AttachedOnce
    <3> QED BY <1>9, <3>1 DEF Attaches
  <2>2. ASSUME activation = << >>, NEW m \in Range(Imports[d]) \cap HasEntry PROVE FollowsItsImport(d, m)
    <3> SUFFICES ASSUME slot'[<<d, m>>] = "real", dllMain'[m] = "no", ~ Half(m)
                 PROVE  m \in Range(pending') /\ d \in Reaches[m]
      BY HalfIsHalfLoaded DEF FollowsItsImport
    <3>1. <<d, m>> \in DOMAIN slot /\ <<d, m>>[2] = m /\ slot[<<d, m>>] = "real"
      BY <1>8 DEF Tables, SlotsKnown
    <3>2. m \in Loaded
      BY <3>1 DEF Tables, ImportsFirst
    <3>3. m \in Dll \ {d} /\ dllMain[m] = "no"
      <4>1. m \in Dll
        BY <3>2 DEF Tables, SlotsKnown
      <4> QED BY <1>9, <4>1
    <3>4. m \in Range(pending)
      BY <2>2, <3>2, <3>3 DEF Tables, ImportsFirst
    <3>5. PICK j \in 1 .. n : pending[j] = m
      BY <1>2, <3>4 DEF Range
    <3>6. 1 < j
      BY <1>2, <3>3, <3>5
    <3>7. Link(d, m)
      BY <3>1 DEF Link
    <3>8. Before(d, m)
      BY <1>2, <1>3, <3>5, <3>6 DEF Before, n
    <3> QED BY <1>6, <3>3, <3>4, <3>7, <3>8 DEF Tables, StartsInOrder
  <2> QED BY <1>8, <2>1, <2>2
<1> QED BY <1>10, <1>11, <1>12, <1>13, <1>14 DEF Tables

-----------------------------------------------------------------------------
(* Activations and the frames that have their numbers.                     *)

\* The frame of an activation that is not over, and of no other frame's.
\* While its DLL attaches it waits for the class factory.
Serves(s, acts) ==
    /\ \A i \in 1 .. Len(s) : s[i].at = "activation" =>
          s[i].k \in 1 .. Len(acts) /\ acts[s[i].k].stage # "done"
    /\ \A i \in 2 .. Len(s) : s[i - 1].at = "activation" /\ s[i].at \in {"server_dll", "server_main"} =>
          acts[s[i - 1].k].stage = "factory"
    /\ \A i, j \in 1 .. Len(s) :
          s[i].at = "activation" /\ s[j].at = "activation" /\ s[i].k = s[j].k => i = j

Whole(s, acts) == GoodStack(s) /\ OneLoadEach(s) /\ Serves(s, acts)

\* What a frame of the loader is.
LEMMA FrameIs ==
    ASSUME NEW at \in FrameKinds, NEW d, NEW k \in Nat, NEW notify \in {"now", "later", "no"},
           IF at \in {"startup", "pending"} THEN d = Program ELSE d \in Dll,
           at \in LoadingFrames => k # 0
    PROVE  /\ Frame(at, d, k, notify) \in LoadFrame
           /\ Frame(at, d, k, notify).at = at /\ Frame(at, d, k, notify).dll = d
           /\ Frame(at, d, k, notify).k = k /\ Frame(at, d, k, notify).notify = notify
BY DEF Frame, LoadFrame

\* A frame more, other than that of an activation.
LEMMA ServesPush ==
    ASSUME NEW s \in Seq(LoadFrame), NEW f \in LoadFrame, NEW acts, Serves(s, acts),
           f.at # "activation",
           f.at \in {"server_dll", "server_main"} /\ s # << >> /\ s[Len(s)].at = "activation" =>
               acts[s[Len(s)].k].stage = "factory"
    PROVE  Serves(Append(s, f), acts)
<1> DEFINE q == Append(s, f)   n == Len(s)
<1>1. /\ n \in Nat /\ Len(q) = n + 1 /\ q[n + 1] = f /\ \A i \in 1 .. n : q[i] = s[i]
  BY Pushed
<1>2. n # 0 => s # << >>
  OBVIOUS
<1> HIDE DEF q
<1>3. \A i \in 1 .. n + 1 : i \in 1 .. n \/ i = n + 1
  BY <1>1
<1>4. \A i \in 1 .. n + 1 : q[i].at = "activation" => i \in 1 .. n /\ q[i] = s[i]
  BY <1>1, <1>3
<1>5. ASSUME NEW i \in 2 .. n + 1, q[i - 1].at = "activation", q[i].at \in {"server_dll", "server_main"}
      PROVE  acts[q[i - 1].k].stage = "factory"
  <2>1. CASE i = n + 1
    <3>1. i - 1 = n /\ n \in 1 .. n /\ n # 0
      BY <1>1, <2>1
    <3> HIDE DEF n
    <3>2. q[i - 1] = s[n] /\ q[i] = f
      BY <1>1, <2>1, <3>1
    <3> QED BY <1>2, <1>5, <3>1, <3>2 DEF n
  <2>2. CASE i \in 2 .. n
    <3>1. i - 1 \in 1 .. n /\ i \in 1 .. n
      BY <1>1, <2>2
    <3> QED BY <1>1, <1>5, <2>2, <3>1 DEF Serves
  <2>3. i = n + 1 \/ i \in 2 .. n
    BY <1>1
  <2> QED BY <2>1, <2>2, <2>3
<1> HIDE DEF n
<1>6. \A i \in 1 .. n + 1 : q[i].at = "activation" =>
        q[i].k \in 1 .. Len(acts) /\ acts[q[i].k].stage # "done"
  BY <1>4 DEF Serves, n
<1>7. \A i, j \in 1 .. n + 1 :
        q[i].at = "activation" /\ q[j].at = "activation" /\ q[i].k = q[j].k => i = j
  BY <1>4 DEF Serves, n
<1> QED BY <1>1, <1>5, <1>6, <1>7 DEF Serves, q

\* The top gone.
LEMMA ServesPop ==
    ASSUME NEW s \in Seq(LoadFrame), s # << >>, NEW acts, Serves(s, acts)
    PROVE  Serves(Front(s), acts)
<1> DEFINE q == Front(s)   n == Len(s)
<1>1. /\ n \in Nat \ {0} /\ Len(q) = n - 1 /\ \A i \in 1 .. n - 1 : q[i] = s[i]
  BY Popped
<1> HIDE DEF q
<1>2. \A i \in 1 .. n - 1 : i \in 1 .. n
  BY <1>1
<1>3. \A i \in 2 .. n - 1 : i \in 2 .. n /\ q[i] = s[i] /\ q[i - 1] = s[i - 1]
  BY <1>1
<1> HIDE DEF n
<1>4. \A i \in 1 .. n - 1 : q[i].at = "activation" => q[i].k \in 1 .. Len(acts) /\ acts[q[i].k].stage # "done"
  BY <1>1, <1>2 DEF Serves, n
<1>5. \A i \in 2 .. n - 1 : q[i - 1].at = "activation" /\ q[i].at \in {"server_dll", "server_main"} =>
          acts[q[i - 1].k].stage = "factory"
  BY <1>3 DEF Serves, n
<1>6. \A i, j \in 1 .. n - 1 : q[i].at = "activation" /\ q[j].at = "activation" /\ q[i].k = q[j].k => i = j
  BY <1>1, <1>2 DEF Serves, n
<1> QED BY <1>1, <1>4, <1>5, <1>6 DEF Serves, q

\* The load on top one import further.
LEMMA ServesAdvance ==
    ASSUME NEW s \in Seq(LoadFrame), s # << >>, IsLoad(s[Len(s)]), NEW acts, Serves(s, acts)
    PROVE  Serves(Advanced(s), acts)
<1> DEFINE q == Advanced(s)   n == Len(s)
<1>1. /\ n \in Nat \ {0} /\ Len(q) = n /\ (\A i \in 1 .. n - 1 : q[i] = s[i]) /\ q[n].at = s[n].at
  <2>1. Len(s) \in Nat \ {0}
    BY Popped
  <2> QED BY <2>1, AdvancedIs DEF IsLoad
<1> HIDE DEF q
<1>2. s[n].at # "activation"
  BY DEF IsLoad, LoadingFrames
<1>3. \A i \in 1 .. n : q[i].at = s[i].at /\ (s[i].at = "activation" => q[i] = s[i])
  <2>1. \A i \in 1 .. n : i \in 1 .. n - 1 \/ i = n
    BY <1>1
  <2> QED BY <1>1, <1>2, <2>1
<1>4. \A i \in 2 .. n : i \in 1 .. n /\ i - 1 \in 1 .. n
  BY <1>1
<1>5. \A i \in 2 .. n : q[i].at = s[i].at /\ q[i - 1].at = s[i - 1].at
         /\ (s[i - 1].at = "activation" => q[i - 1] = s[i - 1])
  BY <1>3, <1>4
<1> HIDE DEF n
<1>6. \A i \in 1 .. n : q[i].at = "activation" => q[i].k \in 1 .. Len(acts) /\ acts[q[i].k].stage # "done"
  BY <1>3 DEF Serves, n
<1>7. \A i \in 2 .. n : q[i - 1].at = "activation" /\ q[i].at \in {"server_dll", "server_main"} =>
          acts[q[i - 1].k].stage = "factory"
  BY <1>5 DEF Serves, n
<1>8. \A i, j \in 1 .. n : q[i].at = "activation" /\ q[j].at = "activation" /\ q[i].k = q[j].k => i = j
  BY <1>3 DEF Serves, n
<1> QED BY <1>1, <1>6, <1>7, <1>8 DEF Serves, q

\* A new activation.
LEMMA ServesNew ==
    ASSUME NEW s \in Seq(LoadFrame), NEW f \in LoadFrame, NEW S, NEW acts \in Seq(S), Serves(s, acts),
           NEW a \in S, a.stage = "factory", f.at = "activation", f.k = Len(acts) + 1
    PROVE  Serves(Append(s, f), Append(acts, a))
<1> DEFINE q == Append(s, f)   n == Len(s)   w == Append(acts, a)   m == Len(acts)
<1>1. /\ n \in Nat /\ Len(q) = n + 1 /\ q[n + 1] = f /\ \A i \in 1 .. n : q[i] = s[i]
  BY Pushed
<1>2. /\ m \in Nat /\ Len(w) = m + 1 /\ w[m + 1] = a /\ \A i \in 1 .. m : w[i] = acts[i]
  OBVIOUS
<1> HIDE DEF q, w
<1>3. \A i \in 1 .. n + 1 : i \in 1 .. n \/ i = n + 1
  BY <1>1
<1>4. /\ m + 1 \in 1 .. m + 1
      /\ \A i \in 1 .. m : i \in 1 .. m + 1 /\ i # m + 1
  BY <1>2
<1>5. \A i \in 1 .. n : s[i].at = "activation" => s[i].k \in 1 .. m /\ acts[s[i].k].stage # "done"
  BY DEF Serves
<1>6. \A i \in 2 .. n + 1 : i - 1 \in 1 .. n /\ (i \in 2 .. n \/ i = n + 1)
  BY <1>1
<1>7. \A i \in 2 .. n : i \in 1 .. n
  BY <1>1
<1>8. \A i \in 2 .. n : s[i - 1].at = "activation" /\ s[i].at \in {"server_dll", "server_main"} =>
          acts[s[i - 1].k].stage = "factory"
  BY DEF Serves
<1>9. \A i, j \in 1 .. n : s[i].at = "activation" /\ s[j].at = "activation" /\ s[i].k = s[j].k => i = j
  BY DEF Serves
<1>10. f.at = "activation" /\ f.k = m + 1
  OBVIOUS
<1> HIDE DEF n, m
<1>11. \A i \in 1 .. n + 1 : q[i].at = "activation" => q[i].k \in 1 .. m + 1 /\ w[q[i].k].stage # "done"
  <2> SUFFICES ASSUME NEW i \in 1 .. n + 1, q[i].at = "activation"
               PROVE  q[i].k \in 1 .. m + 1 /\ w[q[i].k].stage # "done"
    OBVIOUS
  <2>1. CASE i = n + 1
    BY <1>1, <1>2, <1>4, <1>10, <2>1
  <2>2. CASE i \in 1 .. n
    BY <1>1, <1>2, <1>4, <1>5, <2>2
  <2> QED BY <1>3, <2>1, <2>2
<1>12. ASSUME NEW i \in 2 .. n + 1, q[i - 1].at = "activation", q[i].at \in {"server_dll", "server_main"}
       PROVE  w[q[i - 1].k].stage = "factory"
  <2>1. i # n + 1
    BY <1>1, <1>10, <1>12
  <2>2. i \in 2 .. n /\ i - 1 \in 1 .. n /\ i \in 1 .. n
    BY <1>6, <1>7, <2>1
  <2>3. q[i] = s[i] /\ q[i - 1] = s[i - 1]
    BY <1>1, <2>2
  <2>4. acts[s[i - 1].k].stage = "factory" /\ s[i - 1].k \in 1 .. m
    BY <1>5, <1>8, <1>12, <2>2, <2>3
  <2> QED BY <1>2, <2>3, <2>4
<1>13. \A i, j \in 1 .. n + 1 : q[i].at = "activation" /\ q[j].at = "activation" /\ q[i].k = q[j].k => i = j
  <2>1. \A i \in 1 .. n : q[i].at = "activation" => q[i].k \in 1 .. m
    BY <1>1, <1>5
  <2>2. q[n + 1].k = m + 1
    BY <1>1, <1>10
  <2> QED BY <1>1, <1>3, <1>4, <1>9, <2>1, <2>2
<1> QED BY <1>1, <1>2, <1>11, <1>12, <1>13 DEF Serves, q, w

\* What the activation on top holds changes.
LEMMA ServesChange ==
    ASSUME NEW s \in Seq(LoadFrame), s # << >>, s[Len(s)].at = "activation",
           NEW S, NEW acts \in Seq(S), Serves(s, acts), NEW b \in S
    PROVE  /\ b.stage # "done" => Serves(s, [acts EXCEPT ![s[Len(s)].k] = b])
           /\ Serves(Front(s), [acts EXCEPT ![s[Len(s)].k] = b])
<1> DEFINE n == Len(s)   k == s[n].k   w == [acts EXCEPT ![k] = b]   q == Front(s)
<1>1. n \in Nat \ {0} /\ n \in 1 .. n
  BY Popped
<1>2. k \in 1 .. Len(acts)
  BY <1>1 DEF Serves
<1>3. Len(w) = Len(acts) /\ w[k] = b /\ \A i \in 1 .. Len(acts) : i # k => w[i] = acts[i]
  BY <1>2
<1>4. \A i \in 1 .. n : s[i].at = "activation" => s[i].k \in 1 .. Len(acts) /\ acts[s[i].k].stage # "done"
  BY DEF Serves
<1>5. \A i \in 1 .. n : s[i].at = "activation" /\ s[i].k = k => i = n
  BY <1>1 DEF Serves
<1>6. \A i \in 2 .. n : s[i - 1].at = "activation" /\ s[i].at \in {"server_dll", "server_main"} =>
          acts[s[i - 1].k].stage = "factory"
  BY DEF Serves
<1>7. \A i, j \in 1 .. n : s[i].at = "activation" /\ s[j].at = "activation" /\ s[i].k = s[j].k => i = j
  BY DEF Serves
<1>8. \A i \in 2 .. n : i - 1 \in 1 .. n /\ i - 1 # n
  BY <1>1
<1>9. Len(q) = n - 1 /\ \A i \in 1 .. n - 1 : q[i] = s[i]
  BY Popped
<1>10. \A i \in 1 .. n - 1 : i \in 1 .. n /\ i # n
  BY <1>1
<1> HIDE DEF n, w, k, q
<1>11. \A i \in 2 .. n - 1 : i \in 2 .. n /\ q[i] = s[i] /\ q[i - 1] = s[i - 1]
  <2>1. \A i \in 2 .. n - 1 : i \in 2 .. n /\ i \in 1 .. n - 1 /\ i - 1 \in 1 .. n - 1
    BY <1>1
  <2> QED BY <1>9, <2>1
<1>12. \A i \in 2 .. n : s[i - 1].at = "activation" /\ s[i].at \in {"server_dll", "server_main"} =>
          w[s[i - 1].k].stage = "factory"
  BY <1>3, <1>4, <1>5, <1>6, <1>8
<1>13. \A i \in 1 .. n - 1 : s[i].at = "activation" => s[i].k \in 1 .. Len(w) /\ w[s[i].k].stage # "done"
  BY <1>3, <1>4, <1>5, <1>10
<1>14. b.stage # "done" => Serves(s, w)
  <2>1. b.stage # "done" =>
          \A i \in 1 .. n : s[i].at = "activation" => s[i].k \in 1 .. Len(w) /\ w[s[i].k].stage # "done"
    BY <1>3, <1>4
  <2> QED BY <1>7, <1>12, <2>1 DEF Serves, n
<1>15. Serves(q, w)
  <2>1. \A i \in 1 .. n - 1 : q[i].at = "activation" => q[i].k \in 1 .. Len(w) /\ w[q[i].k].stage # "done"
    BY <1>9, <1>13
  <2>2. \A i \in 2 .. n - 1 : q[i - 1].at = "activation" /\ q[i].at \in {"server_dll", "server_main"} =>
          w[q[i - 1].k].stage = "factory"
    BY <1>11, <1>12
  <2>3. \A i, j \in 1 .. n - 1 : q[i].at = "activation" /\ q[j].at = "activation" /\ q[i].k = q[j].k => i = j
    BY <1>7, <1>9, <1>10
  <2> QED BY <1>9, <2>1, <2>2, <2>3 DEF Serves
<1> QED BY <1>14, <1>15 DEF w, q, k, n

-----------------------------------------------------------------------------
(* What the activations owe.                                               *)

Stage == {"factory", "create", "release_factory", "query", "release_instance", "done"}
Record ==
    [call : Call \union {Null}, stage : Stage, ok : BOOLEAN, out : Object \union {Null}, outs : Nat, k : Nat]

\* What a record holds at each stage.
WellFormed(a) ==
    /\ a.stage # "done" => a.call \in Call
    /\ a.stage = "factory" => a.ok /\ a.out = Null /\ a.outs = 0
    /\ a.stage = "create" =>
          /\ a.call # "CoGetClassObject" /\ a.outs = 0
          /\ a.out = IF a.call = "CoCreateInstanceEx" THEN Null ELSE "factory"
    /\ a.stage = "release_factory" =>
          /\ a.call # "CoGetClassObject" /\ a.outs = 0
          /\ a.ok => a.out = IF a.call = "CoCreateInstance" THEN "instance" ELSE Null
    /\ a.stage \in {"query", "release_instance"} => a.ok /\ a.out = Null

\* The references a handler has and has neither released nor passed on.
Owed(a) ==
    [factory |-> IF a.stage \in {"create", "release_factory"} THEN 1 ELSE 0,
     instance |-> IF a.stage = "release_factory" /\ a.ok THEN 1
                  ELSE IF a.stage \in {"query", "release_instance"} THEN 1 + a.outs ELSE 0]
Debts(o) == [n \in 1 .. MaxActivations |-> IF n \in DOMAIN activation THEN Owed(activation[n])[o] ELSE 0]

Records ==
    /\ activation \in Seq(Record) /\ Len(activation) <= MaxActivations
    /\ \A n \in 1 .. Len(activation) : WellFormed(activation[n])

Balance ==
    /\ references \in [Object -> Int] /\ held \in [Object -> Int]
    /\ \A o \in Object : references[o] = held[o] + Total(Debts(o), 1 .. MaxActivations)

\* What an activation owes is a number.
LEMMA OwedIsInt ==
    ASSUME NEW a \in Record, NEW o \in Object
    PROVE  Owed(a)[o] \in Int
<1>1. a.outs \in Nat
  BY DEF Record
<1> QED BY <1>1 DEF Owed, Object

\* What changes one record changes the sum of the debts.
LEMMA DebtsChange ==
    ASSUME Records, NEW k \in 1 .. Len(activation), NEW b \in Record,
           activation' = [activation EXCEPT ![k] = b], NEW o \in Object
    PROVE  /\ Total(Debts(o), 1 .. MaxActivations) \in Int
           /\ Total(Debts(o), 1 .. MaxActivations)' =
                 Total(Debts(o), 1 .. MaxActivations) + (Owed(b)[o] - Owed(activation[k])[o])
<1> DEFINE D == 1 .. MaxActivations   f == Debts(o)   g == Debts(o)'
           d == Owed(b)[o] - Owed(activation[k])[o]
<1>1. activation \in Seq(Record) /\ Len(activation) \in Nat /\ MaxActivations \in Nat /\ Len(activation) <= MaxActivations
  BY ComAssumption DEF Records
<1>2. k \in D /\ DOMAIN activation = 1 .. Len(activation) /\ activation[k] \in Record
  BY <1>1
<1>3. IsFiniteSet(D)
  BY <1>1, FS_Interval
<1>4. /\ DOMAIN activation' = DOMAIN activation /\ activation'[k] = b
      /\ \A n \in DOMAIN activation : n # k => activation'[n] = activation[n]
  BY <1>1, <1>2
<1>5. \A n \in DOMAIN activation : activation[n] \in Record
  BY <1>1
<1>6. \A n \in D : f[n] = IF n \in DOMAIN activation THEN Owed(activation[n])[o] ELSE 0
  BY DEF Debts
<1>7. \A n \in D : g[n] = IF n \in DOMAIN activation THEN Owed(activation'[n])[o] ELSE 0
  BY <1>4 DEF Debts
<1>8. d \in Int /\ Owed(b)[o] \in Int /\ Owed(activation[k])[o] \in Int
  BY <1>2, OwedIsInt
<1>9. \A n \in D : f[n] \in Int
  BY <1>5, <1>6, OwedIsInt
<1>10. f[k] = Owed(activation[k])[o] /\ g[k] = Owed(b)[o]
  BY <1>2, <1>4, <1>6, <1>7
<1>11. \A n \in D : n # k => g[n] = f[n]
  BY <1>4, <1>6, <1>7
<1> HIDE DEF f, g, D
<1>12. \A n \in D : g[n] = f[n] + (IF n = k THEN d ELSE 0)
  BY <1>8, <1>9, <1>10, <1>11
<1>13. Differ(f, g, k, d, D)
  BY <1>9, <1>12 DEF Differ
<1>14. Total(f, D) \in Int /\ Total(g, D) = Total(f, D) + d
  BY <1>2, <1>3, <1>8, <1>13, SumChanges
<1> QED BY <1>14 DEF f, g, D, d

\* An activation more owes nothing yet.
LEMMA DebtsStay ==
    ASSUME Records, NEW a \in Record, a.stage = "factory", Len(activation) < MaxActivations,
           activation' = Append(activation, a)
    PROVE  \A o \in Object : Debts(o)' = Debts(o)
<1>1. activation \in Seq(Record) /\ Len(activation) \in Nat /\ MaxActivations \in Nat
  BY ComAssumption DEF Records
<1>2. /\ DOMAIN activation = 1 .. Len(activation) /\ DOMAIN activation' = 1 .. Len(activation) + 1
      /\ activation'[Len(activation) + 1] = a
      /\ \A n \in 1 .. Len(activation) : activation'[n] = activation[n]
  BY <1>1
<1>3. \A o \in Object : Owed(a)[o] = 0
  BY DEF Owed, Object
<1> SUFFICES ASSUME NEW o \in Object, NEW n \in 1 .. MaxActivations
             PROVE  (IF n \in DOMAIN activation' THEN Owed(activation'[n])[o] ELSE 0)
                       = (IF n \in DOMAIN activation THEN Owed(activation[n])[o] ELSE 0)
  BY DEF Debts
<1>4. CASE n = Len(activation) + 1
  <2>1. n \in DOMAIN activation' /\ n \notin DOMAIN activation /\ activation'[n] = a
    BY <1>1, <1>2, <1>4
  <2> QED BY <1>3, <2>1
<1>5. CASE n # Len(activation) + 1
  <2>1. n \in DOMAIN activation' <=> n \in DOMAIN activation
    BY <1>1, <1>2, <1>5
  <2>2. n \in DOMAIN activation => activation'[n] = activation[n]
    BY <1>2
  <2> QED BY <2>1, <2>2
<1> QED BY <1>4, <1>5

\* When the activations are over nothing is owed.
LEMMA NothingOwed ==
    ASSUME Records, Balance
    PROVE  ReferencesBalance
<1> SUFFICES ASSUME \A n \in DOMAIN activation : activation[n].stage = "done"
             PROVE  references = held
  BY DEF ReferencesBalance
<1>1. IsFiniteSet(1 .. MaxActivations)
  <2>1. 1 \in Int /\ MaxActivations \in Int
    BY ComAssumption
  <2> QED BY <2>1, FS_Interval, Zenon
<1>2. ASSUME NEW o \in Object PROVE references[o] = held[o]
  <2>1. \A n \in DOMAIN activation : Owed(activation[n])[o] = 0
    BY DEF Owed, Object
  <2>2. \A n \in 1 .. MaxActivations : Debts(o)[n] = 0
    BY <2>1 DEF Debts
  <2> DEFINE f == Debts(o)
  <2>3. Total(f, 1 .. MaxActivations) = 0
    <3> HIDE DEF f
    <3> QED BY <1>1, <2>2, SumOfZeros DEF f
  <2>4. references[o] = held[o] + 0 /\ held[o] \in Int
    BY <2>3 DEF Balance
  <2> QED BY <2>4
<1> QED BY <1>2 DEF Balance

Fields(call, stage, ok, out, outs, k) ==
    [call |-> call, stage |-> stage, ok |-> ok, out |-> out, outs |-> outs, k |-> k]

\* What a record that was a gains of each reference as b, counting what the
\* caller is given at the end.
Gain(a, b) == [o \in Object |-> (IF b.stage = "done" THEN Outs(b)[o] ELSE Owed(b)[o]) - Owed(a)[o]]
Gains(i, j) ==
    /\ references' \in [Object -> Int]
    /\ references'["factory"] = references["factory"] + i
    /\ references'["instance"] = references["instance"] + j
Balanced(a, b) ==
    /\ b \in Record /\ (b.stage # "done" => WellFormed(b))
    /\ Gains(Gain(a, b)["factory"], Gain(a, b)["instance"])

\* The references of both objects grow by what the record gains.
LEMMA BalancedIs ==
    ASSUME NEW a \in Record, NEW b, Balanced(a, b)
    PROVE  \A o \in Object : Outs(b)[o] \in Int /\ references'[o] = references[o] + Gain(a, b)[o]
<1>1. b.outs \in Nat
  BY DEF Record, Balanced
<1>2. \A o \in Object : Outs(b)[o] \in Int
  BY <1>1 DEF Outs
<1> QED BY <1>2 DEF Object, Balanced, Gains

\* A method of the server returns: what is counted is what the record then
\* owes, or what the caller is given.
LEMMA CallBalances ==
    ASSUME NEW a \in Record, WellFormed(a), a.stage # "done", NEW ok \in BOOLEAN,
           Counts(a.stage, ok), references \in [Object -> Int]
    PROVE  Balanced(a, AfterCall(a, ok))
<1> DEFINE b == AfterCall(a, ok)
<1>1. /\ a.call \in Call /\ a.stage \in Stage /\ a.ok \in BOOLEAN /\ a.out \in Object \union {Null}
      /\ a.outs \in Nat /\ a.k \in Nat
      /\ a = Fields(a.call, a.stage, a.ok, a.out, a.outs, a.k)
  BY DEF Record, WellFormed, Fields
<1>2. references["factory"] \in Int /\ references["instance"] \in Int
  BY DEF Object
<1>3. /\ \A n \in Int : Referenced("factory", n) => Gains(n, 0)
      /\ \A n \in Int : Referenced("instance", n) => Gains(0, n)
      /\ UNCHANGED references => Gains(0, 0)
  BY <1>2 DEF Referenced, Object, Gains
<1>4. CASE a.stage = "factory" /\ ~ ok
  <2>1. b = Fields(a.call, "done", FALSE, a.out, a.outs, a.k)
    BY <1>1, <1>4 DEF AfterCall, Fields
  <2>2. UNCHANGED references
    BY <1>4 DEF Counts
  <2>3. b \in Record /\ (b.stage # "done" => WellFormed(b))
    <3> HIDE DEF b
    <3> QED BY <1>1, <1>4, <2>1 DEF Record, Fields, WellFormed, Stage, Object, Call, Null
  <2>4. Gain(a, b)["factory"] = 0 /\ Gain(a, b)["instance"] = 0
    <3> HIDE DEF b
    <3> QED BY <1>1, <1>4, <2>1 DEF Fields, WellFormed, Outs, Owed, Object, Call, Null, Gain
  <2> HIDE DEF b
  <2>5. Gains(0, 0)
    BY <1>3, <2>2
  <2>6. Balanced(a, b)
    BY <2>3, <2>4, <2>5 DEF Balanced
  <2> QED BY <2>6 DEF b
<1>5. CASE a.stage = "factory" /\ ok /\ a.call = "CoGetClassObject"
  <2>1. b = Fields(a.call, "done", a.ok, "factory", a.outs, a.k)
    BY <1>1, <1>5 DEF AfterCall, Fields
  <2>2. Referenced("factory", 1)
    BY <1>5 DEF Counts
  <2>3. b \in Record /\ (b.stage # "done" => WellFormed(b))
    <3> HIDE DEF b
    <3> QED BY <1>1, <1>5, <2>1 DEF Record, Fields, WellFormed, Stage, Object, Call, Null
  <2>4. Gain(a, b)["factory"] = 1 /\ Gain(a, b)["instance"] = 0
    <3> HIDE DEF b
    <3> QED BY <1>1, <1>5, <2>1 DEF Fields, WellFormed, Outs, Owed, Object, Call, Null, Gain
  <2> HIDE DEF b
  <2>5. Gains(1, 0)
    BY <1>3, <2>2
  <2>6. Balanced(a, b)
    BY <2>3, <2>4, <2>5 DEF Balanced
  <2> QED BY <2>6 DEF b
<1>6. CASE a.stage = "factory" /\ ok /\ a.call = "CoCreateInstance"
  <2>1. b = Fields(a.call, "create", a.ok, "factory", a.outs, a.k)
    BY <1>1, <1>6 DEF AfterCall, Fields
  <2>2. Referenced("factory", 1)
    BY <1>6 DEF Counts
  <2>3. b \in Record /\ (b.stage # "done" => WellFormed(b))
    <3> HIDE DEF b
    <3> QED BY <1>1, <1>6, <2>1 DEF Record, Fields, WellFormed, Stage, Object, Call, Null
  <2>4. Gain(a, b)["factory"] = 1 /\ Gain(a, b)["instance"] = 0
    <3> HIDE DEF b
    <3> QED BY <1>1, <1>6, <2>1 DEF Fields, WellFormed, Outs, Owed, Object, Call, Null, Gain
  <2> HIDE DEF b
  <2>5. Gains(1, 0)
    BY <1>3, <2>2
  <2>6. Balanced(a, b)
    BY <2>3, <2>4, <2>5 DEF Balanced
  <2> QED BY <2>6 DEF b
<1>7. CASE a.stage = "factory" /\ ok /\ a.call = "CoCreateInstanceEx"
  <2>1. b = Fields(a.call, "create", a.ok, Null, a.outs, a.k)
    BY <1>1, <1>7 DEF AfterCall, Fields
  <2>2. Referenced("factory", 1)
    BY <1>7 DEF Counts
  <2>3. b \in Record /\ (b.stage # "done" => WellFormed(b))
    <3> HIDE DEF b
    <3> QED BY <1>1, <1>7, <2>1 DEF Record, Fields, WellFormed, Stage, Object, Call, Null
  <2>4. Gain(a, b)["factory"] = 1 /\ Gain(a, b)["instance"] = 0
    <3> HIDE DEF b
    <3> QED BY <1>1, <1>7, <2>1 DEF Fields, WellFormed, Outs, Owed, Object, Call, Null, Gain
  <2> HIDE DEF b
  <2>5. Gains(1, 0)
    BY <1>3, <2>2
  <2>6. Balanced(a, b)
    BY <2>3, <2>4, <2>5 DEF Balanced
  <2> QED BY <2>6 DEF b
<1>8. CASE a.stage = "create" /\ ~ ok
  <2>1. b = Fields(a.call, "release_factory", FALSE, a.out, a.outs, a.k)
    BY <1>1, <1>8 DEF AfterCall, Fields
  <2>2. UNCHANGED references
    BY <1>8 DEF Counts
  <2>3. b \in Record /\ (b.stage # "done" => WellFormed(b))
    <3> HIDE DEF b
    <3> QED BY <1>1, <1>8, <2>1 DEF Record, Fields, WellFormed, Stage, Object, Call, Null
  <2>4. Gain(a, b)["factory"] = 0 /\ Gain(a, b)["instance"] = 0
    <3> HIDE DEF b
    <3> QED BY <1>1, <1>8, <2>1 DEF Fields, WellFormed, Outs, Owed, Object, Call, Null, Gain
  <2> HIDE DEF b
  <2>5. Gains(0, 0)
    BY <1>3, <2>2
  <2>6. Balanced(a, b)
    BY <2>3, <2>4, <2>5 DEF Balanced
  <2> QED BY <2>6 DEF b
<1>9. CASE a.stage = "create" /\ ok
  <2>1. b = Fields(a.call, "release_factory", TRUE, (IF a.call = "CoCreateInstance" THEN "instance" ELSE a.out), a.outs, a.k)
    BY <1>1, <1>9 DEF AfterCall, Fields
  <2>2. Referenced("instance", 1)
    BY <1>9 DEF Counts
  <2>3. b \in Record /\ (b.stage # "done" => WellFormed(b))
    <3> HIDE DEF b
    <3> QED BY <1>1, <1>9, <2>1 DEF Record, Fields, WellFormed, Stage, Object, Call, Null
  <2>4. Gain(a, b)["factory"] = 0 /\ Gain(a, b)["instance"] = 1
    <3> HIDE DEF b
    <3> QED BY <1>1, <1>9, <2>1 DEF Fields, WellFormed, Outs, Owed, Object, Call, Null, Gain
  <2> HIDE DEF b
  <2>5. Gains(0, 1)
    BY <1>3, <2>2
  <2>6. Balanced(a, b)
    BY <2>3, <2>4, <2>5 DEF Balanced
  <2> QED BY <2>6 DEF b
<1>10. CASE a.stage = "release_factory" /\ a.ok /\ a.call = "CoCreateInstanceEx"
  <2>1. b = Fields(a.call, "query", a.ok, a.out, a.outs, a.k)
    BY <1>1, <1>10 DEF AfterCall, Fields
  <2>2. Referenced("factory", -1)
    BY <1>10 DEF Counts
  <2>3. b \in Record /\ (b.stage # "done" => WellFormed(b))
    <3> HIDE DEF b
    <3> QED BY <1>1, <1>10, <2>1 DEF Record, Fields, WellFormed, Stage, Object, Call, Null
  <2>4. Gain(a, b)["factory"] = -1 /\ Gain(a, b)["instance"] = 0
    <3> HIDE DEF b
    <3> QED BY <1>1, <1>10, <2>1 DEF Fields, WellFormed, Outs, Owed, Object, Call, Null, Gain
  <2> HIDE DEF b
  <2>5. Gains(-1, 0)
    BY <1>3, <2>2
  <2>6. Balanced(a, b)
    BY <2>3, <2>4, <2>5 DEF Balanced
  <2> QED BY <2>6 DEF b
<1>11. CASE a.stage = "release_factory" /\ ~ (a.ok /\ a.call = "CoCreateInstanceEx")
  <2>1. b = Fields(a.call, "done", a.ok, a.out, a.outs, a.k)
    BY <1>1, <1>11 DEF AfterCall, Fields
  <2>2. Referenced("factory", -1)
    BY <1>11 DEF Counts
  <2>3. b \in Record /\ (b.stage # "done" => WellFormed(b))
    <3> HIDE DEF b
    <3> QED BY <1>1, <1>11, <2>1 DEF Record, Fields, WellFormed, Stage, Object, Call, Null
  <2>4. Gain(a, b)["factory"] = -1 /\ Gain(a, b)["instance"] = 0
    <3> HIDE DEF b
    <3> QED BY <1>1, <1>11, <2>1 DEF Fields, WellFormed, Outs, Owed, Object, Call, Null, Gain
  <2> HIDE DEF b
  <2>5. Gains(-1, 0)
    BY <1>3, <2>2
  <2>6. Balanced(a, b)
    BY <2>3, <2>4, <2>5 DEF Balanced
  <2> QED BY <2>6 DEF b
<1>12. CASE a.stage = "query" /\ ~ ok
  <2>1. b = Fields(a.call, (IF a.k + 1 < MaxQueries THEN "query" ELSE "release_instance"), a.ok, a.out, a.outs, a.k + 1)
    BY <1>1, <1>12 DEF AfterCall, AfterQuery, AfterQueries, Fields
  <2>2. UNCHANGED references
    BY <1>12 DEF Counts
  <2>3. b \in Record /\ (b.stage # "done" => WellFormed(b))
    <3> HIDE DEF b
    <3> QED BY <1>1, <1>12, <2>1 DEF Record, Fields, WellFormed, Stage, Object, Call, Null
  <2>4. Gain(a, b)["factory"] = 0 /\ Gain(a, b)["instance"] = 0
    <3> HIDE DEF b
    <3> QED BY <1>1, <1>12, <2>1 DEF Fields, WellFormed, Outs, Owed, Object, Call, Null, Gain
  <2> HIDE DEF b
  <2>5. Gains(0, 0)
    BY <1>3, <2>2
  <2>6. Balanced(a, b)
    BY <2>3, <2>4, <2>5 DEF Balanced
  <2> QED BY <2>6 DEF b
<1>13. CASE a.stage = "query" /\ ok
  <2>1. b = Fields(a.call, (IF a.k + 1 < MaxQueries THEN "query" ELSE "release_instance"), a.ok, a.out, a.outs + 1, a.k + 1)
    BY <1>1, <1>13 DEF AfterCall, AfterQuery, AfterQueries, Fields
  <2>2. Referenced("instance", 1)
    BY <1>13 DEF Counts
  <2>3. b \in Record /\ (b.stage # "done" => WellFormed(b))
    <3> HIDE DEF b
    <3> QED BY <1>1, <1>13, <2>1 DEF Record, Fields, WellFormed, Stage, Object, Call, Null
  <2>4. Gain(a, b)["factory"] = 0 /\ Gain(a, b)["instance"] = 1
    <3> HIDE DEF b
    <3> QED BY <1>1, <1>13, <2>1 DEF Fields, WellFormed, Outs, Owed, Object, Call, Null, Gain
  <2> HIDE DEF b
  <2>5. Gains(0, 1)
    BY <1>3, <2>2
  <2>6. Balanced(a, b)
    BY <2>3, <2>4, <2>5 DEF Balanced
  <2> QED BY <2>6 DEF b
<1>14. CASE a.stage = "release_instance"
  <2>1. b = Fields(a.call, "done", a.ok, a.out, a.outs, a.k)
    BY <1>1, <1>14 DEF AfterCall, Fields
  <2>2. Referenced("instance", -1)
    BY <1>14 DEF Counts
  <2>3. b \in Record /\ (b.stage # "done" => WellFormed(b))
    <3> HIDE DEF b
    <3> QED BY <1>1, <1>14, <2>1 DEF Record, Fields, WellFormed, Stage, Object, Call, Null
  <2>4. Gain(a, b)["factory"] = 0 /\ Gain(a, b)["instance"] = -1
    <3> HIDE DEF b
    <3> QED BY <1>1, <1>14, <2>1 DEF Fields, WellFormed, Outs, Owed, Object, Call, Null, Gain
  <2> HIDE DEF b
  <2>5. Gains(0, -1)
    BY <1>3, <2>2
  <2>6. Balanced(a, b)
    BY <2>3, <2>4, <2>5 DEF Balanced
  <2> QED BY <2>6 DEF b
<1> HIDE DEF b
<1> QED BY <1>1, <1>4, <1>5, <1>6, <1>7, <1>8, <1>9, <1>10, <1>11, <1>12, <1>13, <1>14 DEF Stage, Call

-----------------------------------------------------------------------------
(* The invariant, and what a step of one thread does to it.                *)

Serving == \A t \in Thread : Serves(stack[t], activation)
LibInv == Stacks /\ Tables /\ Serving /\ Records /\ Balance

\* What is known of the stack a thread steps from.
LEMMA StackIs ==
    ASSUME LibInv, NEW t \in Thread
    PROVE  /\ Whole(stack[t], activation) /\ stack[t] \in Seq(LoadFrame)
           /\ stack[t] # << >> => /\ Top(t) = stack[t][Len(stack[t])] /\ Top(t) \in LoadFrame
                                  /\ Len(stack[t]) \in Nat \ {0}
<1>1. Whole(stack[t], activation) /\ stack[t] \in Seq(LoadFrame)
  BY DEF LibInv, Stacks, Serving, Whole
<1> QED BY <1>1, Popped DEF Top

\* While the program starts there are loads only.
LEMMA StartingTop ==
    ASSUME NEW s, GoodStack(s), IsStarting(s)
    PROVE  LET f == s[Len(s)]
           IN  /\ f.notify = "later"
               /\ \/ f.at = "startup" /\ Len(s) = 1
                  \/ f.at = "dependency" /\ Len(s) # 1
<1>1. s \in Seq(LoadFrame) /\ s # << >> /\ s[1].at = "startup"
  BY DEF GoodStack, IsStarting
<1>2. Len(s) = 1 \/ Len(s) \in 2 .. Len(s)
  <2> DEFINE n == Len(s)
  <2>1. n \in Nat /\ n # 0
    BY <1>1
  <2> HIDE DEF n
  <2>2. n = 1 \/ n \in 2 .. n
    BY <2>1
  <2> QED BY <2>2 DEF n
<1>3. /\ s[1].notify = "later"
      /\ \A i \in 2 .. Len(s) : s[i].at = "dependency" /\ s[i].notify = "later"
  BY <1>1, <1>2 DEF GoodStack
<1>4. CASE Len(s) = 1
  BY <1>1, <1>3, <1>4
<1>5. CASE Len(s) \in 2 .. Len(s)
  BY <1>3, <1>5
<1> QED BY <1>2, <1>4, <1>5

\* A frame on top of a stack.
LEMMA PushFrame ==
    ASSUME NEW s, NEW acts, Whole(s, acts), ~ IsStarting(s), NEW f \in LoadFrame,
           f.at \in {"main", "dependency_main", "server_main", "server", "library", "server_dll"},
           f.at \in {"server_main", "server", "server_dll"} => s # << >> /\ s[Len(s)].at = "activation",
           f.at \in {"server_main", "server_dll"} => acts[s[Len(s)].k].stage = "factory",
           IsLoad(f) => f.notify # "later" /\ \A g \in Loads(s) : g.dll # f.dll
    PROVE  /\ Whole(Append(s, f), acts) /\ ~ IsStarting(Append(s, f))
           /\ Loads(Append(s, f)) = Loads(s) \union (IF IsLoad(f) THEN {f} ELSE {})
           /\ Append(s, f) # << >> /\ Append(s, f)[Len(Append(s, f))] = f
<1>1. s \in Seq(LoadFrame) /\ GoodStack(s) /\ OneLoadEach(s) /\ Serves(s, acts)
  BY DEF Whole, GoodStack
<1>2. /\ Len(Append(s, f)) = Len(s) + 1 /\ Append(s, f)[Len(s) + 1] = f
      /\ Append(s, f)[1] = IF s = << >> THEN f ELSE s[1]
      /\ Append(s, f) # << >>
  BY <1>1
<1>3. s # << >> => s[1].at # "startup"
  BY DEF IsStarting
<1>4. GoodStack(Append(s, f))
  <2>1. s # << >> => Rests(f, s[Len(s)])
    BY DEF Rests
  <2> QED BY <1>1, <1>3, <2>1, GoodPush DEF IsLoad
<1>5. /\ Loads(Append(s, f)) = Loads(s) \union (IF IsLoad(f) THEN {f} ELSE {})
      /\ OneLoadEach(Append(s, f))
  BY <1>1, LoadsPush
<1>6. Serves(Append(s, f), acts)
  BY <1>1, ServesPush
<1>7. ~ IsStarting(Append(s, f))
  BY <1>2, <1>3 DEF IsStarting
<1> QED BY <1>2, <1>4, <1>5, <1>6, <1>7 DEF Whole

\* The frame of a new activation.
LEMMA PushActivation ==
    ASSUME NEW s, NEW acts \in Seq(Record), Whole(s, acts), ~ IsStarting(s), NEW a \in Record,
           a.stage = "factory", NEW f \in LoadFrame, f.at = "activation", f.k = Len(acts) + 1
    PROVE  /\ Whole(Append(s, f), Append(acts, a)) /\ ~ IsStarting(Append(s, f))
           /\ Loads(Append(s, f)) = Loads(s)
           /\ Append(s, f) # << >> /\ Append(s, f)[Len(Append(s, f))] = f
<1>1. s \in Seq(LoadFrame) /\ GoodStack(s) /\ OneLoadEach(s) /\ Serves(s, acts)
  BY DEF Whole, GoodStack
<1>2. /\ Len(Append(s, f)) = Len(s) + 1 /\ Append(s, f)[Len(s) + 1] = f
      /\ Append(s, f)[1] = IF s = << >> THEN f ELSE s[1]
      /\ Append(s, f) # << >>
  BY <1>1
<1>3. s # << >> => s[1].at # "startup"
  BY DEF IsStarting
<1>4. ~ IsLoad(f)
  BY DEF IsLoad, LoadingFrames
<1>5. GoodStack(Append(s, f))
  <2>1. s # << >> => Rests(f, s[Len(s)])
    BY DEF Rests
  <2> QED BY <1>1, <1>3, <1>4, <2>1, GoodPush DEF IsLoad
<1>6. Loads(Append(s, f)) = Loads(s) /\ OneLoadEach(Append(s, f))
  BY <1>1, <1>4, LoadsPush
<1>7. Serves(Append(s, f), Append(acts, a))
  BY <1>1, ServesNew
<1>8. ~ IsStarting(Append(s, f))
  BY <1>2, <1>3 DEF IsStarting
<1> QED BY <1>2, <1>5, <1>6, <1>7, <1>8 DEF Whole

\* The top frame gone.
LEMMA PopFrame ==
    ASSUME NEW s, NEW acts, Whole(s, acts), s # << >>
    PROVE  /\ Whole(Front(s), acts) /\ (IsStarting(Front(s)) => IsStarting(s))
           /\ Front(s) \in Seq(LoadFrame)
           /\ Loads(Front(s)) = Loads(s) \ {s[Len(s)]}
           /\ ~ IsLoad(s[Len(s)]) => Loads(Front(s)) = Loads(s)
           /\ IsLoad(s[Len(s)]) => /\ s[Len(s)] \in Loads(s)
                                   /\ \A g \in Loads(s) : g.dll = s[Len(s)].dll => g = s[Len(s)]
<1>1. s \in Seq(LoadFrame) /\ GoodStack(s) /\ OneLoadEach(s) /\ Serves(s, acts)
  BY DEF Whole, GoodStack
<1>2. GoodStack(Front(s)) /\ Serves(Front(s), acts)
  BY <1>1, GoodPop, ServesPop
<1>3. /\ Loads(Front(s)) = Loads(s) \ {s[Len(s)]} /\ OneLoadEach(Front(s))
      /\ IsLoad(s[Len(s)]) => /\ s[Len(s)] \in Loads(s)
                              /\ \A g \in Loads(s) : g.dll = s[Len(s)].dll => g = s[Len(s)]
  BY <1>1, LoadsPop
<1>4. ~ IsLoad(s[Len(s)]) => s[Len(s)] \notin Loads(s)
  BY DEF Loads
<1>5. IsStarting(Front(s)) => IsStarting(s)
  <2>1. /\ Front(s) \in Seq(LoadFrame) /\ Len(Front(s)) = Len(s) - 1 /\ Len(s) \in Nat
        /\ \A i \in 1 .. Len(s) - 1 : Front(s)[i] = s[i]
    BY <1>1, Popped
  <2>2. Front(s) # << >> => 1 \in 1 .. Len(s) - 1
    BY <2>1
  <2> QED BY <2>1, <2>2 DEF IsStarting
<1>6. Front(s) \in Seq(LoadFrame)
  BY <1>2 DEF GoodStack
<1> QED BY <1>2, <1>3, <1>4, <1>5, <1>6 DEF Whole

\* A thread that has the handlers to itself changes its stack to s.
LEMMA ThreadSteps ==
    ASSUME LibInv, NEW t \in Thread, Turn(t), NEW s, Whole(s, activation'),
           stack' = [stack EXCEPT ![t] = s],
           unpatched' # {} => s # << >> /\ IsLoad(s[Len(s)])
    PROVE  /\ Stacks' /\ Serving'
           /\ Lds = Loads(stack[t]) /\ Lds' = Loads(s)
           /\ Starting <=> IsStarting(stack[t])
           /\ Starting' <=> IsStarting(s)
<1>1. Stacks /\ GoodStack(s) /\ OneLoadEach(s)
  BY DEF LibInv, Whole
<1>2. /\ Stacks' /\ stack'[t] = s
      /\ Lds = Loads(stack[t]) /\ Lds' = Loads(s)
      /\ Starting <=> IsStarting(stack[t])
      /\ Starting' <=> IsStarting(s)
  BY <1>1, StackStep
<1>3. ASSUME NEW u \in Thread \ {t} PROVE Serves(stack'[u], activation')
  <2>1. stack[u] \in Seq(LoadFrame) /\ stack'[u] = stack[u]
    BY DEF LibInv, Stacks
  <2>2. DOMAIN stack[u] = 1 .. Len(stack[u]) /\ Len(stack[u]) \in Nat
    BY <2>1
  <2>3. \A i \in 1 .. Len(stack[u]) : stack[u][i].at = "main"
    BY <2>2 DEF Turn, InHandler
  <2>4. \A i \in 2 .. Len(stack[u]) : i - 1 \in 1 .. Len(stack[u])
    BY <2>2
  <2> QED BY <2>1, <2>3, <2>4 DEF Serves
<1>4. Serving'
  BY <1>2, <1>3 DEF Serving, Whole
<1> QED BY <1>2, <1>4

\* Without a DllMain that starts there is nothing to ask.
LEMMA NoneAttaches ==
    ASSUME Tables, UNCHANGED attaches
    PROVE  Ready
<1>1. \A d \in Dll : attaches[d] \in Nat
  BY DEF Tables, AttachedOnce
<1> QED BY <1>1 DEF Ready, Attaches

\* The loader leaves the accounts alone.
LEMMA AccountsStay ==
    ASSUME Records, Balance, UNCHANGED comVars
    PROVE  Records' /\ Balance'
BY DEF Records, Balance, Debts, comVars

\* A step with nothing to patch that neither loads nor attaches.
LEMMA QuietStep ==
    ASSUME LibInv, NEW t \in Thread, Turn(t), NEW s, Whole(s, activation'),
           stack' = [stack EXCEPT ![t] = s], Loads(s) = Loads(stack[t]), ~ IsStarting(s),
           unpatched = {}, UNCHANGED <<base, slot, unpatched, attaches, pending>>,
           dllMain' \in [Dll -> {"no", "running", "true", "false"}],
           \A d \in Dll : dllMain[d] # "no" => dllMain'[d] # "no",
           activation' = << >> => activation = << >>
    PROVE  Stacks' /\ Tables' /\ Serving' /\ Ready
<1>1. Stacks' /\ Serving' /\ Lds' = Lds /\ ~ Starting'
  <2>1. unpatched' # {} => s # << >> /\ IsLoad(s[Len(s)])
    OBVIOUS
  <2>2. /\ Stacks' /\ Serving'
        /\ Lds = Loads(stack[t]) /\ Lds' = Loads(s)
        /\ Starting' <=> IsStarting(s)
    BY <2>1, ThreadSteps
  <2> QED BY <2>2
<1>2. Tables'
  BY <1>1, TablesStay DEF LibInv
<1>3. Ready
  BY NoneAttaches DEF LibInv
<1> QED BY <1>1, <1>2, <1>3

\* A step that maps a DLL and begins to load it.
LEMMA MappingStep ==
    ASSUME LibInv, NEW t \in Thread, Turn(t), NEW s, Whole(s, activation'),
           stack' = [stack EXCEPT ![t] = s], NEW d \in Dll \ Loaded, Map(d),
           NEW f \in LoadFrame, IsLoad(f), f.dll = d, f.k = 1,
           Loads(s) = Loads(stack[t]) \union {f}, s # << >>, s[Len(s)] = f,
           UNCHANGED <<unpatched, dllMain, attaches, pending>>,
           activation' = << >> => activation = << >> /\ f.notify # "no",
           IsStarting(s) => IsStarting(stack[t]) /\ CanLoad(d, FALSE) /\ UNCHANGED <<searched, notFound>>
    PROVE  Stacks' /\ Tables' /\ Serving' /\ Ready
<1>1. /\ Stacks' /\ Serving' /\ Lds' = Lds \union {f}
      /\ Starting' => Starting /\ IsStarting(s)
  BY ThreadSteps
<1>2. Tables'
  BY <1>1, TablesMapped DEF LibInv
<1>3. Ready
  BY NoneAttaches DEF LibInv
<1> QED BY <1>1, <1>2, <1>3

\* A DLL that is not in the tables is not being loaded.
LEMMA NotInLoad ==
    ASSUME LibInv, NEW t \in Thread, NEW d \in Dll \ Loaded
    PROVE  \A g \in Loads(stack[t]) : g.dll # d
BY DEF LibInv, Tables, AttachedOnce, Half, Lds

\* Guest code is on top: nothing waits to be patched, the program has started.
LEMMA GuestRuns ==
    ASSUME LibInv, NEW t \in Thread, Turn(t), stack[t] # << >> => ~ IsLoad(Top(t))
    PROVE  /\ unpatched = {} /\ ~ IsStarting(stack[t])
           /\ PatchIats => UNCHANGED <<slot, unpatched>>
<1>1. unpatched = {}
  BY StackIs, AllPatched DEF LibInv
<1>2. ~ IsStarting(stack[t])
  <2> SUFFICES ASSUME IsStarting(stack[t]) PROVE FALSE
    OBVIOUS
  <2>1. stack[t] # << >> /\ GoodStack(stack[t]) /\ Top(t) = stack[t][Len(stack[t])]
    BY StackIs DEF IsStarting, Whole
  <2> QED BY <2>1, StartingTop DEF IsLoad, LoadingFrames
<1> QED BY <1>1, <1>2, NothingToPatch DEF LibInv, Tables

-----------------------------------------------------------------------------
(* The operations.                                                         *)

\* LoadLibrary of a DLL that is loaded.
LEMMA LoadKnownStep ==
    ASSUME LibInv, NEW t \in Thread, NEW d, NEW byPath, LoadKnown(t, d, byPath), UNCHANGED comVars
    PROVE  LibInv' /\ Ready
<1>1. stack[t] # << >> => ~ IsLoad(Top(t))
  BY DEF LoadKnown, AtGuest, IsLoad, GuestFrames, LoadingFrames
<1>2. Turn(t) /\ PatchIats /\ UNCHANGED <<base, dllMain, attaches, pending, stack>>
  BY DEF LoadKnown
<1>3. unpatched = {} /\ ~ IsStarting(stack[t]) /\ UNCHANGED <<slot, unpatched>>
  BY <1>1, <1>2, GuestRuns
<1>4. Whole(stack[t], activation') /\ stack' = [stack EXCEPT ![t] = stack[t]]
  BY <1>2, StackIs DEF LibInv, Stacks, comVars
<1>5. dllMain' \in [Dll -> {"no", "running", "true", "false"}] /\ activation' = activation
  BY <1>2 DEF LibInv, Tables, AttachedOnce, comVars
<1>6. Stacks' /\ Tables' /\ Serving' /\ Ready
  BY <1>2, <1>3, <1>4, <1>5, QuietStep
<1> QED BY <1>6, AccountsStay DEF LibInv

\* LoadLibrary of a DLL that cannot be loaded.
LEMMA LoadMissingStep ==
    ASSUME LibInv, NEW t \in Thread, NEW d, NEW byPath, LoadMissing(t, d, byPath), UNCHANGED comVars
    PROVE  LibInv' /\ Ready
<1>1. stack[t] # << >> => ~ IsLoad(Top(t))
  BY DEF LoadMissing, AtGuest, IsLoad, GuestFrames, LoadingFrames
<1>2. Turn(t) /\ UNCHANGED <<base, slot, unpatched, dllMain, attaches, pending, stack>>
  BY DEF LoadMissing
<1>3. unpatched = {} /\ ~ IsStarting(stack[t])
  BY <1>1, <1>2, GuestRuns
<1>4. Whole(stack[t], activation') /\ stack' = [stack EXCEPT ![t] = stack[t]]
  BY <1>2, StackIs DEF LibInv, Stacks, comVars
<1>5. dllMain' \in [Dll -> {"no", "running", "true", "false"}] /\ activation' = activation
  BY <1>2 DEF LibInv, Tables, AttachedOnce, comVars
<1>6. Stacks' /\ Tables' /\ Serving' /\ Ready
  BY <1>2, <1>3, <1>4, <1>5, QuietStep
<1> QED BY <1>6, AccountsStay DEF LibInv

\* LoadLibrary maps a DLL and begins its load.
LEMMA LoadNewStep ==
    ASSUME LibInv, NEW t \in Thread, NEW d \in Dll, NEW byPath, LoadNew(t, d, byPath), UNCHANGED comVars
    PROVE  LibInv' /\ Ready
<1> DEFINE f == Frame("library", d, 1, "now")   s == Append(stack[t], f)
<1>1. stack[t] # << >> => ~ IsLoad(Top(t))
  BY DEF LoadNew, AtGuest, IsLoad, GuestFrames, LoadingFrames
<1>2. /\ Turn(t) /\ d \in Dll \ Loaded /\ Map(d) /\ stack' = [stack EXCEPT ![t] = s]
      /\ UNCHANGED <<unpatched, dllMain, attaches, pending>>
  BY DEF LoadNew, IsLoaded, Stacked
<1>3. unpatched = {} /\ ~ IsStarting(stack[t])
  BY <1>1, <1>2, GuestRuns
<1>4. /\ f \in LoadFrame /\ f.at = "library" /\ f.dll = d /\ f.k = 1 /\ f.notify = "now" /\ IsLoad(f)
  BY FrameIs DEF FrameKinds, IsLoad, LoadingFrames
<1>5. Whole(stack[t], activation') /\ activation' = activation
  BY StackIs DEF comVars
<1>6. \A g \in Loads(stack[t]) : g.dll # d
  BY <1>2, NotInLoad
<1> HIDE DEF f
<1>7. /\ Whole(s, activation') /\ ~ IsStarting(s) /\ Loads(s) = Loads(stack[t]) \union {f}
      /\ s # << >> /\ s[Len(s)] = f
  BY <1>3, <1>4, <1>5, <1>6, PushFrame
<1> HIDE DEF s
<1>8. Stacks' /\ Tables' /\ Serving' /\ Ready
  BY <1>2, <1>4, <1>5, <1>7, MappingStep
<1> QED BY <1>8, AccountsStay DEF LibInv

\* What is on top of the stack of a thread that loads.
LEMMA LoadIs ==
    ASSUME LibInv, NEW t \in Thread, Loading(t)
    PROVE  LET s == stack[t]   f == Top(t)
           IN  /\ Turn(t) /\ s # << >> /\ s \in Seq(LoadFrame) /\ f \in LoadFrame /\ f = s[Len(s)]
               /\ IsLoad(f) /\ f \in Loads(s) /\ Lds = Loads(s) /\ Len(s) \in Nat \ {0}
               /\ Whole(s, activation) /\ GoodStack(s) /\ OneLoadEach(s)
               /\ Starting <=> IsStarting(s)
               /\ \A g \in Lds : g.dll = f.dll => g = f
               /\ f.k \in Nat \ {0} /\ f.dll \in Dll \union {Program}
<1> DEFINE s == stack[t]   f == Top(t)
<1>1. Turn(t) /\ s # << >> /\ IsLoad(f)
  BY DEF Loading, IsLoad
<1>2. Whole(s, activation) /\ s \in Seq(LoadFrame) /\ f = s[Len(s)] /\ f \in LoadFrame /\ Len(s) \in Nat \ {0}
  BY <1>1, StackIs
<1>3. Stacks /\ GoodStack(s) /\ OneLoadEach(s)
  BY <1>2 DEF LibInv, Whole
<1>4. f \in Loads(s) /\ \A g \in Loads(s) : g.dll = f.dll => g = f
  BY <1>1, <1>2, PopFrame
<1>5. Lds = Loads(s) /\ (Starting <=> IsStarting(s))
  <2>1. \A u \in Thread \ {t} : Loads(stack[u]) = {} /\ ~ IsStarting(stack[u])
    <3> SUFFICES ASSUME NEW u \in Thread \ {t} PROVE Loads(stack[u]) = {} /\ ~ IsStarting(stack[u])
      OBVIOUS
    <3>1. stack[u] \in Seq(LoadFrame)
      BY <1>3 DEF Stacks
    <3>2. DOMAIN stack[u] = 1 .. Len(stack[u])
      BY <3>1
    <3>3. ~ Inside(stack[u])
      BY <1>1, <3>2 DEF Turn, InHandler, Inside
    <3> QED BY <3>1, <3>3, NobodyInside
  <2> QED BY <2>1 DEF Lds, Starting
<1>6. f.k \in Nat \ {0} /\ f.dll \in Dll \union {Program}
  BY <1>1, <1>2 DEF IsLoad, LoadFrame
<1> QED BY <1>1, <1>2, <1>3, <1>4, <1>5, <1>6

\* An import that is on disk is mapped and its load goes on top.
LEMMA LoadImportStep ==
    ASSUME LibInv, NEW t \in Thread, LoadImport(t), UNCHANGED comVars
    PROVE  LibInv' /\ Ready
<1> DEFINE e == Top(t)   m == Import(e)   f == Frame("dependency", m, 1, e.notify)
           s == Append(stack[t], f)
<1>1. /\ Loading(t) /\ HasImport(e) /\ m \notin Loaded /\ CanLoad(m, FALSE) /\ Map(m)
      /\ stack' = [stack EXCEPT ![t] = s]
      /\ UNCHANGED <<unpatched, notFound, searched, dllMain, attaches, pending>>
  BY DEF LoadImport, Stacked
<1>2. /\ Turn(t) /\ stack[t] # << >> /\ stack[t] \in Seq(LoadFrame) /\ e \in LoadFrame /\ e = stack[t][Len(stack[t])]
      /\ e \in Loads(stack[t]) /\ Lds = Loads(stack[t]) /\ IsLoad(e)
      /\ Whole(stack[t], activation) /\ GoodStack(stack[t]) /\ OneLoadEach(stack[t])
      /\ e.k \in Nat \ {0} /\ e.dll \in Dll \union {Program}
  BY <1>1, LoadIs
<1>3. m \in Range(Imports[e.dll]) /\ m \in Dll
  <2>1. Imports[e.dll] \in Seq(Dll)
    BY <1>2, LoaderAssumption
  <2>2. e.k \in 1 .. Len(Imports[e.dll])
    BY <1>1, <1>2, <2>1 DEF HasImport
  <2> QED BY <2>1, <2>2 DEF Import, Range
<1>4. activation' = activation /\ (activation = << >> => e.notify # "no")
  BY <1>2 DEF comVars, LibInv, Tables, ImportsFirst
<1> HIDE DEF m, e
<1>5. f \in LoadFrame /\ GoodStack(s)
  BY <1>2, <1>3, GoodDependency DEF IsLoad
<1>6. /\ f.at = "dependency" /\ f.dll = m /\ f.k = 1 /\ f.notify = e.notify /\ IsLoad(f)
  BY DEF Frame, IsLoad, LoadingFrames
<1> HIDE DEF f
<1>7. \A g \in Loads(stack[t]) : g.dll # f.dll
  BY <1>1, <1>3, <1>6, NotInLoad
<1>8. Loads(s) = Loads(stack[t]) \union {f} /\ OneLoadEach(s)
  BY <1>2, <1>5, <1>6, <1>7, LoadsPush
<1>9. Serves(s, activation')
  BY <1>2, <1>4, <1>5, <1>6, ServesPush DEF Whole
<1>10. s # << >> /\ s[Len(s)] = f /\ (IsStarting(s) => IsStarting(stack[t]))
  BY <1>2, <1>5 DEF IsStarting
<1>11. Whole(s, activation')
  BY <1>5, <1>8, <1>9 DEF Whole
<1> HIDE DEF s
<1>12. Stacks' /\ Tables' /\ Serving' /\ Ready
  BY <1>1, <1>2, <1>3, <1>4, <1>5, <1>6, <1>8, <1>10, <1>11, MappingStep
<1> QED BY <1>12, AccountsStay DEF LibInv

\* An import that is loaded, or cannot be, is linked.
LEMMA LinkImportStep ==
    ASSUME LibInv, NEW t \in Thread, LinkImport(t), UNCHANGED comVars
    PROVE  LibInv' /\ Ready
<1> DEFINE f == Top(t)   m == Import(f)   s == Advanced(stack[t])
<1>1. /\ Loading(t) /\ HasImport(f) /\ ~ (m \notin Loaded /\ CanLoad(m, FALSE))
      /\ slot' = Linked(f.dll, m) /\ unpatched' = unpatched \union {<<f.dll, m>>}
      /\ notFound \subseteq notFound'
      /\ stack' = [stack EXCEPT ![t] = s]
      /\ UNCHANGED <<base, searched, dllMain, attaches, pending>>
  BY DEF LinkImport, Stacked
<1>2. /\ Turn(t) /\ stack[t] # << >> /\ stack[t] \in Seq(LoadFrame) /\ f \in LoadFrame /\ f = stack[t][Len(stack[t])]
      /\ f \in Loads(stack[t]) /\ Lds = Loads(stack[t]) /\ IsLoad(f)
      /\ Whole(stack[t], activation) /\ GoodStack(stack[t]) /\ OneLoadEach(stack[t])
  BY <1>1, LoadIs
<1> HIDE DEF m, f
<1>3. PICK g \in LoadFrame :
        /\ Loads(s) = (Loads(stack[t]) \ {f}) \union {g}
        /\ g = s[Len(s)] /\ IsLoad(g) /\ g.dll = f.dll /\ g.notify = f.notify /\ g.k = f.k + 1
  BY <1>2, LoadsAdvance
<1>4. OneLoadEach(s) /\ s \in Seq(LoadFrame) /\ s # << >>
  BY <1>2, LoadsAdvance
<1>5. GoodStack(s) /\ Serves(s, activation)
  BY <1>2, GoodAdvance, ServesAdvance DEF IsLoad, Whole
<1>6. IsStarting(s) => IsStarting(stack[t])
  <2>1. /\ Len(s) = Len(stack[t]) /\ Len(s) \in Nat \ {0}
        /\ \A i \in 1 .. Len(stack[t]) - 1 : s[i] = stack[t][i]
        /\ s[Len(stack[t])].at = stack[t][Len(stack[t])].at
    <3>1. Len(stack[t]) \in Nat \ {0}
      BY <1>2, Popped
    <3> QED BY <1>2, <3>1, AdvancedIs DEF IsLoad
  <2> DEFINE n == Len(stack[t])
  <2>2. n \in Nat \ {0}
    BY <2>1
  <2> HIDE DEF n
  <2>3. 1 \in 1 .. n - 1 \/ 1 = n
    BY <2>2
  <2>4. s[1].at = stack[t][1].at
    BY <2>1, <2>3 DEF n
  <2> QED BY <1>2, <2>4 DEF IsStarting
<1>7. Whole(s, activation') /\ activation' = activation
  BY <1>4, <1>5 DEF Whole, comVars
<1> HIDE DEF s
<1>8. /\ Stacks' /\ Serving' /\ Lds' = (Lds \ {f}) \union {g}
      /\ Starting' => Starting
  BY <1>1, <1>2, <1>3, <1>4, <1>6, <1>7, ThreadSteps
<1>9. Tables'
  BY <1>1, <1>2, <1>3, <1>7, <1>8, TablesLinked DEF LibInv, m
<1>10. Ready
  BY <1>1, NoneAttaches DEF LibInv
<1> QED BY <1>8, <1>9, <1>10, AccountsStay DEF LibInv

\* What is left when a load ends.
LEMMA LoadGone ==
    ASSUME LibInv, NEW t \in Thread, Loading(t)
    PROVE  LET s == stack[t]   q == Front(stack[t])
           IN  /\ Whole(q, activation) /\ q \in Seq(LoadFrame)
               /\ Loads(q) = Loads(s) \ {Top(t)} /\ Len(q) = Len(s) - 1
               /\ \A i \in 1 .. Len(q) : q[i] = s[i]
               /\ IsStarting(q) => IsStarting(s)
               /\ Len(s) # 1 => q # << >> /\ q[Len(q)] = s[Len(s) - 1] /\ Rests(Top(t), q[Len(q)])
               /\ Len(s) = 1 => q = << >> /\ Top(t) = s[1]
<1> DEFINE s == stack[t]   q == Front(stack[t])   n == Len(stack[t])
<1>1. /\ s # << >> /\ s \in Seq(LoadFrame) /\ Top(t) = s[Len(s)] /\ n \in Nat \ {0}
      /\ Whole(s, activation) /\ GoodStack(s)
  BY LoadIs
<1>2. /\ Whole(q, activation) /\ (IsStarting(q) => IsStarting(s)) /\ q \in Seq(LoadFrame)
      /\ Loads(q) = Loads(s) \ {Top(t)}
  BY <1>1, PopFrame
<1>3. Len(q) = n - 1 /\ \A i \in 1 .. n - 1 : q[i] = s[i]
  BY <1>1, Popped
<1> HIDE DEF q
<1>4. ASSUME n # 1 PROVE q # << >> /\ q[Len(q)] = s[Len(s) - 1] /\ Rests(Top(t), q[Len(q)])
  <2>1. n - 1 \in 1 .. n - 1 /\ n \in 2 .. n
    <3> HIDE DEF n
    <3> QED BY <1>1, <1>4
  <2>2. q # << >> /\ q[Len(q)] = s[Len(s) - 1]
    BY <1>3, <2>1
  <2>3. Rests(s[n], s[n - 1])
    BY <1>1, <2>1 DEF GoodStack
  <2> QED BY <1>1, <2>2, <2>3
<1>5. n = 1 => q = << >> /\ Top(t) = s[1]
  BY <1>1, <1>2, <1>3
<1> QED BY <1>2, <1>3, <1>4, <1>5 DEF q

\* Loads that end are not started again: a dependency rests on another load.
LEMMA UnderDependency ==
    ASSUME LibInv, NEW t \in Thread, Loading(t), Top(t).at = "dependency"
    PROVE  LET q == Front(stack[t]) IN q # << >> /\ IsLoad(q[Len(q)])
<1>1. stack[t] # << >> /\ stack[t] \in Seq(LoadFrame) /\ Top(t) = stack[t][Len(stack[t])] /\ GoodStack(stack[t])
      /\ Len(stack[t]) \in Nat \ {0}
  BY LoadIs
<1>2. Len(stack[t]) # 1
  BY <1>1 DEF GoodStack
<1> QED BY <1>2, LoadGone DEF Rests, IsLoad

\* A load ends as the handler is left, or as the next goes on.
LEMMA EndStep ==
    ASSUME LibInv, NEW t \in Thread, Loading(t), ~ HasImport(Top(t)), Patching,
           Top(t).notify = "no" \/ Top(t).dll \notin HasEntry,
           NEW s, Whole(s, activation'), stack' = [stack EXCEPT ![t] = s],
           Loads(s) = Loads(stack[t]) \ {Top(t)}, IsStarting(s) => IsStarting(stack[t]),
           unpatched' # {} => s # << >> /\ IsLoad(s[Len(s)]),
           UNCHANGED <<base, searched, notFound, dllMain, attaches, pending>>, UNCHANGED comVars
    PROVE  LibInv' /\ Ready
<1>1. Turn(t) /\ Top(t) \in LoadFrame /\ Top(t) \in Lds
  BY LoadIs
<1>2. /\ Stacks' /\ Serving' /\ Lds' = Lds \ {Top(t)}
      /\ Starting' => Starting
  BY <1>1, ThreadSteps
<1>3. activation' = activation
  BY DEF comVars
<1>4. Tables'
  BY <1>1, <1>2, <1>3, LoadEnds DEF LibInv
<1>5. Ready
  BY NoneAttaches DEF LibInv
<1> QED BY <1>2, <1>4, <1>5, AccountsStay DEF LibInv

\* A load ends and the DllMain begins.
LEMMA AttachStep ==
    ASSUME LibInv, NEW t \in Thread, Loading(t), ~ HasImport(Top(t)), PatchIats,
           Top(t).dll \in Dll, Attach(Top(t).dll),
           NEW s, Whole(s, activation'), stack' = [stack EXCEPT ![t] = s],
           Loads(s) = Loads(stack[t]) \ {Top(t)}, ~ IsStarting(s),
           UNCHANGED <<base, pending>>, UNCHANGED comVars
    PROVE  LibInv' /\ Ready
<1>1. Turn(t) /\ Top(t) \in LoadFrame /\ Top(t) \in Lds /\ \A g \in Lds : g.dll = Top(t).dll => g = Top(t)
  BY LoadIs
<1>2. unpatched' = {}
  BY DEF PatchIats
<1>3. Stacks' /\ Serving' /\ Lds' = Lds \ {Top(t)} /\ ~ Starting'
  BY <1>1, <1>2, ThreadSteps
<1>4. activation' = activation /\ Patching
  BY DEF comVars, Patching
<1>5. Tables' /\ Ready
  BY <1>1, <1>3, <1>4, LoadAttaches DEF LibInv
<1> QED BY <1>3, <1>5, AccountsStay DEF LibInv

\* A dependency's load ends: its DllMain runs, is deferred, or there is none.
LEMMA FinishDependencyStep ==
    ASSUME LibInv, NEW t \in Thread, FinishDependency(t), UNCHANGED comVars
    PROVE  LibInv' /\ Ready
<1> DEFINE f == Top(t)   q == Front(stack[t])
<1>1. /\ Loading(t) /\ f.at = "dependency" /\ ~ HasImport(f)
      /\ UNCHANGED <<base, notFound, searched>>
  BY DEF FinishDependency
<1>2. /\ Turn(t) /\ stack[t] # << >> /\ f \in LoadFrame /\ f = stack[t][Len(stack[t])] /\ GoodStack(stack[t])
      /\ f \in Lds /\ Lds = Loads(stack[t]) /\ f.dll \in Dll /\ \A g \in Lds : g.dll = f.dll => g = f
  <2>1. f.at = "dependency" /\ f \in LoadFrame => f.dll \in Dll
    BY DEF LoadFrame
  <2> QED BY <1>1, <2>1, LoadIs
<1>3. Starting <=> IsStarting(stack[t])
  BY <1>1, LoadIs
<1>4. /\ Whole(q, activation) /\ Loads(q) = Loads(stack[t]) \ {f} /\ (IsStarting(q) => IsStarting(stack[t]))
      /\ q \in Seq(LoadFrame) /\ q # << >> /\ IsLoad(q[Len(q)])
  BY <1>1, LoadGone, UnderDependency
<1>5. activation' = activation
  BY DEF comVars
<1>6. f.notify \in {"now", "later", "no"}
  BY <1>2 DEF LoadFrame
<1>7. CASE InvokesDllMain(f) /\ f.notify = "now"
  <2> DEFINE g == Frame("dependency_main", f.dll, 0, "no")   s == Append(q, g)
  <2>1. /\ Attach(f.dll) /\ PatchIats /\ stack' = [stack EXCEPT ![t] = s] /\ UNCHANGED pending
    BY <1>7 DEF FinishDependency, InvokeDependency, Stacked
  <2>2. g \in LoadFrame /\ g.at = "dependency_main" /\ ~ IsLoad(g)
    BY <1>2, FrameIs DEF FrameKinds, GuestFrames, IsLoad, LoadingFrames
  <2>3. ~ IsStarting(q)
    <3>1. f.notify # "later"
      BY <1>7
    <3> QED BY <1>2, <1>4, <3>1, StartingTop
  <2> HIDE DEF g
  <2>4. Whole(s, activation') /\ ~ IsStarting(s) /\ Loads(s) = Loads(stack[t]) \ {f}
    BY <1>4, <1>5, <2>2, <2>3, PushFrame
  <2> HIDE DEF s, f
  <2> QED BY <1>1, <1>2, <2>1, <2>4, AttachStep DEF f
<1>8. CASE ~ InvokesDllMain(f)
  <2>1. /\ stack' = [stack EXCEPT ![t] = q] /\ UNCHANGED <<slot, unpatched, dllMain, attaches, pending>>
    BY <1>8 DEF FinishDependency, Stacked
  <2>2. f.notify = "no" \/ f.dll \notin HasEntry
    BY <1>8 DEF InvokesDllMain
  <2>3. Patching
    BY <2>1 DEF Patching
  <2> HIDE DEF q
  <2> QED BY <1>1, <1>4, <1>5, <2>1, <2>2, <2>3, EndStep
<1>9. CASE InvokesDllMain(f) /\ f.notify # "now"
  <2>1. /\ stack' = [stack EXCEPT ![t] = q] /\ pending' = Append(pending, f.dll)
        /\ UNCHANGED <<slot, unpatched, dllMain, attaches>>
    BY <1>9 DEF FinishDependency, Stacked
  <2>2. f.notify = "later"
    BY <1>6, <1>9 DEF InvokesDllMain
  <2>3. stack[t][1].at = "startup" /\ stack[t] \in Seq(LoadFrame) /\ Len(stack[t]) \in 1 .. Len(stack[t])
    <3>1. stack[t] \in Seq(LoadFrame)
      BY <1>2 DEF GoodStack
    <3>2. Len(stack[t]) \in 1 .. Len(stack[t])
      BY <1>2, <3>1
    <3>3. f.at \in LoadingFrames
      BY <1>1 DEF LoadingFrames
    <3> QED BY <1>2, <2>2, <3>1, <3>2, <3>3 DEF GoodStack
  <2>4. Starting
    BY <1>2, <1>3, <2>3 DEF IsStarting
  <2>5. \A g \in Lds : g.dll # Program => f.dll \in Reaches[g.dll]
    <3> SUFFICES ASSUME NEW j \in 1 .. Len(stack[t]), stack[t][j].dll # Program
                 PROVE  f.dll \in Reaches[stack[t][j].dll]
      BY <1>2 DEF Loads
    <3>1. stack[t][1].dll = Program
      BY <2>3 DEF LoadFrame
    <3> DEFINE n == Len(stack[t])
    <3>2. n \in Nat /\ j \in Nat /\ 1 <= j /\ j <= n /\ j # 1
      BY <2>3, <3>1
    <3>3. n \in 2 .. n /\ j \in 2 .. n
      BY <3>2
    <3>4. \A i \in 2 .. n : \A k \in 2 .. i : stack[t][i].dll \in Reaches[stack[t][k].dll]
      BY <1>2, <2>3, <3>2 DEF GoodStack
    <3> QED BY <1>2, <3>3, <3>4
  <2>6. /\ Stacks' /\ Serving' /\ Lds' = Lds \ {f}
    BY <1>2, <1>4, <1>5, <2>1, ThreadSteps
  <2>7. Tables'
    BY <1>1, <1>2, <1>5, <2>1, <2>4, <2>5, <2>6, LoadWaits DEF LibInv
  <2>8. Ready
    BY <2>1, NoneAttaches DEF LibInv
  <2> QED BY <2>6, <2>7, <2>8, AccountsStay DEF LibInv
<1> QED BY <1>7, <1>8, <1>9

\* A library's load ends.
LEMMA FinishLibraryStep ==
    ASSUME LibInv, NEW t \in Thread, FinishLibrary(t), UNCHANGED comVars
    PROVE  LibInv' /\ Ready
<1> DEFINE f == Top(t)   q == Front(stack[t])
<1>1. /\ Loading(t) /\ f.at = "library" /\ ~ HasImport(f) /\ PatchIats
      /\ UNCHANGED <<base, notFound, searched, pending>>
  BY DEF FinishLibrary
<1>2. /\ f \in LoadFrame /\ f = stack[t][Len(stack[t])] /\ GoodStack(stack[t]) /\ f.dll \in Dll
  <2>1. f.at = "library" /\ f \in LoadFrame => f.dll \in Dll
    BY DEF LoadFrame
  <2> QED BY <1>1, <2>1, LoadIs
<1>3. ~ IsStarting(q)
  <2>1. ~ IsStarting(stack[t])
    BY <1>1, <1>2, StartingTop
  <2> QED BY <1>1, <2>1, LoadGone
<1>4. Whole(q, activation) /\ Loads(q) = Loads(stack[t]) \ {f} /\ activation' = activation
  BY <1>1, LoadGone DEF comVars
<1>5. unpatched' = {} /\ Patching
  BY <1>1 DEF PatchIats, Patching
<1>6. CASE f.dll \in HasEntry
  <2> DEFINE g == Frame("main", f.dll, 0, "no")   s == Append(q, g)
  <2>1. Attach(f.dll) /\ stack' = [stack EXCEPT ![t] = s]
    BY <1>6 DEF FinishLibrary, Stacked
  <2>2. g \in LoadFrame /\ g.at = "main" /\ ~ IsLoad(g)
    BY <1>2, FrameIs DEF FrameKinds, GuestFrames, IsLoad, LoadingFrames
  <2> HIDE DEF g
  <2>3. Whole(s, activation') /\ ~ IsStarting(s) /\ Loads(s) = Loads(stack[t]) \ {f}
    BY <1>3, <1>4, <2>2, PushFrame
  <2> HIDE DEF s
  <2> QED BY <1>1, <1>2, <2>1, <2>3, AttachStep
<1>7. CASE f.dll \notin HasEntry
  <2>1. stack' = [stack EXCEPT ![t] = q] /\ UNCHANGED <<dllMain, attaches>>
    BY <1>7 DEF FinishLibrary, Stacked
  <2> HIDE DEF q
  <2> QED BY <1>1, <1>3, <1>4, <1>5, <1>7, <2>1, EndStep
<1> QED BY <1>6, <1>7

\* The load of a server's DLL ends.
LEMMA FinishServerDllStep ==
    ASSUME LibInv, NEW t \in Thread, FinishServerDll(t)
    PROVE  LibInv' /\ Ready
<1> DEFINE f == Top(t)   q == Front(stack[t])
<1>1. /\ Loading(t) /\ f.at = "server_dll" /\ ~ HasImport(f) /\ PatchIats
      /\ UNCHANGED <<base, notFound, searched, pending>> /\ UNCHANGED comVars
  BY DEF FinishServerDll
<1>2. /\ f \in LoadFrame /\ f = stack[t][Len(stack[t])] /\ GoodStack(stack[t]) /\ f.dll \in Dll
      /\ Len(stack[t]) \in Nat \ {0} /\ Whole(stack[t], activation)
  <2>1. f.at = "server_dll" /\ f \in LoadFrame => f.dll \in Dll
    BY DEF LoadFrame
  <2> QED BY <1>1, <2>1, LoadIs
<1>3. ~ IsStarting(q)
  <2>1. ~ IsStarting(stack[t])
    BY <1>1, <1>2, StartingTop
  <2> QED BY <1>1, <2>1, LoadGone
<1>4. Whole(q, activation) /\ Loads(q) = Loads(stack[t]) \ {f} /\ activation' = activation
  BY <1>1, LoadGone DEF comVars
<1>5. unpatched' = {} /\ Patching
  BY <1>1 DEF PatchIats, Patching
<1>6. CASE f.dll \in HasEntry
  <2> DEFINE g == Frame("server_main", f.dll, 0, "no")   s == Append(q, g)
  <2>1. Attach(f.dll) /\ stack' = [stack EXCEPT ![t] = s]
    BY <1>6 DEF FinishServerDll, Stacked
  <2>2. g \in LoadFrame /\ g.at = "server_main" /\ ~ IsLoad(g)
    BY <1>2, FrameIs DEF FrameKinds, GuestFrames, IsLoad, LoadingFrames
  <2>3. q # << >> /\ q[Len(q)].at = "activation" /\ activation[q[Len(q)].k].stage = "factory"
    <3>1. Len(stack[t]) # 1
      BY <1>1, <1>2 DEF GoodStack
    <3>2. q # << >> /\ q[Len(q)] = stack[t][Len(stack[t]) - 1] /\ Rests(f, q[Len(q)])
      BY <1>1, <3>1, LoadGone
    <3>3. q[Len(q)].at = "activation"
      BY <1>1, <3>2 DEF Rests
    <3>4. Len(stack[t]) \in 2 .. Len(stack[t])
      <4> DEFINE n == Len(stack[t])
      <4>1. n \in Nat \ {0} /\ n # 1
        BY <1>2, <3>1
      <4> HIDE DEF n
      <4>2. n \in 2 .. n
        BY <4>1
      <4> QED BY <4>2 DEF n
    <3>5. activation[stack[t][Len(stack[t]) - 1].k].stage = "factory"
      BY <1>1, <1>2, <3>2, <3>3, <3>4 DEF Whole, Serves
    <3> QED BY <3>2, <3>3, <3>5
  <2> HIDE DEF g
  <2>4. Whole(s, activation') /\ ~ IsStarting(s) /\ Loads(s) = Loads(stack[t]) \ {f}
    BY <1>3, <1>4, <2>2, <2>3, PushFrame
  <2> HIDE DEF s
  <2> QED BY <1>1, <1>2, <2>1, <2>4, AttachStep
<1>7. CASE f.dll \notin HasEntry
  <2>1. stack' = [stack EXCEPT ![t] = q] /\ UNCHANGED <<dllMain, attaches>>
    BY <1>7 DEF FinishServerDll, Stacked
  <2> HIDE DEF q
  <2> QED BY <1>1, <1>3, <1>4, <1>5, <1>7, <2>1, EndStep
<1> QED BY <1>6, <1>7

\* While it starts, or its DllMains run, the program has no other frame below.
LEMMA AtTheBottom ==
    ASSUME NEW s, GoodStack(s), s # << >>, s[Len(s)].at \in {"startup", "pending"}
    PROVE  Len(s) = 1 /\ Front(s) = << >>
<1>1. s \in Seq(LoadFrame) /\ Len(s) \in Nat \ {0}
  BY DEF GoodStack
<1>2. Len(s) = 1
  <2> DEFINE n == Len(s)
  <2> SUFFICES ASSUME n # 1 PROVE FALSE
    OBVIOUS
  <2>1. n \in 2 .. n
    <3>1. n \in Nat \ {0}
      BY <1>1
    <3> HIDE DEF n
    <3> QED BY <3>1
  <2>2. Rests(s[n], s[n - 1])
    BY <2>1 DEF GoodStack
  <2> QED BY <2>2 DEF Rests
<1>3. Front(s) \in Seq(LoadFrame) /\ Len(Front(s)) = 0
  BY <1>1, <1>2, Popped
<1> QED BY <1>2, <1>3

\* A stack without frames.
LEMMA EmptyStack ==
    ASSUME NEW acts
    PROVE  Whole(<< >>, acts) /\ ~ IsStarting(<< >>) /\ Loads(<< >>) = {}
<1>1. << >> \in Seq(LoadFrame) /\ Len(<< >>) = 0 /\ 1 .. 0 = {} /\ 2 .. 0 = {}
  OBVIOUS
<1> QED BY <1>1 DEF Whole, GoodStack, OneLoadEach, Serves, IsStarting, Loads

\* The program's imports are all loaded.
LEMMA FinishStartupStep ==
    ASSUME LibInv, NEW t \in Thread, FinishStartup(t), UNCHANGED comVars
    PROVE  LibInv' /\ Ready
<1> DEFINE f == Top(t)   g == Frame("pending", Program, 0, "no")   s == <<g>>
<1>1. /\ Loading(t) /\ f.at = "startup" /\ ~ HasImport(f) /\ PatchIats
      /\ UNCHANGED <<base, notFound, searched, dllMain, attaches, pending>>
      /\ stack' = [stack EXCEPT ![t] = s]
  BY DEF FinishStartup, Stacked
<1>2. /\ stack[t] # << >> /\ f \in LoadFrame /\ f = stack[t][Len(stack[t])] /\ GoodStack(stack[t])
  BY <1>1, LoadIs
<1>3. f.dll \notin HasEntry
  BY <1>1, <1>2, LoaderAssumption DEF LoadFrame
<1>4. Loads(stack[t]) \ {f} = {}
  <2>1. Front(stack[t]) = << >> /\ Loads(Front(stack[t])) = Loads(stack[t]) \ {f}
    BY <1>1, <1>2, AtTheBottom, LoadGone
  <2> QED BY <2>1, EmptyStack
<1>5. g \in LoadFrame /\ g.at = "pending"
  BY FrameIs DEF FrameKinds, LoadingFrames
<1> HIDE DEF g
<1>6. s \in Seq(LoadFrame) /\ Len(s) = 1 /\ s[1] = g /\ 2 .. 1 = {} /\ \A i \in 1 .. 1 : i = 1
  BY <1>5
<1>7. ~ IsLoad(g)
  BY <1>5 DEF IsLoad, LoadingFrames
<1>8. GoodStack(s)
  BY <1>5, <1>6, <1>7 DEF GoodStack, IsLoad
<1>9. OneLoadEach(s) /\ Loads(s) = {} /\ ~ IsStarting(s)
  BY <1>5, <1>6, <1>7 DEF OneLoadEach, Loads, IsStarting
<1>10. Serves(s, activation')
  BY <1>5, <1>6 DEF Serves
<1>11. unpatched' = {} /\ Patching
  BY <1>1 DEF PatchIats, Patching
<1>12. Whole(s, activation')
  BY <1>8, <1>9, <1>10 DEF Whole
<1> HIDE DEF s
<1> QED BY <1>1, <1>3, <1>4, <1>9, <1>11, <1>12, EndStep

\* The next DllMain of those that waited, or the end of the start-up.
LEMMA RunPendingStep ==
    ASSUME LibInv, NEW t \in Thread, RunPending(t), UNCHANGED comVars
    PROVE  LibInv' /\ Ready
<1>1. /\ stack[t] # << >> /\ Top(t).at = "pending" /\ UNCHANGED base
  BY DEF RunPending
<1>2. /\ Whole(stack[t], activation) /\ stack[t] \in Seq(LoadFrame) /\ GoodStack(stack[t])
      /\ Top(t) = stack[t][Len(stack[t])] /\ Len(stack[t]) \in Nat \ {0}
  BY <1>1, StackIs DEF Whole
<1>3. Turn(t)
  <2>1. Inside(stack[t])
    <3>1. Len(stack[t]) \in 1 .. Len(stack[t])
      BY <1>2
    <3> QED BY <1>1, <1>2, <3>1 DEF Inside
  <2>2. \A u \in Thread : DOMAIN stack[u] = 1 .. Len(stack[u])
    BY DEF LibInv, Stacks
  <2>3. \A u \in Thread \ {t} : ~ Inside(stack[u])
    BY <2>1 DEF LibInv, Stacks
  <2> QED BY <2>2, <2>3 DEF Turn, InHandler, Inside
<1>4. ~ IsLoad(Top(t))
  BY <1>1 DEF IsLoad, LoadingFrames
<1>5. unpatched = {} /\ ~ IsStarting(stack[t]) /\ (PatchIats => UNCHANGED <<slot, unpatched>>)
  BY <1>3, <1>4, GuestRuns
<1>6. activation' = activation
  BY DEF comVars
<1>7. CASE pending = << >>
  <2>1. stack' = [stack EXCEPT ![t] = << >>] /\ UNCHANGED <<slot, unpatched, dllMain, attaches, pending>>
    BY <1>7 DEF RunPending, Stacked
  <2>2. Front(stack[t]) = << >>
    BY <1>1, <1>2, AtTheBottom
  <2>3. Loads(<< >>) = Loads(stack[t])
    <3>1. Loads(Front(stack[t])) = Loads(stack[t])
      BY <1>1, <1>2, <1>4, PopFrame
    <3> QED BY <2>2, <3>1
  <2>4. Whole(<< >>, activation') /\ ~ IsStarting(<< >>)
    BY EmptyStack
  <2>5. dllMain' \in [Dll -> {"no", "running", "true", "false"}]
    BY <2>1 DEF LibInv, Tables, AttachedOnce
  <2>6. Stacks' /\ Tables' /\ Serving' /\ Ready
    BY <1>1, <1>3, <1>5, <1>6, <2>1, <2>3, <2>4, <2>5, QuietStep
  <2> QED BY <2>6, AccountsStay DEF LibInv
<1>8. CASE pending # << >>
  <2> DEFINE d == Head(pending)   f == Frame("dependency_main", d, 0, "no")   s == Append(stack[t], f)
  <2>1. /\ Attach(d) /\ PatchIats /\ pending' = Tail(pending) /\ stack' = [stack EXCEPT ![t] = s]
    BY <1>8 DEF RunPending, Stacked
  <2>2. d \in Dll
    <3>1. pending \in Seq(Dll)
      BY DEF LibInv, Tables, AttachedOnce
    <3> QED BY <1>8, <3>1
  <2>3. f \in LoadFrame /\ f.at = "dependency_main" /\ ~ IsLoad(f)
    BY <2>2, FrameIs DEF FrameKinds, GuestFrames, IsLoad, LoadingFrames
  <2> HIDE DEF f
  <2>4. Whole(s, activation') /\ ~ IsStarting(s) /\ Loads(s) = Loads(stack[t])
    <3>1. Whole(stack[t], activation') /\ ~ IsStarting(stack[t])
      BY <1>2, <1>5, <1>6
    <3> QED BY <2>3, <3>1, PushFrame
  <2> HIDE DEF s
  <2>5. UNCHANGED <<slot, unpatched>> /\ ~ (unpatched' # {})
    BY <1>5, <2>1
  <2>6. Stacks' /\ Serving' /\ Lds' = Lds /\ ~ Starting'
    <3>1. /\ Stacks' /\ Serving'
          /\ Lds = Loads(stack[t]) /\ Lds' = Loads(s)
          /\ Starting' <=> IsStarting(s)
      BY <1>3, <2>1, <2>4, <2>5, ThreadSteps
    <3> QED BY <2>4, <3>1
  <2> HIDE DEF d
  <2>7. Tables' /\ Ready
    BY <1>1, <1>6, <1>8, <2>1, <2>5, <2>6, PendingStarts DEF LibInv, d
  <2> QED BY <2>6, <2>7, AccountsStay DEF LibInv
<1> QED BY <1>7, <1>8

\* A DllMain returns, in a frame of its own.
LEMMA DllMainReturns ==
    ASSUME LibInv, NEW t \in Thread, stack[t] # << >>, Turn(t), Top(t).at \in {"main", "dependency_main"},
           NEW ok \in {"true", "false"},
           dllMain' = [dllMain EXCEPT ![Top(t).dll] = ok], stack' = [stack EXCEPT ![t] = Front(stack[t])],
           UNCHANGED <<base, slot, unpatched, attaches, pending>>, UNCHANGED comVars
    PROVE  LibInv' /\ Ready
<1> DEFINE q == Front(stack[t])
<1>1. Whole(stack[t], activation) /\ Top(t) = stack[t][Len(stack[t])] /\ Top(t) \in LoadFrame
  BY StackIs
<1>2. ~ IsLoad(Top(t))
  BY DEF IsLoad, LoadingFrames
<1>3. unpatched = {} /\ ~ IsStarting(stack[t])
  BY <1>2, GuestRuns
<1>4. activation' = activation
  BY DEF comVars
<1>5. Whole(q, activation') /\ ~ IsStarting(q) /\ Loads(q) = Loads(stack[t])
  BY <1>1, <1>2, <1>3, <1>4, PopFrame
<1>6. /\ dllMain' \in [Dll -> {"no", "running", "true", "false"}]
      /\ \A d \in Dll : dllMain[d] # "no" => dllMain'[d] # "no"
  BY DEF LibInv, Tables, AttachedOnce
<1> HIDE DEF q
<1>7. Stacks' /\ Tables' /\ Serving' /\ Ready
  BY <1>3, <1>4, <1>5, <1>6, QuietStep DEF q
<1> QED BY <1>7, AccountsStay DEF LibInv

\* The DllMain of a dependency returns.
LEMMA DependencyReturnsStep ==
    ASSUME LibInv, NEW t \in Thread, NEW ok \in {"true", "false"}, DependencyReturns(t, ok), UNCHANGED comVars
    PROVE  LibInv' /\ Ready
<1>1. /\ stack[t] # << >> /\ Turn(t) /\ Top(t).at = "dependency_main"
      /\ dllMain' = [dllMain EXCEPT ![Top(t).dll] = ok] /\ stack' = [stack EXCEPT ![t] = Front(stack[t])]
      /\ UNCHANGED <<base, slot, unpatched, attaches, pending>>
  BY DEF DependencyReturns, Stacked
<1> QED BY <1>1, DllMainReturns

\* The DllMain of a library returns.
LEMMA MainReturnsStep ==
    ASSUME LibInv, NEW t \in Thread, NEW ok \in {"true", "false"}, MainReturns(t, ok), UNCHANGED comVars
    PROVE  LibInv' /\ Ready
<1>1. /\ stack[t] # << >> /\ Turn(t) /\ Top(t).at = "main"
      /\ dllMain' = [dllMain EXCEPT ![Top(t).dll] = ok] /\ stack' = [stack EXCEPT ![t] = Front(stack[t])]
      /\ UNCHANGED <<base, slot, unpatched, attaches, pending>>
  BY DEF MainReturns, Stacked
<1> QED BY <1>1, DllMainReturns

-----------------------------------------------------------------------------
(* The activations.                                                        *)

\* The record of a new activation is well formed.
LEMMA NewRecord ==
    ASSUME NEW call \in Call
    PROVE  /\ NewActivation(call) \in Record /\ NewActivation(call).stage = "factory"
           /\ WellFormed(NewActivation(call))
BY DEF NewActivation, Record, Stage, WellFormed

\* An activation that is over owes nothing.
LEMMA OverIs ==
    Over \in Record /\ Over.stage = "done" /\ WellFormed(Over) /\ \A o \in Object : Owed(Over)[o] = 0
<1>1. NewActivation(Null) \in Record
  BY DEF NewActivation, Record, Stage
<1>2. Over \in Record /\ Over.stage = "done"
  BY <1>1 DEF Over, Record, Stage
<1>3. WellFormed(Over)
  BY <1>2 DEF WellFormed
<1> QED BY <1>2, <1>3 DEF Owed, Object

\* CoCreateInstance begins an activation.
LEMMA ActivateStep ==
    ASSUME LibInv, NEW t \in Thread, NEW d \in Servers, NEW call \in Call, Activate(t, d, call)
    PROVE  LibInv' /\ Ready
<1> DEFINE a == NewActivation(call)
           f == Frame("activation", d, Len(activation) + 1, "no")
           s == Append(stack[t], f)
<1>1. /\ AtGuest(t) /\ Turn(t) /\ Len(activation) < MaxActivations
      /\ activation' = Append(activation, a)
      /\ UNCHANGED <<unpatched, dllMain, attaches, pending, references, held>>
  BY DEF Activate
<1>2. stack[t] # << >> => ~ IsLoad(Top(t))
  BY <1>1 DEF AtGuest, IsLoad, GuestFrames, LoadingFrames
<1>3. unpatched = {} /\ ~ IsStarting(stack[t])
  BY <1>1, <1>2, GuestRuns
<1>4. Whole(stack[t], activation) /\ activation \in Seq(Record) /\ Len(activation) \in Nat
  BY StackIs DEF LibInv, Records
<1>5. d \in Dll
  BY ComAssumption
<1>6. f \in LoadFrame /\ f.at = "activation" /\ f.k = Len(activation) + 1
  BY <1>4, <1>5, FrameIs DEF FrameKinds, LoadingFrames
<1>7. a \in Record /\ a.stage = "factory" /\ WellFormed(a)
  BY NewRecord
<1> HIDE DEF a, f
<1>8. /\ Whole(s, activation') /\ ~ IsStarting(s) /\ Loads(s) = Loads(stack[t])
      /\ s # << >> /\ s[Len(s)] = f
  BY <1>1, <1>3, <1>4, <1>6, <1>7, PushActivation
<1>9. Records' /\ Balance'
  <2>1. activation' \in Seq(Record) /\ Len(activation') = Len(activation) + 1
        /\ activation'[Len(activation) + 1] = a
        /\ \A n \in 1 .. Len(activation) : activation'[n] = activation[n]
    BY <1>1, <1>4, <1>7
  <2>2. Len(activation') <= MaxActivations
    BY <1>1, <1>4, <2>1, ComAssumption
  <2>3. \A n \in 1 .. Len(activation) + 1 : n \in 1 .. Len(activation) \/ n = Len(activation) + 1
    BY <1>4
  <2>4. \A n \in 1 .. Len(activation') : WellFormed(activation'[n])
    BY <1>7, <2>1, <2>3 DEF LibInv, Records
  <2>5. \A o \in Object : Debts(o)' = Debts(o)
    BY <1>1, <1>7, DebtsStay DEF LibInv
  <2>6. Balance'
    BY <1>1, <2>5 DEF LibInv, Balance
  <2> QED BY <2>1, <2>2, <2>4, <2>6 DEF Records
<1>10. activation' # << >>
  BY <1>1, <1>4, <1>7
<1>11. CASE d \in Loaded
  <2>1. stack' = [stack EXCEPT ![t] = s] /\ UNCHANGED <<base, slot>>
    BY <1>11 DEF Activate, Stacked, f
  <2>2. dllMain' \in [Dll -> {"no", "running", "true", "false"}] /\ dllMain' = dllMain
    BY <1>1 DEF LibInv, Tables, AttachedOnce
  <2> HIDE DEF s
  <2>3. Stacks' /\ Tables' /\ Serving' /\ Ready
    BY <1>1, <1>3, <1>8, <1>10, <2>1, <2>2, QuietStep
  <2> QED BY <1>9, <2>3 DEF LibInv
<1>12. CASE d \notin Loaded
  <2> DEFINE g == Frame("server_dll", d, 1, "no")   r == Append(s, g)
  <2>1. stack' = [stack EXCEPT ![t] = r] /\ Map(d)
    BY <1>12 DEF Activate, Stacked, f
  <2>2. g \in LoadFrame /\ g.at = "server_dll" /\ g.dll = d /\ g.k = 1 /\ g.notify = "no" /\ IsLoad(g)
    BY <1>5, FrameIs DEF FrameKinds, IsLoad, LoadingFrames
  <2>3. \A h \in Loads(stack[t]) : h.dll # d
    BY <1>5, <1>12, NotInLoad
  <2>4. activation'[f.k].stage = "factory"
    BY <1>1, <1>4, <1>6, <1>7
  <2> HIDE DEF g, s
  <2>5. /\ Whole(r, activation') /\ ~ IsStarting(r) /\ Loads(r) = Loads(s) \union {g}
        /\ r # << >> /\ r[Len(r)] = g
    BY <1>6, <1>8, <2>2, <2>3, <2>4, PushFrame
  <2> HIDE DEF r
  <2>6. Stacks' /\ Tables' /\ Serving' /\ Ready
    BY <1>1, <1>5, <1>8, <1>10, <1>12, <2>1, <2>2, <2>5, MappingStep
  <2> QED BY <1>9, <2>6 DEF LibInv
<1> QED BY <1>11, <1>12

\* A method of the server begins.
LEMMA CallServerStep ==
    ASSUME LibInv, NEW t \in Thread, CallServer(t)
    PROVE  LibInv' /\ Ready
<1> DEFINE e == Top(t)   f == Frame("server", e.dll, 0, "no")   s == Append(stack[t], f)
<1>1. /\ stack[t] # << >> /\ Turn(t) /\ e.at = "activation" /\ stack' = [stack EXCEPT ![t] = s]
      /\ UNCHANGED <<base, slot, unpatched, dllMain, attaches, pending>> /\ UNCHANGED comVars
  BY DEF CallServer, Activating, Stacked, Same
<1>2. Whole(stack[t], activation) /\ e = stack[t][Len(stack[t])] /\ e \in LoadFrame
  BY <1>1, StackIs
<1>3. e.dll \in Dll /\ ~ IsLoad(e)
  BY <1>1, <1>2 DEF LoadFrame, IsLoad, LoadingFrames
<1>4. unpatched = {} /\ ~ IsStarting(stack[t])
  BY <1>1, <1>3, GuestRuns
<1>5. f \in LoadFrame /\ f.at = "server" /\ ~ IsLoad(f)
  BY <1>3, FrameIs DEF FrameKinds, GuestFrames, IsLoad, LoadingFrames
<1>6. Whole(stack[t], activation') /\ activation' = activation
  BY <1>1, <1>2 DEF comVars
<1> HIDE DEF f
<1>7. Whole(s, activation') /\ ~ IsStarting(s) /\ Loads(s) = Loads(stack[t])
  <2>1. stack[t] # << >> /\ stack[t][Len(stack[t])].at = "activation"
    BY <1>1, <1>2
  <2> HIDE DEF e
  <2>2. /\ Whole(s, activation') /\ ~ IsStarting(s)
        /\ Loads(s) = Loads(stack[t]) \union (IF IsLoad(f) THEN {f} ELSE {})
    BY <1>4, <1>5, <1>6, <2>1, PushFrame
  <2> QED BY <1>5, <2>2
<1>8. dllMain' \in [Dll -> {"no", "running", "true", "false"}] /\ dllMain' = dllMain
  BY <1>1 DEF LibInv, Tables, AttachedOnce
<1> HIDE DEF s
<1>9. Stacks' /\ Tables' /\ Serving' /\ Ready
  BY <1>1, <1>4, <1>6, <1>7, <1>8, QuietStep
<1> QED BY <1>1, <1>9, AccountsStay DEF LibInv

\* What the server runs rests on its activation, whose record is not over.
LEMMA CallerIs ==
    ASSUME LibInv, NEW t \in Thread, stack[t] # << >>, Turn(t), Top(t).at \in {"server", "server_main"}
    PROVE  LET q == Front(stack[t])   k == Caller(t)
           IN  /\ Whole(q, activation) /\ q \in Seq(LoadFrame) /\ q # << >> /\ q[Len(q)].at = "activation"
               /\ q[Len(q)].k = k
               /\ k \in 1 .. Len(activation)
               /\ activation[k] \in Record /\ WellFormed(activation[k]) /\ activation[k].stage # "done"
               /\ Top(t).at = "server_main" => activation[k].stage = "factory"
               /\ ~ IsStarting(q) /\ Loads(q) = Loads(stack[t])
               /\ Loads(Front(q)) = Loads(q) /\ ~ IsStarting(Front(q)) /\ unpatched = {}
<1> DEFINE s == stack[t]   q == Front(s)   n == Len(s)   k == Caller(t)
<1>1. /\ Whole(s, activation) /\ s \in Seq(LoadFrame) /\ GoodStack(s) /\ Serves(s, activation)
      /\ Top(t) = s[n] /\ n \in Nat \ {0} /\ Top(t) \in LoadFrame
  BY StackIs DEF Whole
<1>2. ~ IsLoad(Top(t))
  BY DEF IsLoad, LoadingFrames
<1>3. unpatched = {} /\ ~ IsStarting(s)
  BY <1>2, GuestRuns
<1>4. n \in 2 .. n /\ n - 1 \in 1 .. n /\ n - 1 \in 1 .. n - 1
  <2>1. n # 1
    BY <1>1 DEF GoodStack
  <2> HIDE DEF n
  <2> QED BY <1>1, <2>1
<1>5. s[n - 1].at = "activation"
  BY <1>1, <1>4 DEF GoodStack, Rests
<1>6. /\ Whole(q, activation) /\ ~ IsStarting(q) /\ q \in Seq(LoadFrame) /\ Loads(q) = Loads(s)
  <2>1. ~ IsLoad(s[Len(s)]) /\ s # << >>
    BY <1>1, <1>2
  <2> HIDE DEF s, n
  <2> QED BY <1>1, <1>3, <2>1, PopFrame
<1>7. Len(q) = n - 1 /\ \A i \in 1 .. n - 1 : q[i] = s[i]
  BY <1>1, Popped
<1> HIDE DEF q
<1>8. q # << >> /\ q[Len(q)] = s[n - 1]
  BY <1>4, <1>7
<1>9. k = s[n - 1].k
  BY DEF Caller
<1>10. k \in 1 .. Len(activation) /\ activation[k].stage # "done"
  BY <1>1, <1>4, <1>5, <1>9 DEF Serves
<1>11. Top(t).at = "server_main" => activation[k].stage = "factory"
  BY <1>1, <1>4, <1>5, <1>9 DEF Serves
<1>12. activation[k] \in Record /\ WellFormed(activation[k])
  BY <1>10 DEF LibInv, Records
<1>13. ~ IsLoad(q[Len(q)])
  BY <1>5, <1>8 DEF IsLoad, LoadingFrames
<1>14. Loads(Front(q)) = Loads(q) /\ ~ IsStarting(Front(q))
  BY <1>6, <1>8, <1>13, PopFrame
<1> QED BY <1>3, <1>5, <1>6, <1>8, <1>9, <1>10, <1>11, <1>12, <1>14 DEF q

\* The record of the activation k becomes b, and the books are kept.
LEMMA RecordChanges ==
    ASSUME Records, Balance, NEW k \in 1 .. Len(activation), NEW b \in Record, WellFormed(b),
           activation' = [activation EXCEPT ![k] = b],
           references' \in [Object -> Int], held' \in [Object -> Int],
           \A o \in Object : references'[o] - references[o]
                = (held'[o] - held[o]) + (Owed(b)[o] - Owed(activation[k])[o])
    PROVE  Records' /\ Balance'
<1>1. activation \in Seq(Record)
  BY DEF Records
<1>2. /\ activation' \in Seq(Record) /\ Len(activation') = Len(activation) /\ activation'[k] = b
      /\ \A n \in 1 .. Len(activation) : n # k => activation'[n] = activation[n]
  BY <1>1
<1>3. Records'
  BY <1>2 DEF Records
<1>4. ASSUME NEW o \in Object
      PROVE  references'[o] = held'[o] + Total(Debts(o), 1 .. MaxActivations)'
  <2> DEFINE T == Total(Debts(o), 1 .. MaxActivations)   T1 == Total(Debts(o), 1 .. MaxActivations)'
             r == references[o]   r1 == references'[o]   h == held[o]   h1 == held'[o]
             x == Owed(b)[o]   y == Owed(activation[k])[o]
  <2>1. T \in Int /\ T1 = T + (x - y)
    BY DebtsChange
  <2>2. r = h + T
    BY DEF Balance
  <2>3. r \in Int /\ h \in Int /\ r1 \in Int /\ h1 \in Int
    BY DEF Balance
  <2>4. x \in Int /\ y \in Int
    BY <1>1, OwedIsInt
  <2>5. r1 - r = (h1 - h) + (x - y)
    OBVIOUS
  <2> HIDE DEF T, T1, r, r1, h, h1, x, y
  <2>6. r1 = h1 + T1
    BY <2>1, <2>2, <2>3, <2>4, <2>5
  <2> QED BY <2>6 DEF r1, h1, T1
<1> QED BY <1>3, <1>4 DEF Balance

\* The end of an activation, which was left as b.
LEMMA FinishStep ==
    ASSUME LibInv, NEW t \in Thread, stack[t] # << >>, Turn(t), Top(t).at \in {"server", "server_main"},
           NEW b, Finish(t, b), \A o \in Object : Outs(b)[o] \in Int,
           references' \in [Object -> Int],
           \A o \in Object : references'[o] = references[o] + (Outs(b)[o] - Owed(Activation(t))[o]),
           dllMain' \in [Dll -> {"no", "running", "true", "false"}],
           \A d \in Dll : dllMain[d] # "no" => dllMain'[d] # "no",
           UNCHANGED <<base, slot, unpatched, attaches, pending>>
    PROVE  LibInv' /\ Ready
<1> DEFINE q == Front(stack[t])   k == Caller(t)   s == Front(q)
<1>1. /\ held' = [o \in Object |-> held[o] + Outs(b)[o]]
      /\ activation' = [activation EXCEPT ![k] = Over] /\ stack' = [stack EXCEPT ![t] = s]
  BY DEF Finish, SetActivation, Stacked
<1>2. /\ Whole(q, activation) /\ q \in Seq(LoadFrame) /\ q # << >> /\ q[Len(q)].at = "activation"
      /\ q[Len(q)].k = k
      /\ k \in 1 .. Len(activation) /\ activation[k] \in Record
      /\ Loads(s) = Loads(stack[t]) /\ ~ IsStarting(s) /\ unpatched = {}
  BY CallerIs
<1>3. activation \in Seq(Record) /\ Records /\ Balance
  BY DEF LibInv, Records
<1>4. Over \in Record /\ Over.stage = "done" /\ WellFormed(Over) /\ \A o \in Object : Owed(Over)[o] = 0
  BY OverIs
<1>5. Records' /\ Balance'
  <2>1. \A o \in Object : held[o] \in Int /\ references[o] \in Int /\ Owed(activation[k])[o] \in Int
    BY <1>2, <1>3, OwedIsInt DEF Balance
  <2>2. held' \in [Object -> Int]
    BY <1>1, <2>1
  <2>3. \A o \in Object : held'[o] = held[o] + Outs(b)[o]
    BY <1>1
  <2>4. \A o \in Object : references'[o] = references[o] + (Outs(b)[o] - Owed(activation[k])[o])
    BY DEF Activation
  <2> HIDE DEF k
  <2>5. \A o \in Object : references'[o] - references[o]
           = (held'[o] - held[o]) + (Owed(Over)[o] - Owed(activation[k])[o])
    <3> SUFFICES ASSUME NEW o \in Object
                 PROVE  references'[o] - references[o]
                           = (held'[o] - held[o]) + (Owed(Over)[o] - Owed(activation[k])[o])
      OBVIOUS
    <3> DEFINE x == Outs(b)[o]   y == Owed(activation[k])[o]
    <3>1. /\ x \in Int /\ y \in Int /\ references[o] \in Int /\ held[o] \in Int /\ Owed(Over)[o] = 0
          /\ references'[o] = references[o] + (x - y) /\ held'[o] = held[o] + x
      BY <1>4, <2>1, <2>3, <2>4
    <3> HIDE DEF x, y
    <3>2. references'[o] - references[o] = (held'[o] - held[o]) + (Owed(Over)[o] - y)
      BY <3>1
    <3> QED BY <3>2 DEF y
  <2> QED BY <1>1, <1>2, <1>3, <1>4, <2>2, <2>5, RecordChanges
<1>6. Whole(s, activation')
  <2>1. Serves(s, activation')
    BY <1>1, <1>2, <1>3, <1>4, ServesChange DEF Whole
  <2>2. Whole(s, activation)
    BY <1>2, PopFrame
  <2> QED BY <2>1, <2>2 DEF Whole
<1>7. activation' # << >>
  BY <1>1, <1>2, <1>3
<1> HIDE DEF s
<1>8. Stacks' /\ Tables' /\ Serving' /\ Ready
  BY <1>1, <1>2, <1>6, <1>7, QuietStep
<1> QED BY <1>5, <1>8 DEF LibInv

\* The DllMain of a server returns.
LEMMA ServerMainReturnsStep ==
    ASSUME LibInv, NEW t \in Thread, NEW ok \in {"true", "false"}, ServerMainReturns(t, ok)
    PROVE  LibInv' /\ Ready
<1> DEFINE q == Front(stack[t])
<1>1. /\ stack[t] # << >> /\ Turn(t) /\ Top(t).at = "server_main"
      /\ dllMain' = [dllMain EXCEPT ![Top(t).dll] = ok]
      /\ UNCHANGED <<base, slot, unpatched, attaches, pending, references>>
  BY DEF ServerMainReturns
<1>2. /\ dllMain' \in [Dll -> {"no", "running", "true", "false"}]
      /\ \A d \in Dll : dllMain[d] # "no" => dllMain'[d] # "no"
  BY <1>1 DEF LibInv, Tables, AttachedOnce
<1>3. /\ Whole(q, activation) /\ ~ IsStarting(q) /\ Loads(q) = Loads(stack[t]) /\ unpatched = {}
      /\ activation[Caller(t)] \in Record /\ activation[Caller(t)].stage = "factory"
  BY <1>1, CallerIs
<1>4. CASE ok = "true"
  <2>1. stack' = [stack EXCEPT ![t] = q] /\ UNCHANGED comVars
    BY <1>1, <1>4 DEF ServerMainReturns, Stacked, comVars
  <2>2. activation' = activation
    BY <2>1 DEF comVars
  <2> HIDE DEF q
  <2>3. Stacks' /\ Tables' /\ Serving' /\ Ready
    BY <1>1, <1>2, <1>3, <2>1, <2>2, QuietStep
  <2> QED BY <2>1, <2>3, AccountsStay DEF LibInv
<1>5. CASE ok # "true"
  <2> DEFINE b == [Activation(t) EXCEPT !.ok = FALSE]
  <2>1. Finish(t, b)
    BY <1>5 DEF ServerMainReturns
  <2>2. ~ b.ok /\ b \in Record
    BY <1>3 DEF Activation, Record
  <2>3. \A o \in Object : Outs(b)[o] = 0
    BY <2>2 DEF Outs
  <2>4. \A o \in Object : Owed(Activation(t))[o] = 0
    BY <1>3 DEF Owed, Object, Activation
  <2>5. references' \in [Object -> Int] /\ references' = references
    BY <1>1 DEF LibInv, Balance
  <2>6. \A o \in Object : references'[o] = references[o] + (Outs(b)[o] - Owed(Activation(t))[o])
    <3> HIDE DEF b
    <3> QED BY <2>3, <2>4, <2>5
  <2> HIDE DEF b
  <2> QED BY <1>1, <1>2, <2>1, <2>3, <2>5, <2>6, FinishStep
<1> QED BY <1>4, <1>5

\* A method of the server returns.
LEMMA ServerReturnsStep ==
    ASSUME LibInv, NEW t \in Thread, NEW ok \in BOOLEAN, ServerReturns(t, ok)
    PROVE  LibInv' /\ Ready
<1> DEFINE a == Activation(t)   b == AfterCall(a, ok)   q == Front(stack[t])   k == Caller(t)
<1>1. /\ stack[t] # << >> /\ Turn(t) /\ Top(t).at = "server" /\ Counts(a.stage, ok)
      /\ UNCHANGED <<base, slot, unpatched, dllMain, attaches, pending>>
  BY DEF ServerReturns, Same
<1>2. /\ dllMain' \in [Dll -> {"no", "running", "true", "false"}]
      /\ \A d \in Dll : dllMain[d] # "no" => dllMain'[d] # "no"
  BY <1>1 DEF LibInv, Tables, AttachedOnce
<1>3. /\ Whole(q, activation) /\ q \in Seq(LoadFrame) /\ q # << >> /\ q[Len(q)].at = "activation"
      /\ q[Len(q)].k = k /\ k \in 1 .. Len(activation)
      /\ ~ IsStarting(q) /\ Loads(q) = Loads(stack[t]) /\ unpatched = {}
  BY <1>1, CallerIs
<1>4. a = activation[k] /\ a \in Record /\ WellFormed(a) /\ a.stage # "done"
  BY <1>1, CallerIs DEF Activation
<1>5. references \in [Object -> Int] /\ held \in [Object -> Int]
  BY DEF LibInv, Balance
<1> HIDE DEF a
<1>6. Balanced(a, b)
  BY <1>1, <1>4, <1>5, CallBalances
<1> HIDE DEF b
<1>7. /\ b \in Record /\ (b.stage # "done" => WellFormed(b)) /\ references' \in [Object -> Int]
      /\ \A o \in Object : Outs(b)[o] \in Int /\ references'[o] = references[o] + Gain(a, b)[o]
  BY <1>4, <1>6, BalancedIs DEF Balanced, Gains
<1>8. CASE b.stage = "done"
  <2>1. Finish(t, b)
    BY <1>8 DEF ServerReturns, a, b
  <2>2. \A o \in Object : references'[o] = references[o] + (Outs(b)[o] - Owed(Activation(t))[o])
    BY <1>7, <1>8 DEF Gain, a
  <2> QED BY <1>1, <1>2, <1>7, <2>1, <2>2, FinishStep
<1>9. CASE b.stage # "done"
  <2>1. activation' = [activation EXCEPT ![k] = b] /\ stack' = [stack EXCEPT ![t] = q] /\ UNCHANGED held
    BY <1>9 DEF ServerReturns, SetActivation, Stacked, a, b
  <2>2. activation \in Seq(Record) /\ Records /\ Balance
    BY DEF LibInv, Records
  <2>3. Records' /\ Balance'
    <3>1. \A o \in Object : /\ held[o] \in Int /\ held'[o] = held[o] /\ references[o] \in Int
                            /\ Owed(a)[o] \in Int /\ Owed(b)[o] \in Int
      BY <1>4, <1>5, <1>7, <2>1, OwedIsInt
    <3>2. \A o \in Object : references'[o] = references[o] + (Owed(b)[o] - Owed(a)[o])
      BY <1>7, <1>9 DEF Gain
    <3>3. \A o \in Object : references'[o] - references[o]
             = (held'[o] - held[o]) + (Owed(b)[o] - Owed(activation[k])[o])
      BY <1>4, <3>1, <3>2
    <3>4. held' \in [Object -> Int]
      BY <1>5, <2>1
    <3> QED BY <1>3, <1>7, <1>9, <2>1, <2>2, <3>3, <3>4, RecordChanges
  <2>4. Whole(q, activation')
    <3>1. Serves(q, activation')
      BY <1>3, <1>7, <1>9, <2>1, <2>2, ServesChange DEF Whole
    <3> QED BY <1>3, <3>1 DEF Whole
  <2>5. activation' # << >>
    BY <1>3, <2>1, <2>2
  <2> HIDE DEF q
  <2>6. Stacks' /\ Tables' /\ Serving' /\ Ready
    BY <1>1, <1>2, <1>3, <2>1, <2>4, <2>5, QuietStep
  <2> QED BY <2>3, <2>6 DEF LibInv
<1> QED BY <1>8, <1>9

-----------------------------------------------------------------------------
\* It holds at first.
LEMMA LibInit ==
    ASSUME LoaderInit, ComInit
    PROVE  LibInv
<1>1. /\ base = << >> /\ unpatched = {} /\ pending = << >> /\ activation = << >> /\ Loaded = {}
      /\ dllMain = [d \in Dll |-> "no"] /\ attaches = [d \in Dll |-> 0]
      /\ references = [o \in Object |-> 0] /\ held = [o \in Object |-> 0]
      /\ Range(pending) = {} /\ Len(pending) = 0 /\ 1 .. 0 = {}
  BY DEF LoaderInit, ComInit, Loaded, Range
<1> DEFINE f == Frame("startup", Program, 1, "later")   s == <<f>>
<1>2. f \in LoadFrame /\ f.at = "startup" /\ f.dll = Program /\ f.k = 1 /\ f.notify = "later" /\ IsLoad(f)
  BY FrameIs DEF FrameKinds, IsLoad, LoadingFrames
<1>3. /\ s \in Seq(LoadFrame) /\ Len(s) = 1 /\ s[1] = f /\ 2 .. 1 = {} /\ (\A i \in 1 .. 1 : i = 1)
      /\ 1 \in 1 .. 1 /\ s # << >>
  BY <1>2
<1>4. /\ \A q : Before(q, q) \in BOOLEAN
      /\ \A x, y : ~ Before(x, y)
  BY <1>1 DEF Before
<1>5. Records /\ Balance
  <2>1. Records
    BY <1>1, ComAssumption DEF Records
  <2>2. IsFiniteSet(1 .. MaxActivations)
    <3>1. 1 \in Int /\ MaxActivations \in Int
      BY ComAssumption
    <3> QED BY <3>1, FS_Interval, Zenon
  <2>3. ASSUME NEW o \in Object PROVE references[o] = held[o] + Total(Debts(o), 1 .. MaxActivations)
    <3> DEFINE g == Debts(o)
    <3>1. \A n \in 1 .. MaxActivations : g[n] = 0
      BY <1>1 DEF Debts
    <3> HIDE DEF g
    <3>2. Total(g, 1 .. MaxActivations) = 0
      BY <2>2, <3>1, SumOfZeros
    <3> QED BY <1>1, <3>2 DEF g
  <2> QED BY <1>1, <2>1, <2>3 DEF Balance
<1>6. CASE stack = [t \in Thread |-> << >>] /\ slot = << >>
  <2>1. Stacks /\ Serving
    <3>1. \A t \in Thread : Whole(stack[t], activation) /\ stack[t] = << >>
      BY <1>6, EmptyStack
    <3>2. \A t \in Thread : ~ Inside(stack[t])
      BY <3>1 DEF Inside
    <3>3. stack \in [Thread -> Seq(LoadFrame)]
      BY <1>6
    <3> QED BY <1>1, <3>1, <3>2, <3>3 DEF Stacks, Serving, Whole
  <2>2. Lds = {} /\ ~ Starting
    BY <1>6, EmptyStack DEF Lds, Starting
  <2>3. DOMAIN slot = {}
    BY <1>6
  <2>4. SlotsKnown
    BY <1>1, <1>6, <2>2, <2>3 DEF SlotsKnown
  <2>5. SlotsFilled /\ AttachedOnce /\ ImportsFirst /\ StartsInOrder
    BY <1>1, <1>4, <2>2, <2>3 DEF SlotsFilled, AttachedOnce, ImportsFirst, StartsInOrder, Half
  <2> QED BY <1>5, <2>1, <2>4, <2>5 DEF LibInv, Tables
<1>7. ASSUME NEW main \in Thread,
             stack = [t \in Thread |-> IF t = main THEN s ELSE << >>],
             slot = [p \in {Program} \X Range(Imports[Program]) |-> "raw"]
      PROVE  LibInv
  <2> HIDE DEF f, s
  <2>1. Whole(s, activation) /\ Loads(s) = {f} /\ Inside(s)
    <3>1. GoodStack(s)
      BY <1>2, <1>3 DEF GoodStack
    <3>2. OneLoadEach(s) /\ Loads(s) = {f} /\ Inside(s) /\ Serves(s, activation)
      BY <1>2, <1>3 DEF OneLoadEach, Loads, Inside, Serves
    <3> QED BY <3>1, <3>2 DEF Whole
  <2>2. Stacks /\ Serving
    <3>1. \A t \in Thread : Whole(stack[t], activation) /\ (t # main => stack[t] = << >>)
      BY <1>7, <2>1, EmptyStack
    <3>2. \A t \in Thread : Inside(stack[t]) => t = main
      BY <3>1 DEF Inside
    <3>3. stack \in [Thread -> Seq(LoadFrame)]
      BY <1>3, <1>7
    <3> QED BY <1>1, <3>1, <3>2, <3>3 DEF Stacks, Serving, Whole
  <2>3. Lds = {f}
    BY <1>7, <2>1, EmptyStack DEF Lds
  <2>4. \A d \in Dll : ~ Half(d)
    BY <1>2, <2>3, LoaderAssumption DEF Half
  <2>5. Imports[Program] \in Seq(Dll) /\ DOMAIN slot = {Program} \X Range(Imports[Program])
        /\ \A p \in DOMAIN slot : slot[p] = "raw"
    BY <1>7, LoaderAssumption
  <2>6. SlotsKnown
    <3>1. Range(Imports[Program]) \subseteq Dll
      BY <2>5 DEF Range
    <3>2. slot \in [DOMAIN slot -> {"raw", "real", "handler", "stub"}]
      BY <1>7
    <3> QED BY <1>1, <1>2, <2>3, <2>5, <3>1, <3>2 DEF SlotsKnown
  <2>7. SlotsFilled
    <3> SUFFICES ASSUME NEW p \in DOMAIN slot
                 PROVE  \E g \in Lds : g.dll = p[1] /\ \E j \in g.k .. Len(Imports[g.dll]) : Imports[g.dll][j] = p[2]
      BY DEF SlotsFilled
    <3>1. p[1] = Program /\ p[2] \in Range(Imports[Program])
      BY <2>5
    <3>2. PICK j \in 1 .. Len(Imports[Program]) : Imports[Program][j] = p[2]
      BY <2>5, <3>1 DEF Range
    <3> QED BY <1>2, <2>3, <3>1, <3>2
  <2>8. AttachedOnce /\ ImportsFirst
    BY <1>1, <1>2, <2>3, <2>4, <2>5 DEF AttachedOnce, ImportsFirst
  <2>9. StartsInOrder
    BY <1>1, <1>4 DEF StartsInOrder
  <2> QED BY <1>5, <2>2, <2>6, <2>7, <2>8, <2>9 DEF LibInv, Tables
<1> QED BY <1>6, <1>7 DEF LoaderInit

\* Every action keeps the invariant.
LEMMA LibStep ==
    ASSUME LibInv, ComNext
    PROVE  LibInv' /\ Ready
<1>1. CASE LoaderNext /\ UNCHANGED comVars
  <2>1. PICK t \in Thread :
          \/ \E d \in Dll, byPath \in BOOLEAN : LoadLibrary(t, d, byPath)
          \/ LinkImport(t) \/ LoadImport(t) \/ FinishDependency(t) \/ FinishLibrary(t)
          \/ FinishStartup(t) \/ RunPending(t)
          \/ \E ok \in {"true", "false"} : DependencyReturns(t, ok) \/ MainReturns(t, ok)
    BY <1>1 DEF LoaderNext
  <2>2. CASE \E d \in Dll, byPath \in BOOLEAN : LoadLibrary(t, d, byPath)
    BY <1>1, <2>2, LoadKnownStep, LoadMissingStep, LoadNewStep DEF LoadLibrary
  <2>3. CASE LinkImport(t)
    BY <1>1, <2>3, LinkImportStep
  <2>4. CASE LoadImport(t)
    BY <1>1, <2>4, LoadImportStep
  <2>5. CASE FinishDependency(t)
    BY <1>1, <2>5, FinishDependencyStep
  <2>6. CASE FinishLibrary(t)
    BY <1>1, <2>6, FinishLibraryStep
  <2>7. CASE FinishStartup(t)
    BY <1>1, <2>7, FinishStartupStep
  <2>8. CASE RunPending(t)
    BY <1>1, <2>8, RunPendingStep
  <2>9. CASE \E ok \in {"true", "false"} : DependencyReturns(t, ok) \/ MainReturns(t, ok)
    BY <1>1, <2>9, DependencyReturnsStep, MainReturnsStep
  <2> QED BY <2>1, <2>2, <2>3, <2>4, <2>5, <2>6, <2>7, <2>8, <2>9
<1>2. ASSUME NEW t \in Thread, \E d \in Servers, call \in Call : Activate(t, d, call)
      PROVE  LibInv' /\ Ready
  BY <1>2, ActivateStep
<1>3. ASSUME NEW t \in Thread, FinishServerDll(t) \/ CallServer(t)
      PROVE  LibInv' /\ Ready
  BY <1>3, FinishServerDllStep, CallServerStep
<1>4. ASSUME NEW t \in Thread, \E ok \in BOOLEAN : ServerReturns(t, ok)
      PROVE  LibInv' /\ Ready
  BY <1>4, ServerReturnsStep
<1>5. ASSUME NEW t \in Thread, \E ok \in {"true", "false"} : ServerMainReturns(t, ok)
      PROVE  LibInv' /\ Ready
  BY <1>5, ServerMainReturnsStep
<1> QED BY <1>1, <1>2, <1>3, <1>4, <1>5 DEF ComNext

\* The invariant speaks of the variables of COM only.
LEMMA LibStutter ==
    ASSUME LibInv, UNCHANGED <<loaderVars, comVars>>
    PROVE  LibInv'
<1>1. UNCHANGED <<base, slot, unpatched, notFound, searched, dllMain, attaches, pending, handleStore,
                  stack, returned, activation, references, held>>
  BY DEF loaderVars, comVars
<1>2. Lds' = Lds /\ Loaded' = Loaded /\ (Starting' <=> Starting)
  BY <1>1 DEF Lds, Loaded, Starting
<1>3. (\A d : Half(d)' <=> Half(d)) /\ \A x, y : (Link(x, y)' <=> Link(x, y)) /\ (Before(x, y)' <=> Before(x, y))
  BY <1>1, <1>2 DEF Half, Link, Before
<1>4. Stacks' /\ Serving'
  BY <1>1 DEF LibInv, Stacks, Serving
<1>5. SlotsKnown' /\ SlotsFilled' /\ AttachedOnce' /\ ImportsFirst'
  BY <1>1, <1>2, <1>3 DEF LibInv, Tables, SlotsKnown, SlotsFilled, AttachedOnce, ImportsFirst
<1>6. \A m : CanLoad(m, FALSE)' <=> CanLoad(m, FALSE)
  BY <1>1 DEF CanLoad, Findable, OnDisk, HasBase, KeepsBase, Rebased, Available, Loaded
<1>7. StartsInOrder'
  BY <1>1, <1>2, <1>3, <1>6 DEF LibInv, Tables, StartsInOrder
<1>8. Records' /\ Balance'
  BY <1>1, AccountsStay DEF LibInv, comVars
<1> QED BY <1>4, <1>5, <1>7, <1>8 DEF LibInv, Tables

\* Guest code runs, and what it imports is bound.
LEMMA BoundAtGuest ==
    ASSUME LibInv
    PROVE  ImportsAreBound
<1> SUFFICES ASSUME NEW t \in Thread, AtGuest(t), Turn(t), ~ HalfLoaded(Running(t)),
                    NEW p \in DOMAIN slot, p[1] = Running(t), slot[p] = "raw"
             PROVE  FALSE
  BY DEF ImportsAreBound
<1>1. stack[t] # << >> => ~ IsLoad(Top(t))
  BY DEF AtGuest, IsLoad, GuestFrames, LoadingFrames
<1>2. unpatched = {}
  BY <1>1, GuestRuns
<1>3. PICK f \in Lds : f.dll = p[1]
  BY <1>2 DEF LibInv, Tables, SlotsFilled
<1>4. Half(Running(t))
  BY <1>3 DEF Half
<1> QED BY <1>4, HalfIsHalfLoaded DEF LibInv

\* The invariant holds of every behaviour.
THEOREM LibrariesInvariant == ComSpec => []LibInv
<1>1. LoaderInit /\ ComInit => LibInv
  BY LibInit
<1>2. LibInv /\ [ComNext]_<<loaderVars, comVars>> => LibInv'
  BY LibStep, LibStutter
<1> QED BY <1>1, <1>2, PTL DEF ComSpec

\* Code of a DLL runs when its imports are bound; its DllMain starts once,
\* and after those of its imports.
THEOREM LibrariesSafe == ComSpec => LibrariesAreReady
<1> DEFINE Asked ==
        /\ ImportsAreBound'
        /\ \A d \in Dll : Attaches(d) =>
             /\ attaches[d] = 0
             /\ activation = << >> =>
                   \A m \in Range(Imports[d]) \cap HasEntry : FollowsItsImport(d, m)
<1>1. LibInv => ImportsAreBound
  BY BoundAtGuest
<1>2. LibInv' => ImportsAreBound'
  BY <1>1, PTL
<1>3. LibInv /\ [ComNext]_<<loaderVars, comVars>> => LibInv' /\ (Ready \/ UNCHANGED <<loaderVars, comVars>>)
  BY LibStep, LibStutter
<1>4. Ready /\ ImportsAreBound' => Asked
  BY DEF Ready
<1>5. LibInv /\ [ComNext]_<<loaderVars, comVars>> => [Asked]_<<loaderVars, comVars>>
  BY <1>2, <1>3, <1>4
<1> HIDE DEF Asked
<1>6. ComSpec => ImportsAreBound /\ [][Asked]_<<loaderVars, comVars>>
  BY <1>1, <1>5, LibrariesInvariant, PTL DEF ComSpec
<1> QED BY <1>6 DEF LibrariesAreReady, Asked

\* No reference is lost, and no pointer is returned that owns none.
THEOREM ReferencesKept == ComSpec => []ReferencesBalance
<1>1. LibInv => ReferencesBalance
  BY NothingOwed DEF LibInv
<1> QED BY <1>1, LibrariesInvariant, PTL

-----------------------------------------------------------------------------
(***************************************************************************)
(* The table of handlers, for any number of slots, functions, guest codes, *)
(* exports and trampolines.  Stubs and guest code lie one after the other  *)
(* below the next address, which is at most two cells for each entry; the  *)
(* exports of guest code come before its hooks.  So no two functions share *)
(* an address, but exports of one code and its hooks.                      *)
(***************************************************************************)

StubKinds == {"stub", "code", "hook", "patch"}
Dlls == StubDll \cup {g.dll : g \in GuestCodes} \cup {"patch"}
Funcs == StubFunc \cup (UNION {DOMAIN g.exports : g \in GuestCodes}) \cup {"hook", "internal"}
         \cup {<<e.dll, e.func>> : e \in RealExports}
TableEntry == [dll : Dlls, func : Funcs, addr : Nat, kind : StubKinds, halts : BOOLEAN]

\* Two entries of one address are an export of guest code and another of it,
\* or a hook of it.
Apart2(x, y) ==
    x.kind # "patch" /\ y.kind # "patch" /\ x.addr = y.addr =>
        x.kind = "code" /\ y.kind \in {"code", "hook"} /\ x.dll = y.dll

\* An entry lies below the next address, or is a patch elsewhere.
EntryPlaced(x, next, trapped) ==
    /\ x.kind # "patch" => x.addr < next
    /\ x.kind \in {"stub", "hook"} => x.addr \in trapped
    /\ x.kind = "patch" => x.dll = "patch" /\ (x.addr \in Trampolines \/ x.addr >= RegionEnd)

StubInv ==
    /\ table \in Seq(TableEntry) /\ nextAddr \in Nat
    /\ nextAddr <= HANDLER_SIZE * Len(table) /\ nextAddr <= RegionEnd
    /\ loadedReal \subseteq RealDll
    /\ \A i \in 1 .. Len(table) : EntryPlaced(table[i], nextAddr, traps)
    /\ \A i, j \in 1 .. Len(table) : i < j => Apart2(table[i], table[j])

-----------------------------------------------------------------------------
\* What SetToSeq makes of a finite set.
LEMMA SetAsSeq ==
    ASSUME NEW T, NEW S \in SUBSET T, IsFiniteSet(S)
    PROVE  /\ SetToSeq(S) \in Seq(T) /\ Len(SetToSeq(S)) = Cardinality(S)
           /\ \A i \in 1 .. Len(SetToSeq(S)) : SetToSeq(S)[i] \in S
           /\ \A i, j \in 1 .. Len(SetToSeq(S)) : SetToSeq(S)[i] = SetToSeq(S)[j] => i = j
<1> DEFINE n == Cardinality(S)
<1>1. n \in Nat /\ ExistsBijection(1 .. n, S)
  BY FS_CardinalityType
<1>2. \E f \in [1 .. n -> S] : IsInjective(f)
  <2>1. PICK f \in Bijection(1 .. n, S) : TRUE
    BY <1>1 DEF ExistsBijection
  <2>2. f \in [1 .. n -> S] /\ \A a, b \in 1 .. n : f[a] = f[b] => a = b
    BY <2>1 DEF Bijection, Injection, IsInjective
  <2> QED BY <2>2 DEF IsInjective
<1>3. SetToSeq(S) \in [1 .. n -> S] /\ IsInjective(SetToSeq(S))
  BY <1>2 DEF SetToSeq
<1> HIDE DEF n
<1> DEFINE s == SetToSeq(S)
<1>4. s \in [1 .. n -> S] /\ IsInjective(s)
  BY <1>3
<1> HIDE DEF s
<1>5. s \in Seq(S) /\ Len(s) = n /\ DOMAIN s = 1 .. n
  BY <1>1, <1>4
<1>6. s \in Seq(T) /\ (\A i \in 1 .. Len(s) : s[i] \in S) /\ \A i, j \in 1 .. Len(s) : s[i] = s[j] => i = j
  BY <1>1, <1>4, <1>5 DEF IsInjective
<1> QED BY <1>5, <1>6 DEF s, n

\* The first of some indices.
LEMMA FirstIndex ==
    ASSUME NEW N \in Nat, NEW I \in SUBSET (1 .. N), I # {}
    PROVE  Min(I) \in I /\ \A i \in I : Min(I) <= i
<1>1. I \in SUBSET Nat
  OBVIOUS
<1> QED BY <1>1, LeastElement

\* The last of some indices.
LEMMA LastIndex ==
    ASSUME NEW N \in Nat, NEW I \in SUBSET (1 .. N), NEW n \in I, \A i \in I : i <= n
    PROVE  Max(I) = n
<1>1. I \in SUBSET Int
  OBVIOUS
<1> QED BY <1>1, LargestIsMax

\* The table grows by entries that lie beyond what there was, and by patches.
LEMMA TableGrows ==
    ASSUME StubInv, NEW more \in Seq(TableEntry), table' = table \o more,
           nextAddr' \in Nat, nextAddr <= nextAddr', nextAddr' <= RegionEnd,
           nextAddr' <= HANDLER_SIZE * (Len(table) + Len(more)), loadedReal' \subseteq RealDll,
           \A a \in traps : a < nextAddr => a \in traps',
           \A i \in 1 .. Len(more) :
              /\ EntryPlaced(more[i], nextAddr', traps')
              /\ more[i].kind # "patch" => more[i].addr >= nextAddr,
           \A i, j \in 1 .. Len(more) : i < j => Apart2(more[i], more[j])
    PROVE  StubInv'
<1> DEFINE n == Len(table)
           m == Len(more)
           t == table'
<1>1. /\ n \in Nat /\ m \in Nat /\ t \in Seq(TableEntry) /\ Len(t) = n + m
      /\ \A i \in 1 .. n : t[i] = table[i]
      /\ \A i \in 1 .. m : t[n + i] = more[i]
  BY DEF StubInv
<1> HIDE DEF n, m, t
<1>2. \A i \in 1 .. n + m : i \in 1 .. n \/ (i - n \in 1 .. m /\ i = n + (i - n))
  BY <1>1
<1>3. \A i \in 1 .. n : table[i] \in TableEntry /\ EntryPlaced(table[i], nextAddr, traps)
  BY DEF StubInv, n
<1>4. ASSUME NEW i \in 1 .. n PROVE EntryPlaced(t[i], nextAddr', traps')
  <2>1. t[i] = table[i] /\ table[i].addr \in Nat /\ EntryPlaced(table[i], nextAddr, traps)
    BY <1>1, <1>3 DEF TableEntry
  <2>2. table[i].kind \in {"stub", "hook"} => table[i].kind # "patch"
    OBVIOUS
  <2>3. nextAddr \in Nat
    BY DEF StubInv
  <2> QED BY <2>1, <2>2, <2>3 DEF EntryPlaced
<1>5. ASSUME NEW i \in 1 .. m
      PROVE  /\ EntryPlaced(t[n + i], nextAddr', traps') /\ t[n + i] \in TableEntry
             /\ t[n + i].kind # "patch" => t[n + i].addr >= nextAddr
  BY <1>1 DEF m
<1>6. \A i \in 1 .. n + m : EntryPlaced(t[i], nextAddr', traps')
  BY <1>2, <1>4, <1>5
<1>7. ASSUME NEW i \in 1 .. n + m, NEW j \in 1 .. n + m, i < j PROVE Apart2(t[i], t[j])
  <2>1. CASE j \in 1 .. n
    <3>1. i \in 1 .. n
      BY <1>1, <1>7, <2>1
    <3> QED BY <1>1, <1>7, <2>1, <3>1 DEF StubInv, n
  <2>2. CASE i \in 1 .. n /\ j \notin 1 .. n
    <3>1. t[j].kind # "patch" => t[j].addr >= nextAddr
      BY <1>2, <1>5, <2>2
    <3>2. t[i].kind # "patch" => t[i].addr < nextAddr
      BY <1>1, <1>3, <2>2 DEF EntryPlaced
    <3>3. t[i].addr \in Nat /\ t[j].addr \in Nat /\ nextAddr \in Nat
      <4>1. t[i] \in TableEntry /\ t[j] \in TableEntry
        BY <1>1
      <4> QED BY <4>1 DEF TableEntry, StubInv
    <3> QED BY <3>1, <3>2, <3>3 DEF Apart2
  <2>3. CASE i \notin 1 .. n /\ j \notin 1 .. n
    <3>1. /\ i - n \in 1 .. m /\ j - n \in 1 .. m /\ i - n < j - n
          /\ i = n + (i - n) /\ j = n + (j - n)
      BY <1>1, <1>2, <1>7, <2>3
    <3>2. t[i] = more[i - n] /\ t[j] = more[j - n]
      BY <1>1, <3>1
    <3> QED BY <3>1, <3>2 DEF m
  <2> QED BY <2>1, <2>2, <2>3
<1>8. nextAddr' <= HANDLER_SIZE * Len(t)
  BY <1>1 DEF n, m
<1> QED BY <1>1, <1>6, <1>7, <1>8 DEF StubInv, t

\* Twice the slots of guest code cover it.
LEMMA SlotsCover ==
    ASSUME NEW g, g.size \in Nat
    PROVE  SlotsOf(g) \in Nat /\ g.size <= SlotsOf(g) * HANDLER_SIZE
BY DEF SlotsOf, HANDLER_SIZE

\* A registration takes the next slot.
LEMMA HandlerKeeps ==
    ASSUME StubInv, NEW d \in StubDll, NEW f \in StubFunc, NEW halts \in BOOLEAN,
           RegisterHandler(d, f, halts)
    PROVE  StubInv'
<1>1. CASE UNCHANGED stubVars \/ Ends
  BY <1>1 DEF Ends, stubVars, StubInv
<1>2. CASE ~ (UNCHANGED stubVars \/ Ends)
  <2> DEFINE e == Entry(d, f, nextAddr, "stub", halts)
  <2>1. /\ table' = Append(table, e) /\ nextAddr' = nextAddr + HANDLER_SIZE
        /\ traps' = (traps \ {nextAddr + 1}) \cup {nextAddr} /\ loadedReal' = loadedReal
        /\ ~ Full(Len(table) + 1)
    BY <1>2 DEF RegisterHandler
  <2>2. /\ e \in TableEntry /\ e.kind = "stub" /\ e.addr = nextAddr
    BY DEF Entry, TableEntry, StubInv, Dlls, Funcs, StubKinds
  <2> HIDE DEF e
  <2>3. /\ table' = table \o << e >> /\ << e >> \in Seq(TableEntry) /\ Len(<< e >>) = 1
        /\ << e >>[1] = e /\ Len(table) \in Nat /\ nextAddr \in Nat
    BY <2>1, <2>2 DEF StubInv
  <2>4. /\ nextAddr' \in Nat /\ nextAddr <= nextAddr' /\ nextAddr' <= RegionEnd
        /\ nextAddr' <= HANDLER_SIZE * (Len(table) + 1)
    BY <2>1, <2>3, StubAssumption DEF StubInv, HANDLER_SIZE, RegionEnd, Full
  <2>5. EntryPlaced(e, nextAddr', traps') /\ e.addr >= nextAddr
    BY <2>1, <2>2, <2>3 DEF EntryPlaced, HANDLER_SIZE
  <2>6. \A a \in traps : a < nextAddr => a \in traps'
    BY <2>1, <2>3
  <2>7. loadedReal' \subseteq RealDll
    BY <2>1 DEF StubInv
  <2> DEFINE more == << e >>
  <2>8. /\ more \in Seq(TableEntry) /\ Len(more) = 1 /\ table' = table \o more
        /\ \A i \in 1 .. Len(more) : more[i] = e
        /\ \A i, j \in 1 .. Len(more) : ~ (i < j)
    BY <2>3
  <2> HIDE DEF more
  <2> QED BY <2>4, <2>5, <2>6, <2>7, <2>8, TableGrows
<1> QED BY <1>1, <1>2

\* Entries made from the elements of a finite set, one from each.
LEMMA OneEach ==
    ASSUME NEW S, IsFiniteSet(S), NEW T, NEW f \in [S -> T],
           \A x, y \in S : f[x] = f[y] => x = y, \A y \in T : \E x \in S : f[x] = y
    PROVE  IsFiniteSet(T) /\ Cardinality(T) = Cardinality(S)
<1>1. f \in Bijection(S, T)
  BY DEF Bijection, Injection, Surjection, IsInjective
<1>2. ExistsBijection(S, T)
  BY <1>1 DEF ExistsBijection
<1> QED BY <1>2, FS_Bijection

\* Guest code takes no more slots than it has exports and hooks.
LEMMA GuestCodeKeeps ==
    ASSUME StubInv, NEW g \in GuestCodes, RegisterGuestCode(g)
    PROVE  StubInv'
<1> DEFINE size == SlotsOf(g) * HANDLER_SIZE
           exports == {Entry(g.dll, f, nextAddr + g.exports[f], "code", FALSE) : f \in DOMAIN g.exports}
           hooks == {Entry(g.dll, "hook", nextAddr + o, "hook", FALSE) : o \in g.hooks}
           xs == SetToSeq(exports)
           hs == SetToSeq(hooks)
<1>1. CASE Ends
  BY <1>1 DEF Ends, StubInv
<1>2. CASE ~ Ends
  <2>1. /\ table' = table \o xs \o hs /\ nextAddr' = nextAddr + size /\ loadedReal' = loadedReal
        /\ traps' = (traps \ (nextAddr .. nextAddr + size - 1)) \cup {nextAddr + o : o \in g.hooks}
        /\ ~ Full(Len(table \o xs \o hs))
    BY <1>2 DEF RegisterGuestCode
  <2>2. /\ g.size \in Nat /\ g.exports \in [DOMAIN g.exports -> 0 .. g.size - 1]
        /\ g.hooks \subseteq 0 .. g.size - 1
        /\ IsFiniteSet(DOMAIN g.exports) /\ IsFiniteSet(g.hooks)
        /\ SlotsOf(g) <= Cardinality(DOMAIN g.exports) + Cardinality(g.hooks)
    BY GuestCodeAssumption
  <2>3. SlotsOf(g) \in Nat /\ g.size <= SlotsOf(g) * HANDLER_SIZE
    BY <2>2, SlotsCover
  <2>4. size \in Nat /\ g.size <= size /\ size = HANDLER_SIZE * SlotsOf(g)
    BY <2>3 DEF HANDLER_SIZE
  <2>5. nextAddr \in Nat /\ table \in Seq(TableEntry) /\ Len(table) \in Nat
    BY DEF StubInv
  <2> HIDE DEF size
  <2>6. ASSUME NEW f \in DOMAIN g.exports
        PROVE  /\ g.exports[f] \in Nat /\ g.exports[f] < size
               /\ Entry(g.dll, f, nextAddr + g.exports[f], "code", FALSE) \in TableEntry
    <3>1. g.exports[f] \in 0 .. g.size - 1
      BY <2>2
    <3>2. g.exports[f] \in Nat /\ g.exports[f] < size /\ nextAddr + g.exports[f] \in Nat
      BY <2>2, <2>4, <2>5, <3>1
    <3>3. g.dll \in Dlls /\ f \in Funcs
      BY DEF Dlls, Funcs
    <3> QED BY <3>2, <3>3 DEF Entry, TableEntry, StubKinds
  <2>7. ASSUME NEW o \in g.hooks
        PROVE  /\ o \in Nat /\ o < size
               /\ Entry(g.dll, "hook", nextAddr + o, "hook", FALSE) \in TableEntry
    <3>1. o \in Nat /\ o < size /\ nextAddr + o \in Nat
      BY <2>2, <2>4, <2>5
    <3>2. g.dll \in Dlls /\ "hook" \in Funcs
      BY DEF Dlls, Funcs
    <3> QED BY <3>1, <3>2 DEF Entry, TableEntry, StubKinds
  <2>8. /\ IsFiniteSet(exports) /\ Cardinality(exports) = Cardinality(DOMAIN g.exports)
        /\ exports \in SUBSET TableEntry
    <3> DEFINE e == [f \in DOMAIN g.exports |-> Entry(g.dll, f, nextAddr + g.exports[f], "code", FALSE)]
    <3>1. /\ e \in [DOMAIN g.exports -> exports]
          /\ \A y \in exports : \E x \in DOMAIN g.exports : e[x] = y
      OBVIOUS
    <3>2. \A x, y \in DOMAIN g.exports : e[x] = e[y] => x = y
      BY DEF Entry
    <3>3. exports \in SUBSET TableEntry
      BY <2>6
    <3> HIDE DEF e, exports
    <3> QED BY <2>2, <3>1, <3>2, <3>3, OneEach
  <2>9. /\ IsFiniteSet(hooks) /\ Cardinality(hooks) = Cardinality(g.hooks)
        /\ hooks \in SUBSET TableEntry
    <3> DEFINE e == [o \in g.hooks |-> Entry(g.dll, "hook", nextAddr + o, "hook", FALSE)]
    <3>1. /\ e \in [g.hooks -> hooks]
          /\ \A y \in hooks : \E x \in g.hooks : e[x] = y
      OBVIOUS
    <3>2. \A x, y \in g.hooks : e[x] = e[y] => x = y
      <4> SUFFICES ASSUME NEW x \in g.hooks, NEW y \in g.hooks, e[x] = e[y] PROVE x = y
        OBVIOUS
      <4>1. nextAddr + x = nextAddr + y
        BY DEF Entry
      <4> QED BY <2>5, <2>7, <4>1
    <3>3. hooks \in SUBSET TableEntry
      BY <2>7
    <3> HIDE DEF e, hooks
    <3> QED BY <2>2, <3>1, <3>2, <3>3, OneEach
  <2>10. ASSUME NEW x \in exports
         PROVE  /\ x.kind = "code" /\ x.dll = g.dll /\ x.addr \in Nat
                /\ nextAddr <= x.addr /\ x.addr < nextAddr + size
    <3>1. PICK f \in DOMAIN g.exports : x = Entry(g.dll, f, nextAddr + g.exports[f], "code", FALSE)
      OBVIOUS
    <3>2. x.kind = "code" /\ x.dll = g.dll /\ x.addr = nextAddr + g.exports[f]
      BY <3>1 DEF Entry
    <3> DEFINE o == g.exports[f]
    <3>3. o \in Nat /\ o < size
      BY <2>6
    <3> HIDE DEF o
    <3>4. x.addr = nextAddr + o
      BY <3>2 DEF o
    <3> QED BY <2>4, <2>5, <3>2, <3>3, <3>4
  <2>11. ASSUME NEW x \in hooks
         PROVE  \E o \in g.hooks : /\ x = Entry(g.dll, "hook", nextAddr + o, "hook", FALSE)
                                   /\ x.kind = "hook" /\ x.dll = g.dll /\ x.addr = nextAddr + o
                                   /\ x.addr \in Nat /\ nextAddr <= x.addr /\ x.addr < nextAddr + size
                                   /\ x.addr \in traps'
    <3>1. PICK o \in g.hooks : x = Entry(g.dll, "hook", nextAddr + o, "hook", FALSE)
      OBVIOUS
    <3>2. x.kind = "hook" /\ x.dll = g.dll /\ x.addr = nextAddr + o
      BY <3>1 DEF Entry
    <3>3. x.addr \in traps'
      BY <2>1, <3>2
    <3>4. o \in Nat /\ o < size
      BY <2>7
    <3>5. x.addr \in Nat /\ nextAddr <= x.addr /\ x.addr < nextAddr + size
      BY <2>4, <2>5, <3>2, <3>4
    <3> QED BY <3>1, <3>2, <3>3, <3>5
  <2>12. /\ xs \in Seq(TableEntry) /\ Len(xs) = Cardinality(DOMAIN g.exports)
         /\ \A i \in 1 .. Len(xs) : xs[i] \in exports
    <3> HIDE DEF exports
    <3> QED BY <2>8, SetAsSeq
  <2>13. /\ hs \in Seq(TableEntry) /\ Len(hs) = Cardinality(g.hooks)
         /\ \A i \in 1 .. Len(hs) : hs[i] \in hooks
         /\ \A i, j \in 1 .. Len(hs) : hs[i] = hs[j] => i = j
    <3> HIDE DEF hooks
    <3> QED BY <2>9, SetAsSeq
  <2> DEFINE n == Len(xs)
             m == Len(hs)
             more == xs \o hs
  <2> HIDE DEF xs, hs, exports, hooks
  <2>14. /\ n \in Nat /\ m \in Nat /\ more \in Seq(TableEntry) /\ Len(more) = n + m
         /\ \A i \in 1 .. n : more[i] = xs[i]
         /\ \A i \in 1 .. m : more[n + i] = hs[i]
         /\ table' = table \o more
    <3>1. table' = (table \o xs) \o hs
      BY <2>1
    <3>2. (table \o xs) \o hs = table \o (xs \o hs)
      BY <2>5, <2>12, <2>13, ConcatAssociative
    <3>3. n \in Nat /\ m \in Nat
      BY <2>12, <2>13
    <3>4. /\ more \in Seq(TableEntry) /\ Len(more) = n + m
          /\ \A i \in 1 .. n + m : more[i] = IF i <= n THEN xs[i] ELSE hs[i - n]
      <4>1. xs \in Seq(TableEntry) /\ hs \in Seq(TableEntry)
        BY <2>12, <2>13
      <4>2. /\ xs \o hs \in Seq(TableEntry) /\ Len(xs \o hs) = Len(xs) + Len(hs)
            /\ \A i \in 1 .. Len(xs) + Len(hs) :
                  (xs \o hs)[i] = IF i <= Len(xs) THEN xs[i] ELSE hs[i - Len(xs)]
        BY <4>1, ConcatProperties, Zenon
      <4> QED BY <4>2
    <3> HIDE DEF n, m, more
    <3>5. /\ \A i \in 1 .. n : i \in 1 .. n + m /\ i <= n
          /\ \A i \in 1 .. m : n + i \in 1 .. n + m /\ ~ (n + i <= n) /\ (n + i) - n = i
      BY <3>3
    <3>6. table' = table \o more
      BY <3>1, <3>2 DEF more
    <3> QED BY <3>3, <3>4, <3>5, <3>6
  <2>15. SlotsOf(g) <= n + m /\ n = Len(xs) /\ m = Len(hs)
    BY <2>2, <2>12, <2>13
  <2>16. Len(table \o xs \o hs) = Len(table) + n + m
    <3>1. table \o xs \in Seq(TableEntry) /\ Len(table \o xs) = Len(table) + n
      BY <2>5, <2>12
    <3> QED BY <2>13, <3>1
  <2> HIDE DEF n, m, more
  <2>17. /\ nextAddr' \in Nat /\ nextAddr <= nextAddr' /\ nextAddr' <= RegionEnd
         /\ nextAddr' <= HANDLER_SIZE * (Len(table) + Len(more))
    <3>1. Len(table) + n + m <= MAX_HANDLERS
      BY <2>1, <2>5, <2>14, <2>16, StubAssumption DEF Full
    <3>2. nextAddr <= HANDLER_SIZE * Len(table)
      BY DEF StubInv
    <3> DEFINE k == SlotsOf(g)
               t == Len(table)
               l == Len(more)
    <3>3. /\ k \in Nat /\ t \in Nat /\ l = n + m /\ n \in Nat /\ m \in Nat /\ MAX_HANDLERS \in Nat
          /\ k <= n + m /\ t + n + m <= MAX_HANDLERS
      BY <2>3, <2>5, <2>14, <2>15, <3>1, StubAssumption
    <3>4. nextAddr' = nextAddr + 2 * k /\ nextAddr \in Nat /\ nextAddr <= 2 * t
      BY <2>1, <2>4, <2>5, <3>2 DEF HANDLER_SIZE
    <3> HIDE DEF k, t, l
    <3>5. /\ nextAddr' \in Nat /\ nextAddr <= nextAddr' /\ nextAddr' <= MAX_HANDLERS * 2
          /\ nextAddr' <= 2 * (t + l)
      BY <3>3, <3>4
    <3> QED BY <3>5 DEF HANDLER_SIZE, RegionEnd, t, l
  <2>18. \A i \in 1 .. n + m : i \in 1 .. n \/ (i - n \in 1 .. m /\ i = n + (i - n))
    BY <2>14
  <2>19. ASSUME NEW i \in 1 .. n
         PROVE  /\ more[i].kind = "code" /\ more[i].dll = g.dll /\ more[i].addr \in Nat
                /\ nextAddr <= more[i].addr /\ more[i].addr < nextAddr'
    <3>1. more[i] \in exports
      BY <2>12, <2>14, <2>15
    <3> QED BY <2>1, <2>10, <3>1
  <2>20. ASSUME NEW i \in 1 .. m
         PROVE  /\ more[n + i].kind = "hook" /\ more[n + i].dll = g.dll /\ more[n + i].addr \in Nat
                /\ nextAddr <= more[n + i].addr /\ more[n + i].addr < nextAddr' /\ more[n + i].addr \in traps'
    <3>1. more[n + i] \in hooks
      BY <2>13, <2>14, <2>15
    <3> QED BY <2>1, <2>11, <3>1
  <2>21. \A i \in 1 .. Len(more) : /\ EntryPlaced(more[i], nextAddr', traps')
                                   /\ more[i].kind # "patch" => more[i].addr >= nextAddr
    <3> SUFFICES ASSUME NEW i \in 1 .. n + m
                 PROVE  /\ EntryPlaced(more[i], nextAddr', traps')
                        /\ more[i].kind # "patch" => more[i].addr >= nextAddr
      BY <2>14
    <3>1. CASE i \in 1 .. n
      BY <2>5, <2>19, <3>1 DEF EntryPlaced
    <3>2. CASE i \notin 1 .. n
      <4>1. PICK k \in 1 .. m : i = n + k
        BY <2>18, <3>2
      <4> QED BY <2>5, <2>20, <4>1 DEF EntryPlaced
    <3> QED BY <3>1, <3>2
  <2>22. ASSUME NEW i \in 1 .. Len(more), NEW j \in 1 .. Len(more), i < j
         PROVE  Apart2(more[i], more[j])
    <3>1. CASE i \in 1 .. n
      <4>1. more[i].kind = "code" /\ more[i].dll = g.dll
        BY <2>19, <3>1
      <4>2. more[j].kind \in {"code", "hook"} /\ more[j].dll = g.dll
        <5>1. CASE j \in 1 .. n
          BY <2>19, <5>1
        <5>2. CASE j \notin 1 .. n
          <6>1. PICK k \in 1 .. m : j = n + k
            BY <2>14, <2>18, <5>2
          <6> QED BY <2>20, <6>1
        <5> QED BY <5>1, <5>2
      <4> QED BY <4>1, <4>2 DEF Apart2
    <3>2. CASE i \notin 1 .. n
      <4>1. PICK k \in 1 .. m : i = n + k
        BY <2>14, <2>18, <3>2
      <4>2. PICK l \in 1 .. m : j = n + l
        BY <2>14, <2>18, <2>22, <3>2
      <4>3. more[i] = hs[k] /\ more[j] = hs[l] /\ k # l /\ k \in 1 .. Len(hs) /\ l \in 1 .. Len(hs)
        BY <2>14, <2>15, <2>22, <4>1, <4>2
      <4>4. hs[k] # hs[l] /\ hs[k] \in hooks /\ hs[l] \in hooks
        BY <2>13, <4>3
      <4>5. hs[k].addr # hs[l].addr
        <5>1. PICK o \in g.hooks : /\ hs[k] = Entry(g.dll, "hook", nextAddr + o, "hook", FALSE)
                                   /\ hs[k].addr = nextAddr + o
          BY <2>11, <4>4
        <5>2. PICK u \in g.hooks : /\ hs[l] = Entry(g.dll, "hook", nextAddr + u, "hook", FALSE)
                                   /\ hs[l].addr = nextAddr + u
          BY <2>11, <4>4
        <5> QED BY <4>4, <5>1, <5>2
      <4> QED BY <4>3, <4>5 DEF Apart2
    <3> QED BY <3>1, <3>2
  <2>23. \A a \in traps : a < nextAddr => a \in traps'
    BY <2>1, <2>5
  <2>24. loadedReal' \subseteq RealDll
    BY <2>1 DEF StubInv
  <2> QED BY <2>14, <2>17, <2>21, <2>22, <2>23, <2>24, TableGrows
<1> QED BY <1>1, <1>2

\* What is patched at the start is added to the table, and nothing else.
LEMMA StartPatches ==
    ASSUME StubInv, Start
    PROVE  \E more \in Seq(TableEntry) :
              /\ table' = table \o more
              /\ \A i \in 1 .. Len(more) :
                    /\ more[i].kind = "patch" /\ more[i].dll = "patch"
                    /\ more[i].addr \in Trampolines \/ more[i].addr >= RegionEnd
<1> DEFINE xs == SetToSeq(ExportPatches)
           is == SetToSeq(InternalPatches)
           n == Len(xs)
           m == Len(is)
           more == xs \o is
<1>1. table \in Seq(TableEntry) /\ Len(table) \in Nat
  BY DEF StubInv
<1>2. \A e \in RealExports : e.addr \in Nat /\ e.addr >= RegionEnd
  BY RealAssumption
<1>3. ASSUME NEW x \in ExportPatches
      PROVE  x \in TableEntry /\ x.kind = "patch" /\ x.dll = "patch" /\ x.addr >= RegionEnd
  <2>1. PICK e \in Patchable \ Jumping : x = Patch(<<e.dll, e.func>>, e.addr, table[ByName(e.func)].halts)
    BY DEF ExportPatches
  <2>2. e \in RealExports /\ ByName(e.func) # 0
    BY <2>1 DEF Patchable
  <2>3. ByName(e.func) \in 1 .. Len(table)
    <3> DEFINE I == {i \in 1 .. Len(table) : table[i].func = e.func}
    <3>1. ByName(e.func) = IF I # {} THEN Min(I) ELSE 0
      BY DEF ByName, SelectInSeq
    <3>2. I \in SUBSET (1 .. Len(table)) /\ I # {}
      BY <2>2, <3>1
    <3> HIDE DEF I
    <3>3. Min(I) \in I
      BY <1>1, <3>2, FirstIndex
    <3> QED BY <3>1, <3>2, <3>3
  <2>4. table[ByName(e.func)].halts \in BOOLEAN
    <3> DEFINE k == ByName(e.func)
    <3>1. k \in 1 .. Len(table)
      BY <2>3
    <3> HIDE DEF k
    <3>2. table[k] \in TableEntry
      BY <1>1, <3>1
    <3> QED BY <3>2 DEF k, TableEntry
  <2>5. <<e.dll, e.func>> \in Funcs /\ "patch" \in Dlls /\ e.addr \in Nat
    BY <1>2, <2>2 DEF Funcs, Dlls
  <2> QED BY <1>2, <2>1, <2>2, <2>4, <2>5 DEF Patch, Entry, TableEntry, StubKinds
<1>4. ASSUME NEW x \in InternalPatches
      PROVE  x \in TableEntry /\ x.kind = "patch" /\ x.dll = "patch" /\ x.addr \in Trampolines
  <2>1. PICK a \in Trampolines : x = Patch("internal", a, FALSE)
    BY DEF InternalPatches
  <2>2. "internal" \in Funcs /\ "patch" \in Dlls /\ a \in Nat
    BY StubAssumption DEF Funcs, Dlls
  <2> QED BY <2>1, <2>2 DEF Patch, Entry, TableEntry, StubKinds
<1>5. ExportPatches \in SUBSET TableEntry /\ IsFiniteSet(ExportPatches)
  <2> DEFINE S == Patchable \ Jumping
             f == [e \in S |-> Patch(<<e.dll, e.func>>, e.addr, table[ByName(e.func)].halts)]
  <2>1. IsFiniteSet(S)
    <3>1. S \in SUBSET RealExports
      BY DEF Patchable
    <3> HIDE DEF S
    <3> QED BY <3>1, RealAssumption, FS_Subset
  <2>2. f \in [S -> ExportPatches] /\ \A y \in ExportPatches : \E x \in S : f[x] = y
    BY DEF ExportPatches
  <2>3. f \in Surjection(S, ExportPatches)
    <3> HIDE DEF f, S
    <3> QED BY <2>2 DEF Surjection
  <2>4. IsFiniteSet(ExportPatches)
    <3> HIDE DEF f, S
    <3> QED BY <2>1, <2>3, FS_Surjection
  <2> QED BY <1>3, <2>4
<1>6. InternalPatches \in SUBSET TableEntry /\ IsFiniteSet(InternalPatches)
  <2> DEFINE f == [a \in Trampolines |-> Patch("internal", a, FALSE)]
  <2>1. /\ f \in [Trampolines -> InternalPatches]
        /\ \A y \in InternalPatches : \E x \in Trampolines : f[x] = y
    BY DEF InternalPatches
  <2>2. f \in Surjection(Trampolines, InternalPatches)
    <3> HIDE DEF f
    <3> QED BY <2>1 DEF Surjection
  <2>3. IsFiniteSet(InternalPatches)
    <3> HIDE DEF f
    <3> QED BY <2>2, StubAssumption, FS_Surjection
  <2> QED BY <1>4, <2>3
<1>7. xs \in Seq(TableEntry) /\ \A i \in 1 .. n : xs[i] \in ExportPatches
  BY <1>5, SetAsSeq
<1>8. is \in Seq(TableEntry) /\ \A i \in 1 .. m : is[i] \in InternalPatches
  BY <1>6, SetAsSeq
<1>9. table' = (table \o xs) \o is
  BY DEF Start
<1> HIDE DEF xs, is
<1>11. table' = table \o more
  BY <1>1, <1>7, <1>8, <1>9, ConcatAssociative
<1>12. /\ more \in Seq(TableEntry) /\ Len(more) = n + m /\ n \in Nat /\ m \in Nat
       /\ \A i \in 1 .. n + m : more[i] = IF i <= n THEN xs[i] ELSE is[i - n]
  <2>1. xs \in Seq(TableEntry) /\ is \in Seq(TableEntry) /\ n \in Nat /\ m \in Nat
    BY <1>7, <1>8
  <2>2. /\ xs \o is \in Seq(TableEntry) /\ Len(xs \o is) = Len(xs) + Len(is)
        /\ \A i \in 1 .. Len(xs) + Len(is) :
              (xs \o is)[i] = IF i <= Len(xs) THEN xs[i] ELSE is[i - Len(xs)]
    BY <2>1, ConcatProperties, Zenon
  <2> QED BY <2>1, <2>2
<1> HIDE DEF n, m, more
<1>13. ASSUME NEW i \in 1 .. Len(more)
       PROVE  /\ more[i].kind = "patch" /\ more[i].dll = "patch"
              /\ more[i].addr \in Trampolines \/ more[i].addr >= RegionEnd
  <2>1. CASE i <= n
    <3>1. i \in 1 .. n /\ more[i] = xs[i]
      BY <1>12, <2>1
    <3> QED BY <1>3, <1>7, <3>1
  <2>2. CASE ~ (i <= n)
    <3>1. i - n \in 1 .. m /\ more[i] = is[i - n]
      BY <1>12, <2>2
    <3> QED BY <1>4, <1>8, <3>1
  <2> QED BY <2>1, <2>2
<1> QED BY <1>11, <1>12, <1>13

\* The start keeps the invariant: its patches lie beyond the stubs.
LEMMA StartKeeps ==
    ASSUME StubInv, Start
    PROVE  StubInv'
<1>1. /\ nextAddr \in Nat /\ table \in Seq(TableEntry) /\ Len(table) \in Nat /\ nextAddr <= RegionEnd
      /\ nextAddr <= HANDLER_SIZE * Len(table) /\ UNCHANGED <<nextAddr, loadedReal>>
  BY DEF StubInv, Start
<1>2. PICK more \in Seq(TableEntry) :
          /\ table' = table \o more
          /\ \A i \in 1 .. Len(more) :
                /\ more[i].kind = "patch" /\ more[i].dll = "patch"
                /\ more[i].addr \in Trampolines \/ more[i].addr >= RegionEnd
  BY StartPatches
<1>3. RegionEnd \in Nat
  BY StubAssumption DEF RegionEnd, HANDLER_SIZE
<1>4. \A a \in traps : a < nextAddr => a \in traps'
  <2>1. \A e \in Jumping : e.addr \in Nat /\ e.addr >= RegionEnd
    BY RealAssumption DEF Jumping, Patchable
  <2>2. ASSUME NEW a \in traps, a < nextAddr PROVE a \notin {e.addr : e \in Jumping}
    <3> SUFFICES ASSUME NEW e \in Jumping, a = e.addr PROVE FALSE
      OBVIOUS
    <3> QED BY <1>1, <1>3, <2>1, <2>2
  <2> QED BY <2>2 DEF Start
<1>5. /\ \A i \in 1 .. Len(more) : /\ EntryPlaced(more[i], nextAddr', traps')
                                   /\ more[i].kind # "patch" => more[i].addr >= nextAddr
      /\ \A i, j \in 1 .. Len(more) : i < j => Apart2(more[i], more[j])
  BY <1>2 DEF EntryPlaced, Apart2
<1>6. /\ nextAddr' \in Nat /\ nextAddr <= nextAddr' /\ nextAddr' <= RegionEnd
      /\ nextAddr' <= HANDLER_SIZE * (Len(table) + Len(more)) /\ loadedReal' \subseteq RealDll
  BY <1>1, <1>2 DEF HANDLER_SIZE, StubInv
<1>7. more \in Seq(TableEntry) /\ table' = table \o more
  BY <1>2
<1> QED BY <1>4, <1>5, <1>6, <1>7, TableGrows

\* Every step keeps the invariant.
LEMMA StubStep ==
    ASSUME StubInv, StubNext \/ UNCHANGED stubVars
    PROVE  StubInv'
<1>1. CASE \E d \in StubDll, f \in StubFunc : RegisterHandler(d, f, FALSE) \/ AutoStub(d, f)
  BY <1>1, HandlerKeeps DEF AutoStub
<1>2. CASE \E g \in GuestCodes : RegisterGuestCode(g)
  BY <1>2, GuestCodeKeeps
<1>3. CASE Start
  BY <1>3, StartKeeps
<1>4. CASE UNCHANGED <<table, nextAddr, traps>> /\ loadedReal' \subseteq RealDll
  BY <1>4 DEF StubInv
<1>5. ASSUME EndRegistration \/ (\E a \in traps : Trap(a)) \/ UNCHANGED stubVars
      PROVE  UNCHANGED <<table, nextAddr, traps>> /\ loadedReal' \subseteq RealDll
  BY <1>5 DEF EndRegistration, Trap, Ends, stubVars, StubInv
<1>6. ASSUME NEW d \in RealDll, LoadReal(d)
      PROVE  UNCHANGED <<table, nextAddr, traps>> /\ loadedReal' \subseteq RealDll
  BY <1>6 DEF LoadReal, StubInv
<1> QED BY <1>1, <1>2, <1>3, <1>4, <1>5, <1>6 DEF StubNext


\* The first states.
LEMMA StubStart == StubInit => StubInv
<1> SUFFICES ASSUME StubInit PROVE StubInv
  OBVIOUS
<1>1. table = <<>> /\ nextAddr = 0 /\ loadedReal \subseteq RealDll
  BY DEF StubInit
<1>2. table \in Seq(TableEntry) /\ Len(table) = 0
  BY <1>1
<1>3. RegionEnd \in Nat
  BY StubAssumption DEF RegionEnd, HANDLER_SIZE
<1> QED BY <1>1, <1>2, <1>3 DEF StubInv, HANDLER_SIZE

-----------------------------------------------------------------------------
\* Below the trampolines no patch lies where there is a stub, a hook or code.
LEMMA PatchesApart ==
    ASSUME StubInv, \A a \in Trampolines : nextAddr <= a,
           NEW i \in 1 .. Len(table), NEW j \in 1 .. Len(table),
           table[i].kind # "patch", table[j].kind = "patch"
    PROVE  table[i].addr # table[j].addr
<1>1. table[i] \in TableEntry /\ table[j] \in TableEntry
  BY DEF StubInv
<1>2. table[i].addr \in Nat /\ table[j].addr \in Nat /\ nextAddr \in Nat /\ nextAddr <= RegionEnd
  BY <1>1 DEF TableEntry, StubInv
<1>3. EntryPlaced(table[i], nextAddr, traps) /\ EntryPlaced(table[j], nextAddr, traps)
  BY DEF StubInv
<1>4. RegionEnd \in Nat
  BY StubAssumption DEF RegionEnd, HANDLER_SIZE
<1> QED BY <1>2, <1>3, <1>4 DEF EntryPlaced

\* A trap in a stub finds the stub.
LEMMA StubInvCalls == StubInv => CallsReachTheirHandler
<1> SUFFICES ASSUME StubInv, NEW i \in DOMAIN table, table[i].kind \in {"stub", "hook"},
                    \A a \in Trampolines : nextAddr <= a
             PROVE  table[i].addr \in traps /\ ByAddr(table[i].addr) = i
  BY DEF CallsReachTheirHandler
<1>1. Len(table) \in Nat /\ i \in 1 .. Len(table) /\ table[i].kind # "patch" /\ table[i].kind # "code"
  BY DEF StubInv
<1>2. table[i].addr \in traps
  BY <1>1 DEF StubInv, EntryPlaced
<1> DEFINE I == {j \in 1 .. Len(table) : table[j].kind # "code" /\ table[j].addr = table[i].addr}
<1>3. ByAddr(table[i].addr) = IF I # {} THEN Max(I) ELSE 0
  BY DEF ByAddr, SelectLastInSeq
<1>4. i \in I /\ I \in SUBSET (1 .. Len(table))
  BY <1>1
<1>5. ASSUME NEW j \in I PROVE j <= i
  <2> SUFFICES ASSUME i < j PROVE FALSE
    BY <1>1
  <2>1. table[j].kind # "patch"
    BY <1>1, PatchesApart
  <2>2. Apart2(table[i], table[j])
    BY <1>1 DEF StubInv
  <2> QED BY <1>1, <2>1, <2>2 DEF Apart2
<1> HIDE DEF I
<1>6. Max(I) = i
  BY <1>1, <1>4, <1>5, LastIndex
<1> QED BY <1>2, <1>3, <1>4, <1>6

\* The base of a DLL that has a file is that of one of its exports.
LEMMA BaseIsExport ==
    ASSUME NEW d \in RealDll
    PROVE  \E e \in RealExports : e.dll = d /\ BaseOf(d) = e.addr
<1> DEFINE A == {e.addr : e \in {x \in RealExports : x.dll = d}}
<1>1. A \in SUBSET Nat /\ A # {}
  BY RealAssumption DEF RealDll
<1> HIDE DEF A
<1>2. Min(A) \in A
  BY <1>1, LeastElement
<1> QED BY <1>2 DEF A, BaseOf

\* A handle names the module it was given for.
LEMMA StubInvHandles == StubInv => HandlesNameTheirModule
<1> SUFFICES ASSUME StubInv, NEW d \in StubDll \cup loadedReal, ModuleHandle(d) # -1,
                    \A a \in Trampolines : nextAddr <= a
             PROVE  ModuleName(ModuleHandle(d)) = d
  BY DEF HandlesNameTheirModule
<1>1. loadedReal \subseteq RealDll /\ Len(table) \in Nat /\ nextAddr \in Nat /\ nextAddr <= RegionEnd
  BY DEF StubInv
<1>2. RegionEnd \in Nat
  BY StubAssumption DEF RegionEnd, HANDLER_SIZE
<1>3. CASE d \in loadedReal
  <2> DEFINE h == ModuleHandle(d)
             c == CHOOSE x \in loadedReal : BaseOf(x) = h
  <2>1. h = BaseOf(d)
    BY <1>3 DEF ModuleHandle
  <2> HIDE DEF h
  <2>2. c \in loadedReal /\ BaseOf(c) = h /\ ModuleName(h) = c
    BY <1>3, <2>1 DEF ModuleName
  <2> HIDE DEF c
  <2>3. PICK x \in RealExports : x.dll = d /\ BaseOf(d) = x.addr
    BY <1>1, <1>3, BaseIsExport
  <2>4. PICK y \in RealExports : y.dll = c /\ BaseOf(c) = y.addr
    BY <1>1, <2>2, BaseIsExport
  <2>5. c = d
    BY <2>1, <2>2, <2>3, <2>4, RealAssumption
  <2> QED BY <2>2, <2>5 DEF h
<1>4. CASE d \notin loadedReal
  <2> DEFINE I == {i \in 1 .. Len(table) : table[i].dll = d}
             k == Min(I)
             h == table[k].addr
             J == {j \in 1 .. Len(table) : table[j].addr = h}
  <2>1. SelectInSeq(table, LAMBDA e : e.dll = d) = IF I # {} THEN Min(I) ELSE 0
    BY DEF SelectInSeq
  <2>2. ModuleHandle(d) = EntryOf(IF I # {} THEN Min(I) ELSE 0).addr
    BY <1>4, <2>1 DEF ModuleHandle
  <2>3. I # {}
    BY <2>2 DEF EntryOf, NoEntry
  <2>4. k \in 1 .. Len(table) /\ table[k].dll = d
    <3>1. I \in SUBSET (1 .. Len(table))
      OBVIOUS
    <3> HIDE DEF I
    <3>2. Min(I) \in I
      BY <1>1, <2>3, <3>1, FirstIndex
    <3> QED BY <3>2 DEF I
  <2>5. ModuleHandle(d) = h
    <3>1. k # 0
      BY <2>4
    <3> QED BY <2>2, <2>3, <3>1 DEF EntryOf
  <2> HIDE DEF I, k
  <2>6. table[k] \in TableEntry /\ EntryPlaced(table[k], nextAddr, traps)
    BY <2>4 DEF StubInv
  <2>7. d \in StubDll /\ d # "patch"
    BY <1>4, StubAssumption
  <2>8. table[k].kind # "patch" /\ h \in Nat /\ h < nextAddr
    BY <2>4, <2>6, <2>7 DEF EntryPlaced, TableEntry
  <2>9. \A c \in loadedReal : BaseOf(c) # h
    <3> SUFFICES ASSUME NEW c \in loadedReal, BaseOf(c) = h PROVE FALSE
      OBVIOUS
    <3>1. PICK x \in RealExports : x.dll = c /\ BaseOf(c) = x.addr
      BY <1>1, BaseIsExport
    <3>2. x.addr \in Nat /\ x.addr >= RegionEnd
      BY RealAssumption
    <3> HIDE DEF h
    <3> QED BY <1>1, <1>2, <2>8, <3>1, <3>2
  <2>10. ModuleName(h) = StubModule(h)
    <3> HIDE DEF h
    <3> QED BY <2>9 DEF ModuleName
  <2>11. StubModule(h) = EntryOf(IF J # {} THEN Min(J) ELSE 0).dll
    BY DEF StubModule, SelectInSeq
  <2>12. k \in J /\ J \in SUBSET (1 .. Len(table))
    BY <2>4
  <2>13. Min(J) \in J /\ Min(J) <= k
    <3> HIDE DEF J
    <3> QED BY <1>1, <2>12, FirstIndex
  <2> DEFINE j == Min(J)
  <2>14. StubModule(h) = table[j].dll
    <3>1. j # 0
      BY <2>13
    <3> HIDE DEF J, j
    <3>2. J # {} /\ j = Min(J)
      BY <2>12 DEF j
    <3> QED BY <2>11, <3>1, <3>2 DEF EntryOf
  <2>15. j \in 1 .. Len(table) /\ table[j].addr = table[k].addr /\ j <= k
    BY <2>13
  <2> HIDE DEF J, j
  <2>16. table[j].dll = d
    <3>1. CASE j = k
      BY <2>4, <3>1
    <3>2. CASE j # k
      <4>1. j < k
        BY <2>4, <2>15, <3>2
      <4>2. table[j].kind # "patch"
        BY <2>4, <2>8, <2>15, PatchesApart
      <4>3. Apart2(table[j], table[k])
        BY <2>4, <2>15, <4>1 DEF StubInv
      <4> QED BY <2>4, <2>8, <2>15, <4>2, <4>3 DEF Apart2
    <3> QED BY <3>1, <3>2
  <2> QED BY <2>5, <2>10, <2>14, <2>16
<1> QED BY <1>3, <1>4

-----------------------------------------------------------------------------
\* The entries a function is found by.
KeyAt(d, f, t) == {i \in 1 .. Len(t) : t[i].kind \in {"stub", "code"} /\ t[i].dll = d /\ t[i].func = f}

\* A function has a handler if there is such an entry, and the first is taken.
LEMMA KeyIsFirst ==
    ASSUME NEW d, NEW f, Len(table) \in Nat
    PROVE  /\ Registered(d, f) <=> KeyAt(d, f, table) # {}
           /\ Registered(d, f) => ByKey(d, f) = Min(KeyAt(d, f, table))
<1> DEFINE I == KeyAt(d, f, table)
<1>1. ByKey(d, f) = IF I # {} THEN Min(I) ELSE 0
  BY DEF ByKey, SelectInSeq, KeyAt
<1>2. I \in SUBSET (1 .. Len(table))
  BY DEF KeyAt
<1> HIDE DEF I
<1>3. I # {} => Min(I) \in 1 .. Len(table)
  BY <1>2, FirstIndex
<1> QED BY <1>1, <1>3 DEF Registered, I

\* Entries that are added at the end change no key that was taken.
LEMMA KeyKept ==
    ASSUME NEW T, NEW s \in Seq(T), NEW more \in Seq(T), NEW d, NEW f
    PROVE  /\ KeyAt(d, f, s) # {} => /\ KeyAt(d, f, s \o more) # {}
                                     /\ Min(KeyAt(d, f, s \o more)) = Min(KeyAt(d, f, s))
                                     /\ (s \o more)[Min(KeyAt(d, f, s))] = s[Min(KeyAt(d, f, s))]
           /\ KeyAt(d, f, s) = {} /\ KeyAt(d, f, more) = {} => KeyAt(d, f, s \o more) = {}
<1> DEFINE t == s \o more
           n == Len(s)
           m == Len(more)
           I == KeyAt(d, f, s)
           J == KeyAt(d, f, t)
<1>1. /\ n \in Nat /\ m \in Nat /\ Len(t) = n + m
      /\ \A i \in 1 .. n : t[i] = s[i]
      /\ \A i \in 1 .. m : t[n + i] = more[i]
  OBVIOUS
<1> HIDE DEF t, n, m
<1>2. I \in SUBSET (1 .. n) /\ J \in SUBSET (1 .. n + m)
  BY <1>1 DEF KeyAt, n
<1>3. \A i \in 1 .. n : i \in 1 .. n + m /\ (i \in I <=> i \in J)
  BY <1>1 DEF KeyAt, n
<1>4. ASSUME I # {}
      PROVE  J # {} /\ Min(J) = Min(I) /\ t[Min(I)] = s[Min(I)]
  <2> HIDE DEF I, J
  <2> DEFINE a == Min(I)
             b == Min(J)
  <2>1. a \in I /\ \A i \in I : a <= i
    BY <1>1, <1>2, <1>4, FirstIndex
  <2>2. a \in J
    <3> HIDE DEF a
    <3> QED BY <1>2, <1>3, <2>1
  <2>3. b \in J /\ \A i \in J : b <= i
    <3>1. n + m \in Nat /\ J # {}
      BY <1>1, <2>2
    <3> QED BY <1>2, <3>1, FirstIndex
  <2> HIDE DEF a, b
  <2>4. a \in 1 .. n /\ b \in 1 .. n + m /\ b <= a
    BY <1>2, <2>1, <2>2, <2>3
  <2>5. b \in 1 .. n
    BY <1>1, <2>4
  <2>6. a <= b
    BY <1>3, <2>1, <2>3, <2>5
  <2>7. a = b /\ t[a] = s[a]
    BY <1>1, <2>4, <2>6
  <2> QED BY <2>2, <2>7 DEF a, b
<1>5. ASSUME I = {}, KeyAt(d, f, more) = {} PROVE J = {}
  <2> SUFFICES ASSUME NEW j \in J PROVE FALSE
    OBVIOUS
  <2>1. j \in 1 .. n + m /\ j \notin 1 .. n
    BY <1>2, <1>3, <1>5
  <2>2. j - n \in 1 .. m /\ j = n + (j - n)
    BY <1>1, <2>1
  <2>3. t[j] = more[j - n]
    BY <1>1, <2>2
  <2>4. j - n \in KeyAt(d, f, more)
    BY <2>2, <2>3 DEF KeyAt, m
  <2> QED BY <1>5, <2>4
<1> QED BY <1>4, <1>5 DEF t

\* What GetProcAddress gives stays when the table grows by other functions,
\* or more DLLs are loaded.
LEMMA AddressKept ==
    ASSUME StubInv, StubInv', NEW more \in Seq(TableEntry), table' = table \o more,
           loadedReal \subseteq loadedReal', NEW d, NEW f,
           KeyAt(d, f, more) # {} => Registered(d, f) \/ ~ Exported(d, f),
           ProcAddress(d, f) # -1
    PROVE  ProcAddress(d, f)' = ProcAddress(d, f)
<1>1. table \in Seq(TableEntry) /\ Len(table) \in Nat /\ Len(table') \in Nat
  BY DEF StubInv
<1>2. /\ Registered(d, f) <=> KeyAt(d, f, table) # {}
      /\ Registered(d, f) => ByKey(d, f) = Min(KeyAt(d, f, table))
  BY <1>1, KeyIsFirst
<1> DEFINE I == KeyAt(d, f, table')
<1>3. /\ Registered(d, f)' <=> I # {}
      /\ Registered(d, f)' => ByKey(d, f)' = Min(I)
  <2>1. ByKey(d, f)' = IF I # {} THEN Min(I) ELSE 0
    BY DEF ByKey, SelectInSeq, KeyAt
  <2>2. I \in SUBSET (1 .. Len(table'))
    BY DEF KeyAt
  <2> HIDE DEF I
  <2>3. I # {} => Min(I) \in 1 .. Len(table')
    BY <1>1, <2>2, FirstIndex
  <2> QED BY <2>1, <2>3 DEF Registered
<1>4. CASE Registered(d, f)
  <2> DEFINE K == KeyAt(d, f, table)
  <2>1. I # {} /\ Min(I) = Min(K) /\ table'[Min(K)] = table[Min(K)]
    <3>1. K # {}
      BY <1>2, <1>4
    <3>2. K # {} => /\ KeyAt(d, f, table \o more) # {}
                    /\ Min(KeyAt(d, f, table \o more)) = Min(K)
                    /\ (table \o more)[Min(K)] = table[Min(K)]
      BY <1>1, KeyKept, Zenon
    <3> QED BY <3>1, <3>2
  <2> HIDE DEF I, K
  <2>2. Registered(d, f)' /\ ByKey(d, f)' = ByKey(d, f) /\ table'[ByKey(d, f)] = table[ByKey(d, f)]
    BY <1>2, <1>3, <1>4, <2>1 DEF K
  <2> QED BY <1>4, <2>2 DEF ProcAddress
<1>5. CASE ~ Registered(d, f)
  <2>1. Exported(d, f)
    BY <1>5 DEF ProcAddress
  <2>2. ~ Registered(d, f)'
    BY <1>1, <1>2, <1>3, <1>5, <2>1, KeyKept
  <2>3. Exported(d, f)'
    BY <2>1 DEF Exported
  <2> QED BY <1>5, <2>1, <2>2, <2>3 DEF ProcAddress
<1> QED BY <1>4, <1>5

\* No step of a program that runs changes what it was given.
LEMMA StepKeepsAddress ==
    ASSUME StubInv, StubInv', StubNext, phase # "registering", NEW d, NEW f, ProcAddress(d, f) # -1
    PROVE  ProcAddress(d, f)' = ProcAddress(d, f)
<1>1. CASE table' = table /\ loadedReal \subseteq loadedReal'
  <2> DEFINE more == << >>
  <2>1. more \in Seq(TableEntry) /\ table' = table \o more /\ KeyAt(d, f, more) = {}
    BY <1>1 DEF StubInv, KeyAt
  <2> HIDE DEF more
  <2> QED BY <1>1, <2>1, AddressKept
<1>2. CASE Start
  <2>1. loadedReal' = loadedReal
    BY <1>2 DEF Start
  <2>2. PICK more \in Seq(TableEntry) :
            /\ table' = table \o more
            /\ \A i \in 1 .. Len(more) : more[i].kind = "patch"
    BY <1>2, StartPatches
  <2>3. KeyAt(d, f, more) = {}
    BY <2>2 DEF KeyAt
  <2> QED BY <2>1, <2>2, <2>3, AddressKept
<1>3. ASSUME NEW c \in StubDll, NEW g \in StubFunc, AutoStub(c, g)
      PROVE  ProcAddress(d, f)' = ProcAddress(d, f)
  <2>1. ~ Registered(c, g) /\ ~ Exported(c, g) /\ RegisterHandler(c, g, TRUE)
    BY <1>3 DEF AutoStub, Unresolved
  <2>2. CASE Ends
    BY <1>1, <2>2 DEF Ends
  <2>3. CASE ~ Ends
    <3> DEFINE e == Entry(c, g, nextAddr, "stub", TRUE)
               more == << e >>
    <3>1. table' = Append(table, e) /\ loadedReal' = loadedReal
      BY <2>1, <2>3 DEF RegisterHandler
    <3>2. e \in TableEntry /\ e.dll = c /\ e.func = g
      BY DEF Entry, TableEntry, StubInv, Dlls, Funcs, StubKinds
    <3> HIDE DEF e
    <3>3. /\ more \in Seq(TableEntry) /\ table' = table \o more
          /\ \A i \in 1 .. Len(more) : more[i] = e
      BY <3>1, <3>2 DEF StubInv
    <3> HIDE DEF more
    <3>4. KeyAt(d, f, more) # {} => d = c /\ f = g
      BY <3>2, <3>3 DEF KeyAt
    <3> QED BY <2>1, <3>1, <3>3, <3>4, AddressKept
  <2> QED BY <2>2, <2>3
<1>4. ASSUME NEW c \in RealDll, LoadReal(c)
      PROVE  table' = table /\ loadedReal \subseteq loadedReal'
  BY <1>4 DEF LoadReal
<1>5. ASSUME NEW a \in traps, Trap(a)
      PROVE  table' = table /\ loadedReal \subseteq loadedReal'
  BY <1>5 DEF Trap, Ends
<1> QED BY <1>1, <1>2, <1>3, <1>4, <1>5 DEF StubNext

-----------------------------------------------------------------------------
(* What the guest is given to call, and to ask for, belongs to the DLL it    *)
(* named, and stays so (api/win32_handlers.py, loader/dll_loader.py).        *)
THEOREM StubsBelong == StubSpec => StubsBelongToTheirDll
<1>1. StubInit => StubInv
  BY StubStart
<1>2. StubInv /\ [StubNext]_stubVars => StubInv'
  BY StubStep
<1>3. StubInv => CallsReachTheirHandler /\ HandlesNameTheirModule
  BY StubInvCalls, StubInvHandles
<1>4. StubInv /\ StubInv' /\ [StubNext]_stubVars =>
          [\A d \in StubDll \cup RealDll, f \in StubFunc :
              phase # "registering" /\ ProcAddress(d, f) # -1 => ProcAddress(d, f)' = ProcAddress(d, f)]_stubVars
  BY StepKeepsAddress
<1> QED BY <1>1, <1>2, <1>3, <1>4, PTL DEF StubSpec, StubsBelongToTheirDll, AddressesStay

=============================================================================
