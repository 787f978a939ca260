--------------------------- MODULE VirtualMemory ---------------------------
(* VirtualAlloc, VirtualQuery and VirtualFree (kernel32_memory.py), in pages.*)
(* An allocation without an address takes the first gap after a cursor, or,  *)
(* when there is none, after the floor. Addresses are aligned to pages; a    *)
(* size of zero stands also for one that wraps to zero when it is rounded.   *)
EXTENDS Integers, FiniteSets

CONSTANTS
    VaStart, VaFloor, VaEnd,   \* _USER_VA_START, virtual_alloc_floor, _va_end()
    PageCounts,          \* sizes the guest asks for
    Tidy                 \* the program asks for no zero size, commits a region at
                         \* its base, and reserves none at an address it only committed

ASSUME VirtualMemoryAssumption ==
    /\ VaStart \in Nat /\ VaFloor \in Nat /\ VaEnd \in Nat
    /\ PageCounts \subseteq Nat

VARIABLES
    virtual_reserved,    \* base -> size
    virtual_committed,   \* the addresses committed at (their sizes are never read)
    next_virtual_alloc,  \* the cursor
    live_pages,          \* ghost: reservations handed out and not released
    stopped              \* an unsupported call has halted the program

vmVars == <<virtual_reserved, virtual_committed, next_virtual_alloc, live_pages, stopped>>

None == -1
Empty == [b \in {} |-> 0]
Forget(table, a) == [b \in DOMAIN table \ {a} |-> table[b]]
Entered(table, a, n) == [b \in DOMAIN table \cup {a} |-> IF b = a THEN n ELSE table[b]]
Pages(a, n) == a .. a + n - 1

VmInit ==
    /\ virtual_reserved = Empty /\ virtual_committed = {}
    /\ next_virtual_alloc = VaFloor /\ live_pages = {} /\ stopped = FALSE

---------------------------------------------------------------------------
Region(a) == {b \in DOMAIN virtual_reserved : b <= a /\ a < b + virtual_reserved[b]}

(* _overlaps_reserved *)
Overlaps(a, n) ==
    \E b \in DOMAIN virtual_reserved : a < b + virtual_reserved[b] /\ b < a + n

(* The candidate after the region at b, if one is there, has been looked at, *)
(* for n pages. One that leaves room before it ends the search: the regions  *)
(* come in the order of their bases, so the later ones are not in the way.   *)
Past(at, b, n) ==
    IF b \notin DOMAIN virtual_reserved \/ b + virtual_reserved[b] <= at \/ at + n <= b
    THEN at ELSE b + virtual_reserved[b]

(* The candidates: the i-th is that of the regions with bases below i. *)
Candidates(from, n) ==
    LET at[i \in 0..(VaEnd + 1)] ==
            IF i = 0 THEN IF from < VaFloor THEN VaFloor ELSE from ELSE Past(at[i - 1], i - 1, n)
    IN at

Gap(from, n) == Candidates(from, n)[VaEnd + 1]

(* _find_free_range *)
FreeRange(n) ==
    IF Gap(next_virtual_alloc, n) + n <= VaEnd THEN Gap(next_virtual_alloc, n)
    ELSE IF Gap(VaFloor, n) + n <= VaEnd THEN Gap(VaFloor, n) ELSE None

---------------------------------------------------------------------------
Halt == stopped' = TRUE /\ UNCHANGED <<virtual_reserved, virtual_committed, next_virtual_alloc, live_pages>>
Fail == UNCHANGED <<virtual_reserved, virtual_committed, next_virtual_alloc, live_pages, stopped>>

(* The tables after n pages at a are reserved and/or committed. *)
Take(a, n, type) ==
    /\ virtual_reserved' = IF "reserve" \in type THEN Entered(virtual_reserved, a, n) ELSE virtual_reserved
    /\ virtual_committed' = IF "commit" \in type THEN virtual_committed \cup {a} ELSE virtual_committed
    /\ live_pages' = IF "reserve" \in type THEN live_pages \cup {<<a, n>>} ELSE live_pages
    /\ UNCHANGED stopped

(* VirtualAlloc(NULL, n, type); MEM_COMMIT alone reserves too. *)
AllocAnywhere(n, type) ==
    LET a == FreeRange(n)
    IN IF a = None THEN Fail
       ELSE /\ Take(a, n, IF type = {"commit"} THEN {"commit", "reserve"} ELSE type)
            /\ next_virtual_alloc' = a + n

(* VirtualAlloc(a, n, MEM_COMMIT) *)
Commit(a, n) ==
    IF Region(a) = {} THEN Halt
    ELSE Take(a, n, {"commit"}) /\ UNCHANGED next_virtual_alloc

(* Mutant: the range is not compared with the reservations. *)
Refused_Bounds(a, n, type) == a < VaStart \/ a + n > VaEnd
Refused(a, n, type) == a < VaStart \/ a + n > VaEnd \/ ("reserve" \in type /\ Overlaps(a, n))

(* VirtualAlloc(a, n, type) of any other type *)
AllocAt(a, n, type) ==
    IF Refused(a, n, type) THEN Fail
    ELSE /\ Take(a, n, type)
         /\ next_virtual_alloc' = IF a + n > next_virtual_alloc THEN a + n ELSE next_virtual_alloc

IsTidy(a, n, type) ==
    /\ n > 0 /\ type # {}
    /\ type = {"commit"} => a = 0 \/ a \in DOMAIN virtual_reserved

VirtualAlloc(a, n, type) ==
    /\ Tidy => IsTidy(a, n, type)
    /\ IF a = 0 THEN AllocAnywhere(n, type)
       ELSE IF type = {"commit"} THEN Commit(a, n) ELSE AllocAt(a, n, type)

Released(a) == virtual_committed \ {a}

(* VirtualFree(a, 0, MEM_RELEASE) *)
Release(a) ==
    IF a \notin DOMAIN virtual_reserved THEN Halt
    ELSE /\ virtual_reserved' = Forget(virtual_reserved, a)
         /\ virtual_committed' = Released(a)
         /\ live_pages' = {r \in live_pages : r[1] # a}
         /\ UNCHANGED <<next_virtual_alloc, stopped>>

(* VirtualFree(a, n, MEM_DECOMMIT) *)
Decommit(a) ==
    /\ virtual_committed' = virtual_committed \ {a}
    /\ UNCHANGED <<virtual_reserved, next_virtual_alloc, live_pages, stopped>>

(* VirtualQuery halts at an address that is in no region. *)
VirtualQuery(a) == Region(a) = {} /\ Halt

VmNext ==
    /\ ~stopped
    /\ \/ \E a \in {0} \cup (VaStart - 1)..VaEnd, n \in PageCounts, type \in SUBSET {"commit", "reserve"} :
            VirtualAlloc(a, n, type)
       \/ \E a \in VaStart..VaEnd : Release(a) \/ Decommit(a) \/ VirtualQuery(a)

VmSpec == VmInit /\ [][VmNext]_vmVars

---------------------------------------------------------------------------
(* No page is given to two owners: reservations that were handed out and not *)
(* released are disjoint, in a program that asks for no zero size (one does  *)
(* not overlap anything, and takes the entry of a region at its base).       *)
NoPageTwice ==
    Tidy => \A r, s \in live_pages : r # s => Pages(r[1], r[2]) \cap Pages(s[1], s[2]) = {}

(* _find_free_range: "first gap of size bytes at or after the cursor, then   *)
(* from the floor, so ranges released by VirtualFree are reused": it fails   *)
(* only when there is no gap, and gives the first one.                       *)
FindsFirstGap ==
    \A n \in PageCounts \ {0} :
        LET gaps == {a \in VaFloor..(VaEnd - n) : ~Overlaps(a, n)}
            ahead == {a \in gaps : a >= next_virtual_alloc}
            first(set) == CHOOSE a \in set : \A b \in set : a <= b
        IN FreeRange(n) = IF ahead # {} THEN first(ahead) ELSE IF gaps # {} THEN first(gaps) ELSE None

(* VirtualQuery calls no region committed that was only reserved, in such a  *)
(* program: what was committed is forgotten when its region is released.     *)
CommittedIsReserved == Tidy => virtual_committed \subseteq DOMAIN virtual_reserved

(* The tables of the address space: no page twice, none that is free refused, *)
(* none committed that is not reserved.                                      *)
PagesAreKept == NoPageTwice /\ FindsFirstGap /\ CommittedIsReserved
=============================================================================
