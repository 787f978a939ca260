--------------------------- MODULE CriticalSection ---------------------------
(***************************************************************************)
(* A critical section as the guest x86 code of kernel32_sync.py implements *)
(* it: EnterCriticalSection, LeaveCriticalSection, TryEnterCriticalSection *)
(* and the two traps into Python, _cs_enter_wait and _cs_leave_wake, with  *)
(* InitializeCriticalSection and DeleteCriticalSection.                    *)
(*                                                                         *)
(* A time slice ends after any instruction, so each access to the shared   *)
(* fields is a step of its own, and pc[t] names the instruction thread t   *)
(* executes next.  A trap into Python is one instruction, hence one step.  *)
(***************************************************************************)
EXTENDS Integers, FiniteSets, Functions

CONSTANTS
    Thread,      \* the threads that use the section
    NoOwner,     \* OwningThread = 0
    MaxDepth,    \* bound on the recursion of the guest program
    MaxSems,     \* bound on the LockSemaphore handles created
    MayDie       \* the threads that can be terminated

ASSUME ThreadAssumption == IsFiniteSet(Thread)
ASSUME OwnerAssumption == NoOwner \notin Thread
ASSUME DepthAssumption == MaxDepth \in Nat \ {0}
ASSUME SemsAssumption  == MaxSems \in Nat
ASSUME DieAssumption   == MayDie \subseteq Thread

VARIABLES
    initialized,     \* between InitializeCriticalSection and DeleteC...
    LockCount,       \* -1 when free
    RecursionCount,
    OwningThread,
    LockSemaphore,   \* handle of the auto-reset event, 0 until it is needed
    signaled,        \* that event's state
    events,          \* live semaphore handles in kernel_handle_map
    next_sem,        \* next_kernel_handle
    blocked,         \* threads the scheduler has blocked on LockSemaphore
    pc,              \* the instruction each thread executes next
    depth            \* how often the program of each thread is inside

fields == <<LockCount, RecursionCount, OwningThread>>
event  == <<LockSemaphore, signaled, events, next_sem>>
vars   == <<initialized, fields, event, blocked, pc, depth>>

Location ==
    {"guest",                                      \* outside these functions
     "busy", "rec", "wait", "own", "ownrec",       \* inside Enter
     "leave", "free", "unlock", "nested", "wake",  \* inside Leave
     "tbusy", "tlock", "trec",                     \* inside TryEnter
     "dead"}

TypeOK ==
    /\ initialized \in BOOLEAN
    /\ LockCount \in Int
    /\ RecursionCount \in Int
    /\ OwningThread \in Thread \cup {NoOwner}
    /\ LockSemaphore \in 0 .. MaxSems
    /\ signaled \in BOOLEAN
    /\ events \subseteq 1 .. MaxSems
    /\ next_sem \in 1 .. MaxSems + 1
    /\ blocked \subseteq Thread
    /\ pc \in [Thread -> Location]
    /\ depth \in [Thread -> 0 .. MaxDepth]

Init ==
    /\ initialized = FALSE
    /\ LockCount = 0
    /\ RecursionCount = 0
    /\ OwningThread = NoOwner
    /\ LockSemaphore = 0
    /\ signaled = FALSE
    /\ events = {}
    /\ next_sem = 1
    /\ blocked = {}
    /\ pc = [t \in Thread |-> "guest"]
    /\ depth = [t \in Thread |-> 0]

At(t, loc)   == pc[t] = loc /\ t \notin blocked
Goto(t, loc) == pc' = [pc EXCEPT ![t] = loc]

-----------------------------------------------------------------------------
(* Initialize and Delete, called when no thread uses the section.          *)

Unused == \A t \in Thread : pc[t] \in {"guest", "dead"} /\ depth[t] = 0

\* _write_initialized_cs
InitializeCriticalSection ==
    /\ ~ initialized
    /\ initialized' = TRUE
    /\ LockCount' = -1
    /\ RecursionCount' = 0
    /\ OwningThread' = NoOwner
    /\ LockSemaphore' = 0
    /\ UNCHANGED <<signaled, events, next_sem, blocked, pc, depth>>

\* _delete_cs: closes LockSemaphore if there is one and zeroes the struct.
DeleteCriticalSection ==
    /\ initialized
    /\ Unused
    /\ initialized' = FALSE
    /\ LockCount' = 0
    /\ RecursionCount' = 0
    /\ OwningThread' = NoOwner
    /\ LockSemaphore' = 0
    /\ signaled' = FALSE
    /\ events' = events \ {LockSemaphore}
    /\ UNCHANGED <<next_sem, blocked, pc, depth>>

-----------------------------------------------------------------------------
(* _lock_semaphore: the event, created on first need.                      *)

CanLockSemaphore == LockSemaphore # 0 \/ next_sem <= MaxSems

EnsureSemaphore ==
    IF LockSemaphore = 0
    THEN /\ LockSemaphore' = next_sem
         /\ events' = events \cup {next_sem}
         /\ next_sem' = next_sem + 1
    ELSE UNCHANGED <<LockSemaphore, events, next_sem>>

IsSignaled == LockSemaphore # 0 /\ signaled

-----------------------------------------------------------------------------
(* EnterCriticalSection                                                    *)

Enter(t) ==       \* lock inc LockCount; jnz .busy
    /\ initialized
    /\ At(t, "guest")
    /\ depth[t] < MaxDepth
    /\ LockCount' = LockCount + 1
    /\ Goto(t, IF LockCount + 1 = 0 THEN "own" ELSE "busy")
    /\ UNCHANGED <<initialized, RecursionCount, OwningThread, event, blocked, depth>>

Busy(t) ==        \* cmp OwningThread, me; jne .wait
    /\ At(t, "busy")
    /\ Goto(t, IF OwningThread = t THEN "rec" ELSE "wait")
    /\ UNCHANGED <<initialized, fields, event, blocked, depth>>

Recurse(t) ==     \* inc RecursionCount; ret
    /\ At(t, "rec")
    /\ RecursionCount' = RecursionCount + 1
    /\ depth' = [depth EXCEPT ![t] = @ + 1]
    /\ Goto(t, "guest")
    /\ UNCHANGED <<initialized, LockCount, OwningThread, event, blocked>>

\* Mutant of TakeHandoff: the event is not reset.
TakeHandoff_ManualReset(t) ==
    /\ At(t, "wait")
    /\ IsSignaled
    /\ Goto(t, "own")
    /\ UNCHANGED <<initialized, fields, event, blocked, depth>>

(***************************************************************************)
(* _cs_enter_wait.  A signaled event is taken and with it the section: the *)
(* thread goes on to .own.  Otherwise the scheduler blocks the thread, or, *)
(* when it finds no other thread to run (or refuses, in a nested call),    *)
(* leaves it ready; either way it executes this trap again.                *)
(***************************************************************************)
TakeHandoff(t) ==
    /\ At(t, "wait")
    /\ IsSignaled
    /\ signaled' = FALSE
    /\ Goto(t, "own")
    /\ UNCHANGED <<initialized, fields, LockSemaphore, events, next_sem, blocked, depth>>

EnterWait(t) ==
    /\ At(t, "wait")
    /\ ~ IsSignaled
    /\ CanLockSemaphore
    /\ EnsureSemaphore
    /\ \/ /\ \E u \in Thread \ {t} : u \notin blocked
          /\ blocked' = blocked \cup {t}
       \/ UNCHANGED blocked
    /\ UNCHANGED <<initialized, fields, signaled, pc, depth>>

Own(t) ==         \* mov OwningThread, me
    /\ At(t, "own")
    /\ OwningThread' = t
    /\ Goto(t, "ownrec")
    /\ UNCHANGED <<initialized, LockCount, RecursionCount, event, blocked, depth>>

OwnRec(t) ==      \* mov RecursionCount, 1; ret
    /\ At(t, "ownrec")
    /\ RecursionCount' = 1
    /\ depth' = [depth EXCEPT ![t] = @ + 1]
    /\ Goto(t, "guest")
    /\ UNCHANGED <<initialized, LockCount, OwningThread, event, blocked>>

-----------------------------------------------------------------------------
(* LeaveCriticalSection, called by a thread that is inside                 *)

Leave(t) ==       \* dec RecursionCount; jnz .nested
    /\ At(t, "guest")
    /\ depth[t] > 0
    /\ RecursionCount' = RecursionCount - 1
    /\ depth' = [depth EXCEPT ![t] = @ - 1]
    /\ Goto(t, IF RecursionCount - 1 = 0 THEN "free" ELSE "nested")
    /\ UNCHANGED <<initialized, LockCount, OwningThread, event, blocked>>

\* Mutant of Free: the owner stays in the struct.
Free_KeepsOwner(t) ==
    /\ At(t, "free")
    /\ Goto(t, "unlock")
    /\ UNCHANGED <<initialized, fields, event, blocked, depth>>

\* Mutant of Unlock: the event is signaled when nobody waits, too.
Unlock_AlwaysWakes(t) ==
    /\ At(t, "unlock")
    /\ LockCount' = LockCount - 1
    /\ Goto(t, "wake")
    /\ UNCHANGED <<initialized, RecursionCount, OwningThread, event, blocked, depth>>

Free(t) ==        \* mov OwningThread, 0
    /\ At(t, "free")
    /\ OwningThread' = NoOwner
    /\ Goto(t, "unlock")
    /\ UNCHANGED <<initialized, LockCount, RecursionCount, event, blocked, depth>>

Unlock(t) ==      \* lock dec LockCount; jge .wake
    /\ At(t, "unlock")
    /\ LockCount' = LockCount - 1
    /\ Goto(t, IF LockCount - 1 >= 0 THEN "wake" ELSE "guest")
    /\ UNCHANGED <<initialized, RecursionCount, OwningThread, event, blocked, depth>>

LeaveNested(t) == \* lock dec LockCount; ret
    /\ At(t, "nested")
    /\ LockCount' = LockCount - 1
    /\ Goto(t, "guest")
    /\ UNCHANGED <<initialized, RecursionCount, OwningThread, event, blocked, depth>>

\* Mutant of LeaveWake: the event is set and the scheduler is not told.
LeaveWake_Silent(t) ==
    /\ At(t, "wake")
    /\ CanLockSemaphore
    /\ EnsureSemaphore
    /\ signaled' = TRUE
    /\ Goto(t, "guest")
    /\ UNCHANGED <<initialized, fields, blocked, depth>>

\* _cs_leave_wake: signal the event and make every thread blocked on it ready.
LeaveWake(t) ==
    /\ At(t, "wake")
    /\ CanLockSemaphore
    /\ EnsureSemaphore
    /\ signaled' = TRUE
    /\ blocked' = {}
    /\ Goto(t, "guest")
    /\ UNCHANGED <<initialized, fields, depth>>

-----------------------------------------------------------------------------
(* TryEnterCriticalSection                                                 *)

TryEnter(t) ==    \* lock cmpxchg LockCount, -1 -> 0; jne .tbusy
    /\ initialized
    /\ At(t, "guest")
    /\ depth[t] < MaxDepth
    /\ IF LockCount = -1
       THEN LockCount' = 0 /\ Goto(t, "own")
       ELSE UNCHANGED LockCount /\ Goto(t, "tbusy")
    /\ UNCHANGED <<initialized, RecursionCount, OwningThread, event, blocked, depth>>

TryBusy(t) ==     \* cmp OwningThread, me; jne .tfail
    /\ At(t, "tbusy")
    /\ Goto(t, IF OwningThread = t THEN "tlock" ELSE "guest")
    /\ UNCHANGED <<initialized, fields, event, blocked, depth>>

TryLock(t) ==     \* lock inc LockCount
    /\ At(t, "tlock")
    /\ LockCount' = LockCount + 1
    /\ Goto(t, "trec")
    /\ UNCHANGED <<initialized, RecursionCount, OwningThread, event, blocked, depth>>

TryRec(t) ==      \* inc RecursionCount; ret
    /\ At(t, "trec")
    /\ RecursionCount' = RecursionCount + 1
    /\ depth' = [depth EXCEPT ![t] = @ + 1]
    /\ Goto(t, "guest")
    /\ UNCHANGED <<initialized, LockCount, OwningThread, event, blocked>>

-----------------------------------------------------------------------------
\* TerminateThread or ExitThread: nothing is released, LockCount stays.
Die(t) ==
    /\ t \in MayDie
    /\ pc[t] # "dead"
    /\ Goto(t, "dead")
    /\ blocked' = blocked \ {t}
    /\ UNCHANGED <<initialized, fields, event, depth>>

\* The instructions of the three functions, which a thread that has begun
\* one goes on executing.
Step(t) ==
    \/ Busy(t)   \/ Recurse(t) \/ TakeHandoff(t) \/ EnterWait(t)
    \/ Own(t)    \/ OwnRec(t)
    \/ Free(t)   \/ Unlock(t)  \/ LeaveNested(t) \/ LeaveWake(t)
    \/ TryBusy(t) \/ TryLock(t) \/ TryRec(t)

Next ==
    \/ InitializeCriticalSection
    \/ DeleteCriticalSection
    \/ \E t \in Thread : \/ Enter(t) \/ TryEnter(t) \/ Leave(t)
                         \/ Step(t)  \/ Die(t)

Spec == Init /\ [][Next]_vars
(***************************************************************************)
(* The scheduler runs every ready thread again and again, so a thread that *)
(* has begun one of these functions executes its next instruction unless   *)
(* it is blocked.  Nothing makes the guest call or leave anything.         *)
(***************************************************************************)
Fairness == \A t \in Thread : WF_vars(Step(t))

FairSpec == Spec /\ Fairness

-----------------------------------------------------------------------------
(* Properties.                                                             *)

NobodyDied == \A t \in Thread : pc[t] # "dead"

\* The threads that own the section or are about to: from the instruction
\* that acquired it to the one that passed it on.
Possesses(t) ==
    pc[t] \in {"own", "ownrec", "free", "unlock", "wake"} \/ depth[t] > 0

\* Between calls, the thread inside is the one the struct names, with its
\* depth: no other thread's interrupted Enter or Leave ever writes over it
\* (tew/api/kernel32_sync.py:115-173).
OwnerIsRecorded ==
    \A t \in Thread : (depth[t] > 0 /\ pc[t] = "guest") =>
        OwningThread = t /\ RecursionCount = depth[t]

\* A signaled LockSemaphore is the section itself on its way to one waiter:
\* nobody possesses it meanwhile, it is not free, and no waiter sleeps on
\* (tew/api/kernel32_sync.py:195-209).
HandoffIsExclusive ==
    signaled => /\ \A t \in Thread : ~ Possesses(t)
                /\ LockCount >= 0
                /\ blocked = {}

\* LockCount counts the owner's entries plus every waiter, as the comment at
\* tew/api/kernel32_sync.py:107-108 says, at every instruction boundary.
Counted(t) ==
    depth[t] +
    (IF pc[t] \in {"busy", "rec", "wait", "own", "ownrec",
                   "free", "unlock", "nested", "trec"} THEN 1 ELSE 0)

LockCountIsExact ==
    (initialized /\ NobodyDied) =>
        LockCount + 1 = FoldFunction(+, 0, [t \in Thread |-> Counted(t)])

\* Deleting the section closes its semaphore: no handle outlives it
\* (tew/api/kernel32_sync.py:225-239).
NoSemaphoreLeak == events = {LockSemaphore} \ {0}

\* The fields of the structure and its semaphore tell the truth whenever one
\* instruction of Enter, Leave, TryEnter or Delete follows another's.
FieldsAreExact == HandoffIsExclusive /\ LockCountIsExact /\ NoSemaphoreLeak

\* A hand-off is taken by somebody: a Leave that found waiters does not leave
\* the section signaled forever, unless the waiter it counted was terminated
\* (tew/api/kernel32_sync.py:195-209).
HandoffIsTaken == signaled ~> (~ signaled \/ ~ NobodyDied)

\* The guest code implements a recursive lock.
AbstractLock == INSTANCE Lock WITH depth <- depth
ImplementsLock == AbstractLock!Spec
=============================================================================
