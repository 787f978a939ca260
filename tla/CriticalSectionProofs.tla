------------------------ MODULE CriticalSectionProofs ------------------------
(***************************************************************************)
(* What holds of CriticalSection for any number of threads, any recursion  *)
(* and any set of threads that may be terminated: the guest code excludes  *)
(* mutually, its struct names the owner, a hand-off is exclusive, and the  *)
(* whole implements the recursive lock of module Lock.                     *)
(***************************************************************************)
EXTENDS CriticalSection, DataLemmas

-----------------------------------------------------------------------------
(* The inductive invariant.                                                *)

\* The section is in one hand.
OnePossessor == \A t, u \in Thread : Possesses(t) /\ Possesses(u) => t = u

\* Outside its lifetime nobody is in it or on the way.
UnusedWhenDeleted ==
    ~ initialized => Unused /\ ~ signaled

\* A signaled event carries the section.
SignalCarries == signaled => LockSemaphore # 0 /\ HandoffIsExclusive

\* -1 means that the section is free.
FreeMeansFree ==
    initialized => /\ LockCount >= -1
                   /\ LockCount = -1 => ~ signaled /\ \A t \in Thread : ~ Possesses(t)

\* The possessor's own share of LockCount, without which a nested Leave could
\* bring it to -1 while the thread is inside.
OwnShare(t) == Possesses(t) => Counted(t) <= LockCount + 1

\* What the program counter of a thread says about the struct.
Located(t) ==
    /\ depth[t] > 0 => OwningThread = t /\ RecursionCount = depth[t]
    /\ pc[t] \in {"ownrec", "free"} => OwningThread = t
    /\ OwningThread = t =>
         depth[t] > 0 \/ pc[t] \in {"ownrec", "free", "dead"}
    /\ pc[t] \in {"wait", "own", "ownrec", "free", "unlock", "wake"} => depth[t] = 0
    /\ pc[t] \in {"rec", "tlock", "trec", "nested"} => depth[t] > 0
    /\ pc[t] \in {"busy", "rec", "own", "ownrec", "tbusy", "tlock", "trec", "wait"}
         => depth[t] < MaxDepth

Inv ==
    /\ TypeOK
    /\ OnePossessor
    /\ UnusedWhenDeleted
    /\ SignalCarries
    /\ FreeMeansFree
    /\ \A t \in Thread : OwnShare(t) /\ Located(t)

-----------------------------------------------------------------------------
\* The program starts with a section nobody has initialized.
LEMMA InitInv == Init => Inv
<1> SUFFICES ASSUME Init PROVE Inv
  OBVIOUS
<1>1. TypeOK
  <2>1. pc \in [Thread -> Location]
    BY DEF Init, Location
  <2>2. depth \in [Thread -> 0 .. MaxDepth]
    BY DepthAssumption DEF Init
  <2>3. LockSemaphore \in 0 .. MaxSems /\ next_sem \in 1 .. MaxSems + 1
    BY SemsAssumption DEF Init
  <2>4. initialized \in BOOLEAN /\ signaled \in BOOLEAN
    BY DEF Init
  <2> QED
    BY <2>1, <2>2, <2>3, <2>4 DEF Init, TypeOK
<1>2. \A t \in Thread : pc[t] = "guest" /\ depth[t] = 0
  BY DEF Init
<1>3. OnePossessor /\ \A t \in Thread : ~ Possesses(t)
  BY <1>2 DEF OnePossessor, Possesses
<1>4. \A t \in Thread : OwnShare(t) /\ Located(t)
  BY <1>2, <1>3, OwnerAssumption DEF Init, OwnShare, Located
<1> QED
  BY <1>1, <1>2, <1>3, <1>4
  DEF Init, Inv, UnusedWhenDeleted, Unused, SignalCarries, FreeMeansFree

-----------------------------------------------------------------------------
(* One lemma per instruction.                                              *)

\* The event is there once it has been asked for.
LEMMA EnsureTypes ==
    ASSUME TypeOK, CanLockSemaphore, EnsureSemaphore
    PROVE  /\ LockSemaphore' \in 1 .. MaxSems
           /\ events' \subseteq 1 .. MaxSems
           /\ next_sem' \in 1 .. MaxSems + 1
<1>1. CASE LockSemaphore = 0
  <2>1. next_sem \in 1 .. MaxSems
    BY <1>1, SemsAssumption DEF TypeOK, CanLockSemaphore
  <2>2. LockSemaphore' \in 1 .. MaxSems /\ next_sem' \in 1 .. MaxSems + 1
    BY <1>1, <2>1, SemsAssumption DEF EnsureSemaphore
  <2>3. events' \subseteq 1 .. MaxSems
    BY <1>1, <2>1 DEF TypeOK, EnsureSemaphore
  <2> QED BY <2>2, <2>3
<1>2. CASE LockSemaphore # 0
  <2>1. UNCHANGED <<LockSemaphore, events, next_sem>>
    BY <1>2 DEF EnsureSemaphore
  <2>2. LockSemaphore \in 1 .. MaxSems
    BY <1>2, SemsAssumption DEF TypeOK
  <2> QED BY <2>1, <2>2 DEF TypeOK
<1> QED BY <1>1, <1>2

\* Enter preserves Inv.
LEMMA EnterInv ==
    ASSUME Inv, NEW t \in Thread, Enter(t)
    PROVE  Inv'
<1> USE DEF Inv, Enter, At, Goto, fields, event
<1>1. TypeOK'
  BY DEF TypeOK, Location
<1>2. OnePossessor'
  BY DEF TypeOK, OnePossessor, Possesses, FreeMeansFree
<1>3. UnusedWhenDeleted'
  BY DEF UnusedWhenDeleted
<1>4. SignalCarries'
  BY DEF TypeOK, SignalCarries, HandoffIsExclusive, Possesses
<1>5. FreeMeansFree'
  BY DEF TypeOK, FreeMeansFree
<1>6. \A u \in Thread : OwnShare(u)'
  BY DEF TypeOK, OwnShare, Possesses, Counted
<1>7. \A u \in Thread : Located(u)'
  BY DEF TypeOK, Located, Possesses, FreeMeansFree
<1> QED
  BY <1>1, <1>2, <1>3, <1>4, <1>5, <1>6, <1>7

\* Busy preserves Inv.
LEMMA BusyInv ==
    ASSUME Inv, NEW t \in Thread, Busy(t)
    PROVE  Inv'
<1> USE DEF Inv, Busy, At, Goto, fields, event
<1>1. TypeOK'
  BY DEF TypeOK, Location
<1>2. OnePossessor'
  BY DEF OnePossessor, Possesses
<1>3. UnusedWhenDeleted'
  BY DEF UnusedWhenDeleted, Unused
<1>4. SignalCarries'
  BY DEF SignalCarries, HandoffIsExclusive, Possesses
<1>5. FreeMeansFree'
  BY DEF FreeMeansFree, Possesses
<1>6. \A u \in Thread : OwnShare(u)'
  BY DEF OwnShare, Possesses, Counted
<1>7. \A u \in Thread : Located(u)'
  BY DEF TypeOK, Located
<1> QED
  BY <1>1, <1>2, <1>3, <1>4, <1>5, <1>6, <1>7

\* Recurse preserves Inv.
LEMMA RecurseInv ==
    ASSUME Inv, NEW t \in Thread, Recurse(t)
    PROVE  Inv'
<1> USE DEF Inv, Recurse, At, Goto, fields, event
<1>1. TypeOK'
  BY DepthAssumption DEF TypeOK, Location, Located
<1>2. OnePossessor'
  BY DEF OnePossessor, Possesses, Located
<1>3. UnusedWhenDeleted'
  BY DEF UnusedWhenDeleted, Unused
<1>4. SignalCarries'
  BY DEF SignalCarries, HandoffIsExclusive, Possesses, Located
<1>5. FreeMeansFree'
  BY DEF FreeMeansFree, Possesses, Located
<1>6. \A u \in Thread : OwnShare(u)'
  BY DEF TypeOK, OwnShare, Possesses, Counted, Located
<1>7. \A u \in Thread : Located(u)'
  BY DEF TypeOK, Located
<1> QED
  BY <1>1, <1>2, <1>3, <1>4, <1>5, <1>6, <1>7

\* TakeHandoff preserves Inv.
LEMMA TakeHandoffInv ==
    ASSUME Inv, NEW t \in Thread, TakeHandoff(t)
    PROVE  Inv'
<1> USE DEF Inv, TakeHandoff, At, Goto, fields, event
<1>1. TypeOK'
  BY DEF TypeOK, Location
<1>2. OnePossessor'
  BY DEF OnePossessor, Possesses, SignalCarries, HandoffIsExclusive, IsSignaled
<1>3. UnusedWhenDeleted'
  BY DEF UnusedWhenDeleted, Unused
<1>4. SignalCarries'
  BY DEF SignalCarries
<1>5. FreeMeansFree'
  BY DEF FreeMeansFree, IsSignaled
<1>6. \A u \in Thread : OwnShare(u)'
  BY DEF TypeOK, OwnShare, Possesses, Counted, SignalCarries, HandoffIsExclusive, IsSignaled
<1>7. \A u \in Thread : Located(u)'
  BY DEF Located
<1> QED
  BY <1>1, <1>2, <1>3, <1>4, <1>5, <1>6, <1>7

\* EnterWait preserves Inv.
LEMMA EnterWaitInv ==
    ASSUME Inv, NEW t \in Thread, EnterWait(t)
    PROVE  Inv'
<1> USE DEF Inv, EnterWait, At, Goto, fields, event
<1>1. TypeOK'
  <2>1. LockSemaphore' \in 1 .. MaxSems /\ events' \subseteq 1 .. MaxSems /\ next_sem' \in 1 .. MaxSems + 1
    BY EnsureTypes
  <2> QED BY <2>1, SemsAssumption DEF TypeOK, Location
<1>2. OnePossessor'
  BY DEF OnePossessor, Possesses
<1>3. UnusedWhenDeleted'
  BY DEF UnusedWhenDeleted, Unused
<1>4. SignalCarries'
  BY DEF SignalCarries, IsSignaled
<1>5. FreeMeansFree'
  BY DEF FreeMeansFree, Possesses
<1>6. \A u \in Thread : OwnShare(u)'
  BY DEF OwnShare, Possesses, Counted
<1>7. \A u \in Thread : Located(u)'
  BY DEF Located
<1> QED
  BY <1>1, <1>2, <1>3, <1>4, <1>5, <1>6, <1>7

\* Own preserves Inv.
LEMMA OwnInv ==
    ASSUME Inv, NEW t \in Thread, Own(t)
    PROVE  Inv'
<1> USE DEF Inv, Own, At, Goto, fields, event
<1>1. TypeOK'
  BY DEF TypeOK, Location
<1>2. OnePossessor'
  BY DEF OnePossessor, Possesses
<1>3. UnusedWhenDeleted'
  BY DEF UnusedWhenDeleted, Unused
<1>4. SignalCarries'
  BY DEF SignalCarries, HandoffIsExclusive, Possesses
<1>5. FreeMeansFree'
  BY DEF FreeMeansFree, Possesses
<1>6. \A u \in Thread : OwnShare(u)'
  BY DEF OwnShare, Possesses, Counted
<1>7. \A u \in Thread : Located(u)'
  BY DEF TypeOK, Located, Possesses, OnePossessor
<1> QED
  BY <1>1, <1>2, <1>3, <1>4, <1>5, <1>6, <1>7

\* OwnRec preserves Inv.
LEMMA OwnRecInv ==
    ASSUME Inv, NEW t \in Thread, OwnRec(t)
    PROVE  Inv'
<1> USE DEF Inv, OwnRec, At, Goto, fields, event
<1>1. TypeOK'
  BY DepthAssumption DEF TypeOK, Location, Located
<1>2. OnePossessor'
  BY DEF OnePossessor, Possesses
<1>3. UnusedWhenDeleted'
  BY DEF UnusedWhenDeleted, Unused
<1>4. SignalCarries'
  BY DEF SignalCarries, HandoffIsExclusive, Possesses
<1>5. FreeMeansFree'
  BY DEF FreeMeansFree, Possesses
<1>6. \A u \in Thread : OwnShare(u)'
  BY DEF TypeOK, OwnShare, Possesses, Counted
<1>7. \A u \in Thread : Located(u)'
  BY DEF TypeOK, Located
<1> QED
  BY <1>1, <1>2, <1>3, <1>4, <1>5, <1>6, <1>7

\* Leave preserves Inv.
LEMMA LeaveInv ==
    ASSUME Inv, NEW t \in Thread, Leave(t)
    PROVE  Inv'
<1> USE DEF Inv, Leave, At, Goto, fields, event
<1>1. TypeOK'
  BY DepthAssumption DEF TypeOK, Location
<1>2. OnePossessor'
  BY DEF OnePossessor, Possesses
<1>3. UnusedWhenDeleted'
  BY DEF UnusedWhenDeleted, Unused
<1>4. SignalCarries'
  BY DEF SignalCarries, HandoffIsExclusive, Possesses
<1>5. FreeMeansFree'
  BY DEF FreeMeansFree, Possesses
<1>6. \A u \in Thread : OwnShare(u)'
  BY DEF TypeOK, OwnShare, Possesses, Counted
<1>7. \A u \in Thread : Located(u)'
  BY DEF TypeOK, Located
<1> QED
  BY <1>1, <1>2, <1>3, <1>4, <1>5, <1>6, <1>7

\* Free preserves Inv.
LEMMA FreeInv ==
    ASSUME Inv, NEW t \in Thread, Free(t)
    PROVE  Inv'
<1> USE DEF Inv, Free, At, Goto, fields, event
<1>1. TypeOK'
  BY DEF TypeOK, Location
<1>2. OnePossessor'
  BY DEF OnePossessor, Possesses
<1>3. UnusedWhenDeleted'
  BY DEF UnusedWhenDeleted, Unused
<1>4. SignalCarries'
  BY DEF SignalCarries, HandoffIsExclusive, Possesses
<1>5. FreeMeansFree'
  BY DEF FreeMeansFree, Possesses
<1>6. \A u \in Thread : OwnShare(u)'
  BY DEF OwnShare, Possesses, Counted
<1>7. \A u \in Thread : Located(u)'
  BY OwnerAssumption DEF TypeOK, Located
<1> QED
  BY <1>1, <1>2, <1>3, <1>4, <1>5, <1>6, <1>7

\* Unlock preserves Inv.
LEMMA UnlockInv ==
    ASSUME Inv, NEW t \in Thread, Unlock(t)
    PROVE  Inv'
<1> USE DEF Inv, Unlock, At, Goto, fields, event
<1>1. TypeOK'
  BY DEF TypeOK, Location
<1>2. OnePossessor'
  BY DEF OnePossessor, Possesses
<1>3. UnusedWhenDeleted'
  BY DEF UnusedWhenDeleted, Unused
<1>4. SignalCarries'
  BY DEF SignalCarries, HandoffIsExclusive, Possesses
<1>5. FreeMeansFree'
  BY DEF TypeOK, FreeMeansFree, Possesses, OnePossessor, OwnShare, Counted, SignalCarries, HandoffIsExclusive, Located, UnusedWhenDeleted, Unused, IsSignaled
<1>6. \A u \in Thread : OwnShare(u)'
  BY DEF TypeOK, OwnShare, Possesses, Counted, OnePossessor
<1>7. \A u \in Thread : Located(u)'
  BY DEF Located
<1> QED
  BY <1>1, <1>2, <1>3, <1>4, <1>5, <1>6, <1>7

\* LeaveNested preserves Inv.
LEMMA LeaveNestedInv ==
    ASSUME Inv, NEW t \in Thread, LeaveNested(t)
    PROVE  Inv'
<1> USE DEF Inv, LeaveNested, At, Goto, fields, event
<1>1. TypeOK'
  BY DEF TypeOK, Location
<1>2. OnePossessor'
  BY DEF OnePossessor, Possesses
<1>3. UnusedWhenDeleted'
  BY DEF UnusedWhenDeleted, Unused
<1>4. SignalCarries'
  BY DEF SignalCarries, HandoffIsExclusive, Possesses, Located
<1>5. FreeMeansFree'
  BY DEF TypeOK, FreeMeansFree, Possesses, OwnShare, Counted, Located
<1>6. \A u \in Thread : OwnShare(u)'
  BY DEF TypeOK, OwnShare, Possesses, Counted, Located
<1>7. \A u \in Thread : Located(u)'
  BY DEF Located
<1> QED
  BY <1>1, <1>2, <1>3, <1>4, <1>5, <1>6, <1>7

\* LeaveWake preserves Inv.
LEMMA LeaveWakeInv ==
    ASSUME Inv, NEW t \in Thread, LeaveWake(t)
    PROVE  Inv'
<1> USE DEF Inv, LeaveWake, At, Goto, fields, event
<1>1. TypeOK'
  <2>1. LockSemaphore' \in 1 .. MaxSems /\ events' \subseteq 1 .. MaxSems /\ next_sem' \in 1 .. MaxSems + 1
    BY EnsureTypes
  <2> QED BY <2>1, SemsAssumption DEF TypeOK, Location
<1>2. OnePossessor'
  BY DEF OnePossessor, Possesses
<1>3. UnusedWhenDeleted'
  BY DEF UnusedWhenDeleted, Unused
<1>4. SignalCarries'
  BY EnsureTypes DEF TypeOK, OnePossessor, UnusedWhenDeleted, Unused, SignalCarries, HandoffIsExclusive, Possesses, FreeMeansFree, Located
<1>5. FreeMeansFree'
  BY DEF FreeMeansFree, Possesses
<1>6. \A u \in Thread : OwnShare(u)'
  BY DEF OwnShare, Possesses, Counted
<1>7. \A u \in Thread : Located(u)'
  BY DEF Located
<1> QED
  BY <1>1, <1>2, <1>3, <1>4, <1>5, <1>6, <1>7

\* TryEnter preserves Inv.
LEMMA TryEnterInv ==
    ASSUME Inv, NEW t \in Thread, TryEnter(t)
    PROVE  Inv'
<1> USE DEF Inv, TryEnter, At, Goto, fields, event
<1>1. TypeOK'
  BY DEF TypeOK, Location
<1>2. OnePossessor'
  BY DEF TypeOK, OnePossessor, Possesses, FreeMeansFree
<1>3. UnusedWhenDeleted'
  BY DEF UnusedWhenDeleted
<1>4. SignalCarries'
  BY DEF TypeOK, SignalCarries, HandoffIsExclusive, Possesses
<1>5. FreeMeansFree'
  BY DEF FreeMeansFree
<1>6. \A u \in Thread : OwnShare(u)'
  BY DEF TypeOK, OwnShare, Possesses, Counted
<1>7. \A u \in Thread : Located(u)'
  BY DEF TypeOK, Located, Possesses, FreeMeansFree
<1> QED
  BY <1>1, <1>2, <1>3, <1>4, <1>5, <1>6, <1>7

\* TryBusy preserves Inv.
LEMMA TryBusyInv ==
    ASSUME Inv, NEW t \in Thread, TryBusy(t)
    PROVE  Inv'
<1> USE DEF Inv, TryBusy, At, Goto, fields, event
<1>1. TypeOK'
  BY DEF TypeOK, Location
<1>2. OnePossessor'
  BY DEF OnePossessor, Possesses
<1>3. UnusedWhenDeleted'
  BY DEF UnusedWhenDeleted, Unused
<1>4. SignalCarries'
  BY DEF SignalCarries, HandoffIsExclusive, Possesses
<1>5. FreeMeansFree'
  BY DEF FreeMeansFree, Possesses
<1>6. \A u \in Thread : OwnShare(u)'
  BY DEF OwnShare, Possesses, Counted
<1>7. \A u \in Thread : Located(u)'
  BY DEF Located
<1> QED
  BY <1>1, <1>2, <1>3, <1>4, <1>5, <1>6, <1>7

\* TryLock preserves Inv.
LEMMA TryLockInv ==
    ASSUME Inv, NEW t \in Thread, TryLock(t)
    PROVE  Inv'
<1> USE DEF Inv, TryLock, At, Goto, fields, event
<1>1. TypeOK'
  BY DEF TypeOK, Location
<1>2. OnePossessor'
  BY DEF OnePossessor, Possesses
<1>3. UnusedWhenDeleted'
  BY DEF UnusedWhenDeleted, Unused
<1>4. SignalCarries'
  BY DEF SignalCarries, HandoffIsExclusive, Possesses, Located
<1>5. FreeMeansFree'
  BY DEF TypeOK, FreeMeansFree
<1>6. \A u \in Thread : OwnShare(u)'
  BY DEF TypeOK, OwnShare, Possesses, Counted
<1>7. \A u \in Thread : Located(u)'
  BY DEF Located
<1> QED
  BY <1>1, <1>2, <1>3, <1>4, <1>5, <1>6, <1>7

\* TryRec preserves Inv.
LEMMA TryRecInv ==
    ASSUME Inv, NEW t \in Thread, TryRec(t)
    PROVE  Inv'
<1> USE DEF Inv, TryRec, At, Goto, fields, event
<1>1. TypeOK'
  BY DepthAssumption DEF TypeOK, Location, Located
<1>2. OnePossessor'
  BY DEF OnePossessor, Possesses, Located
<1>3. UnusedWhenDeleted'
  BY DEF UnusedWhenDeleted, Unused
<1>4. SignalCarries'
  BY DEF SignalCarries, HandoffIsExclusive, Possesses, Located
<1>5. FreeMeansFree'
  BY DEF FreeMeansFree, Possesses, Located
<1>6. \A u \in Thread : OwnShare(u)'
  BY DEF TypeOK, OwnShare, Possesses, Counted, Located
<1>7. \A u \in Thread : Located(u)'
  BY DEF TypeOK, Located
<1> QED
  BY <1>1, <1>2, <1>3, <1>4, <1>5, <1>6, <1>7

\* Die preserves Inv.
LEMMA DieInv ==
    ASSUME Inv, NEW t \in Thread, Die(t)
    PROVE  Inv'
<1> USE DEF Inv, Die, At, Goto, fields, event
<1>1. TypeOK'
  BY DEF TypeOK, Location
<1>2. OnePossessor'
  BY DEF OnePossessor, Possesses
<1>3. UnusedWhenDeleted'
  BY DEF UnusedWhenDeleted, Unused
<1>4. SignalCarries'
  BY DEF SignalCarries, HandoffIsExclusive, Possesses
<1>5. FreeMeansFree'
  BY DEF FreeMeansFree, Possesses
<1>6. \A u \in Thread : OwnShare(u)'
  BY DEF TypeOK, OwnShare, Possesses, Counted
<1>7. \A u \in Thread : Located(u)'
  BY DEF Located
<1> QED
  BY <1>1, <1>2, <1>3, <1>4, <1>5, <1>6, <1>7

\* InitializeCriticalSection and DeleteCriticalSection preserve Inv.
LEMMA LifetimeInv ==
    ASSUME Inv, InitializeCriticalSection \/ DeleteCriticalSection
    PROVE  Inv'
<1> USE DEF Inv, TypeOK
<1>1. CASE InitializeCriticalSection
  <2>1. Unused /\ ~ signaled
    BY <1>1 DEF InitializeCriticalSection, UnusedWhenDeleted
  <2>2. \A t \in Thread : ~ Possesses(t)
    BY <2>1 DEF Unused, Possesses
  <2>3. TypeOK'
    BY <1>1, SemsAssumption DEF InitializeCriticalSection
  <2>4. \A t \in Thread : ~ Possesses(t)'
    BY <1>1, <2>2 DEF InitializeCriticalSection, Possesses
  <2>5. \A t \in Thread : OwnShare(t)' /\ Located(t)'
    BY <1>1, <2>1, <2>4, OwnerAssumption
    DEF InitializeCriticalSection, Unused, OwnShare, Located
  <2> QED
    BY <1>1, <2>1, <2>3, <2>4, <2>5
    DEF InitializeCriticalSection, OnePossessor, UnusedWhenDeleted, SignalCarries,
        FreeMeansFree
<1>2. CASE DeleteCriticalSection
  <2>1. Unused /\ Unused'
    BY <1>2 DEF DeleteCriticalSection, Unused
  <2>2. \A t \in Thread : ~ Possesses(t)'
    BY <2>1 DEF Unused, Possesses
  <2>3. TypeOK'
    <3>1. LockSemaphore' \in 0 .. MaxSems /\ events' \subseteq 1 .. MaxSems
      BY <1>2, SemsAssumption DEF DeleteCriticalSection
    <3>2. initialized' \in BOOLEAN /\ signaled' \in BOOLEAN
      BY <1>2 DEF DeleteCriticalSection
    <3> QED BY <1>2, <3>1, <3>2 DEF DeleteCriticalSection
  <2>4. \A t \in Thread : OwnShare(t)' /\ Located(t)'
    BY <1>2, <2>1, <2>2, OwnerAssumption
    DEF DeleteCriticalSection, Unused, OwnShare, Located
  <2> QED
    BY <1>2, <2>1, <2>2, <2>3, <2>4
    DEF DeleteCriticalSection, OnePossessor, UnusedWhenDeleted, SignalCarries,
        FreeMeansFree
<1> QED BY <1>1, <1>2

\* Inv is inductive.
LEMMA NextInv == Inv /\ [Next]_vars => Inv'
<1> SUFFICES ASSUME Inv, [Next]_vars PROVE Inv'
  OBVIOUS
<1>1. ASSUME NEW t \in Thread, Step(t) PROVE Inv'
  BY <1>1, BusyInv, RecurseInv, TakeHandoffInv, EnterWaitInv, OwnInv, OwnRecInv,
     FreeInv, UnlockInv, LeaveNestedInv, LeaveWakeInv, TryBusyInv, TryLockInv,
     TryRecInv
  DEF Step
<1>2. ASSUME NEW t \in Thread, Enter(t) \/ TryEnter(t) \/ Leave(t) \/ Die(t)
      PROVE  Inv'
  BY <1>2, EnterInv, TryEnterInv, LeaveInv, DieInv
<1>3. CASE UNCHANGED vars
  BY <1>3
  DEF vars, fields, event, Inv, TypeOK, OnePossessor, Possesses, UnusedWhenDeleted,
      Unused, SignalCarries, HandoffIsExclusive, FreeMeansFree, OwnShare, Counted,
      Located
<1> QED BY <1>1, <1>2, <1>3, LifetimeInv DEF Next

\* The invariant of LockCount and ownership holds of every behaviour.
LEMMA Invariance == Spec => []Inv
<1> QED BY InitInv, NextInv, PTL DEF Spec

-----------------------------------------------------------------------------
(* LockCount and the semaphore.                                            *)

Entries == [t \in Thread |-> Counted(t)]

CountIsExact == (initialized /\ NobodyDied) => LockCount + 1 = Total(Entries, Thread)

\* The struct has the one event there is, and none before it is initialized.
OneSemaphore == NoSemaphoreLeak /\ (~ initialized => LockSemaphore = 0)

ExactInv == Inv /\ CountIsExact /\ OneSemaphore

\* What a thread has counted is a number.
LEMMA CountedTyped == TypeOK => \A t \in Thread : Counted(t) \in Nat
<1> SUFFICES ASSUME TypeOK, NEW t \in Thread PROVE Counted(t) \in Nat
  OBVIOUS
<1>1. depth[t] \in Nat
  BY DepthAssumption DEF TypeOK
<1> QED BY <1>1 DEF Counted

\* A step of t that adds d to LockCount and to what t is counted for.
LEMMA CountStep ==
    ASSUME Inv, CountIsExact, NEW t \in Thread, NEW d \in Int,
           LockCount' = LockCount + d,
           \A u \in Thread : Counted(u)' = Counted(u) + (IF u = t THEN d ELSE 0),
           initialized' = initialized, NobodyDied' => NobodyDied
    PROVE  CountIsExact'
<1> SUFFICES ASSUME initialized', NobodyDied'
             PROVE  LockCount' + 1 = Total(Entries', Thread)
  BY DEF CountIsExact
<1>1. Differ(Entries, Entries', t, d, Thread)
  <2> SUFFICES ASSUME NEW u \in Thread
               PROVE  Entries[u] \in Int /\ Entries'[u] = Entries[u] + (IF u = t THEN d ELSE 0)
    BY DEF Differ
  <2>1. Entries[u] = Counted(u) /\ Entries'[u] = Counted(u)'
    BY DEF Entries
  <2>2. Counted(u) \in Int
    BY CountedTyped DEF Inv
  <2> QED BY <2>1, <2>2
<1>2. Total(Entries, Thread) \in Int /\ Total(Entries', Thread) = Total(Entries, Thread) + d
  BY <1>1, ThreadAssumption, SumChanges
<1>3. LockCount + 1 = Total(Entries, Thread) /\ LockCount \in Int
  BY DEF CountIsExact, Inv, TypeOK
<1> QED BY <1>2, <1>3

\* Every instruction that moves LockCount moves the count of its thread.
LEMMA CountNext ==
    ASSUME Inv, CountIsExact, [Next]_vars
    PROVE  CountIsExact'
<1> USE DEF Inv, At, Goto, fields, event
<1>1. CASE InitializeCriticalSection
  <2> SUFFICES LockCount' + 1 = Total(Entries', Thread)
    BY DEF CountIsExact
  <2>1. \A t \in Thread : Counted(t)' = 0
    BY <1>1 DEF InitializeCriticalSection, UnusedWhenDeleted, Unused, Counted
  <2>2. \A t \in Thread : Entries'[t] = 0
    BY <2>1 DEF Entries
  <2>3. Total(Entries', Thread) = 0
    BY <2>2, ThreadAssumption, SumOfZeros
  <2> QED BY <1>1, <2>3 DEF InitializeCriticalSection
<1>2. CASE DeleteCriticalSection
  BY <1>2 DEF DeleteCriticalSection, CountIsExact
<1>3. ASSUME NEW t \in Thread, Die(t) PROVE CountIsExact'
  BY <1>3 DEF Die, CountIsExact, NobodyDied, TypeOK
<1>4. ASSUME NEW t \in Thread, Step(t) \/ Enter(t) \/ TryEnter(t) \/ Leave(t)
      PROVE  CountIsExact'
  <2>1. pc \in [Thread -> Location] /\ depth \in [Thread -> 0 .. MaxDepth] /\ MaxDepth \in Nat
        /\ LockCount \in Int
    BY DepthAssumption DEF TypeOK
  <2> DEFINE d == LockCount' - LockCount
  <2>2. /\ initialized' = initialized
        /\ LockCount' \in Int
        /\ NobodyDied' => NobodyDied
    BY <1>4, <2>1 DEF NobodyDied, Step, Enter, TryEnter, Leave, Busy, Recurse, TakeHandoff,
       EnterWait, Own, OwnRec, Free, Unlock, LeaveNested, LeaveWake, TryBusy, TryLock, TryRec
  <2>3. d \in Int /\ LockCount' = LockCount + d
    <3>1. \A m, n \in Int : n - m \in Int /\ n = m + (n - m)
      OBVIOUS
    <3> QED BY <2>1, <2>2, <3>1
  <2>4. \A u \in Thread : depth[u] \in Nat
    BY <2>1
  <2>5. Counted(t)' = Counted(t) + d
    <3>1. CASE Enter(t) \/ TryEnter(t)
      BY <2>1, <2>4, <3>1 DEF Counted, Enter, TryEnter
    <3>2. CASE Leave(t) \/ Free(t) \/ Unlock(t) \/ LeaveNested(t) \/ LeaveWake(t)
      BY <2>1, <2>4, <3>2 DEF Counted, Leave, Free, Unlock, LeaveNested, LeaveWake
    <3>3. CASE Busy(t) \/ Recurse(t) \/ TakeHandoff(t) \/ EnterWait(t) \/ Own(t) \/ OwnRec(t)
      BY <2>1, <2>4, <3>3 DEF Counted, Busy, Recurse, TakeHandoff, EnterWait, Own, OwnRec
    <3>4. CASE TryBusy(t) \/ TryLock(t) \/ TryRec(t)
      BY <2>1, <2>4, <3>4 DEF Counted, TryBusy, TryLock, TryRec
    <3> QED BY <1>4, <3>1, <3>2, <3>3, <3>4 DEF Step
  <2>6. ASSUME NEW u \in Thread, u # t PROVE Counted(u)' = Counted(u) /\ Counted(u) \in Int
    <3>1. pc'[u] = pc[u] /\ depth'[u] = depth[u]
      BY <1>4, <2>1, <2>6 DEF Step, Enter, TryEnter, Leave, Busy, Recurse, TakeHandoff,
         EnterWait, Own, OwnRec, Free, Unlock, LeaveNested, LeaveWake, TryBusy, TryLock, TryRec
    <3> QED BY <2>4, <3>1 DEF Counted
  <2> HIDE DEF d
  <2>7. \A u \in Thread : Counted(u)' = Counted(u) + (IF u = t THEN d ELSE 0)
    BY <2>3, <2>5, <2>6
  <2> QED BY <2>2, <2>3, <2>7, CountStep
<1>5. CASE UNCHANGED vars
  <2>1. \A t \in Thread : Counted(t)' = Counted(t)
    BY <1>5 DEF vars, Counted
  <2>2. Entries' = Entries
    BY <2>1 DEF Entries
  <2> QED BY <1>5, <2>2 DEF vars, CountIsExact, NobodyDied
<1> QED BY <1>1, <1>2, <1>3, <1>4, <1>5 DEF Next

\* The semaphore is created for the struct and closed with it.
LEMMA SemaphoreNext ==
    ASSUME Inv, OneSemaphore, [Next]_vars
    PROVE  OneSemaphore'
<1> USE DEF Inv, OneSemaphore, NoSemaphoreLeak, fields, event
<1>1. ASSUME NEW t \in Thread, EnterWait(t) \/ LeaveWake(t) PROVE OneSemaphore'
  <2>1. initialized /\ initialized' = initialized
    BY <1>1 DEF EnterWait, LeaveWake, At, UnusedWhenDeleted, Unused
  <2>2. next_sem # 0
    BY SemsAssumption DEF TypeOK
  <2>3. EnsureSemaphore
    BY <1>1 DEF EnterWait, LeaveWake
  <2>4. CASE LockSemaphore = 0
    BY <2>1, <2>2, <2>3, <2>4 DEF EnsureSemaphore
  <2>5. CASE LockSemaphore # 0
    BY <2>1, <2>3, <2>5 DEF EnsureSemaphore
  <2> QED BY <2>4, <2>5
<1>2. CASE InitializeCriticalSection \/ DeleteCriticalSection
  BY <1>2 DEF InitializeCriticalSection, DeleteCriticalSection
<1>3. CASE UNCHANGED <<LockSemaphore, events, initialized>>
  BY <1>3
<1>4. ASSUME NEW t \in Thread,
             \/ Enter(t) \/ TryEnter(t) \/ Leave(t) \/ Die(t)
             \/ Busy(t) \/ Recurse(t) \/ TakeHandoff(t) \/ Own(t) \/ OwnRec(t) \/ Free(t)
             \/ Unlock(t) \/ LeaveNested(t) \/ TryBusy(t) \/ TryLock(t) \/ TryRec(t)
      PROVE  UNCHANGED <<LockSemaphore, events, initialized>>
  BY <1>4 DEF Enter, TryEnter, Leave, Die, Busy, Recurse, TakeHandoff, Own, OwnRec, Free,
     Unlock, LeaveNested, TryBusy, TryLock, TryRec
<1>5. UNCHANGED vars => UNCHANGED <<LockSemaphore, events, initialized>>
  BY DEF vars
<1> QED BY <1>1, <1>2, <1>3, <1>4, <1>5 DEF Next, Step

\* The fields are exact at first.
LEMMA ExactInit == Init => ExactInv
<1> SUFFICES ASSUME Init PROVE ExactInv
  OBVIOUS
<1>1. CountIsExact /\ OneSemaphore
  BY DEF Init, CountIsExact, OneSemaphore, NoSemaphoreLeak
<1> QED BY <1>1, InitInv DEF ExactInv

\* And after every step.
LEMMA ExactNext == ExactInv /\ [Next]_vars => ExactInv'
BY NextInv, CountNext, SemaphoreNext DEF ExactInv

-----------------------------------------------------------------------------
(* The theorems.                                                           *)

\* However the instructions of the threads interleave, and whoever is killed
\* where, the struct names the thread inside, with its depth.
THEOREM OwnerRecorded == Spec => []OwnerIsRecorded
<1>1. Inv => OwnerIsRecorded
  BY DEF Inv, Located, OwnerIsRecorded
<1> QED BY <1>1, Invariance, PTL

\* _cs_leave_wake hands the section to exactly one of the threads that wait:
\* while the event is signaled nobody else can be in it or get in.
THEOREM HandoffExclusive == Spec => []HandoffIsExclusive
<1>1. Inv => HandoffIsExclusive
  BY DEF Inv, SignalCarries, HandoffIsExclusive
<1> QED BY <1>1, Invariance, PTL

\* At every boundary between two instructions LockCount is the number of
\* entries and waiters, for any number of threads as long as none was killed,
\* the event is alive exactly while the struct names it, and a hand-off is
\* exclusive.
THEOREM FieldsExact == Spec => []FieldsAreExact
<1>1. ExactInv => FieldsAreExact
  <2> SUFFICES ASSUME ExactInv PROVE FieldsAreExact
    OBVIOUS
  <2>1. DOMAIN Entries = Thread
    BY DEF Entries
  <2>2. FoldFunction(+, 0, Entries) = Total(Entries, Thread)
    BY <2>1 DEF FoldFunction, Total
  <2>3. FoldFunction(+, 0, [t \in Thread |-> Counted(t)]) = Total(Entries, Thread)
    BY <2>2 DEF Entries
  <2>4. LockCountIsExact
    BY <2>3 DEF ExactInv, CountIsExact, LockCountIsExact
  <2>5. HandoffIsExclusive
    BY DEF ExactInv, Inv, SignalCarries, HandoffIsExclusive
  <2> QED BY <2>4, <2>5 DEF ExactInv, OneSemaphore, FieldsAreExact
<1> QED BY <1>1, ExactInit, ExactNext, PTL DEF Spec

\* The three functions implement a recursive lock: the return of Enter or of a
\* successful TryEnter is the abstract Enter, the first instruction of Leave
\* the abstract Leave, and every other instruction a stutter.
THEOREM Implementation == Spec => ImplementsLock
<1>1. Init => AbstractLock!Init
  BY DEF Init, AbstractLock!Init
<1>2. Inv /\ [Next]_vars => [AbstractLock!Next]_depth
  <2> SUFFICES ASSUME Inv, [Next]_vars PROVE [AbstractLock!Next]_depth
    OBVIOUS
  <2>1. ASSUME NEW t \in Thread, Recurse(t) \/ OwnRec(t) \/ TryRec(t)
        PROVE  AbstractLock!Enter(t)
    <3>1. Possesses(t)
      BY <2>1 DEF Recurse, OwnRec, TryRec, At, Inv, Located, Possesses
    <3>2. ASSUME NEW u \in Thread \ {t} PROVE depth[u] = 0
      <4>1. ~ Possesses(u)
        BY <3>1 DEF Inv, OnePossessor
      <4>2. depth[u] \in Nat /\ ~ depth[u] > 0
        BY <4>1, DepthAssumption DEF Inv, TypeOK, Possesses
      <4> QED BY <4>2
    <3> QED BY <2>1, <3>2 DEF Recurse, OwnRec, TryRec, AbstractLock!Enter
  <2>2. ASSUME NEW t \in Thread, Leave(t)
        PROVE  AbstractLock!Leave(t)
    BY <2>2 DEF Leave, AbstractLock!Leave
  <2>3. CASE UNCHANGED vars
    BY <2>3 DEF vars
  <2>4. CASE InitializeCriticalSection \/ DeleteCriticalSection
    BY <2>4 DEF InitializeCriticalSection, DeleteCriticalSection
  <2>5. ASSUME NEW t \in Thread,
               \/ Enter(t) \/ TryEnter(t) \/ Die(t)
               \/ Busy(t) \/ TakeHandoff(t) \/ EnterWait(t) \/ Own(t) \/ Free(t)
               \/ Unlock(t) \/ LeaveNested(t) \/ LeaveWake(t) \/ TryBusy(t)
               \/ TryLock(t)
        PROVE  UNCHANGED depth
    BY <2>5 DEF Enter, TryEnter, Die, Busy, TakeHandoff, EnterWait, Own, Free, Unlock,
                LeaveNested, LeaveWake, TryBusy, TryLock
  <2> QED
    BY <2>1, <2>2, <2>3, <2>4, <2>5 DEF Next, Step, AbstractLock!Next
<1> QED
  BY <1>1, <1>2, Invariance, PTL DEF Spec, ImplementsLock, AbstractLock!Spec
=============================================================================
