--------------------------- MODULE SchedulerProofs ---------------------------
(***************************************************************************)
(* What holds of Scheduler for every number of threads, handles and nested *)
(* calls: its types; and, when every nested call is given the scheduler    *)
(* and no thread dies inside one, that the CPU always has a ready thread   *)
(* and that no thread ever runs on the registers of another.               *)
(***************************************************************************)
EXTENDS Scheduler, TLAPS

\* A pick returns the table's -1 or a thread other than the current one that
\* is ready and not suspended in the table it picked from.
LEMMA NextReadyIsCandidate ==
    ASSUME NEW th, NEW cur, NEW next \in NextReady(th, cur), next # NoThread
    PROVE  next \in Thread /\ next # cur /\ Runnable(th, next)
BY DEF NextReady, Candidates

\* Waking and unblocking keep the table a table and never change a thread
\* that is ready.
LEMMA WakeTypes ==
    ASSUME NEW th \in [Thread -> ThreadRecord], NEW clock, NEW hs
    PROVE  /\ WakeExpired(th, clock) \in [Thread -> ThreadRecord]
           /\ UnblockAll(th, hs) \in [Thread -> ThreadRecord]
           /\ \A t \in Thread : th[t].status = "ready" =>
                /\ WakeExpired(th, clock)[t].status = "ready"
                /\ UnblockAll(th, hs)[t].status = "ready"
<1>1. ASSUME NEW susp \in BOOLEAN, NEW late \in BOOLEAN
      PROVE  ReadyEntry(susp, late) \in ThreadRecord
  BY DEF ReadyEntry, Entry, ThreadRecord, Status, Never
<1>2. \A t \in Thread : /\ th[t] \in ThreadRecord
                         /\ th[t].suspended \in BOOLEAN
                         /\ th[t].timedOut \in BOOLEAN
  BY DEF ThreadRecord
<1>3. WakeExpired(th, clock) \in [Thread -> ThreadRecord]
  BY <1>1, <1>2 DEF WakeExpired
<1>4. UnblockAll(th, hs) \in [Thread -> ThreadRecord]
  BY <1>1, <1>2 DEF UnblockAll
<1>5. \A t \in Thread : th[t].status = "ready" =>
        /\ WakeExpired(th, clock)[t].status = "ready"
        /\ UnblockAll(th, hs)[t].status = "ready"
  BY DEF WakeExpired, UnblockAll
<1> QED BY <1>3, <1>4, <1>5

\* The tables a pick can produce.
LEMMA PickTypes ==
    ASSUME TypeOK, NEW th \in PickTables
    PROVE  /\ th \in [Thread -> ThreadRecord]
           /\ threads[current].status = "ready" => th[current].status = "ready"
<1>1. /\ FirstPick \in [Thread -> ThreadRecord]
      /\ \A t \in Thread : threads[t].status = "ready" => FirstPick[t].status = "ready"
  BY WakeTypes DEF TypeOK, FirstPick
<1>2. CASE th = FirstPick
  BY <1>1, <1>2 DEF TypeOK
<1>3. ASSUME NEW sig \in SUBSET Handle, th = UnblockAll(FirstPick, sig)
      PROVE  /\ th \in [Thread -> ThreadRecord]
             /\ threads[current].status = "ready" => th[current].status = "ready"
  BY <1>1, <1>3, WakeTypes DEF TypeOK
<1> QED BY <1>2, <1>3 DEF PickTables

\* Whoever runs after a pick is in the table, and is ready in the table the
\* pick was made from.
LEMMA RunsNextIsReady ==
    ASSUME NEW th, NEW cur \in Thread, NEW next \in NextReady(th, cur)
    PROVE  /\ RunsNext(cur, next) \in Thread
           /\ th[cur].status = "ready" => th[RunsNext(cur, next)].status = "ready"
           /\ next # NoThread => /\ RunsNext(cur, next) # cur
                                 /\ th[RunsNext(cur, next)].status = "ready"
BY NextReadyIsCandidate DEF RunsNext, Runnable

\* What a wait, a sleep and a death leave behind: a table in which whoever runs
\* next is ready, except when the last thread dies.
LEMMA BlockHandsOver ==
    ASSUME NEW th \in [Thread -> ThreadRecord], NEW cur \in Thread,
           NEW next \in NextReady(th, cur), NEW hs \in SUBSET Handle,
           NEW deadline \in Int
    PROVE  LET new == CompleteBlock(th, cur, hs, deadline, next)
           IN  /\ new \in [Thread -> ThreadRecord]
               /\ th[cur].status = "ready" => new[RunsNext(cur, next)].status = "ready"
<1>1. Entry("blocked", th[cur].suspended, hs, deadline, th[cur].timedOut) \in ThreadRecord
  BY DEF Entry, ThreadRecord, Status
<1> QED BY <1>1, RunsNextIsReady DEF CompleteBlock

\* After complete_sleep the thread that runs next is ready.
LEMMA SleepHandsOver ==
    ASSUME NEW th \in [Thread -> ThreadRecord], NEW cur \in Thread,
           NEW next \in NextReady(th, cur), NEW deadline \in Int
    PROVE  LET new == CompleteSleep(th, cur, deadline, next)
           IN  /\ new \in [Thread -> ThreadRecord]
               /\ th[cur].status = "ready" => new[RunsNext(cur, next)].status = "ready"
<1>1. Entry("sleeping", th[cur].suspended, {}, deadline, th[cur].timedOut) \in ThreadRecord
  BY DEF Entry, ThreadRecord, Status
<1> QED BY <1>1, RunsNextIsReady DEF CompleteSleep

\* So it is after the running thread is killed.
LEMMA KillHandsOver ==
    ASSUME NEW th \in [Thread -> ThreadRecord], NEW cur \in Thread,
           NEW next \in NextReady(th, cur)
    PROVE  /\ Kill(th, cur) \in [Thread -> ThreadRecord]
           /\ next # NoThread => Kill(th, cur)[RunsNext(cur, next)].status = "ready"
<1>1. DeadEntry \in ThreadRecord
  BY DEF DeadEntry, Entry, ThreadRecord, Status, Never
<1> QED BY <1>1, RunsNextIsReady DEF Kill

\* A switch keeps the contexts' types.
LEMMA SwitchTypes ==
    ASSUME TypeOK, NEW th, NEW next \in NextReady(th, current), SwitchTo(next)
    PROVE  current' \in Thread /\ regs' \in Thread /\ slot' \in [Thread -> Thread]
<1>1. next = NoThread \/ next \in Thread
  BY NextReadyIsCandidate
<1> QED BY <1>1 DEF TypeOK, SwitchTo, RunsNext

-----------------------------------------------------------------------------
\* The variables have their types at first.
LEMMA InitTypes == Init => TypeOK
<1> SUFFICES ASSUME Init PROVE TypeOK
  OBVIOUS
<1>1. 0 \in Thread /\ 0 \in 0 .. MaxTime
  BY NThreadsAssumption, MaxTimeAssumption DEF Thread
<1>2. MainThreadOnly \in [Thread -> ThreadRecord]
  <2>1. FreeEntry \in ThreadRecord /\ ReadyEntry(FALSE, FALSE) \in ThreadRecord
    BY DEF FreeEntry, ReadyEntry, Entry, ThreadRecord, Status, Never
  <2> QED BY <2>1 DEF MainThreadOnly
<1>3. frames \in Seq(Frame)
  BY DEF Init
<1> QED BY <1>1, <1>2, <1>3 DEF Init, TypeOK

\* And after every step.
LEMMA NextTypes == TypeOK /\ [Next]_vars => TypeOK'
<1> SUFFICES ASSUME TypeOK, [Next]_vars PROVE TypeOK'
  OBVIOUS
<1>1. ASSUME NEW susp \in BOOLEAN, CreateThread(susp) PROVE TypeOK'
  <2>1. ReadyEntry(susp, FALSE) \in ThreadRecord
    BY DEF ReadyEntry, Entry, ThreadRecord, Status, Never
  <2>2. threads' \in [Thread -> ThreadRecord]
    BY <1>1, <2>1 DEF CreateThread, AddThread, FirstFree, TypeOK
  <2> QED BY <1>1, <2>2 DEF CreateThread, TypeOK
<1>2. ASSUME NEW hs \in SUBSET Handle, NEW d \in Int, BlockCurrent(hs, d) PROVE TypeOK'
  <2>1. CASE Reentrant
    BY <1>2, <2>1 DEF BlockCurrent, TypeOK
  <2>2. CASE ~ Reentrant
    <3>0. PICK th \in PickTables : \E next \in NextReady(th, current) :
             threads' = CompleteBlock(th, current, hs, d, next) /\ SwitchTo(next)
      BY <1>2, <2>2 DEF BlockCurrent
    <3>1. PICK next \in NextReady(th, current) :
             threads' = CompleteBlock(th, current, hs, d, next) /\ SwitchTo(next)
      BY <3>0
    <3>2. threads' \in [Thread -> ThreadRecord]
      BY <3>1, PickTypes, BlockHandsOver DEF TypeOK
    <3> QED BY <1>2, <3>1, <3>2, SwitchTypes DEF BlockCurrent, TypeOK
  <2> QED BY <2>1, <2>2
<1>3. ASSUME NEW ms \in Nat, SleepCurrent(ms) PROVE TypeOK'
  <2>1. CASE Reentrant
    BY <1>3, <2>1 DEF SleepCurrent, TypeOK
  <2>2. CASE ~ Reentrant
    <3>0. PICK th \in PickTables : \E next \in NextReady(th, current) :
             threads' = CompleteSleep(th, current, now + ms, next) /\ SwitchTo(next)
      BY <1>3, <2>2 DEF SleepCurrent
    <3>1. PICK next \in NextReady(th, current) :
             threads' = CompleteSleep(th, current, now + ms, next) /\ SwitchTo(next)
      BY <3>0
    <3>a. now + ms \in Int
      BY MaxTimeAssumption DEF TypeOK
    <3>2. threads' \in [Thread -> ThreadRecord]
      BY <3>1, <3>a, PickTypes, SleepHandsOver DEF TypeOK
    <3> QED BY <1>3, <3>1, <3>2, SwitchTypes DEF SleepCurrent, TypeOK
  <2> QED BY <2>1, <2>2
<1>4. ASSUME MarkCurrentDead PROVE TypeOK'
  <2>0. PICK th \in PickTables : \E next \in NextReady(th, current) :
           /\ threads' = Kill(th, current)
           /\ SwitchTo(next)
           /\ cpu' = IF next = NoThread THEN "halted" ELSE "running"
    BY <1>4 DEF MarkCurrentDead
  <2>1. PICK next \in NextReady(th, current) :
           /\ threads' = Kill(th, current)
           /\ SwitchTo(next)
           /\ cpu' = IF next = NoThread THEN "halted" ELSE "running"
    BY <2>0
  <2>2. DeadEntry \in ThreadRecord
    BY DEF DeadEntry, Entry, ThreadRecord, Status, Never
  <2>3. threads' \in [Thread -> ThreadRecord]
    BY <2>1, <2>2, PickTypes DEF TypeOK, Kill
  <2> QED BY <1>4, <2>1, <2>3, SwitchTypes DEF MarkCurrentDead, TypeOK
<1>5. ASSUME NEW t \in Thread, TerminateThread(t) PROVE TypeOK'
  <2>1. CASE t # current
    <3>1. DeadEntry \in ThreadRecord
      BY DEF DeadEntry, Entry, ThreadRecord, Status, Never
    <3>2. threads' \in [Thread -> ThreadRecord]
      BY <1>5, <2>1, <3>1 DEF TerminateThread, Kill, TypeOK
    <3> QED BY <1>5, <2>1, <3>2 DEF TerminateThread, TypeOK
  <2> QED BY <1>4, <1>5, <2>1 DEF TerminateThread
<1>6. ASSUME NEW h \in Handle, UnblockHandle(h) PROVE TypeOK'
  <2>1. threads' \in [Thread -> ThreadRecord]
    BY <1>6, WakeTypes DEF UnblockHandle, Unblock, TypeOK
  <2> QED BY <1>6, <2>1 DEF UnblockHandle, TypeOK
<1>7. ASSUME NEW t \in Thread, NEW val \in BOOLEAN, SetSuspended(t, val) PROVE TypeOK'
  <2>1. [threads[t] EXCEPT !.suspended = val] \in ThreadRecord
    BY DEF TypeOK, ThreadRecord
  <2>2. threads' \in [Thread -> ThreadRecord]
    BY <1>7, <2>1 DEF SetSuspended, TypeOK
  <2> QED BY <1>7, <2>2 DEF SetSuspended, TypeOK
<1>8. ASSUME NEW kind \in CallKinds, BeginInvoke(kind) PROVE TypeOK'
  <2>1. [starter |-> current, guarded |-> kind = "guarded", saved |-> regs] \in Frame
    BY DEF TypeOK, Frame
  <2>2. frames' \in Seq(Frame)
    BY <1>8, <2>1 DEF BeginInvoke, TypeOK
  <2> QED BY <1>8, <2>2 DEF BeginInvoke, TypeOK
<1>9. ASSUME FatalHalt PROVE TypeOK'
  BY <1>9 DEF FatalHalt, TypeOK
<1>10. ASSUME EndInvoke PROVE TypeOK'
  <2>1. Last(frames) \in Frame /\ Front(frames) \in Seq(Frame)
    BY <1>10 DEF EndInvoke, TypeOK, Last, Front
  <2> QED BY <1>10, <2>1 DEF EndInvoke, TypeOK, Frame
<1>11. ASSUME Preempt PROVE TypeOK'
  <2>1. PICK next \in NextReady(FirstPick, current) :
           threads' = FirstPick /\ SwitchTo(next)
    BY <1>11 DEF Preempt
  <2>2. threads' \in [Thread -> ThreadRecord]
    BY <2>1, WakeTypes DEF FirstPick, TypeOK
  <2> QED BY <1>11, <2>1, <2>2, SwitchTypes DEF Preempt, TypeOK
<1>12. ASSUME Tick PROVE TypeOK'
  BY <1>12, MaxTimeAssumption DEF Tick, TypeOK
<1>13. CASE UNCHANGED vars
  BY <1>13 DEF vars, TypeOK
<1>14. ASSUME Guest PROVE TypeOK'
  <2>1. CASE \E hs \in (SUBSET Handle) \ {{}}, d \in {Never} \cup 0 .. MaxTime :
               (d = Never \/ d >= now) /\ BlockCurrent(hs, d)
    BY <1>2, <2>1, MaxTimeAssumption DEF Never
  <2>2. CASE \E ms \in Sleeps : SleepCurrent(ms)
    BY <1>3, <2>2, SleepsAssumption
  <2> QED BY <1>1, <1>4, <1>5, <1>6, <1>7, <1>8, <1>9, <1>14, <2>1, <2>2 DEF Guest
<1> QED BY <1>10, <1>11, <1>12, <1>13, <1>14 DEF Next

\* Every state of every execution is well typed: in particular a wait, sleep,
\* death or nested call never leaves a malformed table entry or an index out
\* of the table.
THEOREM TypeCorrect == Spec => []TypeOK
<1>1. Init => TypeOK BY InitTypes
<1>2. TypeOK /\ [Next]_vars => TypeOK' BY NextTypes
<1> QED BY <1>1, <1>2, PTL DEF Spec

-----------------------------------------------------------------------------
(***************************************************************************)
(* The inductive invariant behind CurrentIsReady and ContextsMatch.  Every *)
(* nested call in progress was begun by the thread that is still current,  *)
(* because the guard refuses every switch; so putting back the registers   *)
(* it saved changes nothing.  Every table entry holds its own context,     *)
(* because a switch stores the live one, which is the current thread's.    *)
(***************************************************************************)
FramesAreMine ==
    \A i \in DOMAIN frames : frames[i].guarded /\ frames[i].saved = current

OwnSlots == \A t \in Thread : slot[t] = t

SafeInv ==
    /\ TypeOK
    /\ CurrentIsReady
    /\ regs = current
    /\ OwnSlots
    /\ FramesAreMine
    /\ cpu = "halted" => frames = << >>

\* Switching while no nested call is in progress.
LEMMA SwitchIsSafe ==
    ASSUME SafeInv, frames = << >>, frames' = frames,
           NEW th, NEW next \in NextReady(th, current), SwitchTo(next)
    PROVE  regs' = current' /\ OwnSlots' /\ FramesAreMine'
<1>1. next = NoThread \/ next \in Thread
  BY NextReadyIsCandidate
<1>2. regs' = current' /\ OwnSlots'
  BY <1>1 DEF SafeInv, TypeOK, OwnSlots, SwitchTo, RunsNext
<1>3. FramesAreMine'
  BY DEF FramesAreMine
<1> QED BY <1>2, <1>3

\* With guarded calls only, no call in progress means not reentrant.
LEMMA NotReentrant ==
    ASSUME SafeInv, ~ Reentrant
    PROVE  frames = << >>
<1>1. DOMAIN frames = {}
  BY DEF SafeInv, FramesAreMine, Reentrant
<1> QED BY <1>1 DEF SafeInv, TypeOK

\* The invariant of the guarded program holds at first.
LEMMA InitIsSafe == Init => SafeInv
<1> SUFFICES ASSUME Init PROVE SafeInv
  OBVIOUS
<1>1. MainThreadOnly[0].status = "ready"
  BY NThreadsAssumption DEF MainThreadOnly, Thread, ReadyEntry, Entry
<1>2. CurrentIsReady /\ OwnSlots /\ FramesAreMine
  BY <1>1 DEF Init, CurrentIsReady, OwnSlots, FramesAreMine
<1> QED BY <1>2, InitTypes DEF Init, SafeInv

\* And after every step of it.
LEMMA NextIsSafe ==
    ASSUME CallKinds \subseteq {"guarded"}, DieInCall = FALSE,
           SafeInv, [Next]_vars
    PROVE  SafeInv'
<1> USE DEF SafeInv
<1>0. TypeOK'
  BY NextTypes
<1>1. ASSUME NEW susp \in BOOLEAN, CreateThread(susp) PROVE SafeInv'
  <2>1. cpu = "running" /\ threads[current].status = "ready"
    BY <1>1 DEF CreateThread, CurrentIsReady
  <2>2. threads'[current].status = "ready"
    BY <1>1, <2>1 DEF CreateThread, AddThread, FirstFree, TypeOK
  <2> QED BY <1>0, <1>1, <2>2 DEF CreateThread, CurrentIsReady, OwnSlots, FramesAreMine
<1>2. ASSUME NEW hs \in SUBSET Handle, NEW d \in Int, BlockCurrent(hs, d) PROVE SafeInv'
  <2>1. CASE Reentrant
    BY <1>0, <1>2, <2>1 DEF BlockCurrent, CurrentIsReady, OwnSlots, FramesAreMine
  <2>2. CASE ~ Reentrant
    <3>1. PICK th \in PickTables : \E next \in NextReady(th, current) :
             threads' = CompleteBlock(th, current, hs, d, next) /\ SwitchTo(next)
      BY <1>2, <2>2 DEF BlockCurrent
    <3>2. PICK next \in NextReady(th, current) :
             threads' = CompleteBlock(th, current, hs, d, next) /\ SwitchTo(next)
      BY <3>1
    <3>3. th \in [Thread -> ThreadRecord] /\ th[current].status = "ready"
      BY <1>2, PickTypes DEF BlockCurrent, CurrentIsReady
    <3>a. CompleteBlock(th, current, hs, d, next)[RunsNext(current, next)].status = "ready"
      <4>1. current \in Thread
        BY DEF TypeOK
      <4> HIDE DEF SafeInv
      <4> QED BY <3>3, <4>1, BlockHandsOver, Zenon
    <3>4. threads'[current'].status = "ready"
      BY <3>2, <3>a DEF SwitchTo
    <3>5. frames = << >> /\ frames' = frames /\ cpu' = cpu
      BY <1>2, <2>2, NotReentrant DEF BlockCurrent
    <3>6. regs' = current' /\ OwnSlots' /\ FramesAreMine'
      BY <3>2, <3>5, SwitchIsSafe
    <3> QED BY <1>0, <3>4, <3>5, <3>6 DEF CurrentIsReady
  <2> QED BY <2>1, <2>2
<1>3. ASSUME NEW ms \in Nat, SleepCurrent(ms) PROVE SafeInv'
  <2>1. CASE Reentrant
    BY <1>0, <1>3, <2>1 DEF SleepCurrent, CurrentIsReady, OwnSlots, FramesAreMine
  <2>2. CASE ~ Reentrant
    <3>1. PICK th \in PickTables : \E next \in NextReady(th, current) :
             threads' = CompleteSleep(th, current, now + ms, next) /\ SwitchTo(next)
      BY <1>3, <2>2 DEF SleepCurrent
    <3>2. PICK next \in NextReady(th, current) :
             threads' = CompleteSleep(th, current, now + ms, next) /\ SwitchTo(next)
      BY <3>1
    <3>3. th \in [Thread -> ThreadRecord] /\ th[current].status = "ready"
      BY <1>3, PickTypes DEF SleepCurrent, CurrentIsReady
    <3>4. now + ms \in Int
      BY MaxTimeAssumption DEF TypeOK
    <3>a. CompleteSleep(th, current, now + ms, next)[RunsNext(current, next)].status
            = "ready"
      BY <3>3, <3>4, SleepHandsOver DEF TypeOK
    <3>5. threads'[current'].status = "ready"
      BY <3>2, <3>a DEF SwitchTo
    <3>6. frames = << >> /\ frames' = frames /\ cpu' = cpu
      BY <1>3, <2>2, NotReentrant DEF SleepCurrent
    <3>7. regs' = current' /\ OwnSlots' /\ FramesAreMine'
      BY <3>2, <3>6, SwitchIsSafe
    <3> QED BY <1>0, <3>5, <3>6, <3>7 DEF CurrentIsReady
  <2> QED BY <2>1, <2>2
<1>4. ASSUME MarkCurrentDead PROVE SafeInv'
  <2>1. PICK th \in PickTables : \E next \in NextReady(th, current) :
           /\ threads' = Kill(th, current)
           /\ SwitchTo(next)
           /\ cpu' = IF next = NoThread THEN "halted" ELSE "running"
    BY <1>4 DEF MarkCurrentDead
  <2>2. PICK next \in NextReady(th, current) :
           /\ threads' = Kill(th, current)
           /\ SwitchTo(next)
           /\ cpu' = IF next = NoThread THEN "halted" ELSE "running"
    BY <2>1
  <2>3. th \in [Thread -> ThreadRecord]
    BY PickTypes
  <2>a. next # NoThread => Kill(th, current)[RunsNext(current, next)].status = "ready"
    BY <2>3, KillHandsOver DEF TypeOK
  <2>4. next # NoThread => threads'[current'].status = "ready"
    BY <2>2, <2>a DEF SwitchTo
  <2>5. frames = << >> /\ frames' = frames
    BY <1>4, NotReentrant DEF MarkCurrentDead
  <2>6. regs' = current' /\ OwnSlots' /\ FramesAreMine'
    BY <2>2, <2>5, SwitchIsSafe
  <2> QED BY <1>0, <2>2, <2>4, <2>5, <2>6 DEF CurrentIsReady
<1>5. ASSUME NEW t \in Thread, TerminateThread(t) PROVE SafeInv'
  <2>1. CASE t # current
    <3>1. threads'[current] = threads[current]
      BY <1>5, <2>1 DEF TerminateThread, Kill, TypeOK
    <3> QED BY <1>0, <1>5, <2>1, <3>1
            DEF TerminateThread, CurrentIsReady, OwnSlots, FramesAreMine
  <2> QED BY <1>4, <1>5, <2>1 DEF TerminateThread
<1>6. ASSUME NEW h \in Handle, UnblockHandle(h) PROVE SafeInv'
  <2>1. threads[current].status = "ready" => threads'[current].status = "ready"
    BY <1>6, WakeTypes DEF UnblockHandle, Unblock, TypeOK
  <2> QED BY <1>0, <1>6, <2>1 DEF UnblockHandle, CurrentIsReady, OwnSlots, FramesAreMine
<1>7. ASSUME NEW t \in Thread, NEW val \in BOOLEAN, SetSuspended(t, val) PROVE SafeInv'
  <2>1. \A u \in Thread : threads'[u].status = threads[u].status
    BY <1>7 DEF SetSuspended, TypeOK, ThreadRecord
  <2> QED BY <1>0, <1>7, <2>1
          DEF SetSuspended, CurrentIsReady, OwnSlots, FramesAreMine, TypeOK
<1>8. ASSUME CallKinds \subseteq {"guarded"}, NEW kind \in CallKinds, BeginInvoke(kind)
      PROVE  SafeInv'
  <2>1. frames' = Append(frames, [starter |-> current, guarded |-> TRUE, saved |-> regs])
    BY <1>8 DEF BeginInvoke
  <2>2. [starter |-> current, guarded |-> TRUE, saved |-> regs] \in Frame
    BY DEF TypeOK, Frame
  <2>3. FramesAreMine'
    BY <1>8, <2>1, <2>2 DEF FramesAreMine, BeginInvoke, TypeOK
  <2> QED BY <1>0, <1>8, <2>3 DEF BeginInvoke, CurrentIsReady, OwnSlots
<1>9. ASSUME FatalHalt PROVE SafeInv'
  BY <1>0, <1>9 DEF FatalHalt, CurrentIsReady, OwnSlots, FramesAreMine
<1>10. ASSUME EndInvoke PROVE SafeInv'
  <2>1. /\ Len(frames) \in DOMAIN frames
        /\ Last(frames) = frames[Len(frames)]
    BY <1>10 DEF EndInvoke, Last, TypeOK
  <2>2. regs' = current'
    BY <1>10, <2>1 DEF EndInvoke, FramesAreMine
  <2>3. FramesAreMine'
    BY <1>10 DEF EndInvoke, FramesAreMine, Front, TypeOK
  <2>4. cpu = "running"
    BY <1>10 DEF EndInvoke, TypeOK
  <2> QED BY <1>0, <1>10, <2>2, <2>3, <2>4 DEF EndInvoke, CurrentIsReady, OwnSlots
<1>11. ASSUME Preempt PROVE SafeInv'
  <2>1. PICK next \in NextReady(FirstPick, current) :
           threads' = FirstPick /\ SwitchTo(next)
    BY <1>11 DEF Preempt
  <2>2. FirstPick \in PickTables
    BY DEF PickTables
  <2>3. FirstPick[current].status = "ready"
    BY <1>11, <2>2, PickTypes DEF Preempt, CurrentIsReady
  <2>4. threads'[current'].status = "ready"
    BY <2>1, <2>3, NextReadyIsCandidate DEF SwitchTo, RunsNext, Runnable
  <2>5. frames = << >> /\ frames' = frames /\ cpu' = cpu
    BY <1>11 DEF Preempt
  <2>6. regs' = current' /\ OwnSlots' /\ FramesAreMine'
    BY <2>1, <2>5, SwitchIsSafe
  <2> QED BY <1>0, <2>4, <2>5, <2>6 DEF CurrentIsReady
<1>12. ASSUME Tick PROVE SafeInv'
  BY <1>0, <1>12 DEF Tick, CurrentIsReady, OwnSlots, FramesAreMine
<1>13. CASE UNCHANGED vars
  BY <1>0, <1>13 DEF vars, CurrentIsReady, OwnSlots, FramesAreMine
<1>14. ASSUME Guest PROVE SafeInv'
  <2>1. CASE \E hs \in (SUBSET Handle) \ {{}}, d \in {Never} \cup 0 .. MaxTime :
               (d = Never \/ d >= now) /\ BlockCurrent(hs, d)
    BY <1>2, <2>1, MaxTimeAssumption DEF Never
  <2>2. CASE \E ms \in Sleeps : SleepCurrent(ms)
    BY <1>3, <2>2, SleepsAssumption
  <2> QED BY <1>1, <1>4, <1>5, <1>6, <1>7, <1>8, <1>9, <1>14, <2>1, <2>2 DEF Guest
<1> QED BY <1>10, <1>11, <1>12, <1>13, <1>14 DEF Next

\* When every nested call is given the scheduler and no thread dies inside
\* one, the CPU never lacks a ready current thread and no thread ever runs on,
\* or is stored with, the registers of another: for any number of threads,
\* handles, and calls nested in calls.
THEOREM ContextsSafe ==
    ASSUME CallKinds \subseteq {"guarded"}, DieInCall = FALSE
    PROVE  Spec => [](CurrentIsReady /\ ContextsMatch)
<1>1. Init => SafeInv
  BY InitIsSafe
<1>2. SafeInv /\ [Next]_vars => SafeInv'
  BY NextIsSafe
<1>3. SafeInv => CurrentIsReady /\ ContextsMatch
  BY DEF SafeInv, ContextsMatch, OwnSlots
<1> QED BY <1>1, <1>2, <1>3, PTL DEF Spec
=============================================================================
