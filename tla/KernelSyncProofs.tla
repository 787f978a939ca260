--------------------------- MODULE KernelSyncProofs ---------------------------
(***************************************************************************)
(* What holds of the waits for every number of threads, handles and        *)
(* timeouts: the scheduler and the call a thread will evaluate again agree *)
(* on what it waits for, a mutex never goes from one thread to another     *)
(* without having been free, the delivery of a connect is not lost, and,   *)
(* in plain programs, nobody stays blocked on what could be taken.         *)
(***************************************************************************)
EXTENDS KernelSync, TLAPS

\* Calls, whatever the program's timeouts.
AnyCall ==
    {call \in [kind : {"single", "any", "all"}, hs : Seq(Handle), timeout : Nat \cup {Infinite}] :
        call.kind = "single" => DOMAIN call.hs = {1}}

WaitTypes ==
    /\ threads \in [Thread -> ThreadRecord] /\ current \in Thread
    /\ now \in Nat
    /\ pending \in [Thread -> AnyCall \cup {NoCall}]
    /\ next_handle \in 1 .. MaxHandles + 1
    /\ program \in Programs

CurrentIsReady == ~ halted => threads[current].status = "ready"

\* What BlockedInItsCall needs to be inductive: a wait is taken back, by its
\* success or its timeout, by the thread that runs, and that thread is ready.
WaitInv == WaitTypes /\ CurrentIsReady /\ BlockedInItsCall

-----------------------------------------------------------------------------
(* The thread table.                                                       *)

\* Threads were woken in th that make it th2, and nothing else happened.
OnlyWakes(th, th2) ==
    /\ th2 \in [Thread -> ThreadRecord]
    /\ \A t \in Thread : /\ th2[t].status = "blocked" => th2[t] = th[t]
                         /\ th[t].status = "ready" => th2[t].status = "ready"

\* A thread just made ready is a typed record.
LEMMA EntryTyped ==
    ASSUME NEW susp \in BOOLEAN, NEW late \in BOOLEAN
    PROVE  ReadyEntry(susp, late) \in ThreadRecord /\ ReadyEntry(susp, late).status = "ready"
BY DEF ReadyEntry, Entry, ThreadRecord, Status, Never

\* WakeExpired and UnblockAll only make blocked threads ready.
LEMMA WakingOnlyWakes ==
    ASSUME NEW th \in [Thread -> ThreadRecord], NEW clock, NEW hs
    PROVE  OnlyWakes(th, WakeExpired(th, clock)) /\ OnlyWakes(th, UnblockAll(th, hs))
<1>1. \A t \in Thread : /\ th[t] \in ThreadRecord
                        /\ th[t].suspended \in BOOLEAN /\ th[t].timedOut \in BOOLEAN
  BY DEF ThreadRecord
<1>2. WakeExpired(th, clock) \in [Thread -> ThreadRecord]
  BY <1>1, EntryTyped DEF WakeExpired
<1>3. UnblockAll(th, hs) \in [Thread -> ThreadRecord]
  BY <1>1, EntryTyped DEF UnblockAll
<1>4. OnlyWakes(th, WakeExpired(th, clock))
  BY <1>1, <1>2, EntryTyped DEF OnlyWakes, WakeExpired
<1>5. OnlyWakes(th, UnblockAll(th, hs))
  BY <1>1, <1>3, EntryTyped DEF OnlyWakes, UnblockAll
<1>6. QED
  BY <1>4, <1>5

\* Only waking twice is only waking.
LEMMA OnlyWakesTwice ==
    ASSUME NEW a, NEW b, NEW c, OnlyWakes(a, b), OnlyWakes(b, c)
    PROVE  OnlyWakes(a, c)
BY DEF OnlyWakes

\* What a pick makes of the table, and whom it picks.
LEMMA ResolveOnlyWakes ==
    ASSUME NEW th \in [Thread -> ThreadRecord], NEW objs, NEW clock,
           NEW r \in Resolve(th, objs, clock)
    PROVE  OnlyWakes(th, r.threads) /\ r.next \in NextReady(r.threads, current)
<1> DEFINE woken == WakeExpired(th, clock)
           ticked == UnblockAll(woken, Wakes(KernelSignals))
<1>1. OnlyWakes(th, woken)
  BY WakingOnlyWakes
<1>2. OnlyWakes(th, ticked)
  <2>1. woken \in [Thread -> ThreadRecord]
    BY <1>1 DEF OnlyWakes
  <2> HIDE DEF woken
  <2>2. OnlyWakes(woken, ticked)
    BY <2>1, WakingOnlyWakes
  <2> QED BY <1>1, <2>2, OnlyWakesTwice
<1>3. \/ r.threads = woken /\ r.next \in NextReady(woken, current)
      \/ r.threads = ticked /\ r.next \in NextReady(ticked, current)
  BY DEF Resolve
<1> HIDE DEF woken, ticked
<1>4. QED
  BY <1>1, <1>2, <1>3

\* The thread picked next is ready, and another one.
LEMMA PickedIsReady ==
    ASSUME NEW th, NEW next \in NextReady(th, current), current \in Thread
    PROVE  /\ next # NoThread => next \in Thread \ {current} /\ th[next].status = "ready"
           /\ RunsNext(current, next) \in Thread
BY DEF NextReady, Candidates, Runnable, RunsNext

-----------------------------------------------------------------------------
(* Steps that wake threads and block none.                                 *)

\* A step that only wakes keeps the invariant of the waits.
LEMMA WakingKeeps ==
    ASSUME WaitInv, OnlyWakes(threads, threads'), UNCHANGED <<current, halted, pending, program>>,
           now' \in Nat, next_handle' \in 1 .. MaxHandles + 1
    PROVE  WaitInv'
<1>1. WaitTypes'
  BY DEF WaitInv, WaitTypes, OnlyWakes
<1>2. CurrentIsReady'
  BY DEF WaitInv, WaitTypes, CurrentIsReady, OnlyWakes
<1>3. BlockedInItsCall'
  BY DEF WaitInv, BlockedInItsCall, OnlyWakes
<1>4. QED
  BY <1>1, <1>2, <1>3 DEF WaitInv

\* So does one that leaves the threads alone.
LEMMA NoWakeKeeps ==
    ASSUME WaitInv, UNCHANGED <<threads, current, halted, pending, program, now>>,
           next_handle' = next_handle \/ (next_handle <= program.handles /\ next_handle' = next_handle + 1)
    PROVE  WaitInv'
<1>1. OnlyWakes(threads, threads')
  BY DEF OnlyWakes, WaitInv, WaitTypes
<1>2. next_handle' \in 1 .. MaxHandles + 1
  BY HandleAssumption, ProgramAssumption DEF WaitInv, WaitTypes
<1>3. now' \in Nat
  BY DEF WaitInv, WaitTypes
<1>4. QED
  BY <1>1, <1>2, <1>3, WakingKeeps

\* One thread is suspended or resumed, whatever it is doing.
LEMMA SettingKeeps ==
    ASSUME WaitInv, NEW t \in Thread, NEW susp \in BOOLEAN,
           threads' = [threads EXCEPT ![t].suspended = susp],
           UNCHANGED <<current, halted, pending, program, now, next_handle>>
    PROVE  WaitInv'
<1>1. [threads[t] EXCEPT !.suspended = susp] \in ThreadRecord
  BY DEF WaitInv, WaitTypes, ThreadRecord
<1>2. WaitTypes'
  BY <1>1 DEF WaitInv, WaitTypes
<1>3. \A u \in Thread : /\ threads'[u].status = threads[u].status
                        /\ threads'[u].waits = threads[u].waits
                        /\ threads'[u].deadline = threads[u].deadline
  BY DEF WaitInv, WaitTypes, ThreadRecord
<1>4. CurrentIsReady' /\ BlockedInItsCall'
  BY <1>3 DEF WaitInv, WaitTypes, CurrentIsReady, BlockedInItsCall
<1>5. QED
  BY <1>2, <1>4 DEF WaitInv

\* A killed thread's record is typed.
LEMMA KilledTyped == DeadEntry \in ThreadRecord /\ DeadEntry.status = "dead"
BY DEF DeadEntry, Entry, ThreadRecord, Status, Never

\* TerminateThread keeps the invariant.
LEMMA TerminateKeeps ==
    ASSUME WaitInv, NEW t \in Thread, TerminateThread(t), UNCHANGED program PROVE WaitInv'
<1>1. /\ threads' = Kill(threads, t) /\ pending' = [pending EXCEPT ![t] = NoCall] /\ t # current
      /\ UNCHANGED <<current, now, halted, next_handle>>
  BY DEF TerminateThread, table
<1>2. WaitTypes'
  BY <1>1, KilledTyped DEF WaitInv, WaitTypes, Kill
<1>3. CurrentIsReady'
  BY <1>1 DEF WaitInv, WaitTypes, CurrentIsReady, Kill
<1>4. \A u \in Thread : threads'[u].status = "blocked" =>
          threads'[u] = threads[u] /\ pending'[u] = pending[u]
  BY <1>1, KilledTyped DEF WaitInv, WaitTypes, Kill
<1>5. BlockedInItsCall'
  BY <1>4 DEF WaitInv, BlockedInItsCall
<1>6. QED
  BY <1>2, <1>3, <1>5 DEF WaitInv

\* The table after a pick with one entry changed: next runs.
LEMMA HandOver ==
    ASSUME WaitInv, NEW th, OnlyWakes(threads, th), NEW next \in NextReady(th, current),
           NEW entry \in ThreadRecord, threads' = [th EXCEPT ![current] = entry],
           current' = RunsNext(current, next), next # NoThread \/ halted',
           entry.status = "blocked" =>
             /\ pending'[current] # NoCall
             /\ entry.waits = HandlesOf(pending'[current])
             /\ (entry.deadline = Never) <=> (pending'[current].timeout = Infinite),
           pending' \in [Thread -> AnyCall \cup {NoCall}],
           \A t \in Thread \ {current} : pending'[t] = pending[t],
           now' \in Nat, UNCHANGED <<program, next_handle>>
    PROVE  WaitInv'
<1>1. current \in Thread /\ th \in [Thread -> ThreadRecord]
  BY DEF WaitInv, WaitTypes, OnlyWakes
<1>2. /\ next # NoThread => next \in Thread \ {current} /\ th[next].status = "ready"
      /\ RunsNext(current, next) \in Thread
  BY <1>1, PickedIsReady
<1>3. WaitTypes'
  BY <1>1, <1>2 DEF WaitInv, WaitTypes
<1>4. CurrentIsReady'
  BY <1>1, <1>2 DEF CurrentIsReady, RunsNext
<1>5. ASSUME NEW t \in Thread, threads'[t].status = "blocked"
      PROVE  /\ pending'[t] # NoCall
             /\ threads'[t].waits = HandlesOf(pending'[t])
             /\ (threads'[t].deadline = Never) <=> (pending'[t].timeout = Infinite)
  <2>1. CASE t = current
    BY <1>1, <1>5, <2>1
  <2>2. CASE t # current
    <3>1. threads'[t] = threads[t] /\ pending'[t] = pending[t]
      BY <1>1, <1>5, <2>2 DEF OnlyWakes
    <3>2. QED
      BY <1>5, <3>1 DEF WaitInv, BlockedInItsCall
  <2>3. QED
    BY <2>1, <2>2
<1>6. QED
  BY <1>3, <1>4, <1>5 DEF WaitInv, BlockedInItsCall

-----------------------------------------------------------------------------
(* A wait.                                                                 *)

\* A call is never the mark of none.
LEMMA NoCallIsNone == \A call \in AnyCall : call # NoCall
BY DEF AnyCall, NoCall

\* A wait that is satisfied keeps the invariant.
LEMMA SatisfyKeeps ==
    ASSUME WaitInv, ~ halted, NEW call, Satisfy(call), UNCHANGED program PROVE WaitInv'
<1>1. /\ pending' = [pending EXCEPT ![current] = NoCall]
      /\ UNCHANGED <<threads, current, now, halted, next_handle>>
  BY DEF Satisfy, scheduling, table
<1>2. WaitTypes' /\ CurrentIsReady'
  BY <1>1 DEF WaitInv, WaitTypes, CurrentIsReady
<1>3. \A t \in Thread : threads'[t].status = "blocked" =>
          threads'[t] = threads[t] /\ pending'[t] = pending[t]
  BY <1>1 DEF WaitInv, WaitTypes, CurrentIsReady
<1>4. QED
  BY <1>2, <1>3 DEF WaitInv, BlockedInItsCall

\* One that times out does.
LEMMA TimeOutKeeps ==
    ASSUME WaitInv, ~ halted, NEW call, TimeOut(call), UNCHANGED program PROVE WaitInv'
<1>1. /\ threads' = [threads EXCEPT ![current].timedOut = FALSE]
      /\ pending' = [pending EXCEPT ![current] = NoCall]
      /\ UNCHANGED <<current, now, halted, next_handle>>
  BY DEF TimeOut, table
<1>2. current \in Thread /\ threads[current].status = "ready"
  BY DEF WaitInv, WaitTypes, CurrentIsReady
<1>3. [threads[current] EXCEPT !.timedOut = FALSE] \in ThreadRecord
      /\ [threads[current] EXCEPT !.timedOut = FALSE].status = "ready"
  BY <1>2 DEF WaitInv, WaitTypes, ThreadRecord
<1>4. WaitTypes' /\ CurrentIsReady'
  BY <1>1, <1>2, <1>3 DEF WaitInv, WaitTypes, CurrentIsReady
<1>5. \A t \in Thread : threads'[t].status = "blocked" =>
          threads'[t] = threads[t] /\ pending'[t] = pending[t]
  BY <1>1, <1>2, <1>3 DEF WaitInv, WaitTypes
<1>6. QED
  BY <1>4, <1>5 DEF WaitInv, BlockedInItsCall

\* One that blocks does.
LEMMA BlockKeeps ==
    ASSUME WaitInv, ~ halted, NEW call \in AnyCall, Block(call), UNCHANGED program PROVE WaitInv'
<1>1. PICK r \in Resolve(threads, objects, now) :
         /\ current' = RunsNext(current, r.next)
         /\ \/ threads' = CompleteBlock(r.threads, current, HandlesOf(call),
                                        Deadline(call), r.next)
            \/ /\ r.next = NoThread
               /\ Deadline(call) = now
               /\ threads' = [r.threads EXCEPT ![current].timedOut = TRUE]
  BY DEF Block, SwitchTo
<1> DEFINE th == r.threads
           next == r.next
<1>2. OnlyWakes(threads, th) /\ next \in NextReady(th, current)
  BY ResolveOnlyWakes DEF WaitInv, WaitTypes
<1>3. /\ pending' = [pending EXCEPT ![current] = call]
      /\ UNCHANGED <<now, halted, next_handle>>
  BY DEF Block, Rewinds, table
<1>4. /\ current \in Thread /\ th \in [Thread -> ThreadRecord]
      /\ threads[current].status = "ready" /\ th[current].status = "ready"
      /\ pending \in [Thread -> AnyCall \cup {NoCall}] /\ now \in Nat
  BY <1>2 DEF WaitInv, WaitTypes, CurrentIsReady, OnlyWakes
<1>5. /\ pending' \in [Thread -> AnyCall \cup {NoCall}] /\ pending'[current] = call
      /\ \A t \in Thread \ {current} : pending'[t] = pending[t]
  BY <1>3, <1>4
<1>6. CASE next # NoThread
  <2> DEFINE entry == Entry("blocked", th[current].suspended, HandlesOf(call), Deadline(call),
                            th[current].timedOut)
  <2>1. threads' = [th EXCEPT ![current] = entry]
    BY <1>1, <1>6 DEF CompleteBlock
  <2>2. HandlesOf(call) \in SUBSET Handle /\ call.timeout \in Nat \cup {Infinite}
    BY DEF AnyCall, HandlesOf
  <2>3. Deadline(call) \in Int /\ ((Deadline(call) = Never) <=> (call.timeout = Infinite))
    BY <1>4, <2>2 DEF Deadline, Never, Infinite
  <2>4. /\ entry \in ThreadRecord
        /\ entry.waits = HandlesOf(call) /\ entry.deadline = Deadline(call)
    <3>1. th[current].suspended \in BOOLEAN /\ th[current].timedOut \in BOOLEAN
      BY <1>4 DEF ThreadRecord
    <3>2. QED
      BY <2>2, <2>3, <3>1 DEF Entry, ThreadRecord, Status
  <2>5. call # NoCall
    BY NoCallIsNone
  <2> HIDE DEF entry, th, next
  <2>6. QED
    BY <1>1, <1>2, <1>3, <1>4, <1>5, <1>6, <2>1, <2>3, <2>4, <2>5, HandOver DEF next
<1>7. CASE next = NoThread
  <2>1. current' = current
    BY <1>1, <1>7 DEF RunsNext
  <2>2. /\ threads' \in [Thread -> ThreadRecord] /\ threads'[current].status = "ready"
        /\ \A t \in Thread \ {current} : threads'[t] = th[t]
    <3>1. CASE threads' = th
      BY <1>4, <3>1
    <3>2. CASE threads' = [th EXCEPT ![current].timedOut = TRUE]
      <4>1. [th[current] EXCEPT !.timedOut = TRUE] \in ThreadRecord
            /\ [th[current] EXCEPT !.timedOut = TRUE].status = "ready"
        BY <1>4 DEF ThreadRecord
      <4> HIDE DEF th
      <4>2. QED
        BY <1>4, <3>2, <4>1
    <3>3. QED
      BY <1>1, <1>7, <3>1, <3>2 DEF CompleteBlock
  <2>3. WaitTypes' /\ CurrentIsReady'
    BY <1>3, <1>4, <1>5, <2>1, <2>2 DEF WaitInv, WaitTypes, CurrentIsReady
  <2>4. \A t \in Thread : threads'[t].status = "blocked" =>
            threads'[t] = threads[t] /\ pending'[t] = pending[t]
    BY <1>2, <1>4, <1>5, <2>2 DEF OnlyWakes
  <2>5. QED
    BY <2>3, <2>4 DEF WaitInv, BlockedInItsCall
<1>8. QED
  BY <1>6, <1>7

\* So the evaluation of a wait does.
LEMMA EvaluateKeeps ==
    ASSUME WaitInv, ~ halted, NEW call \in AnyCall, Evaluate(call), UNCHANGED program
    PROVE  WaitInv'
BY SatisfyKeeps, TimeOutKeeps, BlockKeeps DEF Evaluate

\* The calls a guest makes.
LEMMA SingleTyped ==
    ASSUME WaitInv, NEW h \in Known, NEW t \in program.timeouts \cup {Infinite}
    PROVE  [kind |-> "single", hs |-> <<h>>, timeout |-> t] \in AnyCall
<1>1. program.timeouts \subseteq Nat /\ h \in Handle
  BY ProgramAssumption, HandleAssumption DEF WaitInv, WaitTypes, Known, Untracked
<1>2. <<h>> \in Seq(Handle) /\ DOMAIN <<h>> = {1}
  BY <1>1
<1>3. QED
  BY <1>1, <1>2 DEF AnyCall

\* A call of WaitForMultipleObjects is a call.
LEMMA MultipleTyped ==
    ASSUME WaitInv, NEW h1 \in Known, NEW h2 \in Known, NEW all \in BOOLEAN,
           NEW t \in program.timeouts \cup {Infinite}
    PROVE  [kind |-> IF all THEN "all" ELSE "any", hs |-> <<h1, h2>>, timeout |-> t] \in AnyCall
<1>1. program.timeouts \subseteq Nat /\ h1 \in Handle /\ h2 \in Handle
  BY ProgramAssumption, HandleAssumption DEF WaitInv, WaitTypes, Known, Untracked
<1>2. <<h1, h2>> \in Seq(Handle)
  BY <1>1
<1>3. QED
  BY <1>1, <1>2 DEF AnyCall

\* The retry of a woken wait does.
LEMMA RetryKeeps == WaitInv /\ RetryWait /\ UNCHANGED program => WaitInv'
<1> SUFFICES ASSUME WaitInv, RetryWait, UNCHANGED program PROVE WaitInv'
  OBVIOUS
<1>1. pending[current] \in AnyCall /\ ~ halted /\ Evaluate(pending[current])
  BY DEF RetryWait, WaitInv, WaitTypes
<1>2. QED
  BY <1>1, EvaluateKeeps

-----------------------------------------------------------------------------
(* The other switches.                                                     *)

\* Sleep does.
LEMMA SleepKeeps ==
    ASSUME WaitInv, NEW ms \in program.timeouts, Sleep(ms), UNCHANGED program PROVE WaitInv'
<1>1. ms \in Nat /\ now \in Nat /\ threads \in [Thread -> ThreadRecord] /\ current \in Thread
      /\ pending \in [Thread -> AnyCall \cup {NoCall}]
  BY ProgramAssumption DEF WaitInv, WaitTypes
<1>2. /\ ~ halted /\ now' = now + ms /\ threads[current].status = "ready"
      /\ UNCHANGED <<halted, pending, next_handle>>
  BY DEF Sleep, Calls, table, WaitInv, CurrentIsReady
<1> DEFINE woken == UnblockAll(threads, Wakes(TimerSignals(now')))
           objs  == Signal(objects, TimerSignals(now'))
<1>3. OnlyWakes(threads, woken)
  BY <1>1, WakingOnlyWakes
<1>4. \E r \in Resolve(woken, objs, now') :
         /\ current' = RunsNext(current, r.next)
         /\ threads' = CompleteSleep(r.threads, current, now' + ms, r.next)
  BY DEF Sleep, SwitchTo
<1> HIDE DEF woken, objs
<1>5. PICK r \in Resolve(woken, objs, now') :
         /\ current' = RunsNext(current, r.next)
         /\ threads' = CompleteSleep(r.threads, current, now' + ms, r.next)
  BY <1>4
<1> DEFINE th == r.threads
           next == r.next
<1>6. OnlyWakes(woken, th) /\ next \in NextReady(th, current)
  BY <1>3, ResolveOnlyWakes DEF OnlyWakes
<1>7. OnlyWakes(threads, th)
  BY <1>3, <1>6, OnlyWakesTwice
<1>8. now' \in Nat /\ now' + ms \in Int
  BY <1>1, <1>2
<1>9. CASE next # NoThread
  <2> DEFINE entry == Entry("sleeping", th[current].suspended, {}, now' + ms,
                            th[current].timedOut)
  <2>1. threads' = [th EXCEPT ![current] = entry]
    BY <1>5, <1>9 DEF CompleteSleep
  <2>2. entry \in ThreadRecord /\ entry.status # "blocked"
    <3>1. th[current].suspended \in BOOLEAN /\ th[current].timedOut \in BOOLEAN
      BY <1>1, <1>7 DEF OnlyWakes, ThreadRecord
    <3>2. QED
      BY <1>8, <3>1 DEF Entry, ThreadRecord, Status
  <2> HIDE DEF entry, th, next
  <2>3. QED
    BY <1>1, <1>2, <1>5, <1>6, <1>7, <1>8, <1>9, <2>1, <2>2, HandOver DEF next
<1>10. CASE next = NoThread
  <2>1. threads' = th /\ current' = current
    BY <1>5, <1>10 DEF CompleteSleep, RunsNext
  <2> HIDE DEF th, next
  <2>2. QED
    BY <1>2, <1>7, <1>8, <2>1, WakingKeeps DEF WaitInv, WaitTypes
<1>11. QED
  BY <1>9, <1>10

\* ExitThread does.
LEMMA ExitKeeps == WaitInv /\ ExitThread /\ UNCHANGED program => WaitInv'
<1> SUFFICES ASSUME WaitInv, ExitThread, UNCHANGED program PROVE WaitInv'
  OBVIOUS
<1>1. PICK r \in Resolve(threads, objects, now) :
         /\ current' = RunsNext(current, r.next)
         /\ threads' = Kill(r.threads, current)
         /\ halted' = (r.next = NoThread)
  BY DEF ExitThread, SwitchTo
<1> DEFINE th == r.threads
           next == r.next
<1>2. OnlyWakes(threads, th) /\ next \in NextReady(th, current)
  BY ResolveOnlyWakes DEF WaitInv, WaitTypes
<1>3. threads' = [th EXCEPT ![current] = DeadEntry] /\ (next # NoThread \/ halted')
  BY <1>1 DEF Kill
<1>4. UNCHANGED <<now, pending, next_handle>>
  BY DEF ExitThread, table
<1>5. now' \in Nat /\ pending' \in [Thread -> AnyCall \cup {NoCall}]
  BY <1>4 DEF WaitInv, WaitTypes
<1> HIDE DEF th, next
<1>6. QED
  BY <1>1, <1>2, <1>3, <1>4, <1>5, KilledTyped, HandOver DEF next

\* The end of a time slice does.
LEMMA PreemptKeeps == WaitInv /\ Preempt /\ UNCHANGED program => WaitInv'
<1> SUFFICES ASSUME WaitInv, Preempt, UNCHANGED program PROVE WaitInv'
  OBVIOUS
<1> DEFINE th == WakeExpired(threads, now)
<1>1. threads \in [Thread -> ThreadRecord] /\ current \in Thread
  BY DEF WaitInv, WaitTypes
<1>2. OnlyWakes(threads, th)
  BY <1>1, WakingOnlyWakes
<1>3. /\ threads' = th /\ ~ halted
      /\ UNCHANGED <<now, halted, pending, next_handle>>
  BY DEF Preempt, table
<1>4. PICK next \in NextReady(th, current) : current' = RunsNext(current, next)
  BY DEF Preempt
<1> HIDE DEF th
<1>5. current' \in Thread /\ threads'[current'].status = "ready"
  <2>1. th[current].status = "ready"
    BY <1>1, <1>2, <1>3 DEF WaitInv, CurrentIsReady, OnlyWakes
  <2>2. QED
    BY <1>1, <1>3, <1>4, <2>1, PickedIsReady DEF RunsNext
<1>6. WaitTypes' /\ CurrentIsReady'
  BY <1>2, <1>3, <1>5 DEF WaitInv, WaitTypes, CurrentIsReady, OnlyWakes
<1>7. BlockedInItsCall'
  BY <1>2, <1>3 DEF WaitInv, BlockedInItsCall, OnlyWakes
<1>8. QED
  BY <1>6, <1>7 DEF WaitInv

\* CreateThread does.
LEMMA CreateThreadKeeps ==
    ASSUME WaitInv, NEW susp \in BOOLEAN, CreateThread(susp), UNCHANGED program PROVE WaitInv'
<1>1. PICK t \in FirstFree(threads) : threads' = AddThread(threads, t, susp)
  BY DEF CreateThread
<1>2. t \in Thread /\ threads[t].status = "free"
  BY <1>1 DEF FirstFree
<1>3. UNCHANGED <<current, halted, pending, now, next_handle>>
  BY DEF CreateThread, table
<1>4. OnlyWakes(threads, threads')
  BY <1>1, <1>2, EntryTyped DEF OnlyWakes, AddThread, WaitInv, WaitTypes
<1>5. QED
  BY <1>3, <1>4, WakingKeeps DEF WaitInv, WaitTypes

-----------------------------------------------------------------------------
\* The invariant of the waits holds at first.
LEMMA WaitStarts == Init => WaitInv
<1> SUFFICES ASSUME Init PROVE WaitInv
  OBVIOUS
<1>1. 0 \in Thread /\ 1 \in 1 .. MaxHandles + 1
  BY NThreadsAssumption, HandleAssumption DEF Thread
<1>2. MainThreadOnly \in [Thread -> ThreadRecord]
  <2>1. FreeEntry \in ThreadRecord /\ ReadyEntry(FALSE, FALSE) \in ThreadRecord
    BY DEF FreeEntry, ReadyEntry, Entry, ThreadRecord, Status, Never
  <2>2. QED
    BY <2>1 DEF MainThreadOnly
<1>3. /\ MainThreadOnly[0].status = "ready"
      /\ \A t \in Thread : MainThreadOnly[t].status # "blocked"
  BY <1>1 DEF MainThreadOnly, FreeEntry, ReadyEntry, Entry
<1>4. QED
  BY <1>1, <1>2, <1>3 DEF Init, WaitInv, WaitTypes, CurrentIsReady, BlockedInItsCall

\* Every call of the guest keeps it.
LEMMA GuestKeeps == WaitInv /\ Guest /\ UNCHANGED program => WaitInv'
<1> SUFFICES ASSUME WaitInv, Guest, UNCHANGED program PROVE WaitInv'
  OBVIOUS
<1>1. ASSUME NEW named \in BOOLEAN, NEW owned \in BOOLEAN, CreateMutexA(named, owned) PROVE WaitInv'
  BY <1>1, NoWakeKeeps DEF CreateMutexA, NewObject, scheduling
<1>2. ASSUME NEW manual \in BOOLEAN, NEW initial \in BOOLEAN, CreateEventA(manual, initial)
      PROVE  WaitInv'
  BY <1>2, NoWakeKeeps DEF CreateEventA, NewObject, scheduling
<1>3. ASSUME NEW h \in Known, SetEvent(h) PROVE WaitInv'
  BY <1>3, WakingOnlyWakes, WakingKeeps DEF SetEvent, Unblock, table, WaitInv, WaitTypes
<1>4. ASSUME NEW h \in Known, ResetEvent(h) PROVE WaitInv'
  BY <1>4, NoWakeKeeps DEF ResetEvent, scheduling, table
<1>5. ASSUME NEW h \in Known, ReleaseMutex(h) PROVE WaitInv'
  <2>1. threads' = Unblock(threads, h) \/ threads' = threads
    BY <1>5 DEF ReleaseMutex
  <2>2. UNCHANGED <<current, now, halted, pending, next_handle>>
    BY <1>5 DEF ReleaseMutex, table
  <2>3. CASE threads' = threads
    BY <2>2, <2>3, NoWakeKeeps
  <2>4. CASE threads' = Unblock(threads, h)
    BY <2>2, <2>4, WakingOnlyWakes, WakingKeeps DEF Unblock, WaitInv, WaitTypes
  <2>5. QED
    BY <2>1, <2>3, <2>4
<1>6. ASSUME NEW h \in Known, CloseHandle(h) PROVE WaitInv'
  BY <1>6, NoWakeKeeps DEF CloseHandle, scheduling
<1>7. ASSUME NEW h \in Known, NEW c \in BOOLEAN, DuplicateHandle(h, c) PROVE WaitInv'
  BY <1>7, NoWakeKeeps DEF DuplicateHandle, scheduling
<1>8. ASSUME NEW h \in Known, NEW timeout \in program.timeouts \cup {Infinite},
             WaitForSingleObject(h, timeout)
      PROVE  WaitInv'
  <2> DEFINE call == [kind |-> "single", hs |-> <<h>>, timeout |-> timeout]
  <2>1. call \in AnyCall
    BY SingleTyped
  <2>2. Evaluate(call) /\ ~ halted
    BY <1>8 DEF WaitForSingleObject, Calls
  <2> HIDE DEF call
  <2>3. QED
    BY <2>1, <2>2, EvaluateKeeps
<1>9. ASSUME NEW h1 \in Known, NEW h2 \in Known, NEW all \in BOOLEAN,
             NEW timeout \in program.timeouts \cup {Infinite},
             WaitForMultipleObjects(<<h1, h2>>, all, timeout)
      PROVE  WaitInv'
  <2> DEFINE call == [kind |-> IF all THEN "all" ELSE "any", hs |-> <<h1, h2>>,
                      timeout |-> timeout]
  <2>1. call \in AnyCall
    BY MultipleTyped
  <2>2. Evaluate(call) /\ ~ halted
    BY <1>9 DEF WaitForMultipleObjects, Calls
  <2> HIDE DEF call
  <2>3. QED
    BY <2>1, <2>2, EvaluateKeeps
<1>10. ASSUME NEW h \in Known, NEW delay \in program.timeouts, NEW periodic \in BOOLEAN,
              timeSetEvent(h, delay, periodic)
       PROVE  WaitInv'
  BY <1>10, NoWakeKeeps DEF timeSetEvent, scheduling, table
<1>11. ASSUME NEW i \in Timer, timeKillEvent(i) PROVE WaitInv'
  BY <1>11, NoWakeKeeps DEF timeKillEvent, scheduling, table
<1>12. ASSUME NEW t \in Thread, ResumeThread(t) PROVE WaitInv'
  BY <1>12, SettingKeeps DEF ResumeThread, table
<1>13. ASSUME NEW t \in Thread, SuspendThread(t) PROVE WaitInv'
  BY <1>13, SettingKeeps DEF SuspendThread, table
<1>14. ASSUME NEW s \in Socket, NEW h \in Known, NEW events \in SUBSET NetEvent,
              WSAEventSelect(s, h, events)
       PROVE  WaitInv'
  BY <1>14, NoWakeKeeps DEF WSAEventSelect, scheduling, table
<1>15. ASSUME NEW s \in Socket, closesocket(s) PROVE WaitInv'
  BY <1>15, NoWakeKeeps DEF closesocket, scheduling, table
<1>16. ASSUME NEW susp \in BOOLEAN, CreateThread(susp) PROVE WaitInv'
  BY <1>16, CreateThreadKeeps
<1>17. ASSUME NEW t \in Thread, TerminateThread(t) PROVE WaitInv'
  BY <1>17, TerminateKeeps
<1>18. ASSUME NEW ms \in program.timeouts, Sleep(ms) PROVE WaitInv'
  BY <1>18, SleepKeeps
<1>19. CASE ExitThread
  BY <1>19, ExitKeeps
<1>20. QED
  BY <1>1, <1>2, <1>3, <1>4, <1>5, <1>6, <1>7, <1>8, <1>9, <1>10, <1>11, <1>12, <1>13,
     <1>14, <1>15, <1>16, <1>17, <1>18, <1>19 DEF Guest

\* The heartbeat does.
LEMMA HeartbeatKeeps == WaitInv /\ Heartbeat /\ UNCHANGED program => WaitInv'
<1> SUFFICES ASSUME WaitInv, Heartbeat, UNCHANGED program PROVE WaitInv'
  OBVIOUS
<1>1. /\ threads' = UnblockAll(threads, Wakes(TimerSignals(now')))
      /\ UNCHANGED <<current, halted, pending, next_handle>>
      /\ now' \in Nat
  BY DEF Heartbeat, table, WaitInv, WaitTypes
<1>2. QED
  BY <1>1, WakingOnlyWakes, WakingKeeps DEF WaitInv, WaitTypes

\* Every step does.
LEMMA WaitGoesOn == WaitInv /\ [Next]_vars => WaitInv'
<1> SUFFICES ASSUME WaitInv, [Next]_vars PROVE WaitInv'
  OBVIOUS
<1>1. CASE UNCHANGED vars
  BY <1>1, NoWakeKeeps DEF vars, scheduling, table
<1>2. CASE Next
  <2>1. UNCHANGED program
    BY <1>2 DEF Next
  <2>2. ASSUME NEW s \in Socket, NEW ready \in SUBSET {"read", "write"}, Network(s, ready)
        PROVE  WaitInv'
    BY <2>1, <2>2, NoWakeKeeps DEF Network, scheduling, table
  <2>3. QED
    BY <1>2, <2>1, <2>2, GuestKeeps, RetryKeeps, PreemptKeeps, HeartbeatKeeps DEF Next
<1>3. QED
  BY <1>1, <1>2

\* A blocked thread waits for exactly what the call it will evaluate again is
\* about, with a deadline if and only if the call has one, for any number of
\* threads, handles and timeouts (kernel32_io.py, scheduler_zig.py).
THEOREM WaitsAgree == Spec => []BlockedInItsCall
<1>1. WaitInv => BlockedInItsCall
  BY DEF WaitInv
<1>2. QED
  BY <1>1, WaitStarts, WaitGoesOn, PTL DEF Spec

-----------------------------------------------------------------------------
(***************************************************************************)
(* Mutexes.  Objects are created under handles that were never handed out, *)
(* so a new mutex takes the place of none; and a wait takes a mutex only   *)
(* when it is free, or has it already.                                     *)
(***************************************************************************)
ObjectTypes ==
    /\ handle_map \in [Handle -> Handle \cup {NoObject}]
    /\ objects = [id \in Handle |-> objects[id]]

NewHandlesAreFresh ==
    /\ \A h \in Handle : Mapped(h) => handle_map[h] < next_handle
    /\ \A id \in Handle : id >= next_handle => objects[id].owner = NoThread

MutexInv == WaitInv /\ ObjectTypes /\ NewHandlesAreFresh

OwnersKept ==
    \A id \in Handle :
        (objects[id].owner # NoThread /\ objects'[id].owner # NoThread)
          => objects'[id].owner = objects[id].owner

\* A step keeps the owners and leaves new handles fresh.
MutexStep == ObjectTypes' /\ NewHandlesAreFresh' /\ OwnersKept

\* Objects are signaled, or left as they are.
OnlySignals(objs, objs2) ==
    /\ objs2 = [id \in Handle |-> objs2[id]]
    /\ \A id \in Handle : objs2[id] = objs[id] \/ objs2[id].owner = NoThread

\* An event has no owner.
LEMMA UnownedEvents == \A m, s : Event(m, s).owner = NoThread /\ Event(m, s).kind = "event"
BY DEF Event

\* A mutex is made with the owner asked for.
LEMMA MutexOwner == \A n, o, c : Mutex(n, o, c).owner = o /\ Mutex(n, o, c).kind = "mutex"
BY DEF Mutex

\* Signal only sets the state of events.
LEMMA SignalOnlySignals == ASSUME NEW objs, NEW hs PROVE OnlySignals(objs, Signal(objs, hs))
BY UnownedEvents DEF OnlySignals, Signal

\* So does what a heartbeat finds out.
LEMMA ResolveOnlySignals ==
    ASSUME NEW th, NEW objs, NEW clock, NEW r \in Resolve(th, objs, clock),
           objs = [id \in Handle |-> objs[id]]
    PROVE  OnlySignals(objs, r.objects)
<1> DEFINE signaled == Signal(objs, KernelSignals)
<1>1. r.objects = objs \/ r.objects = signaled
  BY DEF Resolve
<1>2. OnlySignals(objs, signaled) /\ OnlySignals(objs, objs)
  BY SignalOnlySignals DEF OnlySignals
<1> HIDE DEF signaled
<1>3. QED
  BY <1>1, <1>2

\* A step that only signals keeps the owners.
LEMMA SignalsKeep ==
    ASSUME MutexInv, OnlySignals(objects, objects'), UNCHANGED <<handle_map, next_handle>>
    PROVE  MutexStep
<1>1. ObjectTypes'
  BY DEF MutexInv, ObjectTypes, OnlySignals
<1>2. NewHandlesAreFresh'
  BY DEF MutexInv, NewHandlesAreFresh, OnlySignals, Mapped
<1>3. OwnersKept
  BY DEF OwnersKept, OnlySignals
<1>4. QED
  BY <1>1, <1>2, <1>3 DEF MutexStep

\* So does one that leaves the objects alone.
LEMMA UntouchedKeep ==
    ASSUME MutexInv, UNCHANGED <<objects, handle_map, next_handle>> PROVE MutexStep
BY SignalsKeep DEF OnlySignals, MutexInv, ObjectTypes

\* The creation of an object does.
LEMMA NewObjectKeeps ==
    ASSUME MutexInv, NEW obj, NewObject(obj) PROVE MutexStep
<1>1. /\ next_handle \in Handle /\ next_handle' = next_handle + 1 /\ next_handle \in Nat
      /\ handle_map' = [handle_map EXCEPT ![next_handle] = next_handle]
      /\ objects' = [objects EXCEPT ![next_handle] = obj]
  BY HandleAssumption, ProgramAssumption DEF NewObject, MutexInv, WaitInv, WaitTypes
<1>2. Handle \subseteq Int
  BY HandleAssumption
<1>3. ObjectTypes'
  BY <1>1 DEF MutexInv, ObjectTypes
<1>4. NewHandlesAreFresh'
  <2>1. ASSUME NEW h \in Handle, Mapped(h)' PROVE handle_map'[h] < next_handle'
    BY <1>1, <1>2, <2>1 DEF MutexInv, ObjectTypes, NewHandlesAreFresh, Mapped, NoObject
  <2>2. ASSUME NEW id \in Handle, id >= next_handle' PROVE objects'[id].owner = NoThread
    <3>1. id # next_handle /\ id >= next_handle
      BY <1>1, <1>2, <2>2
    <3>2. objects'[id] = objects[id]
      BY <1>1, <3>1 DEF MutexInv, ObjectTypes
    <3>3. QED
      BY <3>1, <3>2 DEF MutexInv, NewHandlesAreFresh
  <2>3. QED
    BY <2>1, <2>2 DEF NewHandlesAreFresh
<1>5. OwnersKept
  <2>1. objects[next_handle].owner = NoThread
    BY <1>1 DEF MutexInv, NewHandlesAreFresh
  <2>2. \A id \in Handle \ {next_handle} : objects'[id] = objects[id]
    BY <1>1 DEF MutexInv, ObjectTypes
  <2>3. QED
    BY <2>1, <2>2 DEF OwnersKept
<1>6. QED
  BY <1>3, <1>4, <1>5 DEF MutexStep

\* DuplicateHandle does.
LEMMA DuplicateKeeps ==
    ASSUME MutexInv, NEW h \in Known, NEW c \in BOOLEAN, DuplicateHandle(h, c) PROVE MutexStep
<1>1. /\ next_handle \in Handle /\ next_handle' = next_handle + 1 /\ next_handle \in Nat
      /\ h \in Handle /\ h # next_handle
  BY HandleAssumption, ProgramAssumption
     DEF DuplicateHandle, Known, Untracked, MutexInv, WaitInv, WaitTypes
<1>2. Handle \subseteq Int
  BY HandleAssumption
<1>3. /\ handle_map' = [handle_map EXCEPT
            ![next_handle] = IF Mapped(h) THEN handle_map[h] ELSE next_handle,
            ![h] = IF c THEN NoObject ELSE @]
      /\ objects' = IF Mapped(h) THEN objects ELSE [objects EXCEPT ![next_handle] = Event(TRUE, TRUE)]
  BY DEF DuplicateHandle
<1>4. /\ handle_map'[next_handle] = IF Mapped(h) THEN handle_map[h] ELSE next_handle
      /\ \A g \in Handle \ {next_handle} : handle_map'[g] \in {handle_map[g], NoObject}
  BY <1>1, <1>3 DEF MutexInv, ObjectTypes
<1>5. \A id \in Handle : objects'[id] = objects[id] \/ objects'[id].owner = NoThread
  BY <1>1, <1>3, UnownedEvents DEF MutexInv, ObjectTypes
<1>6. ObjectTypes'
  BY <1>1, <1>3 DEF MutexInv, ObjectTypes, Mapped
<1>7. NewHandlesAreFresh'
  <2>1. ASSUME NEW g \in Handle, Mapped(g)' PROVE handle_map'[g] < next_handle'
    <3>1. CASE g = next_handle
      BY <1>1, <1>2, <1>4, <3>1 DEF MutexInv, ObjectTypes, NewHandlesAreFresh, Mapped, NoObject
    <3>2. CASE g # next_handle
      <4>1. handle_map'[g] = handle_map[g] /\ Mapped(g)
        BY <1>4, <2>1, <3>2 DEF Mapped
      <4>2. QED
        BY <1>1, <1>2, <4>1 DEF MutexInv, ObjectTypes, NewHandlesAreFresh, Mapped, NoObject
    <3>3. QED
      BY <3>1, <3>2
  <2>2. ASSUME NEW id \in Handle, id >= next_handle' PROVE objects'[id].owner = NoThread
    <3>1. id >= next_handle
      BY <1>1, <1>2, <2>2
    <3>2. QED
      BY <1>5, <3>1 DEF MutexInv, NewHandlesAreFresh
  <2>3. QED
    BY <2>1, <2>2 DEF NewHandlesAreFresh
<1>8. OwnersKept
  BY <1>5 DEF OwnersKept
<1>9. QED
  BY <1>6, <1>7, <1>8 DEF MutexStep

\* CloseHandle does, when it frees the object or not.
LEMMA CloseKeeps ==
    ASSUME MutexInv, NEW h \in Known, CloseHandle(h) PROVE MutexStep
<1>1. /\ handle_map' = [handle_map EXCEPT ![h] = NoObject] /\ next_handle' = next_handle
      /\ objects' = Collected(handle_map', objects)
  BY DEF CloseHandle
<1>2. OnlySignals(objects, objects')
  BY <1>1, UnownedEvents DEF OnlySignals, Collected
<1>3. ObjectTypes'
  BY <1>1, <1>2 DEF MutexInv, ObjectTypes, OnlySignals
<1>4. NewHandlesAreFresh'
  BY <1>1, <1>2 DEF MutexInv, ObjectTypes, NewHandlesAreFresh, OnlySignals, Mapped
<1>5. OwnersKept
  BY <1>2 DEF OwnersKept, OnlySignals
<1>6. QED
  BY <1>3, <1>4, <1>5 DEF MutexStep

\* ReleaseMutex does: only its owner frees a mutex.
LEMMA ReleaseKeeps ==
    ASSUME MutexInv, NEW h \in Known, ReleaseMutex(h) PROVE MutexStep
<1> DEFINE k == handle_map[h]
           m == objects[k]
<1>1. h \in Handle /\ Mapped(h)
  BY HandleAssumption DEF ReleaseMutex, IsMutex, Known, Untracked, MutexInv, WaitInv, WaitTypes
<1>2. k \in Handle /\ UNCHANGED <<handle_map, next_handle>> /\ k < next_handle
  BY <1>1 DEF MutexInv, ObjectTypes, NewHandlesAreFresh, Mapped, ReleaseMutex, table
<1> DEFINE obj == IF m.count <= 1 THEN Mutex(m.named, NoThread, 0)
                                  ELSE Mutex(m.named, m.owner, m.count - 1)
<1>3. objects' = [objects EXCEPT ![k] = obj] /\ obj.owner \in {NoThread, m.owner}
  BY MutexOwner DEF ReleaseMutex, Object
<1> HIDE DEF k, m, obj
<1>4. ObjectTypes' /\ \A id \in Handle \ {k} : objects'[id] = objects[id]
  BY <1>2, <1>3 DEF MutexInv, ObjectTypes
<1>5. objects'[k] = obj
  BY <1>2, <1>3 DEF MutexInv, ObjectTypes
<1>6. OwnersKept
  BY <1>3, <1>4, <1>5 DEF OwnersKept, m
<1>7. NewHandlesAreFresh'
  <2>1. \A id \in Handle : id >= next_handle => id # k
    BY <1>2, HandleAssumption DEF MutexInv, WaitInv, WaitTypes
  <2>2. QED
    BY <1>2, <1>4, <2>1 DEF MutexInv, NewHandlesAreFresh, Mapped
<1>8. QED
  BY <1>4, <1>6, <1>7 DEF MutexStep

\* What a wait takes had no owner, or has the thread that runs.
LEMMA TakesWhatIsFree ==
    ASSUME MutexInv, NEW call \in AnyCall, Satisfiable(current, call), NEW h \in Taken(call),
           Mapped(h), Object(h).kind # "event"
    PROVE  Object(h).owner \in {NoThread, current}
<1>1. CASE call.kind = "any"
  <2>1. IsFree(h)
    BY <1>1 DEF Taken
  <2>2. QED
    BY <2>1 DEF IsFree, IsEvent, IsMutex
<1>2. CASE call.kind = "all"
  <2>1. IsFree(h)
    BY <1>2 DEF Taken, HandlesOf, Satisfiable
  <2>2. QED
    BY <2>1 DEF IsFree, IsEvent, IsMutex
<1>3. CASE call.kind = "single"
  <2>1. h = call.hs[1]
    <3>1. h \in HandlesOf(call) /\ DOMAIN call.hs = {1}
      BY <1>3 DEF Taken, AnyCall
    <3>2. QED
      BY <3>1 DEF HandlesOf
  <2>2. IsFree(h) \/ Object(h).owner = current
    BY <1>3, <2>1 DEF Satisfiable, Recursive
  <2>3. QED
    BY <2>2 DEF IsFree, IsEvent, IsMutex
<1>4. QED
  BY <1>1, <1>2, <1>3 DEF AnyCall

\* A satisfied wait takes a free mutex only.
LEMMA SatisfyKeepsMutexes ==
    ASSUME MutexInv, NEW call \in AnyCall, Satisfy(call) PROVE MutexStep
<1>1. /\ Satisfiable(current, call) /\ UNCHANGED <<handle_map, next_handle>>
      /\ objects' = [id \in Handle |->
                        IF \E h \in Taken(call) : Mapped(h) /\ handle_map[h] = id
                        THEN Acquired(objects[id], current) ELSE objects[id]]
  BY DEF Satisfy, table
<1>2. Taken(call) \subseteq Handle
  BY DEF Taken, HandlesOf, AnyCall
<1>3. ASSUME NEW id \in Handle, objects'[id] # objects[id]
      PROVE  /\ id < next_handle
             /\ objects'[id].owner = NoThread \/ objects[id].owner \in {NoThread, objects'[id].owner}
  <2>1. PICK h \in Taken(call) : Mapped(h) /\ handle_map[h] = id
    BY <1>1, <1>3
  <2>2. h \in Handle /\ objects'[id] = Acquired(objects[id], current) /\ Object(h) = objects[id]
    BY <1>1, <1>2, <2>1 DEF Object
  <2>3. id < next_handle
    BY <2>1, <2>2 DEF MutexInv, NewHandlesAreFresh
  <2>4. CASE objects[id].kind = "event"
    BY <2>2, <2>3, <2>4, UnownedEvents DEF Acquired
  <2>5. CASE objects[id].kind # "event"
    <3>1. objects[id].owner \in {NoThread, current}
      BY <1>1, <2>1, <2>2, <2>5, TakesWhatIsFree
    <3>2. objects'[id].owner = current
      BY <2>2, <2>5, MutexOwner DEF Acquired
    <3>3. QED
      BY <2>3, <3>1, <3>2
  <2>6. QED
    BY <2>4, <2>5
<1>4. ObjectTypes'
  BY <1>1 DEF MutexInv, ObjectTypes
<1>5. NewHandlesAreFresh'
  <2>1. Handle \subseteq Int /\ next_handle \in Int
    BY HandleAssumption DEF MutexInv, WaitInv, WaitTypes
  <2>2. \A id \in Handle : id >= next_handle => objects'[id] = objects[id]
    BY <1>3, <2>1
  <2>3. QED
    BY <1>1, <2>2 DEF MutexInv, NewHandlesAreFresh, Mapped
<1>6. OwnersKept
  BY <1>3 DEF OwnersKept
<1>7. QED
  BY <1>4, <1>5, <1>6 DEF MutexStep

\* The evaluation of a wait keeps the owners.
LEMMA EvaluateKeepsMutexes ==
    ASSUME MutexInv, NEW call \in AnyCall, Evaluate(call) PROVE MutexStep
<1>1. ASSUME TimeOut(call) PROVE MutexStep
  BY <1>1, UntouchedKeep DEF TimeOut, table
<1>2. ASSUME Block(call) PROVE MutexStep
  <2>1. PICK r \in Resolve(threads, objects, now) : objects' = r.objects
    BY <1>2 DEF Block, SwitchTo
  <2>2. OnlySignals(objects, objects')
    BY <2>1, ResolveOnlySignals DEF MutexInv, ObjectTypes
  <2>3. QED
    BY <1>2, <2>2, SignalsKeep DEF Block, table
<1>3. QED
  BY <1>1, <1>2, SatisfyKeepsMutexes DEF Evaluate

\* Sleep and ExitThread do.
LEMMA SwitchesKeepMutexes ==
    ASSUME MutexInv, ExitThread \/ \E ms \in program.timeouts : Sleep(ms) PROVE MutexStep
<1>1. CASE ExitThread
  <2>1. PICK r \in Resolve(threads, objects, now) : objects' = r.objects
    BY <1>1 DEF ExitThread, SwitchTo
  <2>2. OnlySignals(objects, objects')
    BY <2>1, ResolveOnlySignals DEF MutexInv, ObjectTypes
  <2>3. QED
    BY <1>1, <2>2, SignalsKeep DEF ExitThread, table
<1>2. ASSUME NEW ms \in program.timeouts, Sleep(ms) PROVE MutexStep
  <2> DEFINE objs == Signal(objects, TimerSignals(now'))
             th   == UnblockAll(threads, Wakes(TimerSignals(now')))
  <2>1. OnlySignals(objects, objs) /\ objs = [id \in Handle |-> objs[id]]
    BY SignalOnlySignals DEF OnlySignals
  <2>2. \E r \in Resolve(th, objs, now') : objects' = r.objects
    BY <1>2 DEF Sleep, SwitchTo
  <2> HIDE DEF objs, th
  <2>3. PICK r \in Resolve(th, objs, now') : objects' = r.objects
    BY <2>2
  <2>4. OnlySignals(objs, objects')
    BY <2>1, <2>3, ResolveOnlySignals
  <2>5. OnlySignals(objects, objects')
    BY <2>1, <2>4 DEF OnlySignals
  <2>6. QED
    BY <1>2, <2>5, SignalsKeep DEF Sleep, table
<1>3. QED
  BY <1>1, <1>2

\* Every call of the guest does.
LEMMA GuestKeepsMutexes == MutexInv /\ Guest => MutexStep
<1> SUFFICES ASSUME MutexInv, Guest PROVE MutexStep
  OBVIOUS
<1>1. ASSUME NEW named \in BOOLEAN, NEW owned \in BOOLEAN, CreateMutexA(named, owned)
      PROVE  MutexStep
  BY <1>1, NewObjectKeeps DEF CreateMutexA
<1>2. ASSUME NEW manual \in BOOLEAN, NEW initial \in BOOLEAN, CreateEventA(manual, initial)
      PROVE  MutexStep
  BY <1>2, NewObjectKeeps DEF CreateEventA
<1>3. ASSUME NEW h \in Known, SetEvent(h) PROVE MutexStep
  BY <1>3, SignalOnlySignals, SignalsKeep DEF SetEvent, table
<1>4. ASSUME NEW h \in Known, ResetEvent(h) PROVE MutexStep
  <2>1. OnlySignals(objects, objects')
    BY <1>4, UnownedEvents DEF ResetEvent, OnlySignals, MutexInv, ObjectTypes
  <2>2. QED
    BY <1>4, <2>1, SignalsKeep DEF ResetEvent, table
<1>5. ASSUME NEW h \in Known, \/ ReleaseMutex(h) \/ CloseHandle(h)
                              \/ \E c \in BOOLEAN : DuplicateHandle(h, c)
      PROVE  MutexStep
  BY <1>5, ReleaseKeeps, CloseKeeps, DuplicateKeeps
<1>6. ASSUME NEW h \in Known, NEW timeout \in program.timeouts \cup {Infinite},
             WaitForSingleObject(h, timeout)
      PROVE  MutexStep
  BY <1>6, SingleTyped, EvaluateKeepsMutexes DEF WaitForSingleObject, MutexInv
<1>7. ASSUME NEW h1 \in Known, NEW h2 \in Known, NEW all \in BOOLEAN,
             NEW timeout \in program.timeouts \cup {Infinite},
             WaitForMultipleObjects(<<h1, h2>>, all, timeout)
      PROVE  MutexStep
  BY <1>7, MultipleTyped, EvaluateKeepsMutexes DEF WaitForMultipleObjects, MutexInv
<1>8. ASSUME UNCHANGED <<objects, handle_map, next_handle>> PROVE MutexStep
  BY <1>8, UntouchedKeep
<1>9. ASSUME NEW h \in Known, NEW delay \in program.timeouts, NEW periodic \in BOOLEAN,
             timeSetEvent(h, delay, periodic)
      PROVE  MutexStep
  BY <1>8, <1>9 DEF timeSetEvent, table
<1>10. ASSUME NEW i \in Timer, timeKillEvent(i) PROVE MutexStep
  BY <1>8, <1>10 DEF timeKillEvent, table
<1>11. ASSUME NEW susp \in BOOLEAN, CreateThread(susp) PROVE MutexStep
  BY <1>8, <1>11 DEF CreateThread, table
<1>12. ASSUME NEW t \in Thread, ResumeThread(t) \/ SuspendThread(t) \/ TerminateThread(t)
       PROVE  MutexStep
  BY <1>8, <1>12 DEF ResumeThread, SuspendThread, TerminateThread, table
<1>13. ASSUME NEW s \in Socket, closesocket(s) PROVE MutexStep
  BY <1>8, <1>13 DEF closesocket, table
<1>14. ASSUME NEW s \in Socket, NEW h \in Known, NEW events \in SUBSET NetEvent,
              WSAEventSelect(s, h, events)
       PROVE  MutexStep
  BY <1>8, <1>14 DEF WSAEventSelect, table
<1>15. QED
  BY <1>1, <1>2, <1>3, <1>4, <1>5, <1>6, <1>7, <1>9, <1>10, <1>11, <1>12, <1>13, <1>14,
     SwitchesKeepMutexes DEF Guest

\* Every step does.
LEMMA MutexGoesOn == MutexInv /\ [Next]_vars => MutexStep
<1> SUFFICES ASSUME MutexInv, [Next]_vars PROVE MutexStep
  OBVIOUS
<1>1. CASE UNCHANGED vars
  BY <1>1, UntouchedKeep DEF vars, table
<1>2. CASE RetryWait
  <2>1. pending[current] \in AnyCall /\ Evaluate(pending[current])
    BY <1>2 DEF RetryWait, MutexInv, WaitInv, WaitTypes
  <2>2. QED
    BY <2>1, EvaluateKeepsMutexes
<1>3. CASE Preempt
  BY <1>3, UntouchedKeep DEF Preempt, table
<1>4. CASE Heartbeat
  BY <1>4, SignalOnlySignals, SignalsKeep DEF Heartbeat, table
<1>5. ASSUME NEW s \in Socket, NEW ready \in SUBSET {"read", "write"}, Network(s, ready)
      PROVE  MutexStep
  BY <1>5, UntouchedKeep DEF Network, table
<1>6. QED
  BY <1>1, <1>2, <1>3, <1>4, <1>5, GuestKeepsMutexes DEF Next

\* The invariant of the mutexes holds at first.
LEMMA MutexStarts == Init => MutexInv
<1> SUFFICES ASSUME Init PROVE MutexInv
  OBVIOUS
<1>1. ObjectTypes
  BY DEF Init, ObjectTypes
<1>2. NewHandlesAreFresh
  BY UnownedEvents DEF Init, NewHandlesAreFresh, Mapped, NoObject
<1>3. QED
  BY <1>1, <1>2, WaitStarts DEF MutexInv

\* A mutex never goes from one thread to another without having been free, for
\* any number of threads, handles, duplicates and waits for several objects
\* (kernel32_io.py).
THEOREM MutexesKept == Spec => MutexNotStolen
<1>1. MutexInv /\ [Next]_vars => MutexInv'
  BY MutexGoesOn, WaitGoesOn DEF MutexInv, MutexStep
<1>2. MutexInv /\ [Next]_vars => [OwnersKept]_vars
  BY MutexGoesOn DEF MutexStep
<1>3. Spec => [][OwnersKept]_vars
  BY <1>1, <1>2, MutexStarts, PTL DEF Spec
<1>4. QED
  BY <1>3, PTL DEF MutexNotStolen, OwnersKept
-----------------------------------------------------------------------------
(***************************************************************************)
(* Connects.  FD_CONNECT is marked as delivered only where the kernel is   *)
(* polled for a thread to run, and there the event it signals and the      *)
(* threads it wakes belong to one and the same set of handles.             *)
(***************************************************************************)
SocketTypes ==
    /\ sockets \in [Socket -> [event : Handle \cup {NoObject}, events : SUBSET NetEvent,
                               ready : SUBSET {"read", "write"}, connectFired : BOOLEAN]]
    /\ \A s \in Socket : sockets[s].events # {} => sockets[s].event \in Handle

ConnectInv == MutexInv /\ SocketTypes

\* What the step does with a connect it delivers.
ConnectKept ==
    \A s \in Socket :
        (~ sockets[s].connectFired /\ sockets'[s].connectFired) =>
           LET h == sockets[s].event
           IN  IsEvent(h) =>
                 /\ objects'[handle_map[h]].signaled
                 /\ \A t \in Thread \ {current} :
                       threads'[t].status = "blocked" => h \notin threads'[t].waits

\* Once a signal has been given, none of the threads it woke is blocked.
LEMMA UnblockedAreAwake ==
    ASSUME NEW th, NEW hs, NEW t \in Thread, UnblockAll(th, hs)[t].status = "blocked"
    PROVE  /\ UnblockAll(th, hs)[t] = th[t]
           /\ th[t].waits \cap hs = {}
<1>1. UnblockAll(th, hs)[t] = IF th[t].status = "blocked" /\ th[t].waits \cap hs # {}
                              THEN ReadyEntry(th[t].suspended, th[t].timedOut) ELSE th[t]
  BY DEF UnblockAll
<1>2. ReadyEntry(th[t].suspended, th[t].timedOut).status = "ready"
  BY DEF ReadyEntry, Entry
<1> QED BY <1>1, <1>2

\* A pick polls the sockets, or leaves them alone.
LEMMA ResolvePolls ==
    ASSUME ConnectInv, NEW th, NEW objs, NEW clock, NEW r \in Resolve(th, objs, clock),
           sockets' = r.sockets, objects' = r.objects,
           \A t \in Thread \ {current} : threads'[t] = r.threads[t]
    PROVE  SocketTypes' /\ ConnectKept
<1> DEFINE woken == WakeExpired(th, clock)
           ticked == UnblockAll(woken, Wakes(KernelSignals))
<1>1. CASE sockets' = sockets
  BY <1>1 DEF ConnectInv, SocketTypes, ConnectKept
<1>2. CASE /\ r.threads = ticked /\ r.objects = Signal(objs, KernelSignals)
           /\ sockets' = SocketsAfterTick
  <2>1. SocketTypes'
    <3>1. \A s \in Socket : /\ sockets'[s].event = sockets[s].event
                            /\ sockets'[s].events = sockets[s].events
      BY <1>2 DEF ConnectInv, SocketTypes, SocketsAfterTick
    <3>2. sockets' \in [Socket -> [event : Handle \cup {NoObject}, events : SUBSET NetEvent,
                                   ready : SUBSET {"read", "write"}, connectFired : BOOLEAN]]
      <4> DEFINE R == [event : Handle \cup {NoObject}, events : SUBSET NetEvent,
                       ready : SUBSET {"read", "write"}, connectFired : BOOLEAN]
      <4>1. \A one \in R : [one EXCEPT !.connectFired = TRUE] \in R
        OBVIOUS
      <4>2. sockets \in [Socket -> R]
        BY DEF ConnectInv, SocketTypes
      <4> HIDE DEF R
      <4>3. SocketsAfterTick \in [Socket -> R]
        BY <4>1, <4>2 DEF SocketsAfterTick
      <4> QED BY <1>2, <4>3 DEF R
    <3> QED BY <3>1, <3>2 DEF ConnectInv, SocketTypes
  <2>2. ASSUME NEW s \in Socket, ~ sockets[s].connectFired, sockets'[s].connectFired,
               IsEvent(sockets[s].event)
        PROVE  /\ objects'[handle_map[sockets[s].event]].signaled
               /\ \A t \in Thread \ {current} :
                     threads'[t].status = "blocked" => sockets[s].event \notin threads'[t].waits
    <3> DEFINE h == sockets[s].event
    <3>1. "FD_CONNECT" \in Delivered(s)
      BY <1>2, <2>2 DEF SocketsAfterTick
    <3>2. h \in KernelSignals /\ h \in Wakes(KernelSignals)
      BY <2>2, <3>1 DEF KernelSignals, Wakes
    <3>3. Mapped(h) /\ h \in Handle
      <4>1. sockets[s].events # {}
        BY <3>1 DEF Delivered
      <4> QED BY <2>2, <4>1 DEF IsEvent, ConnectInv, SocketTypes
    <3>4. handle_map[h] \in Handle
      BY <3>3 DEF Mapped, ConnectInv, MutexInv, ObjectTypes
    <3>5. objects'[handle_map[h]] = Event(objs[handle_map[h]].manual, TRUE)
      <4>1. \E g \in KernelSignals : IsEvent(g) /\ handle_map[g] = handle_map[h]
        BY <2>2, <3>2
      <4> QED BY <1>2, <3>4, <4>1 DEF Signal
    <3>6. objects'[handle_map[h]].signaled
      BY <3>5 DEF Event
    <3>7. ASSUME NEW t \in Thread \ {current}, threads'[t].status = "blocked"
          PROVE  h \notin threads'[t].waits
      <4>1. threads'[t] = ticked[t]
        BY <1>2
      <4> HIDE DEF woken
      <4>2. woken[t].waits \cap Wakes(KernelSignals) = {} /\ ticked[t] = woken[t]
        BY <3>7, <4>1, UnblockedAreAwake
      <4> QED BY <3>2, <4>1, <4>2
    <3> QED BY <3>6, <3>7
  <2> QED BY <2>1, <2>2 DEF ConnectKept
<1> QED BY <1>1, <1>2 DEF Resolve

\* No other step delivers one.
LEMMA NoPollNoConnect ==
    ASSUME ConnectInv,
           sockets' = sockets \/ \E s \in Socket : \/ closesocket(s)
                                                   \/ \E ready \in SUBSET {"read", "write"} : Network(s, ready)
                                                   \/ \E h \in Known, events \in SUBSET NetEvent :
                                                         WSAEventSelect(s, h, events)
    PROVE  SocketTypes' /\ ConnectKept
<1> USE DEF ConnectInv, SocketTypes
<1>1. CASE sockets' = sockets
  BY <1>1 DEF ConnectKept
<1>2. ASSUME NEW s \in Socket, closesocket(s) PROVE SocketTypes' /\ ConnectKept
  <2>1. sockets' = [sockets EXCEPT ![s] = [event |-> NoObject, events |-> {},
                                           ready |-> {}, connectFired |-> FALSE]]
    BY <1>2 DEF closesocket
  <2> QED BY <2>1 DEF ConnectKept
<1>3. ASSUME NEW s \in Socket, NEW ready \in SUBSET {"read", "write"}, Network(s, ready)
      PROVE  SocketTypes' /\ ConnectKept
  <2>1. sockets' = [sockets EXCEPT ![s].ready = ready]
    BY <1>3 DEF Network
  <2> QED BY <2>1 DEF ConnectKept
<1>4. ASSUME NEW s \in Socket, NEW h \in Known, NEW events \in SUBSET NetEvent,
             WSAEventSelect(s, h, events)
      PROVE  SocketTypes' /\ ConnectKept
  <2>1. sockets' = [sockets EXCEPT ![s].event = IF events = {} THEN NoObject ELSE h,
                                   ![s].events = events]
    BY <1>4 DEF WSAEventSelect
  <2>2. h \in Handle
    BY HandleAssumption DEF Known, Untracked, MutexInv, WaitInv, WaitTypes
  <2>3. /\ sockets'[s].event = (IF events = {} THEN NoObject ELSE h)
        /\ sockets'[s].events = events /\ sockets'[s].connectFired = sockets[s].connectFired
        /\ \A u \in Socket \ {s} : sockets'[u] = sockets[u]
    BY <2>1
  <2>4. [[sockets[s] EXCEPT !.event = IF events = {} THEN NoObject ELSE h] EXCEPT !.events = events]
           \in [event : Handle \cup {NoObject}, events : SUBSET NetEvent,
                ready : SUBSET {"read", "write"}, connectFired : BOOLEAN]
    BY <2>2
  <2>5. sockets' \in [Socket -> [event : Handle \cup {NoObject}, events : SUBSET NetEvent,
                                 ready : SUBSET {"read", "write"}, connectFired : BOOLEAN]]
    BY <2>1, <2>4
  <2>6. SocketTypes'
    BY <2>2, <2>3, <2>5
  <2> QED BY <2>3, <2>6 DEF ConnectKept
<1> QED BY <1>1, <1>2, <1>3, <1>4

\* The evaluation of a wait keeps the connections.
LEMMA EvaluateKeepsConnects ==
    ASSUME ConnectInv, NEW call, Evaluate(call) PROVE SocketTypes' /\ ConnectKept
<1>1. CASE Satisfy(call) \/ TimeOut(call)
  BY <1>1, NoPollNoConnect DEF Satisfy, TimeOut
<1>2. CASE Block(call)
  <2>1. PICK r \in Resolve(threads, objects, now) :
           /\ SwitchTo(r)
           /\ \/ threads' = CompleteBlock(r.threads, current, HandlesOf(call),
                                          Deadline(call), r.next)
              \/ threads' = [r.threads EXCEPT ![current].timedOut = TRUE]
    BY <1>2 DEF Block
  <2>2. r.threads \in [Thread -> ThreadRecord] /\ current \in Thread
    BY ResolveOnlyWakes DEF OnlyWakes, ConnectInv, MutexInv, WaitInv, WaitTypes
  <2>3. \A t \in Thread \ {current} : threads'[t] = r.threads[t]
    BY <2>1, <2>2 DEF CompleteBlock
  <2> QED BY <2>1, <2>3, ResolvePolls DEF SwitchTo
<1> QED BY <1>1, <1>2 DEF Evaluate

\* Sleep and ExitThread do.
LEMMA SwitchesKeepConnects ==
    ASSUME ConnectInv, ExitThread \/ \E ms \in program.timeouts : Sleep(ms)
    PROVE  SocketTypes' /\ ConnectKept
<1>1. CASE ExitThread
  <2>1. PICK r \in Resolve(threads, objects, now) : SwitchTo(r) /\ threads' = Kill(r.threads, current)
    BY <1>1 DEF ExitThread
  <2>2. r.threads \in [Thread -> ThreadRecord] /\ current \in Thread
    BY ResolveOnlyWakes DEF OnlyWakes, ConnectInv, MutexInv, WaitInv, WaitTypes
  <2>3. \A t \in Thread \ {current} : threads'[t] = r.threads[t]
    BY <2>1, <2>2 DEF Kill
  <2> QED BY <2>1, <2>3, ResolvePolls DEF SwitchTo
<1>2. ASSUME NEW ms \in program.timeouts, Sleep(ms) PROVE SocketTypes' /\ ConnectKept
  <2> DEFINE objs == Signal(objects, TimerSignals(now'))
             th   == UnblockAll(threads, Wakes(TimerSignals(now')))
  <2>1. \E r \in Resolve(th, objs, now') :
           SwitchTo(r) /\ threads' = CompleteSleep(r.threads, current, now' + ms, r.next)
    BY <1>2 DEF Sleep
  <2>2. th \in [Thread -> ThreadRecord] /\ current \in Thread
    BY WakingOnlyWakes DEF OnlyWakes, ConnectInv, MutexInv, WaitInv, WaitTypes
  <2> HIDE DEF objs, th
  <2>3. PICK r \in Resolve(th, objs, now') :
           SwitchTo(r) /\ threads' = CompleteSleep(r.threads, current, now' + ms, r.next)
    BY <2>1
  <2>4. r.threads \in [Thread -> ThreadRecord]
    BY <2>2, ResolveOnlyWakes DEF OnlyWakes
  <2>5. \A t \in Thread \ {current} : threads'[t] = r.threads[t]
    BY <2>2, <2>3, <2>4 DEF CompleteSleep
  <2> QED BY <2>3, <2>5, ResolvePolls DEF SwitchTo
<1> QED BY <1>1, <1>2

\* Every step does.
LEMMA ConnectGoesOn == ConnectInv /\ [Next]_vars => SocketTypes' /\ ConnectKept
<1> SUFFICES ASSUME ConnectInv, [Next]_vars PROVE SocketTypes' /\ ConnectKept
  OBVIOUS
<1>1. CASE sockets' = sockets \/ \E s \in Socket : \/ closesocket(s)
                                                   \/ \E ready \in SUBSET {"read", "write"} : Network(s, ready)
                                                   \/ \E h \in Known, events \in SUBSET NetEvent :
                                                         WSAEventSelect(s, h, events)
  BY <1>1, NoPollNoConnect
<1>2. CASE RetryWait
  BY <1>2, EvaluateKeepsConnects DEF RetryWait
<1>3. ASSUME NEW call, Evaluate(call) PROVE SocketTypes' /\ ConnectKept
  BY <1>3, EvaluateKeepsConnects
<1>4. CASE Guest
  <2>1. ASSUME NEW h \in Known, NEW timeout \in program.timeouts \cup {Infinite},
               WaitForSingleObject(h, timeout)
        PROVE  SocketTypes' /\ ConnectKept
    BY <1>3, <2>1 DEF WaitForSingleObject
  <2>2. ASSUME NEW h1 \in Known, NEW h2 \in Known, NEW all \in BOOLEAN,
               NEW timeout \in program.timeouts \cup {Infinite},
               WaitForMultipleObjects(<<h1, h2>>, all, timeout)
        PROVE  SocketTypes' /\ ConnectKept
    BY <1>3, <2>2 DEF WaitForMultipleObjects
  <2>3. ASSUME \/ \E named, owned \in BOOLEAN : CreateMutexA(named, owned)
               \/ \E manual, initial \in BOOLEAN : CreateEventA(manual, initial)
               \/ \E h \in Known : \/ SetEvent(h) \/ ResetEvent(h) \/ ReleaseMutex(h)
                                   \/ CloseHandle(h)
               \/ \E h \in Known, close_source \in BOOLEAN : DuplicateHandle(h, close_source)
        PROVE  sockets' = sockets
    BY <2>3 DEF CreateMutexA, CreateEventA, NewObject, SetEvent, ResetEvent, ReleaseMutex,
       CloseHandle, DuplicateHandle
  <2>4. ASSUME \/ \E h \in Known, delay \in program.timeouts, periodic \in BOOLEAN :
                    timeSetEvent(h, delay, periodic)
               \/ \E i \in Timer : timeKillEvent(i)
               \/ \E susp \in BOOLEAN : CreateThread(susp)
               \/ \E t \in Thread : ResumeThread(t) \/ SuspendThread(t) \/ TerminateThread(t)
        PROVE  sockets' = sockets
    BY <2>4 DEF timeSetEvent, timeKillEvent, CreateThread, ResumeThread, SuspendThread,
       TerminateThread
  <2> QED BY <1>1, <1>4, <2>1, <2>2, <2>3, <2>4, SwitchesKeepConnects DEF Guest
<1>5. CASE Preempt \/ Heartbeat \/ UNCHANGED vars
  BY <1>1, <1>5 DEF Preempt, Heartbeat, vars
<1> QED BY <1>1, <1>2, <1>4, <1>5 DEF Next

\* A connect that the kernel delivers is not lost: its event is signaled and
\* nobody sleeps on it, for any number of sockets, events and threads, whatever
\* wait, sleep or exit it was that polled the kernel (kernel.py).
THEOREM ConnectsKept == Spec => ConnectIsNotLost
<1>1. Init => ConnectInv
  <2>1. Init => SocketTypes
    BY DEF Init, SocketTypes
  <2> QED BY <2>1, MutexStarts DEF ConnectInv
<1>2. ConnectInv /\ [Next]_vars => ConnectInv'
  BY ConnectGoesOn, MutexGoesOn, WaitGoesOn DEF ConnectInv, MutexInv, MutexStep
<1>3. ConnectInv /\ [Next]_vars => [ConnectKept]_vars
  BY ConnectGoesOn
<1>4. Spec => [][ConnectKept]_vars
  BY <1>1, <1>2, <1>3, PTL DEF Spec
<1> QED BY <1>4, PTL DEF ConnectIsNotLost, ConnectKept

-----------------------------------------------------------------------------
(***************************************************************************)
(* Signals.  A blocked thread stays blocked only while no step frees what  *)
(* it waits for.  That needs programs in which one handle names an object  *)
(* and the poll of the kernel signals nothing: through a second handle, or *)
(* from the poll a blocking wait makes, a signal does pass a waiter by.    *)
(***************************************************************************)
PlainPrograms == \A p \in Programs : {"DuplicateHandle", "WSAEventSelect"} \cap p.calls = {}

OneName     == \A h \in Handle : handle_map[h] \in {h, NoObject}
KnownWaits  == \A t \in Thread : HandlesOf(pending[t]) \subseteq Known
KnownTimers == timers \in [Timer -> TimerRecord \cup {NoTimer}]
NoSelects   == \A s \in Socket : sockets[s].events = {}

NamesInv  == OneName /\ KnownWaits /\ KnownTimers /\ NoSelects
SignalInv == ConnectInv /\ NamesInv /\ NoMissedSignal

\* The step does not let t have h.
NotFreed(h, t) ==
    /\ IsFree(h)' => IsFree(h)
    /\ (IsMutex(h) /\ Object(h).owner = t)' => IsMutex(h) /\ Object(h).owner = t

\* What an object is decides whether a thread can have it.
LEMMA SameObject ==
    ASSUME NEW h, NEW t, handle_map'[h] = handle_map[h],
           Mapped(h) => objects'[handle_map[h]] = objects[handle_map[h]]
    PROVE  NotFreed(h, t)
BY DEF NotFreed, IsFree, IsEvent, IsMutex, Mapped, Object

\* A wait whose handles stay taken stays unsatisfied.
LEMMA StillUnsatisfied ==
    ASSUME NEW t \in Thread, NEW call \in AnyCall, ~ Satisfiable(t, call),
           \A h \in HandlesOf(call) : NotFreed(h, t)
    PROVE  ~ Satisfiable(t, call)'
<1>1. \A i \in DOMAIN call.hs : NotFreed(call.hs[i], t)
  BY DEF HandlesOf
<1>2. CASE call.kind = "single"
  <2>1. 1 \in DOMAIN call.hs
    BY <1>2 DEF AnyCall
  <2>2. NotFreed(call.hs[1], t)
    BY <1>1, <2>1
  <2> QED BY <1>2, <2>2 DEF Satisfiable, Recursive, NotFreed
<1>3. CASE call.kind = "any"
  BY <1>1, <1>3 DEF Satisfiable, NotFreed
<1>4. CASE call.kind = "all"
  BY <1>1, <1>4 DEF Satisfiable, NotFreed
<1> QED BY <1>2, <1>3, <1>4 DEF AnyCall

\* Nobody is blocked anew, and nobody who stays blocked can have what it
\* waits for.
LEMMA StillWaits ==
    ASSUME SignalInv,
           \A t \in Thread : threads'[t].status = "blocked" =>
              /\ threads[t].status = "blocked" /\ pending'[t] = pending[t]
              /\ \A h \in threads[t].waits : NotFreed(h, t)
    PROVE  NoMissedSignal'
<1> SUFFICES ASSUME NEW t \in Thread, threads'[t].status = "blocked"
             PROVE  (~ Satisfiable(t, pending[t]))'
  BY DEF NoMissedSignal
<1>1. /\ pending'[t] = pending[t] /\ threads[t].status = "blocked"
      /\ \A h \in HandlesOf(pending[t]) : NotFreed(h, t)
      /\ pending[t] \in AnyCall
  BY DEF SignalInv, ConnectInv, MutexInv, WaitInv, WaitTypes, BlockedInItsCall
<1>2. ~ Satisfiable(t, pending[t])
  BY <1>1 DEF SignalInv, NoMissedSignal
<1> QED BY <1>1, <1>2, StillUnsatisfied

\* A step that leaves the objects alone frees nothing.
LEMMA QuietStep ==
    ASSUME SignalInv, UNCHANGED <<objects, handle_map>>,
           \A t \in Thread : threads'[t].status = "blocked" =>
              threads[t].status = "blocked" /\ pending'[t] = pending[t]
    PROVE  NoMissedSignal'
BY SameObject, StillWaits

\* A signal wakes whoever waits for what it signals.
LEMMA SignalWakes ==
    ASSUME SignalInv, NEW hs \in SUBSET Handle, NEW th, th = UnblockAll(threads, Wakes(hs)),
           objects' = Signal(objects, hs), handle_map' = handle_map,
           \A t \in Thread : threads'[t].status = "blocked" =>
              th[t].status = "blocked" /\ pending'[t] = pending[t]
    PROVE  NoMissedSignal'
<1>1. ASSUME NEW t \in Thread, threads'[t].status = "blocked"
      PROVE  /\ threads[t].status = "blocked" /\ pending'[t] = pending[t]
             /\ \A h \in threads[t].waits : NotFreed(h, t)
  <2>1. th[t].status = "blocked"
    BY <1>1
  <2>2. th[t] = threads[t] /\ threads[t].waits \cap Wakes(hs) = {}
    BY <2>1, UnblockedAreAwake
  <2>3. threads[t].waits \subseteq Handle
    BY DEF SignalInv, ConnectInv, MutexInv, WaitInv, WaitTypes, ThreadRecord
  <2>4. ASSUME NEW h \in threads[t].waits PROVE NotFreed(h, t)
    <3>1. h \in Handle /\ h \notin Wakes(hs)
      BY <2>2, <2>3
    <3>2. ASSUME Mapped(h) PROVE objects'[handle_map[h]] = objects[handle_map[h]]
      <4>1. handle_map[h] = h
        BY <3>1, <3>2 DEF SignalInv, NamesInv, OneName, Mapped
      <4>2. ASSUME NEW g \in hs, IsEvent(g), handle_map[g] = h PROVE FALSE
        <5>1. g = h
          BY <4>2 DEF SignalInv, NamesInv, OneName, IsEvent, Mapped
        <5> QED BY <3>1, <4>2, <5>1 DEF Wakes
      <4> QED BY <3>1, <4>1, <4>2 DEF Signal
    <3> QED BY <3>2, SameObject
  <2> QED BY <1>1, <2>1, <2>2, <2>4
<1> QED BY <1>1, StillWaits

\* The poll finds nothing to signal, so a pick changes no object.
LEMMA PickIsQuiet ==
    ASSUME SignalInv, NEW th, NEW objs, objs = [id \in Handle |-> objs[id]],
           NEW clock, NEW r \in Resolve(th, objs, clock)
    PROVE  r.objects = objs /\ \A s \in Socket : r.sockets[s] = sockets[s]
<1>1. \A s \in Socket : Delivered(s) = {}
  BY DEF SignalInv, NamesInv, NoSelects, Delivered
<1>2. KernelSignals = {}
  BY <1>1 DEF KernelSignals
<1>3. Signal(objs, KernelSignals) = objs
  BY <1>2 DEF Signal
<1>4. \A s \in Socket : SocketsAfterTick[s] = sockets[s]
  BY <1>1 DEF SocketsAfterTick
<1> QED BY <1>3, <1>4 DEF Resolve

\* SetEvent wakes those who wait for the event.
LEMMA SetEventWakes ==
    ASSUME SignalInv, NEW h \in Known, SetEvent(h) PROVE NoMissedSignal'
<1>1. h \in Handle
  BY HandleAssumption DEF Known, Untracked, SignalInv, ConnectInv, MutexInv, WaitInv, WaitTypes
<1>2. /\ threads' = UnblockAll(threads, Wakes({h})) /\ pending' = pending
      /\ objects' = Signal(objects, {h}) /\ handle_map' = handle_map
  BY DEF SetEvent, Wakes, Unblock, table
<1> QED BY <1>1, <1>2, SignalWakes

\* The timers signal known handles.
LEMMA TimersKnown ==
    ASSUME SignalInv, NEW clock PROVE TimerSignals(clock) \in SUBSET Handle
BY DEF SignalInv, NamesInv, KnownTimers, TimerSignals, Due, TimerRecord

\* The heartbeat wakes those whose handles it signals.
LEMMA HeartbeatWakes ==
    ASSUME SignalInv, Heartbeat PROVE NoMissedSignal'
<1>1. /\ threads' = UnblockAll(threads, Wakes(TimerSignals(now'))) /\ pending' = pending
      /\ objects' = Signal(objects, TimerSignals(now')) /\ handle_map' = handle_map
  BY DEF Heartbeat, table
<1> QED BY <1>1, TimersKnown, SignalWakes

\* ReleaseMutex wakes those who wait for the mutex.
LEMMA ReleaseWakes ==
    ASSUME SignalInv, NEW h \in Known, ReleaseMutex(h) PROVE NoMissedSignal'
<1> DEFINE m == objects[h]
           gone == m.count <= 1
           obj == IF gone THEN Mutex(m.named, NoThread, 0)
                          ELSE Mutex(m.named, m.owner, m.count - 1)
<1>1. h \in Handle /\ handle_map[h] = h /\ IsMutex(h) /\ Object(h) = m
  BY HandleAssumption DEF ReleaseMutex, IsMutex, Mapped, Object, Known, Untracked, SignalInv,
     ConnectInv, MutexInv, WaitInv, WaitTypes, NamesInv, OneName
<1>2. /\ objects' = [objects EXCEPT ![h] = obj]
      /\ threads' = IF gone THEN UnblockAll(threads, {h}) ELSE threads
      /\ pending' = pending /\ handle_map' = handle_map
  BY <1>1 DEF ReleaseMutex, table, Unblock
<1>3. obj.kind = "mutex" /\ obj.owner = IF gone THEN NoThread ELSE m.owner
  BY MutexOwner
<1>4. \A id \in Handle : objects'[id] = IF id = h THEN obj ELSE objects[id]
  BY <1>2 DEF SignalInv, ConnectInv, MutexInv, ObjectTypes
<1> HIDE DEF obj
<1>5. ASSUME NEW t \in Thread, threads'[t].status = "blocked"
      PROVE  /\ threads[t].status = "blocked" /\ pending'[t] = pending[t]
             /\ \A g \in threads[t].waits : NotFreed(g, t)
  <2>1. threads[t].status = "blocked" /\ (gone => h \notin threads[t].waits)
    BY <1>2, <1>5, UnblockedAreAwake
  <2>2. threads[t].waits \subseteq Handle
    BY DEF SignalInv, ConnectInv, MutexInv, WaitInv, WaitTypes, ThreadRecord
  <2>3. ASSUME NEW g \in threads[t].waits PROVE NotFreed(g, t)
    <3>1. CASE g = h
      <4>1. ~ gone
        BY <2>1, <3>1
      <4>2. obj.owner = m.owner
        BY <1>3, <4>1
      <4>3. NotFreed(h, t)
        BY <1>1, <1>2, <1>3, <1>4, <4>2 DEF NotFreed, IsFree, IsMutex, IsEvent, Mapped, Object
      <4> QED BY <3>1, <4>3
    <3>2. CASE g # h
      <4>1. Mapped(g) => objects'[handle_map[g]] = objects[handle_map[g]]
        BY <1>4, <2>2, <3>2 DEF Mapped, SignalInv, NamesInv, OneName
      <4> QED BY <1>2, <4>1, SameObject
    <3> QED BY <3>1, <3>2
  <2> QED BY <1>2, <2>1, <2>3
<1> QED BY <1>5, StillWaits

\* ResetEvent makes no wait satisfiable.
LEMMA ResetFreesNothing ==
    ASSUME SignalInv, NEW h \in Known, ResetEvent(h) PROVE NoMissedSignal'
<1>1. h \in Handle /\ handle_map[h] = h /\ IsEvent(h)
  BY HandleAssumption DEF ResetEvent, IsEvent, Mapped, Known, Untracked, SignalInv,
     ConnectInv, MutexInv, WaitInv, WaitTypes, NamesInv, OneName
<1>2. objects' = [objects EXCEPT ![h] = Event(Object(h).manual, FALSE)]
      /\ UNCHANGED <<threads, pending, handle_map>>
  BY <1>1 DEF ResetEvent, scheduling, table
<1>3. \A id \in Handle \ {h} : objects'[id] = objects[id]
  BY <1>2 DEF SignalInv, ConnectInv, MutexInv, ObjectTypes
<1>4. objects'[h].kind = "event" /\ ~ objects'[h].signaled
  BY <1>1, <1>2 DEF SignalInv, ConnectInv, MutexInv, ObjectTypes, Event
<1>5. ASSUME NEW t \in Thread, NEW g \in Handle PROVE NotFreed(g, t)
  <2>1. CASE g = h
    BY <1>1, <1>2, <1>4, <2>1 DEF NotFreed, IsFree, IsMutex, IsEvent, Mapped, Object
  <2>2. CASE g # h
    <3>1. Mapped(g) => objects'[handle_map[g]] = objects[handle_map[g]]
      BY <1>3, <2>2 DEF Mapped, SignalInv, NamesInv, OneName
    <3> QED BY <1>2, <3>1, SameObject
  <2> QED BY <2>1, <2>2
<1>6. \A t \in Thread : threads[t].waits \subseteq Handle
  BY DEF SignalInv, ConnectInv, MutexInv, WaitInv, WaitTypes, ThreadRecord
<1> QED BY <1>2, <1>5, <1>6, StillWaits

\* A new object makes none.
LEMMA NewFreesNothing ==
    ASSUME SignalInv, NEW obj, NewObject(obj) PROVE NoMissedSignal'
<1>1. /\ next_handle \in Handle /\ Handle \subseteq Int
      /\ handle_map' = [handle_map EXCEPT ![next_handle] = next_handle]
      /\ objects' = [objects EXCEPT ![next_handle] = obj]
      /\ UNCHANGED <<threads, pending>>
  BY HandleAssumption, ProgramAssumption
     DEF NewObject, SignalInv, ConnectInv, MutexInv, WaitInv, WaitTypes, scheduling
<1>2. ASSUME NEW t \in Thread, threads[t].status = "blocked", NEW h \in threads[t].waits
      PROVE  NotFreed(h, t)
  <2>1. h \in Handle /\ h \in HandlesOf(pending[t])
    BY <1>2 DEF SignalInv, ConnectInv, MutexInv, WaitInv, WaitTypes, ThreadRecord, BlockedInItsCall
  <2>2. h < next_handle
    <3>1. h \in Untracked .. next_handle - 1
      BY <2>1 DEF SignalInv, NamesInv, KnownWaits, Known
    <3> QED BY <1>1, <2>1, <3>1
  <2>3. h # next_handle
    BY <1>1, <2>1, <2>2
  <2>4. handle_map'[h] = handle_map[h]
    BY <1>1, <2>1, <2>3 DEF SignalInv, ConnectInv, MutexInv, ObjectTypes
  <2>5. Mapped(h) => objects'[handle_map[h]] = objects[handle_map[h]]
    BY <1>1, <2>1, <2>3 DEF SignalInv, ConnectInv, MutexInv, ObjectTypes, Mapped, NamesInv, OneName
  <2> QED BY <2>4, <2>5, SameObject
<1> QED BY <1>1, <1>2, StillWaits

\* Closing a handle makes none.
LEMMA CloseFreesNothing ==
    ASSUME SignalInv, NEW h \in Known, CloseHandle(h) PROVE NoMissedSignal'
<1>1. /\ ~ WaitedOn(h) /\ handle_map' = [handle_map EXCEPT ![h] = NoObject]
      /\ objects' = Collected(handle_map', objects) /\ UNCHANGED <<threads, pending>>
  BY DEF CloseHandle, scheduling
<1>2. ASSUME NEW t \in Thread, threads[t].status = "blocked", NEW g \in threads[t].waits
      PROVE  NotFreed(g, t)
  <2>1. g \in Handle /\ g \in HandlesOf(pending[t])
    BY <1>2 DEF SignalInv, ConnectInv, MutexInv, WaitInv, WaitTypes, ThreadRecord, BlockedInItsCall
  <2>2. g # h
    BY <1>1, <2>1 DEF WaitedOn
  <2>3. handle_map'[g] = handle_map[g]
    BY <1>1, <2>1, <2>2 DEF SignalInv, ConnectInv, MutexInv, ObjectTypes
  <2>4. Mapped(g) => objects'[handle_map[g]] = objects[handle_map[g]]
    BY <1>1, <2>1, <2>3 DEF Collected, Mapped, SignalInv, NamesInv, OneName
  <2> QED BY <2>3, <2>4, SameObject
<1> QED BY <1>1, <1>2, StillWaits

\* What is taken is taken from everybody else.
LEMMA AcquiredIsNotFree ==
    ASSUME NEW obj, NEW t \in Thread, NEW u \in Thread, t # u
    PROVE  /\ Acquired(obj, t).kind = "event" =>
                obj.kind = "event" /\ (Acquired(obj, t).signaled => obj.signaled)
           /\ Acquired(obj, t).kind = "mutex" => Acquired(obj, t).owner \notin {u, NoThread}
<1>1. CASE obj.kind = "event"
  <2>1. Acquired(obj, t) = Event(obj.manual, obj.manual /\ obj.signaled)
    BY <1>1 DEF Acquired
  <2>2. Event(obj.manual, obj.manual /\ obj.signaled).signaled = (obj.manual /\ obj.signaled)
    BY DEF Event
  <2>3. Acquired(obj, t).kind = "event"
    BY <2>1, UnownedEvents
  <2>4. Acquired(obj, t).signaled = (obj.manual /\ obj.signaled)
    BY <2>1, <2>2
  <2>5. (obj.manual /\ obj.signaled) => obj.signaled
    OBVIOUS
  <2>6. Acquired(obj, t).signaled => obj.signaled
    BY <2>4, <2>5, Zenon
  <2>7. Acquired(obj, t).kind # "mutex"
    BY <2>3
  <2> QED BY <1>1, <2>6, <2>7
<1>2. CASE obj.kind # "event"
  BY <1>2, MutexOwner DEF Acquired, Thread, NoThread
<1> QED BY <1>1, <1>2

\* A wait that is satisfied makes no other satisfiable.
LEMMA SatisfyFreesNothing ==
    ASSUME SignalInv, ~ halted, NEW call, Satisfy(call) PROVE NoMissedSignal'
<1>1. /\ objects' = [id \in Handle |->
                      IF \E h \in Taken(call) : Mapped(h) /\ handle_map[h] = id
                      THEN Acquired(objects[id], current) ELSE objects[id]]
      /\ pending' = [pending EXCEPT ![current] = NoCall]
      /\ UNCHANGED <<threads, handle_map>>
  BY DEF Satisfy, scheduling, table
<1>2. ASSUME NEW t \in Thread, threads[t].status = "blocked"
      PROVE  pending'[t] = pending[t] /\ \A h \in threads[t].waits : NotFreed(h, t)
  <2>1. t # current /\ current \in Thread
    BY <1>2 DEF SignalInv, ConnectInv, MutexInv, WaitInv, WaitTypes, CurrentIsReady
  <2>2. ASSUME NEW h \in threads[t].waits PROVE NotFreed(h, t)
    <3>1. Mapped(h) => handle_map[h] \in Handle
      BY <1>2 DEF SignalInv, ConnectInv, MutexInv, WaitInv, WaitTypes, ThreadRecord, ObjectTypes, Mapped
    <3>2. CASE Mapped(h) => objects'[handle_map[h]] = objects[handle_map[h]]
      BY <1>1, <3>2, SameObject
    <3>3. CASE Mapped(h) /\ objects'[handle_map[h]] = Acquired(objects[handle_map[h]], current)
      BY <1>1, <2>1, <3>3, AcquiredIsNotFree
         DEF NotFreed, IsFree, IsMutex, IsEvent, Mapped, Object
    <3> QED BY <1>1, <3>1, <3>2, <3>3
  <2>3. pending'[t] = pending[t]
    BY <1>1, <2>1 DEF SignalInv, ConnectInv, MutexInv, WaitInv, WaitTypes
  <2> QED BY <2>2, <2>3
<1> QED BY <1>1, <1>2, StillWaits

\* A thread blocks only when its wait is not satisfiable.
LEMMA BlockMissesNothing ==
    ASSUME SignalInv, ~ halted, NEW call \in AnyCall, Block(call) PROVE NoMissedSignal'
<1>1. PICK r \in Resolve(threads, objects, now) :
         /\ objects' = r.objects
         /\ \/ threads' = CompleteBlock(r.threads, current, HandlesOf(call),
                                        Deadline(call), r.next)
            \/ /\ r.next = NoThread
               /\ threads' = [r.threads EXCEPT ![current].timedOut = TRUE]
  BY DEF Block, SwitchTo
<1>2. ~ Satisfiable(current, call) /\ pending' = [pending EXCEPT ![current] = call]
      /\ handle_map' = handle_map
  BY DEF Block, Rewinds, table
<1>3. /\ OnlyWakes(threads, r.threads) /\ threads[current].status = "ready"
      /\ threads \in [Thread -> ThreadRecord] /\ current \in Thread
      /\ pending \in [Thread -> AnyCall \cup {NoCall}]
  BY ResolveOnlyWakes DEF SignalInv, ConnectInv, MutexInv, WaitInv, WaitTypes, CurrentIsReady
<1>4. objects' = objects
  BY <1>1, PickIsQuiet DEF SignalInv, ConnectInv, MutexInv, ObjectTypes
<1>5. \A u \in Thread, h \in Handle : NotFreed(h, u)
  BY <1>2, <1>4, SameObject
<1>6. \A t \in Thread \ {current} : threads'[t] = r.threads[t] /\ pending'[t] = pending[t]
  BY <1>1, <1>2, <1>3 DEF OnlyWakes, CompleteBlock
<1> SUFFICES ASSUME NEW t \in Thread, threads'[t].status = "blocked"
             PROVE  (~ Satisfiable(t, pending[t]))'
  BY DEF NoMissedSignal
<1>7. CASE t = current
  <2>1. HandlesOf(call) \subseteq Handle
    BY DEF HandlesOf, AnyCall
  <2>2. ~ Satisfiable(t, call)'
    BY <1>2, <1>5, <1>7, <2>1, StillUnsatisfied
  <2>3. pending'[t] = call
    BY <1>2, <1>3, <1>7
  <2> QED BY <2>2, <2>3
<1>8. CASE t # current
  <2>1. threads[t].status = "blocked" /\ pending'[t] = pending[t]
    BY <1>3, <1>6, <1>8 DEF OnlyWakes
  <2>2. pending[t] \in AnyCall /\ ~ Satisfiable(t, pending[t])
    BY <1>3, <2>1 DEF SignalInv, NoMissedSignal, ConnectInv, MutexInv, WaitInv, BlockedInItsCall
  <2>3. HandlesOf(pending[t]) \subseteq Handle
    BY <2>2 DEF HandlesOf, AnyCall
  <2> QED BY <1>5, <2>1, <2>2, <2>3, StillUnsatisfied
<1> QED BY <1>7, <1>8

\* One that times out is not blocked.
LEMMA TimeOutMissesNothing ==
    ASSUME SignalInv, ~ halted, NEW call, TimeOut(call) PROVE NoMissedSignal'
<1>1. /\ threads' = [threads EXCEPT ![current].timedOut = FALSE]
      /\ pending' = [pending EXCEPT ![current] = NoCall]
      /\ UNCHANGED <<objects, handle_map>>
  BY DEF TimeOut, table
<1>2. threads[current].status = "ready" /\ current \in Thread
      /\ threads \in [Thread -> ThreadRecord] /\ pending \in [Thread -> AnyCall \cup {NoCall}]
  BY DEF SignalInv, ConnectInv, MutexInv, WaitInv, WaitTypes, CurrentIsReady
<1>3. \A t \in Thread : threads'[t].status = "blocked" =>
         threads[t].status = "blocked" /\ pending'[t] = pending[t]
  BY <1>1, <1>2 DEF ThreadRecord
<1> QED BY <1>1, <1>3, QuietStep

\* So the evaluation of a wait misses no signal.
LEMMA EvaluateMissesNothing ==
    ASSUME SignalInv, ~ halted, NEW call \in AnyCall, Evaluate(call) PROVE NoMissedSignal'
BY SatisfyFreesNothing, BlockMissesNothing, TimeOutMissesNothing DEF Evaluate

\* ExitThread misses none.
LEMMA ExitMissesNothing ==
    ASSUME SignalInv, ExitThread PROVE NoMissedSignal'
<1>1. PICK r \in Resolve(threads, objects, now) :
         objects' = r.objects /\ threads' = Kill(r.threads, current)
  BY DEF ExitThread, SwitchTo
<1>2. OnlyWakes(threads, r.threads) /\ current \in Thread
  BY ResolveOnlyWakes DEF SignalInv, ConnectInv, MutexInv, WaitInv, WaitTypes
<1>3. objects' = objects /\ UNCHANGED <<pending, handle_map>>
  BY <1>1, PickIsQuiet DEF SignalInv, ConnectInv, MutexInv, ObjectTypes, ExitThread, table
<1>4. \A t \in Thread : threads'[t].status = "blocked" => threads[t].status = "blocked"
  BY <1>1, <1>2, KilledTyped DEF OnlyWakes, Kill
<1> QED BY <1>3, <1>4, QuietStep

\* Sleep misses none.
LEMMA SleepMissesNothing ==
    ASSUME SignalInv, NEW ms \in program.timeouts, Sleep(ms) PROVE NoMissedSignal'
<1> DEFINE objs == Signal(objects, TimerSignals(now'))
           th   == UnblockAll(threads, Wakes(TimerSignals(now')))
<1>1. \E r \in Resolve(th, objs, now') :
         objects' = r.objects /\ threads' = CompleteSleep(r.threads, current, now' + ms, r.next)
  BY DEF Sleep, SwitchTo
<1>2. th \in [Thread -> ThreadRecord] /\ current \in Thread
  BY WakingOnlyWakes DEF OnlyWakes, SignalInv, ConnectInv, MutexInv, WaitInv, WaitTypes
<1>3. objs = [id \in Handle |-> objs[id]]
  BY DEF Signal
<1>4. TimerSignals(now') \in SUBSET Handle /\ UNCHANGED <<pending, handle_map>>
  BY TimersKnown DEF Sleep, table
<1>5. ASSUME objects' = objs,
             \A t \in Thread : threads'[t].status = "blocked" => th[t].status = "blocked"
      PROVE  NoMissedSignal'
  BY <1>4, <1>5, SignalWakes
<1> HIDE DEF objs, th
<1>6. PICK r \in Resolve(th, objs, now') :
         objects' = r.objects /\ threads' = CompleteSleep(r.threads, current, now' + ms, r.next)
  BY <1>1
<1>7. OnlyWakes(th, r.threads) /\ objects' = objs
  <2>1. OnlyWakes(th, r.threads)
    BY <1>2, <1>6, ResolveOnlyWakes
  <2>2. r.objects = objs
    BY <1>3, <1>6, PickIsQuiet
  <2> QED BY <1>6, <2>1, <2>2
<1>8. \A t \in Thread : threads'[t].status = "blocked" => th[t].status = "blocked"
  BY <1>2, <1>6, <1>7 DEF OnlyWakes, CompleteSleep, Entry
<1> QED BY <1>5, <1>7, <1>8

\* The steps that only start, stop or wake threads, and those of the network.
LEMMA ThreadStepsMissNothing ==
    ASSUME SignalInv, \/ \E susp \in BOOLEAN : CreateThread(susp)
                      \/ \E t \in Thread : ResumeThread(t) \/ SuspendThread(t) \/ TerminateThread(t)
                      \/ Preempt
    PROVE  NoMissedSignal'
<1>1. threads \in [Thread -> ThreadRecord] /\ pending \in [Thread -> AnyCall \cup {NoCall}]
  BY DEF SignalInv, ConnectInv, MutexInv, WaitInv, WaitTypes
<1>2. ASSUME NEW susp \in BOOLEAN, CreateThread(susp) PROVE NoMissedSignal'
  <2>1. UNCHANGED <<objects, handle_map, pending>>
        /\ \E t \in Thread : threads' = [threads EXCEPT ![t] = ReadyEntry(susp, FALSE)]
    BY <1>2 DEF CreateThread, table, FirstFree, AddThread
  <2>2. \A t \in Thread : threads'[t].status = "blocked" => threads[t].status = "blocked"
    BY <1>1, <2>1 DEF ReadyEntry, Entry
  <2> QED BY <2>1, <2>2, QuietStep
<1>3. ASSUME NEW t \in Thread, ResumeThread(t) \/ SuspendThread(t) PROVE NoMissedSignal'
  <2>1. UNCHANGED <<objects, handle_map, pending>>
        /\ \E b : threads' = [threads EXCEPT ![t].suspended = b]
    BY <1>3 DEF ResumeThread, SuspendThread, table
  <2>2. \A u \in Thread : threads'[u].status = "blocked" => threads[u].status = "blocked"
    BY <1>1, <2>1 DEF ThreadRecord
  <2> QED BY <2>1, <2>2, QuietStep
<1>4. ASSUME NEW t \in Thread, TerminateThread(t) PROVE NoMissedSignal'
  <2>1. UNCHANGED <<objects, handle_map>> /\ threads' = [threads EXCEPT ![t] = DeadEntry]
        /\ pending' = [pending EXCEPT ![t] = NoCall]
    BY <1>4 DEF TerminateThread, table, Kill
  <2>2. \A u \in Thread : threads'[u].status = "blocked" =>
           threads[u].status = "blocked" /\ pending'[u] = pending[u]
    BY <1>1, <2>1, KilledTyped
  <2> QED BY <2>1, <2>2, QuietStep
<1>5. CASE Preempt
  <2>1. UNCHANGED <<objects, handle_map, pending>> /\ threads' = WakeExpired(threads, now)
    BY <1>5 DEF Preempt, table
  <2>2. \A u \in Thread : threads'[u].status = "blocked" => threads[u].status = "blocked"
    BY <1>1, <2>1, WakingOnlyWakes DEF OnlyWakes
  <2> QED BY <2>1, <2>2, QuietStep
<1> QED BY <1>2, <1>3, <1>4, <1>5

\* The calls a wait is made of.
LEMMA WaitsMissNothing ==
    ASSUME SignalInv, \/ RetryWait
                      \/ \E h \in Known, timeout \in program.timeouts \cup {Infinite} :
                            WaitForSingleObject(h, timeout)
                      \/ \E h1, h2 \in Known, all \in BOOLEAN,
                            timeout \in program.timeouts \cup {Infinite} :
                            WaitForMultipleObjects(<<h1, h2>>, all, timeout)
    PROVE  NoMissedSignal'
<1>1. WaitInv
  BY DEF SignalInv, ConnectInv, MutexInv
<1>2. CASE RetryWait
  <2>1. pending[current] \in AnyCall /\ ~ halted /\ Evaluate(pending[current])
    BY <1>1, <1>2 DEF RetryWait, WaitInv, WaitTypes
  <2> QED BY <2>1, EvaluateMissesNothing
<1>3. ASSUME NEW h \in Known, NEW timeout \in program.timeouts \cup {Infinite},
             WaitForSingleObject(h, timeout)
      PROVE  NoMissedSignal'
  BY <1>1, <1>3, SingleTyped, EvaluateMissesNothing DEF WaitForSingleObject, Calls
<1>4. ASSUME NEW h1 \in Known, NEW h2 \in Known, NEW all \in BOOLEAN,
             NEW timeout \in program.timeouts \cup {Infinite},
             WaitForMultipleObjects(<<h1, h2>>, all, timeout)
      PROVE  NoMissedSignal'
  BY <1>1, <1>4, MultipleTyped, EvaluateMissesNothing DEF WaitForMultipleObjects, Calls
<1> QED BY <1>2, <1>3, <1>4

-----------------------------------------------------------------------------
(* The names stay plain.                                                   *)

\* The guest knows its handles for good.
LEMMA KnownGrows ==
    ASSUME SignalInv, next_handle' \in {next_handle, next_handle + 1} PROVE Known \subseteq Known'
<1>1. next_handle \in Int
  BY HandleAssumption DEF SignalInv, ConnectInv, MutexInv, WaitInv, WaitTypes
<1> QED BY <1>1 DEF Known

\* A step ends waits, and begins one for handles the guest knows.
LEMMA WaitsStayKnown ==
    ASSUME SignalInv, next_handle' \in {next_handle, next_handle + 1},
           \A t \in Thread : \/ pending'[t] \in {pending[t], NoCall}
                             \/ HandlesOf(pending'[t]) \subseteq Known
    PROVE  KnownWaits'
<1>1. HandlesOf(NoCall) = {}
  BY DEF HandlesOf, NoCall
<1>2. \A t \in Thread : HandlesOf(pending'[t]) \subseteq Known
  BY <1>1 DEF SignalInv, NamesInv, KnownWaits
<1> QED BY <1>2, KnownGrows DEF KnownWaits, HandlesOf

\* A step that makes no handle keeps the names of the waits known.
LEMMA QuietNames ==
    ASSUME SignalInv, UNCHANGED <<handle_map, next_handle, pending>>,
           UNCHANGED timers \/ KnownTimers', UNCHANGED sockets \/ NoSelects'
    PROVE  NamesInv'
<1>1. KnownWaits'
  BY WaitsStayKnown
<1>2. OneName' /\ KnownTimers' /\ NoSelects'
  BY DEF SignalInv, NamesInv, OneName, KnownTimers, NoSelects
<1> QED BY <1>1, <1>2 DEF NamesInv

\* A new object keeps them.
LEMMA NewNames ==
    ASSUME SignalInv, NEW obj, NewObject(obj) PROVE NamesInv'
<1>1. /\ handle_map' = [handle_map EXCEPT ![next_handle] = next_handle]
      /\ next_handle' = next_handle + 1 /\ UNCHANGED <<pending, timers, sockets>>
  BY DEF NewObject, timing
<1>2. KnownWaits'
  BY <1>1, WaitsStayKnown
<1>3. OneName'
  BY <1>1 DEF SignalInv, ConnectInv, MutexInv, ObjectTypes, NamesInv, OneName
<1> QED BY <1>1, <1>2, <1>3 DEF SignalInv, NamesInv, KnownTimers, NoSelects

\* A closed handle names nothing, and the waits on it stay known.
LEMMA CloseNames ==
    ASSUME SignalInv, NEW h, CloseHandle(h) PROVE NamesInv'
<1>1. /\ handle_map' = [handle_map EXCEPT ![h] = NoObject]
      /\ UNCHANGED <<next_handle, pending, timers, sockets>>
  BY DEF CloseHandle, timing, scheduling
<1>2. KnownWaits'
  BY <1>1, WaitsStayKnown
<1>3. OneName'
  BY <1>1 DEF SignalInv, ConnectInv, MutexInv, ObjectTypes, NamesInv, OneName
<1> QED BY <1>1, <1>2, <1>3 DEF SignalInv, NamesInv, KnownTimers, NoSelects

\* The evaluation of a wait on known handles keeps them.
LEMMA EvaluateNames ==
    ASSUME SignalInv, NEW call, HandlesOf(call) \subseteq Known, Evaluate(call) PROVE NamesInv'
<1>1. UNCHANGED <<handle_map, next_handle, timers>>
  BY DEF Evaluate, Satisfy, TimeOut, Block, table, timing
<1>2. \/ pending' = [pending EXCEPT ![current] = NoCall]
      \/ pending' = [pending EXCEPT ![current] = call]
  BY DEF Evaluate, Satisfy, TimeOut, Block, Rewinds
<1>3. pending \in [Thread -> AnyCall \cup {NoCall}]
  BY DEF SignalInv, ConnectInv, MutexInv, WaitInv, WaitTypes
<1>4. \A t \in Thread : pending'[t] \in {pending[t], NoCall} \/ HandlesOf(pending'[t]) \subseteq Known
  BY <1>2, <1>3
<1>5. KnownWaits'
  BY <1>1, <1>4, WaitsStayKnown
<1>6. NoSelects'
  <2>1. CASE sockets' = sockets
    BY <2>1 DEF SignalInv, NamesInv, NoSelects
  <2>2. CASE Block(call)
    <3>1. PICK r \in Resolve(threads, objects, now) : sockets' = r.sockets
      BY <2>2 DEF Block, SwitchTo
    <3> QED BY <3>1, PickIsQuiet
            DEF NoSelects, SignalInv, NamesInv, ConnectInv, MutexInv, ObjectTypes
  <2> QED BY <2>1, <2>2 DEF Evaluate, Satisfy, TimeOut
<1> QED BY <1>1, <1>5, <1>6 DEF SignalInv, NamesInv, OneName, KnownTimers

\* The timers keep naming handles when the clock goes on.
LEMMA TimersStayKnown ==
    ASSUME KnownTimers, NEW clock \in Nat
    PROVE  TimersAfter(clock) \in [Timer -> TimerRecord \cup {NoTimer}]
<1>1. ASSUME NEW i \in Timer, i \in Due(clock), timers[i].period # 0
      PROVE  [timers[i] EXCEPT !.due = @ + timers[i].period] \in TimerRecord
  <2>1. timers[i] \in TimerRecord
    BY <1>1 DEF KnownTimers, Due
  <2> QED BY <2>1 DEF TimerRecord
<1> QED BY <1>1 DEF TimersAfter, KnownTimers

\* The heartbeat and the calls on timers keep the names.
LEMMA TimerNames ==
    ASSUME SignalInv, \/ Heartbeat
                      \/ \E i \in Timer : timeKillEvent(i)
                      \/ \E h \in Known, delay \in program.timeouts, periodic \in BOOLEAN :
                            timeSetEvent(h, delay, periodic)
    PROVE  NamesInv'
<1>1. KnownTimers /\ now \in Nat /\ program \in Programs /\ Known \subseteq Handle
  BY HandleAssumption
     DEF SignalInv, NamesInv, ConnectInv, MutexInv, WaitInv, WaitTypes, Known, Untracked
<1>2. CASE Heartbeat
  <2>1. now' \in Nat /\ timers' = TimersAfter(now') /\ UNCHANGED <<table, pending, sockets>>
    BY <1>1, <1>2 DEF Heartbeat
  <2>2. KnownTimers'
    BY <1>1, <2>1, TimersStayKnown DEF KnownTimers
  <2> QED BY <2>1, <2>2, QuietNames DEF table
<1>3. ASSUME NEW i \in Timer, timeKillEvent(i) PROVE NamesInv'
  <2>1. KnownTimers'
    BY <1>1, <1>3 DEF KnownTimers, timeKillEvent
  <2> QED BY <1>3, <2>1, QuietNames DEF timeKillEvent, table
<1>4. ASSUME NEW h \in Known, NEW delay \in program.timeouts, NEW periodic \in BOOLEAN,
             timeSetEvent(h, delay, periodic)
      PROVE  NamesInv'
  <2> DEFINE d == IF delay = 0 THEN 1 ELSE delay
  <2>1. d \in Nat /\ h \in Handle
    BY <1>1, ProgramAssumption
  <2>2. [due |-> now + d, period |-> IF periodic THEN d ELSE 0, handle |-> h] \in TimerRecord
    BY <1>1, <2>1 DEF TimerRecord
  <2>3. timers' = [timers EXCEPT ![next_timer] =
                     [due |-> now + d, period |-> IF periodic THEN d ELSE 0, handle |-> h]]
    BY <1>4 DEF timeSetEvent
  <2> HIDE DEF d
  <2>4. KnownTimers'
    BY <1>1, <2>2, <2>3 DEF KnownTimers
  <2> QED BY <1>4, <2>4, QuietNames DEF timeSetEvent, table
<1> QED BY <1>2, <1>3, <1>4

\* Sleep and ExitThread do.
LEMMA SwitchNames ==
    ASSUME SignalInv, ExitThread \/ \E ms \in program.timeouts : Sleep(ms) PROVE NamesInv'
<1>1. CASE ExitThread
  <2>1. PICK r \in Resolve(threads, objects, now) : sockets' = r.sockets
    BY <1>1 DEF ExitThread, SwitchTo
  <2>2. NoSelects'
    BY <2>1, PickIsQuiet DEF NoSelects, SignalInv, NamesInv, ConnectInv, MutexInv, ObjectTypes
  <2> QED BY <1>1, <2>2, QuietNames DEF ExitThread, table, timing
<1>2. ASSUME NEW ms \in program.timeouts, Sleep(ms) PROVE NamesInv'
  <2> DEFINE objs == Signal(objects, TimerSignals(now'))
             th   == UnblockAll(threads, Wakes(TimerSignals(now')))
  <2>1. PICK r \in Resolve(th, objs, now') : sockets' = r.sockets
    BY <1>2 DEF Sleep, SwitchTo
  <2>2. objs = [id \in Handle |-> objs[id]]
    BY DEF Signal
  <2> HIDE DEF objs, th
  <2>3. NoSelects'
    BY <2>1, <2>2, PickIsQuiet DEF NoSelects, SignalInv, NamesInv
  <2>4. now' \in Nat
    BY <1>2, ProgramAssumption DEF Sleep, SignalInv, ConnectInv, MutexInv, WaitInv, WaitTypes
  <2>5. KnownTimers'
    BY <1>2, <2>4, TimersStayKnown DEF Sleep, KnownTimers, SignalInv, NamesInv
  <2> QED BY <1>2, <2>3, <2>5, QuietNames DEF Sleep, table
<1> QED BY <1>1, <1>2

\* closesocket and the network do.
LEMMA SocketNames ==
    ASSUME SignalInv, \E s \in Socket : \/ closesocket(s)
                                        \/ \E ready \in SUBSET {"read", "write"} : Network(s, ready)
    PROVE  NamesInv'
<1>1. NoSelects'
  BY DEF closesocket, Network, SignalInv, NamesInv, NoSelects, ConnectInv, SocketTypes
<1> QED BY <1>1, QuietNames DEF closesocket, Network, table, timing

-----------------------------------------------------------------------------
\* Every step of a plain program.
LEMMA SignalGoesOn ==
    ASSUME PlainPrograms, SignalInv, [Next]_vars PROVE NamesInv' /\ NoMissedSignal'
<1>1. program \in Programs
  BY DEF SignalInv, ConnectInv, MutexInv, WaitInv, WaitTypes
<1>2. CASE UNCHANGED vars
  BY <1>2, QuietNames, QuietStep DEF vars, scheduling, table, timing
<1>3. CASE RetryWait
  <2>1. HandlesOf(pending[current]) \subseteq Known
    BY DEF SignalInv, NamesInv, KnownWaits, ConnectInv, MutexInv, WaitInv, WaitTypes
  <2> QED BY <1>3, <2>1, WaitsMissNothing, EvaluateNames DEF RetryWait
<1>4. CASE Preempt \/ Heartbeat
  BY <1>4, ThreadStepsMissNothing, HeartbeatWakes, TimerNames, QuietNames
     DEF Preempt, table, timing
<1>5. ASSUME NEW s \in Socket, NEW ready \in SUBSET {"read", "write"}, Network(s, ready)
      PROVE  NamesInv' /\ NoMissedSignal'
  BY <1>5, SocketNames, QuietStep DEF Network, scheduling, table
<1>6. CASE Guest
  <2>1. ASSUME \/ \E named, owned \in BOOLEAN : CreateMutexA(named, owned)
               \/ \E manual, initial \in BOOLEAN : CreateEventA(manual, initial)
        PROVE  NamesInv' /\ NoMissedSignal'
    BY <2>1, NewNames, NewFreesNothing DEF CreateMutexA, CreateEventA
  <2>2. ASSUME NEW h \in Known, SetEvent(h) \/ ResetEvent(h) \/ ReleaseMutex(h)
        PROVE  NamesInv' /\ NoMissedSignal'
    <3>1. NamesInv'
      BY <2>2, QuietNames DEF SetEvent, ResetEvent, ReleaseMutex, table, timing, scheduling
    <3> QED BY <2>2, <3>1, SetEventWakes, ResetFreesNothing, ReleaseWakes
  <2>3. ASSUME NEW h \in Known, CloseHandle(h) PROVE NamesInv' /\ NoMissedSignal'
    BY <2>3, CloseNames, CloseFreesNothing
  <2>4. ASSUME NEW h \in Known, NEW close_source \in BOOLEAN, DuplicateHandle(h, close_source)
        PROVE  FALSE
    BY <1>1, <2>4 DEF PlainPrograms, DuplicateHandle, Calls
  <2>5. ASSUME NEW s \in Socket, NEW h \in Known, NEW events \in SUBSET NetEvent,
               WSAEventSelect(s, h, events)
        PROVE  FALSE
    BY <1>1, <2>5 DEF PlainPrograms, WSAEventSelect, Calls
  <2>6. ASSUME NEW h \in Known, NEW timeout \in program.timeouts \cup {Infinite},
               WaitForSingleObject(h, timeout)
        PROVE  NamesInv' /\ NoMissedSignal'
    <3>1. HandlesOf([kind |-> "single", hs |-> <<h>>, timeout |-> timeout]) \subseteq Known
      BY DEF HandlesOf
    <3> QED BY <2>6, <3>1, WaitsMissNothing, EvaluateNames DEF WaitForSingleObject
  <2>7. ASSUME NEW h1 \in Known, NEW h2 \in Known, NEW all \in BOOLEAN,
               NEW timeout \in program.timeouts \cup {Infinite},
               WaitForMultipleObjects(<<h1, h2>>, all, timeout)
        PROVE  NamesInv' /\ NoMissedSignal'
    <3>1. HandlesOf([kind |-> IF all THEN "all" ELSE "any", hs |-> <<h1, h2>>,
                     timeout |-> timeout]) \subseteq Known
      BY DEF HandlesOf
    <3> QED BY <2>7, <3>1, WaitsMissNothing, EvaluateNames DEF WaitForMultipleObjects
  <2>8. ASSUME \/ \E i \in Timer : timeKillEvent(i)
               \/ \E h \in Known, delay \in program.timeouts, periodic \in BOOLEAN :
                     timeSetEvent(h, delay, periodic)
        PROVE  NamesInv' /\ NoMissedSignal'
    <3>1. NamesInv'
      BY <2>8, TimerNames
    <3> QED BY <2>8, <3>1, QuietStep DEF timeKillEvent, timeSetEvent, scheduling, table
  <2>9. CASE \/ ExitThread
             \/ \E ms \in program.timeouts : Sleep(ms)
    BY <2>9, SwitchNames, ExitMissesNothing, SleepMissesNothing
  <2>10. ASSUME NEW t \in Thread, ResumeThread(t) \/ SuspendThread(t) \/ TerminateThread(t)
         PROVE  NamesInv' /\ NoMissedSignal'
    <3>1. NamesInv'
      <4>1. UNCHANGED <<handle_map, next_handle, timers, sockets>>
        BY <2>10 DEF ResumeThread, SuspendThread, TerminateThread, table, timing
      <4>2. pending' = pending \/ pending' = [pending EXCEPT ![t] = NoCall]
        BY <2>10 DEF ResumeThread, SuspendThread, TerminateThread
      <4>3. \A u \in Thread : pending'[u] \in {pending[u], NoCall}
        BY <4>2 DEF SignalInv, ConnectInv, MutexInv, WaitInv, WaitTypes
      <4>4. KnownWaits'
        BY <4>1, <4>3, WaitsStayKnown
      <4> QED BY <4>1, <4>4 DEF SignalInv, NamesInv, OneName, KnownTimers, NoSelects
    <3> QED BY <2>10, <3>1, ThreadStepsMissNothing
  <2>11. ASSUME NEW susp \in BOOLEAN, CreateThread(susp) PROVE NamesInv' /\ NoMissedSignal'
    BY <2>11, ThreadStepsMissNothing, QuietNames DEF CreateThread, table, timing
  <2>12. ASSUME NEW s \in Socket, closesocket(s) PROVE NamesInv' /\ NoMissedSignal'
    BY <2>12, SocketNames, QuietStep DEF closesocket, scheduling, table
  <2> QED BY <1>6, <2>1, <2>2, <2>3, <2>4, <2>5, <2>6, <2>7, <2>8, <2>9, <2>10, <2>11, <2>12
          DEF Guest
<1> QED BY <1>2, <1>3, <1>4, <1>5, <1>6 DEF Next

\* No signal is missed at first.
LEMMA SignalStarts == Init => SignalInv
<1> SUFFICES ASSUME Init PROVE SignalInv
  OBVIOUS
<1>1. SocketTypes /\ NoSelects
  BY DEF Init, SocketTypes, NoSelects
<1>2. OneName /\ KnownTimers
  BY DEF Init, OneName, KnownTimers
<1>3. KnownWaits
  BY DEF Init, KnownWaits, HandlesOf, NoCall
<1>4. NoMissedSignal
  BY DEF Init, NoMissedSignal, MainThreadOnly, ReadyEntry, FreeEntry, Entry
<1> QED BY <1>1, <1>2, <1>3, <1>4, MutexStarts DEF SignalInv, ConnectInv, NamesInv

\* No wakeup is lost, for any number of threads, handles, timers and timeouts,
\* in every program that duplicates no handle and selects no socket events:
\* SetEvent, ReleaseMutex and the timers leave nobody blocked who could go on,
\* and no wait blocks for what it could have (kernel32_io.py, kernel.py).
THEOREM NoSignalMissed ==
    ASSUME PlainPrograms PROVE Spec => []NoMissedSignal
<1>1. SignalInv /\ [Next]_vars => SignalInv'
  <2> SUFFICES ASSUME SignalInv, [Next]_vars PROVE SignalInv'
    OBVIOUS
  <2>1. WaitInv' /\ MutexStep
    BY WaitGoesOn, MutexGoesOn DEF SignalInv, ConnectInv, MutexInv
  <2>2. SocketTypes'
    BY ConnectGoesOn DEF SignalInv
  <2>3. NamesInv' /\ NoMissedSignal'
    BY PlainPrograms, SignalGoesOn
  <2> QED BY <2>1, <2>2, <2>3 DEF SignalInv, ConnectInv, MutexInv, MutexStep
<1>2. SignalInv => NoMissedSignal
  BY DEF SignalInv
<1> QED BY <1>1, <1>2, SignalStarts, PTL DEF Spec
=============================================================================
