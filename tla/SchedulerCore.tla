---------------------------- MODULE SchedulerCore ----------------------------
(***************************************************************************)
(* The thread table of tew's cooperative scheduler and the operations on   *)
(* it.  The table itself lives in a native core (scheduler.zig) that is    *)
(* not part of src/: every operator here states what ZigScheduler          *)
(* (tew/hardware/scheduler_zig.py) and its unit tests rely on, as a        *)
(* function from tables to tables.  Scheduler and KernelSync are built     *)
(* from these operators.                                                   *)
(***************************************************************************)
EXTENDS Integers

CONSTANTS
    NThreads,   \* size of the thread table; indices 0 .. NThreads-1
    Handle,     \* the handle values a thread can wait on
    MaxTime     \* bound on virtual_ticks_ms, so that the clock is finite

ASSUME NThreadsAssumption == NThreads \in Nat \ {0}
ASSUME MaxTimeAssumption  == MaxTime \in Nat

Thread   == 0 .. NThreads - 1   \* thread indices, in order of creation
NoThread == -1                  \* the -1 that pick_next_ready returns
Never    == -1                  \* deadline_ms = None

\* ThreadStatus, with "free" for a table entry no CreateThread has filled yet.
Status == {"free", "ready", "blocked", "sleeping", "dead"}

ThreadRecord ==
    [status    : Status,
     suspended : BOOLEAN,
     waits     : SUBSET Handle,   \* what a blocked thread waits for
     deadline  : Int,             \* wake-up time of a sleep or a timed wait
     timedOut  : BOOLEAN]         \* wait_timed_out

\* An entry as each operation leaves it; waits and deadline are meaningful
\* only while the thread waits or sleeps.
Entry(status, susp, hs, deadline, late) ==
    [status |-> status, suspended |-> susp, waits |-> hs,
     deadline |-> deadline, timedOut |-> late]

FreeEntry            == Entry("free", FALSE, {}, Never, FALSE)
DeadEntry            == Entry("dead", FALSE, {}, Never, FALSE)
ReadyEntry(susp, late) == Entry("ready", susp, {}, Never, late)

Runnable(th, t) == th[t].status = "ready" /\ ~ th[t].suspended
Live(th, t)     == th[t].status \notin {"free", "dead"}

\* Only the main thread exists, and it runs.
MainThreadOnly ==
    [t \in Thread |-> IF t = 0 THEN ReadyEntry(FALSE, FALSE) ELSE FreeEntry]

\* CreateThread fills the first free entry.
FirstFree(th) ==
    {t \in Thread : /\ th[t].status = "free"
                    /\ \A u \in Thread : u < t => th[u].status # "free"}

AddThread(th, t, susp) == [th EXCEPT ![t] = ReadyEntry(susp, FALSE)]

Expired(r, clock) == r.deadline # Never /\ r.deadline <= clock

(***************************************************************************)
(* scheduler_pick_next_ready does two things.  It first wakes the threads  *)
(* whose time has come, marking a timed-out wait with wait_timed_out...    *)
(***************************************************************************)
WakeExpired(th, clock) ==
    [t \in Thread |->
        IF th[t].status = "sleeping" /\ Expired(th[t], clock)
        THEN ReadyEntry(th[t].suspended, th[t].timedOut)
        ELSE IF th[t].status = "blocked" /\ Expired(th[t], clock)
        THEN ReadyEntry(th[t].suspended, TRUE)
        ELSE th[t]]

\* Mutant of Distance: the scan starts at the head of the table every time.
Distance_FromHead(cur, t) == t

(***************************************************************************)
(* ... and then returns the first runnable thread after the current one,   *)
(* in the cyclic order of the table, never the current one; -1 when there  *)
(* is none.  (A one-element set, so that a step says \E next \in ...)      *)
(***************************************************************************)
Distance(cur, t) == IF t > cur THEN t - cur ELSE t + NThreads - cur

Candidates(th, cur) == {t \in Thread \ {cur} : Runnable(th, t)}

NextReady(th, cur) ==
    IF Candidates(th, cur) = {}
    THEN {NoThread}
    ELSE {t \in Candidates(th, cur) :
            \A u \in Candidates(th, cur) : Distance(cur, t) <= Distance(cur, u)}

\* scheduler_unblock_handle, for each handle of hs: the threads blocked on it,
\* alone or among others, are ready again.
UnblockAll(th, hs) ==
    [t \in Thread |->
        IF th[t].status = "blocked" /\ th[t].waits \cap hs # {}
        THEN ReadyEntry(th[t].suspended, th[t].timedOut)
        ELSE th[t]]

Unblock(th, h) == UnblockAll(th, {h})

(***************************************************************************)
(* scheduler_complete_block_on_handles, given the result of the pick.      *)
(* With no other thread to run the caller stays ready, its EIP at the      *)
(* call, so that it evaluates the wait again.                              *)
(***************************************************************************)
CompleteBlock(th, cur, hs, deadline, next) ==
    IF next = NoThread THEN th
    ELSE [th EXCEPT ![cur] = Entry("blocked", th[cur].suspended, hs, deadline,
                                   th[cur].timedOut)]

\* scheduler_complete_sleep_current; with no other thread the sleep is over.
CompleteSleep(th, cur, deadline, next) ==
    IF next = NoThread THEN th
    ELSE [th EXCEPT ![cur] = Entry("sleeping", th[cur].suspended, {}, deadline,
                                   th[cur].timedOut)]

Kill(th, t) == [th EXCEPT ![t] = DeadEntry]

\* The thread that runs after the pick: the caller when there is no other.
RunsNext(cur, next) == IF next = NoThread THEN cur ELSE next
=============================================================================
