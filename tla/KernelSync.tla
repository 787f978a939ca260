----------------------------- MODULE KernelSync -----------------------------
(***************************************************************************)
(* Kernel objects and waiting: the handlers of tew/api/kernel32_io.py for  *)
(* events, mutexes, waits, threads and multimedia timers, Sleep, and the   *)
(* completion source Kernel (tew/kernel/kernel.py) that signals events     *)
(* when sockets become ready.                                              *)
(*                                                                         *)
(* A wait that is not satisfied blocks its thread with EIP back at the     *)
(* call, so that the thread evaluates the same call again when it next     *)
(* runs: pending[t] is the call thread t is in.  Everything else a handler *)
(* does is one step, for the CPU runs one handler at a time.               *)
(***************************************************************************)
EXTENDS SchedulerCore, Sequences

CONSTANTS
    MaxHandles,   \* bound on the kernel handles ever created
    MaxCount,     \* bound on the recursion of a mutex
    MaxTimers,    \* bound on the timers ever set
    Socket,       \* the sockets WSAEventSelect is used on
    Programs      \* what guests may do: [calls, threads, handles, timeouts, time], the API
                  \* functions one uses, its numbers of threads and handles, and the
                  \* dwMilliseconds of its timed waits and sleeps; `time` bounds its clock

ASSUME HandleAssumption  == MaxHandles \in Nat /\ Handle = 0 .. MaxHandles
ASSUME CountAssumption   == MaxCount \in Nat \ {0}
ASSUME TimersAssumption  == MaxTimers \in Nat
ASSUME ProgramAssumption ==
    \A p \in Programs : p.handles \in 0..MaxHandles /\ p.timeouts \subseteq Nat /\ p.time \in 0..MaxTime

VARIABLES
    threads,      \* the scheduler's table
    current,      \* the thread on the CPU
    now,          \* virtual_ticks_ms
    halted,       \* the last thread is gone
    pending,      \* the wait each thread is in
    handle_map,   \* kernel_handle_map: the object each handle names
    objects,      \* the objects, each under the handle it was created with
    next_handle,  \* next_kernel_handle
    timers,       \* pending_timers
    next_timer,   \* _next_timer_id
    program,      \* the guest program
    sockets       \* _event_select, _connect_fired and the state of py_sock

scheduling == <<threads, current, now, halted>>
table      == <<handle_map, next_handle>>
timing     == <<timers, next_timer>>
vars       == <<scheduling, pending, table, objects, timing, sockets, program>>

-----------------------------------------------------------------------------
(* Data.                                                                   *)

Untracked == 0     \* a thread handle: in no map, and never signaled
NoObject  == -1
NoTimer   == [due |-> 0, period |-> 0, handle |-> NoObject]
Infinite  == -1    \* _WAIT_INFINITE

Event(manual, signaled) ==
    [kind |-> "event", manual |-> manual, signaled |-> signaled,
     named |-> FALSE, owner |-> NoThread, count |-> 0]
Mutex(named, owner, count) ==
    [kind |-> "mutex", manual |-> FALSE, signaled |-> FALSE,
     named |-> named, owner |-> owner, count |-> count]

ObjectRecord ==
    {Event(m, s) : m \in BOOLEAN, s \in BOOLEAN} \cup
    {Mutex(n, o, c) : n \in BOOLEAN, o \in Thread \cup {NoThread}, c \in 0 .. MaxCount}

Timer       == 1 .. MaxTimers
TimerRecord == [due : Nat, period : Nat, handle : Handle]

\* WaitForSingleObject, or WaitForMultipleObjects with bWaitAll unset or set.
Call    == [kind : {"single", "any", "all"}, hs : Seq(Handle),
            timeout : program.timeouts \cup {Infinite}]
NoCall  == [kind |-> "none", hs |-> << >>, timeout |-> Infinite]
HandlesOf(call) == {call.hs[i] : i \in DOMAIN call.hs}

NetEvent     == {"FD_READ", "FD_WRITE", "FD_CONNECT"}
SocketRecord == [event : Handle \cup {NoObject}, events : SUBSET NetEvent,
                 ready : SUBSET {"read", "write"}, connectFired : BOOLEAN]

TypeOK ==
    /\ threads \in [Thread -> ThreadRecord]
    /\ current \in Thread
    /\ now \in 0 .. MaxTime
    /\ halted \in BOOLEAN
    /\ pending \in [Thread -> Call \cup {NoCall}]
    /\ handle_map \in [Handle -> Handle \cup {NoObject}]
    /\ objects \in [Handle -> ObjectRecord]
    /\ next_handle \in 1 .. MaxHandles + 1
    /\ timers \in [Timer -> TimerRecord \cup {NoTimer}]
    /\ next_timer \in 1 .. MaxTimers + 1
    /\ sockets \in [Socket -> SocketRecord]
    /\ program \in Programs

Init ==
    /\ threads = MainThreadOnly
    /\ current = 0
    /\ now = 0
    /\ halted = FALSE
    /\ pending = [t \in Thread |-> NoCall]
    /\ handle_map = [h \in Handle |-> NoObject]
    /\ objects = [h \in Handle |-> Event(FALSE, FALSE)]
    /\ next_handle = 1
    /\ timers = [i \in Timer |-> NoTimer]
    /\ next_timer = 1
    /\ sockets = [s \in Socket |-> [event |-> NoObject, events |-> {},
                                    ready |-> {}, connectFired |-> FALSE]]
    /\ program \in Programs

\* The guest runs, between calls, and makes this one.
Calls(name) == /\ name \in program.calls
               /\ ~ halted
               /\ pending[current] = NoCall

-----------------------------------------------------------------------------
(* Handles and objects.                                                    *)

Mapped(h)  == handle_map[h] # NoObject
Object(h)  == objects[handle_map[h]]
IsEvent(h) == Mapped(h) /\ Object(h).kind = "event"
IsMutex(h) == Mapped(h) /\ Object(h).kind = "mutex"

\* The named mutex, if it exists: CreateMutexA and OpenMutexA then return the
\* handle it already has.
NamedMutexExists == \E h \in Handle : IsMutex(h) /\ Object(h).named

\* A new object under a new handle.
NewObject(obj) ==
    /\ next_handle <= program.handles
    /\ handle_map' = [handle_map EXCEPT ![next_handle] = next_handle]
    /\ objects' = [objects EXCEPT ![next_handle] = obj]
    /\ next_handle' = next_handle + 1
    /\ UNCHANGED <<scheduling, pending, timing, sockets>>

CreateMutexA(named, owned) ==
    /\ Calls("CreateMutexA")
    /\ ~ (named /\ NamedMutexExists)
    /\ NewObject(IF owned THEN Mutex(named, current, 1) ELSE Mutex(named, NoThread, 0))

CreateEventA(manual, initial) ==
    /\ Calls("CreateEventA")
    /\ NewObject(Event(manual, initial))

\* The events of hs, signaled.
Signal(objs, hs) ==
    [id \in Handle |->
        IF \E h \in hs : IsEvent(h) /\ handle_map[h] = id
        THEN Event(objs[id].manual, TRUE)
        ELSE objs[id]]

Wakes(hs) == {h \in hs : IsEvent(h)}

\* Mutant of SetEvent: the scheduler is not told.
SetEvent_Silent(h) ==
    /\ Calls("SetEvent")
    /\ IsEvent(h)
    /\ objects' = Signal(objects, {h})
    /\ UNCHANGED <<scheduling, pending, table, timing, sockets>>

SetEvent(h) ==
    /\ Calls("SetEvent")
    /\ IsEvent(h)
    /\ objects' = Signal(objects, {h})
    /\ threads' = Unblock(threads, h)
    /\ UNCHANGED <<current, now, halted, pending, table, timing, sockets>>

ResetEvent(h) ==
    /\ Calls("ResetEvent")
    /\ IsEvent(h)
    /\ objects' = [objects EXCEPT ![handle_map[h]] = Event(Object(h).manual, FALSE)]
    /\ UNCHANGED <<scheduling, pending, table, timing, sockets>>

\* Whoever calls it: the handler does not look at the owner.
ReleaseMutex(h) ==
    /\ Calls("ReleaseMutex")
    /\ IsMutex(h)
    /\ LET m == Object(h)
           gone == m.count <= 1
       IN  /\ objects' = [objects EXCEPT ![handle_map[h]] =
                            IF gone THEN Mutex(m.named, NoThread, 0)
                                    ELSE Mutex(m.named, m.owner, m.count - 1)]
           /\ threads' = IF gone THEN Unblock(threads, h) ELSE threads
    /\ UNCHANGED <<current, now, halted, pending, table, timing, sockets>>

\* An object lives as long as some handle names it.
Collected(map, objs) ==
    [id \in Handle |-> IF \E h \in Handle : map[h] = id
                       THEN objs[id] ELSE Event(FALSE, FALSE)]

\* Win32 leaves it undefined to close a handle somebody waits on.
WaitedOn(h) == \E t \in Thread : h \in HandlesOf(pending[t])

CloseHandle(h) ==
    /\ Calls("CloseHandle")
    /\ Mapped(h)
    /\ ~ WaitedOn(h)
    /\ handle_map' = [handle_map EXCEPT ![h] = NoObject]
    /\ objects' = Collected(handle_map', objects)
    /\ UNCHANGED <<scheduling, pending, next_handle, timing, sockets>>

\* _duplicate_handle_entry: both handles name one object.  Of a handle in no
\* map the duplicate is a dummy event that is always signaled.
DuplicateHandle(h, close_source) ==
    /\ Calls("DuplicateHandle")
    /\ next_handle <= program.handles
    /\ close_source => ~ WaitedOn(h)
    /\ handle_map' =
         [handle_map EXCEPT
            ![next_handle] = IF Mapped(h) THEN handle_map[h] ELSE next_handle,
            ![h] = IF close_source THEN NoObject ELSE @]
    /\ objects' = IF Mapped(h) THEN objects
                  ELSE [objects EXCEPT ![next_handle] = Event(TRUE, TRUE)]
    /\ next_handle' = next_handle + 1
    /\ UNCHANGED <<scheduling, pending, timing, sockets>>

-----------------------------------------------------------------------------
(* Kernel.tick: one poll of the registered sockets.                        *)

Registered(s) == sockets[s].events # {}

\* The FD_* events the poll delivers for socket s.
Delivered(s) ==
    LET r == sockets[s]
        read  == {"FD_READ" : x \in r.ready \cap {"read"}}
        write == IF "write" \notin r.ready THEN {}
                 ELSE IF "FD_CONNECT" \in r.events /\ ~ r.connectFired
                 THEN {"FD_CONNECT"} ELSE {"FD_WRITE"}
    IN  (read \cup write) \cap r.events

\* Mutant of KernelSignals: a completed connect is not reported.
KernelSignals_NoConnect ==
    {sockets[s].event : s \in {x \in Socket : Delivered(x) \ {"FD_CONNECT"} # {}}}

KernelSignals == {sockets[s].event : s \in {x \in Socket : Delivered(x) # {}}}

SocketsAfterTick ==
    [s \in Socket |-> IF "FD_CONNECT" \in Delivered(s)
                      THEN [sockets[s] EXCEPT !.connectFired = TRUE]
                      ELSE sockets[s]]

(***************************************************************************)
(* _resolve_next_idx at time clock, on the table th and the objects objs:  *)
(* pick, and if there is nobody, tick the kernel and pick again.  The      *)
(* possible results, with what they make of th, objs and the sockets.      *)
(***************************************************************************)
Resolve(th, objs, clock) ==
    LET woken  == WakeExpired(th, clock)
        ticked == UnblockAll(woken, Wakes(KernelSignals))
    IN  IF NextReady(woken, current) # {NoThread}
        THEN {[next |-> n, threads |-> woken, objects |-> objs, sockets |-> sockets] :
                 n \in NextReady(woken, current)}
        ELSE {[next |-> n, threads |-> ticked, objects |-> Signal(objs, KernelSignals),
               sockets |-> SocketsAfterTick] : n \in NextReady(ticked, current)}

\* The switch to the thread picked.
SwitchTo(r) ==
    /\ current' = RunsNext(current, r.next)
    /\ objects' = r.objects
    /\ sockets' = r.sockets

-----------------------------------------------------------------------------
(* Waiting.                                                                *)

\* Mutant of IsFree: a mutex entered once passes for free.
IsFree_ByCount(h) == \/ ~ Mapped(h)
                     \/ IsEvent(h) /\ Object(h).signaled
                     \/ IsMutex(h) /\ Object(h).count <= 1

IsFree(h) == \/ ~ Mapped(h)                       \* treated as signaled
             \/ IsEvent(h) /\ Object(h).signaled
             \/ IsMutex(h) /\ Object(h).owner = NoThread

\* A mutex is entered again by its owner only through WaitForSingleObject.
Recursive(t, call) ==
    /\ call.kind = "single"
    /\ IsMutex(call.hs[1])
    /\ Object(call.hs[1]).owner = t

Satisfiable(t, call) ==
    CASE call.kind = "single" -> IsFree(call.hs[1]) \/ Recursive(t, call)
      [] call.kind = "any"    -> \E i \in DOMAIN call.hs : IsFree(call.hs[i])
      [] call.kind = "all"    -> \A i \in DOMAIN call.hs : IsFree(call.hs[i])
      [] OTHER                -> FALSE

\* The handles a satisfied wait takes: one, the first that is free, or all.
Taken(call) ==
    IF call.kind = "any"
    THEN {call.hs[i] : i \in {j \in DOMAIN call.hs :
             /\ IsFree(call.hs[j])
             /\ \A k \in DOMAIN call.hs : k < j => ~ IsFree(call.hs[k])}}
    ELSE HandlesOf(call)

\* An auto-reset event is reset, a mutex gets its owner.
Acquired(obj, t) ==
    IF obj.kind = "event"
    THEN Event(obj.manual, obj.manual /\ obj.signaled)
    ELSE Mutex(obj.named, t, IF obj.owner = t THEN obj.count + 1 ELSE 1)

Satisfy(call) ==
    /\ Satisfiable(current, call)
    /\ Recursive(current, call) => Object(call.hs[1]).count < MaxCount
    /\ objects' = [id \in Handle |->
                      IF \E h \in Taken(call) : Mapped(h) /\ handle_map[h] = id
                      THEN Acquired(objects[id], current) ELSE objects[id]]
    /\ pending' = [pending EXCEPT ![current] = NoCall]
    /\ UNCHANGED <<scheduling, table, timing, sockets>>

\* wait_timed_out is set: clear it and return WAIT_TIMEOUT.
TimeOut(call) ==
    /\ ~ Satisfiable(current, call)
    /\ threads[current].timedOut
    /\ threads' = [threads EXCEPT ![current].timedOut = FALSE]
    /\ pending' = [pending EXCEPT ![current] = NoCall]
    /\ UNCHANGED <<current, now, halted, table, objects, timing, sockets>>

\* None for INFINITE.
Deadline(call) == IF call.timeout = Infinite THEN Never ELSE now + call.timeout

\* Mutant of Rewinds: the thread goes on behind the call when it wakes.
Rewinds_Not(call) == UNCHANGED pending

\* retry_eip is the call itself.
Rewinds(call) == pending' = [pending EXCEPT ![current] = call]

(***************************************************************************)
(* block_current_on_handles, with a deadline counted from this evaluation. *)
(* With no other thread to run the caller stays ready; the core may then   *)
(* find that its deadline has passed already.                              *)
(***************************************************************************)
Block(call) ==
    /\ ~ Satisfiable(current, call)
    /\ ~ threads[current].timedOut
    /\ Rewinds(call)
    /\ \E r \in Resolve(threads, objects, now) :
          /\ SwitchTo(r)
          /\ \/ threads' = CompleteBlock(r.threads, current, HandlesOf(call),
                                         Deadline(call), r.next)
             \/ /\ r.next = NoThread
                /\ Deadline(call) = now
                /\ threads' = [r.threads EXCEPT ![current].timedOut = TRUE]
    /\ UNCHANGED <<now, halted, table, timing>>

Evaluate(call) == Satisfy(call) \/ TimeOut(call) \/ Block(call)

\* A call the guest makes ...
WaitForSingleObject(h, timeout) ==
    /\ Calls("WaitForSingleObject")
    /\ Evaluate([kind |-> "single", hs |-> <<h>>, timeout |-> timeout])

WaitForMultipleObjects(hs, all, timeout) ==
    /\ Calls("WaitForMultipleObjects")
    /\ Evaluate([kind |-> IF all THEN "all" ELSE "any", hs |-> hs, timeout |-> timeout])

\* ... and one it comes back to.
RetryWait ==
    /\ ~ halted
    /\ pending[current] # NoCall
    /\ Evaluate(pending[current])

-----------------------------------------------------------------------------
(* Timers and the clock.                                                   *)

\* timeSetEvent with TIME_CALLBACK_EVENT_SET: the timer signals an event.
timeSetEvent(h, delay, periodic) ==
    /\ Calls("timeSetEvent")
    /\ next_timer <= MaxTimers
    /\ LET d == IF delay = 0 THEN 1 ELSE delay
       IN  timers' = [timers EXCEPT ![next_timer] =
                        [due |-> now + d, period |-> IF periodic THEN d ELSE 0,
                         handle |-> h]]
    /\ next_timer' = next_timer + 1
    /\ UNCHANGED <<scheduling, pending, table, objects, sockets>>

timeKillEvent(i) ==
    /\ Calls("timeKillEvent")
    /\ timers[i] # NoTimer
    /\ timers' = [timers EXCEPT ![i] = NoTimer]
    /\ UNCHANGED <<scheduling, pending, table, objects, next_timer, sockets>>

\* Mutant of Due: a timer is due at one instant only.
Due_Exact(clock) == {i \in Timer : timers[i] # NoTimer /\ timers[i].due = clock}

\* _fire_due_timers and _run_timer_heartbeat.  A periodic timer fires once,
\* however many of its periods have gone by, and may still be due afterwards.
Due(clock)          == {i \in Timer : timers[i] # NoTimer /\ timers[i].due <= clock}
TimerSignals(clock) == {timers[i].handle : i \in Due(clock)}

TimersAfter(clock) ==
    [i \in Timer |->
        IF i \notin Due(clock) THEN timers[i]
        ELSE IF timers[i].period = 0 THEN NoTimer
        ELSE [timers[i] EXCEPT !.due = @ + timers[i].period]]

\* Mutant of Heartbeat: the scheduler is not told of the events of the timers.
Heartbeat_Silent ==
    /\ ~ halted
    /\ now' \in IF now < program.time THEN now + 1 .. program.time ELSE {now}
    /\ objects' = Signal(objects, TimerSignals(now'))
    /\ timers' = TimersAfter(now')
    /\ UNCHANGED <<threads, current, halted, pending, table, next_timer, sockets>>

\* The heartbeat of the main loop: the clock advances by the time that has
\* passed, at least 1, and the timers that came due on the way fire.
\* (Time stands still at program.time, but the heartbeat goes on.)
Heartbeat ==
    /\ ~ halted
    /\ now' \in IF now < program.time THEN now + 1 .. program.time ELSE {now}
    /\ threads' = UnblockAll(threads, Wakes(TimerSignals(now')))
    /\ objects' = Signal(objects, TimerSignals(now'))
    /\ timers' = TimersAfter(now')
    /\ UNCHANGED <<current, halted, pending, table, next_timer, sockets>>

\* Sleep moves the clock itself, fires the timers that come due and then
\* sleeps, for the same time again if there is another thread to run.
Sleep(ms) ==
    /\ Calls("Sleep")
    /\ now + ms <= program.time
    /\ now' = now + ms
    /\ timers' = TimersAfter(now')
    /\ \E r \in Resolve(UnblockAll(threads, Wakes(TimerSignals(now'))),
                        Signal(objects, TimerSignals(now')), now') :
          /\ SwitchTo(r)
          /\ threads' = CompleteSleep(r.threads, current, now' + ms, r.next)
    /\ UNCHANGED <<halted, pending, table, next_timer>>

-----------------------------------------------------------------------------
(* Threads.                                                                *)

CreateThread(susp) ==
    /\ Calls("CreateThread")
    /\ \E t \in FirstFree(threads) :
          t < program.threads /\ threads' = AddThread(threads, t, susp)
    /\ UNCHANGED <<current, now, halted, pending, table, objects, timing, sockets>>

\* Only the threads of pending_threads, which the main thread is not.
ResumeThread(t) ==
    /\ Calls("ResumeThread")
    /\ t # 0
    /\ Live(threads, t)
    /\ threads' = [threads EXCEPT ![t].suspended = FALSE]
    /\ UNCHANGED <<current, now, halted, pending, table, objects, timing, sockets>>

SuspendThread(t) ==
    /\ Calls("SuspendThread")
    /\ t # 0
    /\ Live(threads, t)
    /\ threads' = [threads EXCEPT ![t].suspended = TRUE]
    /\ UNCHANGED <<current, now, halted, pending, table, objects, timing, sockets>>

\* mark_current_dead.  The mutexes of the thread stay as they are.
ExitThread ==
    /\ Calls("ExitThread")
    /\ \E r \in Resolve(threads, objects, now) :
          /\ SwitchTo(r)
          /\ threads' = Kill(r.threads, current)
          /\ halted' = (r.next = NoThread)
    /\ UNCHANGED <<now, pending, table, timing>>

\* Of another thread; of itself it is ExitThread.
TerminateThread(t) ==
    /\ Calls("TerminateThread")
    /\ t # current
    /\ Live(threads, t)
    /\ threads' = Kill(threads, t)
    /\ pending' = [pending EXCEPT ![t] = NoCall]
    /\ UNCHANGED <<current, now, halted, table, objects, timing, sockets>>

\* Mutant of Preempt: the threads whose time has come are not woken.
Preempt_WakesNobody ==
    /\ ~ halted
    /\ \E next \in NextReady(threads, current) : current' = RunsNext(current, next)
    /\ UNCHANGED <<threads, now, halted, pending, table, objects, timing, sockets>>

\* preempt_slice, between two batches of instructions.
Preempt ==
    /\ ~ halted
    /\ \E next \in NextReady(WakeExpired(threads, now), current) :
          current' = RunsNext(current, next)
    /\ threads' = WakeExpired(threads, now)
    /\ UNCHANGED <<now, halted, pending, table, objects, timing, sockets>>

-----------------------------------------------------------------------------
(* Sockets.                                                                *)

\* WSAEventSelect; with no events it removes the registration.
WSAEventSelect(s, h, events) ==
    /\ Calls("WSAEventSelect")
    /\ sockets' = [sockets EXCEPT ![s].event = IF events = {} THEN NoObject ELSE h,
                                  ![s].events = events]
    /\ UNCHANGED <<scheduling, pending, table, objects, timing>>

\* closesocket: unregister_socket; a new socket takes the place of s.
closesocket(s) ==
    /\ Calls("closesocket")
    /\ sockets' = [sockets EXCEPT ![s] = [event |-> NoObject, events |-> {},
                                          ready |-> {}, connectFired |-> FALSE]]
    /\ UNCHANGED <<scheduling, pending, table, objects, timing>>

\* The network: the socket becomes readable or writable, or was read empty.
Network(s, ready) ==
    /\ "WSAEventSelect" \in program.calls
    /\ sockets[s].ready # ready
    /\ sockets' = [sockets EXCEPT ![s].ready = ready]
    /\ UNCHANGED <<scheduling, pending, table, objects, timing>>

-----------------------------------------------------------------------------
Known == Untracked .. next_handle - 1     \* the handles the guest has seen

Guest ==
    \/ \E named, owned \in BOOLEAN : CreateMutexA(named, owned)
    \/ \E manual, initial \in BOOLEAN : CreateEventA(manual, initial)
    \/ \E h \in Known : \/ SetEvent(h) \/ ResetEvent(h) \/ ReleaseMutex(h)
                        \/ CloseHandle(h)
    \/ \E h \in Known, close_source \in BOOLEAN : DuplicateHandle(h, close_source)
    \/ \E h \in Known, timeout \in program.timeouts \cup {Infinite} :
          WaitForSingleObject(h, timeout)
    \/ \E h1, h2 \in Known, all \in BOOLEAN, timeout \in program.timeouts \cup {Infinite} :
          h1 < h2 /\ WaitForMultipleObjects(<<h1, h2>>, all, timeout)
    \/ \E h \in Known, delay \in program.timeouts, periodic \in BOOLEAN :
          timeSetEvent(h, delay, periodic)
    \/ \E i \in Timer : timeKillEvent(i)
    \/ \E ms \in program.timeouts : Sleep(ms)
    \/ \E susp \in BOOLEAN : CreateThread(susp)
    \/ \E t \in Thread : ResumeThread(t) \/ SuspendThread(t) \/ TerminateThread(t)
    \/ ExitThread
    \/ \E s \in Socket, h \in Known, events \in SUBSET NetEvent :
          WSAEventSelect(s, h, events)
    \/ \E s \in Socket : closesocket(s)

Next ==
    /\ UNCHANGED program
    /\ \/ Guest
       \/ RetryWait
       \/ Preempt
       \/ Heartbeat
       \/ \E s \in Socket, ready \in SUBSET {"read", "write"} : Network(s, ready)

Spec == Init /\ [][Next]_vars

(***************************************************************************)
(* The main loop alternates a bounded batch of instructions, preempt_slice *)
(* and, every few batches, the heartbeat; a thread in a wait executes the  *)
(* call again when it runs.                                                *)
(***************************************************************************)
Fairness ==
    /\ WF_vars(Preempt /\ UNCHANGED program)
    /\ WF_vars(Heartbeat /\ UNCHANGED program)
    /\ WF_vars(RetryWait /\ UNCHANGED program)

FairSpec == Spec /\ Fairness

-----------------------------------------------------------------------------
(* Properties.                                                             *)

\* No wakeup is lost: a thread is blocked only while its wait could not be
\* satisfied.  SetEvent, ReleaseMutex and timers do both halves, the state and
\* the wakeup, whoever runs in between (tew/kernel/kernel.py:56-57,
\* tew/api/kernel32_io.py:695-756).
NoMissedSignal ==
    \A t \in Thread : threads[t].status = "blocked" => ~ Satisfiable(t, pending[t])

\* The same of the programs that leave sockets to themselves, to which the
\* kernel's poll never speaks (WSAEventSelect; see the run lost_wakeup).
SignalsReach == "WSAEventSelect" \notin program.calls => NoMissedSignal

\* The scheduler blocks a thread on exactly the handles of the call the thread
\* will evaluate again, and a thread that is not in a wait is never blocked
\* (tew/api/kernel32_io.py:535-543, 614-625).
BlockedInItsCall ==
    \A t \in Thread : threads[t].status = "blocked" =>
        /\ pending[t] # NoCall
        /\ threads[t].waits = HandlesOf(pending[t])
        /\ (threads[t].deadline = Never) <=> (pending[t].timeout = Infinite)

\* A mutex never goes from one thread to another without having been free
\* (tew/api/kernel32_io.py:507-527, 572-606).
MutexNotStolen ==
    [][ \A id \in Handle :
          (objects[id].owner # NoThread /\ objects'[id].owner # NoThread)
            => objects'[id].owner = objects[id].owner ]_vars

\* WAIT_TIMEOUT is the answer of a wait that has been blocked: a thread that
\* enters a wait does not find the time already over
\* (tew/api/kernel32_io.py:528-534).
TimeoutIsOwn ==
    [][ \A t \in Thread :
          (Live(threads', t) /\ threads[t].timedOut /\ ~ threads'[t].timedOut)
            => pending[t] # NoCall ]_vars

\* FD_CONNECT is delivered once, so it must not be dropped: with its delivery
\* the event is signaled, and every thread that was blocked on it is awake
\* (tew/kernel/kernel.py:153-155, 177-182).
ConnectIsNotLost ==
    [][ \A s \in Socket :
          (~ sockets[s].connectFired /\ sockets'[s].connectFired) =>
             LET h == sockets[s].event
             IN  IsEvent(h) =>
                   /\ objects'[handle_map[h]].signaled
                   /\ \A t \in Thread \ {current} :
                         threads'[t].status = "blocked" => h \notin threads'[t].waits ]_vars

\* A wait with a timeout comes back to its thread, and a sleep ends
\* (tew/hardware/scheduler_zig.py:367-402).
TimedWaitEnds ==
    \A t \in Thread :
        (threads[t].status \in {"blocked", "sleeping"} /\ threads[t].deadline \in 0 .. program.time)
          ~> (threads[t].status \notin {"blocked", "sleeping"} \/ halted)

\* Thread t is blocked on the event that timer i is going to signal.
AwaitsTimer(t, i) ==
    /\ threads[t].status = "blocked"
    /\ timers[i] # NoTimer
    /\ timers[i].due <= program.time
    /\ timers[i].handle \in threads[t].waits
    /\ IsEvent(timers[i].handle)

\* A thread that is blocked on the event of a timer wakes, however far one
\* heartbeat or one Sleep moves the clock past the instant the timer was set
\* for, and whoever suspends, resumes or ends threads meanwhile; unless the
\* timer may be killed (run_exe.py:773-797, tew/api/kernel32_system.py:30-52).
TimerWakes ==
    \A t \in Thread, i \in Timer :
        ("timeKillEvent" \notin program.calls /\ AwaitsTimer(t, i))
          ~> (threads[t].status # "blocked" \/ halted)
=============================================================================
