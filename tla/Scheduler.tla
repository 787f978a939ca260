------------------------------ MODULE Scheduler ------------------------------
(***************************************************************************)
(* ZigScheduler (tew/hardware/scheduler_zig.py) with the nested guest      *)
(* calls of _invoke_emulated_proc (tew/api/user32_handlers.py) and the     *)
(* main loop of run_exe.py.                                                *)
(*                                                                         *)
(* There is one CPU.  Its live registers hold the context of some thread;  *)
(* a switch stores them in the outgoing thread's table entry and loads the *)
(* incoming one's.  A handler may run guest code to completion inside      *)
(* itself: it saves the live registers in a Python frame, runs, and puts   *)
(* them back.  A context is identified by the thread whose program it is.  *)
(***************************************************************************)
EXTENDS SchedulerCore, Sequences, SequencesExt

CONSTANTS
    MaxFrames,   \* bound on nested calls in progress
    Sleeps,      \* the durations the guest sleeps for
    CallKinds,   \* subset of {"guarded", "unguarded"}: the nested calls made
    DieInCall    \* whether a thread may die inside a guarded nested call

ASSUME MaxFramesAssumption == MaxFrames \in Nat
ASSUME SleepsAssumption    == Sleeps \subseteq Nat
ASSUME KindsAssumption     == CallKinds \subseteq {"guarded", "unguarded"}
ASSUME DieAssumption       == DieInCall \in BOOLEAN

VARIABLES
    threads,   \* the thread table
    current,   \* current_idx
    now,       \* virtual_ticks_ms
    cpu,       \* "running", "halted" or "fatal" (fatal_halt)
    regs,      \* whose context is in the live CPU registers
    slot,      \* whose context is stored in each thread's table entry
    frames     \* nested calls in progress, innermost last

vars == <<threads, current, now, cpu, regs, slot, frames>>

Frame == [starter : Thread, guarded : BOOLEAN, saved : Thread]

\* Mutant of Reentrant: only a call within a call raises the guard.
Reentrant_Nested == \E i \in DOMAIN frames : i > 1 /\ frames[i].guarded

\* reentrant_depth: only calls that were passed the scheduler count.
Reentrant == \E i \in DOMAIN frames : frames[i].guarded

TypeOK ==
    /\ threads \in [Thread -> ThreadRecord]
    /\ current \in Thread
    /\ now \in 0 .. MaxTime
    /\ cpu \in {"running", "halted", "fatal"}
    /\ regs \in Thread
    /\ slot \in [Thread -> Thread]
    /\ frames \in Seq(Frame)

Init ==
    /\ threads = MainThreadOnly
    /\ current = 0
    /\ now = 0
    /\ cpu = "running"
    /\ regs = 0
    /\ slot = [t \in Thread |-> t]
    /\ frames = << >>

-----------------------------------------------------------------------------
(* Every operation starts in guest code of the current thread.             *)

\* The native switch: store the live registers, load the next thread's.
SwitchTo(next) ==
    /\ current' = RunsNext(current, next)
    /\ IF next = NoThread
       THEN UNCHANGED <<regs, slot>>
       ELSE /\ slot' = [slot EXCEPT ![current] = regs]
            /\ regs' = slot[next]

(***************************************************************************)
(* _resolve_next_idx.  If the first pick finds nothing, Kernel.tick()      *)
(* signals the handles sig of finished I/O and the pick is repeated.  The  *)
(* caller is still "ready" all along.  Resolved(th, next) says that a pick *)
(* started now ends with table th and result next.                         *)
(***************************************************************************)
FirstPick == WakeExpired(threads, now)

Resolved(th, next) ==
    \/ /\ NextReady(FirstPick, current) # {NoThread}
       /\ th = FirstPick
       /\ next \in NextReady(FirstPick, current)
    \/ /\ NextReady(FirstPick, current) = {NoThread}
       /\ \E sig \in SUBSET Handle : th = UnblockAll(FirstPick, sig)
       /\ next \in NextReady(th, current)

PickTables == {FirstPick} \cup {UnblockAll(FirstPick, sig) : sig \in SUBSET Handle}

CreateThread(susp) ==
    /\ cpu = "running"
    /\ \E t \in FirstFree(threads) : threads' = AddThread(threads, t, susp)
    /\ UNCHANGED <<current, now, cpu, regs, slot, frames>>

\* block_current_on_handles: refused (the thread retries) in a guarded call.
BlockCurrent(hs, deadline) ==
    /\ cpu = "running"
    /\ IF Reentrant
       THEN UNCHANGED <<threads, current, regs, slot>>
       ELSE \E th \in PickTables : \E next \in NextReady(th, current) :
              /\ Resolved(th, next)
              /\ threads' = CompleteBlock(th, current, hs, deadline, next)
              /\ SwitchTo(next)
    /\ UNCHANGED <<now, cpu, frames>>

SleepCurrent(ms) ==
    /\ cpu = "running"
    /\ IF Reentrant
       THEN UNCHANGED <<threads, current, regs, slot>>
       ELSE \E th \in PickTables : \E next \in NextReady(th, current) :
              /\ Resolved(th, next)
              /\ threads' = CompleteSleep(th, current, now + ms, next)
              /\ SwitchTo(next)
    /\ UNCHANGED <<now, cpu, frames>>

\* mark_current_dead ignores the reentrancy guard; the last thread halts.
MarkCurrentDead ==
    /\ cpu = "running"
    /\ Reentrant => DieInCall
    /\ \E th \in PickTables : \E next \in NextReady(th, current) :
          /\ Resolved(th, next)
          /\ threads' = Kill(th, current)
          /\ SwitchTo(next)
          /\ cpu' = IF next = NoThread THEN "halted" ELSE "running"
    /\ UNCHANGED <<now, frames>>

\* terminate_thread of another thread; of the current one it is a death.
TerminateThread(t) ==
    \/ /\ t = current
       /\ MarkCurrentDead
    \/ /\ cpu = "running"
       /\ t # current
       /\ Live(threads, t)
       /\ threads' = Kill(threads, t)
       /\ UNCHANGED <<current, now, cpu, regs, slot, frames>>

UnblockHandle(h) ==
    /\ cpu = "running"
    /\ threads' = Unblock(threads, h)
    /\ UNCHANGED <<current, now, cpu, regs, slot, frames>>

\* set_suspended: also of the current thread, which runs on until a switch.
SetSuspended(t, val) ==
    /\ cpu = "running"
    /\ Live(threads, t)
    /\ threads' = [threads EXCEPT ![t].suspended = val]
    /\ UNCHANGED <<current, now, cpu, regs, slot, frames>>

\* A handler that cannot go on: FatalHaltError leaves every nested call.
FatalHalt ==
    /\ cpu = "running"
    /\ cpu' = "fatal"
    /\ frames' = << >>
    /\ UNCHANGED <<threads, current, now, regs, slot>>

-----------------------------------------------------------------------------
(* _invoke_emulated_proc: save_state, run guest code, restore_state.       *)

BeginInvoke(kind) ==
    /\ cpu = "running"
    /\ Len(frames) < MaxFrames
    /\ frames' = Append(frames, [starter |-> current,
                                 guarded |-> kind = "guarded",
                                 saved   |-> regs])
    /\ UNCHANGED <<threads, current, now, cpu, regs, slot>>

(***************************************************************************)
(* The call ends at its sentinel, when the starter's death is noticed, or  *)
(* when its step budget is used up, which can be at any moment.  In every  *)
(* case restore_state(saved) follows, and halted is cleared.               *)
(***************************************************************************)
EndInvoke ==
    /\ frames # << >>
    /\ cpu # "fatal"
    /\ regs' = Last(frames).saved
    /\ frames' = Front(frames)
    /\ cpu' = "running"
    /\ UNCHANGED <<threads, current, now, slot>>

-----------------------------------------------------------------------------
(* The main loop of run_exe.py, between two batches of instructions.       *)

\* preempt_slice does not tick the kernel.
Preempt ==
    /\ cpu = "running"
    /\ frames = << >>
    /\ \E next \in NextReady(FirstPick, current) :
          /\ threads' = FirstPick
          /\ SwitchTo(next)
    /\ UNCHANGED <<now, cpu, frames>>

\* scheduler.tick from the heartbeat, or from a Sleep of the guest.  Nothing
\* fires here, so that a longer advance is several steps in a row.
Tick ==
    /\ cpu = "running"
    /\ now < MaxTime
    /\ now' = now + 1
    /\ UNCHANGED <<threads, current, cpu, regs, slot, frames>>

Guest ==
    \/ \E susp \in BOOLEAN : CreateThread(susp)
    \/ \E hs \in (SUBSET Handle) \ {{}}, d \in {Never} \cup 0 .. MaxTime :
          (d = Never \/ d >= now) /\ BlockCurrent(hs, d)
    \/ \E ms \in Sleeps : SleepCurrent(ms)
    \/ MarkCurrentDead
    \/ \E t \in Thread : TerminateThread(t)
    \/ \E h \in Handle : UnblockHandle(h)
    \/ \E t \in Thread, val \in BOOLEAN : SetSuspended(t, val)
    \/ \E kind \in CallKinds : BeginInvoke(kind)
    \/ FatalHalt

Next == Guest \/ EndInvoke \/ Preempt \/ Tick

Spec == Init /\ [][Next]_vars

(***************************************************************************)
(* A nested call has a step budget and the calls nested in it are single   *)
(* instructions of it, so that a call at any depth ends after finitely     *)
(* many inner ones.  For the same reason the main loop, whose batches have *)
(* a bounded number of instructions, comes to preempt_slice again and      *)
(* again, however often the guest makes nested calls in between.           *)
(***************************************************************************)
Fairness ==
    /\ \A d \in 1 .. MaxFrames : SF_vars(EndInvoke /\ Len(frames) = d)
    /\ SF_vars(Preempt)

FairSpec == Spec /\ Fairness
-----------------------------------------------------------------------------
(* Properties.                                                             *)

\* The CPU always has a thread to run: while it runs, the current thread is
\* ready.  A block, sleep or death that found no other thread must leave it so
\* (tew/hardware/scheduler_zig.py:381-431).
CurrentIsReady == cpu = "running" => threads[current].status = "ready"

\* The live registers are those of the current thread and every other thread
\* that can still run finds its own context when it is switched to, however
\* nested calls, blocks and preemptions interleave
\* (tew/api/user32_handlers.py:127-155, 248-249).
ContextsMatch ==
    /\ regs = current
    /\ \A t \in Thread : (t # current /\ Live(threads, t)) => slot[t] = t

\* A runnable thread gets the CPU, whatever the others do, unless it stops
\* being runnable or the CPU stops (run_exe.py:1073).
RunnableThreadRuns ==
    \A t \in Thread :
        Runnable(threads, t) ~> (\/ current = t
                                \/ ~ Runnable(threads, t)
                                \/ cpu # "running")
=============================================================================
