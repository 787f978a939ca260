---------------------------- MODULE Initializers ----------------------------
(* _initterm and _initterm_e of msvcrt: a loop of Python that calls the C++  *)
(* static initializers of a table, stepping the CPU until it halts at a       *)
(* sentinel of its own. An initializer that blocks lets the scheduler load   *)
(* another thread inside that loop (nothing like enter_reentrant_call guards  *)
(* it), and the other thread may begin a loop of its own on top.             *)
(* The threads call no more than these two functions: everything else they   *)
(* do is a wait.                                                             *)
EXTENDS Naturals, Sequences

CONSTANTS
    InitThread,   \* threads of the guest
    Table,        \* the initializers of a table: TRUE is a function, FALSE a null slot
    Callers,      \* the sets of threads that load a DLL
    Waiting       \* the sets of threads whose initializers wait

ASSUME InitializersAssumption ==
    /\ Table \in Seq(BOOLEAN)
    /\ \A c \in Callers : c \subseteq InitThread

VARIABLES
    load,      \* who loads and who waits: [callers, waiting], what the guest is like
    loaded,    \* the thread whose registers are in the CPU
    asleep,    \* the threads in a wait
    dead,      \* the threads marked dead
    loops,     \* the loops of Python, innermost last: [thread, slot]
    inside,    \* thread -> its code is in an initializer
    ran,       \* thread -> the slots of its table that were run to their end by it
    called,    \* thread -> what came of its call: "not yet", "pending", "returned" or "error"
    given_up     \* the CPU halted for good

initVars == <<load, loaded, asleep, dead, loops, inside, ran, called, given_up>>

Slots == DOMAIN Table

InitializersInit ==
    /\ load \in [callers : Callers, waiting : Waiting]
    /\ loaded \in InitThread /\ asleep = {} /\ dead = {}
    /\ loops = <<>>
    /\ inside = [t \in InitThread |-> FALSE]
    /\ ran = [t \in InitThread |-> <<>>]
    /\ called = [t \in InitThread |-> "not yet"]
    /\ given_up = FALSE

Innermost == loops[Len(loops)]
OutOfLoop == SubSeq(loops, 1, Len(loops) - 1)

(* The next slot after i that holds a function, or the end of the table.     *)
NextSlot(i) ==
    CHOOSE j \in Slots \cup {Len(Table) + 1} :
        /\ j > i /\ (j \in Slots => Table[j])
        /\ \A k \in Slots : (i < k /\ k < j) => ~Table[k]

(* t's loop goes on at slot i: cpu.eip is set, on whatever thread is loaded.  *)
CallSlot(t, i, frames) ==
    /\ loops' = IF i \in Slots THEN Append(frames, [thread |-> t, slot |-> i]) ELSE frames
    /\ inside' = [inside EXCEPT ![loaded] = i \in Slots]
    /\ called' = [called EXCEPT ![t] = IF i \in Slots THEN "pending" ELSE "returned"]

(* _initterm, called by the thread that is loaded. (Bound: once.)            *)
Initterm ==
    /\ ~given_up /\ loaded \in load.callers
    /\ called[loaded] = "not yet" /\ ~inside[loaded]
    /\ CallSlot(loaded, NextSlot(0), loops)
    /\ UNCHANGED <<load, loaded, asleep, dead, ran, given_up>>

(* Mutant: the initializer returns to THREAD_SENTINEL, whose handler ends    *)
(* the thread.                                                               *)
Ended_Always == dead \cup {loaded}

(* The threads that are dead once an initializer has returned.               *)
Ended == dead

(* The initializer returns and the CPU halts at the sentinel: the innermost  *)
(* loop takes it for its own and goes on.                                    *)
InitializerReturns ==
    /\ ~given_up /\ inside[loaded] /\ loops # <<>>
    /\ dead' = Ended
    /\ ran' = [ran EXCEPT ![Innermost.thread] = Append(@, [slot |-> Innermost.slot, by |-> loaded])]
    /\ CallSlot(Innermost.thread, NextSlot(Innermost.slot), OutOfLoop)
    /\ UNCHANGED <<load, loaded, asleep, given_up>>

(* One of _initterm_e returns an error: the rest of the table is left.       *)
InitializerFails ==
    /\ ~given_up /\ inside[loaded] /\ loops # <<>>
    /\ ran' = [ran EXCEPT ![Innermost.thread] = Append(@, [slot |-> Innermost.slot, by |-> loaded])]
    /\ loops' = OutOfLoop
    /\ inside' = [inside EXCEPT ![loaded] = FALSE]
    /\ called' = [called EXCEPT ![Innermost.thread] = "error"]
    /\ UNCHANGED <<load, loaded, asleep, dead, given_up>>

(* A wait: the scheduler loads another thread that is ready.                 *)
Wait ==
    /\ ~given_up /\ (inside[loaded] => loaded \in load.waiting)
    /\ \E t \in InitThread \ (asleep \cup dead \cup {loaded}) :
         loaded' = t /\ asleep' = asleep \cup {loaded}
    /\ UNCHANGED <<load, dead, loops, inside, ran, called, given_up>>

(* What a thread waits for comes: it is ready.                               *)
Wake(t) ==
    /\ ~given_up /\ t \in asleep
    /\ asleep' = asleep \ {t}
    /\ UNCHANGED <<load, loaded, dead, loops, inside, ran, called, given_up>>

(* HLT anywhere else, a fault, or _INITTERM_STEP_LIMIT steps of one slot,    *)
(* those of the threads it waits for among them: the emulation halts.        *)
HaltsInside ==
    /\ ~given_up /\ loops # <<>> /\ given_up' = TRUE
    /\ UNCHANGED <<load, loaded, asleep, dead, loops, inside, ran, called>>

InitializersNext ==
    \/ Initterm \/ InitializerReturns \/ InitializerFails \/ Wait \/ HaltsInside
    \/ \E t \in InitThread : Wake(t)

InitializersSpec == InitializersInit /\ [][InitializersNext]_initVars

-----------------------------------------------------------------------------
(* The guest's loads stay apart: one thread loads DLLs at a time, or the     *)
(* initializers wait for nothing.                                            *)
LoadsApart == load.waiting = {} \/ \A s, t \in load.callers : s = t

(* Static initializers: each function of the table is run once, in the order *)
(* of the table and by the thread that loads the DLL, though it may wait and *)
(* others run meanwhile; nothing is left out of a call that returns; and the *)
(* thread lives on. (Two threads that load DLLs whose initializers wait get  *)
(* each other's returns.)                                                    *)
InitializersInOrder ==
    LoadsApart =>
      \A t \in InitThread :
        /\ t \notin dead
        /\ \A i \in DOMAIN ran[t] :
             /\ ran[t][i].by = t
             /\ ran[t][i].slot = NextSlot(IF i = 1 THEN 0 ELSE ran[t][i - 1].slot)
        /\ called[t] = "returned" =>
             NextSlot(IF ran[t] = <<>> THEN 0 ELSE ran[t][Len(ran[t])].slot) = Len(Table) + 1
=============================================================================
