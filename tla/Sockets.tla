------------------------------ MODULE Sockets ------------------------------
(***************************************************************************)
(* The socket calls of the guest (tew/api/wsock32_handlers.py) and the     *)
(* poll of registered sockets (tew/kernel/kernel.py).                      *)
(*                                                                         *)
(* A call that finds nothing ready puts its thread to sleep for a moment   *)
(* and runs again from the start; other threads act in between.  A thread  *)
(* is here its call, and how long it still sleeps; a heartbeat is a step   *)
(* in which everything that counts time counts one.                        *)
(***************************************************************************)
EXTENDS Integers, FiniteSets, FiniteSetsExt, Functions

CONSTANTS
    Caller,
    Handle,      \* socket handles, in the order they are given: 1..n
    Yield,       \* how long a call that found nothing ready sleeps
    Timeouts,    \* timeouts of select; Forever is none
    MaxData,     \* bound: what has arrived and is not yet read
    Programs     \* each the set of calls the guest makes

Forever == 99

VARIABLES
    socket_map,  \* [handle |-> SocketEntry]
    next_handle, \* _next_handle
    async_select, event_select,   \* [handle |-> set of FD_ events]
    connect_fired,
    thread,      \* what each thread is doing
    select_wait, \* _select_wait_since_ms, as the time since then
    program

sockVars == <<socket_map, next_handle, async_select, event_select, connect_fired,
          thread, select_wait, program>>
kernelVars == <<async_select, event_select, connect_fired>>
waitVars   == <<thread, select_wait>>

FD == {"FD_READ", "FD_WRITE", "FD_CONNECT", "FD_CLOSE"}
Longest == Max({Yield} \cup (Timeouts \ {Forever})) + Yield

\* sock: the host socket, "none" until connect or sendto makes one.
SocketEntry == [sock : {"none", "connecting", "open", "ended"},
                inbox : 0..MaxData, nonblocking : BOOLEAN,
                told : BOOLEAN]   \* not code: FD_CONNECT of its last connect was reported

Idle == [call |-> "none", rd |-> {}, wr |-> {}, timeout |-> 0, sleep |-> 0, spent |-> 0]

Call == [call : {"none", "recv", "select"}, rd : SUBSET Handle, wr : SUBSET Handle,
         timeout : Timeouts \cup {0},
         sleep : 0..Yield,       \* until the call runs again
         spent : 0..Longest]     \* not code: since the call was made

SockTypeOK ==
    /\ next_handle \in 1..(Cardinality(Handle) + 1)
    /\ DOMAIN socket_map \subseteq Handle /\ Range(socket_map) \subseteq SocketEntry
    /\ {DOMAIN async_select, DOMAIN event_select, connect_fired} \subseteq SUBSET Handle
    /\ Range(async_select) \cup Range(event_select) \subseteq SUBSET FD
    /\ thread \in [Caller -> Call]
    /\ DOMAIN select_wait \subseteq Caller /\ Range(select_wait) \subseteq 0..Longest
    /\ program \in Programs

NoEntries == [x \in {} |-> 0]

SockInit ==
    /\ socket_map = NoEntries /\ next_handle = 1
    /\ async_select = NoEntries /\ event_select = NoEntries
    /\ connect_fired = {}
    /\ thread = [t \in Caller |-> Idle]
    /\ select_wait = NoEntries
    /\ program \in Programs

-----------------------------------------------------------------------------
Put(f, k, v) == [x \in DOMAIN f \cup {k} |-> IF x = k THEN v ELSE f[x]]
Without(f, k) == Restrict(f, DOMAIN f \ {k})

Has(h) == h \in DOMAIN socket_map /\ socket_map[h].sock # "none"

\* What select.select says of a host socket: a refused connection, or one the
\* other side closed, is ready for both.
Readable(h) == socket_map[h].sock = "ended" \/ socket_map[h].inbox > 0
Writable(h) == socket_map[h].sock \in {"open", "ended"}

\* The thread runs: it does not sleep, and starts no call while one is pending.
MayCall(t)    == thread[t].sleep = 0 /\ thread[t].call = "none"
Runs(t, call) == thread[t].sleep = 0 /\ thread[t].call = call

Finish(t) == thread' = [thread EXCEPT ![t] = Idle]
SleepAndRetry(t) == thread' = [thread EXCEPT ![t].sleep = Yield]

Socket(t) ==
    /\ MayCall(t) /\ next_handle \in Handle
    /\ socket_map' = Put(socket_map, next_handle, [sock |-> "none", inbox |-> 0,
                                                  nonblocking |-> FALSE, told |-> FALSE])
    /\ next_handle' = next_handle + 1
    /\ UNCHANGED <<kernelVars, waitVars>>

\* A new host socket replaces the one of an earlier connect.  A blocking
\* connect is over when the call is; a non-blocking one goes on.  A refused one
\* leaves the entry as it was.
Connect(t, h) ==
    /\ MayCall(t) /\ h \in DOMAIN socket_map
    /\ "reconnect" \in program \/ socket_map[h].sock = "none"
    /\ \E result \in IF socket_map[h].nonblocking THEN {"connecting", "open"} ELSE {"open"} :
         socket_map' = [socket_map EXCEPT ![h].sock = result, ![h].inbox = 0,
                                         ![h].told = FALSE]
    /\ UNCHANGED <<next_handle, kernelVars, waitVars>>

\* sendto makes a host socket at its first use; send and shutdown need one.
SendTo(t, h) ==
    /\ MayCall(t) /\ h \in DOMAIN socket_map /\ ~ Has(h)
    /\ socket_map' = [socket_map EXCEPT ![h].sock = "open"]
    /\ UNCHANGED <<next_handle, kernelVars, waitVars>>

Shutdown(t, h) ==
    /\ MayCall(t) /\ Has(h) /\ socket_map[h].sock = "open"
    /\ socket_map' = [socket_map EXCEPT ![h].sock = "ended"]
    /\ UNCHANGED <<next_handle, kernelVars, waitVars>>

\* FIONBIO: the pointer to the flag is taken for the flag, and it is not null.
Ioctlsocket(t, h) ==
    /\ MayCall(t) /\ h \in DOMAIN socket_map
    /\ socket_map' = [socket_map EXCEPT ![h].nonblocking = TRUE]
    /\ UNCHANGED <<next_handle, kernelVars, waitVars>>

Unregistered(reg, h) == Without(reg, h)

Closesocket(t, h) ==
    /\ MayCall(t) /\ h \in DOMAIN socket_map
    /\ socket_map' = Without(socket_map, h)
    /\ async_select' = Unregistered(async_select, h)
    /\ event_select' = Unregistered(event_select, h)
    /\ connect_fired' = connect_fired \ {h}
    /\ UNCHANGED <<next_handle, waitVars>>

\* register_async_select and register_event_select; any handle will do.
Selected(reg, h, events) == IF events = {} THEN Without(reg, h) ELSE Put(reg, h, events)

WSAAsyncSelect(t, h, events) ==
    /\ MayCall(t)
    /\ async_select' = Selected(async_select, h, events)
    /\ UNCHANGED <<socket_map, next_handle, event_select, connect_fired, waitVars>>

WSAEventSelect(t, h, events) ==
    /\ MayCall(t)
    /\ event_select' = Selected(event_select, h, events)
    /\ UNCHANGED <<socket_map, next_handle, async_select, connect_fired, waitVars>>

-----------------------------------------------------------------------------
(* recv and select: the call is made, and then runs until it is over.      *)

BeginRecv(t, h) ==
    /\ MayCall(t)
    /\ thread' = [thread EXCEPT ![t].call = "recv", ![t].rd = {h}]
    /\ UNCHANGED <<socket_map, next_handle, kernelVars, select_wait>>

TheSocket(t) == CHOOSE h \in thread[t].rd : TRUE

\* An error, the end of the stream, or WSAEWOULDBLOCK ...
RecvNothing(t) ==
    LET h == TheSocket(t)
    IN  /\ Runs(t, "recv")
        /\ Has(h) => /\ socket_map[h].inbox = 0
                     /\ Readable(h) \/ socket_map[h].nonblocking
        /\ Finish(t)
        /\ UNCHANGED <<socket_map, next_handle, kernelVars, select_wait>>

\* ... data ...
RecvData(t) ==
    LET h == TheSocket(t)
    IN  /\ Runs(t, "recv") /\ Has(h) /\ socket_map[h].inbox > 0
        /\ socket_map' = [socket_map EXCEPT ![h].inbox = @ - 1]
        /\ Finish(t)
        /\ UNCHANGED <<next_handle, kernelVars, select_wait>>

\* ... or nothing yet: sleep_current, and the instruction again.
RecvWait(t) ==
    LET h == TheSocket(t)
    IN  /\ Runs(t, "recv") /\ Has(h)
        /\ ~ Readable(h) /\ ~ socket_map[h].nonblocking
        /\ SleepAndRetry(t)
        /\ UNCHANGED <<socket_map, next_handle, kernelVars, select_wait>>

BeginSelect(t, rd, wr, timeout) ==
    /\ MayCall(t)
    /\ thread' = [thread EXCEPT ![t].call = "select", ![t].rd = rd, ![t].wr = wr, ![t].timeout = timeout]
    /\ UNCHANGED <<socket_map, next_handle, kernelVars, select_wait>>

\* The handles of the call that have a host socket now.
Pairs(t) == {h \in thread[t].rd \cup thread[t].wr : Has(h)}

Ready(t) == \/ \E h \in thread[t].rd : Has(h) /\ Readable(h)
            \/ \E h \in thread[t].wr : Has(h) /\ Writable(h)

\* "Nothing to wait on": an empty answer, and the time of the wait is kept.
SelectEmpty(t) ==
    /\ Runs(t, "select") /\ Pairs(t) = {}
    /\ Finish(t)
    /\ UNCHANGED <<socket_map, next_handle, kernelVars, select_wait>>

\* Mutant of WaitOver: the time of the wait is kept.
WaitOver_Keeps(t) == select_wait

WaitOver(t) == Without(select_wait, t)

SelectReady(t) ==
    /\ Runs(t, "select") /\ Ready(t)
    /\ Finish(t)
    /\ select_wait' = WaitOver(t)
    /\ UNCHANGED <<socket_map, next_handle, kernelVars>>

Waited(t) == IF t \in DOMAIN select_wait THEN select_wait[t] ELSE 0

TimeIsUp(t) == thread[t].timeout # Forever /\ Waited(t) >= thread[t].timeout

SelectTimesOut(t) ==
    /\ Runs(t, "select") /\ Pairs(t) # {} /\ ~ Ready(t)
    /\ TimeIsUp(t)
    /\ Finish(t)
    /\ select_wait' = WaitOver(t)
    /\ UNCHANGED <<socket_map, next_handle, kernelVars>>

SelectWaits(t) ==
    /\ Runs(t, "select") /\ Pairs(t) # {} /\ ~ Ready(t)
    /\ ~ TimeIsUp(t)
    /\ SleepAndRetry(t)
    /\ select_wait' = Put(select_wait, t, Waited(t))
    /\ UNCHANGED <<socket_map, next_handle, kernelVars>>

\* The guest sleeps, as it does in its message loop.
Sleep(t) ==
    /\ MayCall(t) /\ SleepAndRetry(t)
    /\ UNCHANGED <<socket_map, next_handle, kernelVars, select_wait>>

-----------------------------------------------------------------------------
(* Kernel.tick, when no thread is ready.                                   *)

NoThreadReady == \A t \in Caller : thread[t].sleep > 0

Mask(h) == UNION {reg[h] : reg \in {r \in {async_select, event_select} : h \in DOMAIN r}}

Watched == {h \in DOMAIN async_select \cup DOMAIN event_select : Has(h)}

Writes == {h \in Watched : Mask(h) \cap {"FD_CONNECT", "FD_WRITE"} # {} /\ Writable(h)}

\* A connection is reported once for a handle, and until then instead of
\* FD_WRITE.  A report is a message or an event: see Windows and KernelSync.
Connects == {h \in Writes : "FD_CONNECT" \in Mask(h)} \ connect_fired

Fired == connect_fired \cup Connects

Tick ==
    /\ NoThreadReady
    /\ connect_fired' = Fired
    /\ socket_map' = [h \in DOMAIN socket_map |->
         [socket_map[h] EXCEPT !.told = @ \/ h \in Connects]]
    /\ UNCHANGED <<next_handle, async_select, event_select, waitVars>>

\* Time passes for every sleeping thread and for every wait: the heartbeat.
\* Nothing fires here, so that a longer advance is several steps in a row.
Saturated(n) == Min({n + 1, Longest})

Heartbeat ==
    /\ thread' = [t \in Caller |->
         [thread[t] EXCEPT !.sleep = Max({@ - 1, 0}),
                           !.spent = IF thread[t].call = "none" THEN 0 ELSE Saturated(@)]]
    /\ select_wait' = [t \in DOMAIN select_wait |-> Saturated(select_wait[t])]
    /\ UNCHANGED <<socket_map, next_handle, kernelVars>>

-----------------------------------------------------------------------------
(* The other side, and the host's network.                                 *)

ConnectEnds(h) ==
    /\ h \in DOMAIN socket_map /\ socket_map[h].sock = "connecting"
    /\ \E s \in {"open", "ended"} : socket_map' = [socket_map EXCEPT ![h].sock = s]
    /\ UNCHANGED <<next_handle, kernelVars, waitVars>>

DataArrives(h) ==
    /\ h \in DOMAIN socket_map /\ socket_map[h].sock = "open" /\ socket_map[h].inbox < MaxData
    /\ socket_map' = [socket_map EXCEPT ![h].inbox = @ + 1]
    /\ UNCHANGED <<next_handle, kernelVars, waitVars>>

PeerCloses(h) ==
    /\ h \in DOMAIN socket_map /\ socket_map[h].sock = "open"
    /\ socket_map' = [socket_map EXCEPT ![h].sock = "ended"]
    /\ UNCHANGED <<next_handle, kernelVars, waitVars>>

Pending(t) ==
    \/ RecvNothing(t) \/ RecvData(t) \/ RecvWait(t)
    \/ SelectEmpty(t) \/ SelectReady(t) \/ SelectTimesOut(t) \/ SelectWaits(t)

Start(t) ==
    \/ Socket(t)
    \/ \E h \in Handle :
         \/ Connect(t, h)
         \/ "ioctlsocket" \in program /\ Ioctlsocket(t, h)
         \/ "sendto" \in program /\ (SendTo(t, h) \/ Shutdown(t, h))
         \/ "closesocket" \in program /\ Closesocket(t, h)
         \/ "recv" \in program /\ BeginRecv(t, h)
         \/ /\ "WSAAsyncSelect" \in program
            /\ \E ev \in SUBSET FD : WSAAsyncSelect(t, h, ev) \/ WSAEventSelect(t, h, ev)
    \/ /\ "select" \in program
       /\ \E rd, wr \in SUBSET Handle, n \in Timeouts : BeginSelect(t, rd, wr, n)
    \/ Sleep(t)

Network(h) == ConnectEnds(h) \/ DataArrives(h) \/ PeerCloses(h)

SockNext ==
    /\ UNCHANGED program
    /\ \/ \E t \in Caller : Start(t) \/ Pending(t)
       \/ \E h \in Handle : Network(h)
       \/ Tick
       \/ Heartbeat

SockSpec == SockInit /\ [][SockNext]_sockVars

\* What goes on by itself, and is fair where it is run: a call that was made
\* runs on, time passes, and the kernel is polled when the scheduler finds no
\* thread ready.
PendingStep(t) == Pending(t) /\ UNCHANGED program
HeartbeatStep == Heartbeat /\ UNCHANGED program
TickStep == Tick /\ UNCHANGED program
-----------------------------------------------------------------------------
TimesOutEarly(t) == SelectTimesOut(t) /\ thread[t].spent < thread[t].timeout

\* The same for programs that close no socket.
SelectWaitsItsTime ==
    [][\A t \in Caller : "closesocket" \in program \/ ~ TimesOutEarly(t)]_sockVars

\* A thread in recv on a socket that has data or has ended does not wait for
\* ever: the call ends, or somebody else took the data (recv's retry).
RecvEnds ==
    \A t \in Caller, h \in Handle :
        (thread[t].call = "recv" /\ h \in thread[t].rd /\ Has(h) /\ Readable(h))
          ~> (thread[t].call = "none" \/ ~ Has(h) \/ ~ Readable(h))

\* Blocking calls run again and again until they end (_sleep_current): select
\* not before its time, recv as soon as there is something to receive.
BlockingCallsEnd == SelectWaitsItsTime /\ RecvEnds
=============================================================================
