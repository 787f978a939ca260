------------------------------ MODULE MCThreads ------------------------------
(* What the threads of a guest wait in besides kernel objects, one part at a *)
(* time.  "lock": three threads at a critical section, one inside, one being *)
(* handed the section and one that barges in; recursion to depth two; two    *)
(* semaphores, so that a section is deleted and initialized again after a    *)
(* contended use.  "sockets": two threads in calls on one socket.            *)
(* "internet": the HTTP calls of one thread.                                 *)
EXTENDS CriticalSection, Sockets, WinInet

CONSTANTS t1, t2, t3

VARIABLE part

threadsVars == <<vars, sockVars, inetVars, part>>

Receiving == {"recv", "ioctlsocket", "sendto"}
Selecting == {"select", "ioctlsocket", "sendto"}
Closing   == {"recv", "closesocket"}
Listening == {"WSAAsyncSelect", "closesocket"}
AllPrograms == {Receiving, Selecting, Closing, Listening}

ThreadsInit ==
    /\ part \in {"lock", "sockets", "internet"}
    /\ IF part = "sockets" THEN TRUE ELSE program = Receiving
    /\ Init /\ SockInit /\ InetInit

LockOnly(A) == part = "lock" /\ A /\ UNCHANGED <<sockVars, inetVars, part>>
SocketsOnly(A) == part = "sockets" /\ A /\ UNCHANGED <<vars, inetVars, part>>

ThreadsNext ==
    \/ LockOnly(Next)
    \/ SocketsOnly(SockNext)
    \/ part = "internet" /\ InetNext /\ UNCHANGED <<vars, sockVars, part>>

(* Each part has its own fairness, and none while it is not its turn. *)
ThreadsSpec ==
    /\ ThreadsInit /\ [][ThreadsNext]_threadsVars
    /\ \A t \in Thread : WF_threadsVars(LockOnly(Step(t)))
    /\ \A t \in Caller : WF_threadsVars(SocketsOnly(PendingStep(t)))
    /\ WF_threadsVars(SocketsOnly(HeartbeatStep))
    /\ SF_threadsVars(SocketsOnly(TickStep))
=============================================================================
