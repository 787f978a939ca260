---------------------------- MODULE MCKernelSync ----------------------------
(* Small instances of KernelSync: guests that wait for objects, guests that  *)
(* wait for a time, and guests that wait for the network.                    *)
EXTENDS KernelSync

CONSTANT s1

MCWaits ==
    [calls |-> {"CreateMutexA", "CreateEventA", "SetEvent", "ResetEvent", "ReleaseMutex",
                "WaitForSingleObject", "WaitForMultipleObjects", "CreateThread"},
     threads |-> 3, handles |-> 2, timeouts |-> {}, time |-> 0]
MCTime ==
    [calls |-> {"CreateEventA", "SetEvent", "WaitForSingleObject", "timeSetEvent", "timeKillEvent",
                "Sleep", "CreateThread", "ResumeThread", "SuspendThread", "ExitThread",
                "TerminateThread"},
     threads |-> 2, handles |-> 1, timeouts |-> {0, 1}, time |-> 3]
MCTimers ==
    [calls |-> {"CreateEventA", "ResetEvent", "WaitForSingleObject", "timeSetEvent", "Sleep",
                "CreateThread", "SuspendThread", "ResumeThread", "TerminateThread"},
     threads |-> 2, handles |-> 1, timeouts |-> {1, 2}, time |-> 3]
MCNet ==
    [calls |-> {"CreateEventA", "WaitForSingleObject", "CreateThread", "CloseHandle",
                "WSAEventSelect", "closesocket", "DuplicateHandle"},
     threads |-> 2, handles |-> 2, timeouts |-> {}, time |-> 0]

MCStale ==
    [calls |-> {"CreateEventA", "SetEvent", "WaitForSingleObject", "CreateThread"},
     threads |-> 2, handles |-> 2, timeouts |-> {1}, time |-> 2]

MCWaiting == {MCWaits}
MCTimed == {MCTime, MCTimers, MCNet}
MCStaleOnly == {MCStale}
MCNetOnly == {MCNet}
=============================================================================
