-------------------------------- MODULE Lock --------------------------------
(***************************************************************************)
(* What a critical section promises its users: a recursive lock.  Entering *)
(* returns only when no other thread is inside, and a thread leaves only   *)
(* what it has entered.                                                    *)
(***************************************************************************)
EXTENDS Naturals

CONSTANT Thread

VARIABLE depth   \* how often each thread is inside

Init == depth = [t \in Thread |-> 0]

Enter(t) ==
    /\ \A u \in Thread \ {t} : depth[u] = 0
    /\ depth' = [depth EXCEPT ![t] = @ + 1]

Leave(t) ==
    /\ depth[t] > 0
    /\ depth' = [depth EXCEPT ![t] = @ - 1]

\* A thread that is killed inside never leaves; one outside changes nothing.
Next == \E t \in Thread : Enter(t) \/ Leave(t)

Spec == Init /\ [][Next]_depth
=============================================================================
