---------------------------- MODULE LockService ----------------------------
(* What a namespaced mutex promises: at any time a name is held by at most   *)
(* one process, and only its holder gives it up.                             *)
EXTENDS Naturals

CONSTANTS Procs, Names, NoProc

VARIABLE holder   \* holder[n]: the process in the critical section of n

Init == holder = [n \in Names |-> NoProc]

Acquire(p, n) ==
    /\ holder[n] = NoProc
    /\ holder' = [holder EXCEPT ![n] = p]

Release(p, n) ==
    /\ holder[n] = p
    /\ holder' = [holder EXCEPT ![n] = NoProc]

Next == \E p \in Procs, n \in Names : Acquire(p, n) \/ Release(p, n)

Spec == Init /\ [][Next]_holder
=============================================================================
