----------------------------- MODULE KeyedMutex -----------------------------
(* What dispatch.Locks promises its callers: one holder per key, and a holder *)
(* keeps its key until it unlocks.  How waiters queue is not visible here.     *)
CONSTANTS Procs, Keys, None

VARIABLE holder     \* the key each process holds, or None

MutexInit == holder = [p \in Procs |-> None]

Take(p, k) ==
    /\ holder[p] = None
    /\ \A q \in Procs : holder[q] # k
    /\ holder' = [holder EXCEPT ![p] = k]

Give(p) ==
    /\ holder[p] # None
    /\ holder' = [holder EXCEPT ![p] = None]

MutexNext == \E p \in Procs : Give(p) \/ \E k \in Keys : Take(p, k)

MutexSpec == MutexInit /\ [][MutexNext]_holder

=============================================================================
