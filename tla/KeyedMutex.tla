----------------------------- MODULE KeyedMutex -----------------------------
(***************************************************************************)
(* What exec.KeyedLock promises: one mutex per key.  Holders of one key    *)
(* exclude each other; holders of different keys do not interact.          *)
(***************************************************************************)

CONSTANTS
    Keys,       \* lock keys (aggregate types and ids)
    Callers     \* goroutines that call the lock

VARIABLE
    holders     \* holders[k]: the callers inside the critical section of k

Init == holders = [k \in Keys |-> {}]

Acquire(p, k) ==
    /\ holders[k] = {}
    /\ holders' = [holders EXCEPT ![k] = {p}]

Release(p, k) ==
    /\ holders[k] = {p}
    /\ holders' = [holders EXCEPT ![k] = {}]

Next == \E p \in Callers, k \in Keys : Acquire(p, k) \/ Release(p, k)

Spec == Init /\ [][Next]_holders

=============================================================================
