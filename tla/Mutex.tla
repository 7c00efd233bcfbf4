--------------------------------- MODULE Mutex ---------------------------------
(***************************************************************************)
(* What a Pintos lock promises (the comments on lock_acquire and           *)
(* lock_release): a lock has no owner or one, a thread becomes the owner   *)
(* of a free lock only, and only the owner gives it up.                    *)
(***************************************************************************)
CONSTANTS Threads, Locks, NULL

VARIABLE owner   \* owner[l]: the thread that holds l, or NULL

Init == owner = [l \in Locks |-> NULL]

Acquire(t, l) == owner[l] = NULL /\ owner' = [owner EXCEPT ![l] = t]

Release(t, l) == owner[l] = t /\ owner' = [owner EXCEPT ![l] = NULL]

Next == \E t \in Threads, l \in Locks : Acquire(t, l) \/ Release(t, l)

Spec == Init /\ [][Next]_owner
===============================================================================
