---------------------------- MODULE MCPintosSynch -----------------------------
(* Instances of PintosSynch for TLC. *)
EXTENDS PintosSynch, TLC

CONSTANTS lk, cv   \* one lock beside tid_lock, one condition variable

OneLock == (cv :> lk)
NoLock == << >>

Others == Permutations(Threads \ {main, idle})

===============================================================================
