------------------------------ MODULE PintosSynch ------------------------------
(***************************************************************************)
(* Pintos kernel threads that use semaphores, locks and condition          *)
(* variables (threads/synch.c) and create and end threads (thread.c), with *)
(* the timer and one device interrupting them.                             *)
(*                                                                         *)
(* A semaphore operation is one step: it runs with interrupts off.  Locks  *)
(* and condition variables are built from them with interrupts on, so      *)
(* another thread may run between any two of their steps.  A thread woken  *)
(* inside sema_down still has interrupts off (pc "woken").                 *)
(***************************************************************************)
EXTENDS PintosSched

CONSTANTS Semas,        \* plain semaphores
          Locks,
          Conds,        \* condition variables
          LockOf,       \* the lock that protects each condition variable
          tid_lock,     \* the lock of allocate_tid
          idle_started, \* the semaphore of thread_start
          MaxValue,     \* bound: value of a plain semaphore
          MaxTid        \* bound: thread ids handed out

(* Each lock embeds a semaphore, and each thread in cond_wait has one on    *)
(* its stack; they are named by the lock and by the thread.                 *)
SemaIds == Semas \cup Locks \cup Threads \cup {idle_started}

ASSUME SynchAssumption ==
  /\ LockOf \in [Conds -> Locks \ {tid_lock}]
  /\ tid_lock \in Locks
  /\ Semas \cap (Locks \cup Threads \cup {idle_started}) = {}
  /\ Locks \cap (Threads \cup {idle_started}) = {}
  /\ idle_started \notin Threads
  /\ NULL \notin SemaIds \cup Conds
  /\ MaxValue \in Nat
  /\ MaxTid \in Nat

VARIABLES
  value,     \* value[s]:    semaphore value
  waiters,   \* waiters[s]:  threads asleep in sema_down(s)
  holder,    \* holder[l]:   lock->holder
  cwaiters,  \* cwaiters[c]: the threads whose semaphore_elem is on cond->waiters
  pc,        \* pc[t]:       where t is
  at,        \* at[t]:       the semaphore or lock t is operating on
  cw,        \* cw[t]:       the condition variable of t's cond_wait or broadcast
  kid,       \* kid[t]:      the thread t is creating
  tid,       \* tid[t]:      0 until allocate_tid has returned
  next_tid

synch == <<value, waiters, holder, cwaiters>>
tids == <<tid, next_tid>>
vars == <<sched, synch, pc, at, cw, kid, tids>>

PCs == {"call", "down", "woken", "holder", "up", "wait", "signal", "broadcast",
        "bsignal", "tid_read", "tid_write", "tid_release", "unblock",
        "idle_start", "idle_up", "idle"}

TypeOK ==
  /\ SchedTypeOK
  /\ value \in [SemaIds -> Nat]
  /\ waiters \in [SemaIds -> Seq(Threads)]
  /\ holder \in [Locks -> Threads \cup {NULL}]
  /\ cwaiters \in [Conds -> Seq(Threads)]
  /\ pc \in [Threads -> PCs]
  /\ at \in [Threads -> SemaIds]
  /\ cw \in [Threads -> Conds \cup {NULL}]
  /\ kid \in [Threads -> Threads \cup {NULL}]
  /\ tid \in [Threads -> Nat]
  /\ next_tid \in Nat

Init ==
  /\ SchedInit
  /\ value = [s \in SemaIds |-> IF s \in Locks THEN 1 ELSE 0]
  /\ waiters = [s \in SemaIds |-> << >>]
  /\ holder = [l \in Locks |-> NULL]
  /\ cwaiters = [c \in Conds |-> << >>]
  /\ pc = [t \in Threads |-> IF t = main THEN "down"
                             ELSE IF t = idle THEN "idle_start" ELSE "call"]
  /\ at = [t \in Threads |-> idle_started]
  /\ cw = [t \in Threads |-> NULL]
  /\ kid = [t \in Threads |-> NULL]
  /\ tid = [t \in Threads |-> IF t = main THEN 1 ELSE IF t = idle THEN 2 ELSE 0]
  /\ next_tid = 3

-----------------------------------------------------------------------------
Goto(t, l) == pc' = [pc EXCEPT ![t] = l]

(* The running thread is at l. *)
At(t, l) == current = t /\ pc[t] = l

(* sema_up(s), of a thread or of an interrupt handler.  Faulty variants:    *)
(* the waiter stays on the list; only the step from 0 to 1 wakes somebody.  *)
sema_up_no_pop(s) ==
  /\ value' = [value EXCEPT ![s] = @ + 1]
  /\ IF waiters[s] = << >> THEN UNCHANGED sched ELSE thread_unblock(Head(waiters[s]))
  /\ UNCHANGED <<waiters, holder, cwaiters>>

sema_up_from_zero(s) ==
  /\ value' = [value EXCEPT ![s] = @ + 1]
  /\ IF waiters[s] = << >> \/ value[s] > 0
     THEN UNCHANGED <<sched, waiters>>
     ELSE /\ thread_unblock(Head(waiters[s]))
          /\ waiters' = [waiters EXCEPT ![s] = Tail(@)]
  /\ UNCHANGED <<holder, cwaiters>>

sema_up(s) ==
  /\ value' = [value EXCEPT ![s] = @ + 1]
  /\ IF waiters[s] = << >>
     THEN UNCHANGED <<sched, waiters>>
     ELSE /\ thread_unblock(Head(waiters[s]))
          /\ waiters' = [waiters EXCEPT ![s] = Tail(@)]
  /\ UNCHANGED <<holder, cwaiters>>

(* Where sema_down(at[t]) returns to. *)
AfterDown(t) ==
  \/ at[t] \in Locks /\ Goto(t, "holder") /\ UNCHANGED <<at, cw>>
  \/ at[t] \in Semas \cup {idle_started} /\ Goto(t, "call") /\ UNCHANGED <<at, cw>>
  \/ /\ at[t] \in Threads             \* cond_wait goes on to lock_acquire
     /\ Goto(t, "down")
     /\ at' = [at EXCEPT ![t] = LockOf[cw[t]]]
     /\ cw' = [cw EXCEPT ![t] = NULL]

(* The loop condition of sema_down. *)
MustSleep(t) == value[at[t]] = 0

(* One turn of the loop of sema_down: sleep, or take the semaphore. *)
SemaDown(t) ==
  /\ At(t, "down") \/ At(t, "woken")
  /\ IF MustSleep(t)
     THEN /\ waiters' = [waiters EXCEPT ![at[t]] = Append(@, t)]
          /\ thread_block
          /\ Goto(t, "woken")
          /\ UNCHANGED <<value, at, cw>>
     ELSE /\ value' = [value EXCEPT ![at[t]] = @ - 1]
          /\ AfterDown(t)
          /\ UNCHANGED <<sched, waiters>>
  /\ UNCHANGED <<holder, cwaiters, kid, tids>>

CallDown(t, s) ==
  /\ At(t, "call")
  /\ Goto(t, "down")
  /\ at' = [at EXCEPT ![t] = s]
  /\ UNCHANGED <<sched, synch, cw, kid, tids>>

CallTryDown(t, s) ==
  /\ At(t, "call")
  /\ value[s] > 0
  /\ value' = [value EXCEPT ![s] = @ - 1]
  /\ UNCHANGED <<sched, waiters, holder, cwaiters, pc, at, cw, kid, tids>>

CallUp(t, s) ==
  /\ At(t, "call")
  /\ value[s] < MaxValue
  /\ sema_up(s)
  /\ UNCHANGED <<pc, at, cw, kid, tids>>

(* lock_acquire asserts that the caller does not hold the lock. *)
CallAcquire(t, l) == holder[l] # t /\ CallDown(t, l)

CallTryAcquire(t, l) ==
  /\ At(t, "call")
  /\ holder[l] # t
  /\ value[l] > 0
  /\ value' = [value EXCEPT ![l] = @ - 1]
  /\ Goto(t, "holder")
  /\ at' = [at EXCEPT ![t] = l]
  /\ UNCHANGED <<sched, waiters, holder, cwaiters, cw, kid, tids>>

(* The assignment after sema_down in lock_acquire. *)
SetHolder(t) ==
  /\ At(t, "holder")
  /\ holder' = [holder EXCEPT ![at[t]] = t]
  /\ Goto(t, IF kid[t] # NULL THEN "tid_read" ELSE "call")
  /\ UNCHANGED <<sched, value, waiters, cwaiters, at, cw, kid, tids>>

(* lock_release(at[t]), whose first step clears the holder.  Faulty         *)
(* variant: any thread may release.                                         *)
ClearAnyHolder(t, l) ==
  /\ holder[l] # NULL
  /\ holder' = [holder EXCEPT ![l] = NULL]
  /\ at' = [at EXCEPT ![t] = l]
  /\ Goto(t, "up")
  /\ UNCHANGED <<sched, value, waiters, cwaiters, cw, kid, tids>>

ClearHolder(t, l) ==
  /\ holder[l] = t
  /\ holder' = [holder EXCEPT ![l] = NULL]
  /\ at' = [at EXCEPT ![t] = l]
  /\ Goto(t, "up")
  /\ UNCHANGED <<sched, value, waiters, cwaiters, cw, kid, tids>>

CallRelease(t, l) == At(t, "call") /\ ClearHolder(t, l)

(* Its second step, and what the caller does next: cond_wait sleeps on its *)
(* own semaphore, thread_create unblocks the new thread.                   *)
ReleaseUp(t) ==
  /\ At(t, "up")
  /\ sema_up(at[t])
  /\ IF cw[t] # NULL
     THEN Goto(t, "down") /\ at' = [at EXCEPT ![t] = t]
     ELSE Goto(t, IF kid[t] # NULL THEN "unblock" ELSE "call") /\ UNCHANGED at
  /\ UNCHANGED <<cw, kid, tids>>

-----------------------------------------------------------------------------
(* cond_wait: the thread's semaphore_elem goes on the list. *)
CallWait(t, c) ==
  /\ At(t, "call")
  /\ holder[LockOf[c]] = t
  /\ value' = [value EXCEPT ![t] = 0]
  /\ waiters' = [waiters EXCEPT ![t] = << >>]
  /\ cwaiters' = [cwaiters EXCEPT ![c] = Append(@, t)]
  /\ cw' = [cw EXCEPT ![t] = c]
  /\ Goto(t, "wait")
  /\ UNCHANGED <<sched, holder, at, kid, tids>>

WaitRelease(t) == At(t, "wait") /\ ClearHolder(t, LockOf[cw[t]])

(* cond_signal takes the first waiter off the list ...                     *)
(* Faulty variant: and leaves it there.                                    *)
PeekWaiter(t, c) ==
  /\ cwaiters[c] # << >>
  /\ at' = [at EXCEPT ![t] = Head(cwaiters[c])]
  /\ Goto(t, "signal")
  /\ UNCHANGED <<sched, value, waiters, holder, cwaiters, kid, tids>>

PopWaiter(t, c) ==
  /\ cwaiters[c] # << >>
  /\ at' = [at EXCEPT ![t] = Head(cwaiters[c])]
  /\ cwaiters' = [cwaiters EXCEPT ![c] = Tail(@)]
  /\ Goto(t, "signal")
  /\ UNCHANGED <<sched, value, waiters, holder, kid, tids>>

CallSignal(t, c) ==
  /\ At(t, "call")
  /\ holder[LockOf[c]] = t
  /\ PopWaiter(t, c)
  /\ UNCHANGED cw

(* ... and ups its semaphore; cond_broadcast then goes on. *)
SignalUp(t) ==
  /\ At(t, "signal")
  /\ sema_up(at[t])
  /\ Goto(t, IF cw[t] # NULL THEN "broadcast" ELSE "call")
  /\ UNCHANGED <<at, cw, kid, tids>>

CallBroadcast(t, c) ==
  /\ At(t, "call")
  /\ holder[LockOf[c]] = t
  /\ Goto(t, "broadcast")
  /\ cw' = [cw EXCEPT ![t] = c]
  /\ UNCHANGED <<sched, synch, at, kid, tids>>

(* One turn of the loop of cond_broadcast. *)
Broadcast(t) ==
  /\ At(t, "broadcast")
  /\ \/ PopWaiter(t, cw[t]) /\ UNCHANGED cw
     \/ /\ cwaiters[cw[t]] = << >>
        /\ Goto(t, "call")
        /\ cw' = [cw EXCEPT ![t] = NULL]
        /\ UNCHANGED <<sched, synch, at, kid, tids>>

-----------------------------------------------------------------------------
(* thread_create: a page, then allocate_tid under tid_lock, then the new    *)
(* thread may run.  Without a free page it returns TID_ERROR.  Faulty       *)
(* variant: the holder of tid_lock does not wait for it.                    *)
CallCreateUnlocked(t, n) ==
  /\ At(t, "call")
  /\ next_tid < MaxTid
  /\ status[n] = "FREE"
  /\ init_thread(n)
  /\ kid' = [kid EXCEPT ![t] = n, ![n] = NULL]
  /\ cw' = [cw EXCEPT ![n] = NULL]
  /\ pc' = [pc EXCEPT ![t] = "tid_read", ![n] = "call"]
  /\ at' = [at EXCEPT ![t] = tid_lock]
  /\ holder' = [holder EXCEPT ![tid_lock] = t]
  /\ UNCHANGED <<value, waiters, cwaiters, tids>>

CallCreate(t, n) ==
  /\ At(t, "call")
  /\ next_tid < MaxTid
  /\ status[n] = "FREE"
  /\ init_thread(n)
  /\ kid' = [kid EXCEPT ![t] = n, ![n] = NULL]
  /\ cw' = [cw EXCEPT ![n] = NULL]
  /\ pc' = [pc EXCEPT ![t] = "down", ![n] = "call"]
  /\ at' = [at EXCEPT ![t] = tid_lock]
  /\ UNCHANGED <<synch, tids>>

TidRead(t) ==
  /\ At(t, "tid_read")
  /\ tid' = [tid EXCEPT ![kid[t]] = next_tid]
  /\ Goto(t, "tid_write")
  /\ UNCHANGED <<sched, synch, at, cw, kid, next_tid>>

TidWrite(t) ==
  /\ At(t, "tid_write")
  /\ next_tid' = tid[kid[t]] + 1
  /\ Goto(t, "tid_release")
  /\ UNCHANGED <<sched, synch, at, cw, kid, tid>>

TidRelease(t) == At(t, "tid_release") /\ ClearHolder(t, tid_lock)

Unblock(t) ==
  /\ At(t, "unblock")
  /\ thread_unblock(kid[t])
  /\ kid' = [kid EXCEPT ![t] = NULL]
  /\ Goto(t, "call")
  /\ UNCHANGED <<synch, at, cw, tids>>

(* A thread returns from its function, having released its locks. *)
CallExit(t) ==
  /\ At(t, "call")
  /\ \A l \in Locks : holder[l] # t
  /\ thread_exit
  /\ tid' = [tid EXCEPT ![t] = 0]
  /\ UNCHANGED <<synch, pc, at, cw, kid, next_tid>>

CallYield(t) ==
  /\ At(t, "call")
  /\ thread_yield
  /\ UNCHANGED <<synch, pc, at, cw, kid, tids>>

(* idle: it makes itself known, lets thread_start go on, and then blocks    *)
(* whenever an interrupt wakes the processor.  The hlt is left out: going   *)
(* round the loop early only makes it block once more.                      *)
IdleStart(t) ==
  /\ At(t, "idle_start")
  /\ idle_thread' = t
  /\ Goto(t, "idle_up")
  /\ UNCHANGED <<current, status, ready, slice, synch, at, cw, kid, tids>>

IdleUp(t) ==
  /\ At(t, "idle_up")
  /\ sema_up(idle_started)
  /\ Goto(t, "idle")
  /\ UNCHANGED <<at, cw, kid, tids>>

IdleBlock(t) ==
  /\ At(t, "idle")
  /\ thread_block
  /\ UNCHANGED <<synch, pc, at, cw, kid, tids>>

-----------------------------------------------------------------------------
(* Interrupts reach the processor except while a thread just woken inside   *)
(* sema_down has them off.                                                  *)
IntrOn == pc[current] # "woken"

TimerInterrupt ==
  /\ IntrOn
  /\ thread_tick
  /\ UNCHANGED <<synch, pc, at, cw, kid, tids>>

(* A device's handler ups a semaphore, as that of ide.c does. *)
DeviceInterrupt(s) ==
  /\ IntrOn
  /\ value[s] < MaxValue
  /\ sema_up(s)
  /\ UNCHANGED <<pc, at, cw, kid, tids>>

-----------------------------------------------------------------------------
(* What a thread is committed to do once it runs. *)
Continue(t) ==
  \/ SemaDown(t) \/ SetHolder(t) \/ ReleaseUp(t)
  \/ WaitRelease(t) \/ SignalUp(t) \/ Broadcast(t)
  \/ TidRead(t) \/ TidWrite(t) \/ TidRelease(t) \/ Unblock(t)
  \/ IdleStart(t) \/ IdleUp(t) \/ IdleBlock(t)

(* What it may choose to call. *)
Call(t) ==
  \/ \E s \in Semas : CallDown(t, s) \/ CallTryDown(t, s) \/ CallUp(t, s)
  \/ \E l \in Locks \ {tid_lock} :
       CallAcquire(t, l) \/ CallTryAcquire(t, l) \/ CallRelease(t, l)
  \/ \E c \in Conds : CallWait(t, c) \/ CallSignal(t, c) \/ CallBroadcast(t, c)
  \/ \E n \in Threads : CallCreate(t, n)
  \/ CallYield(t)
  \/ CallExit(t)

Next ==
  \/ \E t \in Threads : Continue(t) \/ Call(t)
  \/ TimerInterrupt
  \/ \E s \in Semas : DeviceInterrupt(s)

Spec == Init /\ [][Next]_vars

(* The timer keeps ticking, and a thread that gets the processor again and  *)
(* again executes what it is committed to.                                  *)
Fairness ==
  /\ SF_vars(TimerInterrupt)
  /\ \A t \in Threads : SF_vars(Continue(t))

FairSpec == Spec /\ Fairness

-----------------------------------------------------------------------------
(* thread.h: a thread's elem is on the ready list or on one semaphore's     *)
(* waiters, never on two lists, since only a ready thread is on the first   *)
(* and only a blocked one on the second.  Every blocked thread can be woken:*)
(* it waits for a semaphore, is the idle thread or is being created.        *)
WaitersOK ==
  /\ \A s \in SemaIds : \A i \in DOMAIN waiters[s] :
       LET t == waiters[s][i]
       IN  /\ status[t] = "BLOCKED"
           /\ pc[t] = "woken" /\ at[t] = s
           /\ \A k \in DOMAIN waiters[s] : waiters[s][k] = t => k = i
  /\ \A t \in Threads : status[t] = "BLOCKED" =>
       \/ pc[t] = "woken" /\ \E i \in DOMAIN waiters[at[t]] : waiters[at[t]][i] = t
       \/ t = idle_thread /\ pc[t] = "idle"
       \/ \E u \in Threads : kid[u] = t

(* No wakeup is lost: while a thread sleeps in sema_down(s), the value of s *)
(* is spoken for by threads already woken for it.                           *)
Woken(s) == {t \in Threads : status[t] \in {"READY", "RUNNING"} /\ pc[t] = "woken" /\ at[t] = s}

NoLostWakeup ==
  \A s \in SemaIds : waiters[s] # << >> => value[s] <= Cardinality(Woken(s))

(* A lock has one owner at most, from the sema_down in lock_acquire to the  *)
(* sema_up in lock_release, and is free exactly if its semaphore is 1.      *)
Owns(t, l) ==
  /\ status[t] \notin {"FREE", "DYING"}
  /\ holder[l] = t \/ (pc[t] \in {"holder", "up"} /\ at[t] = l)

LockOK ==
  \A l \in Locks :
    \/ value[l] = 1 /\ \A t \in Threads : ~Owns(t, l)
    \/ value[l] = 0 /\ \E t \in Threads : Owns(t, l) /\ \A u \in Threads : Owns(u, l) => u = t

(* The locks implement Mutex: whoever is between the two semaphore          *)
(* operations is the owner, and nobody else can end its ownership.          *)
owner == [l \in Locks |-> IF \E t \in Threads : Owns(t, l)
                         THEN CHOOSE t \in Threads : Owns(t, l) ELSE NULL]

M == INSTANCE Mutex

MutexSpec == M!Spec

(* A thread in cond_wait is on the list, or is being signalled, or has been *)
(* signalled: no signal is lost or given twice, and cond_signal ups a       *)
(* semaphore_elem that still exists.                                        *)
InWait(t) == cw[t] # NULL /\ pc[t] \in {"wait", "up", "down", "woken"}

CondOK ==
  /\ \A c \in Conds : \A i \in DOMAIN cwaiters[c] :
       LET t == cwaiters[c][i]
       IN  /\ InWait(t) /\ cw[t] = c /\ value[t] = 0
           /\ \A k \in DOMAIN cwaiters[c] : cwaiters[c][k] = t => k = i
  /\ \A u \in Threads : pc[u] = "signal" =>
       /\ InWait(at[u]) /\ value[at[u]] = 0
       /\ \A v \in Threads : pc[v] = "signal" /\ at[v] = at[u] => v = u
       /\ \A c \in Conds : \A i \in DOMAIN cwaiters[c] : cwaiters[c][i] # at[u]
  /\ \A t \in Threads : InWait(t) =>
       \/ value[t] = 1
       \/ \E i \in DOMAIN cwaiters[cw[t]] : cwaiters[cw[t]][i] = t
       \/ \E u \in Threads : pc[u] = "signal" /\ at[u] = t

(* No two threads have the same id. *)
TidsUnique ==
  \A t, u \in Threads : t # u /\ tid[t] # 0 => tid[t] # tid[u]

(* Scheduling is fair: a ready thread gets the processor, whatever the      *)
(* others do, because thread_tick ends every time slice.                    *)
ReadyRuns ==
  \A t \in Threads \ {idle} : status[t] = "READY" ~> status[t] = "RUNNING"

===============================================================================
