-------------------------- MODULE PintosSynchWakeups -------------------------
(***************************************************************************)
(* No wakeup of PintosSynch is lost: while a thread sleeps on a semaphore, *)
(* the semaphore's value is spoken for by threads already woken for it.    *)
(***************************************************************************)
EXTENDS PintosSynchProofs, FiniteSetTheorems

(* Leaves are for Zenon unless they name another prover.                    *)
USE Zenon

(* Wakeups.  NoLostWakeup is inductive together with IInv: sema_up adds one *)
(* to the value and one thread to those woken, sema_down takes from both,   *)
(* and a thread sleeps only while the value is 0.                           *)
Awake(t) == status[t] \in {"READY", "RUNNING"}

(* Whoever has been woken and not run yet stays so. *)
WakeKeeps(t) ==
  Awake(t) /\ pc[t] = "woken" => Awake(t)' /\ pc'[t] = "woken" /\ at'[t] = at[t]

(* A semaphore whose value did not grow and whose woken threads stayed. *)
LEMMA WakeFrame ==
  ASSUME IInv, IInv', NoLostWakeup, NEW s \in SemaIds,
         value'[s] <= value[s], waiters'[s] # << >> => waiters[s] # << >>,
         \A t \in Threads : at[t] = s => WakeKeeps(t)
  PROVE  waiters'[s] # << >> => value'[s] <= Cardinality(Woken(s)')
<1> SUFFICES ASSUME waiters[s] # << >> PROVE value'[s] <= Cardinality(Woken(s)')
  OBVIOUS
<1>1. /\ Woken(s) \subseteq Woken(s)'
      /\ IsFiniteSet(Woken(s)')
      /\ Cardinality(Woken(s)) \in Nat /\ Cardinality(Woken(s)') \in Nat
      /\ Cardinality(Woken(s)) <= Cardinality(Woken(s)')
      /\ value[s] \in Nat /\ value'[s] \in Nat /\ value[s] <= Cardinality(Woken(s))
  BY FS_CardinalityType, FS_Subset, PagesAssumption DEF Woken, WakeKeeps, Awake, IInv, TypeOK,
     NoLostWakeup
<1> QED
  BY SMTT(20), <1>1

(* Steps that are not sema_up or sema_down. *)
WakeQuiet ==
  /\ \A s \in SemaIds : value'[s] <= value[s] /\ (waiters'[s] # << >> => waiters[s] # << >>)
  /\ \A t \in Threads : WakeKeeps(t)

(* They keep NoLostWakeup. *)
LEMMA WakeQuietLemma ==
  ASSUME IInv, IInv', NoLostWakeup, WakeQuiet
  PROVE  NoLostWakeup'
BY WakeFrame DEF WakeQuiet, NoLostWakeup

(* sema_up: the thread it wakes answers for the new unit. *)
LEMMA WakeUp ==
  ASSUME IInv, IInv', NoLostWakeup, NEW s \in SemaIds, sema_up(s),
         \A t \in Threads : pc[t] = "woken" => pc'[t] = pc[t] /\ at'[t] = at[t]
  PROVE  NoLostWakeup'
<1>0. /\ value \in [SemaIds -> Nat] /\ waiters \in [SemaIds -> Seq(Threads)]
      /\ status \in [Threads -> {"FREE", "RUNNING", "READY", "BLOCKED", "DYING"}]
      /\ \A t \in Threads : WakeKeeps(t)
  BY DEF IInv, TypeOK, SchedTypeOK, WakeKeeps, Awake, sema_up, thread_unblock, sched
<1>1. ASSUME NEW x \in SemaIds, x # s
      PROVE  waiters'[x] # << >> => value'[x] <= Cardinality(Woken(x)')
  BY SMTT(20), <1>0, <1>1, WakeFrame DEF sema_up
<1>2. CASE waiters[s] = << >>
  BY <1>1, <1>2 DEF sema_up, NoLostWakeup
<1>3. CASE waiters[s] # << >>
  <2>1. PICK h \in Threads : /\ h = Head(waiters[s])
                             /\ status[h] = "BLOCKED" /\ pc[h] = "woken" /\ at[h] = s
    BY SMTT(20), <1>0, <1>3, TailLemma, WaiterLemma
  <2>2. /\ value'[s] = value[s] + 1 /\ status'[h] = "READY"
        /\ Woken(s) \cup {h} \subseteq Woken(s)' /\ h \notin Woken(s)
        /\ IsFiniteSet(Woken(s)') /\ IsFiniteSet(Woken(s))
    BY SMTT(20), <1>0, <1>3, <2>1, FS_Subset, PagesAssumption DEF sema_up, thread_unblock, Woken,
       WakeKeeps, Awake
  <2>3. /\ Cardinality(Woken(s)) \in Nat /\ Cardinality(Woken(s)') \in Nat
        /\ Cardinality(Woken(s) \cup {h}) = Cardinality(Woken(s)) + 1
        /\ Cardinality(Woken(s) \cup {h}) <= Cardinality(Woken(s)')
        /\ value[s] \in Nat /\ value[s] <= Cardinality(Woken(s))
        /\ value'[s] <= Cardinality(Woken(s)')
    BY SMTT(20), <1>0, <1>3, <2>2, FS_AddElement, FS_CardinalityType, FS_Subset DEF NoLostWakeup
  <2> QED
    BY <1>1, <2>3 DEF NoLostWakeup
<1> QED
  BY <1>2, <1>3

(* schedule changes the state of two threads, and neither has been woken    *)
(* and not run yet.                                                         *)
LEMMA SwitchKeeps ==
  ASSUME IInv', \A u \in Threads : u # current' /\ u # current => status'[u] = status[u],
         pc[current] # "woken", UNCHANGED <<pc, at>>
  PROVE  \A t \in Threads : WakeKeeps(t)
BY DEF IInv, TypeOK, SchedTypeOK, SchedOK, WakeKeeps, Awake

(* sema_down. *)
LEMMA WakeDown ==
  ASSUME IInv, IInv', NoLostWakeup, NEW t \in Threads, SemaDown(t)
  PROVE  NoLostWakeup'
<1>0. /\ value \in [SemaIds -> Nat] /\ waiters \in [SemaIds -> Seq(Threads)] /\ pc \in [Threads -> PCs]
      /\ at \in [Threads -> SemaIds] /\ current = t /\ pc[t] \in {"down", "woken"}
  BY DEF IInv, SemaDown, At, TypeOK
<1>1. PICK s \in SemaIds : s = at[t]
  BY <1>0
<1>2. CASE MustSleep(t)
  <2>1. /\ value' = value /\ value[s] = 0 /\ \A x \in SemaIds : x # s => waiters'[x] = waiters[x]
        /\ at' = at /\ thread_block /\ \A u \in Threads : u # t => pc'[u] = pc[u]
        /\ value'[s] <= Cardinality(Woken(s)')
    BY SMTT(20), <1>0, <1>1, <1>2, FS_CardinalityType, FS_Subset, PagesAssumption DEF SemaDown, MustSleep,
       Goto, Woken
  <2>2. \A u \in Threads : u # t => WakeKeeps(u)
    BY <1>0, <2>1, BlockLemma, NextLemma DEF IInv, TypeOK, SchedTypeOK, SchedOK, WakeKeeps,
       Awake
  <2>3. ASSUME NEW x \in SemaIds, x # s
        PROVE  waiters'[x] # << >> => value'[x] <= Cardinality(Woken(x)')
    <3>1. /\ value'[x] <= value[x] /\ waiters'[x] = waiters[x]
          /\ \A u \in Threads : at[u] = x => WakeKeeps(u)
      BY SMTT(20), <1>0, <1>1, <2>1, <2>2, <2>3
    <3> QED
      BY <3>1, WakeFrame
  <2> QED
    BY <2>1, <2>3 DEF NoLostWakeup
<1>3. CASE ~MustSleep(t)
  <2>1. /\ value'[s] = value[s] - 1 /\ \A x \in SemaIds : x # s => value'[x] = value[x]
        /\ waiters' = waiters /\ status' = status
        /\ \A u \in Threads : u # t => pc'[u] = pc[u] /\ at'[u] = at[u]
        /\ \A u \in Threads : u # t => WakeKeeps(u)
    BY <1>0, <1>1, <1>3 DEF SemaDown, AfterDown, Goto, sched, WakeKeeps, Awake
  <2>2. ASSUME NEW x \in SemaIds, x # s
        PROVE  waiters'[x] # << >> => value'[x] <= Cardinality(Woken(x)')
    <3>1. /\ value'[x] <= value[x] /\ waiters'[x] = waiters[x]
          /\ \A u \in Threads : at[u] = x => WakeKeeps(u)
      BY SMTT(20), <1>0, <1>1, <2>1, <2>2
    <3> QED
      BY <3>1, WakeFrame
  <2>3. ASSUME waiters[s] # << >> PROVE value'[s] <= Cardinality(Woken(s)')
    <3>1. /\ Woken(s) \ {t} \subseteq Woken(s)'
          /\ IsFiniteSet(Woken(s)') /\ IsFiniteSet(Woken(s))
          /\ IsFiniteSet(Woken(s) \ {t})
          /\ \/ Cardinality(Woken(s) \ {t}) = Cardinality(Woken(s)) - 1
             \/ Cardinality(Woken(s) \ {t}) = Cardinality(Woken(s))
          /\ Cardinality(Woken(s)) \in Nat /\ Cardinality(Woken(s)') \in Nat
          /\ Cardinality(Woken(s) \ {t}) \in Nat
      BY <2>1, FS_CardinalityType, FS_RemoveElement, FS_Subset, PagesAssumption DEF Woken,
         WakeKeeps, Awake
    <3>2. /\ Cardinality(Woken(s) \ {t}) <= Cardinality(Woken(s)')
          /\ value[s] \in Nat /\ value[s] <= Cardinality(Woken(s))
      BY <1>0, <2>3, <3>1, FS_Subset DEF NoLostWakeup
    <3> QED
      BY SMTT(20), <2>1, <3>1, <3>2
  <2> QED
    BY <2>1, <2>2, <2>3 DEF NoLostWakeup
<1> QED
  BY <1>2, <1>3

(* Each step of a thread keeps NoLostWakeup. *)
LEMMA WakeContinue ==
  ASSUME IInv, IInv', NoLostWakeup, NEW t \in Threads, Continue(t)
  PROVE  NoLostWakeup'
<1> USE DEF Goto, At
<1>0. /\ value \in [SemaIds -> Nat] /\ pc \in [Threads -> PCs] /\ at \in [Threads -> SemaIds]
      /\ idle_started \in SemaIds
  BY DEF IInv, TypeOK, SemaIds
<1>1. CASE SetHolder(t) \/ WaitRelease(t) \/ TidRelease(t) \/ TidRead(t) \/ TidWrite(t) \/ IdleStart(t) \/ Broadcast(t)
  BY SMTT(20), <1>0, <1>1, WakeQuietLemma DEF SetHolder, WaitRelease, TidRelease, TidRead, TidWrite,
     IdleStart, Broadcast, PopWaiter, ClearHolder, synch, sched, WakeQuiet, WakeKeeps, Awake
<1>2. CASE ReleaseUp(t) \/ SignalUp(t) \/ IdleUp(t)
  BY <1>0, <1>2, WakeUp DEF ReleaseUp, SignalUp, IdleUp
<1>3. CASE Unblock(t)
  <2>1. /\ value' = value /\ waiters' = waiters /\ at' = at /\ pc[t] # "woken"
        /\ \A u \in Threads : u # t => pc'[u] = pc[u]
        /\ status' = [status EXCEPT ![kid[t]] = "READY"]
        /\ \A x \in SemaIds : value[x] \in Nat /\ value'[x] <= value[x]
    BY SMTT(20), <1>0, <1>3 DEF Unblock, thread_unblock, synch
  <2>2. /\ status \in [Threads -> {"FREE", "RUNNING", "READY", "BLOCKED", "DYING"}]
        /\ \A u \in Threads : Awake(u) => Awake(u)'
        /\ WakeQuiet
    BY <2>1 DEF IInv, TypeOK, SchedTypeOK, Awake, WakeQuiet, WakeKeeps
  <2> QED
    BY <2>2, WakeQuietLemma
<1>4. CASE IdleBlock(t)
  <2>1. \A u \in Threads : u # current' /\ u # current => status'[u] = status[u]
    BY <1>4, NextLemma, BlockLemma DEF IdleBlock, IInv, TypeOK
  <2>2. WakeQuiet
    BY SMTT(20), <1>0, <1>4, <2>1, SwitchKeeps DEF IdleBlock, synch, WakeQuiet
  <2> QED
    BY <2>2, WakeQuietLemma
<1> QED
  BY <1>1, <1>2, <1>3, <1>4, WakeDown DEF Continue

(* So does each call. *)
LEMMA WakeCall ==
  ASSUME IInv, IInv', NoLostWakeup, NEW t \in Threads, Call(t)
  PROVE  NoLostWakeup'
<1> USE DEF Goto, At
<1>0. /\ value \in [SemaIds -> Nat] /\ pc \in [Threads -> PCs] /\ at \in [Threads -> SemaIds]
      /\ waiters \in [SemaIds -> Seq(Threads)]
      /\ Semas \subseteq SemaIds /\ Locks \subseteq SemaIds
  BY DEF IInv, TypeOK, SemaIds
<1>1. ASSUME NEW s \in SemaIds,
             CallDown(t, s) \/ CallTryDown(t, s) \/ (s \in Locks /\ (CallTryAcquire(t, s) \/ CallRelease(t, s)))
      PROVE  NoLostWakeup'
  <2>1. /\ value' = value \/ value' = [value EXCEPT ![s] = @ - 1]
        /\ waiters' = waiters /\ status' = status /\ pc[t] # "woken"
        /\ \A u \in Threads : u # t => pc'[u] = pc[u] /\ at'[u] = at[u]
    BY <1>0, <1>1 DEF CallDown, CallTryDown, CallTryAcquire, CallRelease, ClearHolder, synch,
       sched
  <2>2. ASSUME NEW x \in SemaIds PROVE value'[x] <= value[x]
    <3>1. value[x] \in Nat /\ (value'[x] = value[x] \/ value'[x] = value[x] - 1)
      BY <1>0, <2>1
    <3> QED
      BY SMTT(20), <3>1
  <2>3. WakeQuiet
    BY <2>1, <2>2 DEF WakeQuiet, WakeKeeps, Awake
  <2> QED
    BY <2>3, WakeQuietLemma
<1>2. ASSUME NEW s \in Semas, CallUp(t, s) PROVE NoLostWakeup'
  BY <1>0, <1>2, WakeUp DEF CallUp
<1>3. ASSUME NEW c \in Conds, CallWait(t, c) \/ CallSignal(t, c) \/ CallBroadcast(t, c)
      PROVE  NoLostWakeup'
  <2>1. /\ value' = value \/ value' = [value EXCEPT ![t] = 0]
        /\ waiters' = waiters \/ waiters' = [waiters EXCEPT ![t] = << >>]
        /\ status' = status /\ pc[t] # "woken"
        /\ \A u \in Threads : u # t => pc'[u] = pc[u] /\ at'[u] = at[u]
    BY <1>0, <1>3 DEF CallWait, sched, CallSignal, PopWaiter, CallBroadcast, synch
  <2>2. ASSUME NEW x \in SemaIds
        PROVE  value'[x] <= value[x] /\ (waiters'[x] # << >> => waiters[x] # << >>)
    <3>1. /\ value[x] \in Nat /\ (value'[x] = value[x] \/ value'[x] = 0)
          /\ waiters'[x] = waiters[x] \/ waiters'[x] = << >>
      BY <1>0, <2>1
    <3> QED
      BY SMTT(20), <3>1
  <2>3. WakeQuiet
    BY <2>1, <2>2 DEF WakeQuiet, WakeKeeps, Awake
  <2> QED
    BY <2>3, WakeQuietLemma
<1>4. ASSUME NEW n \in Threads, CallCreate(t, n) PROVE NoLostWakeup'
  <2>1. /\ value' = value /\ waiters' = waiters /\ pc[t] = "call" /\ status[n] = "FREE"
        /\ \A u \in Threads : u # t /\ u # n => pc'[u] = pc[u] /\ at'[u] = at[u] /\ status'[u] = status[u]
        /\ t # n => status'[t] = status[t]
    BY SMTT(20), <1>0, <1>4 DEF CallCreate, init_thread, synch, IInv, TypeOK, SchedTypeOK
  <2>2. \A x \in SemaIds : value'[x] <= value[x]
    BY SMTT(20), <1>0, <2>1
  <2>3. WakeQuiet
    BY <2>1, <2>2 DEF WakeQuiet, WakeKeeps, Awake
  <2> QED
    BY <2>3, WakeQuietLemma
<1>5. CASE CallYield(t) \/ CallExit(t)
  <2>1. /\ \A u \in Threads : u # current' /\ u # current => status'[u] = status[u]
        /\ pc[current] # "woken" /\ UNCHANGED <<pc, at, value, waiters>>
        /\ \A x \in SemaIds : value'[x] <= value[x]
    BY SMTT(20), <1>0, <1>5, ExitLemma, NextLemma, YieldLemma DEF CallYield, CallExit, IInv, TypeOK, synch
  <2>2. WakeQuiet
    BY <2>1, SwitchKeeps DEF WakeQuiet
  <2> QED
    BY <2>2, WakeQuietLemma
<1> QED
  BY ZenonT(30), <1>0, <1>1, <1>2, <1>3, <1>4, <1>5 DEF Call, CallAcquire

(* synch.c: while a thread sleeps in sema_down, every unit of the           *)
(* semaphore is answered for by a thread already woken for it, so no wakeup *)
(* is lost: NoLostWakeup in every reachable state.                          *)
THEOREM WakeupsKept == Spec => []NoLostWakeup
<1>1. Init => NoLostWakeup
  BY SMTT(20) DEF Init, NoLostWakeup
<1>2. IInv /\ IInv' /\ NoLostWakeup /\ [Next]_vars => NoLostWakeup'
  <2> SUFFICES ASSUME IInv, IInv', NoLostWakeup, [Next]_vars PROVE NoLostWakeup'
    OBVIOUS
  <2>0. value \in [SemaIds -> Nat] /\ Semas \subseteq SemaIds
    BY DEF IInv, TypeOK, SemaIds
  <2>1. CASE TimerInterrupt
    BY SMTT(20), <2>0, <2>1, SwitchKeeps, WakeQuietLemma, YieldLemma DEF TimerInterrupt, thread_tick,
       IInv, TypeOK, IntrOn, WakeQuiet, synch
  <2>2. ASSUME NEW s \in Semas, DeviceInterrupt(s) PROVE NoLostWakeup'
    BY ZenonT(30), <2>0, <2>2, WakeUp DEF DeviceInterrupt
  <2>3. CASE UNCHANGED vars
    BY SMTT(20), <2>0, <2>3, WakeQuietLemma DEF vars, synch, sched, WakeQuiet, WakeKeeps, Awake
  <2> QED
    BY <2>1, <2>2, <2>3, WakeContinue, WakeCall DEF Next
<1> QED
  BY <1>1, <1>2, Invariance, PTL DEF Spec

==============================================================================
