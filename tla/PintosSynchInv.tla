--------------------------- MODULE PintosSynchInv ----------------------------
(****************************************************************************)
(* The inductive invariant of PintosSynch, what the operations that several *)
(* actions share do to it, and that the actions keep it that call neither   *)
(* sema_down nor sema_up: the calls, cond_wait, the loop of cond_broadcast, *)
(* allocate_tid and the idle thread's.                                      *)
(****************************************************************************)
EXTENDS PintosSynch, PintosSchedProofs

(* Leaves are for Zenon unless they name another prover.                    *)
USE Zenon

Alive(t) == status[t] \notin {"FREE", "DYING"}

(* Which program counters go with which registers: the part of the         *)
(* inductive invariant that no run needs to state by itself.               *)
Control(t) ==
  /\ pc[t] \in {"holder", "up"} => at[t] \in Locks /\ holder[at[t]] # t
  /\ pc[t] \in {"down", "woken"} /\ at[t] \in Threads => at[t] = t /\ cw[t] # NULL
  /\ pc[t] \in {"wait", "broadcast"} => cw[t] # NULL
  /\ pc[t] = "signal" => at[t] \in Threads
  /\ pc[t] \in {"tid_read", "tid_write", "tid_release", "unblock"} => kid[t] # NULL
  /\ pc[t] \in {"idle_start", "idle_up", "idle"} <=> t = idle
  /\ pc[t] # "call" => Alive(t)
  /\ cw[t] # NULL => /\ pc[t] \in {"wait", "up", "down", "woken", "broadcast", "signal"}
                     /\ pc[t] \in {"down", "woken"} => at[t] = t
  /\ kid[t] # NULL => /\ pc[t] \in {"down", "woken", "holder", "tid_read", "tid_write",
                                     "tid_release", "up", "unblock"}
                      /\ pc[t] \in {"down", "woken"} => at[t] = tid_lock
                      /\ cw[t] = NULL

Child(t) ==
  kid[t] # NULL => /\ status[kid[t]] = "BLOCKED" /\ pc[kid[t]] = "call"
                   /\ \A u \in Threads : kid[u] = kid[t] => u = t

ControlOK == \A t \in Threads : Control(t) /\ Child(t)

HolderAlive == \A l \in Locks : holder[l] # NULL => Alive(holder[l])

IdleOK == idle_thread = NULL <=> pc[idle] = "idle_start"

IInv == TypeOK /\ SchedOK /\ WaitersOK /\ LockOK /\ ControlOK /\ HolderAlive /\ IdleOK
-----------------------------------------------------------------------------
(* The scheduler's variables keep their types while they do not change.    *)
LEMMA SameSchedLemma ==
  ASSUME IInv, UNCHANGED sched
  PROVE  TypeOK /\ SchedTypeOK'
BY DEF IInv, TypeOK, SchedTypeOK, sched

(* The state thread_start leaves satisfies the invariant.                   *)
LEMMA InitLemma == Init => IInv
<1> SUFFICES ASSUME Init PROVE IInv
  OBVIOUS
<1>1. /\ TypeOK
      /\ SchedOK
      /\ WaitersOK
      /\ LockOK
      /\ ControlOK
      /\ HolderAlive /\ IdleOK
  BY SMTT(20), SchedAssumption, SynchAssumption DEF Init, SchedInit, TypeOK, SchedTypeOK, SemaIds, PCs,
     SchedOK, WaitersOK, LockOK, Owns, ControlOK, Control, Child, Alive, HolderAlive, IdleOK
<1> QED
  BY <1>1 DEF IInv

(* The running thread is on no list and nobody is creating it. *)
LEMMA RunningLemma ==
  ASSUME IInv
  PROVE  /\ current \in Threads
         /\ status[current] = "RUNNING"
         /\ \A s \in SemaIds : \A i \in DOMAIN waiters[s] : waiters[s][i] # current
         /\ \A u \in Threads : kid[u] # current
BY SMTT(20), SchedAssumption DEF IInv, SchedOK, TypeOK, SchedTypeOK, WaitersOK, ControlOK, Child

(* What a step of the running thread t leaves alone. *)
Frame(t) ==
  /\ t = current
  /\ kid' = kid
  /\ \A u \in Threads : u # t => pc'[u] = pc[u] /\ at'[u] = at[u] /\ cw'[u] = cw[u]
  /\ \A l \in Locks : holder'[l] \in {NULL, t, holder[l]}
  /\ pc'[idle] = "idle_start" <=> pc[idle] = "idle_start"

(* The control state of the other threads follows. *)
LEMMA FrameLemma ==
  ASSUME IInv, NEW t \in Threads, Frame(t), Control(t)',
         \A u \in Threads : Alive(u) => Alive(u)',
         \A u \in Threads : kid[u] # NULL => status'[kid[u]] = "BLOCKED"
  PROVE  ControlOK' /\ HolderAlive'
<1>1. \A u \in Threads : Control(u)'
  BY SMTT(20), SchedAssumption, SynchAssumption DEF IInv, ControlOK, Frame, Control
<1>2. \A u \in Threads : Child(u)'
  <2> SUFFICES ASSUME NEW u \in Threads, kid[u] # NULL PROVE Child(u)'
    BY DEF Frame, Child
  <2>1. /\ kid[u] \in Threads /\ kid[u] # t
        /\ Child(u)
    BY SMTT(20), RunningLemma DEF IInv, TypeOK, Frame, ControlOK
  <2> QED
    BY <2>1 DEF Frame, Child
<1>3. HolderAlive'
  <2> SUFFICES ASSUME NEW l \in Locks, holder'[l] # NULL PROVE Alive(holder[l])'
    BY DEF HolderAlive
  <2>1. CASE holder'[l] = t
    BY <2>1, RunningLemma DEF Frame, Alive
  <2>2. CASE holder'[l] = holder[l]
    BY <2>2 DEF Alive, IInv, HolderAlive, TypeOK
  <2> QED
    BY <2>1, <2>2 DEF Frame
<1> QED
  BY <1>1, <1>2, <1>3 DEF ControlOK

(* A thread asleep on a semaphore is not the idle thread. *)
LEMMA WaiterLemma ==
  ASSUME IInv, NEW s \in SemaIds, NEW i \in DOMAIN waiters[s]
  PROVE  /\ waiters[s][i] \in Threads
         /\ status[waiters[s][i]] = "BLOCKED"
         /\ pc[waiters[s][i]] = "woken" /\ at[waiters[s][i]] = s
         /\ waiters[s][i] # idle
         /\ waiters[s][i] # idle_thread
         /\ \A u \in Threads : kid[u] # waiters[s][i]
<1>1. /\ waiters[s][i] \in Threads
      /\ status[waiters[s][i]] = "BLOCKED"
      /\ pc[waiters[s][i]] = "woken" /\ at[waiters[s][i]] = s
  BY SMTT(20) DEF IInv, TypeOK, WaitersOK
<1>2. waiters[s][i] # idle /\ idle_thread \in {NULL, idle}
  BY <1>1 DEF IInv, ControlOK, Control, TypeOK, SchedTypeOK
<1>3. \A u \in Threads : kid[u] # waiters[s][i]
  BY <1>1, SchedAssumption DEF IInv, ControlOK, Child
<1> QED
  BY <1>1, <1>2, <1>3, SchedAssumption

(* WaitersOK survives a step that leaves the lists and their members alone, *)
(* if whoever is blocked afterwards was so before, or is being created.     *)
LEMMA SameWaitersLemma ==
  ASSUME IInv, waiters' = waiters,
         \A u \in Threads : pc[u] = "woken" /\ status[u] = "BLOCKED" =>
           pc'[u] = pc[u] /\ at'[u] = at[u] /\ status'[u] = status[u],
         \A u \in Threads : status'[u] = "BLOCKED" =>
           \/ /\ status[u] = "BLOCKED" /\ pc'[u] = pc[u] /\ at'[u] = at[u]
              /\ u = idle_thread => u = idle_thread'
              /\ \A w \in Threads : kid[w] = u => kid'[w] = u
           \/ \E w \in Threads : kid'[w] = u
  PROVE  WaitersOK'
<1>0. WaitersOK
  BY DEF IInv
<1>1. ASSUME NEW s \in SemaIds, NEW i \in DOMAIN waiters[s]
      PROVE  /\ status'[waiters[s][i]] = "BLOCKED"
             /\ pc'[waiters[s][i]] = "woken" /\ at'[waiters[s][i]] = s
  BY SMTT(20), WaiterLemma
<1>2. ASSUME NEW s \in SemaIds, NEW i \in DOMAIN waiters[s], NEW k \in DOMAIN waiters[s],
             waiters[s][k] = waiters[s][i]
      PROVE  k = i
  BY <1>0, <1>2 DEF WaitersOK
<1>3. ASSUME NEW u \in Threads, status'[u] = "BLOCKED"
      PROVE  \/ pc'[u] = "woken" /\ \E i \in DOMAIN waiters[at'[u]] : waiters[at'[u]][i] = u
             \/ u = idle_thread' /\ pc'[u] = "idle"
             \/ \E w \in Threads : kid'[w] = u
  BY SMTT(20), <1>0, <1>3 DEF WaitersOK
<1> QED
  BY SMTT(20), <1>1, <1>2, <1>3 DEF WaitersOK

(* Steps that leave the scheduler and the wait lists alone. *)
LEMMA PureLemma ==
  ASSUME IInv, NEW t \in Threads, Frame(t), UNCHANGED sched, waiters' = waiters,
         TypeOK', Control(t)', LockOK'
  PROVE  IInv'
<1>1. /\ current' = current /\ status' = status /\ ready' = ready
      /\ idle_thread' = idle_thread /\ slice' = slice
  BY DEF sched
<1>2. SchedOK' /\ IdleOK'
  <2>1. SchedOK'
    BY <1>1 DEF IInv, SchedOK
  <2>2. IdleOK'
    BY SMTT(20), <1>1 DEF IInv, IdleOK, Frame
  <2> QED
    BY <2>1, <2>2
<1>3. ControlOK' /\ HolderAlive'
  <2>1. \A u \in Threads : kid[u] # NULL => status'[kid[u]] = "BLOCKED"
    BY <1>1 DEF IInv, ControlOK, Child
  <2> QED
    BY <1>1, <2>1, FrameLemma DEF Alive
<1>4. WaitersOK'
  <2>1. status[t] # "BLOCKED"
    BY RunningLemma DEF Frame
  <2> QED
    BY <1>1, <2>1, SameWaitersLemma DEF Frame
<1> QED
  BY <1>2, <1>3, <1>4 DEF IInv

(* LockOK survives a step that changes neither the locks' semaphores nor    *)
(* who owns what.                                                           *)
LEMMA LockLemma ==
  ASSUME LockOK,
         \A l \in Locks : value'[l] = value[l],
         \A l \in Locks, u \in Threads : Owns(u, l)' <=> Owns(u, l)
  PROVE  LockOK'
BY DEF LockOK

(* sema_up by the running thread or by an interrupt handler: the first      *)
(* waiter moves from the semaphore's list to the ready list.                *)
LEMMA UpLemma ==
  ASSUME IInv, NEW t \in Threads, Frame(t), NEW s \in SemaIds, sema_up(s),
         pc' \in [Threads -> PCs], at' \in [Threads -> SemaIds],
         cw' \in [Threads -> Conds \cup {NULL}], UNCHANGED tids,
         Control(t)', LockOK'
  PROVE  IInv'
<1>0. /\ value' = [value EXCEPT ![s] = @ + 1]
      /\ holder' = holder /\ cwaiters' = cwaiters /\ kid' = kid /\ tid' = tid /\ next_tid' = next_tid
  BY DEF sema_up, Frame, tids
<1>1. value' \in [SemaIds -> Nat]
  BY SMTT(20), <1>0 DEF IInv, TypeOK
<1>2. CASE waiters[s] = << >>
  <2>1. UNCHANGED sched /\ waiters' = waiters
    BY <1>2 DEF sema_up
  <2>2. TypeOK'
    BY <1>0, <2>1, <1>1 DEF IInv, SchedTypeOK, sched, TypeOK
  <2> QED
    BY <2>1, <2>2, PureLemma
<1>3. CASE waiters[s] # << >>
  <2> DEFINE u == Head(waiters[s])
  <2>1. /\ waiters \in [SemaIds -> Seq(Threads)] /\ waiters[s] \in Seq(Threads)
        /\ 1 \in DOMAIN waiters[s] /\ u = waiters[s][1]
    BY <1>3, TailLemma DEF IInv, TypeOK
  <2>2. /\ u \in Threads /\ status[u] = "BLOCKED" /\ pc[u] = "woken" /\ at[u] = s
        /\ u # idle_thread /\ \A v \in Threads : kid[v] # u
    BY SMTT(20), <2>1, WaiterLemma
  <2>3. thread_unblock(u) /\ waiters' = [waiters EXCEPT ![s] = Tail(waiters[s])]
    BY <1>3 DEF sema_up
  <2> HIDE DEF u
  <2>4. LET w == waiters[s]
        IN  /\ DOMAIN w \subseteq Nat /\ DOMAIN Tail(w) \subseteq Nat
            /\ \A i \in DOMAIN Tail(w) : i + 1 \in DOMAIN w /\ i + 1 # 1 /\ Tail(w)[i] = w[i + 1]
            /\ \A i \in DOMAIN w : i = 1 \/ (i - 1 \in DOMAIN Tail(w) /\ w[i] = Tail(w)[i - 1])
    BY SMTT(20), <1>3, <2>1, TailLemma
  <2>5. /\ SchedTypeOK' /\ SchedOK' /\ idle_thread' = idle_thread /\ current' = current
        /\ status'[u] = "READY"
        /\ \A v \in Threads : v # u => status'[v] = status[v]
    BY <2>2, <2>3, UnblockLemma DEF IInv, TypeOK
  <2>6. TypeOK'
    <3>1. Tail(waiters[s]) \in Seq(Threads)
      BY SMTT(20), <2>1, <1>3
    <3>2. waiters' \in [SemaIds -> Seq(Threads)]
      BY <2>1, <2>3, <3>1
    <3>3. TypeOK
      BY DEF IInv
    <3> QED
      BY <1>0, <1>1, <2>5, <3>2, <3>3 DEF TypeOK
  <2>7. ControlOK' /\ HolderAlive'
    <3>1. \A v \in Threads : Alive(v) => Alive(v)'
      BY <2>2, <2>5 DEF Alive
    <3>2. \A v \in Threads : kid[v] # NULL => status'[kid[v]] = "BLOCKED"
      <4>1. \A v \in Threads : kid[v] # NULL => kid[v] \in Threads /\ status[kid[v]] = "BLOCKED"
        BY DEF IInv, TypeOK, ControlOK, Child
      <4> QED
        BY <2>2, <2>5, <4>1
    <3> QED
      BY <3>1, <3>2, FrameLemma
  <2>8. IdleOK'
    BY <2>5 DEF IInv, IdleOK, Frame
  <2>9. \A x \in SemaIds : \A i \in DOMAIN waiters'[x] :
          /\ waiters'[x][i] \in Threads \ {t, u}
          /\ status'[waiters'[x][i]] = "BLOCKED"
          /\ pc'[waiters'[x][i]] = "woken" /\ at'[waiters'[x][i]] = x
          /\ \A k \in DOMAIN waiters'[x] : waiters'[x][k] = waiters'[x][i] => k = i
    <3> SUFFICES ASSUME NEW x \in SemaIds, NEW i \in DOMAIN waiters'[x]
                 PROVE  /\ waiters'[x][i] \in Threads \ {t, u}
                        /\ status'[waiters'[x][i]] = "BLOCKED"
                        /\ pc'[waiters'[x][i]] = "woken" /\ at'[waiters'[x][i]] = x
                        /\ \A k \in DOMAIN waiters'[x] : waiters'[x][k] = waiters'[x][i] => k = i
      OBVIOUS
    <3>1. CASE x # s
      <4>1. waiters'[x] = waiters[x]
        BY <3>1, <2>1, <2>3
      <4>2. /\ waiters[x][i] \in Threads /\ status[waiters[x][i]] = "BLOCKED"
            /\ pc[waiters[x][i]] = "woken" /\ at[waiters[x][i]] = x /\ waiters[x][i] # t
        BY SMTT(20), <4>1, WaiterLemma, RunningLemma DEF Frame
      <4> QED
        BY SMTT(20), <4>1, <4>2, <3>1, <2>2, <2>5 DEF IInv, WaitersOK, Frame
    <3>2. CASE x = s
      <4>1. waiters'[s] = Tail(waiters[s])
        BY <2>1, <2>3
      <4>2. i \in Nat /\ i + 1 \in DOMAIN waiters[s] /\ waiters'[s][i] = waiters[s][i + 1]
        BY <4>1, <3>2, <2>4
      <4>3. /\ waiters[s][i + 1] \in Threads /\ status[waiters[s][i + 1]] = "BLOCKED"
            /\ pc[waiters[s][i + 1]] = "woken" /\ at[waiters[s][i + 1]] = s /\ waiters[s][i + 1] # t
        BY SMTT(20), <4>2, WaiterLemma, RunningLemma DEF Frame
      <4>4. \A k, n \in DOMAIN waiters[s] : waiters[s][k] = waiters[s][n] => k = n
        BY DEF IInv, WaitersOK
      <4>5. waiters[s][i + 1] # u
        BY <4>1, <4>2, <4>4, <3>2, <2>1, <2>4
      <4>6. \A k \in DOMAIN waiters'[s] : waiters'[s][k] = waiters'[s][i] => k = i
        <5> SUFFICES ASSUME NEW k \in DOMAIN waiters'[s], waiters'[s][k] = waiters'[s][i]
                     PROVE  k = i
          OBVIOUS
        <5>1. k \in Nat /\ k + 1 \in DOMAIN waiters[s] /\ waiters'[s][k] = waiters[s][k + 1]
          BY <4>1, <2>4
        <5>2. k + 1 = i + 1
          BY <5>1, <4>2, <4>4
        <5> QED
          BY SMTT(20), <5>1, <5>2, <4>2
      <4> QED
        BY SMTT(20), <4>2, <4>3, <4>5, <4>6, <3>2, <2>5 DEF Frame
    <3> QED
      BY <3>1, <3>2
  <2>10. \A v \in Threads : status'[v] = "BLOCKED" =>
           \/ pc'[v] = "woken" /\ \E i \in DOMAIN waiters'[at'[v]] : waiters'[at'[v]][i] = v
           \/ v = idle_thread' /\ pc'[v] = "idle"
           \/ \E w \in Threads : kid'[w] = v
    <3> SUFFICES ASSUME NEW v \in Threads, status'[v] = "BLOCKED"
                 PROVE  \/ pc'[v] = "woken" /\ \E i \in DOMAIN waiters'[at'[v]] : waiters'[at'[v]][i] = v
                        \/ v = idle_thread' /\ pc'[v] = "idle"
                        \/ \E w \in Threads : kid'[w] = v
      OBVIOUS
    <3>1. v # u /\ status[v] = "BLOCKED" /\ v # t
      BY <2>2, <2>5, RunningLemma DEF Frame
    <3>2. pc'[v] = pc[v] /\ at'[v] = at[v] /\ at[v] \in SemaIds
      BY <3>1 DEF Frame, IInv, TypeOK
    <3>3. ASSUME NEW i \in DOMAIN waiters[at[v]], waiters[at[v]][i] = v
          PROVE  \E k \in DOMAIN waiters'[at[v]] : waiters'[at[v]][k] = v
      <4>1. CASE at[v] # s
        BY <4>1, <3>2, <3>3, <2>1, <2>3
      <4>2. CASE at[v] = s
        <5>1. waiters'[s] = Tail(waiters[s])
          BY <2>1, <2>3
        <5>2. i # 1
          BY <4>2, <3>1, <3>3, <2>1
        <5>3. i - 1 \in DOMAIN waiters'[s] /\ waiters'[s][i - 1] = v
          BY <5>1, <5>2, <4>2, <3>3, <2>4
        <5> QED
          BY <5>3, <4>2
      <4> QED
        BY <4>1, <4>2
    <3> QED
      BY SMTT(20), <3>1, <3>2, <3>3, <2>5, <1>0 DEF IInv, WaitersOK
  <2> QED
    BY SMTT(20), <2>5, <2>6, <2>7, <2>8, <2>9, <2>10 DEF IInv, WaitersOK
<1> QED
  BY <1>2, <1>3

(* Whenever a thread gives up the processor, schedule finds another one:    *)
(* until the idle thread has run it is on the ready list.                   *)
LEMMA NextLemma ==
  ASSUME IInv, pc[current] # "idle_start"
  PROVE  ready = << >> => idle_thread # NULL
<1> SUFFICES ASSUME ready = << >>, idle_thread = NULL PROVE FALSE
  OBVIOUS
<1>1. /\ pc[idle] = "idle_start" /\ status \in [Threads -> StatusSet]
      /\ Alive(idle) /\ status[idle] # "RUNNING"
      /\ status[idle] # "READY"
  BY SMTT(20), SchedAssumption DEF IInv, IdleOK, TypeOK, SchedTypeOK, StatusSet, ControlOK, Control,
     SchedOK
<1>2. status[idle] # "BLOCKED"
  BY SMTT(20), <1>1, SchedAssumption DEF IInv, WaitersOK, ControlOK, Child
<1> QED
  BY <1>1, <1>2, SchedAssumption DEF Alive, StatusSet

(* Switches of the processor that change no thread's control state. *)
LEMMA SwitchLemma ==
  ASSUME IInv, SchedTypeOK', SchedOK', idle_thread' = idle_thread,
         UNCHANGED <<synch, pc, at, cw, kid, tids>>,
         \A u \in Threads : Alive(u) <=> Alive(u)',
         \A u \in Threads : u # idle => (status'[u] = "BLOCKED" <=> status[u] = "BLOCKED"),
         status'[idle] = "BLOCKED" => pc[idle] = "idle"
  PROVE  IInv'
<1>0. /\ value' = value /\ waiters' = waiters /\ holder' = holder /\ cwaiters' = cwaiters
      /\ pc' = pc /\ at' = at /\ cw' = cw /\ kid' = kid /\ tid' = tid /\ next_tid' = next_tid
      /\ TypeOK'
  BY DEF synch, tids, IInv, TypeOK
<1>1. \A u \in Threads : kid[u] # idle
  BY SMTT(20), SchedAssumption DEF IInv, ControlOK, Child, Control
<1>2. /\ ControlOK'
      /\ HolderAlive' /\ IdleOK'
      /\ LockOK'
  BY SMTT(20), <1>0, <1>1, LockLemma DEF IInv, ControlOK, Control, Child, TypeOK, HolderAlive, IdleOK,
     Alive, Owns
<1>3. WaitersOK'
  <2>1. \A s \in SemaIds : \A i \in DOMAIN waiters[s] :
          status'[waiters[s][i]] = "BLOCKED"
    BY SMTT(20), WaiterLemma
  <2>2. \A u \in Threads : status'[u] = "BLOCKED" =>
          \/ pc[u] = "woken" /\ \E i \in DOMAIN waiters[at[u]] : waiters[at[u]][i] = u
          \/ u = idle_thread /\ pc[u] = "idle"
          \/ \E w \in Threads : kid[w] = u
    <3>1. pc[idle] = "idle" => idle_thread = idle
      BY DEF IInv, IdleOK, TypeOK, SchedTypeOK
    <3>2. ASSUME NEW u \in Threads, status'[u] = "BLOCKED", u # idle
          PROVE  \/ pc[u] = "woken" /\ \E i \in DOMAIN waiters[at[u]] : waiters[at[u]][i] = u
                 \/ u = idle_thread /\ pc[u] = "idle"
                 \/ \E w \in Threads : kid[w] = u
      BY <3>2 DEF IInv, WaitersOK
    <3> QED
      BY <3>1, <3>2
  <2> QED
    BY SMTT(20), <2>1, <2>2, <1>0 DEF IInv, WaitersOK
<1> QED
  BY <1>0, <1>2, <1>3 DEF IInv

(* thread_yield, called by a running thread, preserves IInv.                *)
LEMMA YieldStep ==
  ASSUME IInv, thread_yield, UNCHANGED <<synch, pc, at, cw, kid, tids>>
  PROVE  IInv'
<1>1. /\ SchedTypeOK' /\ SchedOK' /\ idle_thread' = idle_thread
      /\ status[current'] \in {"READY", "RUNNING"} \/ current' = idle_thread
      /\ \A t \in Threads : t # current' =>
              status'[t] = IF t = current THEN "READY" ELSE status[t]
  BY YieldLemma DEF IInv, TypeOK
<1>2. /\ current \in Threads /\ status[current] = "RUNNING"
      /\ current' \in Threads /\ status'[current'] = "RUNNING"
      /\ idle_thread \in {NULL, idle}
      /\ Alive(idle)
  BY <1>1, SchedAssumption DEF IInv, TypeOK, SchedTypeOK, SchedOK, ControlOK, Control
<1>3. /\ \A u \in Threads : Alive(u) <=> Alive(u)'
      /\ \A u \in Threads : u # idle => (status'[u] = "BLOCKED" <=> status[u] = "BLOCKED")
      /\ status'[idle] = "BLOCKED" => status[idle] = "BLOCKED"
      /\ status[idle] = "BLOCKED" => pc[idle] = "idle"
  BY SMTT(20), <1>1, <1>2, SchedAssumption DEF Alive, IInv, WaitersOK, ControlOK, Control, Child
<1> QED
  BY <1>1, <1>3, SwitchLemma

(* The timer interrupt, with or without a switch at the end of the slice,   *)
(* preserves IInv.                                                          *)
LEMMA TimerStep ==
  ASSUME IInv, TimerInterrupt
  PROVE  IInv'
<1>1. CASE slice + 1 >= TIME_SLICE
  BY <1>1, YieldStep DEF TimerInterrupt, thread_tick
<1>2. CASE ~(slice + 1 >= TIME_SLICE)
  <2>1. /\ slice' = slice + 1 /\ UNCHANGED <<current, status, ready, idle_thread>>
        /\ UNCHANGED <<synch, pc, at, cw, kid, tids>>
        /\ SchedTypeOK' /\ SchedOK'
    BY SMTT(20), <1>2, SchedAssumption DEF TimerInterrupt, thread_tick, IInv, TypeOK, SchedTypeOK, SchedOK
  <2>2. status[idle] = "BLOCKED" => pc[idle] = "idle"
    BY SMTT(20), SchedAssumption DEF IInv, WaitersOK, ControlOK, Control, Child
  <2> QED
    BY <2>1, <2>2, SwitchLemma DEF Alive
<1> QED
  BY <1>1, <1>2

(* The idle thread's thread_block preserves IInv.                           *)
LEMMA IdleBlockStep ==
  ASSUME IInv, NEW t \in Threads, IdleBlock(t)
  PROVE  IInv'
<1>0. /\ current = t /\ pc[t] = "idle" /\ thread_block
      /\ UNCHANGED <<synch, pc, at, cw, kid, tids>>
      /\ t = idle /\ Alive(idle)
      /\ SchedTypeOK' /\ SchedOK' /\ idle_thread' = idle_thread
      /\ status[current'] = "READY" \/ current' = idle_thread
      /\ \A u \in Threads : u # current' =>
              status'[u] = IF u = current THEN "BLOCKED" ELSE status[u]
  BY SMTT(20), BlockLemma, NextLemma DEF IdleBlock, At, IInv, ControlOK, Control, TypeOK
<1>1. /\ current' \in Threads /\ status'[current'] = "RUNNING"
      /\ idle_thread \in {NULL, idle}
  BY <1>0 DEF IInv, TypeOK, SchedTypeOK, SchedOK
<1>2. /\ \A u \in Threads : Alive(u) <=> Alive(u)'
      /\ \A u \in Threads : u # idle => (status'[u] = "BLOCKED" <=> status[u] = "BLOCKED")
  BY <1>0, <1>1, SchedAssumption DEF Alive
<1> QED
  BY <1>0, <1>2, SwitchLemma

-----------------------------------------------------------------------------
(* What is known of the running thread t at program counter l. *)
LEMMA AtLemma ==
  ASSUME IInv, NEW t \in Threads, current = t
  PROVE  /\ status[t] = "RUNNING" /\ Alive(t) /\ Control(t)
         /\ pc[t] \notin {"idle_start", "idle_up", "idle"} => t # idle
         /\ kid[t] \in Threads \cup {NULL} /\ cw[t] \in Conds \cup {NULL}
         /\ at[t] \in SemaIds /\ pc[t] \in PCs
BY SMTT(20), RunningLemma DEF IInv, ControlOK, Alive, Control, TypeOK

(* lock_release clears the holder and keeps the semaphore until sema_up. *)
LEMMA ClearLemma ==
  ASSUME IInv, NEW t \in Threads, current = t, NEW l \in Locks, ClearHolder(t, l),
         pc[t] \in {"call", "wait", "tid_release"}
  PROVE  IInv'
<1>0. /\ Alive(t) /\ Control(t) /\ t # idle /\ holder[l] = t
      /\ status' = status /\ value' = value /\ waiters' = waiters /\ kid' = kid /\ cwaiters' = cwaiters
      /\ cw' = cw /\ tid' = tid /\ next_tid' = next_tid /\ UNCHANGED sched
      /\ holder' = [holder EXCEPT ![l] = NULL] /\ at' = [at EXCEPT ![t] = l]
      /\ pc' = [pc EXCEPT ![t] = "up"]
      /\ TypeOK'
  BY AtLemma DEF ClearHolder, sched, tids, Goto, IInv, TypeOK, SchedTypeOK, PCs, SemaIds
<1>1. /\ pc'[t] = "up" /\ at'[t] = l /\ holder'[l] = NULL
      /\ \A u \in Threads : u # t => pc'[u] = pc[u] /\ at'[u] = at[u]
      /\ \A k \in Locks : k # l => holder'[k] = holder[k]
      /\ Frame(t)
  BY SMTT(20), <1>0, SchedAssumption, SynchAssumption DEF IInv, TypeOK, Frame
<1>2. /\ LockOK'
      /\ Control(t)'
  BY SMTT(20), <1>0, <1>1, LockLemma, SchedAssumption, SynchAssumption DEF Owns, Alive, IInv, Control
<1> QED
  BY <1>0, <1>1, <1>2, PureLemma

(* The assignment of lock->holder in lock_acquire preserves IInv: the       *)
(* thread has owned the lock since its sema_down.                           *)
LEMMA SetHolderStep ==
  ASSUME IInv, NEW t \in Threads, SetHolder(t)
  PROVE  IInv'
<1>0. /\ current = t /\ pc[t] = "holder"
      /\ status' = status /\ value' = value /\ waiters' = waiters /\ kid' = kid /\ cwaiters' = cwaiters
      /\ at' = at /\ cw' = cw /\ tid' = tid /\ next_tid' = next_tid /\ UNCHANGED sched
      /\ Alive(t) /\ Control(t) /\ t # idle /\ at[t] \in Locks /\ holder[at[t]] # t
      /\ holder' = [holder EXCEPT ![at[t]] = t]
      /\ pc' = [pc EXCEPT ![t] = IF kid[t] # NULL THEN "tid_read" ELSE "call"]
      /\ TypeOK'
  BY AtLemma DEF SetHolder, At, sched, tids, Control, Goto, IInv, TypeOK, SchedTypeOK, PCs
<1>1. /\ pc'[t] = IF kid[t] # NULL THEN "tid_read" ELSE "call"
      /\ holder'[at[t]] = t
      /\ \A u \in Threads : u # t => pc'[u] = pc[u]
      /\ \A k \in Locks : k # at[t] => holder'[k] = holder[k]
      /\ Frame(t)
  BY SMTT(20), <1>0, SchedAssumption, SynchAssumption DEF IInv, TypeOK, Frame
<1>2. /\ LockOK'
      /\ Control(t)'
  BY SMTT(20), <1>0, <1>1, LockLemma DEF Owns, Alive, IInv, LockOK, Control
<1> QED
  BY <1>0, <1>1, <1>2, PureLemma

(* Steps that concern no lock: the semaphores of the locks and the holders  *)
(* stay, and t is neither acquiring nor releasing.                          *)
LEMMA LocalLemma ==
  ASSUME IInv, NEW t \in Threads, current = t, UNCHANGED <<sched, waiters, holder, kid>>,
         \A l \in Locks : value'[l] = value[l],
         \A u \in Threads : u # t => pc'[u] = pc[u] /\ at'[u] = at[u] /\ cw'[u] = cw[u],
         pc[t] \notin {"holder", "up"}, pc'[t] \notin {"holder", "up"},
         t # idle, TypeOK', Control(t)'
  PROVE  IInv'
BY LockLemma, PureLemma, SchedAssumption, SynchAssumption DEF Frame, Owns, sched, IInv

(* Entering sema_down, directly or from lock_acquire, preserves IInv.       *)
LEMMA CallDownStep ==
  ASSUME IInv, NEW t \in Threads, NEW s \in Semas \cup Locks, CallDown(t, s)
  PROVE  IInv'
<1>0. /\ current = t /\ pc[t] = "call"
      /\ pc' = [pc EXCEPT ![t] = "down"] /\ at' = [at EXCEPT ![t] = s]
      /\ UNCHANGED <<sched, value, waiters, holder, cwaiters, cw, kid, tid, next_tid>>
      /\ Alive(t) /\ Control(t) /\ t # idle
      /\ TypeOK'
      /\ pc'[t] = "down" /\ at'[t] = s
      /\ \A u \in Threads : u # t => pc'[u] = pc[u] /\ at'[u] = at[u]
  BY AtLemma DEF CallDown, At, Goto, synch, tids, IInv, TypeOK, SchedTypeOK, sched, PCs, SemaIds
<1>1. Control(t)'
  BY <1>0, SchedAssumption, SynchAssumption DEF Control, Alive, sched
<1> QED
  BY <1>0, <1>1, LocalLemma

(* sema_try_down preserves IInv.                                            *)
LEMMA CallTryDownStep ==
  ASSUME IInv, NEW t \in Threads, NEW s \in Semas, CallTryDown(t, s)
  PROVE  IInv'
<1>0. /\ current = t /\ pc[t] = "call" /\ value[s] > 0
      /\ value' = [value EXCEPT ![s] = @ - 1]
      /\ UNCHANGED <<sched, waiters, holder, cwaiters, pc, at, cw, kid, tid, next_tid>>
      /\ Alive(t) /\ Control(t) /\ t # idle
  BY AtLemma DEF CallTryDown, At, tids
<1>1. value' \in [SemaIds -> Nat] /\ \A l \in Locks : value'[l] = value[l]
  <2>1. value \in [SemaIds -> Nat] /\ s \in SemaIds /\ value[s] \in Nat /\ value[s] - 1 \in Nat
    BY SMTT(20), <1>0 DEF IInv, TypeOK, SemaIds
  <2> QED
    BY <1>0, <2>1, SchedAssumption, SynchAssumption DEF SemaIds
<1>2. /\ TypeOK'
      /\ Control(t)'
  BY <1>0, <1>1, SameSchedLemma DEF TypeOK, Control, Alive, sched
<1> QED
  BY <1>0, <1>1, <1>2, LocalLemma

(* The sema_try_down of lock_try_acquire makes the caller the lock's owner  *)
(* and preserves IInv.                                                      *)
LEMMA CallTryAcquireStep ==
  ASSUME IInv, NEW t \in Threads, NEW l \in Locks, CallTryAcquire(t, l)
  PROVE  IInv'
<1>0. /\ current = t /\ pc[t] = "call" /\ value[l] > 0 /\ holder[l] # t
      /\ value' = [value EXCEPT ![l] = @ - 1]
      /\ pc' = [pc EXCEPT ![t] = "holder"] /\ at' = [at EXCEPT ![t] = l]
      /\ UNCHANGED <<sched, waiters, holder, cwaiters, cw, kid, tid, next_tid>>
      /\ Alive(t) /\ Control(t) /\ t # idle
      /\ value[l] = 1 /\ \A u \in Threads : ~Owns(u, l)
  BY SMTT(20), AtLemma DEF CallTryAcquire, At, Goto, tids, IInv, LockOK
<1>1. /\ value' \in [SemaIds -> Nat] /\ value'[l] = 0
      /\ \A k \in Locks : k # l => value'[k] = value[k]
      /\ TypeOK'
      /\ pc'[t] = "holder" /\ at'[t] = l
      /\ \A u \in Threads : u # t => pc'[u] = pc[u] /\ at'[u] = at[u]
      /\ status' = status
      /\ Frame(t)
  BY SMTT(20), <1>0, SchedAssumption DEF IInv, TypeOK, SemaIds, SchedTypeOK, sched, PCs, Frame
<1>2. /\ LockOK'
      /\ Control(t)'
  BY SMTT(20), <1>0, <1>1 DEF Owns, Alive, IInv, LockOK, Control
<1> QED
  BY <1>0, <1>1, <1>2, PureLemma

-----------------------------------------------------------------------------

(* Nobody sleeps on the semaphore of a thread that is not in cond_wait, so  *)
(* initialising it in cond_wait loses no waiter.                            *)
LEMMA CallWaitStep ==
  ASSUME IInv, NEW t \in Threads, NEW c \in Conds, CallWait(t, c)
  PROVE  IInv'
<1>0. /\ current = t /\ pc[t] = "call"
      /\ value' = [value EXCEPT ![t] = 0] /\ waiters' = [waiters EXCEPT ![t] = << >>]
      /\ cwaiters' = [cwaiters EXCEPT ![c] = Append(@, t)]
      /\ cw' = [cw EXCEPT ![t] = c] /\ pc' = [pc EXCEPT ![t] = "wait"]
      /\ UNCHANGED <<sched, holder, at, kid, tid, next_tid>>
      /\ Alive(t) /\ Control(t) /\ t # idle
  BY AtLemma DEF CallWait, At, Goto, tids
<1>1. waiters' = waiters
  <2>1. waiters \in [SemaIds -> Seq(Threads)] /\ t \in SemaIds
    BY DEF IInv, TypeOK, SemaIds
  <2>2. waiters[t] = << >>
    <3> SUFFICES ASSUME waiters[t] # << >> PROVE FALSE
      OBVIOUS
    <3>1. 1 \in DOMAIN waiters[t]
      BY SMTT(20), <2>1
    <3>2. PICK u : u = waiters[t][1]
      OBVIOUS
    <3>3. u \in Threads /\ pc[u] = "woken" /\ at[u] = t
      BY SMTT(20), <2>1, <3>1, <3>2, WaiterLemma
    <3>4. Control(u)
      BY <3>3 DEF IInv, ControlOK
    <3> QED
      BY <1>0, <3>3, <3>4 DEF Control
  <2> QED
    BY <1>0, <2>1, <2>2
<1>2. value' \in [SemaIds -> Nat] /\ \A l \in Locks : value'[l] = value[l]
  BY SMTT(20), <1>0, SynchAssumption DEF IInv, TypeOK, SemaIds
<1>3. TypeOK'
  <2>1. /\ cwaiters' \in [Conds -> Seq(Threads)]
        /\ cw' \in [Threads -> Conds \cup {NULL}] /\ pc' \in [Threads -> PCs]
    BY SMTT(20), <1>0, SameSchedLemma DEF IInv, TypeOK, PCs
  <2> QED
    BY <1>0, <1>1, <1>2, <2>1, SameSchedLemma DEF TypeOK
<1>4. /\ pc'[t] = "wait" /\ cw'[t] = c /\ c # NULL
      /\ \A u \in Threads : u # t => pc'[u] = pc[u] /\ cw'[u] = cw[u]
      /\ Control(t)'
  BY <1>0, SchedAssumption, SynchAssumption DEF IInv, TypeOK, Control, Alive, sched
<1> QED
  BY <1>0, <1>1, <1>2, <1>3, <1>4, LocalLemma

(* list_pop_front on cond->waiters in cond_signal preserves IInv.           *)
LEMMA PopLemma ==
  ASSUME IInv, NEW t \in Threads, current = t, pc[t] \in {"call", "broadcast"},
         NEW c \in Conds, PopWaiter(t, c), UNCHANGED cw
  PROVE  IInv'
<1>0. /\ cwaiters[c] # << >>
      /\ cwaiters' = [cwaiters EXCEPT ![c] = Tail(@)]
      /\ at' = [at EXCEPT ![t] = Head(cwaiters[c])] /\ pc' = [pc EXCEPT ![t] = "signal"]
      /\ UNCHANGED <<sched, value, waiters, holder, cw, kid, tid, next_tid>>
      /\ Alive(t) /\ Control(t) /\ t # idle
      /\ cwaiters \in [Conds -> Seq(Threads)]
      /\ Head(cwaiters[c]) \in Threads /\ Tail(cwaiters[c]) \in Seq(Threads)
  BY AtLemma, TailLemma DEF PopWaiter, Goto, tids, IInv, TypeOK
<1>1. /\ TypeOK'
      /\ pc'[t] = "signal" /\ at'[t] \in Threads
      /\ \A u \in Threads : u # t => pc'[u] = pc[u] /\ at'[u] = at[u]
      /\ Control(t)'
  BY <1>0, SameSchedLemma DEF IInv, TypeOK, SemaIds, PCs, Control, Alive, sched
<1> QED
  BY <1>0, <1>1, LocalLemma

(* Entering cond_broadcast preserves IInv.                                  *)
LEMMA CallBroadcastStep ==
  ASSUME IInv, NEW t \in Threads, NEW c \in Conds, CallBroadcast(t, c)
  PROVE  IInv'
<1>0. /\ current = t /\ pc[t] = "call"
      /\ pc' = [pc EXCEPT ![t] = "broadcast"] /\ cw' = [cw EXCEPT ![t] = c]
      /\ UNCHANGED <<sched, value, waiters, holder, cwaiters, at, kid, tid, next_tid>>
      /\ Alive(t) /\ Control(t) /\ t # idle
      /\ TypeOK'
  BY AtLemma, SameSchedLemma DEF CallBroadcast, At, Goto, synch, tids, TypeOK, PCs
<1>1. /\ pc'[t] = "broadcast" /\ cw'[t] = c /\ c # NULL
      /\ \A u \in Threads : u # t => pc'[u] = pc[u] /\ cw'[u] = cw[u]
      /\ Control(t)'
  BY SMTT(20), <1>0, SchedAssumption, SynchAssumption DEF IInv, TypeOK, Control, Alive, sched
<1> QED
  BY <1>0, <1>1, LocalLemma

(* One turn of the loop of cond_broadcast preserves IInv.                   *)
LEMMA BroadcastStep ==
  ASSUME IInv, NEW t \in Threads, Broadcast(t)
  PROVE  IInv'
<1>0. /\ current = t /\ pc[t] = "broadcast"
      /\ Alive(t) /\ Control(t) /\ t # idle /\ cw[t] \in Conds
  BY AtLemma DEF Broadcast, At, Control
<1>1. CASE PopWaiter(t, cw[t]) /\ UNCHANGED cw
  BY <1>0, <1>1, PopLemma
<1>2. CASE ~(PopWaiter(t, cw[t]) /\ UNCHANGED cw)
  <2>0. /\ pc' = [pc EXCEPT ![t] = "call"] /\ cw' = [cw EXCEPT ![t] = NULL]
        /\ UNCHANGED <<sched, value, waiters, holder, cwaiters, at, kid, tid, next_tid>>
    BY <1>2 DEF Broadcast, Goto, synch, tids
  <2>1. /\ TypeOK'
        /\ pc'[t] = "call" /\ cw'[t] = NULL
        /\ \A u \in Threads : u # t => pc'[u] = pc[u] /\ cw'[u] = cw[u]
        /\ Control(t)'
    BY <1>0, <2>0 DEF IInv, TypeOK, SchedTypeOK, sched, PCs, Control, Alive
  <2> QED
    BY <1>0, <2>0, <2>1, LocalLemma
<1> QED
  BY <1>1, <1>2

(* The two halves of next_tid++ in allocate_tid preserve IInv.              *)
LEMMA TidStep ==
  ASSUME IInv, NEW t \in Threads, TidRead(t) \/ TidWrite(t)
  PROVE  IInv'
<1>0. /\ current = t /\ pc[t] \in {"tid_read", "tid_write"}
      /\ \/ pc' = [pc EXCEPT ![t] = "tid_write"] /\ next_tid' = next_tid
            /\ tid' = [tid EXCEPT ![kid[t]] = next_tid]
         \/ pc' = [pc EXCEPT ![t] = "tid_release"] /\ tid' = tid
            /\ next_tid' = tid[kid[t]] + 1
      /\ UNCHANGED <<sched, value, waiters, holder, cwaiters, at, cw, kid>>
      /\ Alive(t) /\ Control(t) /\ t # idle /\ kid[t] \in Threads
  BY ZenonT(30), AtLemma DEF TidRead, TidWrite, At, Goto, synch, Control
<1>1. TypeOK'
  <2>1. tid' \in [Threads -> Nat] /\ next_tid' \in Nat
    <3>1. tid \in [Threads -> Nat] /\ next_tid \in Nat /\ tid[kid[t]] \in Nat
      BY <1>0 DEF IInv, TypeOK
    <3> QED
      BY SMTT(20), <1>0, <3>1
  <2>2. pc' \in [Threads -> PCs]
    <3>1. pc \in [Threads -> PCs]
      BY DEF IInv, TypeOK
    <3> QED
      BY <1>0, <3>1 DEF PCs
  <2> QED
    BY <1>0, <2>1, <2>2, SameSchedLemma DEF TypeOK
<1>2. /\ pc'[t] \in {"tid_write", "tid_release"}
      /\ \A u \in Threads : u # t => pc'[u] = pc[u]
      /\ Control(t)'
  BY <1>0 DEF IInv, TypeOK, Control, Alive, sched
<1> QED
  BY <1>0, <1>1, <1>2, LocalLemma

(* The idle thread makes itself known in idle_thread; it is then no longer  *)
(* on the ready list.                                                       *)
LEMMA IdleStartStep ==
  ASSUME IInv, NEW t \in Threads, IdleStart(t)
  PROVE  IInv'
<1>0. /\ current = t /\ pc[t] = "idle_start" /\ idle_thread' = t
      /\ pc' = [pc EXCEPT ![t] = "idle_up"]
      /\ UNCHANGED <<current, status, ready, slice, value, waiters, holder, cwaiters,
                     at, cw, kid, tid, next_tid>>
      /\ Alive(t) /\ Control(t) /\ t = idle /\ status[t] = "RUNNING" /\ idle_thread = NULL
      /\ TypeOK'
  BY AtLemma DEF IdleStart, At, Goto, synch, tids, Control, IInv, IdleOK, TypeOK, SchedTypeOK,
     PCs
<1>1. SchedOK'
  <2>1. /\ SchedOK /\ ready \in Seq(Threads)
        /\ \A i \in DOMAIN ready : ready[i] # t
    BY <1>0 DEF IInv, TypeOK, SchedTypeOK, SchedOK
  <2> QED
    BY <1>0, <2>1, SchedAssumption DEF SchedOK
<1>2. /\ pc'[t] = "idle_up" /\ \A u \in Threads : u # t => pc'[u] = pc[u]
  BY <1>0 DEF IInv, TypeOK
<1>3. LockOK'
  BY <1>0, <1>2, LockLemma DEF IInv, Owns
<1>4. ControlOK'
  <2>1. Control(t)' /\ Child(t)'
    BY <1>0, <1>2 DEF IInv, ControlOK, Control, Alive, Child
  <2>2. ASSUME NEW u \in Threads, u # t
        PROVE  Control(u)' /\ Child(u)'
    <3>1. Control(u) /\ Child(u)
      BY DEF IInv, ControlOK
    <3>2. /\ pc'[u] = pc[u] /\ at'[u] = at[u] /\ cw'[u] = cw[u] /\ kid'[u] = kid[u] /\ status' = status
          /\ holder' = holder /\ kid[u] # t
      BY <1>0, <1>2, <2>2, RunningLemma
    <3>3. Control(u)'
      BY <3>1, <3>2 DEF Control, Alive
    <3>4. kid[u] # NULL => kid[u] \in Threads
      BY DEF IInv, TypeOK
    <3>5. Child(u)'
      BY <1>0, <1>2, <3>1, <3>2, <3>4 DEF Child
    <3> QED
      BY <3>3, <3>5
  <2> QED
    BY <2>1, <2>2 DEF ControlOK
<1>5. HolderAlive' /\ IdleOK'
  BY <1>0, <1>2, SchedAssumption DEF IInv, HolderAlive, IdleOK, Alive
<1>6. WaitersOK'
  <2>1. \A u \in Threads : u # idle_thread
    BY <1>0, SchedAssumption
  <2> QED
    BY <1>0, <1>2, <2>1, SameWaitersLemma
<1> QED
  BY <1>0, <1>1, <1>3, <1>4, <1>5, <1>6 DEF IInv

==============================================================================
