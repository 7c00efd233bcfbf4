------------------------- MODULE PintosSynchProofs ---------------------------
(***************************************************************************)
(* The invariants of PintosSynch hold for any number of threads,           *)
(* semaphores, locks and condition variables: sema_down, sema_up and the   *)
(* steps built on them keep IInv, and so every step does.  By it the locks *)
(* implement Mutex.                                                        *)
(***************************************************************************)
EXTENDS PintosSynchInv

(* Leaves are for Zenon unless they name another prover.                    *)
USE Zenon

(* A thread goes to sleep in sema_down. *)
LEMMA SleepLemma ==
  ASSUME IInv, NEW t \in Threads, current = t, pc[t] \in {"down", "woken"},
         waiters' = [waiters EXCEPT ![at[t]] = Append(@, t)],
         thread_block, pc' = [pc EXCEPT ![t] = "woken"],
         UNCHANGED <<value, at, cw, holder, cwaiters, kid, tids>>
  PROVE  IInv'
<1>0. /\ tid' = tid /\ next_tid' = next_tid
      /\ value' = value /\ holder' = holder /\ cwaiters' = cwaiters
      /\ at' = at /\ cw' = cw /\ kid' = kid
      /\ SchedTypeOK' /\ SchedOK' /\ idle_thread' = idle_thread
      /\ status[current'] = "READY" \/ current' = idle_thread
      /\ \A u \in Threads : u # current' =>
              status'[u] = IF u = t THEN "BLOCKED" ELSE status[u]
  BY BlockLemma, NextLemma DEF tids, IInv, TypeOK
<1>1. /\ current' \in Threads /\ status'[current'] = "RUNNING"
      /\ idle_thread \in {NULL, idle} /\ Alive(idle)
      /\ t # idle /\ status[t] = "RUNNING" /\ current' # t
      /\ at[t] \in SemaIds /\ \A u \in Threads : kid[u] # t /\ kid[u] # idle
  <2>1. current' \in Threads /\ status'[current'] = "RUNNING" /\ idle_thread \in {NULL, idle}
    BY <1>0 DEF IInv, TypeOK, SchedTypeOK, SchedOK
  <2>2. t # idle /\ Alive(idle) /\ \A u \in Threads : kid[u] # idle
    BY SMTT(20), SchedAssumption DEF IInv, ControlOK, Control, Child
  <2>3. /\ status[t] = "RUNNING" /\ at[t] \in SemaIds /\ \A u \in Threads : kid[u] # t
        /\ current' # t
    BY <1>0, <2>1, <2>2, RunningLemma, SchedAssumption DEF IInv, TypeOK
  <2> QED
    BY <2>1, <2>2, <2>3
<1>2. /\ \A u \in Threads : Alive(u) <=> Alive(u)'
      /\ status'[t] = "BLOCKED"
      /\ \A u \in Threads : u # idle /\ u # t =>
            (status'[u] = "BLOCKED" <=> status[u] = "BLOCKED")
      /\ status'[idle] = "BLOCKED" => status[idle] = "BLOCKED"
      /\ pc'[t] = "woken"
      /\ \A u \in Threads : u # t => pc'[u] = pc[u]
  BY <1>0, <1>1, SchedAssumption DEF Alive, IInv, TypeOK
<1>3. /\ waiters \in [SemaIds -> Seq(Threads)] /\ waiters[at[t]] \in Seq(Threads)
      /\ TypeOK'
  <2>1. waiters \in [SemaIds -> Seq(Threads)] /\ waiters[at[t]] \in Seq(Threads)
    BY <1>1 DEF IInv, TypeOK
  <2>2. waiters' \in [SemaIds -> Seq(Threads)]
    BY SMTT(20), <1>1, <2>1
  <2>3. pc' \in [Threads -> PCs]
    BY DEF IInv, TypeOK, PCs
  <2> QED
    BY <1>0, <2>1, <2>2, <2>3 DEF IInv, TypeOK
<1>4. ControlOK' /\ HolderAlive'
  <2>1. /\ Frame(t)
        /\ Control(t)'
        /\ \A u \in Threads : kid[u] # NULL => status'[kid[u]] = "BLOCKED"
    <3>1. Frame(t)
      BY <1>0, <1>1, <1>2, SchedAssumption DEF Frame
    <3>2. Control(t)'
      BY SMTT(20), <1>0, <1>1, <1>2 DEF IInv, ControlOK, Control, Alive
    <3>3. ASSUME NEW u \in Threads, kid[u] # NULL
          PROVE  status'[kid[u]] = "BLOCKED"
      <4>1. kid[u] \in Threads /\ kid[u] # t /\ kid[u] # idle /\ status[kid[u]] = "BLOCKED"
        BY <1>1, <3>3 DEF IInv, TypeOK, ControlOK, Child
      <4> QED
        BY <1>2, <4>1
    <3> QED
      BY <3>1, <3>2, <3>3
  <2> QED
    BY <1>2, <2>1, FrameLemma
<1>5. /\ IdleOK'
      /\ LockOK'
  <2>1. IdleOK'
    BY <1>0, <1>1, <1>2, SchedAssumption DEF IInv, IdleOK
  <2>2. LockOK'
    BY <1>0, <1>1, <1>2, LockLemma DEF IInv, Owns, Alive
  <2> QED
    BY <2>1, <2>2
<1>6. LET w == waiters[at[t]]
      IN  /\ waiters'[at[t]] = Append(w, t)
          /\ \A s \in SemaIds : s # at[t] => waiters'[s] = waiters[s]
          /\ Len(w) \in Nat /\ DOMAIN w = 1..Len(w)
          /\ DOMAIN waiters'[at[t]] = 1..(Len(w) + 1)
          /\ \A i \in DOMAIN w : waiters'[at[t]][i] = w[i]
          /\ waiters'[at[t]][Len(w) + 1] = t
  BY SMTT(20), <1>1, <1>3, AppendLemma
<1>7. \A s \in SemaIds : \A i \in DOMAIN waiters'[s] :
        \/ i \in DOMAIN waiters[s] /\ waiters'[s][i] = waiters[s][i]
        \/ s = at[t] /\ waiters'[s][i] = t /\ i = Len(waiters[s]) + 1
  BY SMTT(20), <1>6
<1>8. \A s \in SemaIds : \A i \in DOMAIN waiters[s] :
        /\ i \in DOMAIN waiters'[s] /\ waiters'[s][i] = waiters[s][i]
        /\ waiters[s][i] \in Threads \ {t, idle} /\ status[waiters[s][i]] = "BLOCKED"
        /\ pc[waiters[s][i]] = "woken" /\ at[waiters[s][i]] = s
        /\ \A k \in DOMAIN waiters[s] : waiters[s][k] = waiters[s][i] => k = i
  <2> SUFFICES ASSUME NEW s \in SemaIds, NEW i \in DOMAIN waiters[s]
               PROVE  /\ i \in DOMAIN waiters'[s] /\ waiters'[s][i] = waiters[s][i]
                      /\ waiters[s][i] \in Threads \ {t, idle} /\ status[waiters[s][i]] = "BLOCKED"
                      /\ pc[waiters[s][i]] = "woken" /\ at[waiters[s][i]] = s
                      /\ \A k \in DOMAIN waiters[s] : waiters[s][k] = waiters[s][i] => k = i
    OBVIOUS
  <2>1. i \in DOMAIN waiters'[s] /\ waiters'[s][i] = waiters[s][i]
    BY SMTT(20), <1>6
  <2>2. /\ waiters[s][i] \in Threads \ {t, idle} /\ status[waiters[s][i]] = "BLOCKED"
        /\ pc[waiters[s][i]] = "woken" /\ at[waiters[s][i]] = s
    BY SMTT(20), <1>1, WaiterLemma
  <2> QED
    BY <2>1, <2>2 DEF IInv, WaitersOK
<1>9. \A s \in SemaIds : \A i \in DOMAIN waiters'[s] :
        /\ status'[waiters'[s][i]] = "BLOCKED"
        /\ pc'[waiters'[s][i]] = "woken" /\ at'[waiters'[s][i]] = s
        /\ \A k \in DOMAIN waiters'[s] : waiters'[s][k] = waiters'[s][i] => k = i
  BY SMTT(20), <1>7, <1>8, <1>0, <1>2
<1>10. \A u \in Threads : status'[u] = "BLOCKED" =>
         \/ pc'[u] = "woken" /\ \E i \in DOMAIN waiters'[at'[u]] : waiters'[at'[u]][i] = u
         \/ u = idle_thread' /\ pc'[u] = "idle"
         \/ \E w \in Threads : kid'[w] = u
  <2>1. pc'[t] = "woken" /\ \E i \in DOMAIN waiters'[at'[t]] : waiters'[at'[t]][i] = t
    BY SMTT(20), <1>6, <1>0, <1>2
  <2>2. ASSUME NEW u \in Threads, u # t, status'[u] = "BLOCKED"
        PROVE  \/ pc'[u] = "woken" /\ \E i \in DOMAIN waiters'[at'[u]] : waiters'[at'[u]][i] = u
               \/ u = idle_thread' /\ pc'[u] = "idle"
               \/ \E w \in Threads : kid'[w] = u
    <3>1. /\ status[u] = "BLOCKED"
          /\ at[u] \in SemaIds
          /\ \/ pc[u] = "woken" /\ \E i \in DOMAIN waiters[at[u]] : waiters[at[u]][i] = u
             \/ u = idle_thread /\ pc[u] = "idle"
             \/ \E w \in Threads : kid[w] = u
      BY SMTT(20), <1>2, <2>2 DEF IInv, TypeOK, WaitersOK
    <3> QED
      BY SMTT(20), <3>1, <2>2, <1>0, <1>2, <1>8
  <2> QED
    BY <2>1, <2>2
<1>11. WaitersOK'
  BY <1>9, <1>10 DEF WaitersOK
<1> QED
  BY <1>0, <1>3, <1>4, <1>5, <1>11 DEF IInv

(* A thread takes one unit of a positive semaphore in sema_down and goes on *)
(* to AfterDown.                                                            *)
LEMMA TakeLemma ==
  ASSUME IInv, NEW t \in Threads, current = t, pc[t] \in {"down", "woken"},
         value[at[t]] # 0, value' = [value EXCEPT ![at[t]] = @ - 1], AfterDown(t),
         UNCHANGED <<sched, waiters, holder, cwaiters, kid, tids>>
  PROVE  IInv'
<1>0. /\ Alive(t) /\ Control(t) /\ t # idle /\ at[t] \in SemaIds /\ cw[t] \in Conds \cup {NULL}
      /\ status' = status /\ holder' = holder /\ kid' = kid /\ cwaiters' = cwaiters
      /\ tid' = tid /\ next_tid' = next_tid
  BY AtLemma DEF sched, tids
<1>1. /\ \A u \in Threads : u # t => pc'[u] = pc[u] /\ at'[u] = at[u] /\ cw'[u] = cw[u]
      /\ pc' \in [Threads -> PCs] /\ at' \in [Threads -> SemaIds]
      /\ cw' \in [Threads -> Conds \cup {NULL}]
      /\ \/ at[t] \in Locks /\ pc'[t] = "holder" /\ at'[t] = at[t] /\ cw'[t] = cw[t]
         \/ at[t] \notin Locks /\ at[t] \notin Threads /\ pc'[t] = "call" /\ at'[t] = at[t] /\ cw'[t] = cw[t]
         \/ at[t] \in Threads /\ pc'[t] = "down" /\ at'[t] \in Locks /\ cw'[t] = NULL
  <2>1. /\ at[t] \in Threads => LockOf[cw[t]] \in Locks /\ LockOf[cw[t]] \in SemaIds
        /\ pc \in [Threads -> PCs] /\ at \in [Threads -> SemaIds]
        /\ cw \in [Threads -> Conds \cup {NULL}]
    BY <1>0, SchedAssumption, SynchAssumption DEF Control, SemaIds, IInv, TypeOK
  <2> QED
    BY SMTT(20), <1>0, <2>1, SchedAssumption, SynchAssumption DEF AfterDown, Goto, PCs
<1>2. /\ value' \in [SemaIds -> Nat]
      /\ \A l \in Locks : l # at[t] => value'[l] = value[l]
      /\ at[t] \in Locks => value'[at[t]] = value[at[t]] - 1
  BY SMTT(20), <1>0 DEF IInv, TypeOK, SemaIds
<1>3. TypeOK'
  <2>1. /\ TypeOK /\ SchedTypeOK' /\ waiters' = waiters
        /\ value' \in [SemaIds -> Nat]
        /\ pc' \in [Threads -> PCs] /\ at' \in [Threads -> SemaIds]
        /\ cw' \in [Threads -> Conds \cup {NULL}]
        /\ holder' = holder /\ kid' = kid /\ cwaiters' = cwaiters
        /\ tid' = tid /\ next_tid' = next_tid
    BY <1>0, <1>1, <1>2, SameSchedLemma
  <2> QED
    BY <2>1 DEF TypeOK
<1>4. Frame(t)
  BY <1>0, <1>1, SchedAssumption DEF Frame
<1>5. LockOK'
  <2> SUFFICES ASSUME NEW l \in Locks
               PROVE  \/ value'[l] = 1 /\ \A u \in Threads : ~Owns(u, l)'
                      \/ /\ value'[l] = 0
                         /\ \E u \in Threads : Owns(u, l)' /\ \A v \in Threads : Owns(v, l)' => v = u
    BY DEF LockOK
  <2>1. /\ \A u \in Threads : u # t => (Owns(u, l)' <=> Owns(u, l))
        /\ Owns(t, l)' <=> Owns(t, l) \/ at[t] = l
    BY SMTT(20), <1>0, <1>1, SchedAssumption, SynchAssumption DEF Owns, Alive
  <2>2. CASE at[t] # l
    <3>1. value'[l] = value[l] /\ \A u \in Threads : Owns(u, l)' <=> Owns(u, l)
      BY <1>2, <2>1, <2>2
    <3> QED
      BY <3>1 DEF IInv, LockOK
  <2>3. CASE at[t] = l
    <3>1. value[l] = 1 /\ \A u \in Threads : ~Owns(u, l)
      BY <2>3 DEF IInv, LockOK
    <3>2. value'[l] = 0
      BY SMTT(20), <1>2, <2>3, <3>1
    <3> QED
      BY <2>1, <2>3, <3>1, <3>2
  <2> QED
    BY <2>2, <2>3
<1>6. Control(t)'
  <2>1. at[t] \in Locks => holder[at[t]] # t
    BY <1>0 DEF IInv, LockOK, Owns, Alive
  <2>2. Alive(t)'
    BY <1>0 DEF Alive
  <2> QED
    BY SMTT(20), <1>0, <1>1, <2>1, <2>2, SchedAssumption, SynchAssumption DEF Control
<1> QED
  BY <1>3, <1>4, <1>5, <1>6, PureLemma

(* One turn of the loop of sema_down preserves IInv.                        *)
LEMMA SemaDownStep ==
  ASSUME IInv, NEW t \in Threads, SemaDown(t)
  PROVE  IInv'
BY SleepLemma, TakeLemma DEF SemaDown, At, Goto, MustSleep

(* sema_up wakes a thread that was asleep: nobody is born or dies. *)
LEMMA UpAliveLemma ==
  ASSUME IInv, NEW s \in SemaIds, sema_up(s)
  PROVE  \A u \in Threads : Alive(u)' <=> Alive(u)
<1>1. CASE waiters[s] = << >>
  BY <1>1 DEF sema_up, sched, Alive
<1>2. CASE waiters[s] # << >>
  <2>1. 1 \in DOMAIN waiters[s] /\ Head(waiters[s]) = waiters[s][1]
    BY <1>2, TailLemma DEF IInv, TypeOK
  <2>2. /\ Head(waiters[s]) \in Threads /\ status[Head(waiters[s])] = "BLOCKED"
        /\ status' = [status EXCEPT ![Head(waiters[s])] = "READY"]
    <3>1. Head(waiters[s]) \in Threads /\ status[Head(waiters[s])] = "BLOCKED"
      BY SMTT(20), <2>1, WaiterLemma
    <3> QED
      BY <1>2, <3>1 DEF sema_up, thread_unblock
  <2>3. status \in [Threads -> StatusSet]
    BY DEF IInv, TypeOK, SchedTypeOK, StatusSet
  <2> QED
    BY <2>2, <2>3 DEF Alive
<1> QED
  BY <1>1, <1>2

(* sema_up of anything but a lock's semaphore preserves IInv.               *)
LEMMA UpOtherLemma ==
  ASSUME IInv, NEW t \in Threads, Frame(t), NEW s \in SemaIds \ Locks, sema_up(s),
         pc'[t] = pc[t] \/ (pc[t] \notin {"holder", "up"} /\ pc'[t] \notin {"holder", "up"}),
         pc' \in [Threads -> PCs], UNCHANGED <<at, cw, tids>>, Control(t)'
  PROVE  IInv'
<1>1. \A l \in Locks, u \in Threads : Owns(u, l)' <=> Owns(u, l)
  <2>1. /\ holder' = holder /\ at' = at
        /\ \A u \in Threads : Alive(u)' <=> Alive(u)
        /\ \A u \in Threads : pc'[u] = pc[u] \/ (pc[u] \notin {"holder", "up"} /\ pc'[u] \notin {"holder", "up"})
    BY UpAliveLemma DEF Frame, sema_up
  <2> QED
    BY <2>1 DEF Owns, Alive
<1>2. \A l \in Locks : value'[l] = value[l]
  BY DEF sema_up, IInv, TypeOK, SemaIds
<1>3. LockOK'
  BY <1>1, <1>2, LockLemma DEF IInv
<1>4. at' \in [Threads -> SemaIds] /\ cw' \in [Threads -> Conds \cup {NULL}]
  BY DEF IInv, TypeOK
<1> QED
  BY <1>3, <1>4, UpLemma

(* sema_up called by a thread preserves IInv.                               *)
LEMMA CallUpStep ==
  ASSUME IInv, NEW t \in Threads, NEW s \in Semas, CallUp(t, s)
  PROVE  IInv'
BY AtLemma, SchedAssumption, SynchAssumption, UpAliveLemma, UpOtherLemma DEF CallUp, At,
   SemaIds, Frame, sema_up, Control, IInv, TypeOK

(* sema_up called by an interrupt handler preserves IInv.                   *)
LEMMA DeviceStep ==
  ASSUME IInv, NEW s \in Semas, DeviceInterrupt(s)
  PROVE  IInv'
<1> PICK t \in Threads : t = current
  BY RunningLemma
<1>0. /\ sema_up(s) /\ holder' = holder
      /\ pc' = pc /\ at' = at /\ cw' = cw /\ kid' = kid /\ UNCHANGED tids
      /\ s \in SemaIds \ Locks
      /\ Frame(t)
  BY SchedAssumption, SynchAssumption DEF DeviceInterrupt, SemaIds, sema_up, Frame
<1>1. Control(t)'
  BY <1>0, AtLemma, UpAliveLemma DEF Control
<1>2. pc' \in [Threads -> PCs]
  BY <1>0 DEF IInv, TypeOK
<1> QED
  BY <1>0, <1>1, <1>2, UpOtherLemma

(* The sema_up with which idle lets thread_start go on preserves IInv.      *)
LEMMA IdleUpStep ==
  ASSUME IInv, NEW t \in Threads, IdleUp(t)
  PROVE  IInv'
<1>0. /\ current = t /\ pc[t] = "idle_up" /\ sema_up(idle_started)
      /\ pc' = [pc EXCEPT ![t] = "idle"] /\ at' = at /\ cw' = cw /\ kid' = kid
      /\ UNCHANGED tids /\ holder' = holder /\ idle_started \in SemaIds \ Locks
      /\ Control(t) /\ Alive(t) /\ Alive(t)'
  BY AtLemma, SchedAssumption, SynchAssumption, UpAliveLemma DEF IdleUp, At, Goto, SemaIds,
     sema_up
<1>1. /\ pc'[t] = "idle" /\ pc' \in [Threads -> PCs]
      /\ \A u \in Threads : u # t => pc'[u] = pc[u]
      /\ Frame(t)
      /\ Control(t)'
  BY SMTT(20), <1>0 DEF IInv, TypeOK, PCs, Frame, Control
<1> QED
  BY <1>0, <1>1, UpOtherLemma

(* The sema_up of cond_signal preserves IInv.                               *)
LEMMA SignalUpStep ==
  ASSUME IInv, NEW t \in Threads, SignalUp(t)
  PROVE  IInv'
<1>0. /\ current = t /\ pc[t] = "signal" /\ sema_up(at[t])
      /\ pc' = [pc EXCEPT ![t] = IF cw[t] # NULL THEN "broadcast" ELSE "call"]
      /\ at' = at /\ cw' = cw /\ kid' = kid /\ UNCHANGED tids /\ holder' = holder
      /\ Control(t) /\ Alive(t) /\ t # idle /\ at[t] \in SemaIds \ Locks
  BY SMTT(20), AtLemma, SchedAssumption, SynchAssumption DEF SignalUp, At, Goto, sema_up, Control, SemaIds
<1>1. /\ Alive(t)'
      /\ pc'[t] = IF cw[t] # NULL THEN "broadcast" ELSE "call"
      /\ pc' \in [Threads -> PCs]
      /\ \A u \in Threads : u # t => pc'[u] = pc[u]
      /\ Frame(t)
      /\ Control(t)'
  BY SMTT(20), <1>0, UpAliveLemma DEF IInv, TypeOK, PCs, Frame, Control
<1> QED
  BY <1>0, <1>1, UpOtherLemma

(* The sema_up of lock_release ends the ownership and preserves IInv,       *)
(* whichever of its callers it returns to.                                  *)
LEMMA ReleaseUpStep ==
  ASSUME IInv, NEW t \in Threads, ReleaseUp(t)
  PROVE  IInv'
<1>0. /\ current = t /\ pc[t] = "up" /\ sema_up(at[t])
      /\ \/ /\ cw[t] # NULL /\ pc' = [pc EXCEPT ![t] = "down"]
            /\ at' = [at EXCEPT ![t] = t]
         \/ /\ cw[t] = NULL /\ at' = at
            /\ pc' = [pc EXCEPT ![t] = IF kid[t] # NULL THEN "unblock" ELSE "call"]
      /\ cw' = cw /\ kid' = kid /\ UNCHANGED tids /\ holder' = holder
      /\ Control(t) /\ Alive(t) /\ t # idle /\ at[t] \in Locks /\ holder[at[t]] # t
  BY AtLemma DEF ReleaseUp, At, Goto, sema_up, Control
<1>1. \A u \in Threads : Alive(u)' <=> Alive(u)
  BY <1>0, UpAliveLemma DEF SemaIds
<1>2. /\ pc'[t] \in {"down", "unblock", "call"} /\ pc' \in [Threads -> PCs]
      /\ at' \in [Threads -> SemaIds]
      /\ \A u \in Threads : u # t => pc'[u] = pc[u] /\ at'[u] = at[u]
      /\ pc'[t] = "down" => cw[t] # NULL /\ at'[t] = t
      /\ pc'[t] # "down" => cw[t] = NULL
      /\ pc'[t] = "unblock" => kid[t] # NULL
      /\ pc'[t] = "call" => kid[t] = NULL
  <2>1. pc \in [Threads -> PCs] /\ at \in [Threads -> SemaIds] /\ t \in SemaIds
    BY DEF IInv, TypeOK, SemaIds
  <2>2. CASE cw[t] # NULL
    BY SMTT(20), <1>0, <2>1, <2>2 DEF PCs
  <2>3. CASE cw[t] = NULL
    BY <1>0, <2>1, <2>3 DEF PCs
  <2> QED
    BY <2>2, <2>3
<1>3. /\ Frame(t)
      /\ Control(t)'
  BY <1>0, <1>1, <1>2, SchedAssumption, SynchAssumption DEF Frame, Control
<1>4. LockOK'
  <2>1. /\ value[at[t]] = 0 /\ \A u \in Threads : Owns(u, at[t]) => u = t
        /\ value'[at[t]] = 1 /\ \A l \in Locks : l # at[t] => value'[l] = value[l]
    BY SMTT(20), <1>0 DEF IInv, LockOK, Owns, Alive, sema_up, TypeOK, SemaIds
  <2>2. /\ \A l \in Locks, u \in Threads : l = at[t] => ~Owns(u, l)'
        /\ \A l \in Locks, u \in Threads : l # at[t] => (Owns(u, l)' <=> Owns(u, l))
    BY <1>0, <1>1, <1>2, <2>1 DEF Owns, Alive
  <2>3. ASSUME NEW l \in Locks, l # at[t]
        PROVE  \/ value'[l] = 1 /\ \A u \in Threads : ~Owns(u, l)'
               \/ /\ value'[l] = 0
                  /\ \E u \in Threads : /\ Owns(u, l)'
                                        /\ \A v \in Threads : Owns(v, l)' => v = u
    BY SMTT(20), <2>1, <2>2, <2>3 DEF IInv, LockOK
  <2>4. ASSUME NEW l \in Locks, l = at[t]
        PROVE  value'[l] = 1 /\ \A u \in Threads : ~Owns(u, l)'
    BY <2>1, <2>2, <2>4
  <2> QED
    BY <2>3, <2>4 DEF LockOK
<1> QED
  BY <1>0, <1>2, <1>3, <1>4, UpLemma DEF IInv, TypeOK

-----------------------------------------------------------------------------
(* thread_create turns a free page into a blocked thread that its creator   *)
(* alone will unblock.                                                      *)
LEMMA CallCreateStep ==
  ASSUME IInv, NEW t \in Threads, NEW n \in Threads, CallCreate(t, n)
  PROVE  IInv'
<1>0. /\ current = t /\ pc[t] = "call" /\ status[n] = "FREE"
      /\ status' = [status EXCEPT ![n] = "BLOCKED"]
      /\ kid' = [kid EXCEPT ![t] = n, ![n] = NULL] /\ cw' = [cw EXCEPT ![n] = NULL]
      /\ pc' = [pc EXCEPT ![t] = "down", ![n] = "call"] /\ at' = [at EXCEPT ![t] = tid_lock]
      /\ UNCHANGED <<current, ready, idle_thread, slice, value, waiters, holder, cwaiters,
                     tid, next_tid>>
  BY DEF CallCreate, At, init_thread, synch, tids
<1>1. /\ status[t] = "RUNNING" /\ Alive(t) /\ Control(t) /\ t # idle /\ t # n
      /\ kid[t] = NULL /\ cw[t] = NULL
      /\ Control(n) /\ ~Alive(n) /\ pc[n] = "call" /\ kid[n] = NULL /\ cw[n] = NULL
      /\ n # idle
  BY <1>0, AtLemma DEF Control, IInv, ControlOK, Alive
<1>2. /\ cw' = cw /\ pc'[t] = "down" /\ at'[t] = tid_lock /\ kid'[t] = n
      /\ \A u \in Threads : u # t => pc'[u] = pc[u] /\ at'[u] = at[u] /\ kid'[u] = kid[u]
      /\ status'[n] = "BLOCKED"
      /\ \A u \in Threads : u # n => status'[u] = status[u]
      /\ TypeOK'
  BY ZenonT(30), <1>0, <1>1, SchedAssumption, SynchAssumption DEF IInv, TypeOK, SchedTypeOK, SemaIds,
     PCs
<1>3. SchedOK'
  BY SMTT(20), <1>0, <1>2 DEF IInv, TypeOK, SchedTypeOK, SchedOK
<1>4. LockOK'
  <2>1. \A l \in Locks : holder[l] # n
    BY <1>1, SchedAssumption, SynchAssumption DEF IInv, HolderAlive
  <2>2. \A l \in Locks, u \in Threads : Owns(u, l)' <=> Owns(u, l)
    <3>1. ASSUME NEW l \in Locks, NEW u \in Threads, u # n PROVE Owns(u, l)' <=> Owns(u, l)
      BY <1>0, <1>2, <3>1 DEF Owns
    <3>2. ASSUME NEW l \in Locks PROVE ~Owns(n, l) /\ ~Owns(n, l)'
      BY <1>0, <1>1, <1>2, <2>1 DEF Owns, Alive
    <3> QED
      BY <3>1, <3>2
  <2> QED
    BY <1>0, <2>2, LockLemma DEF IInv
<1>5. ControlOK'
  <2>1. Control(t)'
    BY <1>1, <1>2, SchedAssumption, SynchAssumption DEF Alive, Control
  <2>2. ASSUME NEW u \in Threads, u # t PROVE Control(u)'
    <3>1. /\ Control(u)
          /\ pc'[u] = pc[u] /\ at'[u] = at[u] /\ cw'[u] = cw[u] /\ kid'[u] = kid[u]
          /\ holder' = holder /\ (Alive(u) => Alive(u)')
      BY <1>0, <1>2, <2>2 DEF IInv, ControlOK, Alive
    <3> QED
      BY <3>1 DEF Control
  <2>3. \A u \in Threads : kid[u] # n
    BY <1>0, SchedAssumption, SynchAssumption DEF IInv, ControlOK, Child
  <2>4. Child(t)'
    BY <1>1, <1>2, <2>3 DEF Child
  <2>5. ASSUME NEW u \in Threads, u # t PROVE Child(u)'
    <3> SUFFICES ASSUME kid[u] # NULL PROVE Child(u)'
      BY <1>2, <2>5 DEF Child
    <3>1. Child(u) /\ kid[u] \in Threads \ {n, t}
      BY <1>0, <2>3, RunningLemma DEF IInv, TypeOK, ControlOK
    <3> QED
      BY SMTT(20), <1>2, <2>5, <3>1 DEF Child
  <2> QED
    BY <2>1, <2>2, <2>4, <2>5 DEF ControlOK
<1>6. HolderAlive' /\ IdleOK'
  <2>1. HolderAlive'
    BY SMTT(20), <1>0, <1>2 DEF IInv, HolderAlive, TypeOK, Alive
  <2>2. IdleOK'
    BY <1>0, <1>1, <1>2, SchedAssumption DEF IInv, IdleOK
  <2> QED
    BY <2>1, <2>2
<1>7. WaitersOK'
  <2>1. \A s \in SemaIds : \A i \in DOMAIN waiters[s] : waiters[s][i] \in Threads \ {n, t}
    BY <1>0, <1>1, WaiterLemma
  <2>2. \A s \in SemaIds : \A i \in DOMAIN waiters[s] :
          /\ status'[waiters[s][i]] = "BLOCKED"
          /\ pc'[waiters[s][i]] = "woken" /\ at'[waiters[s][i]] = s
    BY SMTT(20), <1>2, <2>1, WaiterLemma
  <2>3. ASSUME NEW u \in Threads, status'[u] = "BLOCKED"
        PROVE  \/ pc'[u] = "woken" /\ \E i \in DOMAIN waiters[at'[u]] : waiters[at'[u]][i] = u
               \/ u = idle_thread /\ pc'[u] = "idle"
               \/ \E w \in Threads : kid'[w] = u
    BY SMTT(20), <1>1, <1>2, <2>3, SchedAssumption, SynchAssumption DEF IInv, WaitersOK
  <2>4. /\ waiters' = waiters /\ idle_thread' = idle_thread
        /\ \A s \in SemaIds : \A i, k \in DOMAIN waiters[s] : waiters[s][k] = waiters[s][i] => k = i
    BY <1>0 DEF IInv, WaitersOK
  <2> QED
    BY SMTT(20), <2>2, <2>3, <2>4 DEF WaitersOK
<1> QED
  BY <1>2, <1>3, <1>4, <1>5, <1>6, <1>7 DEF IInv

(* thread_create unblocks the new thread, which is on no list before; IInv  *)
(* is preserved.                                                            *)
LEMMA UnblockStep ==
  ASSUME IInv, NEW t \in Threads, Unblock(t)
  PROVE  IInv'
<1> DEFINE n == kid[t]
<1>0. /\ current = t /\ pc[t] = "unblock" /\ thread_unblock(n)
      /\ kid' = [kid EXCEPT ![t] = NULL] /\ pc' = [pc EXCEPT ![t] = "call"]
      /\ UNCHANGED <<value, waiters, holder, cwaiters, at, cw, tid, next_tid>>
      /\ status[t] = "RUNNING" /\ Alive(t) /\ Control(t) /\ t # idle /\ n \in Threads /\ cw[t] = NULL
      /\ status[n] = "BLOCKED" /\ pc[n] = "call" /\ n # t /\ n # idle
      /\ \A u \in Threads : u # t => kid[u] # n
  <2>1. /\ current = t /\ pc[t] = "unblock" /\ thread_unblock(n)
        /\ kid' = [kid EXCEPT ![t] = NULL] /\ pc' = [pc EXCEPT ![t] = "call"]
        /\ UNCHANGED <<value, waiters, holder, cwaiters, at, cw, tid, next_tid>>
    BY DEF Unblock, At, Goto, synch, tids
  <2>2. /\ status[t] = "RUNNING" /\ Alive(t) /\ Control(t) /\ t # idle /\ n \in Threads \cup {NULL}
    BY <2>1, AtLemma
  <2>3. n # NULL /\ n \in Threads /\ cw[t] = NULL
    BY <2>1, <2>2 DEF Control
  <2>4. status[n] = "BLOCKED" /\ pc[n] = "call" /\ \A u \in Threads : u # t => kid[u] # n
    BY <2>3 DEF IInv, ControlOK, Child
  <2>5. n # t /\ n # idle
    BY <2>1, <2>2, <2>3, <2>4 DEF IInv, ControlOK, Control
  <2> QED
    BY <2>1, <2>2, <2>3, <2>4, <2>5
<1> HIDE DEF n
<1>1. /\ SchedTypeOK' /\ SchedOK' /\ idle_thread' = idle_thread
      /\ status'[n] = "READY"
      /\ \A u \in Threads : u # n => status'[u] = status[u]
  <2>1. SchedTypeOK /\ SchedOK
    BY DEF IInv, TypeOK
  <2>2. n # idle_thread
    BY <1>0, <2>1, SchedAssumption, SynchAssumption DEF SchedTypeOK
  <2> QED
    BY <1>0, <2>1, <2>2, UnblockLemma
<1>2. /\ pc'[t] = "call" /\ kid'[t] = NULL
      /\ \A u \in Threads : u # t => pc'[u] = pc[u] /\ kid'[u] = kid[u]
      /\ TypeOK'
      /\ \A u \in Threads : Alive(u)' <=> Alive(u)
      /\ LockOK'
  BY <1>0, <1>1, LockLemma DEF IInv, TypeOK, PCs, Alive, Owns
<1>3. ControlOK'
  <2>1. Control(t)'
    BY <1>0, <1>2 DEF Control
  <2>2. ASSUME NEW u \in Threads, u # t PROVE Control(u)'
    <3>1. Control(u) /\ pc'[u] = pc[u] /\ kid'[u] = kid[u] /\ (Alive(u)' <=> Alive(u))
      BY <1>2, <2>2 DEF IInv, ControlOK
    <3> QED
      BY <1>0, <3>1 DEF Control
  <2>3. ASSUME NEW u \in Threads PROVE Child(u)'
    <3> SUFFICES ASSUME kid'[u] # NULL PROVE Child(u)'
      BY DEF Child
    <3>1. /\ u # t /\ kid'[u] = kid[u]
          /\ Child(u) /\ kid[u] \in Threads \ {n, t}
      BY <1>0, <1>2, RunningLemma DEF IInv, TypeOK, ControlOK
    <3> QED
      BY <1>1, <1>2, <3>1 DEF Child
  <2> QED
    BY <2>1, <2>2, <2>3 DEF ControlOK
<1>4. HolderAlive' /\ IdleOK'
  BY SMTT(20), <1>0, <1>1, <1>2 DEF IInv, TypeOK, HolderAlive, IdleOK
<1>5. WaitersOK'
  <2>1. kid[t] = n
    BY DEF n
  <2>2. ASSUME NEW u \in Threads, status'[u] = "BLOCKED"
        PROVE  /\ status[u] = "BLOCKED" /\ pc'[u] = pc[u] /\ at'[u] = at[u]
               /\ u = idle_thread => u = idle_thread'
               /\ \A w \in Threads : kid[w] = u => kid'[w] = u
    <3>1. u # n /\ u # t /\ status[u] = "BLOCKED"
      BY <1>0, <1>1, <2>2
    <3> QED
      BY <1>0, <1>1, <1>2, <2>1, <3>1
  <2>3. ASSUME NEW u \in Threads, pc[u] = "woken", status[u] = "BLOCKED"
        PROVE  pc'[u] = pc[u] /\ at'[u] = at[u] /\ status'[u] = status[u]
    <3>1. u # n /\ u # t
      BY <1>0, <2>3
    <3> QED
      BY <1>0, <1>1, <1>2, <3>1
  <2> QED
    BY <1>0, <2>2, <2>3, SameWaitersLemma
<1> QED
  BY <1>1, <1>2, <1>3, <1>4, <1>5 DEF IInv

(* A thread that exits holds no lock and is on no list. *)
LEMMA CallExitStep ==
  ASSUME IInv, NEW t \in Threads, CallExit(t)
  PROVE  IInv'
<1>0. /\ current = t /\ pc[t] = "call" /\ thread_exit /\ tid' = [tid EXCEPT ![t] = 0]
      /\ \A l \in Locks : holder[l] # t
      /\ UNCHANGED <<value, waiters, holder, cwaiters, pc, at, cw, kid, next_tid>>
      /\ status[t] = "RUNNING" /\ Control(t) /\ t # idle /\ kid[t] = NULL
      /\ \A u \in Threads : kid[u] # t /\ kid[u] # idle
  <2>1. /\ current = t /\ pc[t] = "call" /\ thread_exit /\ tid' = [tid EXCEPT ![t] = 0]
        /\ \A l \in Locks : holder[l] # t
        /\ UNCHANGED <<value, waiters, holder, cwaiters, pc, at, cw, kid, next_tid>>
    BY DEF CallExit, At, synch
  <2>2. status[t] = "RUNNING" /\ Control(t) /\ t # idle /\ \A u \in Threads : kid[u] # t
    BY <2>1, AtLemma, RunningLemma
  <2>3. kid[t] = NULL
    BY <2>1, <2>2 DEF Control
  <2>4. idle \in Threads /\ idle # NULL /\ Control(idle) /\ pc[idle] # "call"
    BY ZenonT(30), SchedAssumption, SynchAssumption DEF IInv, ControlOK, Control
  <2>5. \A u \in Threads : kid[u] # idle
    BY <2>4 DEF IInv, ControlOK, Child
  <2> QED
    BY <2>1, <2>2, <2>3, <2>5
<1>1. /\ SchedTypeOK' /\ SchedOK' /\ idle_thread' = idle_thread
      /\ status[current'] = "READY" \/ current' = idle_thread
      /\ \A u \in Threads : u # current' /\ u # t => status'[u] = status[u]
      /\ t # current' => status'[t] \in {"FREE", "DYING"}
  BY <1>0, NextLemma, ExitLemma DEF IInv, TypeOK
<1>2. /\ current' \in Threads /\ status'[current'] = "RUNNING" /\ t # current'
      /\ idle_thread \in {NULL, idle} /\ Alive(idle)
  <2>1. /\ current' \in Threads /\ status'[current'] = "RUNNING"
        /\ idle_thread \in {NULL, idle}
        /\ Alive(idle)
    BY <1>1, SchedAssumption, SynchAssumption DEF SchedTypeOK, SchedOK, IInv, TypeOK, ControlOK,
       Control
  <2> QED
    BY <1>0, <1>1, <2>1
<1>3. /\ \A u \in Threads : u # t => (Alive(u)' <=> Alive(u))
      /\ ~Alive(t)'
      /\ \A u \in Threads : u # idle => (status'[u] = "BLOCKED" <=> status[u] = "BLOCKED")
      /\ status'[idle] = "BLOCKED" => status[idle] = "BLOCKED"
      /\ TypeOK'
      /\ LockOK'
  <2>1. /\ \A u \in Threads : u # t => (Alive(u)' <=> Alive(u))
        /\ ~Alive(t)'
        /\ \A u \in Threads : u # idle => (status'[u] = "BLOCKED" <=> status[u] = "BLOCKED")
        /\ status'[idle] = "BLOCKED" => status[idle] = "BLOCKED"
    BY <1>0, <1>1, <1>2, SchedAssumption DEF Alive
  <2>2. TypeOK'
    BY <1>0, <1>1 DEF IInv, TypeOK
  <2>3. \A l \in Locks, u \in Threads : Owns(u, l)' <=> Owns(u, l)
    BY <1>0, <2>1 DEF Owns, Alive
  <2> QED
    BY <1>0, <2>1, <2>2, <2>3, LockLemma DEF IInv
<1>4. /\ ControlOK'
      /\ HolderAlive' /\ IdleOK'
  <2>1. ASSUME NEW u \in Threads PROVE Control(u)'
    <3>1. Control(u) /\ (pc[u] # "call" => Alive(u)')
      BY <1>0, <1>3 DEF IInv, ControlOK, Control
    <3> QED
      BY <1>0, <3>1 DEF Control
  <2>2. ASSUME NEW u \in Threads PROVE Child(u)'
    <3>1. Child(u) /\ kid[u] \in Threads \cup {NULL} /\ kid[u] # idle
      BY <1>0 DEF IInv, ControlOK, TypeOK
    <3> QED
      BY <1>0, <1>3, <3>1 DEF Child
  <2>3. HolderAlive' /\ IdleOK'
    BY <1>0, <1>1, <1>3 DEF IInv, TypeOK, HolderAlive, IdleOK, Alive
  <2> QED
    BY <2>1, <2>2, <2>3 DEF ControlOK
<1>5. WaitersOK'
  <2>1. ASSUME NEW u \in Threads, pc[u] = "woken", status[u] = "BLOCKED" PROVE status'[u] = status[u]
    <3>1. u # idle
      BY <2>1 DEF IInv, ControlOK, Control
    <3> QED
      BY <1>3, <2>1, <3>1
  <2>2. \A u \in Threads : status'[u] = "BLOCKED" => status[u] = "BLOCKED"
    BY <1>3
  <2> QED
    BY <1>0, <1>1, <2>1, <2>2, SameWaitersLemma
<1> QED
  BY <1>1, <1>3, <1>4, <1>5 DEF IInv

-----------------------------------------------------------------------------
(* Every step of a thread or of an interrupt handler preserves the          *)
(* inductive invariant.                                                     *)
THEOREM Inductive == IInv /\ [Next]_vars => IInv'
<1> SUFFICES ASSUME IInv, [Next]_vars PROVE IInv'
  OBVIOUS
<1>1. ASSUME NEW t \in Threads, Continue(t) PROVE IInv'
  <2>1. CASE SemaDown(t)
    BY <2>1, SemaDownStep
  <2>2. CASE SetHolder(t)
    BY <2>2, SetHolderStep
  <2>3. CASE ReleaseUp(t)
    BY <2>3, ReleaseUpStep
  <2>4. CASE WaitRelease(t)
    BY SMTT(20), <2>4, AtLemma, ClearLemma, SchedAssumption, SynchAssumption DEF WaitRelease, At, Control
  <2>5. CASE SignalUp(t)
    BY <2>5, SignalUpStep
  <2>6. CASE Broadcast(t)
    BY <2>6, BroadcastStep
  <2>7. CASE TidRead(t) \/ TidWrite(t)
    BY <2>7, TidStep
  <2>8. CASE TidRelease(t)
    BY <2>8, ClearLemma, SchedAssumption, SynchAssumption DEF TidRelease, At
  <2>9. CASE Unblock(t)
    BY <2>9, UnblockStep
  <2>10. CASE IdleStart(t)
    BY <2>10, IdleStartStep
  <2>11. CASE IdleUp(t)
    BY <2>11, IdleUpStep
  <2>12. CASE IdleBlock(t)
    BY <2>12, IdleBlockStep
  <2> QED
    BY <1>1, <2>1, <2>2, <2>3, <2>4, <2>5, <2>6, <2>7, <2>8, <2>9, <2>10, <2>11, <2>12 DEF
       Continue
<1>2. ASSUME NEW t \in Threads, Call(t) PROVE IInv'
  <2>1. ASSUME NEW s \in Semas, CallDown(t, s) \/ CallTryDown(t, s) \/ CallUp(t, s)
        PROVE  IInv'
    BY <2>1, CallDownStep, CallTryDownStep, CallUpStep
  <2>2. ASSUME NEW l \in Locks,
               CallAcquire(t, l) \/ CallTryAcquire(t, l) \/ CallRelease(t, l)
        PROVE  IInv'
    BY <2>2, CallDownStep, CallTryAcquireStep, ClearLemma DEF CallAcquire, CallRelease, At
  <2>3. ASSUME NEW c \in Conds, CallWait(t, c) \/ CallSignal(t, c) \/ CallBroadcast(t, c)
        PROVE  IInv'
    BY <2>3, CallWaitStep, PopLemma, CallBroadcastStep DEF CallSignal, At
  <2>4. ASSUME NEW n \in Threads, CallCreate(t, n) PROVE IInv'
    BY <2>4, CallCreateStep
  <2>5. CASE CallYield(t)
    BY <2>5, YieldStep DEF CallYield
  <2>6. CASE CallExit(t)
    BY <2>6, CallExitStep
  <2> QED
    BY <1>2, <2>1, <2>2, <2>3, <2>4, <2>5, <2>6 DEF Call
<1>3. CASE TimerInterrupt
  BY <1>3, TimerStep
<1>4. ASSUME NEW s \in Semas, DeviceInterrupt(s) PROVE IInv'
  BY <1>4, DeviceStep
<1>5. CASE UNCHANGED vars
  <2>1. /\ UNCHANGED <<synch, pc, at, cw, kid, tids>> /\ UNCHANGED sched
        /\ SchedTypeOK' /\ SchedOK'
    BY <1>5 DEF vars, IInv, TypeOK, SchedTypeOK, SchedOK, sched
  <2>2. status[idle] = "BLOCKED" => pc[idle] = "idle"
    BY SMTT(20), SchedAssumption, SynchAssumption DEF IInv, WaitersOK, ControlOK, Control, Child
  <2> QED
    BY <2>1, <2>2, SwitchLemma DEF Alive, sched
<1> QED
  BY <1>1, <1>2, <1>3, <1>4, <1>5 DEF Next

(* The inductive invariant holds in every reachable state of PintosSynch.   *)
THEOREM Invariance == Spec => []IInv
BY InitLemma, Inductive, PTL DEF Spec

(* All variables keep their types, for any threads, semaphores, locks and   *)
(* condition variables; next to them the counters of thread_tick and of     *)
(* the semaphores stay in range.                                            *)
THEOREM TypesHold == Spec => []TypeOK
<1>1. IInv => TypeOK
  BY DEF IInv
<1> QED
  BY <1>1, Invariance, PTL

(* thread.c: one thread runs, the ready list is exactly the READY threads   *)
(* but the idle one, and schedule always has a thread to switch to.         *)
THEOREM SchedulerSafe == Spec => []SchedOK
<1>1. IInv => SchedOK
  BY DEF IInv
<1> QED
  BY <1>1, Invariance, PTL

(* synch.c: a thread's list element is on one list at most, and a blocked   *)
(* thread is always where somebody can wake it.                             *)
THEOREM WaitersSafe == Spec => []WaitersOK
<1>1. IInv => WaitersOK
  BY DEF IInv
<1> QED
  BY <1>1, Invariance, PTL

(* synch.c: mutual exclusion.  A lock has at most one owner at any moment   *)
(* between sema_down in lock_acquire and sema_up in lock_release.           *)
THEOREM MutualExclusion == Spec => []LockOK
<1>1. IInv => LockOK
  BY DEF IInv
<1> QED
  BY <1>1, Invariance, PTL

(* Ownership without the life of the owner, which IInv adds. *)
Has(t, l) == holder[l] = t \/ (pc[t] \in {"holder", "up"} /\ at[t] = l)

HasOK == \A t \in Threads, l \in Locks : Owns(t, l) <=> Has(t, l)

(* Only threads that are alive have locks. *)
LEMMA HasLemma == IInv => HasOK
BY SMTT(20), SchedAssumption DEF HasOK, IInv, Owns, Has, HolderAlive, ControlOK, Control, Alive

(* owner is what Mutex wants: NULL for a free lock, else the one owner. *)
OwnerOK ==
  \A l \in Locks :
    \/ value[l] = 1 /\ owner[l] = NULL /\ \A t \in Threads : ~Owns(t, l)
    \/ /\ value[l] = 0 /\ owner[l] \in Threads /\ Owns(owner[l], l)
       /\ \A t \in Threads : Owns(t, l) => t = owner[l]

(* LockOK determines the owner of every lock. *)
LEMMA OwnerLemma == LockOK => OwnerOK
BY DEF OwnerOK, owner, LockOK

-----------------------------------------------------------------------------

(* The locks implement Mutex.  By LockOK the value of a lock's semaphore    *)
(* says whether the lock has an owner; so a step that changes the value     *)
(* acquires or releases, and what is left to show is that a step changes    *)
(* one value at most and that otherwise the owner stays.                    *)

(* What a step does to the locks: it changes one semaphore's value at most, *)
(* and who has a lock whose value stays keeps it.                           *)
Changes(x) == \A l \in Locks : l # x => value'[l] = value[l]
Keeps == \A t \in Threads, l \in Locks : Has(t, l) /\ value'[l] = value[l] => Has(t, l)'
LockStep == (\E x \in SemaIds : Changes(x)) /\ Keeps

(* Steps that neither touch a holder nor leave the places where a thread    *)
(* has a lock without being its holder.                                     *)
LEMMA QuietStep ==
  ASSUME IInv, NEW x \in SemaIds, Changes(x), holder' = holder,
         \A t \in Threads : pc[t] \in {"holder", "up"} => pc'[t] = pc[t] /\ at'[t] = at[t]
  PROVE  LockStep
BY DEF LockStep, Keeps, Has

(* sema_up changes the value of its semaphore only. *)
LEMMA UpChanges ==
  ASSUME IInv, NEW s \in SemaIds, sema_up(s)
  PROVE  Changes(s) /\ holder' = holder /\ value'[s] = value[s] + 1 /\ value[s] \in Nat
BY SynchAssumption DEF IInv, TypeOK, SemaIds, Changes, sema_up

(* The first step of lock_release: the holder becomes the thread at "up". *)
LEMMA ClearStep ==
  ASSUME IInv, NEW t \in Threads, NEW l \in Locks, pc[t] \notin {"holder", "up"},
         ClearHolder(t, l)
  PROVE  LockStep
BY SchedAssumption, SynchAssumption DEF Changes, ClearHolder, SemaIds, IInv, TypeOK, Keeps, Has,
   Goto, LockStep

(* What a thread does once it is inside an operation. *)
LEMMA ContinueLocks ==
  ASSUME IInv, NEW t \in Threads, Continue(t)
  PROVE  LockStep
<1> USE DEF Goto, At
<1>0. /\ tid_lock \in SemaIds /\ idle_started \in SemaIds /\ Threads \subseteq SemaIds
      /\ pc \in [Threads -> PCs] /\ at \in [Threads -> SemaIds] /\ value \in [SemaIds -> Nat]
      /\ Control(t) /\ Locks \subseteq SemaIds
  BY SynchAssumption DEF SemaIds, IInv, TypeOK, ControlOK
<1>1. CASE SemaDown(t)
  <2>1. /\ Changes(at[t]) /\ holder' = holder
        /\ \A u \in Threads : pc[u] \in {"holder", "up"} => pc'[u] = pc[u] /\ at'[u] = at[u]
    BY SMTT(20), <1>0, <1>1 DEF SemaDown, Changes, AfterDown
  <2> QED
    BY <1>0, <2>1, QuietStep
<1>2. CASE SetHolder(t)
  <2>1. Changes(tid_lock)
    BY <1>2 DEF SetHolder, Changes
  <2>2. ASSUME NEW u \in Threads, NEW l \in Locks, Has(u, l) PROVE Has(u, l)'
    <3>1. CASE u = t
      BY <1>0, <1>2, <2>2, <3>1 DEF SetHolder, Has, IInv, TypeOK
    <3>2. CASE u # t /\ l # at[t]
      BY <1>0, <1>2, <2>2, <3>2 DEF SetHolder, Has, IInv, TypeOK
    <3>3. CASE u # t /\ l = at[t]
      BY SMTT(20), <1>2, <2>2, <3>3, HasLemma, OwnerLemma DEF SetHolder, Has, IInv, OwnerOK, HasOK
    <3> QED
      BY <3>1, <3>2, <3>3
  <2> QED
    BY <1>0, <2>1, <2>2 DEF LockStep, Keeps
<1>3. CASE ReleaseUp(t)
  BY SMTT(20), <1>0, <1>3, UpChanges DEF ReleaseUp, LockStep, Keeps, Has
<1>4. CASE WaitRelease(t)
  BY <1>0, <1>4, ClearStep, SynchAssumption DEF WaitRelease, Control, IInv, TypeOK
<1>5. CASE SignalUp(t)
  BY <1>0, <1>5, QuietStep, UpChanges DEF SignalUp
<1>6. CASE Broadcast(t) \/ TidRead(t) \/ TidWrite(t) \/ Unblock(t) \/ IdleStart(t) \/ IdleBlock(t)
  BY <1>0, <1>6, QuietStep DEF Changes, Broadcast, PopWaiter, TidRead, TidWrite, Unblock,
     IdleStart, IdleBlock, synch
<1>7. CASE TidRelease(t)
  BY <1>7, ClearStep, SynchAssumption DEF TidRelease
<1>8. CASE IdleUp(t)
  BY <1>0, <1>8, QuietStep, UpChanges DEF IdleUp
<1> QED
  BY <1>1, <1>2, <1>3, <1>4, <1>5, <1>6, <1>7, <1>8 DEF Continue

(* What it may call. *)
LEMMA CallLocks ==
  ASSUME IInv, NEW t \in Threads, Call(t)
  PROVE  LockStep
<1> USE DEF Goto, At
<1>0. /\ tid_lock \in SemaIds /\ Threads \subseteq SemaIds /\ Semas \subseteq SemaIds
      /\ pc \in [Threads -> PCs] /\ at \in [Threads -> SemaIds] /\ value \in [SemaIds -> Nat]
      /\ Locks \subseteq SemaIds
  BY SynchAssumption DEF SemaIds, IInv, TypeOK
<1>1. ASSUME NEW s \in SemaIds, CallDown(t, s) \/ CallTryDown(t, s) PROVE LockStep
  BY <1>0, <1>1, QuietStep DEF Changes, CallDown, CallTryDown, synch
<1>2. ASSUME NEW s \in Semas, CallUp(t, s) PROVE LockStep
  BY <1>0, <1>2, QuietStep, UpChanges DEF CallUp
<1>3. ASSUME NEW l \in Locks, CallTryAcquire(t, l) PROVE LockStep
  BY <1>0, <1>3, QuietStep DEF Changes, CallTryAcquire
<1>4. ASSUME NEW l \in Locks, CallAcquire(t, l) \/ CallRelease(t, l) PROVE LockStep
  BY <1>0, <1>1, <1>4, ClearStep DEF CallAcquire, CallRelease
<1>5. ASSUME NEW c \in Conds, CallWait(t, c) \/ CallSignal(t, c) \/ CallBroadcast(t, c)
      PROVE  LockStep
  BY <1>0, <1>5, QuietStep DEF Changes, CallWait, CallSignal, PopWaiter, CallBroadcast, synch
<1>6. ASSUME NEW n \in Threads, CallCreate(t, n) PROVE LockStep
  <2>1. Control(n) /\ status[n] = "FREE"
    BY <1>6 DEF CallCreate, IInv, ControlOK
  <2>2. pc[n] = "call"
    BY <2>1 DEF Control, Alive
  <2> QED
    BY SMTT(20), <1>0, <1>6, <2>2, QuietStep DEF Changes, CallCreate, synch
<1>7. CASE CallYield(t) \/ CallExit(t)
  BY <1>0, <1>7, QuietStep DEF Changes, CallYield, CallExit, synch
<1> QED
  BY <1>0, <1>1, <1>2, <1>3, <1>4, <1>5, <1>6, <1>7 DEF Call

(* Every step. *)
LEMMA EveryStep == IInv /\ [Next]_vars => LockStep
BY CallLocks, ContinueLocks, QuietStep, SynchAssumption, UpChanges DEF SemaIds, TimerInterrupt,
   synch, Changes, DeviceInterrupt, vars, Next

(* synch.c: lock_acquire, lock_try_acquire, lock_release and all that is    *)
(* built on them (cond_wait, allocate_tid) implement Mutex: a lock goes to  *)
(* a thread only when it is free and is given up only by its owner.         *)
THEOREM LocksImplementMutex == Spec => MutexSpec
<1>1. Init => M!Init
  BY SMTT(20), InitLemma, OwnerLemma DEF M!Init, IInv, Init, SemaIds, OwnerOK, owner
<1>2. IInv /\ IInv' /\ [Next]_vars => [M!Next]_owner
  <2> SUFFICES ASSUME IInv, IInv', [Next]_vars, owner' # owner PROVE M!Next
    OBVIOUS
  <2>1. OwnerOK /\ OwnerOK' /\ HasOK /\ HasOK'
    BY OwnerLemma, HasLemma, PTL DEF IInv
  <2>2. PICK x \in SemaIds : Changes(x)
    BY EveryStep DEF LockStep
  <2>3. ASSUME NEW l \in Locks, value'[l] = value[l] PROVE owner'[l] = owner[l]
    BY SMTT(20), <2>1, <2>3, EveryStep DEF OwnerOK, HasOK, LockStep, Keeps
  <2>4. /\ owner = [l \in Locks |-> owner[l]] /\ owner' = [l \in Locks |-> owner'[l]]
        /\ x \in Locks /\ value'[x] # value[x]
        /\ \A l \in Locks : l # x => owner'[l] = owner[l]
    BY <2>2, <2>3 DEF owner, Changes
  <2>5. CASE value[x] = 1
    BY SMTT(20), <2>1, <2>4, <2>5 DEF OwnerOK, M!Acquire, M!Next
  <2>6. CASE value[x] = 0
    BY SMTT(20), <2>1, <2>4, <2>6 DEF OwnerOK, M!Release, M!Next
  <2> QED
    BY <2>1, <2>4, <2>5, <2>6 DEF OwnerOK
<1> QED
  BY <1>1, <1>2, Invariance, PTL DEF Spec, MutexSpec, M!Spec
==============================================================================
