------------------------- MODULE PintosSynchMonitors -------------------------
(***************************************************************************)
(* What the locks of PintosSynch protect: allocate_tid hands out no id     *)
(* twice, and condition variables neither lose nor invent a signal.        *)
(* Everything here rests on IInv, which PintosSynchProofs shows to be an   *)
(* invariant.                                                              *)
(***************************************************************************)
EXTENDS PintosSynchProofs

(* Leaves are for Zenon unless they name another prover.                    *)
USE Zenon

(* Thread ids.  allocate_tid holds tid_lock from its read of next_tid to    *)
(* its write, so the only id that next_tid has not passed is the one being  *)
(* written.                                                                 *)
TidPCs == {"tid_read", "tid_write", "tid_release"}

TidInv ==
  /\ TidsUnique
  /\ \A t \in Threads : pc[t] \in TidPCs => holder[tid_lock] = t
  /\ \A t \in Threads : pc[t] = "holder" /\ kid[t] # NULL => at[t] = tid_lock
  /\ \A t \in Threads : pc[t] = "tid_write" => tid[kid[t]] = next_tid
  /\ \A u \in Threads : \/ tid[u] < next_tid
                        \/ \E t \in Threads : pc[t] = "tid_write" /\ kid[t] = u

(* Steps outside allocate_tid. *)
TidQuiet ==
  /\ tid' = tid /\ next_tid' = next_tid
  /\ \A t \in Threads : pc[t] \in TidPCs \/ pc'[t] \in TidPCs =>
       pc'[t] = pc[t] /\ kid'[t] = kid[t] /\ holder'[tid_lock] = holder[tid_lock]
  /\ \A t \in Threads : pc'[t] = "holder" /\ kid'[t] # NULL => at'[t] = tid_lock

(* They keep TidInv. *)
LEMMA TidQuietLemma ==
  ASSUME TidInv, TidQuiet
  PROVE  TidInv'
BY SMTT(20) DEF TidQuiet, TidPCs, TidInv, TidsUnique

(* The holder of tid_lock is alone in allocate_tid. *)
LEMMA TidAlone ==
  ASSUME IInv, TidInv, NEW t \in Threads, NEW u \in Threads, pc[u] \in TidPCs,
         pc[t] \in TidPCs \/ (pc[t] = "holder" /\ at[t] = tid_lock)
  PROVE  u = t
BY SMTT(20), HasLemma, OwnerLemma, SynchAssumption DEF TidInv, Has, IInv, HasOK, OwnerOK

(* Each step of a thread keeps TidInv. *)
LEMMA TidContinue ==
  ASSUME IInv, TidInv, NEW t \in Threads, Continue(t)
  PROVE  TidInv'
<1> USE DEF Goto, At, TidPCs
<1>0. /\ pc \in [Threads -> PCs] /\ at \in [Threads -> SemaIds] /\ holder \in [Locks -> Threads \cup {NULL}]
      /\ tid \in [Threads -> Nat] /\ next_tid \in Nat /\ kid \in [Threads -> Threads \cup {NULL}]
      /\ Control(t) /\ tid_lock \in Locks
  BY SynchAssumption DEF IInv, TypeOK, ControlOK
<1>1. CASE SemaDown(t)
  BY SMTT(20), <1>0, <1>1, TidQuietLemma DEF SemaDown, AfterDown, tids, Control, TidQuiet, TidInv
<1>2. CASE SetHolder(t)
  BY SMTT(20), <1>0, <1>2, TidAlone, TidQuietLemma DEF SetHolder, TidInv, TidQuiet, tids, TidsUnique
<1>3. CASE ReleaseUp(t) \/ SignalUp(t) \/ IdleUp(t)
  <2>0. /\ pc[t] \notin TidPCs /\ pc'[t] \notin TidPCs \cup {"holder"}
        /\ \A u \in Threads : u # t => pc'[u] = pc[u] /\ at'[u] = at[u]
        /\ holder' = holder /\ kid' = kid /\ tid' = tid /\ next_tid' = next_tid
    BY <1>0, <1>3 DEF ReleaseUp, SignalUp, IdleUp, sema_up, tids
  <2>1. TidQuiet
    BY SMTT(20), <2>0 DEF TidQuiet, TidInv
  <2> QED
    BY <2>1, TidQuietLemma
<1>4. CASE Broadcast(t) \/ IdleStart(t) \/ IdleBlock(t) \/ Unblock(t)
  <2>0. /\ pc[t] \notin TidPCs /\ pc'[t] \notin TidPCs \cup {"holder"}
        /\ \A u \in Threads : u # t => pc'[u] = pc[u] /\ at'[u] = at[u] /\ kid'[u] = kid[u]
        /\ holder' = holder /\ tid' = tid /\ next_tid' = next_tid
        /\ TidQuiet
    BY SMTT(20), <1>0, <1>4 DEF Broadcast, PopWaiter, IdleStart, IdleBlock, Unblock, synch, tids,
       TidQuiet, TidInv
  <2> QED
    BY <2>0, TidQuietLemma
<1>5. CASE WaitRelease(t)
  BY SMTT(20), <1>0, <1>5, SynchAssumption, TidQuietLemma DEF WaitRelease, Control, IInv, TypeOK,
     ClearHolder, TidQuiet, TidInv, tids
<1>6. CASE TidRead(t)
  BY SMTT(20), <1>0, <1>6, TidAlone DEF TidRead, Control, synch, TidInv, TidsUnique
<1>7. CASE TidWrite(t)
  BY SMTT(20), <1>0, <1>7, TidAlone DEF TidWrite, TidInv, synch, TidsUnique
<1>8. CASE TidRelease(t)
  BY <1>0, <1>8, TidAlone DEF TidRelease, ClearHolder, tids, TidInv, TidsUnique
<1> QED
  BY <1>1, <1>2, <1>3, <1>4, <1>5, <1>6, <1>7, <1>8 DEF Continue

(* So does each call. *)
LEMMA TidCall ==
  ASSUME IInv, TidInv, NEW t \in Threads, Call(t)
  PROVE  TidInv'
<1> USE DEF Goto, At, TidPCs
<1>0. /\ pc \in [Threads -> PCs] /\ at \in [Threads -> SemaIds] /\ holder \in [Locks -> Threads \cup {NULL}]
      /\ kid \in [Threads -> Threads \cup {NULL}]
      /\ tid \in [Threads -> Nat] /\ next_tid \in Nat /\ Control(t) /\ tid_lock \in Locks
  BY SynchAssumption DEF IInv, TypeOK, ControlOK
<1>1. ASSUME NEW s \in SemaIds, CallDown(t, s) \/ CallTryDown(t, s) PROVE TidInv'
  BY SMTT(20), <1>0, <1>1, TidQuietLemma DEF CallDown, CallTryDown, TidQuiet, TidInv, synch, tids
<1>2. ASSUME NEW s \in Semas, CallUp(t, s) PROVE TidInv'
  BY <1>0, <1>2, TidQuietLemma DEF CallUp, sema_up, TidQuiet, TidInv, tids
<1>3. ASSUME NEW l \in Locks \ {tid_lock}, CallTryAcquire(t, l) \/ CallRelease(t, l) PROVE TidInv'
  BY SMTT(20), <1>0, <1>3, TidQuietLemma DEF CallTryAcquire, CallRelease, Control, ClearHolder, TidQuiet,
     TidInv, tids
<1>4. ASSUME NEW c \in Conds, CallWait(t, c) \/ CallSignal(t, c) \/ CallBroadcast(t, c)
      PROVE  TidInv'
  <2>1. TidQuiet
    BY SMTT(20), <1>0, <1>4 DEF CallWait, CallSignal, PopWaiter, CallBroadcast, TidQuiet, TidInv, synch,
       tids
  <2> QED
    BY <2>1, TidQuietLemma
<1>5. ASSUME NEW n \in Threads, CallCreate(t, n) PROVE TidInv'
  BY SMTT(20), <1>0, <1>5, TidQuietLemma DEF CallCreate, IInv, ControlOK, Control, Alive, TidQuiet,
     TidInv, synch, tids
<1>6. CASE CallYield(t)
  BY <1>6, TidQuietLemma DEF CallYield, TidQuiet, TidInv, synch, tids
<1>7. CASE CallExit(t)
  BY SMTT(20), <1>0, <1>7, RunningLemma DEF CallExit, synch, IInv, ControlOK, Control, TidInv, TidsUnique
<1> QED
  BY <1>1, <1>2, <1>3, <1>4, <1>5, <1>6, <1>7 DEF Call, CallAcquire, SemaIds

(* thread.c: allocate_tid never hands out an id twice, although it reads    *)
(* and writes next_tid with interrupts on: TidsUnique in every reachable    *)
(* state.                                                                   *)
THEOREM TidsNeverShared == Spec => []TidsUnique
<1>1. /\ Init => TidInv
      /\ IInv /\ TidInv /\ [Next]_vars => TidInv'
      /\ TidInv => TidsUnique
  BY SMTT(20), SchedAssumption, TidCall, TidContinue, TidQuietLemma DEF Init, SchedInit, TidInv,
     TidsUnique, TidPCs, TimerInterrupt, vars, synch, tids, TidQuiet, DeviceInterrupt, sema_up,
     Next
<1> QED
  BY <1>1, Invariance, PTL DEF Spec

-----------------------------------------------------------------------------
(* Condition variables.  CondOK follows a waiting thread from the list of   *)
(* its condition variable to a signaller and to the value of its own        *)
(* semaphore; said thread by thread it is inductive together with IInv.     *)
OnList(c, w) == \E i \in DOMAIN cwaiters[c] : cwaiters[c][i] = w
Signals(u, w) == pc[u] = "signal" /\ at[u] = w

CondInv ==
  /\ \A c \in Conds : \A i, k \in DOMAIN cwaiters[c] : cwaiters[c][k] = cwaiters[c][i] => k = i
  /\ \A c \in Conds, w \in Threads : OnList(c, w) =>
       InWait(w) /\ cw[w] = c /\ value[w] = 0 /\ \A u \in Threads : ~Signals(u, w)
  /\ \A u, w \in Threads : Signals(u, w) =>
       InWait(w) /\ value[w] = 0 /\ \A v \in Threads : Signals(v, w) => v = u
  /\ \A w \in Threads : InWait(w) =>
       value[w] = 1 \/ OnList(cw[w], w) \/ \E u \in Threads : Signals(u, w)

(* The types that the steps below need. *)
LEMMA CondTypes ==
  ASSUME IInv
  PROVE  /\ pc \in [Threads -> PCs] /\ at \in [Threads -> SemaIds] /\ value \in [SemaIds -> Nat]
         /\ cw \in [Threads -> Conds \cup {NULL}] /\ cwaiters \in [Conds -> Seq(Threads)]
         /\ \A t \in Threads : Control(t)
         /\ \A t \in Threads : pc[t] = "signal" => at[t] \in Threads
         /\ \A t \in Threads : InWait(t) => cw[t] \in Conds
         /\ Threads \subseteq SemaIds /\ Locks \subseteq SemaIds /\ Semas \subseteq SemaIds
         /\ \A s \in Semas \cup Locks \cup {idle_started} : s \notin Threads
BY SMTT(20), SynchAssumption DEF IInv, ControlOK, Control, TypeOK, InWait, SemaIds

(* Only inside cond_wait, cond_broadcast and what they call is a condition  *)
(* variable at hand.                                                        *)
LEMMA CondAtHand ==
  ASSUME IInv, NEW t \in Threads, pc[t] \notin {"wait", "up", "down", "woken", "broadcast", "signal"}
  PROVE  cw[t] = NULL
BY DEF IInv, ControlOK, Control

(* CondInv says what the run checks. *)
LEMMA CondLemma == IInv /\ CondInv => CondOK
<1> SUFFICES ASSUME IInv, CondInv PROVE CondOK
  OBVIOUS
<1>0. /\ \A c \in Conds : \A i \in DOMAIN cwaiters[c] : cwaiters[c][i] \in Threads
      /\ \A c \in Conds : \A i \in DOMAIN cwaiters[c] :
           LET t == cwaiters[c][i]
           IN  /\ InWait(t) /\ cw[t] = c /\ value[t] = 0
               /\ \A k \in DOMAIN cwaiters[c] : cwaiters[c][k] = t => k = i
  BY SMTT(20), CondTypes DEF CondInv, OnList
<1>1. \A u \in Threads : pc[u] = "signal" =>
       /\ InWait(at[u]) /\ value[at[u]] = 0
       /\ \A v \in Threads : pc[v] = "signal" /\ at[v] = at[u] => v = u
       /\ \A c \in Conds : \A i \in DOMAIN cwaiters[c] : cwaiters[c][i] # at[u]
  <2> SUFFICES ASSUME NEW u \in Threads, NEW w \in Threads, Signals(u, w)
               PROVE  /\ InWait(w) /\ value[w] = 0
                      /\ \A v \in Threads : pc[v] = "signal" /\ at[v] = w => v = u
                      /\ \A c \in Conds : \A i \in DOMAIN cwaiters[c] : cwaiters[c][i] # w
    BY CondTypes DEF Signals
  <2> QED
    BY SMTT(20) DEF CondInv, OnList, Signals
<1>2. \A t \in Threads : InWait(t) =>
       \/ value[t] = 1
       \/ \E i \in DOMAIN cwaiters[cw[t]] : cwaiters[cw[t]][i] = t
       \/ \E u \in Threads : pc[u] = "signal" /\ at[u] = t
  BY DEF CondInv, OnList, Signals
<1> QED
  BY <1>0, <1>1, <1>2 DEF CondOK

(* Steps that do not touch condition variables. *)
CondQuiet ==
  /\ cwaiters' = cwaiters
  /\ \A t \in Threads :
       /\ value'[t] = value[t]
       /\ InWait(t)' <=> InWait(t)
       /\ InWait(t) => cw'[t] = cw[t]
       /\ pc'[t] = "signal" <=> pc[t] = "signal"
       /\ pc[t] = "signal" => at'[t] = at[t]

(* They keep CondInv. *)
LEMMA CondQuietLemma ==
  ASSUME CondInv, CondQuiet
  PROVE  CondInv'
BY SMTT(20) DEF CondQuiet, OnList, Signals, CondInv

(* cond_signal and cond_broadcast: the first waiter leaves the list. *)
LEMMA CondPop ==
  ASSUME IInv, CondInv, NEW t \in Threads, NEW c \in Conds, PopWaiter(t, c), cw' = cw,
         pc[t] \notin {"wait", "up", "down", "woken", "signal"}
  PROVE  CondInv'
<1>0. PICK h \in Threads : h = Head(cwaiters[c])
  BY CondTypes, TailLemma DEF PopWaiter
<1>1. /\ cwaiters[c] \in Seq(Threads) /\ cwaiters[c] # << >>
      /\ cwaiters'[c] = Tail(cwaiters[c]) /\ \A d \in Conds : d # c => cwaiters'[d] = cwaiters[d]
      /\ value' = value /\ pc'[t] = "signal" /\ at'[t] = h
      /\ \A u \in Threads : u # t => pc'[u] = pc[u] /\ at'[u] = at[u]
  BY <1>0, CondTypes DEF PopWaiter, Goto
<1>2. /\ h \in Threads /\ 1 \in DOMAIN cwaiters[c] /\ h = cwaiters[c][1]
      /\ \A i \in DOMAIN Tail(cwaiters[c]) : i \in Nat /\ i + 1 \in DOMAIN cwaiters[c]
                                             /\ Tail(cwaiters[c])[i] = cwaiters[c][i + 1]
      /\ \A i \in DOMAIN cwaiters[c] :
           i = 1 \/ (i - 1 \in DOMAIN Tail(cwaiters[c]) /\ cwaiters[c][i] = Tail(cwaiters[c])[i - 1])
      /\ \A i, k \in DOMAIN cwaiters[c] : cwaiters[c][k] = cwaiters[c][i] => k = i
  BY SMTT(20), <1>0, <1>1, TailLemma DEF CondInv
<1>3. \A d \in Conds : \A i, k \in DOMAIN cwaiters'[d] : cwaiters'[d][k] = cwaiters'[d][i] => k = i
  <2>1. ASSUME NEW i \in DOMAIN Tail(cwaiters[c]), NEW k \in DOMAIN Tail(cwaiters[c]),
               Tail(cwaiters[c])[k] = Tail(cwaiters[c])[i]
        PROVE  k = i
    <3>1. /\ i \in Nat /\ i + 1 \in DOMAIN cwaiters[c] /\ Tail(cwaiters[c])[i] = cwaiters[c][i + 1]
          /\ k \in Nat /\ k + 1 \in DOMAIN cwaiters[c] /\ Tail(cwaiters[c])[k] = cwaiters[c][k + 1]
          /\ k + 1 = i + 1
      BY SMTT(20), <1>2, <2>1
    <3> QED
      BY SMTT(20), <3>1
  <2>2. ASSUME NEW d \in Conds, d # c
        PROVE  \A i, k \in DOMAIN cwaiters'[d] : cwaiters'[d][k] = cwaiters'[d][i] => k = i
    BY SMTT(20), <1>1, <2>2 DEF CondInv
  <2>3. ASSUME NEW d \in Conds
        PROVE  \A i, k \in DOMAIN cwaiters'[d] : cwaiters'[d][k] = cwaiters'[d][i] => k = i
    BY <1>1, <2>1, <2>2
  <2> QED
    BY <2>3
<1>4. /\ OnList(c, h) /\ ~OnList(c, h)'
      /\ \A w \in Threads : w # h => (OnList(c, w)' <=> OnList(c, w))
      /\ \A d \in Conds, w \in Threads : d # c => (OnList(d, w)' <=> OnList(d, w))
  <2>1. /\ OnList(c, h)
        /\ ~OnList(c, h)'
    BY SMTT(20), <1>1, <1>2 DEF OnList
  <2>2. ASSUME NEW w \in Threads, w # h PROVE OnList(c, w)' <=> OnList(c, w)
    <3>1. OnList(c, w)' => OnList(c, w)
      BY SMTT(20), <1>1, <1>2 DEF OnList
    <3>2. ASSUME NEW i \in DOMAIN cwaiters[c], cwaiters[c][i] = w PROVE OnList(c, w)'
      <4>1. /\ i # 1
            /\ i - 1 \in DOMAIN Tail(cwaiters[c]) /\ Tail(cwaiters[c])[i - 1] = w
        BY <1>2, <2>2, <3>2
      <4> QED
        BY <1>1, <4>1 DEF OnList
    <3> QED
      BY <3>1, <3>2 DEF OnList
  <2> QED
    BY <1>1, <2>1, <2>2 DEF OnList
<1>5. /\ Signals(t, h)' /\ \A w \in Threads : ~Signals(t, w)
      /\ \A w \in Threads : w # h => ~Signals(t, w)'
      /\ \A u, w \in Threads : u # t => (Signals(u, w)' <=> Signals(u, w))
      /\ \A w \in Threads : InWait(w)' <=> InWait(w)
      /\ InWait(h) /\ cw[h] = c /\ value[h] = 0 /\ \A u \in Threads : ~Signals(u, h)
      /\ \A d \in Conds, w \in Threads : OnList(d, w)' => OnList(d, w) /\ w # h
  BY SMTT(20), <1>1, <1>2, <1>4 DEF Signals, InWait, CondInv
<1>6. \A w \in Threads : InWait(w)' =>
        value'[w] = 1 \/ OnList(cw[w], w)' \/ \E u \in Threads : Signals(u, w)'
  <2> SUFFICES ASSUME NEW w \in Threads, InWait(w), w # h
               PROVE  value[w] = 1 \/ OnList(cw[w], w)' \/ \E u \in Threads : Signals(u, w)'
    BY SMTT(20), <1>1, <1>5
  <2>1. PICK d \in Conds : d = cw[w]
    BY CondTypes
  <2>2. /\ OnList(d, w) => OnList(d, w)'
        /\ OnList(cw[w], w)' <=> OnList(d, w)'
    BY SMTT(20), <1>4, <2>1 DEF OnList
  <2> QED
    BY SMTT(20), <1>5, <2>1, <2>2 DEF CondInv
<1>7. /\ \A d \in Conds, w \in Threads : OnList(d, w)' =>
           InWait(w)' /\ cw'[w] = d /\ value'[w] = 0 /\ \A u \in Threads : ~Signals(u, w)'
      /\ \A u, w \in Threads : Signals(u, w)' =>
           InWait(w)' /\ value'[w] = 0 /\ \A v \in Threads : Signals(v, w)' => v = u
  BY SMTT(20), <1>1, <1>2, <1>5 DEF CondInv
<1> QED
  BY <1>3, <1>6, <1>7 DEF CondInv

(* cond_wait: the caller's semaphore_elem goes to the end of the list. *)
LEMMA CondEnter ==
  ASSUME IInv, CondInv, NEW t \in Threads, NEW c \in Conds, CallWait(t, c)
  PROVE  CondInv'
<1>1. /\ cwaiters[c] \in Seq(Threads) /\ pc[t] = "call" /\ pc'[t] = "wait" /\ cw'[t] = c /\ value'[t] = 0
      /\ cwaiters'[c] = Append(cwaiters[c], t) /\ \A d \in Conds : d # c => cwaiters'[d] = cwaiters[d]
      /\ \A u \in Threads : u # t => pc'[u] = pc[u] /\ cw'[u] = cw[u] /\ value'[u] = value[u]
      /\ at' = at /\ t \in SemaIds
  BY CondTypes DEF CallWait, At, Goto
<1>2. /\ \A i \in DOMAIN cwaiters'[c] : \/ i \in DOMAIN cwaiters[c] /\ cwaiters'[c][i] = cwaiters[c][i]
                                        \/ i = Len(cwaiters[c]) + 1 /\ cwaiters'[c][i] = t
      /\ \A i \in DOMAIN cwaiters[c] : i \in DOMAIN cwaiters'[c] /\ cwaiters'[c][i] = cwaiters[c][i]
      /\ Len(cwaiters[c]) + 1 \in DOMAIN cwaiters'[c] /\ cwaiters'[c][Len(cwaiters[c]) + 1] = t
      /\ ~InWait(t) /\ InWait(t)' /\ \A u \in Threads : u # t => (InWait(u)' <=> InWait(u))
      /\ \A d \in Conds : ~OnList(d, t) /\ \A u \in Threads : ~Signals(u, t)
      /\ \A u, w \in Threads : Signals(u, w)' <=> Signals(u, w)
  BY SMTT(20), <1>1, AppendLemma, SynchAssumption DEF InWait, CondInv, Signals
<1>3. /\ OnList(c, t)' /\ \A d \in Conds : d # c => ~OnList(d, t)'
      /\ \A d \in Conds, w \in Threads : w # t => (OnList(d, w)' <=> OnList(d, w))
  <2>1. ASSUME NEW w \in Threads, w # t PROVE OnList(c, w)' <=> OnList(c, w)
    BY <1>2, <2>1 DEF OnList
  <2>2. OnList(c, t)' /\ \A d \in Conds, w \in Threads : d # c => (OnList(d, w)' <=> OnList(d, w))
    BY <1>1, <1>2 DEF OnList
  <2> QED
    BY <1>2, <2>1, <2>2
<1>4. \A d \in Conds : \A i, k \in DOMAIN cwaiters'[d] : cwaiters'[d][k] = cwaiters'[d][i] => k = i
  <2>1. /\ \A i \in DOMAIN cwaiters[c] : cwaiters[c][i] # t
        /\ \A i, k \in DOMAIN cwaiters[c] : cwaiters[c][k] = cwaiters[c][i] => k = i
        /\ \A i, k \in DOMAIN cwaiters'[c] : cwaiters'[c][k] = cwaiters'[c][i] => k = i
    BY SMTT(20), <1>2 DEF OnList, CondInv
  <2>2. ASSUME NEW d \in Conds, d # c
        PROVE  \A i, k \in DOMAIN cwaiters'[d] : cwaiters'[d][k] = cwaiters'[d][i] => k = i
    BY SMTT(20), <1>1, <2>2 DEF CondInv
  <2> QED
    BY <2>1, <2>2
<1>5. /\ \A d \in Conds, w \in Threads : OnList(d, w)' =>
            InWait(w)' /\ cw'[w] = d /\ value'[w] = 0 /\ \A u \in Threads : ~Signals(u, w)'
      /\ \A u, w \in Threads : Signals(u, w)' =>
            InWait(w)' /\ value'[w] = 0 /\ \A v \in Threads : Signals(v, w)' => v = u
  BY SMTT(20), <1>1, <1>2, <1>3 DEF CondInv
<1>6. \A w \in Threads : InWait(w)' =>
         value'[w] = 1 \/ OnList(cw[w], w)' \/ \E u \in Threads : Signals(u, w)'
  <2> SUFFICES ASSUME NEW w \in Threads, InWait(w)', w # t
               PROVE  value'[w] = 1 \/ OnList(cw[w], w)' \/ \E u \in Threads : Signals(u, w)'
    BY <1>1, <1>3 DEF OnList
  <2>1. InWait(w) /\ cw[w] \in Conds /\ value'[w] = value[w]
    BY <1>1, <1>2, CondTypes
  <2>2. PICK d \in Conds : d = cw[w]
    BY <2>1
  <2>3. (OnList(cw[w], w)' <=> OnList(d, w)') /\ (OnList(d, w) => OnList(d, w)')
    BY ZenonT(30), <1>1, <1>3, <2>2 DEF OnList
  <2> QED
    BY <1>2, <2>1, <2>2, <2>3 DEF CondInv
<1> QED
  BY <1>4, <1>5, <1>6 DEF CondInv

(* The second half of cond_signal: the waiter's semaphore is up. *)
LEMMA CondUp ==
  ASSUME IInv, CondInv, NEW t \in Threads, SignalUp(t)
  PROVE  CondInv'
<1>1. PICK w \in Threads : w = at[t] /\ Signals(t, w)
  BY CondTypes DEF SignalUp, At, Signals
<1>2. /\ value'[w] = value[w] + 1 /\ \A u \in Threads : u # w => value'[u] = value[u]
      /\ cwaiters' = cwaiters /\ cw' = cw /\ at' = at
      /\ pc[t] = "signal" /\ pc'[t] \in {"broadcast", "call"} /\ \A u \in Threads : u # t => pc'[u] = pc[u]
      /\ InWait(w) /\ value[w] = 0 /\ \A u \in Threads : Signals(u, w) => u = t
      /\ \A c \in Conds : ~OnList(c, w)
  BY SMTT(20), <1>1, CondTypes DEF SignalUp, At, Goto, sema_up, CondInv
<1>3. /\ \A u \in Threads : InWait(u)' <=> InWait(u)
      /\ \A u, v \in Threads : Signals(u, v)' => Signals(u, v) /\ v # w
      /\ \A u, v \in Threads : Signals(u, v) /\ v # w => Signals(u, v)'
      /\ \A c \in Conds, u \in Threads : OnList(c, u)' <=> OnList(c, u)
      /\ \A u \in Threads : OnList(cw[u], u)' <=> OnList(cw[u], u)
  BY <1>1, <1>2 DEF InWait, Signals, OnList
<1> QED
  BY SMTT(20), <1>1, <1>2, <1>3 DEF CondInv

(* sema_down: a thread that takes its own semaphore has been signalled, and *)
(* nobody else is about to signal it.                                       *)
LEMMA CondDown ==
  ASSUME IInv, CondInv, NEW t \in Threads, SemaDown(t)
  PROVE  CondInv'
<1>1. CASE MustSleep(t) \/ at[t] \notin Threads
  BY SMTT(20), <1>1, CondQuietLemma, CondTypes DEF SemaDown, AfterDown, At, Goto, SemaIds, InWait,
     Control, CondQuiet
<1>2. CASE ~MustSleep(t) /\ at[t] \in Threads
  <2>1. /\ at[t] = t /\ InWait(t) /\ value[t] # 0
        /\ cw'[t] = NULL /\ pc[t] \in {"down", "woken"} /\ pc'[t] = "down" /\ cwaiters' = cwaiters
        /\ \A u \in Threads : u # t => pc'[u] = pc[u] /\ cw'[u] = cw[u] /\ at'[u] = at[u] /\ value'[u] = value[u]
        /\ \A c \in Conds : ~OnList(c, t) /\ \A u \in Threads : ~Signals(u, t)
    <3>1. Control(t) /\ pc[t] \in {"down", "woken"} /\ value[at[t]] # 0
      BY <1>2, CondTypes DEF SemaDown, At, MustSleep
    <3>2. at[t] = t /\ cw[t] # NULL /\ InWait(t)
      BY <1>2, <3>1 DEF Control, InWait
    <3>3. /\ cw'[t] = NULL /\ pc'[t] = "down" /\ cwaiters' = cwaiters
          /\ \A u \in Threads : u # t => pc'[u] = pc[u] /\ cw'[u] = cw[u] /\ at'[u] = at[u] /\ value'[u] = value[u]
      BY SMTT(20), <1>2, <3>2, CondTypes DEF SemaDown, AfterDown, Goto
    <3>4. \A c \in Conds : ~OnList(c, t) /\ \A u \in Threads : ~Signals(u, t)
      BY <3>1, <3>2 DEF CondInv
    <3> QED
      BY <3>1, <3>2, <3>3, <3>4
  <2>2. /\ ~InWait(t)' /\ \A u \in Threads : u # t => (InWait(u)' <=> InWait(u))
        /\ \A u, w \in Threads : Signals(u, w)' <=> Signals(u, w)
        /\ \A c \in Conds, w \in Threads : OnList(c, w)' <=> OnList(c, w)
        /\ \A w \in Threads : w # t => (OnList(cw[w], w)' <=> OnList(cw[w], w))
        /\ \A u \in Threads : ~Signals(u, t)
        /\ \A c \in Conds : \A i, k \in DOMAIN cwaiters'[c] : cwaiters'[c][k] = cwaiters'[c][i] => k = i
    <3>1. /\ ~InWait(t)' /\ \A u \in Threads : u # t => (InWait(u)' <=> InWait(u))
          /\ \A u, w \in Threads : Signals(u, w)' <=> Signals(u, w)
      BY SMTT(20), <2>1 DEF InWait, Signals
    <3>2. /\ \A c \in Conds, w \in Threads : OnList(c, w)' <=> OnList(c, w)
          /\ \A w \in Threads : w # t => (OnList(cw[w], w)' <=> OnList(cw[w], w))
      BY <2>1 DEF OnList
    <3>3. \A c \in Conds : \A i, k \in DOMAIN cwaiters'[c] : cwaiters'[c][k] = cwaiters'[c][i] => k = i
      BY <2>1 DEF CondInv
    <3>4. \A u \in Threads : ~Signals(u, t)
      BY <2>1 DEF CondInv
    <3> QED
      BY <3>1, <3>2, <3>3, <3>4
  <2>3. /\ \A c \in Conds, w \in Threads : OnList(c, w)' =>
              InWait(w)' /\ cw'[w] = c /\ value'[w] = 0 /\ \A u \in Threads : ~Signals(u, w)'
        /\ \A u, w \in Threads : Signals(u, w)' =>
              InWait(w)' /\ value'[w] = 0 /\ \A v \in Threads : Signals(v, w)' => v = u
        /\ \A w \in Threads : InWait(w)' =>
             value'[w] = 1 \/ OnList(cw[w], w)' \/ \E u \in Threads : Signals(u, w)'
        /\ \A w \in Threads : InWait(w)' => (OnList(cw[w], w)' <=> \E i \in DOMAIN cwaiters'[cw'[w]] : cwaiters'[cw'[w]][i] = w)
    <3>1. ASSUME NEW c \in Conds, NEW w \in Threads, OnList(c, w)'
          PROVE  InWait(w)' /\ cw'[w] = c /\ value'[w] = 0 /\ \A u \in Threads : ~Signals(u, w)'
      <4>1. OnList(c, w) /\ w # t
        BY <2>1, <2>2, <3>1
      <4>2. InWait(w) /\ cw[w] = c /\ value[w] = 0 /\ \A u \in Threads : ~Signals(u, w)
        BY <4>1 DEF CondInv
      <4> QED
        BY <2>1, <2>2, <4>1, <4>2
    <3>2. ASSUME NEW u \in Threads, NEW w \in Threads, Signals(u, w)'
          PROVE  InWait(w)' /\ value'[w] = 0 /\ \A v \in Threads : Signals(v, w)' => v = u
      <4>1. Signals(u, w) /\ w # t
        BY <2>2, <3>2
      <4>2. InWait(w) /\ value[w] = 0 /\ \A v \in Threads : Signals(v, w) => v = u
        BY <4>1 DEF CondInv
      <4> QED
        BY <2>1, <2>2, <4>1, <4>2
    <3>3. ASSUME NEW w \in Threads, InWait(w)'
          PROVE  value'[w] = 1 \/ OnList(cw[w], w)' \/ \E u \in Threads : Signals(u, w)'
      <4>1. InWait(w) /\ w # t
        BY <2>2, <3>3
      <4>2. value[w] = 1 \/ OnList(cw[w], w) \/ \E u \in Threads : Signals(u, w)
        BY <4>1 DEF CondInv
      <4> QED
        BY <2>1, <2>2, <4>1, <4>2
    <3>4. \A w \in Threads : InWait(w)' =>
            (OnList(cw[w], w)' <=> \E i \in DOMAIN cwaiters'[cw'[w]] : cwaiters'[cw'[w]][i] = w)
      BY <2>1, <2>2 DEF OnList
    <3> QED
      BY <3>1, <3>2, <3>3, <3>4
  <2> QED
    BY <2>2, <2>3 DEF CondInv, OnList
<1> QED
  BY <1>1, <1>2

(* Each step of a thread keeps CondInv. *)
LEMMA CondContinue ==
  ASSUME IInv, CondInv, NEW t \in Threads, Continue(t)
  PROVE  CondInv'
<1> USE DEF Goto, At
<1>0. /\ pc \in [Threads -> PCs] /\ at \in [Threads -> SemaIds] /\ value \in [SemaIds -> Nat]
      /\ cw \in [Threads -> Conds \cup {NULL}] /\ cwaiters \in [Conds -> Seq(Threads)]
      /\ Threads \subseteq SemaIds /\ Locks \subseteq SemaIds /\ Semas \subseteq SemaIds
      /\ \A s \in Semas \cup Locks \cup {idle_started} : s \notin Threads
  BY CondTypes
<1>1. CASE SetHolder(t) \/ TidRead(t) \/ TidWrite(t) \/ Unblock(t)
  BY <1>0, <1>1, CondAtHand, CondQuietLemma DEF SetHolder, TidRead, TidWrite, Unblock, synch,
     CondQuiet, InWait
<1>2. CASE ReleaseUp(t)
  <2>1. pc[t] = "up" /\ Control(t)
    BY <1>2, CondTypes DEF ReleaseUp
  <2>2. at[t] \in Locks /\ at[t] \in SemaIds /\ at[t] \notin Threads
    BY <1>0, <2>1 DEF Control
  <2> QED
    BY SMTT(20), <1>0, <1>2, <2>2, CondQuietLemma DEF ReleaseUp, sema_up, CondQuiet, InWait
<1>3. CASE WaitRelease(t) \/ TidRelease(t)
  BY <1>0, <1>3, CondAtHand, CondQuietLemma DEF WaitRelease, TidRelease, ClearHolder, CondQuiet,
     InWait
<1>4. CASE Broadcast(t)
  <2>1. CASE PopWaiter(t, cw[t]) /\ cw' = cw
    <3>1. PICK c \in Conds : c = cw[t]
      <4>1. pc[t] = "broadcast" /\ Control(t) /\ cw[t] \in Conds \cup {NULL}
        BY <1>4, CondTypes DEF Broadcast
      <4> QED
        BY <4>1 DEF Control
    <3> QED
      BY <1>4, <2>1, <3>1, CondPop DEF Broadcast
  <2>2. CASE ~(PopWaiter(t, cw[t]) /\ cw' = cw)
    BY <1>0, <1>4, <2>2, CondQuietLemma DEF Broadcast, synch, CondQuiet, InWait
  <2> QED
    BY <2>1, <2>2
<1>5. CASE IdleStart(t) \/ IdleUp(t) \/ IdleBlock(t)
  BY <1>0, <1>5, CondQuietLemma DEF IdleStart, IdleUp, IdleBlock, sema_up, synch, CondQuiet,
     InWait
<1> QED
  BY <1>1, <1>2, <1>3, <1>4, <1>5, CondDown, CondUp DEF Continue

(* So does each call. *)
LEMMA CondCall ==
  ASSUME IInv, CondInv, NEW t \in Threads, Call(t)
  PROVE  CondInv'
<1> USE DEF Goto, At
<1>0. /\ pc \in [Threads -> PCs] /\ at \in [Threads -> SemaIds] /\ value \in [SemaIds -> Nat]
      /\ cw \in [Threads -> Conds \cup {NULL}] /\ cwaiters \in [Conds -> Seq(Threads)]
      /\ Threads \subseteq SemaIds /\ Locks \subseteq SemaIds /\ Semas \subseteq SemaIds
      /\ \A s \in Semas \cup Locks \cup {idle_started} : s \notin Threads
  BY CondTypes
<1>1. ASSUME NEW s \in Semas \cup Locks,
             CallDown(t, s) \/ (s \in Semas /\ CallTryDown(t, s)) \/ (s \in Locks /\ CallTryAcquire(t, s))
      PROVE  CondInv'
  <2>1. s \notin Threads /\ s \in SemaIds
    BY <1>0
  <2>2. CASE CallDown(t, s)
    BY SMTT(20), <1>0, <2>1, <2>2, CondAtHand, CondQuietLemma DEF CallDown, synch, CondQuiet, InWait
  <2>3. CASE CallTryDown(t, s)
    BY SMTT(20), <1>0, <2>1, <2>3, CondQuietLemma DEF CallTryDown, CondQuiet, InWait
  <2>4. CASE CallTryAcquire(t, s)
    BY SMTT(20), <1>0, <2>1, <2>4, CondQuietLemma DEF CallTryAcquire, CondQuiet, InWait
  <2> QED
    BY <1>1, <2>2, <2>3, <2>4
<1>2. ASSUME NEW s \in Semas, CallUp(t, s) PROVE CondInv'
  BY <1>0, <1>2, CondQuietLemma DEF CallUp, sema_up, CondQuiet, InWait
<1>3. ASSUME NEW l \in Locks, CallRelease(t, l) PROVE CondInv'
  BY <1>0, <1>3, CondAtHand, CondQuietLemma DEF CallRelease, ClearHolder, CondQuiet, InWait
<1>4. ASSUME NEW c \in Conds, CallBroadcast(t, c) PROVE CondInv'
  BY <1>0, <1>4, CondQuietLemma DEF CallBroadcast, synch, CondQuiet, InWait
<1>5. ASSUME NEW c \in Conds, CallSignal(t, c) PROVE CondInv'
  BY <1>5, CondPop DEF CallSignal
<1>6. ASSUME NEW n \in Threads, CallCreate(t, n) PROVE CondInv'
  <2>1. status[n] = "FREE" /\ Control(n)
    BY <1>6 DEF CallCreate, IInv, ControlOK
  <2>2. pc[n] = "call" /\ cw[n] = NULL
    BY <2>1 DEF Control, Alive
  <2> QED
    BY SMTT(20), <1>0, <1>6, <2>2, CondAtHand, CondQuietLemma DEF CallCreate, synch, CondQuiet, InWait
<1>7. CASE CallYield(t) \/ CallExit(t)
  BY <1>7, CondQuietLemma DEF CallYield, CallExit, synch, CondQuiet, InWait
<1> QED
  BY <1>1, <1>2, <1>3, <1>4, <1>5, <1>6, <1>7, CondEnter DEF Call, CallAcquire

(* synch.c: a thread in cond_wait is signalled once, no signal is lost, and *)
(* cond_signal ups a semaphore that its waiter still waits for: CondOK in   *)
(* every reachable state, for any number of condition variables.            *)
THEOREM SignalsExact == Spec => []CondOK
<1>1. Init => CondInv
  BY SMTT(20), SynchAssumption DEF Init, CondInv, OnList, Signals, InWait
<1>2. IInv /\ CondInv /\ [Next]_vars => CondInv'
  BY SMTT(20), CondCall, CondContinue, CondQuietLemma, CondTypes DEF TimerInterrupt, vars, synch,
     CondQuiet, InWait, DeviceInterrupt, sema_up, Next
<1> QED
  BY <1>1, <1>2, CondLemma, Invariance, PTL DEF Spec

==============================================================================
