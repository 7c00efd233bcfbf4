------------------------------ MODULE PintosSched ------------------------------
(***************************************************************************)
(* The Pintos thread scheduler (threads/thread.c) on its single processor. *)
(* Every operation runs with interrupts off, so each is one step; schedule,*)
(* switch_threads and thread_schedule_tail belong to the step of whoever   *)
(* gives up the processor.  The operators below are the operations; the    *)
(* modules that extend this one say who calls them.                        *)
(***************************************************************************)
EXTENDS Integers, Sequences, FiniteSets

CONSTANTS Threads,      \* struct threads: pages a thread can live in
          main,         \* initial_thread
          idle,         \* the idle thread
          NULL,
          TIME_SLICE    \* ticks given to a thread

ASSUME SchedAssumption == /\ main \in Threads
                          /\ idle \in Threads
                          /\ main # idle
                          /\ NULL \notin Threads
                          /\ TIME_SLICE \in Nat \ {0}

(* There are as many pages as the machine has memory for. *)
ASSUME PagesAssumption == IsFiniteSet(Threads)

VARIABLES
  current,      \* the running thread
  status,       \* status[t]: "FREE" when no thread lives in page t
  ready,        \* ready_list
  idle_thread,  \* NULL until the idle thread has started
  slice         \* thread_ticks

sched == <<current, status, ready, idle_thread, slice>>

SchedTypeOK ==
  /\ current \in Threads
  /\ status \in [Threads -> {"FREE", "RUNNING", "READY", "BLOCKED", "DYING"}]
  /\ ready \in Seq(Threads)
  /\ idle_thread \in {NULL, idle}
  /\ slice \in 0..(TIME_SLICE - 1)

(* thread_init and thread_start up to intr_enable: main runs and the idle  *)
(* thread has been created but has not run yet.                            *)
SchedInit ==
  /\ current = main
  /\ status = [t \in Threads |-> IF t = main THEN "RUNNING"
                                 ELSE IF t = idle THEN "READY" ELSE "FREE"]
  /\ ready = <<idle>>
  /\ idle_thread = NULL
  /\ slice = 0

-----------------------------------------------------------------------------
next_thread_to_run(queue) == IF queue = << >> THEN idle_thread ELSE Head(queue)

(* schedule: stat and queue are the thread states and the ready list as    *)
(* the caller left them.  The thread switched to starts a new time slice.  *)
schedule(stat, queue) ==
  LET next == next_thread_to_run(queue)
  IN  /\ current' = next
      /\ ready' = IF queue = << >> THEN queue ELSE Tail(queue)
      /\ status' = [stat EXCEPT ![next] = "RUNNING"]
      /\ slice' = 0
      /\ UNCHANGED idle_thread

thread_block == schedule([status EXCEPT ![current] = "BLOCKED"], ready)

thread_yield ==
  schedule([status EXCEPT ![current] = "READY"],
           IF current = idle_thread THEN ready ELSE Append(ready, current))

(* The thread switched to frees the page of a dying thread, except that of *)
(* initial_thread.                                                         *)
thread_exit ==
  schedule([status EXCEPT ![current] = IF current = main
                                       THEN "DYING" ELSE "FREE"], ready)

thread_unblock(t) ==
  /\ ready' = Append(ready, t)
  /\ status' = [status EXCEPT ![t] = "READY"]
  /\ UNCHANGED <<current, idle_thread, slice>>

(* init_thread: the new thread is blocked until thread_create unblocks it. *)
init_thread(t) ==
  /\ status' = [status EXCEPT ![t] = "BLOCKED"]
  /\ UNCHANGED <<current, ready, idle_thread, slice>>

(* thread_tick, and the yield on return from the timer interrupt.          *)
(* Faulty variant: no preemption.                                          *)
thread_tick_no_yield ==
  /\ slice' = (slice + 1) % TIME_SLICE
  /\ UNCHANGED <<current, status, ready, idle_thread>>

thread_tick ==
  IF slice + 1 >= TIME_SLICE
  THEN thread_yield
  ELSE /\ slice' = slice + 1
       /\ UNCHANGED <<current, status, ready, idle_thread>>

-----------------------------------------------------------------------------
(* The scheduler's data agree: exactly one thread is RUNNING, the current   *)
(* one; the ready list has each READY thread once and nothing else, except  *)
(* that the idle thread, once it has started, is READY or BLOCKED outside   *)
(* of it.  So schedule always finds a thread (its ASSERT(is_thread(next))). *)
SchedOK ==
  /\ current # NULL
  /\ \A t \in Threads : status[t] = "RUNNING" <=> t = current
  /\ \A i, k \in DOMAIN ready : ready[i] = ready[k] => i = k
  /\ \A i \in DOMAIN ready : status[ready[i]] = "READY"
  /\ \A t \in Threads : status[t] = "READY" =>
       (\E i \in DOMAIN ready : ready[i] = t) \/ t = idle_thread
  /\ \A i \in DOMAIN ready : ready[i] # idle_thread
===============================================================================
