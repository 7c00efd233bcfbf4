------------------------------ MODULE PintosSerial ------------------------------
(***************************************************************************)
(* Console output and keyboard input: threads, the serial interrupt, the   *)
(* keyboard interrupt and the UART meet in two interrupt queues, the input *)
(* buffer (devices/input.c) and the transmit queue (devices/serial.c).     *)
(*                                                                         *)
(* A queue is protected by turning interrupts off.  A thread that finds it *)
(* empty or full blocks, holding the queue's lock, until signal unblocks   *)
(* it; interrupts are off again when it resumes.  Locks are those of       *)
(* PintosSynch, used here as what Mutex says they are.                     *)
(***************************************************************************)
EXTENDS PintosSched, PintosIntq

CONSTANTS Readers,   \* the threads that call input_getc
          MaxDepth   \* bound: nested calls of printf

ASSUME SerialAssumption == /\ Readers \subseteq Threads
                           /\ NULL \notin Bytes
                           /\ MaxDepth \in Nat

VARIABLES
  pc,        \* pc[t]:       where t is
  at,        \* at[t]:       the lock t is taking or, in a queue, holding
  q,         \* q["input"] is buffer of input.c, q["txq"] that of serial.c
  waiter,    \* waiter[k]:   the members not_full and not_empty of q[k]
  holder,    \* holder[l]:   of the locks of the queues and of the console
  lwaiters,  \* lwaiters[l]: threads asleep in lock_acquire
  depth,     \* console_lock_depth
  mode,      \* of serial.c
  ier,       \* UART: interrupt enable register
  thre,      \* UART: transmit holding register empty
  dr         \* UART: the byte received, NULL when there is none

locks == <<holder, lwaiters, depth>>
uart == <<ier, thre, dr>>
vars == <<sched, pc, at, q, waiter, locks, mode, uart>>

Queues == {"input", "txq"}
Locks == Queues \cup {"console"}
Conditions == {"not_full", "not_empty"}
PCs == {"call", "print", "lock", "get", "put", "wait", "release", "flush", "halt", "idle"}

TypeOK ==
  /\ SchedTypeOK
  /\ pc \in [Threads -> PCs]
  /\ at \in [Threads -> Locks]
  /\ q \in [Queues -> Intq]
  /\ waiter \in [Queues -> [Conditions -> Threads \cup {NULL}]]
  /\ holder \in [Locks -> Threads \cup {NULL}]
  /\ lwaiters \in [Locks -> Seq(Threads)]
  /\ depth \in 0..MaxDepth
  /\ mode \in {"POLL", "QUEUE"}
  /\ ier \in [xmit : BOOLEAN, recv : BOOLEAN]
  /\ thre \in BOOLEAN
  /\ dr \in Bytes \cup {NULL}

(* Just after thread_start: the greeting has made printf call init_poll.    *)
Init ==
  /\ current = main
  /\ status = [t \in Threads |-> IF t = main THEN "RUNNING"
                                 ELSE IF t = idle THEN "BLOCKED" ELSE "FREE"]
  /\ ready = << >>
  /\ idle_thread = idle
  /\ slice = 0
  /\ pc = [t \in Threads |-> IF t = idle THEN "idle" ELSE "call"]
  /\ at = [t \in Threads |-> "console"]
  /\ \E zero \in Bytes : q = [k \in Queues |-> intq_init(zero)]
  /\ waiter = [k \in Queues |-> [w \in Conditions |-> NULL]]
  /\ holder = [l \in Locks |-> NULL]
  /\ lwaiters = [l \in Locks |-> << >>]
  /\ depth = 0
  /\ mode = "POLL"
  /\ ier = [xmit |-> FALSE, recv |-> FALSE]
  /\ thre = TRUE
  /\ dr = NULL

-----------------------------------------------------------------------------
Goto(t, l) == pc' = [pc EXCEPT ![t] = l]
At(t, l) == current = t /\ pc[t] = l

(* Interrupts are off while the running thread is inside a queue operation, *)
(* sema_down or serial_flush.                                               *)
IntrOff == pc[current] \in {"lock", "get", "put", "wait", "release", "flush", "halt"}

(* thread_unblock of each of the threads ts. *)
Unblock(ts) ==
  /\ ready' = ready \o ts
  /\ status' = [t \in Threads |-> IF \E i \in DOMAIN ts : ts[i] = t THEN "READY" ELSE status[t]]
  /\ UNCHANGED <<current, idle_thread, slice>>

(* The thread signal(q[k], w) unblocks, as a sequence of length 0 or 1.     *)
Woken(k, w) == IF waiter[k][w] = NULL THEN << >> ELSE <<waiter[k][w]>>

(* signal(q[k], w), called when nothing else is unblocked in the same step. *)
(* Faulty variant: *waiter is not reset.                                    *)
signal_no_reset(k, w) == Unblock(Woken(k, w)) /\ UNCHANGED waiter
signal(k, w) ==
  /\ Unblock(Woken(k, w))
  /\ waiter' = [waiter EXCEPT ![k][w] = NULL]

(* The condition a thread inside q[k] waits for, and whether it is false.   *)
Condition(k) == IF k = "input" THEN "not_empty" ELSE "not_full"
MustWait(k) == IF k = "input" THEN intq_empty(q[k]) ELSE intq_full(q[k])

(* The interrupt enable register for the queues qs.                         *)
write_ier(qs) ==
  ier' = [xmit |-> ~intq_empty(qs["txq"]), recv |-> ~intq_full(qs["input"])]

serial_notify(qs) == IF mode = "QUEUE" THEN write_ier(qs) ELSE UNCHANGED ier

-----------------------------------------------------------------------------
(* lock_acquire(at[t]); the caller is intq_getc, intq_putc or the console.  *)
Lock(t) ==
  /\ At(t, "lock")
  /\ IF holder[at[t]] = NULL
     THEN /\ holder' = [holder EXCEPT ![at[t]] = t]
          /\ Goto(t, IF at[t] = "console" THEN "print" ELSE "wait")
          /\ UNCHANGED <<sched, lwaiters>>
     ELSE /\ lwaiters' = [lwaiters EXCEPT ![at[t]] = Append(@, t)]
          /\ thread_block
          /\ UNCHANGED <<holder, pc>>
  /\ UNCHANGED <<at, q, waiter, depth, mode, uart>>

lock_release(l) ==
  /\ holder' = [holder EXCEPT ![l] = NULL]
  /\ IF lwaiters[l] = << >> THEN UNCHANGED <<sched, lwaiters>>
     ELSE /\ Unblock(<<Head(lwaiters[l])>>)
          /\ lwaiters' = [lwaiters EXCEPT ![l] = Tail(@)]

(* wait: its ASSERT, then the running thread blocks holding q[at[t]]'s lock. *)
Wait(t) ==
  /\ At(t, "wait")
  /\ MustWait(at[t])
  /\ waiter' = [waiter EXCEPT ![at[t]][Condition(at[t])] = t]
  /\ thread_block
  /\ Goto(t, "release")
  /\ UNCHANGED <<at, q, locks, mode, uart>>

(* Back from wait: lock_release, and round the loop. *)
Release(t) ==
  /\ At(t, "release")
  /\ lock_release(at[t])
  /\ Goto(t, IF at[t] = "input" THEN "get" ELSE "put")
  /\ UNCHANGED <<at, q, waiter, depth, mode, uart>>

(* The loops of intq_getc and intq_putc find the condition false. *)
MustLock(t, k) ==
  /\ MustWait(k)
  /\ Goto(t, "lock")
  /\ at' = [at EXCEPT ![t] = k]
  /\ UNCHANGED <<sched, q, waiter, locks, mode, uart>>

-----------------------------------------------------------------------------
(* input_getc *)
CallGetc(t) ==
  /\ At(t, "call")
  /\ Goto(t, "get")
  /\ UNCHANGED <<sched, at, q, waiter, locks, mode, uart>>

GetcWaits(t) == At(t, "get") /\ MustLock(t, "input")

Getc(t) ==
  /\ At(t, "get")
  /\ ~MustWait("input")
  /\ q' = [q EXCEPT !["input"] = GetByte(@)]
  /\ signal("input", "not_full")
  /\ serial_notify(q')
  /\ Goto(t, "call")
  /\ UNCHANGED <<at, locks, mode, thre, dr>>

(* acquire_console; a thread that has the console counts instead. *)
CallPrint(t) ==
  /\ At(t, "call")
  /\ Goto(t, "lock")
  /\ at' = [at EXCEPT ![t] = "console"]
  /\ UNCHANGED <<sched, q, waiter, locks, mode, uart>>

PrintAgain(t) ==
  /\ At(t, "print")
  /\ depth < MaxDepth
  /\ depth' = depth + 1
  /\ UNCHANGED <<sched, pc, at, q, waiter, holder, lwaiters, mode, uart>>

(* release_console.  Faulty variant: the inner call releases the lock. *)
ReleaseAtOnce(t) ==
  /\ At(t, "print")
  /\ lock_release("console")
  /\ IF depth > 0 THEN depth' = depth - 1 /\ UNCHANGED pc
     ELSE Goto(t, "call") /\ UNCHANGED depth
  /\ UNCHANGED <<at, q, waiter, mode, uart>>

EndPrint(t) ==
  /\ At(t, "print")
  /\ IF depth > 0
     THEN depth' = depth - 1 /\ UNCHANGED <<sched, pc, holder, lwaiters>>
     ELSE lock_release("console") /\ Goto(t, "call") /\ UNCHANGED depth
  /\ UNCHANGED <<at, q, waiter, mode, uart>>

(* putchar_have_lock, up to the intr_disable of serial_putc. *)
Putchar(t) ==
  /\ At(t, "print")
  /\ Goto(t, "put")
  /\ UNCHANGED <<sched, at, q, waiter, locks, mode, uart>>

(* serial_putc of a thread, which had interrupts on. *)
PutcPolls(t) ==
  /\ At(t, "put")
  /\ mode # "QUEUE"
  /\ thre
  /\ thre' = FALSE
  /\ Goto(t, "print")
  /\ UNCHANGED <<sched, at, q, waiter, locks, mode, ier, dr>>

PutcWaits(t) == At(t, "put") /\ mode = "QUEUE" /\ MustLock(t, "txq")

Putc(t, b) ==
  /\ At(t, "put")
  /\ mode = "QUEUE"
  /\ ~MustWait("txq")
  /\ q' = [q EXCEPT !["txq"] = PutByte(@, b)]
  /\ signal("txq", "not_empty")
  /\ write_ier(q')
  /\ Goto(t, "print")
  /\ UNCHANGED <<at, locks, mode, thre, dr>>

(* serial_putc of an interrupt handler that prints: interrupts were off, so *)
(* a full queue is relieved by polling.                                     *)
OffPutc(b) ==
  /\ ~IntrOff
  /\ mode = "QUEUE"
  /\ IF intq_full(q["txq"])
     THEN /\ thre
          /\ thre' = FALSE
          /\ q' = [q EXCEPT !["txq"] = PutByte(GetByte(@), b)]
          /\ signal("txq", "not_full")
     ELSE /\ q' = [q EXCEPT !["txq"] = PutByte(@, b)]
          /\ signal("txq", "not_empty")
          /\ UNCHANGED thre
  /\ write_ier(q')
  /\ UNCHANGED <<pc, at, locks, mode, dr>>

(* serial_flush, called by debug_panic and shutdown_power_off; the machine  *)
(* then stops.                                                              *)
CallFlush(t) ==
  /\ At(t, "call")
  /\ Goto(t, "flush")
  /\ UNCHANGED <<sched, at, q, waiter, locks, mode, uart>>

Flush(t) ==
  /\ At(t, "flush")
  /\ IF intq_empty(q["txq"])
     THEN Goto(t, "halt") /\ UNCHANGED <<sched, q, waiter, thre>>
     ELSE /\ thre
          /\ thre' = FALSE
          /\ q' = [q EXCEPT !["txq"] = GetByte(@)]
          /\ signal("txq", "not_full")
          /\ UNCHANGED pc
  /\ UNCHANGED <<at, locks, mode, ier, dr>>

-----------------------------------------------------------------------------
(* serial_init_queue, in main() before any other thread is created. *)
SerialInitQueue ==
  /\ At(main, "call")
  /\ mode = "POLL"
  /\ mode' = "QUEUE"
  /\ write_ier(q)
  /\ UNCHANGED <<sched, pc, at, q, waiter, locks, thre, dr>>

Create(t) ==
  /\ At(main, "call")
  /\ mode = "QUEUE"
  /\ status[t] = "FREE"
  /\ Unblock(<<t>>)
  /\ UNCHANGED <<pc, at, q, waiter, locks, mode, uart>>

IdleBlock ==
  /\ At(idle, "idle")
  /\ thread_block
  /\ UNCHANGED <<pc, at, q, waiter, locks, mode, uart>>

TimerInterrupt ==
  /\ ~IntrOff
  /\ thread_tick
  /\ UNCHANGED <<pc, at, q, waiter, locks, mode, uart>>

(* The loops of serial_interrupt: receive while there is room, transmit     *)
(* while the UART takes bytes; it holds one of each.  Faulty variant: what  *)
(* has received does not transmit.                                          *)
Receives == dr # NULL /\ ~intq_full(q["input"])
SendsUnlessReceives == thre /\ ~intq_empty(q["txq"]) /\ ~Receives
Sends == thre /\ ~intq_empty(q["txq"])

SerialInterrupt ==
  LET rx == Receives
      tx == Sends
  IN  /\ ~IntrOff
      /\ mode = "QUEUE"
      /\ (ier.recv /\ dr # NULL) \/ (ier.xmit /\ thre)
      /\ q' = [input |-> IF rx THEN PutByte(q["input"], dr) ELSE q["input"],
               txq |-> IF tx THEN GetByte(q["txq"]) ELSE q["txq"]]
      /\ Unblock((IF rx THEN Woken("input", "not_empty") ELSE << >>)
                 \o (IF tx THEN Woken("txq", "not_full") ELSE << >>))
      /\ waiter' = [waiter EXCEPT !["input"]["not_empty"] = IF rx THEN NULL ELSE @,
                                  !["txq"]["not_full"] = IF tx THEN NULL ELSE @]
      /\ dr' = IF rx THEN NULL ELSE dr
      /\ thre' = (thre /\ ~tx)
      /\ write_ier(q')
      /\ UNCHANGED <<pc, at, locks, mode>>

(* keyboard_interrupt when a character key is pressed: the modifier keys     *)
(* decide which byte it is.  It is dropped when the buffer is full.          *)
KeyboardInterrupt(b) ==
  /\ ~IntrOff
  /\ ~intq_full(q["input"])
  /\ q' = [q EXCEPT !["input"] = PutByte(@, b)]
  /\ signal("input", "not_empty")
  /\ serial_notify(q')
  /\ UNCHANGED <<pc, at, locks, mode, thre, dr>>

(* The UART receives a byte, over one that was not read in time, or has     *)
(* sent one.                                                                *)
Receive(b) == dr' = b /\ UNCHANGED <<sched, pc, at, q, waiter, locks, mode, ier, thre>>

Transmitted ==
  /\ ~thre
  /\ thre' = TRUE
  /\ UNCHANGED <<sched, pc, at, q, waiter, locks, mode, ier, dr>>

Inside(t) ==
  \/ Lock(t) \/ Wait(t) \/ Release(t)
  \/ GetcWaits(t) \/ Getc(t)
  \/ PutcPolls(t) \/ PutcWaits(t) \/ (\E b \in Bytes : Putc(t, b))
  \/ Flush(t)

Call(t) ==
  \/ t \in Readers /\ CallGetc(t)
  \/ CallPrint(t) \/ PrintAgain(t) \/ EndPrint(t) \/ Putchar(t) \/ CallFlush(t)

Next ==
  \/ \E t \in Threads : Inside(t) \/ Call(t) \/ Create(t)
  \/ SerialInitQueue \/ IdleBlock \/ TimerInterrupt \/ SerialInterrupt \/ Transmitted
  \/ \E b \in Bytes : OffPutc(b) \/ KeyboardInterrupt(b) \/ Receive(b)

Spec == Init /\ [][Next]_vars

(* With interrupts off the running thread goes on by itself.  The timer      *)
(* keeps ticking and interrupts are taken, although both are masked again    *)
(* and again, and the UART sends what it was given.  No thread is obliged to *)
(* call anything.                                                            *)
Fairness ==
  /\ WF_vars(\E t \in Threads : Inside(t))
  /\ SF_vars(TimerInterrupt)
  /\ SF_vars(SerialInterrupt)
  /\ WF_vars(Transmitted)

LiveSpec == Spec /\ Fairness

-----------------------------------------------------------------------------
(* The assertion at the head of wait (intq.c:91): a thread that has taken    *)
(* the queue's lock still finds the queue empty (full).                      *)
WaitAsserted == \A t \in Threads : At(t, "wait") => MustWait(at[t])

(* No wakeup is lost (signal, intq.c:102): a thread comes to wait only while *)
(* its condition is false (WaitAsserted); asleep there, it is the one its    *)
(* queue will unblock, holds the queue's lock, and its condition is still    *)
(* false; a queue never points at a thread that is not asleep there.         *)
WaiterOK ==
  /\ TypeOK /\ WaitAsserted
  /\ \A t \in Threads : pc[t] = "release" /\ status[t] = "BLOCKED" =>
       waiter[at[t]][Condition(at[t])] = t /\ holder[at[t]] = t
  /\ \A k \in Queues, w \in Conditions : waiter[k][w] # NULL =>
       LET t == waiter[k][w]
       IN  /\ pc[t] = "release" /\ status[t] = "BLOCKED"
           /\ at[t] = k /\ Condition(k) = w
           /\ MustWait(k)

(* The console lock simulates a recursive lock (console.c:35): a thread that *)
(* is printing, or waiting for room in the transmit queue, has the lock, and *)
(* only then can the depth be positive; so output of threads never mixes.    *)
ConsoleOK ==
  /\ \A t \in Threads :
       pc[t] \in {"print", "put"} \/ (pc[t] \in {"lock", "wait", "release"} /\ at[t] = "txq")
         => holder["console"] = t
  /\ depth > 0 => holder["console"] # NULL
  /\ holder["console"] # NULL =>
       pc[holder["console"]] \in {"print", "put", "lock", "wait", "release"}

(* The contents of the two circular buffers as abstract queues. *)
InputFifo == INSTANCE Fifo WITH contents <- Contents(q["input"]),
                                Capacity <- INTQ_BUFSIZE - 1
TxFifo == INSTANCE Fifo WITH contents <- Contents(q["txq"]),
                             Capacity <- INTQ_BUFSIZE - 1

(* The input buffer (input.c, intq.c) is a bounded first-in first-out queue, *)
(* whichever thread gets and whichever interrupt handler puts.               *)
InputInOrder == InputFifo!Spec

(* So is the transmit queue, also when a handler that finds it full polls    *)
(* the oldest byte out of it before it puts its own (serial.c:118).          *)
TxInOrder == TxFifo!Spec

(* Neither queue of bytes loses, doubles or reorders one, nor holds more     *)
(* than INTQ_BUFSIZE - 1.                                                    *)
QueuesInOrder == InputInOrder /\ TxInOrder

(* What has been queued for the serial port leaves the queue (serial_putc,   *)
(* serial.c:103, and the transmit interrupt).                                *)
TxDrains == \A p \in Positions :
  (q["txq"].tail = p /\ ~intq_empty(q["txq"])) ~> q["txq"].tail # p

InGetc(t) == pc[t] = "get" \/ (pc[t] = "release" /\ at[t] = "input")

(* A thread in input_getc (input.c:32) returns once there is a byte, unless  *)
(* the machine is shut down.                                                 *)
ReaderServed == \A t \in Threads :
  (InGetc(t) /\ ~intq_empty(q["input"])) ~> (pc[t] = "call" \/ pc[current] = "halt")
===============================================================================
