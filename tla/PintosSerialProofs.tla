--------------------------- MODULE PintosSerialProofs --------------------------
(***************************************************************************)
(* Two results about PintosSerial, for any threads, any buffer size and    *)
(* any number of readers.  The circular buffers implement Fifo.  And       *)
(* SerialInv is an invariant, so no wakeup of a thread that waits for a    *)
(* queue is lost, and the console lock is recursive.                       *)
(***************************************************************************)
EXTENDS PintosSerial, PintosSchedProofs

(* Leaves are for Zenon unless they name another prover.                    *)
USE Zenon

(* The types of the queues and of the data register. *)
QType == q \in [Queues -> Intq] /\ dr \in Bytes \cup {NULL}

(* What the queue's contents are compared with: two sequences with the same *)
(* elements, the one with a byte added and the one without its first.       *)
LEMMA SameList ==
  ASSUME NEW S, NEW s \in Seq(S), NEW t \in Seq(S), Len(s) = Len(t),
         \A i \in 1..Len(s) : s[i] = t[i]
  PROVE  s = t
  BY SMTT(20)

(* What Append does to a list.                                              *)
LEMMA Appended ==
  ASSUME NEW S, NEW s \in Seq(S), NEW b \in S
  PROVE  /\ Append(s, b) \in Seq(S) /\ Len(Append(s, b)) = Len(s) + 1
         /\ \A i \in 1..Len(s) + 1 : Append(s, b)[i] = IF i = Len(s) + 1 THEN b ELSE s[i]
  BY SMTT(20)

(* What Tail does to a list.                                                *)
LEMMA Tailed ==
  ASSUME NEW S, NEW s \in Seq(S), s # << >>
  PROVE  /\ Tail(s) \in Seq(S) /\ Len(Tail(s)) = Len(s) - 1
         /\ \A i \in 1..Len(s) - 1 : Tail(s)[i] = s[i + 1]
  BY SMTT(20)

(* The members of a list of threads are threads.                            *)
LEMMA MembersIn ==
  ASSUME NEW S, NEW s \in Seq(S)
  PROVE  Members(s) \subseteq S
  BY SMTT(20) DEF Members

(* next wraps around exactly at the end of the buffer. *)
LEMMA NextCases ==
  ASSUME NEW p \in Positions
  PROVE  /\ next(p) = IF p + 1 = INTQ_BUFSIZE THEN 0 ELSE p + 1
         /\ next(p) \in Positions
BY SMTT(20), IntqAssumption DEF Positions, next

(* The number of bytes in a queue, and which of them is where. *)
LEMMA CountLemma ==
  ASSUME NEW u \in Intq
  PROVE  /\ Count(u) \in 0..(INTQ_BUFSIZE - 1)
         /\ Contents(u) \in Seq(Bytes) /\ Len(Contents(u)) = Count(u)
         /\ intq_empty(u) <=> Count(u) = 0
         /\ intq_full(u) <=> Count(u) = INTQ_BUFSIZE - 1
<1>1. /\ u.head \in Positions /\ u.tail \in Positions /\ u.buf \in [Positions -> Bytes]
      /\ Count(u) \in 0..(INTQ_BUFSIZE - 1)
      /\ \A i \in 1..Count(u) : Contents(u)[i] \in Bytes
  BY SMTT(20), IntqAssumption DEF Intq, Count, Positions, Place, Contents
<1>2. Contents(u) \in Seq(Bytes) /\ Len(Contents(u)) = Count(u)
  BY SMTT(20), <1>1 DEF Contents
<1>3. intq_empty(u) <=> Count(u) = 0
  BY SMTT(20), <1>1, IntqAssumption DEF intq_empty, Count, Positions
<1>4. intq_full(u) <=> Count(u) = INTQ_BUFSIZE - 1
  <2>1. next(u.head) = IF u.head + 1 = INTQ_BUFSIZE THEN 0 ELSE u.head + 1
    BY <1>1, NextCases
  <2> QED
    BY SMTT(20), <1>1, <2>1, IntqAssumption DEF intq_full, Count, Positions
<1> QED
  BY <1>1, <1>2, <1>3, <1>4

(* intq_putc appends its byte to a queue that is not full. *)
LEMMA PutLemma ==
  ASSUME NEW u \in Intq, NEW b \in Bytes, ~intq_full(u)
  PROVE  /\ PutByte(u, b) \in Intq
         /\ Contents(PutByte(u, b)) = Append(Contents(u), b)
         /\ Len(Contents(u)) < INTQ_BUFSIZE - 1
<1> DEFINE v == PutByte(u, b)
<1>1. /\ u.head \in Positions /\ u.tail \in Positions /\ u.buf \in [Positions -> Bytes]
      /\ next(u.head) \in Positions
      /\ next(u.head) = IF u.head + 1 = INTQ_BUFSIZE THEN 0 ELSE u.head + 1
  BY NextCases DEF Intq
<1>2. v \in Intq /\ v.head = next(u.head) /\ v.tail = u.tail
      /\ v.buf = [u.buf EXCEPT ![u.head] = b]
  BY <1>1 DEF PutByte, Intq
<1>3. Count(u) \in 0..(INTQ_BUFSIZE - 2) /\ Count(v) = Count(u) + 1
  BY <1>1, <1>2, IntqAssumption, SMTT(30) DEF Count, Positions, intq_full
<1>4. \A i \in 1..Count(v) : Contents(v)[i] = IF i = Count(u) + 1 THEN b ELSE Contents(u)[i]
  <2>1. \A i \in 1..Count(v) : /\ Place(u, i) \in Positions /\ Place(v, i) = Place(u, i)
                               /\ Place(u, i) = u.head <=> i = Count(u) + 1
    <3> SUFFICES ASSUME NEW i \in 1..Count(v)
                 PROVE  /\ Place(u, i) \in Positions /\ Place(v, i) = Place(u, i)
                        /\ Place(u, i) = u.head <=> i = Count(u) + 1
      OBVIOUS
    <3>1. i \in Int /\ 1 <= i /\ i <= Count(u) + 1
      BY SMTT(20), <1>3
    <3>2. Place(v, i) = Place(u, i)
      BY <1>2 DEF Place
    <3>3. Place(u, i) \in Positions
      BY SMTT(60), <1>1, <1>3, <3>1, IntqAssumption DEF Place, Positions
    <3>4. Place(u, i) = u.head <=> i = Count(u) + 1
      <4>1. /\ INTQ_BUFSIZE \in Int /\ u.head \in Int /\ u.tail \in Int
            /\ 0 <= u.head /\ u.head < INTQ_BUFSIZE /\ 0 <= u.tail /\ u.tail < INTQ_BUFSIZE
        BY SMTT(20), <1>1, IntqAssumption DEF Positions
      <4>2. CASE u.tail <= u.head
        BY SMTT(20), <3>1, <4>1, <4>2 DEF Place, Count
      <4>3. CASE ~(u.tail <= u.head)
        BY SMTT(20), <3>1, <4>1, <4>3 DEF Place, Count
      <4> QED
        BY <4>2, <4>3
    <3> QED
      BY <3>2, <3>3, <3>4
  <2>2. \A i \in 1..Count(v) : Contents(v)[i] = v.buf[Place(v, i)]
    BY DEF Contents
  <2>3. \A i \in 1..Count(v) : i # Count(u) + 1 => Contents(u)[i] = u.buf[Place(u, i)]
    BY SMTT(20), <1>3 DEF Contents
  <2> QED
    BY SMTT(20), <1>1, <1>2, <1>3, <2>1, <2>2, <2>3
<1>5. /\ Contents(u) \in Seq(Bytes) /\ Len(Contents(u)) = Count(u)
      /\ Contents(v) \in Seq(Bytes) /\ Len(Contents(v)) = Count(u) + 1
  BY <1>2, <1>3, CountLemma
<1>6. Contents(v) = Append(Contents(u), b)
  <2> DEFINE s == Contents(u)  w == Append(Contents(u), b)
  <2>1. w \in Seq(Bytes) /\ Len(w) = Len(s) + 1
    BY <1>5, Appended
  <2>2. \A i \in 1..Len(w) : w[i] = IF i = Len(s) + 1 THEN b ELSE s[i]
    BY SMTT(20), <1>5, <2>1, Appended
  <2>3. \A i \in 1..Len(w) : w[i] = Contents(v)[i]
    BY <1>3, <1>4, <1>5, <2>1, <2>2
  <2> QED
    BY <1>5, <2>1, <2>3, SameList
<1> QED
  BY SMTT(20), <1>2, <1>3, <1>5, <1>6, IntqAssumption

(* intq_getc takes the oldest byte of a queue that is not empty. *)
LEMMA GetLemma ==
  ASSUME NEW u \in Intq, ~intq_empty(u)
  PROVE  /\ GetByte(u) \in Intq
         /\ Contents(u) # << >>
         /\ Contents(GetByte(u)) = Tail(Contents(u))
         /\ ~intq_full(GetByte(u))
<1> DEFINE v == GetByte(u)
<1>1. /\ u.head \in Positions /\ u.tail \in Positions /\ u.buf \in [Positions -> Bytes]
      /\ next(u.tail) \in Positions
      /\ next(u.tail) = IF u.tail + 1 = INTQ_BUFSIZE THEN 0 ELSE u.tail + 1
      /\ v \in Intq /\ v.head = u.head /\ v.tail = next(u.tail) /\ v.buf = u.buf
  BY NextCases DEF Intq, GetByte
<1>2. Count(u) \in 1..(INTQ_BUFSIZE - 1) /\ Count(v) = Count(u) - 1
  BY <1>1, IntqAssumption, SMTT(30) DEF Count, Positions, intq_empty
<1>3. \A i \in 1..Count(v) : Contents(v)[i] = Contents(u)[i + 1]
  <2>1. \A i \in 1..Count(v) : Place(v, i) = Place(u, i + 1)
    BY <1>1, <1>2, IntqAssumption, SMTT(30) DEF Place, Count, Positions
  <2>2. /\ \A i \in 1..Count(v) : Contents(v)[i] = v.buf[Place(v, i)]
        /\ \A i \in 1..Count(v) : Contents(u)[i + 1] = u.buf[Place(u, i + 1)]
    BY SMTT(20), <1>2 DEF Contents
  <2> QED
    BY <1>1, <2>1, <2>2
<1>4. /\ Contents(u) \in Seq(Bytes) /\ Len(Contents(u)) = Count(u) /\ Contents(u) # << >>
      /\ Contents(v) \in Seq(Bytes) /\ Len(Contents(v)) = Count(u) - 1
  BY <1>1, <1>2, CountLemma
<1>5. Contents(v) = Tail(Contents(u))
  <2> DEFINE w == Tail(Contents(u))
  <2>1. /\ w \in Seq(Bytes) /\ Len(w) = Count(u) - 1
        /\ \A i \in 1..Len(w) : w[i] = Contents(u)[i + 1]
        /\ \A i \in 1..Len(w) : w[i] = Contents(v)[i]
    BY ZenonT(30), <1>2, <1>3, <1>4, Tailed
  <2> QED
    BY <1>4, <2>1, SameList
<1>6. ~intq_full(v)
  BY SMTT(20), <1>1, <1>2, CountLemma, IntqAssumption
<1> QED
  BY <1>1, <1>4, <1>5, <1>6

-----------------------------------------------------------------------------
(* What a step may do to the contents s of a queue. *)
FifoStep(s, w) ==
  \/ w = s
  \/ \E b \in Bytes : Len(s) < INTQ_BUFSIZE - 1 /\ w = Append(s, b)
  \/ s # << >> /\ w = Tail(s)
  \/ \E b \in Bytes : s # << >> /\ w = Append(Tail(s), b)

(* What a step may do to a queue. *)
QueueStep(u, v) ==
  \/ v = u
  \/ ~intq_full(u) /\ \E b \in Bytes : v = PutByte(u, b)
  \/ ~intq_empty(u) /\ v = GetByte(u)
  \/ ~intq_empty(u) /\ \E b \in Bytes : v = PutByte(GetByte(u), b)

(* A step on the circular buffer is a step on its contents. *)
LEMMA QueueStepLemma ==
  ASSUME NEW u \in Intq, NEW v, QueueStep(u, v)
  PROVE  v \in Intq /\ FifoStep(Contents(u), Contents(v))
BY GetLemma, PutLemma DEF FifoStep, QueueStep

(* A full queue is not empty: OffPutc takes a byte out of it. *)
LEMMA FullNotEmpty ==
  ASSUME NEW u \in Intq, intq_full(u)
  PROVE  ~intq_empty(u)
BY SMTT(20), CountLemma, IntqAssumption

QueuesStep ==
  /\ q' \in [Queues -> {q'["input"], q'["txq"]}]
  /\ QueueStep(q["input"], q'["input"])
  /\ QueueStep(q["txq"], q'["txq"])
  /\ dr' \in Bytes \cup {NULL}

(* Every step of the system is a step on each queue. *)
LEMMA SystemStep ==
  ASSUME QType, [Next]_vars
  PROVE  QueuesStep
<1>0. /\ q \in [Queues -> Intq] /\ dr \in Bytes \cup {NULL}
      /\ q["input"] \in Intq /\ q["txq"] \in Intq
  BY DEF QType, Queues
<1>1. CASE q' = q /\ dr' \in Bytes \cup {NULL}
  BY <1>0, <1>1 DEF QueueStep, Queues, QueuesStep
<1>2. ASSUME NEW t \in Threads, Inside(t) PROVE QueuesStep
  BY <1>0, <1>1, <1>2 DEF Getc, MustWait, QueueStep, Queues, QueuesStep, Putc, Flush, Lock,
     Wait, Release, GetcWaits, PutcPolls, PutcWaits, MustLock, uart, Inside
<1>3. ASSUME NEW t \in Threads, Call(t) \/ Create(t) PROVE QueuesStep
  BY <1>0, <1>1, <1>3 DEF Call, Create, CallGetc, CallPrint, PrintAgain, EndPrint, Putchar,
     CallFlush, uart
<1>4. CASE SerialInitQueue \/ IdleBlock \/ TimerInterrupt \/ Transmitted \/ UNCHANGED vars
  BY <1>0, <1>1, <1>4 DEF SerialInitQueue, IdleBlock, TimerInterrupt, Transmitted, vars, uart
<1>5. CASE SerialInterrupt
  BY <1>0, <1>5 DEF SerialInterrupt, Receives, Sends, QueueStep, Queues, QueuesStep
<1>6. ASSUME NEW b \in Bytes, OffPutc(b) \/ KeyboardInterrupt(b) \/ Receive(b) PROVE QueuesStep
  BY <1>0, <1>1, <1>6, FullNotEmpty DEF OffPutc, QueueStep, Queues, QueuesStep,
     KeyboardInterrupt, Receive
<1> QED
  BY <1>2, <1>3, <1>4, <1>5, <1>6 DEF Next

(* So the contents of both queues do what Fifo allows. *)
LEMMA ContentsStep ==
  ASSUME QType, [Next]_vars
  PROVE  /\ QType'
         /\ FifoStep(Contents(q["input"]), Contents(q'["input"]))
         /\ FifoStep(Contents(q["txq"]), Contents(q'["txq"]))
BY QueueStepLemma, SystemStep DEF QType, Queues, QueuesStep

(* Both queues are empty after intq_init. *)
LEMMA InitQueues ==
  ASSUME Init
  PROVE  QType /\ Contents(q["input"]) = << >> /\ Contents(q["txq"]) = << >>
<1>1. PICK zero \in Bytes : q = [k \in Queues |-> intq_init(zero)]
  BY DEF Init
<1>2. /\ intq_init(zero) \in Intq /\ intq_empty(intq_init(zero))
      /\ Contents(intq_init(zero)) = << >>
  BY SMTT(20), CountLemma, IntqAssumption DEF intq_init, Intq, Positions, intq_empty
<1> QED
  BY <1>1, <1>2 DEF Init, QType, Queues

(* Nothing but bytes is ever in the queues, whatever interrupts what. *)
LEMMA QTypeHolds == Spec => []QType
<1>1. /\ Init => QType
      /\ QType /\ [Next]_vars => QType'
  BY ContentsStep, InitQueues
<1> QED
  BY <1>1, PTL DEF Spec

(* The input buffer of input.c is a bounded first-in first-out queue for any *)
(* INTQ_BUFSIZE, any threads and any order of interrupts.                    *)
THEOREM InputRefinesFifo == Spec => InputInOrder
<1>1. /\ Init => InputFifo!Init
      /\ QType /\ [Next]_vars => [InputFifo!Next]_(Contents(q["input"]))
  BY ContentsStep, InitQueues DEF InputFifo!Init, FifoStep, InputFifo!Next, InputFifo!Put,
     InputFifo!Get, InputFifo!Shift
<1> QED
  BY <1>1, QTypeHolds, PTL DEF Spec, InputInOrder, InputFifo!Spec

(* So is the transmit queue of serial.c, polled output included. *)
THEOREM TxRefinesFifo == Spec => TxInOrder
<1>1. /\ Init => TxFifo!Init
      /\ QType /\ [Next]_vars => [TxFifo!Next]_(Contents(q["txq"]))
  BY ContentsStep, InitQueues DEF TxFifo!Init, FifoStep, TxFifo!Next, TxFifo!Put, TxFifo!Get,
     TxFifo!Shift
<1> QED
  BY <1>1, QTypeHolds, PTL DEF Spec, TxInOrder, TxFifo!Spec

(* Both queues of bytes, input.c's and serial.c's, keep every byte and its   *)
(* place.                                                                    *)
THEOREM QueuesRefineFifo == Spec => QueuesInOrder
BY InputRefinesFifo, TxRefinesFifo DEF QueuesInOrder

-----------------------------------------------------------------------------
(* Who is where.  A queue's lock is taken with interrupts off by a thread   *)
(* that has just seen the queue empty or full.  The console lock lets one   *)
(* thread at a time do so to the transmit queue; if only one thread reads,  *)
(* this is so of the input buffer as well.                                  *)
OneReader == \A r, s \in Readers : r = s
Alone(k) == k = "txq" \/ OneReader

Enters(t, k) == pc[t] = "lock" /\ at[t] = k
Waits(t, k) == pc[t] \in {"wait", "release"} /\ at[t] = k
Prints(t) == pc[t] \in {"print", "put"} \/ Enters(t, "txq") \/ Waits(t, "txq")
Reads(t) == pc[t] = "get" \/ Enters(t, "input") \/ Waits(t, "input")

(* What a thread's place says about the locks and the queues.               *)
PlaceOK(t) ==
  /\ pc[t] = "idle" <=> t = idle
  /\ Reads(t) => t \in Readers
  /\ \A k \in Queues : Alone(k) /\ Enters(t, k) => t = current /\ MustWait(k)
  /\ pc[t] = "wait" => t = current /\ at[t] \in Queues /\ (Alone(at[t]) => MustWait(at[t]))
  /\ pc[t] = "release" => at[t] \in Queues
  /\ \A k \in Queues : Waits(t, k) <=> holder[k] = t
  /\ Prints(t) <=> holder["console"] = t

(* Who is asleep in lock_acquire.                                           *)
ListsOK ==
  /\ \A l \in Locks : /\ Distinct(lwaiters[l])
                      /\ \A t \in Members(lwaiters[l]) : status[t] = "BLOCKED" /\ Enters(t, l)
  /\ \A k \in Queues : Alone(k) => lwaiters[k] = << >>

(* Who is asleep in wait, and that the queue knows.                         *)
Known(t) == pc[t] = "release" /\ status[t] = "BLOCKED" => waiter[at[t]][Condition(at[t])] = t
AsleepOK(k, w, t) ==
  pc[t] = "release" /\ status[t] = "BLOCKED" /\ at[t] = k /\ Condition(k) = w /\ MustWait(k)

(* The inductive invariant of PintosSerial, for any number of readers.      *)
SerialInv ==
  /\ TypeOK /\ SchedOK /\ idle_thread = idle /\ status[idle] # "FREE"
  /\ \A t \in Threads : PlaceOK(t) /\ Known(t)
  /\ depth > 0 => holder["console"] # NULL
  /\ ListsOK
  /\ \A k \in Queues, w \in Conditions, t \in Threads : waiter[k][w] = t => AsleepOK(k, w, t)

(* What a step of the running thread c, or an interrupt during it, leaves   *)
(* to the others ...                                                        *)
OthersStay(c) ==
  \A u \in Threads : u # c =>
    /\ pc'[u] = pc[u] /\ at'[u] = at[u]
    /\ status'[u] = "BLOCKED" => status[u] = "BLOCKED"
    /\ \A l \in Locks : holder'[l] = u <=> holder[l] = u

(* ... and does to a queue's member w: it stays, or its thread is unblocked *)
(* and it is reset, or c comes to wait.                                     *)
WaiterStep(k, w, c) ==
  \/ /\ waiter'[k][w] = waiter[k][w]
     /\ waiter[k][w] # NULL => status'[waiter[k][w]] = "BLOCKED" /\ MustWait(k)'
  \/ /\ waiter'[k][w] = NULL
     /\ waiter[k][w] # NULL => status'[waiter[k][w]] # "BLOCKED"
  \/ /\ waiter[k][w] = NULL /\ waiter'[k][w] = c
     /\ pc'[c] = "release" /\ status'[c] = "BLOCKED" /\ at'[c] = k /\ Condition(k) = w
     /\ MustWait(k)'

(* A step that does no more than that keeps SerialInv.                      *)
LEMMA StepLemma ==
  ASSUME SerialInv, NEW c \in Threads, c = current,
         TypeOK', SchedOK', idle_thread' = idle, status'[idle] # "FREE",
         current' = c \/ (pc'[c] # "wait" /\ \A k \in Queues : ~(Alone(k) /\ Enters(c, k)')),
         OthersStay(c), PlaceOK(c)', Known(c)', ListsOK',
         depth' > 0 => holder'["console"] # NULL,
         \A k \in Queues, w \in Conditions : WaiterStep(k, w, c)
  PROVE  SerialInv'
BY SMTT(20), SchedAssumption DEF SerialInv, OthersStay, Enters, Waits, Prints, Reads, Queues, PlaceOK,
   Locks, AsleepOK, SchedOK, WaiterStep, Condition, Conditions, Known

-----------------------------------------------------------------------------
(* The part of TypeOK that QType and SchedTypeOK leave.                     *)
OwnType ==
  /\ pc \in [Threads -> PCs]
  /\ at \in [Threads -> Locks]
  /\ waiter \in [Queues -> [Conditions -> Threads \cup {NULL}]]
  /\ holder \in [Locks -> Threads \cup {NULL}]
  /\ lwaiters \in [Locks -> Seq(Threads)]
  /\ depth \in 0..MaxDepth
  /\ mode \in {"POLL", "QUEUE"}
  /\ ier \in [xmit : BOOLEAN, recv : BOOLEAN]
  /\ thre \in BOOLEAN

(* The sleepers of the locks stay there as long as nobody unblocks them.    *)
LEMMA ListsKept ==
  ASSUME SerialInv, lwaiters' = lwaiters, NEW c \in Threads, c = current,
         \A u \in Threads : u # c => pc'[u] = pc[u] /\ at'[u] = at[u],
         \A u \in Threads : pc[u] = "lock" /\ status[u] = "BLOCKED" => status'[u] = "BLOCKED"
  PROVE  ListsOK'
<1>1. /\ ListsOK /\ lwaiters \in [Locks -> Seq(Threads)] /\ status[c] # "BLOCKED"
      /\ \A l \in Locks : Members(lwaiters[l]) \subseteq Threads
  BY MembersIn DEF SerialInv, TypeOK, SchedOK
<1>2. ASSUME NEW l \in Locks, NEW u \in Members(lwaiters[l]) PROVE status'[u] = "BLOCKED" /\ Enters(u, l)'
  <2>1. u \in Threads /\ status[u] = "BLOCKED" /\ Enters(u, l)
    BY <1>1 DEF ListsOK
  <2> QED
    BY <1>1, <2>1 DEF Enters
<1> QED
  BY <1>1, <1>2 DEF ListsOK

(* thread_unblock of blocked or new threads keeps the scheduler's data      *)
(* right (thread.c:242).                                                    *)
LEMMA UnblockAllLemma ==
  ASSUME SchedTypeOK, SchedOK, NEW ts \in Seq(Threads), Unblock(ts), Distinct(ts),
         \A t \in Members(ts) : status[t] \notin {"RUNNING", "READY"} /\ t # idle_thread
  PROVE  /\ SchedTypeOK' /\ SchedOK' /\ idle_thread' = idle_thread /\ current' = current
         /\ \A t \in Threads : status'[t] = IF t \in Members(ts) THEN "READY" ELSE status[t]
<1>1. /\ ready' = ready \o ts /\ current' = current /\ idle_thread' = idle_thread /\ slice' = slice
      /\ status' \in [Threads -> {"FREE", "RUNNING", "READY", "BLOCKED", "DYING"}]
      /\ \A t \in Threads : status'[t] = IF \E i \in DOMAIN ts : ts[i] = t THEN "READY"
                                         ELSE status[t]
      /\ \A t \in Threads : status'[t] = IF t \in Members(ts) THEN "READY" ELSE status[t]
  BY DEF Unblock, SchedTypeOK, Members
<1>2. /\ ready \in Seq(Threads) /\ Distinct(ready)
      /\ \A t \in Members(ready) : status[t] = "READY" /\ t # idle_thread
      /\ \A t \in Threads : status[t] = "READY" => t \in Members(ready) \/ t = idle_thread
      /\ Members(ts) \subseteq Threads /\ Members(ready) \subseteq Threads
      /\ Members(ready) \cap Members(ts) = {}
  BY SMTT(20) DEF SchedTypeOK, SchedOK, Members, Distinct
<1>3. /\ ready' \in Seq(Threads) /\ Distinct(ready') /\ Members(ready') = Members(ready) \cup Members(ts)
      /\ \A t \in Members(ready') : status'[t] = "READY" /\ t # idle_thread'
  BY SMTT(20), <1>1, <1>2, ConcatMembers
<1>4. \A t \in Threads : status'[t] = "READY" => t \in Members(ready') \/ t = idle_thread'
  BY <1>1, <1>2, <1>3
<1>5. /\ \A t \in Threads : status'[t] = "RUNNING" <=> t = current'
      /\ SchedTypeOK'
      /\ current' # NULL
  BY SMTT(20), <1>1, <1>2, <1>3 DEF SchedOK, SchedTypeOK
<1>6. SchedOK'
  BY SMTT(20), <1>3, <1>4, <1>5 DEF SchedOK, Members, Distinct
<1> QED
  BY <1>1, <1>5, <1>6

(* thread_unblock of one thread; u is blocked, or new.                      *)
LEMMA UnblockOne ==
  ASSUME SchedTypeOK, SchedOK, NEW u \in Threads, Unblock(<<u>>),
         status[u] \notin {"RUNNING", "READY"}, u # idle_thread
  PROVE  /\ SchedTypeOK' /\ SchedOK' /\ idle_thread' = idle_thread /\ current' = current
         /\ \A t \in Threads : status'[t] = IF t = u THEN "READY" ELSE status[t]
<1>1. PICK ts : ts = <<u>>
  OBVIOUS
<1>2. ts \in Seq(Threads) /\ Distinct(ts) /\ Members(ts) = {u} /\ Unblock(ts)
  BY <1>1, SmallLists
<1> QED
  BY <1>2, UnblockAllLemma

(* The threads a queue points at are asleep, and not the idle thread.       *)
LEMMA PointedAt ==
  ASSUME SerialInv, NEW k \in Queues, NEW w \in Conditions, waiter[k][w] # NULL
  PROVE  /\ waiter[k][w] \in Threads /\ AsleepOK(k, w, waiter[k][w])
         /\ waiter[k][w] # idle /\ waiter[k][w] # current
BY SMTT(20) DEF SerialInv, TypeOK, AsleepOK, PlaceOK, SchedOK

(* So is a thread known to be the one a queue points at.                    *)
LEMMA WaitsFor ==
  ASSUME SerialInv, NEW k \in Queues, NEW w \in Conditions, NEW t \in Threads, waiter[k][w] = t
  PROVE  /\ AsleepOK(k, w, t) /\ pc[t] = "release" /\ status[t] = "BLOCKED" /\ at[t] = k
         /\ t # NULL /\ t # idle /\ t # current
<1>1. AsleepOK(k, w, t) /\ PlaceOK(t) /\ SchedOK
  BY DEF SerialInv
<1>2. pc[t] = "release" /\ status[t] = "BLOCKED" /\ at[t] = k
  BY <1>1 DEF AsleepOK
<1>3. t # idle /\ t # current
  BY <1>1, <1>2 DEF PlaceOK, SchedOK
<1> QED
  BY <1>1, <1>2, <1>3, SchedAssumption

(* So they wait for a condition that is still false.                        *)
LEMMA StillAsleep ==
  ASSUME SerialInv, NEW k \in Queues, NEW w \in Conditions, waiter[k][w] # NULL
  PROVE  /\ waiter[k][w] \in Threads /\ waiter[k][w] # current
         /\ status[waiter[k][w]] = "BLOCKED" /\ pc[waiter[k][w]] = "release" /\ MustWait(k)
<1>1. waiter[k][w] \in Threads /\ AsleepOK(k, w, waiter[k][w]) /\ waiter[k][w] # current
  BY PointedAt
<1> QED
  BY <1>1 DEF AsleepOK

(* Nobody is asleep in a queue whose lock the running thread has.           *)
LEMMA NobodyAsleep ==
  ASSUME SerialInv, NEW k \in Queues, NEW w \in Conditions, holder[k] = current
  PROVE  waiter[k][w] = NULL
<1> SUFFICES ASSUME waiter[k][w] # NULL PROVE FALSE
  OBVIOUS
<1>0. waiter[k][w] \in Threads
  BY PointedAt
<1>1. PICK t \in Threads : waiter[k][w] = t
  BY <1>0
<1>2. t # current /\ pc[t] = "release" /\ at[t] = k
  BY SMTT(20), <1>1, WaitsFor
<1>3. PlaceOK(t)
  BY DEF SerialInv
<1>4. holder[k] = t
  BY <1>2, <1>3 DEF PlaceOK, Waits
<1> QED
  BY <1>2, <1>4

(* A member that keeps its thread asleep in a queue that stays as it is.    *)
LEMMA WaiterStays ==
  ASSUME SerialInv, NEW k \in Queues, NEW w \in Conditions, NEW c,
         q'[k] = q[k], waiter'[k][w] = waiter[k][w],
         waiter[k][w] # NULL => status'[waiter[k][w]] = status[waiter[k][w]]
  PROVE  WaiterStep(k, w, c)
<1>1. MustWait(k)' <=> MustWait(k)
  BY DEF MustWait
<1>2. waiter[k][w] # NULL => status[waiter[k][w]] = "BLOCKED" /\ MustWait(k)
  BY StillAsleep
<1> QED
  BY <1>1, <1>2 DEF WaiterStep

(* What signal unblocks, as a list.                                         *)
LEMMA WokenLemma ==
  ASSUME SerialInv, NEW k \in Queues, NEW w \in Conditions, NEW ts, ts = Woken(k, w)
  PROVE  /\ ts \in Seq(Threads) /\ Distinct(ts)
         /\ Members(ts) = {t \in Threads : t = waiter[k][w]}
         /\ \A t \in Members(ts) : /\ status[t] \notin {"RUNNING", "READY"} /\ t # idle_thread
                                   /\ at[t] = k
<1>1. CASE waiter[k][w] = NULL
  BY <1>1, SchedAssumption, SmallLists DEF Woken
<1>2. CASE waiter[k][w] # NULL
  BY SMTT(20), <1>2, PointedAt, SmallLists DEF Woken, AsleepOK, SerialInv
<1> QED
  BY <1>1, <1>2

(* signal (intq.c:102) unblocks the thread that waits for the condition, if *)
(* there is one, and forgets it.                                            *)
Signalled(k, w) ==
  /\ SchedTypeOK' /\ SchedOK' /\ idle_thread' = idle_thread /\ current' = current
  /\ \A t \in Threads : status'[t] = IF t = waiter[k][w] THEN "READY" ELSE status[t]
  /\ waiter' \in [Queues -> [Conditions -> Threads \cup {NULL}]]
  /\ \A j \in Queues, x \in Conditions :
       waiter'[j][x] = IF j = k /\ x = w THEN NULL ELSE waiter[j][x]

(* That is what signal does.                                                *)
LEMMA SignalLemma ==
  ASSUME SerialInv, NEW k \in Queues, NEW w \in Conditions, signal(k, w)
  PROVE  Signalled(k, w)
BY SMTT(20), UnblockAllLemma, WokenLemma DEF SerialInv, TypeOK, signal, Signalled

-----------------------------------------------------------------------------
(* A step of the running thread, or of the UART, that wakes nobody and      *)
(* leaves the queues alone.                                                 *)
LEMMA CalmStep ==
  ASSUME SerialInv, QType', OwnType', NEW c \in Threads, c = current,
         UNCHANGED <<sched, q, waiter, lwaiters>>,
         \A u \in Threads : u # c => pc'[u] = pc[u] /\ at'[u] = at[u],
         \A u \in Threads, l \in Locks : u # c => (holder'[l] = u <=> holder[l] = u),
         PlaceOK(c)',
         depth' > 0 => holder'["console"] # NULL
  PROVE  SerialInv'
<1>1. /\ current' = current /\ status' = status /\ ready' = ready /\ slice' = slice
      /\ idle_thread' = idle_thread
      /\ SchedTypeOK /\ SchedOK /\ idle_thread = idle /\ status[idle] # "FREE"
  BY DEF sched, SerialInv, TypeOK, SchedTypeOK
<1>2. SchedTypeOK' /\ SchedOK'
  BY <1>1 DEF SchedTypeOK, SchedOK
<1>3. TypeOK'
  BY <1>2 DEF TypeOK, SchedTypeOK, QType, OwnType
<1>4. OthersStay(c) /\ ListsOK'
  BY <1>1, ListsKept DEF OthersStay
<1>5. Known(c)'
  BY <1>1 DEF Known, SchedOK
<1>6. ASSUME NEW k \in Queues, NEW w \in Conditions PROVE WaiterStep(k, w, c)
  BY <1>1, WaiterStays
<1> QED
  BY <1>1, <1>2, <1>3, <1>4, <1>5, <1>6, StepLemma

(* A step that takes from or puts into queues, and unblocks who waits.      *)
LEMMA WakeStep ==
  ASSUME SerialInv, QType', OwnType', NEW c \in Threads, c = current,
         SchedTypeOK', SchedOK', current' = c, idle_thread' = idle_thread,
         UNCHANGED <<at, holder, lwaiters, depth>>,
         \A u \in Threads : u # c => pc'[u] = pc[u],
         \A u \in Threads : \/ status'[u] = status[u]
                            \/ status'[u] = "READY" /\ \E k \in Queues, w \in Conditions : waiter[k][w] = u,
         PlaceOK(c)',
         \A k \in Queues, w \in Conditions :
           \/ /\ q'[k] = q[k] /\ waiter'[k][w] = waiter[k][w]
              /\ waiter[k][w] # NULL => status'[waiter[k][w]] = status[waiter[k][w]]
           \/ /\ waiter'[k][w] = NULL
              /\ waiter[k][w] # NULL => status'[waiter[k][w]] # "BLOCKED"
  PROVE  SerialInv'
<1>0. TypeOK'
  BY DEF TypeOK, SchedTypeOK, QType, OwnType
<1>1. ASSUME NEW u \in Threads, NEW k \in Queues, NEW w \in Conditions, waiter[k][w] = u
      PROVE  pc[u] = "release"
  BY SMTT(20), <1>1, WaitsFor
<1>2. /\ \A u \in Threads : pc[u] # "release" => status'[u] = status[u]
      /\ \A u \in Threads : status'[u] = "BLOCKED" => status[u] = "BLOCKED"
      /\ status'[c] # "BLOCKED"
  <2>1. ASSUME NEW u \in Threads, status'[u] # status[u] PROVE pc[u] = "release" /\ status'[u] = "READY"
    BY SMTT(20), <1>1, <2>1
  <2>2. status'[c] = "RUNNING"
    BY DEF SchedOK
  <2> QED
    BY <2>1, <2>2
<1>a. OthersStay(c) /\ Known(c)'
  BY <1>2 DEF OthersStay, Known
<1>b. ListsOK'
  <2>1. lwaiters' = lwaiters /\ at' = at
    OBVIOUS
  <2>2. \A u \in Threads : pc[u] = "lock" /\ status[u] = "BLOCKED" => status'[u] = "BLOCKED"
    BY <1>2
  <2> QED
    BY <2>1, <2>2, ListsKept
<1>3. ASSUME NEW k \in Queues, NEW w \in Conditions PROVE WaiterStep(k, w, c)
  <2>1. CASE /\ q'[k] = q[k] /\ waiter'[k][w] = waiter[k][w]
             /\ waiter[k][w] # NULL => status'[waiter[k][w]] = status[waiter[k][w]]
    BY <2>1, WaiterStays
  <2>2. CASE /\ waiter'[k][w] = NULL
             /\ waiter[k][w] # NULL => status'[waiter[k][w]] # "BLOCKED"
    BY <2>2 DEF WaiterStep
  <2> QED
    BY ZenonT(30), <2>1, <2>2
<1>4. idle_thread' = idle /\ status'[idle] # "FREE" /\ (depth' > 0 => holder'["console"] # NULL)
  BY SchedAssumption DEF SerialInv
<1> QED
  BY <1>0, <1>a, <1>b, <1>3, <1>4, StepLemma

(* A step that gives up the processor.                                      *)
LEMMA SwitchStep ==
  ASSUME SerialInv, QType', OwnType', NEW c \in Threads, c = current, NEW d \in Threads, d = current',
         SchedTypeOK', SchedOK', idle_thread' = idle_thread,
         status[d] \in {"READY", "RUNNING"} \/ d = idle,
         NEW x \in {"READY", "BLOCKED"},
         \A u \in Threads : u # d => status'[u] = IF u = c THEN x ELSE status[u],
         UNCHANGED <<at, q, holder, depth>>,
         \A u \in Threads : u # c => pc'[u] = pc[u],
         pc'[c] # "wait", \A k \in Queues : ~(Alone(k) /\ Enters(c, k)'),
         PlaceOK(c)', ListsOK',
         \/ pc'[c] # "release" /\ waiter' = waiter
         \/ /\ x = "BLOCKED" /\ pc'[c] = "release" /\ MustWait(at[c]) /\ at[c] \in Queues
            /\ waiter[at[c]][Condition(at[c])] = NULL
            /\ waiter' = [waiter EXCEPT ![at[c]][Condition(at[c])] = c],
         pc'[c] = "release" => d # c
  PROVE  SerialInv'
<1>0. /\ SchedOK /\ idle_thread = idle /\ status[idle] # "FREE" /\ c # NULL
      /\ waiter \in [Queues -> [Conditions -> Threads \cup {NULL}]]
      /\ \A k \in Queues : Condition(k) \in Conditions
      /\ status'[d] = "RUNNING"
      /\ TypeOK'
  BY SchedAssumption DEF SerialInv, TypeOK, Condition, Conditions, SchedOK, QType, OwnType
<1>1. /\ \A u \in Threads : u # c => (status'[u] = "BLOCKED" => status[u] = "BLOCKED")
      /\ OthersStay(c)
  BY ZenonT(30), <1>0 DEF OthersStay
<1>a. Known(c)'
  BY SMTT(20), <1>0 DEF Known
<1>2. ASSUME NEW k \in Queues, NEW w \in Conditions PROVE WaiterStep(k, w, c)
  <2>1. CASE waiter'[k][w] = waiter[k][w]
    <3>1. ASSUME waiter[k][w] # NULL PROVE status'[waiter[k][w]] = status[waiter[k][w]]
      <4>a. PICK u \in Threads : u = waiter[k][w]
        BY SMTT(20), <1>0, <3>1
      <4>1. u # current /\ u # idle /\ status[u] = "BLOCKED"
        BY SMTT(20), <4>a, WaitsFor
      <4>2. u # c /\ u # d
        BY <4>1
      <4> QED
        BY <4>a, <4>2
    <3> QED
      BY <2>1, <3>1, WaiterStays
  <2>2. CASE waiter'[k][w] # waiter[k][w]
    <3>1. /\ x = "BLOCKED" /\ pc'[c] = "release" /\ MustWait(at[c]) /\ at[c] \in Queues /\ d # c
          /\ waiter[at[c]][Condition(at[c])] = NULL
          /\ waiter' = [waiter EXCEPT ![at[c]][Condition(at[c])] = c]
      BY <2>2
    <3>2. k = at[c] /\ w = Condition(at[c]) /\ waiter'[k][w] = c
      BY SMTT(20), <1>0, <2>2, <3>1
    <3>3. MustWait(k)' /\ status'[c] = "BLOCKED" /\ at'[c] = k
      BY <3>1, <3>2 DEF MustWait
    <3> QED
      BY <3>1, <3>2, <3>3 DEF WaiterStep
  <2> QED
    BY <2>1, <2>2
<1>3. idle_thread' = idle /\ status'[idle] # "FREE" /\ (depth' > 0 => holder'["console"] # NULL)
  BY <1>0, SchedAssumption DEF SerialInv
<1> QED
  BY <1>0, <1>1, <1>a, <1>2, <1>3, StepLemma

(* What is known of the running thread.                                     *)
LEMMA Running ==
  ASSUME SerialInv
  PROVE  /\ current \in Threads /\ PlaceOK(current) /\ status[current] = "RUNNING"
         /\ OwnType /\ QType /\ SchedTypeOK /\ SchedOK /\ idle_thread = idle
         /\ (depth > 0 => holder["console"] # NULL)
BY DEF SerialInv, TypeOK, SchedTypeOK, SchedOK, OwnType, QType

-----------------------------------------------------------------------------
(* A step that only takes the running thread t from pc[t] to p, with a the  *)
(* lock it is concerned with; t has no queue's lock before or after.        *)
LEMMA GotoStep ==
  ASSUME SerialInv, QType', NEW t \in Threads, t = current, NEW p \in PCs, NEW a \in Locks,
         pc' = [pc EXCEPT ![t] = p], at' = [at EXCEPT ![t] = a],
         UNCHANGED <<sched, q, waiter, holder, lwaiters, mode, ier>>,
         thre' \in BOOLEAN, depth' \in 0..MaxDepth, depth' > 0 => holder["console"] # NULL,
         p \notin {"idle", "wait", "release"}, pc[t] \notin {"idle", "wait", "release"},
         p = "get" \/ (p = "lock" /\ a = "input") => t \in Readers,
         \A k \in Queues : p = "lock" /\ a = k => MustWait(k),
         p \in {"print", "put"} \/ (p = "lock" /\ a = "txq") <=> holder["console"] = t
  PROVE  SerialInv'
BY ZenonT(30), CalmStep, Running DEF OwnType, PlaceOK, Waits, Enters, Prints, Reads, Queues, MustWait, sched

(* The calls that only move the running thread: into and out of console.c,  *)
(* and the loops of intq_getc and intq_putc.                                *)
LEMMA MoveSteps ==
  ASSUME SerialInv, QType', NEW t \in Threads,
         \/ (CallGetc(t) /\ t \in Readers) \/ CallPrint(t) \/ PrintAgain(t)
         \/ (EndPrint(t) /\ depth > 0) \/ Putchar(t) \/ CallFlush(t)
         \/ PutcPolls(t) \/ GetcWaits(t) \/ PutcWaits(t)
         \/ (Flush(t) /\ intq_empty(q["txq"]))
  PROVE  SerialInv'
<1>0. SUFFICES ASSUME t = current PROVE SerialInv'
  BY DEF CallGetc, CallPrint, PrintAgain, EndPrint, Putchar, CallFlush, PutcPolls, GetcWaits,
     PutcWaits, Flush, At
<1>1. /\ PlaceOK(t) /\ (depth > 0 => holder["console"] # NULL) /\ t # NULL
      /\ at \in [Threads -> Locks] /\ pc \in [Threads -> PCs] /\ depth \in 0..MaxDepth
      /\ thre \in BOOLEAN
  BY <1>0, Running, SchedAssumption DEF OwnType
<1>2. /\ pc[t] \in {"call", "print", "put", "get", "flush"} =>
           (holder["console"] = t <=> pc[t] \in {"print", "put"})
      /\ pc[t] = "get" => t \in Readers
      /\ at[t] \in Locks /\ at = [at EXCEPT ![t] = at[t]] /\ pc = [pc EXCEPT ![t] = pc[t]]
  BY <1>1 DEF PlaceOK, Prints, Reads, Enters, Waits
<1>3. CASE (CallGetc(t) /\ t \in Readers) \/ CallFlush(t) \/ Putchar(t) \/ PutcPolls(t)
           \/ (Flush(t) /\ intq_empty(q["txq"]))
  <2>1. PICK p \in {"get", "flush", "put", "print", "halt"} :
          /\ pc' = [pc EXCEPT ![t] = p] /\ UNCHANGED <<sched, q, waiter, holder, lwaiters, mode, ier>>
          /\ at' = at /\ depth' = depth /\ thre' \in BOOLEAN
          /\ pc[t] \in {"call", "print", "put", "flush"} /\ (p = "get" => t \in Readers)
          /\ (p \in {"put", "print"} <=> pc[t] \in {"print", "put"})
    BY <1>1, <1>3 DEF CallGetc, Goto, At, uart, locks, CallFlush, Putchar, PutcPolls, Flush
  <2>2. /\ p \in PCs /\ at' = [at EXCEPT ![t] = at[t]] /\ depth' \in 0..MaxDepth
        /\ depth' > 0 => holder["console"] # NULL
        /\ p \notin {"idle", "wait", "release", "lock"} /\ pc[t] \notin {"idle", "wait", "release"}
        /\ p \in {"print", "put"} <=> holder["console"] = t
    BY <1>1, <1>2, <2>1 DEF PCs
  <2> QED
    BY ZenonT(30), <1>0, <1>2, <2>1, <2>2, GotoStep
<1>4. CASE CallPrint(t) \/ GetcWaits(t) \/ PutcWaits(t)
  <2>1. PICK a \in Locks :
          /\ pc' = [pc EXCEPT ![t] = "lock"] /\ at' = [at EXCEPT ![t] = a]
          /\ UNCHANGED <<sched, q, waiter, holder, lwaiters, mode, ier>>
          /\ depth' = depth /\ thre' = thre
          /\ \/ a = "console" /\ pc[t] = "call"
             \/ a = "input" /\ pc[t] = "get" /\ MustWait(a)
             \/ a = "txq" /\ pc[t] = "put" /\ MustWait(a)
    BY SMTT(20), <1>1, <1>4 DEF CallPrint, Goto, At, Locks, Queues, uart, locks, GetcWaits, MustLock, PutcWaits
  <2>2. PICK p \in PCs : p = "lock"
    BY DEF PCs
  <2>3. /\ thre' \in BOOLEAN /\ depth' \in 0..MaxDepth
        /\ depth' > 0 => holder["console"] # NULL
        /\ pc[t] \notin {"idle", "wait", "release"} /\ p \notin {"idle", "wait", "release"}
        /\ p = "get" \/ (p = "lock" /\ a = "input") => t \in Readers
        /\ \A k \in Queues : p = "lock" /\ a = k => MustWait(k)
        /\ p \in {"print", "put"} \/ (p = "lock" /\ a = "txq") <=> holder["console"] = t
    BY <1>1, <1>2, <2>1, <2>2 DEF Queues
  <2> QED
    BY <1>0, <2>1, <2>2, <2>3, GotoStep
<1>5. CASE PrintAgain(t) \/ (EndPrint(t) /\ depth > 0)
  BY SMTT(20), <1>0, <1>1, <1>2, <1>5, GotoStep, SerialAssumption DEF PrintAgain, EndPrint, At, uart, PCs
<1> QED
  BY <1>3, <1>4, <1>5

(* lock_acquire of a free lock.                                             *)
LEMMA LockStep ==
  ASSUME SerialInv, QType', NEW t \in Threads, t = current, Lock(t), holder[at[t]] = NULL
  PROVE  SerialInv'
<1>0. PlaceOK(t) /\ OwnType /\ (depth > 0 => holder["console"] # NULL)
  BY Running
<1>1. PICK a \in Locks : a = at[t]
  BY <1>0 DEF OwnType
<1>2. /\ pc[t] = "lock" /\ holder[a] = NULL
      /\ holder' = [holder EXCEPT ![a] = t]
      /\ pc' = [pc EXCEPT ![t] = IF a = "console" THEN "print" ELSE "wait"]
      /\ UNCHANGED <<sched, lwaiters, at, q, waiter, depth, mode, ier, thre>>
  BY <1>1 DEF Lock, Goto, At, uart
<1>3. /\ OwnType'
      /\ pc'[t] = IF a = "console" THEN "print" ELSE "wait"
      /\ at'[t] = a /\ current' = t
      /\ \A u \in Threads : u # t => pc'[u] = pc[u] /\ at'[u] = at[u]
      /\ \A l \in Locks : holder'[l] = IF l = a THEN t ELSE holder[l]
      /\ \A u \in Threads, l \in Locks : u # t => (holder'[l] = u <=> holder[l] = u)
      /\ depth' > 0 => holder'["console"] # NULL
  BY <1>0, <1>1, <1>2, SchedAssumption DEF OwnType, PCs, sched, Locks
<1>4. /\ \A k \in Queues : holder[k] # t /\ (MustWait(k)' <=> MustWait(k))
      /\ \A k \in Queues : Alone(k) /\ a = k => MustWait(k)
      /\ Reads(t) => t \in Readers
      /\ t # idle /\ (a = "input" => Reads(t))
      /\ (a = "txq" <=> holder["console"] = t)
      /\ PlaceOK(t)'
  BY SMTT(20), <1>0, <1>1, <1>2, <1>3 DEF PlaceOK, Enters, Waits, Prints, Reads, MustWait, Queues, Locks
<1> QED
  BY <1>2, <1>3, <1>4, CalmStep

(* The UART by itself, and serial_init_queue.                               *)
LEMMA DeviceSteps ==
  ASSUME SerialInv, QType',
         \/ SerialInitQueue \/ Transmitted \/ (\E b \in Bytes : Receive(b)) \/ UNCHANGED vars
  PROVE  SerialInv'
<1>0. PICK t \in Threads : t = current
  BY Running
<1>1. PlaceOK(t) /\ OwnType /\ (depth > 0 => holder["console"] # NULL)
  BY <1>0, Running
<1>2. /\ UNCHANGED <<sched, q, waiter, lwaiters, pc, at, holder, depth>>
      /\ mode' \in {"POLL", "QUEUE"} /\ thre' \in BOOLEAN
      /\ ier' \in [xmit : BOOLEAN, recv : BOOLEAN]
  <2>1. CASE SerialInitQueue
    BY <1>1, <2>1 DEF SerialInitQueue, write_ier, locks, OwnType
  <2>2. CASE Transmitted
    BY <1>1, <2>2 DEF Transmitted, locks, OwnType
  <2>3. ASSUME NEW b \in Bytes, Receive(b)
        PROVE  UNCHANGED <<sched, q, waiter, lwaiters, pc, at, holder, depth, mode, thre, ier>>
    BY <2>3 DEF Receive, locks
  <2>4. CASE UNCHANGED vars
    BY <1>1, <2>4 DEF vars, locks, uart, OwnType
  <2> QED
    BY <1>1, <2>1, <2>2, <2>3, <2>4 DEF OwnType
<1>3. /\ OwnType'
      /\ PlaceOK(t)'
      /\ UNCHANGED <<sched, q, waiter, lwaiters>>
      /\ \A u \in Threads : u # t => pc'[u] = pc[u] /\ at'[u] = at[u]
      /\ \A u \in Threads, l \in Locks : u # t => (holder'[l] = u <=> holder[l] = u)
      /\ depth' > 0 => holder'["console"] # NULL
  BY <1>1, <1>2 DEF OwnType, PlaceOK, Prints, Reads, Enters, Waits, MustWait, sched
<1> QED
  BY <1>0, <1>3, CalmStep

(* A thread that waits for a queue waits for the queue's own condition, and *)
(* only while the condition is false.                                       *)
LEMMA Pointless ==
  ASSUME SerialInv, NEW k \in Queues, NEW w \in Conditions, w # Condition(k) \/ ~MustWait(k)
  PROVE  waiter[k][w] = NULL
BY PointedAt DEF AsleepOK

(* A step on one queue k with signal(k, w), where w is what a thread in k   *)
(* waits for or nobody can be waiting; the running thread c goes to p.      *)
LEMMA SignalStep ==
  ASSUME SerialInv, QType', NEW c \in Threads, c = current,
         NEW k \in Queues, NEW w \in Conditions, signal(k, w),
         w = Condition(k) \/ ~MustWait(k),
         \A j \in Queues : j # k => q'[j] = q[j],
         NEW p \in PCs, pc' = [pc EXCEPT ![c] = p],
         UNCHANGED <<at, holder, lwaiters, depth, mode>>, thre' \in BOOLEAN,
         UNCHANGED ier \/ write_ier(q'),
         PlaceOK(c)'
  PROVE  SerialInv'
<1>0. /\ OwnType /\ QType
      /\ SchedTypeOK' /\ SchedOK' /\ idle_thread' = idle_thread /\ current' = current
      /\ \A t \in Threads : status'[t] = IF t = waiter[k][w] THEN "READY" ELSE status[t]
      /\ waiter' \in [Queues -> [Conditions -> Threads \cup {NULL}]]
      /\ \A j \in Queues, x \in Conditions :
           waiter'[j][x] = IF j = k /\ x = w THEN NULL ELSE waiter[j][x]
  <2>1. OwnType /\ QType
    BY Running
  <2>2. Signalled(k, w)
    BY SignalLemma
  <2> QED
    BY <2>1, <2>2 DEF Signalled
<1>1. /\ \A u \in Threads : \/ status'[u] = status[u]
                            \/ /\ status'[u] = "READY"
                               /\ \E j \in Queues, x \in Conditions : waiter[j][x] = u
      /\ \A u \in Threads : u # c => pc'[u] = pc[u]
  BY <1>0 DEF OwnType
<1>2. OwnType'
  <2>1. CASE UNCHANGED ier
    BY <1>0, <2>1 DEF OwnType
  <2>2. CASE write_ier(q')
    BY <1>0, <2>2 DEF OwnType, write_ier
  <2> QED
    BY <2>1, <2>2
<1>3. ASSUME NEW j \in Queues, NEW x \in Conditions
      PROVE  \/ /\ q'[j] = q[j] /\ waiter'[j][x] = waiter[j][x]
                /\ waiter[j][x] # NULL => status'[waiter[j][x]] = status[waiter[j][x]]
             \/ /\ waiter'[j][x] = NULL
                /\ waiter[j][x] # NULL => status'[waiter[j][x]] # "BLOCKED"
  <2>1. CASE j = k /\ x = w
    BY <1>0, <2>1, StillAsleep
  <2>2. CASE j = k /\ x # w
    <3>1. x # Condition(k) \/ ~MustWait(k)
      BY <2>2
    <3>2. waiter[k][x] = NULL
      BY <3>1, Pointless
    <3>3. waiter'[k][x] = NULL
      BY <1>0, <2>2, <3>2
    <3> QED
      BY <2>2, <3>2, <3>3
  <2>3. CASE j # k
    <3>1. q'[j] = q[j] /\ waiter'[j][x] = waiter[j][x]
      BY <1>0, <2>3
    <3>2. ASSUME waiter[j][x] # NULL PROVE status'[waiter[j][x]] = status[waiter[j][x]]
      <4>1. PICK u \in Threads : u = waiter[j][x] /\ AsleepOK(j, x, u)
        BY <3>2, PointedAt
      <4>2. u # waiter[k][w]
        <5>1. at[u] = j
          BY <4>1 DEF AsleepOK
        <5> QED
          BY SMTT(20), <2>3, <5>1, WaitsFor
      <4> QED
        BY <1>0, <4>1, <4>2
    <3> QED
      BY <3>1, <3>2
  <2> QED
    BY <2>1, <2>2, <2>3
<1> QED
  BY <1>0, <1>1, <1>3, <1>2, WakeStep

(* Reading a byte and queueing one: the caller has found the condition true.*)
(* And serial_flush, which takes bytes out of the transmit queue.           *)
LEMMA QueueOps ==
  ASSUME SerialInv, QType', NEW t \in Threads,
         Getc(t) \/ (\E b \in Bytes : Putc(t, b)) \/ (Flush(t) /\ ~intq_empty(q["txq"]))
  PROVE  SerialInv'
<1>0. SUFFICES ASSUME t = current PROVE SerialInv'
  BY DEF Getc, Putc, Flush, At
<1>1. /\ PlaceOK(t) /\ pc \in [Threads -> PCs] /\ thre \in BOOLEAN
      /\ q \in [Queues -> Intq] /\ pc = [pc EXCEPT ![t] = pc[t]]
  BY <1>0, Running DEF OwnType, QType
<1>2. PICK k \in Queues, w \in Conditions, p \in PCs :
        /\ signal(k, w) /\ (w = Condition(k) \/ ~MustWait(k))
        /\ \A j \in Queues : j # k => q'[j] = q[j]
        /\ pc' = [pc EXCEPT ![t] = p]
        /\ UNCHANGED <<at, holder, lwaiters, depth, mode>> /\ thre' \in BOOLEAN
        /\ UNCHANGED ier \/ write_ier(q')
        /\ \/ pc[t] = "get" /\ p = "call"
           \/ pc[t] = "put" /\ p = "print"
           \/ pc[t] = "flush" /\ p = "flush"
  BY <1>1 DEF Getc, At, Goto, locks, serial_notify, Queues, Conditions, PCs, Putc, Flush,
     Condition
<1>3. /\ pc'[t] = p /\ current' = t
      /\ PlaceOK(t)'
  BY <1>0, <1>1, <1>2, SignalLemma DEF Signalled, PlaceOK, Prints, Reads, Enters, Waits, Queues
<1> QED
  BY <1>0, <1>2, <1>3, SignalStep

(* The place of a thread that is interrupted says nothing of the queues:    *)
(* interrupts are off inside them.                                          *)
LEMMA Interrupted ==
  ASSUME SerialInv, NEW c \in Threads, c = current, ~IntrOff,
         UNCHANGED <<pc, at, holder>>
  PROVE  PlaceOK(c)'
BY Running DEF IntrOff, PlaceOK, Prints, Reads, Enters, Waits

(* The interrupt handlers that touch one queue: the keyboard's, and one     *)
(* that prints and may find the transmit queue full.                        *)
LEMMA HandlerSteps ==
  ASSUME SerialInv, QType', NEW b \in Bytes, OffPutc(b) \/ KeyboardInterrupt(b)
  PROVE  SerialInv'
<1>0. PICK c \in Threads : c = current
  BY Running
<1>1. /\ pc \in [Threads -> PCs] /\ thre \in BOOLEAN /\ q \in [Queues -> Intq]
      /\ ~IntrOff /\ UNCHANGED <<pc, at, holder, lwaiters, depth, mode>>
      /\ PlaceOK(c)'
  BY <1>0, Interrupted, Running DEF OwnType, QType, OffPutc, KeyboardInterrupt, locks
<1>2. PICK k \in Queues, w \in Conditions :
        /\ signal(k, w) /\ (w = Condition(k) \/ ~MustWait(k))
        /\ \A j \in Queues : j # k => q'[j] = q[j]
        /\ thre' \in BOOLEAN
        /\ UNCHANGED ier \/ write_ier(q')
  BY <1>1 DEF KeyboardInterrupt, serial_notify, Condition, Queues, Conditions, OffPutc, MustWait
<1>3. pc[c] \in PCs /\ pc' = [pc EXCEPT ![c] = pc[c]]
  BY <1>1
<1> QED
  BY <1>0, <1>1, <1>2, <1>3, SignalStep

-----------------------------------------------------------------------------
(* The running thread c unblocks a thread h that is not in wait, a sleeper  *)
(* of a lock or a new thread.                                               *)
LEMMA UnblockStep ==
  ASSUME SerialInv, QType', OwnType', NEW c \in Threads, c = current,
         NEW h \in Threads, h # idle, pc[h] # "release" \/ status[h] = "FREE",
         SchedTypeOK', SchedOK', idle_thread' = idle_thread, current' = current,
         \A t \in Threads : status'[t] = IF t = h THEN "READY" ELSE status[t],
         UNCHANGED <<at, q, waiter>>,
         \A u \in Threads : u # c => pc'[u] = pc[u],
         \A u \in Threads, m \in Locks : u # c => (holder'[m] = u <=> holder[m] = u),
         PlaceOK(c)', ListsOK',
         depth' > 0 => holder'["console"] # NULL
  PROVE  SerialInv'
<1>1. TypeOK'
  BY DEF TypeOK, QType, OwnType
<1>2. OthersStay(c) /\ Known(c)'
  BY DEF OthersStay, Known, SchedOK
<1>3. ASSUME NEW k \in Queues, NEW w \in Conditions PROVE WaiterStep(k, w, c)
  <2>1. ASSUME waiter[k][w] # NULL PROVE status'[waiter[k][w]] = status[waiter[k][w]]
    <3>1. PICK u \in Threads : u = waiter[k][w] /\ pc[u] = "release" /\ status[u] = "BLOCKED"
      BY ZenonT(30), <2>1, StillAsleep
    <3> QED
      BY <3>1
  <2> QED
    BY <2>1, WaiterStays
<1>4. idle_thread' = idle /\ status'[idle] # "FREE"
  BY SchedAssumption DEF SerialInv
<1> QED
  BY <1>1, <1>2, <1>3, <1>4, StepLemma

(* lock_release (synch.c:225) by the running thread wakes the first sleeper *)
(* of the lock.                                                             *)
LEMMA ReleaseLemma ==
  ASSUME SerialInv, QType', NEW c \in Threads, c = current,
         NEW l \in Locks, holder[l] = c, lock_release(l),
         NEW p \in PCs, pc' = [pc EXCEPT ![c] = p],
         UNCHANGED <<at, q, waiter, depth, mode, ier, thre>>,
         (\A m \in Locks : holder'[m] = IF m = l THEN NULL ELSE holder[m]) => PlaceOK(c)',
         l = "console" => ~(depth > 0)
  PROVE  SerialInv'
<1>0. /\ SchedTypeOK /\ SchedOK /\ idle_thread = idle /\ ListsOK /\ OwnType
      /\ c # NULL /\ status[c] = "RUNNING" /\ (depth > 0 => holder["console"] # NULL)
  BY SchedAssumption, Running DEF SerialInv
<1>1. /\ holder' \in [Locks -> Threads \cup {NULL}]
      /\ \A m \in Locks : holder'[m] = IF m = l THEN NULL ELSE holder[m]
      /\ \A u \in Threads, m \in Locks : u # c => (holder'[m] = u <=> holder[m] = u)
      /\ PlaceOK(c)' /\ (depth' > 0 => holder'["console"] # NULL)
      /\ \A u \in Threads : u # c => pc'[u] = pc[u]
  BY <1>0, SchedAssumption DEF lock_release, OwnType, Locks
<1>2. CASE lwaiters[l] = << >>
  BY <1>0, <1>1, <1>2, CalmStep DEF lock_release, OwnType
<1>3. CASE lwaiters[l] # << >>
  <2>1. PICK s, v, h : s = lwaiters[l] /\ v = Tail(s) /\ h = Head(s)
    OBVIOUS
  <2>2. /\ s \in Seq(Threads) /\ s # << >> /\ Distinct(s)
        /\ Unblock(<<h>>) /\ lwaiters' = [lwaiters EXCEPT ![l] = v]
        /\ h \in Members(s) /\ h \in Threads /\ v \in Seq(Threads) /\ Distinct(v)
        /\ Members(v) = Members(s) \ {h}
        /\ \A m \in Locks : \A u \in Members(lwaiters[m]) : status[u] = "BLOCKED" /\ Enters(u, m)
        /\ status[h] = "BLOCKED" /\ pc[h] = "lock" /\ at[h] = l /\ h # idle
    <3>1. s \in Seq(Threads) /\ Distinct(s) /\ Unblock(<<h>>) /\ lwaiters' = [lwaiters EXCEPT ![l] = v]
      BY <1>0, <1>3, <2>1 DEF ListsOK, lock_release, OwnType
    <3>2. /\ h \in Members(s) /\ h \in Threads /\ v \in Seq(Threads) /\ Distinct(v)
          /\ Members(v) = Members(s) \ {h}
      BY <1>3, <2>1, <3>1, TailMembers
    <3>3. status[h] = "BLOCKED" /\ pc[h] = "lock" /\ at[h] = l
      BY ZenonT(30), <1>0, <2>1, <3>2 DEF ListsOK, Enters
    <3>4. h # idle
      BY <3>2, <3>3 DEF SerialInv, PlaceOK
    <3> QED
      BY <1>0, <1>3, <2>1, <3>1, <3>2, <3>3, <3>4 DEF ListsOK
  <2>3. /\ SchedTypeOK' /\ SchedOK' /\ idle_thread' = idle_thread /\ current' = current
        /\ \A t \in Threads : status'[t] = IF t = h THEN "READY" ELSE status[t]
        /\ lwaiters' \in [Locks -> Seq(Threads)] /\ lwaiters'[l] = v
        /\ \A m \in Locks : m # l => lwaiters'[m] = lwaiters[m]
    BY <1>0, <2>2, UnblockOne DEF OwnType
  <2>4. OwnType'
    BY <1>0, <1>1, <2>3 DEF OwnType
  <2>5. ASSUME NEW m \in Locks
        PROVE  /\ Distinct(lwaiters'[m])
               /\ \A u \in Members(lwaiters'[m]) : status'[u] = "BLOCKED" /\ Enters(u, m)'
    <3>1. /\ Distinct(lwaiters'[m]) /\ Members(lwaiters'[m]) \subseteq Members(lwaiters[m]) \ {h}
      <4>1. CASE m = l
        BY <2>1, <2>2, <2>3, <4>1
      <4>2. CASE m # l
        <5>1. lwaiters'[m] = lwaiters[m] /\ Distinct(lwaiters[m])
          BY <1>0, <2>3, <4>2 DEF ListsOK
        <5>2. h \notin Members(lwaiters[m])
          BY <2>2, <4>2 DEF Enters
        <5> QED
          BY <5>1, <5>2
      <4> QED
        BY <4>1, <4>2
    <3>2. Members(lwaiters[m]) \subseteq Threads
      BY <1>0, MembersIn DEF OwnType
    <3>3. \A u \in Members(lwaiters'[m]) : u \in Threads /\ u # h /\ u # c /\ status[u] = "BLOCKED" /\ Enters(u, m)
      BY <1>0, <2>2, <3>1, <3>2
    <3> QED
      BY <1>1, <2>3, <3>1, <3>3 DEF Enters
  <2>6. ListsOK'
    <3>1. \A k \in Queues : Alone(k) => lwaiters'[k] = << >>
      BY <1>0, <1>3, <2>3 DEF ListsOK, Locks
    <3> QED
      BY <2>5, <3>1 DEF ListsOK, Alone
  <2>7. pc[h] # "release"
    BY <2>2
  <2> QED
    <3>1. /\ UNCHANGED <<at, q, waiter>> /\ h \in Threads /\ h # idle
          /\ \A u \in Threads : u # c => pc'[u] = pc[u]
          /\ \A u \in Threads, m \in Locks : u # c => (holder'[m] = u <=> holder[m] = u)
          /\ PlaceOK(c)' /\ (depth' > 0 => holder'["console"] # NULL)
      BY <1>1, <2>2
    <3> QED
      BY <2>3, <2>4, <2>6, <2>7, <3>1, UnblockStep
<1> QED
  BY <1>2, <1>3

(* Back from wait, and the end of the outermost printf.                     *)
LEMMA ReleaseSteps ==
  ASSUME SerialInv, QType', NEW t \in Threads, Release(t) \/ (EndPrint(t) /\ ~(depth > 0))
  PROVE  SerialInv'
<1>0. SUFFICES ASSUME t = current PROVE SerialInv'
  BY DEF Release, EndPrint, At
<1>1. PlaceOK(t) /\ OwnType /\ t # NULL
  BY <1>0, Running, SchedAssumption
<1>2. PICK l \in Locks, p \in PCs :
        /\ lock_release(l) /\ pc' = [pc EXCEPT ![t] = p]
        /\ UNCHANGED <<at, q, waiter, depth, mode, ier, thre>>
        /\ \/ l = "console" /\ pc[t] = "print" /\ p = "call" /\ ~(depth > 0)
           \/ l = "input" /\ Waits(t, l) /\ p = "get"
           \/ l = "txq" /\ Waits(t, l) /\ p = "put"
  BY <1>1 DEF Release, At, PlaceOK, Goto, uart, Locks, Queues, PCs, Waits, EndPrint
<1>3. /\ holder[l] = t /\ t # idle /\ \A k \in Queues : k # l => holder[k] # t
      /\ holder["console"] = t <=> l # "input"
      /\ l = "input" => t \in Readers
      /\ pc'[t] = p
  BY <1>1, <1>2 DEF PlaceOK, Prints, Reads, Enters, Waits, Queues, OwnType
<1>4. ASSUME \A m \in Locks : holder'[m] = IF m = l THEN NULL ELSE holder[m]
      PROVE  PlaceOK(t)'
  BY <1>1, <1>2, <1>3, <1>4 DEF Locks, Queues, PlaceOK, Prints, Reads, Enters, Waits
<1> QED
  BY <1>0, <1>2, <1>3, <1>4, ReleaseLemma

(* thread_create, as main calls it.                                         *)
LEMMA CreateStep ==
  ASSUME SerialInv, QType', NEW t \in Threads, Create(t)
  PROVE  SerialInv'
<1>1. /\ main = current /\ main \in Threads /\ PlaceOK(main) /\ OwnType
      /\ SchedTypeOK /\ SchedOK /\ idle_thread = idle /\ (depth > 0 => holder["console"] # NULL)
      /\ status[t] = "FREE" /\ t # idle /\ Unblock(<<t>>)
      /\ UNCHANGED <<pc, at, q, waiter, holder, lwaiters, depth, mode, ier, thre>>
      /\ SchedTypeOK' /\ SchedOK' /\ idle_thread' = idle_thread /\ current' = current
      /\ \A u \in Threads : status'[u] = IF u = t THEN "READY" ELSE status[u]
      /\ OwnType' /\ PlaceOK(main)'
  BY Running, UnblockOne DEF Create, At, locks, uart, SerialInv, OwnType, PlaceOK, Prints,
     Reads, Enters, Waits, MustWait
<1>2. ListsOK'
  BY <1>1, ListsKept
<1> QED
  BY <1>1, <1>2, UnblockStep

(* The thread that schedule chooses was not asleep in a lock or a queue.    *)
LEMMA ChosenLemma ==
  ASSUME SerialInv, NEW d \in Threads, status[d] \in {"READY", "RUNNING"} \/ d = idle
  PROVE  \A u \in Threads : pc[u] = "lock" /\ status[u] = "BLOCKED" => u # d
BY DEF SerialInv, PlaceOK

(* lock_acquire of a lock that is held: never the transmit queue's, and     *)
(* never the input buffer's if there is one reader.                         *)
LEMMA NobodyHolds ==
  ASSUME SerialInv, NEW c \in Threads, NEW k \in Queues, Enters(c, k), Alone(k),
         NEW h \in Threads, holder[k] = h
  PROVE  FALSE
<1>1. PlaceOK(c) /\ PlaceOK(h) /\ Waits(h, k)
  BY DEF SerialInv, PlaceOK
<1>2. c # h
  BY <1>1 DEF Waits, Enters
<1>3. CASE k = "txq"
  BY <1>1, <1>2, <1>3 DEF PlaceOK, Prints
<1>4. CASE k = "input" /\ OneReader
  BY <1>1, <1>2, <1>4 DEF PlaceOK, Reads, OneReader
<1> QED
  BY <1>3, <1>4 DEF Alone, Queues

(* lock_acquire of a lock that is taken: the thread goes to sleep in the    *)
(* lock's list.                                                             *)
LEMMA SleepStep ==
  ASSUME SerialInv, QType', NEW c \in Threads, Lock(c), holder[at[c]] # NULL
  PROVE  SerialInv'
<1>0. PICK a, s, v : a = at[c] /\ s = lwaiters[a] /\ v = Append(s, c)
  OBVIOUS
<1>1. /\ c = current /\ PlaceOK(c) /\ OwnType /\ SchedTypeOK /\ SchedOK /\ idle_thread = idle
      /\ idle # NULL /\ status[c] = "RUNNING" /\ ListsOK
      /\ a \in Locks /\ s \in Seq(Threads) /\ holder[a] \in Threads /\ Distinct(s)
      /\ Members(s) \subseteq Threads
      /\ pc[c] = "lock" /\ thread_block /\ lwaiters' = [lwaiters EXCEPT ![a] = v]
      /\ UNCHANGED <<holder, pc, at, q, waiter, depth, mode, ier, thre>>
  <2>1. /\ c = current /\ pc[c] = "lock" /\ thread_block /\ lwaiters' = [lwaiters EXCEPT ![a] = v]
        /\ UNCHANGED <<holder, pc, at, q, waiter, depth, mode, ier, thre>>
    BY <1>0 DEF Lock, At, uart
  <2>2. /\ PlaceOK(c) /\ OwnType /\ SchedTypeOK /\ SchedOK /\ idle_thread = idle
        /\ idle # NULL /\ status[c] = "RUNNING" /\ ListsOK
    BY <2>1, Running, SchedAssumption DEF SerialInv
  <2>3. a \in Locks /\ s \in Seq(Threads) /\ holder[a] \in Threads
    BY <1>0, <2>2 DEF OwnType
  <2>4. Distinct(s) /\ Members(s) \subseteq Threads
    BY <1>0, <2>2, <2>3, MembersIn DEF ListsOK
  <2> QED
    BY <2>1, <2>2, <2>3, <2>4
<1>2. /\ a \in Queues => ~Alone(a)
      /\ SchedTypeOK' /\ SchedOK' /\ idle_thread' = idle_thread
      /\ status[current'] = "READY" \/ current' = idle_thread
      /\ \A u \in Threads : u # current' => status'[u] = IF u = current THEN "BLOCKED" ELSE status[u]
  BY <1>0, <1>1, BlockLemma, NobodyHolds DEF Enters
<1>3. PICK d \in Threads : d = current'
  BY <1>2 DEF SchedTypeOK
<1>4. /\ c # idle
      /\ status[d] \in {"READY", "RUNNING"} \/ d = idle
      /\ \A u \in Threads : u # d => status'[u] = IF u = c THEN "BLOCKED" ELSE status[u]
      /\ d # c /\ status'[c] = "BLOCKED"
  <2>1. c # idle
    BY <1>1 DEF PlaceOK
  <2>2. status[d] = "READY" \/ d = idle
    BY <1>1, <1>2, <1>3
  <2>3. d # c
    BY <1>1, <2>1, <2>2
  <2> QED
    BY <1>1, <1>2, <1>3, <2>1, <2>2, <2>3
<1>5. \A m \in Locks : \A u \in Members(lwaiters[m]) :
        u \in Threads /\ u # c /\ status'[u] = "BLOCKED" /\ Enters(u, m)
  <2> SUFFICES ASSUME NEW m \in Locks, NEW u \in Members(lwaiters[m])
               PROVE  u \in Threads /\ u # c /\ status'[u] = "BLOCKED" /\ Enters(u, m)
    OBVIOUS
  <2>1. u \in Threads /\ status[u] = "BLOCKED" /\ Enters(u, m)
    <3>1. Members(lwaiters[m]) \subseteq Threads
      BY <1>1, MembersIn DEF OwnType
    <3> QED
      BY <1>1, <3>1 DEF ListsOK
  <2> QED
    BY <1>1, <1>4, <2>1, ChosenLemma DEF Enters
<1>6. v \in Seq(Threads) /\ Distinct(v) /\ Members(v) = Members(s) \cup {c}
  BY SMTT(20), <1>0, <1>1, <1>5, AppendMembers
<1>7. /\ lwaiters' \in [Locks -> Seq(Threads)] /\ lwaiters'[a] = v
      /\ \A m \in Locks : m # a => lwaiters'[m] = lwaiters[m]
      /\ OwnType'
  BY <1>1, <1>6 DEF OwnType
<1>8. ASSUME NEW m \in Locks
      PROVE  /\ Distinct(lwaiters'[m])
             /\ \A u \in Members(lwaiters'[m]) : status'[u] = "BLOCKED" /\ Enters(u, m)'
  <2>1. CASE m = a
    <3>1. \A u \in Members(v) : status'[u] = "BLOCKED" /\ Enters(u, a)
      <4>1. status'[c] = "BLOCKED" /\ Enters(c, a)
        BY <1>0, <1>1, <1>4 DEF Enters
      <4>2. \A u \in Members(s) : status'[u] = "BLOCKED" /\ Enters(u, a)
        BY <1>0, <1>1, <1>5
      <4> QED
        BY <1>6, <4>1, <4>2
    <3> QED
      BY <1>1, <1>6, <1>7, <2>1, <3>1 DEF Enters
  <2>2. CASE m # a
    <3>1. lwaiters'[m] = lwaiters[m] /\ Distinct(lwaiters[m])
      BY <1>1, <1>7, <2>2 DEF ListsOK
    <3>2. \A u \in Members(lwaiters[m]) : status'[u] = "BLOCKED" /\ Enters(u, m)'
      BY ZenonT(30), <1>1, <1>5 DEF Enters
    <3> QED
      BY <3>1, <3>2
  <2> QED
    BY <2>1, <2>2
<1>9. /\ ListsOK'
      /\ \A k \in Queues : ~(Alone(k) /\ Enters(c, k)')
      /\ PlaceOK(c)'
      /\ pc'[c] # "wait" /\ pc'[c] # "release"
  <2>1. ListsOK'
    <3>1. ASSUME NEW k \in Queues, Alone(k) PROVE lwaiters'[k] = << >>
      <4>1. k # a /\ k \in Locks
        BY <1>2, <3>1 DEF Locks
      <4> QED
        BY <1>1, <1>7, <3>1, <4>1 DEF ListsOK
    <3> QED
      BY <1>8, <3>1 DEF ListsOK, Alone
  <2>2. \A k \in Queues : ~(Alone(k) /\ Enters(c, k))
    BY <1>0, <1>2 DEF Enters
  <2>3. PlaceOK(c)'
    BY <1>1, <2>2 DEF PlaceOK, Enters, Prints, Reads, Waits
  <2> QED
    BY <1>1, <2>1, <2>2, <2>3 DEF Enters, Alone
<1> QED
  BY <1>1, <1>2, <1>3, <1>4, <1>7, <1>9, SwitchStep

-----------------------------------------------------------------------------
(* The threads that serial_interrupt unblocks in one of the queues.         *)
LEMMA WokenIf ==
  ASSUME SerialInv, NEW k \in Queues, NEW w \in Conditions, NEW b,
         NEW ts, ts = IF b THEN Woken(k, w) ELSE << >>
  PROVE  /\ ts \in Seq(Threads) /\ Distinct(ts)
         /\ Members(ts) = {t \in Threads : b /\ t = waiter[k][w]}
         /\ \A t \in Members(ts) : /\ status[t] \notin {"RUNNING", "READY"} /\ t # idle_thread
                                   /\ at[t] = k
<1>1. CASE b
  BY SMTT(20), <1>1, WokenLemma
<1>2. CASE ~b
  BY <1>2, SchedAssumption, SmallLists
<1> QED
  BY <1>1, <1>2

(* serial_interrupt may serve both queues, and unblock a reader and a       *)
(* writer.                                                                  *)
LEMMA SerialStep ==
  ASSUME SerialInv, QType', SerialInterrupt
  PROVE  SerialInv'
<1>0. PICK c \in Threads : c = current
  BY Running
<1>1. /\ OwnType /\ QType /\ SchedTypeOK /\ SchedOK /\ idle_thread = idle
      /\ "input" \in Queues /\ "txq" \in Queues
      /\ "not_full" \in Conditions /\ "not_empty" \in Conditions
      /\ Condition("input") = "not_empty" /\ Condition("txq") = "not_full"
  BY Running DEF Queues, Conditions, Condition
<1>2. PICK rx, tx, r, w, a, b :
        /\ rx = Receives /\ tx = Sends
        /\ r = waiter["input"]["not_empty"] /\ w = waiter["txq"]["not_full"]
        /\ a = (IF rx THEN Woken("input", "not_empty") ELSE << >>)
        /\ b = (IF tx THEN Woken("txq", "not_full") ELSE << >>)
  OBVIOUS
<1>3. /\ ~IntrOff /\ UNCHANGED <<pc, at, holder, lwaiters, depth, mode>>
      /\ thre' \in BOOLEAN /\ write_ier(q') /\ Unblock(a \o b)
      /\ rx \/ q'["input"] = q["input"]
      /\ tx \/ q'["txq"] = q["txq"]
      /\ waiter' = [waiter EXCEPT !["input"]["not_empty"] = IF rx THEN NULL ELSE @,
                                  !["txq"]["not_full"] = IF tx THEN NULL ELSE @]
      /\ PlaceOK(c)'
  BY <1>0, <1>2, Interrupted DEF SerialInterrupt, locks
<1>4. /\ ier' \in [xmit : BOOLEAN, recv : BOOLEAN]
      /\ waiter \in [Queues -> [Conditions -> Threads \cup {NULL}]]
      /\ r \in Threads \cup {NULL} /\ w \in Threads \cup {NULL}
      /\ \A k \in Queues, x \in Conditions : x # Condition(k) => waiter[k][x] = NULL
  <2>1. ier' \in [xmit : BOOLEAN, recv : BOOLEAN]
    BY <1>3 DEF write_ier
  <2>2. /\ waiter \in [Queues -> [Conditions -> Threads \cup {NULL}]]
        /\ \A k \in Queues, x \in Conditions : x # Condition(k) => waiter[k][x] = NULL
    BY <1>1, Pointless DEF OwnType
  <2>3. r \in Threads \cup {NULL} /\ w \in Threads \cup {NULL}
    BY <1>1, <1>2, <2>2
  <2> QED
    BY <2>1, <2>2, <2>3
<1>5. /\ waiter' \in [Queues -> [Conditions -> Threads \cup {NULL}]]
      /\ waiter'["input"]["not_empty"] = IF rx THEN NULL ELSE r
      /\ waiter'["txq"]["not_full"] = IF tx THEN NULL ELSE w
      /\ waiter'["input"]["not_full"] = NULL
      /\ waiter'["txq"]["not_empty"] = NULL
      /\ OwnType'
  BY <1>1, <1>2, <1>3, <1>4 DEF Queues, Conditions, OwnType
<1>6. /\ a \in Seq(Threads) /\ Distinct(a)
      /\ Members(a) = {t \in Threads : rx /\ t = r}
      /\ \A t \in Members(a) : /\ status[t] \notin {"RUNNING", "READY"} /\ t # idle_thread
                               /\ at[t] = "input"
  BY SMTT(20), <1>1, <1>2, WokenIf
<1>7. /\ b \in Seq(Threads) /\ Distinct(b)
      /\ Members(b) = {t \in Threads : tx /\ t = w}
      /\ \A t \in Members(b) : /\ status[t] \notin {"RUNNING", "READY"} /\ t # idle_thread
                               /\ at[t] = "txq"
  BY SMTT(20), <1>1, <1>2, WokenIf
<1>8. /\ SchedTypeOK' /\ SchedOK' /\ idle_thread' = idle_thread /\ current' = current
      /\ \A t \in Threads : status'[t] = IF t \in Members(a) \cup Members(b) THEN "READY"
                                         ELSE status[t]
  <2>0. Members(a) \cap Members(b) = {}
    BY <1>6, <1>7
  <2>1. PICK ts : ts = a \o b
    OBVIOUS
  <2>2. /\ ts \in Seq(Threads) /\ Distinct(ts) /\ Members(ts) = Members(a) \cup Members(b)
        /\ \A t \in Members(ts) : status[t] \notin {"RUNNING", "READY"} /\ t # idle_thread
    BY SMTT(20), <1>6, <1>7, <2>0, <2>1, ConcatMembers
  <2>3. /\ Unblock(ts)
        /\ SchedTypeOK' /\ SchedOK' /\ idle_thread' = idle_thread /\ current' = current
        /\ \A t \in Threads : status'[t] = IF t \in Members(ts) THEN "READY" ELSE status[t]
    BY <1>1, <1>3, <2>1, <2>2, UnblockAllLemma
  <2> QED
    BY <2>2, <2>3
<1>9. /\ \A t \in Threads : status'[t] = IF (rx /\ t = r) \/ (tx /\ t = w) THEN "READY" ELSE status[t]
      /\ \A u \in Threads : \/ status'[u] = status[u]
                            \/ /\ status'[u] = "READY"
                               /\ \E k \in Queues, x \in Conditions : waiter[k][x] = u
      /\ r # NULL => r # w
  <2>1. \A t \in Threads : status'[t] = IF (rx /\ t = r) \/ (tx /\ t = w) THEN "READY" ELSE status[t]
    <3>1. \A t \in Threads : t \in Members(a) \cup Members(b) <=> (rx /\ t = r) \/ (tx /\ t = w)
      BY <1>6, <1>7
    <3> QED
      BY <1>8, <3>1
  <2>2. \A u \in Threads : u = r \/ u = w => \E k \in Queues, x \in Conditions : waiter[k][x] = u
    BY <1>1, <1>2
  <2>3. ASSUME r # NULL, r = w PROVE FALSE
    <3>1. r \in Threads
      BY <1>4, <2>3
    <3>2. at[r] = "input"
      BY <1>1, <1>2, <3>1, WaitsFor
    <3>3. at[r] = "txq"
      BY <1>1, <1>2, <2>3, <3>1, WaitsFor
    <3> QED
      BY <3>2, <3>3
  <2> QED
    BY <2>1, <2>2, <2>3
<1>10. ASSUME NEW k \in Queues, NEW x \in Conditions
       PROVE  \/ /\ q'[k] = q[k] /\ waiter'[k][x] = waiter[k][x]
                 /\ waiter[k][x] # NULL => status'[waiter[k][x]] = status[waiter[k][x]]
              \/ /\ waiter'[k][x] = NULL
                 /\ waiter[k][x] # NULL => status'[waiter[k][x]] # "BLOCKED"
  <2>1. CASE k = "input" /\ x = "not_empty"
    BY <1>2, <1>3, <1>4, <1>5, <1>9, <2>1
  <2>2. CASE k = "txq" /\ x = "not_full"
    BY <1>2, <1>3, <1>4, <1>5, <1>9, <2>2
  <2>3. CASE (k = "input" /\ x = "not_full") \/ (k = "txq" /\ x = "not_empty")
    BY <1>1, <1>4, <1>5, <2>3
  <2> QED
    BY <2>1, <2>2, <2>3 DEF Queues, Conditions
<1>11. \A u \in Threads : u # c => pc'[u] = pc[u]
  BY <1>3
<1> QED
  BY <1>0, <1>3, <1>5, <1>8, <1>9, <1>10, <1>11, WakeStep

(* wait, and the idle thread and the timer giving up the processor.         *)
LEMMA YieldSteps ==
  ASSUME SerialInv, QType', (\E t \in Threads : Wait(t)) \/ IdleBlock \/ TimerInterrupt
  PROVE  SerialInv'
<1>0. PICK c \in Threads : c = current
  BY Running
<1>1. /\ PlaceOK(c) /\ OwnType /\ SchedTypeOK /\ SchedOK /\ idle_thread = idle /\ idle # NULL
      /\ status[c] = "RUNNING" /\ (depth > 0 => holder["console"] # NULL)
  BY <1>0, Running, SchedAssumption
<1>2. CASE IdleBlock
  <2>1. /\ c = idle /\ thread_block /\ pc[c] = "idle"
        /\ UNCHANGED <<pc, at, q, waiter, holder, lwaiters, depth, mode, ier, thre>>
        /\ SchedTypeOK' /\ SchedOK' /\ idle_thread' = idle_thread
        /\ status[current'] = "READY" \/ current' = idle_thread
        /\ \A u \in Threads : u # current' => status'[u] = IF u = current THEN "BLOCKED" ELSE status[u]
    BY <1>0, <1>1, <1>2, BlockLemma DEF IdleBlock, At, locks, uart
  <2>2. PICK d \in Threads : d = current'
    BY <2>1 DEF SchedTypeOK
  <2>3. /\ OwnType'
        /\ PlaceOK(c)' /\ pc'[c] = "idle" /\ \A k \in Queues : ~(Alone(k) /\ Enters(c, k)')
        /\ \A u \in Threads : pc[u] = "lock" /\ status[u] = "BLOCKED" => status'[u] = "BLOCKED"
        /\ ListsOK'
    BY <1>0, <1>1, <2>1, <2>2, ChosenLemma, ListsKept DEF OwnType, PlaceOK, Prints, Reads,
       Enters, Waits
  <2>4. /\ status[d] \in {"READY", "RUNNING"} \/ d = idle
        /\ \A u \in Threads : u # d => status'[u] = IF u = c THEN "BLOCKED" ELSE status[u]
        /\ \A u \in Threads : u # c => pc'[u] = pc[u]
        /\ pc'[c] # "wait" /\ pc'[c] # "release" /\ waiter' = waiter
    BY <1>0, <1>1, <2>1, <2>2
  <2> QED
    BY <1>0, <2>1, <2>2, <2>3, <2>4, SwitchStep
<1>3. CASE TimerInterrupt
  <2>1. /\ ~IntrOff /\ thread_tick /\ pc[c] \notin {"lock", "wait", "release"}
        /\ UNCHANGED <<pc, at, q, waiter, holder, lwaiters, depth, mode, ier, thre>>
        /\ OwnType'
        /\ PlaceOK(c)' /\ \A k \in Queues : ~(Alone(k) /\ Enters(c, k)')
    BY <1>0, <1>1, <1>3, Interrupted DEF TimerInterrupt, IntrOff, locks, uart, OwnType, Enters
  <2>2. CASE thread_yield
    <3>1. /\ SchedTypeOK' /\ SchedOK' /\ idle_thread' = idle_thread
          /\ status[current'] \in {"READY", "RUNNING"} \/ current' = idle_thread
          /\ \A u \in Threads : u # current' => status'[u] = IF u = current THEN "READY" ELSE status[u]
      BY <1>1, <2>2, YieldLemma
    <3>2. PICK d \in Threads : d = current'
      BY <3>1 DEF SchedTypeOK
    <3>3. /\ \A u \in Threads : pc[u] = "lock" /\ status[u] = "BLOCKED" => status'[u] = "BLOCKED"
          /\ ListsOK'
          /\ status[d] \in {"READY", "RUNNING"} \/ d = idle
          /\ \A u \in Threads : u # d => status'[u] = IF u = c THEN "READY" ELSE status[u]
          /\ \A u \in Threads : u # c => pc'[u] = pc[u]
          /\ pc'[c] # "wait" /\ pc'[c] # "release" /\ waiter' = waiter
      BY <1>0, <1>1, <2>1, <3>1, <3>2, ChosenLemma, ListsKept
    <3> QED
      BY <1>0, <2>1, <3>1, <3>2, <3>3, SwitchStep
  <2>3. CASE ~thread_yield
    <3>1. /\ slice' = slice + 1 /\ UNCHANGED <<current, status, ready, idle_thread>>
          /\ ~(slice + 1 >= TIME_SLICE)
          /\ SchedTypeOK' /\ SchedOK' /\ current' = c /\ idle_thread' = idle_thread
      <4>1. /\ slice' = slice + 1 /\ UNCHANGED <<current, status, ready, idle_thread>>
            /\ ~(slice + 1 >= TIME_SLICE)
        BY <2>1, <2>3 DEF thread_tick
      <4>2. slice' \in 0..(TIME_SLICE - 1)
        <5>1. slice \in 0..(TIME_SLICE - 1)
          BY <1>1 DEF SchedTypeOK
        <5> QED
          BY SMTT(20), <4>1, <5>1, SchedAssumption
      <4>3. SchedTypeOK' /\ SchedOK'
        BY <1>1, <4>1, <4>2 DEF SchedTypeOK, SchedOK
      <4> QED
        BY <1>0, <4>1, <4>3
    <3> QED
      BY <1>0, <2>1, <3>1, WakeStep
  <2> QED
    BY <2>2, <2>3
<1>4. ASSUME NEW t \in Threads, Wait(t) PROVE SerialInv'
  <2>1. PICK a : a = at[c]
    OBVIOUS
  <2>2. /\ c = t /\ pc[c] = "wait" /\ MustWait(a) /\ thread_block
        /\ waiter' = [waiter EXCEPT ![a][Condition(a)] = c]
        /\ pc' = [pc EXCEPT ![c] = "release"]
        /\ UNCHANGED <<at, q, holder, lwaiters, depth, mode, ier, thre>>
        /\ a \in Queues /\ Condition(a) \in Conditions /\ c # idle
    BY <1>0, <1>1, <1>4, <2>1 DEF Wait, At, Goto, locks, uart, PlaceOK, Condition, Conditions
  <2>3. /\ SchedTypeOK' /\ SchedOK' /\ idle_thread' = idle_thread
        /\ status[current'] = "READY" \/ current' = idle_thread
        /\ \A u \in Threads : u # current' => status'[u] = IF u = current THEN "BLOCKED" ELSE status[u]
    BY <1>1, <2>2, BlockLemma
  <2>4. PICK d \in Threads : d = current'
    BY <2>3 DEF SchedTypeOK
  <2>5. /\ d # c
        /\ pc'[c] = "release" /\ \A u \in Threads : u # c => pc'[u] = pc[u]
        /\ OwnType'
        /\ PlaceOK(c)' /\ \A k \in Queues : ~(Alone(k) /\ Enters(c, k)')
    BY <1>0, <1>1, <2>1, <2>2, <2>3, <2>4 DEF OwnType, PCs, PlaceOK, Prints, Reads, Enters,
       Waits
  <2>6. \A u \in Threads : pc[u] = "lock" /\ status[u] = "BLOCKED" => status'[u] = "BLOCKED"
    BY <1>0, <1>1, <2>3, <2>4, ChosenLemma
  <2>7. ListsOK'
    BY <1>0, <2>2, <2>5, <2>6, ListsKept
  <2>8. /\ waiter[a][Condition(a)] = NULL
        /\ status[d] \in {"READY", "RUNNING"} \/ d = idle
        /\ \A u \in Threads : u # d => status'[u] = IF u = c THEN "BLOCKED" ELSE status[u]
    <3>1. holder[a] = c
      BY <1>1, <2>1, <2>2 DEF PlaceOK, Waits
    <3>2. waiter[a][Condition(a)] = NULL
      BY <1>0, <2>2, <3>1, NobodyAsleep
    <3> QED
      BY <1>0, <1>1, <2>3, <2>4, <3>2
  <2> QED
    BY <1>0, <2>1, <2>2, <2>3, <2>4, <2>5, <2>7, <2>8, SwitchStep
<1> QED
  BY <1>2, <1>3, <1>4

-----------------------------------------------------------------------------
(* SerialInv holds after thread_start.                                      *)
LEMMA InitSerial ==
  ASSUME Init
  PROVE  SerialInv
<1>1. QType
  BY InitQueues
<1>2. /\ current = main /\ ready = << >> /\ idle_thread = idle /\ slice = 0
      /\ status = [t \in Threads |-> IF t = main THEN "RUNNING"
                                     ELSE IF t = idle THEN "BLOCKED" ELSE "FREE"]
      /\ pc = [t \in Threads |-> IF t = idle THEN "idle" ELSE "call"]
      /\ at = [t \in Threads |-> "console"]
      /\ waiter = [k \in Queues |-> [w \in Conditions |-> NULL]]
      /\ holder = [l \in Locks |-> NULL]
      /\ lwaiters = [l \in Locks |-> << >>]
      /\ depth = 0 /\ mode = "POLL" /\ ier = [xmit |-> FALSE, recv |-> FALSE] /\ thre = TRUE
  BY DEF Init
<1>3. /\ SchedTypeOK
      /\ SchedOK
      /\ OwnType
      /\ TypeOK
      /\ \A t \in Threads : PlaceOK(t) /\ Known(t)
  <2>1. SchedTypeOK /\ SchedOK
    BY SMTT(20), <1>2, SchedAssumption DEF SchedTypeOK, SchedOK
  <2>2. OwnType
    BY SMTT(20), <1>2, SerialAssumption DEF OwnType, PCs, Locks
  <2>3. TypeOK
    BY <1>1, <2>1, <2>2 DEF TypeOK, OwnType, QType
  <2>4. ASSUME NEW t \in Threads PROVE PlaceOK(t) /\ Known(t)
    <3>1. /\ pc[t] = (IF t = idle THEN "idle" ELSE "call") /\ at[t] = "console" /\ t # NULL
          /\ \A l \in Locks : holder[l] = NULL
      BY <1>2, SchedAssumption
    <3>2. /\ ~Reads(t) /\ ~Prints(t) /\ \A k : ~Enters(t, k) /\ ~Waits(t, k)
      BY <3>1 DEF Reads, Prints, Enters, Waits
    <3> QED
      BY SMTT(20), <3>1, <3>2 DEF PlaceOK, Known, Queues, Locks
  <2> QED
    BY <2>1, <2>2, <2>3, <2>4
<1>4. /\ ListsOK
      /\ \A k \in Queues, w \in Conditions, t \in Threads : waiter[k][w] # t
  BY <1>2, SchedAssumption, SmallLists DEF ListsOK, Locks
<1>5. idle_thread = idle /\ status[idle] # "FREE" /\ ~(depth > 0)
  BY SMTT(20), <1>2, SchedAssumption
<1> QED
  BY <1>3, <1>4, <1>5 DEF SerialInv

(* Threads, interrupt handlers and the UART keep SerialInv.                 *)
LEMMA NextSerial ==
  ASSUME SerialInv, [Next]_vars
  PROVE  SerialInv'
<1>1. QType'
  BY ContentsStep, Running
<1>2. ASSUME NEW t \in Threads, Inside(t) PROVE SerialInv'
  <2>1. CASE Lock(t)
    BY <1>1, <2>1, LockStep, SleepStep DEF Lock, At
  <2>2. CASE Wait(t)
    BY <1>1, <2>2, YieldSteps
  <2>3. CASE Release(t)
    BY <1>1, <2>3, ReleaseSteps
  <2>4. CASE GetcWaits(t) \/ PutcPolls(t) \/ PutcWaits(t)
    BY <1>1, <2>4, MoveSteps
  <2>5. CASE Getc(t) \/ \E b \in Bytes : Putc(t, b)
    BY <1>1, <2>5, QueueOps
  <2>6. CASE Flush(t)
    BY <1>1, <2>6, QueueOps, MoveSteps
  <2> QED
    BY <1>2, <2>1, <2>2, <2>3, <2>4, <2>5, <2>6 DEF Inside
<1>3. ASSUME NEW t \in Threads, Call(t) PROVE SerialInv'
  BY <1>1, <1>3, MoveSteps, ReleaseSteps DEF Call
<1>4. ASSUME NEW t \in Threads, Create(t) PROVE SerialInv'
  BY <1>1, <1>4, CreateStep
<1>5. CASE SerialInitQueue \/ Transmitted \/ (\E b \in Bytes : Receive(b)) \/ UNCHANGED vars
  BY <1>1, <1>5, DeviceSteps
<1>6. CASE IdleBlock \/ TimerInterrupt
  BY <1>1, <1>6, YieldSteps
<1>7. CASE SerialInterrupt
  BY <1>1, <1>7, SerialStep
<1>8. ASSUME NEW b \in Bytes, OffPutc(b) \/ KeyboardInterrupt(b) PROVE SerialInv'
  BY <1>1, <1>8, HandlerSteps
<1> QED
  BY <1>2, <1>3, <1>4, <1>5, <1>6, <1>7, <1>8 DEF Next

(* SerialInv is an invariant, whatever interrupts what.                     *)
LEMMA SerialInvariance == Spec => []SerialInv
<1>1. /\ Init => SerialInv
      /\ SerialInv /\ [Next]_vars => SerialInv'
  BY InitSerial, NextSerial
<1> QED
  BY <1>1, PTL DEF Spec

(* The console lock of lib/kernel/console.c is recursive and excludes: only *)
(* its holder prints or waits for room in the transmit queue, for any       *)
(* number of threads, readers and nested calls.                             *)
THEOREM ConsoleExcludes == Spec => []ConsoleOK
<1>1. SerialInv => ConsoleOK
  <2> SUFFICES ASSUME SerialInv PROVE ConsoleOK
    OBVIOUS
  <2>1. /\ \A t \in Threads : Prints(t) <=> holder["console"] = t
        /\ depth > 0 => holder["console"] # NULL
        /\ holder \in [Locks -> Threads \cup {NULL}]
    BY DEF SerialInv, PlaceOK, TypeOK
  <2>2. holder["console"] \in Threads \cup {NULL}
    BY <2>1 DEF Locks
  <2>3. ASSUME NEW t \in Threads
        PROVE  pc[t] \in {"print", "put"} \/ (pc[t] \in {"lock", "wait", "release"} /\ at[t] = "txq")
                 <=> Prints(t)
    BY DEF Prints, Enters, Waits
  <2> QED
    BY <2>1, <2>2, <2>3 DEF ConsoleOK
<1> QED
  BY <1>1, SerialInvariance, PTL

(* With one reader no wakeup is lost in intq.c: a thread begins to wait only *)
(* while its condition is false (the ASSERT of wait), the queue knows whoever*)
(* is asleep, and who is asleep still has to be, for any INTQ_BUFSIZE, any   *)
(* threads that print and any order of interrupts.                           *)
THEOREM WaitersServed ==
  ASSUME OneReader
  PROVE  Spec => []WaiterOK
<1>1. SerialInv => WaiterOK
  <2> SUFFICES ASSUME SerialInv PROVE WaiterOK
    OBVIOUS
  <2>1. TypeOK /\ \A t \in Threads : PlaceOK(t) /\ Known(t)
    BY DEF SerialInv
  <2>2. WaitAsserted
    BY <2>1 DEF PlaceOK, Alone, WaitAsserted, At
  <2>3. ASSUME NEW t \in Threads, pc[t] = "release", status[t] = "BLOCKED"
        PROVE  waiter[at[t]][Condition(at[t])] = t /\ holder[at[t]] = t
    BY <2>1, <2>3 DEF PlaceOK, Known, Waits
  <2>4. ASSUME NEW k \in Queues, NEW w \in Conditions, waiter[k][w] # NULL
        PROVE  /\ pc[waiter[k][w]] = "release" /\ status[waiter[k][w]] = "BLOCKED"
               /\ at[waiter[k][w]] = k /\ Condition(k) = w /\ MustWait(k)
    <3>1. AsleepOK(k, w, waiter[k][w])
      BY <2>4, PointedAt
    <3> QED
      BY <3>1 DEF AsleepOK
  <2> QED
    BY <2>1, <2>2, <2>3, <2>4 DEF WaiterOK
<1> QED
  BY <1>1, SerialInvariance, PTL

===============================================================================
