--------------------------- MODULE PintosSchedProofs --------------------------
(***************************************************************************)
(* Every operation of the scheduler keeps its lists and statuses in        *)
(* agreement (SchedOK), whoever calls it.                                  *)
(***************************************************************************)
EXTENDS PintosSched, TLAPS

(* Sequences without repetition, as the lists of threads are. *)
LEMMA AppendLemma ==
  ASSUME NEW S, NEW q \in Seq(S), NEW x \in S
  PROVE  /\ Append(q, x) \in Seq(S)
         /\ DOMAIN Append(q, x) = 1..(Len(q) + 1)
         /\ DOMAIN q = 1..Len(q)
         /\ Len(q) \in Nat
         /\ \A i \in DOMAIN q : Append(q, x)[i] = q[i]
         /\ Append(q, x)[Len(q) + 1] = x
  OBVIOUS

(* What list_pop_front leaves of a list and what it returns.                *)
LEMMA TailLemma ==
  ASSUME NEW S, NEW q \in Seq(S), q # << >>
  PROVE  /\ Tail(q) \in Seq(S)
         /\ Head(q) \in S
         /\ 1 \in DOMAIN q
         /\ Head(q) = q[1]
         /\ \A i \in DOMAIN Tail(q) : i + 1 \in DOMAIN q /\ Tail(q)[i] = q[i + 1]
         /\ \A i \in DOMAIN q : i = 1 \/ (i - 1 \in DOMAIN Tail(q) /\ q[i] = Tail(q)[i - 1])
         /\ DOMAIN q \subseteq Nat /\ DOMAIN Tail(q) \subseteq Nat
  OBVIOUS

(* Whoever calls schedule leaves nobody running and the ready list as it    *)
(* should be; then the scheduler's invariant holds again.                   *)
StatusSet == {"FREE", "RUNNING", "READY", "BLOCKED", "DYING"}

(* The step of schedule itself, for whatever state its caller left behind:  *)
(* the precondition is what the ASSERTs at its head rely on.                *)
LEMMA ScheduleLemma ==
  ASSUME NEW stat \in [Threads -> StatusSet], NEW q \in Seq(Threads),
         idle_thread \in {NULL, idle},
         schedule(stat, q),
         q = << >> => idle_thread # NULL,
         \A t \in Threads : stat[t] # "RUNNING",
         \A i, k \in DOMAIN q : q[i] = q[k] => i = k,
         \A i \in DOMAIN q : stat[q[i]] = "READY" /\ q[i] # idle_thread,
         \A t \in Threads : stat[t] = "READY" =>
           (\E i \in DOMAIN q : q[i] = t) \/ t = idle_thread
  PROVE  /\ SchedTypeOK'
         /\ SchedOK'
         /\ \A t \in Threads : t # current' => status'[t] = stat[t]
         /\ status'[current'] = "RUNNING"
         /\ stat[current'] = "READY" \/ current' = idle_thread
         /\ idle_thread' = idle_thread
<1> DEFINE next == next_thread_to_run(q)
<1>1. next \in Threads /\ (stat[next] = "READY" \/ next = idle_thread)
  BY TailLemma, SchedAssumption DEF next_thread_to_run
<1>2. /\ current' = next
      /\ ready' = IF q = << >> THEN q ELSE Tail(q)
      /\ status' = [stat EXCEPT ![next] = "RUNNING"]
      /\ slice' = 0
      /\ idle_thread' = idle_thread
  BY DEF schedule
<1> HIDE DEF next
<1>3. SchedTypeOK'
  BY <1>1, <1>2, TailLemma, SchedAssumption DEF SchedTypeOK, StatusSet
<1>4. \A t \in Threads : t # current' => status'[t] = stat[t]
  BY <1>1, <1>2
<1>5. status'[current'] = "RUNNING"
  BY <1>1, <1>2
<1>6. \A i \in DOMAIN ready' : \E k \in DOMAIN q : ready'[i] = q[k] /\ (q # << >> => k = i + 1)
  BY <1>2, TailLemma
<1>7. \A i \in DOMAIN ready' : ready'[i] # next
  <2>1. CASE q = << >>
    BY <2>1, <1>2
  <2>2. CASE q # << >>
    <3>1. next = q[1]
      BY <2>2, TailLemma DEF next, next_thread_to_run
    <3> QED
      BY <2>2, <3>1, <1>2, TailLemma
  <2> QED BY <2>1, <2>2
<1>8. SchedOK'
  <2>1. current' # NULL
    BY <1>1, <1>2, SchedAssumption
  <2>2. \A t \in Threads : status'[t] = "RUNNING" <=> t = current'
    BY <1>4, <1>5
  <2>3. \A i, k \in DOMAIN ready' : ready'[i] = ready'[k] => i = k
    BY <1>2, TailLemma
  <2>4. \A i \in DOMAIN ready' : status'[ready'[i]] = "READY" /\ ready'[i] # idle_thread'
    BY <1>2, <1>4, <1>6, <1>7, <1>3 DEF SchedTypeOK
  <2>5. \A t \in Threads : status'[t] = "READY" =>
          (\E i \in DOMAIN ready' : ready'[i] = t) \/ t = idle_thread'
    <3> SUFFICES ASSUME NEW t \in Threads, status'[t] = "READY", t # idle_thread
                 PROVE  \E i \in DOMAIN ready' : ready'[i] = t
      BY <1>2
    <3>1. t # next /\ stat[t] = "READY"
      BY <1>1, <1>2
    <3>2. PICK i \in DOMAIN q : q[i] = t
      BY <3>1
    <3>3. q # << >>
      BY <3>2
    <3>4. Head(q) = next
      BY <3>3 DEF next, next_thread_to_run
    <3>5. i # 1 /\ i - 1 \in DOMAIN Tail(q) /\ Tail(q)[i - 1] = t
      BY <3>1, <3>2, <3>3, <3>4, TailLemma
    <3> QED
      BY <3>3, <3>5, <1>2
  <2> QED
    BY <2>1, <2>2, <2>3, <2>4, <2>5 DEF SchedOK
<1> QED
  BY <1>1, <1>2, <1>3, <1>4, <1>5, <1>8

(* What giving up the processor does to the others: nothing, except that    *)
(* the thread switched to, a ready one or the idle thread, runs.            *)
LEMMA BlockLemma ==
  ASSUME SchedTypeOK, SchedOK, ready = << >> => idle_thread # NULL, thread_block
  PROVE  /\ SchedTypeOK' /\ SchedOK' /\ idle_thread' = idle_thread
         /\ status[current'] = "READY" \/ current' = idle_thread
         /\ \A t \in Threads : t # current' =>
              status'[t] = IF t = current THEN "BLOCKED" ELSE status[t]
<1> DEFINE stat == [status EXCEPT ![current] = "BLOCKED"]
<1>1. /\ stat \in [Threads -> StatusSet]
      /\ \A t \in Threads : stat[t] = IF t = current THEN "BLOCKED" ELSE status[t]
      /\ schedule(stat, ready)
  BY DEF SchedTypeOK, StatusSet, thread_block
<1> HIDE DEF stat
<1>2. /\ \A t \in Threads : stat[t] # "RUNNING"
      /\ \A i \in DOMAIN ready : stat[ready[i]] = "READY" /\ ready[i] # idle_thread
      /\ \A t \in Threads : stat[t] = "READY" =>
           (\E i \in DOMAIN ready : ready[i] = t) \/ t = idle_thread
  BY <1>1 DEF SchedTypeOK, SchedOK
<1>3. /\ ready \in Seq(Threads)
      /\ idle_thread \in {NULL, idle}
      /\ \A i, k \in DOMAIN ready : ready[i] = ready[k] => i = k
  BY DEF SchedTypeOK, SchedOK
<1>4. /\ SchedTypeOK' /\ SchedOK' /\ idle_thread' = idle_thread
      /\ stat[current'] = "READY" \/ current' = idle_thread
      /\ \A t \in Threads : t # current' => status'[t] = stat[t]
  BY <1>1, <1>2, <1>3, ScheduleLemma
<1>5. current' \in Threads
  BY <1>4 DEF SchedTypeOK
<1> QED
  BY <1>1, <1>4, <1>5

(* thread_exit leaves the scheduler consistent and changes no status but    *)
(* those of the exiting thread and of the one switched to.                  *)
LEMMA ExitLemma ==
  ASSUME SchedTypeOK, SchedOK, ready = << >> => idle_thread # NULL, thread_exit
  PROVE  /\ SchedTypeOK' /\ SchedOK' /\ idle_thread' = idle_thread
         /\ status[current'] = "READY" \/ current' = idle_thread
         /\ \A t \in Threads : t # current' /\ t # current => status'[t] = status[t]
         /\ current # current' => status'[current] \in {"FREE", "DYING"}
<1> DEFINE stat == [status EXCEPT ![current] = IF current = main THEN "DYING" ELSE "FREE"]
<1>1. /\ stat \in [Threads -> StatusSet]
      /\ \A t \in Threads : t # current => stat[t] = status[t]
      /\ stat[current] \in {"FREE", "DYING"}
      /\ schedule(stat, ready)
  BY DEF SchedTypeOK, StatusSet, thread_exit
<1> HIDE DEF stat
<1>2. /\ \A t \in Threads : stat[t] # "RUNNING"
      /\ \A i \in DOMAIN ready : stat[ready[i]] = "READY" /\ ready[i] # idle_thread
      /\ \A t \in Threads : stat[t] = "READY" =>
           (\E i \in DOMAIN ready : ready[i] = t) \/ t = idle_thread
  BY <1>1 DEF SchedTypeOK, SchedOK
<1>3. /\ ready \in Seq(Threads)
      /\ idle_thread \in {NULL, idle}
      /\ \A i, k \in DOMAIN ready : ready[i] = ready[k] => i = k
  BY DEF SchedTypeOK, SchedOK
<1>4. /\ SchedTypeOK' /\ SchedOK' /\ idle_thread' = idle_thread
      /\ stat[current'] = "READY" \/ current' = idle_thread
      /\ \A t \in Threads : t # current' => status'[t] = stat[t]
  BY <1>1, <1>2, <1>3, ScheduleLemma
<1>5. current' \in Threads /\ current \in Threads
  BY <1>4 DEF SchedTypeOK
<1> QED
  BY <1>1, <1>4, <1>5

(* thread_yield leaves the scheduler consistent; nobody blocks, and the     *)
(* idle thread is not queued.                                               *)
LEMMA YieldLemma ==
  ASSUME SchedTypeOK, SchedOK, thread_yield
  PROVE  /\ SchedTypeOK' /\ SchedOK' /\ idle_thread' = idle_thread
         /\ status[current'] \in {"READY", "RUNNING"} \/ current' = idle_thread
         /\ \A t \in Threads : t # current' =>
              status'[t] = IF t = current THEN "READY" ELSE status[t]
<1> DEFINE stat == [status EXCEPT ![current] = "READY"]
           q == IF current = idle_thread THEN ready ELSE Append(ready, current)
<1>1. /\ stat \in [Threads -> StatusSet]
      /\ \A t \in Threads : stat[t] = IF t = current THEN "READY" ELSE status[t]
      /\ schedule(stat, q)
  BY DEF SchedTypeOK, StatusSet, thread_yield
<1>2. /\ ready \in Seq(Threads)
      /\ current \in Threads
      /\ idle_thread \in {NULL, idle}
      /\ \A i, k \in DOMAIN ready : ready[i] = ready[k] => i = k
      /\ \A i \in DOMAIN ready : ready[i] # current /\ ready[i] # idle_thread
                                 /\ status[ready[i]] = "READY" /\ ready[i] \in Threads
  BY DEF SchedTypeOK, SchedOK
<1>3. /\ q \in Seq(Threads)
      /\ \A i \in DOMAIN q : \/ i \in DOMAIN ready /\ q[i] = ready[i]
                             \/ i = Len(ready) + 1 /\ q[i] = current /\ current # idle_thread
      /\ \A i \in DOMAIN ready : i \in DOMAIN q /\ q[i] = ready[i]
      /\ current # idle_thread => Len(ready) + 1 \in DOMAIN q /\ q[Len(ready) + 1] = current
  BY <1>2, AppendLemma
<1> HIDE DEF stat, q
<1>4. /\ \A t \in Threads : stat[t] # "RUNNING"
      /\ \A i \in DOMAIN q : stat[q[i]] = "READY" /\ q[i] # idle_thread
      /\ \A i, k \in DOMAIN q : q[i] = q[k] => i = k
  BY <1>1, <1>2, <1>3 DEF SchedOK
<1>5. \A t \in Threads : stat[t] = "READY" =>
        (\E i \in DOMAIN q : q[i] = t) \/ t = idle_thread
  BY <1>1, <1>2, <1>3 DEF SchedOK
<1>6. q = << >> => idle_thread # NULL
  BY <1>2, <1>3, SchedAssumption
<1>7. /\ SchedTypeOK' /\ SchedOK' /\ idle_thread' = idle_thread
      /\ stat[current'] = "READY" \/ current' = idle_thread
      /\ \A t \in Threads : t # current' => status'[t] = stat[t]
  BY <1>1, <1>2, <1>3, <1>4, <1>5, <1>6, ScheduleLemma
<1>8. current' \in Threads
  BY <1>7 DEF SchedTypeOK
<1> QED
  BY <1>1, <1>2, <1>7, <1>8 DEF SchedOK

(* thread_unblock keeps the ready list free of repetitions because the      *)
(* thread was blocked (its ASSERT).                                         *)
LEMMA UnblockLemma ==
  ASSUME SchedTypeOK, SchedOK, NEW u \in Threads, status[u] = "BLOCKED",
         u # idle_thread, thread_unblock(u)
  PROVE  /\ SchedTypeOK' /\ SchedOK' /\ idle_thread' = idle_thread
         /\ current' = current
         /\ status'[u] = "READY"
         /\ \A t \in Threads : t # u => status'[t] = status[t]
<1>1. /\ ready' = Append(ready, u)
      /\ status' = [status EXCEPT ![u] = "READY"]
      /\ current' = current /\ idle_thread' = idle_thread /\ slice' = slice
  BY DEF thread_unblock
<1>2. /\ ready \in Seq(Threads) /\ status \in [Threads -> StatusSet]
      /\ u # current
      /\ \A i \in DOMAIN ready : ready[i] # u /\ ready[i] \in Threads
  BY DEF SchedTypeOK, SchedOK, StatusSet
<1>3. SchedTypeOK'
  BY <1>1, <1>2, AppendLemma DEF SchedTypeOK, StatusSet
<1>4. /\ \A i \in DOMAIN ready' : \/ i \in DOMAIN ready /\ ready'[i] = ready[i]
                                  \/ i = Len(ready) + 1 /\ ready'[i] = u
      /\ \A i \in DOMAIN ready : i \in DOMAIN ready' /\ ready'[i] = ready[i]
      /\ Len(ready) + 1 \in DOMAIN ready' /\ ready'[Len(ready) + 1] = u
  BY <1>1, <1>2, AppendLemma
<1>5. /\ status'[u] = "READY"
      /\ \A t \in Threads : t # u => status'[t] = status[t]
  BY <1>1, <1>2
<1>6. SchedOK'
  <2>1. current' # NULL /\ \A t \in Threads : status'[t] = "RUNNING" <=> t = current'
    BY <1>1, <1>2, <1>5 DEF SchedOK
  <2>2. \A i, k \in DOMAIN ready' : ready'[i] = ready'[k] => i = k
    BY <1>2, <1>4 DEF SchedOK
  <2>3. \A i \in DOMAIN ready' : status'[ready'[i]] = "READY" /\ ready'[i] # idle_thread'
    BY <1>1, <1>2, <1>4, <1>5 DEF SchedOK
  <2>4. \A t \in Threads : status'[t] = "READY" =>
          (\E i \in DOMAIN ready' : ready'[i] = t) \/ t = idle_thread'
    BY <1>1, <1>2, <1>4, <1>5 DEF SchedOK
  <2> QED
    BY <2>1, <2>2, <2>3, <2>4 DEF SchedOK
<1> QED
  BY <1>1, <1>3, <1>5, <1>6

-----------------------------------------------------------------------------
(* The elements of a list, and that none is there twice.                    *)
Members(s) == {s[i] : i \in DOMAIN s}
Distinct(s) == \A i, j \in DOMAIN s : s[i] = s[j] => i = j

(* Lists of no and of one element.                                          *)
LEMMA SmallLists ==
  ASSUME NEW S, NEW u \in S
  PROVE  /\ << >> \in Seq(S) /\ Distinct(<< >>) /\ Members(<< >>) = {}
         /\ <<u>> \in Seq(S) /\ Distinct(<<u>>) /\ Members(<<u>>) = {u}
BY DEF Members, Distinct

(* What list_pop_front leaves of a list.                                    *)
LEMMA TailMembers ==
  ASSUME NEW S, NEW s \in Seq(S), s # << >>, Distinct(s)
  PROVE  /\ Head(s) \in Members(s) /\ Members(s) \subseteq S
         /\ Tail(s) \in Seq(S) /\ Distinct(Tail(s))
         /\ Members(Tail(s)) = Members(s) \ {Head(s)}
<1>1. PICK v, h : v = Tail(s) /\ h = Head(s)
  BY Zenon
<1>2. /\ v \in Seq(S) /\ 1 \in DOMAIN s /\ h = s[1] /\ Members(s) \subseteq S
      /\ \A i \in DOMAIN v : i \in Int /\ i # 0 /\ i + 1 \in DOMAIN s /\ v[i] = s[i + 1]
      /\ \A i \in DOMAIN s : i \in Int /\ (i = 1 \/ (i - 1 \in DOMAIN v /\ s[i] = v[i - 1]))
  BY <1>1, TailLemma DEF Members
<1>3. \A i \in DOMAIN v : i + 1 # 1 /\ \A j \in DOMAIN v : j + 1 = i + 1 => j = i
  BY <1>2
<1>4. Distinct(v) /\ \A i \in DOMAIN v : v[i] # h
  <2>1. ASSUME NEW i \in DOMAIN v, NEW j \in DOMAIN v, v[i] = v[j] PROVE i = j
    <3>1. i + 1 \in DOMAIN s /\ j + 1 \in DOMAIN s /\ s[i + 1] = s[j + 1]
      BY <1>2, <2>1, Zenon
    <3>2. i + 1 = j + 1
      BY <3>1, Zenon DEF Distinct
    <3> QED
      BY <1>3, <3>2, Zenon
  <2>2. ASSUME NEW i \in DOMAIN v PROVE v[i] # h
    <3>1. i + 1 \in DOMAIN s /\ i + 1 # 1 /\ v[i] = s[i + 1] /\ h = s[1] /\ 1 \in DOMAIN s
      BY <1>2, <1>3, Zenon
    <3> QED
      BY <3>1, Zenon DEF Distinct
  <2> QED
    BY <2>1, <2>2, Zenon DEF Distinct
<1>5. \A x \in Members(s) : x = h \/ x \in Members(v)
  BY <1>2 DEF Members
<1>6. \A x \in Members(v) : x \in Members(s) /\ x # h
  BY <1>2, <1>4 DEF Members
<1>7. h \in Members(s)
  BY <1>2 DEF Members
<1> QED
  BY <1>1, <1>2, <1>4, <1>5, <1>6, <1>7

(* What list_push_back makes of a list.                                     *)
LEMMA AppendMembers ==
  ASSUME NEW S, NEW s \in Seq(S), NEW x \in S, Distinct(s), x \notin Members(s)
  PROVE  /\ Append(s, x) \in Seq(S) /\ Distinct(Append(s, x))
         /\ Members(Append(s, x)) = Members(s) \cup {x}
<1>1. PICK v, n : v = Append(s, x) /\ n = Len(s) + 1
  BY Zenon
<1>2. /\ v \in Seq(S) /\ n \in DOMAIN v /\ v[n] = x
      /\ \A i \in DOMAIN v : i = n \/ (i \in DOMAIN s /\ v[i] = s[i])
      /\ \A i \in DOMAIN s : i \in DOMAIN v /\ v[i] = s[i] /\ s[i] # x
  BY <1>1, AppendLemma DEF Members
<1>3. Distinct(v)
  BY <1>2, Zenon DEF Distinct
<1>4. \A y \in Members(v) : y \in Members(s) \cup {x}
  BY <1>2 DEF Members
<1>5. \A y \in Members(s) \cup {x} : y \in Members(v)
  BY <1>2 DEF Members
<1> QED
  BY <1>1, <1>2, <1>3, <1>4, <1>5

(* Two lists of different elements, one after the other.                    *)
LEMMA ConcatMembers ==
  ASSUME NEW S, NEW a \in Seq(S), NEW b \in Seq(S), Distinct(a), Distinct(b),
         Members(a) \cap Members(b) = {}
  PROVE  /\ a \o b \in Seq(S) /\ Distinct(a \o b)
         /\ Members(a \o b) = Members(a) \cup Members(b)
<1>1. PICK c, n, m : c = a \o b /\ n = Len(a) /\ m = Len(b)
  BY Zenon
<1>2. /\ n \in Nat /\ m \in Nat /\ DOMAIN a = 1..n /\ DOMAIN b = 1..m
      /\ c \in Seq(S) /\ DOMAIN c = 1..(n + m)
      /\ \A i \in 1..(n + m) : c[i] = IF i <= n THEN a[i] ELSE b[i - n]
  BY <1>1
<1>3. \A i \in DOMAIN c : \/ i \in DOMAIN a /\ c[i] = a[i]
                          \/ i - n \in DOMAIN b /\ c[i] = b[i - n]
  BY <1>2
<1>4. /\ \A i \in DOMAIN a : i \in DOMAIN c /\ c[i] = a[i]
      /\ \A i \in DOMAIN b : i + n \in DOMAIN c /\ c[i + n] = b[i]
      /\ \A i, j \in DOMAIN c : i - n = j - n => i = j
  BY <1>2
<1>5. \A i \in DOMAIN a, j \in DOMAIN b : a[i] # b[j]
  BY DEF Members
<1>6. ASSUME NEW i \in DOMAIN c, NEW j \in DOMAIN c, c[i] = c[j]
      PROVE  i = j
  <2>1. CASE i \in DOMAIN a /\ c[i] = a[i]
    <3>1. j \in DOMAIN a /\ c[j] = a[j]
      BY <1>3, <1>5, <1>6, <2>1, Zenon
    <3> QED
      BY <1>6, <2>1, <3>1, Zenon DEF Distinct
  <2>2. CASE i - n \in DOMAIN b /\ c[i] = b[i - n]
    <3>1. j - n \in DOMAIN b /\ c[j] = b[j - n]
      BY <1>3, <1>5, <1>6, <2>2, Zenon
    <3>2. i - n = j - n
      BY <1>6, <2>2, <3>1, Zenon DEF Distinct
    <3> QED
      BY <1>4, <3>2, Zenon
  <2> QED
    BY <1>3, <2>1, <2>2, Zenon
<1>7. \A x \in Members(c) : x \in Members(a) \cup Members(b)
  BY <1>3 DEF Members
<1>8. \A x \in Members(a) \cup Members(b) : x \in Members(c)
  BY <1>4 DEF Members
<1> QED
  BY <1>1, <1>2, <1>6, <1>7, <1>8 DEF Distinct

==============================================================================
