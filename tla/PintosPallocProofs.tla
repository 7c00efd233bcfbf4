-------------------------- MODULE PintosPallocProofs --------------------------
(***************************************************************************)
(* PagesOK of PintosPalloc for any number of threads and pages.  It is not  *)
(* inductive: that a page marked by one thread was free depends on what the *)
(* search of that thread has seen (AheadFree), which the lock of the pool   *)
(* keeps true while other threads mark pages, and which freeing cannot      *)
(* make false.                                                              *)
(***************************************************************************)
EXTENDS PintosMalloc, Integers, TLAPS

Call == [at : {"out", "lock", "scan", "mark", "unlock", "clear"},
         pool : Pools, cnt : Nat, i : Nat, j : Nat]

PTypeOK ==
  /\ used \in [Pages -> BOOLEAN]
  /\ plock \in [Pools -> Threads \cup {NULL}]
  /\ pal \in [Threads -> Call]
  /\ runs \subseteq Nat \X Nat

(* The indices of a call are inside its pool. *)
InPool(c) ==
  /\ c.at # "out" => c.cnt > 0
  /\ c.at \in {"out", "lock"} => c.j = 0
  /\ c.at \in {"scan", "mark", "clear"} => c.j < c.cnt
  /\ c.at \in {"mark", "unlock", "clear"} \/ c.j > 0 => c.i + c.cnt <= bit_cnt[c.pool]

RunInPool(r) ==
  /\ r[2] > 0
  /\ \E k \in Pools : base[k] <= r[1] /\ r[1] + r[2] <= base[k] + bit_cnt[k]

Locked(t) == pal[t].at \in {"scan", "mark", "unlock"} => plock[pal[t].pool] = t

(* The pages that the search has seen free and that are not marked yet. *)
Ahead(c) ==
  LET first == base[c.pool] + c.i
  IN  IF c.at = "scan" THEN Run(first, c.j)
      ELSE IF c.at = "mark" THEN Run(first + c.j, c.cnt - c.j)
      ELSE {}

AheadFree == \A t \in Threads : \A p \in Ahead(pal[t]) : ~ used[p]

Apart ==
  /\ \A r, s \in runs : r # s => RunPages(r) \cap RunPages(s) = {}
  /\ \A t \in Threads, r \in runs : Transit(pal[t]) \cap RunPages(r) = {}
  /\ \A t, u \in Threads : t # u => Transit(pal[t]) \cap Transit(pal[u]) = {}

Marked ==
  \A p \in Pages :
    used[p] <=> \/ \E r \in runs : p \in RunPages(r)
                \/ \E t \in Threads : p \in Transit(pal[t])

PallocInv ==
  /\ PTypeOK
  /\ \A t \in Threads : InPool(pal[t]) /\ Locked(t)
  /\ \A r \in runs : RunInPool(r)
  /\ AheadFree
  /\ Apart
  /\ Marked

-----------------------------------------------------------------------------
(* What the proofs use of the pools: the user pool begins after the end of  *)
(* the kernel pool (palloc_init, init_pool).                                *)
LEMMA PoolFacts ==
  /\ base \in [Pools -> Nat] /\ bit_cnt \in [Pools -> Nat]
  /\ base["kernel"] + bit_cnt["kernel"] <= base["user"]
<1>1. user_pages \in Nat /\ kernel_pages \in Nat
  <2>1. FREE_PAGES \div 2 \in Nat /\ FREE_PAGES \div 2 <= FREE_PAGES
    BY PallocAssumption
  <2> QED BY <2>1, PallocAssumption DEF user_pages, kernel_pages
<1> DEFINE kb == BmPages(kernel_pages)
           ub == BmPages(user_pages)
<1>2. kb \in Nat /\ ub \in Nat /\ kb <= kernel_pages /\ ub <= user_pages
  BY PallocAssumption
<1>3. /\ base["kernel"] = kb /\ base["user"] = kernel_pages + ub
      /\ bit_cnt["kernel"] = kernel_pages - kb /\ bit_cnt["user"] = user_pages - ub
  BY DEF base, bit_cnt, Pools
<1> HIDE DEF kb, ub
<1>4. base = [k \in Pools |-> base[k]] /\ bit_cnt = [k \in Pools |-> bit_cnt[k]]
  BY DEF base, bit_cnt
<1> QED BY <1>1, <1>2, <1>3, <1>4 DEF Pools

(* A page of a pool is a page, and belongs to one pool only. *)
LEMMA PoolDisjoint ==
  ASSUME NEW k \in Pools, NEW n \in Nat, n < bit_cnt[k]
  PROVE  /\ base[k] + n \in Pages
         /\ \A l \in Pools, m \in Nat : l # k /\ m < bit_cnt[l] => base[k] + n # base[l] + m
<1>1. k = "kernel" \/ k = "user"
  BY DEF Pools
<1> QED BY <1>1, PoolFacts DEF Pools, Pages, PoolPages

(* The pages of a run.                                                      *)
LEMMA InRun ==
  ASSUME NEW p \in Nat, NEW n \in Nat
  PROVE  /\ \A x : x \in Run(p, n) <=> x \in Nat /\ p <= x /\ x < p + n
         /\ Run(p, 0) = {}
BY DEF Run

(* The invariant implies the property: no page has two users and none is    *)
(* lost.                                                                    *)
LEMMA InvPagesOK == PallocInv => PagesOK
BY DEF PallocInv, Apart, Marked, PagesOK

(* The pools as palloc_init leaves them.                                    *)
LEMMA InitInv == PInit => PallocInv
<1> SUFFICES ASSUME PInit PROVE PallocInv
  OBVIOUS
<1>1. PTypeOK
  BY DEF PInit, PTypeOK, Call, Out, Pools
<1>2. \A t \in Threads : pal[t] = Out
  BY DEF PInit
<1>3. Transit(Out) = {} /\ Ahead(Out) = {} /\ InPool(Out) /\ Out.at = "out"
  BY DEF Transit, Ahead, InPool, Out
<1>4. \A t \in Threads : InPool(pal[t]) /\ Locked(t)
  BY <1>2, <1>3 DEF Locked
<1>5. AheadFree /\ Apart /\ Marked
  BY <1>2, <1>3 DEF PInit, AheadFree, Apart, Marked
<1> QED BY <1>1, <1>4, <1>5 DEF PallocInv, PInit

-----------------------------------------------------------------------------
(* A step of thread t that leaves the bitmap and the runs alone. *)
LEMMA QuietStep ==
  ASSUME PallocInv, NEW t \in Threads, NEW c \in Call,
         pal' = [pal EXCEPT ![t] = c], used' = used, runs' = runs,
         plock' \in [Pools -> Threads \cup {NULL}],
         \A u \in Threads : Locked(u)',
         InPool(c), Transit(c) = Transit(pal[t]),
         \A p \in Ahead(c) : ~ used[p]
  PROVE  PallocInv'
<1>1. pal'[t] = c /\ \A u \in Threads : u # t => pal'[u] = pal[u]
  BY DEF PallocInv, PTypeOK
<1>2. \A u \in Threads : Transit(pal'[u]) = Transit(pal[u])
  BY <1>1
<1>3. PTypeOK'
  BY DEF PallocInv, PTypeOK
<1>4. \A u \in Threads : InPool(pal'[u])
  BY <1>1 DEF PallocInv
<1>5. \A u \in Threads : \A p \in Ahead(pal'[u]) : ~ used[p]
  BY <1>1 DEF PallocInv, AheadFree
<1>6. Apart' /\ Marked'
  BY <1>2 DEF PallocInv, Apart, Marked
<1> QED BY <1>3, <1>4, <1>5, <1>6 DEF PallocInv, AheadFree

(* palloc_get_multiple, up to its lock.                                     *)
LEMMA GetInv ==
  ASSUME PallocInv, NEW t \in Threads, NEW k \in Pools, NEW cnt \in Nat,
         palloc_get_multiple(t, k, cnt)
  PROVE  PallocInv'
<1> DEFINE c == [at |-> "lock", pool |-> k, cnt |-> cnt, i |-> 0, j |-> 0]
<1>1. c \in Call /\ InPool(c) /\ Transit(c) = {} /\ Ahead(c) = {}
  BY DEF Call, InPool, Transit, Ahead, palloc_get_multiple
<1>2. pal' = [pal EXCEPT ![t] = c] /\ used' = used /\ runs' = runs /\ plock' = plock
  BY DEF palloc_get_multiple
<1>3. Transit(pal[t]) = {}
  BY DEF Transit, palloc_get_multiple
<1>4. \A u \in Threads : Locked(u)'
  BY <1>2 DEF PallocInv, PTypeOK, Locked
<1> HIDE DEF c
<1> QED BY <1>1, <1>2, <1>3, <1>4, QuietStep DEF PallocInv, PTypeOK

(* palloc_get_multiple takes the lock of the pool.                          *)
LEMMA LockInv ==
  ASSUME PallocInv, NEW t \in Threads, LockPool(t)
  PROVE  PallocInv'
<1> DEFINE c == [pal[t] EXCEPT !.at = "scan"]
           k == pal[t].pool
<1>0. pal[t] \in Call /\ pal[t].at = "lock" /\ InPool(pal[t]) /\ k \in Pools
  BY DEF PallocInv, PTypeOK, LockPool, Call
<1>1. /\ c \in Call
      /\ c.at = "scan" /\ c.pool = k /\ c.cnt = pal[t].cnt /\ c.i = pal[t].i /\ c.j = pal[t].j
  BY <1>0 DEF Call
<1>2. /\ pal' = [pal EXCEPT ![t] = c] /\ used' = used /\ runs' = runs
      /\ plock[k] = NULL /\ plock' = [plock EXCEPT ![k] = t]
  BY DEF LockPool, PallocInv, PTypeOK
<1>3. InPool(c) /\ Transit(c) = {} /\ Transit(pal[t]) = {}
  BY <1>0, <1>1 DEF InPool, Transit
<1>4. Ahead(c) = {}
  <2>1. c.j = 0 /\ base[k] + c.i \in Nat
    BY <1>0, <1>1, PoolFacts DEF InPool, Call
  <2> HIDE DEF c, k
  <2> QED BY <1>1, <2>1, InRun DEF Ahead
<1>5. \A u \in Threads : Locked(u)'
  BY <1>0, <1>1, <1>2, PallocAssumption DEF PallocInv, PTypeOK, Locked, Call
<1>6. plock' \in [Pools -> Threads \cup {NULL}]
  BY <1>0, <1>2 DEF PallocInv, PTypeOK
<1> HIDE DEF c, k
<1> QED BY <1>1, <1>2, <1>3, <1>4, <1>5, <1>6, QuietStep

(* The search: what it has seen free stays free. *)
LEMMA ScanInv ==
  ASSUME PallocInv, NEW t \in Threads, ScanBit(t)
  PROVE  PallocInv'
<1> DEFINE c == pal[t]
           q == base[c.pool] + c.i + c.j
           d == IF used[q] THEN [c EXCEPT !.i = c.i + 1, !.j = 0]
                ELSE IF c.j + 1 = c.cnt THEN [c EXCEPT !.at = "mark", !.j = 0]
                ELSE [c EXCEPT !.j = c.j + 1]
<1>0. /\ c \in Call /\ c.at = "scan" /\ InPool(c) /\ c.pool \in Pools
      /\ c.i \in Nat /\ c.j \in Nat /\ c.cnt \in Nat /\ base[c.pool] \in Nat
      /\ c.j < c.cnt /\ c.i + c.cnt <= bit_cnt[c.pool] /\ bit_cnt[c.pool] \in Nat
  BY PoolFacts DEF PallocInv, PTypeOK, ScanBit, Call, InPool
<1>1. pal' = [pal EXCEPT ![t] = d] /\ used' = used /\ runs' = runs /\ plock' = plock
  BY DEF ScanBit
<1>2. /\ d \in Call /\ d.pool = c.pool /\ d.cnt = c.cnt /\ d.at \in {"scan", "mark"}
      /\ InPool(d)
  <2>1. CASE used[q]
    <3>1. d = [c EXCEPT !.i = c.i + 1, !.j = 0]
      BY <2>1
    <3>2. /\ d \in Call /\ d.at = "scan" /\ d.pool = c.pool /\ d.cnt = c.cnt
          /\ d.i = c.i + 1 /\ d.j = 0
      <4> HIDE DEF c, d, q
      <4>1. c.i + 1 \in Nat
        BY <1>0
      <4> QED BY <1>0, <3>1, <4>1 DEF Call
    <3> HIDE DEF d, c
    <3> QED BY <1>0, <3>2 DEF InPool
  <2>2. CASE ~ used[q] /\ c.j + 1 = c.cnt
    <3>1. d = [c EXCEPT !.at = "mark", !.j = 0]
      BY <2>2
    <3> QED BY <1>0, <3>1 DEF Call, InPool
  <2>3. CASE ~ used[q] /\ c.j + 1 # c.cnt
    <3>1. d = [c EXCEPT !.j = c.j + 1]
      BY <2>3
    <3> QED BY <1>0, <2>3, <3>1 DEF Call, InPool
  <2> QED BY <2>1, <2>2, <2>3
<1>3. Transit(c) = {} /\ Transit(d) = {}
  <2>1. Transit(c) = {}
    BY <1>0 DEF Transit
  <2>2. d.at = "mark" => d.j = 0
    BY <1>0 DEF Call
  <2>3. base[d.pool] + d.i \in Nat
    BY <1>0, <1>2 DEF Call
  <2> HIDE DEF d, c
  <2> QED BY <1>2, <2>1, <2>2, <2>3, InRun DEF Transit
<1>4. \A u \in Threads : Locked(u)'
  <2>1. \A u \in Threads : pal'[u].pool = pal[u].pool
          /\ (pal'[u].at \in {"scan", "mark", "unlock"} => pal[u].at \in {"scan", "mark", "unlock"})
    <3> HIDE DEF d
    <3> QED BY <1>0, <1>1, <1>2 DEF PallocInv, PTypeOK
  <2> QED BY <1>1, <2>1 DEF PallocInv, Locked
<1>5. \A p \in Ahead(d) : ~ used[p]
  <2>0. \A x \in Nat : base[c.pool] + c.i <= x /\ x < base[c.pool] + c.i + c.j => ~ used[x]
    <3>1. Ahead(c) = Run(base[c.pool] + c.i, c.j)
      BY <1>0 DEF Ahead
    <3>2. \A x \in Ahead(c) : ~ used[x]
      BY DEF PallocInv, AheadFree
    <3> HIDE DEF c
    <3> QED BY <1>0, <3>1, <3>2, InRun
  <2>1. CASE used[q]
    <3>1. d.at = "scan" /\ d.j = 0 /\ base[d.pool] + d.i \in Nat
      BY <1>0, <2>1 DEF Call
    <3> HIDE DEF d
    <3> QED BY <3>1, InRun DEF Ahead
  <2>2. CASE ~ used[q] /\ c.j + 1 = c.cnt
    <3>1. d.at = "mark" /\ d.j = 0 /\ d.i = c.i /\ d.cnt = c.cnt /\ d.pool = c.pool
      BY <1>0, <2>2 DEF Call
    <3>2. \A p \in Ahead(d) : p \in Nat /\ base[c.pool] + c.i <= p /\ p < base[c.pool] + c.i + c.j + 1
      <4> HIDE DEF d, c
      <4>1. Ahead(d) = Run(base[c.pool] + c.i + 0, c.cnt - 0)
        BY <3>1 DEF Ahead
      <4>2. c.cnt - 0 = c.j + 1 /\ base[c.pool] + c.i + 0 = base[c.pool] + c.i
        BY <1>0, <2>2
      <4> QED BY <1>0, <4>1, <4>2, InRun
    <3> QED BY <1>0, <2>0, <2>2, <3>2
  <2>3. CASE ~ used[q] /\ c.j + 1 # c.cnt
    <3>1. d.at = "scan" /\ d.j = c.j + 1 /\ d.i = c.i /\ d.cnt = c.cnt /\ d.pool = c.pool
      BY <1>0, <2>3 DEF Call
    <3>2. \A p \in Ahead(d) : p \in Nat /\ base[c.pool] + c.i <= p /\ p < base[c.pool] + c.i + c.j + 1
      <4> HIDE DEF d, c
      <4>1. Ahead(d) = Run(base[c.pool] + c.i, c.j + 1)
        BY <3>1 DEF Ahead
      <4> QED BY <1>0, <4>1, InRun
    <3> QED BY <1>0, <2>0, <2>3, <3>2
  <2> QED BY <2>1, <2>2, <2>3
<1> HIDE DEF d
<1> QED BY <1>1, <1>2, <1>3, <1>4, <1>5, QuietStep DEF PallocInv, PTypeOK

(* The scan has found no run that is free: the call returns NULL.           *)
LEMMA NoPagesInv ==
  ASSUME PallocInv, NEW t \in Threads, NoPages(t)
  PROVE  PallocInv'
<1> DEFINE k == pal[t].pool
<1>1. Out \in Call /\ InPool(Out) /\ Transit(Out) = {} /\ Ahead(Out) = {} /\ Out.at = "out"
  BY DEF Out, Call, InPool, Transit, Ahead, Pools
<1>2. /\ pal[t] \in Call /\ k \in Pools /\ pal[t].at = "scan" /\ Transit(pal[t]) = {}
      /\ pal' = [pal EXCEPT ![t] = Out] /\ used' = used /\ runs' = runs
      /\ plock' = [plock EXCEPT ![k] = NULL] /\ plock[k] = t
  BY DEF NoPages, PallocInv, PTypeOK, Call, Transit, Locked
<1>3. \A u \in Threads : Locked(u)'
  BY <1>1, <1>2 DEF PallocInv, PTypeOK, Locked, Call
<1> QED BY <1>1, <1>2, <1>3, QuietStep DEF PallocInv, PTypeOK

(* A marked page was free, and no other search is in its pool. *)
LEMMA MarkInv ==
  ASSUME PallocInv, NEW t \in Threads, MarkBit(t)
  PROVE  PallocInv'
<1> DEFINE c == pal[t]
           f == base[c.pool] + c.i
           q == base[c.pool] + c.i + c.j
           d == IF c.j + 1 = c.cnt THEN [c EXCEPT !.at = "unlock"] ELSE [c EXCEPT !.j = c.j + 1]
<1>0. /\ c \in Call /\ c.at = "mark" /\ InPool(c) /\ c.pool \in Pools
      /\ c.i \in Nat /\ c.j \in Nat /\ c.cnt \in Nat /\ f \in Nat /\ q \in Nat /\ q = f + c.j
      /\ c.j < c.cnt /\ c.i + c.cnt <= bit_cnt[c.pool] /\ bit_cnt[c.pool] \in Nat
      /\ plock[c.pool] = t
  BY PoolFacts DEF PallocInv, PTypeOK, MarkBit, Call, InPool, Locked
<1>1. /\ pal' = [pal EXCEPT ![t] = d] /\ used' = [used EXCEPT ![q] = TRUE]
      /\ runs' = runs /\ plock' = plock
  BY DEF MarkBit
<1>2. /\ d \in Call /\ d.pool = c.pool /\ d.cnt = c.cnt /\ d.i = c.i
      /\ d.at \in {"mark", "unlock"} /\ (d.at = "mark" => d.j = c.j + 1 /\ d.j < c.cnt)
      /\ (d.at = "unlock" => c.j + 1 = c.cnt) /\ InPool(d)
  <2>1. CASE c.j + 1 = c.cnt
    <3>1. d = [c EXCEPT !.at = "unlock"]
      BY <2>1
    <3> QED BY <1>0, <2>1, <3>1 DEF Call, InPool
  <2>2. CASE c.j + 1 # c.cnt
    <3>1. d = [c EXCEPT !.j = c.j + 1]
      BY <2>2
    <3> QED BY <1>0, <2>2, <3>1 DEF Call, InPool
  <2> QED BY <2>1, <2>2
<1>3. pal'[t] = d /\ \A u \in Threads : u # t => pal'[u] = pal[u]
  <2> HIDE DEF d
  <2> QED BY <1>1 DEF PallocInv, PTypeOK
<1> HIDE DEF d, c, f, q
<1>4. q \in Pages /\ q \in Ahead(c)
  <2>1. f = base[c.pool] + c.i /\ c.i + c.j \in Nat /\ c.i + c.j < bit_cnt[c.pool]
    BY <1>0 DEF f
  <2>2. q = base[c.pool] + (c.i + c.j)
    BY <1>0, <2>1, PoolFacts DEF q
  <2>3. q \in Pages
    BY <1>0, <2>1, <2>2, PoolDisjoint
  <2>4. Ahead(c) = Run(q, c.cnt - c.j)
    BY <1>0 DEF Ahead, q
  <2>5. c.cnt - c.j \in Nat /\ c.cnt - c.j > 0
    BY <1>0
  <2> QED BY <1>0, <2>3, <2>4, <2>5, InRun
<1>5. ~ used[q]
  BY <1>4 DEF PallocInv, AheadFree, c
<1>6. Transit(d) = Transit(c) \cup {q}
  <2>1. Transit(c) = Run(f, c.j)
    BY <1>0 DEF Transit, f
  <2>2. Transit(d) = Run(f, c.j + 1)
    BY <1>0, <1>2 DEF Transit, f
  <2> QED BY <1>0, <2>1, <2>2, InRun
<1>7. /\ \A r \in runs : q \notin RunPages(r)
      /\ \A u \in Threads : q \notin Transit(pal[u])
  BY <1>4, <1>5 DEF PallocInv, Marked
<1>8. \A u \in Threads : \A p \in Ahead(pal'[u]) : ~ used'[p]
  <2>1. SUFFICES ASSUME NEW u \in Threads, NEW p \in Ahead(pal'[u]) PROVE ~ used'[p]
    OBVIOUS
  <2>2. CASE u = t
    <3>1. d.at = "mark" /\ p \in Run(f + d.j, c.cnt - d.j)
      BY <1>2, <1>3, <2>1, <2>2 DEF Ahead, f
    <3>2. p \in Nat /\ q + 1 <= p /\ p < f + c.cnt
      BY <1>0, <1>2, <3>1, InRun
    <3>3. p \in Ahead(c)
      <4>1. Ahead(c) = Run(q, c.cnt - c.j)
        BY <1>0 DEF Ahead, q
      <4> DEFINE n == c.cnt - c.j
      <4>2. n \in Nat /\ q + n = f + c.cnt
        BY <1>0
      <4> HIDE DEF n
      <4>3. p \in Run(q, n)
        <5>1. q \in Nat /\ q <= p /\ p < q + n
          BY <1>0, <3>2, <4>2
        <5> QED BY <3>2, <4>2, <5>1 DEF Run
      <4> QED BY <4>1, <4>3 DEF n
    <3> QED BY <1>0, <1>1, <3>2, <3>3 DEF PallocInv, AheadFree, c, PTypeOK
  <2>3. CASE u # t
    <3> DEFINE e == pal[u]
    <3>1. p \in Ahead(e) /\ e \in Call /\ InPool(e) /\ ~ used[p]
      BY <1>3, <2>1, <2>3 DEF PallocInv, AheadFree, PTypeOK
    <3>2. e.at \in {"scan", "mark"} /\ e.pool # c.pool
      BY <1>0, <2>3, <3>1 DEF PallocInv, Ahead, Locked, c
    <3>3. /\ e.pool \in Pools /\ e.i \in Nat /\ e.j \in Nat /\ e.cnt \in Nat
          /\ base[e.pool] \in Nat /\ base[e.pool] + e.i \in Nat /\ base[e.pool] + e.i + e.j \in Nat
          /\ e.j < e.cnt /\ e.cnt - e.j \in Nat /\ bit_cnt[e.pool] \in Nat
      BY <3>1, <3>2, PoolFacts DEF Call, InPool
    <3> HIDE DEF e
    <3>4. /\ p \in Nat /\ base[e.pool] <= p /\ p < base[e.pool] + e.i + e.cnt
          /\ e.i + e.cnt <= bit_cnt[e.pool]
      <4>1. CASE e.at = "scan"
        <5>1. p \in Run(base[e.pool] + e.i, e.j)
          BY <3>1, <4>1 DEF Ahead
        <5>2. p \in Nat /\ base[e.pool] + e.i <= p /\ p < base[e.pool] + e.i + e.j
          BY <3>3, <5>1, InRun
        <5> QED BY <3>1, <3>3, <4>1, <5>2 DEF InPool
      <4>2. CASE e.at = "mark"
        <5>1. p \in Run(base[e.pool] + e.i + e.j, e.cnt - e.j)
          BY <3>1, <4>2 DEF Ahead
        <5>2. p \in Nat /\ base[e.pool] + e.i + e.j <= p /\ p < base[e.pool] + e.i + e.j + (e.cnt - e.j)
          BY <3>3, <5>1, InRun
        <5> QED BY <3>1, <3>3, <4>2, <5>2 DEF InPool
      <4> QED BY <3>2, <4>1, <4>2
    <3>5. p - base[e.pool] \in Nat /\ p - base[e.pool] < bit_cnt[e.pool]
          /\ p = base[e.pool] + (p - base[e.pool])
      BY <3>3, <3>4
    <3>6. p # q
      <4>1. c.i + c.j \in Nat /\ c.i + c.j < bit_cnt[c.pool] /\ q = base[c.pool] + (c.i + c.j)
        BY <1>0, PoolFacts DEF q
      <4>2. \A l \in Pools, m \in Nat :
              l # c.pool /\ m < bit_cnt[l] => base[c.pool] + (c.i + c.j) # base[l] + m
        BY <1>0, <4>1, PoolDisjoint
      <4> QED BY <3>2, <3>3, <3>5, <4>1, <4>2
    <3> QED BY <1>1, <3>1, <3>6 DEF PallocInv, PTypeOK
  <2> QED BY <2>2, <2>3
<1>9. Apart'
  BY <1>1, <1>3, <1>6, <1>7 DEF PallocInv, Apart, c
<1>10. Marked'
  <2> SUFFICES ASSUME NEW p \in Pages
               PROVE  used'[p] <=> \/ \E r \in runs : p \in RunPages(r)
                                   \/ \E u \in Threads : p \in Transit(pal'[u])
    BY <1>1 DEF Marked
  <2>1. (\E u \in Threads : p \in Transit(pal'[u]))
          <=> p = q \/ \E u \in Threads : p \in Transit(pal[u])
    BY <1>3, <1>6 DEF c
  <2>2. used'[p] <=> p = q \/ used[p]
    BY <1>1, <1>4 DEF PallocInv, PTypeOK
  <2> QED BY <2>1, <2>2 DEF PallocInv, Marked
<1>11. PTypeOK'
  BY <1>1, <1>2 DEF PallocInv, PTypeOK
<1>12. \A u \in Threads : InPool(pal'[u]) /\ Locked(u)'
  BY <1>0, <1>1, <1>2, <1>3 DEF PallocInv, Locked, c
<1> QED BY <1>1, <1>8, <1>9, <1>10, <1>11, <1>12 DEF PallocInv, AheadFree

(* The run is marked: the lock is given back and the caller has the pages.  *)
LEMMA GotInv ==
  ASSUME PallocInv, NEW t \in Threads, GotPages(t)
  PROVE  PallocInv'
<1> DEFINE c == pal[t]
           r == NewPages(t)
<1>0. /\ c \in Call /\ c.at = "unlock" /\ InPool(c) /\ c.pool \in Pools
      /\ c.i \in Nat /\ c.cnt \in Nat /\ base[c.pool] \in Nat /\ bit_cnt[c.pool] \in Nat
      /\ c.cnt > 0 /\ c.i + c.cnt <= bit_cnt[c.pool] /\ plock[c.pool] = t
  BY PoolFacts DEF PallocInv, PTypeOK, GotPages, Call, InPool, Locked
<1>1. /\ r = <<base[c.pool] + c.i, c.cnt>> /\ r \in Nat \X Nat
      /\ r[1] = base[c.pool] + c.i /\ r[2] = c.cnt
  BY <1>0 DEF NewPages
<1>2. /\ pal' = [pal EXCEPT ![t] = Out] /\ used' = used
      /\ runs' = runs \cup {r} /\ plock' = [plock EXCEPT ![c.pool] = NULL]
  BY DEF GotPages
<1>3. /\ Out \in Call /\ InPool(Out) /\ Transit(Out) = {} /\ Ahead(Out) = {} /\ Out.at = "out"
  BY DEF Out, Call, InPool, Transit, Ahead, Pools
<1>4. pal'[t] = Out /\ \A u \in Threads : u # t => pal'[u] = pal[u]
  BY <1>2 DEF PallocInv, PTypeOK
<1> HIDE DEF c, r
<1>5. RunPages(r) = Transit(c) /\ RunInPool(r)
  BY <1>0, <1>1 DEF RunPages, Transit, RunInPool
<1>6. PTypeOK'
  BY <1>0, <1>1, <1>2, <1>3 DEF PallocInv, PTypeOK
<1>7. \A u \in Threads : InPool(pal'[u]) /\ Locked(u)'
  BY <1>0, <1>2, <1>3, <1>4 DEF PallocInv, PTypeOK, Locked, Call, c
<1>8. AheadFree'
  BY <1>2, <1>3, <1>4 DEF PallocInv, AheadFree
<1>9. Apart'
  BY <1>2, <1>3, <1>4, <1>5 DEF PallocInv, Apart, c
<1>10. Marked'
  BY <1>2, <1>3, <1>4, <1>5 DEF PallocInv, Marked, c
<1> QED BY <1>2, <1>5, <1>6, <1>7, <1>8, <1>9, <1>10 DEF PallocInv

(* palloc_free_multiple of a run that a caller has, without the lock.       *)
LEMMA FreeInv ==
  ASSUME PallocInv, NEW t \in Threads, NEW r \in runs, palloc_free_multiple(t, r[1], r[2])
  PROVE  PallocInv'
<1> DEFINE k == IF r[1] \in PoolPages("kernel") THEN "kernel" ELSE "user"
           d == [at |-> "clear", pool |-> k, cnt |-> r[2], i |-> r[1] - base[k], j |-> 0]
<1>0. /\ r[1] \in Nat /\ r[2] \in Nat /\ r[2] > 0 /\ r = <<r[1], r[2]>>
      /\ pal[t] \in Call /\ pal[t].at = "out"
  BY DEF PallocInv, PTypeOK, RunInPool, palloc_free_multiple
<1>1. /\ pal' = [pal EXCEPT ![t] = d] /\ used' = used
      /\ runs' = runs \ {r} /\ plock' = plock
  BY <1>0 DEF palloc_free_multiple
<1>2. /\ k \in Pools /\ base[k] \in Nat /\ bit_cnt[k] \in Nat
      /\ base[k] <= r[1] /\ r[1] + r[2] <= base[k] + bit_cnt[k]
  <2>1. PICK l \in Pools : base[l] <= r[1] /\ r[1] + r[2] <= base[l] + bit_cnt[l]
    BY DEF PallocInv, RunInPool
  <2>2. CASE l = "kernel"
    <3>1. r[1] \in PoolPages("kernel")
      BY <1>0, <2>1, <2>2, PoolFacts DEF PoolPages, Pools
    <3> QED BY <2>1, <2>2, <3>1, PoolFacts DEF Pools
  <2>3. CASE l = "user"
    <3>1. r[1] \notin PoolPages("kernel")
      BY <1>0, <2>1, <2>3, PoolFacts DEF PoolPages, Pools
    <3> QED BY <2>1, <2>3, <3>1, PoolFacts DEF Pools
  <2> QED BY <2>1, <2>2, <2>3 DEF Pools
<1> HIDE DEF k
<1>3. /\ d \in Call /\ InPool(d) /\ Ahead(d) = {} /\ d.at = "clear"
      /\ d.pool = k /\ d.i = r[1] - base[k] /\ d.j = 0 /\ d.cnt = r[2]
  BY <1>0, <1>2 DEF Call, InPool, Ahead
<1> HIDE DEF d
<1>4. Transit(d) = RunPages(r)
  <2>1. Transit(d) = Run(base[k] + (r[1] - base[k]) + 0, r[2] - 0)
    BY <1>3 DEF Transit
  <2>2. base[k] + (r[1] - base[k]) + 0 = r[1] /\ r[2] - 0 = r[2]
    BY <1>0, <1>2
  <2> QED BY <2>1, <2>2 DEF RunPages
<1>5. pal'[t] = d /\ \A u \in Threads : u # t => pal'[u] = pal[u]
  BY <1>1 DEF PallocInv, PTypeOK
<1>6. Transit(pal[t]) = {}
  BY <1>0 DEF Transit
<1>7. PTypeOK'
  BY <1>1, <1>3 DEF PallocInv, PTypeOK
<1>8. \A u \in Threads : InPool(pal'[u]) /\ Locked(u)'
  BY <1>1, <1>3, <1>5 DEF PallocInv, PTypeOK, Locked
<1>9. AheadFree'
  BY <1>1, <1>3, <1>5 DEF PallocInv, AheadFree
<1>10. Apart'
  BY <1>1, <1>4, <1>5, SMTT(30) DEF PallocInv, Apart
<1>11. Marked'
  BY <1>1, <1>4, <1>5, <1>6 DEF PallocInv, Marked
<1> QED BY <1>1, <1>7, <1>8, <1>9, <1>10, <1>11 DEF PallocInv

(* Clearing a bit without the lock: it can only make pages free. *)
LEMMA ClearInv ==
  ASSUME PallocInv, NEW t \in Threads, ClearBit(t)
  PROVE  PallocInv'
<1> DEFINE c == pal[t]
           q == base[c.pool] + c.i + c.j
           d == IF c.j + 1 = c.cnt THEN Out ELSE [c EXCEPT !.j = c.j + 1]
<1>0. /\ c \in Call /\ c.at = "clear" /\ InPool(c) /\ c.pool \in Pools
      /\ c.i \in Nat /\ c.j \in Nat /\ c.cnt \in Nat /\ q \in Nat
      /\ base[c.pool] \in Nat /\ bit_cnt[c.pool] \in Nat
      /\ c.j < c.cnt /\ c.i + c.cnt <= bit_cnt[c.pool]
  BY PoolFacts DEF PallocInv, PTypeOK, ClearBit, Call, InPool
<1>1. /\ pal' = [pal EXCEPT ![t] = d] /\ used' = [used EXCEPT ![q] = FALSE]
      /\ runs' = runs /\ plock' = plock
  BY DEF ClearBit
<1>2. Transit(c) = Run(q, c.cnt - c.j)
  BY <1>0 DEF Transit
<1>3. d \in Call /\ InPool(d) /\ Ahead(d) = {} /\ d.at \notin {"scan", "mark", "unlock"}
  <2>1. CASE c.j + 1 = c.cnt
    BY <2>1 DEF Out, Call, InPool, Ahead, Pools
  <2>2. CASE c.j + 1 # c.cnt
    <3>1. d = [c EXCEPT !.j = c.j + 1]
      BY <2>2
    <3> QED BY <1>0, <2>2, <3>1 DEF Call, InPool, Ahead
  <2> QED BY <2>1, <2>2
<1>4. Transit(d) = Transit(c) \ {q}
  <2>1. CASE c.j + 1 = c.cnt
    <3>1. Transit(d) = {}
      BY <2>1 DEF Out, Transit
    <3> HIDE DEF d, c, q
    <3>2. c.cnt - c.j = 1
      BY <1>0, <2>1
    <3>3. q \in Nat
      BY <1>0
    <3>4. \A x : x \in Run(q, 1) <=> x \in Nat /\ q <= x /\ x < q + 1
      BY <3>3, InRun
    <3>5. Run(q, 1) = {q}
      BY <3>3, <3>4
    <3> QED BY <1>2, <3>1, <3>2, <3>5
  <2>2. CASE c.j + 1 # c.cnt
    <3>1. d = [c EXCEPT !.j = c.j + 1]
      BY <2>2
    <3>2. d.at = "clear" /\ d.pool = c.pool /\ d.i = c.i /\ d.j = c.j + 1 /\ d.cnt = c.cnt
      BY <1>0, <3>1 DEF Call
    <3> HIDE DEF d
    <3>3. Transit(d) = Run(base[c.pool] + c.i + (c.j + 1), c.cnt - (c.j + 1))
      BY <3>2 DEF Transit
    <3>4. /\ base[c.pool] + c.i + (c.j + 1) = q + 1
          /\ c.cnt - (c.j + 1) \in Nat /\ q + (c.cnt - c.j) = q + 1 + (c.cnt - (c.j + 1))
      BY <1>0, <2>2
    <3> DEFINE n == c.cnt - c.j
               m == c.cnt - (c.j + 1)
    <3>5. n \in Nat /\ m \in Nat /\ q + n = q + 1 + m /\ n > 0
      BY <1>0, <2>2, <3>4, SMTT(30)
    <3> HIDE DEF c, q, n, m
    <3>6. Run(q + 1, m) = Run(q, n) \ {q}
      <4>1. q \in Nat
        BY <1>0
      <4> QED BY <3>5, <4>1 DEF Run
    <3> QED BY <1>2, <3>3, <3>4, <3>6 DEF n, m
  <2> QED BY <2>1, <2>2
<1> HIDE DEF d, q
<1>5. pal'[t] = d /\ \A u \in Threads : u # t => pal'[u] = pal[u]
  BY <1>1 DEF PallocInv, PTypeOK
<1> HIDE DEF c
<1>6. q \in Transit(c)
  <2>1. c.cnt - c.j \in Nat /\ c.cnt - c.j > 0
    BY <1>0
  <2> QED BY <1>0, <1>2, <2>1, InRun
<1>7. /\ \A r \in runs : q \notin RunPages(r)
      /\ \A u \in Threads : u # t => q \notin Transit(pal[u])
  BY <1>6 DEF PallocInv, Apart, c
<1>8. PTypeOK'
  BY <1>1, <1>3 DEF PallocInv, PTypeOK
<1>9. \A u \in Threads : InPool(pal'[u]) /\ Locked(u)'
  BY <1>1, <1>3, <1>5 DEF PallocInv, Locked
<1>10. AheadFree'
  BY <1>1, <1>3, <1>5 DEF PallocInv, AheadFree, PTypeOK
<1>11. Apart'
  BY <1>1, <1>4, <1>5 DEF PallocInv, Apart, c
<1>12. Marked'
  <2> SUFFICES ASSUME NEW p \in Pages
               PROVE  used'[p] <=> \/ \E r \in runs : p \in RunPages(r)
                                   \/ \E u \in Threads : p \in Transit(pal'[u])
    BY <1>1 DEF Marked
  <2>1. CASE p = q
    <3>1. ~ used'[p]
      BY <1>1, <2>1 DEF PallocInv, PTypeOK
    <3>2. \A u \in Threads : p \notin Transit(pal'[u])
      BY <1>4, <1>5, <1>7, <2>1
    <3> QED BY <1>7, <2>1, <3>1, <3>2
  <2>2. CASE p # q
    <3>1. used'[p] = used[p]
      BY <1>1, <2>2 DEF PallocInv, PTypeOK
    <3>2. \A u \in Threads : p \in Transit(pal'[u]) <=> p \in Transit(pal[u])
      BY <1>4, <1>5, <2>2 DEF c
    <3> QED BY <3>1, <3>2 DEF PallocInv, Marked
  <2> QED BY <2>1, <2>2
<1> QED BY <1>1, <1>8, <1>9, <1>10, <1>11, <1>12 DEF PallocInv

(* Every step of the allocator keeps the invariant.                         *)
LEMMA NextInv == PallocInv /\ [PallocNext]_pvars => PallocInv'
<1> SUFFICES ASSUME PallocInv, [PallocNext]_pvars PROVE PallocInv'
  OBVIOUS
<1>1. ASSUME NEW t \in Threads, NEW k \in Pools, NEW cnt \in 1..FREE_PAGES,
             palloc_get_multiple(t, k, cnt)
      PROVE  PallocInv'
  <2>1. cnt \in Nat
    BY PallocAssumption
  <2> QED BY <1>1, <2>1, GetInv
<1>2. ASSUME NEW t \in Threads, NEW r \in runs, palloc_free_multiple(t, r[1], r[2])
      PROVE  PallocInv'
  BY <1>2, FreeInv
<1>3. ASSUME NEW t \in Threads, PallocStep(t) PROVE PallocInv'
  BY <1>3, LockInv, ScanInv, NoPagesInv, MarkInv, GotInv, ClearInv DEF PallocStep
<1>4. CASE UNCHANGED pvars
  BY <1>4 DEF pvars, PallocInv, PTypeOK, Locked, AheadFree, Apart, Marked
<1> QED BY <1>1, <1>2, <1>3, <1>4 DEF PallocNext

(* No page has two owners and none is lost, however allocations, which hold *)
(* the lock of their pool, and frees, which hold none, interleave           *)
(* (palloc.c:63-150).                                                       *)
THEOREM PallocCorrect == PallocSpec => []PagesOK
<1>1. PInit => PallocInv
  BY InitInv
<1>2. PallocInv /\ [PallocNext]_pvars => PallocInv'
  BY NextInv
<1>3. PallocInv => PagesOK
  BY InvPagesOK
<1> QED BY <1>1, <1>2, <1>3, PTL DEF PallocSpec

-----------------------------------------------------------------------------
(* The same for malloc and free, whose steps call the page allocator in     *)
(* these actions or leave it alone.                                         *)
LEMMA DivRoundUpNat ==
  ASSUME NEW x \in Nat, NEW y \in Nat \ {0}
  PROVE  DivRoundUp(x, y) \in Nat
<1>1. x + y - 1 \in Nat
  OBVIOUS
<1> DEFINE z == x + y - 1
<1> HIDE DEF z
<1>2. z \in Nat => z \div y \in Nat
  OBVIOUS
<1> QED BY <1>1, <1>2 DEF DivRoundUp, z

(* palloc_free_multiple as malloc calls it.                                 *)
LEMMA FreeCallInv ==
  ASSUME PallocInv, NEW t \in Threads, NEW p, NEW cnt, palloc_free_multiple(t, p, cnt)
  PROVE  PallocInv'
<1> DEFINE r == <<p, cnt>>
<1>1. r \in runs /\ r[1] = p /\ r[2] = cnt
  BY DEF palloc_free_multiple
<1>2. palloc_free_multiple(t, r[1], r[2])
  BY <1>1
<1> HIDE DEF r
<1> QED BY <1>1, <1>2, FreeInv

USE Zenon

(* A step that leaves the allocator of pages alone.                         *)
LEMMA StutterInv == PallocInv /\ UNCHANGED pvars => PallocInv'
BY DEF pvars, PallocInv, PTypeOK, Locked, AheadFree, Apart, Marked

(* Every step of malloc keeps the invariant of the pages it takes and gives *)
(* back.                                                                    *)
LEMMA MallocNextInv == PallocInv /\ [Next]_vars => PallocInv'
<1> SUFFICES ASSUME PallocInv, [Next]_vars PROVE PallocInv'
  OBVIOUS
<1>1. ASSUME NEW t \in Threads, NEW fn, NEW size \in Sizes, NEW old, CallMalloc(t, fn, size, old)
      PROVE  PallocInv'
  <2>1. DivRoundUp(size + ARENA_SIZE, PGSIZE) \in Nat
    <3>1. size + ARENA_SIZE \in Nat
      BY SMT, MallocAssumption
    <3> QED BY <3>1, PallocAssumption, DivRoundUpNat
  <2>2. "kernel" \in Pools
    BY DEF Pools
  <2>3. \/ UNCHANGED pvars
        \/ palloc_get_multiple(t, "kernel", DivRoundUp(size + ARENA_SIZE, PGSIZE))
    BY <1>1 DEF CallMalloc
  <2> QED BY <2>1, <2>2, <2>3, GetInv, StutterInv
<1>2. ASSUME NEW t \in Threads, NEW b, CallFree(t, b) PROVE PallocInv'
  BY <1>2, StutterInv DEF CallFree
<1>3. ASSUME NEW t \in Threads, Step(t) PROVE PallocInv'
  <2>1. CASE AcquireDesc(t)
    <3>1. UNCHANGED pvars \/ palloc_get_multiple(t, "kernel", 1)
      BY <2>1 DEF AcquireDesc
    <3> QED BY <3>1, GetInv, StutterInv DEF Pools
  <2>2. CASE NewArena(t) \/ BigBlock(t)
    BY <2>2, GotInv DEF NewArena, BigBlock
  <2>3. CASE NoArena(t) \/ NoBig(t)
    BY <2>3, NoPagesInv DEF NoArena, NoBig
  <2>4. CASE InPalloc(t)
    BY <2>4, LockInv, ScanInv, MarkInv, ClearInv DEF InPalloc
  <2>5. CASE Finish(t) \/ Use(t)
    BY <2>5, StutterInv DEF Finish, Use
  <2>6. CASE FreeBlock(t)
    <3>1. UNCHANGED pvars \/ \E p, cnt : palloc_free_multiple(t, p, cnt)
      BY <2>6 DEF FreeBlock
    <3> QED BY <3>1, FreeCallInv, StutterInv
  <2>7. CASE FreeToList(t)
    <3>1. UNCHANGED pvars \/ \E p, cnt : palloc_free_multiple(t, p, cnt)
      BY <2>7 DEF FreeToList
    <3> QED BY <3>1, FreeCallInv, StutterInv
  <2>8. CASE PagesFreed(t)
    BY <2>8, ClearInv DEF PagesFreed
  <2> QED BY <1>3, <2>1, <2>2, <2>3, <2>4, <2>5, <2>6, <2>7, <2>8 DEF Step
<1>4. CASE UNCHANGED vars
  BY <1>4, StutterInv DEF vars
<1> QED BY <1>1, <1>2, <1>3, <1>4 DEF Next

(* malloc, calloc, realloc and free keep the pages of the kernel pool       *)
(* apart: PagesOK as the run of PintosMalloc checks it (malloc.c:86-253).   *)
THEOREM MallocPages == Spec => []PagesOK
<1>1. Init => PallocInv
  BY InitInv DEF Init
<1>2. PallocInv /\ [Next]_vars => PallocInv'
  BY MallocNextInv
<1>3. PallocInv => PagesOK
  BY InvPagesOK
<1> QED BY <1>1, <1>2, <1>3, PTL DEF Spec
=============================================================================
