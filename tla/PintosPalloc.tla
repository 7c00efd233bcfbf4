----------------------------- MODULE PintosPalloc -----------------------------
(***************************************************************************)
(* The page allocator of Pintos (palloc.c) and the bitmap it searches       *)
(* (bitmap.c).  An allocation holds the lock of its pool; freeing takes no  *)
(* lock, so it runs between the tests and the sets of single bits of an     *)
(* allocation.  Pages are numbered from the first free one on.              *)
(***************************************************************************)
EXTENDS Naturals

CONSTANTS
  Threads, NULL,
  FREE_PAGES,          \* pages from 1 MB to the end of RAM
  USER_PAGE_LIMIT,     \* user_page_limit
  PGSIZE,              \* bytes in a page
  BITMAP_SIZE,         \* sizeof(struct bitmap)
  ELEM_SIZE, ELEM_BITS \* bytes and bits in an elem_type

VARIABLES
  used,    \* used[p]: the bit of page p in its pool's used_map
  plock,   \* plock[k]: the holder of the lock of pool k, or NULL
  pal,     \* pal[t]: where thread t is in palloc
  runs     \* the runs of pages <<first, count>> that callers have

pvars == <<used, plock, pal, runs>>

-----------------------------------------------------------------------------
(* palloc_init and init_pool: each pool starts with the pages of its bitmap. *)
DivRoundUp(x, step) == (x + step - 1) \div step

bitmap_buf_size(bit_cnt) == BITMAP_SIZE + ELEM_SIZE * DivRoundUp(bit_cnt, ELEM_BITS)
BmPages(page_cnt) == DivRoundUp(bitmap_buf_size(page_cnt), PGSIZE)

Pools == {"kernel", "user"}
user_pages ==
  IF FREE_PAGES \div 2 > USER_PAGE_LIMIT THEN USER_PAGE_LIMIT ELSE FREE_PAGES \div 2
kernel_pages == FREE_PAGES - user_pages

base == [k \in Pools |-> IF k = "kernel" THEN BmPages(kernel_pages)
                         ELSE kernel_pages + BmPages(user_pages)]
bit_cnt == [k \in Pools |-> IF k = "kernel" THEN kernel_pages - BmPages(kernel_pages)
                            ELSE user_pages - BmPages(user_pages)]

(* What the code panics without (init_pool): room for the bitmaps. *)
ASSUME PallocAssumption ==
  /\ NULL \notin Threads
  /\ FREE_PAGES \in Nat /\ USER_PAGE_LIMIT \in Nat
  /\ PGSIZE \in Nat \ {0} /\ ELEM_BITS \in Nat \ {0}
  /\ BITMAP_SIZE \in Nat /\ ELEM_SIZE \in Nat
  /\ BmPages(kernel_pages) \in Nat /\ BmPages(kernel_pages) <= kernel_pages
  /\ BmPages(user_pages) \in Nat /\ BmPages(user_pages) <= user_pages

PoolPages(k) == base[k]..base[k] + bit_cnt[k] - 1
Pages == PoolPages("kernel") \cup PoolPages("user")

Run(p, cnt) == p..p + cnt - 1

Out == [at |-> "out", pool |-> "kernel", cnt |-> 0, i |-> 0, j |-> 0]

PInit ==
  /\ used = [p \in Pages |-> FALSE]
  /\ plock = [k \in Pools |-> NULL]
  /\ pal = [t \in Threads |-> Out]
  /\ runs = {}

-----------------------------------------------------------------------------
(* palloc_get_multiple.  A call for no pages returns at once. *)
palloc_get_multiple(t, k, cnt) ==
  /\ pal[t].at = "out"
  /\ cnt > 0
  /\ pal' = [pal EXCEPT ![t] = [at |-> "lock", pool |-> k, cnt |-> cnt, i |-> 0, j |-> 0]]
  /\ UNCHANGED <<used, plock, runs>>

(* Faulty variant: the pool is searched without its lock. *)
LockNothing(t) ==
  /\ pal[t].at = "lock"
  /\ pal' = [pal EXCEPT ![t].at = "scan"]
  /\ UNCHANGED <<used, plock, runs>>

LockPool(t) ==
  /\ pal[t].at = "lock"
  /\ plock[pal[t].pool] = NULL
  /\ plock' = [plock EXCEPT ![pal[t].pool] = t]
  /\ pal' = [pal EXCEPT ![t].at = "scan"]
  /\ UNCHANGED <<used, runs>>

(* One bit of bitmap_scan: bit i + j is tested.  A used one moves the       *)
(* search to the next place, cnt free ones end it.                          *)
ScanBit(t) ==
  LET c == pal[t]
  IN  /\ c.at = "scan"
      /\ c.i + c.cnt <= bit_cnt[c.pool]
      /\ pal' = [pal EXCEPT ![t] =
           IF used[base[c.pool] + c.i + c.j] THEN [c EXCEPT !.i = c.i + 1, !.j = 0]
           ELSE IF c.j + 1 = c.cnt THEN [c EXCEPT !.at = "mark", !.j = 0]
           ELSE [c EXCEPT !.j = c.j + 1]]
      /\ UNCHANGED <<used, plock, runs>>

(* BITMAP_ERROR: the lock is released and the call returns a null pointer. *)
NoPages(t) ==
  LET c == pal[t]
  IN  /\ c.at = "scan"
      /\ c.i + c.cnt > bit_cnt[c.pool]
      /\ plock' = [plock EXCEPT ![c.pool] = NULL]
      /\ pal' = [pal EXCEPT ![t] = Out]
      /\ UNCHANGED <<used, runs>>

(* One bit of bitmap_set_multiple. *)
MarkBit(t) ==
  LET c == pal[t]
  IN  /\ c.at = "mark"
      /\ used' = [used EXCEPT ![base[c.pool] + c.i + c.j] = TRUE]
      /\ pal' = [pal EXCEPT ![t] =
           IF c.j + 1 = c.cnt THEN [c EXCEPT !.at = "unlock"] ELSE [c EXCEPT !.j = c.j + 1]]
      /\ UNCHANGED <<plock, runs>>

(* The lock is released and the call returns the pages. *)
NewPages(t) == <<base[pal[t].pool] + pal[t].i, pal[t].cnt>>

GotPages(t) ==
  /\ pal[t].at = "unlock"
  /\ plock' = [plock EXCEPT ![pal[t].pool] = NULL]
  /\ pal' = [pal EXCEPT ![t] = Out]
  /\ runs' = runs \cup {NewPages(t)}
  /\ UNCHANGED used

(* palloc_free_multiple, of pages that palloc_get_multiple returned; the    *)
(* pool is found from the address (page_from_pool).                         *)
palloc_free_multiple(t, p, cnt) ==
  /\ pal[t].at = "out"
  /\ <<p, cnt>> \in runs
  /\ runs' = runs \ {<<p, cnt>>}
  /\ LET k == IF p \in PoolPages("kernel") THEN "kernel" ELSE "user"
     IN  pal' = [pal EXCEPT ![t] =
                  [at |-> "clear", pool |-> k, cnt |-> cnt, i |-> p - base[k], j |-> 0]]
  /\ UNCHANGED <<used, plock>>

ClearBit(t) ==
  LET c == pal[t]
  IN  /\ c.at = "clear"
      /\ used' = [used EXCEPT ![base[c.pool] + c.i + c.j] = FALSE]
      /\ pal' = [pal EXCEPT ![t] =
           IF c.j + 1 = c.cnt THEN Out ELSE [c EXCEPT !.j = c.j + 1]]
      /\ UNCHANGED <<plock, runs>>

PallocStep(t) ==
  \/ LockPool(t) \/ ScanBit(t) \/ NoPages(t) \/ MarkBit(t) \/ GotPages(t) \/ ClearBit(t)

PallocNext ==
  \E t \in Threads :
    \/ \E k \in Pools, cnt \in 1..FREE_PAGES : palloc_get_multiple(t, k, cnt)
    \/ \E r \in runs : palloc_free_multiple(t, r[1], r[2])
    \/ PallocStep(t)

PallocSpec == PInit /\ [][PallocNext]_pvars

-----------------------------------------------------------------------------
(* The pages that a call has marked and not yet returned, or that it has    *)
(* been given back and has not yet cleared.                                 *)
Transit(c) ==
  LET first == base[c.pool] + c.i
  IN  IF c.at = "mark" THEN Run(first, c.j)
      ELSE IF c.at = "unlock" THEN Run(first, c.cnt)
      ELSE IF c.at = "clear" THEN Run(first + c.j, c.cnt - c.j)
      ELSE {}

RunPages(r) == Run(r[1], r[2])

(* No page is given to two callers and none is lost, although pages are     *)
(* freed without the lock while another thread searches the bitmap          *)
(* (palloc.c:83-85, 145-146): the marked pages are those of the runs that   *)
(* callers have and of the calls in progress, each in one of them.  So the  *)
(* assertion in palloc_free_multiple that its pages are marked holds.       *)
PagesOK ==
  /\ \A r, s \in runs : r # s => RunPages(r) \cap RunPages(s) = {}
  /\ \A t \in Threads, r \in runs : Transit(pal[t]) \cap RunPages(r) = {}
  /\ \A t, u \in Threads : t # u => Transit(pal[t]) \cap Transit(pal[u]) = {}
  /\ \A p \in Pages :
       used[p] <=> \/ \E r \in runs : p \in RunPages(r)
                   \/ \E t \in Threads : p \in Transit(pal[t])
=============================================================================
