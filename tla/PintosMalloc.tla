----------------------------- MODULE PintosMalloc -----------------------------
(***************************************************************************)
(* malloc, calloc, realloc and free (malloc.c) on top of the page           *)
(* allocator.  The headers of arenas and the links of free blocks are in    *)
(* the memory that is handed out, so the model has that memory, cell by     *)
(* cell.  A lock is what Mutex says of it.                                  *)
(***************************************************************************)
EXTENDS PintosPalloc, Sequences, FiniteSets

CONSTANTS
  ARENA_SIZE,   \* sizeof(struct arena)
  MIN_BLOCK,    \* the smallest block_size (16)
  Sizes,        \* the sizes that callers ask for
  MaxHeld       \* the number of blocks a caller keeps

ASSUME MallocAssumption ==
  /\ ARENA_SIZE \in Nat \ {0} /\ ARENA_SIZE < PGSIZE
  /\ MIN_BLOCK \in Nat \ {0}
  /\ Sizes \subseteq Nat \ {0}
  /\ MaxHeld \in Nat

VARIABLES
  mem,         \* mem[x]: what the cell at address x holds
  free_list,   \* free_list[d]: the addresses of the free blocks of descriptor d
  dlock,       \* dlock[d]: the holder of the lock of d, or NULL
  pc, reg,     \* where each thread is in the library, and its arguments
  blocks       \* blocks[t]: the blocks that thread t has

mvars == <<mem, free_list, dlock, pc, reg, blocks>>
vars == <<pvars, mvars>>

(* malloc_init: a descriptor for each power of two; it is named by its      *)
(* block_size.                                                              *)
descs == {d \in 1..PGSIZE : d < PGSIZE \div 2 /\ \E n \in 0..PGSIZE : d = MIN_BLOCK * 2^n}
blocks_per_arena(d) == (PGSIZE - ARENA_SIZE) \div d

(* The smallest descriptor for a request, or 0 if there is none. *)
DescFor(size) ==
  LET fit == {d \in descs : d >= size}
  IN  IF fit = {} THEN 0 ELSE CHOOSE d \in fit : \A e \in fit : d <= e

Page(x) == x \div PGSIZE
PgOfs(x) == x % PGSIZE
Addr(p) == p * PGSIZE
Cells == Addr(base["kernel"])..Addr(base["kernel"] + bit_cnt["kernel"]) - 1

Cc == <<"cc">>
Zero == <<"zero">>
Elem == <<"elem">>
Arena(d, n) == <<"arena", d, n>>

(* block_to_arena: the header of the page; arena_to_block: block idx of it. *)
HeaderOf(b) == mem[Addr(Page(b))]
DescOf(b) == HeaderOf(b)[2]
FreeCnt(b) == HeaderOf(b)[3]
arena_to_block(p, d, idx) == Addr(p) + ARENA_SIZE + idx * d
ArenaBlocks(p, d) == [n \in 1..blocks_per_arena(d) |-> arena_to_block(p, d, n - 1)]

Fill(m, x, size, v) == [y \in DOMAIN m |-> IF y >= x /\ y < x + size THEN v ELSE m[y]]

NoCall == [fn |-> "none", size |-> 0, old |-> NULL, new |-> NULL]

Init ==
  /\ PInit
  /\ mem = [x \in Cells |-> Zero]
  /\ free_list = [d \in descs |-> << >>]
  /\ dlock = [d \in descs |-> NULL]
  /\ pc = [t \in Threads |-> "idle"]
  /\ reg = [t \in Threads |-> NoCall]
  /\ blocks = [t \in Threads |-> {}]

Goto(t, l) == pc' = [pc EXCEPT ![t] = l]

-----------------------------------------------------------------------------
(* malloc, up to the lock of the descriptor or to the page allocator, for a *)
(* call of malloc, calloc or realloc.  A size of 0 returns a null pointer,  *)
(* and realloc to size 0 is free.                                           *)
CallMalloc(t, fn, size, old) ==
  /\ pc[t] = "idle"
  /\ old \in blocks[t] \cup {NULL}
  /\ fn # "realloc" => old = NULL
  /\ Cardinality(blocks[t] \ {old}) < MaxHeld
  /\ reg' = [reg EXCEPT ![t] = [fn |-> fn, size |-> size, old |-> old, new |-> NULL]]
  /\ blocks' = [blocks EXCEPT ![t] = @ \ {old}]
  /\ \/ DescFor(size) # 0 /\ Goto(t, "acquire") /\ UNCHANGED pvars
     \/ /\ DescFor(size) = 0
        /\ palloc_get_multiple(t, "kernel", DivRoundUp(size + ARENA_SIZE, PGSIZE))
        /\ Goto(t, "big")
  /\ UNCHANGED <<mem, free_list, dlock>>

Returns(t, b) ==
  /\ reg' = [reg EXCEPT ![t].new = b]
  /\ Goto(t, "ret")

(* A null pointer: the block that was to be resized stays. *)
ReturnsNull(t) ==
  /\ blocks' = [blocks EXCEPT ![t] = @ \cup ({reg[t].old} \ {NULL})]
  /\ reg' = [reg EXCEPT ![t] = NoCall]
  /\ Goto(t, "idle")

(* Faulty variant: free_cnt is left as it is. *)
TakeUncounted(t, m, list) ==
  LET b == Head(list)
      d == DescFor(reg[t].size)
  IN  /\ mem' = m
      /\ free_list' = [free_list EXCEPT ![d] = Tail(list)]
      /\ Returns(t, b)

(* The descriptor's first free block, taken while its lock is held. *)
TakeBlock(t, m, list) ==
  LET b == Head(list)
      a == Addr(Page(b))
      d == DescFor(reg[t].size)
  IN  /\ mem' = [m EXCEPT ![a] = Arena(m[a][2], m[a][3] - 1)]
      /\ free_list' = [free_list EXCEPT ![d] = Tail(list)]
      /\ Returns(t, b)

(* lock_acquire: a free block is taken at once, without one a page is asked *)
(* for and the lock is kept.                                                *)
AcquireDesc(t) ==
  LET d == DescFor(reg[t].size)
  IN  /\ pc[t] = "acquire"
      /\ dlock[d] = NULL
      /\ \/ /\ free_list[d] # << >>
            /\ TakeBlock(t, mem, free_list[d])
            /\ UNCHANGED <<pvars, dlock>>
         \/ /\ free_list[d] = << >>
            /\ dlock' = [dlock EXCEPT ![d] = t]
            /\ palloc_get_multiple(t, "kernel", 1)
            /\ Goto(t, "page")
            /\ UNCHANGED <<mem, free_list, reg>>
      /\ UNCHANGED blocks

(* The new arena: its blocks go to the end of the free list. *)
NewArena(t) ==
  LET d == DescFor(reg[t].size)
      p == NewPages(t)[1]
      new == ArenaBlocks(p, d)
      linked == [x \in Cells |->
                   IF x = Addr(p) THEN Arena(d, blocks_per_arena(d))
                   ELSE IF x \in {new[n] : n \in DOMAIN new} THEN Elem ELSE mem[x]]
  IN  /\ pc[t] = "page"
      /\ GotPages(t)
      /\ TakeBlock(t, linked, free_list[d] \o new)
      /\ dlock' = [dlock EXCEPT ![d] = NULL]
      /\ UNCHANGED blocks

(* Faulty variant: the call starts again until a page is free. *)
RetryArena(t) ==
  /\ pc[t] = "page"
  /\ NoPages(t)
  /\ dlock' = [dlock EXCEPT ![DescFor(reg[t].size)] = NULL]
  /\ Goto(t, "acquire")
  /\ UNCHANGED <<mem, free_list, reg, blocks>>

NoArena(t) ==
  /\ pc[t] = "page"
  /\ NoPages(t)
  /\ dlock' = [dlock EXCEPT ![DescFor(reg[t].size)] = NULL]
  /\ ReturnsNull(t)
  /\ UNCHANGED <<mem, free_list>>

(* A big block: its arena has no descriptor and counts pages. *)
BigBlock(t) ==
  LET a == Addr(NewPages(t)[1])
  IN  /\ pc[t] = "big"
      /\ GotPages(t)
      /\ mem' = [mem EXCEPT ![a] = Arena(0, NewPages(t)[2])]
      /\ Returns(t, a + ARENA_SIZE)
      /\ UNCHANGED <<free_list, dlock, blocks>>

NoBig(t) ==
  /\ pc[t] = "big"
  /\ NoPages(t)
  /\ ReturnsNull(t)
  /\ UNCHANGED <<mem, free_list, dlock>>

InPalloc(t) ==
  /\ pc[t] \in {"page", "big", "free_page", "free_big"}
  /\ \/ LockPool(t) \/ ScanBit(t) \/ MarkBit(t)
     \/ pal[t].j + 1 < pal[t].cnt /\ ClearBit(t)
  /\ UNCHANGED mvars

-----------------------------------------------------------------------------
block_size(b) ==
  IF DescOf(b) # 0 THEN DescOf(b) ELSE PGSIZE * FreeCnt(b) - PgOfs(b)

Least(a, b) == IF a < b THEN a ELSE b

(* memcpy of what realloc keeps; faulty variant: nothing is. *)
CopyNothing(m, new, old, size) == m
Copy(m, new, old, size) ==
  [x \in DOMAIN m |-> IF x >= new /\ x < new + size THEN m[x - new + old] ELSE m[x]]

(* malloc has returned a block: calloc clears it, realloc moves the         *)
(* contents of the old block and frees that.                                *)
Finish(t) ==
  LET r == reg[t]
  IN  /\ pc[t] = "ret"
      /\ mem' = CASE r.fn = "calloc" -> Fill(mem, r.new, r.size, Zero)
                  [] r.old # NULL -> Copy(mem, r.new, r.old.at, Least(r.size, block_size(r.old.at)))
                  [] OTHER -> mem
      /\ Goto(t, IF r.old = NULL THEN "use" ELSE "free")
      /\ UNCHANGED <<pvars, free_list, dlock, reg, blocks>>

(* The caller writes to its block, except to what realloc has moved. *)
Data(t) == <<"data", t>>
Use(t) ==
  LET r == reg[t]
      kept == IF r.old = NULL THEN 0 ELSE Least(r.size, r.old.size)
  IN  /\ pc[t] = "use"
      /\ mem' = Fill(mem, r.new + kept, r.size - kept, Data(t))
      /\ blocks' = [blocks EXCEPT ![t] = @ \cup {[at |-> r.new, size |-> r.size]}]
      /\ reg' = [reg EXCEPT ![t] = NoCall]
      /\ Goto(t, "idle")
      /\ UNCHANGED <<pvars, free_list, dlock>>

-----------------------------------------------------------------------------
CallFree(t, b) ==
  /\ pc[t] = "idle"
  /\ b \in blocks[t]
  /\ blocks' = [blocks EXCEPT ![t] = @ \ {b}]
  /\ reg' = [reg EXCEPT ![t] = [fn |-> "free", size |-> 0, old |-> b, new |-> NULL]]
  /\ Goto(t, "free")
  /\ UNCHANGED <<pvars, mem, free_list, dlock>>

(* free reads the arena and wipes the block without a lock; the pages of a  *)
(* big block go back at once.                                               *)
FreeBlock(t) ==
  LET b == reg[t].old.at
  IN  /\ pc[t] = "free"
      /\ \/ /\ DescOf(b) # 0
            /\ mem' = Fill(mem, b, DescOf(b), Cc)
            /\ Goto(t, "free_acquire")
            /\ UNCHANGED pvars
         \/ /\ DescOf(b) = 0
            /\ mem' = Fill(mem, Addr(Page(b)), PGSIZE * FreeCnt(b), Cc)
            /\ palloc_free_multiple(t, Page(b), FreeCnt(b))
            /\ Goto(t, "free_big")
      /\ UNCHANGED <<free_list, dlock, reg, blocks>>

FreeReturns(t) ==
  /\ Goto(t, IF reg[t].fn = "realloc" THEN "use" ELSE "idle")
  /\ reg' = [reg EXCEPT ![t] = IF reg[t].fn = "realloc" THEN @ ELSE NoCall]

(* The block joins the free list; the last one of an arena takes the arena  *)
(* away from it.                                                            *)
FreeToList(t) ==
  LET b == reg[t].old.at
      d == DescOf(b)
      a == Addr(Page(b))
      list == <<b>> \o free_list[d]
  IN  /\ pc[t] = "free_acquire"
      /\ dlock[d] = NULL
      /\ \/ /\ FreeCnt(b) + 1 < blocks_per_arena(d)
            /\ mem' = [mem EXCEPT ![b] = Elem, ![a] = Arena(d, FreeCnt(b) + 1)]
            /\ free_list' = [free_list EXCEPT ![d] = list]
            /\ FreeReturns(t)
            /\ UNCHANGED <<pvars, dlock>>
         \/ /\ FreeCnt(b) + 1 >= blocks_per_arena(d)
            /\ free_list' = [free_list EXCEPT ![d] =
                 SelectSeq(list, LAMBDA x : Page(x) # Page(b))]
            /\ mem' = Fill(mem, a, PGSIZE, Cc)
            /\ palloc_free_multiple(t, Page(b), 1)
            /\ dlock' = [dlock EXCEPT ![d] = t]
            /\ Goto(t, "free_page")
            /\ UNCHANGED reg
      /\ UNCHANGED blocks

(* palloc_free_multiple returns. *)
PagesFreed(t) ==
  /\ pc[t] \in {"free_page", "free_big"}
  /\ pal[t].j + 1 = pal[t].cnt
  /\ ClearBit(t)
  /\ dlock' = [d \in descs |-> IF dlock[d] = t THEN NULL ELSE dlock[d]]
  /\ FreeReturns(t)
  /\ UNCHANGED <<mem, free_list, blocks>>

-----------------------------------------------------------------------------
(* What a thread does once it is in the library. *)
Step(t) ==
  \/ AcquireDesc(t) \/ NewArena(t) \/ NoArena(t) \/ BigBlock(t) \/ NoBig(t)
  \/ InPalloc(t) \/ Finish(t) \/ Use(t)
  \/ FreeBlock(t) \/ FreeToList(t) \/ PagesFreed(t)

Next ==
  \E t \in Threads :
    \/ \E size \in Sizes :
         \/ CallMalloc(t, "malloc", size, NULL)
         \/ CallMalloc(t, "calloc", size, NULL)
         \/ \E old \in blocks[t] : CallMalloc(t, "realloc", size, old)
    \/ \E b \in blocks[t] : CallFree(t, b)
    \/ Step(t)

Spec == Init /\ [][Next]_vars

(* A thread in the library goes on.  A lock that stays free is acquired,    *)
(* but one that is released may go to a thread that comes later than a      *)
(* waiter: a woken thread tests the semaphore again (synch.c:70).           *)
FairSpec == Spec /\ \A t \in Threads : WF_vars(Step(t))

-----------------------------------------------------------------------------
Block == [at : Cells, size : Sizes]

TypeOK ==
  /\ used \in [Pages -> BOOLEAN]
  /\ plock \in [Pools -> Threads \cup {NULL}] /\ dlock \in [descs -> Threads \cup {NULL}]
  /\ \A d \in descs :
       free_list[d] \in Seq({x \in Cells : PgOfs(x) >= ARENA_SIZE /\ PgOfs(x) + d <= PGSIZE})
  /\ \A t \in Threads : blocks[t] \subseteq Block /\ Cardinality(blocks[t]) <= MaxHeld

(* The blocks in callers' hands or in those of a call for them. *)
Held == UNION {blocks[t] : t \in Threads}
        \cup {reg[t].old : t \in {u \in Threads : reg[u].old # NULL
                                                  /\ pc[u] \in {"acquire", "page", "big", "ret", "free", "free_acquire"}}}
        \cup {[at |-> reg[t].new, size |-> reg[t].size] : t \in {u \in Threads : reg[u].new # NULL}}

Region(b) == b.at..b.at + b.size - 1
FreeBlocks == UNION {{free_list[d][n] : n \in DOMAIN free_list[d]} : d \in descs}

(* Memory is what its users wrote: a caller's block holds the caller's data *)
(* until it is freed, also when realloc moves it or fails (malloc.c:193 *)
(* 213); calloc's is cleared; blocks are apart from each other and from the *)
(* free blocks, whose links are intact, and lie inside their arenas.        *)
Intact ==
  /\ TypeOK
  /\ \A t \in Threads, b \in Held : b \in blocks[t] => \A x \in Region(b) : mem[x] = Data(t)
  /\ \A t \in Threads : pc[t] = "use" /\ reg[t].fn = "calloc" =>
       \A n \in 0..reg[t].size - 1 : mem[reg[t].new + n] = Zero
  /\ \A b, c \in Held : b # c => Region(b) \cap Region(c) = {}
  /\ \A x \in FreeBlocks : mem[x] = Elem /\ \A b \in Held : x \notin Region(b)
  /\ \A b \in Held : /\ HeaderOf(b.at)[1] = "arena"
                     /\ b.size <= block_size(b.at)
                     /\ PgOfs(b.at) >= ARENA_SIZE

BlocksIn(p) == {b \in Held : Page(b.at) = p}
FreeIn(p) == {x \in FreeBlocks : Page(x) = p}

(* free_cnt is the number of the arena's blocks on the free list, so an     *)
(* arena goes back when, and only when, its last block is freed (the        *)
(* assertion in free, malloc.c:238), and every page that malloc got belongs *)
(* to a block somebody still has: nothing leaks when allocations fail.      *)
ArenasOK ==
  \A r \in runs :
    LET h == mem[Addr(r[1])]
        d == h[2]
    IN  r[1] \in PoolPages("kernel") =>
          /\ h[1] = "arena"
          /\ IF d = 0 THEN h[3] = r[2] /\ Cardinality(BlocksIn(r[1])) = 1
             ELSE /\ h[3] = Cardinality(FreeIn(r[1]))
                  /\ h[3] + Cardinality(BlocksIn(r[1])) = blocks_per_arena(d)
                  /\ h[3] < blocks_per_arena(d)

Begins(t) == pc[t] = "idle" /\ pc'[t] # "idle"

(* Every call returns, unless other threads begin new calls for ever and    *)
(* take the lock each time: no lock is kept on an error path                *)
(* (malloc.c:129-133), and the locks of descriptors and pools are taken in  *)
(* one order.                                                               *)
CallsReturn ==
  \A t \in Threads :
    \/ pc[t] # "idle" ~> pc[t] = "idle"
    \/ \E u \in Threads \ {t} : []<><<Begins(u)>>_vars
=============================================================================
