---------------------------- MODULE PintosPagedir ----------------------------
(***************************************************************************)
(* Page directories and page tables in memory (pagedir.c, pte.h), the       *)
(* processor that walks them (CR3 and the TLB), and the pages they are      *)
(* made of.  palloc is what PintosPalloc shows it to be: a page that nobody *)
(* has, as long as there is one.  Which one does not matter as long as      *)
(* nothing refers to a page that is free, and PagesOwned, ActiveDirectory   *)
(* and TlbCoherent say that nothing does.  So a page is named by the thread *)
(* that got it and a number: states that differ by the places of pages in   *)
(* the pool are one state.                                                  *)
(***************************************************************************)
EXTENDS Naturals, FiniteSets

CONSTANTS
  Procs,                      \* the threads of processes
  NULL,
  init_page_dir,              \* the page directory of the kernel
  KERNEL_PAGES, USER_PAGES,   \* the pages of the two pools
  PGSIZE,                     \* bytes in a page
  PTES,                       \* entries of a page table
  USER_PDES                   \* pd_no(PHYS_BASE): entries for user addresses

VARIABLES
  mem,    \* mem[f]: what page f holds; a free page is filled with 0xcc
  cr3,    \* the active page directory
  tlb     \* the translations the processor has cached, all of them of cr3

mmu == <<cr3, tlb>>

KernelPages == Procs \X {"kernel"} \X (1..KERNEL_PAGES)
UserPages == Procs \X {"user"} \X (1..USER_PAGES)
PageFrames == KernelPages \cup UserPages
VPages == 0..USER_PDES * PTES - 1     \* virtual pages below PHYS_BASE

Cc == [kind |-> "cc"]
used == {f \in PageFrames : mem[f].kind # "cc"}

(* palloc_get_page for thread p: NULL if the pool has no page left. *)
GetPage(p, pool) ==
  LET size == IF pool = KernelPages THEN KERNEL_PAGES ELSE USER_PAGES
      free == {f \in pool \ used : f[1] = p}
  IN  IF Cardinality(used \cap pool) = size THEN NULL
      ELSE CHOOSE f \in free : \A g \in free : f[3] <= g[3]

FreePages(m, fs) == [f \in PageFrames |-> IF f \in fs THEN Cc ELSE m[f]]

NoPte == [p |-> FALSE, w |-> FALSE, a |-> FALSE, d |-> FALSE, frame |-> NULL]
pte_create_user(f, writable) == [p |-> TRUE, w |-> writable, a |-> FALSE, d |-> FALSE, frame |-> f]

EmptyDir == [kind |-> "pd", pde |-> [n \in 0..USER_PDES - 1 |-> NULL]]
EmptyTable == [kind |-> "pt", pte |-> [n \in 0..PTES - 1 |-> NoPte]]

pd_no(v) == v \div PTES
pt_no(v) == v % PTES

(* lookup_page(pd, v, false): whether there is an entry, and the entry. *)
HasPte(pd, v) == mem[pd].pde[pd_no(v)] # NULL
Pte(pd, v) == mem[mem[pd].pde[pd_no(v)]].pte[pt_no(v)]
Present(pd, v) == HasPte(pd, v) /\ Pte(pd, v).p
PutPte(m, pd, v, e) == [m EXCEPT ![m[pd].pde[pd_no(v)]].pte[pt_no(v)] = e]

pagedir_get_page(pd, v) == IF Present(pd, v) THEN Pte(pd, v).frame ELSE NULL

(* pagedir_set_page: a missing page table takes a page.  Its failure leaves *)
(* the directory alone.                                                     *)
TablePage(p, pd, v) == IF HasPte(pd, v) THEN mem[pd].pde[pd_no(v)] ELSE GetPage(p, KernelPages)
CanSetPage(p, pd, v) == TablePage(p, pd, v) # NULL
pagedir_set_page(p, m, pd, v, f, writable) ==
  LET pt == TablePage(p, pd, v)
      table == IF HasPte(pd, v) THEN m
               ELSE [m EXCEPT ![pt] = EmptyTable, ![pd].pde[pd_no(v)] = pt]
  IN  PutPte(table, pd, v, pte_create_user(f, writable))

(* What pagedir_destroy frees for one entry of the directory: the pages of  *)
(* the page table and the page table itself.                                *)
TablePages(pd, n) ==
  LET pt == mem[pd].pde[n]
  IN  IF pt = NULL THEN {}
      ELSE {pt} \cup {mem[pt].pte[k].frame : k \in {j \in 0..PTES - 1 : mem[pt].pte[j].p}}

(* Loading CR3 empties the TLB. *)
pagedir_activate(pd) == cr3' = pd /\ tlb' = {}

(* Faulty variant: the TLB is left as it is. *)
InvalidateNothing(pd) == UNCHANGED mmu
invalidate_pagedir(pd) == IF cr3 = pd THEN pagedir_activate(pd) ELSE UNCHANGED mmu

(* The operations on an entry that pagedir.c offers. *)
pagedir_clear_page(pd, v) ==
  /\ Present(pd, v)
  /\ mem' = PutPte(mem, pd, v, [Pte(pd, v) EXCEPT !.p = FALSE])
  /\ invalidate_pagedir(pd)

pagedir_set_dirty(pd, v, dirty) ==
  /\ HasPte(pd, v)
  /\ mem' = PutPte(mem, pd, v, [Pte(pd, v) EXCEPT !.d = dirty])
  /\ IF dirty THEN UNCHANGED mmu ELSE invalidate_pagedir(pd)

pagedir_set_accessed(pd, v, accessed) ==
  /\ HasPte(pd, v)
  /\ mem' = PutPte(mem, pd, v, [Pte(pd, v) EXCEPT !.a = accessed])
  /\ IF accessed THEN UNCHANGED mmu ELSE invalidate_pagedir(pd)

-----------------------------------------------------------------------------
(* The processor: an access to page v in user mode.  A cached translation   *)
(* is used without a look at the page table, except by the first write to   *)
(* it, which sets the dirty bit.                                            *)
Cached(v) == {e \in tlb : e.v = v}
Walks(v, write) == Cached(v) = {} \/ (write /\ \A e \in Cached(v) : ~ e.d)

Faults(v, write) ==
  \/ Walks(v, write) /\ (~ Present(cr3, v) \/ (write /\ ~ Pte(cr3, v).w))
  \/ write /\ \E e \in Cached(v) : ~ e.w

Access(v, write, data) ==
  LET e == Pte(cr3, v)
      walked == IF Walks(v, write)
                THEN PutPte(mem, cr3, v, [e EXCEPT !.a = TRUE, !.d = @ \/ write]) ELSE mem
      entry == IF Walks(v, write)
               THEN [v |-> v, frame |-> e.frame, w |-> e.w, d |-> write]
               ELSE CHOOSE c \in Cached(v) : TRUE
  IN  /\ ~ Faults(v, write)
      /\ mem' = IF write THEN [walked EXCEPT ![entry.frame].cell[0] = data] ELSE walked
      /\ tlb' = (tlb \ Cached(v)) \cup {entry}
      /\ UNCHANGED cr3

-----------------------------------------------------------------------------
(* What the TLB holds is in the page table: no page that was taken away     *)
(* (pagedir_clear_page) can still be accessed, and no write goes unnoticed  *)
(* after the dirty bit was cleared (pagedir.c:144-219, 252-268).            *)
TlbCoherent ==
  \A e \in tlb :
    /\ cr3 # init_page_dir
    /\ Present(cr3, e.v)
    /\ LET pte == Pte(cr3, e.v)
       IN  pte.frame = e.frame /\ pte.w = e.w /\ pte.a /\ (e.d => pte.d)
=============================================================================
