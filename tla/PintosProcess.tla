---------------------------- MODULE PintosProcess ----------------------------
(***************************************************************************)
(* User processes (process.c, exception.c, syscall.c, tss.c): the first     *)
(* thread starts processes, each of which loads its program, runs it and    *)
(* exits.  Any two steps can have a context switch between them.            *)
(***************************************************************************)
EXTENDS PintosPagedir, Sequences

CONSTANTS
  main,            \* the first thread
  Images,          \* the executable files: [ok, len, phdr]
  ADDR_BITS,       \* bits in an address
  MaybeUnopened,   \* TRUE: filesys_open may fail
  MAX_EVICTED,     \* bound on the pages that pagedir_clear_page is called for
  TouchedPages     \* the virtual pages that programs access and that the
                   \* operations on single entries are called for

ASSUME ProcessAssumption ==
  /\ main \notin Procs /\ NULL # init_page_dir
  /\ \A n \in {KERNEL_PAGES, USER_PAGES, ADDR_BITS, MAX_EVICTED} : n \in Nat
  /\ \A n \in {PGSIZE, PTES, USER_PDES} : n \in Nat \ {0}
  /\ USER_PDES * PTES * PGSIZE <= 2^ADDR_BITS
  /\ TouchedPages \subseteq VPages

VARIABLES
  cpu,       \* the running thread
  esp0,      \* the thread whose kernel stack the TSS names
  pc,        \* where each process is
  pagedir,   \* struct thread's pagedir
  proc,      \* proc[p]: the local variables of p
  starting,  \* the process that main is about to create, or main
  evicted    \* the pages that pagedir_clear_page took from processes

vars == <<mem, mmu, cpu, esp0, pc, pagedir, proc, starting, evicted>>

Word(n) == n % 2^ADDR_BITS
PHYS_BASE == USER_PDES * PTES * PGSIZE
is_user_vaddr(a) == a < PHYS_BASE
RoundDown(a) == a - (a % PGSIZE)
ROUND_UP(a) == Word(RoundDown(Word(a + PGSIZE - 1)))
Smaller(a, b) == IF a < b THEN a ELSE b

NoProc == [name |-> NULL, page |-> NULL, image |-> 1, open |-> FALSE, i |-> 1, pos |-> 0,
           read |-> 0, zero |-> 0, upage |-> 0, kpage |-> NULL, ok |-> FALSE, pd |-> NULL]

Init ==
  /\ mem = [f \in PageFrames |-> Cc]
  /\ cr3 = init_page_dir /\ tlb = {}
  /\ cpu = main /\ esp0 = main
  /\ pc = [p \in Procs |-> "none"]
  /\ pagedir = [p \in Procs |-> NULL]
  /\ proc = [p \in Procs |-> NoProc]
  /\ starting = main
  /\ evicted = {}

Goto(p, l) == pc' = [pc EXCEPT ![p] = l]
Img(p) == Images[proc[p].image]
Cell(f, n) == mem[f].cell[n]

-----------------------------------------------------------------------------
(* process_execute: a copy of the name, then a thread. *)
CopyName(p, image) ==
  LET f == GetPage(p, KernelPages)
  IN  /\ cpu = main /\ starting = main
      /\ pc[p] = "none"
      /\ f # NULL
      /\ mem' = [mem EXCEPT ![f] = [kind |-> "name"]]
      /\ proc' = [proc EXCEPT ![p] = [NoProc EXCEPT !.name = f, !.image = image]]
      /\ starting' = p
      /\ UNCHANGED <<mmu, cpu, esp0, pc, pagedir, evicted>>

CreateThread ==
  LET p == starting
      f == GetPage(p, KernelPages)
  IN  /\ cpu = main /\ p # main
      /\ \/ /\ f = NULL
            /\ mem' = FreePages(mem, {proc[p].name})
            /\ proc' = [proc EXCEPT ![p] = NoProc]
            /\ UNCHANGED pc
         \/ /\ f # NULL
            /\ mem' = [mem EXCEPT ![f] = [kind |-> "thread"]]
            /\ proc' = [proc EXCEPT ![p].page = f]
            /\ Goto(p, "create")
      /\ starting' = main
      /\ UNCHANGED <<mmu, cpu, esp0, pagedir, evicted>>

(* thread_schedule_tail: process_activate for the next thread, and the page *)
(* of a thread that died is freed.                                          *)
Runnable(q) == q = main \/ (q \in Procs /\ pc[q] \notin {"none", "dying"})
DirOf(q) == IF q = main \/ pagedir[q] = NULL THEN init_page_dir ELSE pagedir[q]

process_activate(q) == pagedir_activate(DirOf(q)) /\ esp0' = q

Switch(q) ==
  /\ q # cpu /\ Runnable(q)
  /\ cpu' = q
  /\ process_activate(q)
  /\ IF cpu # main /\ pc[cpu] = "dying"
     THEN /\ mem' = FreePages(mem, {proc[cpu].page})
          /\ proc' = [proc EXCEPT ![cpu] = NoProc]
          /\ Goto(cpu, "none")
     ELSE UNCHANGED <<mem, proc, pc>>
  /\ UNCHANGED <<pagedir, starting, evicted>>

-----------------------------------------------------------------------------
At(p, l) == cpu = p /\ pc[p] = l
Fails(p) == Goto(p, "done")     \* goto done, with success false

(* load: pagedir_create, then process_activate. *)
CreatePagedir(p) ==
  LET f == GetPage(p, KernelPages)
  IN  /\ At(p, "create")
      /\ \/ f = NULL /\ Fails(p) /\ UNCHANGED <<mem, pagedir>>
         \/ /\ f # NULL
            /\ mem' = [mem EXCEPT ![f] = EmptyDir]
            /\ pagedir' = [pagedir EXCEPT ![p] = f]
            /\ Goto(p, "activate")
      /\ UNCHANGED <<mmu, cpu, esp0, proc, starting, evicted>>

Activate(p) ==
  /\ At(p, "activate")
  /\ process_activate(p)
  /\ Goto(p, "open")
  /\ UNCHANGED <<mem, cpu, pagedir, proc, starting, evicted>>

(* The file is opened and its header read and verified. *)
OpenFile(p) ==
  /\ At(p, "open")
  /\ \/ MaybeUnopened /\ Fails(p) /\ UNCHANGED proc
     \/ /\ proc' = [proc EXCEPT ![p].open = TRUE]
        /\ IF Img(p).ok THEN Goto(p, "phdr") ELSE Fails(p)
  /\ UNCHANGED <<mem, mmu, cpu, esp0, pagedir, starting, evicted>>

validate_segment(h, len) ==
  /\ h.offset % PGSIZE = h.vaddr % PGSIZE
  /\ h.offset <= len
  /\ h.memsz >= h.filesz
  /\ h.memsz # 0
  /\ is_user_vaddr(h.vaddr)
  /\ is_user_vaddr(Word(h.vaddr + h.memsz))
  /\ Word(h.vaddr + h.memsz) >= h.vaddr
  /\ h.vaddr >= PGSIZE

(* How much of a segment is read from the file, and how much is zeroed.     *)
(* Faulty variant: the start of the segment in its page is forgotten.       *)
ReadFromStart(h) == h.filesz
ReadBytes(h) == IF h.filesz > 0 THEN Word((h.vaddr % PGSIZE) + h.filesz) ELSE 0
ZeroBytes(h) == Word(ROUND_UP((h.vaddr % PGSIZE) + h.memsz) + 2^ADDR_BITS - ReadBytes(h))

(* One program header. *)
ProgramHeader(p) ==
  LET i == proc[p].i
      h == Img(p).phdr[i]
  IN  /\ At(p, "phdr")
      /\ \/ /\ i > Len(Img(p).phdr)
            /\ Goto(p, "stack")
            /\ UNCHANGED proc
         \/ /\ i <= Len(Img(p).phdr)
            /\ CASE h.type = "ignored" ->
                      proc' = [proc EXCEPT ![p].i = i + 1] /\ UNCHANGED pc
                 [] h.type = "load" /\ validate_segment(h, Img(p).len) ->
                      /\ proc' = [proc EXCEPT ![p].i = i + 1, ![p].pos = RoundDown(h.offset),
                                              ![p].upage = RoundDown(h.vaddr),
                                              ![p].read = ReadBytes(h), ![p].zero = ZeroBytes(h)]
                      /\ Goto(p, "segment")
                 [] OTHER -> Fails(p) /\ UNCHANGED proc
      /\ UNCHANGED <<mem, mmu, cpu, esp0, pagedir, starting, evicted>>

PageRead(p) == Smaller(proc[p].read, PGSIZE)

(* load_segment: a page, or the end of the loop. *)
SegmentPage(p) ==
  LET f == GetPage(p, UserPages)
      r == proc[p]
  IN  /\ At(p, "segment")
      /\ \/ /\ r.read = 0 /\ r.zero = 0
            /\ Goto(p, "phdr")
            /\ UNCHANGED <<mem, proc>>
         \/ /\ r.read > 0 \/ r.zero > 0
            /\ \/ f = NULL /\ Fails(p) /\ UNCHANGED <<mem, proc>>
               \/ /\ f # NULL
                  /\ mem' = [mem EXCEPT ![f] = [kind |-> "user", cell |-> [n \in 0..PGSIZE - 1 |-> <<"cc">>]]]
                  /\ proc' = [proc EXCEPT ![p].kpage = f]
                  /\ Goto(p, "read")
      /\ UNCHANGED <<mmu, cpu, esp0, pagedir, starting, evicted>>

(* file_read, and zeroes for the rest of the page. *)
FileCell(o) == <<"file", o>>
Zero == <<"zero">>
FileRead(p) ==
  LET r == proc[p]
      got == Smaller(PageRead(p), IF r.pos < Img(p).len THEN Img(p).len - r.pos ELSE 0)
  IN  /\ At(p, "read")
      /\ \/ /\ got # PageRead(p)
            /\ mem' = FreePages(mem, {r.kpage})
            /\ proc' = [proc EXCEPT ![p].kpage = NULL]
            /\ Fails(p)
         \/ /\ got = PageRead(p)
            /\ mem' = [mem EXCEPT ![r.kpage].cell =
                 [n \in 0..PGSIZE - 1 |-> IF n < got THEN FileCell(r.pos + n) ELSE Zero]]
            /\ proc' = [proc EXCEPT ![p].pos = r.pos + got]
            /\ Goto(p, "install")
      /\ UNCHANGED <<mmu, cpu, esp0, pagedir, starting, evicted>>

(* install_page; the caller frees the page if that fails.  Faulty variant:  *)
(* it does not.                                                             *)
Installs(p, v) == pagedir_get_page(pagedir[p], v) = NULL /\ CanSetPage(p, pagedir[p], v)
InstallOrLeak(p, v, writable) ==
  mem' = IF Installs(p, v) THEN pagedir_set_page(p, mem, pagedir[p], v, proc[p].kpage, writable) ELSE mem
install_page(p, v, writable) ==
  mem' = IF Installs(p, v) THEN pagedir_set_page(p, mem, pagedir[p], v, proc[p].kpage, writable)
         ELSE FreePages(mem, {proc[p].kpage})

InstallSegment(p) ==
  LET r == proc[p]
      v == r.upage \div PGSIZE
      writable == Img(p).phdr[r.i - 1].writable
  IN  /\ At(p, "install")
      /\ install_page(p, v, writable)
      /\ IF Installs(p, v)
         THEN /\ proc' = [proc EXCEPT ![p].kpage = NULL, ![p].upage = Word(@ + PGSIZE),
                                      ![p].read = @ - PageRead(p),
                                      ![p].zero = @ - (PGSIZE - PageRead(p))]
              /\ Goto(p, "segment")
         ELSE proc' = [proc EXCEPT ![p].kpage = NULL] /\ Fails(p)
      /\ UNCHANGED <<mmu, cpu, esp0, pagedir, starting, evicted>>

(* setup_stack: a zeroed page below PHYS_BASE. *)
StackPage(p) ==
  LET f == GetPage(p, UserPages)
  IN  /\ At(p, "stack")
      /\ \/ f = NULL /\ Fails(p) /\ UNCHANGED <<mem, proc>>
         \/ /\ f # NULL
            /\ mem' = [mem EXCEPT ![f] = [kind |-> "user", cell |-> [n \in 0..PGSIZE - 1 |-> Zero]]]
            /\ proc' = [proc EXCEPT ![p].kpage = f]
            /\ Goto(p, "stack_install")
      /\ UNCHANGED <<mmu, cpu, esp0, pagedir, starting, evicted>>

StackVPage == PHYS_BASE \div PGSIZE - 1
InstallStack(p) ==
  /\ At(p, "stack_install")
  /\ install_page(p, StackVPage, TRUE)
  /\ proc' = [proc EXCEPT ![p].kpage = NULL, ![p].ok = Installs(p, StackVPage)]
  /\ Goto(p, "done")
  /\ UNCHANGED <<mmu, cpu, esp0, pagedir, starting, evicted>>

(* done: the file is closed, the name is freed, and the program starts      *)
(* (intr_exit) or the thread exits.                                         *)
Done(p) ==
  /\ At(p, "done")
  /\ mem' = FreePages(mem, {proc[p].name})
  /\ proc' = [proc EXCEPT ![p].open = FALSE, ![p].name = NULL]
  /\ Goto(p, IF proc[p].ok THEN "user" ELSE "exit")
  /\ UNCHANGED <<mmu, cpu, esp0, pagedir, starting, evicted>>

-----------------------------------------------------------------------------
UserAccess(p) ==
  /\ At(p, "user")
  /\ \E v \in TouchedPages, write \in BOOLEAN : Access(v, write, <<"data", p>>)
  /\ UNCHANGED <<cpu, esp0, pc, pagedir, proc, starting, evicted>>

thread_exit(p) ==
  /\ Goto(p, "exit")
  /\ UNCHANGED <<mem, mmu, cpu, esp0, pagedir, proc, starting, evicted>>

(* page_fault and kill, for a fault in user code. *)
PageFault(p) ==
  /\ At(p, "user")
  /\ \E v \in TouchedPages, write \in BOOLEAN : Faults(v, write)
  /\ thread_exit(p)

(* syscall_handler: every system call ends the process. *)
SystemCall(p) == At(p, "user") /\ thread_exit(p)

(* The operations on the entries of a process that runs. *)
EntryOperation(p) ==
  /\ pc[p] = "user"
  /\ \E v \in TouchedPages :
       \/ /\ Cardinality(evicted) < MAX_EVICTED
          /\ pagedir_clear_page(pagedir[p], v)
          /\ evicted' = evicted \cup {Pte(pagedir[p], v).frame}
       \/ \E b \in BOOLEAN :
            /\ \/ pagedir_set_dirty(pagedir[p], v, b)
               \/ pagedir_set_accessed(pagedir[p], v, b)
            /\ UNCHANGED evicted
  /\ UNCHANGED <<cpu, esp0, pc, pagedir, proc, starting>>

-----------------------------------------------------------------------------
(* process_exit.  Faulty variant: cur->pagedir keeps the directory that is  *)
(* about to be destroyed, and a timer interrupt can activate it again.      *)
ForgetLate(p) ==
  /\ At(p, "exit")
  /\ proc' = [proc EXCEPT ![p].pd = pagedir[p], ![p].i = 0]
  /\ Goto(p, IF pagedir[p] = NULL THEN "dying" ELSE "exit_activate")
  /\ UNCHANGED <<mem, mmu, cpu, esp0, pagedir, starting, evicted>>

ForgetPagedir(p) ==
  /\ At(p, "exit")
  /\ proc' = [proc EXCEPT ![p].pd = pagedir[p], ![p].i = 0]
  /\ pagedir' = [pagedir EXCEPT ![p] = NULL]
  /\ Goto(p, IF pagedir[p] = NULL THEN "dying" ELSE "exit_activate")
  /\ UNCHANGED <<mem, mmu, cpu, esp0, starting, evicted>>

ActivateKernel(p) ==
  /\ At(p, "exit_activate")
  /\ pagedir_activate(init_page_dir)
  /\ Goto(p, "destroy")
  /\ UNCHANGED <<mem, cpu, esp0, pagedir, proc, starting, evicted>>

(* pagedir_destroy, one entry at a time and then the directory. *)
Destroy(p) ==
  LET i == proc[p].i
      pd == proc[p].pd
  IN  /\ At(p, "destroy")
      /\ \/ /\ i < USER_PDES
            /\ mem' = FreePages(mem, TablePages(pd, i))
            /\ proc' = [proc EXCEPT ![p].i = i + 1]
            /\ UNCHANGED pc
         \/ /\ i = USER_PDES
            /\ mem' = FreePages(mem, {pd})
            /\ proc' = [proc EXCEPT ![p].pd = NULL]
            /\ Goto(p, "dying")
      /\ UNCHANGED <<mmu, cpu, esp0, pagedir, starting, evicted>>

-----------------------------------------------------------------------------
Load(p) ==
  \/ CreatePagedir(p) \/ Activate(p) \/ OpenFile(p) \/ ProgramHeader(p)
  \/ SegmentPage(p) \/ FileRead(p) \/ InstallSegment(p)
  \/ StackPage(p) \/ InstallStack(p) \/ Done(p)

Exit(p) == ForgetPagedir(p) \/ ActivateKernel(p) \/ Destroy(p)

Next ==
  \/ \E p \in Procs, n \in DOMAIN Images : CopyName(p, n)
  \/ CreateThread
  \/ \E q \in Procs \cup {main} : Switch(q)
  \/ \E p \in Procs :
       Load(p) \/ UserAccess(p) \/ PageFault(p) \/ SystemCall(p) \/ EntryOperation(p) \/ Exit(p)

Spec == Init /\ [][Next]_vars

-----------------------------------------------------------------------------
TypeOK ==
  /\ cpu \in Procs \cup {main} /\ starting \in Procs \cup {main}
  /\ cr3 \in KernelPages \cup {init_page_dir}
  /\ \A p \in Procs :
       /\ pagedir[p] \in KernelPages \cup {NULL} /\ proc[p].name \in KernelPages \cup {NULL}
       /\ proc[p].kpage \in UserPages \cup {NULL}
       /\ proc[p].read \in 0..2^ADDR_BITS - 1 /\ proc[p].zero \in 0..2^ADDR_BITS - 1

(* The active page directory exists, whenever a timer interrupt switches    *)
(* threads while a process exits (process.c:119-130), and a program runs in *)
(* its own address space, with its own kernel stack for interrupts.         *)
ActiveDirectory ==
  /\ cr3 # init_page_dir => mem[cr3].kind = "pd"
  /\ cpu \in Procs /\ pc[cpu] = "user" => cr3 = pagedir[cpu] /\ esp0 = cpu

(* The pages of each process: those its variables name, and its page        *)
(* directory with all that hangs off it.                                    *)
DirPages(pd) == IF pd = NULL \/ mem[pd].kind # "pd" THEN {} ELSE {pd} \cup UNION {TablePages(pd, n) : n \in 0..USER_PDES - 1}
DestroyedDirPages(p) ==
  IF proc[p].pd = NULL THEN {}
  ELSE {proc[p].pd} \cup UNION {TablePages(proc[p].pd, n) : n \in proc[p].i..USER_PDES - 1}
Owned(p) ==
  ({proc[p].name, proc[p].page, proc[p].kpage} \ {NULL}) \cup
  (IF pc[p] \in {"exit_activate", "destroy"} THEN DestroyedDirPages(p) ELSE DirPages(pagedir[p]))

(* The pages in use are those a process refers to, and those that were      *)
(* evicted: a load that fails, wherever it fails, and an exit give back all *)
(* they took (process.c:54-58, 80, 323-326, 424-435, 455-462;               *)
(* pagedir.c:29-55), and no process refers to a page that it gave back.     *)
PagesOwned ==
  /\ TypeOK
  /\ used = UNION {Owned(p) : p \in Procs} \cup evicted
  /\ \A p \in Procs :
       /\ Owned(p) \cap evicted = {}
       /\ proc[p].kpage \notin DirPages(pagedir[p])
       /\ proc[p].open => pc[p] \in {"phdr", "segment", "read", "install", "stack",
                                     "stack_install", "done"}

(* A segment that validate_segment accepts is whole pages between page 0    *)
(* and PHYS_BASE, also when the sum of address and size wraps around        *)
(* (process.c:358-380 and the assertions at 404).                           *)
SegmentsInside ==
  \A p \in Procs : pc[p] = "segment" =>
    LET r == proc[p]
    IN  /\ (r.read + r.zero) % PGSIZE = 0
        /\ r.upage >= PGSIZE /\ r.upage + r.read + r.zero <= PHYS_BASE

(* What a process sees at address a. *)
UserCell(p, a) == Cell(Pte(pagedir[p], a \div PGSIZE).frame, a % PGSIZE)
Mapped(p, a) == Present(pagedir[p], a \div PGSIZE)

SegmentLoaded(p, h) ==
  \A a \in h.vaddr..ROUND_UP(h.vaddr + h.memsz) - 1 :
    /\ Mapped(p, a)
    /\ UserCell(p, a) = IF a < h.vaddr + h.filesz THEN FileCell(h.offset + a - h.vaddr) ELSE Zero
    /\ Pte(pagedir[p], a \div PGSIZE).w = h.writable

(* A segment being loaded stays in user space (SegmentsInside), and when a  *)
(* program starts each of its segments is in memory: the file's bytes, then *)
(* zeroes, up to the end of the last page, writable as its header says; the *)
(* stack is a page of zeroes; page 0 is not mapped (process.c:284-305,      *)
(* 335-466).                                                                *)
ImageLoaded ==
  SegmentsInside /\ \A p \in Procs : pc[p] = "done" /\ proc[p].ok =>
    /\ \A i \in DOMAIN Img(p).phdr : Img(p).phdr[i].type = "load" => SegmentLoaded(p, Img(p).phdr[i])
    /\ \A n \in 0..PGSIZE - 1 :
         Mapped(p, StackVPage * PGSIZE + n) /\ UserCell(p, StackVPage * PGSIZE + n) = Zero
    /\ ~ Present(pagedir[p], 0)
=============================================================================
