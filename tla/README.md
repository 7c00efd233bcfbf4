# A TLA+ verification of System-prog

The repository holds three programs: **yash** (`src/Project 1`), a job-control
shell on a terminal; **yashd** (`src/Project 2`), the same shell as a daemon
with one thread per client; and **Pintos** (`src/Project_3`), a teaching
operating-system kernel. This directory models the parts of them where steps of
several actors meet or where one structure has to survive every sequence of
calls, checks the models with TLC and proves the central invariants of the
kernel's scheduler, locks, interrupt queues and page allocator with TLAPS.

## 1. The system and its parts

### yash

One process on a terminal: it reads a line, runs it as a job (one command, or
two with a pipe) in a process group of its own, and waits for it or leaves it in
the background. The terminal sends Ctrl-c and Ctrl-z to its foreground group,
which the shell hands to a job and takes back.

| part | source | module |
|---|---|---|
| loop, job table, process creation, builtins, terminal | `main.c`, `jobs.c`, `exec.c`, `builtins.c`, `sig.c` | `Yash` |
| parser (the same code in yashd) | `parse.c` | `YashParse` |
| processes, groups, signals | (operating system) | `PosixProcs` |

### yashd

`server_run` accepts connections and starts one thread per client on
`session_main`. A thread owns a `session_t`: socket, job list, foreground job.
It reads lines (`CMD ...`, `CTL c|z|d`, plain text), forks the commands of a
pipeline into a process group, waits for a foreground job while pumping the
client's input to it, and reaps background jobs before each prompt. When the
client quits or vanishes, `session_destroy` kills and collects what is left.
Threads share no data except the log; what they do share is the kernel's
process table: every child is a child of the one daemon process.

| part | source | module |
|---|---|---|
| session loop, dispatch, pump | `server/src/session.c` | `YashdSession` |
| job table, every `waitpid` | `server/src/jobs.c` | `YashdSession` |
| fork/exec of a job | `server/src/exec.c` | `YashdSession`, `PosixProcs` |
| fg, bg, jobs, quit | `server/src/builtins.c` | `YashdSession` |
| processes, groups, signals | (operating system) | `PosixProcs` |
| accept loop | `server/src/server.c` | `YashdSession!Accept` |
| parser | `server/src/parse.c` | `YashParse` |
| client, wire protocol, reading and dispatching of lines byte by byte | `client/src/client.c`, `server/src/session.c` | `YashClient` |

### Pintos

One processor. A thread runs until it blocks, yields, exits or a timer tick
ends its slice; the kernel makes a stretch of code atomic by turning interrupts
off. Semaphores are atomic in this way; locks and condition variables are built
from them with interrupts on.

| part | source | module |
|---|---|---|
| scheduler | `threads/thread.c` | `PintosSched` |
| semaphores, locks, condition variables; callers, interrupts, tid allocation, idle thread | `threads/synch.c`, `threads/thread.c`, `threads/interrupt.c` | `PintosSynch` |
| what a lock promises | comments of `synch.c` | `Mutex` |
| circular buffer of an interrupt queue | `devices/intq.c` | `PintosIntq` |
| console output, keyboard input, serial port, waiting on the queues | `devices/serial.c`, `input.c`, `intq.c`, `lib/kernel/console.c` | `PintosSerial` |
| what an interrupt queue promises | | `Fifo` |
| names, inodes, open files, free map, directory | `filesys/filesys.c`, `inode.c`, `file.c`, `free-map.c`, `directory.c`, `lib/kernel/bitmap.c` | `PintosFilesys` |
| what the file system promises | | `FileStore` |
| block devices, partitions, roles | `devices/block.c`, `devices/partition.c`, `threads/init.c` | `PintosBlock` |
| disk driver and its interrupts | `devices/ide.c` | `PintosIde` |
| what the disk promises | | `BlockStore` |
| page allocator | `threads/palloc.c`, `lib/kernel/bitmap.c` | `PintosPalloc` |
| block allocator | `threads/malloc.c` | `PintosMalloc` |
| page directories, translation buffer | `userprog/pagedir.c`, `threads/pte.h` | `PintosPagedir` |
| user processes | `userprog/process.c`, `exception.c`, `syscall.c`, `tss.c` | `PintosProcess` |
| lists | `lib/kernel/list.c` | `PintosList` |
| hash tables, and a caller of both | `lib/kernel/hash.c` | `PintosHash` |
| what lists and hash tables promise | comments of `list.h`, `hash.h` | `Collections` |
| proofs about the scheduler's operations | | `PintosSchedProofs` |
| proofs about threads, semaphores, locks | | `PintosSynchInv` (the inductive invariant, what actions share, the actions without a semaphore), `PintosSynchProofs` (the others, the theorems about states, a lock implements `Mutex`) |
| proofs about what is built on them | | `PintosSynchMonitors` (thread ids, condition variables), `PintosSynchWakeups` (no lost wakeup) |
| proofs about the interrupt queues and the console | | `PintosSerialProofs` |
| proofs about the page allocator | | `PintosPallocProofs` |
| proofs about the disk driver and the partitions | | `PintosIdeProofs` |

How the kernel's models build on each other: `PintosSched` is part of both
`PintosSynch` and `PintosSerial`. `PintosSynch` shows that a lock implements
`Mutex`; the other modules take a lock to be that, one variable that names the
holder. `PintosMalloc` extends `PintosPalloc` and runs its steps bit by bit;
`PintosProcess` uses what was shown of it, a page that nobody has. `PintosIde`
runs its requests under the lock of the channel and shows that it implements
`BlockStore`, sector writes that happen one at a time; `PintosFilesys` takes the
disk to be that.

## 2. How the models correspond to the code

`YashdSession`: `pc[s]` is the place of the thread of session `s`
("accept", "reap" and "sweep" the two loops of `jobs_reap`, "prompt", "read",
then inside `jobs_wait_fg` "pump", "write", "poll", "block", and "kill" and
"collect" in `jobs_kill_all`). `jobs[s]` is `job_list`, oldest first, `fg[s]`
the index of `fg_job`. One action is one system call that may block or whose
result another actor can change, with the code around it. What a client types
is arbitrary, so each line is chosen when it is read.

`Yash` has the same parts for one shell, with `tty`, the terminal's foreground
group. `pc` is "reap" in `jobs_reap`, "read" in `fgets`, "give", "resume", "wait"
and "take" around `jobs_wait_fg`, "kill" in `jobs_kill_all`. A process that reads
the terminal from another group is stopped by SIGTTIN: that is one of the
reasons behind `StopAlone`. `owner` remembers whether `jobs_add` took the job.
`YashParse` is `parse_line` as a fold over the tokens, given also the length of
the line; where the code looks at the token after a redirection the model
remembers the redirection. The lines `Yash` reads are those the parser accepts.

`PosixProcs` is external: `fork`, `setpgid`, `kill(-pgid)` and `waitpid` as the
shells use them. Signals are pending until delivered, except SIGCONT, which
acts at once; `ev[p]` is the one stop or continue report that `waitpid` has not
yet returned; pids are reused when neither a process nor a group carries them.

`PintosSynch`: `pc[t]`, `at[t]`, `cw[t]`, `kid[t]` are the control state of a
thread inside a library call; "call" is a thread free to call anything its
contract allows (a lock it does not hold, a condition variable whose lock it
holds). The semaphore inside a lock is named by the lock, the one a waiter of a
condition variable has on its stack by the thread. A thread woken inside
`sema_down` has interrupts off ("woken"), which is the only place between two
steps where they are off.

`PintosSerial` puts threads, the serial, keyboard and timer interrupts and the
UART around two interrupt queues. A queue is a value of `PintosIntq`; who waits
for it (`waiter`), who has its lock (`holder`, `lwaiters`), the console lock and
its depth, and the UART's interrupt mask, ready flag and received byte are
variables. With interrupts off (`IntrOff`) only the running thread and the UART
move, so one stretch of C code can be several actions and still be atomic. A
step has at most one call of the scheduler, except `SerialInterrupt`, which
may unblock a reader and a writer. Section 6 says why the run has one reader.

`PintosFilesys` has the disk, the free map in memory, `open_inodes`, the open
files and the call in progress. Callers keep each other out, as
`userprog/README.md` asks of them, so there is one call at a time; a call is one
action per sector it writes, and `Reboot` can come between any two of them. A
sector holds an inode, the map, the directory or bytes; the directory and the
map are one sector each. Names are valid names: an empty or too long one makes
`dir_add` fail, which the model has for other reasons. The loops of
`inode_read_at` and `inode_write_at` are recursive functions over the bytes done.
`StoreSpec` maps the state to `FileStore`: names to files, handles to files, files
to their bytes. A file whose name is gone exists while somebody has it open.

`YashClient` has the user, the client and one session with the bytes between
them: `typed` (terminal or file), `up` and `down` (the two directions of the
socket), `inbuf` and `sbuf` (the two line buffers). A keyword with its blank is
one symbol, the prompt is two, so that a read can end inside it.
`cpc` is the place of the client in its loop; "select" is `pselect`, the only
place where a signal is let in. Output of jobs is arbitrary, and may look like a
prompt (`noisy` remembers that a job in the background may write at any time).

`PintosPalloc` runs `palloc_get_multiple` and `palloc_free_multiple` one bit of
the bitmap at a time, because `palloc_free_multiple` takes no lock: `pal[t]` is
where thread `t` is, and which run of pages it tests, marks or clears.
`PintosMalloc` adds the memory itself, cell by cell: the header of an arena, the
links of free blocks and what callers wrote are in the cells that the code puts
them in, so an allocator that overlaps two blocks overwrites one of them. A
caller keeps writing its own value to its blocks (`Use`).

`PintosPagedir` keeps page directories and tables in pages of memory, with the
processor's `cr3` and translation buffer (`tlb`, external). Both processes draw
on the same two pools; a page is named after the process that got it, which keeps
the states that differ only in the addresses of pages from being counted apart.
That loses nothing as long as nobody refers to a free page, and the run checks
that (`PagesOwned`, `ActiveDirectory`, `TlbCoherent`). Writing an entry
and forgetting its translation is one step; in this repository nothing calls
`pagedir_clear_page`, `pagedir_set_dirty` or `pagedir_set_accessed` yet, so the
model lets them be called for any page of a process. `PintosProcess` starts,
loads, runs and ends processes; `cpu` is the running thread and `Switch` may come
between any two steps. `pc[p]` follows `load`, `load_segment`, `setup_stack` and
`process_exit`; every allocation can fail, because the pools are small. Sums of
addresses wrap at `ADDR_BITS`. The contents of a page are cells that say which
byte of the file they hold. `file_close`, which the code calls at `done`, only
resets `open`.

`PintosIde` has the registers of one channel as far as the driver sees them (the
devices are external), the lock, the semaphore and `expecting_interrupt`. One
action is one access to a register that a device may change meanwhile. The
start of the kernel is modelled too: reset, detection, identification, and the
scan of partition tables, whose recursion is the stack `scan` of `PintosBlock`.
A failed allocation, a failed command, a sector out of range and a write to a
foreign partition are a panic, as in the code. `interrupt_handler` acknowledges an
interrupt only if one is expected; another one stays requested.

`PintosList` is the memory of all nodes (`next`, `prev`) and, for each function
of `list.c`, the memory it leaves behind, assignment by assignment where the
order matters (`list_splice`, `list_reverse`). `PintosHash` adds the table and a
caller who moves elements between two lists and the table. Memory that is freed
has no valid pointers. `call` is the last call and what it returned, `seen` what a
walk with `hash_first` and `hash_next` has visited. `Collections` says of every
call what it does to sequences and to a set.

## 3. Runs

| run | config | properties | what it shows |
|---|---|---|---|
| yashd_sessions | MCYashdSessions.cfg | OwnGroup, NoOrphans | Two session threads that share the kernel's pids never wait for, signal or lose each other's jobs, although pids are reused: through pipelines, fg, bg, stops, refused jobs and teardown. |
| yashd_live | MCYashdLive.cfg | TeardownCompletes, LostClientNoticed | One session with up to two jobs, whose children may leave their group: teardown always ends, and a thread notices that its client is gone. |
| pintos_sema | MCPintosSema.cfg | WaitersOK, NoLostWakeup, TidsUnique | Threads that create threads, a semaphore, the timer and a device: the lists of waiters stay consistent, no wakeup is lost and no two threads get the same tid. |
| pintos_cond | MCPintosCond.cfg | CondOK, MutexSpec, ReadyRuns | A lock and a condition variable under a fair timer: the lock implements an abstract mutex, no signal is lost or given twice, and every ready thread gets the processor. |
| pintos_serial | MCPintosSerial.cfg | WaiterOK, ConsoleOK, QueuesInOrder, TxDrains, ReaderServed | Threads that print and one that reads, with the serial, keyboard and timer interrupts between their steps: no wakeup is lost, the assertion of wait holds, console output is not mixed, the two circular buffers implement bounded queues, queued output is sent and a reader gets its byte. |
| pintos_filesys | MCPintosFilesys.cfg | FreeMapOK, CountsOK, ByteArray, StoreSpec | Files created, removed, reopened, written and closed with sector writes that a power failure may interrupt: no sector belongs to two files, open and denial counts are exact, a write changes the bytes it should and nothing else on the disk, and the whole implements a map from names to byte strings. |
| yash | MCYash.cfg | ParserOK, Accounting, KeysReachForeground, JobsDeadOnExit | yash with two jobs on a terminal: the parser accepts its grammar and no line that is too long, no process is lost or counted twice whichever waitpid collects it, Ctrl-c and Ctrl-z reach the foreground job only, and no job of the table outlives the shell. |
| pintos_malloc | MCPintosMalloc.cfg | PagesOK, Intact, ArenasOK, CallsReturn | Two threads that call malloc, calloc, realloc and free over two page pools, bit by bit of the page bitmap: no page and no byte has two owners, what a caller wrote is what it reads, the counters of the arenas are exact, and every call returns unless another thread takes the locks first again and again. |
| pintos_process | MCPintosProcess.cfg | ActiveDirectory, PagesOwned, ImageLoaded, TlbCoherent | Two user processes that load images of one or two segments, run and exit on one processor, with failing allocations and short files: the processor never uses a freed page directory, every page has one owner and none is lost, segments stay in user memory and hold what the file says, with zeros up to the end of their last page, and the translation buffer never allows what the tables forbid. |
| pintos_disk | MCPintosIde.cfg | NothingLeftOver, PartitionsInside, StoreSpec, RequestsReturn | Two threads and two disks on one channel, from the reset and the scan for partitions on: every completion wakes the request it belongs to, partitions stay inside their disk, reads and writes implement an atomic store of sectors, and every request returns unless the kernel stops or another thread takes the channel first again and again. |
| yash_client | MCYashClient.cfg | CommandsWhole, PromptReturns, KeysSent | The client and a session over two byte streams cut at any place: no command is torn or joined unless it was too long, the client is at its prompt whenever the session is, and Ctrl-c and Ctrl-z are sent on. |
| pintos_hash | MCPintosHash.cfg | LinksOK, CollectionsSpec | Four elements, two of them equal, that a caller moves between two lists and a hash table by any sequence of calls, with allocations that fail: pointers agree, and the whole implements sequences and a set, with a stable sort and complete walks. |

Each module has one type invariant, `TypeOK`, which is the first conjunct of one
of these properties (`OwnGroup`, `WaiterOK`, `FreeMapOK`, `Accounting`, `Intact`,
`PagesOwned`, `NothingLeftOver`, `CommandsWhole`, `LinksOK`).

### Bounds

* `Pids`: two or three. Two let a pid be reused while a stale number is still
  on a table; three let one session have a pipeline while the other has a job.
* `MaxJobs` stands for `YASH_MAX_JOBS` (20): 1 or 2, so that the table is full.
  In `yashd_sessions` it is 1, and what `OwnGroup` says of two jobs of one session
  has no instance there; with `MaxJobs = 2` the run has 6.6 million states, takes
  five minutes and passes as well.
* `MayLeave`: may a child leave its process group? In `yashd_live` it may; in
  `yashd_sessions` and `yash` it may not, since a process that has left
  its group is out of the reach of `kill(-pgid)` by design.
* `MaxLines`: what one client sends; 4 are enough for start, stop, resume, end.
* `Yash`: three pids and two jobs give a pipeline in the foreground and a job in
  the background; `MaxJid` caps job numbers, which grow while the table is not
  empty. `MaxTokens` is one more than `YASH_MAX_TOKENS`, 5 in place of 128:
  every line of up to six tokens over three words and the five operators is
  parsed, at the greatest length that is accepted and at the one after it
  (`YASH_MAX_LINE` is 30 in place of 200). `Reuse = FALSE`: a pid that a job in the table records is not handed
  out again.
* `Threads`: main, idle and one to three more. Two more make a waiter, a
  signaller and a thread that barges in; three let two creations overlap.
* `TIME_SLICE` 1 or 2: preemption is then possible at every step or at every
  second one. It is 1 in the run of `ReadyRuns`, which therefore does not see
  how long a slice is. `MaxValue`, `MaxTid` cap a semaphore's value and the tids.
* `INTQ_BUFSIZE` 3 stands for 64: a queue with two usable places is
  full, empty and wrapped around within a few steps. `MaxDepth` caps nested
  `printf` calls. `Bytes` has one element: in this run `QueuesInOrder`
  shows that no byte is lost, duplicated or taken from an empty queue;
  that different bytes keep their order is what section 4 proves for any `Bytes`.
* `PintosFilesys`: seven sectors, four of them for the map and the directory,
  leave room for one file of two sectors or for three empty ones, so
  allocation fails and sectors are reused; two directory entries for three
  names make it full; lengths 0, 1 and 3 with two bytes in a sector give an
  empty file, a partial sector, and a full sector followed by a partial one.
  Two files with data do not fit at once; `ByteArray` compares the whole disk
  before and after a write, so a byte that goes astray shows in whichever sector
  it hits. With eight sectors the run takes too long.
* `YashClient`: `BUF_SIZE` 4 stands for 4096. A keyword is one symbol,
  so a line of one symbol fits and one of two is cut; three
  keys, lines or pieces of output (`MaxEvents`) reach a command, its input, its
  end and what comes after. `CHECK_DEADLOCK FALSE`: user and jobs may stop.
* `PintosMalloc`: six pages of ten cells, a header of five, blocks of two (two
  of them in an arena) and a big size of two pages; each of two threads keeps
  one block, so arenas are shared, emptied and refused.
* `PintosProcess`: two processes that compete for seven kernel and four user
  pages, of two bytes each; two page tables of two entries; seven images. One of
  one page is small enough for both processes to run it. One has two segments: a
  page that is read in part and zeroed in part, and one without bytes in the
  file. One has a segment that is ignored and one that crosses a page. The others
  have a second segment that the file is too short for, overlap the stack, wrap
  around, or are no executables.
* `PintosIde`: two devices of three sectors with sector numbers of three bits, so
  sums wrap; five combinations of disks, absent and foreign devices and partition
  tables; two threads. `MAX_NESTED`, 4, caps the depth of nested tables: it stands
  for the memory that each of them takes, so that the only step left beyond it is
  the panic of a failed allocation.
* `PintosHash`: four elements, of which two are equal, two lists. With
  `MIN_BUCKETS` and `BEST_ELEMS_PER_BUCKET` 1 (4 and 2 in the code) the table
  grows to four buckets and shrinks again; the hash values make elements
  collide in a small table and leave each other in a larger one.
* Symmetry is used for names, handles, bytes, pids, sessions and for threads other than main and idle, in runs
  without liveness properties.

### Fairness

* `YashdSession`: weak fairness of each session thread (they are ordinary
  POSIX threads) and of the delivery of SIGKILL, which no process can block.
  Nothing is assumed about clients, or about commands ending or reading.
* `Yash`: weak fairness of the shell's own steps and of SIGKILL's delivery.
* `PintosSynch`: the timer keeps interrupting, and a thread that has the
  processor again and again executes what it is committed to. Both are strong
  fairness because the timer is masked, and the thread preempted, again and
  again. Nothing obliges a thread to make a call.
* `PintosSerial`: weak fairness of the running thread while interrupts are off
  (nothing else can run) and of the UART's sending; strong fairness of the timer
  and serial interrupts, which are masked again and again but not for ever.
* `YashClient`: weak fairness of the client's and of the session's own steps;
  users and jobs may do nothing.
* `PintosMalloc`: weak fairness of each thread inside the allocator, since the
  scheduler runs every ready thread (`ReadyRuns`). Nothing obliges a thread to
  call. A lock is no queue: a thread that was woken tests the value again
  (`synch.c:70`) and another may have taken the lock before it, any number of
  times. `CallsReturn` says so: a call returns, or some other thread begins calls
  for ever.
* `PintosIde`: weak fairness of the threads, of the devices, of the interrupt and
  of the start of the kernel, which goes on or stops with a panic.
  `RequestsReturn` has the same exception as `CallsReturn`, for the lock of the
  channel.

## 4. Proofs

What the theorems say holds for every value of the constants that satisfies the
named assumptions, where a run covers one small instance.

| Theorem | Statement | Module |
|---|---|---|
| `TypesHold`, `SchedulerSafe`, `WaitersSafe`, `MutualExclusion` | `Spec => []TypeOK`, `[]SchedOK`, `[]WaitersOK`, `[]LockOK` of `PintosSynch` | `PintosSynchProofs` |
| `LocksImplementMutex` | `Spec => MutexSpec` | `PintosSynchProofs` |
| `TidsNeverShared`, `SignalsExact` | `Spec => []TidsUnique`, `[]CondOK` | `PintosSynchMonitors` |
| `WakeupsKept` | `Spec => []NoLostWakeup` | `PintosSynchWakeups` |
| `QueuesRefineFifo` | `Spec => QueuesInOrder` of `PintosSerial` | `PintosSerialProofs` |
| `ConsoleExcludes` | `Spec => []ConsoleOK` | `PintosSerialProofs` |
| `WaitersServed` | `OneReader` implies `Spec => []WaiterOK` | `PintosSerialProofs` |
| `PallocCorrect`, `MallocPages` | `[]PagesOK` of `PintosPalloc` and of `PintosMalloc` | `PintosPallocProofs` |
| `CommandsSeparate`, `PartitionsFit` | `Spec => []NothingLeftOver`, `[]PartitionsInside` of `PintosIde` | `PintosIdeProofs` |
| `RequestsAtomic` | `Spec => StoreSpec` of `PintosIde` | `PintosIdeProofs` |

### Threads, semaphores and locks

For any threads, semaphores, locks and condition variables and any time slice.
None of the first four invariants is inductive by itself. `IInv` adds
`ControlOK` (which registers go with which program counter, and that a thread
being created is blocked and has one creator), `HolderAlive` (a lock's holder has
not exited) and `IdleOK` (`idle_thread` is set exactly when the idle thread has
left its first step, so `schedule` finds a thread even when the ready list is
empty). There is one lemma per action and, below them, lemmas for the operations
actions share: `ScheduleLemma` for every switch of the processor, `UpLemma` for
every `sema_up`, `SleepLemma` and `TakeLemma` for the two outcomes of
`sema_down`. The assumptions are `SchedAssumption` and `SynchAssumption`: main
and idle are two threads, the names of semaphores of different kinds are
disjoint, each condition variable has a lock other than the one of
`allocate_tid`. `TypeOK`, `SchedOK` and `LockOK` of `PintosSynch` are in no run,
since they are proved.

The refinement of locks maps `owner` to whoever is between the `sema_down` of
`lock_acquire` and the `sema_up` of `lock_release`, also before `holder` is set
and after it is cleared. By `LockOK` the semaphore's value tells whether there is
an owner (`OwnerLemma`), so a step that takes the value from 1 to 0 is an
`Acquire` and one that takes it back is a `Release` of the owner. What remains,
action by action (`ContinueLocks`, `CallLocks`), is that no step changes two
values, and that whoever has a lock whose value stays still has it (`LockStep`).

Three more invariants need something on top of `IInv`:

* `TidsUnique` needs `TidInv`: a thread inside `allocate_tid` holds `tid_lock`,
  between its read and its write of `next_tid` the new id equals `next_tid`, and
  every other id is below it. Mutual exclusion makes that one thread.
* `CondOK` needs `CondInv`: a waiter is in one place, on the list of the
  condition variable it waits for, or picked by one thread that will signal it,
  or signalled; its semaphore is 0 until the last.
* `NoLostWakeup` is inductive together with `IInv`. The proof counts: `sema_up`
  adds one to the value and one thread to `Woken`, `sema_down` by a woken thread
  takes one from each, and a thread goes to sleep only while the value is 0. It
  uses `PagesAssumption`, that there are finitely many threads.

### Interrupt queues and console

`QueuesRefineFifo` is for any buffer size of at least two (`IntqAssumption`), any
bytes, threads and readers: each queue of `PintosSerial` implements `Fifo`. The
refinement mapping is `Contents`, the bytes from tail to head; `PutLemma` and
`GetLemma` say what `intq_putc` and `intq_getc` do to it, by case analysis on the
wrap-around; the invariant needed is only that the queues hold bytes (`QType`).

`ConsoleExcludes` and `WaitersServed` rest on `SerialInv`. It says where a thread
may be and which locks it has there (`PlaceOK`), who sleeps in `lock_acquire`
(`ListsOK`), and that the members `not_full` and `not_empty` of a queue point to
exactly the threads asleep for them, which still have to be (`Known`,
`AsleepOK`). `Alone` is the heart of it: between a thread's look at the queue
and its sleep nobody else can do the same, for the transmit queue because of the
console lock, for the input buffer only if one thread reads. So `SerialInv` holds
for any readers, and `WaitersServed` assumes `OneReader`, as the run does; section
6 says what two readers do.

### Page allocator

`PallocCorrect`, `PallocSpec => []PagesOK`, is for any threads, any sizes of the
two pools and any sizes of requests: no page is given to two callers and none is
lost, although `palloc_free_multiple` clears its bits without the lock.
`MallocPages` says the same of `PintosMalloc`. `PagesOK` is not inductive.
`PallocInv` adds that the lock of a pool is held by exactly the thread that scans
or marks in it (`Locked`), that the run it works on is inside the pool
(`RunInPool`, `InPool`), that the part of the run it has already found free stays
free, since others only clear bits (`AheadFree`), that the pages callers have,
the marked part of a run and the part that is not cleared yet are apart from each
other (`Apart`), and that a bit is set exactly for those (`Marked`). The
assumption is `PallocAssumption`: positive page and word sizes, and pools large
enough for their own bitmaps.

### Disk driver

For any threads, one or two devices of any kind, any partition tables, capacity
and width of sector numbers, commands that fail, waits that are given up and
interrupts that arrive at any time, also one from before the kernel. The
invariant is `IdeInv`. Its parts:

* `CommandOK` of a thread in a request: its device is selected; before the
  command it is idle; then `Progress` lists how far the device may be for each
  place of the driver, with nothing outstanding (`NoSignal`) or one interrupt or
  the unit of the semaphore its handler made of it (`Pending`). The sector and
  the data in the device are those of the request.
* `RequestOK`: the lock is held by exactly the thread in a request, except that
  main identifies the disks without it, while it is the only thread. So
  `OneServes`: two threads are never in a request.
* `DeviceOK`: a device that is busy has its command from the thread in a request
  (`OwnerLemma`), and one that has not come back from the reset is no disk.
* Without a command under way the channel is `Calm`: the semaphore is 0, and an
  interrupt is requested only if none was ever expected. Reading the status
  register before a command takes that one away, which is why `NothingLeftOver`
  holds although `expecting_interrupt` is never cleared.
* `BootOK`, `ExaminedOK`, `BlocksOK`: what main is at, and that blocks are on
  disks that answered. `InsideLemma` shows that the checks of `found_partition`
  are enough: a sum of sector numbers that wrapped around is below its first
  term.

`RequestsAtomic` uses the mapping of `PintosIde`: `request` shows a request as
done from the moment the device has fetched the sector (`ReadView`) or stored the
data (`WriteView`) until the lock is given back (`ReleaseView`); the contents are
`media`. Every other step leaves both alone: the thread's own request because
`Progress` says whether it is done, those of other threads because they are not
in a request (`OthersView`). The assumptions are `BlockAssumption`,
`IdeAssumption` and `RequestAssumption`, that `NULL` is not a thread, a number or
a request and that sector 0 of a disk holds a table.

### Only model-checked

Out of the prover's reach and left to TLC: liveness under fairness
(`ReadyRuns`, `TxDrains`, `ReaderServed`, `CallsReturn`, `RequestsReturn`,
`TeardownCompletes`, `LostClientNoticed`, `JobsDeadOnExit`, `KeysSent`), and what
needs induction over data: the lists and hash tables of `PintosHash`, the
parser's `ParserOK`, the byte arrays of files.
The remaining invariants of the shells, the client, the file system,
`malloc`'s arenas, page directories and processes are within reach and have no
proof yet.

## 5. Not modelled

* yashd: `daemon.c`, `transport.c`, `main.c` and the error exits of `server_run`
  are one sequence of system calls at start-up. `log.c` writes one line per call
  under a mutex. Descriptors are not in the models: that a pipe is inherited by
  a child another session forks at that moment (`exec.c:47`) is a hazard no
  property covers. The sockets and pipes of `YashClient` are unbounded, so that
  client, session and job wait for each other with full buffers is outside it.
* Redirections of both shells: a failing one is a child that exits; which file
  a descriptor refers to is not modelled.
* Pintos, devices: `timer_sleep` is a loop of `thread_yield`, and the delay loops,
  `pit.c`, `rtc.c`, `speaker.c` and `shutdown.c` program ports; `vga.c` draws;
  `kbd.c`'s key maps are data, its result reaches `PintosSerial` as a byte.
* Pintos, threads: assembly (`switch.S`, `intr-stubs.S`, `start.S`, `loader.S`) is
  the atomic step it implements; the command line and `bss_init` of `init.c`, the
  set-up of the interrupt descriptor table, `gdt.c` and the layout of the TSS
  are constants of the machine.
* `fsutil.c`: sequences of calls of the file system, without state of its own.
* `process_wait` and the system calls are stubs in this repository; the
  statement that `run` waits for its process is therefore not true of it
  (`init.c:298`).
* `lib/`: strings, `printf`, sorting of arrays, 64-bit division, random numbers
  and the hash functions over bytes (`hash_bytes`) are sequential functions of
  their arguments; a model of them would be the C code again.
* `lib/user`, `examples`, `tests` and `utils` are programs that run on or beside
  the kernel.

## 6. What the models show that a reader of the code may not expect

The properties of section 3 hold; these behaviours are the reason for some of
the conditions in them.

* **Two readers of the keyboard buffer** (`devices/intq.c:48`). After
  `lock_acquire` a second reader calls `wait` without testing the queue again. If
  a byte came in while it slept on the lock, the assertion of `intq.c:91-92`,
  "ASSERT((waiter == &q->not_empty && intq_empty(q)) || ...", fails. With
  `Threads = {main, idle, t1, t2}`, `Readers = {t1, t2}` and `MaxDepth = 0` in
  `MCPintosSerial.cfg`, TLC reports `WaiterOK`, of which `WaitAsserted` is a part.
* **Short reads of the directory** (`filesys/directory.c:151`). When the bounce
  buffer of `inode_read_at` cannot be allocated (`inode.c:206-210`) the read stops
  before the end, `lookup` misses an entry and `dir_add` enters the name again;
  the comment says "inode_read_at() will only return a short read at end of
  file." With `MayFail = {"bounce"}` in `MCPintosFilesys.cfg` TLC reports
  `StoreSpec` (an open does not find a file that is there).
* **fg in yash** (`builtins.c:37`). `do_fg` sends SIGCONT only to a job recorded as
  stopped. A pipeline of which one process has stopped and the other was
  continued, and then ends, is recorded as running: shell and job wait for each
  other, whereas `include/builtins.h:13` says "fg must send SIGCONT to the most
  recent background or stopped process". yashd has the same bookkeeping
  (`jobs.c:174`).
* **A second CTL d** (`session.c:184`) during a foreground job ends the session
  after the job: `jobs_wait_fg` blocks in `waitpid` (`jobs.c:224`) and does not
  notice that its client is gone, of which `PROTOCOL.md:165-166` says "the thread
  must kill all jobs in that session and clean up". Hence `~quit` in
  `LostClientNoticed`; without it TLC finds the counterexample.
* **Jobs that yash forgets** (`exec.c:116-120`). When the table is full, or the
  allocation fails, `jobs_add` refuses a job whose processes already run. The shell
  says so and goes on; the job is in no table, `jobs_kill_all` does not reach it
  and it outlives the shell, whereas `main.c:32` says "All child processes will be
  dead on exit" and `DESIGN.md:219` "guaranteeing no child outlives the shell".
  Hence `owner[p] = "table"` in `JobsDeadOnExit`; without it TLC finds the
  counterexample. yashd kills such a job (`exec.c:124-130`).
* **Sectors of a file that was not created** (`filesys.c:58`). When the name cannot
  be entered, the sector of the inode is given back and those of the data are
  not. `FreeMapOK` says that no sector has two owners, not that each has one.
* **Reused pids** (`Project 1, jobs.c:152`). With `Reuse = TRUE` in `MCYash.cfg`
  TLC reports `Accounting`.
* **Lines that are too long** (`client.c:121`, `session.c:131`). `send_msg` cuts a
  message without keeping its newline, so it is joined with the next one
  (`cut` in `CommandsWhole`). A session drops a full buffer, and what buf_fill
  returns then ends a session that waits at its prompt, where the comment says
  only "drop it".
* **Prompts in output** (`client.c:229`). The client takes the last bytes it has
  read for a prompt; `PromptReturns` speaks of sessions without a background job
  that writes.
* **Nested partition tables** (`partition.c:89`) are read from sector 0, not from
  the sector given, as `TableSector` says. So the entry for
  an extended partition is found again in the table it leads to, there at twice
  its offset. If that sector is past the end of the disk the scan ends; if not, as
  with the table `Endless` of `MCPintosIde`, the kernel reads sector 0 again and
  again until it has no memory left and panics.
* **Errors of disk writes** (`ide.c:371`) are not looked at after the data has been
  taken; the counters of `block.c:124` are not protected. The models leave these
  out, and sizes near the width of `size_t` in `malloc.c`.
