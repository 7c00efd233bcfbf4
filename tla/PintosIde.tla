------------------------------- MODULE PintosIde -------------------------------
(***************************************************************************)
(* The IDE driver (ide.c) with one channel and the devices on it: detection *)
(* and identification of the disks when the kernel starts, then reads and   *)
(* writes by threads that share the channel.  A request waits for the       *)
(* completion interrupt on a semaphore.  The devices are external: each is  *)
(* what the driver sees of it through the registers.                        *)
(*                                                                          *)
(* One action is one access to the registers whose result a device can      *)
(* change, or one operation of the lock or the semaphore.  A wait that the  *)
(* driver gives up may be given up at any time.                             *)
(***************************************************************************)
EXTENDS PintosBlock

CONSTANTS
  Threads, main,   \* the threads; main starts the kernel
  Disks,           \* the devices of the channel: 0, or 0 and 1
  Setups,          \* what is attached: [kind, table] for each device
  Capacity,        \* the sectors of a disk
  MAX_NESTED,      \* bound: calls of read_partition_table that malloc and the
                   \* stack of main have room for
  Values,          \* data that threads write
  blank            \* what the sectors hold at first

ASSUME IdeAssumption ==
  /\ main \in Threads
  /\ Disks \subseteq {0, 1} /\ 0 \in Disks
  /\ Capacity \in Sectors \ {0}
  /\ MAX_NESTED \in Nat \ {0}
  /\ NULL \notin Threads \cup Nat
  /\ \A setup \in Setups : \A d \in Disks : setup[d].table \in Tables

VARIABLES
  kind, media,     \* each device: what it is, and what its sectors hold
  dev,             \* each device: its state, the sector of its command, its buffer
  sel,             \* the selected device
  intrq,           \* is an interrupt requested?
  lock,            \* c->lock: its holder, or NULL
  expecting,       \* c->expecting_interrupt
  completion,      \* the value of c->completion_wait
  is_ata,          \* d->is_ata
  pc, req, buf,    \* each thread: where it is, its request, its buffer
  boot,            \* the device that main examines, or NULL when it has done so
  panic            \* has the kernel stopped?

hardware == <<kind, media, dev, sel, intrq>>
channel == <<lock, expecting, completion>>
vars == <<bvars, hardware, channel, is_ata, pc, req, buf, boot, panic>>

(* A request for a sector of a block, at the sector of the disk. *)
Request(op, disk, sector, data) == [op |-> op, disk |-> disk, sector |-> sector, data |-> data]
NoRequest == Request("none", 0, 0, NULL)

Idle == [st |-> "idle", lba |-> 0, buf |-> NULL]   \* a device without a command

Init ==
  /\ BInit
  /\ \E setup \in Setups :
       /\ kind = [d \in Disks |-> setup[d].kind]
       /\ media = [d \in Disks |-> [s \in 0..Capacity - 1 |-> IF s = 0 THEN setup[d].table ELSE blank]]
  /\ dev = [d \in Disks |-> Idle]
  /\ sel = 0
  /\ intrq \in BOOLEAN
  /\ lock = NULL
  /\ expecting = FALSE
  /\ completion = 0
  /\ is_ata = [d \in Disks |-> FALSE]
  /\ pc = [t \in Threads |-> IF t = main THEN "reset" ELSE "call"]
  /\ req = [t \in Threads |-> NoRequest]
  /\ buf = [t \in Threads |-> NULL]
  /\ boot = 0
  /\ panic = FALSE

Goto(t, l) == pc' = [pc EXCEPT ![t] = l]

-----------------------------------------------------------------------------
(* The devices.  Kinds: a disk; a disk that found its slave faulty; a disk  *)
(* too large; an ATAPI device; nothing.                                     *)
BSY(d) == dev[d].st \in {"reset", "reading", "identifying", "accepting", "writing"}
DRQ(d) == dev[d].st \in {"data", "wanting"}
ErrorReg(d) == IF kind[d] = "absent" THEN 0 ELSE IF kind[d] = "alone" THEN 129 ELSE 1
DRDY(d) == kind[d] # "absent"
AtaSignature(d) == kind[d] \in {"disk", "alone", "huge"}

EndsCommand(d) == dev' = [dev EXCEPT ![d] = Idle]
Proceeds(d, st, data) == dev' = [dev EXCEPT ![d] = [st |-> st, lba |-> @.lba, buf |-> data]]

(* The end of a reset. *)
Ready(d) ==
  /\ dev[d].st = "reset"
  /\ EndsCommand(d)
  /\ UNCHANGED <<media, intrq>>

(* A sector, or the identification, is in the buffer. *)
Fetched(d) ==
  /\ dev[d].st \in {"reading", "identifying"}
  /\ Proceeds(d, "data", IF dev[d].st = "reading" THEN media[d][dev[d].lba] ELSE NULL)
  /\ intrq' = TRUE
  /\ UNCHANGED media

(* The disk is ready for the data of a write: no interrupt. *)
Accepts(d) ==
  /\ dev[d].st = "accepting"
  /\ Proceeds(d, "wanting", dev[d].buf)
  /\ UNCHANGED <<media, intrq>>

(* The data is on the disk. *)
Stored(d) ==
  /\ dev[d].st = "writing"
  /\ media' = [media EXCEPT ![d] = [@ EXCEPT ![dev[d].lba] = dev[d].buf]]
  /\ EndsCommand(d)
  /\ intrq' = TRUE

(* A command fails before any data is transferred. *)
Aborted(d) ==
  /\ dev[d].st \in {"reading", "identifying", "accepting"}
  /\ EndsCommand(d)
  /\ intrq' = TRUE
  /\ UNCHANGED media

DeviceStep(d) ==
  /\ Ready(d) \/ Fetched(d) \/ Accepts(d) \/ Stored(d) \/ Aborted(d)
  /\ UNCHANGED <<bvars, kind, sel, channel, is_ata, pc, req, buf, boot, panic>>

-----------------------------------------------------------------------------
(* What every request does.                                                *)

(* wait_until_idle: reading the status clears an interrupt request.  Faulty *)
(* variant: it reads the alternate status.                                  *)
AltStatus == UNCHANGED intrq
Status == intrq' = FALSE

wait_until_idle(t, next) ==
  /\ Status
  /\ Goto(t, next)
  /\ UNCHANGED <<bvars, kind, media, dev, sel, channel, is_ata, req, buf, boot, panic>>

(* select_device *)
select_device(t, next) ==
  /\ sel' = req[t].disk
  /\ Goto(t, next)
  /\ UNCHANGED <<bvars, kind, media, dev, intrq, channel, is_ata, req, buf, boot, panic>>

(* select_device_wait: wait, select, wait. *)
SelectWait(t) ==
  \/ pc[t] = "idle" /\ wait_until_idle(t, "select")
  \/ pc[t] = "select" /\ select_device(t, "selected")
  \/ pc[t] = "selected" /\ wait_until_idle(t, "issue")

(* The sector registers and issue_pio_command.  A device that is busy does  *)
(* not take the command.                                                    *)
Command == [read |-> "reading", identify |-> "identifying", write |-> "accepting"]

issue_pio_command(t) ==
  /\ pc[t] = "issue"
  /\ expecting' = TRUE
  /\ dev' = [dev EXCEPT ![sel] = IF dev[sel].st = "idle"
       THEN [st |-> Command[req[t].op], lba |-> req[t].sector, buf |-> NULL] ELSE @]
  /\ Goto(t, IF req[t].op = "write" THEN "busy" ELSE "down")
  /\ UNCHANGED <<bvars, kind, media, sel, intrq, lock, completion, is_ata, req, buf, boot, panic>>

(* sema_down(&c->completion_wait) *)
Down(t) ==
  /\ pc[t] = "down"
  /\ completion > 0
  /\ completion' = completion - 1
  /\ Goto(t, IF req[t].op = "write" THEN "release" ELSE "busy")
  /\ UNCHANGED <<bvars, hardware, lock, expecting, is_ata, req, buf, boot, panic>>

(* wait_while_busy returns true ... *)
NotBusy(t) ==
  /\ pc[t] = "busy"
  /\ ~BSY(sel) /\ DRQ(sel)
  /\ Goto(t, IF req[t].op = "write" THEN "output" ELSE "input")
  /\ UNCHANGED <<bvars, hardware, channel, is_ata, req, buf, boot, panic>>

(* ... or false, because the command failed or the wait took too long: the  *)
(* kernel panics, or leaves alone a disk that cannot be identified.         *)
StillBusy(t) ==
  /\ pc[t] = "busy"
  /\ BSY(sel) \/ ~DRQ(sel)
  /\ IF req[t].op = "identify"
     THEN /\ is_ata' = [is_ata EXCEPT ![boot] = FALSE]
          /\ boot' = boot + 1
          /\ Goto(t, "identify")
          /\ UNCHANGED panic
     ELSE /\ panic' = TRUE
          /\ UNCHANGED <<is_ata, boot, pc>>
  /\ UNCHANGED <<bvars, hardware, channel, req, buf>>

input_sector(t) ==
  /\ pc[t] = "input"
  /\ buf' = [buf EXCEPT ![t] = dev[sel].buf]
  /\ EndsCommand(sel)
  /\ Goto(t, IF req[t].op = "identify" THEN "identified" ELSE "release")
  /\ UNCHANGED <<bvars, kind, media, sel, intrq, channel, is_ata, req, boot, panic>>

(* Faulty variant: the completion of a write is not waited for. *)
output_no_wait(t) ==
  /\ pc[t] = "output"
  /\ Proceeds(sel, "writing", req[t].data)
  /\ Goto(t, "release")
  /\ UNCHANGED <<bvars, kind, media, sel, intrq, channel, is_ata, req, buf, boot, panic>>

output_sector(t) ==
  /\ pc[t] = "output"
  /\ Proceeds(sel, "writing", req[t].data)
  /\ Goto(t, "down")
  /\ UNCHANGED <<bvars, kind, media, sel, intrq, channel, is_ata, req, buf, boot, panic>>

(* lock_acquire and lock_release of ide_read and ide_write. *)
Acquire(t) ==
  /\ pc[t] = "lock"
  /\ lock = NULL
  /\ lock' = t
  /\ Goto(t, "idle")
  /\ UNCHANGED <<bvars, hardware, expecting, completion, is_ata, req, buf, boot, panic>>

(* The request is over; the buffer of a reader is the caller's from now on. *)
Release(t) ==
  /\ pc[t] = "release"
  /\ lock' = NULL
  /\ req' = [req EXCEPT ![t] = NoRequest]
  /\ IF boot = NULL
     THEN Goto(t, "call") /\ buf' = [buf EXCEPT ![t] = NULL]
     ELSE Goto(t, "table") /\ UNCHANGED buf
  /\ UNCHANGED <<bvars, hardware, expecting, completion, is_ata, boot, panic>>

(* interrupt_handler.  Faulty variant: an expected interrupt is taken for   *)
(* an unexpected one, and not acknowledged.                                 *)
interrupt_unexpected == intrq /\ UNCHANGED vars

interrupt_handler ==
  /\ intrq
  /\ \/ expecting /\ intrq' = FALSE /\ completion' = completion + 1
     \/ ~expecting /\ UNCHANGED <<intrq, completion>>
  /\ UNCHANGED <<bvars, kind, media, dev, sel, lock, expecting, is_ata, pc, req, buf, boot, panic>>

-----------------------------------------------------------------------------
(* ide_init, executed by main.                                             *)

(* reset_channel: the devices are reset ...                                 *)
reset_channel ==
  /\ pc[main] = "reset"
  /\ dev' = [d \in Disks |-> IF kind[d] = "absent" THEN dev[d] ELSE [dev[d] EXCEPT !.st = "reset"]]
  /\ sel' = 0
  /\ Goto(main, "reset_wait")
  /\ UNCHANGED <<bvars, kind, media, intrq, channel, is_ata, req, buf, boot, panic>>

(* ... and waited for one after the other; what wait_while_busy returns is  *)
(* not looked at.                                                           *)
ResetWait ==
  /\ pc[main] = "reset_wait"
  /\ sel' = IF kind[boot] = "absent" THEN sel ELSE boot
  /\ IF boot + 1 \in Disks
     THEN boot' = boot + 1 /\ UNCHANGED pc
     ELSE boot' = 0 /\ Goto(main, "type")
  /\ UNCHANGED <<bvars, kind, media, dev, intrq, channel, is_ata, req, buf, panic>>

(* check_device_type.  Without a slave, the next step is to identify. *)
check_device_type ==
  LET unknown == \/ ErrorReg(boot) # 1 /\ (ErrorReg(boot) # 129 \/ boot = 1)
                 \/ ~DRDY(boot)
                 \/ BSY(boot)
      maybe == ~unknown \/ ErrorReg(boot) # 129
  IN  /\ pc[main] = "type"
      /\ sel' = boot
      /\ Status
      /\ is_ata' = [is_ata EXCEPT ![boot] = ~unknown /\ AtaSignature(boot)]
      /\ IF boot = 0 /\ maybe /\ 1 \in Disks
         THEN boot' = 1 /\ UNCHANGED pc
         ELSE boot' = 0 /\ Goto(main, "identify")
      /\ UNCHANGED <<bvars, kind, media, dev, channel, req, buf, panic>>

(* The loop that identifies the disks; after it the roles are assigned, and *)
(* unless filesys_init finds no block the threads may use them.             *)
Identify ==
  /\ pc[main] = "identify"
  /\ IF boot \notin Disks
     THEN /\ locate_block_devices
          /\ panic' = (roles'["FILESYS"] = 0)
          /\ boot' = NULL
          /\ Goto(main, "call")
          /\ UNCHANGED req
     ELSE /\ UNCHANGED <<bvars, panic>>
          /\ IF is_ata[boot]
             THEN /\ req' = [req EXCEPT ![main] = Request("identify", boot, 0, NULL)]
                  /\ Goto(main, "idle")
                  /\ UNCHANGED boot
             ELSE boot' = boot + 1 /\ UNCHANGED <<req, pc>>
  /\ UNCHANGED <<hardware, channel, is_ata, buf>>

(* The rest of identify_ata_device: a disk of less than 1 GB is registered. *)
Register ==
  /\ pc[main] = "identified"
  /\ req' = [req EXCEPT ![main] = NoRequest]
  /\ IF kind[boot] = "huge"
     THEN /\ is_ata' = [is_ata EXCEPT ![boot] = FALSE]
          /\ boot' = boot + 1
          /\ Goto(main, "identify")
          /\ UNCHANGED bvars
     ELSE /\ block_register(Block(boot, 0, Capacity, "RAW"))
          /\ partition_scan
          /\ Goto(main, "scan")
          /\ UNCHANGED <<roles, is_ata, boot>>
  /\ UNCHANGED <<hardware, channel, buf, panic>>

(* read_partition_table calls block_read, which calls ide_read.             *)
ReadTable ==
  /\ scan # << >> /\ Top.pt = NULL
  /\ Top.sector < Capacity
  /\ Len(scan) <= MAX_NESTED
  /\ req' = [req EXCEPT ![main] = Request("read", boot, TableSector(Top), NULL)]
  /\ Goto(main, "lock")
  /\ UNCHANGED <<bvars, boot>>

Scan ==
  /\ pc[main] = "scan"
  /\ \/ ReadTable
     \/ scan # << >> /\ PastEnd(Capacity) /\ UNCHANGED <<req, pc, boot>>
     \/ scan # << >> /\ ParseEntry(boot, Capacity) /\ UNCHANGED <<req, pc, boot>>
     \/ /\ scan = << >>
        /\ boot' = boot + 1
        /\ Goto(main, "identify")
        /\ UNCHANGED <<bvars, req>>
  /\ UNCHANGED <<hardware, channel, is_ata, buf, panic>>

GotTable ==
  /\ pc[main] = "table"
  /\ TableRead(buf[main])
  /\ buf' = [buf EXCEPT ![main] = NULL]
  /\ Goto(main, "scan")
  /\ UNCHANGED <<hardware, channel, is_ata, req, boot, panic>>

(* malloc fails in block_register, read_partition_table or found_partition; *)
(* in the end it does if tables nest for ever.                              *)
NoMemory ==
  /\ pc[main] \in {"identified", "scan"}
  /\ pc[main] = "identified" \/ scan # << >>
  /\ panic' = TRUE
  /\ UNCHANGED <<bvars, hardware, channel, is_ata, pc, req, buf, boot>>

-----------------------------------------------------------------------------
(* block_read and block_write of a block that has a role.  The kernel stops *)
(* at a sector past the end of the block or of the disk, and at a write to  *)
(* a partition of another system.                                           *)
InRole == {roles[r] : r \in {"FILESYS", "SCRATCH"}} \ {0}

Permitted(b, op, s) ==
  /\ check_sector(b, s)
  /\ op = "write" => b.type # "FOREIGN"
  /\ ToDisk(b, s) < Capacity

block_access(t, op, n, s, v) ==
  LET b == blocks[n]
  IN  /\ pc[t] = "call"
      /\ boot = NULL
      /\ IF Permitted(b, op, s)
         THEN /\ req' = [req EXCEPT ![t] = Request(op, b.disk, ToDisk(b, s), v)]
              /\ Goto(t, "lock")
              /\ UNCHANGED panic
         ELSE panic' = TRUE /\ UNCHANGED <<req, pc>>
      /\ UNCHANGED <<bvars, hardware, channel, is_ata, buf, boot>>

block_read(t, n, s) == block_access(t, "read", n, s, NULL)
block_write(t, n, s, v) == block_access(t, "write", n, s, v)

-----------------------------------------------------------------------------
Serve(t) ==
  \/ Acquire(t) \/ SelectWait(t) \/ issue_pio_command(t) \/ Down(t) \/ NotBusy(t)
  \/ StillBusy(t) \/ input_sector(t) \/ output_sector(t) \/ Release(t)

Boot ==
  \/ reset_channel \/ ResetWait \/ check_device_type \/ Identify \/ Register
  \/ Scan \/ GotTable

(* The kernel has stopped. *)
Halted == panic /\ UNCHANGED vars

Next ==
  \/ /\ ~panic
     /\ \/ \E t \in Threads :
             \/ Serve(t)
             \/ \E n \in InRole, s \in 0..Capacity - 1 :
                  block_read(t, n, s) \/ \E v \in Values : block_write(t, n, s, v)
        \/ Boot
        \/ NoMemory
        \/ interrupt_handler
        \/ \E d \in Disks : DeviceStep(d)
  \/ Halted

Spec == Init /\ [][Next]_vars

(* Threads run, a device ends what it was asked to do, and interrupts reach *)
(* the processor.  A lock that stays free is acquired, but one that is      *)
(* released may go to a thread that comes later than a waiter: a woken      *)
(* thread tests the semaphore again (synch.c:70).                           *)
Fairness ==
  /\ \A t \in Threads : WF_vars(~panic /\ Serve(t))
  /\ WF_vars(~panic /\ (Boot \/ NoMemory))
  /\ WF_vars(~panic /\ interrupt_handler)
  /\ \A d \in Disks : WF_vars(~panic /\ DeviceStep(d))

FairSpec == Spec /\ Fairness

-----------------------------------------------------------------------------
TypeOK ==
  /\ dev \in [Disks -> [st : {"idle", "reset", "reading", "identifying", "data", "accepting",
                              "wanting", "writing"},
                        lba : 0..Capacity - 1, buf : {blank, NULL} \cup Values \cup {media[d][0] : d \in Disks}]]
  /\ completion \in 0..1
  /\ is_ata \in [Disks -> BOOLEAN]
  /\ lock \in Threads \cup {NULL}

(* A command is given only while nothing of an earlier one is left over: no *)
(* interrupt is requested, the semaphore is 0 and the device is idle and    *)
(* selected.  expecting_interrupt is never cleared, so it is this, and not  *)
(* the flag, that ties an interrupt to its command.                         *)
NothingLeftOver ==
  TypeOK /\ \A t \in Threads : pc[t] = "issue" =>
    completion = 0 /\ ~intrq /\ sel = req[t].disk /\ dev[sel].st = "idle"

(* Every partition lies in its disk (found_partition), although the sums of *)
(* sector numbers wrap around.                                              *)
PartitionsInside == \A n \in DOMAIN blocks : blocks[n].start + blocks[n].size <= Capacity

(* The requests of threads, and the sectors of the disks, as BlockStore     *)
(* sees them: a read takes effect when the disk has fetched the sector, a   *)
(* write when the disk has stored it.                                       *)
Done(t) ==
  \/ pc[t] = "release"
  \/ req[t].op = "read" /\ pc[t] \in {"down", "busy", "input"} /\ dev[req[t].disk].st = "data"
  \/ req[t].op = "write" /\ pc[t] = "down" /\ dev[req[t].disk].st = "idle"

Seen(t) ==
  IF req[t].op # "read" THEN req[t].data
  ELSE IF ~Done(t) THEN NULL
  ELSE IF pc[t] = "release" THEN buf[t] ELSE dev[req[t].disk].buf

request == [t \in Threads |-> IF req[t].op \in {"read", "write"}
  THEN [op |-> req[t].op, disk |-> req[t].disk, sector |-> req[t].sector,
        data |-> Seen(t), done |-> Done(t)]
  ELSE NULL]

Requests == [op : {"read"}, disk : Disks, sector : 0..Capacity - 1, data : {NULL}, done : {FALSE}]
            \cup [op : {"write"}, disk : Disks, sector : 0..Capacity - 1, data : Values, done : {FALSE}]

(* No request is taken for none.                                            *)
ASSUME RequestAssumption ==
  NULL \notin [op : {"read", "write"}, disk : Disks, sector : 0..Capacity - 1,
               data : {NULL, blank} \cup Values \cup Tables, done : BOOLEAN]

Store == INSTANCE BlockStore WITH contents <- media

StoreSpec == Store!Spec

Begins(t) == pc[t] = "call" /\ pc'[t] # "call"

(* Every request returns unless the kernel panics or other threads begin    *)
(* new ones for ever and take the lock each time: no interrupt is lost, and *)
(* no request is left waiting for a channel that nobody uses (ide.c:343-376 *)
(* and 505).  So the kernel, which starts with one thread, comes to its end *)
(* or panics, as it does for a table that nests without end.                *)
RequestsReturn ==
  \A t \in Threads :
    \/ pc[t] # "call" ~> pc[t] = "call" \/ panic
    \/ \E u \in Threads \ {t} : []<><<Begins(u)>>_vars
===============================================================================
