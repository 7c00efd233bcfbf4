---------------------------- MODULE PintosIdeProofs ----------------------------
(***************************************************************************)
(* The IDE driver is correct for any threads, any disks' contents and       *)
(* capacity, and any order of interrupts: a command is given to an idle     *)
(* device with no interrupt of an earlier one outstanding, every partition  *)
(* lies in its disk, and reads and writes by threads that share the channel *)
(* each take effect at one moment.                                          *)
(***************************************************************************)
EXTENDS PintosIde, TLAPS

(* Leaves are for Zenon unless they name another prover.                    *)
USE Zenon

(* Where threads are: at the start of the kernel, in a request, or between. *)
Serving == {"idle", "select", "selected", "issue", "down", "busy", "input", "output", "release",
            "identified"}
Starting == {"reset", "reset_wait", "type", "identify", "identified", "scan", "table"}
PCs == Serving \cup Starting \cup {"call", "lock"}

Data == {blank} \cup Values \cup Tables
States == {"idle", "reset", "reading", "identifying", "data", "accepting", "wanting", "writing"}
Frames == [sector : Nat, primary : Nat, next : Nat \ {0}, pt : Tables \cup {NULL}]

(* The types of the variables; only sector 0 can hold a table.              *)
HardType ==
  /\ media \in [Disks -> [0..Capacity - 1 -> Data]]
  /\ \A d \in Disks : \A s \in 1..Capacity - 1 : media[d][s] \in {blank} \cup Values
  /\ dev \in [Disks -> [st : States, lba : 0..Capacity - 1, buf : Data \cup {NULL}]]
  /\ sel \in Disks

ReqType == [op : {"none", "identify", "read", "write"}, disk : Disks, sector : 0..Capacity - 1,
            data : Values \cup {NULL}]

SoftType ==
  /\ lock \in Threads \cup {NULL} /\ completion \in 0..1
  /\ pc \in [Threads -> PCs]
  /\ req \in [Threads -> ReqType]
  /\ buf \in [Threads -> Data \cup {NULL}]
  /\ boot \in {0, 1, 2, NULL}

FlagType == is_ata \in [Disks -> BOOLEAN]

Registered == [disk : Disks, start : Nat, size : Nat, type : Types \cup {"RAW"}]

BlockType ==
  /\ blocks \in Seq(Registered)
  /\ roles \in [Roles -> Nat]
  /\ scan \in Seq(Frames)

(* What is outstanding on the channel: nothing; an interrupt, or what its   *)
(* handler made of it; or nothing but an interrupt from before the kernel.  *)
NoSignal == ~intrq /\ completion = 0
Pending == completion = IF intrq THEN 0 ELSE 1
Calm == completion = 0 /\ (expecting => ~intrq)

(* A command has been given and is not over for the driver.                 *)
Transfers(t) == pc[t] \in {"down", "busy", "input", "output"}

(* How far the device may be with the command of t.                         *)
Progress(t) ==
  LET op == req[t].op
      st == dev[req[t].disk].st
  IN  \/ /\ NoSignal
         /\ \/ pc[t] = "down" /\ op = "read" /\ st = "reading"
            \/ pc[t] = "down" /\ op = "identify" /\ st = "identifying"
            \/ pc[t] = "down" /\ op = "write" /\ st = "writing"
            \/ pc[t] \in {"busy", "input"} /\ op # "write" /\ st = "data"
            \/ pc[t] = "busy" /\ op # "write" /\ st = "idle"
            \/ pc[t] = "busy" /\ op = "write" /\ st = "accepting"
            \/ pc[t] \in {"busy", "output"} /\ op = "write" /\ st = "wanting"
      \/ /\ Pending
         /\ \/ pc[t] = "down" /\ op # "write" /\ st \in {"data", "idle"}
            \/ pc[t] \in {"down", "busy"} /\ op = "write" /\ st = "idle"

(* A thread in a request has its disk selected and idle, then a command     *)
(* under way with the request's sector and data.                            *)
CommandOK(t) ==
  LET d == req[t].disk
  IN  /\ pc[t] \in {"selected", "issue"} \/ Transfers(t) => sel = d
      /\ pc[t] \in Serving /\ ~Transfers(t) => dev[d].st = "idle"
      /\ pc[t] = "issue" => NoSignal
      /\ Transfers(t) =>
           /\ expecting /\ Progress(t)
           /\ dev[d].st # "idle" => dev[d].lba = req[t].sector
           /\ dev[d].st = "data" => dev[d].buf = IF req[t].op = "read" THEN media[d][req[t].sector] ELSE NULL
           /\ dev[d].st = "writing" => dev[d].buf = req[t].data

(* Who is in a request, with the lock unless the kernel starts.             *)
RequestOK(t) ==
  /\ pc[t] \in Serving \cup {"lock"} => req[t].op # "none" /\ is_ata[req[t].disk]
  /\ pc[t] \notin Serving \cup {"lock"} => req[t].op \in {"none", "identify"}
  /\ pc[t] = "lock" => req[t].op # "identify"
  /\ lock = t <=> pc[t] \in Serving /\ req[t].op # "identify"
  /\ pc[t] \in Serving /\ req[t].op = "identify" => t = main /\ boot \in Disks /\ pc[t] # "release"
  /\ pc[t] = "identified" => req[t].op = "identify"
  /\ req[t].data # NULL => req[t].op = "write"
  /\ req[t].op = "write" => req[t].data \in Values
  /\ t # main => pc[t] \notin Starting

(* While the kernel starts only main runs; boot is the disk it is at, and no *)
(* sector has been written.                                                 *)
BootOK ==
  /\ boot = NULL => pc[main] \notin Starting
  /\ boot # NULL =>
       /\ pc[main] # "call" /\ \A t \in Threads \ {main} : pc[t] = "call"
       /\ pc[main] # "identify" => boot \in Disks
       /\ \A d \in Disks : media[d][0] \in Tables
       /\ pc[main] \in Serving \cup {"lock"} =>
            req[main].disk = boot /\ req[main].sector = 0 /\ req[main].op \in {"identify", "read"}
       /\ pc[main] \in {"release", "table"} => buf[main] \in Tables
       /\ pc[main] \in {"scan", "table"} => is_ata[boot]
       /\ pc[main] = "table" \/ (pc[main] \in Serving \cup {"lock"} /\ req[main].op # "identify") => scan # << >>

(* The blocks are on the disks that main has come to; the one that is being  *)
(* identified has none yet.                                                 *)
Identifies == pc[main] = "identify" \/ (pc[main] \in Serving /\ req[main].op = "identify")

ExaminedOK ==
  /\ boot # NULL => \A n \in DOMAIN blocks :
       blocks[n].disk <= boot /\ (Identifies => blocks[n].disk < boot)
  /\ pc[main] \in {"reset", "reset_wait", "type"} => blocks = << >>
  /\ pc[main] = "reset" => \A d \in Disks : ~is_ata[d]

(* Devices without a command are idle, and one that never came back from    *)
(* the reset is not taken for a disk.                                       *)
DeviceOK(d) ==
  /\ is_ata[d] => dev[d].st # "reset"
  /\ dev[d].st \in {"idle", "reset"} \/ \E t \in Threads : Transfers(t) /\ req[t].disk = d
  /\ dev[d].st \notin {"data", "writing"} => dev[d].buf = NULL

(* The blocks: all on disks that answered, partitions inside of them.       *)
BlocksOK ==
  /\ \A n \in DOMAIN blocks : is_ata[blocks[n].disk] /\ blocks[n].start + blocks[n].size <= Capacity
  /\ \A r \in {"FILESYS", "SCRATCH"} : roles[r] # 0 => roles[r] \in DOMAIN blocks

(* The inductive invariant of PintosIde.                                    *)
IdeInv ==
  /\ HardType /\ SoftType /\ FlagType /\ BlockType
  /\ \A t \in Threads : CommandOK(t) /\ RequestOK(t)
  /\ (\A t \in Threads : ~Transfers(t)) => Calm
  /\ \A d \in Disks : DeviceOK(d)
  /\ BootOK /\ ExaminedOK /\ BlocksOK

-----------------------------------------------------------------------------
(* The constants as the proofs use them: sector numbers are naturals, and   *)
(* the disks are 0 and perhaps 1.                                           *)
LEMMA ConstantsLemma ==
  /\ main \in Threads /\ NULL \notin Threads /\ NULL \notin {0, 1, 2}
  /\ Disks \subseteq {0, 1} /\ 0 \in Disks /\ \A d \in Disks : d \in Nat
  /\ Capacity \in Nat \ {0} /\ 0 \in 0..Capacity - 1
  /\ blank \in Data /\ Values \subseteq Data /\ Tables \subseteq Data
  /\ NoRequest \in ReqType
BY SMTT(20), IdeAssumption, BlockAssumption DEF Sectors, Data, NoRequest, Request, ReqType

(* The state of an idle device, and the one that each command leads to.     *)
LEMMA IdleFields == Idle.st = "idle" /\ Idle.buf = NULL
BY SMTT(20) DEF Idle

LEMMA CommandFields ==
  Command["read"] = "reading" /\ Command["identify"] = "identifying" /\ Command["write"] = "accepting"
BY SMTT(20) DEF Command

(* A block is on a disk that answered.                                      *)
LEMMA BlockLemma ==
  ASSUME IdeInv, NEW n \in DOMAIN blocks
  PROVE  /\ blocks[n] \in Registered /\ blocks[n].disk \in Disks /\ blocks[n].start \in Nat
         /\ is_ata[blocks[n].disk]
<1>1. blocks[n] \in Registered
  BY SMTT(20) DEF IdeInv, BlockType
<1>. QED
  BY <1>1 DEF IdeInv, BlocksOK, Registered

(* One thread at a time is in a request: c->lock, and while the kernel      *)
(* starts main alone, which identifies the disks without the lock.          *)
LEMMA OneServes ==
  ASSUME IdeInv, NEW t \in Threads, NEW u \in Threads, pc[t] \in Serving, pc[u] \in Serving
  PROVE  t = u
BY ZenonT(30), ConstantsLemma DEF IdeInv, RequestOK, BootOK, Serving

(* The start of the kernel establishes the invariant.                       *)
LEMMA InitLemma == Init => IdeInv
<1>. SUFFICES ASSUME Init PROVE IdeInv
  OBVIOUS
<1>1. HardType
  <2>1. PICK setup \in Setups :
          media = [d \in Disks |-> [s \in 0..Capacity - 1 |-> IF s = 0 THEN setup[d].table ELSE blank]]
    BY DEF Init
  <2>2. \A d \in Disks : setup[d].table \in Data
    BY IdeAssumption, ConstantsLemma
  <2>. QED
    BY SMTT(20), <2>1, <2>2, ConstantsLemma DEF Init, HardType, Idle, States
<1>a. SoftType
  <2>1. pc \in [Threads -> PCs]
    BY DEF Init, PCs, Starting
  <2>. QED
    BY SMTT(20), <2>1, ConstantsLemma DEF Init, SoftType
<1>b. FlagType
  BY DEF Init, FlagType
<1>2. BlockType /\ BlocksOK
  BY SMTT(20) DEF Init, BInit, BlockType, BlocksOK, Roles
<1>3. \A t \in Threads : CommandOK(t) /\ RequestOK(t)
  BY ConstantsLemma
  DEF Init, CommandOK, RequestOK, Transfers, Serving, Starting, NoRequest, Request, Idle
<1>4. Calm /\ \A d \in Disks : DeviceOK(d)
  BY DEF Init, Calm, DeviceOK, Idle
<1>5. BootOK /\ ExaminedOK
  BY SMTT(20), ConstantsLemma, IdeAssumption DEF Init, BInit, BootOK, ExaminedOK, Serving
<1>. QED
  BY <1>1, <1>a, <1>b, <1>2, <1>3, <1>4, <1>5 DEF IdeInv

(* A thread outside of a request has no command.                            *)
LEMMA OutsideLemma ==
  ASSUME NEW t \in Threads, pc'[t] \notin Serving
  PROVE  CommandOK(t)'
BY DEF CommandOK, Transfers, Serving

(* CommandOK of a thread that a step leaves alone, and its device.          *)
LEMMA SameCommandLemma ==
  ASSUME NEW t \in Threads, CommandOK(t), pc'[t] = pc[t], req'[t] = req[t],
         dev'[req[t].disk] = dev[req[t].disk], UNCHANGED <<media, sel, intrq, expecting, completion>>
  PROVE  CommandOK(t)'
BY DEF CommandOK, Transfers, Progress, NoSignal, Pending

(* RequestOK of a thread that a step leaves alone.                          *)
LEMMA SameRequestLemma ==
  ASSUME NEW t \in Threads, RequestOK(t), pc'[t] = pc[t], req'[t] = req[t],
         UNCHANGED <<is_ata, boot>>, lock' = t <=> lock = t
  PROVE  RequestOK(t)'
BY SMTT(20) DEF RequestOK

(* The invariant does not depend on the kinds of the devices, and not on    *)
(* whether the kernel has stopped.                                          *)
LEMMA SameLemma ==
  ASSUME IdeInv, UNCHANGED <<bvars, hardware, channel, is_ata, pc, req, buf, boot>>
  PROVE  IdeInv'
<1>1. /\ UNCHANGED <<blocks, roles, scan, media, dev, sel, intrq, lock, expecting, completion>>
      /\ UNCHANGED <<is_ata, pc, req, buf, boot>>
  BY DEF bvars, hardware, channel
<1>2. HardType' /\ SoftType' /\ FlagType' /\ BlockType' /\ BlocksOK'
  BY <1>1 DEF IdeInv, HardType, SoftType, FlagType, BlockType, BlocksOK
<1>5. BootOK' /\ ExaminedOK'
  BY <1>1 DEF IdeInv, BootOK, ExaminedOK, Identifies
<1>3. \A t \in Threads : CommandOK(t)' /\ RequestOK(t)'
  BY <1>1, SameCommandLemma, SameRequestLemma DEF IdeInv
<1>4. ((\A t \in Threads : ~Transfers(t)) => Calm)' /\ \A d \in Disks : DeviceOK(d)'
  BY <1>1 DEF IdeInv, Transfers, Calm, DeviceOK
<1>. QED
  BY <1>2, <1>3, <1>4, <1>5 DEF IdeInv

(* ExaminedOK while the blocks stay and main does not start to identify a   *)
(* disk.                                                                    *)
LEMMA ExaminedLemma ==
  ASSUME ExaminedOK, UNCHANGED <<blocks, boot, is_ata>>, Identifies' => Identifies,
         pc'[main] \in {"reset", "reset_wait", "type"} => pc'[main] = pc[main]
  PROVE  ExaminedOK'
BY DEF ExaminedOK

(* Thread t has given a command to device d.                                *)
Owns(t, d) ==
  /\ Transfers(t) /\ req[t].disk = d /\ expecting /\ sel = d /\ is_ata[d]
  /\ \A u \in Threads : pc[u] \in Serving => u = t
  /\ dev[d].lba = req[t].sector
  /\ dev[d].st # "data" => NoSignal
  /\ dev[d].st = "reading" => pc[t] = "down" /\ req[t].op = "read"
  /\ dev[d].st = "identifying" => pc[t] = "down" /\ req[t].op = "identify"
  /\ dev[d].st = "accepting" => pc[t] = "busy" /\ req[t].op = "write"
  /\ dev[d].st = "writing" =>
       pc[t] = "down" /\ req[t].op = "write" /\ dev[d].buf = req[t].data /\ req[t].data \in Values

(* A device with a command has it from the one thread in a request: the     *)
(* state of the device tells which command that is and how far the driver   *)
(* is with it.                                                              *)
LEMMA OwnerLemma ==
  ASSUME IdeInv, NEW d \in Disks, dev[d].st \notin {"idle", "reset"}
  PROVE  \E t \in Threads : Owns(t, d)
<1>1. PICK t \in Threads : Transfers(t) /\ req[t].disk = d
  BY DEF IdeInv, DeviceOK
<1>2. CommandOK(t) /\ RequestOK(t)
  BY DEF IdeInv
<1>3. pc[t] \in Serving /\ \A u \in Threads : pc[u] \in Serving => u = t
  BY <1>1, OneServes DEF Transfers, Serving
<1>. QED
  BY <1>1, <1>2, <1>3 DEF CommandOK, RequestOK, Progress, Transfers, Owns

(* A device that proceeds with its command, or comes out of the reset,      *)
(* keeps the invariant.  A device with a command is the one that the thread *)
(* in a request waits for, and so what its interrupt will signal.           *)
LEMMA DeviceLemma ==
  ASSUME IdeInv, NEW d \in Disks, DeviceStep(d)
  PROVE  IdeInv'
<1>1. HardType'
  <2>1. CASE Ready(d)
    BY <2>1, ConstantsLemma DEF IdeInv, HardType, DeviceStep, Ready, EndsCommand, Idle, States
  <2>2. CASE Fetched(d)
    BY SMTT(20), <2>2, ConstantsLemma DEF IdeInv, HardType, DeviceStep, Fetched, Proceeds, States
  <2>3. CASE Accepts(d)
    BY <2>3, ConstantsLemma DEF IdeInv, HardType, DeviceStep, Accepts, Proceeds, States
  <2>4. CASE Stored(d)
    <3>1. dev[d].buf \in Values
      BY <2>4, OwnerLemma DEF Stored, Owns
    <3>. QED
      BY SMTT(20), <2>4, <3>1, ConstantsLemma DEF IdeInv, HardType, DeviceStep, Stored, EndsCommand, Idle,
        States
  <2>5. CASE Aborted(d)
    BY <2>5, ConstantsLemma DEF IdeInv, HardType, DeviceStep, Aborted, EndsCommand, Idle, States
  <2>. QED
    BY <2>1, <2>2, <2>3, <2>4, <2>5 DEF DeviceStep
<1>2. SoftType' /\ FlagType' /\ BlockType' /\ BlocksOK' /\ \A t \in Threads : RequestOK(t)'
  BY DEF IdeInv, SoftType, FlagType, BlockType, BlocksOK, RequestOK, DeviceStep, bvars, channel
<1>3. BootOK' /\ ExaminedOK'
  <2>1. boot # NULL => media' = media
    <3>1. Stored(d) => \E t \in Threads : pc[t] = "down" /\ req[t].op = "write"
      BY SMTT(20), OwnerLemma DEF Stored, Owns
    <3>. QED
      BY <3>1, ConstantsLemma DEF IdeInv, BootOK, DeviceStep, Ready, Fetched, Accepts, Aborted, Serving
  <2>. QED
    BY <2>1 DEF IdeInv, BootOK, ExaminedOK, Identifies, DeviceStep, bvars, channel
<1>0. /\ UNCHANGED <<sel, lock, expecting, completion, is_ata, pc, req>>
      /\ \A e \in Disks : e # d => dev'[e] = dev[e]
  BY DEF IdeInv, HardType, DeviceStep, Ready, Fetched, Accepts, Stored, Aborted, EndsCommand, Proceeds, channel
<1>4. CASE Ready(d)
  <2>0. dev[d].st = "reset" /\ dev'[d].st = "idle" /\ dev'[d].buf = NULL /\ UNCHANGED <<media, intrq>>
    BY <1>4, IdleFields DEF IdeInv, HardType, Ready, EndsCommand
  <2>1. \A t \in Threads : pc[t] \in Serving => req[t].disk # d
    <3>1. ~is_ata[d]
      BY <2>0 DEF IdeInv, DeviceOK
    <3>. QED
      BY <3>1 DEF IdeInv, RequestOK
  <2>2. ASSUME NEW t \in Threads PROVE CommandOK(t)'
    <3>1. CASE pc[t] \notin Serving
      BY <1>0, <3>1, OutsideLemma
    <3>2. CASE pc[t] \in Serving
      <4>1. dev'[req[t].disk] = dev[req[t].disk] /\ CommandOK(t)
        BY <1>0, <2>1, <3>2 DEF IdeInv, SoftType, ReqType
      <4>. QED
        BY <1>0, <2>0, <4>1, SameCommandLemma
    <3>. QED
      BY <3>1, <3>2
  <2>3. (\A t \in Threads : ~Transfers(t))' => Calm'
    BY <1>0, <2>0 DEF IdeInv, Transfers, Calm
  <2>4. ASSUME NEW e \in Disks PROVE DeviceOK(e)'
    <3>1. CASE e = d
      BY <2>0, <3>1 DEF DeviceOK
    <3>2. CASE e # d
      BY <1>0, <3>2 DEF IdeInv, DeviceOK, Transfers
    <3>. QED
      BY <3>1, <3>2
  <2>. QED
    BY <1>1, <1>2, <1>3, <2>2, <2>3, <2>4 DEF IdeInv
<1>5. CASE Fetched(d) \/ Accepts(d) \/ Stored(d) \/ Aborted(d)
  <2>1. PICK t \in Threads : Owns(t, d)
    BY <1>5, OwnerLemma DEF Fetched, Accepts, Stored, Aborted
  <2>a. ASSUME Fetched(d)
        PROVE  /\ dev'[d].st = "data" /\ dev'[d].lba = dev[d].lba /\ intrq' = TRUE /\ media' = media
               /\ dev'[d].buf = IF dev[d].st = "reading" THEN media[d][dev[d].lba] ELSE NULL
    <3>. DEFINE data == IF dev[d].st = "reading" THEN media[d][dev[d].lba] ELSE NULL
    <3>1. dev'[d] = [st |-> "data", lba |-> dev[d].lba, buf |-> data] /\ intrq' = TRUE /\ media' = media
      BY <2>a DEF IdeInv, HardType, Fetched, Proceeds
    <3>. HIDE DEF data
    <3>2. dev'[d].st = "data" /\ dev'[d].lba = dev[d].lba /\ dev'[d].buf = data
      BY SMTT(20), <3>1
    <3>. QED
      BY <3>1, <3>2 DEF data
  <2>b. ASSUME Accepts(d)
        PROVE  dev'[d].st = "wanting" /\ dev'[d].lba = dev[d].lba /\ dev'[d].buf = NULL /\ intrq' = intrq
    <3>1. dev'[d] = [st |-> "wanting", lba |-> dev[d].lba, buf |-> dev[d].buf] /\ intrq' = intrq
      BY <2>b DEF IdeInv, HardType, Accepts, Proceeds
    <3>2. dev[d].buf = NULL
      BY <2>b DEF IdeInv, DeviceOK, Accepts
    <3>. QED
      BY SMTT(20), <3>1, <3>2
  <2>c. ASSUME Stored(d) \/ Aborted(d)
        PROVE  dev'[d].st = "idle" /\ dev'[d].buf = NULL /\ intrq' = TRUE
    BY <2>c, IdleFields DEF IdeInv, HardType, Stored, Aborted, EndsCommand
  <2>3. Progress(t)'
    <3>1. CASE Fetched(d)
      BY <1>0, <2>1, <2>a, <3>1 DEF Owns, Fetched, Progress, NoSignal, Pending
    <3>2. CASE Accepts(d)
      BY <1>0, <2>1, <2>b, <3>2 DEF Owns, Accepts, Progress, NoSignal
    <3>3. CASE Stored(d)
      BY <1>0, <2>1, <2>c, <3>3 DEF Owns, Stored, Progress, NoSignal, Pending
    <3>4. CASE Aborted(d)
      BY <1>0, <2>1, <2>c, <3>4 DEF Owns, Aborted, Progress, NoSignal, Pending
    <3>. QED
      BY <1>5, <3>1, <3>2, <3>3, <3>4
  <2>4. CommandOK(t)'
    <3>1. dev'[d].st # "idle" => dev'[d].lba = req[t].sector
      BY <1>5, <2>1, <2>a, <2>b, <2>c DEF Owns
    <3>2. dev'[d].st = "data" => dev'[d].buf = IF req[t].op = "read" THEN media'[d][req[t].sector] ELSE NULL
      <4>1. CASE Fetched(d)
        BY <2>1, <2>a, <4>1 DEF Owns, Fetched
      <4>. QED
        BY <1>5, <2>b, <2>c, <4>1
    <3>3. dev'[d].st # "writing" /\ pc[t] # "issue"
      BY <1>5, <2>1, <2>a, <2>b, <2>c DEF Owns, Transfers
    <3>. QED
      BY <1>0, <2>1, <2>3, <3>1, <3>2, <3>3 DEF Owns, CommandOK, Transfers
  <2>5. \A u \in Threads : CommandOK(u)'
    BY <1>0, <2>1, <2>4, OutsideLemma DEF Owns
  <2>6. Transfers(t)' /\ req'[t].disk = d
    BY <1>0, <2>1 DEF Owns, Transfers
  <2>7. \A e \in Disks : DeviceOK(e)'
    <3>1. DeviceOK(d)'
      BY <1>5, <2>a, <2>b, <2>c, <2>6 DEF DeviceOK
    <3>2. ASSUME NEW e \in Disks, e # d PROVE DeviceOK(e)'
      BY <1>0, <3>2 DEF IdeInv, DeviceOK, Transfers
    <3>. QED
      BY <3>1, <3>2
  <2>. QED
    BY <1>1, <1>2, <1>3, <2>5, <2>6, <2>7 DEF IdeInv
<1>. QED
  BY <1>4, <1>5 DEF DeviceStep

(* What is to be shown of a step of t within a request, which leaves the    *)
(* request, the blocks and the other devices alone.                         *)
LEMMA ServeLemma ==
  ASSUME IdeInv, NEW t \in Threads, pc[t] \in Serving, NEW l \in Serving, Goto(t, l),
         l = "identified" => req[t].op = "identify",
         l = "release" => req[t].op # "identify" /\ (boot # NULL => buf'[t] \in Tables),
         UNCHANGED <<bvars, media, is_ata, req, lock, boot>>,
         HardType', completion' \in 0..1, buf' \in [Threads -> Data \cup {NULL}],
         \A d \in Disks : d # req[t].disk => dev'[d] = dev[d],
         DeviceOK(req[t].disk)', CommandOK(t)', Transfers(t)' \/ Calm'
  PROVE  IdeInv'
<1>. DEFINE disk == req[t].disk
<1>1. \A u \in Threads : u # t => pc[u] \notin Serving /\ pc'[u] = pc[u]
  BY OneServes DEF IdeInv, SoftType, Goto
<1>2. pc'[t] = l /\ CommandOK(t) /\ RequestOK(t) /\ disk \in Disks
  BY DEF IdeInv, SoftType, ReqType, Goto
<1>3. SoftType' /\ FlagType' /\ BlockType' /\ BlocksOK'
  BY DEF IdeInv, SoftType, FlagType, BlockType, BlocksOK, Goto, bvars, PCs
<1>4. \A u \in Threads : CommandOK(u)'
  BY <1>1, OutsideLemma
<1>5. \A u \in Threads : RequestOK(u)'
  <2>1. RequestOK(t)'
    BY <1>2 DEF RequestOK, Serving, Starting
  <2>2. ASSUME NEW u \in Threads, u # t PROVE RequestOK(u)'
    BY <1>1, <2>2, SameRequestLemma DEF IdeInv
  <2>. QED
    BY <2>1, <2>2
<1>6. \A d \in Disks : DeviceOK(d)'
  <2>1. \A d \in Disks : d # disk => dev[d].st \in {"idle", "reset"}
    <3>. SUFFICES ASSUME NEW d \in Disks, d # disk, dev[d].st \notin {"idle", "reset"} PROVE FALSE
      OBVIOUS
    <3>1. PICK u \in Threads : Owns(u, d)
      BY OwnerLemma
    <3>. QED
      BY <1>1, <3>1 DEF Owns, Transfers, Serving
  <2>. QED
    BY <2>1 DEF IdeInv, DeviceOK
<1>7. BootOK'
  <2>1. CASE boot = NULL
    BY <1>1, <1>2, <2>1, ConstantsLemma DEF IdeInv, BootOK, RequestOK, Serving, Starting
  <2>2. CASE boot # NULL
    <3>1. t = main
      BY <2>2 DEF IdeInv, BootOK, Serving
    <3>. QED
      <4>1. BootOK /\ UNCHANGED <<scan, media, req, boot, is_ata>>
        BY DEF IdeInv, bvars
      <4>2. /\ boot \in Disks /\ (\A u \in Threads \ {main} : pc[u] = "call")
            /\ req[main].disk = boot /\ req[main].sector = 0 /\ req[main].op \in {"identify", "read"}
            /\ req[main].op # "identify" => scan # << >>
            /\ \A d \in Disks : media[d][0] \in Tables
        BY <2>2, <3>1, <4>1 DEF BootOK, Serving
      <4>3. pc'[main] = l /\ l \notin {"call", "identify", "table", "scan"}
        BY <1>2, <3>1 DEF Serving
      <4>. QED
        BY <1>1, <2>2, <3>1, <4>1, <4>2, <4>3 DEF BootOK
  <2>. QED
    BY <2>1, <2>2
<1>8. ExaminedOK'
  <2>1. Identifies' => Identifies
    BY <1>1, <1>2, ConstantsLemma DEF Identifies, Serving
  <2>2. pc'[main] \in {"reset", "reset_wait", "type"} => pc'[main] = pc[main]
    BY <1>1, <1>2, ConstantsLemma DEF Serving
  <2>. QED
    BY <2>1, <2>2, ExaminedLemma DEF IdeInv, bvars
<1>9. (\A u \in Threads : ~Transfers(u))' => Calm'
  OBVIOUS
<1>. QED
  BY <1>3, <1>4, <1>5, <1>6, <1>7, <1>8, <1>9 DEF IdeInv

(* The steps of a thread within a request keep the invariant: waiting for   *)
(* idle and selecting (which drop a stale interrupt), the command, the      *)
(* semaphore, and the transfer of the data.                                 *)
LEMMA TransferLemma ==
  ASSUME IdeInv, NEW t \in Threads,
         SelectWait(t) \/ issue_pio_command(t) \/ Down(t) \/ NotBusy(t) \/ input_sector(t) \/ output_sector(t)
  PROVE  IdeInv'
<1>. DEFINE d == req[t].disk
<1>0. /\ d \in Disks /\ pc[t] \in PCs /\ req[t].sector \in 0..Capacity - 1
      /\ req[t].op \in {"none", "identify", "read", "write"}
      /\ CommandOK(t) /\ RequestOK(t) /\ DeviceOK(d) /\ HardType /\ SoftType
  BY DEF IdeInv, SoftType, ReqType
<1>1. ASSUME pc[t] \in Serving, ~Transfers(t) PROVE Calm
  BY <1>1, OneServes DEF IdeInv, Transfers, Serving
<1>2. CASE pc[t] = "idle" /\ wait_until_idle(t, "select")
  <2>1. HardType' /\ DeviceOK(d)' /\ CommandOK(t)' /\ Calm'
    BY <1>0, <1>1, <1>2 DEF wait_until_idle, Status, Goto, HardType, SoftType, ReqType, DeviceOK,
      CommandOK, Transfers, Serving,
      Calm, channel
  <2>. QED
    BY <1>0, <1>2, <2>1, ServeLemma DEF wait_until_idle, Serving, bvars, channel, SoftType
<1>3. CASE pc[t] = "select" /\ select_device(t, "selected")
  <2>1. HardType' /\ DeviceOK(d)' /\ CommandOK(t)' /\ Calm'
    BY <1>0, <1>1, <1>3 DEF select_device, Goto, HardType, SoftType, ReqType, DeviceOK, CommandOK,
      Transfers, Serving,
      Calm, channel
  <2>. QED
    BY <1>0, <1>3, <2>1, ServeLemma DEF select_device, Serving, bvars, channel, SoftType
<1>4. CASE pc[t] = "selected" /\ wait_until_idle(t, "issue")
  <2>1. HardType' /\ DeviceOK(d)' /\ CommandOK(t)' /\ Calm'
    BY <1>0, <1>1, <1>4 DEF wait_until_idle, Status, Goto, HardType, SoftType, ReqType, DeviceOK,
      CommandOK, Transfers, Serving,
      Calm, NoSignal, channel
  <2>. QED
    BY <1>0, <1>4, <2>1, ServeLemma DEF wait_until_idle, Serving, bvars, channel, SoftType
<1>5. CASE issue_pio_command(t)
  <2>0. sel = d /\ dev[d].st = "idle" /\ NoSignal /\ req[t].op \in {"identify", "read", "write"}
    BY <1>0, <1>5 DEF issue_pio_command, CommandOK, RequestOK, Transfers, Serving
  <2>1. /\ dev'[d] = [st |-> Command[req[t].op], lba |-> req[t].sector, buf |-> NULL]
        /\ \A e \in Disks : e # d => dev'[e] = dev[e]
        /\ pc'[t] = IF req[t].op = "write" THEN "busy" ELSE "down"
        /\ Transfers(t)' /\ NoSignal' /\ sel' = sel /\ media' = media /\ req' = req /\ expecting'
    BY <1>0, <1>5, <2>0 DEF issue_pio_command, Goto, HardType, SoftType, NoSignal, Transfers
  <2>2. HardType'
    <3>. DEFINE cmd == [st |-> Command[req[t].op], lba |-> req[t].sector, buf |-> NULL]
    <3>1. Command[req[t].op] \in States
      BY <2>0, CommandFields DEF States
    <3>2. cmd \in [st : States, lba : 0..Capacity - 1, buf : Data \cup {NULL}]
      BY <1>0, <3>1
    <3>3. dev' = [dev EXCEPT ![d] = cmd] /\ UNCHANGED <<media, sel>>
      BY <1>5, <2>0 DEF issue_pio_command
    <3>. HIDE DEF cmd
    <3>. QED
      BY <1>0, <3>2, <3>3 DEF HardType
  <2>a. dev'[d].st = Command[req[t].op] /\ dev'[d].lba = req[t].sector /\ dev'[d].buf = NULL
    BY SMTT(20), <2>1
  <2>3. dev'[d].st \notin {"idle", "reset", "data", "writing"} /\ Progress(t)'
    <3>1. \/ req[t].op = "read" /\ dev'[d].st = "reading" /\ pc'[t] = "down"
          \/ req[t].op = "identify" /\ dev'[d].st = "identifying" /\ pc'[t] = "down"
          \/ req[t].op = "write" /\ dev'[d].st = "accepting" /\ pc'[t] = "busy"
      BY <2>0, <2>1, <2>a, CommandFields
    <3>. QED
      BY <2>1, <3>1 DEF Progress
  <2>4. CommandOK(t)'
    <3>1. /\ Transfers(t)' /\ Progress(t)' /\ expecting' /\ sel' = d /\ pc'[t] # "issue"
          /\ req'[t].disk = d /\ req'[t].sector = req[t].sector
          /\ dev'[d].st # "data" /\ dev'[d].st # "writing"
      BY <2>0, <2>1, <2>3
    <3>. QED
      BY <2>a, <3>1 DEF CommandOK
  <2>5. DeviceOK(d)'
    BY <1>0, <2>1, <2>a, <2>3 DEF DeviceOK
  <2>. QED
    BY <1>0, <1>5, <2>1, <2>2, <2>4, <2>5, ServeLemma DEF issue_pio_command, Serving, bvars, SoftType
<1>6. CASE Down(t)
  <2>0. /\ pc[t] = "down" /\ pc'[t] = IF req[t].op = "write" THEN "release" ELSE "busy"
        /\ UNCHANGED <<hardware, lock, expecting, req>>
        /\ expecting /\ sel = d /\ Progress(t) /\ completion > 0 /\ completion' = completion - 1
    BY <1>0, <1>6 DEF Down, Goto, SoftType, CommandOK, Transfers
  <2>1. /\ ~intrq /\ completion = 1 /\ completion' = 0
        /\ dev[d].st = "idle" \/ (req[t].op # "write" /\ dev[d].st = "data")
    BY SMTT(20), <1>0, <2>0 DEF SoftType, Progress, NoSignal, Pending
  <2>2. Calm' /\ NoSignal' /\ HardType'
    BY <1>0, <2>0, <2>1 DEF Calm, NoSignal, HardType, hardware
  <2>3. DeviceOK(d)' /\ CommandOK(t)'
    <3>1. req[t].op # "write" => Progress(t)' /\ Transfers(t)'
      BY <2>0, <2>1, <2>2 DEF Progress, Transfers, hardware
    <3>2. /\ dev' = dev /\ media' = media /\ sel' = sel /\ req' = req /\ is_ata' = is_ata
          /\ expecting' = expecting
      BY <1>6, <2>0 DEF Down, hardware
    <3>3. CommandOK(t)'
      <4>1. expecting'
        BY <2>0
      <4>. QED
        BY <1>0, <2>0, <2>1, <3>1, <3>2, <4>1 DEF CommandOK, Transfers
    <3>4. DeviceOK(d)'
      BY <1>0, <2>1, <3>1, <3>2 DEF DeviceOK
    <3>. QED
      BY <3>3, <3>4
  <2>. QED
    <3>1. boot # NULL => req[t].op # "write"
      BY <2>0 DEF Serving, BootOK, IdeInv
    <3>2. completion' \in 0..1
      BY SMTT(20), <2>1
    <3>. QED
      BY <1>0, <1>6, <2>0, <2>2, <2>3, <3>1, <3>2, ServeLemma DEF Down, Serving, bvars, SoftType, hardware
<1>7. CASE NotBusy(t)
  <2>1. HardType' /\ DeviceOK(d)' /\ CommandOK(t)' /\ Transfers(t)'
    BY <1>0, <1>7 DEF NotBusy, BSY, DRQ, Goto, HardType, SoftType, ReqType, DeviceOK, CommandOK, Transfers,
      Serving, Progress,
      Pending, NoSignal, hardware, channel
  <2>. QED
    BY <1>0, <1>7, <2>1, ServeLemma DEF NotBusy, Serving, bvars, SoftType, hardware, channel
<1>8. CASE input_sector(t)
  <2>0. /\ sel = d /\ NoSignal /\ dev' = [dev EXCEPT ![d] = Idle] /\ dev'[d] = Idle
        /\ pc'[t] = IF req[t].op = "identify" THEN "identified" ELSE "release"
        /\ req' = req /\ NoSignal'
    BY <1>0, <1>8 DEF input_sector, EndsCommand, Goto, HardType, SoftType, CommandOK, Transfers, Progress,
      NoSignal, channel
  <2>1. HardType' /\ DeviceOK(d)' /\ CommandOK(t)' /\ Calm'
    <3>1. HardType'
      BY <1>0, <1>8, <2>0, ConstantsLemma DEF input_sector, Idle, HardType, States
    <3>2. DeviceOK(d)' /\ CommandOK(t)' /\ Calm'
      BY <2>0, IdleFields DEF DeviceOK, CommandOK, Transfers, Calm, NoSignal
    <3>. QED
      BY <3>1, <3>2
  <2>. QED
    <3>1. /\ dev[d].st = "data" /\ sel = d
          /\ dev[d].buf = IF req[t].op = "read" THEN media[d][req[t].sector] ELSE NULL
      BY <1>0, <1>8 DEF input_sector, CommandOK, Transfers, Progress
    <3>2. boot # NULL /\ req[t].op # "identify" => buf'[t] \in Tables
      <4>1. boot # NULL => req[t].sector = 0 /\ req[t].op # "write" /\ media[d][0] \in Tables
        BY <1>0, <1>8 DEF input_sector, IdeInv, BootOK, Serving
      <4>2. buf'[t] = dev[d].buf /\ req[t].op # "none"
        BY <1>0, <1>8, <3>1 DEF input_sector, SoftType, RequestOK, Serving
      <4>. QED
        BY <1>0, <3>1, <4>1, <4>2
    <3>3. \A e \in Disks : e # d => dev'[e] = dev[e]
      BY <1>0, <1>8, <3>1 DEF input_sector, EndsCommand, HardType
    <3>4. buf' \in [Threads -> Data \cup {NULL}]
      BY <1>0, <1>8, <3>1 DEF input_sector, HardType, SoftType
    <3>. QED
      BY <1>0, <1>8, <2>1, <3>2, <3>3, <3>4, ServeLemma DEF input_sector, Serving, bvars, SoftType, channel
<1>9. CASE output_sector(t)
  <2>1. HardType' /\ DeviceOK(d)' /\ CommandOK(t)' /\ Transfers(t)'
    BY ZenonT(30), <1>0, <1>9, ConstantsLemma DEF output_sector, Proceeds, Goto, HardType, SoftType, ReqType,
      DeviceOK, CommandOK, RequestOK,
      Transfers, Serving, Progress, NoSignal, States, channel
  <2>. QED
    <3>1. \A e \in Disks : e # d => dev'[e] = dev[e]
      BY <1>0, <1>9 DEF output_sector, Proceeds, HardType, CommandOK, Transfers
    <3>. QED
      BY <1>0, <1>9, <2>1, <3>1, ServeLemma DEF output_sector, Serving, bvars, SoftType, channel
<1>. QED
  BY <1>2, <1>3, <1>4, <1>5, <1>6, <1>7, <1>8, <1>9 DEF SelectWait

(* Nobody is in a request: the devices are without a command and nothing is *)
(* outstanding.                                                             *)
LEMMA NobodyServes ==
  ASSUME IdeInv, \A t \in Threads : pc[t] \notin Serving
  PROVE  Calm /\ \A d \in Disks : dev[d].st \in {"idle", "reset"}
BY DEF IdeInv, DeviceOK, Transfers, Serving

(* A thread that takes the lock finds the channel at rest and its disk      *)
(* idle.                                                                    *)
LEMMA AcquireLemma ==
  ASSUME IdeInv, NEW t \in Threads, Acquire(t)
  PROVE  IdeInv'
<1>0. /\ pc[t] = "lock" /\ lock = NULL /\ lock' = t /\ Goto(t, "idle")
      /\ UNCHANGED <<bvars, hardware, expecting, completion, is_ata, req, buf, boot>>
  BY DEF Acquire
<1>1. \A u \in Threads : pc[u] \notin Serving
  BY ConstantsLemma DEF IdeInv, RequestOK, BootOK, Acquire, Serving
<1>2. /\ Calm /\ RequestOK(t) /\ DeviceOK(req[t].disk)
      /\ \A d \in Disks : dev[d].st \in {"idle", "reset"}
  BY <1>1, NobodyServes DEF IdeInv, SoftType, ReqType
<1>3. /\ pc'[t] = "idle" /\ \A u \in Threads : u # t => pc'[u] = pc[u]
      /\ req[t].op \notin {"none", "identify"} /\ req[t].disk \in Disks
  BY <1>0, <1>2 DEF IdeInv, SoftType, ReqType, Goto, RequestOK
<1>4. HardType' /\ SoftType' /\ FlagType' /\ BlockType' /\ BlocksOK'
  BY <1>0 DEF IdeInv, HardType, SoftType, FlagType, BlockType, BlocksOK, Goto, bvars, hardware, PCs, Serving
<1>5. CommandOK(t)'
  <2>1. dev'[req'[t].disk].st = "idle"
    BY <1>0, <1>2, <1>3 DEF RequestOK, DeviceOK, hardware
  <2>. QED
    BY <1>3, <2>1 DEF CommandOK, Transfers
<1>6. RequestOK(t)'
  BY <1>0, <1>2, <1>3 DEF RequestOK, Serving, Starting
<1>7. \A u \in Threads : CommandOK(u)' /\ RequestOK(u)'
  <2>1. ASSUME NEW u \in Threads, u # t PROVE CommandOK(u)' /\ RequestOK(u)'
    BY <1>0, <1>1, <1>3, <2>1, OutsideLemma, SameRequestLemma, ConstantsLemma DEF IdeInv
  <2>. QED
    BY <1>5, <1>6, <2>1
<1>8. Calm' /\ \A d \in Disks : DeviceOK(d)'
  BY <1>0, <1>2 DEF IdeInv, Calm, DeviceOK, hardware
<1>9. BootOK'
  <2>1. boot # NULL => t = main
    BY <1>0 DEF IdeInv, BootOK
  <2>2. pc'[main] \in Starting => pc[main] \in Starting
    BY <1>3, ConstantsLemma DEF Starting
  <2>. QED
    BY <1>0, <1>3, <2>1, <2>2, ConstantsLemma DEF IdeInv, BootOK, bvars, hardware, Serving
<1>10. ExaminedOK'
  <2>1. Identifies' => Identifies
    <3>1. main \in Threads /\ req' = req
      BY <1>0, ConstantsLemma
    <3>. QED
      BY <1>3, <3>1 DEF Identifies
  <2>2. pc'[main] \in {"reset", "reset_wait", "type"} => pc'[main] = pc[main]
    BY <1>3, ConstantsLemma
  <2>. QED
    BY <1>0, <2>1, <2>2, ExaminedLemma DEF IdeInv, bvars
<1>. QED
  BY <1>4, <1>7, <1>8, <1>9, <1>10 DEF IdeInv

(* A thread that gives back the lock leaves the channel at rest and its     *)
(* disk idle.                                                               *)
LEMMA ReleaseLemma ==
  ASSUME IdeInv, NEW t \in Threads, Release(t)
  PROVE  IdeInv'
<1>0. /\ pc[t] = "release" /\ lock' = NULL /\ req' = [req EXCEPT ![t] = NoRequest]
      /\ Goto(t, IF boot = NULL THEN "call" ELSE "table")
      /\ boot # NULL => buf' = buf
      /\ UNCHANGED <<bvars, hardware, expecting, completion, is_ata, boot>>
  BY DEF Release
<1>1. \A u \in Threads : u # t => pc[u] \notin Serving
  BY <1>0, OneServes DEF Serving
<1>2. /\ Calm /\ RequestOK(t) /\ is_ata[req[t].disk] /\ req[t].op \notin {"none", "identify"} /\ lock = t
      /\ \A d \in Disks : dev[d].st \in {"idle", "reset"}
  <2>1. \A u \in Threads : ~Transfers(u)
    BY <1>0, <1>1 DEF Transfers, Serving
  <2>. QED
    BY <1>0, <2>1 DEF IdeInv, DeviceOK, RequestOK, Serving
<1>3. /\ pc'[t] = IF boot = NULL THEN "call" ELSE "table"
      /\ req'[t] = NoRequest
      /\ \A u \in Threads : u # t => pc'[u] = pc[u] /\ req'[u] = req[u]
      /\ boot # NULL => t = main
  BY <1>0 DEF IdeInv, SoftType, Goto, BootOK
<1>4. HardType' /\ FlagType' /\ BlockType' /\ BlocksOK'
  BY <1>0 DEF IdeInv, HardType, FlagType, BlockType, BlocksOK, bvars, hardware
<1>5. SoftType'
  BY ConstantsLemma DEF IdeInv, SoftType, Release, Goto, PCs, Starting
<1>6. RequestOK(t)'
  BY SMTT(20), <1>0, <1>3, ConstantsLemma DEF RequestOK, NoRequest, Request, Serving, Starting
<1>7. \A u \in Threads : CommandOK(u)' /\ RequestOK(u)'
  <2>1. pc'[t] \notin Serving
    BY <1>3 DEF Serving
  <2>2. ASSUME NEW u \in Threads, u # t PROVE CommandOK(u)' /\ RequestOK(u)'
    BY <1>0, <1>1, <1>2, <1>3, <2>2, OutsideLemma, SameRequestLemma, ConstantsLemma DEF IdeInv
  <2>. QED
    BY <1>6, <2>1, <2>2, OutsideLemma
<1>8. Calm' /\ \A d \in Disks : DeviceOK(d)'
  BY <1>0, <1>2 DEF IdeInv, Calm, DeviceOK, hardware
<1>9. BootOK'
  <2>1. CASE boot = NULL
    BY <1>0, <1>3, <2>1, ConstantsLemma DEF IdeInv, BootOK, Starting
  <2>2. CASE boot # NULL
    <3>1. /\ t = main /\ pc'[main] = "table" /\ req[main].disk = boot /\ buf[main] \in Tables
          /\ boot \in Disks /\ scan # << >> /\ is_ata[boot]
          /\ \A d \in Disks : media[d][0] \in Tables
          /\ \A u \in Threads \ {main} : pc'[u] = "call"
      <4>1. BootOK /\ t = main /\ pc[main] = "release" /\ pc'[main] = "table"
        BY <1>0, <1>3, <2>2 DEF IdeInv
      <4>2. \A u \in Threads \ {main} : pc'[u] = "call"
        BY <1>3, <2>2, <4>1 DEF BootOK
      <4>. QED
        BY <1>2, <2>2, <4>1, <4>2 DEF BootOK, Serving
    <3>. QED
      BY <1>0, <2>2, <3>1 DEF BootOK, Serving, bvars, hardware
  <2>. QED
    BY <2>1, <2>2
<1>10. ExaminedOK'
  <2>1. Identifies' => Identifies
    BY <1>0, <1>3, ConstantsLemma DEF Identifies, Serving
  <2>2. pc'[main] \in {"reset", "reset_wait", "type"} => pc'[main] = pc[main]
    BY <1>3, ConstantsLemma
  <2>. QED
    BY <1>0, <2>1, <2>2, ExaminedLemma DEF IdeInv, bvars
<1>. QED
  BY <1>4, <1>5, <1>7, <1>8, <1>9, <1>10 DEF IdeInv

(* The interrupt handler wakes the thread whose command it was for: with a  *)
(* command under way the interrupt is the one that is pending, and without  *)
(* one there is no interrupt unless none is expected.                       *)
LEMMA InterruptLemma ==
  ASSUME IdeInv, interrupt_handler
  PROVE  IdeInv'
<1>u. CASE ~expecting
  BY <1>u, SameLemma DEF interrupt_handler, hardware, channel
<1>e. SUFFICES ASSUME expecting PROVE IdeInv'
  BY <1>u
<1>0. /\ intrq /\ ~intrq' /\ completion' = completion + 1
      /\ UNCHANGED <<bvars, media, dev, sel, lock, expecting, is_ata, pc, req, buf, boot>>
  BY <1>e DEF interrupt_handler
<1>a. ASSUME NEW t \in Threads, Transfers(t) PROVE Progress(t)' /\ completion = 0 /\ expecting
  <2>1. Progress(t) /\ expecting /\ ~NoSignal
    BY <1>0, <1>a DEF IdeInv, CommandOK, NoSignal
  <2>2. Pending
    BY <2>1 DEF Progress
  <2>3. completion = 0 /\ Pending'
    BY SMTT(20), <1>0, <2>1, <2>2 DEF Pending
  <2>. QED
    BY <1>0, <2>1, <2>3 DEF Progress
<1>1. \A t \in Threads : CommandOK(t)'
  BY <1>0, <1>a DEF IdeInv, CommandOK, Transfers, NoSignal
<1>2. completion' \in 0..1 /\ ((\A t \in Threads : ~Transfers(t))' => Calm')
  <2>1. CASE \E t \in Threads : Transfers(t)
    <3>1. completion = 0 /\ expecting /\ \E t \in Threads : Transfers(t)'
      BY <1>0, <1>a, <2>1 DEF Transfers
    <3>2. completion' \in 0..1
      BY SMTT(20), <1>0, <3>1
    <3>. QED
      BY <3>1, <3>2
  <2>2. CASE \A t \in Threads : ~Transfers(t)
    BY <1>0, <1>e, <2>2 DEF IdeInv, Calm
  <2>. QED
    BY <2>1, <2>2
<1>3. HardType' /\ SoftType' /\ FlagType' /\ BlockType' /\ BlocksOK'
  BY <1>0, <1>2 DEF IdeInv, HardType, SoftType, FlagType, BlockType, BlocksOK, bvars
<1>4. (\A t \in Threads : RequestOK(t)') /\ \A d \in Disks : DeviceOK(d)'
  BY ZenonT(30), <1>0 DEF IdeInv, RequestOK, DeviceOK, Transfers
<1>5. BootOK' /\ ExaminedOK'
  BY <1>0 DEF IdeInv, BootOK, ExaminedOK, Identifies, bvars
<1>. QED
  BY <1>1, <1>2, <1>3, <1>4, <1>5 DEF IdeInv

(* A block that has a role is registered.                                   *)
LEMMA InRoleLemma ==
  ASSUME IdeInv, NEW n \in InRole
  PROVE  n \in DOMAIN blocks
<1>1. PICK r \in {"FILESYS", "SCRATCH"} : n = roles[r] /\ n # 0
  BY DEF InRole
<1>. QED
  BY <1>1 DEF IdeInv, BlocksOK

(* A request for a sector of a block goes to a disk that answered, and to a *)
(* sector of it.                                                            *)
LEMMA CallLemma ==
  ASSUME IdeInv, NEW t \in Threads, NEW op \in {"read", "write"}, NEW n \in InRole, NEW s \in 0..Capacity - 1,
         NEW v, IF op = "read" THEN v = NULL ELSE v \in Values, block_access(t, op, n, s, v)
  PROVE  IdeInv'
<1>1. CASE ~Permitted(blocks[n], op, s)
  BY <1>1, SameLemma DEF block_access
<1>2. CASE Permitted(blocks[n], op, s)
  <2>. DEFINE r == Request(op, blocks[n].disk, ToDisk(blocks[n], s), v)
  <2>1. n \in DOMAIN blocks /\ blocks[n].disk \in Disks /\ blocks[n].start \in Nat /\ is_ata[blocks[n].disk]
    <3>1. n \in DOMAIN blocks
      BY InRoleLemma
    <3>. QED
      BY <3>1, BlockLemma
  <2>2. r \in ReqType /\ is_ata[r.disk] /\ r.op = op /\ r.data = v
    <3>1. ToDisk(blocks[n], s) < Capacity
      BY <1>2 DEF Permitted
    <3>. QED
      BY SMTT(20), <2>1, <3>1, ConstantsLemma, BlockAssumption DEF ReqType, Request, ToDisk, Sector
  <2>. HIDE DEF r
  <2>3. /\ pc[t] = "call" /\ boot = NULL /\ req' = [req EXCEPT ![t] = r] /\ pc' = [pc EXCEPT ![t] = "lock"]
        /\ UNCHANGED <<bvars, hardware, channel, is_ata, buf, boot>>
    BY <1>2 DEF block_access, Goto, r
  <2>4. /\ pc'[t] = "lock" /\ req'[t] = r
        /\ \A u \in Threads : u # t => pc'[u] = pc[u] /\ req'[u] = req[u]
    BY <2>3 DEF IdeInv, SoftType
  <2>5. HardType' /\ FlagType' /\ BlockType' /\ BlocksOK'
    BY <2>3 DEF IdeInv, HardType, FlagType, BlockType, BlocksOK, bvars, hardware
  <2>6. SoftType'
    BY <2>2, <2>3 DEF IdeInv, SoftType, PCs, channel
  <2>7. \A u \in Threads : CommandOK(u)' /\ RequestOK(u)'
    <3>1. CommandOK(t)'
      BY <2>4, OutsideLemma DEF Serving
    <3>2. RequestOK(t)'
      <4>1. lock # t
        BY <2>3 DEF IdeInv, RequestOK, Serving
      <4>. QED
        BY <2>2, <2>3, <2>4, <4>1 DEF RequestOK, Serving, Starting, channel
    <3>3. ASSUME NEW u \in Threads, u # t PROVE CommandOK(u)' /\ RequestOK(u)'
      <4>1. CommandOK(u)'
        BY <2>3, <2>4, <3>3, SameCommandLemma DEF IdeInv, hardware, channel
      <4>. QED
        BY <2>3, <2>4, <3>3, <4>1, SameRequestLemma DEF IdeInv, channel
    <3>. QED
      BY <3>1, <3>2, <3>3
  <2>8. ((\A u \in Threads : ~Transfers(u)) => Calm)' /\ \A d \in Disks : DeviceOK(d)'
    <3>1. \A u \in Threads : /\ Transfers(u)' <=> Transfers(u)
                             /\ Transfers(u) => req'[u] = req[u]
      BY <2>3, <2>4 DEF Transfers
    <3>. QED
      <4>1. ((\A u \in Threads : ~Transfers(u)) => Calm)'
        BY <2>3, <3>1 DEF IdeInv, Calm, hardware, channel
      <4>2. ASSUME NEW d \in Disks PROVE DeviceOK(d)'
        <5>1. DeviceOK(d) /\ dev' = dev /\ is_ata' = is_ata
          BY <2>3 DEF IdeInv, hardware
        <5>. QED
          BY <3>1, <5>1 DEF DeviceOK
      <4>. QED
        BY <4>1, <4>2
  <2>9. BootOK' /\ ExaminedOK'
    BY <2>3, <2>4, ConstantsLemma DEF IdeInv, BootOK, ExaminedOK, Starting, bvars
  <2>. QED
    BY <2>5, <2>6, <2>7, <2>8, <2>9 DEF IdeInv
<1>. QED
  BY <1>1, <1>2

(* The steps by which main starts the kernel while no command is under way. *)
(* What is to be shown of one: the rest follows because main is alone.      *)
LEMMA StartLemma ==
  ASSUME IdeInv, boot # NULL, NEW l \in PCs \ {"identified"}, Goto(main, l), l \in Serving => l = "idle",
         HardType', SoftType', FlagType', BlockType', BlocksOK', BootOK', ExaminedOK', RequestOK(main)', Calm',
         \A u \in Threads : u # main => req'[u] = req[u] /\ (lock' = u <=> lock = u),
         \A d \in Disks : /\ dev'[d].st \in {"idle", "reset"} /\ dev'[d].buf = NULL
                          /\ is_ata'[d] => dev'[d].st = "idle"
  PROVE  IdeInv'
<1>1. pc'[main] = l /\ \A u \in Threads : u # main => pc[u] = "call" /\ pc'[u] = "call"
  BY SMTT(20), ConstantsLemma DEF IdeInv, SoftType, BootOK, Goto
<1>2. \A u \in Threads : u # main => CommandOK(u)' /\ RequestOK(u)'
  <2>1. ASSUME NEW u \in Threads, u # main PROVE RequestOK(u)'
    <3>1. RequestOK(u) /\ lock # u
      BY <1>1, <2>1 DEF IdeInv, RequestOK, Serving
    <3>. QED
      BY <1>1, <2>1, <3>1 DEF RequestOK, Serving, Starting
  <2>. QED
    BY <1>1, <2>1, OutsideLemma DEF Serving
<1>3. CommandOK(main)'
  <2>1. CASE l \notin Serving
    BY <1>1, <2>1, OutsideLemma, ConstantsLemma
  <2>2. CASE l = "idle"
    <3>1. req'[main].disk \in Disks /\ is_ata'[req'[main].disk]
      BY <1>1, <2>2, ConstantsLemma DEF SoftType, ReqType, RequestOK, Serving
    <3>. QED
      BY <1>1, <2>2, <3>1 DEF CommandOK, Transfers
  <2>. QED
    BY <2>1, <2>2
<1>4. \A d \in Disks : DeviceOK(d)'
  BY DEF DeviceOK
<1>. QED
  BY <1>2, <1>3, <1>4 DEF IdeInv

(* Until then the devices are without a command, and nothing is outstanding *)
(* but an interrupt from before the kernel.                                 *)
LEMMA AtRest ==
  ASSUME IdeInv, boot # NULL, ~Transfers(main)
  PROVE  /\ Calm
         /\ \A d \in Disks : /\ dev[d].st \in {"idle", "reset"} /\ dev[d].buf = NULL
                             /\ is_ata[d] => dev[d].st = "idle"
<1>1. \A t \in Threads : ~Transfers(t)
  BY DEF IdeInv, BootOK, Transfers
<1>. QED
  BY <1>1 DEF IdeInv, DeviceOK

(* BootOK and RequestOK after such a step. *)
LEMMA BootLemma ==
  ASSUME BootOK, boot # NULL, boot' # NULL, media' = media,
         NEW l \in {"reset_wait", "type", "identify", "scan", "idle", "lock"}, pc'[main] = l,
         \A u \in Threads \ {main} : pc'[u] = pc[u],
         l # "identify" => boot' \in Disks, l = "scan" => is_ata'[boot'],
         l \in {"idle", "lock"} =>
           /\ req'[main].disk = boot' /\ req'[main].sector = 0
           /\ req'[main].op = IF l = "idle" THEN "identify" ELSE "read",
         l = "lock" => scan' # << >>
  PROVE  BootOK'
BY DEF BootOK, Serving

(* RequestOK of main when it goes on with the start of the kernel, with no  *)
(* request under way.                                                       *)
LEMMA FreeLemma ==
  ASSUME IdeInv, pc[main] # "lock", pc[main] \in Serving => req[main].op = "identify",
         pc'[main] \in {"reset_wait", "type", "identify", "scan"}, req'[main] \in {req[main], NoRequest}, lock' = lock
  PROVE  RequestOK(main)'
<1>1. RequestOK(main) /\ lock # main /\ req'[main].op \in {"none", "identify"} /\ req'[main].data = NULL
  BY SMTT(20), ConstantsLemma DEF IdeInv, RequestOK, NoRequest, Request
<1>. QED
  BY <1>1, ConstantsLemma DEF RequestOK, Serving, Starting

(* main is done with a disk, which it has left alone, taken for no disk, or *)
(* scanned.                                                                 *)
LEMMA AdvanceLemma ==
  ASSUME IdeInv, boot \in Disks, Goto(main, "identify"), boot' = boot + 1,
         pc[main] \in Starting \cup {"busy"}, pc[main] = "busy" => req[main].op = "identify",
         UNCHANGED <<bvars, hardware, channel, buf>>,
         req' \in {req, [req EXCEPT ![main] = NoRequest]},
         Calm, \A d \in Disks : dev[d].st \in {"idle", "reset"},
         is_ata' = is_ata \/ (Identifies /\ is_ata' = [is_ata EXCEPT ![boot] = FALSE])
  PROVE  IdeInv'
<1>1. boot \in {0, 1} /\ boot # NULL /\ boot' # NULL /\ boot' \in {0, 1, 2} /\ boot \in Nat
  BY SMTT(20), ConstantsLemma
<1>2. /\ pc'[main] = "identify" /\ \A u \in Threads \ {main} : pc'[u] = pc[u]
      /\ req'[main] \in {req[main], NoRequest} /\ \A u \in Threads : u # main => req'[u] = req[u]
      /\ pc[main] # "lock" /\ (pc[main] \in Serving => req[main].op = "identify")
  BY ConstantsLemma DEF IdeInv, SoftType, Goto, RequestOK, Serving, Starting
<1>3. HardType' /\ FlagType' /\ BlockType'
  BY DEF IdeInv, HardType, FlagType, BlockType, bvars, hardware
<1>4. SoftType'
  <2>1. req' \in [Threads -> ReqType] /\ pc' \in [Threads -> PCs]
    BY SMTT(20), ConstantsLemma DEF IdeInv, SoftType, Goto, PCs, Starting
  <2>. QED
    BY <1>1, <2>1 DEF IdeInv, SoftType, channel
<1>5. ASSUME NEW n \in DOMAIN blocks
      PROVE  blocks[n].disk <= boot' /\ blocks[n].disk < boot' /\ is_ata'[blocks[n].disk]
  <2>1. blocks[n].disk \in Disks /\ blocks[n].disk \in Nat /\ is_ata[blocks[n].disk]
    <3>1. blocks[n].disk \in Disks /\ is_ata[blocks[n].disk]
      BY <1>5, BlockLemma
    <3>. QED
      BY <3>1, ConstantsLemma
  <2>2. blocks[n].disk <= boot /\ (Identifies => blocks[n].disk < boot)
    BY <1>1, <1>5 DEF IdeInv, ExaminedOK
  <2>3. blocks[n].disk <= boot' /\ blocks[n].disk < boot' /\ (Identifies => blocks[n].disk # boot)
    BY SMTT(20), <1>1, <2>1, <2>2
  <2>. QED
    BY <2>1, <2>3 DEF IdeInv, FlagType
<1>6. BlocksOK' /\ ExaminedOK'
  <2>1. ExaminedOK'
    BY <1>1, <1>2, <1>5 DEF ExaminedOK, bvars
  <2>2. BlocksOK'
    BY <1>5 DEF IdeInv, BlocksOK, bvars
  <2>. QED
    BY <2>1, <2>2
<1>7. BootOK' /\ RequestOK(main)'
  BY <1>1, <1>2, BootLemma, FreeLemma DEF IdeInv, hardware, channel
<1>8. \A d \in Disks : /\ dev'[d].st \in {"idle", "reset"} /\ dev'[d].buf = NULL
                       /\ is_ata'[d] => dev'[d].st = "idle"
  <2>1. \A d \in Disks : is_ata'[d] => is_ata[d]
    BY <1>1 DEF IdeInv, FlagType
  <2>. QED
    BY <2>1 DEF IdeInv, DeviceOK, hardware
<1>. QED
  BY <1>1, <1>2, <1>3, <1>4, <1>6, <1>7, <1>8, StartLemma DEF PCs, Starting, Serving, hardware, channel, Calm

(* wait_while_busy gives up: the kernel panics, or main leaves alone a disk *)
(* that did not identify itself.  That disk is idle: its command failed.    *)
LEMMA StillBusyLemma ==
  ASSUME IdeInv, NEW t \in Threads, StillBusy(t)
  PROVE  IdeInv'
<1>1. CASE req[t].op # "identify"
  BY <1>1, SameLemma DEF StillBusy
<1>2. CASE req[t].op = "identify"
  <2>1. t = main /\ boot \in Disks /\ pc[main] = "busy" /\ req[main].op = "identify" /\ CommandOK(main)
    BY <1>2 DEF StillBusy, IdeInv, RequestOK, Serving
  <2>2. boot # NULL /\ req[main].disk = boot /\ \A u \in Threads : u # main => ~Transfers(u)
    BY <2>1, ConstantsLemma DEF IdeInv, BootOK, Serving, Transfers
  <2>3. dev[boot].st = "idle" /\ NoSignal
    <3>1. Progress(main) /\ sel = boot
      BY <2>1, <2>2 DEF CommandOK, Transfers
    <3>. QED
      BY <2>1, <2>2, <3>1 DEF StillBusy, Progress, BSY, DRQ
  <2>4. Calm /\ \A d \in Disks : dev[d].st \in {"idle", "reset"}
    BY <2>2, <2>3 DEF IdeInv, DeviceOK, Calm, NoSignal
  <2>. QED
    BY <1>2, <2>1, <2>4, AdvanceLemma DEF StillBusy, Identifies, Serving
<1>. QED
  BY <1>1, <1>2

(* The reset, and the waits for it.                                         *)
LEMMA ResetLemma ==
  ASSUME IdeInv, reset_channel
  PROVE  IdeInv'
<1>0. /\ boot # NULL /\ boot \in Disks /\ pc[main] = "reset" /\ ~Transfers(main) /\ sel' = 0 /\ Goto(main, "reset_wait")
      /\ UNCHANGED <<bvars, media, intrq, channel, is_ata, req, buf, boot>>
  BY DEF reset_channel, IdeInv, BootOK, Starting, Transfers
<1>1. Calm /\ \A d \in Disks : dev[d].st \in {"idle", "reset"} /\ dev[d].buf = NULL
  BY <1>0, AtRest
<1>2. \A d \in Disks : /\ dev'[d].st \in {"idle", "reset"} /\ dev'[d].buf = NULL
                       /\ dev'[d] \in [st : States, lba : 0..Capacity - 1, buf : Data \cup {NULL}]
  <2>1. ASSUME NEW d \in Disks
        PROVE  /\ dev'[d].st \in {"idle", "reset"} /\ dev'[d].buf = NULL
               /\ dev'[d] \in [st : States, lba : 0..Capacity - 1, buf : Data \cup {NULL}]
    <3>1. /\ dev'[d] \in {dev[d], [dev[d] EXCEPT !.st = "reset"]}
          /\ dev[d] \in [st : States, lba : 0..Capacity - 1, buf : Data \cup {NULL}]
      BY DEF IdeInv, HardType, reset_channel
    <3>. QED
      BY <1>1, <3>1 DEF States
  <2>. QED
    BY <2>1
<1>3. /\ pc'[main] = "reset_wait" /\ \A u \in Threads \ {main} : pc'[u] = pc[u]
      /\ blocks' = << >> /\ \A d \in Disks : ~is_ata'[d]
  BY <1>0, ConstantsLemma DEF IdeInv, SoftType, Goto, ExaminedOK, bvars
<1>4. HardType'
  BY <1>0, <1>2, ConstantsLemma DEF IdeInv, HardType, reset_channel
<1>5. SoftType' /\ FlagType' /\ BlockType' /\ BlocksOK'
  BY <1>0 DEF IdeInv, SoftType, FlagType, BlockType, BlocksOK, Goto, PCs, Starting, bvars, channel
<1>6. ExaminedOK'
  BY SMTT(20), <1>3 DEF ExaminedOK
<1>7. BootOK' /\ RequestOK(main)'
  <2>1. BootOK'
    BY <1>0, <1>3, BootLemma DEF IdeInv
  <2>. QED
    BY <1>0, <1>3, <2>1, FreeLemma DEF Serving, channel
<1>. QED
  BY <1>0, <1>1, <1>2, <1>3, <1>4, <1>5, <1>6, <1>7, StartLemma DEF PCs, Starting, Serving, channel, Calm

(* What is to be shown of the steps after it, up to the identification, in  *)
(* which no device changes.                                                 *)
LEMMA EarlyLemma ==
  ASSUME IdeInv, pc[main] \in {"reset_wait", "type"}, NEW l \in {"reset_wait", "type", "identify"}, Goto(main, l),
         boot \in Disks, boot' \in Disks, sel' \in Disks, FlagType', intrq' => intrq,
         \A d \in Disks : is_ata'[d] => is_ata[d] \/ dev[d].st # "reset",
         UNCHANGED <<bvars, media, dev, channel, req, buf>>
  PROVE  IdeInv'
<1>1. boot # NULL /\ boot' # NULL /\ boot' \in {0, 1, 2} /\ ~Transfers(main) /\ blocks = << >>
  BY ConstantsLemma DEF IdeInv, ExaminedOK, Transfers
<1>2. /\ Calm
      /\ \A d \in Disks : dev[d].st \in {"idle", "reset"} /\ dev[d].buf = NULL /\ (is_ata[d] => dev[d].st = "idle")
  BY <1>1, AtRest
<1>3. pc'[main] = l /\ \A u \in Threads \ {main} : pc'[u] = pc[u]
  BY ConstantsLemma DEF IdeInv, SoftType, Goto
<1>4. HardType' /\ SoftType' /\ BlockType'
  BY <1>1 DEF IdeInv, HardType, SoftType, BlockType, Goto, PCs, Starting, bvars, channel
<1>5. BlocksOK' /\ ExaminedOK'
  <2>1. blocks' = << >> /\ DOMAIN blocks' = {} /\ roles' = roles
    BY SMTT(20), <1>1 DEF bvars
  <2>2. BlocksOK'
    BY <1>1, <2>1 DEF IdeInv, BlocksOK, bvars
  <2>. QED
    BY <1>3, <2>1, <2>2 DEF ExaminedOK
<1>6. BootOK' /\ RequestOK(main)'
  <2>1. BootOK'
    BY <1>1, <1>3, BootLemma DEF IdeInv
  <2>. QED
    BY <1>1, <1>3, <2>1, FreeLemma DEF Serving, channel
<1>7. Calm'
  BY <1>2 DEF Calm, channel
<1>. QED
  BY <1>1, <1>2, <1>3, <1>4, <1>5, <1>6, <1>7, StartLemma DEF PCs, Starting, Serving, channel

(* check_device_type takes for a disk only a device that is not busy.       *)
LEMMA TypeLemma ==
  ASSUME IdeInv, ResetWait \/ check_device_type
  PROVE  IdeInv'
<1>0. boot # NULL /\ boot \in Disks /\ boot \in {0, 1} /\ 0 \in Disks
  BY ConstantsLemma DEF IdeInv, BootOK, ResetWait, check_device_type, Starting
<1>1. CASE ResetWait
  <2>1. \E l \in {"reset_wait", "type"} : Goto(main, l) /\ boot' \in Disks
    BY <1>0, <1>1 DEF ResetWait, Goto, IdeInv, SoftType
  <2>2. sel' \in Disks /\ FlagType'
    BY <1>0, <1>1 DEF ResetWait, IdeInv, HardType, FlagType
  <2>. QED
    BY <1>0, <1>1, <2>1, <2>2, EarlyLemma DEF ResetWait
<1>2. CASE check_device_type
  <2>1. \E l \in {"type", "identify"} : Goto(main, l) /\ boot' \in Disks
    BY ZenonT(30), <1>0, <1>2 DEF check_device_type, Goto, IdeInv, SoftType
  <2>2. FlagType' /\ sel' \in Disks /\ ~intrq'
    BY <1>0, <1>2 DEF check_device_type, Status, IdeInv, FlagType
  <2>3. \A d \in Disks : is_ata'[d] => is_ata[d] \/ dev[d].st # "reset"
    BY <1>0, <1>2 DEF check_device_type, BSY, IdeInv, FlagType
  <2>. QED
    BY <1>0, <1>2, <2>1, <2>2, <2>3, EarlyLemma DEF check_device_type
<1>. QED
  BY <1>1, <1>2

(* The loop that identifies the disks.  At its end the roles go to blocks.  *)
LEMMA IdentifyLemma ==
  ASSUME IdeInv, Identify
  PROVE  IdeInv'
<1>0. /\ boot # NULL /\ pc[main] = "identify" /\ boot \in {0, 1, 2} /\ RequestOK(main) /\ ~Transfers(main)
      /\ UNCHANGED <<hardware, channel, is_ata, buf>>
  BY ConstantsLemma DEF IdeInv, SoftType, BootOK, Identify, Starting, Transfers
<1>1. /\ Calm /\ Calm'
      /\ \A d \in Disks : /\ dev[d].st \in {"idle", "reset"} /\ dev'[d].st \in {"idle", "reset"} /\ dev'[d].buf = NULL
                          /\ is_ata'[d] => dev'[d].st = "idle"
  BY <1>0, AtRest DEF Calm, hardware, channel
<1>2. HardType' /\ FlagType'
  BY <1>0 DEF IdeInv, HardType, FlagType, hardware
<1>3. CASE boot \notin Disks
  <2>1. /\ locate_block_devices /\ boot' = NULL /\ pc' = [pc EXCEPT ![main] = "call"] /\ req' = req
        /\ UNCHANGED <<blocks, scan>>
    BY <1>3 DEF Identify, locate_block_devices, Goto
  <2>2. PICK f, s : /\ roles' = [roles EXCEPT !["FILESYS"] = f, !["SCRATCH"] = s]
                    /\ f \in {0} \cup DOMAIN blocks /\ s \in {0} \cup DOMAIN blocks
    BY <2>1 DEF locate_block_devices, FirstOf
  <2>3. BlockType' /\ BlocksOK'
    BY SMTT(20), <1>0, <2>1, <2>2 DEF IdeInv, BlockType, BlocksOK, Roles
  <2>4. pc'[main] = "call" /\ \A u \in Threads \ {main} : pc'[u] = pc[u]
    BY <2>1, ConstantsLemma DEF IdeInv, SoftType
  <2>5. SoftType'
    BY <1>0, <2>1 DEF IdeInv, SoftType, PCs, channel
  <2>6. BootOK' /\ ExaminedOK'
    BY <2>1, <2>4 DEF BootOK, ExaminedOK, Starting
  <2>7. RequestOK(main)'
    BY <1>0, <2>1, <2>4 DEF RequestOK, Serving, Starting, channel
  <2>. QED
    BY <1>0, <1>1, <1>2, <2>1, <2>3, <2>5, <2>6, <2>7, StartLemma DEF PCs, Starting, Serving, Goto, channel
<1>4. CASE boot \in Disks /\ is_ata[boot]
  <2>. DEFINE r == Request("identify", boot, 0, NULL)
  <2>1. /\ req' = [req EXCEPT ![main] = r] /\ pc' = [pc EXCEPT ![main] = "idle"]
        /\ UNCHANGED <<bvars, boot>>
    BY <1>4 DEF Identify, Goto
  <2>2. r \in ReqType /\ r.op = "identify" /\ r.disk = boot /\ r.sector = 0 /\ r.data = NULL
    BY <1>4, ConstantsLemma DEF Request, ReqType
  <2>. HIDE DEF r
  <2>3. /\ pc'[main] = "idle" /\ req'[main] = r
        /\ \A u \in Threads \ {main} : pc'[u] = pc[u] /\ req'[u] = req[u]
    BY <2>1, ConstantsLemma DEF IdeInv, SoftType
  <2>4. SoftType' /\ BlockType' /\ BlocksOK'
    BY <1>0, <2>1, <2>2 DEF IdeInv, SoftType, BlockType, BlocksOK, PCs, Serving, bvars, channel
  <2>5. BootOK'
    BY <1>0, <1>4, <2>1, <2>2, <2>3, BootLemma DEF IdeInv, hardware
  <2>6. RequestOK(main)'
    BY <1>0, <1>4, <2>1, <2>2, <2>3, ConstantsLemma DEF RequestOK, Serving, Starting, channel
  <2>7. ExaminedOK'
    BY <1>0, <2>1, <2>3, ExaminedLemma DEF IdeInv, Identifies, bvars
  <2>. QED
    BY <1>0, <1>1, <1>2, <2>1, <2>3, <2>4, <2>5, <2>6, <2>7, StartLemma DEF PCs, Serving, Goto, channel
<1>5. CASE boot \in Disks /\ ~is_ata[boot]
  <2>1. Goto(main, "identify") /\ boot' = boot + 1 /\ UNCHANGED <<bvars, req>>
    BY <1>0, <1>5 DEF Identify, Goto, IdeInv, SoftType
  <2>. QED
    BY <1>0, <1>1, <1>5, <2>1, AdvanceLemma DEF Starting
<1>. QED
  BY <1>3, <1>4, <1>5

(* A disk that is registered is a block of its own.                         *)
LEMMA AppendLemma ==
  ASSUME IdeInv, NEW b \in Registered, is_ata[b.disk], b.start + b.size <= Capacity, b.disk = boot,
         block_register(b), UNCHANGED <<roles, is_ata, boot>>, boot \in Disks, ~Identifies',
         pc'[main] \notin {"reset", "reset_wait", "type"}
  PROVE  blocks' \in Seq(Registered) /\ BlocksOK' /\ ExaminedOK'
<1>1. /\ blocks' \in Seq(Registered) /\ \A n \in DOMAIN blocks : n \in DOMAIN blocks'
      /\ \A n \in DOMAIN blocks' : blocks'[n] = b \/ (n \in DOMAIN blocks /\ blocks'[n] = blocks[n])
  BY SMTT(20) DEF block_register, IdeInv, BlockType
<1>2. BlocksOK'
  BY <1>1 DEF IdeInv, BlocksOK
<1>3. boot <= boot /\ boot # NULL
  BY SMTT(20), ConstantsLemma
<1>4. ExaminedOK'
  BY <1>1, <1>3 DEF IdeInv, ExaminedOK
<1>. QED
  BY <1>1, <1>2, <1>4

(* The rest of identify_ata_device.                                         *)
LEMMA RegisterLemma ==
  ASSUME IdeInv, Register
  PROVE  IdeInv'
<1>0. /\ pc[main] = "identified" /\ boot \in Disks /\ boot # NULL /\ req[main].op = "identify" /\ ~Transfers(main)
      /\ is_ata[boot] /\ req' = [req EXCEPT ![main] = NoRequest] /\ UNCHANGED <<hardware, channel, buf>>
  BY ConstantsLemma DEF Register, IdeInv, RequestOK, BootOK, Serving, Transfers
<1>1. Calm /\ \A d \in Disks : dev[d].st \in {"idle", "reset"} /\ dev[d].buf = NULL /\ (is_ata[d] => dev[d].st = "idle")
  BY <1>0, AtRest
<1>2. CASE kind[boot] = "huge"
  BY <1>0, <1>1, <1>2, AdvanceLemma DEF Register, Identifies, Serving, Starting
<1>3. CASE kind[boot] # "huge"
  <2>. DEFINE b == Block(boot, 0, Capacity, "RAW")
  <2>1. block_register(b) /\ scan' = <<Frame(0, 0)>> /\ Goto(main, "scan") /\ UNCHANGED <<roles, is_ata, boot>>
    BY <1>3 DEF Register, partition_scan
  <2>2. b \in Registered /\ b.disk = boot /\ b.start + b.size <= Capacity
    <3>1. b \in Registered /\ b.disk = boot /\ b.start = 0 /\ b.size = Capacity
      <4>1. Capacity \in Nat
        BY ConstantsLemma
      <4>. QED
        BY <1>0, <4>1 DEF Block, Registered
    <3>. QED
      BY SMTT(20), <3>1, ConstantsLemma
  <2>. HIDE DEF b
  <2>3. /\ pc'[main] = "scan" /\ req'[main] = NoRequest
        /\ \A u \in Threads \ {main} : pc'[u] = pc[u] /\ req'[u] = req[u]
    BY <1>0, <2>1, ConstantsLemma DEF IdeInv, SoftType, Goto
  <2>4. blocks' \in Seq(Registered) /\ BlocksOK' /\ ExaminedOK'
    BY <1>0, <2>1, <2>2, <2>3, AppendLemma DEF Identifies, Serving
  <2>5. BlockType'
    <3>1. Frame(0, 0) \in Frames
      BY SMTT(20) DEF Frame, Frames
    <3>. QED
      BY SMTT(20), <2>1, <2>4, <3>1 DEF IdeInv, BlockType
  <2>6. HardType' /\ FlagType' /\ SoftType'
    BY <1>0, <2>1, ConstantsLemma DEF IdeInv, HardType, FlagType, SoftType, Goto, PCs, Starting, hardware,
      channel
  <2>7. BootOK' /\ RequestOK(main)'
    BY <1>0, <2>1, <2>3, BootLemma, FreeLemma DEF IdeInv, hardware, channel
  <2>. QED
    BY <1>0, <1>1, <2>1, <2>3, <2>4, <2>5, <2>6, <2>7, StartLemma DEF PCs, Starting, Serving, hardware,
      channel, Calm
<1>. QED
  BY <1>2, <1>3

(* The calls of read_partition_table that are under way.                    *)
LEMMA TopLemma ==
  ASSUME IdeInv, scan # << >>
  PROVE  Top \in Frames /\ Rest \in Seq(Frames)
BY SMTT(20) DEF IdeInv, BlockType, Top, Rest

(* The members of a call, and a call that goes on to its next entry or has  *)
(* its table.                                                               *)
LEMMA FrameLemma ==
  ASSUME NEW f \in Frames
  PROVE  /\ f.sector \in Nat /\ f.primary \in Nat /\ f.next \in Nat \ {0} /\ f.pt \in Tables \cup {NULL}
         /\ [f EXCEPT !.next = @ + 1] \in Frames
         /\ \A pt \in Tables : [f EXCEPT !.pt = pt] \in Frames
BY SMTT(20) DEF Frames

(* The members of an entry of a partition table.                            *)
LEMMA EntriesLemma ==
  ASSUME NEW pt \in Tables, NEW n \in 1..Len(pt.entries)
  PROVE  /\ pt.entries[n].type \in Types
         /\ pt.entries[n].offset \in Sectors /\ pt.entries[n].size \in Sectors
<1>. DEFINE E == [type : Types, offset : Sectors, size : Sectors]
<1>1. pt.entries \in Seq(E)
  BY DEF Tables
<1>2. pt.entries[n] \in E
  <2>. HIDE DEF E
  <2>. QED
    BY SMTT(20), <1>1
<1>. QED
  BY <1>2

(* A nested call of read_partition_table, or the current one changed.       *)
LEMMA PushLemma ==
  ASSUME NEW rest \in Seq(Frames), NEW f \in Frames
  PROVE  Append(rest, f) \in Seq(Frames)
BY SMTT(20)

(* Sector numbers wrap around at most once in a sum of two of them.         *)
LEMMA WrapLemma ==
  ASSUME NEW m \in Nat \ {0}, NEW x \in Nat
  PROVE  /\ x % m \in Nat
         /\ m <= x /\ x < m + m => x % m = x - m
BY SMTT(20)

(* A sum of sector numbers is a sector number.                              *)
LEMMA SectorLemma ==
  ASSUME NEW x \in Nat, NEW y \in Nat
  PROVE  Sector(x + y) \in Nat
<1>. DEFINE m == 2^SECTOR_BITS
<1>1. m \in Nat \ {0}
  BY BlockAssumption
<1>. HIDE DEF m
<1>2. (x + y) % m \in Nat
  BY SMTT(20), <1>1
<1>. QED
  BY <1>2 DEF Sector, m

(* A sum that wrapped around is below its first term.                       *)
LEMMA SumLemma ==
  ASSUME NEW m \in Nat \ {0}, NEW device \in 0..m - 1, NEW start \in Nat, NEW size \in 0..m - 1,
         NEW end \in Nat, end = start + size,
         start < device, end % m >= start, end % m <= device
  PROVE  end <= device
<1>1. end < m + m
  BY SMTT(20)
<1>2. ~(m <= end)
  <2>1. m <= end => end % m = end - m
    BY <1>1, WrapLemma
  <2>. QED
    BY SMTT(20), <2>1
<1>3. end % m = end
  BY SMTT(20), <1>2
<1>. QED
  BY <1>3

(* So the checks of found_partition are enough.                             *)
LEMMA InsideLemma ==
  ASSUME NEW start \in Nat, NEW size \in Sectors, Inside(start, size, Capacity)
  PROVE  start + size <= Capacity
<1>. DEFINE m == 2^SECTOR_BITS
            end == start + size
<1>1. m \in Nat \ {0} /\ Capacity \in 0..m - 1 /\ size \in 0..m - 1
  BY BlockAssumption, IdeAssumption DEF Sectors
<1>2. start < Capacity /\ end % m >= start /\ end % m <= Capacity
  BY DEF Inside, Sector
<1>. HIDE DEF m
<1>3. end \in Nat
  BY SMTT(20), <1>1
<1>. QED
  BY <1>1, <1>2, <1>3, SumLemma

(* What is to be shown of a step of the scan.                               *)
LEMMA ScanLemma ==
  ASSUME IdeInv, pc[main] \in {"scan", "table"}, Goto(main, "scan"),
         UNCHANGED <<hardware, channel, is_ata, req, boot>>, buf' \in {buf, [buf EXCEPT ![main] = NULL]},
         BlockType', BlocksOK', ExaminedOK'
  PROVE  IdeInv'
<1>1. boot # NULL /\ boot \in Disks /\ is_ata[boot] /\ ~Transfers(main)
  BY DEF IdeInv, BootOK, Starting, Transfers
<1>2. /\ Calm
      /\ \A d \in Disks : dev[d].st \in {"idle", "reset"} /\ dev[d].buf = NULL /\ (is_ata[d] => dev[d].st = "idle")
  BY <1>1, AtRest
<1>3. pc'[main] = "scan" /\ \A u \in Threads \ {main} : pc'[u] = pc[u]
  BY ConstantsLemma DEF IdeInv, SoftType, Goto
<1>4. HardType' /\ FlagType'
  BY DEF IdeInv, HardType, FlagType, hardware
<1>5. SoftType'
  BY DEF IdeInv, SoftType, Goto, PCs, Starting, channel
<1>6. BootOK' /\ RequestOK(main)'
  BY <1>1, <1>3, BootLemma, FreeLemma DEF IdeInv, hardware, channel, Serving
<1>. QED
  BY <1>1, <1>2, <1>3, <1>4, <1>5, <1>6, StartLemma DEF PCs, Starting, Serving, hardware, channel, Calm

(* An entry of a table: a call for an extended partition, a block for a     *)
(* partition inside the disk.                                               *)
LEMMA EntryLemma ==
  ASSUME IdeInv, pc[main] = "scan", scan # << >>, ParseEntry(boot, Capacity), UNCHANGED <<pc, boot, is_ata>>
  PROVE  BlockType' /\ BlocksOK' /\ ExaminedOK'
<1>0. /\ Top \in Frames /\ Rest \in Seq(Frames) /\ Top.pt \in Tables /\ Top.pt # NULL /\ roles' = roles
      /\ boot # NULL /\ boot \in Disks /\ is_ata[boot]
      /\ ~Identifies' /\ ~Identifies /\ pc'[main] = "scan"
  BY TopLemma DEF ParseEntry, Frames, IdeInv, BootOK, Identifies, Serving, Starting
<1>. DEFINE e == Top.pt.entries[Top.next]
            after == Append(Rest, [Top EXCEPT !.next = @ + 1])
            start == Sector(e.offset + Top.sector)
<1>1. ASSUME UNCHANGED blocks PROVE BlocksOK' /\ ExaminedOK' /\ blocks' \in Seq(Registered)
  BY <1>0, <1>1, ExaminedLemma DEF IdeInv, BlockType, BlocksOK
<1>2. CASE Top.next > Len(Top.pt.entries)
  BY <1>0, <1>1, <1>2 DEF ParseEntry, IdeInv, BlockType
<1>3. CASE ~(Top.next > Len(Top.pt.entries))
  <2>1. e.type \in Types /\ e.offset \in Sectors /\ e.size \in Sectors
    <3>1. Top.pt.entries \in Seq([type : Types, offset : Sectors, size : Sectors])
      BY <1>0 DEF Tables
    <3>2. Top.next \in Nat \ {0}
      BY <1>0, FrameLemma
    <3>3. Len(Top.pt.entries) \in Nat
      BY SMTT(20), <3>1
    <3>4. Top.next \in 1..Len(Top.pt.entries)
      BY SMTT(20), <1>3, <3>2, <3>3
    <3>. QED
      BY <1>0, <3>4, EntriesLemma
  <2>2. after \in Seq(Frames)
    BY <1>0, FrameLemma, PushLemma
  <2>3. Top.sector \in Nat /\ Top.primary \in Nat /\ e.offset \in Nat /\ e.size \in Nat
    <3>1. \A x \in Sectors : x \in Nat
      <4>. DEFINE m == 2^SECTOR_BITS
      <4>1. m \in Nat \ {0}
        BY BlockAssumption
      <4>. HIDE DEF m
      <4>2. \A x \in 0..m - 1 : x \in Nat
        BY SMTT(20), <4>1
      <4>. QED
        BY <4>2 DEF Sectors, m
    <3>. QED
      BY <1>0, <2>1, <3>1, FrameLemma
  <2>4. Sector(e.offset + Top.primary) \in Nat /\ start \in Nat
    BY <2>3, SectorLemma
  <2>5. \/ scan' = after /\ UNCHANGED blocks
        \/ \E f \in {Frame(e.offset, e.offset), Frame(Sector(e.offset + Top.primary), Top.primary)} :
             scan' = Append(after, f) /\ UNCHANGED blocks
        \/ scan' = after /\ found_partition(boot, Capacity, e.type, start, e.size)
    BY <1>3 DEF ParseEntry
  <2>. HIDE DEF e, after, start
  <2>6. CASE scan' = after /\ UNCHANGED blocks
    BY <1>0, <1>1, <2>2, <2>6 DEF IdeInv, BlockType
  <2>7. CASE \E f \in {Frame(e.offset, e.offset), Frame(Sector(e.offset + Top.primary), Top.primary)} :
               scan' = Append(after, f) /\ UNCHANGED blocks
    <3>1. Frame(e.offset, e.offset) \in Frames /\ Frame(Sector(e.offset + Top.primary), Top.primary) \in Frames
      BY SMTT(20), <2>3, <2>4 DEF Frame, Frames
    <3>. QED
      BY <1>0, <1>1, <2>2, <2>7, <3>1, PushLemma DEF IdeInv, BlockType
  <2>8. CASE scan' = after /\ found_partition(boot, Capacity, e.type, start, e.size)
    <3>1. CASE ~Inside(start, e.size, Capacity)
      BY <1>0, <1>1, <2>2, <2>8, <3>1 DEF found_partition, IdeInv, BlockType
    <3>2. CASE Inside(start, e.size, Capacity)
      <4>. DEFINE b == Block(boot, start, e.size, e.type)
      <4>1. b \in Registered /\ b.disk = boot /\ b.start = start /\ b.size = e.size
        BY <1>0, <2>1, <2>3, <2>4 DEF Block, Registered
      <4>2. start + e.size <= Capacity
        BY <2>1, <2>4, <3>2, InsideLemma
      <4>3. block_register(b)
        BY <2>8, <3>2 DEF found_partition
      <4>. HIDE DEF b
      <4>4. blocks' \in Seq(Registered) /\ BlocksOK' /\ ExaminedOK'
        BY <1>0, <4>1, <4>2, <4>3, AppendLemma
      <4>. QED
        BY <1>0, <2>2, <2>8, <4>4 DEF IdeInv, BlockType
    <3>. QED
      BY <3>1, <3>2
  <2>. QED
    BY <2>5, <2>6, <2>7, <2>8
<1>. QED
  BY <1>2, <1>3

(* A step of the scan: it reads a table, returns from a call, takes the     *)
(* next entry or goes on to the next disk.                                  *)
LEMMA ScanStep ==
  ASSUME IdeInv, Scan
  PROVE  IdeInv'
<1>0. /\ pc[main] = "scan" /\ boot # NULL /\ boot \in Disks /\ is_ata[boot] /\ ~Transfers(main)
      /\ UNCHANGED <<hardware, channel, is_ata, buf>>
  BY DEF Scan, IdeInv, BootOK, Starting, Transfers
<1>1. /\ Calm
      /\ \A d \in Disks : dev[d].st \in {"idle", "reset"} /\ dev[d].buf = NULL /\ (is_ata[d] => dev[d].st = "idle")
  BY <1>0, AtRest
<1>2. CASE ReadTable
  <2>. DEFINE r == Request("read", boot, 0, NULL)
  <2>1. req' = [req EXCEPT ![main] = r] /\ Goto(main, "lock") /\ scan # << >> /\ UNCHANGED <<bvars, boot>>
    BY <1>2 DEF ReadTable, TableSector
  <2>2. r \in ReqType /\ r.op = "read" /\ r.disk = boot /\ r.sector = 0 /\ r.data = NULL
    BY <1>0, ConstantsLemma DEF Request, ReqType
  <2>. HIDE DEF r
  <2>3. /\ pc'[main] = "lock" /\ req'[main] = r
        /\ \A u \in Threads \ {main} : pc'[u] = pc[u] /\ req'[u] = req[u]
    BY <2>1, ConstantsLemma DEF IdeInv, SoftType, Goto
  <2>4. SoftType' /\ BlockType' /\ BlocksOK'
    BY <1>0, <2>1, <2>2 DEF IdeInv, SoftType, BlockType, BlocksOK, Goto, PCs, bvars, channel
  <2>5. HardType' /\ FlagType'
    BY <1>0 DEF IdeInv, HardType, FlagType, hardware
  <2>6. BootOK'
    BY <1>0, <2>1, <2>2, <2>3, BootLemma DEF IdeInv, hardware, bvars
  <2>7. RequestOK(main)'
    <3>1. lock # main
      BY <1>0, ConstantsLemma DEF IdeInv, RequestOK, Serving
    <3>. QED
      BY <1>0, <2>1, <2>2, <2>3, <3>1 DEF RequestOK, Serving, Starting, channel
  <2>8. ExaminedOK'
    BY <1>0, <2>1, <2>3, ExaminedLemma DEF IdeInv, Identifies, Serving, bvars
  <2>. QED
    BY <1>0, <1>1, <2>1, <2>3, <2>4, <2>5, <2>6, <2>7, <2>8, StartLemma DEF PCs, Serving, hardware,
      channel, Calm
<1>3. CASE scan # << >> /\ PastEnd(Capacity) /\ UNCHANGED <<req, pc, boot>>
  <2>1. BlockType' /\ BlocksOK'
    BY <1>0, <1>3, TopLemma DEF PastEnd, IdeInv, BlockType, BlocksOK
  <2>2. ExaminedOK'
    BY <1>0, <1>3, ExaminedLemma DEF PastEnd, IdeInv, Identifies
  <2>. QED
    BY <1>0, <1>3, <2>1, <2>2, ScanLemma DEF Goto, IdeInv, SoftType
<1>4. CASE scan # << >> /\ ParseEntry(boot, Capacity) /\ UNCHANGED <<req, pc, boot>>
  <2>1. BlockType' /\ BlocksOK' /\ ExaminedOK'
    BY <1>0, <1>4, EntryLemma
  <2>. QED
    BY <1>0, <1>4, <2>1, ScanLemma DEF Goto, IdeInv, SoftType
<1>5. CASE boot' = boot + 1 /\ Goto(main, "identify") /\ UNCHANGED <<bvars, req>>
  BY <1>0, <1>1, <1>5, AdvanceLemma DEF Starting
<1>. QED
  BY <1>2, <1>3, <1>4, <1>5 DEF Scan

(* The table that was read is the one of the call under way.                *)
LEMMA GotTableLemma ==
  ASSUME IdeInv, GotTable
  PROVE  IdeInv'
<1>0. /\ pc[main] = "table" /\ boot # NULL /\ buf[main] \in Tables /\ scan # << >>
      /\ Goto(main, "scan") /\ TableRead(buf[main]) /\ UNCHANGED <<hardware, channel, is_ata, req, boot>>
      /\ buf' = [buf EXCEPT ![main] = NULL] /\ UNCHANGED <<blocks, roles>>
  BY DEF GotTable, TableRead, IdeInv, BootOK, Starting
<1>1. pc'[main] = "scan"
  BY <1>0, ConstantsLemma DEF Goto, IdeInv, SoftType
<1>2. BlockType'
  <2>1. Top \in Frames /\ Rest \in Seq(Frames)
    BY <1>0, TopLemma
  <2>2. [Top EXCEPT !.pt = buf[main]] \in Frames
    BY <1>0, <2>1, FrameLemma
  <2>3. Append(Rest, [Top EXCEPT !.pt = buf[main]]) \in Seq(Frames)
    BY <2>1, <2>2, PushLemma
  <2>. QED
    BY <1>0, <2>1, <2>3 DEF TableRead, IdeInv, BlockType
<1>3. BlocksOK' /\ ExaminedOK'
  <2>1. BlocksOK'
    BY <1>0 DEF IdeInv, BlocksOK
  <2>. QED
    BY <1>0, <1>1, <2>1, ExaminedLemma DEF IdeInv, Identifies, Serving
<1>. QED
  BY <1>0, <1>2, <1>3, ScanLemma

-----------------------------------------------------------------------------
(* Every step of the driver, of the devices and of the start of the kernel  *)
(* keeps the invariant.                                                     *)
THEOREM Inductive == IdeInv /\ [Next]_vars => IdeInv'
<1>. SUFFICES ASSUME IdeInv, [Next]_vars PROVE IdeInv'
  OBVIOUS
<1>1. CASE UNCHANGED vars
  BY <1>1, SameLemma DEF vars
<1>2. ASSUME NEW t \in Threads, Serve(t) PROVE IdeInv'
  BY <1>2, AcquireLemma, TransferLemma, StillBusyLemma, ReleaseLemma DEF Serve
<1>3. ASSUME NEW t \in Threads, NEW n \in InRole, NEW s \in 0..Capacity - 1,
             block_read(t, n, s) \/ \E v \in Values : block_write(t, n, s, v)
      PROVE  IdeInv'
  BY <1>3, CallLemma DEF block_read, block_write
<1>4. CASE Boot
  BY <1>4, ResetLemma, TypeLemma, IdentifyLemma, RegisterLemma, ScanStep, GotTableLemma DEF Boot
<1>5. CASE NoMemory
  BY <1>5, SameLemma DEF NoMemory
<1>6. CASE interrupt_handler
  BY <1>6, InterruptLemma
<1>7. ASSUME NEW d \in Disks, DeviceStep(d) PROVE IdeInv'
  BY <1>7, DeviceLemma
<1>. QED
  BY <1>1, <1>2, <1>3, <1>4, <1>5, <1>6, <1>7 DEF Next, Halted

(* The invariant holds at every moment of every behaviour.                  *)
THEOREM Invariance == Spec => []IdeInv
BY InitLemma, Inductive, PTL DEF Spec

(* Every partition that read_partition_table registers lies inside its      *)
(* disk, whatever the tables say and although sector numbers wrap around.   *)
THEOREM PartitionsFit == Spec => []PartitionsInside
<1>1. IdeInv => PartitionsInside
  BY DEF IdeInv, BlocksOK, PartitionsInside
<1>. QED
  BY <1>1, Invariance, PTL

(* issue_pio_command finds its device selected and idle, the semaphore at 0 *)
(* and no interrupt requested, so the interrupt it waits for is its own.    *)
THEOREM CommandsSeparate == Spec => []NothingLeftOver
<1>1. IdeInv => NothingLeftOver
  <2>. SUFFICES ASSUME IdeInv PROVE NothingLeftOver
    OBVIOUS
  <2>1. ASSUME NEW t \in Threads, pc[t] = "issue"
        PROVE  completion = 0 /\ ~intrq /\ sel = req[t].disk /\ dev[sel].st = "idle"
    BY <2>1 DEF IdeInv, CommandOK, NoSignal, Transfers, Serving
  <2>2. ASSUME NEW d \in Disks
        PROVE  dev[d].buf \in {blank, NULL} \cup Values \cup {media[u][0] : u \in Disks}
    <3>1. CASE dev[d].st \notin {"data", "writing"}
      BY <3>1 DEF IdeInv, DeviceOK
    <3>2. CASE dev[d].st \in {"data", "writing"}
      <4>1. PICK t \in Threads : Owns(t, d)
        BY <3>2, OwnerLemma
      <4>2. req[t].disk = d /\ Transfers(t) /\ CommandOK(t) /\ RequestOK(t) /\ req[t] \in ReqType
        BY <4>1 DEF Owns, IdeInv, SoftType
      <4>3. req[t].sector \in 0..Capacity - 1 /\ req[t].data \in Values \cup {NULL}
        BY <4>2 DEF ReqType
      <4>4. dev[d].buf \in {NULL, media[d][req[t].sector], req[t].data}
        BY <3>2, <4>2 DEF CommandOK
      <4>5. req[t].sector # 0 => media[d][req[t].sector] \in {blank} \cup Values
        <5>1. req[t].sector # 0 => req[t].sector \in 1..Capacity - 1
          BY SMTT(20), <4>3, ConstantsLemma
        <5>. QED
          BY <5>1 DEF IdeInv, HardType
      <4>. QED
        BY <4>3, <4>4, <4>5
    <3>. QED
      BY <3>1, <3>2
  <2>3. TypeOK
    <3>1. /\ completion \in 0..1 /\ is_ata \in [Disks -> BOOLEAN] /\ lock \in Threads \cup {NULL}
          /\ dev \in [Disks -> [st : States, lba : 0..Capacity - 1, buf : Data \cup {NULL}]]
      BY DEF IdeInv, SoftType, FlagType, HardType
    <3>. DEFINE B == {blank, NULL} \cup Values \cup {media[u][0] : u \in Disks}
    <3>2. \A d \in Disks : dev[d].buf \in B
      BY <2>2
    <3>. HIDE DEF B
    <3>3. dev \in [Disks -> [st : States, lba : 0..Capacity - 1, buf : B]]
      BY <3>1, <3>2
    <3>. QED
      BY <3>1, <3>3 DEF TypeOK, States, B
  <2>. QED
    BY <2>1, <2>3 DEF NothingLeftOver
<1>. QED
  BY <1>1, Invariance, PTL

-----------------------------------------------------------------------------
(* What BlockStore sees of a thread, before and after a step.               *)
LEMMA ViewLemma ==
  ASSUME NEW t \in Threads
  PROVE  /\ req[t].op \notin {"read", "write"} => request[t] = NULL
         /\ req'[t].op \notin {"read", "write"} => request'[t] = NULL
         /\ req[t].op \in {"read", "write"} =>
              request[t] = [op |-> req[t].op, disk |-> req[t].disk, sector |-> req[t].sector,
                            data |-> Seen(t), done |-> Done(t)]
         /\ req'[t].op \in {"read", "write"} =>
              request'[t] = [op |-> req'[t].op, disk |-> req'[t].disk, sector |-> req'[t].sector,
                             data |-> Seen(t)', done |-> Done(t)']
BY DEF request

(* Done is TRUE or FALSE, before and after a step.                          *)
LEMMA DoneLemma ==
  ASSUME NEW t \in Threads
  PROVE  /\ Done(t) => Done(t) = TRUE
         /\ ~Done(t) => Done(t) = FALSE
         /\ Done(t)' => Done(t)' = TRUE
         /\ ~Done(t)' => Done(t)' = FALSE
BY DEF Done

(* A step that changes what is seen of t alone.                             *)
LEMMA OneView ==
  ASSUME NEW t \in Threads, \A u \in Threads : u # t => request'[u] = request[u]
  PROVE  request' = [request EXCEPT ![t] = request'[t]]
BY DEF request

(* A step that changes what is seen of no thread.                           *)
LEMMA NoView ==
  ASSUME \A t \in Threads : request'[t] = request[t]
  PROVE  request' = request
BY DEF request

(* What is seen of a request stays while it has not taken effect.           *)
LEMMA PendingView ==
  ASSUME NEW t \in Threads, req'[t] = req[t], ~Done(t), ~Done(t)'
  PROVE  request'[t] = request[t]
<1>1. Seen(t)' = Seen(t) /\ Done(t)' = Done(t)
  BY DoneLemma DEF Seen
<1>. QED
  BY <1>1, ViewLemma

(* What is seen of a thread stays when the step leaves its request and its  *)
(* disk alone.                                                              *)
LEMMA FrozenView ==
  ASSUME NEW t \in Threads, pc'[t] = pc[t], req'[t] = req[t], buf'[t] = buf[t],
         dev'[req[t].disk] = dev[req[t].disk]
  PROVE  request'[t] = request[t]
<1>1. Done(t)' <=> Done(t)
  BY DEF Done
<1>2. Done(t)' = Done(t)
  BY <1>1, DoneLemma
<1>3. Seen(t)' = Seen(t)
  BY <1>1 DEF Seen
<1>. QED
  BY <1>2, <1>3, ViewLemma

(* What is seen of a request that has taken effect stays while it shows the *)
(* same data.                                                               *)
LEMMA DoneView ==
  ASSUME NEW t \in Threads, req'[t] = req[t], Done(t), Done(t)', Seen(t)' = Seen(t)
  PROVE  request'[t] = request[t]
BY DoneLemma, ViewLemma

(* What is seen of a thread that is not in a request stays.                 *)
LEMMA OutsideView ==
  ASSUME NEW t \in Threads, req'[t] = req[t], pc'[t] = pc[t], pc[t] \notin Serving
  PROVE  request'[t] = request[t]
<1>1. ~Done(t) /\ ~Done(t)'
  BY DEF Done, Serving
<1>. QED
  BY <1>1, PendingView

(* A thread without a read or a write before and after the step shows none. *)
LEMMA NoneView ==
  ASSUME NEW t \in Threads, req[t].op \notin {"read", "write"}, req'[t].op \notin {"read", "write"}
  PROVE  request'[t] = request[t]
BY ViewLemma

(* A request is none of what stands for no request.                         *)
LEMMA RequestLemma ==
  ASSUME IdeInv, NEW t \in Threads, req[t].op \in {"read", "write"}
  PROVE  request[t] # NULL
<1>1. req[t] \in ReqType
  BY DEF IdeInv, SoftType
<1>2. req[t].disk \in Disks /\ req[t].sector \in 0..Capacity - 1 /\ req[t].data \in Values \cup {NULL}
  BY <1>1 DEF ReqType
<1>3. Done(t) \in BOOLEAN
  BY DoneLemma
<1>4. Seen(t) \in {NULL, blank} \cup Values \cup Tables
  <2>1. buf[t] \in Data \cup {NULL}
    BY DEF IdeInv, SoftType
  <2>2. dev[req[t].disk].buf \in Data \cup {NULL}
    BY <1>2 DEF IdeInv, HardType
  <2>. QED
    BY <1>2, <2>1, <2>2 DEF Seen, Data
<1>. DEFINE r == [op |-> req[t].op, disk |-> req[t].disk, sector |-> req[t].sector,
                  data |-> Seen(t), done |-> Done(t)]
<1>5. r \in [op : {"read", "write"}, disk : Disks, sector : 0..Capacity - 1,
             data : {NULL, blank} \cup Values \cup Tables, done : BOOLEAN]
  BY <1>2, <1>3, <1>4
<1>6. request[t] = r
  BY ViewLemma
<1>. HIDE DEF r
<1>. QED
  BY <1>5, <1>6, RequestAssumption

(* A step that leaves every request and every device alone.                 *)
LEMMA StillView ==
  ASSUME UNCHANGED <<pc, req, buf, dev>>
  PROVE  request' = request
BY FrozenView, NoView

(* A step of the thread in a request changes what is seen of no other       *)
(* thread.                                                                  *)
LEMMA OthersView ==
  ASSUME IdeInv, NEW t \in Threads, pc[t] \in Serving,
         \A u \in Threads : u # t => pc'[u] = pc[u] /\ req'[u] = req[u]
  PROVE  \A u \in Threads : u # t => request'[u] = request[u]
BY OneServes, OutsideView

(* While the kernel starts, main makes no request but to read a table.      *)
LEMMA BootView ==
  ASSUME IdeInv, boot # NULL, req[main].op \notin {"read", "write"}, req'[main].op \notin {"read", "write"},
         \A u \in Threads : u # main => pc'[u] = pc[u] /\ req'[u] = req[u]
  PROVE  request' = request
<1>1. \A u \in Threads : u # main => pc[u] \notin Serving
  BY DEF IdeInv, BootOK, Serving
<1>2. \A u \in Threads : request'[u] = request[u]
  BY <1>1, OutsideView, NoneView
<1>. QED
  BY <1>2, NoView

(* A request that is made is a call of BlockStore.                          *)
LEMMA CallView ==
  ASSUME IdeInv, NEW t \in Threads, pc[t] \notin Serving, req[t].op \notin {"read", "write"}, pc'[t] = "lock",
         NEW op \in {"read", "write"}, NEW d \in Disks, NEW s \in 0..Capacity - 1,
         NEW v, IF op = "read" THEN v = NULL ELSE v \in Values,
         req'[t] = Request(op, d, s, v),
         \A u \in Threads : u # t => pc'[u] = pc[u] /\ req'[u] = req[u],
         UNCHANGED <<media, dev, buf>>
  PROVE  Store!Call(t)
<1>. DEFINE r == [op |-> op, disk |-> d, sector |-> s, data |-> v, done |-> FALSE]
<1>1. request[t] = NULL
  BY ViewLemma
<1>2. request'[t] = r
  <2>1. Request(op, d, s, v).op = op /\ Request(op, d, s, v).disk = d
        /\ Request(op, d, s, v).sector = s /\ Request(op, d, s, v).data = v
    BY DEF Request
  <2>2. Done(t)' = FALSE
    BY DoneLemma DEF Done
  <2>3. Seen(t)' = v
    BY <2>1, <2>2 DEF Seen
  <2>. QED
    BY <2>1, <2>2, <2>3, ViewLemma
<1>3. r \in Requests /\ ~r.done
  BY DEF Requests
<1>. HIDE DEF r
<1>4. \A u \in Threads : u # t => request'[u] = request[u]
  BY FrozenView
<1>5. request' = [request EXCEPT ![t] = r]
  BY <1>2, <1>4, OneView
<1>. QED
  BY <1>1, <1>3, <1>5 DEF Store!Call

(* The steps of a request between its call and its return are hidden, but   *)
(* for the ones of the device.                                              *)
LEMMA TransferView ==
  ASSUME IdeInv, NEW t \in Threads,
         Acquire(t) \/ SelectWait(t) \/ issue_pio_command(t) \/ Down(t) \/ NotBusy(t) \/ input_sector(t) \/ output_sector(t)
  PROVE  request' = request /\ media' = media
<1>0. /\ media' = media /\ req' = req /\ \A u \in Threads : u # t => pc'[u] = pc[u]
      /\ CommandOK(t) /\ RequestOK(t) /\ pc \in [Threads -> PCs] /\ req[t].disk \in Disks
      /\ buf \in [Threads -> Data \cup {NULL}] /\ dev \in [Disks -> [st : States, lba : 0..Capacity - 1, buf : Data \cup {NULL}]]
  <2>1. media' = media /\ req' = req /\ \E l : Goto(t, l)
    BY DEF Acquire, SelectWait, wait_until_idle, select_device, issue_pio_command, Down, NotBusy, input_sector,
      output_sector, hardware
  <2>. QED
    BY <2>1 DEF IdeInv, HardType, SoftType, ReqType, Goto
<1>1. CASE Acquire(t) \/ SelectWait(t)
  <2>1. ~Done(t) /\ ~Done(t)'
    BY <1>0, <1>1 DEF Acquire, SelectWait, wait_until_idle, select_device, Goto, Done
  <2>2. \A u \in Threads : u # t => request'[u] = request[u]
    <3>1. dev' = dev /\ buf' = buf
      BY <1>1 DEF Acquire, SelectWait, wait_until_idle, select_device, hardware
    <3>. QED
      BY <1>0, <3>1, FrozenView
  <2>. QED
    BY <1>0, <2>1, <2>2, PendingView, NoView
<1>2. ASSUME pc[t] \in Serving, request'[t] = request[t] PROVE request' = request
  BY <1>0, <1>2, OthersView, NoView
<1>3. CASE issue_pio_command(t)
  <2>1. ~Done(t) /\ pc[t] = "issue" /\ sel = req[t].disk /\ dev[sel].st = "idle" /\ req[t].op \in {"identify", "read", "write"}
    BY <1>0, <1>3 DEF issue_pio_command, CommandOK, RequestOK, Transfers, Serving, Done, IdeInv, SoftType,
      ReqType
  <2>2. dev'[sel].st = Command[req[t].op] /\ pc'[t] \in {"busy", "down"}
    BY <1>0, <1>3, <2>1 DEF issue_pio_command, Goto
  <2>3. ~Done(t)'
    BY SMTT(20), <1>0, <2>1, <2>2 DEF Command, Done
  <2>. QED
    BY <1>0, <1>2, <2>1, <2>3, PendingView DEF Serving
<1>4. CASE Down(t)
  <2>1. /\ pc[t] = "down" /\ pc'[t] = (IF req[t].op = "write" THEN "release" ELSE "busy") /\ dev' = dev
        /\ completion > 0 /\ Progress(t)
    BY <1>0, <1>4 DEF Down, Goto, CommandOK, Transfers, hardware
  <2>2. req[t].op = "write" => dev[req[t].disk].st = "idle"
    <3>1. ~NoSignal
      BY SMTT(20), <2>1 DEF NoSignal
    <3>. QED
      BY <2>1, <3>1 DEF Progress
  <2>3. CASE req[t].op = "write"
    BY <1>0, <1>2, <2>1, <2>2, <2>3, DoneView DEF Done, Seen, Serving
  <2>4. CASE req[t].op = "read" /\ dev[req[t].disk].st = "data"
    BY <1>0, <1>2, <2>1, <2>4, DoneView DEF Done, Seen, Serving
  <2>5. CASE req[t].op = "read" /\ dev[req[t].disk].st # "data"
    BY <1>0, <1>2, <2>1, <2>5, PendingView DEF Done, Serving
  <2>6. CASE req[t].op \notin {"read", "write"}
    BY <1>0, <1>2, <2>1, <2>6, NoneView DEF Serving
  <2>. QED
    BY <2>3, <2>4, <2>5, <2>6, <1>0
<1>5. CASE NotBusy(t)
  <2>1. pc[t] = "busy" /\ pc'[t] = (IF req[t].op = "write" THEN "output" ELSE "input") /\ dev' = dev
    BY <1>0, <1>5 DEF NotBusy, Goto, hardware
  <2>2. CASE req[t].op = "read" /\ dev[req[t].disk].st = "data"
    BY <1>0, <1>2, <2>1, <2>2, DoneView DEF Done, Seen, Serving
  <2>3. CASE req[t].op = "write" \/ (req[t].op = "read" /\ dev[req[t].disk].st # "data")
    BY <1>0, <1>2, <2>1, <2>3, PendingView DEF Done, Serving
  <2>4. CASE req[t].op \notin {"read", "write"}
    BY <1>0, <1>2, <2>1, <2>4, NoneView DEF Serving
  <2>. QED
    BY <2>2, <2>3, <2>4, <1>0
<1>6. CASE input_sector(t)
  <2>1. /\ pc[t] = "input" /\ sel = req[t].disk /\ dev[sel].st = "data" /\ req[t].op # "write"
        /\ pc'[t] = (IF req[t].op = "identify" THEN "identified" ELSE "release") /\ buf'[t] = dev[sel].buf
    BY <1>0, <1>6 DEF input_sector, Goto, CommandOK, Transfers, Progress
  <2>2. CASE req[t].op = "read"
    BY <1>0, <1>2, <2>1, <2>2, DoneView DEF Done, Seen, Serving
  <2>3. CASE req[t].op \notin {"read", "write"}
    BY <1>0, <1>2, <2>1, <2>3, NoneView DEF Serving
  <2>. QED
    BY <2>1, <2>2, <2>3, <1>0
<1>7. CASE output_sector(t)
  <2>1. /\ pc[t] = "output" /\ sel = req[t].disk /\ req[t].op = "write" /\ pc'[t] = "down"
        /\ dev'[sel].st = "writing"
    BY <1>0, <1>7 DEF output_sector, Proceeds, Goto, CommandOK, Transfers, Progress
  <2>. QED
    BY <1>0, <1>2, <2>1, PendingView DEF Done, Serving
<1>. QED
  BY <1>1, <1>3, <1>4, <1>5, <1>6, <1>7, <1>0

(* Giving back the lock is the return of the request.                       *)
LEMMA ReleaseView ==
  ASSUME IdeInv, NEW t \in Threads, Release(t)
  PROVE  Store!Return(t)
<1>1. /\ pc[t] = "release" /\ req[t].op \in {"read", "write"} /\ media' = media
      /\ req' = [req EXCEPT ![t] = NoRequest]
  BY DEF Release, IdeInv, SoftType, ReqType, RequestOK, Serving, hardware
<1>2. request[t] # NULL /\ request[t].done
  <2>1. Done(t) = TRUE
    BY <1>1, DoneLemma DEF Done
  <2>2. request[t] = [op |-> req[t].op, disk |-> req[t].disk, sector |-> req[t].sector,
                      data |-> Seen(t), done |-> TRUE]
    BY <1>1, <2>1, ViewLemma
  <2>3. request[t].done = TRUE
    BY SMTT(20), <2>2
  <2>. QED
    BY <1>1, <2>3, RequestLemma
<1>3. request'[t] = NULL
  <2>1. NoRequest.op = "none"
    BY DEF NoRequest, Request
  <2>2. req'[t] = NoRequest
    BY <1>1 DEF IdeInv, SoftType
  <2>. QED
    BY <2>1, <2>2, ViewLemma
<1>4. \A u \in Threads : u # t => request'[u] = request[u]
  <2>1. \A u \in Threads : u # t => pc'[u] = pc[u] /\ req'[u] = req[u]
    BY <1>1 DEF Release, Goto, IdeInv, SoftType
  <2>. QED
    BY <1>1, <2>1, OthersView DEF Serving
<1>5. request' = [request EXCEPT ![t] = NULL]
  BY <1>3, <1>4, OneView
<1>. QED
  BY <1>1, <1>2, <1>5 DEF Store!Return

(* A read takes effect when the device has fetched the sector ...           *)
LEMMA ReadView ==
  ASSUME IdeInv, NEW d \in Disks, DeviceStep(d), Fetched(d), NEW t \in Threads, Owns(t, d), req[t].op = "read"
  PROVE  Store!Read(t)
<1>. DEFINE r == request[t]
            v == media[d][req[t].sector]
<1>1. /\ pc[t] = "down" /\ dev[d].st = "reading" /\ req[t].disk = d /\ dev[d].lba = req[t].sector
      /\ UNCHANGED <<media, pc, req>> /\ dev \in [Disks -> [st : States, lba : 0..Capacity - 1, buf : Data \cup {NULL}]]
  BY DEF Owns, Fetched, DeviceStep, IdeInv, HardType
<1>2. dev'[d] = [st |-> "data", lba |-> req[t].sector, buf |-> v]
  BY <1>1 DEF Fetched, Proceeds
<1>3. Done(t) = FALSE /\ Done(t)' = TRUE /\ Seen(t) = NULL /\ Seen(t)' = v
  <2>0. dev'[d].st = "data" /\ dev'[d].buf = v
    BY SMTT(20), <1>2
  <2>1. ~Done(t) /\ Done(t)'
    BY <1>1, <2>0 DEF Done
  <2>2. Seen(t) = NULL /\ Seen(t)' = v
    <3>. HIDE DEF v
    <3>. QED
      BY <1>1, <2>0, <2>1 DEF Seen
  <2>. QED
    BY <2>1, <2>2, DoneLemma
<1>4. /\ r = [op |-> "read", disk |-> d, sector |-> req[t].sector, data |-> NULL, done |-> FALSE]
      /\ request'[t] = [op |-> "read", disk |-> d, sector |-> req[t].sector, data |-> v, done |-> TRUE]
  BY <1>1, <1>3, ViewLemma
<1>5. request' = [request EXCEPT ![t] = request'[t]]
  BY <1>1, OthersView, OneView DEF Serving
<1>6. r # NULL
  BY RequestLemma
<1>. HIDE DEF r, v
<1>7. r.op = "read" /\ r.disk = d /\ r.sector = req[t].sector /\ r.done = FALSE
  BY <1>4
<1>8. request'[t] = Store!Effect(r, v)
  BY <1>4, <1>7 DEF Store!Effect
<1>. QED
  BY <1>1, <1>5, <1>6, <1>7, <1>8 DEF Store!Read, r, v

(* ... and a write when it has stored the data.                             *)
LEMMA WriteView ==
  ASSUME IdeInv, NEW d \in Disks, DeviceStep(d), Stored(d), NEW t \in Threads, Owns(t, d)
  PROVE  Store!Write(t)
<1>. DEFINE r == request[t]
<1>1. /\ pc[t] = "down" /\ dev[d].st = "writing" /\ req[t].disk = d /\ dev[d].lba = req[t].sector
      /\ req[t].op = "write" /\ dev[d].buf = req[t].data
      /\ UNCHANGED <<pc, req>> /\ dev \in [Disks -> [st : States, lba : 0..Capacity - 1, buf : Data \cup {NULL}]]
  BY DEF Owns, Stored, DeviceStep, IdeInv, HardType
<1>2. dev'[d].st = "idle"
  <2>1. dev'[d] = Idle
    BY <1>1 DEF Stored, EndsCommand
  <2>. QED
    BY SMTT(20), <2>1 DEF Idle
<1>3. Done(t) = FALSE /\ Done(t)' = TRUE /\ Seen(t) = req[t].data /\ Seen(t)' = req[t].data
  <2>1. ~Done(t) /\ Done(t)'
    BY <1>1, <1>2 DEF Done
  <2>. QED
    BY <1>1, <2>1, DoneLemma DEF Seen
<1>4. /\ r = [op |-> "write", disk |-> d, sector |-> req[t].sector, data |-> req[t].data, done |-> FALSE]
      /\ request'[t] = [op |-> "write", disk |-> d, sector |-> req[t].sector, data |-> req[t].data, done |-> TRUE]
  BY <1>1, <1>3, ViewLemma
<1>5. request' = [request EXCEPT ![t] = request'[t]]
  BY <1>1, OthersView, OneView DEF Serving
<1>6. r # NULL
  BY <1>1, RequestLemma
<1>. HIDE DEF r
<1>7. r.op = "write" /\ r.disk = d /\ r.sector = req[t].sector /\ r.data = req[t].data /\ r.done = FALSE
  BY <1>4
<1>8. request'[t] = Store!Effect(r, r.data)
  BY <1>4, <1>7 DEF Store!Effect
<1>9. media' = [media EXCEPT ![r.disk] = [@ EXCEPT ![r.sector] = r.data]]
  BY <1>1, <1>7 DEF Stored
<1>. QED
  BY <1>5, <1>6, <1>7, <1>8, <1>9 DEF Store!Write, r

(* The other steps of a device are not seen.                                *)
LEMMA DeviceView ==
  ASSUME IdeInv, NEW d \in Disks, DeviceStep(d)
  PROVE  (request' = request /\ media' = media) \/ \E t \in Threads : Store!Read(t) \/ Store!Write(t)
<1>0. UNCHANGED <<pc, req, buf>> /\ dev \in [Disks -> [st : States, lba : 0..Capacity - 1, buf : Data \cup {NULL}]]
  BY DEF DeviceStep, IdeInv, HardType
<1>1. CASE Ready(d)
  <2>1. \A t \in Threads : pc[t] \in Serving => req[t].disk # d /\ req[t].disk \in Disks
    BY SMTT(20), <1>1 DEF IdeInv, SoftType, ReqType, Ready, RequestOK, DeviceOK
  <2>2. \A e \in Disks : e # d => dev'[e] = dev[e]
    BY <1>0, <1>1 DEF Ready, EndsCommand
  <2>3. \A t \in Threads : request'[t] = request[t]
    BY <1>0, <2>1, <2>2, OutsideView, FrozenView
  <2>. QED
    BY <1>1, <2>3, NoView DEF Ready
<1>2. CASE Fetched(d) \/ Accepts(d) \/ Stored(d) \/ Aborted(d)
  <2>1. PICK t \in Threads : Owns(t, d)
    BY <1>2, OwnerLemma DEF Fetched, Accepts, Stored, Aborted
  <2>2. ASSUME request'[t] = request[t] PROVE request' = request
    <3>1. pc[t] \in Serving
      BY <2>1 DEF Owns, Transfers, Serving
    <3>. QED
      BY <1>0, <2>2, <3>1, OthersView, NoView
  <2>3. CASE Fetched(d)
    <3>1. CASE dev[d].st = "reading"
      BY <2>1, <2>3, <3>1, ReadView DEF Owns
    <3>2. CASE dev[d].st = "identifying"
      BY <1>0, <2>1, <2>2, <2>3, <3>2, NoneView DEF Owns, Fetched
    <3>. QED
      BY <2>3, <3>1, <3>2 DEF Fetched
  <2>4. CASE Stored(d)
    BY <2>1, <2>4, WriteView
  <2>5. CASE Accepts(d)
    <3>1. req[t].op = "write" /\ pc[t] = "busy"
      BY <2>1, <2>5 DEF Accepts, Owns
    <3>. QED
      BY <1>0, <2>2, <2>5, <3>1, PendingView DEF Accepts, Done
  <2>6. CASE Aborted(d)
    <3>0. dev'[d].st = "idle" /\ media' = media
      <4>1. dev'[d] = Idle /\ media' = media
        BY <1>0, <2>6 DEF Aborted, EndsCommand
      <4>. QED
        BY SMTT(20), <4>1 DEF Idle
    <3>1. CASE req[t].op = "read" /\ dev[d].st = "reading"
      BY <1>0, <2>1, <2>2, <3>0, <3>1, PendingView DEF Owns, Done
    <3>2. CASE req[t].op = "write" /\ pc[t] = "busy"
      BY <1>0, <2>2, <3>0, <3>2, PendingView DEF Done
    <3>3. CASE req[t].op = "identify"
      BY <1>0, <2>2, <3>0, <3>3, NoneView
    <3>. QED
      BY <2>1, <2>6, <3>1, <3>2, <3>3 DEF Aborted, Owns
  <2>. QED
    BY <1>2, <2>3, <2>4, <2>5, <2>6
<1>. QED
  BY <1>1, <1>2 DEF DeviceStep

(* Every step of the kernel and its devices is a step of BlockStore, or is  *)
(* not seen by it.                                                          *)
LEMMA StoreStep ==
  ASSUME IdeInv, [Next]_vars
  PROVE  [Store!Next]_<<media, request>>
<1>. DEFINE Unseen == request' = request /\ media' = media
<1>0. SUFFICES Unseen \/ Store!Next
  OBVIOUS
<1>1. CASE UNCHANGED vars \/ NoMemory \/ interrupt_handler
  BY <1>1, StillView DEF vars, NoMemory, interrupt_handler, hardware
<1>2. ASSUME NEW t \in Threads, Serve(t) PROVE Unseen \/ Store!Next
  <2>1. CASE Release(t)
    BY <2>1, ReleaseView DEF Store!Next
  <2>2. CASE StillBusy(t)
    <3>1. CASE req[t].op = "identify"
      <4>1. /\ boot # NULL /\ t = main /\ req' = req /\ media' = media
            /\ \A u \in Threads : u # main => pc'[u] = pc[u]
        BY <2>2, <3>1, ConstantsLemma DEF StillBusy, Goto, IdeInv, SoftType, RequestOK, Serving, hardware
      <4>. QED
        BY <3>1, <4>1, BootView
    <3>2. CASE req[t].op # "identify"
      BY <2>2, <3>2, StillView DEF StillBusy, hardware
    <3>. QED
      BY <3>1, <3>2
  <2>3. CASE ~Release(t) /\ ~StillBusy(t)
    BY <1>2, <2>3, TransferView DEF Serve
  <2>. QED
    BY <2>1, <2>2, <2>3
<1>3. ASSUME NEW t \in Threads, NEW n \in InRole, NEW s \in 0..Capacity - 1,
             block_read(t, n, s) \/ \E v \in Values : block_write(t, n, s, v)
      PROVE  Unseen \/ Store!Next
  <2>1. PICK op \in {"read", "write"}, v \in Values \cup {NULL} :
          block_access(t, op, n, s, v) /\ IF op = "read" THEN v = NULL ELSE v \in Values
    BY <1>3 DEF block_read, block_write
  <2>. DEFINE d == blocks[n].disk
              p == ToDisk(blocks[n], s)
  <2>2. CASE ~Permitted(blocks[n], op, s)
    BY <2>1, <2>2, StillView DEF block_access, hardware
  <2>3. CASE Permitted(blocks[n], op, s)
    <3>1. d \in Disks /\ p \in 0..Capacity - 1
      <4>1. n \in DOMAIN blocks
        BY InRoleLemma
      <4>2. d \in Disks /\ blocks[n].start \in Nat
        BY <4>1, BlockLemma
      <4>3. s \in Nat
        BY SMTT(20), ConstantsLemma
      <4>4. p \in Nat
        BY <4>2, <4>3, SectorLemma DEF ToDisk
      <4>. QED
        <5>1. p < Capacity
          BY <2>3 DEF Permitted
        <5>. QED
          BY SMTT(20), <4>2, <4>4, <5>1, ConstantsLemma
    <3>. HIDE DEF d, p
    <3>2. /\ pc[t] = "call" /\ req' = [req EXCEPT ![t] = Request(op, d, p, v)] /\ Goto(t, "lock")
          /\ UNCHANGED <<media, dev, buf>>
      BY <2>1, <2>3 DEF block_access, hardware, d, p
    <3>3. /\ pc'[t] = "lock" /\ req'[t] = Request(op, d, p, v)
          /\ \A u \in Threads : u # t => pc'[u] = pc[u] /\ req'[u] = req[u]
      BY <3>2 DEF IdeInv, SoftType, Goto
    <3>4. pc[t] \notin Serving /\ req[t].op \notin {"read", "write"}
      BY <3>2 DEF IdeInv, RequestOK, Serving
    <3>5. Store!Call(t)
      BY ZenonT(30), <2>1, <3>1, <3>2, <3>3, <3>4, CallView
    <3>. QED
      BY <3>5 DEF Store!Next
  <2>. QED
    BY <2>2, <2>3
<1>4. CASE Boot
  <2>0. /\ boot # NULL /\ pc[main] \in Starting /\ RequestOK(main) /\ media' = media
        /\ \A u \in Threads : u # main => pc'[u] = pc[u] /\ req'[u] = req[u]
    BY ZenonT(30), <1>4, ConstantsLemma DEF Boot, reset_channel, ResetWait, check_device_type, Identify, Register,
      Scan, ReadTable, GotTable,
      Goto, IdeInv, SoftType, BootOK, Starting, hardware
  <2>1. req[main].op \notin {"read", "write"}
    BY <2>0, ConstantsLemma DEF RequestOK, Serving, Starting
  <2>2. CASE Scan /\ ReadTable
    <3>1. /\ pc[main] = "scan" /\ req' = [req EXCEPT ![main] = Request("read", boot, 0, NULL)] /\ Goto(main, "lock")
          /\ UNCHANGED <<media, dev, buf>>
      BY <2>2 DEF Scan, ReadTable, TableSector, hardware
    <3>2. pc'[main] = "lock" /\ req'[main] = Request("read", boot, 0, NULL) /\ boot \in Disks
      BY <2>0, <3>1, ConstantsLemma DEF Goto, IdeInv, SoftType, BootOK
    <3>3. pc[main] \notin Serving /\ main \in Threads /\ 0 \in 0..Capacity - 1
      BY <3>1, ConstantsLemma DEF Serving
    <3>4. Store!Call(main)
      BY <2>0, <2>1, <3>1, <3>2, <3>3, CallView
    <3>. QED
      BY <3>3, <3>4 DEF Store!Next
  <2>3. CASE ~(Scan /\ ReadTable)
    <3>1. req'[main].op \notin {"read", "write"}
      <4>1. \/ req' = req
            \/ \E r \in {NoRequest, Request("identify", boot, 0, NULL)} : req' = [req EXCEPT ![main] = r]
        BY <1>4, <2>3 DEF Boot, reset_channel, ResetWait, check_device_type, Identify, Register, Scan, GotTable
      <4>2. NoRequest.op = "none" /\ Request("identify", boot, 0, NULL).op = "identify"
        BY DEF NoRequest, Request
      <4>. QED
        BY <2>1, <4>1, <4>2, ConstantsLemma DEF IdeInv, SoftType
    <3>. QED
      BY <2>0, <2>1, <3>1, BootView
  <2>. QED
    BY <2>2, <2>3
<1>5. ASSUME NEW d \in Disks, DeviceStep(d) PROVE Unseen \/ Store!Next
  BY <1>5, DeviceView DEF Store!Next
<1>. QED
  BY <1>1, <1>2, <1>3, <1>4, <1>5 DEF Next, Halted

(* block_read and block_write by threads that share the channel take effect *)
(* at one moment each, between the call and the return: a read when the     *)
(* disk has fetched the sector, a write when it has stored it.              *)
THEOREM RequestsAtomic == Spec => StoreSpec
<1>1. Init => Store!Init
  <2>1. NoRequest.op = "none"
    BY DEF NoRequest, Request
  <2>. QED
    BY <2>1 DEF Init, Store!Init, request
<1>2. IdeInv /\ [Next]_vars => [Store!Next]_<<media, request>>
  BY StoreStep
<1>. QED
  BY <1>1, <1>2, Invariance, PTL DEF Spec, StoreSpec, Store!Spec

===============================================================================
