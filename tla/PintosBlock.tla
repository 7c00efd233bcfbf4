------------------------------ MODULE PintosBlock ------------------------------
(***************************************************************************)
(* Block devices and partitions (block.c, partition.c).  A disk that was    *)
(* found is registered as a whole; then its partition table is scanned and  *)
(* every partition registered, and the kernel picks the block for each of   *)
(* its roles (init.c).  A partition hands a request to its disk at another  *)
(* sector number, and sector numbers wrap around.                           *)
(***************************************************************************)
EXTENDS Naturals, Sequences

CONSTANTS
  SECTOR_BITS,   \* the width of block_sector_t
  Named,         \* positions of the blocks that the command line may name
  NULL

(* That the power is a number is what a prover has to be told.              *)
ASSUME BlockAssumption == SECTOR_BITS \in Nat /\ 2^SECTOR_BITS \in Nat \ {0}

Sector(n) == n % 2^SECTOR_BITS
Sectors == 0..2^SECTOR_BITS - 1

(* struct block with the struct partition of its driver.  The name, and the *)
(* counters that block_print_stats prints, are left out.                    *)
Block(disk, start, size, type) == [disk |-> disk, start |-> start, size |-> size, type |-> type]

(* A partition table: a signature and entries.  Types stand for classes of  *)
(* the bytes that the code tells apart.                                     *)
Roles == {"KERNEL", "FILESYS", "SCRATCH", "SWAP"}
Entry(type, offset, size) == [type |-> type, offset |-> offset, size |-> size]
Types == Roles \cup {"FOREIGN", "EMPTY", "EXTENDED"}
Tables == [signature : BOOLEAN, entries : Seq([type : Types, offset : Sectors, size : Sectors])]

VARIABLES
  blocks,   \* all_blocks, in probe order
  roles,    \* block_by_role: a position in blocks, or 0
  scan      \* the calls of read_partition_table that have not returned

bvars == <<blocks, roles, scan>>

BInit == blocks = << >> /\ roles = [r \in Roles |-> 0] /\ scan = << >>

(* list_push_back of block_register *)
block_register(b) == blocks' = Append(blocks, b)

(* locate_block_device: the block named on the command line, otherwise the  *)
(* first of the type, if any.                                               *)
FirstOf(type) ==
  LET fit == {n \in DOMAIN blocks : blocks[n].type = type}
  IN  IF fit = {} THEN {0} ELSE {n \in fit : \A m \in fit : n <= m}

locate_block_devices ==
  /\ \E f \in FirstOf("FILESYS") \cup (Named \cap DOMAIN blocks),
        s \in FirstOf("SCRATCH") \cup (Named \cap DOMAIN blocks) :
       roles' = [roles EXCEPT !["FILESYS"] = f, !["SCRATCH"] = s]
  /\ UNCHANGED <<blocks, scan>>

-----------------------------------------------------------------------------
(* A request for sector s of block b, as it reaches the disk.               *)
check_sector(b, s) == s < b.size
ToDisk(b, s) == Sector(b.start + s)

-----------------------------------------------------------------------------
(* read_partition_table.  A call: the sector it is given, the sector of the *)
(* extended partition it is in, the next entry, and the table once read.    *)
Frame(sector, primary) == [sector |-> sector, primary |-> primary, next |-> 1, pt |-> NULL]
Top == scan[Len(scan)]
Rest == SubSeq(scan, 1, Len(scan) - 1)

partition_scan == scan' = <<Frame(0, 0)>>

(* The sector that is read, whatever the sector given. *)
TableSector(frame) == 0

(* The sector is past the end of the device: the call returns. *)
PastEnd(size) ==
  /\ Top.pt = NULL
  /\ Top.sector >= size
  /\ scan' = Rest
  /\ UNCHANGED <<blocks, roles>>

(* The table has been read: without its signature the call returns. *)
TableRead(pt) ==
  /\ scan' = IF pt.signature THEN Append(Rest, [Top EXCEPT !.pt = pt]) ELSE Rest
  /\ UNCHANGED <<blocks, roles>>

(* found_partition: a partition inside the device is registered.  Faulty    *)
(* variant: the sum is not checked for a wrap.                              *)
InsideNoWrap(start, size, device) == start < device /\ Sector(start + size) <= device

Inside(start, size, device) ==
  /\ start < device
  /\ Sector(start + size) >= start
  /\ Sector(start + size) <= device

found_partition(disk, device, type, start, size) ==
  IF Inside(start, size, device)
  THEN block_register(Block(disk, start, size, type))
  ELSE UNCHANGED blocks

(* One entry of the table, or the return after the last one. *)
ParseEntry(disk, device) ==
  /\ Top.pt # NULL
  /\ UNCHANGED roles
  /\ IF Top.next > Len(Top.pt.entries)
     THEN scan' = Rest /\ UNCHANGED blocks
     ELSE LET e == Top.pt.entries[Top.next]
              after == Append(Rest, [Top EXCEPT !.next = @ + 1])
          IN  \/ /\ e.size = 0 \/ e.type = "EMPTY"
                 /\ scan' = after
                 /\ UNCHANGED blocks
              \/ /\ e.size # 0 /\ e.type = "EXTENDED"
                 /\ scan' = Append(after,
                      IF Top.sector = 0 THEN Frame(e.offset, e.offset)
                      ELSE Frame(Sector(e.offset + Top.primary), Top.primary))
                 /\ UNCHANGED blocks
              \/ /\ e.size # 0 /\ e.type \notin {"EMPTY", "EXTENDED"}
                 /\ scan' = after
                 /\ found_partition(disk, device, e.type, Sector(e.offset + Top.sector), e.size)
===============================================================================
