---------------------------- MODULE PintosFilesys ----------------------------
(***************************************************************************)
(* The Pintos file system: names (directory.c, filesys.c), inodes           *)
(* (inode.c), open files (file.c) and the free map (free-map.c) on a disk   *)
(* whose sectors are written one at a time.                                 *)
(*                                                                         *)
(* Callers keep each other out (userprog/README.md:84), so one call is in   *)
(* progress at a time, and a call is one action per sector written: the     *)
(* machine can crash between two of them.  A write of file data is one      *)
(* action: a crash in the middle of it is a crash after a shorter write.    *)
(***************************************************************************)
EXTENDS Naturals, Sequences, FiniteSets

CONSTANTS
  Names, Handles, NULL,
  SECTORS,             \* size of the device (block_size)
  BLOCK_SECTOR_SIZE,   \* bytes in a sector
  DIR_ENTRIES,         \* entries of the root directory
  Buffers,             \* sequences of bytes that are written to files
  Lengths,             \* lengths that files are created with
  MayFail              \* the allocations that can find no memory; where others
                       \* fail, a call returns before it has changed anything

ASSUME FilesysAssumption ==
  /\ SECTORS \in Nat /\ SECTORS >= 4
  /\ BLOCK_SECTOR_SIZE \in Nat \ {0}
  /\ DIR_ENTRIES \in Nat
  /\ Lengths \subseteq Nat
  /\ MayFail \subseteq {"disk_inode", "bounce"}

VARIABLES
  disk,       \* disk[s]: what sector s holds
  free_map,   \* the sectors marked in free_map
  inodes,     \* inodes[s]: the struct inode of sector s on open_inodes, or NULL
  files,      \* files[h]: struct file, or NULL
  call        \* the call in progress

vars == <<disk, free_map, inodes, files, call>>

Sectors == 0..SECTORS - 1
FREE_MAP_SECTOR == 0
ROOT_DIR_SECTOR == 1
BITMAP_ERROR == SECTORS

Zeros == [i \in 1..BLOCK_SECTOR_SIZE |-> 0]
Offsets == UNION {0..length : length \in Lengths}
Idle == [op |-> "none"]
DirEntry == [in_use : BOOLEAN, name : Names \cup {NULL}, inode_sector : Sectors]

(* The disk as do_format leaves it: the free map and the root directory,    *)
(* each an inode and one sector of data.                                    *)
Format ==
  [s \in Sectors |->
     CASE s = FREE_MAP_SECTOR -> [kind |-> "inode", start |-> 2, length |-> 1]
       [] s = ROOT_DIR_SECTOR -> [kind |-> "inode", start |-> 3, length |-> 1]
       [] s = 2 -> [kind |-> "map", used |-> 0..3]
       [] s = 3 -> [kind |-> "dir",
                    entry |-> [i \in 1..DIR_ENTRIES |->
                      [in_use |-> FALSE, name |-> NULL, inode_sector |-> 0]]]
       [] OTHER -> [kind |-> "data", bytes |-> Zeros]]

MapSector == disk[FREE_MAP_SECTOR].start
DirSector == disk[ROOT_DIR_SECTOR].start
Entries == disk[DirSector].entry

Init ==
  /\ disk = Format
  /\ free_map = 0..3
  /\ inodes = [s \in Sectors |-> NULL]
  /\ files = [h \in Handles |-> NULL]
  /\ call = Idle

-----------------------------------------------------------------------------
(* free-map.c and bitmap.c *)

Run(s, cnt) == s..s + cnt - 1

bitmap_scan(cnt) ==
  LET fits == {s \in Sectors : s + cnt <= SECTORS /\ Run(s, cnt) \cap free_map = {}}
  IN  IF fits = {} THEN BITMAP_ERROR ELSE CHOOSE s \in fits : \A o \in fits : s <= o

bitmap_read == disk[MapSector].used
bitmap_write(used) == [disk EXCEPT ![MapSector].used = used]

(* free_map_allocate, when it finds sectors.  Faulty variant: the map on    *)
(* the disk is not updated.                                                 *)
AllocateUnsaved(s, cnt) == free_map' = free_map \cup Run(s, cnt) /\ UNCHANGED disk
free_map_allocate(s, cnt) ==
  /\ free_map' = free_map \cup Run(s, cnt)
  /\ disk' = bitmap_write(free_map')

(* Here a failure to write the map goes unnoticed. *)
free_map_release(s, cnt) ==
  /\ free_map' = free_map \ Run(s, cnt)
  /\ disk' \in {bitmap_write(free_map')} \cup {d \in {disk} : "bounce" \in MayFail}

-----------------------------------------------------------------------------
(* inode.c *)

bytes_to_sectors(length) ==
  (length + BLOCK_SECTOR_SIZE - 1) \div BLOCK_SECTOR_SIZE

byte_to_sector(inode, pos) == inode.start + pos \div BLOCK_SECTOR_SIZE

Least(a, b) == IF a < b THEN a ELSE b

(* The bytes inode_read_at or inode_write_at moves next: what is left of    *)
(* the request, of the file and of the sector, whichever is least.          *)
(* Faulty variant: up to the end of the sector, whatever the file's length. *)
ChunkOfSector(inode, size, offset) ==
  IF offset >= inode.length THEN 0
  ELSE Least(size, BLOCK_SECTOR_SIZE - (offset % BLOCK_SECTOR_SIZE))
Chunk(inode, size, offset) ==
  IF offset >= inode.length THEN 0
  ELSE Least(size, Least(inode.length - offset,
                         BLOCK_SECTOR_SIZE - (offset % BLOCK_SECTOR_SIZE)))

inode_read_at(inode, size, offset) ==
  LET read[done \in 0..size] ==    \* what the loop adds when done bytes are read
        LET ofs == offset + done
            n == Chunk(inode, size - done, ofs)
            at == ofs % BLOCK_SECTOR_SIZE
        IN  IF n = 0 THEN << >>
            ELSE SubSeq(disk[byte_to_sector(inode, ofs)].bytes, at + 1, at + n)
                 \o read[done + n]
  IN  read[0]

(* The disk after the loop; a sector is read, changed and written back.     *)
inode_write_at(inode, buf, offset) ==
  LET write[done \in 0..Len(buf)] ==    \* the part after the first done bytes
        LET ofs == offset + done
            n == Chunk(inode, Len(buf) - done, ofs)
            at == ofs % BLOCK_SECTOR_SIZE
        IN  IF n = 0 THEN disk
            ELSE [write[done + n] EXCEPT ![byte_to_sector(inode, ofs)].bytes =
                   [i \in 1..BLOCK_SECTOR_SIZE |->
                      IF i > at /\ i <= at + n THEN buf[done + i - at] ELSE @[i]]]
  IN  write[0]

(* The struct inode that inode_open(s) returns.  Faulty variant: a second   *)
(* opener is not counted.                                                   *)
inode_open_again(s) ==
  IF inodes[s] # NULL THEN inodes[s]
  ELSE [open_cnt |-> 1, deny_write_cnt |-> 0, removed |-> FALSE,
        start |-> disk[s].start, length |-> disk[s].length]

inode_open(s) ==
  IF inodes[s] # NULL THEN [inodes[s] EXCEPT !.open_cnt = @ + 1]
  ELSE [open_cnt |-> 1, deny_write_cnt |-> 0, removed |-> FALSE,
        start |-> disk[s].start, length |-> disk[s].length]

(* inode_close, for the call in progress: the last opener of a removed file *)
(* gives back the inode's sector, then the data's.                          *)
InodeClose ==
  LET s == call.sector
      inode == inodes[s]
  IN  /\ call.op = "close"
      /\ IF inode.open_cnt > 1
         THEN /\ inodes' = [inodes EXCEPT ![s].open_cnt = @ - 1]
              /\ call' = Idle
              /\ UNCHANGED <<disk, free_map>>
         ELSE /\ inodes' = [inodes EXCEPT ![s] = NULL]
              /\ IF inode.removed
                 THEN /\ free_map_release(s, 1)
                      /\ call' = [op |-> "release", start |-> inode.start,
                                  cnt |-> bytes_to_sectors(inode.length)]
                 ELSE call' = Idle /\ UNCHANGED <<disk, free_map>>
      /\ UNCHANGED files

Release ==
  /\ call.op = "release"
  /\ free_map_release(call.start, call.cnt)
  /\ call' = Idle
  /\ UNCHANGED <<inodes, files>>

-----------------------------------------------------------------------------
(* directory.c *)

(* The number of entries a scan of the directory reads: all, unless         *)
(* inode_read_at finds no memory for its bounce buffer and reads short.     *)
Readable == IF "bounce" \in MayFail THEN 0..DIR_ENTRIES ELSE {DIR_ENTRIES}

(* The first of the entries is, or 0. *)
First(is) == IF is = {} THEN 0 ELSE CHOOSE i \in is : \A k \in is : i <= k

lookup(n, readable) ==
  First({i \in 1..readable : Entries[i].in_use /\ Entries[i].name = n})

(* The place dir_add writes to: a free one, or the end of what it can read. *)
Slot(readable) ==
  LET free == {i \in 1..readable : ~Entries[i].in_use}
  IN  IF free = {} THEN readable + 1 ELSE First(free)

WriteEntry(i, e) == disk' = [disk EXCEPT ![DirSector].entry[i] = e]

-----------------------------------------------------------------------------
(* filesys_create: a sector for the inode, ... *)
CallCreate(n, length) ==
  LET s == bitmap_scan(1)
  IN  /\ call = Idle
      /\ s # BITMAP_ERROR
      /\ free_map_allocate(s, 1)
      /\ call' = [op |-> "allocate", name |-> n, length |-> length, sector |-> s]
      /\ UNCHANGED <<inodes, files>>

Undo == call' = [op |-> "undo", sector |-> call.sector]

(* ... then inode_create: sectors for the data, ... *)
Allocate ==
  LET cnt == bytes_to_sectors(call.length)
      s == bitmap_scan(cnt)
  IN  /\ call.op = "allocate"
      /\ \/ /\ s # BITMAP_ERROR
            /\ free_map_allocate(s, cnt)
            /\ call' = [op |-> "write_inode", name |-> call.name, sector |-> call.sector,
                        length |-> call.length, start |-> s]
         \/ /\ s = BITMAP_ERROR \/ {"disk_inode", "bounce"} \cap MayFail # {}
            /\ Undo
            /\ UNCHANGED <<disk, free_map>>
      /\ UNCHANGED <<inodes, files>>

(* ... the inode, ... *)
WriteInode ==
  /\ call.op = "write_inode"
  /\ disk' = [disk EXCEPT ![call.sector] =
               [kind |-> "inode", start |-> call.start, length |-> call.length]]
  /\ call' = [op |-> "zero", name |-> call.name, sector |-> call.sector,
              start |-> call.start, cnt |-> bytes_to_sectors(call.length), i |-> 0]
  /\ UNCHANGED <<free_map, inodes, files>>

(* ... and zeros.  Faulty variant: a sector of an earlier file keeps its     *)
(* bytes.                                                                   *)
SkipZeros ==
  /\ call.op = "zero"
  /\ call.i < call.cnt
  /\ disk' = [disk EXCEPT ![call.start + call.i] =
               IF @.kind = "data" THEN @ ELSE [kind |-> "data", bytes |-> Zeros]]
  /\ call' = [call EXCEPT !.i = @ + 1]
  /\ UNCHANGED <<free_map, inodes, files>>

WriteZeros ==
  /\ call.op = "zero"
  /\ call.i < call.cnt
  /\ disk' = [disk EXCEPT ![call.start + call.i] = [kind |-> "data", bytes |-> Zeros]]
  /\ call' = [call EXCEPT !.i = @ + 1]
  /\ UNCHANGED <<free_map, inodes, files>>

(* At last dir_add. *)
NotInUse(n, seen) == lookup(n, seen) = 0

DirAdd ==
  /\ call.op = "zero"
  /\ call.i = call.cnt
  /\ \E seen, readable \in Readable :
       LET i == Slot(readable)
       IN  \/ /\ NotInUse(call.name, seen)
              /\ i <= DIR_ENTRIES
              /\ WriteEntry(i, [in_use |-> TRUE, name |-> call.name,
                                inode_sector |-> call.sector])
              /\ call' = Idle
           \/ /\ lookup(call.name, seen) # 0 \/ i > DIR_ENTRIES \/ "bounce" \in MayFail
              /\ Undo
              /\ UNCHANGED disk
  /\ UNCHANGED <<free_map, inodes, files>>

(* A failed filesys_create gives the inode's sector back. *)
UndoCreate ==
  /\ call.op = "undo"
  /\ free_map_release(call.sector, 1)
  /\ call' = Idle
  /\ UNCHANGED <<inodes, files>>

(* filesys_remove: dir_remove, up to its inode_close. *)
CallRemove(n) ==
  /\ call = Idle
  /\ \E readable \in Readable :
       LET i == lookup(n, readable)
           s == Entries[i].inode_sector
       IN  /\ i # 0
           /\ inodes' = [inodes EXCEPT ![s] = [inode_open(s) EXCEPT !.removed = TRUE]]
           /\ WriteEntry(i, [Entries[i] EXCEPT !.in_use = FALSE])
           /\ call' = [op |-> "close", sector |-> s]
  /\ UNCHANGED <<free_map, files>>

(* A new struct file for the inode of sector s. *)
file_open(h, s) ==
  /\ inodes' = [inodes EXCEPT ![s] = inode_open(s)]
  /\ files' = [files EXCEPT ![h] = [inode |-> s, deny_write |-> FALSE]]
  /\ UNCHANGED <<disk, free_map, call>>

CallOpen(h, n) ==
  /\ call = Idle
  /\ files[h] = NULL
  /\ \E readable \in Readable :
       LET i == lookup(n, readable)
       IN  i # 0 /\ file_open(h, Entries[i].inode_sector)

file_reopen(h, g) ==
  /\ call = Idle
  /\ files[h] = NULL
  /\ files[g] # NULL
  /\ file_open(h, files[g].inode)

Denials(h) == IF files[h].deny_write THEN 1 ELSE 0

file_close(h) ==
  /\ call = Idle
  /\ files[h] # NULL
  /\ inodes' = [inodes EXCEPT ![files[h].inode].deny_write_cnt = @ - Denials(h)]
  /\ files' = [files EXCEPT ![h] = NULL]
  /\ call' = [op |-> "close", sector |-> files[h].inode]
  /\ UNCHANGED <<disk, free_map>>

file_deny_write(h) ==
  /\ call = Idle
  /\ files[h] # NULL /\ ~files[h].deny_write
  /\ files' = [files EXCEPT ![h].deny_write = TRUE]
  /\ inodes' = [inodes EXCEPT ![files[h].inode].deny_write_cnt = @ + 1]
  /\ UNCHANGED <<disk, free_map, call>>

file_allow_write(h) ==
  /\ call = Idle
  /\ files[h] # NULL /\ files[h].deny_write
  /\ files' = [files EXCEPT ![h].deny_write = FALSE]
  /\ inodes' = [inodes EXCEPT ![files[h].inode].deny_write_cnt = @ - 1]
  /\ UNCHANGED <<disk, free_map, call>>

(* file_write and file_write_at; file_seek can have set any position.       *)
file_write_at(h, buf, ofs) ==
  /\ call = Idle
  /\ files[h] # NULL
  /\ inodes[files[h].inode].deny_write_cnt = 0
  /\ disk' = inode_write_at(inodes[files[h].inode], buf, ofs)
  /\ UNCHANGED <<free_map, inodes, files, call>>

(* The machine stops, with or without a call in progress, and boots again:  *)
(* filesys_init reads the free map from the disk and no file is open.       *)
Reboot ==
  /\ free_map' = bitmap_read
  /\ inodes' = [s \in Sectors |-> NULL]
  /\ files' = [h \in Handles |-> NULL]
  /\ call' = Idle
  /\ UNCHANGED disk

Next ==
  \/ \E n \in Names : CallRemove(n) \/ (\E length \in Lengths : CallCreate(n, length))
  \/ Allocate \/ WriteInode \/ WriteZeros \/ DirAdd \/ UndoCreate
  \/ InodeClose \/ Release
  \/ \E h \in Handles :
       \/ \E n \in Names : CallOpen(h, n)
       \/ \E g \in Handles : file_reopen(h, g)
       \/ file_close(h) \/ file_deny_write(h) \/ file_allow_write(h)
       \/ \E buf \in Buffers, ofs \in Offsets : file_write_at(h, buf, ofs)
  \/ Reboot

Spec == Init /\ [][Next]_vars

-----------------------------------------------------------------------------
Inode == [open_cnt : Nat, deny_write_cnt : Nat, removed : BOOLEAN, start : Sectors, length : Nat]

TypeOK ==
  /\ free_map \subseteq Sectors
  /\ \A s \in Sectors : inodes[s] = NULL \/ inodes[s] \in Inode
  /\ \A h \in Handles :
       files[h] = NULL \/ files[h] \in [inode : Sectors, deny_write : BOOLEAN]
  /\ Entries \in [1..DIR_ENTRIES -> DirEntry]

(* The inode of sector s as its openers or, without any, the disk have it. *)
InodeOf(s) == IF inodes[s] # NULL THEN inodes[s] ELSE disk[s]
Extent(s) == {s} \cup Run(InodeOf(s).start, bytes_to_sectors(InodeOf(s).length))

Linked == {Entries[i].inode_sector : i \in {k \in 1..DIR_ENTRIES : Entries[k].in_use}}
Living == Linked \cup {s \in Sectors : inodes[s] # NULL}

(* The sectors that the call in progress has allocated and nobody else      *)
(* knows of yet, or is about to give back.                                  *)
Held ==
  CASE call.op \in {"allocate", "undo"} -> {call.sector}
    [] call.op = "write_inode" -> {call.sector} \cup Run(call.start, bytes_to_sectors(call.length))
    [] call.op = "zero" -> {call.sector} \cup Run(call.start, call.cnt)
    [] call.op = "release" -> Run(call.start, call.cnt)
    [] OTHER -> {}

(* A sector has one use at most, and one in use is marked: what             *)
(* free_map_release asserts (free-map.c:50) and what keeps files apart.     *)
(* The map on the disk covers the named files at every moment, so a crash   *)
(* between any two sector writes loses sectors but never gives one to two   *)
(* files.                                                                   *)
FreeMapOK ==
  /\ TypeOK
  /\ \A s \in Living : Extent(s) \subseteq free_map /\ Extent(s) \cap (0..3) = {}
  /\ \A s, t \in Living : s # t => Extent(s) \cap Extent(t) = {}
  /\ Held \subseteq free_map /\ \A s \in Living : Held \cap Extent(s) = {}
  /\ \A s \in Linked : Extent(s) \subseteq disk[MapSector].used

Openers(s) == {h \in Handles : files[h] # NULL /\ files[h].inode = s}
Closing(s) == IF call.op = "close" /\ call.sector = s THEN 1 ELSE 0

(* open_cnt and deny_write_cnt count the open files, so an inode goes away  *)
(* with its last opener, and the assertions of inode_deny_write and         *)
(* inode_allow_write (inode.c:299, 308) hold.  A removed inode has no name. *)
CountsOK ==
  \A s \in Sectors :
    IF inodes[s] = NULL THEN Openers(s) = {}
    ELSE /\ inodes[s].open_cnt = Cardinality(Openers(s)) + Closing(s)
         /\ inodes[s].open_cnt > 0
         /\ inodes[s].deny_write_cnt = Cardinality({h \in Openers(s) : files[h].deny_write})
         /\ inodes[s].removed <=> s \notin Linked

(* The byte at place pos of a file, on disk d. *)
ByteAt(d, inode, pos) ==
  d[inode.start + pos \div BLOCK_SECTOR_SIZE].bytes[1 + (pos % BLOCK_SECTOR_SIZE)]

Contents(s) == [i \in 1..InodeOf(s).length |-> ByteAt(disk, InodeOf(s), i - 1)]

Store == INSTANCE FileStore WITH
  Ids <- Sectors,
  names <- [n \in Names |-> LET i == lookup(n, DIR_ENTRIES)
                            IN IF i = 0 THEN NULL ELSE Entries[i].inode_sector],
  opened <- [h \in Handles |-> IF files[h] = NULL THEN NULL ELSE files[h].inode],
  content <- [s \in Sectors |-> IF s \in Linked \/ Openers(s) # {} THEN Contents(s) ELSE NULL]

(* The file system implements FileStore: files keep their names and bytes   *)
(* whatever is done to others, a removed file can be used until it is       *)
(* closed, and a crash between any two sector writes (inode_create,         *)
(* dir_add, dir_remove, inode_close) leaves every named file as it was.     *)
StoreSpec == Store!Spec

DataSectors(inode) == Run(inode.start, bytes_to_sectors(inode.length))

(* The disk on which the bytes of buf are at the places of the file from    *)
(* ofs on that it has, and that is otherwise as it was.                     *)
Splice(inode, buf, ofs) ==
  [s \in Sectors |->
     IF s \notin DataSectors(inode) THEN disk[s]
     ELSE [disk[s] EXCEPT !.bytes = [i \in 1..BLOCK_SECTOR_SIZE |->
       LET pos == (s - inode.start) * BLOCK_SECTOR_SIZE + i - 1
       IN  IF ofs <= pos /\ pos < Least(ofs + Len(buf), inode.length) THEN buf[pos - ofs + 1]
           ELSE @[i]]]]

Probes == {SubSeq(<<7, 8, 9>>, 1, n) : n \in 1..3}

(* inode_read_at and inode_write_at, with their loop over sectors and       *)
(* bounce buffer, treat an open file as one array of bytes                  *)
(* (inode.c:178-290): nothing beyond its end is read, and a write leaves    *)
(* every other sector, those of other files included, and the rest of its   *)
(* own sectors as they were.                                                *)
ByteArray ==
  \A h \in Handles : files[h] # NULL =>
    LET inode == inodes[files[h].inode]
        bytes == Contents(files[h].inode)
    IN  \A ofs \in Offsets :
          /\ \A size \in Offsets : inode_read_at(inode, size, ofs) =
               SubSeq(bytes, ofs + 1, Least(ofs + size, Len(bytes)))
          /\ \A buf \in Probes : inode_write_at(inode, buf, ofs) = Splice(inode, buf, ofs)
=============================================================================
