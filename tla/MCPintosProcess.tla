--------------------------- MODULE MCPintosProcess ---------------------------
(* Pages of two bytes, page tables of two entries, addresses of four bits,  *)
(* half of them for programs.                                               *)
EXTENDS PintosProcess, TLC

Seg(offset, vaddr, filesz, memsz, writable) ==
  [type |-> "load", offset |-> offset, vaddr |-> vaddr, filesz |-> filesz,
   memsz |-> memsz, writable |-> writable]
Ignored == [Seg(0, 0, 0, 0, FALSE) EXCEPT !.type = "ignored"]
File(len, phdr) == [ok |-> TRUE, len |-> len, phdr |-> phdr]

MCImages ==
  << File(4, <<Seg(1, 5, 1, 1, TRUE)>>),                   \* room for two of these
     File(4, <<Seg(0, 4, 1, 1, TRUE), Seg(2, 2, 0, 1, FALSE)>>),
                      \* two segments: a page read in part, one of zeroes
     File(4, <<Ignored, Seg(1, 3, 2, 2, TRUE)>>),          \* from one page into the next
     File(3, <<Seg(0, 2, 1, 1, TRUE), Seg(2, 4, 2, 2, TRUE)>>),
                      \* the second segment is longer than the file
     File(4, <<Seg(0, 6, 1, 1, TRUE)>>),                   \* where the stack goes
     File(4, <<Seg(0, 6, 1, 15, TRUE)>>),                  \* wraps around
     [File(0, << >>) EXCEPT !.ok = FALSE] >>               \* no executable

Symmetry == Permutations(Procs)
==============================================================================
