--------------------------------- MODULE Fifo ---------------------------------
(***************************************************************************)
(* What an interrupt queue promises: a bounded queue of bytes that come    *)
(* out in the order they went in.                                          *)
(***************************************************************************)
EXTENDS Naturals, Sequences

CONSTANTS Bytes, Capacity

VARIABLE contents

Init == contents = << >>

Put(b) == Len(contents) < Capacity /\ contents' = Append(contents, b)

Get == contents # << >> /\ contents' = Tail(contents)

(* The oldest byte makes room for a new one. *)
Shift(b) == contents # << >> /\ contents' = Append(Tail(contents), b)

Next == (\E b \in Bytes : Put(b) \/ Shift(b)) \/ Get

Spec == Init /\ [][Next]_contents
===============================================================================
