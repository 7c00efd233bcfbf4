------------------------------ MODULE BlockStore ------------------------------
(***************************************************************************)
(* What block_read and block_write promise to threads that call them at    *)
(* the same time ("Internally synchronizes accesses to block devices"): a  *)
(* request takes effect at one moment between its call and its return.     *)
(***************************************************************************)
CONSTANTS Threads, NULL, Requests

VARIABLES
  contents,   \* contents[d][s]: what sector s of disk d holds
  request     \* request[t]: the request of thread t, or NULL

Init == request = [t \in Threads |-> NULL]

(* A request: read or write, where, what to write or what was read, and     *)
(* whether it has taken effect.                                             *)
Call(t) ==
  /\ request[t] = NULL
  /\ \E r \in Requests : ~r.done /\ request' = [request EXCEPT ![t] = r]
  /\ UNCHANGED contents

Effect(r, data) == [op |-> r.op, disk |-> r.disk, sector |-> r.sector, data |-> data, done |-> TRUE]

Read(t) ==
  LET r == request[t]
  IN  /\ r # NULL /\ ~r.done /\ r.op = "read"
      /\ request' = [request EXCEPT ![t] = Effect(r, contents[r.disk][r.sector])]
      /\ UNCHANGED contents

Write(t) ==
  LET r == request[t]
  IN  /\ r # NULL /\ ~r.done /\ r.op = "write"
      /\ contents' = [contents EXCEPT ![r.disk] = [@ EXCEPT ![r.sector] = r.data]]
      /\ request' = [request EXCEPT ![t] = Effect(r, r.data)]

Return(t) ==
  /\ request[t] # NULL /\ request[t].done
  /\ request' = [request EXCEPT ![t] = NULL]
  /\ UNCHANGED contents

Next == \E t \in Threads : Call(t) \/ Read(t) \/ Write(t) \/ Return(t)

Spec == Init /\ [][Next]_<<contents, request>>
===============================================================================
