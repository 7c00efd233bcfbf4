------------------------------- MODULE PintosIntq -------------------------------
(***************************************************************************)
(* The circular buffer of an interrupt queue (devices/intq.c) as a value:  *)
(* a record with the fields buf, head and tail of struct intq.  Who waits  *)
(* for the queue, and who is woken, is in PintosSerial.                    *)
(***************************************************************************)
EXTENDS Integers, Sequences

CONSTANTS INTQ_BUFSIZE,
          Bytes

ASSUME IntqAssumption == INTQ_BUFSIZE \in Nat /\ INTQ_BUFSIZE >= 2

Positions == 0..(INTQ_BUFSIZE - 1)

Intq == [buf : [Positions -> Bytes], head : Positions, tail : Positions]

(* intq_init leaves buf, which is a static array, as it is: all zero. *)
intq_init(zero) == [buf |-> [p \in Positions |-> zero], head |-> 0, tail |-> 0]

next(pos) == (pos + 1) % INTQ_BUFSIZE

intq_empty(q) == q.head = q.tail

(* Faulty variant: all INTQ_BUFSIZE places are used. *)
intq_full_never(q) == FALSE
intq_full(q) == next(q.head) = q.tail

(* The data part of intq_putc and intq_getc, after their loops. *)
PutByte(q, b) == [q EXCEPT !.buf[q.head] = b, !.head = next(q.head)]

GetByte(q) == [q EXCEPT !.tail = next(q.tail)]

(* The bytes in the queue, oldest first: how many, and where the ith is. *)
Count(q) == IF q.tail <= q.head THEN q.head - q.tail
            ELSE q.head - q.tail + INTQ_BUFSIZE

Place(q, i) == IF q.tail + i - 1 < INTQ_BUFSIZE THEN q.tail + i - 1
               ELSE q.tail + i - 1 - INTQ_BUFSIZE

Contents(q) == [i \in 1..Count(q) |-> q.buf[Place(q, i)]]
===============================================================================
