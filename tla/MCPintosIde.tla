----------------------------- MODULE MCPintosIde -----------------------------
(* An instance of PintosIde for TLC: a channel with two devices of three     *)
(* sectors.                                                                  *)
EXTENDS PintosIde, TLC

Table(entries) == [signature |-> TRUE, entries |-> entries]

(* A file system and a partition whose end wraps around. *)
Plain == Table(<<Entry("FILESYS", 1, 2), Entry("EMPTY", 1, 1), Entry("SCRATCH", 2, 7)>>)
(* An extended partition. *)
Extended == Table(<<Entry("EXTENDED", 2, 1), Entry("FILESYS", 1, 1), Entry("SCRATCH", 5, 0)>>)
(* One whose table, which is read from sector 0 again, nests for ever. *)
Endless == Table(<<Entry("EXTENDED", 1, 2)>>)
(* Partitions past the end, and one of another system. *)
Other == Table(<<Entry("FOREIGN", 0, 1), Entry("SCRATCH", 3, 1), Entry("SCRATCH", 2, 1)>>)
NoTable == [signature |-> FALSE, entries |-> << >>]

Device(k, t) == [kind |-> k, table |-> t]

MCSetups == {
  (0 :> Device("disk", Plain)) @@ (1 :> Device("disk", Other)),
  (0 :> Device("alone", Extended)) @@ (1 :> Device("disk", NoTable)),
  (0 :> Device("other", NoTable)) @@ (1 :> Device("disk", Plain)),
  (0 :> Device("huge", Plain)) @@ (1 :> Device("absent", NoTable)),
  (0 :> Device("disk", Endless)) @@ (1 :> Device("absent", NoTable)) }
===============================================================================
