--------------------------- MODULE MCPintosSerial ---------------------------
(* PintosSerial on small instances. *)
EXTENDS PintosSerial
=============================================================================
