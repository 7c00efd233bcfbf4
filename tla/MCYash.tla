-------------------------------- MODULE MCYash --------------------------------
(* Instances of Yash for TLC. *)
EXTENDS Yash
===============================================================================
