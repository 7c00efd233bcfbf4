----------------------------- MODULE MCYashClient -----------------------------
(* An instance of YashClient for TLC: an empty line, a line, quit, and a     *)
(* line that send_msg cuts.                                                  *)
EXTENDS YashClient

MCLines == {<< >>, <<"a">>, <<"quit">>, <<"b", "b">>}
===============================================================================
