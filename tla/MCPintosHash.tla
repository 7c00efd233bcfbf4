---------------------------- MODULE MCPintosHash ----------------------------
(* Four elements, two of them with the same key, two lists and a table. *)
EXTENDS PintosHash, TLC
CONSTANTS e1, e2, e3, e4
MCKey == e1 :> 1 @@ e2 :> 2 @@ e3 :> 2 @@ e4 :> 3
MCHash == <<1, 3, 2>>
=============================================================================
