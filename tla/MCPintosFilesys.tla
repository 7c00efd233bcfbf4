--------------------------- MODULE MCPintosFilesys ---------------------------
(* PintosFilesys on small instances. *)
EXTENDS PintosFilesys, TLC

Symmetry == Permutations(Names) \cup Permutations(Handles)
SmallBuffers == {<<1, 1, 1>>}
==============================================================================
