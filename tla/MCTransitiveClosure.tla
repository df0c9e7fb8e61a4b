------------------------ MODULE MCTransitiveClosure ------------------------
(* All graphs over three nodes and all seeds.                              *)
EXTENDS TransitiveClosure
MCNode == 1..3
=============================================================================
