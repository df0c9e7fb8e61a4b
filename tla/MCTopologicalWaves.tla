------------------------ MODULE MCTopologicalWaves -------------------------
(* All graphs over three nodes, declared or not, closed or not.            *)
EXTENDS TopologicalWaves
MCNode == 1..3
=============================================================================
