--------------------------- MODULE MCStateMachine ---------------------------
(* The two halves of state_machine.py: owners who change an entity, and    *)
(* services that show a projection.  They share the tables and no state,   *)
(* so a behaviour is one of either half while the other stays at its       *)
(* beginning.                                                              *)
EXTENDS LifecycleHistory, MCStatusProjection

VARIABLE half

HalvesInit ==
    /\ HistoryInit /\ Init
    /\ \/ half = "owner" /\ harnesses = <<>> /\ binding.sourceCursors = <<>>
       \/ half = "projection" /\ kind = "ApprovalRequest"

HalvesNext ==
    \/ half = "owner" /\ HistoryNext /\ UNCHANGED <<half, vars>>
    \/ half = "projection" /\ Next /\ UNCHANGED <<half, historyVars>>

HalvesSpec == HalvesInit /\ [][HalvesNext]_<<half, historyVars, vars>>
=============================================================================
