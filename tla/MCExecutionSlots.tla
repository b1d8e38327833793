-------------------------- MODULE MCExecutionSlots --------------------------
(* Three turns and one slot: one turn holds it while two wait, both of them *)
(* possibly on their way back from an approval.                             *)
EXTENDS ExecutionSlots
CONSTANTS t1, t2, t3
MCTurn == {t1, t2, t3}
=============================================================================
