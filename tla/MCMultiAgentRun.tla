-------------------------- MODULE MCMultiAgentRun --------------------------
(***************************************************************************)
(* A fan-out of two workers and a pipeline of three, one of them at a time.*)
(***************************************************************************)
EXTENDS MultiAgentRun

CONSTANTS fan, pipe

MCRun == {fan, pipe}
MCFanOut == {fan}
MCTasks == [r \in MCRun |-> IF r = fan THEN 2 ELSE 3]
=============================================================================
