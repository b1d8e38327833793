----------------------------- MODULE RunEvents -----------------------------
(***************************************************************************)
(* What a reader of the parent session may see of Multi-Agent Runs, across *)
(* restarts of the Gateway and failures of its disk: a Run is queued,      *)
(* runs, may wait for an approval, and ends once; a node is queued, runs   *)
(* and ends once, never after its Run; a Run is completed only when all    *)
(* its nodes have ended and enough of them with a result.                  *)
(***************************************************************************)
EXTENDS Naturals

CONSTANTS Run,      \* Runs
          Node,     \* Node[r]: the nodes of r
          FanOut    \* the Runs that need one completed node only

VARIABLES run,      \* run[r]: the status of r
          node      \* node[r][n]: the status of its node n

eventVars == <<run, node>>

Ended == {"completed", "failed", "timed_out", "cancelled", "interrupted"}
Active == {"queued", "running", "waiting"}

Init ==
  /\ run = [r \in Run |-> "none"]
  /\ node = [r \in Run |-> [n \in Node[r] |-> "none"]]

RunIs(r, s) == run' = [run EXCEPT ![r] = s] /\ UNCHANGED node
NodeIs(r, n, s) == node' = [node EXCEPT ![r][n] = s] /\ UNCHANGED run

(* The first row of a Run, of whatever kind, makes it known as queued. *)
Open(r) == run[r] = "none" /\ RunIs(r, "queued")

Queue(r, n) ==
  /\ run[r] \in {"none", "queued"}
  /\ node[r][n] = "none"
  /\ node' = [node EXCEPT ![r][n] = "queued"]
  /\ run' = [run EXCEPT ![r] = "queued"]

Start(r) == run[r] = "queued" /\ RunIs(r, "running")

Work(r, n) == run[r] = "running" /\ node[r][n] = "queued" /\ NodeIs(r, n, "running")

EndNode(r, n) ==
  /\ run[r] \in Active
  /\ node[r][n] \in {"queued", "running"}
  /\ \E s \in Ended : NodeIs(r, n, s)

Wait(r) == run[r] = "running" /\ RunIs(r, "waiting")
Resume(r) == run[r] = "waiting" /\ RunIs(r, "running")

Enough(r) ==
  /\ \A n \in Node[r] : node[r][n] \in Ended \ {"interrupted"}
  /\ IF r \in FanOut THEN \E n \in Node[r] : node[r][n] = "completed"
                     ELSE \A n \in Node[r] : node[r][n] = "completed"

End(r) ==
  /\ run[r] \notin Ended
  /\ \E s \in Ended \ (IF Enough(r) THEN {} ELSE {"completed"}) : RunIs(r, s)

Next ==
  \E r \in Run :
    \/ Open(r) \/ Start(r) \/ Wait(r) \/ Resume(r) \/ End(r)
    \/ \E n \in Node[r] : Queue(r, n) \/ Work(r, n) \/ EndNode(r, n)

Spec == Init /\ [][Next]_eventVars
=============================================================================
