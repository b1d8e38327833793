----------------------------- MODULE RouteFifo -----------------------------
(***************************************************************************)
(* What the Gateway promises about a route (principal, channel,            *)
(* conversation), without tasks, buses or adapters: the messages of a      *)
(* route wait in one line, only the head of a line is ever executed, a     *)
(* message whose execution is remembered is not accepted again, and a      *)
(* route that is held (its Binding is being deleted) has an empty line.    *)
(***************************************************************************)
EXTENDS Naturals, Sequences

CONSTANTS Req,      \* message ids
          Route,    \* routes
          RouteOf   \* the route of each message

VARIABLES line,     \* line[ro]: the messages of ro in acceptance order
          served,   \* messages whose execution is remembered
          held      \* routes that accept nothing

fifoVars == <<line, served, held>>

Waiting(ro) == {line[ro][i] : i \in 2..Len(line[ro])}

Init ==
  /\ line = [ro \in Route |-> <<>>]
  /\ served = {}
  /\ held = {}

(* A message joins the end of its line. *)
Arrive(r) ==
  /\ RouteOf[r] \notin held
  /\ r \notin served \union Waiting(RouteOf[r])
  /\ line' = [line EXCEPT ![RouteOf[r]] = Append(@, r)]
  /\ UNCHANGED <<served, held>>

(* The head of a line is executed. *)
Begin(r) ==
  /\ line[RouteOf[r]] # <<>>
  /\ Head(line[RouteOf[r]]) = r
  /\ r \notin served
  /\ served' = served \union {r}
  /\ UNCHANGED <<line, held>>

(* The head leaves: its reply was handed over, or it was never dispatched. *)
Leave(ro) ==
  /\ line[ro] # <<>>
  /\ line' = [line EXCEPT ![ro] = Tail(@)]
  /\ UNCHANGED <<served, held>>

(* What waits behind the head is dropped. *)
DropWaiting(ro) ==
  /\ line[ro] # <<>>
  /\ line' = [line EXCEPT ![ro] = <<Head(@)>>]
  /\ UNCHANGED <<served, held>>

(* The whole line is dropped. *)
DropLine(ro) ==
  /\ line' = [line EXCEPT ![ro] = <<>>]
  /\ UNCHANGED <<served, held>>

(* Old executions fall out of the bounded memory. *)
Forget(S) ==
  /\ served' = served \ S
  /\ UNCHANGED <<line, held>>

(* A set of routes is held only while nothing of theirs is in line. *)
Hold(R) ==
  /\ \A ro \in R : line[ro] = <<>>
  /\ held' = held \union R
  /\ UNCHANGED <<line, served>>

Unhold(R) ==
  /\ held' = held \ R
  /\ UNCHANGED <<line, served>>

(* Shutdown empties every line at once. *)
Reset ==
  /\ line' = [ro \in Route |-> <<>>]
  /\ held' = {}
  /\ UNCHANGED served

Next ==
  \/ \E r \in Req : Arrive(r) \/ Begin(r)
  \/ \E ro \in Route : Leave(ro) \/ DropWaiting(ro) \/ DropLine(ro)
  \/ \E S \in SUBSET Req : Forget(S)
  \/ \E R \in SUBSET Route : Hold(R) \/ Unhold(R)
  \/ Reset

Spec == Init /\ [][Next]_fifoVars
=============================================================================
