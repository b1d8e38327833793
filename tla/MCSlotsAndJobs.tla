--------------------------- MODULE MCSlotsAndJobs ---------------------------
(***************************************************************************)
(* The execution slots of the turns, and the scheduler with its Cron jobs: *)
(* the two that must go on by themselves.  They share nothing here: `which`*)
(* names the one that moves, the other rests in its initial state.  Three  *)
(* turns want one slot; two jobs, one of them recurring, belong to two     *)
(* principals, of which the guest can be retired.                          *)
(***************************************************************************)
EXTENDS ExecutionSlots, CronJobs, TLC

CONSTANTS t1, t2, t3, r, o, own, guest

VARIABLE which

MCTurn == {t1, t2, t3}
MCHome == (r :> own) @@ (o :> guest)

bothVars == <<which, vars, cronVars>>

BothInit == which \in {"slots", "cron"} /\ Init /\ CronInit

SlotsMove == which = "slots" /\ Next /\ UNCHANGED <<which, cronVars>>
CronMoves == which = "cron" /\ CronNext /\ UNCHANGED <<which, vars>>

(* The fairness of ExecutionSlots!FairSpec and of CronSpec. *)
ProceedFairly(t) == which = "slots" /\ Proceed(t) /\ UNCHANGED <<which, cronVars>>
ApprovalFairly(t) == which = "slots" /\ ApprovalDone(t) /\ UNCHANGED <<which, cronVars>>
TurnFairly(t) == which = "slots" /\ (Finish(t) \/ AskApproval(t)) /\ UNCHANGED <<which, cronVars>>
SchedulerFairly == which = "cron" /\ SchedulerStep /\ UNCHANGED <<which, vars>>

BothSpec ==
  /\ BothInit /\ [][SlotsMove \/ CronMoves]_bothVars
  /\ \A t \in Turn :
       WF_bothVars(ProceedFairly(t)) /\ WF_bothVars(ApprovalFairly(t)) /\ WF_bothVars(TurnFairly(t))
  /\ WF_bothVars(SchedulerFairly)
=============================================================================
