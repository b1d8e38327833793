--------------------------- MODULE MultiAgentRun ---------------------------
(***************************************************************************)
(* Multi-Agent Runs: a turn delegates to worker nodes, at most once, waits *)
(* for them and goes on with their results (multi_agent/coordinator.py,    *)
(* multi_agent/delegate_tool.py, runtime/agent_loop.py).  Every change of  *)
(* a Run or a node is a row of the trace file of the parent session        *)
(* (runtime/runtime.py:_persist_multi_agent_event), from which readers     *)
(* derive what happened and a restarted Gateway finds what was interrupted *)
(* (sessions/store.py).                                                    *)
(*                                                                         *)
(* The lock of the trace file is never held across an await, and the bus   *)
(* that takes the event has no bound, so writing a row does not let        *)
(* another task run: a step ends at a row, because the process may die     *)
(* there, or at an await.                                                  *)
(***************************************************************************)
EXTENDS Integers, Sequences, FiniteSets

CONSTANTS Run,          \* the Runs of different parent requests
          FanOut,       \* those with the strategy fan_out_fan_in; the others are pipelines
          Tasks,        \* the number of tasks of each Run
          PerRun,       \* max_concurrent_workers_per_run
          Global,       \* max_concurrent_workers_global
          MaxRuns,      \* bound on the Runs that are begun
          MaxFailures,  \* bound on the rows the disk refuses
          MaxStops,     \* bound on the ends of the process
          MaxWaits      \* bound on the approvals of a Run

ASSUME RunAssumption ==
  /\ FanOut \subseteq Run
  /\ Tasks \in [Run -> Nat \ {0}]
  /\ {PerRun, Global} \subseteq Nat \ {0}
  /\ {MaxRuns, MaxFailures, MaxStops, MaxWaits} \subseteq Nat

VARIABLES
  trace,     \* trace[r]: the rows of r in turn_traces.jsonl
  failures,  \* rows refused so far
  broken,    \* _event_errors
  pc,        \* where the parent's turn is
  mem,       \* the status of the Run in _runs_by_request, "none" if there is none
  next,      \* the node the parent's loop is at
  waits,     \* approvals the parent asked for
  at,        \* where each worker is
  res,       \* the status of each worker's MultiAgentNode
  held,      \* the permits of each worker: 0, 1 (its Run's) or 2 (the global one as well)
  runSlots,  \* value of each Run's semaphore
  slots,     \* value of the global semaphore
  stop,      \* is_stop_requested of the parent's channel
  asked,     \* history: somebody has asked for the stop of this Run
  late,      \* the deadline of the Run has passed
  cut,       \* the close of the Gateway has cancelled the parent's task
  gateway,   \* up, closing, down, recovering
  stops      \* how often the process has ended

sink == <<trace, failures, broken>>
parent == <<pc, mem, next, waits>>
workers == <<at, res, held, runSlots, slots>>
signals == <<stop, asked, late, cut>>
process == <<gateway, stops>>
vars == <<sink, parent, workers, signals, process>>

Nodes(r) == 1..Tasks[r]
Workers == UNION {{<<r, n>> : n \in Nodes(r)} : r \in Run}
Itself == 0           \* the node_id of a row about the Run: null
Ended == {"completed", "failed", "timed_out", "cancelled", "interrupted"}
Active == {"queued", "running", "waiting"}

(* A row is [of |-> a node or Itself, status |-> Active or Ended].          *)
(* pc[r]: idle, opening, queueing, starting, collecting, ending, failing,   *)
(* synthesis, approval, cancelling, unsaved, done, aborted, lost.           *)
(* at[r][n]: idle, ready, perRun, global, exec, report, over.               *)

-----------------------------------------------------------------------------
(* The trace file. *)
Written(r, n, s) == trace' = [trace EXCEPT ![r] = Append(@, [of |-> n, status |-> s])]

(* The sink returns, or it raises: the row is not there and the Run is      *)
(* broken.  _emit also remembers the nodes and Runs whose terminal row is   *)
(* written and drops a second one; that memory is left out, so OneTerminal  *)
(* and TerminalIsLast hold without it.                                      *)
Emitted(r, n, s) == Written(r, n, s) /\ UNCHANGED <<failures, broken>>
Refused(r) ==
  /\ failures < MaxFailures
  /\ failures' = failures + 1
  /\ broken' = [broken EXCEPT ![r] = TRUE]

Emit(r, n, s) ==
  \/ Emitted(r, n, s)
  \/ Refused(r) /\ UNCHANGED trace

(* The row of a worker is followed by a row of its token usage, which may *)
(* be refused when the first one is already there.                        *)
EmitUsed(r, n, s) ==
  \/ Emit(r, n, s)
  \/ Refused(r) /\ Written(r, n, s)

RowsOf(t, n) == {i \in 1..Len(t) : t[i].of = n}
LastOf(t, n) == t[CHOOSE i \in RowsOf(t, n) : \A j \in RowsOf(t, n) : j <= i].status
EndsOf(t, n) == {i \in RowsOf(t, n) : t[i].status \in Ended}
FirstEnd(t, n) == t[CHOOSE i \in EndsOf(t, n) : \A j \in EndsOf(t, n) : i <= j].status

(* read_multi_agent_runs: the first terminal row of a Run or a node counts. *)
SeenStatus(t, n) ==
  IF EndsOf(t, n) # {} THEN FirstEnd(t, n)
  ELSE IF RowsOf(t, n) # {} THEN LastOf(t, n) ELSE "none"

SeenRun(t) ==
  IF t # <<>> /\ SeenStatus(t, Itself) = "none" THEN "queued" ELSE SeenStatus(t, Itself)

-----------------------------------------------------------------------------
Init ==
  /\ trace = [r \in Run |-> <<>>]
  /\ failures = 0
  /\ broken = [r \in Run |-> FALSE]
  /\ pc = [r \in Run |-> "idle"]
  /\ mem = [r \in Run |-> "none"]
  /\ next = [r \in Run |-> 1]
  /\ waits = [r \in Run |-> 0]
  /\ at = [r \in Run |-> [n \in Nodes(r) |-> "idle"]]
  /\ res = [r \in Run |-> [n \in Nodes(r) |-> "none"]]
  /\ held = [r \in Run |-> [n \in Nodes(r) |-> 0]]
  /\ runSlots = [r \in Run |-> PerRun]
  /\ slots = Global
  /\ stop = [r \in Run |-> FALSE]
  /\ asked = [r \in Run |-> FALSE]
  /\ late = [r \in Run |-> FALSE]
  /\ cut = [r \in Run |-> FALSE]
  /\ gateway = "up"
  /\ stops = 0

Goto(r, p) == pc' = [pc EXCEPT ![r] = p]
Remember(r, s) == mem' = [mem EXCEPT ![r] = s]

(* _finish_event_failure: the Run is failed in memory, then a row says so. *)
FinishEventFailure(r, p) == Remember(r, "failed") /\ Goto(r, p)

-----------------------------------------------------------------------------
(* The parent's turn, up to its workers. *)
Delegate(r) ==
  /\ gateway = "up"
  /\ pc[r] = "idle"
  /\ Cardinality({q \in Run : pc[q] # "idle"}) < MaxRuns
  /\ Remember(r, "queued")
  /\ Goto(r, "opening")
  /\ UNCHANGED <<sink, next, waits, workers, signals, process>>

Open(r) ==
  /\ pc[r] = "opening"
  /\ Emit(r, Itself, "queued")
  /\ IF broken'[r] THEN FinishEventFailure(r, "failing")
                   ELSE Goto(r, "queueing") /\ UNCHANGED mem
  /\ UNCHANGED <<next, waits, workers, signals, process>>

LastNode(r) == next[r] = Tasks[r]

(* All nodes are announced before a failure is looked at. *)
QueueNode(r) ==
  /\ pc[r] = "queueing"
  /\ Emit(r, next[r], "queued")
  /\ IF LastNode(r)
     THEN /\ next' = [next EXCEPT ![r] = 1]
          /\ IF broken'[r] THEN FinishEventFailure(r, "failing")
                           ELSE Remember(r, "running") /\ Goto(r, "starting")
     ELSE next' = [next EXCEPT ![r] = @ + 1] /\ UNCHANGED <<pc, mem>>
  /\ UNCHANGED <<waits, workers, signals, process>>

(* gather starts all workers, a pipeline the first one. *)
StartRun(r) ==
  /\ pc[r] = "starting"
  /\ Emit(r, Itself, "running")
  /\ IF broken'[r]
     THEN FinishEventFailure(r, "failing") /\ UNCHANGED at
     ELSE /\ Goto(r, "collecting")
          /\ at' = [at EXCEPT ![r] =
                [n \in Nodes(r) |-> IF r \in FanOut \/ n = 1 THEN "ready" ELSE "idle"]]
          /\ UNCHANGED mem
  /\ UNCHANGED <<next, waits, res, held, runSlots, slots, signals, process>>

-----------------------------------------------------------------------------
(* A worker, _run_worker: its permits, its execution, its report. *)
Move(r, n, w) == at' = [at EXCEPT ![r][n] = w]
Result(r, n, s) == res' = [res EXCEPT ![r][n] = s]
Hold(r, n, k) == held' = [held EXCEPT ![r][n] = k]

Over(r) == stop[r] \/ late[r]
Unstarted(r) == IF stop[r] THEN "cancelled" ELSE "timed_out"

Release_Together(r, n) ==
  /\ Hold(r, n, 0)
  /\ runSlots' = [runSlots EXCEPT ![r] = @ + (IF held[r][n] = 2 THEN 1 ELSE 0)]
  /\ slots' = slots + (IF held[r][n] = 2 THEN 1 ELSE 0)

(* The finally of _run_worker. *)
Release(r, n) ==
  /\ Hold(r, n, 0)
  /\ runSlots' = [runSlots EXCEPT ![r] = @ + (IF held[r][n] > 0 THEN 1 ELSE 0)]
  /\ slots' = slots + (IF held[r][n] = 2 THEN 1 ELSE 0)

Enter(r, n) ==
  /\ at[r][n] = "ready"
  /\ IF broken[r] THEN Move(r, n, "over") /\ Result(r, n, "failed")
     ELSE IF Over(r) THEN Move(r, n, "report") /\ Result(r, n, Unstarted(r))
     ELSE Move(r, n, "perRun") /\ UNCHANGED res
  /\ UNCHANGED <<sink, parent, held, runSlots, slots, signals, process>>

(* _acquire polls: it loses its place in the line of the semaphore every    *)
(* 50 ms, so any waiting worker may be the next, also one that is to stop. *)
TakeRunSlot(r, n) ==
  /\ at[r][n] = "perRun"
  /\ runSlots[r] > 0
  /\ runSlots' = [runSlots EXCEPT ![r] = @ - 1]
  /\ Hold(r, n, 1)
  /\ IF Over(r) THEN Move(r, n, "report") /\ Result(r, n, Unstarted(r))
                ELSE Move(r, n, "global") /\ UNCHANGED res
  /\ UNCHANGED <<sink, parent, slots, signals, process>>

GiveUp(r, n) ==
  /\ at[r][n] \in {"perRun", "global"}
  /\ Over(r)
  /\ Move(r, n, "report")
  /\ Result(r, n, Unstarted(r))
  /\ UNCHANGED <<sink, parent, held, runSlots, slots, signals, process>>

(* The node is announced as running; a broken Run executes nothing more. *)
TakeGlobalSlot(r, n) ==
  /\ at[r][n] = "global"
  /\ slots > 0
  /\ Emit(r, n, "running")
  /\ IF broken'[r]
     THEN /\ Move(r, n, "over")
          /\ Result(r, n, "failed")
          /\ Hold(r, n, 0)
          /\ runSlots' = [runSlots EXCEPT ![r] = @ + 1]
          /\ UNCHANGED slots
     ELSE /\ slots' = slots - 1
          /\ Hold(r, n, 2)
          /\ IF late[r] THEN Move(r, n, "report") /\ Result(r, n, "timed_out")
                        ELSE Move(r, n, "exec") /\ UNCHANGED res
          /\ UNCHANGED runSlots
  /\ UNCHANGED <<parent, signals, process>>

(* A completed result is not taken from a Run that is being stopped; one    *)
(* that is empty or too long is a failure.                                  *)
Accepted(r, s) == IF s = "completed" /\ stop[r] THEN "cancelled" ELSE s

Answer(r, n) ==
  /\ at[r][n] = "exec"
  /\ \E s \in {"completed", "failed", "cancelled"} : Result(r, n, Accepted(r, s))
  /\ Move(r, n, "report")
  /\ UNCHANGED <<sink, parent, held, runSlots, slots, signals, process>>

(* worker_timeout_seconds is not longer than the Run's deadline. *)
TimeOut(r, n) ==
  /\ at[r][n] = "exec"
  /\ ~stop[r]
  /\ Move(r, n, "report")
  /\ Result(r, n, "timed_out")
  /\ UNCHANGED <<sink, parent, held, runSlots, slots, signals, process>>

StopWorker(r, n) ==
  /\ at[r][n] = "exec"
  /\ stop[r]
  /\ Move(r, n, "report")
  /\ Result(r, n, "cancelled")
  /\ UNCHANGED <<sink, parent, held, runSlots, slots, signals, process>>

Report(r, n) ==
  /\ at[r][n] = "report"
  /\ IF held[r][n] = 2 THEN EmitUsed(r, n, res[r][n]) ELSE Emit(r, n, res[r][n])
  /\ Release(r, n)
  /\ Move(r, n, "over")
  /\ UNCHANGED <<parent, res, signals, process>>

-----------------------------------------------------------------------------
(* The parent's turn, from its workers to the end of the Run. *)
Completed(r) == {n \in Nodes(r) : res[r][n] = "completed"}

(* A pipeline starts a worker after a completed one whose result fits into  *)
(* the next prompt; otherwise all further nodes end without a worker.       *)
NextWorker(r) ==
  LET n == next[r] + 1
  IN /\ pc[r] = "collecting"
     /\ r \notin FanOut
     /\ n \in Nodes(r)
     /\ at[r][next[r]] = "over"
     /\ next' = [next EXCEPT ![r] = n]
     /\ IF res[r][next[r]] = "completed"
        THEN \/ Move(r, n, "ready") /\ UNCHANGED res
             \/ Move(r, n, "report") /\ Result(r, n, "failed")
        ELSE Move(r, n, "report") /\ Result(r, n, "cancelled")
     /\ UNCHANGED <<sink, pc, mem, waits, held, runSlots, slots, signals, process>>

Collected_Answered(r) ==
  \A n \in Nodes(r) : at[r][n] = "over" /\ res[r][n] \in {"completed", "failed"}
Collected(r) == \A n \in Nodes(r) : at[r][n] = "over"
Succeeded_Any(r) == Completed(r) # {}
Succeeded(r) == IF r \in FanOut THEN Completed(r) # {} ELSE Completed(r) = Nodes(r)

(* What delegate makes of the results.  Those that do not fit into the      *)
(* parent's context fail the Run.                                           *)
Verdicts(r) ==
  IF stop[r] THEN {"cancelled"}
  ELSE IF late[r] THEN {"timed_out"}
  ELSE (IF Succeeded(r) THEN {"running"} ELSE {"failed"})
       \union (IF Completed(r) # {} THEN {"failed"} ELSE {})

(* The cancellation of a fan-out, which gather raises. *)
Aborted(r) == r \in FanOut /\ cut[r]

Collect(r) ==
  /\ pc[r] = "collecting"
  /\ Collected(r)
  /\ ~Aborted(r)
  /\ IF broken[r]
     THEN FinishEventFailure(r, "failing")
     ELSE \E v \in Verdicts(r) :
            Remember(r, v) /\ Goto(r, IF v = "running" THEN "synthesis" ELSE "ending")
  /\ UNCHANGED <<sink, next, waits, workers, signals, process>>

EndRun(r) ==
  /\ pc[r] = "ending"
  /\ \/ Emitted(r, Itself, mem[r]) /\ Goto(r, "synthesis") /\ UNCHANGED mem
     \/ Refused(r) /\ FinishEventFailure(r, "failing") /\ UNCHANGED trace
  /\ UNCHANGED <<next, waits, workers, signals, process>>

(* The row that says the Run is broken; nobody looks whether it was written. *)
FailRun(r) ==
  /\ pc[r] \in {"failing", "unsaved"}
  /\ Emit(r, Itself, "failed")
  /\ Goto(r, IF pc[r] = "failing" THEN "synthesis" ELSE "done")
  /\ UNCHANGED <<mem, next, waits, workers, signals, process>>

(* finalize: a Run that is over is forgotten, another one ends now.  The    *)
(* Run whose last row was refused stays in memory.                          *)
Outcome(r, o) == IF o = "completed" /\ late[r] THEN "timed_out" ELSE o
Forget(r) == Remember(r, "none") /\ Goto(r, "done")

Finalize(r, o) ==
  IF mem[r] \in Ended THEN Forget(r) /\ UNCHANGED sink
  ELSE \/ Emitted(r, Itself, Outcome(r, o)) /\ Forget(r)
       \/ Refused(r) /\ FinishEventFailure(r, "unsaved") /\ UNCHANGED trace

(* How the parent's loop may end now. *)
Endings(r) ==
  {"failed"} \union (IF stop[r] THEN {"cancelled"} ELSE {"completed"})
             \union (IF late[r] THEN {"timed_out"} ELSE {})

Finish(r) ==
  /\ pc[r] = "synthesis"
  /\ \E o \in Endings(r) : Finalize(r, o)
  /\ UNCHANGED <<next, waits, workers, signals, process>>

(* check_parent_context, then finalize, whatever became of the row. *)
Overflow(r) ==
  /\ pc[r] = "synthesis"
  /\ mem[r] = "running"
  /\ ~Over(r)
  /\ Emit(r, Itself, "failed")
  /\ Forget(r)
  /\ UNCHANGED <<next, waits, workers, signals, process>>

(* An ordinary tool of the parent asks for an approval (set_waiting). *)
AskApproval(r) ==
  /\ pc[r] = "synthesis"
  /\ mem[r] = "running"
  /\ waits[r] < MaxWaits
  /\ waits' = [waits EXCEPT ![r] = @ + 1]
  /\ Remember(r, "waiting")
  /\ Emit(r, Itself, "waiting")
  /\ Goto(r, "approval")
  /\ UNCHANGED <<next, workers, signals, process>>

Resume(r) ==
  /\ pc[r] = "approval"
  /\ Remember(r, "running")
  /\ Emit(r, Itself, "running")
  /\ Goto(r, "synthesis")
  /\ UNCHANGED <<next, waits, workers, signals, process>>

-----------------------------------------------------------------------------
(* Stop, time, and the end of the process. *)
Delegated(r) == pc[r] \notin {"idle", "done", "lost"}

(* By the user, or by the CLI connection that is lost. *)
StopRun(r) ==
  /\ gateway = "up"
  /\ Delegated(r)
  /\ ~stop[r]
  /\ stop' = [stop EXCEPT ![r] = TRUE]
  /\ asked' = [asked EXCEPT ![r] = TRUE]
  /\ UNCHANGED <<sink, parent, workers, late, cut, process>>

Expire(r) ==
  /\ Delegated(r)
  /\ ~late[r]
  /\ late' = [late EXCEPT ![r] = TRUE]
  /\ UNCHANGED <<sink, parent, workers, stop, asked, cut, process>>

(* The Web and the CLI coordinator stop all controls; an IM turn has no     *)
(* control that stops.                                                      *)
Close ==
  /\ gateway = "up"
  /\ stops < MaxStops
  /\ gateway' = "closing"
  /\ \E im \in SUBSET {r \in Run : Delegated(r)} :
        stop' = [r \in Run |-> stop[r] \/ (Delegated(r) /\ r \notin im)]
  /\ UNCHANGED <<sink, parent, workers, asked, late, cut, stops>>

(* Then the turn coordinator cancels all turns, at their awaits.            *)
(* A worker that executes takes the cancellation for one of its own and     *)
(* reports; any other dies of it, and with it the parent, which awaits it.  *)
(* gather, which passes the cancellation on to all workers, raises it for   *)
(* a fan-out also if all of them reported.                                  *)
Dies(r, n) == at[r][n] \in {"ready", "perRun", "global"}

CancelWorkers(r) ==
  /\ at' = [at EXCEPT ![r] = [n \in Nodes(r) |->
       IF Dies(r, n) THEN "over" ELSE IF at[r][n] = "exec" THEN "report" ELSE at[r][n]]]
  /\ res' = [res EXCEPT ![r] = [n \in Nodes(r) |->
       IF at[r][n] = "exec" THEN "cancelled" ELSE res[r][n]]]
  /\ held' = [held EXCEPT ![r] = [n \in Nodes(r) |-> IF Dies(r, n) THEN 0 ELSE held[r][n]]]
  /\ runSlots' = [runSlots EXCEPT ![r] = @ + Cardinality({n \in Nodes(r) : at[r][n] = "global"})]
  /\ UNCHANGED slots

AtAwait(r, n) ==
  \/ at[r][n] \in {"perRun", "global", "exec"}
  \/ at[r][n] = "report" /\ held[r][n] = 2

CancelCollecting(r) ==
  /\ pc[r] = "collecting"
  /\ r \in FanOut \/ AtAwait(r, next[r])
  /\ CancelWorkers(r)
  /\ IF \E n \in Nodes(r) : Dies(r, n) THEN Goto(r, "aborted") ELSE UNCHANGED pc
  /\ UNCHANGED <<sink, mem, next, waits>>

Abort(r) ==
  /\ pc[r] = "collecting"
  /\ Aborted(r)
  /\ Collected(r)
  /\ Goto(r, "aborted")
  /\ UNCHANGED <<sink, mem, next, waits, workers, signals, process>>

CancelSynthesis(r) ==
  /\ pc[r] = "synthesis"
  /\ mem[r] \in Active
  /\ Finalize(r, "cancelled")
  /\ UNCHANGED <<next, waits, workers>>

(* set_waiting(False) runs in a finally, before the turn is finalized. *)
CancelApproval(r) ==
  /\ pc[r] = "approval"
  /\ Remember(r, "running")
  /\ Emit(r, Itself, "running")
  /\ Goto(r, "cancelling")
  /\ UNCHANGED <<next, waits, workers>>

CancelTurn(r) ==
  /\ gateway = "closing"
  /\ ~cut[r]
  /\ cut' = [cut EXCEPT ![r] = TRUE]
  /\ CancelCollecting(r) \/ CancelSynthesis(r) \/ CancelApproval(r)
  /\ UNCHANGED <<stop, asked, late, process>>

FinishCancelled(r) ==
  /\ pc[r] = "cancelling"
  /\ Finalize(r, "cancelled")
  /\ UNCHANGED <<next, waits, workers, signals, process>>

(* All that is left of a process is the trace. *)
ProcessEnds ==
  /\ gateway' = "down"
  /\ stops' = stops + 1
  /\ pc' = [r \in Run |-> IF pc[r] = "idle" THEN "idle" ELSE "lost"]
  /\ mem' = [r \in Run |-> "none"]
  /\ broken' = [r \in Run |-> FALSE]
  /\ next' = [r \in Run |-> 1]
  /\ waits' = [r \in Run |-> 0]
  /\ at' = [r \in Run |-> [n \in Nodes(r) |-> "idle"]]
  /\ res' = [r \in Run |-> [n \in Nodes(r) |-> "none"]]
  /\ held' = [r \in Run |-> [n \in Nodes(r) |-> 0]]
  /\ runSlots' = [r \in Run |-> PerRun]
  /\ slots' = Global
  /\ stop' = [r \in Run |-> FALSE]
  /\ late' = [r \in Run |-> FALSE]
  /\ cut' = [r \in Run |-> FALSE]
  /\ UNCHANGED <<trace, failures, asked>>

Exit ==
  /\ gateway = "closing"
  /\ \A r \in Run : pc[r] \in {"idle", "done", "aborted", "lost"}
  /\ ProcessEnds

Crash ==
  /\ gateway # "down"
  /\ stops < MaxStops
  /\ ProcessEnds

-----------------------------------------------------------------------------
(* The next start of the Gateway: recover_interrupted_runs, row by row,      *)
(* before anything else runs.                                                *)
Restart ==
  /\ gateway = "down"
  /\ gateway' = "recovering"
  /\ UNCHANGED <<sink, parent, workers, signals, stops>>

Interrupted(r) == trace[r] # <<>> /\ EndsOf(trace[r], Itself) = {}
OpenNodes_Known(r) == {n \in Nodes(r) : RowsOf(trace[r], n) # {}}
OpenNodes(r) == {n \in Nodes(r) : RowsOf(trace[r], n) # {} /\ LastOf(trace[r], n) \notin Ended}

RecoverNode(r, n) ==
  /\ gateway = "recovering"
  /\ Interrupted(r)
  /\ n \in OpenNodes(r)
  /\ Emitted(r, n, "interrupted")
  /\ UNCHANGED <<parent, workers, signals, process>>

RecoverRun_First(r) ==
  /\ gateway = "recovering"
  /\ Interrupted(r)
  /\ Emitted(r, Itself, "interrupted")
  /\ UNCHANGED <<parent, workers, signals, process>>

RecoverRun(r) ==
  /\ gateway = "recovering"
  /\ Interrupted(r)
  /\ OpenNodes(r) = {}
  /\ Emitted(r, Itself, "interrupted")
  /\ UNCHANGED <<parent, workers, signals, process>>

Up ==
  /\ gateway = "recovering"
  /\ \A r \in Run : ~Interrupted(r)
  /\ gateway' = "up"
  /\ UNCHANGED <<sink, parent, workers, signals, stops>>

-----------------------------------------------------------------------------
ParentStep(r) ==
  Open(r) \/ QueueNode(r) \/ StartRun(r) \/ NextWorker(r) \/ Collect(r)
    \/ Abort(r) \/ EndRun(r) \/ FailRun(r) \/ FinishCancelled(r)

(* What a Run does by itself once its deadline is over. *)
LateStep(r) == (late[r] \/ mem[r] \in Ended) /\ (Finish(r) \/ Resume(r))

WorkerStep(r, n) ==
  Enter(r, n) \/ TakeRunSlot(r, n) \/ GiveUp(r, n) \/ TakeGlobalSlot(r, n) \/ Report(r, n)
    \/ StopWorker(r, n)

Next ==
  \/ \E r \in Run :
       \/ Delegate(r) \/ ParentStep(r)
       \/ Finish(r) \/ Overflow(r) \/ AskApproval(r) \/ Resume(r)
       \/ StopRun(r) \/ Expire(r) \/ CancelTurn(r) \/ RecoverRun(r)
       \/ \E n \in Nodes(r) :
            WorkerStep(r, n) \/ Answer(r, n) \/ TimeOut(r, n) \/ RecoverNode(r, n)
  \/ Close \/ Exit \/ Crash \/ Restart \/ Up

(* asyncio runs ready tasks, and time passes: as long as a Run has a step to *)
(* take it takes one, and every wait ends with its deadline at the latest.  *)
(* Nothing makes workers, the model or the user answer.                     *)
Progress(r) ==
  \/ ParentStep(r) \/ LateStep(r) \/ Expire(r)
  \/ \E n \in Nodes(r) : WorkerStep(r, n) \/ (late[r] /\ TimeOut(r, n))

Fairness == \A r \in Run : WF_vars(Progress(r))

Spec == Init /\ [][Next]_vars
FairSpec == Spec /\ Fairness

-----------------------------------------------------------------------------
(* Properties. *)

(* A node gets one terminal row, whoever writes it: its worker, the parent  *)
(* of a blocked pipeline, or the recovery after a crash anywhere between.   *)
(* The terminal row of a Run is its last row: no late event of a node, of   *)
(* an approval or of a second end follows it, also not after a restart.     *)
OneTerminal ==
  \A r \in Run :
    /\ \A n \in Nodes(r) : Cardinality(EndsOf(trace[r], n)) <= 1
    /\ \A i \in EndsOf(trace[r], Itself) : i = Len(trace[r])

(* No permit is lost or made, however a worker ends: by its answer, Stop, a *)
(* deadline, a broken Run, or a cancellation at any of its awaits.          *)
SlotsExact ==
  /\ slots + Cardinality({w \in Workers : held[w[1]][w[2]] = 2}) = Global
  /\ \A r \in Run : runSlots[r] + Cardinality({n \in Nodes(r) : held[r][n] > 0}) = PerRun

(* When the Gateway is up, nothing of an earlier process is left open: its  *)
(* Runs have ended, and those that were interrupted have no open node, also *)
(* if the recovery was itself interrupted.                                  *)
Recovered ==
  gateway = "up" => \A r \in Run : pc[r] = "lost" =>
    /\ ~Interrupted(r)
    /\ trace[r] # <<>> /\ FirstEnd(trace[r], Itself) = "interrupted" =>
         OpenNodes(r) = {}

(* A Run that was begun is over at some time, even if no worker ever        *)
(* answers and all permits are taken, or else its process ends.             *)
RunEnds == \A r \in Run : pc[r] = "opening" ~> pc[r] \in {"done", "aborted", "lost"}

(* Readers of the trace see the life of a Run that RunEvents describes.     *)
Events == INSTANCE RunEvents WITH
  Node <- [r \in Run |-> Nodes(r)],
  run <- [r \in Run |-> SeenRun(trace[r])],
  node <- [r \in Run |-> [n \in Nodes(r) |-> SeenStatus(trace[r], n)]]

ImplementsRunEvents == Events!Spec

(* The documents: run.cancelled says that the user stopped the Run.         *)
CancelledMeansStopped ==
  \A r \in Run : EndsOf(trace[r], Itself) # {} /\ FirstEnd(trace[r], Itself) = "cancelled" => asked[r]
=============================================================================
