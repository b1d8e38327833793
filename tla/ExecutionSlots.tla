--------------------------- MODULE ExecutionSlots ---------------------------
(***************************************************************************)
(* The execution slots of the Gateway: one asyncio.Semaphore shared by all *)
(* turns (gateway/turns.py:_run_message), which a turn gives back while it *)
(* waits for the approval of a tool call and takes again afterwards        *)
(* (WebTurnControl in web/backend/coordinator.py, CliTurnControl in        *)
(* channels/cli_gateway.py).  A turn is interrupted by the deadline of its *)
(* Multi-Agent run (runtime/agent_loop.py) or by the close of the Gateway. *)
(***************************************************************************)
EXTENDS Naturals, Sequences, FiniteSets

CONSTANTS Turn,  \* turns
          Max    \* max_concurrent_turns

ASSUME MaxAssumption == Max \in Nat \ {0}
ASSUME TurnAssumption == IsFiniteSet(Turn)

VARIABLES
  sem,       \* the semaphore: its value, its waiters in order, and the woken waiters
  at,        \* where each turn is
  held,      \* _slot_held of each turn's control
  approval,  \* the approval future of each turn
  expired,   \* turns whose Multi-Agent deadline has passed
  closing,   \* GatewayTurnCoordinator.close has begun
  cancelled, \* turns whose task that close has cancelled
  over       \* history: turns that gave back a slot they did not hold

vars == <<sem, at, held, approval, expired, closing, cancelled, over>>

(* at[t]: new; entering: awaiting `async with semaphore`; running: in its    *)
(* body; asking: awaiting the approval; reentering: awaiting acquire_slot;   *)
(* done: gone.                                                               *)

-----------------------------------------------------------------------------
(* asyncio.Semaphore.  A woken waiter has its permit before its task runs.  *)
Locked(s) == s.value = 0 \/ s.waiters # <<>> \/ s.granted # {}

WakeNext(s) ==
  IF s.waiters = <<>> THEN s
  ELSE [value |-> s.value - 1, waiters |-> Tail(s.waiters),
        granted |-> s.granted \union {Head(s.waiters)}]

Release(s) == WakeNext([s EXCEPT !.value = @ + 1])

Taken(s) == [s EXCEPT !.value = @ - 1]
Queued(s, t) == [s EXCEPT !.waiters = Append(@, t)]

(* acquire() returns in the task of a woken waiter. *)
Resumed(s, t) ==
  LET left == [s EXCEPT !.granted = @ \ {t}]
  IN IF left.value > 0 THEN WakeNext(left) ELSE left

Waiting(s) == {s.waiters[i] : i \in 1..Len(s.waiters)}

RemoveOne(w, t) ==
  LET k == CHOOSE i \in 1..Len(w) : w[i] = t
  IN SubSeq(w, 1, k - 1) \o SubSeq(w, k + 1, Len(w))

(* acquire() is cancelled: a permit it already has is passed on. *)
Abandoned_KeepsPermit(s, t) ==
  IF t \in s.granted THEN [s EXCEPT !.granted = @ \ {t}]
  ELSE [s EXCEPT !.waiters = RemoveOne(@, t)]
Abandoned(s, t) ==
  IF t \in s.granted THEN Release([s EXCEPT !.granted = @ \ {t}])
  ELSE [s EXCEPT !.waiters = RemoveOne(@, t)]

-----------------------------------------------------------------------------
Init ==
  /\ sem = [value |-> Max, waiters |-> <<>>, granted |-> {}]
  /\ at = [t \in Turn |-> "new"]
  /\ held = [t \in Turn |-> FALSE]
  /\ approval = [t \in Turn |-> "none"]
  /\ expired = {}
  /\ closing = FALSE
  /\ cancelled = {}
  /\ over = {}

(* `async with semaphore`; the adapter then binds the slot to the control. *)
Start(t) ==
  /\ ~closing
  /\ at[t] = "new"
  /\ \/ /\ ~Locked(sem)
        /\ sem' = Taken(sem)
        /\ at' = [at EXCEPT ![t] = "running"]
        /\ held' = [held EXCEPT ![t] = TRUE]
     \/ /\ Locked(sem)
        /\ sem' = Queued(sem, t)
        /\ at' = [at EXCEPT ![t] = "entering"]
        /\ UNCHANGED held
  /\ UNCHANGED <<approval, expired, closing, cancelled, over>>

(* A woken waiter runs: of `async with`, or of acquire_slot, whose caller  *)
(* then forgets the approval.                                              *)
Proceed(t) ==
  /\ t \in sem.granted
  /\ sem' = Resumed(sem, t)
  /\ at' = [at EXCEPT ![t] = "running"]
  /\ held' = [held EXCEPT ![t] = TRUE]
  /\ approval' = [approval EXCEPT ![t] = "none"]
  /\ UNCHANGED <<expired, closing, cancelled, over>>

(* create_approval, then wait_approval up to its await.  Past its deadline  *)
(* or cancelled, a turn asks for nothing any more.                          *)
ReleaseSlot_Keeps(t) == UNCHANGED <<sem, held>>
ReleaseSlot(t) ==
  IF held[t] THEN sem' = Release(sem) /\ held' = [held EXCEPT ![t] = FALSE]
  ELSE UNCHANGED <<sem, held>>

AskApproval(t) ==
  /\ at[t] = "running"
  /\ t \notin expired \union cancelled
  /\ at' = [at EXCEPT ![t] = "asking"]
  /\ approval' = [approval EXCEPT ![t] = "pending"]
  /\ ReleaseSlot(t)
  /\ UNCHANGED <<expired, closing, cancelled, over>>

(* resolve_approval by the user, or Stop, which refuses what is pending. *)
Answer(t) ==
  /\ at[t] = "asking"
  /\ approval[t] = "pending"
  /\ approval' = [approval EXCEPT ![t] = "answered"]
  /\ UNCHANGED <<sem, at, held, expired, closing, cancelled, over>>

(* acquire_slot, in the `finally` of wait_approval, up to its first await. *)
Reenter(t) ==
  \/ /\ ~Locked(sem)
     /\ sem' = Taken(sem)
     /\ at' = [at EXCEPT ![t] = "running"]
     /\ held' = [held EXCEPT ![t] = TRUE]
     /\ approval' = [approval EXCEPT ![t] = "none"]
  \/ /\ Locked(sem)
     /\ sem' = Queued(sem, t)
     /\ at' = [at EXCEPT ![t] = "reentering"]
     /\ UNCHANGED <<held, approval>>

ApprovalDone(t) ==
  /\ at[t] = "asking"
  /\ approval[t] = "answered"
  /\ Reenter(t)
  /\ UNCHANGED <<expired, closing, cancelled, over>>

(* CancelledError arrives where the turn awaits.  In `asking` the `finally` *)
(* takes the slot again first; in `reentering` nothing does.                *)
Interrupt(t) ==
  \/ /\ at[t] = "running"
     /\ UNCHANGED <<sem, at, held, approval>>
  \/ /\ at[t] = "asking"
     /\ Reenter(t)
  \/ /\ at[t] = "reentering"
     /\ sem' = Abandoned(sem, t)
     /\ at' = [at EXCEPT ![t] = "running"]
     /\ approval' = [approval EXCEPT ![t] = "none"]
     /\ UNCHANGED held
  \/ /\ at[t] = "entering"
     /\ sem' = Abandoned(sem, t)
     /\ at' = [at EXCEPT ![t] = "done"]
     /\ UNCHANGED <<held, approval>>

(* wait_for of await_multi_agent_deadline cancels the tool calls once. *)
DeadlinePasses(t) ==
  /\ at[t] \in {"running", "asking", "reentering"}
  /\ t \notin expired
  /\ expired' = expired \union {t}
  /\ Interrupt(t)
  /\ UNCHANGED <<closing, cancelled, over>>

BeginClose ==
  /\ ~closing
  /\ closing' = TRUE
  /\ UNCHANGED <<sem, at, held, approval, expired, cancelled, over>>

CloseCancels(t) ==
  /\ closing
  /\ t \notin cancelled
  /\ at[t] \notin {"new", "done"}
  /\ cancelled' = cancelled \union {t}
  /\ Interrupt(t)
  /\ UNCHANGED <<expired, closing, over>>

(* The turn ends, however it does: `async with` gives the slot back. *)
Finish(t) ==
  /\ at[t] = "running"
  /\ sem' = Release(sem)
  /\ at' = [at EXCEPT ![t] = "done"]
  /\ held' = [held EXCEPT ![t] = FALSE]
  /\ over' = IF held[t] THEN over ELSE over \union {t}
  /\ UNCHANGED <<approval, expired, closing, cancelled>>

Next ==
  \/ \E t \in Turn :
       \/ Start(t) \/ Proceed(t) \/ AskApproval(t) \/ Answer(t) \/ ApprovalDone(t)
       \/ DeadlinePasses(t) \/ CloseCancels(t) \/ Finish(t)
  \/ BeginClose

Spec == Init /\ [][Next]_vars

(* asyncio resumes every task that is ready, and a running turn goes on to *)
(* its end or to an approval.  Nobody has to answer, and nothing has to    *)
(* start, expire or close.                                                 *)
Fairness == \A t \in Turn :
  /\ WF_vars(Proceed(t))
  /\ WF_vars(ApprovalDone(t))
  /\ WF_vars(Finish(t) \/ AskApproval(t))

FairSpec == Spec /\ Fairness

-----------------------------------------------------------------------------
Holders == {t \in Turn : held[t]}

(* Every slot is free, held, or on its way to a woken waiter, and there are *)
(* Max of them plus one for each turn that gave back what it did not hold:  *)
(* an approval, a Stop, a deadline or a close never loses or duplicates a   *)
(* slot in any other way (wait_approval, release_slot, acquire_slot).  Only *)
(* a turn that was interrupted WHILE it took its slot back runs without one;*)
(* and nobody waits for an approval with a slot in hand.  No wakeup is lost *)
(* either: while somebody waits, a free slot has been handed to a waiter.   *)
SlotAccounting ==
  /\ sem.value + Cardinality(Holders) + Cardinality(sem.granted) = Max + Cardinality(over)
  /\ \A t \in Turn :
       /\ at[t] \in {"asking", "reentering", "entering"} => ~held[t]
       /\ at[t] = "running" /\ t \notin expired \union cancelled => held[t]
  /\ sem.value > 0 /\ sem.waiters # <<>> => sem.granted # {}
  /\ Waiting(sem) \union sem.granted = {t \in Turn : at[t] \in {"entering", "reentering"}}
  /\ Waiting(sem) \intersect sem.granted = {}

(* A turn in the queue gets its slot although others wait for approvals     *)
(* that are never answered, and an answered approval lets its turn go on.   *)
QueuedTurnsRun ==
  \A t \in Turn :
    /\ at[t] = "entering" ~> at[t] # "entering"
    /\ (at[t] = "asking" /\ approval[t] = "answered") ~> at[t] = "running"

(* What test_gateway_approval_slots.py says of a cancelled approval wait:   *)
(* the outer slot is not released once too often.  The code breaks it when  *)
(* the cancellation meets the turn in acquire_slot.                         *)
SlotsNotOverReleased ==
  sem.value + Cardinality(Holders) + Cardinality(sem.granted) <= Max
=============================================================================
