--------------------------- MODULE ReviewWindows ---------------------------
(***************************************************************************)
(* The reviews of Breakbeat (proactive/breakbeat.py) and Dream             *)
(* (proactive/dream.py) over one session: what review_window.py selects    *)
(* past the durable cursor, batch after batch, while turns are saved, a    *)
(* user completes and deletes items, runs are started by hand or by their  *)
(* deadline, writes fail, and the process crashes and starts again.        *)
(***************************************************************************)
EXTENDS Naturals, FiniteSets, FiniteSetsExt

CONSTANTS
  TurnCount,      \* turns of the session, each a user and an assistant message
  Refresh,        \* the refresh window, which is also the time between runs
  BatchLimit,     \* messages that fit the token limit of a batch
  LastMoment,     \* bound on the clock
  MaxReviewFaults \* bound on cancelled runs, failed batches and writes, crashes, and items
                  \* that the user completes or deletes

ASSUME ReviewAssumption ==
  /\ TurnCount \in Nat /\ LastMoment \in Nat /\ MaxReviewFaults \in Nat
  /\ Refresh \in Nat \ {0} /\ BatchLimit \in Nat \ {0}

VARIABLES
  moment,      \* the clock; no two messages have the same created_at
  capability,  \* "breakbeat" or "dream"
  received,    \* created_at of each turn's user message, 0 before it arrives
  messages,    \* messages.jsonl: [at, turn]
  snapshot,    \* breakbeat.json or dream.json: cursor, next_run_at, items
  nextInMemory,\* Breakbeat's _next_run_at
  review,      \* the run that holds _lock
  callers,     \* runs that wait for it, with the time they were called
  reviewFaults,
  reviewed, passed, late, \* history: messages in a batch that succeeded, older than
                          \* the window when selected, saved behind the cursor
  made, removed           \* history: items created and deleted for each turn

reviewPast == <<reviewed, passed, late, made, removed>>
reviewVars == <<moment, capability, received, messages, snapshot, nextInMemory, review,
                callers, reviewFaults, reviewPast>>

Turns == 1..TurnCount
Idle == [who |-> "none"]
LockFree == review = Idle
MaxOf(S) == IF S = {} THEN 0 ELSE Max(S)
Times(S) == {m.at : m \in S}
Saved(t) == \E m \in messages : m.turn = t

ReviewInit ==
  /\ moment = 1 /\ capability \in {"breakbeat", "dream"}
  /\ received = [t \in Turns |-> 0] /\ messages = {}
  /\ snapshot = [cursor |-> 0, next |-> 1 + Refresh,
                 open |-> [t \in Turns |-> 0], done |-> [t \in Turns |-> 0]]
  /\ nextInMemory = 0 /\ review = Idle /\ callers = {} /\ reviewFaults = 0
  /\ reviewed = {} /\ passed = {} /\ late = {}
  /\ made = [t \in Turns |-> 0] /\ removed = [t \in Turns |-> 0]

MayGoWrong == reviewFaults < MaxReviewFaults
Fault == MayGoWrong /\ reviewFaults' = reviewFaults + 1

-----------------------------------------------------------------------------
(* Time, and turns: a message that waits for the turn before it is saved   *)
(* after that turn's answer, with the earlier time of its arrival.         *)
Elapse ==
  /\ moment < LastMoment
  /\ moment' = moment + 1
  /\ UNCHANGED <<capability, received, messages, snapshot, nextInMemory, review, callers,
                 reviewFaults, reviewPast>>

Arrives(t) ==
  /\ received[t] = 0 /\ \A u \in 1..(t - 1) : received[u] # 0
  /\ moment < LastMoment /\ moment' = moment + 1
  /\ received' = [received EXCEPT ![t] = moment]
  /\ UNCHANGED <<capability, messages, snapshot, nextInMemory, review, callers,
                 reviewFaults, reviewPast>>

(* The messages a run reads may already end after one that is saved now. *)
ReadUpTo == MaxOf({snapshot.cursor} \union (IF LockFree THEN {} ELSE Times(review.left)))

SavesTurn(t) ==
  /\ received[t] # 0 /\ ~Saved(t) /\ \A u \in 1..(t - 1) : Saved(u)
  /\ moment < LastMoment /\ moment' = moment + 1
  /\ LET saved == {[at |-> received[t], turn |-> t], [at |-> moment, turn |-> t]}
     IN /\ messages' = messages \union saved
        /\ late' = late \union {m \in saved : m.at <= ReadUpTo}
  /\ UNCHANGED <<capability, received, snapshot, nextInMemory, review, callers, reviewFaults,
                 reviewed, passed, made, removed>>

-----------------------------------------------------------------------------
(* select_review_window: everything after a cursor inside the window, and  *)
(* of what follows an older one only the part inside the window.           *)
Unread(source, cursor) == {m \in source : m.at > cursor}

Fresh(cursor, at) == cursor # 0 /\ cursor + Refresh >= at

Selected(source, cursor, at) ==
  {m \in Unread(source, cursor) : Fresh(cursor, at) \/ m.at + Refresh >= at}

(* A batch takes messages in order while they fit. *)
FirstBatch(S) == {m \in S : Cardinality({o \in S : o.at < m.at}) < BatchLimit}

NextRunAt == IF nextInMemory # 0 THEN nextInMemory ELSE snapshot.next

(* _advance_schedule: Breakbeat keeps the deadline in memory even when the *)
(* write fails; Dream has only what defer_after_failure can write.         *)
AdvancesSchedule(state, ok) ==
  /\ nextInMemory' = IF capability = "breakbeat" THEN moment + Refresh ELSE 0
  /\ snapshot' = IF ok THEN [state EXCEPT !.next = moment + Refresh] ELSE snapshot

Ends(state, ok) ==
  /\ AdvancesSchedule(state, ok)
  /\ review' = Idle

(* The scheduler starts a run when the deadline has passed and none runs; a *)
(* tool call or Catalog action waits for the lock.                          *)
CallsReview(who) ==
  /\ \A c \in callers : c.who # who
  /\ \/ who = "manual"
     \/ who = "auto" /\ LockFree /\ NextRunAt <= moment
  /\ callers' = callers \union {[who |-> who, at |-> moment]}
  /\ UNCHANGED <<moment, capability, received, messages, snapshot, nextInMemory, review,
                 reviewFaults, reviewed, passed, late, made, removed>>

(* _messages_for adds the message of the turn that asks for the review. *)
Current(who) ==
  IF who = "auto" THEN {}
  ELSE {[at |-> received[t], turn |-> t] : t \in {u \in Turns : received[u] # 0 /\ ~Saved(u)
                                            /\ \A v \in 1..(u - 1) : Saved(v)}}

StartsReview(c) ==
  /\ c \in callers /\ LockFree
  /\ callers' = callers \ {c}
  /\ LET source == {m \in messages \union Current(c.who) : m.at <= c.at}
         unread == Unread(source, snapshot.cursor)
         chosen == Selected(source, snapshot.cursor, c.at)
     IN /\ passed' = passed \union (unread \ chosen)
        /\ IF chosen # {}
           THEN /\ review' = [who |-> c.who, state |-> snapshot, left |-> chosen]
                /\ UNCHANGED <<snapshot, nextInMemory>>
           ELSE Ends([snapshot EXCEPT !.cursor = IF unread = {} THEN @ ELSE MaxOf(Times(source))], TRUE)
  /\ UNCHANGED <<moment, capability, received, messages, reviewFaults, reviewed, late,
                 made, removed>>

(* _apply_actions: a todo that is still in progress is not created again. *)
NewTodos(state, batch) ==
  IF capability = "dream" THEN {} ELSE {t \in {m.turn : m \in batch} : state.open[t] = 0}
WithItems(state, batch) ==
  [state EXCEPT !.open = [t \in Turns |-> @[t] + IF t \in NewTodos(state, batch) THEN 1 ELSE 0]]

(* The cursor is written after the result of the batch. *)
AfterBatch_All(state, batch, left) == [WithItems(state, batch) EXCEPT !.cursor = MaxOf(Times(left))]
AfterBatch(state, batch, left) == [WithItems(state, batch) EXCEPT !.cursor = MaxOf(Times(batch))]

Creates(state, batch) ==
  made' = [t \in Turns |-> made[t] + IF t \in NewTodos(state, batch) THEN 1 ELSE 0]

BatchSucceeds ==
  /\ ~LockFree
  /\ LET batch == FirstBatch(review.left)
         state == AfterBatch(review.state, batch, review.left)
     IN /\ reviewed' = reviewed \union batch
        /\ Creates(review.state, batch)
        /\ IF batch = review.left
           THEN Ends(state, TRUE)
           ELSE /\ review' = [review EXCEPT !.state = state, !.left = @ \ batch]
                /\ snapshot' = state
                /\ UNCHANGED nextInMemory
  /\ UNCHANGED <<moment, capability, received, messages, callers, reviewFaults, passed,
                 late, removed>>

(* The model fails, its answer is refused, or a call or write raises: the  *)
(* run ends with what it had; ok: its last write succeeds.                 *)
BatchFails(ok) ==
  /\ ~LockFree /\ Fault
  /\ Ends(review.state, ok)
  /\ UNCHANGED <<moment, capability, received, messages, callers, reviewed, passed, late,
                 made, removed>>

(* A turn is stopped, or the service: CancelledError passes through run(). *)
ReviewCancelled ==
  /\ ~LockFree /\ Fault
  /\ review' = Idle
  /\ UNCHANGED <<moment, capability, received, messages, snapshot, nextInMemory, callers,
                 reviewPast>>

(* A crash, also between the write of the items and that of the cursor.    *)
(* initialize_schedule keeps a future deadline and skips one that passed.  *)
InitializeReview(state) ==
  snapshot' = [state EXCEPT !.next = IF @ > moment THEN @ ELSE moment + Refresh]

ReviewRestarts ==
  /\ Fault
  /\ nextInMemory' = 0 /\ review' = Idle /\ callers' = {}
  /\ \/ InitializeReview(snapshot) /\ UNCHANGED made
     \/ /\ ~LockFree
        /\ LET batch == FirstBatch(review.left)
           IN InitializeReview(WithItems(review.state, batch)) /\ Creates(review.state, batch)
  /\ UNCHANGED <<moment, capability, received, messages, reviewed, passed, late, removed>>

(* complete_item and delete_item, under the same lock. *)
CompletesItem(t) ==
  /\ Fault /\ LockFree /\ snapshot.open[t] > 0
  /\ snapshot' = [snapshot EXCEPT !.open[t] = @ - 1, !.done[t] = @ + 1]
  /\ UNCHANGED <<moment, capability, received, messages, nextInMemory, review, callers,
                 reviewPast>>

DeletesItem_Unlocked(t) ==
  \E status \in {"open", "done"} :
    /\ Fault /\ snapshot[status][t] > 0
    /\ snapshot' = [snapshot EXCEPT ![status][t] = @ - 1]
    /\ removed' = [removed EXCEPT ![t] = @ + 1]
    /\ UNCHANGED <<moment, capability, received, messages, nextInMemory, review, callers,
                   reviewed, passed, late, made>>
DeletesItem(t) ==
  \E status \in {"open", "done"} :
    /\ Fault /\ LockFree /\ snapshot[status][t] > 0
    /\ snapshot' = [snapshot EXCEPT ![status][t] = @ - 1]
    /\ removed' = [removed EXCEPT ![t] = @ + 1]
    /\ UNCHANGED <<moment, capability, received, messages, nextInMemory, review, callers,
                   reviewed, passed, late, made>>

ReviewNext ==
  \/ Elapse \/ BatchSucceeds \/ ReviewCancelled \/ ReviewRestarts
  \/ \E t \in Turns : Arrives(t) \/ SavesTurn(t) \/ CompletesItem(t) \/ DeletesItem(t)
  \/ \E who \in {"manual", "auto"} : CallsReview(who)
  \/ \E c \in callers : StartsReview(c)
  \/ \E ok \in BOOLEAN : BatchFails(ok)

ReviewSpec == ReviewInit /\ [][ReviewNext]_reviewVars

-----------------------------------------------------------------------------
(* The cursor passes a message only after a batch with it succeeded, or    *)
(* when it was older than the window.  The exception is a message saved    *)
(* behind the cursor because it waited for the turn before it: no review   *)
(* ever reads that one.                                                    *)
CursorBacked ==
  \A m \in messages \ late : m.at <= snapshot.cursor => m \in reviewed \union passed

(* No item is lost and none is doubled: what the user completed or deleted *)
(* while a review ran stays so, though the review writes back the snapshot *)
(* it read at its start, and a batch that is reviewed again after a crash  *)
(* creates nothing again that is still in progress.                        *)
ItemsConserved ==
  \A t \in Turns :
    /\ made[t] = snapshot.open[t] + snapshot.done[t] + removed[t]
    /\ snapshot.open[t] <= 1
=============================================================================
