--------------------------- MODULE SkillEvolution ---------------------------
(***************************************************************************)
(* proactive/skill_evolution.py over one session: every saved turn leaves  *)
(* a task that may turn what was said into Observations in skill.json, and *)
(* an evolution turns Observations into Skill Drafts and removes them.     *)
(* Both work for a long time, through many model calls, on the snapshot    *)
(* they read under one lock, while further turns are saved.                *)
(***************************************************************************)
EXTENDS Integers, Sequences, FiniteSets, FiniteSetsExt

CONSTANTS
  LastTurn,       \* bound on the completed turns of the session
  TurnInterval,   \* skill_observation_turn_interval
  MaxEvolutions,  \* bound on the evolutions
  MaxSkillFaults  \* bound on failed calls and writes, cancellations and restarts

ASSUME SkillAssumption ==
  /\ LastTurn \in Nat /\ TurnInterval \in Nat \ {0}
  /\ MaxEvolutions \in Nat /\ MaxSkillFaults \in Nat

VARIABLES
  spoken,       \* completed turns in messages.jsonl
  line,         \* who waits for _lock, in order: the turn of an event, 0 an evolution
  observer, evolver, \* the task and the evolution that have it, with the state they work on
  boundary,     \* _observed_boundaries and _checked_signal_boundaries
  skillFile,    \* Observations in skill.json: [turn, at]
  evolutions, skillFaults,
  offered, gathered, drafted, doubled \* history: turns in a batch that was answered,
                \* Observations made, those in a Draft, those whose removal was not written

skillPast == <<offered, gathered, drafted, doubled>>
skillVars == <<spoken, line, observer, evolver, boundary, skillFile, evolutions, skillFaults, skillPast>>

Resting == [what |-> "none"]

SkillInit ==
  /\ spoken = 0 /\ line = <<>> /\ observer = Resting /\ evolver = Resting
  /\ boundary = [observed |-> 0, checked |-> 0]
  /\ skillFile = {} /\ evolutions = 0 /\ skillFaults = 0
  /\ offered = {} /\ gathered = {} /\ drafted = {} /\ doubled = {}

SkillFault == skillFaults < MaxSkillFaults /\ skillFaults' = skillFaults + 1

-----------------------------------------------------------------------------
(* SAVE emits the conversation and a task is made for it at once. *)
TurnCompleted ==
  /\ spoken < LastTurn
  /\ spoken' = spoken + 1 /\ line' = Append(line, spoken + 1)
  /\ UNCHANGED <<observer, evolver, boundary, skillFile, evolutions, skillFaults, skillPast>>

EvolutionDue ==
  /\ evolutions < MaxEvolutions
  /\ evolutions' = evolutions + 1 /\ line' = Append(line, 0)
  /\ UNCHANGED <<spoken, observer, evolver, boundary, skillFile, skillFaults, skillPast>>

(* _turns_through_assistant: later turns may have been saved by now. *)
CompletedThrough_All(t) == spoken
CompletedThrough(t) == t

(* What a task does with the lock: nothing, ask for a signal in the last   *)
(* turn, or read the turns since the boundary before.                      *)
Observe(n, turns) ==
  IF boundary.observed = n THEN Resting
  ELSE [what |-> "observe", at |-> n, left |-> turns, state |-> skillFile]

Begins(n) ==
  IF n % TurnInterval = 0 THEN Observe(n, (n - TurnInterval + 1)..n)
  ELSE IF boundary.checked = n THEN Resting
  ELSE [what |-> "signal", at |-> n, state |-> skillFile]

SkillLockFree_PerTask == observer = Resting
SkillLockFree == observer = Resting /\ evolver = Resting

TakesLock ==
  /\ line # <<>> /\ SkillLockFree
  /\ line' = Tail(line)
  /\ IF Head(line) = 0
     THEN evolver' = [what |-> "evolve", state |-> skillFile] /\ UNCHANGED observer
     ELSE observer' = Begins(CompletedThrough(Head(line))) /\ UNCHANGED evolver
  /\ UNCHANGED <<spoken, boundary, skillFile, evolutions, skillFaults, skillPast>>

(* _has_explicit_learning_signal. *)
SignalAnswered(learns) ==
  /\ observer.what = "signal"
  /\ boundary' = [boundary EXCEPT !.checked = observer.at]
  /\ observer' = IF learns THEN Observe(observer.at, {observer.at}) ELSE Resting
  /\ UNCHANGED <<spoken, line, evolver, skillFile, evolutions, skillFaults, skillPast>>

(* One batch, here one turn, is read; the snapshot is saved with what it   *)
(* gave.  After the last batch the boundary has been observed.             *)
BatchObserved(useful) ==
  /\ observer.what = "observe"
  /\ LET turn == Min(observer.left)
         new == IF useful THEN {[turn |-> turn, at |-> observer.at]} ELSE {}
         state == observer.state \union new
         left == observer.left \ {turn}
     IN /\ skillFile' = state
        /\ offered' = offered \union {turn} /\ gathered' = gathered \union new
        /\ IF left = {}
           THEN observer' = Resting /\ boundary' = [observed |-> observer.at, checked |-> observer.at]
           ELSE /\ observer' = [what |-> "observe", at |-> observer.at, left |-> left, state |-> state]
                /\ UNCHANGED boundary
  /\ UNCHANGED <<spoken, line, evolver, evolutions, skillFaults, drafted, doubled>>

(* A model call fails or its answer is refused: the task ends, and what it *)
(* had not read of this boundary is not asked for again.                   *)
ObservationFails ==
  /\ observer.what \in {"signal", "observe"} /\ SkillFault
  /\ observer' = Resting
  /\ UNCHANGED <<spoken, line, evolver, boundary, skillFile, evolutions, skillPast>>

-----------------------------------------------------------------------------
(* A Draft is created from some Observations of the snapshot, which are    *)
(* then removed and the snapshot is saved.                                 *)
CreatesDraft(evidence) ==
  /\ evolver.what = "evolve" /\ evidence \subseteq evolver.state /\ evidence # {}
  /\ drafted' = drafted \union evidence
  /\ evolver' = [evolver EXCEPT !.state = @ \ evidence]
  /\ skillFile' = evolver.state \ evidence
  /\ UNCHANGED <<spoken, line, observer, boundary, evolutions, skillFaults, offered, gathered, doubled>>

(* The last write of the run holds the next deadline and the same snapshot. *)
EvolutionEnds ==
  /\ evolver.what = "evolve"
  /\ skillFile' = evolver.state /\ evolver' = Resting
  /\ UNCHANGED <<spoken, line, observer, boundary, evolutions, skillFaults, skillPast>>

(* A write fails, also the one after a Draft was created: the next deadline *)
(* is written with a snapshot that is read anew.                           *)
EvolutionFails(evidence) ==
  /\ evolver.what = "evolve" /\ evidence \subseteq evolver.state /\ SkillFault
  /\ evolver' = Resting
  /\ drafted' = drafted \union evidence /\ doubled' = doubled \union evidence
  /\ UNCHANGED <<spoken, line, observer, boundary, skillFile, evolutions, offered, gathered>>

(* Nothing is left of the memory, nor of the tasks; the events are not     *)
(* sent again.                                                             *)
SkillRestarts ==
  /\ SkillFault
  /\ line' = <<>> /\ observer' = Resting /\ evolver' = Resting /\ boundary' = [observed |-> 0, checked |-> 0]
  /\ UNCHANGED <<spoken, skillFile, evolutions, skillPast>>

SkillNext ==
  \/ TurnCompleted \/ EvolutionDue \/ TakesLock \/ ObservationFails \/ EvolutionEnds \/ SkillRestarts
  \/ \E b \in BOOLEAN : SignalAnswered(b) \/ BatchObserved(b)
  \/ \E evidence \in SUBSET gathered : CreatesDraft(evidence) \/ EvolutionFails(evidence)

SkillSpec == SkillInit /\ [][SkillNext]_skillVars

-----------------------------------------------------------------------------
(* An Observation stays in skill.json until a Draft was made with it and   *)
(* then leaves it, although runs write back a snapshot they read long      *)
(* before.  Excepted are those of a Draft whose removal was not written.   *)
ObservationsConserved ==
  /\ gathered = skillFile \union drafted
  /\ skillFile \intersect drafted \subseteq doubled

(* Every turn up to the last full interval has been read, however late its *)
(* task gets the lock and whatever was saved by then, unless something of  *)
(* it failed: then the interval is not read again.                         *)
IntervalReviewed ==
  line = <<>> /\ SkillLockFree /\ skillFaults = 0 =>
    1..((spoken \div TurnInterval) * TurnInterval) \subseteq offered
=============================================================================
