-------------------------- MODULE Proactive_proofs --------------------------
(***************************************************************************)
(* What the Agent does on its own, for any session, number of turns,       *)
(* items, changes and failures: it learns skills from the turns, reviews   *)
(* the messages, and tells the users of its state.                         *)
(***************************************************************************)
EXTENDS SkillEvolution, ReviewWindows, ProactivePages,
        SequenceTheorems, FiniteSetTheorems, TLAPS

(* Observations and Drafts of skill evolution.                             *)
SignalTask(n) == [what |-> "signal", at |-> n, state |-> skillFile]
ObserveTask(n, first) == [what |-> "observe", at |-> n, left |-> first..n, state |-> skillFile]
Evolution == [what |-> "evolve", state |-> skillFile]

(* The task that has the lock works on what skill.json holds, because only *)
(* it writes there; an observing task has an interval before it.           *)
Snapshots ==
  /\ \/ observer = Resting
     \/ \E n \in 1..spoken : observer = SignalTask(n)
     \/ \E n \in 1..spoken, first \in Int : first <= n /\ observer = ObserveTask(n, first)
  /\ evolver = Resting \/ evolver = Evolution
  /\ observer = Resting \/ evolver = Resting

(* Events wait in the order of their turns, behind those that were handled. *)
LineOrder ==
  /\ spoken \in Nat /\ line \in Seq(0..spoken)
  /\ \A i, j \in 1..Len(line) : i < j /\ line[i] # 0 /\ line[j] # 0 => line[i] < line[j]
Behind ==
  /\ \A o \in gathered : o.at <= spoken /\ o.at \in Nat
  /\ \A o \in gathered, i \in 1..Len(line) : line[i] # 0 => o.at < line[i]
  /\ \A i \in 1..Len(line) : line[i] # 0 /\ observer # Resting => observer.at < line[i]

(* What a task is about to read for its boundary has not been read for it. *)
BoundaryUnread ==
  /\ \A o \in gathered : observer.what = "signal" => o.at # observer.at
  /\ \A o \in gathered : observer.what = "observe" => ~(o.at = observer.at /\ o.turn \in observer.left)

SkillInv == Snapshots /\ LineOrder /\ Behind /\ BoundaryUnread /\ ObservationsConserved

-----------------------------------------------------------------------------
LEMMA MinOfInterval ==
  ASSUME NEW first \in Int, NEW n \in Int, first <= n
  PROVE  Min(first..n) = first
<1>1. first \in first..n /\ \A y \in first..n : first =< y
  OBVIOUS
<1>2. \A x \in first..n : (\A y \in first..n : x =< y) => x = first
  BY <1>1
<1> QED
  BY <1>1, <1>2 DEF Min

LEMMA SkillInitInv == SkillInit => SkillInv
BY EmptySeq DEF SkillInit, SkillInv, Snapshots, LineOrder, Behind, BoundaryUnread, ObservationsConserved, Resting

(* Appending to the line keeps its order when the event is the newest. *)
LEMMA LineGrows ==
  ASSUME NEW top \in Nat, NEW seq \in Seq(0..top), NEW new \in Nat, NEW e \in 0..new, top <= new
  PROVE  /\ Append(seq, e) \in Seq(0..new) /\ Len(Append(seq, e)) = Len(seq) + 1
         /\ \A i \in 1..(Len(seq) + 1) : Append(seq, e)[i] = IF i = Len(seq) + 1 THEN e ELSE seq[i]
         /\ \A i \in 1..Len(seq) : seq[i] \in 0..top
<1>1. seq \in Seq(0..new)
  BY SeqMonotonic
<1> QED
  BY <1>1, ElementOfSeq

LEMMA SkillNextInv ==
  ASSUME SkillInv, [SkillNext]_skillVars
  PROVE  SkillInv'
<1> USE DEF SkillInv, ObservationsConserved
<1>1. CASE TurnCompleted
  <2>1. /\ line' = Append(line, spoken + 1) /\ spoken' = spoken + 1 /\ spoken \in Nat
        /\ UNCHANGED <<observer, evolver, skillFile, gathered, drafted, doubled>>
    BY <1>1 DEF TurnCompleted, skillPast, LineOrder
  <2>2. /\ line' \in Seq(0..(spoken + 1)) /\ Len(line') = Len(line) + 1 /\ Len(line) \in Nat
        /\ \A i \in 1..Len(line') : line'[i] = IF i = Len(line) + 1 THEN spoken + 1 ELSE line[i]
        /\ \A i \in 1..Len(line) : line[i] \in 0..spoken
    BY <2>1, LineGrows DEF LineOrder
  <2>3. LineOrder'
    <3>1. \A i, j \in 1..Len(line) : i < j /\ line[i] # 0 /\ line[j] # 0 => line[i] < line[j]
      BY DEF LineOrder
    <3>2. spoken' \in Nat /\ line' \in Seq(0..spoken')
      BY <2>1, <2>2
    <3>3. ASSUME NEW i \in 1..Len(line'), NEW j \in 1..Len(line'), i < j, line'[i] # 0, line'[j] # 0
          PROVE  line'[i] < line'[j]
      <4>1. i \in 1..Len(line) /\ line'[i] = line[i] /\ line[i] \in 0..spoken
        BY <2>2, <3>3
      <4>2. CASE j = Len(line) + 1
        BY <2>1, <2>2, <4>1, <4>2
      <4>3. CASE j # Len(line) + 1
        BY <2>2, <3>1, <3>3, <4>1, <4>3
      <4> QED
        BY <4>2, <4>3
    <3> QED
      BY <3>2, <3>3 DEF LineOrder
  <2>4. Snapshots'
    BY <2>1 DEF Snapshots, SignalTask, ObserveTask, Evolution
  <2>5. Behind'
    BY <2>1, <2>2 DEF Behind, Snapshots, SignalTask, ObserveTask
  <2> QED
    BY <2>1, <2>3, <2>4, <2>5 DEF BoundaryUnread
<1>2. CASE EvolutionDue
  <2>1. /\ line' = Append(line, 0) /\ spoken \in Nat
        /\ UNCHANGED <<spoken, observer, evolver, skillFile, gathered, drafted, doubled>>
    BY <1>2 DEF EvolutionDue, skillPast, LineOrder
  <2>2. /\ line' \in Seq(0..spoken) /\ Len(line') = Len(line) + 1 /\ Len(line) \in Nat
        /\ \A i \in 1..Len(line') : line'[i] = IF i = Len(line) + 1 THEN 0 ELSE line[i]
        /\ \A i \in 1..Len(line) : line[i] \in 0..spoken
    BY <2>1, LineGrows DEF LineOrder
  <2>3. LineOrder'
    <3>1. \A i, j \in 1..Len(line) : i < j /\ line[i] # 0 /\ line[j] # 0 => line[i] < line[j]
      BY DEF LineOrder
    <3>2. \A i, j \in 1..Len(line') : i < j /\ line'[i] # 0 /\ line'[j] # 0 => line'[i] < line'[j]
      BY <2>2, <3>1
    <3> QED
      BY <2>1, <2>2, <3>2 DEF LineOrder
  <2>4. Behind'
    BY <2>1, <2>2 DEF Behind
  <2> QED
    BY <2>1, <2>3, <2>4 DEF BoundaryUnread, Snapshots, SignalTask, ObserveTask, Evolution
<1>3. CASE TakesLock
  <2>1. /\ line # <<>> /\ observer = Resting /\ evolver = Resting /\ line' = Tail(line)
        /\ line \in Seq(0..spoken) /\ spoken \in Nat
        /\ UNCHANGED <<spoken, skillFile, gathered, drafted, doubled>>
    BY <1>3 DEF TakesLock, SkillLockFree, skillPast, LineOrder
  <2>2. /\ Len(line) \in Nat \ {0} /\ Tail(line) \in Seq(0..spoken) /\ Len(Tail(line)) = Len(line) - 1
        /\ \A i \in 1..(Len(line) - 1) : Tail(line)[i] = line[i + 1]
        /\ Head(line) = line[1] /\ line[1] \in 0..spoken
    BY <2>1, HeadTailProperties, ElementOfSeq, EmptySeq
  <2>3. LineOrder'
    BY <2>1, <2>2 DEF LineOrder
  <2>4. CASE Head(line) = 0
    <3>1. evolver' = Evolution /\ observer' = Resting
      BY <1>3, <2>1, <2>4 DEF TakesLock, Evolution
    <3>2. Behind'
      BY <2>1, <2>2, <3>1 DEF Behind
    <3> QED
      BY <2>1, <2>3, <3>1, <3>2 DEF Snapshots, BoundaryUnread, Evolution, Resting
  <2>5. CASE Head(line) # 0
    <3> DEFINE n == Head(line)
    <3>1. evolver' = Resting /\ observer' = Begins(n) /\ n \in 1..spoken
      BY <1>3, <2>1, <2>2, <2>5 DEF TakesLock, CompletedThrough
    <3>2. observer' = Resting \/ observer' = SignalTask(n) \/ observer' = ObserveTask(n, n - TurnInterval + 1)
      BY <3>1 DEF Begins, Observe, SignalTask, ObserveTask
    <3>3. n - TurnInterval + 1 <= n /\ n - TurnInterval + 1 \in Int
      BY <3>1, SkillAssumption
    <3>4. Snapshots'
      BY <2>1, <3>1, <3>2, <3>3 DEF Snapshots, SignalTask, ObserveTask
    <3>5. \A i \in 1..Len(line') : line'[i] # 0 => n < line'[i]
      BY <2>1, <2>2, <2>5 DEF LineOrder
    <3>6. \A o \in gathered : o.at < n
      BY <2>2, <2>5 DEF Behind
    <3>7. observer' = Resting \/ observer'.at = n
      BY <3>2 DEF SignalTask, ObserveTask
    <3>8. Behind'
      BY <2>1, <2>2, <3>5, <3>6, <3>7 DEF Behind
    <3>9. BoundaryUnread'
      <4>1. \A o \in gathered : o.at # n
        BY <3>1, <3>6 DEF Behind
      <4> QED
        BY <2>1, <3>2, <4>1 DEF BoundaryUnread, Resting, SignalTask, ObserveTask
    <3> QED
      BY <2>1, <2>3, <3>4, <3>8, <3>9
  <2> QED
    BY <2>4, <2>5
<1>4. ASSUME NEW learns \in BOOLEAN, SignalAnswered(learns)
      PROVE  SkillInv'
  <2>1. /\ observer.what = "signal" /\ observer # Resting
        /\ observer' = IF learns THEN Observe(observer.at, {observer.at}) ELSE Resting
        /\ UNCHANGED <<spoken, line, evolver, skillFile, gathered, drafted, doubled>>
    BY <1>4 DEF SignalAnswered, skillPast, Resting
  <2>2. evolver = Resting
    BY <2>1 DEF Snapshots
  <2>3. PICK n \in 1..spoken : observer = SignalTask(n)
    BY <2>1 DEF Snapshots, ObserveTask
  <2>4. spoken \in Nat /\ observer.at = n /\ n..n = {n}
    BY <2>3 DEF LineOrder, SignalTask
  <2>5. observer' = Resting \/ observer' = ObserveTask(n, n)
    BY <2>1, <2>4 DEF Observe, ObserveTask
  <2>6. LineOrder'
    BY <2>1 DEF LineOrder
  <2>7. Snapshots'
    <3>1. n \in 1..spoken' /\ n \in Int /\ n <= n /\ ObserveTask(n, n)' = ObserveTask(n, n)
      BY <2>1, <2>4 DEF ObserveTask
    <3> QED
      BY <2>1, <2>2, <2>5, <3>1 DEF Snapshots
  <2>8. Behind'
    <3>1. observer' = Resting \/ observer'.at = observer.at
      BY <2>4, <2>5 DEF ObserveTask
    <3> QED
      BY <2>1, <3>1 DEF Behind
  <2>9. BoundaryUnread'
    <3>1. \A o \in gathered : o.at # n
      BY <2>1, <2>4 DEF BoundaryUnread
    <3>2. CASE observer' = Resting
      BY <3>2 DEF BoundaryUnread, Resting
    <3>3. CASE observer' = ObserveTask(n, n)
      <4>1. observer'.what = "observe" /\ observer'.at = n
        BY <3>3 DEF ObserveTask
      <4> QED
        BY <2>1, <3>1, <4>1 DEF BoundaryUnread
    <3> QED
      BY <2>5, <3>2, <3>3
  <2> QED
    BY <2>1, <2>6, <2>7, <2>8, <2>9
<1>5. ASSUME NEW useful \in BOOLEAN, BatchObserved(useful)
      PROVE  SkillInv'
  <2>1. observer.what = "observe" /\ observer # Resting /\ evolver = Resting
    BY <1>5 DEF BatchObserved, Resting, Snapshots
  <2>2. PICK n \in 1..spoken, first \in Int : first <= n /\ observer = ObserveTask(n, first)
    BY <2>1 DEF Snapshots, SignalTask
  <2> DEFINE new == IF useful THEN {[turn |-> first, at |-> n]} ELSE {}
             left == (first + 1)..n
  <2>3. /\ spoken \in Nat /\ n \in Nat /\ observer.at = n /\ observer.left = first..n
        /\ observer.state = skillFile /\ Min(first..n) = first /\ first \in first..n
        /\ (first..n) \ {first} = left
    BY <2>2, MinOfInterval DEF LineOrder, ObserveTask
  <2>4. /\ skillFile' = skillFile \union new /\ gathered' = gathered \union new
        /\ UNCHANGED <<spoken, line, evolver, drafted, doubled>>
    BY <1>5, <2>3 DEF BatchObserved
  <2>5. \/ observer' = Resting
        \/ (left # {} /\ observer' = ObserveTask(n, first + 1)')
    BY <1>5, <2>3, <2>4 DEF BatchObserved, ObserveTask
  <2>6. observer' = Resting \/ (first + 1 <= n /\ observer' = ObserveTask(n, first + 1)')
    <3>1. left # {} => first + 1 <= n
      OBVIOUS
    <3> QED
      BY <2>5, <3>1
  <2>7. LineOrder'
    BY <2>4 DEF LineOrder
  <2>8. Snapshots'
    <3>1. n \in 1..spoken' /\ first + 1 \in Int
      BY <2>4
    <3> QED
      BY <2>1, <2>4, <2>6, <3>1 DEF Snapshots
  <2>9. Behind'
    <3>1. observer' = Resting \/ observer'.at = n
      BY <2>6 DEF ObserveTask
    <3>2. \A i \in 1..Len(line) : line[i] # 0 => n < line[i]
      BY <2>1, <2>3 DEF Behind
    <3>3. \A o \in gathered' : o \in gathered \/ o.at = n
      BY <2>4
    <3> QED
      BY <2>3, <2>4, <3>1, <3>2, <3>3 DEF Behind
  <2>10. BoundaryUnread'
    <3>1. \A o \in gathered : ~(o.at = n /\ o.turn \in first..n)
      BY <2>1, <2>3 DEF BoundaryUnread
    <3>2. \A o \in gathered' : ~(o.at = n /\ o.turn \in left)
      BY <2>2, <2>3, <2>4, <3>1
    <3> QED
      BY <2>6, <3>2 DEF BoundaryUnread, Resting, ObserveTask
  <2>11. new \intersect gathered = {}
    BY <2>1, <2>3 DEF BoundaryUnread
  <2>12. ObservationsConserved'
    BY <2>4, <2>11
  <2> QED
    BY <2>7, <2>8, <2>9, <2>10, <2>12
<1>6. CASE ObservationFails
  BY <1>6 DEF ObservationFails, skillPast, Snapshots, LineOrder, Behind, BoundaryUnread, Resting, Evolution
<1>7. ASSUME NEW evidence \in SUBSET gathered, CreatesDraft(evidence)
      PROVE  SkillInv'
  <2>1. /\ evolver = Evolution /\ observer = Resting /\ evidence \subseteq skillFile
        /\ skillFile' = skillFile \ evidence /\ drafted' = drafted \union evidence
        /\ evolver' = [evolver EXCEPT !.state = @ \ evidence]
        /\ UNCHANGED <<spoken, line, observer, gathered, doubled>>
    BY <1>7 DEF CreatesDraft, Snapshots, Evolution, Resting
  <2>2. evolver' = Evolution'
    BY <2>1 DEF Evolution
  <2>3. Snapshots'
    BY <2>1, <2>2 DEF Snapshots
  <2> QED
    BY <2>1, <2>3 DEF LineOrder, Behind, BoundaryUnread
<1>8. CASE EvolutionEnds
  <2>1. /\ evolver = Evolution /\ observer = Resting /\ skillFile' = skillFile /\ evolver' = Resting
        /\ UNCHANGED <<spoken, line, observer, gathered, drafted, doubled>>
    BY <1>8 DEF EvolutionEnds, skillPast, Snapshots, Evolution, Resting
  <2> QED
    BY <2>1 DEF Snapshots, LineOrder, Behind, BoundaryUnread
<1>9. ASSUME NEW evidence \in SUBSET gathered, EvolutionFails(evidence)
      PROVE  SkillInv'
  <2>1. /\ evolver = Evolution /\ observer = Resting /\ evidence \subseteq skillFile /\ evolver' = Resting
        /\ drafted' = drafted \union evidence /\ doubled' = doubled \union evidence
        /\ UNCHANGED <<spoken, line, observer, skillFile, gathered>>
    BY <1>9 DEF EvolutionFails, Snapshots, Evolution, Resting
  <2> QED
    BY <2>1 DEF Snapshots, LineOrder, Behind, BoundaryUnread
<1>10. CASE SkillRestarts
  <2>1. /\ line' = <<>> /\ observer' = Resting /\ evolver' = Resting
        /\ UNCHANGED <<spoken, skillFile, gathered, drafted, doubled>>
    BY <1>10 DEF SkillRestarts, skillPast
  <2> QED
    BY <2>1, EmptySeq DEF Snapshots, LineOrder, Behind, BoundaryUnread, Resting
<1>11. CASE UNCHANGED skillVars
  BY <1>11 DEF skillVars, skillPast, Snapshots, LineOrder, Behind, BoundaryUnread, SignalTask, ObserveTask, Evolution
<1> QED
  BY <1>1, <1>2, <1>3, <1>4, <1>5, <1>6, <1>7, <1>8, <1>9, <1>10, <1>11 DEF SkillNext

(* An Observation that was written leaves skill.json only with a Draft made *)
(* of it, although both tasks write back what they read many calls before.  *)
THEOREM ObservationsConservedAlways == SkillSpec => []ObservationsConserved
<1>1. SkillInv => ObservationsConserved
  BY DEF SkillInv
<1> QED
  BY <1>1, SkillInitInv, SkillNextInv, PTL DEF SkillSpec
-----------------------------------------------------------------------------
(* IntervalReviewed.  Every interval that is complete waits in the line, or *)
(* each of its turns has been offered or is still to be read by the task    *)
(* that observes it; and no boundary is passed before its event is taken.   *)
ToRead(m) == IF observer.what = "observe" /\ observer.at = m THEN observer.left ELSE {}
InLine(m) == \E i \in 1..Len(line) : line[i] = m

IntervalsCovered ==
  \A m \in 1..spoken : m % TurnInterval = 0 =>
    InLine(m) \/ \A t \in (m - TurnInterval + 1)..m : t \in offered \union ToRead(m)

BoundaryBehind ==
  /\ skillFaults \in Nat /\ DOMAIN boundary = {"observed", "checked"}
  /\ boundary.observed \in 0..spoken
  /\ \A i \in 1..Len(line) : line[i] # 0 => boundary.observed < line[i]

IntervalInv == BoundaryBehind /\ (skillFaults = 0 => IntervalsCovered)

LEMMA IntervalInitInv == SkillInit => IntervalInv
BY EmptySeq DEF SkillInit, IntervalInv, BoundaryBehind, IntervalsCovered

LEMMA IntervalNextInv ==
  ASSUME SkillInv, IntervalInv, [SkillNext]_skillVars
  PROVE  IntervalInv'
<1> USE DEF IntervalInv, BoundaryBehind
<1>0. spoken \in Nat /\ line \in Seq(0..spoken) /\ Len(line) \in Nat
  BY DEF SkillInv, LineOrder
<1>1. CASE TurnCompleted
  <2>1. /\ line' = Append(line, spoken + 1) /\ spoken' = spoken + 1
        /\ UNCHANGED <<observer, boundary, skillFaults, offered>>
    BY <1>1 DEF TurnCompleted, skillPast
  <2>2. /\ Len(line') = Len(line) + 1
        /\ \A i \in 1..Len(line') : line'[i] = IF i = Len(line) + 1 THEN spoken + 1 ELSE line[i]
    BY <1>0, <2>1, LineGrows
  <2>3. BoundaryBehind'
    BY <1>0, <2>1, <2>2
  <2>4. \A m : InLine(m) => InLine(m)'
    BY <1>0, <2>2 DEF InLine
  <2>5. \A m : m = spoken + 1 => InLine(m)'
    <3>1. Len(line) + 1 \in 1..Len(line') /\ line'[Len(line) + 1] = spoken + 1
      BY <1>0, <2>2
    <3> QED
      BY <3>1 DEF InLine
  <2>6. IntervalsCovered => IntervalsCovered'
    BY <1>0, <2>1, <2>4, <2>5 DEF IntervalsCovered, ToRead
  <2> QED
    BY <2>1, <2>3, <2>6
<1>2. CASE EvolutionDue
  <2>1. line' = Append(line, 0) /\ UNCHANGED <<spoken, observer, boundary, skillFaults, offered>>
    BY <1>2 DEF EvolutionDue, skillPast
  <2>2. /\ Len(line') = Len(line) + 1
        /\ \A i \in 1..Len(line') : line'[i] = IF i = Len(line) + 1 THEN 0 ELSE line[i]
    BY <1>0, <2>1, LineGrows
  <2>3. \A m : InLine(m) => InLine(m)'
    BY <1>0, <2>2 DEF InLine
  <2>4. BoundaryBehind'
    BY <1>0, <2>1, <2>2
  <2>5. IntervalsCovered => IntervalsCovered'
    BY <2>1, <2>3 DEF IntervalsCovered, ToRead
  <2> QED
    BY <2>1, <2>4, <2>5
<1>3. CASE TakesLock
  <2>1. /\ line # <<>> /\ observer = Resting /\ line' = Tail(line)
        /\ UNCHANGED <<spoken, boundary, skillFaults, offered>>
    BY <1>3 DEF TakesLock, SkillLockFree, skillPast
  <2>2. /\ Len(line) \in Nat \ {0} /\ Len(Tail(line)) = Len(line) - 1
        /\ \A i \in 1..(Len(line) - 1) : Tail(line)[i] = line[i + 1]
        /\ Head(line) = line[1] /\ line[1] \in 0..spoken
    BY <1>0, <2>1, HeadTailProperties, ElementOfSeq, EmptySeq
  <2>3. BoundaryBehind'
    BY <1>0, <2>1, <2>2
  <2>4. \A m : InLine(m) => m = Head(line) \/ InLine(m)'
    <3>1. SUFFICES ASSUME NEW m, NEW i \in 1..Len(line), line[i] = m, i # 1
                   PROVE  InLine(m)'
      BY <2>2 DEF InLine
    <3>2. i - 1 \in 1..Len(line') /\ line'[i - 1] = m
      BY <2>1, <2>2, <3>1
    <3> QED
      BY <3>2 DEF InLine
  <2>5. \A m : ToRead(m) = {}
    BY <2>1 DEF ToRead, Resting
  <2>6. ASSUME NEW m \in 1..spoken, m % TurnInterval = 0, m = Head(line)
        PROVE  \A t \in (m - TurnInterval + 1)..m : t \in ToRead(m)'
    <3>1. observer' = Begins(m) /\ boundary.observed # m
      BY <1>0, <1>3, <2>2, <2>6 DEF TakesLock, CompletedThrough
    <3>2. observer' = ObserveTask(m, m - TurnInterval + 1)
      BY <2>6, <3>1 DEF Begins, Observe, ObserveTask
    <3> QED
      BY <3>2 DEF ToRead, ObserveTask
  <2>7. IntervalsCovered => IntervalsCovered'
    BY <2>1, <2>4, <2>5, <2>6 DEF IntervalsCovered
  <2> QED
    BY <2>1, <2>3, <2>7
<1>4. ASSUME NEW learns \in BOOLEAN, SignalAnswered(learns)
      PROVE  IntervalInv'
  <2>1. /\ observer.what = "signal" /\ boundary' = [boundary EXCEPT !.checked = observer.at]
        /\ UNCHANGED <<spoken, line, skillFaults, offered>>
    BY <1>4 DEF SignalAnswered, skillPast
  <2>2. \A m : ToRead(m) = {}
    BY <2>1 DEF ToRead
  <2>3. IntervalsCovered => IntervalsCovered'
    BY <2>1, <2>2 DEF IntervalsCovered, InLine
  <2> QED
    BY <2>1, <2>3
<1>5. ASSUME NEW useful \in BOOLEAN, BatchObserved(useful)
      PROVE  IntervalInv'
  <2>1. observer.what = "observe" /\ observer # Resting
    BY <1>5 DEF BatchObserved, Resting
  <2>2. PICK n \in 1..spoken, first \in Int : first <= n /\ observer = ObserveTask(n, first)
    BY <2>1 DEF SkillInv, Snapshots, SignalTask
  <2> DEFINE left == observer.left \ {first}
  <2>3. observer.at = n /\ Min(observer.left) = first
    BY <1>0, <2>2, MinOfInterval DEF ObserveTask
  <2>4. offered' = offered \union {first} /\ UNCHANGED <<spoken, line, skillFaults>>
    BY <1>5, <2>3 DEF BatchObserved
  <2>5. \/ left = {} /\ boundary' = [observed |-> n, checked |-> n]
        \/ observer'.what = "observe" /\ observer'.at = n /\ observer'.left = left /\ UNCHANGED boundary
    BY <1>5, <2>3 DEF BatchObserved
  <2>6. BoundaryBehind'
    <3>1. \A i \in 1..Len(line) : line[i] # 0 => n < line[i]
      BY <2>1, <2>3 DEF SkillInv, Behind
    <3> QED
      BY <1>0, <2>4, <2>5, <3>1
  <2>7. \A m : ToRead(m) \subseteq ToRead(m)' \union {first}
    BY <2>1, <2>3, <2>5 DEF ToRead
  <2>8. IntervalsCovered => IntervalsCovered'
    BY <2>4, <2>7 DEF IntervalsCovered, InLine
  <2> QED
    BY <2>4, <2>6, <2>8
<1>6. CASE ObservationFails
  BY <1>0, <1>6 DEF ObservationFails, SkillFault, skillPast
<1>7. ASSUME NEW evidence \in SUBSET gathered, CreatesDraft(evidence)
      PROVE  IntervalInv'
  BY <1>7 DEF CreatesDraft, IntervalsCovered, InLine, ToRead
<1>8. CASE EvolutionEnds
  BY <1>8 DEF EvolutionEnds, skillPast, IntervalsCovered, InLine, ToRead
<1>9. ASSUME NEW evidence \in SUBSET gathered, EvolutionFails(evidence)
      PROVE  IntervalInv'
  BY <1>9 DEF EvolutionFails, SkillFault
<1>10. CASE SkillRestarts
  BY <1>0, <1>10, EmptySeq DEF SkillRestarts, SkillFault, skillPast
<1>11. CASE UNCHANGED skillVars
  BY <1>11 DEF skillVars, skillPast, IntervalsCovered, InLine, ToRead
<1> QED
  BY <1>1, <1>2, <1>3, <1>4, <1>5, <1>6, <1>7, <1>8, <1>9, <1>10, <1>11 DEF SkillNext

(* A turn up to the last full interval lies in a full interval. *)
LEMMA DivisionParts ==
  ASSUME NEW a \in Nat, NEW k \in Nat \ {0}
  PROVE  a \div k \in Nat /\ a % k \in 0..(k - 1) /\ a = (k * (a \div k)) + (a % k)
<1>1. a \div k \in Int /\ a = (k * (a \div k)) + (a % k)
  OBVIOUS
<1>2. a % k \in Int /\ a % k >= 0 /\ a % k < k
  OBVIOUS
<1>3. CASE a \div k <= -1
  <2>1. k * (a \div k) <= -k
    BY <1>1, <1>3
  <2> QED
    BY <1>1, <1>2, <2>1
<1> QED
  BY <1>1, <1>2, <1>3

LEMMA LiesInInterval ==
  ASSUME NEW n \in Nat, NEW k \in Nat \ {0}, NEW t \in 1..((n \div k) * k)
  PROVE  \E m \in 1..n : m % k = 0 /\ t \in (m - k + 1)..m
<1> DEFINE q == n \div k
           d == (t - 1) \div k
           m == k * d + k
<1>1. q \in Nat /\ q * k <= n /\ q * k \in Nat /\ t \in 1..(q * k)
  <2>1. q \in Nat /\ n % k \in Nat /\ n = (k * q) + (n % k)
    BY DivisionParts
  <2>2. q * k = k * q /\ q * k \in Nat
    BY <2>1
  <2> QED
    BY <2>1, <2>2
<1>2. /\ d \in Nat /\ (t - 1) % k \in 0..(k - 1) /\ t - 1 = (k * d) + ((t - 1) % k)
      /\ k * d \in Nat
  <2>1. t - 1 \in Nat
    BY <1>1
  <2>2. d \in Nat /\ (t - 1) % k \in 0..(k - 1) /\ t - 1 = (k * d) + ((t - 1) % k)
    BY <2>1, DivisionParts
  <2>3. k * d \in Nat
    BY <2>2
  <2> QED
    BY <2>2, <2>3
<1> HIDE DEF q, d
<1>3. ASSUME q <= d
      PROVE  FALSE
  <2>1. PICK e \in Nat : d = q + e
    BY <1>1, <1>2, <1>3
  <2>2. k * d = q * k + k * e /\ k * e \in Nat
    BY <1>1, <2>1
  <2> QED
    BY <1>1, <1>2, <2>2
<1>4. PICK e \in Nat : q = d + 1 + e
  BY <1>1, <1>2, <1>3
<1>5. q * k = m + k * e /\ k * e \in Nat
  BY <1>2, <1>4
<1>6. m \in 1..n /\ t \in (m - k + 1)..m
  BY <1>1, <1>2, <1>5
<1>7. m % k = 0
  <2>1. m = k * (d + 1) /\ d + 1 \in Nat
    BY <1>2
  <2>2. \A j \in Nat : (k * j) % k = 0
    OBVIOUS
  <2> QED
    BY <2>1, <2>2
<1> QED
  BY <1>6, <1>7

(* Without a failure every turn of a full interval has been read once the   *)
(* line is empty and the lock free, whatever was saved in between.          *)
THEOREM IntervalReviewedAlways == SkillSpec => []IntervalReviewed
<1>1. ASSUME SkillInv, IntervalInv
      PROVE  IntervalReviewed
  <2>1. SUFFICES ASSUME line = <<>>, SkillLockFree, skillFaults = 0,
                        NEW t \in 1..((spoken \div TurnInterval) * TurnInterval)
                 PROVE  t \in offered
    BY DEF IntervalReviewed
  <2>2. spoken \in Nat /\ TurnInterval \in Nat \ {0}
    BY <1>1, SkillAssumption DEF SkillInv, LineOrder
  <2>3. PICK m \in 1..spoken : m % TurnInterval = 0 /\ t \in (m - TurnInterval + 1)..m
    BY <2>2, LiesInInterval
  <2>4. ~InLine(m) /\ ToRead(m) = {}
    BY <2>1, EmptySeq DEF InLine, ToRead, SkillLockFree, Resting
  <2> QED
    BY <1>1, <2>1, <2>3, <2>4 DEF IntervalInv, IntervalsCovered
<1>2. SkillInit => SkillInv /\ IntervalInv
  BY SkillInitInv, IntervalInitInv
<1>3. SkillInv /\ IntervalInv /\ [SkillNext]_skillVars => (SkillInv /\ IntervalInv)'
  BY SkillNextInv, IntervalNextInv
<1> QED
  BY <1>1, <1>2, <1>3, PTL DEF SkillSpec

-----------------------------------------------------------------------------
(* The reviews of Breakbeat and Dream.                                     *)
Record(n) == [at : 0..n, turn : Turns]

ReviewTypes ==
  /\ moment \in Nat
  /\ received \in [Turns -> 0..moment]
  /\ messages \subseteq Record(moment)
  /\ snapshot = [cursor |-> snapshot.cursor, next |-> snapshot.next,
                 open |-> snapshot.open, done |-> snapshot.done]
  /\ snapshot.cursor \in Nat
  /\ snapshot.open \in [Turns -> Nat]
  /\ snapshot.done \in [Turns -> Nat]
  /\ made \in [Turns -> Nat]
  /\ removed \in [Turns -> Nat]
  /\ \A c \in callers : c.at \in Nat

(* The run that holds the lock works on what is stored: everyone else who   *)
(* writes the items waits for the lock.                                     *)
ReviewShape ==
  ~LockFree => /\ review = [who |-> review.who, state |-> snapshot, left |-> review.left]
               /\ review.left \subseteq Record(moment)

(* Everything up to the last message of the run is still to be reviewed, or *)
(* is done with, unless it is saved too late.                               *)
RunCovers ==
  ~LockFree =>
    \A m \in messages \ late :
       m.at <= ReadUpTo => m \in reviewed \union passed \union review.left

ReviewInv ==
  /\ ReviewTypes
  /\ ReviewShape
  /\ RunCovers
  /\ CursorBacked
  /\ ItemsConserved

-----------------------------------------------------------------------------
(* A set of times has a last one: ranks count the times up to each.         *)
LEMMA LastTime ==
  ASSUME NEW n \in Nat, NEW P \in SUBSET (0..n), P # {}
  PROVE  \E i \in P : \A j \in P : i >= j
<1> DEFINE Below(i) == {j \in P : j <= i}
           rank == [i \in P |-> Cardinality(Below(i))]
<1>0. \A i \in P : i \in Int
  OBVIOUS
<1>1. IsFiniteSet(P) /\ Cardinality(P) \in Nat /\ Cardinality(P) # 0
  <2>1. IsFiniteSet(0..n)
    BY FS_Interval
  <2>2. IsFiniteSet(P)
    BY <2>1, FS_Subset
  <2> QED
    BY <2>2, FS_CardinalityType, FS_EmptySet
<1>2. ASSUME NEW i \in P
      PROVE  /\ IsFiniteSet(Below(i)) /\ i \in Below(i) /\ Below(i) \in SUBSET P
             /\ Cardinality(Below(i)) \in 1..Cardinality(P)
  <2>1. Below(i) \in SUBSET P
    OBVIOUS
  <2>2. i \in Below(i)
    BY <1>0
  <2>3. IsFiniteSet(Below(i)) /\ Cardinality(Below(i)) <= Cardinality(P)
    BY <1>1, <2>1, FS_Subset
  <2>4. Cardinality(Below(i)) \in Nat
    BY <2>3, FS_CardinalityType
  <2>5. Cardinality(Below(i)) # 0
    BY <2>2, <2>3, FS_EmptySet
  <2> HIDE DEF Below
  <2> QED
    BY <1>1, <2>1, <2>2, <2>3, <2>4, <2>5
<1>3. ASSUME NEW i \in P, NEW k \in P, i < k
      PROVE  Cardinality(Below(i)) # Cardinality(Below(k))
  <2>1. Below(i) \in SUBSET Below(k) /\ k \notin Below(i)
    <3>1. \A j \in P : j <= i => j <= k
      BY <1>0, <1>3
    <3>2. ~ (k <= i)
      BY <1>0, <1>3
    <3> QED
      BY <3>1, <3>2
  <2>2. IsFiniteSet(Below(k)) /\ k \in Below(k)
    BY <1>2
  <2> HIDE DEF Below
  <2>3. Cardinality(Below(k)) = Cardinality(Below(i)) => Below(k) = Below(i)
    BY <2>1, <2>2, FS_Subset
  <2> QED
    BY <2>1, <2>2, <2>3
<1>4. ASSUME NEW i \in P, NEW k \in P, Cardinality(Below(i)) = Cardinality(Below(k))
      PROVE  i = k
  <2>1. i < k \/ k < i \/ i = k
    BY <1>0
  <2> QED
    BY <1>3, <1>4, <2>1
<1>5. rank \in Injection(P, 1..Cardinality(P))
  <2> HIDE DEF Below
  <2>1. \A i \in P : rank[i] = Cardinality(Below(i))
    OBVIOUS
  <2>2. rank \in [P -> 1..Cardinality(P)]
    BY <1>2
  <2> HIDE DEF rank
  <2>3. \A i, k \in P : rank[i] = rank[k] => i = k
    BY <1>4, <2>1
  <2> QED
    BY <2>2, <2>3 DEF Injection, IsInjective
<1>6. IsFiniteSet(1..Cardinality(P)) /\ Cardinality(1..Cardinality(P)) = Cardinality(P)
  BY <1>1, FS_Interval
<1>7. rank \in Surjection(P, 1..Cardinality(P))
  <2> HIDE DEF rank
  <2> QED
    BY <1>5, <1>6, FS_Injection
<1>8. PICK i \in P : rank[i] = Cardinality(P)
  <2> HIDE DEF rank
  <2>1. Cardinality(P) \in 1..Cardinality(P)
    BY <1>1
  <2> QED
    BY <1>7, <2>1 DEF Surjection
<1>9. Below(i) = P
  <2> HIDE DEF Below
  <2>1. Cardinality(Below(i)) = Cardinality(P)
    BY <1>8
  <2> QED
    BY <1>1, <1>2, <2>1, FS_Subset
<1>10. \A j \in P : i >= j
  BY <1>0, <1>9
<1> QED
  BY <1>10

LEMMA MaxOfFacts ==
  ASSUME NEW n \in Nat, NEW P \in SUBSET (0..n)
  PROVE  /\ MaxOf(P) \in 0..n
         /\ \A j \in P : j <= MaxOf(P)
         /\ P # {} => MaxOf(P) \in P
<1>1. CASE P = {}
  BY <1>1 DEF MaxOf
<1>2. CASE P # {}
  <2>1. Max(P) \in P /\ \A j \in P : Max(P) >= j
    BY <1>2, LastTime DEF Max
  <2>2. \A j \in P : j \in Int
    OBVIOUS
  <2> QED
    BY <1>2, <2>1, <2>2 DEF MaxOf
<1> QED
  BY <1>1, <1>2

LEMMA RecordsFinite ==
  ASSUME NEW n \in Nat
  PROVE  IsFiniteSet(Record(n))
<1> DEFINE A == 0..n
           f == [p \in A \X Turns |-> [at |-> p[1], turn |-> p[2]]]
<1>1. IsFiniteSet(A) /\ IsFiniteSet(Turns)
  BY FS_Interval, ReviewAssumption DEF Turns
<1> HIDE DEF A
<1>2. IsFiniteSet(A \X Turns)
  BY <1>1, FS_Product
<1>3. Record(n) = [at : A, turn : Turns]
  BY DEF Record, A
<1>4. f \in [A \X Turns -> Record(n)]
  BY <1>3
<1>5. ASSUME NEW r \in Record(n)
      PROVE  \E p \in A \X Turns : f[p] = r
  <2>1. r.at \in A /\ r.turn \in Turns /\ r = [at |-> r.at, turn |-> r.turn]
    BY <1>3
  <2>2. <<r.at, r.turn>> \in A \X Turns /\ f[<<r.at, r.turn>>] = r
    BY <2>1
  <2> QED
    BY <2>2
<1> HIDE DEF f
<1>6. f \in Surjection(A \X Turns, Record(n))
  BY <1>4, <1>5 DEF Surjection
<1> QED
  BY <1>2, <1>6, FS_Surjection

(* A batch holds everything up to its last message. *)
LEMMA BatchIsPrefix ==
  ASSUME NEW n \in Nat, NEW S, S \subseteq Record(n), NEW m \in FirstBatch(S), NEW o \in S, o.at <= m.at
  PROVE  o \in FirstBatch(S)
<1> DEFINE B(t) == {p \in S : p.at < t}
<1>1. IsFiniteSet(S)
  BY RecordsFinite, FS_Subset
<1>2. m \in S /\ Cardinality(B(m.at)) < BatchLimit
  BY DEF FirstBatch
<1>3. \A p \in S : p.at \in Nat
  BY DEF Record
<1>4. B(o.at) \in SUBSET B(m.at) /\ B(m.at) \in SUBSET S
  <2>1. \A p \in S : p.at < o.at => p.at < m.at
    BY <1>2, <1>3
  <2> QED
    BY <2>1
<1> HIDE DEF B
<1>5. IsFiniteSet(B(m.at)) /\ IsFiniteSet(B(o.at)) /\ Cardinality(B(o.at)) <= Cardinality(B(m.at))
  BY <1>1, <1>4, FS_Subset
<1>6. Cardinality(B(o.at)) \in Nat /\ Cardinality(B(m.at)) \in Nat
  BY <1>5, FS_CardinalityType
<1>7. Cardinality(B(o.at)) < BatchLimit
  BY <1>2, <1>5, <1>6, ReviewAssumption
<1> QED
  BY <1>7 DEF FirstBatch, B

(* What a run has read reaches from the cursor to its last message. *)
LEMMA ReadUpToFacts ==
  ASSUME NEW n \in Nat, NEW cursor \in Nat, NEW left, left \subseteq Record(n)
  PROVE  LET up == MaxOf({cursor} \union Times(left))
         IN /\ up \in Nat /\ cursor <= up
            /\ \A m \in left : m.at \in Nat /\ m.at <= up
            /\ up = cursor \/ \E m \in left : m.at = up
<1> DEFINE P == {cursor} \union Times(left)
<1>1. PICK k \in Nat : n <= k /\ cursor <= k
  <2>1. n + cursor \in Nat /\ n <= n + cursor /\ cursor <= n + cursor
    OBVIOUS
  <2> QED
    BY <2>1
<1>2. \A m \in left : m.at \in 0..n
  BY DEF Record
<1>3. P \in SUBSET (0..k) /\ P # {}
  BY <1>1, <1>2 DEF Times
<1>4. \A m \in left : m.at \in P
  BY DEF Times
<1>5. cursor \in P
  OBVIOUS
<1>6. \A j \in P : j = cursor \/ \E m \in left : m.at = j
  BY DEF Times
<1> HIDE DEF P
<1>7. MaxOf(P) \in 0..k /\ (\A j \in P : j <= MaxOf(P)) /\ MaxOf(P) \in P
  BY <1>3, MaxOfFacts
<1>8. MaxOf(P) \in Nat
  BY <1>1, <1>7
<1> QED
  BY <1>2, <1>4, <1>5, <1>6, <1>7, <1>8 DEF P

LEMMA BatchMaxFacts ==
  ASSUME NEW n \in Nat, NEW left, left \subseteq Record(n)
  PROVE  LET last == MaxOf(Times(left))
         IN /\ last \in 0..n
            /\ \A m \in left : m.at \in Nat /\ m.at <= last
            /\ left # {} => \E m \in left : m.at = last
            /\ left = {} => last = 0
<1>1. \A m \in left : m.at \in 0..n
  BY DEF Record
<1>2. Times(left) \in SUBSET (0..n) /\ (\A m \in left : m.at \in Times(left))
      /\ \A j \in Times(left) : \E m \in left : m.at = j
  BY <1>1 DEF Times
<1>3. /\ MaxOf(Times(left)) \in 0..n
      /\ \A j \in Times(left) : j <= MaxOf(Times(left))
      /\ Times(left) # {} => MaxOf(Times(left)) \in Times(left)
  BY <1>2, MaxOfFacts
<1>4. left = {} => Times(left) = {}
  BY DEF Times
<1> QED
  BY <1>1, <1>2, <1>3, <1>4 DEF MaxOf

(* A todo is created for a turn that has none in progress, and counted.     *)
LEMMA WithItemsKeeps ==
  ASSUME ReviewTypes, ItemsConserved, NEW batch, Creates(snapshot, batch), UNCHANGED removed
  PROVE  LET w == WithItems(snapshot, batch)
         IN /\ w = [cursor |-> snapshot.cursor, next |-> snapshot.next, open |-> w.open, done |-> snapshot.done]
            /\ w.open \in [Turns -> Nat]
            /\ made' \in [Turns -> Nat]
            /\ \A t \in Turns : made'[t] = w.open[t] + snapshot.done[t] + removed'[t] /\ w.open[t] <= 1
<1> DEFINE new == NewTodos(snapshot, batch)
           o == [t \in Turns |-> snapshot.open[t] + IF t \in new THEN 1 ELSE 0]
<1>1. \A t \in new : snapshot.open[t] = 0
  BY DEF NewTodos
<1> HIDE DEF new
<1>2. /\ snapshot = [cursor |-> snapshot.cursor, next |-> snapshot.next,
                     open |-> snapshot.open, done |-> snapshot.done]
      /\ snapshot.open \in [Turns -> Nat] /\ snapshot.done \in [Turns -> Nat]
      /\ made \in [Turns -> Nat] /\ removed \in [Turns -> Nat]
  BY DEF ReviewTypes
<1>3. WithItems(snapshot, batch) = [snapshot EXCEPT !.open = o]
  BY DEF WithItems, new
<1>4. made' = [t \in Turns |-> made[t] + IF t \in new THEN 1 ELSE 0]
  BY DEF Creates, new
<1>5. \A t \in Turns : made[t] = snapshot.open[t] + snapshot.done[t] + removed[t] /\ snapshot.open[t] <= 1
  BY DEF ItemsConserved
<1>6. o \in [Turns -> Nat] /\ made' \in [Turns -> Nat]
  BY <1>2, <1>4
<1>7. ASSUME NEW t \in Turns
      PROVE  made'[t] = o[t] + snapshot.done[t] + removed'[t] /\ o[t] <= 1
  <2>1. /\ snapshot.open[t] \in Nat /\ snapshot.done[t] \in Nat /\ removed[t] \in Nat /\ made[t] \in Nat
        /\ made[t] = snapshot.open[t] + snapshot.done[t] + removed[t] /\ snapshot.open[t] <= 1
    BY <1>2, <1>5
  <2>2. CASE t \in new
    BY <1>1, <1>4, <2>1, <2>2
  <2>3. CASE t \notin new
    BY <1>4, <2>1, <2>3
  <2> QED
    BY <2>2, <2>3
<1> HIDE DEF o
<1>8. WithItems(snapshot, batch) = [cursor |-> snapshot.cursor, next |-> snapshot.next, open |-> o,
                                    done |-> snapshot.done]
  BY <1>2, <1>3
<1> QED
  BY <1>6, <1>7, <1>8

-----------------------------------------------------------------------------
LEMMA ReviewInitInv == ReviewInit => ReviewInv
<1> SUFFICES ASSUME ReviewInit PROVE ReviewInv
  OBVIOUS
<1>1. ReviewTypes
  BY ReviewAssumption DEF ReviewInit, ReviewTypes, Record
<1>2. ReviewShape /\ RunCovers /\ CursorBacked
  BY DEF ReviewInit, ReviewShape, RunCovers, CursorBacked, LockFree
<1>3. ItemsConserved
  BY DEF ReviewInit, ItemsConserved
<1> QED
  BY <1>1, <1>2, <1>3 DEF ReviewInv

(* Only what is stored decides the two properties: a step that keeps the    *)
(* cursor and the items, and gives the lock away or nothing at all.         *)
LEMMA StoredKeeps ==
  ASSUME ReviewInv, UNCHANGED <<moment, received, messages, reviewed, passed, late, made, removed>>,
         \A c \in callers' : c.at \in Nat,
         snapshot' = [cursor |-> snapshot.cursor, next |-> snapshot'.next,
                      open |-> snapshot.open, done |-> snapshot.done],
         review' = Idle \/ UNCHANGED <<review, snapshot>>
  PROVE  ReviewInv'
<1>0. /\ snapshot'.cursor = snapshot.cursor /\ snapshot'.open = snapshot.open /\ snapshot'.done = snapshot.done
      /\ snapshot' = [cursor |-> snapshot'.cursor, next |-> snapshot'.next,
                      open |-> snapshot'.open, done |-> snapshot'.done]
  OBVIOUS
<1>1. ReviewTypes'
  BY <1>0 DEF ReviewInv, ReviewTypes
<1>2. CursorBacked' /\ ItemsConserved'
  BY <1>0 DEF ReviewInv, CursorBacked, ItemsConserved
<1>3. ReviewShape' /\ RunCovers'
  <2>1. CASE review' = Idle
    BY <2>1 DEF ReviewShape, RunCovers, LockFree
  <2>2. CASE UNCHANGED <<review, snapshot>>
    BY <2>2 DEF ReviewInv, ReviewShape, RunCovers, LockFree, ReadUpTo
  <2> QED
    BY <2>1, <2>2
<1> QED
  BY <1>1, <1>2, <1>3 DEF ReviewInv

(* Time passes, and messages may be added behind what was read, if they are *)
(* noted as late.                                                           *)
LEMMA TimeKeeps ==
  ASSUME ReviewInv, moment' = moment + 1, received' \in [Turns -> 0..moment'],
         UNCHANGED <<snapshot, review, callers, reviewed, passed, made, removed>>,
         NEW saved, saved \subseteq Record(moment + 1), messages' = messages \union saved,
         late' = late \union {m \in saved : m.at <= ReadUpTo}
  PROVE  ReviewInv'
<1>1. moment \in Nat /\ moment + 1 \in Nat /\ 0..moment \subseteq 0..(moment + 1)
  BY DEF ReviewInv, ReviewTypes
<1>2. Record(moment) \subseteq Record(moment + 1)
  BY <1>1 DEF Record
<1>3. ReviewTypes'
  BY <1>1, <1>2 DEF ReviewInv, ReviewTypes
<1>4. ReviewShape'
  BY <1>2 DEF ReviewInv, ReviewShape, LockFree
<1>5. UNCHANGED ReadUpTo /\ UNCHANGED LockFree
  BY DEF ReadUpTo, LockFree
<1>6. ASSUME NEW m \in messages' \ late', m.at <= ReadUpTo
      PROVE  m \in messages \ late
  BY <1>6
<1>7. RunCovers'
  BY <1>5, <1>6 DEF ReviewInv, RunCovers
<1>8. CursorBacked'
  <2>1. ReadUpTo \in Nat /\ snapshot.cursor \in Nat /\ snapshot.cursor <= ReadUpTo
    <3>1. snapshot.cursor \in Nat
      BY DEF ReviewInv, ReviewTypes
    <3>2. CASE LockFree
      <4>1. {} \subseteq Record(moment) /\ Times({}) = {}
        BY DEF Times
      <4>2. MaxOf({snapshot.cursor} \union Times({})) \in Nat
            /\ snapshot.cursor <= MaxOf({snapshot.cursor} \union Times({}))
        BY <1>1, <3>1, <4>1, ReadUpToFacts
      <4> QED
        BY <3>1, <3>2, <4>1, <4>2 DEF ReadUpTo
    <3>3. CASE ~LockFree
      <4>1. review.left \subseteq Record(moment)
        BY <3>3 DEF ReviewInv, ReviewShape
      <4> QED
        BY <1>1, <3>1, <3>3, <4>1, ReadUpToFacts DEF ReadUpTo
    <3> QED
      BY <3>2, <3>3
  <2>2. \A m \in messages' : m.at \in Nat
    BY <1>3 DEF ReviewTypes, Record
  <2>3. ASSUME NEW m \in messages' \ late', m.at <= snapshot.cursor
        PROVE  m \in messages \ late
    <3>1. m.at <= ReadUpTo
      BY <2>1, <2>2, <2>3
    <3> QED
      BY <1>6, <3>1
  <2> QED
    BY <2>3 DEF ReviewInv, CursorBacked
<1>9. ItemsConserved'
  BY DEF ReviewInv, ItemsConserved
<1> QED
  BY <1>3, <1>4, <1>7, <1>8, <1>9 DEF ReviewInv

(* A run starts: what is unread is chosen, or older than the window.        *)
LEMMA StartKeeps ==
  ASSUME ReviewInv, NEW c \in callers, StartsReview(c)
  PROVE  ReviewInv'
<1> DEFINE source == {m \in messages \union Current(c.who) : m.at <= c.at}
           unread == Unread(source, snapshot.cursor)
           chosen == Selected(source, snapshot.cursor, c.at)
<1>0. ReviewTypes /\ CursorBacked /\ ItemsConserved
  BY DEF ReviewInv
<1>1. /\ callers' = callers \ {c} /\ passed' = passed \union (unread \ chosen)
      /\ UNCHANGED <<moment, received, messages, reviewed, late, made, removed>>
  BY DEF StartsReview
<1>2. moment \in Nat /\ snapshot.cursor \in Nat /\ c.at \in Nat /\ messages \subseteq Record(moment)
  BY <1>0 DEF ReviewTypes
<1>3. Current(c.who) \subseteq Record(moment)
  <2>1. \A t \in Turns : received[t] \in 0..moment
    BY <1>0 DEF ReviewTypes
  <2> QED
    BY <2>1 DEF Current, Record
<1>4. source \subseteq Record(moment) /\ \A m \in messages : m.at <= c.at => m \in source
  BY <1>2, <1>3
<1>5. chosen \subseteq source /\ \A m \in source : m.at \in Nat /\ m.at <= c.at
  BY <1>4 DEF Selected, Unread, Record
<1>6. \A m \in source : m.at > snapshot.cursor => m \in chosen \/ m \in passed'
  BY <1>1 DEF Unread
<1>7. ASSUME NEW m \in messages \ late, m.at <= snapshot.cursor \/ m.at <= c.at
      PROVE  m \in reviewed' \union passed' \union chosen
  <2>1. CASE m.at <= snapshot.cursor
    BY <1>0, <1>1, <2>1 DEF CursorBacked
  <2>2. CASE ~ (m.at <= snapshot.cursor)
    <3>1. m \in source /\ m.at \in Nat
      BY <1>4, <1>5, <1>7, <2>2
    <3> QED
      BY <1>2, <1>6, <2>2, <3>1
  <2> QED
    BY <2>1, <2>2
<1>8. \A m \in messages : m.at \in Nat
  BY <1>2 DEF Record
<1>9. CASE chosen # {}
  <2>1. /\ review' = [who |-> c.who, state |-> snapshot, left |-> chosen]
        /\ UNCHANGED snapshot
    BY <1>9 DEF StartsReview
  <2>2. ReviewTypes' /\ ItemsConserved'
    BY <1>0, <1>1, <2>1 DEF ReviewTypes, ItemsConserved
  <2>3. CursorBacked'
    BY <1>0, <1>1, <2>1 DEF CursorBacked
  <2>4. review'.left = chosen /\ chosen \subseteq Record(moment)
    BY <1>4, <1>5, <2>1
  <2>5. ReviewShape'
    BY <1>1, <2>1, <2>4 DEF ReviewShape
  <2> HIDE DEF chosen, source, unread
  <2>6. ASSUME ~LockFree'
        PROVE  ReadUpTo' = MaxOf({snapshot.cursor} \union Times(chosen))
    BY <2>1, <2>4, <2>6 DEF ReadUpTo
  <2>7. LET up == MaxOf({snapshot.cursor} \union Times(chosen))
        IN up \in Nat /\ (up = snapshot.cursor \/ \E m \in chosen : m.at = up)
    BY <1>2, <2>4, ReadUpToFacts
  <2>8. MaxOf({snapshot.cursor} \union Times(chosen)) \in {snapshot.cursor} \union {k \in Nat : k <= c.at}
    BY <1>5, <2>7
  <2>9. ASSUME NEW m \in messages \ late, m.at <= MaxOf({snapshot.cursor} \union Times(chosen))
        PROVE  m.at <= snapshot.cursor \/ m.at <= c.at
    BY <1>2, <1>8, <2>8, <2>9
  <2>10. RunCovers'
    BY <1>1, <1>7, <2>4, <2>6, <2>9 DEF RunCovers
  <2> QED
    BY <2>2, <2>3, <2>5, <2>10 DEF ReviewInv
<1>10. CASE chosen = {}
  <2> DEFINE cursor == IF unread = {} THEN snapshot.cursor ELSE MaxOf(Times(source))
  <2>1. Ends([snapshot EXCEPT !.cursor = IF unread = {} THEN @ ELSE MaxOf(Times(source))], TRUE)
    BY <1>10 DEF StartsReview
  <2>2. /\ review' = Idle
        /\ snapshot' = [cursor |-> cursor, next |-> moment + Refresh, open |-> snapshot.open, done |-> snapshot.done]
    BY <1>0, <2>1 DEF Ends, AdvancesSchedule, ReviewTypes
  <2> HIDE DEF chosen, source, unread
  <2>3. /\ MaxOf(Times(source)) \in 0..moment
        /\ source # {} => \E m \in source : m.at = MaxOf(Times(source))
        /\ source = {} => MaxOf(Times(source)) = 0
    BY <1>2, <1>4, BatchMaxFacts
  <2>4. cursor \in Nat /\ (cursor = snapshot.cursor \/ cursor <= c.at)
    BY <1>2, <1>5, <2>3
  <2>5. ReviewTypes'
    BY <1>0, <1>1, <2>2, <2>4 DEF ReviewTypes
  <2>6. ItemsConserved'
    BY <1>0, <1>1, <2>2 DEF ItemsConserved
  <2>7. ASSUME NEW m \in messages \ late, m.at <= cursor
        PROVE  m \in reviewed' \union passed'
    BY <1>2, <1>7, <1>8, <1>10, <2>4, <2>7
  <2>8. CursorBacked'
    BY <1>1, <2>2, <2>7 DEF CursorBacked
  <2>9. ReviewShape' /\ RunCovers'
    BY <2>2 DEF ReviewShape, RunCovers, LockFree
  <2> QED
    BY <2>5, <2>6, <2>8, <2>9 DEF ReviewInv
<1> QED
  BY <1>9, <1>10

(* A batch: what is up to its last message is in it, or was done with.      *)
LEMMA BatchKeeps ==
  ASSUME ReviewInv, BatchSucceeds
  PROVE  ReviewInv'
<1> DEFINE left == review.left
           batch == FirstBatch(left)
           w == WithItems(snapshot, batch)
           last == MaxOf(Times(batch))
           state == [w EXCEPT !.cursor = last]
           up == MaxOf({snapshot.cursor} \union Times(left))
<1>0. ReviewTypes /\ ReviewShape /\ RunCovers /\ CursorBacked /\ ItemsConserved /\ ~LockFree
  BY DEF ReviewInv, BatchSucceeds
<1>1. /\ review = [who |-> review.who, state |-> snapshot, left |-> left]
      /\ left \subseteq Record(moment) /\ moment \in Nat /\ snapshot.cursor \in Nat
  BY <1>0 DEF ReviewShape, ReviewTypes
<1>2. review.state = snapshot
  BY <1>1
<1>3. /\ reviewed' = reviewed \union batch
      /\ Creates(snapshot, batch)
      /\ UNCHANGED <<moment, received, messages, callers, passed, late, removed>>
      /\ IF batch = left
         THEN Ends(state, TRUE)
         ELSE /\ review' = [review EXCEPT !.state = state, !.left = @ \ batch]
              /\ snapshot' = state
  BY <1>2 DEF BatchSucceeds, AfterBatch
<1>4. /\ w = [cursor |-> snapshot.cursor, next |-> snapshot.next, open |-> w.open, done |-> snapshot.done]
      /\ w.open \in [Turns -> Nat]
      /\ made' \in [Turns -> Nat]
      /\ \A t \in Turns : made'[t] = w.open[t] + snapshot.done[t] + removed'[t] /\ w.open[t] <= 1
  BY <1>0, <1>3, WithItemsKeeps
<1> HIDE DEF w
<1>5. state = [cursor |-> last, next |-> snapshot.next, open |-> w.open, done |-> snapshot.done]
  BY <1>4
<1>6. batch \subseteq left
  BY DEF FirstBatch
<1>7. ASSUME NEW m \in batch, NEW o \in left, o.at <= m.at
      PROVE  o \in batch
  BY <1>1, <1>7, BatchIsPrefix
<1> HIDE DEF batch
<1>8. /\ last \in 0..moment /\ (batch # {} => \E m \in batch : m.at = last)
      /\ (batch = {} => last = 0)
  BY <1>1, <1>6, BatchMaxFacts
<1>9. /\ up \in Nat /\ snapshot.cursor <= up
      /\ \A m \in left : m.at \in Nat /\ m.at <= up
  BY <1>1, ReadUpToFacts
<1>10. ReadUpTo = up
  BY <1>0 DEF ReadUpTo
<1>11. \A m \in messages : m.at \in Nat
  BY <1>0 DEF ReviewTypes, Record
<1> HIDE DEF last, up
<1>12. last \in Nat /\ last <= up
  <2>1. last \in Nat
    BY <1>1, <1>8
  <2>2. CASE batch = {}
    BY <1>8, <1>9, <2>2
  <2>3. CASE batch # {}
    BY <1>6, <1>8, <1>9, <2>3
  <2> QED
    BY <2>1, <2>2, <2>3
<1>13. \A m \in messages \ late : m.at <= up => m \in reviewed' \union passed' \union (left \ batch)
  BY <1>0, <1>3, <1>6, <1>10 DEF RunCovers
<1>14. ASSUME NEW m \in messages \ late, m.at <= last
       PROVE  m \in reviewed' \union passed'
  <2>1. m.at <= up
    BY <1>9, <1>11, <1>12, <1>14
  <2>2. m \in reviewed \union passed \union left
    BY <1>0, <1>10, <2>1 DEF RunCovers
  <2>3. CASE batch # {} /\ m \in left
    BY <1>3, <1>7, <1>8, <1>14, <2>3
  <2>4. CASE batch = {}
    <3>1. m.at <= snapshot.cursor
      BY <1>1, <1>8, <1>11, <1>14, <2>4
    <3> QED
      BY <1>0, <1>3, <3>1 DEF CursorBacked
  <2>5. CASE m \notin left
    BY <1>3, <2>2, <2>5
  <2> QED
    BY <2>3, <2>4, <2>5
<1>15. snapshot' = [cursor |-> last, next |-> snapshot'.next, open |-> w.open, done |-> snapshot.done]
  <2>1. CASE batch = left
    <3>1. snapshot' = [state EXCEPT !.next = moment + Refresh]
      BY <1>3, <2>1 DEF Ends, AdvancesSchedule
    <3> QED
      BY <1>5, <3>1
  <2>2. CASE batch # left
    <3>1. snapshot' = state
      BY <1>3, <2>2
    <3> QED
      BY <1>5, <3>1
  <2> QED
    BY <2>1, <2>2
<1>16. /\ snapshot'.cursor = last /\ snapshot'.open = w.open /\ snapshot'.done = snapshot.done
       /\ snapshot' = [cursor |-> snapshot'.cursor, next |-> snapshot'.next,
                       open |-> snapshot'.open, done |-> snapshot'.done]
  BY <1>15
<1>17. ReviewTypes'
  BY <1>0, <1>3, <1>4, <1>12, <1>16 DEF ReviewTypes
<1>18. ItemsConserved'
  BY <1>4, <1>16 DEF ItemsConserved
<1>19. CursorBacked'
  BY <1>3, <1>14, <1>16 DEF CursorBacked
<1>20. CASE batch = left
  <2>1. review' = Idle
    BY <1>3, <1>20 DEF Ends
  <2> QED
    BY <1>17, <1>18, <1>19, <2>1 DEF ReviewInv, ReviewShape, RunCovers, LockFree
<1>21. CASE batch # left
  <2>1. review' = [review EXCEPT !.state = state, !.left = @ \ batch] /\ snapshot' = state
    BY <1>3, <1>21
  <2>2. review' = [who |-> review.who, state |-> snapshot', left |-> left \ batch]
    BY <1>1, <2>1
  <2> HIDE DEF left, state
  <2>3. review'.left = left \ batch /\ left \ batch \subseteq Record(moment)
    BY <1>1, <2>2
  <2>4. ReviewShape'
    BY <1>3, <2>2, <2>3 DEF ReviewShape
  <2> DEFINE next == MaxOf({last} \union Times(left \ batch))
  <2>5. next \in Nat /\ (next = last \/ \E m \in left \ batch : m.at = next)
    BY <1>1, <1>12, <2>3, ReadUpToFacts
  <2>6. ~LockFree' => ReadUpTo' = next
    BY <1>16, <2>3 DEF ReadUpTo
  <2> HIDE DEF next
  <2>7. next <= up
    BY <1>9, <1>12, <2>5
  <2>8. ASSUME NEW m \in messages \ late, m.at <= next
        PROVE  m.at <= up
    BY <1>9, <1>11, <2>5, <2>7, <2>8
  <2>9. RunCovers'
    BY <1>3, <1>13, <2>3, <2>6, <2>8 DEF RunCovers
  <2> QED
    BY <1>17, <1>18, <1>19, <2>4, <2>9 DEF ReviewInv
<1> QED
  BY <1>20, <1>21

LEMMA ReviewNextInv ==
  ASSUME ReviewInv, [ReviewNext]_reviewVars
  PROVE  ReviewInv'
<1>0. /\ ReviewTypes /\ ReviewShape /\ ItemsConserved
      /\ moment \in Nat /\ received \in [Turns -> 0..moment]
      /\ snapshot = [cursor |-> snapshot.cursor, next |-> snapshot.next,
                     open |-> snapshot.open, done |-> snapshot.done]
      /\ snapshot.open \in [Turns -> Nat] /\ snapshot.done \in [Turns -> Nat]
      /\ made \in [Turns -> Nat] /\ removed \in [Turns -> Nat]
      /\ \A c \in callers : c.at \in Nat
  BY DEF ReviewInv, ReviewTypes
<1>1. CASE Elapse
  <2>1. /\ moment' = moment + 1
        /\ UNCHANGED <<snapshot, review, callers, reviewed, passed, made, removed, received, messages, late>>
    BY <1>1 DEF Elapse, reviewPast
  <2>2. {} \subseteq Record(moment + 1) /\ messages' = messages \union {}
        /\ late' = late \union {m \in {} : m.at <= ReadUpTo}
    BY <2>1
  <2>3. received' \in [Turns -> 0..moment']
    BY <1>0, <2>1
  <2> QED
    BY <2>1, <2>2, <2>3, TimeKeeps
<1>2. ASSUME NEW t \in Turns, Arrives(t)
      PROVE  ReviewInv'
  <2>1. /\ moment' = moment + 1 /\ received' = [received EXCEPT ![t] = moment]
        /\ UNCHANGED <<snapshot, review, callers, reviewed, passed, made, removed, messages, late>>
    BY <1>2 DEF Arrives, reviewPast
  <2>2. {} \subseteq Record(moment + 1) /\ messages' = messages \union {}
        /\ late' = late \union {m \in {} : m.at <= ReadUpTo}
    BY <2>1
  <2>3. received' \in [Turns -> 0..moment']
    BY <1>0, <2>1
  <2> QED
    BY <2>1, <2>2, <2>3, TimeKeeps
<1>3. ASSUME NEW t \in Turns, SavesTurn(t)
      PROVE  ReviewInv'
  <2> DEFINE saved == {[at |-> received[t], turn |-> t], [at |-> moment, turn |-> t]}
  <2>1. /\ moment' = moment + 1 /\ messages' = messages \union saved
        /\ late' = late \union {m \in saved : m.at <= ReadUpTo}
        /\ UNCHANGED <<snapshot, review, callers, reviewed, passed, made, removed, received>>
    BY <1>3 DEF SavesTurn
  <2>2. saved \subseteq Record(moment + 1)
    <3>1. received[t] \in 0..(moment + 1) /\ moment \in 0..(moment + 1)
      BY <1>0
    <3> QED
      BY <3>1 DEF Record
  <2>3. received' \in [Turns -> 0..moment']
    BY <1>0, <2>1
  <2> HIDE DEF saved
  <2> QED
    BY <2>1, <2>2, <2>3, TimeKeeps
<1>4. ASSUME NEW who \in {"manual", "auto"}, CallsReview(who)
      PROVE  ReviewInv'
  <2>1. /\ UNCHANGED <<moment, received, messages, reviewed, passed, late, made, removed, review, snapshot>>
        /\ callers' = callers \union {[who |-> who, at |-> moment]}
    BY <1>4 DEF CallsReview
  <2>2. \A c \in callers' : c.at \in Nat
    BY <1>0, <2>1
  <2> QED
    BY <1>0, <2>1, <2>2, StoredKeeps
<1>5. ASSUME NEW c \in callers, StartsReview(c)
      PROVE  ReviewInv'
  BY <1>5, StartKeeps
<1>6. CASE BatchSucceeds
  BY <1>6, BatchKeeps
<1>7. ASSUME NEW ok \in BOOLEAN, BatchFails(ok)
      PROVE  ReviewInv'
  <2>1. review.state = snapshot
    BY <1>0, <1>7 DEF BatchFails, ReviewShape
  <2>2. /\ UNCHANGED <<moment, received, messages, reviewed, passed, late, made, removed, callers>>
        /\ review' = Idle
        /\ snapshot' = IF ok THEN [snapshot EXCEPT !.next = moment + Refresh] ELSE snapshot
    BY <1>7, <2>1 DEF BatchFails, Ends, AdvancesSchedule
  <2>3. snapshot' = [cursor |-> snapshot.cursor, next |-> snapshot'.next,
                     open |-> snapshot.open, done |-> snapshot.done]
    BY <1>0, <2>2
  <2> QED
    BY <1>0, <2>2, <2>3, StoredKeeps
<1>8. CASE ReviewCancelled
  BY <1>0, <1>8, StoredKeeps DEF ReviewCancelled, reviewPast
<1>9. CASE ReviewRestarts
  <2>1. /\ UNCHANGED <<moment, received, messages, reviewed, passed, late, removed>>
        /\ review' = Idle /\ callers' = {}
    BY <1>9 DEF ReviewRestarts
  <2>2. CASE InitializeReview(snapshot) /\ UNCHANGED made
    <3>1. snapshot' = [cursor |-> snapshot.cursor, next |-> snapshot'.next,
                       open |-> snapshot.open, done |-> snapshot.done]
      BY <1>0, <2>2 DEF InitializeReview
    <3> QED
      BY <2>1, <2>2, <3>1, StoredKeeps
  <2>3. CASE /\ ~LockFree
             /\ InitializeReview(WithItems(review.state, FirstBatch(review.left)))
             /\ Creates(review.state, FirstBatch(review.left))
    <3> DEFINE batch == FirstBatch(review.left)
               w == WithItems(snapshot, batch)
    <3>1. review.state = snapshot
      BY <1>0, <2>3 DEF ReviewShape
    <3>2. InitializeReview(w) /\ Creates(snapshot, batch)
      BY <2>3, <3>1
    <3>3. /\ w = [cursor |-> snapshot.cursor, next |-> snapshot.next, open |-> w.open, done |-> snapshot.done]
          /\ w.open \in [Turns -> Nat]
          /\ made' \in [Turns -> Nat]
          /\ \A t \in Turns : made'[t] = w.open[t] + snapshot.done[t] + removed'[t] /\ w.open[t] <= 1
      BY <1>0, <2>1, <3>2, WithItemsKeeps
    <3> HIDE DEF w
    <3>4. snapshot' = [cursor |-> snapshot.cursor, next |-> snapshot'.next, open |-> w.open,
                       done |-> snapshot.done]
      BY <3>2, <3>3 DEF InitializeReview
    <3>5. /\ snapshot'.cursor = snapshot.cursor /\ snapshot'.open = w.open /\ snapshot'.done = snapshot.done
          /\ snapshot' = [cursor |-> snapshot'.cursor, next |-> snapshot'.next,
                          open |-> snapshot'.open, done |-> snapshot'.done]
      BY <3>4
    <3>6. ReviewTypes'
      BY <1>0, <2>1, <3>3, <3>5 DEF ReviewTypes
    <3>7. ItemsConserved'
      BY <3>3, <3>5 DEF ItemsConserved
    <3>8. CursorBacked'
      BY <2>1, <3>5 DEF ReviewInv, CursorBacked
    <3> QED
      BY <2>1, <3>6, <3>7, <3>8 DEF ReviewInv, ReviewShape, RunCovers, LockFree
  <2> QED
    BY <1>9, <2>2, <2>3 DEF ReviewRestarts
<1>10. ASSUME NEW t \in Turns, CompletesItem(t)
       PROVE  ReviewInv'
  <2>1. /\ UNCHANGED <<moment, received, messages, reviewed, passed, late, made, removed, callers, review>>
        /\ LockFree /\ snapshot.open[t] > 0
        /\ snapshot' = [snapshot EXCEPT !.open[t] = @ - 1, !.done[t] = @ + 1]
    BY <1>10 DEF CompletesItem, reviewPast
  <2>2. snapshot' = [cursor |-> snapshot.cursor, next |-> snapshot.next,
                     open |-> [snapshot.open EXCEPT ![t] = @ - 1], done |-> [snapshot.done EXCEPT ![t] = @ + 1]]
    BY <1>0, <2>1
  <2>3. /\ snapshot'.cursor = snapshot.cursor
        /\ snapshot'.open = [snapshot.open EXCEPT ![t] = @ - 1]
        /\ snapshot'.done = [snapshot.done EXCEPT ![t] = @ + 1]
        /\ snapshot' = [cursor |-> snapshot'.cursor, next |-> snapshot'.next,
                        open |-> snapshot'.open, done |-> snapshot'.done]
    BY <2>2
  <2>4. snapshot'.open \in [Turns -> Nat] /\ snapshot'.done \in [Turns -> Nat]
    BY <1>0, <2>1, <2>3
  <2>5. ReviewTypes'
    BY <1>0, <2>1, <2>3, <2>4 DEF ReviewTypes
  <2>6. ItemsConserved'
    <3>1. ASSUME NEW u \in Turns
          PROVE  /\ made[u] = snapshot'.open[u] + snapshot'.done[u] + removed[u]
                 /\ snapshot'.open[u] <= 1
      <4>1. /\ made[u] = snapshot.open[u] + snapshot.done[u] + removed[u] /\ snapshot.open[u] <= 1
            /\ snapshot.open[u] \in Nat /\ snapshot.done[u] \in Nat /\ removed[u] \in Nat
        BY <1>0 DEF ItemsConserved
      <4>2. CASE u = t
        BY <1>0, <2>1, <2>3, <4>1, <4>2
      <4>3. CASE u # t
        BY <1>0, <2>3, <4>1, <4>3
      <4> QED
        BY <4>2, <4>3
    <3> QED
      BY <2>1, <3>1 DEF ItemsConserved
  <2>7. CursorBacked'
    BY <2>1, <2>3 DEF ReviewInv, CursorBacked
  <2> QED
    BY <2>1, <2>5, <2>6, <2>7 DEF ReviewInv, ReviewShape, RunCovers, LockFree
<1>11. ASSUME NEW t \in Turns, DeletesItem(t)
       PROVE  ReviewInv'
  <2>1. PICK status \in {"open", "done"} :
           /\ LockFree /\ snapshot[status][t] > 0
           /\ snapshot' = [snapshot EXCEPT ![status][t] = @ - 1]
           /\ removed' = [removed EXCEPT ![t] = @ + 1]
           /\ UNCHANGED <<moment, received, messages, review, callers, reviewed, passed, late, made>>
    BY <1>11 DEF DeletesItem
  <2> DEFINE o == IF status = "open" THEN [snapshot.open EXCEPT ![t] = @ - 1] ELSE snapshot.open
             d == IF status = "done" THEN [snapshot.done EXCEPT ![t] = @ - 1] ELSE snapshot.done
  <2>2. snapshot' = [cursor |-> snapshot.cursor, next |-> snapshot.next, open |-> o, done |-> d]
    <3>1. CASE status = "open"
      BY <1>0, <2>1, <3>1
    <3>2. CASE status = "done"
      BY <1>0, <2>1, <3>2
    <3> QED
      BY <3>1, <3>2
  <2>3. /\ o \in [Turns -> Nat] /\ d \in [Turns -> Nat] /\ removed' \in [Turns -> Nat]
    BY <1>0, <2>1
  <2>4. ASSUME NEW u \in Turns
        PROVE  made[u] = o[u] + d[u] + removed'[u] /\ o[u] <= 1
    <3>1. /\ made[u] = snapshot.open[u] + snapshot.done[u] + removed[u] /\ snapshot.open[u] <= 1
          /\ snapshot.open[u] \in Nat /\ snapshot.done[u] \in Nat /\ removed[u] \in Nat
      BY <1>0 DEF ItemsConserved
    <3>2. CASE u = t /\ status = "open"
      BY <1>0, <2>1, <3>1, <3>2
    <3>3. CASE u = t /\ status = "done"
      BY <1>0, <2>1, <3>1, <3>3
    <3>4. CASE u # t
      BY <1>0, <2>1, <3>1, <3>4
    <3> QED
      BY <3>2, <3>3, <3>4
  <2> HIDE DEF o, d
  <2>5. /\ snapshot'.cursor = snapshot.cursor /\ snapshot'.open = o /\ snapshot'.done = d
        /\ snapshot' = [cursor |-> snapshot'.cursor, next |-> snapshot'.next,
                        open |-> snapshot'.open, done |-> snapshot'.done]
    BY <2>2
  <2>6. ReviewTypes'
    BY <1>0, <2>1, <2>3, <2>5 DEF ReviewTypes
  <2>7. ItemsConserved'
    BY <2>1, <2>4, <2>5 DEF ItemsConserved
  <2>8. CursorBacked'
    BY <2>1, <2>5 DEF ReviewInv, CursorBacked
  <2> QED
    BY <2>1, <2>6, <2>7, <2>8 DEF ReviewInv, ReviewShape, RunCovers, LockFree
<1>12. CASE UNCHANGED reviewVars
  BY <1>0, <1>12, StoredKeeps DEF reviewVars, reviewPast
<1> QED
  BY <1>1, <1>2, <1>3, <1>4, <1>5, <1>6, <1>7, <1>8, <1>9, <1>10, <1>11, <1>12 DEF ReviewNext

(* The cursor passes a message only after a batch with it succeeded, or when *)
(* it was older than the window; what is saved behind it is the exception.   *)
THEOREM CursorBackedAlways == ReviewSpec => []CursorBacked
<1>1. ReviewInv => CursorBacked
  BY DEF ReviewInv
<1> QED
  BY <1>1, ReviewInitInv, ReviewNextInv, PTL DEF ReviewSpec

(* Every item that was created is in progress, done or deleted, and a turn   *)
(* has at most one in progress, however runs, users, failures and crashes    *)
(* follow each other.                                                        *)
THEOREM ItemsConservedAlways == ReviewSpec => []ItemsConserved
<1>1. ReviewInv => ItemsConserved
  BY DEF ReviewInv
<1> QED
  BY <1>1, ReviewInitInv, ReviewNextInv, PTL DEF ReviewSpec

-----------------------------------------------------------------------------
(* The cursor only goes forward, and no message is reviewed twice.          *)
OnceInv ==
  /\ \A m \in reviewed : m.at \in Nat /\ m.at <= snapshot.cursor
  /\ ~LockFree => review.left # {} /\ \A m \in review.left : m.at > snapshot.cursor

OrderlyReviews ==
  [][/\ snapshot'.cursor >= snapshot.cursor
     /\ BatchSucceeds => /\ FirstBatch(review.left) # {}
                         /\ FirstBatch(review.left) \intersect reviewed = {}
                         /\ snapshot'.cursor > snapshot.cursor]_reviewVars

(* The earliest message of a run is in its first batch. *)
LEMMA BatchTakesSome ==
  ASSUME NEW n \in Nat, NEW S, S \subseteq Record(n), S # {}
  PROVE  FirstBatch(S) # {}
<1> DEFINE P == {n - m.at : m \in S}
<1>1. \A m \in S : m.at \in 0..n
  BY DEF Record
<1>2. P \in SUBSET (0..n) /\ P # {}
  BY <1>1
<1>3. PICK i \in P : \A j \in P : i >= j
  BY <1>2, LastTime
<1>4. PICK m \in S : i = n - m.at
  OBVIOUS
<1>5. \A o \in S : n - m.at >= n - o.at
  BY <1>3, <1>4
<1>6. \A o \in S : ~(o.at < m.at)
  BY <1>1, <1>5
<1> DEFINE before == {o \in S : o.at < m.at}
<1>7. before = {}
  BY <1>6
<1>8. Cardinality(before) < BatchLimit
  <2> HIDE DEF before
  <2>1. Cardinality(before) = 0
    BY <1>7, FS_EmptySet
  <2> QED
    BY <2>1, ReviewAssumption
<1>9. m \in FirstBatch(S)
  BY <1>8 DEF FirstBatch
<1> QED
  BY <1>9

(* Where the run stands when nothing is reviewed or chosen. *)
LEMMA StandsStill ==
  ASSUME OnceInv, reviewed' = reviewed, snapshot'.cursor = snapshot.cursor, review' = Idle \/ review' = review
  PROVE  OnceInv'
<1>1. CASE review' = Idle
  BY <1>1 DEF OnceInv, LockFree
<1>2. CASE review' = review
  BY <1>2 DEF OnceInv, LockFree
<1> QED
  BY <1>1, <1>2

LEMMA StartIsAhead ==
  ASSUME ReviewInv, OnceInv, NEW c \in callers, StartsReview(c)
  PROVE  OnceInv' /\ snapshot'.cursor >= snapshot.cursor
<1> DEFINE source == {m \in messages \union Current(c.who) : m.at <= c.at}
           unread == Unread(source, snapshot.cursor)
           chosen == Selected(source, snapshot.cursor, c.at)
<1>0. ReviewTypes /\ moment \in Nat /\ snapshot.cursor \in Nat /\ messages \subseteq Record(moment)
  BY DEF ReviewInv, ReviewTypes
<1>1. reviewed' = reviewed
  BY DEF StartsReview
<1>2. Current(c.who) \subseteq Record(moment)
  <2>1. \A t \in Turns : received[t] \in 0..moment
    BY <1>0 DEF ReviewTypes
  <2> QED
    BY <2>1 DEF Current, Record
<1>3. source \subseteq Record(moment) /\ unread \subseteq source /\ chosen \subseteq unread
      /\ \A m \in unread : m.at > snapshot.cursor
  BY <1>0, <1>2 DEF Selected, Unread
<1>4. CASE chosen # {}
  <2>1. review' = [who |-> c.who, state |-> snapshot, left |-> chosen] /\ snapshot' = snapshot
    BY <1>4 DEF StartsReview
  <2> HIDE DEF chosen, source, unread
  <2>2. review'.left = chosen
    BY <2>1
  <2> QED
    BY <1>0, <1>1, <1>3, <1>4, <2>1, <2>2 DEF OnceInv
<1>5. CASE chosen = {}
  <2> DEFINE cursor == IF unread = {} THEN snapshot.cursor ELSE MaxOf(Times(source))
  <2>1. Ends([snapshot EXCEPT !.cursor = IF unread = {} THEN @ ELSE MaxOf(Times(source))], TRUE)
    BY <1>5 DEF StartsReview
  <2>2. review' = Idle /\ snapshot'.cursor = cursor
    BY <1>0, <2>1 DEF Ends, AdvancesSchedule, ReviewTypes
  <2> HIDE DEF chosen, source, unread
  <2>3. MaxOf(Times(source)) \in 0..moment /\ \A m \in source : m.at \in Nat /\ m.at <= MaxOf(Times(source))
    BY <1>0, <1>3, BatchMaxFacts
  <2>4. cursor \in Nat /\ snapshot.cursor <= cursor
    <3>1. CASE unread = {}
      BY <1>0, <3>1
    <3>2. CASE unread # {}
      <4>1. PICK m \in unread : m.at > snapshot.cursor
        BY <1>3, <3>2
      <4>2. m.at \in Nat /\ m.at <= MaxOf(Times(source)) /\ MaxOf(Times(source)) \in Nat
        BY <1>0, <1>3, <2>3
      <4> QED
        BY <1>0, <3>2, <4>1, <4>2
    <3> QED
      BY <3>1, <3>2
  <2> HIDE DEF cursor
  <2>5. \A m \in reviewed' : m.at \in Nat /\ m.at <= snapshot'.cursor
    BY <1>0, <1>1, <2>2, <2>4 DEF OnceInv
  <2> QED
    BY <2>2, <2>4, <2>5 DEF OnceInv, LockFree
<1> QED
  BY <1>4, <1>5

LEMMA BatchGoesOn ==
  ASSUME ReviewInv, OnceInv, BatchSucceeds
  PROVE  /\ OnceInv' /\ snapshot'.cursor > snapshot.cursor
         /\ FirstBatch(review.left) # {} /\ FirstBatch(review.left) \intersect reviewed = {}
<1> DEFINE left == review.left
           batch == FirstBatch(left)
           last == MaxOf(Times(batch))
           w == WithItems(snapshot, batch)
           state == [w EXCEPT !.cursor = last]
<1>0. /\ ~LockFree /\ review = [who |-> review.who, state |-> snapshot, left |-> left]
      /\ left \subseteq Record(moment) /\ moment \in Nat /\ snapshot.cursor \in Nat
      /\ left # {} /\ \A m \in left : m.at > snapshot.cursor
  BY DEF BatchSucceeds, ReviewInv, ReviewShape, ReviewTypes, OnceInv
<1>1. /\ reviewed' = reviewed \union batch
      /\ IF batch = left
         THEN Ends(state, TRUE)
         ELSE /\ review' = [review EXCEPT !.state = state, !.left = @ \ batch]
              /\ snapshot' = state
  <2>1. review.state = snapshot
    BY <1>0
  <2> QED
    BY <2>1 DEF BatchSucceeds, AfterBatch
<1>2. w = [cursor |-> snapshot.cursor, next |-> snapshot.next, open |-> w.open, done |-> w.done]
  BY DEF ReviewInv, ReviewTypes, WithItems
<1> HIDE DEF w
<1>3. batch \subseteq left
  BY DEF FirstBatch
<1>4. batch # {}
  BY <1>0, BatchTakesSome
<1>5. \A m \in batch : \A o \in left : o.at <= m.at => o \in batch
  BY <1>0, BatchIsPrefix
<1> HIDE DEF batch
<1>6. /\ last \in 0..moment /\ \E m \in batch : m.at = last
      /\ \A m \in batch : m.at \in Nat /\ m.at <= last
  BY <1>0, <1>3, <1>4, BatchMaxFacts
<1> HIDE DEF last
<1>7. last \in Nat /\ last > snapshot.cursor
  BY <1>0, <1>3, <1>6
<1>8. state.cursor = last /\ snapshot'.cursor = last
  <2>1. state = [cursor |-> last, next |-> snapshot.next, open |-> w.open, done |-> w.done]
    BY <1>2
  <2>2. snapshot' = state \/ snapshot' = [state EXCEPT !.next = moment + Refresh]
    BY <1>1 DEF Ends, AdvancesSchedule
  <2> QED
    BY <2>1, <2>2
<1>9. \A m \in reviewed' : m.at \in Nat /\ m.at <= snapshot'.cursor
  BY <1>0, <1>1, <1>6, <1>7, <1>8 DEF OnceInv
<1>10. \A o \in left \ batch : o.at > last
  <2>1. PICK m \in batch : m.at = last
    BY <1>6
  <2>2. \A o \in left : o.at \in Nat
    BY <1>0 DEF Record
  <2> QED
    BY <1>5, <1>7, <2>1, <2>2
<1>11. ~LockFree' => review'.left # {} /\ \A m \in review'.left : m.at > snapshot'.cursor
  <2>1. CASE batch = left
    <3>1. review' = Idle
      BY <1>1, <2>1 DEF Ends
    <3> QED
      BY <3>1 DEF LockFree
  <2>2. CASE batch # left
    <3>1. review' = [review EXCEPT !.state = state, !.left = @ \ batch]
      BY <1>1, <2>2
    <3> HIDE DEF state, left
    <3>2. review' = [who |-> review.who, state |-> state, left |-> left \ batch]
      BY <1>0, <3>1 DEF left
    <3>3. review'.left = left \ batch /\ left \ batch # {}
      BY <1>3, <2>2, <3>2
    <3> QED
      BY <1>8, <1>10, <3>3
  <2> QED
    BY <2>1, <2>2
<1>12. batch \intersect reviewed = {}
  <2>1. ASSUME NEW m \in batch, m \in reviewed
        PROVE  FALSE
    <3>1. m.at > snapshot.cursor /\ m.at <= snapshot.cursor /\ m.at \in Nat
      BY <1>0, <1>3, <2>1 DEF OnceInv
    <3> QED
      BY <1>0, <3>1
  <2> QED
    BY <2>1
<1>13. OnceInv'
  BY <1>9, <1>11 DEF OnceInv
<1>14. snapshot'.cursor > snapshot.cursor
  BY <1>7, <1>8
<1> QED
  BY <1>4, <1>12, <1>13, <1>14 DEF batch, left

LEMMA ReviewsAreOrderly ==
  ASSUME ReviewInv, OnceInv, [ReviewNext]_reviewVars
  PROVE  /\ OnceInv' /\ snapshot'.cursor >= snapshot.cursor
         /\ BatchSucceeds => /\ FirstBatch(review.left) # {}
                             /\ FirstBatch(review.left) \intersect reviewed = {}
                             /\ snapshot'.cursor > snapshot.cursor
<1>0. /\ snapshot.cursor \in Nat
      /\ snapshot = [cursor |-> snapshot.cursor, next |-> snapshot.next,
                     open |-> snapshot.open, done |-> snapshot.done]
      /\ ~LockFree => review.state = snapshot
  BY DEF ReviewInv, ReviewTypes, ReviewShape
<1>1. CASE BatchSucceeds
  <2>1. /\ OnceInv' /\ snapshot'.cursor > snapshot.cursor
        /\ FirstBatch(review.left) # {} /\ FirstBatch(review.left) \intersect reviewed = {}
    BY <1>1, BatchGoesOn
  <2>2. snapshot'.cursor \in Nat
    BY ReviewNextInv DEF ReviewInv, ReviewTypes
  <2> QED
    BY <1>0, <2>1, <2>2
<1>2. CASE \E c \in callers : StartsReview(c)
  <2>1. OnceInv' /\ snapshot'.cursor >= snapshot.cursor /\ reviewed' = reviewed
    BY <1>2, StartIsAhead DEF StartsReview
  <2> QED
    BY <1>1, <2>1
<1>3. ASSUME reviewed' = reviewed, snapshot'.cursor = snapshot.cursor, review' = Idle \/ review' = review
      PROVE  OnceInv' /\ snapshot'.cursor >= snapshot.cursor
  BY <1>0, <1>3, StandsStill
<1>4. CASE Elapse \/ (\E t \in Turns : Arrives(t) \/ SavesTurn(t)) \/ \E who \in {"manual", "auto"} : CallsReview(who)
  <2>1. UNCHANGED <<reviewed, snapshot, review>>
    BY <1>4 DEF Elapse, Arrives, SavesTurn, CallsReview, reviewPast
  <2> QED
    BY <1>1, <1>3, <2>1
<1>5. CASE \E ok \in BOOLEAN : BatchFails(ok)
  <2>1. PICK ok \in BOOLEAN : BatchFails(ok)
    BY <1>5
  <2>2. reviewed' = reviewed /\ review' = Idle /\ review.state = snapshot
        /\ snapshot' = IF ok THEN [review.state EXCEPT !.next = moment + Refresh] ELSE snapshot
    BY <1>0, <2>1 DEF BatchFails, Ends, AdvancesSchedule
  <2>3. snapshot'.cursor = snapshot.cursor
    BY <1>0, <2>2
  <2> QED
    BY <1>1, <1>3, <2>2, <2>3
<1>6. CASE ReviewCancelled
  BY <1>1, <1>3, <1>6 DEF ReviewCancelled, reviewPast
<1>7. CASE ReviewRestarts
  <2>1. reviewed' = reviewed /\ review' = Idle
    BY <1>7 DEF ReviewRestarts
  <2>2. CASE InitializeReview(snapshot)
    BY <1>0, <1>1, <1>3, <2>1, <2>2 DEF InitializeReview
  <2>3. CASE ~LockFree /\ InitializeReview(WithItems(review.state, FirstBatch(review.left)))
    <3>1. snapshot'.cursor = snapshot.cursor
      BY <1>0, <2>3 DEF InitializeReview, WithItems
    <3> QED
      BY <1>1, <1>3, <2>1, <3>1
  <2> QED
    BY <1>7, <2>2, <2>3 DEF ReviewRestarts
<1>8. CASE \E t \in Turns : CompletesItem(t)
  <2>1. PICK t \in Turns : CompletesItem(t)
    BY <1>8
  <2>2. UNCHANGED <<reviewed, review>> /\ snapshot'.cursor = snapshot.cursor
    BY <1>0, <2>1 DEF CompletesItem, reviewPast
  <2> QED
    BY <1>1, <1>3, <2>2
<1>9. CASE \E t \in Turns : DeletesItem(t)
  <2>1. PICK t \in Turns : DeletesItem(t)
    BY <1>9
  <2>2. UNCHANGED <<reviewed, review>> /\ snapshot'.cursor = snapshot.cursor
    BY <1>0, <2>1 DEF DeletesItem
  <2> QED
    BY <1>1, <1>3, <2>2
<1>10. CASE UNCHANGED reviewVars
  BY <1>1, <1>3, <1>10 DEF reviewVars, reviewPast
<1> QED
  BY <1>1, <1>2, <1>4, <1>5, <1>6, <1>7, <1>8, <1>9, <1>10 DEF ReviewNext

(* review_window.py and the batches of breakbeat.py and dream.py: however   *)
(* runs are started, cancelled, fail or crash, the stored cursor never goes *)
(* back, every batch that succeeds moves it, and no message is given to a   *)
(* second batch once one with it has succeeded.                             *)
THEOREM ReviewsAreAlwaysOrderly == ReviewSpec => OrderlyReviews
<1>1. ReviewInit => OnceInv
  BY DEF ReviewInit, OnceInv, LockFree
<1>2. ReviewInv /\ OnceInv /\ [ReviewNext]_reviewVars => OnceInv'
  BY ReviewsAreOrderly
<1>3. ReviewInv /\ OnceInv /\ [ReviewNext]_reviewVars =>
        [/\ snapshot'.cursor >= snapshot.cursor
         /\ BatchSucceeds => /\ FirstBatch(review.left) # {}
                             /\ FirstBatch(review.left) \intersect reviewed = {}
                             /\ snapshot'.cursor > snapshot.cursor]_reviewVars
  BY ReviewsAreOrderly
<1> QED
  BY <1>1, <1>2, <1>3, ReviewInitInv, ReviewNextInv, PTL DEF ReviewSpec, OrderlyReviews

-----------------------------------------------------------------------------
(* What users are told.                                                    *)
Values == {"none", "open", "resolved", "pending", "completed"}
Entry == [domain : Domains \union {"notice"}, value : Values, rev : Nat]
Edge == [to : {"page", "channel"}, edge : Values]

(* Of a sequence: is there an element of the kind, and is the last of the   *)
(* kind a good one?                                                         *)
Has(kind, s) == \E i \in DOMAIN s : s[i] \in kind
LastIn(kind, good, s) ==
  \E i \in DOMAIN s : s[i] \in kind /\ s[i] \in good /\ \A j \in DOMAIN s : j > i => s[j] \notin kind

Of(domain) == {e \in Entry : e.domain = domain}
Worth(value) == {e \in Entry : e.value = value}
ToChannel == {e \in Edge : e.to = "channel"}
Tells(edge) == {e \in Edge : e.edge = edge}

PagesTypes ==
  /\ data = [incident |-> data.incident, breakbeat |-> data.breakbeat]
  /\ data.incident \in Values
  /\ data.breakbeat \in Values
  /\ reviewing \in {"none", "tick", "hand"}
  /\ untold \in BOOLEAN
  /\ online \in BOOLEAN
  /\ revision \in Nat
  /\ outbox \in Seq(Edge)
PageTypes ==
  /\ page = [on |-> page.on, first |-> page.first, queue |-> page.queue, shows |-> page.shows]
  /\ page.on \in BOOLEAN
  /\ page.first \in Seq(Entry)
  /\ page.queue \in Seq(Entry)
  /\ page.shows = [d \in Domains |-> page.shows[d]]

(* What a page will show of a domain when it has read all it got.           *)
WillShow(d, first, queue, shown, value) ==
  /\ Has(Of(d), queue) => LastIn(Of(d), Worth(value), queue)
  /\ ~Has(Of(d), queue) /\ Has(Of(d), first) => LastIn(Of(d), Worth(value), first)
  /\ ~Has(Of(d), queue) /\ ~Has(Of(d), first) => shown = value

PageFollows ==
  page.on => \A d \in Domains :
    \/ WillShow(d, page.first, page.queue, page.shows[d].value, data[d])
    \/ d \in stale
    \/ d = "breakbeat" /\ Reviewing
PageRests == ~page.on => page.first = <<>> /\ page.queue = <<>>

(* What the recipient will be told last.                                    *)
RecipientFollows ==
  ~untold => /\ Has(ToChannel, outbox) => LastIn(ToChannel, Tells(data.incident), outbox)
             /\ ~Has(ToChannel, outbox) => told = data.incident

PagesInv ==
  /\ PagesTypes
  /\ PageTypes
  /\ PageFollows
  /\ PageRests
  /\ RecipientFollows

-----------------------------------------------------------------------------
(* Of a sequence that grows at its end.                                     *)
LEMMA AppendTells ==
  ASSUME NEW S, NEW s \in Seq(S), NEW e \in S, NEW kind, NEW good
  PROVE  /\ e \in kind => Has(kind, Append(s, e))
         /\ e \in kind /\ e \in good => LastIn(kind, good, Append(s, e))
         /\ e \notin kind => (Has(kind, Append(s, e)) <=> Has(kind, s))
         /\ e \notin kind /\ LastIn(kind, good, s) => LastIn(kind, good, Append(s, e))
<1> DEFINE t == Append(s, e)
<1>1. /\ t \in Seq(S)
      /\ Len(t) = Len(s) + 1
      /\ t[Len(s) + 1] = e
      /\ \A i \in DOMAIN s : i \in DOMAIN t /\ t[i] = s[i]
      /\ DOMAIN s = 1..Len(s)
      /\ DOMAIN t = 1..(Len(s) + 1)
      /\ Len(s) \in Nat
  OBVIOUS
<1> HIDE DEF t
<1>2. \A i \in DOMAIN t : i = Len(s) + 1 \/ (i \in DOMAIN s /\ i < Len(s) + 1)
  BY <1>1
<1>3. Len(s) + 1 \in DOMAIN t /\ \A j \in DOMAIN t : ~(j > Len(s) + 1)
  BY <1>1
<1>4. e \in kind => Has(kind, t)
  BY <1>1, <1>3 DEF Has
<1>5. e \in kind /\ e \in good => LastIn(kind, good, t)
  BY <1>1, <1>3 DEF LastIn
<1>6. e \notin kind => (Has(kind, t) <=> Has(kind, s))
  BY <1>1, <1>2 DEF Has
<1>7. ASSUME e \notin kind, LastIn(kind, good, s)
      PROVE  LastIn(kind, good, t)
  <2>1. PICK i \in DOMAIN s : s[i] \in kind /\ s[i] \in good /\ \A j \in DOMAIN s : j > i => s[j] \notin kind
    BY <1>7 DEF LastIn
  <2>2. i \in DOMAIN t /\ t[i] = s[i]
    BY <1>1, <2>1
  <2>3. \A j \in DOMAIN t : j > i => t[j] \notin kind
    BY <1>1, <1>2, <1>7, <2>1
  <2> QED
    BY <2>1, <2>2, <2>3 DEF LastIn
<1> QED
  BY <1>4, <1>5, <1>6, <1>7 DEF t

(* Of a sequence of which the first is taken.                               *)
LEMMA TailTells ==
  ASSUME NEW S, NEW s \in Seq(S), s # <<>>, NEW kind, NEW good
  PROVE  /\ Has(kind, Tail(s)) => Has(kind, s)
         /\ Head(s) \notin kind => (Has(kind, Tail(s)) <=> Has(kind, s))
         /\ Head(s) \in kind => Has(kind, s)
         /\ LastIn(kind, good, s) /\ Has(kind, Tail(s)) => LastIn(kind, good, Tail(s))
         /\ LastIn(kind, good, s) /\ ~Has(kind, Tail(s)) => Head(s) \in good
<1> DEFINE t == Tail(s)
<1>1. /\ t \in Seq(S)
      /\ Len(t) = Len(s) - 1
      /\ Len(s) \in Nat \ {0}
      /\ \A i \in 1..Len(t) : t[i] = s[i + 1]
      /\ DOMAIN s = 1..Len(s)
      /\ DOMAIN t = 1..Len(t)
      /\ Head(s) = s[1]
  OBVIOUS
<1> HIDE DEF t
<1>2. \A i \in DOMAIN t : i + 1 \in DOMAIN s /\ s[i + 1] = t[i]
  BY <1>1
<1>3. \A i \in DOMAIN s : i = 1 \/ (i - 1 \in DOMAIN t /\ t[i - 1] = s[i])
  BY <1>1
<1>4. 1 \in DOMAIN s
  BY <1>1
<1>5. Has(kind, t) => Has(kind, s)
  BY <1>2 DEF Has
<1>6. Head(s) \notin kind => (Has(kind, t) <=> Has(kind, s))
  BY <1>1, <1>2, <1>3 DEF Has
<1>7. Head(s) \in kind => Has(kind, s)
  BY <1>1, <1>4 DEF Has
<1>8. ASSUME LastIn(kind, good, s)
      PROVE  /\ Has(kind, t) => LastIn(kind, good, t)
             /\ ~Has(kind, t) => Head(s) \in good
  <2>1. PICK i \in DOMAIN s : s[i] \in kind /\ s[i] \in good /\ \A j \in DOMAIN s : j > i => s[j] \notin kind
    BY <1>8 DEF LastIn
  <2>2. CASE i = 1
    <3>1. \A j \in DOMAIN t : t[j] \notin kind
      BY <1>1, <1>2, <2>1, <2>2
    <3> QED
      BY <1>1, <2>1, <2>2, <3>1 DEF Has
  <2>3. CASE i # 1
    <3>1. i - 1 \in DOMAIN t /\ t[i - 1] = s[i]
      BY <1>3, <2>3
    <3>2. \A j \in DOMAIN t : j > i - 1 => t[j] \notin kind
      BY <1>1, <1>2, <2>1
    <3>3. LastIn(kind, good, t)
      BY <2>1, <3>1, <3>2 DEF LastIn
    <3>4. Has(kind, t)
      BY <2>1, <3>1 DEF Has
    <3> QED
      BY <3>3, <3>4
  <2> QED
    BY <2>2, <2>3
<1> QED
  BY <1>5, <1>6, <1>7, <1>8 DEF t

LEMMA EmptyTells ==
  ASSUME NEW kind
  PROVE  ~Has(kind, <<>>)
<1>1. DOMAIN <<>> = {}
  OBVIOUS
<1> QED
  BY <1>1 DEF Has

(* Of two sequences read one after the other.                               *)
LEMMA BothTell ==
  ASSUME NEW S, NEW s \in Seq(S), NEW t \in Seq(S)
  PROVE  /\ s # <<>> => Head(s \o t) = Head(s)
         /\ s = <<>> => s \o t = t
         /\ s \o t = <<>> => s = <<>> /\ t = <<>>
         /\ s \o t \in Seq(S)
         /\ \A i \in DOMAIN s : i \in DOMAIN (s \o t) /\ (s \o t)[i] = s[i]
         /\ \A i \in DOMAIN t : i + Len(s) \in DOMAIN (s \o t) /\ (s \o t)[i + Len(s)] = t[i]
<1> DEFINE u == s \o t
<1>1. /\ Len(s) \in Nat /\ Len(t) \in Nat
      /\ u \in Seq(S)
      /\ Len(u) = Len(s) + Len(t)
      /\ DOMAIN u = 1..Len(u)
      /\ DOMAIN s = 1..Len(s)
      /\ DOMAIN t = 1..Len(t)
  OBVIOUS
<1>2. \A i \in 1..Len(s) : u[i] = s[i]
  OBVIOUS
<1>3. \A i \in 1..Len(t) : u[i + Len(s)] = t[i]
  OBVIOUS
<1>4. s = <<>> => u = t
  OBVIOUS
<1> HIDE DEF u
<1>5. s # <<>> => Head(u) = Head(s)
  <2> SUFFICES ASSUME s # <<>>
               PROVE  Head(u) = Head(s)
    OBVIOUS
  <2>1. Len(s) \in Nat \ {0} /\ Head(s) = s[1]
    OBVIOUS
  <2>2. u # <<>> /\ Head(u) = u[1]
    BY <1>1, <2>1
  <2> QED
    BY <1>2, <2>1, <2>2
<1>6. \A i \in DOMAIN s : i \in DOMAIN u /\ u[i] = s[i]
  BY <1>1, <1>2
<1>7. \A i \in DOMAIN t : i + Len(s) \in DOMAIN u /\ u[i + Len(s)] = t[i]
  BY <1>1, <1>3
<1>8. u = <<>> => s = <<>> /\ t = <<>>
  <2>1. /\ s # <<>> => Len(s) \in Nat \ {0}
        /\ t # <<>> => Len(t) \in Nat \ {0}
    OBVIOUS
  <2>2. Len(<<>>) = 0
    OBVIOUS
  <2> QED
    BY <1>1, <2>1, <2>2
<1> QED
  BY <1>1, <1>4, <1>5, <1>6, <1>7, <1>8 DEF u

(* Of a sequence that two elements are added to at once.                    *)
LEMMA TwoMore ==
  ASSUME NEW S, NEW s \in Seq(S), NEW a \in S, NEW b \in S, NEW kind, NEW good, b \in kind, b \in good
  PROVE  /\ s \o <<a, b>> \in Seq(S)
         /\ LastIn(kind, good, s \o <<a, b>>)
<1> DEFINE t == s \o <<a, b>>
<1>1. /\ t \in Seq(S)
      /\ Len(t) = Len(s) + 2
      /\ t[Len(s) + 2] = b
      /\ DOMAIN t = 1..Len(t)
      /\ Len(s) \in Nat
  <2>1. <<a, b>> \in Seq(S) /\ Len(<<a, b>>) = 2 /\ <<a, b>>[2] = b
    OBVIOUS
  <2> QED
    BY <2>1
<1> HIDE DEF t
<1>2. Len(s) + 2 \in DOMAIN t /\ \A j \in DOMAIN t : ~(j > Len(s) + 2)
  BY <1>1
<1>3. LastIn(kind, good, t)
  BY <1>1, <1>2 DEF LastIn
<1> QED
  BY <1>1, <1>3 DEF t

-----------------------------------------------------------------------------
(* An entry is pushed on the queue of a page.                               *)
LEMMA PushedIsQueue ==
  ASSUME NEW queue \in Seq(Entry), NEW e \in Entry
  PROVE  /\ Len(queue) > PageLimit => queue # <<>>
         /\ Pushed(queue, e) \in Seq(Entry)
<1>1. Len(queue) > PageLimit => queue # <<>>
  <2>1. Len(<<>>) = 0
    OBVIOUS
  <2> QED
    BY <2>1, PagesAssumption
<1>2. (IF Len(queue) > PageLimit THEN Tail(queue) ELSE queue) \in Seq(Entry)
  BY <1>1
<1> QED
  BY <1>1, <1>2 DEF Pushed

LEMMA PushedKeeps ==
  ASSUME NEW queue \in Seq(Entry), NEW e \in Entry, NEW d \in Domains, NEW first, NEW shown, NEW value
  PROVE  /\ e \in Of(d) /\ e \in Worth(value) => WillShow(d, first, Pushed(queue, e), shown, value)
         /\ e \notin Of(d) /\ WillShow(d, first, queue, shown, value)
              => WillShow(d, first, Pushed(queue, e), shown, value) \/ d \in Dropped(queue)
<1> DEFINE rest == IF Len(queue) > PageLimit THEN Tail(queue) ELSE queue
<1>1. Len(queue) > PageLimit => queue # <<>>
  BY PushedIsQueue
<1>2. rest \in Seq(Entry)
  BY <1>1
<1>3. Pushed(queue, e) = Append(rest, e)
  BY DEF Pushed
<1>5. ASSUME e \in Of(d), e \in Worth(value)
      PROVE  WillShow(d, first, Pushed(queue, e), shown, value)
  <2> HIDE DEF rest
  <2>1. Has(Of(d), Append(rest, e)) /\ LastIn(Of(d), Worth(value), Append(rest, e))
    BY <1>2, <1>5, AppendTells
  <2> QED
    BY <1>3, <2>1 DEF WillShow
<1>6. ASSUME e \notin Of(d), WillShow(d, first, queue, shown, value), d \notin Dropped(queue)
      PROVE  WillShow(d, first, Pushed(queue, e), shown, value)
  <2>1. WillShow(d, first, rest, shown, value)
    <3>1. CASE Len(queue) > PageLimit
      <4>1. Head(queue) \notin Of(d)
        BY <1>6, <3>1 DEF Dropped, Of
      <4>2. /\ Has(Of(d), Tail(queue)) <=> Has(Of(d), queue)
            /\ LastIn(Of(d), Worth(value), queue) /\ Has(Of(d), Tail(queue))
                 => LastIn(Of(d), Worth(value), Tail(queue))
        BY <1>1, <3>1, <4>1, TailTells
      <4>3. rest = Tail(queue)
        BY <3>1
      <4> HIDE DEF rest
      <4> QED
        BY <1>6, <4>2, <4>3 DEF WillShow
    <3>2. CASE ~(Len(queue) > PageLimit)
      BY <1>6, <3>2
    <3> QED
      BY <3>1, <3>2
  <2> HIDE DEF rest
  <2>2. /\ Has(Of(d), Append(rest, e)) <=> Has(Of(d), rest)
        /\ LastIn(Of(d), Worth(value), rest) => LastIn(Of(d), Worth(value), Append(rest, e))
    BY <1>2, <1>6, AppendTells
  <2> QED
    BY <1>3, <2>1, <2>2 DEF WillShow
<1> QED
  BY <1>5, <1>6

(* What a page keeps of a broadcast, of one entry and of two: it is as it   *)
(* was but for its queue, and follows what the last entry of a domain says. *)
Kept(p, q) ==
  /\ q = [on |-> p.on, first |-> p.first, queue |-> q.queue, shows |-> p.shows]
  /\ q.queue \in Seq(Entry)
  /\ ~p.on => q.queue = p.queue
Follows(p, missed, d, value) ==
  WillShow(d, p.first, p.queue, p.shows[d].value, value) \/ d \in missed

LEMMA BroadcastKeeps ==
  ASSUME PageTypes, NEW e \in Entry, Broadcast(e)
  PROVE  /\ Kept(page, page')
         /\ \A value : \A d \in Domains : page.on =>
              /\ e \in Of(d) /\ e \in Worth(value) => Follows(page', stale', d, value)
              /\ e \notin Of(d) /\ Follows(page, stale, d, value) => Follows(page', stale', d, value)
<1> USE DEF PageTypes
<1>1. CASE page.on
  <2>1. /\ page' = [on |-> page.on, first |-> page.first, queue |-> Pushed(page.queue, e), shows |-> page.shows]
        /\ stale' = stale \cup (Dropped(page.queue) \cap Domains)
    BY <1>1 DEF Broadcast
  <2>2. Pushed(page.queue, e) \in Seq(Entry)
    BY PushedIsQueue
  <2>3. Kept(page, page')
    BY <1>1, <2>1, <2>2 DEF Kept
  <2>4. ASSUME NEW d \in Domains, NEW value
        PROVE  /\ e \in Of(d) /\ e \in Worth(value) => Follows(page', stale', d, value)
               /\ e \notin Of(d) /\ Follows(page, stale, d, value) => Follows(page', stale', d, value)
    <3>1. /\ e \in Of(d) /\ e \in Worth(value)
              => WillShow(d, page.first, Pushed(page.queue, e), page.shows[d].value, value)
          /\ e \notin Of(d) /\ WillShow(d, page.first, page.queue, page.shows[d].value, value)
              => \/ WillShow(d, page.first, Pushed(page.queue, e), page.shows[d].value, value)
                 \/ d \in Dropped(page.queue)
      BY PushedKeeps
    <3> QED
      BY <2>1, <3>1 DEF Follows
  <2> QED
    BY <2>3, <2>4
<1>2. CASE ~page.on
  BY <1>2 DEF Broadcast, Kept
<1> QED
  BY <1>1, <1>2

LEMMA BroadcastTwoKeeps ==
  ASSUME PageTypes, NEW e \in Entry, NEW f \in Entry, BroadcastTwo(e, f)
  PROVE  /\ Kept(page, page')
         /\ \A value : \A d \in Domains : page.on =>
              /\ f \in Of(d) /\ f \in Worth(value) => Follows(page', stale', d, value)
              /\ e \in Of(d) /\ e \in Worth(value) /\ f \notin Of(d) => Follows(page', stale', d, value)
              /\ e \notin Of(d) /\ f \notin Of(d) /\ Follows(page, stale, d, value)
                   => Follows(page', stale', d, value)
<1> USE DEF PageTypes
<1>1. CASE page.on
  <2> DEFINE once == Pushed(page.queue, e)
             twice == Pushed(once, f)
  <2>1. /\ page' = [on |-> page.on, first |-> page.first, queue |-> twice, shows |-> page.shows]
        /\ stale' = stale \cup ((Dropped(page.queue) \cup Dropped(once)) \cap Domains)
    BY <1>1 DEF BroadcastTwo
  <2>2. once \in Seq(Entry)
    BY PushedIsQueue
  <2>3. ASSUME NEW d \in Domains, NEW value
        PROVE  /\ e \in Of(d) /\ e \in Worth(value)
                    => WillShow(d, page.first, once, page.shows[d].value, value)
               /\ e \notin Of(d) /\ WillShow(d, page.first, page.queue, page.shows[d].value, value)
                    => WillShow(d, page.first, once, page.shows[d].value, value) \/ d \in Dropped(page.queue)
    BY <2>3, PushedKeeps
  <2> HIDE DEF once
  <2>4. twice \in Seq(Entry)
    BY <2>2, PushedIsQueue
  <2>5. ASSUME NEW d \in Domains, NEW value
        PROVE  /\ f \in Of(d) /\ f \in Worth(value)
                    => WillShow(d, page.first, twice, page.shows[d].value, value)
               /\ f \notin Of(d) /\ WillShow(d, page.first, once, page.shows[d].value, value)
                    => WillShow(d, page.first, twice, page.shows[d].value, value) \/ d \in Dropped(once)
    BY <2>2, <2>5, PushedKeeps
  <2> HIDE DEF twice
  <2>6. Kept(page, page')
    BY <1>1, <2>1, <2>4 DEF Kept
  <2>7. ASSUME NEW d \in Domains, NEW value
        PROVE  /\ f \in Of(d) /\ f \in Worth(value) => Follows(page', stale', d, value)
               /\ e \in Of(d) /\ e \in Worth(value) /\ f \notin Of(d) => Follows(page', stale', d, value)
               /\ e \notin Of(d) /\ f \notin Of(d) /\ Follows(page, stale, d, value)
                   => Follows(page', stale', d, value)
    BY <2>1, <2>3, <2>5 DEF Follows
  <2> QED
    BY <2>6, <2>7
<1>2. CASE ~page.on
  BY <1>2 DEF BroadcastTwo, Kept
<1> QED
  BY <1>1, <1>2

(* What the page half of the invariant needs of a step that only pushes.    *)
LEMMA PagesAsBefore ==
  ASSUME PageTypes, PageRests, Kept(page, page'),
         page.on => \A d \in Domains : Follows(page', stale', d, data'[d]) \/ (d = "breakbeat" /\ Reviewing')
  PROVE  PageTypes' /\ PageFollows' /\ PageRests'
<1>1. /\ page'.on = page.on /\ page'.first = page.first /\ page'.shows = page.shows
      /\ page'.queue \in Seq(Entry) /\ (~page.on => page'.queue = page.queue)
      /\ page' = [on |-> page'.on, first |-> page'.first, queue |-> page'.queue, shows |-> page'.shows]
  BY DEF Kept
<1>2. PageTypes'
  BY <1>1 DEF PageTypes
<1>3. PageFollows'
  BY <1>1 DEF PageFollows, Follows
<1>4. PageRests'
  BY <1>1 DEF PageRests
<1> QED
  BY <1>1, <1>2, <1>3, <1>4

(* A snapshot is of its domain, and of no other.                            *)
LEMMA SnapshotIs ==
  ASSUME NEW d \in Domains, NEW files, files[d] \in Values, NEW r \in Nat
  PROVE  /\ Snapshot(d, files, r) \in Entry
         /\ Snapshot(d, files, r) \in Of(d)
         /\ Snapshot(d, files, r) \in Worth(files[d])
         /\ \A other \in Domains : other # d => Snapshot(d, files, r) \notin Of(other)
<1>1. Snapshot(d, files, r) \in Entry
  BY DEF Snapshot, Entry
<1> QED
  BY <1>1 DEF Snapshot, Of, Worth

LEMMA NoticeIs ==
  /\ Notice \in Entry
  /\ \A d \in Domains : Notice \notin Of(d)
<1>1. Notice \in Entry
  BY DEF Notice, Entry, Values
<1> QED
  BY <1>1 DEF Notice, Of, Domains

(* One snapshot of a domain is broadcast, with what its file holds now.     *)
LEMMA PublishedFollows ==
  ASSUME PageTypes, PageFollows, PageRests, NEW domain \in Domains, NEW files, NEW r \in Nat,
         files[domain] \in Values, files[domain] = data'[domain],
         Broadcast(Snapshot(domain, files, r)),
         \A d \in Domains : d # domain => data'[d] = data[d],
         domain = "incident" => reviewing' = reviewing
  PROVE  PageTypes' /\ PageFollows' /\ PageRests'
<1> DEFINE e == Snapshot(domain, files, r)
<1>1. /\ e \in Entry
      /\ e \in Of(domain)
      /\ e \in Worth(data'[domain])
      /\ \A other \in Domains : other # domain => e \notin Of(other)
  BY SnapshotIs
<1>2. Broadcast(e)
  OBVIOUS
<1> HIDE DEF e
<1>3. /\ Kept(page, page')
      /\ \A value : \A d \in Domains : page.on =>
           /\ e \in Of(d) /\ e \in Worth(value) => Follows(page', stale', d, value)
           /\ e \notin Of(d) /\ Follows(page, stale, d, value) => Follows(page', stale', d, value)
  BY <1>1, <1>2, BroadcastKeeps
<1>4. ASSUME page.on, NEW d \in Domains
      PROVE  Follows(page', stale', d, data'[d]) \/ (d = "breakbeat" /\ Reviewing')
  <2>1. CASE d = domain
    BY <1>1, <1>3, <1>4, <2>1
  <2>2. CASE d # domain
    <3>1. Follows(page, stale, d, data[d]) \/ (d = "breakbeat" /\ Reviewing)
      BY <1>4 DEF PageFollows, Follows
    <3>2. d = "breakbeat" => reviewing' = reviewing
      BY <2>2 DEF Domains
    <3> QED
      BY <1>1, <1>3, <1>4, <2>2, <3>1, <3>2 DEF Reviewing
  <2> QED
    BY <2>1, <2>2
<1> QED
  BY <1>3, <1>4, PagesAsBefore

(* Two entries of one domain, or a notice and a snapshot, or a snapshot of  *)
(* each domain: what the second tells of, and the first if it is of another *)
(* domain, is followed.                                                     *)
LEMMA PublishedTwiceFollows ==
  ASSUME PageTypes, PageFollows, PageRests, NEW e \in Entry, NEW f \in Entry, BroadcastTwo(e, f),
         reviewing' = reviewing,
         \A d \in Domains :
           \/ f \in Of(d) /\ f \in Worth(data'[d])
           \/ f \notin Of(d) /\ e \in Of(d) /\ e \in Worth(data'[d])
           \/ f \notin Of(d) /\ e \notin Of(d) /\ data'[d] = data[d]
  PROVE  PageTypes' /\ PageFollows' /\ PageRests'
<1>1. /\ Kept(page, page')
      /\ \A value : \A d \in Domains : page.on =>
           /\ f \in Of(d) /\ f \in Worth(value) => Follows(page', stale', d, value)
           /\ e \in Of(d) /\ e \in Worth(value) /\ f \notin Of(d) => Follows(page', stale', d, value)
           /\ e \notin Of(d) /\ f \notin Of(d) /\ Follows(page, stale, d, value)
                   => Follows(page', stale', d, value)
  BY BroadcastTwoKeeps
<1>2. ASSUME page.on, NEW d \in Domains
      PROVE  Follows(page', stale', d, data'[d]) \/ (d = "breakbeat" /\ Reviewing')
  <2>1. Follows(page, stale, d, data[d]) \/ (d = "breakbeat" /\ Reviewing)
    BY <1>2 DEF PageFollows, Follows
  <2> QED
    BY <1>1, <1>2, <2>1 DEF Reviewing
<1> QED
  BY <1>1, <1>2, PagesAsBefore

(* Nothing is sent to the page, and the files it is up to date with or      *)
(* excused from stay.                                                       *)
LEMMA PageUntouched ==
  ASSUME PageTypes, PageFollows, PageRests, page' = page, stale \subseteq stale',
         \A d \in Domains : data'[d] = data[d] \/ d \in stale' \/ (d = "breakbeat" /\ Reviewing'),
         Reviewing => Reviewing' \/ "breakbeat" \in stale'
  PROVE  PageTypes' /\ PageFollows' /\ PageRests'
<1>1. PageTypes'
  BY DEF PageTypes
<1>2. PageRests'
  BY DEF PageRests
<1>3. PageFollows'
  BY DEF PageFollows
<1> QED
  BY <1>1, <1>2, <1>3

-----------------------------------------------------------------------------
(* The recipient on another channel: an edge of the incident is noticed, or *)
(* it is not.                                                               *)
LEMMA NoticesTell ==
  ASSUME PagesTypes, NEW edge \in Values, Notices(edge), data'.incident = edge
  PROVE  outbox' \in Seq(Edge) /\ untold' \in BOOLEAN /\ RecipientFollows'
<1> DEFINE a == [to |-> "page", edge |-> edge]
           b == [to |-> "channel", edge |-> edge]
<1>1. a \in Edge /\ b \in Edge /\ b \in ToChannel /\ b \in Tells(edge)
  BY DEF Edge, ToChannel, Tells
<1>2. untold' = (untold \/ ~online)
  BY DEF Notices
<1>3. untold' \in BOOLEAN
  BY <1>2 DEF PagesTypes
<1>4. CASE online
  <2>1. outbox' = outbox \o <<a, b>>
    BY <1>4 DEF Notices
  <2> HIDE DEF a, b
  <2>2. outbox' \in Seq(Edge) /\ LastIn(ToChannel, Tells(edge), outbox')
    BY <1>1, <2>1, TwoMore DEF PagesTypes
  <2>3. Has(ToChannel, outbox')
    BY <2>2 DEF Has, LastIn
  <2> QED
    BY <1>3, <2>2, <2>3 DEF RecipientFollows
<1>5. CASE ~online
  <2>1. outbox' = outbox \o <<a>>
    <3>1. Head(<<a, b>>) = a
      OBVIOUS
    <3>2. outbox' = outbox \o <<Head(<<a, b>>)>>
      BY <1>5 DEF Notices
    <3> HIDE DEF a, b
    <3> QED
      BY <3>1, <3>2
  <2> HIDE DEF a, b
  <2>2. <<a>> \in Seq(Edge)
    BY <1>1
  <2>3. outbox' \in Seq(Edge)
    BY <2>1, <2>2 DEF PagesTypes
  <2> QED
    BY <1>2, <1>3, <1>5, <2>3 DEF RecipientFollows
<1> QED
  BY <1>4, <1>5 DEF PagesTypes

LEMMA RecipientUntouched ==
  ASSUME PagesTypes, RecipientFollows, outbox' = outbox, told' = told,
         untold' = TRUE \/ (untold' = untold /\ data'.incident = data.incident)
  PROVE  outbox' \in Seq(Edge) /\ untold' \in BOOLEAN /\ RecipientFollows'
<1>1. CASE untold' = TRUE
  BY <1>1 DEF PagesTypes, RecipientFollows
<1>2. CASE untold' = untold /\ data'.incident = data.incident
  BY <1>2 DEF PagesTypes, RecipientFollows
<1> QED
  BY <1>1, <1>2

(* The first notice of the outbound bus is taken, and it was not for the    *)
(* recipient, or it was and it is told or missed it.                        *)
LEMMA OutboxTaken ==
  ASSUME PagesTypes, RecipientFollows, outbox # <<>>, outbox' = Tail(outbox), data' = data, untold' \in BOOLEAN,
         \/ Head(outbox).to = "page" /\ told' = told /\ untold' = untold
         \/ untold' = TRUE
         \/ /\ Head(outbox).to = "channel" /\ told' = Head(outbox).edge
            /\ ~untold' => ~untold \/ (told' = data.incident /\ ForChannel = {1})
  PROVE  outbox' \in Seq(Edge) /\ RecipientFollows'
<1>1. outbox \in Seq(Edge) /\ Head(outbox) \in Edge /\ Tail(outbox) \in Seq(Edge)
  BY DEF PagesTypes
<1>2. /\ Head(outbox) \notin ToChannel => (Has(ToChannel, Tail(outbox)) <=> Has(ToChannel, outbox))
      /\ Head(outbox) \in ToChannel => Has(ToChannel, outbox)
      /\ LastIn(ToChannel, Tells(data.incident), outbox) /\ Has(ToChannel, Tail(outbox))
           => LastIn(ToChannel, Tells(data.incident), Tail(outbox))
      /\ LastIn(ToChannel, Tells(data.incident), outbox) /\ ~Has(ToChannel, Tail(outbox))
           => Head(outbox) \in Tells(data.incident)
  BY <1>1, TailTells
<1>3. CASE Head(outbox).to = "page" /\ told' = told /\ untold' = untold
  <2>1. Head(outbox) \notin ToChannel
    BY <1>3 DEF ToChannel
  <2> QED
    BY <1>1, <1>2, <1>3, <2>1 DEF RecipientFollows
<1>4. CASE untold' = TRUE
  BY <1>1, <1>4 DEF RecipientFollows
<1>5. CASE /\ Head(outbox).to = "channel" /\ told' = Head(outbox).edge
           /\ ~untold' => ~untold \/ (told' = data.incident /\ ForChannel = {1})
  <2>1. Head(outbox) \in ToChannel
    BY <1>1, <1>5 DEF ToChannel
  <2>2. ASSUME ~untold
        PROVE  /\ Has(ToChannel, outbox') => LastIn(ToChannel, Tells(data'.incident), outbox')
               /\ ~Has(ToChannel, outbox') => told' = data'.incident
    <3>1. LastIn(ToChannel, Tells(data.incident), outbox)
      BY <1>2, <2>1, <2>2 DEF RecipientFollows
    <3> QED
      BY <1>2, <1>5, <3>1 DEF Tells
  <2>3. ASSUME told' = data.incident, ForChannel = {1}
        PROVE  ~Has(ToChannel, outbox') /\ told' = data'.incident
    <3>1. \A i \in DOMAIN Tail(outbox) : i + 1 \in DOMAIN outbox /\ outbox[i + 1] = Tail(outbox)[i] /\ i + 1 # 1
      BY <1>1
    <3>2. \A i \in DOMAIN outbox : i # 1 => outbox[i].to # "channel"
      BY <2>3 DEF ForChannel
    <3>3. \A i \in DOMAIN Tail(outbox) : Tail(outbox)[i] \notin ToChannel
      BY <3>1, <3>2 DEF ToChannel
    <3> QED
      BY <2>3, <3>3 DEF Has
  <2> QED
    BY <1>1, <1>5, <2>2, <2>3 DEF RecipientFollows
<1> QED
  BY <1>3, <1>4, <1>5

-----------------------------------------------------------------------------
(* The page reads one entry: a snapshot it was sent when it connected, or   *)
(* the oldest of its queue.                                                 *)
LEMMA ReadKeeps ==
  ASSUME PagesTypes, PageTypes, PageFollows, PageRests, PageReads
  PROVE  PageTypes' /\ PageFollows' /\ PageRests'
<1> DEFINE entry == Head(page.first \o page.queue)
           rest == IF page.first # <<>> THEN [page EXCEPT !.first = Tail(@)]
                   ELSE [page EXCEPT !.queue = Tail(@)]
           coming == {(rest.first \o rest.queue)[i].domain : i \in DOMAIN (rest.first \o rest.queue)}
<1>1. /\ page.on /\ page.first \o page.queue # <<>>
      /\ data' = data /\ reviewing' = reviewing
  BY DEF PageReads
<1>2. IF entry.domain \notin Domains THEN page' = rest /\ UNCHANGED stale
      ELSE IF ~IsNewer(entry) THEN page' = rest /\ stale' = stale \cup {entry.domain}
      ELSE /\ page' = [rest EXCEPT !.shows[entry.domain] = [value |-> entry.value, rev |-> entry.rev]]
           /\ stale' = IF entry.value = data[entry.domain] /\ entry.domain \notin coming
                       THEN stale \ {entry.domain} ELSE stale
  BY DEF PageReads
<1>3. page.first \in Seq(Entry) /\ page.queue \in Seq(Entry)
  BY DEF PageTypes
<1>4. /\ page.first # <<>> =>
           /\ entry = Head(page.first)
           /\ rest = [on |-> page.on, first |-> Tail(page.first), queue |-> page.queue, shows |-> page.shows]
      /\ page.first = <<>> =>
           /\ page.queue # <<>> /\ entry = Head(page.queue)
           /\ rest = [on |-> page.on, first |-> <<>>, queue |-> Tail(page.queue), shows |-> page.shows]
  <2>1. CASE page.first # <<>>
    <3>1. entry = Head(page.first)
      <4>1. \A s, t \in Seq(Entry) : s # <<>> => Head(s \o t) = Head(s)
        BY BothTell
      <4> QED
        BY <1>3, <2>1, <4>1
    <3> QED
      BY <2>1, <3>1 DEF PageTypes
  <2>2. CASE page.first = <<>>
    <3>1. page.first \o page.queue = page.queue
      BY <1>3, <2>2, BothTell
    <3>2. rest = [page EXCEPT !.queue = Tail(@)]
      BY <2>2
    <3> QED
      BY <1>1, <2>2, <3>1, <3>2 DEF PageTypes
  <2> QED
    BY <2>1, <2>2
<1>5. /\ rest = [on |-> page.on, first |-> rest.first, queue |-> rest.queue, shows |-> page.shows]
      /\ rest.first \in Seq(Entry) /\ rest.queue \in Seq(Entry)
      /\ entry \in Entry
      /\ rest.on = page.on /\ rest.shows = page.shows
  <2> HIDE DEF entry, rest
  <2>1. CASE page.first # <<>>
    <3>1. Tail(page.first) \in Seq(Entry) /\ Head(page.first) \in Entry
      BY <1>3, <2>1
    <3>2. /\ entry = Head(page.first)
          /\ rest = [on |-> page.on, first |-> Tail(page.first), queue |-> page.queue, shows |-> page.shows]
      BY <1>4, <2>1
    <3>3. rest.on = page.on /\ rest.first = Tail(page.first) /\ rest.queue = page.queue /\ rest.shows = page.shows
      BY <3>2
    <3> QED
      BY <1>3, <3>1, <3>2, <3>3
  <2>2. CASE page.first = <<>>
    <3>1. page.queue # <<>>
      BY <1>4, <2>2
    <3>2. Tail(page.queue) \in Seq(Entry) /\ Head(page.queue) \in Entry
      BY <1>3, <3>1
    <3>3. <<>> \in Seq(Entry)
      OBVIOUS
    <3>4. /\ entry = Head(page.queue)
          /\ rest = [on |-> page.on, first |-> <<>>, queue |-> Tail(page.queue), shows |-> page.shows]
      BY <1>4, <2>2
    <3>5. rest.on = page.on /\ rest.first = <<>> /\ rest.queue = Tail(page.queue) /\ rest.shows = page.shows
      BY <3>4
    <3> QED
      BY <3>2, <3>3, <3>4, <3>5
  <2> QED
    BY <2>1, <2>2
(* What is still to come of a domain.                                       *)
<1>6. ASSUME NEW d \in Domains, Has(Of(d), rest.first) \/ Has(Of(d), rest.queue)
      PROVE  d \in coming
  <2> HIDE DEF entry, rest
  <2> DEFINE both == rest.first \o rest.queue
  <2>1. rest.first \in Seq(Entry) /\ rest.queue \in Seq(Entry)
    BY <1>5
  <2>2. \A s, t \in Seq(Entry) :
          /\ s \o t \in Seq(Entry)
          /\ \A i \in DOMAIN s : i \in DOMAIN (s \o t) /\ (s \o t)[i] = s[i]
          /\ \A i \in DOMAIN t : i + Len(s) \in DOMAIN (s \o t) /\ (s \o t)[i + Len(s)] = t[i]
    BY BothTell
  <2>3. /\ both \in Seq(Entry)
        /\ \A i \in DOMAIN rest.first : i \in DOMAIN both /\ both[i] = rest.first[i]
        /\ \A i \in DOMAIN rest.queue :
             i + Len(rest.first) \in DOMAIN both /\ both[i + Len(rest.first)] = rest.queue[i]
    BY <2>1, <2>2
  <2>4. coming = {both[i].domain : i \in DOMAIN both}
    OBVIOUS
  <2> HIDE DEF both, coming
  <2>5. \E i \in DOMAIN both : both[i] \in Of(d)
    BY <1>6, <2>3 DEF Has
  <2> QED
    BY <2>4, <2>5 DEF Of
(* A domain of which the page read something, and the others.               *)
<1>7. ASSUME NEW d \in Domains, NEW value, WillShow(d, page.first, page.queue, page.shows[d].value, value)
      PROVE  /\ entry \notin Of(d) => WillShow(d, rest.first, rest.queue, page.shows[d].value, value)
             /\ entry \in Of(d) => WillShow(d, rest.first, rest.queue, entry.value, value)
  <2> HIDE DEF entry, rest, coming
  <2>1. CASE page.first # <<>>
    <3>1. /\ entry = Head(page.first)
          /\ rest = [on |-> page.on, first |-> Tail(page.first), queue |-> page.queue, shows |-> page.shows]
      BY <1>4, <2>1
    <3>2. rest.first = Tail(page.first) /\ rest.queue = page.queue /\ entry = Head(page.first)
      BY <3>1
    <3>3. /\ Head(page.first) \notin Of(d) => (Has(Of(d), Tail(page.first)) <=> Has(Of(d), page.first))
          /\ Head(page.first) \in Of(d) => Has(Of(d), page.first)
          /\ LastIn(Of(d), Worth(value), page.first) /\ Has(Of(d), Tail(page.first))
               => LastIn(Of(d), Worth(value), Tail(page.first))
          /\ LastIn(Of(d), Worth(value), page.first) /\ ~Has(Of(d), Tail(page.first))
               => Head(page.first) \in Worth(value)
          /\ Has(Of(d), Tail(page.first)) => Has(Of(d), page.first)
      BY <1>3, <2>1, TailTells
    <3> QED
      BY <1>7, <3>2, <3>3 DEF WillShow, Worth
  <2>2. CASE page.first = <<>>
    <3>1. rest.first = <<>> /\ rest.queue = Tail(page.queue) /\ entry = Head(page.queue) /\ page.queue # <<>>
      BY <1>4, <2>2
    <3>2. /\ Head(page.queue) \notin Of(d) => (Has(Of(d), Tail(page.queue)) <=> Has(Of(d), page.queue))
          /\ Head(page.queue) \in Of(d) => Has(Of(d), page.queue)
          /\ LastIn(Of(d), Worth(value), page.queue) /\ Has(Of(d), Tail(page.queue))
               => LastIn(Of(d), Worth(value), Tail(page.queue))
          /\ LastIn(Of(d), Worth(value), page.queue) /\ ~Has(Of(d), Tail(page.queue))
               => Head(page.queue) \in Worth(value)
          /\ Has(Of(d), Tail(page.queue)) => Has(Of(d), page.queue)
      BY <1>3, <3>1, TailTells
    <3>3. ~Has(Of(d), <<>>)
      BY EmptyTells
    <3> QED
      BY <1>7, <2>2, <3>1, <3>2, <3>3 DEF WillShow, Worth
  <2> QED
    BY <2>1, <2>2
<1>8. entry \in Entry /\ (\A d \in Domains : entry \in Of(d) <=> entry.domain = d)
  <2> HIDE DEF entry
  <2> QED
    BY <1>5 DEF Of
<1>9. /\ page'.on = page.on /\ page'.first = rest.first /\ page'.queue = rest.queue
      /\ page' = [on |-> page.on, first |-> rest.first, queue |-> rest.queue, shows |-> page'.shows]
      /\ page'.shows = [d \in Domains |-> page'.shows[d]]
      /\ \A d \in Domains :
           \/ entry.domain # d /\ page'.shows[d] = page.shows[d] /\ (d \in stale => d \in stale')
           \/ entry.domain = d /\ d \in stale'
           \/ /\ entry.domain = d /\ page'.shows[d].value = entry.value
              /\ (stale' = stale \/ (entry.value = data[d] /\ d \notin coming))
  <2>1. page.shows = [d \in Domains |-> page.shows[d]]
    BY DEF PageTypes
  <2> HIDE DEF entry, rest, coming
  <2>2. CASE entry.domain \notin Domains
    BY <1>2, <1>5, <2>1, <2>2
  <2>3. CASE entry.domain \in Domains /\ ~IsNewer(entry)
    BY <1>2, <1>5, <2>1, <2>3
  <2>4. CASE entry.domain \in Domains /\ IsNewer(entry)
    <3>1. page' = [rest EXCEPT !.shows[entry.domain] = [value |-> entry.value, rev |-> entry.rev]]
      BY <1>2, <2>4
    <3>2. stale' = IF entry.value = data[entry.domain] /\ entry.domain \notin coming
                   THEN stale \ {entry.domain} ELSE stale
      BY <1>2, <2>4
    <3>3. page' = [on |-> page.on, first |-> rest.first, queue |-> rest.queue,
                   shows |-> [page.shows EXCEPT ![entry.domain] = [value |-> entry.value, rev |-> entry.rev]]]
      BY <1>5, <3>1
    <3> QED
      BY <2>1, <2>4, <3>2, <3>3
  <2> QED
    BY <2>2, <2>3, <2>4
<1> HIDE DEF entry, rest, coming
<1>10. PageTypes'
  BY <1>5, <1>9 DEF PageTypes
<1>11. PageRests'
  BY <1>1, <1>9 DEF PageRests
<1>12. ASSUME NEW d \in Domains
       PROVE  WillShow(d, page'.first, page'.queue, page'.shows[d].value, data[d]) \/ d \in stale'
                \/ (d = "breakbeat" /\ Reviewing)
  <2>1. \/ WillShow(d, page.first, page.queue, page.shows[d].value, data[d])
        \/ d \in stale \/ (d = "breakbeat" /\ Reviewing)
    BY <1>1 DEF PageFollows
  <2>2. CASE entry.domain # d /\ page'.shows[d] = page.shows[d] /\ (d \in stale => d \in stale')
    BY <1>7, <1>8, <1>9, <2>1, <2>2
  <2>3. CASE entry.domain = d /\ page'.shows[d].value = entry.value /\ stale' = stale
    BY <1>7, <1>8, <1>9, <2>1, <2>3
  <2>4. CASE entry.domain = d /\ page'.shows[d].value = entry.value /\ entry.value = data[d] /\ d \notin coming
    <3>1. ~Has(Of(d), rest.first) /\ ~Has(Of(d), rest.queue)
      BY <1>6, <2>4
    <3> QED
      BY <1>9, <2>4, <3>1 DEF WillShow
  <2> QED
    BY <1>9, <2>2, <2>3, <2>4
<1> QED
  BY <1>1, <1>10, <1>11, <1>12 DEF PageFollows, Reviewing

-----------------------------------------------------------------------------
(* Each step, on both halves.                                               *)
LEMMA FilesChange ==
  ASSUME PagesTypes, NEW v \in Values, NEW d \in Domains, NEW new, new = [data EXCEPT ![d] = v]
  PROVE  /\ new[d] = v
         /\ \A other \in Domains : other # d => new[other] = data[other]
         /\ new = [incident |-> new.incident, breakbeat |-> new.breakbeat]
         /\ new.incident \in Values
         /\ new.breakbeat \in Values
<1>1. CASE d = "incident"
  <2>1. new = [incident |-> v, breakbeat |-> data.breakbeat]
    BY <1>1 DEF PagesTypes
  <2>2. new.incident = v /\ new.breakbeat = data.breakbeat
    BY <2>1
  <2>3. new["incident"] = v /\ new["breakbeat"] = data["breakbeat"]
    BY <2>2
  <2> QED
    BY <1>1, <2>1, <2>2, <2>3 DEF PagesTypes, Domains
<1>2. CASE d = "breakbeat"
  <2>1. new = [incident |-> data.incident, breakbeat |-> v]
    BY <1>2 DEF PagesTypes
  <2>2. new.breakbeat = v /\ new.incident = data.incident
    BY <2>1
  <2>3. new["breakbeat"] = v /\ new["incident"] = data["incident"]
    BY <2>2
  <2> QED
    BY <1>2, <2>1, <2>2, <2>3 DEF PagesTypes, Domains
<1> QED
  BY <1>1, <1>2 DEF Domains

LEMMA ReportsKeep ==
  ASSUME PagesInv, NEW notify \in BOOLEAN, FailureIsReported(notify) \/ RecoveryIsReported(notify)
  PROVE  PagesInv'
<1> DEFINE edge == IF FailureIsReported(notify) THEN "open" ELSE "resolved"
           files == [data EXCEPT !.incident = edge]
<1>1. /\ data' = files /\ Publishes("incident", files)
      /\ reviewing' = reviewing /\ online' = online /\ told' = told
  BY DEF FailureIsReported, RecoveryIsReported
<1>2. \/ Notices(edge)
      \/ Unnoticed
      \/ outbox' = outbox /\ untold' = untold /\ data.incident = edge
  BY DEF FailureIsReported, RecoveryIsReported
<1>3. edge \in Values /\ "incident" \in Domains
  BY DEF Values, Domains
<1> HIDE DEF edge
<1>4. /\ files["incident"] = edge
      /\ \A other \in Domains : other # "incident" => files[other] = data[other]
      /\ files = [incident |-> files.incident, breakbeat |-> files.breakbeat]
      /\ files.incident \in Values /\ files.breakbeat \in Values
  BY <1>3, FilesChange DEF PagesInv
<1>5. /\ revision' = revision + 1 /\ revision + 1 \in Nat
      /\ Broadcast(Snapshot("incident", files, revision + 1))
  BY <1>1 DEF Publishes, PagesInv, PagesTypes
<1> HIDE DEF files
<1>6. PageTypes' /\ PageFollows' /\ PageRests'
  BY <1>1, <1>3, <1>4, <1>5, PublishedFollows DEF PagesInv
<1>7. data'.incident = edge
  BY <1>1, <1>4
<1>8. outbox' \in Seq(Edge) /\ untold' \in BOOLEAN /\ RecipientFollows'
  <2>1. CASE Notices(edge)
    BY <1>3, <1>7, <2>1, NoticesTell DEF PagesInv
  <2>2. CASE Unnoticed
    BY <1>1, <2>2, RecipientUntouched DEF PagesInv, Unnoticed
  <2>3. CASE outbox' = outbox /\ untold' = untold /\ data.incident = edge
    BY <1>1, <1>7, <2>3, RecipientUntouched DEF PagesInv
  <2> QED
    BY <1>2, <2>1, <2>2, <2>3
<1>9. PagesTypes'
  BY <1>1, <1>4, <1>5, <1>8 DEF PagesInv, PagesTypes
<1> QED
  BY <1>6, <1>8, <1>9 DEF PagesInv

LEMMA UserActsKeeps ==
  ASSUME PagesInv, NEW result \in {"resolved", "none"}, UserActsOnIncident(result)
  PROVE  PagesInv'
<1> DEFINE files == [data EXCEPT !.incident = result]
           e == Snapshot("incident", files, revision + 1)
           f == Snapshot("incident", files, revision + 2)
<1>1. /\ data' = files /\ BroadcastTwo(e, f) /\ revision' = revision + 2
      /\ outbox' = outbox /\ untold' = TRUE
      /\ reviewing' = reviewing /\ online' = online /\ told' = told
  BY DEF UserActsOnIncident, Unnoticed
<1>2. result \in Values /\ "incident" \in Domains
  BY DEF Values, Domains
<1>3. /\ files["incident"] = result
      /\ \A other \in Domains : other # "incident" => files[other] = data[other]
      /\ files = [incident |-> files.incident, breakbeat |-> files.breakbeat]
      /\ files.incident \in Values /\ files.breakbeat \in Values
  BY <1>2, FilesChange DEF PagesInv
<1>4. revision + 1 \in Nat /\ revision + 2 \in Nat
  BY DEF PagesInv, PagesTypes
<1> HIDE DEF files
<1>5. /\ e \in Entry /\ f \in Entry
      /\ f \in Of("incident") /\ f \in Worth(files["incident"])
      /\ \A d \in Domains : d # "incident" => e \notin Of(d) /\ f \notin Of(d)
  BY <1>2, <1>3, <1>4, SnapshotIs
<1> HIDE DEF e, f
<1>6. \A d \in Domains :
        \/ f \in Of(d) /\ f \in Worth(data'[d])
        \/ f \notin Of(d) /\ e \notin Of(d) /\ data'[d] = data[d]
  BY <1>1, <1>3, <1>5
<1>7. PageTypes' /\ PageFollows' /\ PageRests'
  BY <1>1, <1>5, <1>6, PublishedTwiceFollows DEF PagesInv
<1>8. outbox' \in Seq(Edge) /\ untold' \in BOOLEAN /\ RecipientFollows'
  BY <1>1, RecipientUntouched DEF PagesInv
<1>9. PagesTypes'
  BY <1>1, <1>3, <1>4, <1>8 DEF PagesInv, PagesTypes
<1> QED
  BY <1>7, <1>8, <1>9 DEF PagesInv

LEMMA ReviewKeeps ==
  ASSUME PagesInv, ReviewIsOver \/ ReviewByHandIsCut \/ \E whose \in {"tick", "hand"} : ReviewFindsItem(whose)
  PROVE  PagesInv'
<1>1. ASSUME NEW whose \in {"tick", "hand"}, ReviewFindsItem(whose)
      PROVE  PagesInv'
  <2>1. /\ data' = [data EXCEPT !["breakbeat"] = "pending"] /\ reviewing' = whose
        /\ outbox' = outbox /\ online' = online /\ told' = told /\ untold' = untold
        /\ revision' = revision /\ page' = page /\ stale' = stale
    BY <1>1 DEF ReviewFindsItem
  <2>2. "pending" \in Values /\ "breakbeat" \in Domains
    BY DEF Values, Domains
  <2>3. /\ \A other \in Domains : other # "breakbeat" => data'[other] = data[other]
        /\ data' = [incident |-> data'.incident, breakbeat |-> data'.breakbeat]
        /\ data'.incident \in Values /\ data'.breakbeat \in Values
    <3> DEFINE files == [data EXCEPT !["breakbeat"] = "pending"]
    <3>1. /\ \A other \in Domains : other # "breakbeat" => files[other] = data[other]
          /\ files = [incident |-> files.incident, breakbeat |-> files.breakbeat]
          /\ files.incident \in Values /\ files.breakbeat \in Values
      BY <2>2, FilesChange DEF PagesInv
    <3>2. data' = files
      BY <2>1
    <3> HIDE DEF files
    <3> QED
      BY <3>1, <3>2
  <2>4. PageTypes' /\ PageFollows' /\ PageRests'
    BY <2>1, <2>3, PageUntouched DEF PagesInv, Reviewing
  <2>5. data'.incident = data.incident
    BY <2>3 DEF Domains
  <2>6. outbox' \in Seq(Edge) /\ untold' \in BOOLEAN /\ RecipientFollows'
    BY <2>1, <2>5, RecipientUntouched DEF PagesInv
  <2>7. PagesTypes'
    BY <2>1, <2>3, <2>6 DEF PagesInv, PagesTypes
  <2> QED
    BY <2>4, <2>6, <2>7 DEF PagesInv
<1>2. CASE ReviewIsOver
  <2>1. /\ data' = data /\ reviewing' = "none"
        /\ outbox' = outbox /\ online' = online /\ told' = told /\ untold' = untold
        /\ revision' = revision + 1 /\ Broadcast(Snapshot("breakbeat", data, revision + 1))
    BY <1>2 DEF ReviewIsOver, Publishes
  <2>2. "breakbeat" \in Domains /\ data["breakbeat"] \in Values /\ revision + 1 \in Nat
    BY DEF PagesInv, PagesTypes, Domains
  <2>3. PageTypes' /\ PageFollows' /\ PageRests'
    BY <2>1, <2>2, PublishedFollows DEF PagesInv
  <2>4. outbox' \in Seq(Edge) /\ untold' \in BOOLEAN /\ RecipientFollows'
    BY <2>1, RecipientUntouched DEF PagesInv
  <2>5. PagesTypes'
    BY <2>1, <2>2, <2>4 DEF PagesInv, PagesTypes
  <2> QED
    BY <2>3, <2>4, <2>5 DEF PagesInv
<1>3. CASE ReviewByHandIsCut
  <2>1. /\ data' = data /\ reviewing' = "none" /\ "breakbeat" \in stale' /\ stale \subseteq stale'
        /\ outbox' = outbox /\ online' = online /\ told' = told /\ untold' = untold
        /\ revision' = revision /\ page' = page
    BY <1>3 DEF ReviewByHandIsCut
  <2>2. PageTypes' /\ PageFollows' /\ PageRests'
    BY <2>1, PageUntouched DEF PagesInv
  <2>3. outbox' \in Seq(Edge) /\ untold' \in BOOLEAN /\ RecipientFollows'
    BY <2>1, RecipientUntouched DEF PagesInv
  <2>4. PagesTypes'
    BY <2>1, <2>3 DEF PagesInv, PagesTypes
  <2> QED
    BY <2>2, <2>3, <2>4 DEF PagesInv
<1> QED
  BY <1>1, <1>2, <1>3

LEMMA ItemKeeps ==
  ASSUME PagesInv, NEW status \in {"completed", "none"}, UserActsOnItem(status) \/ ToolActsOnItem(status)
  PROVE  PagesInv'
<1>1. /\ data' = [data EXCEPT !["breakbeat"] = status]
      /\ reviewing' = reviewing /\ outbox' = outbox /\ online' = online /\ told' = told /\ untold' = untold
  BY DEF UserActsOnItem, ToolActsOnItem, ItemBecomes
<1>2. status \in Values /\ "breakbeat" \in Domains
  BY DEF Values, Domains
<1>3. /\ \A other \in Domains : other # "breakbeat" => data'[other] = data[other]
      /\ data' = [incident |-> data'.incident, breakbeat |-> data'.breakbeat]
      /\ data'.incident \in Values /\ data'.breakbeat \in Values
  <2> DEFINE files == [data EXCEPT !["breakbeat"] = status]
  <2>1. /\ \A other \in Domains : other # "breakbeat" => files[other] = data[other]
        /\ files = [incident |-> files.incident, breakbeat |-> files.breakbeat]
        /\ files.incident \in Values /\ files.breakbeat \in Values
    BY <1>2, FilesChange DEF PagesInv
  <2>2. data' = files
    BY <1>1
  <2> HIDE DEF files
  <2> QED
    BY <2>1, <2>2
<1>4. revision' \in Nat /\ PageTypes' /\ PageFollows' /\ PageRests'
  <2>1. CASE UserActsOnItem(status)
    <3>1. /\ revision' = revision + 1 /\ revision + 1 \in Nat
          /\ Broadcast(Snapshot("breakbeat", data', revision + 1))
      BY <2>1 DEF UserActsOnItem, Publishes, PagesInv, PagesTypes
    <3>2. data'["breakbeat"] \in Values
      BY <1>3
    <3> QED
      BY <1>1, <1>2, <1>3, <3>1, <3>2, PublishedFollows DEF PagesInv
  <2>2. CASE ToolActsOnItem(status)
    <3>1. revision' = revision /\ page' = page /\ stale' = stale \cup {"breakbeat"}
      BY <2>2 DEF ToolActsOnItem
    <3>2. PageTypes' /\ PageFollows' /\ PageRests'
      BY <1>1, <1>3, <3>1, PageUntouched DEF PagesInv
    <3> QED
      BY <3>1, <3>2 DEF PagesInv, PagesTypes
  <2> QED
    BY <2>1, <2>2
<1>5. data'.incident = data.incident
  BY <1>3 DEF Domains
<1>6. outbox' \in Seq(Edge) /\ untold' \in BOOLEAN /\ RecipientFollows'
  BY <1>1, <1>5, RecipientUntouched DEF PagesInv
<1>7. PagesTypes'
  BY <1>1, <1>3, <1>4, <1>6 DEF PagesInv, PagesTypes
<1> QED
  BY <1>4, <1>6, <1>7 DEF PagesInv

LEMMA DeliveryKeeps ==
  ASSUME PagesInv, NoticeReachesPage \/ NoticeReachesChannel \/ NoticeIsLost \/ ChannelChanges
  PROVE  PagesInv'
<1>1. CASE NoticeReachesPage
  <2> DEFINE e == Notice
             f == Snapshot("incident", data, revision + 1)
  <2>1. /\ BroadcastTwo(e, f) /\ revision' = revision + 1 /\ outbox # <<>> /\ Head(outbox).to = "page"
        /\ outbox' = Tail(outbox) /\ data' = data /\ reviewing' = reviewing /\ online' = online
        /\ told' = told /\ untold' = untold
    BY <1>1 DEF NoticeReachesPage
  <2>2. "incident" \in Domains /\ data["incident"] \in Values /\ revision + 1 \in Nat /\ untold \in BOOLEAN
    BY DEF PagesInv, PagesTypes, Domains
  <2>3. /\ e \in Entry /\ f \in Entry
        /\ f \in Of("incident") /\ f \in Worth(data["incident"])
        /\ \A d \in Domains : d # "incident" => e \notin Of(d) /\ f \notin Of(d)
    BY <2>2, SnapshotIs, NoticeIs
  <2> HIDE DEF e, f
  <2>4. \A d \in Domains :
          \/ f \in Of(d) /\ f \in Worth(data'[d])
          \/ f \notin Of(d) /\ e \notin Of(d) /\ data'[d] = data[d]
    BY <2>1, <2>3
  <2>5. PageTypes' /\ PageFollows' /\ PageRests'
    BY <2>1, <2>3, <2>4, PublishedTwiceFollows DEF PagesInv
  <2>6. outbox' \in Seq(Edge) /\ RecipientFollows'
    BY <2>1, <2>2, OutboxTaken DEF PagesInv
  <2>7. PagesTypes'
    BY <2>1, <2>2, <2>6 DEF PagesInv, PagesTypes
  <2> QED
    BY <2>5, <2>6, <2>7 DEF PagesInv
<1>2. CASE NoticeReachesChannel \/ NoticeIsLost
  <2>1. /\ outbox # <<>> /\ outbox' = Tail(outbox) /\ data' = data /\ reviewing' = reviewing
        /\ online' = online /\ revision' = revision /\ page' = page /\ stale' = stale
    BY <1>2 DEF NoticeReachesChannel, NoticeIsLost
  <2>2. PageTypes' /\ PageFollows' /\ PageRests'
    BY <2>1, PageUntouched DEF PagesInv, Reviewing
  <2>3. untold' \in BOOLEAN
    BY <1>2 DEF NoticeReachesChannel, NoticeIsLost, PagesInv, PagesTypes
  <2>4. \/ untold' = TRUE
        \/ /\ Head(outbox).to = "channel" /\ told' = Head(outbox).edge
           /\ ~untold' => ~untold \/ (told' = data.incident /\ ForChannel = {1})
    <3>1. CASE NoticeReachesChannel
      BY <3>1 DEF NoticeReachesChannel
    <3>2. CASE NoticeIsLost
      BY <3>2 DEF NoticeIsLost
    <3> QED
      BY <1>2, <3>1, <3>2
  <2>5. outbox' \in Seq(Edge) /\ RecipientFollows'
    BY <2>1, <2>3, <2>4, OutboxTaken DEF PagesInv
  <2>6. PagesTypes'
    BY <2>1, <2>3, <2>5 DEF PagesInv, PagesTypes
  <2> QED
    BY <2>2, <2>5, <2>6 DEF PagesInv
<1>3. CASE ChannelChanges
  <2>1. /\ outbox' = outbox /\ data' = data /\ reviewing' = reviewing /\ online' = ~online
        /\ revision' = revision /\ page' = page /\ stale' = stale /\ told' = told /\ untold' = untold
    BY <1>3 DEF ChannelChanges
  <2>2. PageTypes' /\ PageFollows' /\ PageRests'
    BY <2>1, PageUntouched DEF PagesInv, Reviewing
  <2>3. outbox' \in Seq(Edge) /\ untold' \in BOOLEAN /\ RecipientFollows'
    BY <2>1, RecipientUntouched DEF PagesInv
  <2>4. online' \in BOOLEAN
    BY <2>1 DEF PagesInv, PagesTypes
  <2>5. PagesTypes'
    BY <2>1, <2>3, <2>4 DEF PagesInv, PagesTypes
  <2> QED
    BY <2>2, <2>3, <2>5 DEF PagesInv
<1> QED
  BY <1>1, <1>2, <1>3

LEMMA PageGoesKeeps ==
  ASSUME PagesInv, PageDisconnects \/ PagesRestart
  PROVE  PagesInv'
<1>1. /\ page' = [on |-> FALSE, first |-> <<>>, queue |-> <<>>, shows |-> page.shows]
      /\ page'.on = FALSE /\ page'.first = <<>> /\ page'.queue = <<>> /\ page'.shows = page.shows
  BY DEF PageDisconnects, PagesRestart, PagesInv, PageTypes
<1>2. <<>> \in Seq(Entry) /\ <<>> \in Seq(Edge)
  OBVIOUS
<1>3. PageTypes'
  BY <1>1, <1>2 DEF PagesInv, PageTypes
<1>4. PageFollows' /\ PageRests'
  BY <1>1 DEF PageFollows, PageRests
<1>5. CASE PageDisconnects
  <2>1. /\ data' = data /\ reviewing' = reviewing /\ outbox' = outbox /\ online' = online
        /\ told' = told /\ untold' = untold /\ revision' = revision
    BY <1>5 DEF PageDisconnects
  <2>2. outbox' \in Seq(Edge) /\ untold' \in BOOLEAN /\ RecipientFollows'
    BY <2>1, RecipientUntouched DEF PagesInv
  <2>3. PagesTypes'
    BY <2>1, <2>2 DEF PagesInv, PagesTypes
  <2> QED
    BY <1>3, <1>4, <2>2, <2>3 DEF PagesInv
<1>6. CASE PagesRestart
  <2>1. /\ reviewing' = "none" /\ outbox' = <<>> /\ revision' = 0
        /\ untold' = (untold \/ ForChannel # {})
        /\ data' = data /\ online' = online /\ told' = told
    BY <1>6 DEF PagesRestart
  <2>2. untold' \in BOOLEAN
    BY <2>1 DEF PagesInv, PagesTypes
  <2>3. ForChannel = {} => ~Has(ToChannel, outbox)
    BY DEF ForChannel, Has, ToChannel
  <2>4. ~Has(ToChannel, outbox')
    BY <2>1, EmptyTells
  <2>5. RecipientFollows'
    BY <2>1, <2>3, <2>4 DEF PagesInv, RecipientFollows
  <2>6. PagesTypes'
    BY <1>2, <2>1, <2>2 DEF PagesInv, PagesTypes
  <2> QED
    BY <1>3, <1>4, <2>5, <2>6 DEF PagesInv
<1> QED
  BY <1>5, <1>6

LEMMA PageComesKeeps ==
  ASSUME PagesInv, PageConnects \/ RuntimeIsReplaced \/ PageReads
  PROVE  PagesInv'
<1> DEFINE e == Snapshot("incident", data, revision)
           f == Snapshot("breakbeat", data, revision)
<1>1. /\ data' = data /\ reviewing' = reviewing /\ outbox' = outbox /\ online' = online
      /\ told' = told /\ untold' = untold /\ revision' = revision
  BY DEF PageConnects, RuntimeIsReplaced, PageReads
<1>2. /\ "incident" \in Domains /\ "breakbeat" \in Domains /\ revision \in Nat
      /\ data["incident"] \in Values /\ data["breakbeat"] \in Values
      /\ \A d \in Domains : d = "incident" \/ d = "breakbeat"
  BY DEF PagesInv, PagesTypes, Domains
<1>3. /\ e \in Entry /\ f \in Entry
      /\ e \in Of("incident") /\ e \in Worth(data["incident"]) /\ e \notin Of("breakbeat")
      /\ f \in Of("breakbeat") /\ f \in Worth(data["breakbeat"]) /\ f \notin Of("incident")
  BY <1>2, SnapshotIs
<1>4. outbox' \in Seq(Edge) /\ untold' \in BOOLEAN /\ RecipientFollows'
  BY <1>1, RecipientUntouched DEF PagesInv
<1>5. PagesTypes'
  BY <1>1, <1>4 DEF PagesInv, PagesTypes
<1>6. CASE PageConnects
  <2>1. /\ ~page.on
        /\ page' = [on |-> TRUE, first |-> <<e, f>>, queue |-> page.queue, shows |-> page.shows]
    BY <1>6 DEF PageConnects, PagesInv, PageTypes
  <2>2. page.queue = <<>>
    BY <2>1 DEF PagesInv, PageRests
  <2> HIDE DEF e, f
  <2>3. /\ page'.on = TRUE /\ page'.first = <<e, f>> /\ page'.queue = <<>> /\ page'.shows = page.shows
        /\ page' = [on |-> page'.on, first |-> page'.first, queue |-> page'.queue, shows |-> page'.shows]
    BY <2>1, <2>2
  <2>4. <<e, f>> \in Seq(Entry) /\ <<>> \in Seq(Entry)
    BY <1>3
  <2>5. PageTypes'
    BY <2>3, <2>4 DEF PagesInv, PageTypes
  <2>6. PageRests'
    BY <2>3 DEF PageRests
  <2>7. \A d \in Domains : LastIn(Of(d), Worth(data[d]), <<e, f>>)
    <3>1. DOMAIN <<e, f>> = {1, 2} /\ <<e, f>>[1] = e /\ <<e, f>>[2] = f
      OBVIOUS
    <3> QED
      BY <1>2, <1>3, <3>1 DEF LastIn
  <2>8. \A d \in Domains : ~Has(Of(d), <<>>) /\ Has(Of(d), <<e, f>>)
    BY <2>7, EmptyTells DEF LastIn, Has
  <2>9. \A d \in Domains : WillShow(d, <<e, f>>, <<>>, page.shows[d].value, data[d])
    BY <2>7, <2>8 DEF WillShow
  <2>10. PageFollows'
    BY <1>1, <2>3, <2>9 DEF PageFollows
  <2> QED
    BY <1>4, <1>5, <2>5, <2>6, <2>10 DEF PagesInv
<1>7. CASE RuntimeIsReplaced
  <2>1. BroadcastTwo(e, f)
    BY <1>7 DEF RuntimeIsReplaced
  <2> HIDE DEF e, f
  <2>2. \A d \in Domains :
          \/ f \in Of(d) /\ f \in Worth(data'[d])
          \/ f \notin Of(d) /\ e \in Of(d) /\ e \in Worth(data'[d])
    BY <1>1, <1>2, <1>3
  <2>3. PageTypes' /\ PageFollows' /\ PageRests'
    BY <1>1, <1>3, <2>1, <2>2, PublishedTwiceFollows DEF PagesInv
  <2> QED
    BY <1>4, <1>5, <2>3 DEF PagesInv
<1>8. CASE PageReads
  <2>1. PageTypes' /\ PageFollows' /\ PageRests'
    BY <1>8, ReadKeeps DEF PagesInv
  <2> QED
    BY <1>4, <1>5, <2>1 DEF PagesInv
<1> QED
  BY <1>6, <1>7, <1>8

(* What holds of a page and of a recipient between two steps says that they *)
(* are up to date when nothing is on its way to them.                       *)
LEMMA FollowersAreUpToDate == PagesInv => UsersAreUpToDate
<1> SUFFICES ASSUME PagesInv
             PROVE  UsersAreUpToDate
  OBVIOUS
<1>1. ASSUME page.on, page.first \o page.queue = <<>>, NEW d \in Domains
      PROVE  page.shows[d].value = data[d] \/ d \in stale \/ (d = "breakbeat" /\ Reviewing)
  <2>1. page.first = <<>> /\ page.queue = <<>>
    <3>1. page.first \in Seq(Entry) /\ page.queue \in Seq(Entry)
      BY DEF PagesInv, PageTypes
    <3> QED
      BY <1>1, <3>1, BothTell
  <2>2. ~Has(Of(d), page.first) /\ ~Has(Of(d), page.queue)
    BY <2>1, EmptyTells
  <2> QED
    BY <1>1, <2>2 DEF PagesInv, PageFollows, WillShow
<1>2. ASSUME ~untold, ForChannel = {}
      PROVE  told = data.incident
  <2>1. ~Has(ToChannel, outbox)
    BY <1>2 DEF ForChannel, Has, ToChannel
  <2> QED
    BY <1>2, <2>1 DEF PagesInv, RecipientFollows
<1> QED
  BY <1>1, <1>2 DEF UsersAreUpToDate

(* Nobody goes on believing what is over: in every reachable state, a page  *)
(* that has read all it was sent shows both files as they are, unless a     *)
(* snapshot of the domain was dropped (_broadcast), ignored                 *)
(* (receiveProactiveSnapshot) or never sent, and a recipient of the notices *)
(* of an incident that missed none knows its last edge.                     *)
THEOREM UsersAreUpToDateAlways == PagesSpec => []UsersAreUpToDate
<1>1. PagesInit => PagesInv
  <2> SUFFICES ASSUME PagesInit
               PROVE  PagesInv
    OBVIOUS
  <2> USE DEF PagesInit
  <2>1. <<>> \in Seq(Entry) /\ <<>> \in Seq(Edge)
    OBVIOUS
  <2>2. PagesTypes
    BY <2>1 DEF PagesTypes, Values
  <2>3. PageTypes
    BY <2>1 DEF PageTypes
  <2>4. PageFollows /\ PageRests
    BY DEF PageFollows, PageRests
  <2>5. RecipientFollows
    BY EmptyTells DEF RecipientFollows
  <2> QED
    BY <2>2, <2>3, <2>4, <2>5 DEF PagesInv
<1>2. PagesInv /\ [PagesNext]_pageVars => PagesInv'
  <2> SUFFICES ASSUME PagesInv, [PagesNext]_pageVars
               PROVE  PagesInv'
    OBVIOUS
  <2>1. CASE UserResolves \/ UserDeletes
    BY <2>1, UserActsKeeps DEF UserResolves, UserDeletes
  <2>2. CASE ReviewIsOver \/ ReviewByHandIsCut \/ \E whose \in {"tick", "hand"} : ReviewFindsItem(whose)
    BY <2>2, ReviewKeeps
  <2>3. CASE NoticeReachesPage \/ NoticeReachesChannel \/ NoticeIsLost \/ ChannelChanges
    BY <2>3, DeliveryKeeps
  <2>4. CASE PageConnects \/ RuntimeIsReplaced \/ PageReads
    BY <2>4, PageComesKeeps
  <2>5. CASE PageDisconnects \/ PagesRestart
    BY <2>5, PageGoesKeeps
  <2>6. CASE \E notify \in BOOLEAN : FailureIsReported(notify) \/ RecoveryIsReported(notify)
    BY <2>6, ReportsKeep
  <2>7. CASE \E status \in {"completed", "none"} : UserActsOnItem(status) \/ ToolActsOnItem(status)
    BY <2>7, ItemKeeps
  <2>8. CASE UNCHANGED pageVars
    BY <2>8 DEF pageVars, PagesInv, PagesTypes, PageTypes, PageFollows, PageRests, RecipientFollows, Reviewing
  <2> QED
    BY <2>1, <2>2, <2>3, <2>4, <2>5, <2>6, <2>7, <2>8 DEF PagesNext
<1> QED
  BY <1>1, <1>2, FollowersAreUpToDate, PTL DEF PagesSpec
=============================================================================
