------------------------ MODULE RuntimeReload_proofs ------------------------
(***************************************************************************)
(* Theorems about RuntimeReload, for every set of turns, jobs and Runtimes *)
(* and every bound on requests, timeouts and callers.                      *)
(***************************************************************************)
EXTENDS RuntimeReload, SequenceTheorems, TLAPS

Unheld == {"free", "entering"}
WithCandidate == {"starting", "stopping", "publishing", "undoing", "discarding",
                  "dropping", "failing", "cancelling", "retiring"}
Activating == {"stopping", "publishing", "undoing"}

(* A turn only runs while nobody replaces the Runtime it uses. *)
TurnsKeep ==
  /\ ready <=> pc \in Unheld
  /\ \A t \in Turn : place[t] = "running" => used[t] = runtime /\ pc \in Unheld

(* A job belongs to a service that is up. *)
JobsUp == \A j \in Job : used[j] \in Id => used[j] \in up

(* What the holder works on is neither the committed Runtime nor abandoned, *)
(* and an activation knows the service it replaces.                         *)
Candidate ==
  /\ pc \in WithCandidate => cand \in Id /\ cand # runtime /\ cand \notin abandoned
  /\ pc \in Activating => prev \in Id

(* The open Runtimes, exactly. *)
Opened ==
  /\ open = (IF stopped = "closed" THEN {} ELSE {runtime})
              \union (IF pc \in WithCandidate THEN {cand} ELSE {}) \union abandoned
  /\ runtime \notin abandoned

(* Only the Host's service schedules, and none in the middle of an activation. *)
Scheduler ==
  /\ up \subseteq {service} /\ tools \subseteq {service}
  /\ pc \in {"stopping", "undoing"} => up = {} /\ tools = {}
  /\ pc = "publishing" => service = cand /\ up = {cand} /\ tools = {cand}

(* Outside an activation the Host's service is the committed Runtime's. *)
ServiceBound == (~closing /\ ~interrupted) =>
  /\ pc \in Activating => prev = runtime
  /\ pc \notin Activating => service = runtime /\ up = {runtime} /\ tools = {runtime}

(* Once the Gateway has got the lock to close, no reload begins. *)
ClosingOrder ==
  /\ stopped # "no" => closing /\ pc \in Unheld
  /\ pc = "discarding" => closing

(* GatewayHost.close waits for the lock once, behind every other caller. *)
StopLast == \A i \in 1..Len(callers) :
  callers[i] = "stop" => closing /\ stopped = "no" /\ i = Len(callers)

IInv == /\ TypeOK /\ TurnsKeep /\ JobsUp /\ Candidate /\ Opened
        /\ Scheduler /\ ServiceBound /\ ClosingOrder /\ StopLast

-----------------------------------------------------------------------------
(* Typing. *)
LEMMA TailType ==
  ASSUME TypeOK, pc # "free"
  PROVE  Tail(callers) \in Seq(Kinds)
BY HeadTailProperties DEF TypeOK

LEMMA LeaveType ==
  ASSUME TypeOK, pc # "free", Leave
  PROVE  /\ callers' \in Seq(Kinds)
         /\ pc' \in {"free", "entering"}
         /\ pc' = "free" <=> callers' = <<>>
         /\ ready' \in BOOLEAN
         /\ cand' = None /\ prev' = None
         /\ timedOut' \in BOOLEAN
BY TailType DEF Leave, Handoff

LEMMA BuildType ==
  ASSUME desired' \in Nat, Build
  PROVE  /\ pc' \in Locations /\ pc' # "free"
         /\ state' \in {"active", "pending", "applying", "failed"}
         /\ ready' \in BOOLEAN
         /\ target' \in 0..desired'
<1>1. ready' \in BOOLEAN
  BY DEF Build
<1>2. target' \in 0..desired'
  <2>1. desired' \in 0..desired'
    OBVIOUS
  <2>2. target' = desired'
    BY DEF Build
  <2> QED
    BY <2>1, <2>2
<1> QED
  BY <1>1, <1>2 DEF Build, Locations

LEMMA CallType ==
  ASSUME TypeOK, NEW kind \in Kinds, desired' \in Nat, desired <= desired', CallReload(kind)
  PROVE  /\ target' \in 0..desired'
         /\ state' \in {"active", "pending", "applying", "failed"}
         /\ ready' \in BOOLEAN
         /\ callers' \in Seq(Kinds)
         /\ pc' \in Locations
         /\ pc' = "free" <=> callers' = <<>>
<1>1. callers' = Append(callers, kind)
  BY DEF CallReload
<1>2. callers' \in Seq(Kinds) /\ callers' # <<>>
  BY <1>1, AppendProperties DEF TypeOK
<1>3. CASE callers = <<>>
  <2>1. Build
    BY <1>3 DEF CallReload
  <2> QED
    BY <1>2, <2>1, BuildType
<1>4. CASE callers # <<>>
  BY <1>2, <1>4 DEF CallReload, TypeOK
<1> QED
  BY <1>3, <1>4

LEMMA NotifyType ==
  ASSUME TypeOK, NEW kind \in Kinds, NotifyIdle(kind)
  PROVE  /\ desired' \in Nat /\ target' \in 0..desired'
         /\ desired' = desired
         /\ state' \in {"active", "pending", "applying", "failed"}
         /\ ready' \in BOOLEAN
         /\ callers' \in Seq(Kinds)
         /\ pc' \in Locations
         /\ pc' = "free" <=> callers' = <<>>
<1>1. CASE ~Notices
  BY <1>1 DEF NotifyIdle, TypeOK
<1>2. CASE Notices
  <2>1. CallReload(kind) /\ desired' = desired
    BY <1>2 DEF NotifyIdle
  <2> QED
    BY <2>1, CallType DEF TypeOK
<1> QED
  BY <1>1, <1>2

LEMMA TypeStep == TypeOK /\ Candidate /\ [Next]_vars => TypeOK'
<1> SUFFICES ASSUME TypeOK, Candidate, [Next]_vars PROVE TypeOK'
  OBVIOUS
<1> USE ReloadAssumption
<1>1. CASE Apply
  <2>1. /\ desired' = desired + 1
        /\ UNCHANGED <<active, closing, cand, prev, timedOut, runtime, open, hostVars,
                       resolver, workVars, stopped, timeouts, history>>
    BY <1>1 DEF Apply
  <2>2. CASE ~Idle
    BY <1>1, <2>1, <2>2 DEF Apply, TypeOK, hostVars, workVars, history
  <2>3. CASE Idle
    <3>1. CallReload("apply")
      BY <1>1, <2>3 DEF Apply
    <3> QED
      BY <2>1, <3>1, CallType DEF TypeOK, Kinds, hostVars, workVars, history
  <2> QED
    BY <2>2, <2>3
<1>2. CASE Enter
  <2>1. /\ pc = "entering"
        /\ UNCHANGED <<desired, active, closing, runtime, open, hostVars, resolver,
                       workVars, timeouts, history>>
    BY <1>2 DEF Enter
  <2>2. CASE closing \/ ~Idle
    <3>1. Leave /\ pc # "free"
      BY <1>2, <2>2 DEF Enter
    <3> QED
      BY <1>2, <2>2, <3>1, LeaveType DEF Enter, TypeOK, Locations, hostVars, workVars, history
  <2>3. CASE ~(closing \/ ~Idle)
    <3>1. Build /\ UNCHANGED <<callers, cand, prev, timedOut, stopped>>
      BY <1>2, <2>3 DEF Enter
    <3>2. callers # <<>>
      BY <2>1 DEF TypeOK
    <3> QED
      BY <2>1, <3>1, <3>2, BuildType DEF TypeOK, hostVars, workVars, history
  <2> QED
    BY <2>2, <2>3
<1>3. CASE Built
  BY <1>3 DEF Built, PrepareRuntime, Fresh, TypeOK, Locations, hostVars, workVars, history
<1>4. CASE BuildFails
  BY <1>4, LeaveType DEF BuildFails, TypeOK, Locations, hostVars, workVars, history
<1>5. CASE Started
  BY <1>5 DEF Started, BeginActivation, StopsService, TypeOK, Locations, workVars, history
<1>6. CASE StartFails
  BY <1>6 DEF StartFails, TypeOK, Locations, hostVars, workVars, history
<1>7. CASE ServiceStopped
  BY <1>7 DEF ServiceStopped, Candidate, WithCandidate, TypeOK, Locations, hostVars, workVars, history
<1>8. CASE Published
  BY <1>8 DEF Published, CommitState, Candidate, WithCandidate, TypeOK, Locations, hostVars, workVars
<1>9. CASE PublishFails
  BY <1>9 DEF PublishFails, StopCandidate, TypeOK, Locations, history
<1>10. CASE Undone
  BY <1>10 DEF Undone, RestoredService, Candidate, Activating, TypeOK, Locations, workVars, history
<1>11. CASE CloseReturns
  BY <1>11, LeaveType DEF CloseReturns, CancelledState, Closes, TypeOK, Locations, hostVars, workVars, history
<1>12. CASE DeliveryTimesOut
  <2>1. /\ timeouts' \in 0..MaxTimeout
        /\ UNCHANGED <<desired, active, closing, runtime, resolver, stopped>>
    BY <1>12 DEF DeliveryTimesOut, TypeOK
  <2>2. CASE CancelWaiting
    <3>1. PICK i \in 1..Len(callers) :
            /\ callers[i] = "delivery"
            /\ i # 1 \/ pc = "entering"
            /\ callers' = [k \in 1..(Len(callers) - 1) |-> IF k < i THEN callers[k] ELSE callers[k + 1]]
            /\ pc' = IF i = 1 THEN Handoff(Tail(callers)) ELSE pc
      BY <2>2 DEF CancelWaiting
    <3>2. callers \in Seq(Kinds) /\ Len(callers) \in Nat
      BY LenProperties DEF TypeOK
    <3>3. callers' \in Seq(Kinds) /\ Len(callers') = Len(callers) - 1
      <4>1. \A k \in 1..(Len(callers) - 1) :
              (IF k < i THEN callers[k] ELSE callers[k + 1]) \in Kinds
        BY <3>2, ElementOfSeq
      <4> QED
        BY <3>1, <3>2, <4>1, IsASeq, LenProperties
    <3>4. pc' \in Locations /\ (pc' = "free" <=> callers' = <<>>)
      <4>1. CASE i = 1
        <5>1. Tail(callers) = <<>> <=> Len(callers) = 1
          <6>1. callers # <<>>
            <7>1. Len(callers) # 0
              BY <3>2, i \in 1..Len(callers)
            <7>2. Len(<<>>) = 0
              BY EmptySeq
            <7> QED
              BY <7>1, <7>2
          <6>2. PICK q \in Seq(Kinds) : q = Tail(callers) /\ Len(q) = Len(callers) - 1
            BY <3>2, <6>1, HeadTailProperties
          <6>3. q = <<>> <=> Len(q) = 0
            BY EmptySeq
          <6>4. Len(q) = 0 <=> Len(callers) = 1
            BY <3>2, <6>2
          <6>5. q = <<>> <=> Len(callers) = 1
            BY <6>3, <6>4
          <6> QED
            BY <6>2, <6>5, Zenon
        <5>2. callers' = <<>> <=> Len(callers) = 1
          BY <3>2, <3>3, EmptySeq
        <5> QED
          BY <3>1, <4>1, <5>1, <5>2 DEF Handoff, Locations
      <4>2. CASE i # 1
        <5>1. callers' # <<>> /\ callers # <<>>
          BY <3>2, <3>3, <4>2, EmptySeq
        <5> QED
          BY <3>1, <4>2, <5>1 DEF TypeOK
      <4> QED
        BY <4>1, <4>2
    <3> QED
      BY <2>1, <2>2, <3>3, <3>4 DEF CancelWaiting, TypeOK, hostVars, history
  <2>3. CASE CancelHolder
    <3>1. pc # "free"
      BY <2>3 DEF CancelHolder, TypeOK
    <3>2. CASE pc = "building" /\ state' = CancelledState /\ Leave /\ UNCHANGED <<target, open, hostVars, workVars, history>>
      BY <2>1, <3>1, <3>2, LeaveType DEF CancelledState, TypeOK, Locations, hostVars, workVars, history
    <3>3. CASE CancelCandidate
      BY <2>1, <3>1, <3>3 DEF CancelCandidate, TypeOK, Locations, hostVars, workVars
    <3>4. CASE StopCandidate /\ timedOut' = TRUE /\ UNCHANGED <<callers, state, ready, target, cand, prev, open, history>>
      BY <2>1, <3>1, <3>4 DEF StopCandidate, TypeOK, Locations, history
    <3>5. CASE /\ pc \in {"failing", "retiring"} /\ CancelClose
               /\ state' \in {state, CancelledState}
      <4>1. /\ Leave
            /\ abandoned' \subseteq Id /\ open' \subseteq Id
            /\ UNCHANGED <<target, hostVars, workVars, interrupted>>
        BY <3>5 DEF CancelClose, Candidate, WithCandidate, TypeOK
      <4> QED
        BY <2>1, <3>1, <3>5, <4>1, LeaveType DEF CancelledState, TypeOK, Locations, hostVars, workVars
    <3> QED
      BY <2>3, <3>2, <3>3, <3>4, <3>5 DEF CancelHolder
  <2> QED
    BY <1>12, <2>2, <2>3 DEF DeliveryTimesOut
<1>13. ASSUME NEW t \in Turn, Accept(t) PROVE TypeOK'
  BY <1>13 DEF Accept, Quiescent, TypeOK, hostVars, history
<1>14. ASSUME NEW t \in Turn, Begin(t) PROVE TypeOK'
  BY <1>14 DEF Begin, Quiescent, TypeOK, hostVars, history
<1>15. ASSUME NEW t \in Turn, End(t) PROVE TypeOK'
  <2>1. \E kind \in Kinds : NotifyIdle(kind)
    BY <1>15 DEF End, Kinds
  <2> QED
    BY <1>15, <2>1, NotifyType DEF End, Quiescent, TypeOK, hostVars, history
<1>16. ASSUME NEW t \in Turn, Reject(t) PROVE TypeOK'
  <2>1. \E kind \in Kinds : NotifyIdle(kind)
    BY <1>16 DEF Reject, Kinds
  <2> QED
    BY <1>16, <2>1, NotifyType DEF Reject, Quiescent, TypeOK, hostVars, history
<1>17. ASSUME NEW j \in Job, StartJob(j) PROVE TypeOK'
  BY <1>17 DEF StartJob, Quiescent, TypeOK, hostVars, history
<1>18. ASSUME NEW j \in Job, EndJob(j) PROVE TypeOK'
  BY <1>18 DEF EndJob, Quiescent, TypeOK, hostVars, history
<1>19. ASSUME NEW j \in Job, IdleCheck(j) PROVE TypeOK'
  <2>1. \E kind \in Kinds : NotifyIdle(kind)
    BY <1>19 DEF IdleCheck, Kinds
  <2> QED
    BY <1>19, <2>1, NotifyType DEF IdleCheck, Quiescent, TypeOK, hostVars, history
<1>20. CASE StopReloads
  <2>1. callers' \in Seq(Kinds) /\ (callers' = <<>> <=> callers = <<>>)
    BY <1>20, AppendProperties DEF StopReloads, TypeOK, Kinds
  <2> QED
    BY <1>20, <2>1 DEF StopReloads, TypeOK, reloadVars, hostVars, workVars, history
<1>21. CASE StopService
  BY <1>21 DEF StopService, TypeOK, reloadVars, history
<1>22. CASE CloseRuntime
  BY <1>22 DEF CloseRuntime, TypeOK, reloadVars, hostVars, history
<1>23. CASE UNCHANGED vars
  BY <1>23 DEF vars, TypeOK, reloadVars, hostVars, workVars, history
<1> QED
  BY <1>1, <1>2, <1>3, <1>4, <1>5, <1>6, <1>7, <1>8, <1>9, <1>10, <1>11, <1>12, <1>13, <1>14,
     <1>15, <1>16, <1>17, <1>18, <1>19, <1>20, <1>21, <1>22, <1>23 DEF Next, Holder

-----------------------------------------------------------------------------
(* Steps that leave the candidate, the Host's service and the Runtimes alone. *)
Rest == /\ TurnsKeep /\ JobsUp /\ Candidate /\ Opened
        /\ Scheduler /\ ServiceBound /\ ClosingOrder /\ StopLast

LEMMA HostKept ==
  ASSUME Candidate, Opened, Scheduler, ServiceBound,
         UNCHANGED <<closing, runtime, open, service, up, tools, abandoned, interrupted>>,
         stopped' = "closed" <=> stopped = "closed",
         \/ pc' = pc /\ UNCHANGED <<cand, prev>>
         \/ pc \notin WithCandidate /\ pc' \notin WithCandidate
  PROVE  Candidate' /\ Opened' /\ Scheduler' /\ ServiceBound'
<1>1. CASE pc' = pc /\ UNCHANGED <<cand, prev>>
  BY <1>1 DEF Candidate, Opened, Scheduler, ServiceBound
<1>2. CASE pc \notin WithCandidate /\ pc' \notin WithCandidate
  <2>1. pc \notin Activating /\ pc' \notin Activating
    BY <1>2 DEF WithCandidate, Activating
  <2> QED
    BY <1>2, <2>1 DEF Candidate, Opened, Scheduler, ServiceBound, Activating
<1> QED
  BY <1>1, <1>2

LEMMA AppendKeepsStop ==
  ASSUME TypeOK, StopLast, ~closing, NEW kind \in Kinds \ {"stop"},
         callers' = Append(callers, kind)
  PROVE  StopLast'
<1>1. callers \in Seq(Kinds) /\ Len(callers) \in Nat
  BY LenProperties DEF TypeOK
<1>2. /\ Len(callers') = Len(callers) + 1
      /\ \A i \in 1..Len(callers) : callers'[i] = callers[i]
      /\ callers'[Len(callers) + 1] = kind
  BY <1>1, AppendProperties
<1>3. \A i \in 1..Len(callers') : callers'[i] # "stop"
  BY <1>1, <1>2 DEF StopLast
<1> QED
  BY <1>3 DEF StopLast

LEMMA TailKeepsStop ==
  ASSUME TypeOK, StopLast, pc # "free", callers' = Tail(callers), closing' = closing,
         stopped' = stopped \/ Head(callers) = "stop"
  PROVE  StopLast'
<1>0. stopped' = stopped \/ Head(callers) = "stop"
  OBVIOUS
<1>1. callers \in Seq(Kinds) /\ callers # <<>>
  BY DEF TypeOK
<1>2. /\ Len(callers) \in Nat \ {0}
      /\ Len(callers') = Len(callers) - 1
      /\ Head(callers) = callers[1]
      /\ \A i \in 1..Len(callers') : callers'[i] = callers[i + 1]
  BY <1>1, HeadTailProperties, EmptySeq
<1> SUFFICES ASSUME NEW i \in 1..Len(callers'), callers'[i] = "stop"
             PROVE  closing' /\ stopped' = "no" /\ i = Len(callers')
  BY DEF StopLast
<1>3. i + 1 \in 1..Len(callers) /\ callers[i + 1] = "stop"
  BY <1>2
<1>4. closing /\ stopped = "no" /\ i + 1 = Len(callers)
  BY <1>3 DEF StopLast
<1>5. 1 \in 1..Len(callers) /\ Len(callers) # 1
  BY <1>2, <1>4
<1>6. Head(callers) # "stop"
  BY <1>2, <1>5 DEF StopLast
<1>7. i = Len(callers')
  <2>1. \A m, n \in Int : m + 1 = n => m = n - 1
    OBVIOUS
  <2>2. i \in Int /\ Len(callers) \in Int
    BY <1>2
  <2>3. i = Len(callers) - 1
    BY <1>4, <2>1, <2>2, Zenon
  <2> QED
    BY <1>2, <2>3, Zenon
<1>8. stopped' = stopped
  BY <1>0, <1>6
<1> QED
  BY <1>4, <1>7, <1>8

LEMMA CallKeeps ==
  ASSUME TypeOK, TurnsKeep, StopLast, ~closing, NEW kind \in Kinds \ {"stop"},
         CallReload(kind), Idle'
  PROVE  TurnsKeep' /\ StopLast' /\ (pc' = pc \/ (pc = "free" /\ pc' = "building"))
<1>1. \A t \in Turn : place'[t] # "running"
  BY DEF Idle
<1>2. StopLast'
  BY AppendKeepsStop DEF CallReload
<1>3. CASE callers = <<>>
  <2>1. pc = "free" /\ pc' = "building" /\ ready' = FALSE
    BY <1>3 DEF CallReload, Build, TypeOK
  <2>2. pc' \notin Unheld
    BY <2>1 DEF Unheld
  <2> QED
    BY <1>1, <1>2, <2>1, <2>2 DEF TurnsKeep
<1>4. CASE callers # <<>>
  <2>1. UNCHANGED <<pc, ready>>
    BY <1>4 DEF CallReload
  <2> QED
    BY <1>1, <1>2, <2>1 DEF TurnsKeep
<1> QED
  BY <1>3, <1>4

LEMMA NotifyKeeps ==
  ASSUME TypeOK, TurnsKeep, StopLast, NEW kind \in Kinds \ {"stop"}, NotifyIdle(kind),
         UNCHANGED <<runtime, closing, stopped>>,
         \A t \in Turn : place'[t] = "running" => place[t] = "running" /\ used'[t] = used[t]
  PROVE  TurnsKeep' /\ StopLast' /\ (pc' = pc \/ (~closing /\ pc = "free" /\ pc' = "building"))
<1>1. CASE ~Notices
  <2>1. UNCHANGED <<pc, ready, callers>>
    BY <1>1 DEF NotifyIdle
  <2>2. StopLast'
    BY <2>1 DEF StopLast
  <2> QED
    BY <2>1, <2>2 DEF TurnsKeep
<1>2. CASE Notices
  <2>1. CallReload(kind) /\ Idle' /\ ~closing
    BY <1>2 DEF NotifyIdle, Notices
  <2> QED
    BY <2>1, CallKeeps
<1> QED
  BY <1>1, <1>2

(* Accepting, ending and checking of work: only the work itself changes. *)
LEMMA WorkStep ==
  ASSUME TypeOK, Rest, UNCHANGED Quiescent, JobsUp', TurnsKeep', StopLast',
         pc' = pc \/ (~closing /\ pc = "free" /\ pc' = "building")
  PROVE  Rest'
<1>1. UNCHANGED <<closing, cand, prev, runtime, open, service, up, tools, stopped,
                  abandoned, interrupted>>
  BY DEF Quiescent, hostVars, history
<1>2. pc' = pc \/ (pc \notin WithCandidate /\ pc' \notin WithCandidate)
  BY DEF WithCandidate
<1>3. Candidate' /\ Opened' /\ Scheduler' /\ ServiceBound'
  BY <1>1, <1>2, HostKept DEF Rest
<1>4. ClosingOrder'
  BY <1>1 DEF Rest, ClosingOrder
<1> QED
  BY <1>3, <1>4 DEF Rest

(* The lock is released by a holder that has no candidate. *)
LEMMA LeaveKeeps ==
  ASSUME TypeOK, Rest, Leave, UNCHANGED <<runtime, closing, workVars>>, pc # "free",
         \/ stopped' = stopped
         \/ stopped' = "sealed" /\ Head(callers) = "stop"
  PROVE  /\ TurnsKeep' /\ StopLast' /\ ClosingOrder' /\ pc' \in Unheld
         /\ stopped' = "closed" <=> stopped = "closed"
<1>1. pc' \in Unheld /\ ready' = TRUE /\ callers' = Tail(callers)
  BY DEF Leave, Handoff, Unheld
<1>2. \A t \in Turn : place'[t] = "running" => used'[t] = runtime'
  BY DEF Rest, TurnsKeep, workVars
<1>3. TurnsKeep'
  BY <1>1, <1>2 DEF TurnsKeep
<1>4. StopLast'
  BY <1>1, TailKeepsStop DEF Rest
<1>5. Head(callers) = "stop" => closing /\ stopped = "no"
  <2>1. 1 \in 1..Len(callers) /\ Head(callers) = callers[1]
    BY HeadTailProperties, EmptySeq DEF TypeOK
  <2> QED
    BY <2>1 DEF Rest, StopLast
<1>6. ClosingOrder'
  BY <1>1, <1>5 DEF Rest, ClosingOrder, Unheld
<1> QED
  BY <1>1, <1>3, <1>4, <1>5, <1>6

LEMMA LeaveStep ==
  ASSUME TypeOK, Rest, Leave, pc \notin WithCandidate, pc # "free",
         UNCHANGED <<closing, runtime, open, hostVars, workVars, history>>,
         \/ stopped' = stopped
         \/ stopped' = "sealed" /\ Head(callers) = "stop"
  PROVE  Rest'
<1>1. TurnsKeep' /\ StopLast' /\ ClosingOrder' /\ pc' \in Unheld
      /\ (stopped' = "closed" <=> stopped = "closed")
  BY LeaveKeeps
<1>2. JobsUp'
  BY DEF Rest, JobsUp, hostVars, workVars
<1>3. pc' \notin WithCandidate
  BY <1>1 DEF WithCandidate, Unheld
<1>4. Candidate' /\ Opened' /\ Scheduler' /\ ServiceBound'
  BY <1>1, <1>3, HostKept DEF Rest, hostVars, history
<1> QED
  BY <1>1, <1>2, <1>4 DEF Rest

(* The Runtime that is not kept is closed, or its close is abandoned. *)
LEMMA CloseStep ==
  ASSUME TypeOK, Rest, Leave, pc \in WithCandidate \ Activating, NEW lost \in SUBSET {cand},
         abandoned' = abandoned \union lost, open' = open \ ({cand} \ lost),
         UNCHANGED <<closing, runtime, hostVars, workVars, interrupted, stopped>>
  PROVE  Rest'
<1>1. pc # "free" /\ pc \notin Unheld
  BY DEF WithCandidate, Unheld
<1>2. TurnsKeep' /\ StopLast' /\ ClosingOrder' /\ pc' \in Unheld
  BY <1>1, LeaveKeeps
<1>3. pc' \notin WithCandidate /\ pc' \notin Activating
  BY <1>2 DEF WithCandidate, Activating, Unheld
<1>4. stopped = "no"
  BY <1>1 DEF Rest, ClosingOrder
<1>5. cand # runtime /\ cand \notin abandoned
  BY DEF Rest, Candidate
<1>6. JobsUp'
  BY DEF Rest, JobsUp, hostVars, workVars
<1>7. Candidate'
  BY <1>3 DEF Candidate
<1>8. Opened'
  <2>1. open = {runtime} \union {cand} \union abandoned /\ runtime \notin abandoned
    BY <1>4 DEF Rest, Opened
  <2>2. open' = {runtime'} \union abandoned'
    BY <1>5, <2>1
  <2>3. runtime' \notin abandoned'
    BY <1>5, <2>1
  <2> QED
    BY <1>3, <1>4, <2>2, <2>3 DEF Opened
<1>9. Scheduler'
  BY <1>3 DEF Rest, Scheduler, Activating, hostVars
<1>10. ServiceBound'
  BY <1>3 DEF Rest, ServiceBound, hostVars
<1> QED
  BY <1>2, <1>6, <1>7, <1>8, <1>9, <1>10 DEF Rest

-----------------------------------------------------------------------------
(* The strengthened invariant. *)
LEMMA InvInit == Init => IInv
<1> SUFFICES ASSUME Init PROVE IInv
  OBVIOUS
<1>1. callers = <<>> /\ pc = "free" /\ runtime = InitialId /\ InitialId \in Id
  BY ReloadAssumption DEF Init
<1>2. TypeOK
  <2>1. ready \in BOOLEAN /\ closing \in BOOLEAN /\ timedOut \in BOOLEAN /\ interrupted \in BOOLEAN
    BY Zenon DEF Init
  <2>2. timeouts \in 0..MaxTimeout
    BY ReloadAssumption DEF Init
  <2>3. callers \in Seq(Kinds)
    BY <1>1, EmptySeq
  <2>4. used \in [Turn \union Job -> Id \union {None, Ended}]
    BY DEF Init
  <2>5. place \in [Turn -> {"none", "accepted", "running"}]
    BY DEF Init
  <2>6. desired \in Nat /\ active \in 0..desired /\ target \in 0..desired
    BY DEF Init
  <2> QED
    BY <1>1, <2>1, <2>2, <2>3, <2>4, <2>5, <2>6 DEF Init, TypeOK, Locations
<1>3. TurnsKeep
  BY DEF Init, TurnsKeep, Unheld
<1>4. JobsUp
  BY ReloadAssumption DEF Init, JobsUp
<1>5. Candidate /\ Opened /\ Scheduler /\ ServiceBound /\ ClosingOrder
  BY <1>1 DEF Init, Candidate, Opened, Scheduler, ServiceBound, ClosingOrder, WithCandidate, Activating
<1>6. StopLast
  BY <1>1, EmptySeq DEF StopLast
<1> QED
  BY <1>2, <1>3, <1>4, <1>5, <1>6 DEF IInv

LEMMA RestStep == TypeOK /\ Rest /\ [Next]_vars => Rest'
<1> SUFFICES ASSUME TypeOK, Rest, [Next]_vars PROVE Rest'
  OBVIOUS
<1> USE ReloadAssumption
<1>1. CASE Apply
  <2>1. /\ ~closing
        /\ UNCHANGED <<active, closing, cand, prev, timedOut, runtime, open, hostVars,
                       resolver, workVars, stopped, timeouts, history>>
    BY <1>1 DEF Apply
  <2>2. UNCHANGED Quiescent
    BY <2>1 DEF Quiescent
  <2>3. JobsUp'
    BY <2>1 DEF Rest, JobsUp, hostVars, workVars
  <2>4. CASE ~Idle
    <3>1. UNCHANGED <<callers, pc, ready>>
      BY <1>1, <2>4 DEF Apply
    <3>2. TurnsKeep' /\ StopLast'
      BY <2>1, <3>1 DEF Rest, TurnsKeep, StopLast, workVars
    <3> QED
      BY <2>2, <2>3, <3>1, <3>2, WorkStep
  <2>5. CASE Idle
    <3>1. CallReload("apply") /\ "apply" \in Kinds \ {"stop"}
      BY <1>1, <2>5 DEF Apply, Kinds
    <3>2. Idle'
      BY <2>1, <2>5 DEF Idle, hostVars, workVars
    <3> QED
      BY <2>1, <2>2, <2>3, <3>1, <3>2, CallKeeps, WorkStep DEF Rest
  <2> QED
    BY <2>4, <2>5
<1>2. CASE Enter
  <2>1. /\ pc = "entering"
        /\ UNCHANGED <<desired, active, closing, runtime, open, hostVars, resolver,
                       workVars, timeouts, history>>
    BY <1>2 DEF Enter
  <2>2. pc # "free" /\ pc \notin WithCandidate
    BY <2>1 DEF WithCandidate
  <2>3. CASE closing \/ ~Idle
    <3>1. Leave /\ (stopped' = stopped \/ (stopped' = "sealed" /\ Head(callers) = "stop"))
      BY <1>2, <2>3 DEF Enter
    <3> QED
      BY <2>1, <2>2, <3>1, LeaveStep
  <2>4. CASE ~(closing \/ ~Idle)
    <3>1. /\ pc' = "building" /\ ready' = FALSE
          /\ UNCHANGED <<callers, cand, prev, timedOut, stopped>>
      BY <1>2, <2>4 DEF Enter, Build
    <3>2. pc' \notin Unheld /\ pc' \notin WithCandidate
      BY <3>1 DEF Unheld, WithCandidate
    <3>3. TurnsKeep'
      BY <2>1, <2>4, <3>1, <3>2 DEF TurnsKeep, Idle, workVars
    <3>4. JobsUp' /\ StopLast'
      BY <2>1, <3>1 DEF Rest, JobsUp, StopLast, hostVars, workVars
    <3>5. Candidate' /\ Opened' /\ Scheduler' /\ ServiceBound'
      BY <2>1, <2>2, <3>1, <3>2, HostKept DEF Rest, hostVars, history
    <3>6. ClosingOrder'
      BY <2>1, <2>4, <3>1 DEF Rest, ClosingOrder
    <3> QED
      BY <3>3, <3>4, <3>5, <3>6 DEF Rest
  <2> QED
    BY <2>3, <2>4
<1>3. CASE Built
  <2>1. /\ pc = "building" /\ pc' \in {"starting", "discarding", "dropping"}
        /\ pc' = "discarding" => closing
        /\ UNCHANGED <<ready, closing, callers, runtime, hostVars, workVars, stopped, history>>
    BY <1>3 DEF Built
  <2>2. PICK c \in Fresh : cand' = c /\ open' = open \union {c}
    BY <1>3 DEF Built
  <2>3. pc \notin Unheld /\ pc' \notin Unheld /\ pc \notin WithCandidate /\ pc' \in WithCandidate
        /\ pc \notin Activating /\ pc' \notin Activating
    BY <2>1 DEF Unheld, WithCandidate, Activating
  <2>4. stopped = "no"
    BY <2>3 DEF Rest, ClosingOrder
  <2>5. c \in Id /\ c # runtime /\ c \notin abandoned
    BY <2>4 DEF Fresh, Rest, Opened
  <2>6. TurnsKeep' /\ JobsUp' /\ StopLast'
    BY <2>1, <2>3 DEF Rest, TurnsKeep, JobsUp, StopLast, hostVars, workVars
  <2>7. Candidate'
    BY <2>1, <2>2, <2>3, <2>5 DEF Candidate, history
  <2>8. Opened'
    BY <2>1, <2>2, <2>3, <2>4 DEF Rest, Opened, history
  <2>9. Scheduler' /\ ServiceBound'
    BY <2>1, <2>3 DEF Rest, Scheduler, ServiceBound, hostVars, history, Activating
  <2>10. ClosingOrder'
    BY <2>1, <2>4 DEF Rest, ClosingOrder
  <2> QED
    BY <2>6, <2>7, <2>8, <2>9, <2>10 DEF Rest
<1>4. CASE BuildFails
  <2>1. pc # "free" /\ pc \notin WithCandidate
    BY <1>4 DEF BuildFails, WithCandidate
  <2> QED
    BY <1>4, <2>1, LeaveStep DEF BuildFails
<1>5. CASE Started
  <2>1. /\ pc = "starting" /\ pc' \in {"discarding", "dropping", "stopping"}
        /\ UNCHANGED <<ready, closing, callers, cand, runtime, open, service, workVars,
                       stopped, history>>
    BY <1>5 DEF Started, BeginActivation
  <2>2. pc \notin Unheld /\ pc' \notin Unheld /\ pc \in WithCandidate /\ pc' \in WithCandidate
        /\ pc \notin Activating
    BY <2>1 DEF Unheld, WithCandidate, Activating
  <2>3. TurnsKeep' /\ StopLast' /\ Opened'
    BY <2>1, <2>2 DEF Rest, TurnsKeep, StopLast, Opened, workVars, history
  <2>4. CASE closing \/ ~Idle
    <3>1. UNCHANGED <<prev, up, tools>> /\ pc' # "stopping" /\ (pc' = "discarding" => closing)
      BY <1>5, <2>4 DEF Started
    <3>2. pc' \notin Activating
      BY <2>1, <3>1 DEF Activating
    <3>3. JobsUp' /\ Candidate'
      BY <2>1, <2>2, <3>1, <3>2 DEF Rest, JobsUp, Candidate, workVars, history
    <3>4. Scheduler' /\ ServiceBound'
      BY <2>1, <2>2, <3>1, <3>2 DEF Rest, Scheduler, ServiceBound, Activating, history
    <3>5. ClosingOrder'
      BY <2>1, <2>2, <3>1 DEF Rest, ClosingOrder
    <3> QED
      BY <2>3, <3>3, <3>4, <3>5 DEF Rest
  <2>5. CASE ~(closing \/ ~Idle)
    <3>1. pc' = "stopping" /\ prev' = service /\ up' = up \ {service} /\ tools' = tools \ {service}
      BY <1>5, <2>5 DEF Started, BeginActivation, StopsService
    <3>2. JobsUp'
      BY <2>1, <2>5, <3>1 DEF Rest, JobsUp, Idle, workVars
    <3>3. Candidate'
      BY <2>1, <2>2, <3>1 DEF Rest, Candidate, TypeOK, history
    <3>4. Scheduler'
      BY <2>1, <3>1 DEF Rest, Scheduler
    <3>5. ServiceBound'
      <4>1. pc' \in Activating
        BY <3>1 DEF Activating
      <4> QED
        BY <2>1, <2>2, <3>1, <4>1 DEF Rest, ServiceBound, history
    <3>6. ClosingOrder'
      BY <2>1, <2>2, <3>1 DEF Rest, ClosingOrder
    <3> QED
      BY <2>3, <3>2, <3>3, <3>4, <3>5, <3>6 DEF Rest
  <2> QED
    BY <2>4, <2>5
<1>6. CASE StartFails
  <2>1. /\ pc = "starting" /\ pc' = "failing"
        /\ UNCHANGED <<ready, closing, callers, cand, prev, runtime, open, hostVars, workVars,
                       stopped, history>>
    BY <1>6 DEF StartFails
  <2>2. pc \notin Unheld /\ pc' \notin Unheld /\ pc \in WithCandidate /\ pc' \in WithCandidate
        /\ pc \notin Activating /\ pc' \notin Activating
    BY <2>1 DEF Unheld, WithCandidate, Activating
  <2>3. TurnsKeep' /\ JobsUp' /\ StopLast' /\ ClosingOrder'
    BY <2>1, <2>2 DEF Rest, TurnsKeep, JobsUp, StopLast, ClosingOrder, hostVars, workVars
  <2>4. Candidate' /\ Opened'
    BY <2>1, <2>2 DEF Rest, Candidate, Opened, history
  <2>5. Scheduler' /\ ServiceBound'
    BY <2>1, <2>2 DEF Rest, Scheduler, ServiceBound, Activating, hostVars, history
  <2> QED
    BY <2>3, <2>4, <2>5 DEF Rest
<1>7. CASE ServiceStopped
  <2>1. /\ pc = "stopping" /\ pc' \in {"publishing", "undoing"}
        /\ UNCHANGED <<ready, closing, callers, cand, prev, runtime, open, workVars,
                       stopped, history>>
    BY <1>7 DEF ServiceStopped
  <2>2. /\ pc \notin Unheld /\ pc' \notin Unheld /\ pc \in WithCandidate /\ pc' \in WithCandidate
        /\ pc \in Activating /\ pc' \in Activating
    BY <2>1 DEF Unheld, WithCandidate, Activating
  <2>3. TurnsKeep' /\ StopLast' /\ ClosingOrder'
    BY <2>1, <2>2 DEF Rest, TurnsKeep, StopLast, ClosingOrder, workVars
  <2>4. Candidate' /\ Opened'
    BY <2>1, <2>2 DEF Rest, Candidate, Opened, history
  <2>5. ServiceBound'
    BY <2>1, <2>2 DEF Rest, ServiceBound, history
  <2>6. up = {} /\ tools = {} /\ \A j \in Job : used[j] \notin Id
    BY <2>1 DEF Rest, Scheduler, JobsUp
  <2>7. JobsUp'
    BY <2>1, <2>6 DEF JobsUp, workVars
  <2>8. Scheduler'
    <3>1. CASE pc' = "publishing" /\ service' = cand /\ up' = up \union {cand} /\ tools' = tools \union {cand}
      BY <2>1, <2>6, <3>1 DEF Scheduler
    <3>2. CASE pc' = "undoing" /\ UNCHANGED hostVars
      BY <2>1, <2>6, <3>2 DEF Scheduler, hostVars
    <3> QED
      BY <1>7, <3>1, <3>2 DEF ServiceStopped
  <2> QED
    BY <2>3, <2>4, <2>5, <2>7, <2>8 DEF Rest
<1>8. CASE Published
  <2>1. /\ pc = "publishing"
        /\ UNCHANGED <<ready, closing, callers, prev, open, hostVars, workVars, stopped, abandoned>>
    BY <1>8 DEF Published
  <2>2. /\ pc \notin Unheld /\ pc \in WithCandidate /\ pc \in Activating
    BY <2>1 DEF Unheld, WithCandidate, Activating
  <2>3. stopped = "no" /\ open = {runtime, cand} \union abandoned /\ runtime \notin abandoned
        /\ cand \in Id /\ cand # runtime /\ cand \notin abandoned
    BY <2>2 DEF Rest, ClosingOrder, Opened, Candidate
  <2>4. service = cand /\ up = {cand} /\ tools = {cand}
    BY <2>1 DEF Rest, Scheduler
  <2>5. pc' \in {"discarding", "retiring"} /\ (pc' = "discarding" => closing)
    BY <1>8 DEF Published
  <2>6. pc' \notin Unheld /\ pc' \in WithCandidate /\ pc' \notin Activating
    BY <2>5 DEF Unheld, WithCandidate, Activating
  <2>7. TurnsKeep'
    BY <2>1, <2>2, <2>6 DEF Rest, TurnsKeep, workVars
  <2>8. JobsUp' /\ StopLast' /\ ClosingOrder'
    BY <2>1, <2>3, <2>5 DEF Rest, JobsUp, StopLast, ClosingOrder, hostVars, workVars
  <2>9. Scheduler'
    BY <2>1, <2>4, <2>5 DEF Scheduler, hostVars
  <2>10. CASE closing
    <3>1. UNCHANGED <<runtime, cand>> /\ closing'
      BY <1>8, <2>10 DEF Published
    <3>2. Candidate' /\ Opened' /\ ServiceBound'
      BY <2>1, <2>2, <2>3, <2>6, <3>1 DEF Candidate, Opened, ServiceBound
    <3> QED
      BY <2>7, <2>8, <2>9, <3>2 DEF Rest
  <2>11. CASE ~closing
    <3>1. runtime' = cand /\ cand' = runtime
      BY <1>8, <2>11 DEF Published
    <3>2. Candidate'
      BY <2>1, <2>3, <2>6, <3>1 DEF Candidate, TypeOK
    <3>3. Opened'
      BY <2>1, <2>3, <2>6, <3>1 DEF Opened
    <3>4. ServiceBound'
      BY <2>1, <2>4, <2>6, <3>1 DEF ServiceBound, hostVars
    <3> QED
      BY <2>7, <2>8, <2>9, <3>2, <3>3, <3>4 DEF Rest
  <2> QED
    BY <2>10, <2>11
<1>9. ASSUME pc = "publishing", StopCandidate,
             UNCHANGED <<ready, closing, callers, cand, prev, runtime, open, stopped, history>>
      PROVE  Rest'
  <2>1. /\ pc' = "undoing" /\ up' = up \ {cand} /\ tools' = tools \ {cand} /\ place' = place
        /\ service' = service
        /\ used' = [w \in Turn \union Job |-> IF w \in Job /\ used[w] = cand THEN Ended ELSE used[w]]
    BY <1>9 DEF StopCandidate
  <2>2. /\ pc \notin Unheld /\ pc' \notin Unheld /\ pc \in WithCandidate /\ pc' \in WithCandidate
        /\ pc \in Activating /\ pc' \in Activating
    BY <1>9, <2>1 DEF Unheld, WithCandidate, Activating
  <2>3. TurnsKeep' /\ StopLast' /\ ClosingOrder'
    BY <1>9, <2>1, <2>2 DEF Rest, TurnsKeep, StopLast, ClosingOrder
  <2>4. Candidate' /\ Opened' /\ ServiceBound'
    BY <1>9, <2>2 DEF Rest, Candidate, Opened, ServiceBound, history
  <2>5. JobsUp'
    BY <1>9, <2>1 DEF Rest, JobsUp
  <2>6. Scheduler'
    BY <1>9, <2>1 DEF Rest, Scheduler
  <2> QED
    BY <2>3, <2>4, <2>5, <2>6 DEF Rest
<1>10. CASE PublishFails
  BY <1>9, <1>10 DEF PublishFails
<1>11. CASE Undone
  <2>1. /\ pc = "undoing" /\ pc' \in {"cancelling", "failing"}
        /\ service' = prev /\ up' = up \union {prev} /\ tools' = tools \union {prev}
        /\ UNCHANGED <<ready, closing, callers, cand, prev, runtime, open, workVars, stopped, history>>
    BY <1>11 DEF Undone, RestoredService
  <2>2. /\ pc \notin Unheld /\ pc' \notin Unheld /\ pc \in WithCandidate /\ pc' \in WithCandidate
        /\ pc \in Activating /\ pc' \notin Activating
    BY <2>1 DEF Unheld, WithCandidate, Activating
  <2>3. TurnsKeep' /\ StopLast' /\ ClosingOrder' /\ JobsUp'
    BY <2>1, <2>2 DEF Rest, TurnsKeep, StopLast, ClosingOrder, JobsUp, workVars
  <2>4. Candidate' /\ Opened'
    BY <2>1, <2>2 DEF Rest, Candidate, Opened, history
  <2>5. up = {} /\ tools = {}
    BY <2>1 DEF Rest, Scheduler
  <2>6. Scheduler'
    BY <2>1, <2>5 DEF Scheduler
  <2>7. ServiceBound'
    BY <2>1, <2>2, <2>5 DEF Rest, ServiceBound, history
  <2> QED
    BY <2>3, <2>4, <2>6, <2>7 DEF Rest
<1>12. CASE CloseReturns
  <2>1. pc \in WithCandidate \ Activating /\ Leave /\ open' = open \ {cand}
        /\ UNCHANGED <<closing, runtime, hostVars, workVars, stopped, history>>
    BY <1>12 DEF CloseReturns, Closes, WithCandidate, Activating
  <2>2. PICK lost \in SUBSET {cand} : lost = {}
    OBVIOUS
  <2>3. abandoned' = abandoned \union lost /\ open' = open \ ({cand} \ lost)
    BY <2>1, <2>2 DEF history
  <2> QED
    BY <2>1, <2>3, CloseStep DEF history
<1>13. CASE DeliveryTimesOut
  <2>1. UNCHANGED <<desired, active, closing, runtime, resolver, stopped>>
    BY <1>13 DEF DeliveryTimesOut
  <2>2. CASE CancelWaiting
    <3>1. PICK i \in 1..Len(callers) :
            /\ i # 1 \/ pc = "entering"
            /\ callers' = [k \in 1..(Len(callers) - 1) |-> IF k < i THEN callers[k] ELSE callers[k + 1]]
            /\ pc' = IF i = 1 THEN Handoff(Tail(callers)) ELSE pc
      BY <2>2 DEF CancelWaiting
    <3>2. UNCHANGED <<ready, cand, prev, open, hostVars, workVars, history>>
      BY <2>2 DEF CancelWaiting, workVars
    <3>3. pc' = pc \/ (pc = "entering" /\ pc' \in Unheld)
      BY <3>1 DEF Handoff, Unheld
    <3>4. TurnsKeep'
      <4>1. pc' \in Unheld <=> pc \in Unheld
        BY <3>3 DEF Unheld
      <4> QED
        BY <2>1, <3>2, <4>1 DEF Rest, TurnsKeep, workVars
    <3>5. JobsUp'
      BY <3>2 DEF Rest, JobsUp, hostVars, workVars
    <3>6. Candidate' /\ Opened' /\ Scheduler' /\ ServiceBound'
      <4>1. pc' = pc \/ (pc \notin WithCandidate /\ pc' \notin WithCandidate)
        BY <3>3 DEF Unheld, WithCandidate
      <4> QED
        BY <2>1, <3>2, <4>1, HostKept DEF Rest, hostVars, history
    <3>7. ClosingOrder'
      BY <2>1, <3>3 DEF Rest, ClosingOrder, Unheld
    <3>8. StopLast'
      <4>1. callers \in Seq(Kinds) /\ Len(callers) \in Nat /\ Len(callers') = Len(callers) - 1
        BY <3>1, LenProperties DEF TypeOK
      <4> SUFFICES ASSUME NEW k \in 1..Len(callers'), callers'[k] = "stop"
                   PROVE  closing' /\ stopped' = "no" /\ k = Len(callers')
        BY DEF StopLast
      <4>2. k \in 1..Len(callers) /\ k # Len(callers) /\ k + 1 \in 1..Len(callers)
        BY <4>1
      <4>3. callers'[k] = callers[k] \/ callers'[k] = callers[k + 1]
        BY <3>1, <4>1
      <4>4. callers[k + 1] = "stop"
        BY <4>2, <4>3 DEF Rest, StopLast
      <4>5. closing /\ stopped = "no" /\ k + 1 = Len(callers)
        BY <4>2, <4>4 DEF Rest, StopLast
      <4>6. k = Len(callers')
        BY <4>1, <4>5
      <4> QED
        BY <2>1, <4>5, <4>6
    <3> QED
      BY <3>4, <3>5, <3>6, <3>7, <3>8 DEF Rest
  <2>3. CASE CancelHolder
    <3>1. CASE pc = "building" /\ Leave /\ UNCHANGED <<target, open, hostVars, workVars, history>>
      <4>1. pc # "free" /\ pc \notin WithCandidate
        BY <3>1 DEF WithCandidate
      <4> QED
        BY <2>1, <3>1, <4>1, LeaveStep
    <3>2. CASE pc \in {"starting", "stopping", "undoing", "discarding", "dropping"} /\ CancelCandidate
      <4>1. /\ pc' = "cancelling" /\ interrupted' = (interrupted \/ pc \in {"stopping", "undoing"})
            /\ UNCHANGED <<callers, ready, cand, prev, open, hostVars, workVars, abandoned>>
        BY <3>2 DEF CancelCandidate
      <4>2. /\ pc \notin Unheld /\ pc' \notin Unheld /\ pc \in WithCandidate /\ pc' \in WithCandidate
            /\ pc' \notin Activating
        BY <3>2, <4>1 DEF Unheld, WithCandidate, Activating
      <4>3. TurnsKeep' /\ JobsUp' /\ StopLast' /\ ClosingOrder'
        BY <2>1, <4>1, <4>2 DEF Rest, TurnsKeep, JobsUp, StopLast, ClosingOrder, hostVars, workVars
      <4>4. Candidate' /\ Opened'
        BY <2>1, <4>1, <4>2 DEF Rest, Candidate, Opened
      <4>5. Scheduler'
        BY <4>1 DEF Rest, Scheduler, hostVars
      <4>6. ServiceBound'
        <5>1. SUFFICES ASSUME ~closing', ~interrupted'
                       PROVE  service' = runtime' /\ up' = {runtime'} /\ tools' = {runtime'}
          BY <4>2 DEF ServiceBound
        <5>2. ~closing /\ ~interrupted /\ pc \notin Activating
          BY <2>1, <3>2, <4>1, <5>1 DEF Activating
        <5> QED
          BY <2>1, <4>1, <5>2 DEF Rest, ServiceBound, hostVars
      <4> QED
        BY <4>3, <4>4, <4>5, <4>6 DEF Rest
    <3>3. CASE pc = "publishing" /\ StopCandidate /\ UNCHANGED <<callers, state, ready, target, cand, prev, open, history>>
      BY <1>9, <2>1, <3>3
    <3>4. CASE pc \in {"failing", "retiring"} /\ CancelClose
      <4>1. PICK lost \in SUBSET {cand} :
              abandoned' = abandoned \union lost /\ open' = open \ ({cand} \ lost)
        BY <3>4 DEF CancelClose
      <4>2. pc \in WithCandidate \ Activating
        BY <3>4 DEF WithCandidate, Activating
      <4> QED
        BY <2>1, <3>4, <4>1, <4>2, CloseStep DEF CancelClose
    <3> QED
      BY <2>3, <3>1, <3>2, <3>3, <3>4 DEF CancelHolder
  <2> QED
    BY <1>13, <2>2, <2>3 DEF DeliveryTimesOut
<1>14. ASSUME NEW t \in Turn, Accept(t) PROVE Rest'
  <2>1. UNCHANGED <<pc, ready, callers, used, Quiescent>> /\ place' = [place EXCEPT ![t] = "accepted"]
    BY <1>14 DEF Accept
  <2>2. TurnsKeep'
    BY <2>1 DEF Rest, TurnsKeep, TypeOK, Quiescent
  <2>3. JobsUp' /\ StopLast'
    BY <2>1 DEF Rest, JobsUp, StopLast, Quiescent, hostVars
  <2> QED
    BY <2>1, <2>2, <2>3, WorkStep
<1>15. ASSUME NEW t \in Turn, Begin(t) PROVE Rest'
  <2>1. /\ ready /\ UNCHANGED <<pc, ready, callers, Quiescent>>
        /\ place' = [place EXCEPT ![t] = "running"] /\ used' = [used EXCEPT ![t] = runtime]
    BY <1>15 DEF Begin, RuntimeReady
  <2>2. TurnsKeep'
    <3>1. pc' \in Unheld /\ ready'
      BY <2>1 DEF Rest, TurnsKeep
    <3>2. ASSUME NEW u \in Turn, place'[u] = "running" PROVE used'[u] = runtime'
      BY <2>1, <3>2 DEF Rest, TurnsKeep, TypeOK, Quiescent
    <3> QED
      BY <3>1, <3>2 DEF TurnsKeep
  <2>3. JobsUp' /\ StopLast'
    BY <2>1 DEF Rest, JobsUp, StopLast, TypeOK, Quiescent, hostVars
  <2> QED
    BY <2>1, <2>2, <2>3, WorkStep
<1>16. ASSUME NEW t \in Turn, End(t) PROVE Rest'
  <2>1. PICK kind \in Kinds \ {"stop"} : NotifyIdle(kind)
    BY <1>16 DEF End, Kinds
  <2>2. /\ UNCHANGED <<Quiescent, runtime, closing, stopped, up>>
        /\ place' = [place EXCEPT ![t] = "none"] /\ used' = [used EXCEPT ![t] = None]
    BY <1>16 DEF End, Quiescent, hostVars
  <2>3. \A u \in Turn : place'[u] = "running" => place[u] = "running" /\ used'[u] = used[u]
    BY <2>2 DEF TypeOK
  <2>4. JobsUp'
    BY <2>2 DEF Rest, JobsUp, TypeOK
  <2>5. TurnsKeep' /\ StopLast' /\ (pc' = pc \/ (~closing /\ pc = "free" /\ pc' = "building"))
    BY <2>1, <2>2, <2>3, NotifyKeeps DEF Rest
  <2> QED
    BY <2>2, <2>4, <2>5, WorkStep
<1>17. ASSUME NEW t \in Turn, Reject(t) PROVE Rest'
  <2>1. NotifyIdle("task") /\ "task" \in Kinds \ {"stop"}
    BY <1>17 DEF Reject, Kinds
  <2>2. /\ UNCHANGED <<Quiescent, runtime, closing, stopped, up, used>>
        /\ place' = [place EXCEPT ![t] = "none"]
    BY <1>17 DEF Reject, Quiescent, hostVars
  <2>3. \A u \in Turn : place'[u] = "running" => place[u] = "running" /\ used'[u] = used[u]
    BY <2>2 DEF TypeOK
  <2>4. JobsUp'
    BY <2>2 DEF Rest, JobsUp
  <2>5. TurnsKeep' /\ StopLast' /\ (pc' = pc \/ (~closing /\ pc = "free" /\ pc' = "building"))
    BY <2>1, <2>2, <2>3, NotifyKeeps DEF Rest
  <2> QED
    BY <2>2, <2>4, <2>5, WorkStep
<1>18. ASSUME NEW j \in Job, StartJob(j) PROVE Rest'
  <2>1. UNCHANGED <<pc, ready, callers, place, Quiescent, up, runtime, closing, stopped>>
    BY <1>18 DEF StartJob, Quiescent, hostVars
  <2>2. PICK s \in up : used' = [used EXCEPT ![j] = s]
    BY <1>18 DEF StartJob
  <2>3. TurnsKeep'
    BY <2>1, <2>2 DEF Rest, TurnsKeep, TypeOK
  <2>4. JobsUp' /\ StopLast'
    BY <2>1, <2>2 DEF Rest, JobsUp, StopLast, TypeOK
  <2> QED
    BY <2>1, <2>3, <2>4, WorkStep
<1>19. ASSUME NEW j \in Job, EndJob(j) PROVE Rest'
  <2>1. UNCHANGED <<pc, ready, callers, place, Quiescent, up, runtime, closing, stopped>>
        /\ used' = [used EXCEPT ![j] = Ended]
    BY <1>19 DEF EndJob, Quiescent, hostVars
  <2>2. TurnsKeep'
    BY <2>1 DEF Rest, TurnsKeep, TypeOK
  <2>3. JobsUp' /\ StopLast'
    BY <2>1 DEF Rest, JobsUp, StopLast, TypeOK
  <2> QED
    BY <2>1, <2>2, <2>3, WorkStep
<1>20. ASSUME NEW j \in Job, IdleCheck(j) PROVE Rest'
  <2>1. NotifyIdle("task") /\ "task" \in Kinds \ {"stop"}
    BY <1>20 DEF IdleCheck, Kinds
  <2>2. /\ UNCHANGED <<Quiescent, runtime, closing, stopped, up, place>>
        /\ used' = [used EXCEPT ![j] = None]
    BY <1>20 DEF IdleCheck, Quiescent, hostVars
  <2>3. \A u \in Turn : place'[u] = "running" => place[u] = "running" /\ used'[u] = used[u]
    BY <2>2 DEF TypeOK
  <2>4. JobsUp'
    BY <2>2 DEF Rest, JobsUp, TypeOK
  <2>5. TurnsKeep' /\ StopLast' /\ (pc' = pc \/ (~closing /\ pc = "free" /\ pc' = "building"))
    BY <2>1, <2>2, <2>3, NotifyKeeps DEF Rest
  <2> QED
    BY <2>2, <2>4, <2>5, WorkStep
<1>21. CASE StopReloads
  <2>1. /\ ~closing /\ closing'
        /\ UNCHANGED <<ready, pc, cand, prev, runtime, open, hostVars, workVars, history>>
    BY <1>21 DEF StopReloads, reloadVars
  <2>2. TurnsKeep' /\ JobsUp' /\ Candidate' /\ Scheduler'
    BY <2>1 DEF Rest, TurnsKeep, JobsUp, Candidate, Scheduler, hostVars, workVars, history
  <2>3. ServiceBound'
    BY <2>1 DEF ServiceBound
  <2>4. stopped = "no"
    BY <2>1 DEF Rest, ClosingOrder
  <2>5. CASE callers = <<>>
    <3>1. stopped' = "sealed" /\ callers' = callers /\ pc = "free"
      BY <1>21, <2>5 DEF StopReloads, TypeOK
    <3>2. Opened' /\ ClosingOrder'
      BY <2>1, <2>4, <3>1 DEF Rest, Opened, ClosingOrder, Unheld, history
    <3>3. StopLast'
      BY <2>5, <3>1, EmptySeq DEF StopLast
    <3> QED
      BY <2>2, <2>3, <3>2, <3>3 DEF Rest
  <2>6. CASE callers # <<>>
    <3>1. stopped' = "no" /\ callers' = Append(callers, "stop")
      BY <1>21, <2>6 DEF StopReloads
    <3>2. Opened' /\ ClosingOrder'
      BY <2>1, <2>4, <3>1 DEF Rest, Opened, ClosingOrder, history
    <3>3. StopLast'
      <4>1. callers \in Seq(Kinds) /\ Len(callers) \in Nat /\ "stop" \in Kinds
        BY LenProperties DEF TypeOK, Kinds
      <4>2. /\ Len(callers') = Len(callers) + 1
            /\ \A i \in 1..Len(callers) : callers'[i] = callers[i]
        BY <3>1, <4>1, AppendProperties
      <4>3. \A i \in 1..Len(callers) : callers[i] # "stop"
        BY <2>1 DEF Rest, StopLast
      <4>4. \A i \in 1..Len(callers') : callers'[i] = "stop" => i = Len(callers')
        BY <4>1, <4>2, <4>3
      <4> QED
        BY <2>1, <3>1, <4>4 DEF StopLast
    <3> QED
      BY <2>2, <2>3, <3>2, <3>3 DEF Rest
  <2> QED
    BY <2>5, <2>6
<1>22. CASE StopService
  <2>1. /\ stopped = "sealed" /\ stopped' = "serviceStopped" /\ up' = up \ {service}
        /\ used' = [w \in Turn \union Job |-> IF w \in Job /\ used[w] = service THEN Ended ELSE used[w]]
        /\ UNCHANGED <<ready, closing, callers, pc, cand, prev, runtime, open, service, tools,
                       place, history>>
    BY <1>22 DEF StopService, reloadVars
  <2>2. closing /\ pc \in Unheld
    BY <2>1 DEF Rest, ClosingOrder
  <2>3. pc \notin WithCandidate /\ pc \notin Activating /\ pc # "discarding"
    BY <2>2 DEF Unheld, WithCandidate, Activating
  <2>4. TurnsKeep'
    BY <2>1 DEF Rest, TurnsKeep
  <2>5. JobsUp'
    BY <2>1 DEF Rest, JobsUp, Scheduler
  <2>6. Candidate' /\ Opened'
    BY <2>1, <2>3 DEF Rest, Candidate, Opened, history
  <2>7. Scheduler'
    BY <2>1, <2>3 DEF Rest, Scheduler, Activating
  <2>8. ServiceBound' /\ ClosingOrder'
    BY <2>1, <2>2, <2>3 DEF ServiceBound, ClosingOrder
  <2>9. StopLast'
    BY <2>1 DEF Rest, StopLast
  <2> QED
    BY <2>4, <2>5, <2>6, <2>7, <2>8, <2>9 DEF Rest
<1>23. CASE CloseRuntime
  <2>1. /\ stopped = "serviceStopped" /\ stopped' = "closed" /\ open' = open \ {runtime}
        /\ place' = [t \in Turn |-> "none"]
        /\ used' = [w \in Turn \union Job |-> IF w \in Turn THEN None ELSE used[w]]
        /\ UNCHANGED <<ready, closing, callers, pc, cand, prev, runtime, hostVars, history>>
    BY <1>23 DEF CloseRuntime, reloadVars
  <2>2. closing /\ pc \in Unheld
    BY <2>1 DEF Rest, ClosingOrder
  <2>3. pc \notin WithCandidate /\ pc \notin Activating /\ pc # "discarding"
    BY <2>2 DEF Unheld, WithCandidate, Activating
  <2>4. TurnsKeep'
    BY <2>1 DEF Rest, TurnsKeep
  <2>5. JobsUp'
    BY <2>1 DEF Rest, JobsUp, hostVars
  <2>6. Candidate' /\ Opened'
    BY <2>1, <2>3 DEF Rest, Candidate, Opened, history
  <2>7. Scheduler' /\ ServiceBound' /\ ClosingOrder'
    BY <2>1, <2>2, <2>3 DEF Rest, Scheduler, ServiceBound, ClosingOrder, hostVars
  <2>8. StopLast'
    BY <2>1 DEF Rest, StopLast
  <2> QED
    BY <2>4, <2>5, <2>6, <2>7, <2>8 DEF Rest
<1>24. CASE UNCHANGED vars
  <2>1. UNCHANGED <<ready, closing, callers, pc, cand, prev, runtime, open, hostVars, workVars,
                    stopped, history>>
    BY <1>24 DEF vars, reloadVars
  <2>2. TurnsKeep' /\ JobsUp' /\ ClosingOrder' /\ StopLast'
    BY <2>1 DEF Rest, TurnsKeep, JobsUp, ClosingOrder, StopLast, hostVars, workVars
  <2>3. Candidate' /\ Opened' /\ Scheduler' /\ ServiceBound'
    BY <2>1, HostKept DEF Rest, hostVars, history
  <2> QED
    BY <2>2, <2>3 DEF Rest
<1> QED
  BY <1>1, <1>2, <1>3, <1>4, <1>5, <1>6, <1>7, <1>8, <1>10, <1>11, <1>12, <1>13, <1>14, <1>15,
     <1>16, <1>17, <1>18, <1>19, <1>20, <1>21, <1>22, <1>23, <1>24 DEF Next, Holder

-----------------------------------------------------------------------------
(* The invariant of every behaviour: however requests, turns, jobs, reloads, *)
(* their failures, their cancellations and the closing of the Gateway are    *)
(* interleaved.                                                              *)
THEOREM Invariant == Spec => []IInv
<1>1. Init => IInv
  BY InvInit
<1>2. IInv /\ [Next]_vars => IInv'
  <2> SUFFICES ASSUME IInv, [Next]_vars PROVE IInv'
    OBVIOUS
  <2>1. TypeOK /\ Rest /\ Candidate
    BY DEF IInv, Rest
  <2> QED
    BY <2>1, TypeStep, RestStep DEF IInv, Rest
<1> QED
  BY <1>1, <1>2, PTL DEF Spec

(* RuntimeSupervisor and GatewayHost keep their fields in their types; in    *)
(* particular _active_revision never gets ahead of _desired_revision.        *)
THEOREM TypeCorrect == Spec => []TypeOK
BY Invariant, PTL DEF IInv

(* acquire_runtime and _reload: a turn that runs keeps the committed Runtime, *)
(* which stays open, until it ends; a proactive job never works on a closed   *)
(* one unless an activation was cancelled.                                    *)
THEOREM WorkIsOnOpenRuntime == Spec => []WorkOnOpenRuntime
<1>1. IInv => WorkOnOpenRuntime
  <2> SUFFICES ASSUME IInv, ~closing
               PROVE  /\ \A t \in Turn : place[t] = "running" => used[t] = runtime
                      /\ runtime \in open
                      /\ interrupted \/ \A j \in Job : used[j] \in Id => used[j] \in open
    BY DEF WorkOnOpenRuntime
  <2>1. \A t \in Turn : place[t] = "running" => used[t] = runtime
    BY DEF IInv, TurnsKeep
  <2>2. runtime \in open
    BY DEF IInv, ClosingOrder, Opened
  <2>3. ASSUME ~interrupted, NEW j \in Job, used[j] \in Id PROVE used[j] \in open
    <3>1. used[j] \in up
      BY <2>3 DEF IInv, JobsUp
    <3>2. CASE pc \notin Activating
      BY <2>2, <2>3, <3>1, <3>2 DEF IInv, ServiceBound
    <3>3. CASE pc \in {"stopping", "undoing"}
      BY <3>1, <3>3 DEF IInv, Scheduler
    <3>4. CASE pc = "publishing"
      <4>1. pc \in WithCandidate
        BY <3>4 DEF WithCandidate
      <4> QED
        BY <3>1, <3>4, <4>1 DEF IInv, Scheduler, Opened
    <3> QED
      BY <3>2, <3>3, <3>4 DEF Activating
  <2> QED
    BY <2>1, <2>2, <2>3
<1> QED
  BY <1>1, Invariant, PTL

(* _activate_runtime and its failure and cancellation paths: the schedulers  *)
(* of two Runtimes never run at the same time.                               *)
THEOREM AtMostOneScheduler == Spec => []OneScheduler
<1>1. IInv => OneScheduler
  BY DEF IInv, Scheduler, OneScheduler
<1> QED
  BY <1>1, Invariant, PTL

(* After every reload, whatever its outcome, the Host's proactive service    *)
(* and the tools are those of the committed Runtime, unless an activation    *)
(* was cancelled.                                                            *)
THEOREM ServiceOfRuntime == Spec => []ServiceFollowsRuntime
<1>1. IInv => ServiceFollowsRuntime
  BY DEF IInv, ServiceBound, ServiceFollowsRuntime, AtRest, Activating
<1> QED
  BY <1>1, Invariant, PTL

(* After every reload, whatever its outcome, the only Runtimes open are the  *)
(* committed one and those whose close was itself cancelled.                 *)
THEOREM NothingLeaks == Spec => []NoLeakedRuntime
<1>1. IInv => NoLeakedRuntime
  BY DEF IInv, Opened, NoLeakedRuntime, AtRest, WithCandidate
<1> QED
  BY <1>1, Invariant, PTL
-----------------------------------------------------------------------------
(* RevisionIsFollowed.  Whoever is in the queue and has still to look at    *)
(* the revision: all of them while the lock is being handed over, all but   *)
(* the holder otherwise.                                                    *)
Replacing == {"building", "starting", "stopping", "publishing", "undoing"}
FirstWaiting == IF pc = "entering" THEN 1 ELSE 2
Waits(kinds) == \E i \in FirstWaiting..Len(callers) : callers[i] \in kinds
Lasting == Kinds \ {"delivery"}

(* Which states a place of the holder allows. *)
StateFits ==
  /\ pc \in Replacing => state \in {"applying", "pending"}
  /\ state = "applying" => pc \in Replacing \union {"cancelling", "discarding"}
  /\ state = "active" /\ ~closing => pc \in Unheld \union {"retiring"}

(* A revision that nobody works on has an Apply request in the queue, or a *)
(* caller that its delivery's timeout cannot take away.                    *)
ActiveFollowed == state = "active" /\ ~closing => desired = active \/ Waits({"apply"})
ApplyingFollowed == state = "applying" => desired = target \/ Waits({"apply"})
PendingFollowed == state = "pending" /\ Idle /\ ~closing =>
  Waits(Lasting) \/ \E j \in Job : used[j] = Ended

FollowInv == StateFits /\ ActiveFollowed /\ (pc \in Replacing => ApplyingFollowed) /\ PendingFollowed

LEMMA WaitsAppended ==
  ASSUME TypeOK, callers # <<>>, NEW kind \in Kinds, callers' = Append(callers, kind), pc' = pc, NEW kinds
  PROVE  /\ Waits(kinds) => Waits(kinds)'
         /\ kind \in kinds => Waits(kinds)'
<1>1. callers \in Seq(Kinds) /\ Len(callers) \in Nat \ {0}
  BY EmptySeq, LenProperties DEF TypeOK
<1>2. /\ Len(callers') = Len(callers) + 1
      /\ \A i \in 1..Len(callers) : callers'[i] = callers[i]
      /\ callers'[Len(callers) + 1] = kind
  BY <1>1, AppendProperties
<1>3. FirstWaiting' = FirstWaiting /\ FirstWaiting \in {1, 2}
  BY DEF FirstWaiting
<1>4. \A i \in FirstWaiting..Len(callers) :
        i \in FirstWaiting'..Len(callers') /\ callers'[i] = callers[i]
  BY <1>1, <1>2, <1>3
<1>5. Len(callers) + 1 \in FirstWaiting'..Len(callers')
  BY <1>1, <1>2, <1>3
<1> QED
  BY <1>2, <1>4, <1>5 DEF Waits

(* The next caller gets the lock and is then the first that waits. *)
LEMMA WaitsLeft ==
  ASSUME TypeOK, pc \notin Unheld, Leave, NEW kinds, Waits(kinds)
  PROVE  Waits(kinds)'
<1>1. callers \in Seq(Kinds) /\ callers # <<>> /\ callers' = Tail(callers) /\ pc # "entering"
  BY DEF TypeOK, Leave, Unheld
<1>2. /\ Len(callers) \in Nat \ {0} /\ Len(callers') = Len(callers) - 1
      /\ \A i \in 1..Len(callers') : callers'[i] = callers[i + 1]
  BY <1>1, HeadTailProperties, EmptySeq
<1>3. PICK i \in 2..Len(callers) : callers[i] \in kinds
  BY <1>1 DEF Waits, FirstWaiting
<1>4. i - 1 \in 1..Len(callers') /\ callers'[i - 1] \in kinds
  BY <1>2, <1>3
<1>5. callers' # <<>>
  BY <1>2, <1>4, EmptySeq
<1>6. pc' = "entering"
  <2>1. pc' = Handoff(callers')
    BY <1>1 DEF Leave
  <2> QED
    BY <2>1, <1>5 DEF Handoff
<1> QED
  BY <1>4, <1>6 DEF Waits, FirstWaiting

(* A delivery that gives up takes nobody else out of the queue. *)
LEMMA WaitsCancelled ==
  ASSUME TypeOK, CancelWaiting, NEW kinds, "delivery" \notin kinds, Waits(kinds)
  PROVE  Waits(kinds)'
<1>1. PICK i \in 1..Len(callers) :
        /\ callers[i] = "delivery" /\ (i # 1 \/ pc = "entering")
        /\ callers' = [k \in 1..(Len(callers) - 1) |-> IF k < i THEN callers[k] ELSE callers[k + 1]]
        /\ pc' = IF i = 1 THEN Handoff(Tail(callers)) ELSE pc
  BY DEF CancelWaiting
<1>2. callers \in Seq(Kinds) /\ Len(callers) \in Nat /\ callers # <<>>
  BY <1>1, LenProperties, EmptySeq DEF TypeOK
<1>3. PICK j \in FirstWaiting..Len(callers) : callers[j] \in kinds
  BY DEF Waits
<1>4. j # i /\ FirstWaiting \in {1, 2} /\ j \in 1..Len(callers)
  BY <1>1, <1>2, <1>3 DEF FirstWaiting
<1>5. Len(callers') = Len(callers) - 1
  <2>1. DOMAIN callers' = 1..(Len(callers) - 1) /\ Len(callers) - 1 \in Nat
    BY <1>1, <1>2
  <2>2. \A k \in 1..(Len(callers) - 1) : callers'[k] \in Kinds
    <3>1. \A k \in 1..(Len(callers) - 1) :
            (IF k < i THEN callers[k] ELSE callers[k + 1]) \in Kinds
      BY <1>2, ElementOfSeq
    <3> QED
      BY <1>1, <3>1
  <2> QED
    BY <1>1, <1>2, <2>1, <2>2, IsASeq, LenProperties
<1>6. CASE i = 1
  <2>1. Tail(callers) # <<>>
    <3>1. Len(Tail(callers)) = Len(callers) - 1 /\ Len(callers) - 1 # 0
      BY <1>2, <1>4, <1>6, HeadTailProperties
    <3> QED
      BY <3>1, EmptySeq
  <2>2. FirstWaiting' = 1
    BY <1>1, <1>6, <2>1 DEF Handoff, FirstWaiting
  <2>3. j - 1 \in 1..(Len(callers) - 1) /\ callers'[j - 1] = callers[j]
    BY <1>1, <1>2, <1>4, <1>6
  <2> QED
    BY <1>3, <1>5, <2>2, <2>3 DEF Waits
<1>7. CASE i # 1
  <2>1. FirstWaiting' = FirstWaiting
    BY <1>1, <1>7 DEF FirstWaiting
  <2>2. CASE j < i
    <3>1. j \in FirstWaiting'..Len(callers') /\ callers'[j] = callers[j]
      BY <1>1, <1>2, <1>3, <1>4, <1>5, <2>1, <2>2
    <3> QED
      BY <1>3, <3>1 DEF Waits
  <2>3. CASE i < j
    <3>1. j - 1 \in FirstWaiting'..Len(callers') /\ callers'[j - 1] = callers[j]
      BY <1>1, <1>2, <1>3, <1>4, <1>5, <1>7, <2>1, <2>3
    <3> QED
      BY <1>3, <3>1 DEF Waits
  <2> QED
    BY <1>2, <1>4, <2>2, <2>3
<1> QED
  BY <1>6, <1>7

(* A call of _reload: it begins at once, or waits and will look itself. *)
LEMMA CallFollows ==
  ASSUME TypeOK, FollowInv, NEW kind \in Kinds, CallReload(kind), UNCHANGED <<active, closing>>,
         desired' = desired \/ kind = "apply", kind \in Lasting \/ callers = <<>> \/ Waits(Lasting)
  PROVE  FollowInv'
<1>1. CASE callers = <<>>
  <2>1. pc' = "building" /\ state' = "applying" /\ target' = desired'
    BY <1>1 DEF CallReload, Build
  <2> QED
    BY <2>1 DEF FollowInv, StateFits, ActiveFollowed, ApplyingFollowed, PendingFollowed, Replacing
<1>2. CASE callers # <<>>
  <2>1. callers' = Append(callers, kind) /\ UNCHANGED <<pc, state, target>>
    BY <1>2 DEF CallReload
  <2>2. Waits({"apply"}) \/ kind = "apply" => Waits({"apply"})'
    BY <1>2, <2>1, WaitsAppended
  <2>3. Waits(Lasting)'
    BY <1>2, <2>1, WaitsAppended
  <2> QED
    BY <2>1, <2>2, <2>3 DEF FollowInv, StateFits, ActiveFollowed, ApplyingFollowed, PendingFollowed
<1> QED
  BY <1>1, <1>2

LEMMA NotifyFollows ==
  ASSUME TypeOK, FollowInv, NEW kind \in Kinds, NotifyIdle(kind), UNCHANGED <<active, closing>>,
         kind \in Lasting \/ callers = <<>> \/ Waits(Lasting)
  PROVE  FollowInv'
<1>1. CASE Notices
  <2>1. CallReload(kind) /\ desired' = desired
    BY <1>1 DEF NotifyIdle
  <2> QED
    BY <2>1, CallFollows
<1>2. CASE ~Notices
  <2>1. UNCHANGED <<desired, callers, pc, state, target>>
    BY <1>2 DEF NotifyIdle
  <2>2. PendingFollowed'
    BY <1>2, <2>1 DEF Notices, PendingFollowed
  <2> QED
    BY <2>1, <2>2 DEF FollowInv, StateFits, ActiveFollowed, ApplyingFollowed, Waits, FirstWaiting
<1> QED
  BY <1>1, <1>2

(* The lock is released with a state that needs no more, or as it was. *)
LEMMA LeaveFollows ==
  ASSUME TypeOK, FollowInv, pc \notin Unheld, Leave,
         UNCHANGED <<desired, active, closing, service, workVars>>,
         \/ state' = "failed" \/ (state' = "active" /\ closing)
         \/ state' = state /\ state # "applying"
  PROVE  FollowInv'
<1>1. pc' \in Unheld
  BY DEF Leave, Handoff, Unheld
<1>2. StateFits'
  BY <1>1 DEF StateFits, Replacing, Unheld
<1>3. ActiveFollowed'
  BY WaitsLeft DEF FollowInv, ActiveFollowed
<1>4. PendingFollowed'
  BY WaitsLeft DEF FollowInv, PendingFollowed, Idle, workVars
<1> QED
  BY <1>1, <1>2, <1>3, <1>4 DEF FollowInv, Replacing, Unheld

(* Steps under the lock that leave the queue and the work as they are. *)
LEMMA HeldFollows ==
  ASSUME FollowInv, pc \notin Unheld, pc' \notin Unheld, StateFits',
         UNCHANGED <<desired, active, target, callers, closing>>, Idle' => Idle,
         state' = state \/ state' = "failed" \/ (state' = "pending" /\ ~Idle),
         UNCHANGED used, pc' \in Replacing => pc \in Replacing
  PROVE  FollowInv'
<1>1. \A kinds : Waits(kinds) => Waits(kinds)'
  BY DEF Waits, FirstWaiting, Unheld
<1> QED
  BY <1>1 DEF FollowInv, ActiveFollowed, ApplyingFollowed, PendingFollowed

LEMMA FollowInitInv == Init => FollowInv
BY DEF Init, FollowInv, StateFits, ActiveFollowed, ApplyingFollowed, PendingFollowed, Replacing, Unheld

LEMMA FollowStep ==
  ASSUME IInv, FollowInv, [Next]_vars
  PROVE  FollowInv'
<1>0. TypeOK /\ TurnsKeep /\ JobsUp /\ Scheduler /\ ClosingOrder
  BY DEF IInv
<1>1. CASE Apply
  <2>1. /\ desired' = desired + 1 /\ ~closing
        /\ UNCHANGED <<active, closing, place, used, service>>
    BY <1>1 DEF Apply, workVars, hostVars
  <2>2. CASE Idle
    <3>1. CallReload("apply") /\ "apply" \in Lasting
      BY <1>1, <2>2 DEF Apply, Lasting, Kinds
    <3> QED
      BY <1>0, <2>1, <3>1, CallFollows DEF Kinds
  <2>3. CASE ~Idle
    <3>1. state' = "pending" /\ pc' = pc /\ ~Idle'
      BY <1>1, <2>1, <2>3 DEF Apply, Idle
    <3> QED
      BY <3>1 DEF FollowInv, StateFits, ActiveFollowed, ApplyingFollowed, PendingFollowed
  <2> QED
    BY <2>2, <2>3
<1>2. CASE Enter
  <2>1. /\ pc = "entering" /\ UNCHANGED <<desired, active, closing, place, used, service>>
    BY <1>2 DEF Enter, workVars, hostVars
  <2>2. CASE closing \/ ~Idle
    <3>1. /\ state' = IF closing THEN state ELSE "pending"
          /\ pc' \in Unheld
      BY <1>2, <2>2 DEF Enter, Leave, Handoff, Unheld
    <3>2. StateFits'
      BY <2>1, <3>1 DEF FollowInv, StateFits, Replacing, Unheld
    <3>3. ActiveFollowed' /\ PendingFollowed'
      BY <2>1, <2>2, <3>1 DEF ActiveFollowed, PendingFollowed, Idle
    <3> QED
      BY <3>1, <3>2, <3>3 DEF FollowInv, Replacing, Unheld
  <2>3. CASE ~(closing \/ ~Idle)
    <3>1. pc' = "building" /\ state' = "applying" /\ target' = desired'
      BY <1>2, <2>3 DEF Enter, Build
    <3> QED
      BY <3>1 DEF FollowInv, StateFits, ActiveFollowed, ApplyingFollowed, PendingFollowed, Replacing
  <2> QED
    BY <2>2, <2>3
<1>3. CASE Built
  <2>1. /\ pc = "building" /\ UNCHANGED <<desired, active, target, callers, closing, place, used, service>>
        /\ \/ pc' \in {"discarding", "starting"} /\ state' = state
           \/ pc' = "dropping" /\ state' = "pending" /\ ~Idle
        /\ pc' = "discarding" => closing
    BY <1>3 DEF Built, workVars, hostVars
  <2>2. Idle' = Idle
    BY <2>1 DEF Idle
  <2>3. StateFits'
    BY <2>1 DEF FollowInv, StateFits, Replacing, Unheld
  <2> QED
    BY <2>1, <2>2, <2>3, HeldFollows DEF Unheld, Replacing
<1>4. CASE BuildFails
  <2>1. pc = "building" /\ state' = "failed" /\ Leave
        /\ UNCHANGED <<desired, active, closing, service, workVars>>
    BY <1>4 DEF BuildFails, hostVars
  <2> QED
    BY <1>0, <2>1, LeaveFollows DEF Unheld
<1>5. CASE Started
  <2>1. /\ pc = "starting" /\ UNCHANGED <<desired, active, target, callers, closing, place, used, service>>
        /\ \/ pc' \in {"discarding", "stopping"} /\ state' = state
           \/ pc' = "dropping" /\ state' = "pending" /\ ~Idle
        /\ pc' = "discarding" => closing
    BY <1>5 DEF Started, BeginActivation, workVars
  <2>2. Idle' = Idle
    BY <2>1 DEF Idle
  <2>3. StateFits'
    BY <2>1 DEF FollowInv, StateFits, Replacing, Unheld
  <2> QED
    BY <2>1, <2>2, <2>3, HeldFollows DEF Unheld, Replacing
<1>6. CASE StartFails
  <2>1. /\ pc = "starting" /\ pc' = "failing" /\ state' = "failed"
        /\ UNCHANGED <<desired, active, target, callers, closing, place, used, service>>
    BY <1>6 DEF StartFails, hostVars, workVars
  <2>2. Idle' = Idle
    BY <2>1 DEF Idle
  <2>3. StateFits'
    BY <2>1 DEF StateFits, Replacing
  <2> QED
    BY <2>1, <2>2, <2>3, HeldFollows DEF Unheld, Replacing
<1>7. CASE ServiceStopped
  <2>1. /\ pc = "stopping" /\ pc' \in {"publishing", "undoing"} /\ state' = state
        /\ UNCHANGED <<desired, active, target, callers, closing, place, used>>
    BY <1>7 DEF ServiceStopped, workVars
  <2>2. Idle' => Idle
    <3>1. up = {} /\ service \in Id
      BY <1>0, <2>1 DEF Scheduler, TypeOK
    <3>2. \A j \in Job : used[j] # service
      BY <1>0, <3>1 DEF JobsUp
    <3> QED
      BY <2>1, <3>2 DEF Idle
  <2>3. StateFits'
    BY <2>1 DEF FollowInv, StateFits, Replacing, Unheld
  <2> QED
    BY <2>1, <2>2, <2>3, HeldFollows DEF Unheld, Replacing
<1>8. CASE Published
  <2>1. pc = "publishing" /\ UNCHANGED <<desired, callers, closing, target, place, used, service>>
    BY <1>8 DEF Published, hostVars, workVars
  <2>2. Idle' = Idle
    BY <2>1 DEF Idle
  <2>3. CASE closing
    <3>1. pc' = "discarding" /\ UNCHANGED <<active, state>>
      BY <1>8, <2>3 DEF Published
    <3>2. StateFits'
      BY <2>1, <2>3, <3>1 DEF FollowInv, StateFits, Replacing, Unheld
    <3> QED
      BY <2>1, <2>2, <3>1, <3>2, HeldFollows DEF Unheld, Replacing
  <2>4. CASE ~closing
    <3>1. /\ pc' = "retiring" /\ active' = target
          /\ state' = IF desired = target THEN "active" ELSE "pending"
      BY <1>8, <2>4 DEF Published, CommitState
    <3>2. StateFits'
      BY <3>1 DEF StateFits, Replacing
    <3>3. ActiveFollowed'
      BY <2>1, <3>1 DEF ActiveFollowed
    <3>4. ASSUME Idle, desired # target
          PROVE  Waits(Lasting) \/ \E j \in Job : used[j] = Ended
      <4>1. state \in {"applying", "pending"} /\ ApplyingFollowed
        BY <2>1 DEF FollowInv, StateFits, Replacing
      <4>2. Waits({"apply"}) => Waits(Lasting)
        BY DEF Waits, Lasting, Kinds
      <4> QED
        BY <2>4, <3>4, <4>1, <4>2 DEF FollowInv, ApplyingFollowed, PendingFollowed
    <3>5. Waits(Lasting) => Waits(Lasting)'
      BY <2>1, <3>1 DEF Waits, FirstWaiting
    <3>6. PendingFollowed'
      BY <2>1, <2>2, <3>1, <3>4, <3>5 DEF PendingFollowed
    <3> QED
      BY <3>1, <3>2, <3>3, <3>6 DEF FollowInv, Replacing
  <2> QED
    BY <2>3, <2>4
<1>9. ASSUME StopCandidate, pc = "publishing", UNCHANGED <<desired, active, target, callers, closing, state>>
      PROVE  FollowInv'
  <2>1. /\ pc' = "undoing" /\ UNCHANGED <<place, service>>
        /\ \A j \in Job : used'[j] = IF used[j] = cand THEN Ended ELSE used[j]
    BY <1>9 DEF StopCandidate
  <2>2. Idle' => Idle \/ \E j \in Job : used'[j] = Ended
    BY <2>1 DEF Idle
  <2>3. \A j \in Job : used[j] = Ended => used'[j] = Ended
    BY <2>1
  <2>4. \A kinds : Waits(kinds) => Waits(kinds)'
    BY <1>9, <2>1 DEF Waits, FirstWaiting
  <2>5. StateFits'
    BY <1>9, <2>1 DEF FollowInv, StateFits, Replacing, Unheld
  <2>6. PendingFollowed'
    BY <1>9, <2>2, <2>3, <2>4 DEF FollowInv, PendingFollowed
  <2>7. ActiveFollowed'
    BY <1>9, <2>4 DEF FollowInv, ActiveFollowed
  <2>8. ApplyingFollowed'
    BY <1>9, <2>4 DEF FollowInv, ApplyingFollowed, Replacing
  <2> QED
    BY <2>5, <2>6, <2>7, <2>8 DEF FollowInv
<1>10. CASE PublishFails
  BY <1>9, <1>10 DEF PublishFails
<1>11. CASE Undone
  <2>1. /\ pc = "undoing" /\ pc' \in {"cancelling", "failing"}
        /\ state' = IF pc' = "cancelling" THEN state ELSE "failed"
        /\ UNCHANGED <<desired, active, target, callers, closing, place, used>>
    BY <1>11 DEF Undone, workVars
  <2>2. Idle' => Idle
    <3>1. up = {} /\ service \in Id
      BY <1>0, <2>1 DEF Scheduler, TypeOK
    <3>2. \A j \in Job : used[j] # service
      BY <1>0, <3>1 DEF JobsUp
    <3> QED
      BY <2>1, <3>2 DEF Idle
  <2>3. StateFits'
    BY <2>1 DEF FollowInv, StateFits, Replacing, Unheld
  <2> QED
    BY <2>1, <2>2, <2>3, HeldFollows DEF Unheld, Replacing
<1>12. CASE CloseReturns
  <2>1. /\ pc \in {"discarding", "dropping", "failing", "cancelling", "retiring"} /\ Leave
        /\ state' = IF pc = "discarding" THEN "active"
                    ELSE IF pc = "cancelling" THEN CancelledState ELSE state
        /\ UNCHANGED <<desired, active, closing, service, workVars>>
    BY <1>12 DEF CloseReturns, hostVars
  <2>2. pc = "discarding" => closing
    BY <1>0 DEF ClosingOrder
  <2>3. pc \notin {"cancelling", "discarding"} => state # "applying"
    BY <2>1 DEF FollowInv, StateFits, Replacing
  <2>4. \/ state' = "failed" \/ (state' = "active" /\ closing)
        \/ state' = state /\ state # "applying"
    BY <2>1, <2>2, <2>3 DEF CancelledState
  <2>5. pc \notin Unheld
    BY <2>1 DEF Unheld
  <2> QED
    BY <1>0, <2>1, <2>4, <2>5, LeaveFollows
<1>13. CASE DeliveryTimesOut
  <2>1. UNCHANGED <<desired, active, closing>>
    BY <1>13 DEF DeliveryTimesOut
  <2>2. CASE CancelWaiting
    <3>1. /\ UNCHANGED <<state, target, place, used, service>>
          /\ pc' = pc \/ (pc = "entering" /\ pc' \in Unheld)
      BY <2>2 DEF CancelWaiting, Handoff, Unheld, hostVars
    <3>2. /\ Waits({"apply"}) => Waits({"apply"})'
          /\ Waits(Lasting) => Waits(Lasting)'
      BY <1>0, <2>2, WaitsCancelled DEF Lasting
    <3>3. StateFits'
      BY <2>1, <3>1 DEF FollowInv, StateFits, Replacing, Unheld
    <3>4. PendingFollowed' /\ ActiveFollowed'
      BY <2>1, <3>1, <3>2 DEF FollowInv, PendingFollowed, ActiveFollowed, Idle
    <3>5. pc' \in Replacing => ApplyingFollowed'
      BY <2>1, <3>1, <3>2 DEF FollowInv, ApplyingFollowed, Replacing, Unheld
    <3> QED
      BY <3>3, <3>4, <3>5 DEF FollowInv
  <2>3. CASE CancelHolder
    <3>1. CASE pc = "building" /\ state' = CancelledState /\ Leave /\ UNCHANGED <<target, open, hostVars, workVars, history>>
      <4>1. state' = "failed" \/ (state' = "active" /\ closing)
        BY <3>1 DEF CancelledState
      <4> QED
        BY <1>0, <2>1, <3>1, <4>1, LeaveFollows DEF Unheld, hostVars
    <3>2. CASE pc \in {"starting", "stopping", "undoing", "discarding", "dropping"} /\ CancelCandidate
      <4>1. pc' = "cancelling" /\ UNCHANGED <<callers, state, target, place, used, service>>
        BY <3>2 DEF CancelCandidate, hostVars, workVars
      <4>2. Idle' = Idle
        BY <4>1 DEF Idle
      <4>3. StateFits'
        <5>1. pc = "discarding" => closing
          BY <1>0 DEF ClosingOrder
        <5> QED
          BY <2>1, <3>2, <4>1, <5>1 DEF FollowInv, StateFits, Replacing, Unheld
      <4> QED
        BY <2>1, <3>2, <4>1, <4>2, <4>3, HeldFollows DEF Unheld, Replacing
    <3>3. CASE pc = "publishing" /\ StopCandidate /\ UNCHANGED <<callers, state, target>>
      BY <1>9, <2>1, <3>3
    <3>4. CASE pc \in {"failing", "retiring"} /\ CancelClose /\ state' \in {state, CancelledState}
      <4>1. Leave /\ UNCHANGED <<service, workVars>>
        BY <3>4 DEF CancelClose, hostVars
      <4>2. state # "applying"
        BY <3>4 DEF FollowInv, StateFits, Replacing
      <4>3. \/ state' = "failed" \/ (state' = "active" /\ closing)
            \/ state' = state /\ state # "applying"
        BY <3>4, <4>2 DEF CancelledState
      <4>4. pc \notin Unheld
        BY <3>4 DEF Unheld
      <4> QED
        BY <1>0, <2>1, <4>1, <4>3, <4>4, LeaveFollows
    <3> QED
      BY <2>3, <3>1, <3>2, <3>3, <3>4 DEF CancelHolder
  <2> QED
    BY <1>13, <2>2, <2>3 DEF DeliveryTimesOut
<1>14. ASSUME UNCHANGED <<desired, active, state, target, callers, closing, pc>>,
              Idle' => Idle \/ \E j \in Job : used'[j] = Ended,
              \A j \in Job : used[j] = Ended => used'[j] = Ended
       PROVE  FollowInv'
  <2>1. \A kinds : Waits(kinds) => Waits(kinds)'
    BY <1>14 DEF Waits, FirstWaiting
  <2>2. PendingFollowed'
    BY <1>14, <2>1 DEF FollowInv, PendingFollowed
  <2>3. ActiveFollowed' /\ (pc' \in Replacing => ApplyingFollowed')
    BY <1>14, <2>1 DEF FollowInv, ActiveFollowed, ApplyingFollowed
  <2> QED
    BY <1>14, <2>2, <2>3 DEF FollowInv, StateFits
<1>15. ASSUME NEW t \in Turn, Accept(t)
       PROVE  FollowInv'
  <2>1. /\ place'[t] = "accepted" /\ UNCHANGED <<used, desired, active, state, target, callers, closing, pc>>
    BY <1>0, <1>15 DEF Accept, Quiescent, TypeOK
  <2>2. ~Idle'
    BY <2>1 DEF Idle
  <2> QED
    BY <1>14, <2>1, <2>2
<1>16. ASSUME NEW t \in Turn, Begin(t)
       PROVE  FollowInv'
  <2>1. /\ place'[t] = "running" /\ UNCHANGED <<desired, active, state, target, callers, closing, pc>>
        /\ \A j \in Job : used'[j] = used[j]
    BY <1>0, <1>16, ReloadAssumption DEF Begin, Quiescent, TypeOK
  <2>2. ~Idle'
    BY <2>1 DEF Idle
  <2> QED
    BY <1>14, <2>1, <2>2
<1>17. ASSUME NEW t \in Turn, End(t)
       PROVE  FollowInv'
  <2>1. /\ place[t] = "running" /\ ConsumerFree /\ UNCHANGED <<active, closing>>
        /\ NotifyIdle(IF t \in WebTurn THEN "delivery" ELSE "listener")
    BY <1>17 DEF End, Quiescent
  <2>2. pc \in Unheld
    BY <1>0, <2>1 DEF TurnsKeep
  <2>3. callers = <<>> \/ Waits(Lasting)
    <3>1. CASE pc = "free"
      BY <1>0, <3>1 DEF TypeOK
    <3>2. CASE pc = "entering"
      <4>1. callers \in Seq(Kinds) /\ Len(callers) \in Nat \ {0}
        BY <1>0, <3>2, EmptySeq, LenProperties DEF TypeOK
      <4>2. 1 \in 1..Len(callers) /\ callers[1] \in Kinds
        BY <4>1, ElementOfSeq
      <4>3. callers[1] \in Lasting
        BY <2>1, <4>2 DEF ConsumerFree, Lasting
      <4> QED
        BY <3>2, <4>2, <4>3 DEF Waits, FirstWaiting
    <3> QED
      BY <2>2, <3>1, <3>2 DEF Unheld
  <2>4. (IF t \in WebTurn THEN "delivery" ELSE "listener") \in Kinds
    BY DEF Kinds
  <2> QED
    BY <1>0, <2>1, <2>3, <2>4, NotifyFollows
<1>18. ASSUME NEW t \in Turn, Reject(t)
       PROVE  FollowInv'
  <2>1. NotifyIdle("task") /\ UNCHANGED <<active, closing>>
    BY <1>18 DEF Reject, Quiescent
  <2> QED
    BY <1>0, <2>1, NotifyFollows DEF Lasting, Kinds
<1>19. ASSUME NEW j \in Job, StartJob(j)
       PROVE  FollowInv'
  <2>1. /\ used[j] = None /\ UNCHANGED <<place, service, desired, active, state, target, callers, closing, pc>>
        /\ \A k \in Job : k # j => used'[k] = used[k]
    BY <1>0, <1>19 DEF StartJob, Quiescent, hostVars, TypeOK
  <2>2. None # service /\ None # Ended
    BY <1>0, ReloadAssumption DEF TypeOK
  <2>3. Idle' => Idle
    BY <2>1, <2>2 DEF Idle
  <2> QED
    BY <1>14, <2>1, <2>2, <2>3
<1>20. ASSUME NEW j \in Job, EndJob(j)
       PROVE  FollowInv'
  <2>1. /\ used'[j] = Ended /\ UNCHANGED <<desired, active, state, target, callers, closing, pc>>
        /\ \A k \in Job : k # j => used'[k] = used[k]
    BY <1>0, <1>20 DEF EndJob, Quiescent, TypeOK
  <2> QED
    BY <1>14, <2>1
<1>21. ASSUME NEW j \in Job, IdleCheck(j)
       PROVE  FollowInv'
  <2>1. NotifyIdle("task") /\ UNCHANGED <<active, closing>>
    BY <1>21 DEF IdleCheck, Quiescent
  <2> QED
    BY <1>0, <2>1, NotifyFollows DEF Lasting, Kinds
<1>22. CASE StopReloads
  <2>1. closing' /\ UNCHANGED <<desired, state, target, pc>>
    BY <1>22 DEF StopReloads, reloadVars
  <2>2. \A kinds : Waits(kinds) => Waits(kinds)'
    <3>1. CASE callers = <<>>
      BY <1>22, <2>1, <3>1 DEF StopReloads, Waits, FirstWaiting
    <3>2. CASE callers # <<>>
      <4>1. callers' = Append(callers, "stop") /\ "stop" \in Kinds
        BY <1>22, <3>2 DEF StopReloads, Kinds
      <4> QED
        BY <1>0, <2>1, <3>2, <4>1, WaitsAppended
    <3> QED
      BY <3>1, <3>2
  <2> QED
    BY <2>1, <2>2 DEF FollowInv, StateFits, ActiveFollowed, ApplyingFollowed, PendingFollowed
<1>23. CASE StopService \/ CloseRuntime
  <2>1. /\ closing /\ UNCHANGED <<desired, active, state, target, callers, closing, pc>>
    BY <1>0, <1>23 DEF StopService, CloseRuntime, ClosingOrder, reloadVars
  <2>2. \A kinds : Waits(kinds) => Waits(kinds)'
    BY <2>1 DEF Waits, FirstWaiting
  <2> QED
    BY <2>1, <2>2 DEF FollowInv, StateFits, ActiveFollowed, ApplyingFollowed, PendingFollowed
<1>24. CASE UNCHANGED vars
  BY <1>24 DEF vars, reloadVars, hostVars, workVars, FollowInv, StateFits, ActiveFollowed, ApplyingFollowed,
               PendingFollowed, Waits, FirstWaiting, Idle
<1> QED
  BY <1>1, <1>2, <1>3, <1>4, <1>5, <1>6, <1>7, <1>8, <1>10, <1>11, <1>12, <1>13, <1>15,
     <1>16, <1>17, <1>18, <1>19, <1>20, <1>21, <1>22, <1>23, <1>24 DEF Next, Holder

(* request_reload and notify_idle: a pending revision in an idle Gateway has *)
(* a caller that will apply it, and a reload that is over leaves a final     *)
(* state, which says "active" only of the newest revision.                   *)
THEOREM RevisionIsFollowedAlways == Spec => []RevisionIsFollowed
<1>1. ASSUME IInv, FollowInv
      PROVE  RevisionIsFollowed
  <2>1. Waits(Lasting) => callers # <<>>
    <3>1. ASSUME callers = <<>>
          PROVE  FirstWaiting..Len(callers) = {}
      BY <3>1, EmptySeq DEF FirstWaiting
    <3> QED
      BY <3>1 DEF Waits
  <2>2. pc = "free" => ~Waits({"apply"})
    <3>1. ASSUME pc = "free"
          PROVE  FirstWaiting..Len(callers) = {}
      BY <1>1, <3>1, EmptySeq DEF FirstWaiting, IInv, TypeOK
    <3> QED
      BY <3>1 DEF Waits
  <2>3. pc = "free" => ready /\ state # "applying"
    BY <1>1 DEF IInv, TurnsKeep, Unheld, FollowInv, StateFits, Replacing
  <2> QED
    BY <1>1, <2>1, <2>2, <2>3 DEF RevisionIsFollowed, AtRest, FollowInv, ActiveFollowed, PendingFollowed
<1>2. Init => IInv /\ FollowInv
  BY InvInit, FollowInitInv
<1>3. IInv /\ FollowInv /\ [Next]_vars => (IInv /\ FollowInv)'
  <2> SUFFICES ASSUME IInv, FollowInv, [Next]_vars PROVE (IInv /\ FollowInv)'
    OBVIOUS
  <2>1. TypeOK /\ Rest /\ Candidate
    BY DEF IInv, Rest
  <2>2. IInv'
    BY <2>1, TypeStep, RestStep DEF IInv, Rest
  <2> QED
    BY <2>2, FollowStep
<1> QED
  BY <1>1, <1>2, <1>3, PTL DEF Spec

-----------------------------------------------------------------------------
(* The switch to another Runtime, and what comes after the close.          *)
SwitchIsSafe ==
  [][runtime' # runtime =>
       /\ \A t \in Turn : place[t] # "running" /\ place'[t] # "running"
       /\ \A j \in Job : used'[j] \in Id => used'[j] = runtime'
       /\ service' = runtime' /\ up' = {runtime'} /\ tools' = {runtime'}
       /\ {runtime, runtime'} \subseteq open' /\ ~closing]_vars

RevisionNeverBack == [][active' >= active]_vars

CloseIsFinal ==
  [][stopped = "closed" =>
       UNCHANGED <<runtime, open, up, stopped>> /\ \A t \in Turn : place'[t] # "running"]_vars

LEMMA OnlyCommitSwitches ==
  ASSUME [Next]_vars
  PROVE  UNCHANGED <<active, runtime>> \/ (Published /\ ~closing)
<1>1. CASE Holder
  <2>1. CASE Published
    BY <2>1 DEF Published
  <2>2. CASE Enter \/ Built \/ BuildFails \/ Started \/ StartFails
    BY <2>2 DEF Enter, Built, BuildFails, Started, StartFails
  <2>3. CASE ServiceStopped \/ PublishFails \/ Undone \/ CloseReturns
    BY <2>3 DEF ServiceStopped, PublishFails, Undone, CloseReturns
  <2> QED
    BY <1>1, <2>1, <2>2, <2>3 DEF Holder
<1>2. CASE Apply \/ DeliveryTimesOut \/ StopReloads \/ StopService \/ CloseRuntime
  BY <1>2 DEF Apply, DeliveryTimesOut, StopReloads, StopService, CloseRuntime
<1>3. CASE \E t \in Turn : Accept(t) \/ Begin(t) \/ End(t) \/ Reject(t)
  BY <1>3 DEF Accept, Begin, End, Reject, Quiescent
<1>4. CASE \E j \in Job : StartJob(j) \/ EndJob(j) \/ IdleCheck(j)
  BY <1>4 DEF StartJob, EndJob, IdleCheck, Quiescent
<1>5. CASE UNCHANGED vars
  BY <1>5 DEF vars
<1> QED
  BY <1>1, <1>2, <1>3, <1>4, <1>5 DEF Next

(* A reload under way is for a revision that is not older than the active. *)
TargetAhead == pc \in Replacing => active <= target

LEMMA CallKeepsTarget ==
  ASSUME TypeOK, TargetAhead, NEW kind, CallReload(kind), desired' \in Nat, desired' >= desired,
         active' = active
  PROVE  TargetAhead'
<1>1. CASE callers = <<>>
  BY <1>1 DEF TypeOK, TargetAhead, CallReload, Build
<1>2. CASE callers # <<>>
  BY <1>2 DEF TargetAhead, CallReload
<1> QED
  BY <1>1, <1>2

LEMMA NotifyKeepsTarget ==
  ASSUME TypeOK, TargetAhead, NEW kind, NotifyIdle(kind), active' = active
  PROVE  TargetAhead'
<1>1. CASE Notices
  <2>1. CallReload(kind) /\ desired' = desired /\ desired \in Nat
    BY <1>1 DEF NotifyIdle, TypeOK
  <2> QED
    BY <2>1, CallKeepsTarget DEF TypeOK
<1>2. CASE ~Notices
  BY <1>2 DEF NotifyIdle, TargetAhead
<1> QED
  BY <1>1, <1>2

LEMMA TargetStep ==
  ASSUME TypeOK, TargetAhead, [Next]_vars
  PROVE  TargetAhead'
<1>0. \A q : Handoff(q) \notin Replacing
  BY DEF Handoff, Replacing
<1>1. CASE Enter
  <2>1. CASE closing \/ ~Idle
    BY <1>0, <1>1, <2>1 DEF Enter, Leave, TargetAhead
  <2>2. CASE ~(closing \/ ~Idle)
    BY <1>1, <2>2 DEF Enter, Build, TypeOK, TargetAhead
  <2> QED
    BY <2>1, <2>2
<1>2. CASE Built \/ Started \/ ServiceStopped \/ PublishFails \/ StartFails \/ Undone
  <2>1. UNCHANGED <<active, target>> /\ pc \in Replacing
    BY <1>2 DEF Built, Started, ServiceStopped, PublishFails, StartFails, Undone, Replacing
  <2> QED
    BY <2>1 DEF TargetAhead
<1>3. CASE BuildFails \/ CloseReturns
  BY <1>0, <1>3 DEF BuildFails, CloseReturns, Leave, TargetAhead
<1>4. CASE Published
  <2>1. pc' \notin Replacing
    BY <1>4 DEF Published, Replacing
  <2> QED
    BY <2>1 DEF TargetAhead
<1>5. CASE DeliveryTimesOut
  <2>1. CASE CancelWaiting
    <3>1. UNCHANGED <<active, target>> /\ (pc' = pc \/ pc' \notin Replacing)
      BY <1>0, <1>5, <2>1 DEF DeliveryTimesOut, CancelWaiting
    <3> QED
      BY <3>1 DEF TargetAhead
  <2>2. CASE CancelHolder
    <3>1. UNCHANGED <<active, target>> /\ (pc \in Replacing \/ pc' \notin Replacing)
      BY <1>0, <1>5, <2>2 DEF DeliveryTimesOut, CancelHolder, CancelCandidate, CancelClose, StopCandidate, Leave, Replacing
    <3> QED
      BY <3>1 DEF TargetAhead
  <2> QED
    BY <1>5, <2>1, <2>2 DEF DeliveryTimesOut
<1>6. CASE Apply
  <2>1. active' = active /\ desired' = desired + 1 /\ desired \in Nat
    BY <1>6 DEF Apply, TypeOK
  <2>2. CASE Idle
    BY <1>6, <2>1, <2>2, CallKeepsTarget DEF Apply
  <2>3. CASE ~Idle
    BY <1>6, <2>3 DEF Apply, TargetAhead
  <2> QED
    BY <2>2, <2>3
<1>7. CASE \E t \in Turn : End(t) \/ Reject(t)
  BY <1>7, NotifyKeepsTarget DEF End, Reject, Quiescent
<1>8. CASE \E j \in Job : IdleCheck(j)
  BY <1>8, NotifyKeepsTarget DEF IdleCheck, Quiescent
<1>9. CASE \/ \E t \in Turn : Accept(t) \/ Begin(t)
           \/ \E j \in Job : StartJob(j) \/ EndJob(j)
           \/ StopReloads \/ StopService \/ CloseRuntime \/ UNCHANGED vars
  <2>1. UNCHANGED <<active, target, pc>>
    BY <1>9 DEF Accept, Begin, StartJob, EndJob, StopReloads, StopService, CloseRuntime, Quiescent, reloadVars, vars
  <2> QED
    BY <2>1 DEF TargetAhead
<1> QED
  BY <1>1, <1>2, <1>3, <1>4, <1>5, <1>6, <1>7, <1>8, <1>9 DEF Next, Holder

(* The commit of _activate_runtime does not look at the turns and jobs      *)
(* again: still, the Runtime is replaced only while no turn runs and no job *)
(* works on another than the new one, when the Host's service, scheduler    *)
(* and tools are already the new one's and the old one is not yet closed,   *)
(* and never once the Gateway has begun to close.                           *)
THEOREM SwitchIsAlwaysSafe == Spec => SwitchIsSafe
<1>1. ASSUME IInv, [Next]_vars, runtime' # runtime
      PROVE  /\ \A t \in Turn : place[t] # "running" /\ place'[t] # "running"
             /\ \A j \in Job : used'[j] \in Id => used'[j] = runtime'
             /\ service' = runtime' /\ up' = {runtime'} /\ tools' = {runtime'}
             /\ {runtime, runtime'} \subseteq open' /\ ~closing
  <2>1. /\ pc = "publishing" /\ ~closing /\ runtime' = cand
        /\ UNCHANGED <<open, service, up, tools, place, used, stopped>>
    BY <1>1, OnlyCommitSwitches DEF Published, hostVars, workVars
  <2>2. pc \notin Unheld /\ pc \in WithCandidate
    BY <2>1 DEF Unheld, WithCandidate
  <2>3. \A t \in Turn : place[t] # "running"
    BY <1>1, <2>2 DEF IInv, TurnsKeep
  <2>4. service = cand /\ up = {cand} /\ tools = {cand}
    BY <1>1, <2>1 DEF IInv, Scheduler
  <2>5. \A j \in Job : used[j] \in Id => used[j] = cand
    BY <1>1, <2>4 DEF IInv, JobsUp
  <2>6. {runtime, cand} \subseteq open
    BY <1>1, <2>2 DEF IInv, Opened, ClosingOrder
  <2> QED
    BY <2>1, <2>3, <2>4, <2>5, <2>6
<1>2. IInv /\ [Next]_vars => [runtime' # runtime =>
        /\ \A t \in Turn : place[t] # "running" /\ place'[t] # "running"
        /\ \A j \in Job : used'[j] \in Id => used'[j] = runtime'
        /\ service' = runtime' /\ up' = {runtime'} /\ tools' = {runtime'}
        /\ {runtime, runtime'} \subseteq open' /\ ~closing]_vars
  BY <1>1
<1> QED
  BY <1>2, Invariant, PTL DEF Spec, SwitchIsSafe

(* However requests, reloads, their failures and cancellations interleave,  *)
(* an older revision never replaces a newer one (request_reload: the newest *)
(* revision wins; _active_revision).                                        *)
THEOREM RevisionNeverGoesBack == Spec => RevisionNeverBack
<1>1. Init => TargetAhead
  BY DEF Init, TargetAhead, Replacing
<1>2. TypeOK /\ TargetAhead /\ [Next]_vars => TargetAhead'
  BY TargetStep
<1>3. ASSUME TypeOK, TargetAhead, [Next]_vars
      PROVE  active' >= active
  <2>1. active \in Nat /\ target \in Nat
    BY <1>3 DEF TypeOK
  <2>2. CASE Published /\ ~closing
    BY <1>3, <2>1, <2>2 DEF Published, TargetAhead, Replacing
  <2> QED
    BY <1>3, <2>1, <2>2, OnlyCommitSwitches
<1>4. TypeOK /\ TargetAhead /\ [Next]_vars => [active' >= active]_vars
  BY <1>3
<1> QED
  BY <1>1, <1>2, <1>4, TypeCorrect, PTL DEF Spec, RevisionNeverBack

(* After GatewayHost.close nothing revives: no Runtime is built, committed  *)
(* or opened, no service starts and no turn begins, whatever callers of     *)
(* reload, deliveries and jobs are still about.                             *)
THEOREM CloseIsAlwaysFinal == Spec => CloseIsFinal
<1>1. Init => (stopped = "closed" => \A t \in Turn : place[t] # "running")
  BY DEF Init
<1>2. ASSUME IInv, stopped = "closed", \A t \in Turn : place[t] # "running", [Next]_vars
      PROVE  UNCHANGED <<runtime, open, up, stopped>> /\ \A t \in Turn : place'[t] # "running"
  <2>1. closing /\ pc \in Unheld /\ place \in [Turn -> {"none", "accepted", "running"}]
    BY <1>2 DEF IInv, ClosingOrder, TypeOK
  <2>2. CASE Enter
    <3>1. pc = "entering" /\ callers # <<>> /\ callers \in Seq(Kinds)
      BY <1>2, <2>2 DEF Enter, IInv, TypeOK
    <3>2. Head(callers) # "stop"
      <4>1. callers[1] = Head(callers) /\ 1 \in 1..Len(callers)
        BY <3>1, LenProperties, EmptySeq
      <4> QED
        BY <1>2, <4>1 DEF IInv, StopLast
    <3> QED
      BY <1>2, <2>1, <2>2, <3>2 DEF Enter, hostVars, workVars
  <2>3. CASE \/ Built \/ BuildFails \/ Started \/ StartFails \/ ServiceStopped \/ Published
             \/ PublishFails \/ Undone \/ CloseReturns
    BY <2>1, <2>3 DEF Unheld, Built, BuildFails, Started, StartFails, ServiceStopped, Published,
                      PublishFails, Undone, CloseReturns
  <2>4. CASE DeliveryTimesOut
    <3>1. CASE CancelWaiting
      BY <1>2, <2>4, <3>1 DEF DeliveryTimesOut, CancelWaiting, hostVars
    <3>2. CASE CancelHolder
      BY <2>1, <3>2 DEF Unheld, CancelHolder
    <3> QED
      BY <2>4, <3>1, <3>2 DEF DeliveryTimesOut
  <2>5. CASE Apply \/ StopReloads \/ StopService \/ CloseRuntime
    BY <1>2, <2>1, <2>5 DEF Apply, StopReloads, StopService, CloseRuntime
  <2>6. ASSUME NEW t \in Turn, Accept(t) \/ Begin(t) \/ End(t) \/ Reject(t)
        PROVE  UNCHANGED <<runtime, open, up, stopped>> /\ \A u \in Turn : place'[u] # "running"
    BY <1>2, <2>1, <2>6 DEF Accept, Begin, End, Reject, Quiescent, hostVars
  <2>7. ASSUME NEW j \in Job, StartJob(j) \/ EndJob(j) \/ IdleCheck(j)
        PROVE  UNCHANGED <<runtime, open, up, stopped, place>>
    BY <2>7 DEF StartJob, EndJob, IdleCheck, Quiescent, hostVars
  <2>8. CASE UNCHANGED vars
    BY <1>2, <2>8 DEF vars, hostVars, workVars
  <2> QED
    BY <1>2, <2>2, <2>3, <2>4, <2>5, <2>6, <2>7, <2>8 DEF Next, Holder
<1>3. ASSUME stopped # "closed", stopped' = "closed", [Next]_vars
      PROVE  \A t \in Turn : place'[t] # "running"
  <2>1. CASE CloseRuntime
    BY <2>1 DEF CloseRuntime
  <2>2. CASE Enter \/ DeliveryTimesOut \/ Apply \/ StopReloads \/ StopService \/ UNCHANGED vars
    BY <1>3, <2>2 DEF Enter, DeliveryTimesOut, Apply, StopReloads, StopService, vars
  <2>3. CASE Built \/ BuildFails \/ Started \/ StartFails \/ ServiceStopped
    BY <1>3, <2>3 DEF Built, BuildFails, Started, StartFails, ServiceStopped
  <2>4. CASE Published \/ PublishFails \/ Undone \/ CloseReturns
    BY <1>3, <2>4 DEF Published, PublishFails, Undone, CloseReturns
  <2>5. CASE \/ \E t \in Turn : Accept(t) \/ Begin(t) \/ End(t) \/ Reject(t)
             \/ \E j \in Job : StartJob(j) \/ EndJob(j) \/ IdleCheck(j)
    BY <1>3, <2>5 DEF Accept, Begin, End, Reject, StartJob, EndJob, IdleCheck, Quiescent
  <2> QED
    BY <1>3, <2>1, <2>2, <2>3, <2>4, <2>5 DEF Next, Holder
<1> DEFINE Quiet == stopped = "closed" => \A t \in Turn : place[t] # "running"
<1>4. IInv /\ Quiet /\ [Next]_vars => Quiet'
  BY <1>2, <1>3
<1>5. IInv /\ Quiet /\ [Next]_vars => [stopped = "closed" =>
        UNCHANGED <<runtime, open, up, stopped>> /\ \A t \in Turn : place'[t] # "running"]_vars
  BY <1>2
<1>6. Init => Quiet
  BY <1>1
<1> HIDE DEF Quiet
<1> QED
  BY <1>4, <1>5, <1>6, Invariant, PTL DEF Spec, CloseIsFinal
=============================================================================
