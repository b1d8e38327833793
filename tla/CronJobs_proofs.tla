--------------------------- MODULE CronJobs_proofs ---------------------------
(***************************************************************************)
(* The Cron jobs, for any jobs, principals, concurrent deletions and any   *)
(* number of failures, stops and crashes.                                  *)
(***************************************************************************)
EXTENDS CronJobs, TLAPS

Places == {"none", "new", "queued", "running", "publishing", "failing", "stale"}
Deletion == [pc : {"idle"}] \union [pc : {"joining", "removing"}, job : Jobs]

CronTypeOK ==
  /\ now \in Nat
  /\ jobs \in [Jobs -> Int] /\ cronDisk \in [Jobs -> Int]
  /\ task \in [Jobs -> Places] /\ claim \in [Jobs -> Int] /\ lastRun \in [Jobs -> Int]
  /\ deletion \in [Deleters -> Deletion] /\ gone \subseteq Jobs
  /\ DOMAIN sched = {"pc", "todo", "at", "until"} /\ sched.at \in Int /\ sched.at <= now

LEMMA CronTypeInit == CronInit => CronTypeOK
BY DEF CronInit, CronTypeOK, Places, Deletion, SchedulerAt, Absent, NoFire

LEMMA CronTypeNext ==
  ASSUME CronTypeOK, [CronNext]_cronVars
  PROVE  CronTypeOK'
<1> USE CronAssumption DEF CronTypeOK, Places, Deletion, storeVars, taskVars, deleteVars, schedVars, principalVars, pastVars, Absent, NoFire
<1>1. CASE Tick
  BY <1>1 DEF Tick
<1>2. CASE StartService
  BY <1>2 DEF StartService, InitializeSchedules, SavesRebuilt, Rebuilt, NextJobFire, NextFire, SchedulerAt
<1>3. CASE Crash
  BY <1>3 DEF Crash, Down, SchedulerAt
<1>4. CASE StopService
  BY <1>4 DEF StopService, Down, SchedulerAt
<1>5. ASSUME NEW p \in Principals, NEW ok \in BOOLEAN, RunDue(p, ok)
      PROVE  CronTypeOK'
  BY <1>5 DEF RunDue, Due, Advanced, Save, ScheduleChanged, NextJobFire, NextFire
<1>6. CASE SchedulerWaits
  <2>1. CASE Pass
    BY <1>6, <2>1 DEF SchedulerWaits, Pass, Fresh, Dead, InitializeSchedules, SavesRebuilt, Rebuilt, NextJobFire, NextFire, SchedulerAt
  <2>2. CASE ~Pass
    BY <1>6, <2>2 DEF SchedulerWaits, Dead, SchedulerAt
  <2> QED
    BY <2>1, <2>2
<1>7. CASE SchedulerWakes
  BY <1>7 DEF SchedulerWakes, Pass, Fresh, Dead, InitializeSchedules, SavesRebuilt, Rebuilt, NextJobFire, NextFire, SchedulerAt
<1>8. ASSUME NEW j \in Jobs, NEW at \in 1..(MaxTime + 1), NEW ok \in BOOLEAN, CreateJob(j, at, ok)
      PROVE  CronTypeOK'
  BY <1>8 DEF CreateJob, Save, ScheduleChanged, NextFire
<1>9. ASSUME NEW j \in Jobs, TaskBegins(j)
      PROVE  CronTypeOK'
  BY <1>9 DEF TaskBegins, Undisturbed, TaskEnds
<1>10. ASSUME NEW j \in Jobs, StartsRunning(j)
      PROVE  CronTypeOK'
  BY <1>10 DEF StartsRunning, Undisturbed, TaskEnds
<1>11. ASSUME NEW j \in Jobs, NEW success \in BOOLEAN, NEW ok \in BOOLEAN, FinishJob(j, success, ok)
      PROVE  CronTypeOK'
  BY <1>11 DEF FinishJob, Undisturbed, TaskEnds, Save
<1>12. ASSUME NEW j \in Jobs, PublishResult(j)
      PROVE  CronTypeOK'
  BY <1>12 DEF PublishResult, Undisturbed, TaskEnds
<1>13. ASSUME NEW j \in Jobs, ReportFailure(j)
      PROVE  CronTypeOK'
  BY <1>13 DEF ReportFailure, Undisturbed, TaskEnds
<1>14. ASSUME NEW j \in Jobs, NEW ok \in BOOLEAN, TaskCancelled(j, ok)
      PROVE  CronTypeOK'
  BY <1>14 DEF TaskCancelled, TaskEnds, Save
<1>15. ASSUME NEW j \in Jobs, NEW d \in Deleters, DeleteJob(d, j)
      PROVE  CronTypeOK'
  BY <1>15 DEF DeleteJob, Cancellable
<1>16. ASSUME NEW d \in Deleters, DeletePurges(d)
      PROVE  CronTypeOK'
  BY <1>16 DEF DeletePurges
<1>17. ASSUME NEW d \in Deleters, NEW ok \in BOOLEAN, DeleteRemoves(d, ok)
      PROVE  CronTypeOK'
  BY <1>17 DEF DeleteRemoves, DeleteEnds, Save
<1>18. ASSUME NEW d \in Deleters, DeleteFails(d)
      PROVE  CronTypeOK'
  BY <1>18 DEF DeleteFails, DeleteEnds
<1>19. ASSUME NEW p \in Principals, RetirePrincipal(p)
      PROVE  CronTypeOK'
  BY <1>19 DEF RetirePrincipal, PrincipalIdle
<1>20. ASSUME NEW p \in Principals, PrincipalDeleted(p)
      PROVE  CronTypeOK'
  BY <1>20 DEF PrincipalDeleted
<1>21. ASSUME NEW p \in Principals, RestorePrincipal(p)
      PROVE  CronTypeOK'
  BY <1>21 DEF RestorePrincipal
<1>22. CASE StartFails
  BY <1>22 DEF StartFails, SavesRebuilt, Rebuilt, NextJobFire, NextFire
<1>23. ASSUME NEW p \in Principals, WorkspaceFor(p)
      PROVE  CronTypeOK'
  BY <1>23 DEF WorkspaceFor, Fresh, InitializeSchedules, SavesRebuilt, Rebuilt, NextJobFire, NextFire
<1>24. CASE UNCHANGED cronVars
  BY <1>24 DEF cronVars
<1> HIDE CronAssumption DEF CronTypeOK
<1> QED
  BY <1>1, <1>2, <1>3, <1>4, <1>5, <1>6, <1>7, <1>8, <1>9, <1>10, <1>11, <1>12, <1>13, <1>14, <1>15, <1>16, <1>17, <1>18, <1>19, <1>20, <1>21, <1>22, <1>23, <1>24
  DEF CronNext, SchedulerStep, JobStep, DeleteStep, PrincipalStep

-----------------------------------------------------------------------------
(* RunAtMostOnce.  What is claimed is later than what was executed; what is *)
(* stored for a recurring job is later than both, and nothing that could    *)
(* fire again is stored for a one-shot job that was claimed or executed.    *)
Claimed(j) == task[j] \in {"new", "queued"}
Spent(j) == lastRun[j] # NoFire \/ Claimed(j)

Unborn(j) ==
  j \notin born =>
    /\ jobs[j] = Absent /\ cronDisk[j] = Absent /\ lastRun[j] = NoFire
    /\ task[j] = "none" /\ j \notin incidents \union deleting \union spoilt \union gone
    /\ \A d \in Deleters : deletion[d].pc # "idle" => deletion[d].job # j

ClaimIsNew(j) ==
  /\ lastRun[j] >= NoFire /\ lastRun[j] <= now /\ claim[j] <= now
  /\ Claimed(j) => claim[j] > lastRun[j]
  /\ task[j] \in {"running", "publishing", "failing"} => lastRun[j] # NoFire

RecurringAhead(j) ==
  j \in Recurring /\ jobs[j] # Absent =>
    /\ jobs[j] > lastRun[j]
    /\ Claimed(j) => jobs[j] > claim[j]

OneShotSpent(j) ==
  j \notin Recurring =>
    /\ Spent(j) => jobs[j] \in {NoFire, Absent} /\ cronDisk[j] <= now
    /\ Claimed(j) => lastRun[j] = NoFire
    /\ jobs[j] > NoFire /\ cronDisk[j] > NoFire => cronDisk[j] = jobs[j]

ClaimInv == \A j \in Jobs : Unborn(j) /\ ClaimIsNew(j) /\ RecurringAhead(j) /\ OneShotSpent(j)

LEMMA ClaimInit == CronInit => ClaimInv /\ RunAtMostOnce
BY CronAssumption DEF CronInit, ClaimInv, Unborn, ClaimIsNew, RecurringAhead, OneShotSpent, Spent, Claimed,
   Absent, NoFire, RunAtMostOnce

LEMMA ClaimNext ==
  ASSUME CronTypeOK, CronTypeOK', ClaimInv, [CronNext]_cronVars
  PROVE  ClaimInv'
<1> USE CronAssumption DEF CronTypeOK, Places, Deletion, ClaimInv, Unborn, ClaimIsNew, RecurringAhead, OneShotSpent,
     Spent, Claimed, storeVars, taskVars, deleteVars, schedVars, principalVars, pastVars, Absent, NoFire
<1>1. CASE Tick
  BY <1>1 DEF Tick
<1>2. CASE StartService
  BY <1>2 DEF StartService, InitializeSchedules, SavesRebuilt, Rebuilt, NextJobFire, NextFire, SchedulerAt
<1>3. CASE Crash
  BY <1>3 DEF Crash, Down, SchedulerAt
<1>4. CASE StopService
  BY <1>4 DEF StopService, Down, SchedulerAt
<1>5. ASSUME NEW p \in Principals, NEW ok \in BOOLEAN, RunDue(p, ok)
      PROVE  ClaimInv'
  BY <1>5 DEF RunDue, Skips, Due, Advanced, Save, ScheduleChanged, NextJobFire, NextFire
<1>6. CASE SchedulerWaits
  <2>1. CASE Pass
    BY <1>6, <2>1 DEF SchedulerWaits, Pass, Fresh, Dead, InitializeSchedules, SavesRebuilt, Rebuilt, NextJobFire, NextFire, SchedulerAt
  <2>2. CASE ~Pass
    BY <1>6, <2>2 DEF SchedulerWaits, Dead, SchedulerAt
  <2> QED
    BY <2>1, <2>2
<1>7. CASE SchedulerWakes
  BY <1>7 DEF SchedulerWakes, Pass, Fresh, Dead, InitializeSchedules, SavesRebuilt, Rebuilt, NextJobFire, NextFire, SchedulerAt
<1>8. ASSUME NEW j \in Jobs, NEW at \in 1..(MaxTime + 1), NEW ok \in BOOLEAN, CreateJob(j, at, ok)
      PROVE  ClaimInv'
  BY <1>8 DEF CreateJob, Save, ScheduleChanged, NextFire
<1>9. ASSUME NEW j \in Jobs, TaskBegins(j)
      PROVE  ClaimInv'
  BY <1>9 DEF TaskBegins, Undisturbed, TaskEnds
<1>10. ASSUME NEW j \in Jobs, StartsRunning(j)
      PROVE  ClaimInv'
  BY <1>10 DEF StartsRunning, Undisturbed, TaskEnds
<1>11. ASSUME NEW j \in Jobs, NEW success \in BOOLEAN, NEW ok \in BOOLEAN, FinishJob(j, success, ok)
      PROVE  ClaimInv'
  BY <1>11 DEF FinishJob, Undisturbed, TaskEnds, Save
<1>12. ASSUME NEW j \in Jobs, PublishResult(j)
      PROVE  ClaimInv'
  BY <1>12 DEF PublishResult, Undisturbed, TaskEnds
<1>13. ASSUME NEW j \in Jobs, ReportFailure(j)
      PROVE  ClaimInv'
  BY <1>13 DEF ReportFailure, Undisturbed, TaskEnds
<1>14. ASSUME NEW j \in Jobs, NEW ok \in BOOLEAN, TaskCancelled(j, ok)
      PROVE  ClaimInv'
  BY <1>14 DEF TaskCancelled, TaskEnds, Save
<1>15. ASSUME NEW j \in Jobs, NEW d \in Deleters, DeleteJob(d, j)
      PROVE  ClaimInv'
  BY <1>15 DEF DeleteJob, Cancellable
<1>16. ASSUME NEW d \in Deleters, DeletePurges(d)
      PROVE  ClaimInv'
  BY <1>16 DEF DeletePurges
<1>17. ASSUME NEW d \in Deleters, NEW ok \in BOOLEAN, DeleteRemoves(d, ok)
      PROVE  ClaimInv'
  BY <1>17 DEF DeleteRemoves, DeleteEnds, Save
<1>18. ASSUME NEW d \in Deleters, DeleteFails(d)
      PROVE  ClaimInv'
  BY <1>18 DEF DeleteFails, DeleteEnds
<1>19. ASSUME NEW p \in Principals, RetirePrincipal(p)
      PROVE  ClaimInv'
  BY <1>19 DEF RetirePrincipal
<1>20. ASSUME NEW p \in Principals, PrincipalDeleted(p)
      PROVE  ClaimInv'
  BY <1>20 DEF PrincipalDeleted
<1>21. ASSUME NEW p \in Principals, RestorePrincipal(p)
      PROVE  ClaimInv'
  BY <1>21 DEF RestorePrincipal
<1>22. CASE StartFails
  BY <1>22 DEF StartFails, SavesRebuilt, Rebuilt, NextJobFire, NextFire
<1>23. ASSUME NEW p \in Principals, WorkspaceFor(p)
      PROVE  ClaimInv'
  BY <1>23 DEF WorkspaceFor, Fresh, InitializeSchedules, SavesRebuilt, Rebuilt, NextJobFire, NextFire
<1>24. CASE UNCHANGED cronVars
  BY <1>24 DEF cronVars
<1> HIDE CronAssumption DEF CronTypeOK, ClaimInv
<1> QED
  BY <1>1, <1>2, <1>3, <1>4, <1>5, <1>6, <1>7, <1>8, <1>9, <1>10, <1>11, <1>12, <1>13, <1>14,
     <1>15, <1>16, <1>17, <1>18, <1>19, <1>20, <1>21, <1>22, <1>23, <1>24
  DEF CronNext, SchedulerStep, JobStep, DeleteStep, PrincipalStep

(* run_due persists the next deadline before it starts the job, and a start *)
(* of the service makes up for no deadline: none is executed twice.         *)
THEOREM RunAtMostOnceAlways == CronSpec => []RunAtMostOnce
<1>1. ASSUME CronTypeOK, ClaimInv, RunAtMostOnce, [CronNext]_cronVars
      PROVE  RunAtMostOnce'
  <2> USE DEF RunAtMostOnce
  <2>1. ASSUME NEW j \in Jobs, StartsRunning(j)
        PROVE  repeated' = {}
    <3>1. Claimed(j)
      BY <2>1 DEF StartsRunning, Undisturbed, Claimed
    <3>2. ~(claim[j] <= lastRun[j]) /\ (j \in Recurring \/ lastRun[j] = NoFire)
      BY <1>1, <3>1 DEF CronTypeOK, ClaimInv, ClaimIsNew, OneShotSpent
    <3> QED
      BY <1>1, <2>1, <3>2 DEF StartsRunning
  <2>2. (\A j \in Jobs : ~StartsRunning(j)) => UNCHANGED repeated
    <3>1. CASE Tick \/ StartService \/ StartFails \/ Crash \/ StopService
      BY <3>1 DEF Tick, StartService, StartFails, Crash, StopService, Down, pastVars
    <3>2. CASE SchedulerStep
      BY <3>2 DEF SchedulerStep, RunDue, SchedulerWaits, SchedulerWakes, pastVars
    <3>3. ASSUME NEW j \in Jobs, ~StartsRunning(j), JobStep(j)
          PROVE  UNCHANGED repeated
      BY <3>3 DEF JobStep, CreateJob, TaskBegins, FinishJob, PublishResult, ReportFailure, TaskCancelled, DeleteJob, pastVars
    <3>4. ASSUME NEW d \in Deleters, DeleteStep(d)
          PROVE  UNCHANGED repeated
      BY <3>4 DEF DeleteStep, DeletePurges, DeleteRemoves, DeleteFails, pastVars
    <3>5. ASSUME NEW p \in Principals, PrincipalStep(p)
          PROVE  UNCHANGED repeated
      BY <3>5 DEF PrincipalStep, RetirePrincipal, PrincipalDeleted, RestorePrincipal, WorkspaceFor, pastVars
    <3>6. CASE UNCHANGED cronVars
      BY <3>6 DEF cronVars, pastVars
    <3> QED
      BY <1>1, <3>1, <3>2, <3>3, <3>4, <3>5, <3>6 DEF CronNext
  <2> QED
    BY <1>1, <2>1, <2>2
<1> QED
  BY <1>1, CronTypeInit, CronTypeNext, ClaimInit, ClaimNext, PTL DEF CronSpec

-----------------------------------------------------------------------------
(* NothingComesBack.  Unless another deletion of it failed, a job that is   *)
(* being deleted is marked or has gone, its task rests or was cancelled,    *)
(* and after the purge it has neither a task nor incidents.                 *)
Resting(j) == task[j] \in {"none", "stale"}

DeletionHolds(d) ==
  deletion[d].pc # "idle" /\ deletion[d].job \notin spoilt =>
    LET j == deletion[d].job
    IN /\ j \in deleting \union gone
       /\ Resting(j) \/ j \in killed
       /\ deletion[d].pc = "removing" => Resting(j) /\ j \notin killed \union incidents

GoneForGood(j) ==
  j \in gone \ spoilt =>
    jobs[j] = Absent /\ cronDisk[j] = Absent /\ task[j] = "none" /\ j \notin killed \union incidents

CancelledFalls(j) == j \in killed \/ task[j] = "stale" => j \in deleting \union spoilt

RetiredRests ==
  /\ ~Running => retired = {}
  /\ \A p \in retired : p \notin open /\ PrincipalIdle(p)

DeleteInv ==
  /\ RetiredRests
  /\ \A d \in Deleters : DeletionHolds(d)
  /\ \A j \in Jobs : GoneForGood(j) /\ CancelledFalls(j)

LEMMA DeleteInit == CronInit => DeleteInv
BY CronAssumption DEF CronInit, DeleteInv, RetiredRests, DeletionHolds, GoneForGood, CancelledFalls,
   Running

LEMMA DeleteNext ==
  ASSUME CronTypeOK, CronTypeOK', ClaimInv, DeleteInv, [CronNext]_cronVars
  PROVE  DeleteInv'
<1> USE CronAssumption DEF CronTypeOK, Places, Deletion, DeleteInv, RetiredRests, DeletionHolds, GoneForGood, CancelledFalls,
     Resting, Running, PrincipalIdle, storeVars, taskVars, deleteVars, schedVars, principalVars,
     pastVars, Absent, NoFire
<1>1. CASE Tick
  BY <1>1 DEF Tick
<1>2. CASE StartService
  BY <1>2 DEF StartService, InitializeSchedules, SavesRebuilt, Rebuilt, NextJobFire, NextFire, SchedulerAt
<1>3. CASE Crash
  BY <1>3 DEF Crash, Down, SchedulerAt
<1>4. CASE StopService
  BY <1>4 DEF StopService, Down, SchedulerAt
<1>5. ASSUME NEW p \in Principals, NEW ok \in BOOLEAN, RunDue(p, ok)
      PROVE  DeleteInv'
  BY <1>5 DEF RunDue, Skips, Due, Advanced, Save, ScheduleChanged, NextJobFire, NextFire
<1>6. CASE SchedulerWaits
  <2>1. CASE Pass
    BY <1>6, <2>1 DEF SchedulerWaits, Pass, Fresh, Dead, InitializeSchedules, SavesRebuilt, Rebuilt, NextJobFire, NextFire, SchedulerAt
  <2>2. CASE ~Pass
    BY <1>6, <2>2 DEF SchedulerWaits, Dead, SchedulerAt
  <2> QED
    BY <2>1, <2>2
<1>7. CASE SchedulerWakes
  BY <1>7 DEF SchedulerWakes, Pass, Fresh, Dead, InitializeSchedules, SavesRebuilt, Rebuilt, NextJobFire, NextFire, SchedulerAt
<1>8. ASSUME NEW j \in Jobs, NEW at \in 1..(MaxTime + 1), NEW ok \in BOOLEAN, CreateJob(j, at, ok)
      PROVE  DeleteInv'
  BY <1>8 DEF ClaimInv, Unborn, CreateJob, Save, ScheduleChanged, NextFire
<1>9. ASSUME NEW j \in Jobs, TaskBegins(j)
      PROVE  DeleteInv'
  BY <1>9 DEF TaskBegins, Undisturbed, TaskEnds
<1>10. ASSUME NEW j \in Jobs, StartsRunning(j)
      PROVE  DeleteInv'
  BY <1>10 DEF StartsRunning, Undisturbed, TaskEnds
<1>11. ASSUME NEW j \in Jobs, NEW success \in BOOLEAN, NEW ok \in BOOLEAN, FinishJob(j, success, ok)
      PROVE  DeleteInv'
  BY <1>11 DEF FinishJob, Undisturbed, TaskEnds, Save
<1>12. ASSUME NEW j \in Jobs, PublishResult(j)
      PROVE  DeleteInv'
  BY <1>12 DEF PublishResult, Undisturbed, TaskEnds
<1>13. ASSUME NEW j \in Jobs, ReportFailure(j)
      PROVE  DeleteInv'
  BY <1>13 DEF ReportFailure, Undisturbed, TaskEnds
<1>14. ASSUME NEW j \in Jobs, NEW ok \in BOOLEAN, TaskCancelled(j, ok)
      PROVE  DeleteInv'
  BY <1>14 DEF TaskCancelled, TaskEnds, Save
<1>15. ASSUME NEW j \in Jobs, NEW d \in Deleters, DeleteJob(d, j)
      PROVE  DeleteInv'
  BY <1>15 DEF DeleteJob, Cancellable
<1>16. ASSUME NEW d \in Deleters, DeletePurges(d)
      PROVE  DeleteInv'
  BY <1>16 DEF DeletePurges
<1>17. ASSUME NEW d \in Deleters, NEW ok \in BOOLEAN, DeleteRemoves(d, ok)
      PROVE  DeleteInv'
  BY <1>17 DEF DeleteRemoves, DeleteEnds, Save
<1>18. ASSUME NEW d \in Deleters, DeleteFails(d)
      PROVE  DeleteInv'
  BY <1>18 DEF DeleteFails, DeleteEnds
<1>19. ASSUME NEW p \in Principals, RetirePrincipal(p)
      PROVE  DeleteInv'
  BY <1>19 DEF RetirePrincipal
<1>20. ASSUME NEW p \in Principals, PrincipalDeleted(p)
      PROVE  DeleteInv'
  BY <1>20 DEF PrincipalDeleted
<1>21. ASSUME NEW p \in Principals, RestorePrincipal(p)
      PROVE  DeleteInv'
  BY <1>21 DEF RestorePrincipal
<1>22. CASE StartFails
  BY <1>22 DEF StartFails, SavesRebuilt, Rebuilt, NextJobFire, NextFire
<1>23. ASSUME NEW p \in Principals, WorkspaceFor(p)
      PROVE  DeleteInv'
  BY <1>23 DEF WorkspaceFor, Fresh, InitializeSchedules, SavesRebuilt, Rebuilt, NextJobFire, NextFire
<1>24. CASE UNCHANGED cronVars
  BY <1>24 DEF cronVars
<1> HIDE CronAssumption DEF CronTypeOK, DeleteInv
<1> QED
  BY <1>1, <1>2, <1>3, <1>4, <1>5, <1>6, <1>7, <1>8, <1>9, <1>10, <1>11, <1>12, <1>13, <1>14,
     <1>15, <1>16, <1>17, <1>18, <1>19, <1>20, <1>21, <1>22, <1>23, <1>24
  DEF CronNext, SchedulerStep, JobStep, DeleteStep, PrincipalStep

(* delete_job and the retirement of a principal: nothing of what they took   *)
(* away comes back, whatever else runs or fails meanwhile.                  *)
THEOREM NothingComesBackAlways == CronSpec => []NothingComesBack
<1>1. CronTypeOK /\ DeleteInv => NothingComesBack
  BY DEF CronTypeOK, DeleteInv, RetiredRests, GoneForGood, NothingComesBack
<1> QED
  BY <1>1, CronTypeInit, CronTypeNext, ClaimInit, ClaimNext, DeleteInit, DeleteNext, PTL DEF CronSpec

-----------------------------------------------------------------------------
(* NoDeadJob.  A one-shot job that fires is stored without a deadline until *)
(* its task removes it; nothing else stores one without a deadline.         *)
FiredOnce(j) ==
  /\ j \in Recurring => jobs[j] # NoFire
  /\ j \notin Recurring /\ task[j] \in {"publishing", "failing"} => jobs[j] = Absent
  /\ jobs[j] = NoFire /\ j \notin deleting \union spoilt /\ Home[j] \in open => task[j] # "none"

DeadInv == \A j \in Jobs : FiredOnce(j)

LEMMA DeadInit == CronInit => DeadInv
BY CronAssumption DEF CronInit, DeadInv, FiredOnce, Absent, NoFire

LEMMA DeadNext ==
  ASSUME CronTypeOK, CronTypeOK', ClaimInv, DeadInv, [CronNext]_cronVars
  PROVE  DeadInv'
<1> USE CronAssumption DEF CronTypeOK, Places, Deletion, ClaimInv, DeadInv, FiredOnce, Running, storeVars, taskVars, deleteVars,
     schedVars, principalVars, pastVars, Absent, NoFire
<1>1. CASE Tick
  BY <1>1 DEF Tick
<1>2. CASE StartService
  BY <1>2 DEF OneShotSpent, Spent, ClaimIsNew, StartService, InitializeSchedules, SavesRebuilt, Rebuilt, NextJobFire, NextFire, SchedulerAt
<1>3. CASE Crash
  BY <1>3 DEF Crash, Down, SchedulerAt
<1>4. CASE StopService
  BY <1>4 DEF StopService, Down, SchedulerAt
<1>5. ASSUME NEW p \in Principals, NEW ok \in BOOLEAN, RunDue(p, ok)
      PROVE  DeadInv'
  BY <1>5 DEF RunDue, Skips, Due, Advanced, Save, ScheduleChanged, NextJobFire, NextFire
<1>6. CASE SchedulerWaits
  <2>1. CASE Pass
    BY <1>6, <2>1 DEF OneShotSpent, Spent, ClaimIsNew, SchedulerWaits, Pass, Fresh, Dead, InitializeSchedules, SavesRebuilt, Rebuilt, NextJobFire, NextFire, SchedulerAt
  <2>2. CASE ~Pass
    BY <1>6, <2>2 DEF SchedulerWaits, Dead, SchedulerAt
  <2> QED
    BY <2>1, <2>2
<1>7. CASE SchedulerWakes
  BY <1>7 DEF OneShotSpent, Spent, ClaimIsNew, SchedulerWakes, Pass, Fresh, Dead, InitializeSchedules, SavesRebuilt, Rebuilt, NextJobFire, NextFire, SchedulerAt
<1>8. ASSUME NEW j \in Jobs, NEW at \in 1..(MaxTime + 1), NEW ok \in BOOLEAN, CreateJob(j, at, ok)
      PROVE  DeadInv'
  BY <1>8 DEF Unborn, CreateJob, Save, ScheduleChanged, NextFire
<1>9. ASSUME NEW j \in Jobs, TaskBegins(j)
      PROVE  DeadInv'
  BY <1>9 DEF TaskBegins, Undisturbed, TaskEnds
<1>10. ASSUME NEW j \in Jobs, StartsRunning(j)
      PROVE  DeadInv'
  BY <1>10 DEF StartsRunning, Undisturbed, TaskEnds
<1>11. ASSUME NEW j \in Jobs, NEW success \in BOOLEAN, NEW ok \in BOOLEAN, FinishJob(j, success, ok)
      PROVE  DeadInv'
  BY <1>11 DEF FinishJob, Undisturbed, TaskEnds, Save
<1>12. ASSUME NEW j \in Jobs, PublishResult(j)
      PROVE  DeadInv'
  BY <1>12 DEF PublishResult, Undisturbed, TaskEnds
<1>13. ASSUME NEW j \in Jobs, ReportFailure(j)
      PROVE  DeadInv'
  BY <1>13 DEF ReportFailure, Undisturbed, TaskEnds
<1>14. ASSUME NEW j \in Jobs, NEW ok \in BOOLEAN, TaskCancelled(j, ok)
      PROVE  DeadInv'
  BY <1>14 DEF TaskCancelled, TaskEnds, Save
<1>15. ASSUME NEW j \in Jobs, NEW d \in Deleters, DeleteJob(d, j)
      PROVE  DeadInv'
  BY <1>15 DEF DeleteJob, Cancellable
<1>16. ASSUME NEW d \in Deleters, DeletePurges(d)
      PROVE  DeadInv'
  BY <1>16 DEF DeletePurges
<1>17. ASSUME NEW d \in Deleters, NEW ok \in BOOLEAN, DeleteRemoves(d, ok)
      PROVE  DeadInv'
  BY <1>17 DEF DeleteRemoves, DeleteEnds, Save
<1>18. ASSUME NEW d \in Deleters, DeleteFails(d)
      PROVE  DeadInv'
  BY <1>18 DEF DeleteFails, DeleteEnds
<1>19. ASSUME NEW p \in Principals, RetirePrincipal(p)
      PROVE  DeadInv'
  BY <1>19 DEF RetirePrincipal
<1>20. ASSUME NEW p \in Principals, PrincipalDeleted(p)
      PROVE  DeadInv'
  BY <1>20 DEF PrincipalDeleted
<1>21. ASSUME NEW p \in Principals, RestorePrincipal(p)
      PROVE  DeadInv'
  <2>1. UNCHANGED <<jobs, task, deleting, spoilt, open, phase>>
    BY <1>21 DEF RestorePrincipal
  <2> HIDE CronAssumption DEF CronTypeOK, ClaimInv
  <2> QED
    BY <2>1
<1>22. CASE StartFails
  BY <1>22 DEF StartFails, SavesRebuilt, Rebuilt, NextJobFire, NextFire
<1>23. ASSUME NEW p \in Principals, WorkspaceFor(p)
      PROVE  DeadInv'
  BY <1>23 DEF OneShotSpent, Spent, ClaimIsNew, WorkspaceFor, Fresh, InitializeSchedules, SavesRebuilt, Rebuilt, NextJobFire, NextFire
<1>24. CASE UNCHANGED cronVars
  BY <1>24 DEF cronVars
<1> HIDE CronAssumption DEF CronTypeOK, ClaimInv, DeadInv
<1> QED
  BY <1>1, <1>2, <1>3, <1>4, <1>5, <1>6, <1>7, <1>8, <1>9, <1>10, <1>11, <1>12, <1>13, <1>14,
     <1>15, <1>16, <1>17, <1>18, <1>19, <1>20, <1>21, <1>22, <1>23, <1>24
  DEF CronNext, SchedulerStep, JobStep, DeleteStep, PrincipalStep

(* A job that a running workspace stores has a deadline ahead or a task that *)
(* will remove it, unless its deletion is at work or failed.                 *)
THEOREM NoDeadJobAlways == CronSpec => []NoDeadJob
<1>1. CronTypeOK /\ DeleteInv /\ DeadInv => NoDeadJob
  BY DEF CronTypeOK, DeleteInv, CancelledFalls, DeadInv, FiredOnce, NoDeadJob
<1> QED
  BY <1>1, CronTypeInit, CronTypeNext, ClaimInit, ClaimNext, DeleteInit, DeleteNext, DeadInit, DeadNext, PTL
  DEF CronSpec
=============================================================================
