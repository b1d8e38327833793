------------------------------ MODULE CronJobs ------------------------------
(***************************************************************************)
(* Cron (proactive/cron.py) and the scheduler that drives it               *)
(* (proactive/service.py): every principal has a workspace with a          *)
(* CronManager of its own, one scheduler task claims the deadlines that    *)
(* have passed, a claimed job runs as a task under the shared background   *)
(* semaphore, and jobs are created, deleted and, with their principal,     *)
(* retired while all this goes on.  Saves may fail and the process may     *)
(* stop or crash at any moment; it then starts again from cron.json.       *)
(***************************************************************************)
EXTENDS Naturals, Integers, Sequences, FiniteSets

CONSTANTS
  Jobs, Recurring,   \* Cron jobs, and those of them with a cron expression
  Principals, Owner, \* the principals of the Registry and the one that is never retired
  Home,              \* the principal each job belongs to
  Deleters,          \* concurrent calls of delete_job
  BackgroundCap,     \* background_max_concurrency
  MaxTime,           \* bound on the clock
  MaxLoad            \* bound on the jobs created plus the saves, initializations and
                     \* deletions that fail; stops and retirements come below it

ASSUME CronAssumption ==
  /\ Recurring \subseteq Jobs /\ Owner \in Principals /\ Home \in [Jobs -> Principals]
  /\ BackgroundCap \in Nat \ {0} /\ MaxTime \in Nat /\ MaxLoad \in Nat

VARIABLES
  now, phase,          \* the clock; the service is down or up
  jobs, cronDisk,      \* _jobs and cron.json: Absent, NoFire or the next deadline
  faults,              \* saves, initializations and deletions that have failed
  task, claim,         \* each job's task, and the deadline it was started for
  killed,              \* jobs whose task has been cancelled but has not seen it yet
  deleting, deletion,  \* _deleting, and where each deletion is
  event, sched,        \* _schedule_event and the scheduler task
  known, retired, open,\* Registry principals, _retired_principal_ids, _workspaces
  incidents,           \* jobs with a record in incidents.json
  lastRun, repeated, born, gone, spoilt \* history: the last deadline executed, jobs that
                       \* executed one twice, ids used, deletions that returned, and
                       \* jobs whose creation or deletion raised

storeVars == <<jobs, cronDisk, faults>>
taskVars == <<task, claim, killed>>
deleteVars == <<deleting, deletion>>
schedVars == <<event, sched>>
principalVars == <<known, retired, open>>
pastVars == <<lastRun, repeated, born, gone, spoilt>>
cronVars == <<now, phase, storeVars, taskVars, deleteVars, schedVars,
              principalVars, incidents, pastVars>>

Absent == -1  \* not in _jobs
NoFire == 0   \* next_run_at is null: a one-shot job that has been claimed

-----------------------------------------------------------------------------
(* Five-field expressions are abstracted to one that matches every minute. *)
NextFire_NotAfter(t) == t
NextFire(t) == t + 1

(* next_job_fire: what is left of a job's schedule after the moment t. *)
NextJobFire(j, at, t) ==
  IF j \in Recurring THEN NextFire(t)
  ELSE IF at > t THEN at ELSE NoFire

MayFail == Cardinality(born) + faults < MaxLoad

(* write_json replaces the snapshot of one principal, or fails; the memory *)
(* has been changed already either way.                                    *)
Save(p, snapshot, ok) ==
  /\ ~ok => MayFail
  /\ faults' = IF ok THEN faults ELSE faults + 1
  /\ jobs' = snapshot
  /\ cronDisk' = [j \in Jobs |-> IF ok /\ Home[j] = p THEN snapshot[j] ELSE cronDisk[j]]

(* _load_state and _rebuild_deadlines(persist=True): recurring jobs get the *)
(* next deadline after now, one-shot jobs without a future one are dropped. *)
Rebuilt_KeepsClaimed(P) ==
  [j \in Jobs |->
     LET next == NextJobFire(j, cronDisk[j], now)
     IN IF Home[j] \notin P THEN jobs[j]
        ELSE IF cronDisk[j] = Absent THEN Absent ELSE next]
Rebuilt(P) ==
  [j \in Jobs |->
     LET next == NextJobFire(j, cronDisk[j], now)
     IN IF Home[j] \notin P THEN jobs[j]
        ELSE IF cronDisk[j] = Absent \/ next = NoFire THEN Absent ELSE next]

(* The schedules of the principals P are initialized one after the other.  *)
(* One of them fails: it was not read and has no workspace, it has one but  *)
(* was not saved, or it was saved and another manager of it fails; those    *)
(* after it are left alone.                                                 *)
SavesRebuilt(saved) ==
  cronDisk' = [j \in Jobs |-> IF Home[j] \in saved THEN Rebuilt(saved)[j] ELSE cronDisk[j]]

InitializeSchedules(P, opened, saved, ok) ==
  /\ IF ok THEN opened = P /\ saved = P
     ELSE P # {} /\ MayFail /\ Cardinality(opened \ saved) <= 1
  /\ faults' = IF ok THEN faults ELSE faults + 1
  /\ jobs' = Rebuilt(opened)
  /\ SavesRebuilt(saved)

(* _cron_schedule_changed sets the scheduler's event. *)
ScheduleChanged_Unheard(ok) == UNCHANGED event
ScheduleChanged(ok) == event' = (event \/ ok)

Running == phase = "up"
Executing == {j \in Jobs : task[j] = "running"}
Cancellable(j) == task[j] \in {"new", "queued", "running", "publishing", "failing"}
PrincipalIdle(p) == \A j \in Jobs : Home[j] = p => task[j] = "none"

SchedulerAt(pc, todo, at, until) == [pc |-> pc, todo |-> todo, at |-> at, until |-> until]

CronInit ==
  /\ now = 0 /\ phase = "down"
  /\ jobs = [j \in Jobs |-> Absent] /\ cronDisk = jobs /\ faults = 0
  /\ task = [j \in Jobs |-> "none"] /\ claim = [j \in Jobs |-> NoFire] /\ killed = {}
  /\ deleting = {} /\ deletion = [d \in Deleters |-> [pc |-> "idle"]]
  /\ event = FALSE /\ sched = SchedulerAt("off", {}, 0, 0)
  /\ known = Principals /\ retired = {} /\ open = {}
  /\ incidents = {}
  /\ lastRun = [j \in Jobs |-> NoFire] /\ repeated = {} /\ born = {} /\ gone = {} /\ spoilt = {}

Tick ==
  /\ now < MaxTime
  /\ now' = now + 1
  /\ UNCHANGED <<phase, storeVars, taskVars, deleteVars, schedVars, principalVars,
                 incidents, pastVars>>

-----------------------------------------------------------------------------
(* The service: start, stop, and the crash. *)
StartService ==
  /\ phase = "down"
  /\ phase' = "up" /\ open' = known
  /\ InitializeSchedules(known, known, known, TRUE)
  /\ sched' = SchedulerAt("asleep", {}, 0, 0) /\ event' = TRUE
  /\ UNCHANGED <<now, taskVars, deleteVars, known, retired, incidents, pastVars>>

(* start raises: the service does not run, but snapshots have been written. *)
StartFails ==
  /\ phase = "down" /\ MayFail /\ faults' = faults + 1
  /\ \E saved \in SUBSET known : SavesRebuilt(saved)
  /\ UNCHANGED <<now, phase, jobs, taskVars, deleteVars, schedVars, principalVars, incidents, pastVars>>

(* Nothing of the memory of the process is left.  The history still knows of *)
(* a job that is gone that another deletion of it failed.                    *)
Down ==
  /\ phase' = "down" /\ open' = {} /\ retired' = {}
  /\ sched' = SchedulerAt("off", {}, 0, 0) /\ event' = FALSE
  /\ jobs' = [j \in Jobs |-> Absent]
  /\ task' = [j \in Jobs |-> "none"] /\ claim' = [j \in Jobs |-> NoFire] /\ killed' = {}
  /\ deleting' = {} /\ deletion' = [d \in Deleters |-> [pc |-> "idle"]]
  /\ spoilt' = spoilt \intersect gone
  /\ MayFail
  /\ UNCHANGED <<now, faults, known, incidents, lastRun, repeated, born, gone>>

Crash == Running /\ Down /\ UNCHANGED cronDisk

(* stop cancels every task: a one-shot job whose task has begun is removed. *)
StopService ==
  /\ Running /\ Down
  /\ LET removed == {j \in Jobs \ (Recurring \union deleting) :
                       Cancellable(j) /\ task[j] # "new"}
     IN cronDisk' = [j \in Jobs |-> IF j \in removed THEN Absent
                                    ELSE IF \E k \in removed : Home[k] = Home[j]
                                    THEN jobs[j] ELSE cronDisk[j]]

-----------------------------------------------------------------------------
(* The scheduler.  A pass clears the event, restores workspaces, takes the *)
(* time and goes through a copy of the workspaces.  Nothing is awaited     *)
(* between the last of them and the wait, nor in run_due under its lock.   *)
(* What fails outside the loop over the workspaces ends the task for good. *)
Dead == SchedulerAt("dead", {}, 0, 0)
Fresh == known \ (open \union retired)

Pass ==
  \E opened \in SUBSET Fresh, ok \in BOOLEAN : \E saved \in SUBSET opened :
    /\ InitializeSchedules(Fresh, opened, saved, ok)
    /\ open' = open \union opened
    /\ event' = (saved # {})
    /\ sched' = IF ok THEN SchedulerAt("loop", open \union opened, now, 0) ELSE Dead

Due(p) == {j \in Jobs \ deleting : Home[j] = p /\ jobs[j] \in 1..sched.at}

(* _advance_deadline of every due job. *)
Advanced(p) ==
  [j \in Jobs |-> IF j \in Due(p) THEN NextJobFire(j, jobs[j], jobs[j]) ELSE jobs[j]]

(* _run_workspace_due looks again: the copy may hold a retired principal. *)
Skips(p) == p \in retired

RunDue(p, ok) ==
  /\ sched.pc = "loop" /\ p \in sched.todo
  /\ sched' = [sched EXCEPT !.todo = @ \ {p}]
  /\ IF Skips(p) \/ Due(p) = {}
     THEN ok /\ UNCHANGED <<storeVars, task, claim, event>>
     ELSE /\ LET started == {j \in Due(p) : task[j] = "none"}
             IN /\ task' = [j \in Jobs |-> IF j \in started THEN "new" ELSE task[j]]
                /\ claim' = [j \in Jobs |-> IF j \in started THEN jobs[j] ELSE claim[j]]
          /\ Save(p, Advanced(p), ok)
          /\ ScheduleChanged(ok)
  /\ UNCHANGED <<now, phase, killed, deleteVars, principalVars, incidents, pastVars>>

(* The earliest deadline of the workspaces, NoFire when there is none. *)
EarliestDeadline ==
  LET ahead == {jobs[j] : j \in {k \in Jobs \ deleting : Home[k] \in open /\ jobs[k] > 0}}
  IN IF ahead = {} THEN NoFire ELSE CHOOSE t \in ahead : \A u \in ahead : t <= u

SchedulerWaits ==
  /\ sched.pc = "loop" /\ sched.todo = {}
  /\ \/ event /\ Pass
     \/ ~event /\ sched' = SchedulerAt("asleep", {}, 0, EarliestDeadline) /\ UNCHANGED <<storeVars, event, open>>
     \/ sched' = Dead /\ MayFail /\ faults' = faults + 1 /\ UNCHANGED <<jobs, cronDisk, event, open>>
  /\ UNCHANGED <<now, phase, taskVars, deleteVars, known, retired, incidents, pastVars>>

SchedulerWakes ==
  /\ sched.pc = "asleep"
  /\ event \/ sched.until \in 1..now
  /\ Pass
  /\ UNCHANGED <<now, phase, taskVars, deleteVars, known, retired, incidents, pastVars>>

(* A turn, a tool or the Catalog needs the workspace before the scheduler *)
(* has opened it; what fails is the caller's failure.                     *)
WorkspaceFor(p) ==
  /\ Running /\ p \in Fresh
  /\ \E opened \in SUBSET {p}, ok \in BOOLEAN : \E saved \in SUBSET opened :
       /\ InitializeSchedules({p}, opened, saved, ok)
       /\ open' = open \union opened
       /\ event' = (event \/ saved # {})
  /\ UNCHANGED <<now, phase, taskVars, deleteVars, sched, known, retired, incidents, pastVars>>

SchedulerStep == SchedulerWaits \/ SchedulerWakes
                 \/ \E p \in Principals, ok \in BOOLEAN : RunDue(p, ok)

-----------------------------------------------------------------------------
(* Jobs and their tasks. *)
CreateJob(j, at, ok) ==
  /\ Running /\ Home[j] \in open /\ j \notin born /\ Cardinality(born) + faults < MaxLoad
  /\ IF j \in Recurring THEN at = NextFire(now) ELSE at \in (now + 1)..MaxTime
  /\ born' = born \union {j}
  /\ Save(Home[j], [jobs EXCEPT ![j] = at], ok)
  /\ ScheduleChanged(ok)
  /\ spoilt' = IF ok THEN spoilt ELSE spoilt \union {j}
  /\ UNCHANGED <<now, phase, taskVars, deleteVars, sched, principalVars, incidents,
                 lastRun, repeated, gone>>

(* The `finally` of _run_job. *)
TaskEnds(j) ==
  /\ task' = [task EXCEPT ![j] = "none"]
  /\ killed' = killed \ {j}
  /\ event' = TRUE

Undisturbed(j, pc) == Running /\ task[j] = pc /\ j \notin killed

TaskBegins(j) ==
  /\ Undisturbed(j, "new")
  /\ IF jobs[j] = Absent THEN TaskEnds(j)
     ELSE task' = [task EXCEPT ![j] = "queued"] /\ UNCHANGED <<event, killed>>
  /\ UNCHANGED <<now, phase, storeVars, claim, deleteVars, sched, principalVars,
                 incidents, pastVars>>

(* The background semaphore is taken and _mark_running looks at the job again. *)
StartsRunning(j) ==
  /\ Undisturbed(j, "queued") /\ Cardinality(Executing) < BackgroundCap
  /\ IF j \in deleting \/ jobs[j] = Absent
     THEN TaskEnds(j) /\ UNCHANGED <<lastRun, repeated>>
     ELSE /\ task' = [task EXCEPT ![j] = "running"]
          /\ lastRun' = [lastRun EXCEPT ![j] = claim[j]]
          /\ repeated' = IF claim[j] <= lastRun[j] \/ (j \notin Recurring /\ lastRun[j] # NoFire)
                         THEN repeated \union {j} ELSE repeated
          /\ UNCHANGED <<event, killed>>
  /\ claim' = [claim EXCEPT ![j] = NoFire]
  /\ UNCHANGED <<now, phase, storeVars, deleteVars, sched, principalVars,
                 incidents, born, gone, spoilt>>

FinishJob(j, success, ok) ==
  /\ Undisturbed(j, "running")
  /\ IF j \in deleting \/ jobs[j] = Absent
     THEN ok /\ TaskEnds(j) /\ UNCHANGED storeVars
     ELSE /\ Save(Home[j], IF j \in Recurring THEN jobs ELSE [jobs EXCEPT ![j] = Absent], ok)
          /\ IF ok THEN /\ task' = [task EXCEPT ![j] = IF success THEN "publishing" ELSE "failing"]
                        /\ UNCHANGED <<event, killed>>
             ELSE TaskEnds(j)
  /\ UNCHANGED <<now, phase, claim, deleteVars, sched, principalVars, incidents, pastVars>>

(* enqueue returns or raises; the recovery that is then reported resolves   *)
(* an incident and makes none.                                             *)
PublishResult(j) ==
  /\ Undisturbed(j, "publishing") /\ TaskEnds(j)
  /\ UNCHANGED <<now, phase, storeVars, claim, deleteVars, sched, principalVars,
                 incidents, pastVars>>

ReportFailure(j) ==
  /\ Undisturbed(j, "failing") /\ TaskEnds(j)
  /\ incidents' = incidents \union {j}
  /\ UNCHANGED <<now, phase, storeVars, claim, deleteVars, sched, principalVars, pastVars>>

(* A task that was cancelled before its first step never runs at all, its  *)
(* `finally` included: its entry stays in _tasks.                          *)
TaskCancelled(j, ok) ==
  /\ Running /\ j \in killed
  /\ IF task[j] = "new"
     THEN /\ ok /\ task' = [task EXCEPT ![j] = "stale"] /\ killed' = killed \ {j}
          /\ UNCHANGED <<storeVars, event>>
     ELSE /\ TaskEnds(j)
          /\ IF j \in Recurring \union deleting \/ jobs[j] = Absent
             THEN ok /\ UNCHANGED storeVars
             ELSE Save(Home[j], [jobs EXCEPT ![j] = Absent], ok)
  /\ UNCHANGED <<now, phase, claim, deleteVars, sched, principalVars, incidents, pastVars>>

-----------------------------------------------------------------------------
(* delete_job: mark, cancel and join, purge the incidents, remove and save. *)
DeleteJob(d, j) ==
  /\ Running /\ Home[j] \in open \ retired
  /\ deletion[d].pc = "idle" /\ jobs[j] # Absent
  /\ deleting' = deleting \union {j}
  /\ killed' = IF Cancellable(j) THEN killed \union {j} ELSE killed
  /\ deletion' = [deletion EXCEPT ![d] = [pc |-> "joining", job |-> j]]
  /\ UNCHANGED <<now, phase, storeVars, task, claim, schedVars, principalVars, incidents, pastVars>>

DeletePurges_NotJoined(d) ==
  /\ Running /\ deletion[d].pc = "joining"
  /\ incidents' = incidents \ {deletion[d].job}
  /\ deletion' = [deletion EXCEPT ![d].pc = "removing"]
  /\ UNCHANGED <<now, phase, storeVars, taskVars, deleting, schedVars, principalVars, pastVars>>
DeletePurges(d) ==
  /\ Running /\ deletion[d].pc = "joining"
  /\ LET j == deletion[d].job
     IN /\ j \notin killed
        /\ incidents' = incidents \ {j}
        /\ deletion' = [deletion EXCEPT ![d].pc = "removing"]
  /\ UNCHANGED <<now, phase, storeVars, taskVars, deleting, schedVars, principalVars, pastVars>>

DeleteEnds(d) ==
  /\ deletion' = [deletion EXCEPT ![d] = [pc |-> "idle"]]
  /\ deleting' = deleting \ {deletion[d].job}
  /\ event' = TRUE

(* A task that a failed deletion let start meanwhile goes on outside _tasks. *)
DeleteRemoves(d, ok) ==
  /\ Running /\ deletion[d].pc = "removing"
  /\ LET j == deletion[d].job
     IN /\ Save(Home[j], [jobs EXCEPT ![j] = Absent], ok)
        /\ task' = [task EXCEPT ![j] = IF @ = "stale" THEN "none" ELSE @]
        /\ gone' = IF ok THEN gone \union {j} ELSE gone
        /\ spoilt' = IF ok THEN spoilt ELSE spoilt \union {j}
  /\ DeleteEnds(d)
  /\ UNCHANGED <<now, phase, claim, killed, sched, principalVars, incidents, lastRun, repeated, born>>

(* The purge raises, or the turn or request that deletes is cancelled. *)
DeleteFails(d) ==
  /\ Running /\ deletion[d].pc \in {"joining", "removing"} /\ MayFail
  /\ faults' = faults + 1
  /\ spoilt' = spoilt \union {deletion[d].job}
  /\ DeleteEnds(d)
  /\ UNCHANGED <<now, phase, jobs, cronDisk, taskVars, sched, principalVars, incidents,
                 lastRun, repeated, born, gone>>

-----------------------------------------------------------------------------
(* An independent principal is retired under its lock, which the scheduler *)
(* also holds; its Binding is blocked, so none of its turns is deleting a  *)
(* job.  The deletion then ends, or fails and restores the principal.      *)
RetirePrincipal(p) ==
  /\ Running /\ p \in known \ (retired \union {Owner})
  /\ \A d \in Deleters : deletion[d].pc # "idle" => Home[deletion[d].job] # p
  /\ PrincipalIdle(p)
  /\ MayFail /\ retired' = retired \union {p} /\ open' = open \ {p}
  /\ event' = TRUE
  /\ UNCHANGED <<now, phase, storeVars, taskVars, deleteVars, sched, known, incidents, pastVars>>

(* The data root is removed with everything in it. *)
PrincipalDeleted(p) ==
  /\ Running /\ p \in retired \intersect known
  /\ known' = known \ {p}
  /\ cronDisk' = [j \in Jobs |-> IF Home[j] = p THEN Absent ELSE cronDisk[j]]
  /\ incidents' = {j \in incidents : Home[j] # p}
  /\ UNCHANGED <<now, phase, jobs, faults, taskVars, deleteVars, schedVars, retired, open, pastVars>>

RestorePrincipal(p) ==
  /\ Running /\ p \in retired \intersect known
  /\ retired' = retired \ {p} /\ event' = TRUE
  /\ UNCHANGED <<now, phase, storeVars, taskVars, deleteVars, sched, known, open, incidents, pastVars>>

-----------------------------------------------------------------------------
JobStep(j) ==
  \/ \E at \in 1..(MaxTime + 1), ok \in BOOLEAN : CreateJob(j, at, ok)
  \/ TaskBegins(j) \/ StartsRunning(j) \/ PublishResult(j) \/ ReportFailure(j)
  \/ \E success, ok \in BOOLEAN : FinishJob(j, success, ok)
  \/ \E ok \in BOOLEAN : TaskCancelled(j, ok)
  \/ \E d \in Deleters : DeleteJob(d, j)

DeleteStep(d) == DeletePurges(d) \/ DeleteFails(d) \/ \E ok \in BOOLEAN : DeleteRemoves(d, ok)
PrincipalStep(p) ==
  RetirePrincipal(p) \/ PrincipalDeleted(p) \/ RestorePrincipal(p) \/ WorkspaceFor(p)

CronNext ==
  \/ Tick \/ StartService \/ StartFails \/ Crash \/ StopService \/ SchedulerStep
  \/ \E j \in Jobs : JobStep(j)
  \/ \E d \in Deleters : DeleteStep(d)
  \/ \E p \in Principals : PrincipalStep(p)

CronSpec == CronInit /\ [][CronNext]_cronVars /\ WF_cronVars(SchedulerStep)

-----------------------------------------------------------------------------
(* A deadline is executed at most once, and a one-shot job at most once,   *)
(* whatever fails and whenever the process stops and starts again: run_due *)
(* persists the next deadline first and a start never makes up for one.    *)
RunAtMostOnce ==
  repeated = {}

(* What has gone stays gone.  Once delete_job has returned, nothing of the *)
(* job comes back: no snapshot, no incidents, and no task that could still *)
(* write or deliver one, unless another deletion of the job failed         *)
(* meanwhile.  And a retired principal has no workspace and no job of it   *)
(* runs, though the scheduler goes through the workspaces it knew before.  *)
NothingComesBack ==
  /\ \A j \in gone \ spoilt :
       jobs[j] = Absent /\ cronDisk[j] = Absent /\ j \notin incidents /\ task[j] = "none"
  /\ Running => \A p \in retired : p \notin open /\ PrincipalIdle(p)

(* A stored job of a running workspace has a deadline ahead or a task that *)
(* will remove it: none is left over that neither runs nor goes away, and  *)
(* only a deletion that failed may leave one, which can be deleted again.  *)
NoDeadJob ==
  \A j \in Jobs \ (deleting \union spoilt) :
    Running /\ Home[j] \in open =>
      /\ jobs[j] = NoFire => task[j] # "none"
      /\ task[j] # "stale"

(* A deadline that has passed is claimed, however the creation, deletion   *)
(* and end of jobs interleave with the scheduler's loop and its wait.      *)
(* Excepted is a scheduler that has died of an error outside the loop over *)
(* the workspaces: then nothing is claimed until the service starts again. *)
Overdue(j) ==
  /\ phase = "up" /\ Home[j] \in open
  /\ jobs[j] \in 1..now /\ j \notin deleting \union spoilt
DueIsClaimed == \A j \in Jobs : Overdue(j) ~> (~Overdue(j) \/ sched.pc = "dead")
=============================================================================
