--------------------------- MODULE RuntimeReload ---------------------------
(***************************************************************************)
(* Replacement of the Runtime: RuntimeSupervisor (gateway/                 *)
(* runtime_supervisor.py) with the activation the Host gives it            *)
(* (gateway/host.py) and the start, stop and drain of the ProactiveService *)
(* (proactive/service.py).                                                 *)
(*                                                                         *)
(* A reload runs in the task of whoever calls it: an Apply request, an     *)
(* idle check of a background job, a delivery listener, or the delivery of *)
(* a Web reply, which the channel manager cancels after its timeout.  A    *)
(* step runs from one await to the next; `pc` names the await at which the *)
(* holder of _replace_lock is suspended.                                   *)
(*                                                                         *)
(* A Runtime stands for all that is bound to it.  GatewayTurns has the     *)
(* turns in detail; here a turn is accepted, runs and ends, and its end is *)
(* one step with the notice of idleness (GatewayTurns!NoticedIdle).        *)
(***************************************************************************)
EXTENDS Naturals, Sequences, FiniteSets

CONSTANTS Turn,        \* turns (reused when they have ended)
          WebTurn,     \* the turns whose reply goes to the Web
          Job,         \* background jobs of the proactive service
          Id,          \* identities of Runtime objects
          InitialId,   \* the Runtime the Gateway starts with
          None,        \* no Runtime
          Ended,       \* a job that ended and whose idle check is to run
          MaxRevision, \* bound: number of Apply requests
          MaxTimeout,  \* bound: number of deliveries that time out
          MaxCallers   \* bound: callers of _reload when a new turn or job comes

ASSUME ReloadAssumption ==
  /\ WebTurn \subseteq Turn
  /\ Turn \intersect Job = {}
  /\ InitialId \in Id
  /\ None \notin Id /\ Ended \notin Id /\ None # Ended
  /\ MaxRevision \in Nat /\ MaxTimeout \in Nat /\ MaxCallers \in Nat

VARIABLES
  desired,    \* _desired_revision
  active,     \* _active_revision
  state,      \* _state
  ready,      \* _ready is set
  closing,    \* _closing
  callers,    \* tasks in _reload, oldest first: the first holds the lock
  pc,         \* the await the first of them is suspended at
  target,     \* replacement_revision of the holder
  cand,       \* replacement of the holder
  prev,       \* `previous` of _activate_runtime
  timedOut,   \* the holder has been cancelled
  runtime,    \* _runtime
  open,       \* Runtimes constructed and not closed
  service,    \* the Runtime of the Host's proactive_service
  up,         \* Runtimes whose proactive service schedules jobs
  tools,      \* Runtimes whose registry holds the proactive tools
  resolver,   \* the Runtime the Host's principal_resolver belongs to
  place,      \* where a turn is
  used,       \* the Runtime a running turn or job uses
  stopped,    \* how far GatewayHost.close has got
  timeouts,   \* number of deliveries that have timed out
  abandoned,  \* history: Runtimes whose close was cancelled
  interrupted \* history: an activation was cancelled after it stopped the service

reloadVars == <<pc, target, cand, prev, timedOut>>
hostVars == <<service, up, tools>>
workVars == <<place, used>>
history == <<abandoned, interrupted>>
vars == <<desired, active, state, ready, closing, callers, reloadVars, runtime,
          open, hostVars, resolver, workVars, stopped, timeouts, history>>

Kinds == {"apply", "task", "listener", "delivery", "stop"}

(* entering: the lock has been handed over; building: runtime_factory();    *)
(* starting: Runtime.start; stopping: stop of the previous service;         *)
(* publishing: publish_all; undoing: stop of the candidate's service;       *)
(* discarding, dropping, failing, cancelling: close of the candidate,       *)
(* because the Gateway closes, is no longer idle, or the reload failed or   *)
(* was cancelled; retiring: close of the replaced Runtime.                  *)
Locations == {"free", "entering", "building", "starting", "stopping", "publishing",
              "undoing", "discarding", "dropping", "failing", "cancelling", "retiring"}

Init ==
  /\ desired = 0 /\ active = 0
  /\ state = "active"
  /\ ready = TRUE
  /\ closing = FALSE
  /\ callers = <<>>
  /\ pc = "free"
  /\ target = 0
  /\ cand = None /\ prev = None
  /\ timedOut = FALSE
  /\ runtime = InitialId /\ open = {InitialId}
  /\ service = InitialId /\ up = {InitialId} /\ tools = {InitialId}
  /\ resolver = InitialId
  /\ place = [t \in Turn |-> "none"]
  /\ used = [w \in Turn \union Job |-> None]
  /\ stopped = "no"
  /\ timeouts = 0
  /\ abandoned = {} /\ interrupted = FALSE

(* _is_globally_idle: turns and controls, and the jobs of the Host's service *)
Idle == (\A t \in Turn : place[t] = "none") /\ (\A j \in Job : used[j] # service)

(* Any object that nothing refers to any more may be the next candidate. *)
Fresh == Id \ (open \union up \union tools \union {runtime, service, resolver}
                    \union {used[w] : w \in Turn \union Job})

-----------------------------------------------------------------------------
(***************************************************************************)
(* The beginning of _reload under the lock, when it gets beyond its checks.*)
(***************************************************************************)
Build ==
  /\ pc' = "building"
  /\ state' = "applying"
  /\ ready' = FALSE
  /\ target' = desired'

(* `await self._reload()` of a caller that has just found the Gateway idle. *)
CallReload(kind) ==
  /\ callers' = Append(callers, kind)
  /\ IF callers = <<>> THEN Build ELSE UNCHANGED <<pc, state, ready, target>>

(* notify_idle, called in the same step as the change that precedes it *)
Notices == ~closing /\ state = "pending" /\ Idle'

NotifyIdle(kind) ==
  /\ desired' = desired
  /\ IF Notices THEN CallReload(kind)
     ELSE UNCHANGED <<callers, pc, state, ready, target>>

(* request_reload: the newest revision wins, applied now or when idle *)
Apply ==
  /\ ~closing
  /\ desired < MaxRevision
  /\ desired' = desired + 1
  /\ IF Idle THEN CallReload("apply")
     ELSE state' = "pending" /\ UNCHANGED <<callers, pc, ready, target>>
  /\ UNCHANGED <<active, closing, cand, prev, timedOut, runtime, open, hostVars,
                 resolver, workVars, stopped, timeouts, history>>

(***************************************************************************)
(* The lock is released: the next caller, if any, gets it.                 *)
(***************************************************************************)
Handoff_Forgets(q) == "free"
Handoff(q) == IF q = <<>> THEN "free" ELSE "entering"

Leave ==
  /\ callers' = Tail(callers)
  /\ pc' = Handoff(Tail(callers))
  /\ ready' = TRUE
  /\ cand' = None /\ prev' = None
  /\ timedOut' = FALSE

(* A caller that waited repeats the checks; stop_reloads only waits. *)
Enter ==
  /\ pc = "entering"
  /\ UNCHANGED <<desired, active, closing, runtime, open, hostVars, resolver,
                 workVars, timeouts, history>>
  /\ IF closing \/ ~Idle
     THEN /\ state' = IF closing THEN state ELSE "pending"
          /\ Leave
          /\ stopped' = IF Head(callers) = "stop" THEN "sealed" ELSE stopped
          /\ UNCHANGED target
     ELSE Build /\ UNCHANGED <<callers, cand, prev, timedOut, stopped>>

(* _prepare_runtime: event handlers, and the resolver of the Host *)
PrepareRuntime(c) == resolver' = c

(* The candidate exists; the Host prepares it if all is still idle. *)
Built ==
  /\ pc = "building"
  /\ \E c \in Fresh :
       /\ cand' = c
       /\ open' = open \union {c}
       /\ IF closing \/ Idle
          THEN /\ state' = state
               /\ pc' = IF closing THEN "discarding" ELSE "starting"   \* _discard_if_closing
               /\ IF closing THEN resolver' = resolver ELSE PrepareRuntime(c)
          ELSE /\ state' = "pending"
               /\ pc' = "dropping"
               /\ resolver' = resolver
  /\ UNCHANGED <<desired, active, ready, closing, callers, target, prev, timedOut,
                 runtime, hostVars, workVars, stopped, timeouts, history>>

BuildFails ==
  /\ pc = "building"
  /\ state' = "failed"
  /\ Leave
  /\ UNCHANGED <<desired, active, closing, target, runtime, open, hostVars, resolver,
                 workVars, stopped, timeouts, history>>

(***************************************************************************)
(* The candidate has started.  If all is still idle its activation begins: *)
(* the previous service drains at once, loses its tools, and stops.        *)
(***************************************************************************)
StopsService_Late == up
StopsService == up \ {service}

BeginActivation ==
  /\ pc' = "stopping"
  /\ prev' = service
  /\ up' = StopsService
  /\ tools' = tools \ {service}

Started ==
  /\ pc = "starting"
  /\ IF closing \/ ~Idle
     THEN /\ pc' = IF closing THEN "discarding" ELSE "dropping"
          /\ state' = IF closing THEN state ELSE "pending"
          /\ UNCHANGED <<prev, up, tools>>
     ELSE BeginActivation /\ state' = state
  /\ UNCHANGED <<desired, active, ready, closing, callers, target, cand, timedOut,
                 runtime, open, service, resolver, workVars, stopped, timeouts, history>>

StartFails ==
  /\ pc = "starting"
  /\ pc' = "failing"
  /\ state' = "failed"
  /\ UNCHANGED <<desired, active, ready, closing, callers, target, cand, prev, timedOut,
                 runtime, open, hostVars, resolver, workVars, stopped, timeouts, history>>

(* The candidate's service is created, has its tools, starts, and is the Host's. *)
ServiceStopped ==
  /\ pc = "stopping"
  /\ \/ /\ pc' = "publishing"
        /\ service' = cand
        /\ up' = up \union {cand}
        /\ tools' = tools \union {cand}
     \/ /\ pc' = "undoing"          \* its construction or start raises
        /\ UNCHANGED hostVars
  /\ UNCHANGED <<desired, active, state, ready, closing, callers, target, cand, prev,
                 timedOut, runtime, open, resolver, workVars, stopped, timeouts, history>>

(* Commit, at the return of publish_all, without a further look at Idle. *)
CommitState_Active == "active"
CommitState == IF desired = target THEN "active" ELSE "pending"

Published ==
  /\ pc = "publishing"
  /\ IF closing THEN pc' = "discarding" /\ UNCHANGED <<runtime, active, state, cand, interrupted>>
     ELSE /\ pc' = "retiring"
          /\ runtime' = cand
          /\ cand' = runtime          \* the Runtime to close
          /\ active' = target
          /\ state' = CommitState
          /\ interrupted' = FALSE
  /\ UNCHANGED <<desired, ready, closing, callers, target, prev, timedOut, open, hostVars,
                 resolver, workVars, stopped, timeouts, abandoned>>

(* uninstall_tools and the first part of stop of the candidate's service *)
StopCandidate ==
  /\ pc' = "undoing"
  /\ up' = up \ {cand}
  /\ tools' = tools \ {cand}
  /\ used' = [w \in Turn \union Job |-> IF w \in Job /\ used[w] = cand THEN Ended ELSE used[w]]
  /\ UNCHANGED <<service, place>>

PublishFails ==
  /\ pc = "publishing"
  /\ StopCandidate
  /\ UNCHANGED <<desired, active, state, ready, closing, callers, target, cand, prev,
                 timedOut, runtime, open, resolver, stopped, timeouts, history>>

(* The previous service is the Host's again, has its tools and starts. *)
RestoredService_Candidate == service
RestoredService == prev

Undone ==
  /\ pc = "undoing"
  /\ service' = RestoredService
  /\ up' = up \union {prev}
  /\ tools' = tools \union {prev}
  /\ pc' = IF timedOut THEN "cancelling" ELSE "failing"
  /\ state' = IF timedOut THEN state ELSE "failed"
  /\ UNCHANGED <<desired, active, ready, closing, callers, target, cand, prev, timedOut,
                 runtime, open, resolver, workVars, stopped, timeouts, history>>

(* The close of the candidate, or of the replaced Runtime, returns. *)
CancelledState == IF closing THEN "active" ELSE "failed"

Closes_Not == {}
Closes == {cand}

CloseReturns ==
  /\ pc \in {"discarding", "dropping", "failing", "cancelling", "retiring"}
  /\ open' = open \ Closes
  /\ state' = IF pc = "discarding" THEN "active"
              ELSE IF pc = "cancelling" THEN CancelledState ELSE state
  /\ Leave
  /\ UNCHANGED <<desired, active, closing, target, runtime, hostVars, resolver, workVars,
                 stopped, timeouts, history>>

-----------------------------------------------------------------------------
(***************************************************************************)
(* The channel manager cancels the delivery of a Web reply.  wait_for      *)
(* cancels once: what the handlers then await is not cancelled again.      *)
(***************************************************************************)
CancelWaiting ==
  /\ \E i \in 1..Len(callers) :
       /\ callers[i] = "delivery"
       /\ i # 1 \/ pc = "entering"
       /\ callers' = [k \in 1..(Len(callers) - 1) |-> IF k < i THEN callers[k] ELSE callers[k + 1]]
       /\ pc' = IF i = 1 THEN Handoff(Tail(callers)) ELSE pc
  /\ UNCHANGED <<state, ready, target, cand, prev, timedOut, open, hostVars, used, place, history>>

(* The close that was awaited may or may not have been finished. *)
CancelClose ==
  /\ Leave
  /\ \E lost \in SUBSET {cand} :
       /\ abandoned' = abandoned \union lost
       /\ open' = open \ ({cand} \ lost)
  /\ UNCHANGED <<target, hostVars, workVars, interrupted>>

(* The handler of CancelledError has a candidate to close. *)
CancelCandidate ==
  /\ pc' = "cancelling"
  /\ timedOut' = TRUE
  /\ interrupted' = (interrupted \/ pc \in {"stopping", "undoing"})
  /\ UNCHANGED <<callers, state, ready, target, cand, prev, open, hostVars, workVars, abandoned>>

CancelHolder ==
  /\ callers # <<>> /\ Head(callers) = "delivery" /\ ~timedOut
  /\ \/ /\ pc = "building"
        /\ state' = CancelledState
        /\ Leave
        /\ UNCHANGED <<target, open, hostVars, workVars, history>>
     \/ /\ pc \in {"starting", "stopping", "undoing", "discarding", "dropping"}
        /\ CancelCandidate
     \/ /\ pc = "publishing"
        /\ StopCandidate
        /\ timedOut' = TRUE
        /\ UNCHANGED <<callers, state, ready, target, cand, prev, open, history>>
     \/ /\ pc = "failing"                        \* in the handler of the failure
        /\ CancelClose
        /\ state' = state
     \/ /\ pc = "retiring"                       \* committed: nothing to undo
        /\ CancelClose
        /\ state' = CancelledState

DeliveryTimesOut ==
  /\ timeouts < MaxTimeout
  /\ timeouts' = timeouts + 1
  /\ CancelWaiting \/ CancelHolder
  /\ UNCHANGED <<desired, active, closing, runtime, resolver, stopped>>

-----------------------------------------------------------------------------
(***************************************************************************)
(* Turns and jobs.                                                         *)
(***************************************************************************)
Quiescent == <<active, closing, cand, prev, timedOut, runtime, open, hostVars, resolver,
               stopped, timeouts, history>>

Accept(t) ==
  /\ ~closing
  /\ Len(callers) < MaxCallers
  /\ place[t] = "none"
  /\ place' = [place EXCEPT ![t] = "accepted"]
  /\ UNCHANGED <<desired, state, ready, callers, pc, target, used, Quiescent>>

(* acquire_runtime returns, run_turn begins *)
RuntimeReady_Always == TRUE
RuntimeReady == ready

Begin(t) ==
  /\ place[t] = "accepted"
  /\ RuntimeReady
  /\ stopped # "closed"
  /\ place' = [place EXCEPT ![t] = "running"]
  /\ used' = [used EXCEPT ![t] = runtime]
  /\ UNCHANGED <<desired, state, ready, callers, pc, target, Quiescent>>

(* The reply is delivered and the route released.  The outbound consumer    *)
(* delivers one message at a time and is itself the caller of notify_idle.  *)
ConsumerFree == \A i \in 1..Len(callers) : callers[i] \notin {"delivery", "listener"}

End(t) ==
  /\ place[t] = "running"
  /\ ConsumerFree
  /\ place' = [place EXCEPT ![t] = "none"]
  /\ used' = [used EXCEPT ![t] = None]
  /\ UNCHANGED Quiescent
  /\ NotifyIdle(IF t \in WebTurn THEN "delivery" ELSE "listener")

(* The dispatch callback of an accepted IM or CLI message raises. *)
Reject(t) ==
  /\ place[t] = "accepted" /\ t \notin WebTurn
  /\ place' = [place EXCEPT ![t] = "none"]
  /\ used' = used
  /\ UNCHANGED Quiescent
  /\ NotifyIdle("task")

(* A service that is up starts a job; at its end a task checks for idleness. *)
StartJob(j) ==
  /\ used[j] = None
  /\ Len(callers) < MaxCallers
  /\ \E s \in up : used' = [used EXCEPT ![j] = s]
  /\ UNCHANGED <<desired, state, ready, callers, pc, target, place, Quiescent>>

EndJob(j) ==
  /\ used[j] \in Id
  /\ used' = [used EXCEPT ![j] = Ended]
  /\ UNCHANGED <<desired, state, ready, callers, pc, target, place, Quiescent>>

IdleCheck(j) ==
  /\ used[j] = Ended
  /\ used' = [used EXCEPT ![j] = None]
  /\ place' = place
  /\ UNCHANGED Quiescent
  /\ NotifyIdle("task")

-----------------------------------------------------------------------------
(***************************************************************************)
(* GatewayHost.close: stop_reloads, then _stop_components, which stops the *)
(* proactive service first and closes the turns before the Runtime.        *)
(***************************************************************************)
StopReloads ==
  /\ ~closing
  /\ closing' = TRUE
  /\ callers' = IF callers = <<>> THEN callers ELSE Append(callers, "stop")
  /\ stopped' = IF callers = <<>> THEN "sealed" ELSE "no"
  /\ UNCHANGED <<desired, active, state, ready, reloadVars, runtime, open, hostVars,
                 resolver, workVars, timeouts, history>>

StopService ==
  /\ stopped = "sealed"
  /\ stopped' = "serviceStopped"
  /\ up' = up \ {service}
  /\ used' = [w \in Turn \union Job |-> IF w \in Job /\ used[w] = service THEN Ended ELSE used[w]]
  /\ UNCHANGED <<desired, active, state, ready, closing, callers, reloadVars, runtime,
                 open, service, tools, resolver, place, timeouts, history>>

CloseRuntime ==
  /\ stopped = "serviceStopped"
  /\ stopped' = "closed"
  /\ place' = [t \in Turn |-> "none"]
  /\ used' = [w \in Turn \union Job |-> IF w \in Turn THEN None ELSE used[w]]
  /\ open' = open \ {runtime}
  /\ UNCHANGED <<desired, active, state, ready, closing, callers, reloadVars, runtime,
                 hostVars, resolver, timeouts, history>>

-----------------------------------------------------------------------------
Holder == \/ Enter \/ Built \/ BuildFails \/ Started \/ StartFails \/ ServiceStopped
          \/ Published \/ PublishFails \/ Undone \/ CloseReturns

Next ==
  \/ Apply
  \/ Holder
  \/ DeliveryTimesOut
  \/ \E t \in Turn : Accept(t) \/ Begin(t) \/ End(t) \/ Reject(t)
  \/ \E j \in Job : StartJob(j) \/ EndJob(j) \/ IdleCheck(j)
  \/ StopReloads \/ StopService \/ CloseRuntime

Spec == Init /\ [][Next]_vars

(* asyncio runs every ready task, and every call a reload awaits returns or *)
(* raises; a turn or a job may last for ever.                               *)
FairSpec == Spec /\ WF_vars(Holder) /\ \A j \in Job : WF_vars(IdleCheck(j))

-----------------------------------------------------------------------------
AtRest == pc = "free"

TypeOK ==
  /\ desired \in Nat /\ active \in 0..desired /\ target \in 0..desired
  /\ state \in {"active", "pending", "applying", "failed"}
  /\ ready \in BOOLEAN /\ closing \in BOOLEAN
  /\ callers \in Seq(Kinds)
  /\ pc \in Locations
  /\ pc = "free" <=> callers = <<>>
  /\ cand \in Id \union {None} /\ prev \in Id \union {None}
  /\ timedOut \in BOOLEAN
  /\ runtime \in Id /\ open \subseteq Id
  /\ service \in Id /\ up \subseteq Id /\ tools \subseteq Id
  /\ resolver \in Id
  /\ place \in [Turn -> {"none", "accepted", "running"}]
  /\ used \in [Turn \union Job -> Id \union {None, Ended}]
  /\ stopped \in {"no", "sealed", "serviceStopped", "closed"}
  /\ timeouts \in 0..MaxTimeout
  /\ abandoned \subseteq Id /\ interrupted \in BOOLEAN

(* A turn keeps the Runtime that is committed and open until it ends, and   *)
(* no job works on a closed one (unless an activation was interrupted):     *)
(* acquire_runtime waits for _ready, and commit relies on that alone.       *)
WorkOnOpenRuntime == ~closing =>
  /\ \A t \in Turn : place[t] = "running" => used[t] = runtime
  /\ runtime \in open
  /\ interrupted \/ \A j \in Job : used[j] \in Id => used[j] \in open

(* There are never two proactive schedulers: the Cron of one data root is   *)
(* fired once.                                                              *)
OneScheduler == \A a, b \in up : a = b

(* When no reload is under way, the Host's service is the one of the        *)
(* committed Runtime, and, unless an activation was cancelled after it had  *)
(* stopped that service, it is up and the tools are in that Runtime.        *)
ServiceFollowsRuntime == (AtRest /\ ~closing /\ ~interrupted) =>
  service = runtime /\ up = {runtime} /\ tools = {runtime}

(* Whatever way a reload ends, one Runtime is left open, and those whose    *)
(* close was itself cancelled.                                              *)
NoLeakedRuntime == (AtRest /\ stopped # "closed") => open = {runtime} \union abandoned

(* A pending revision in an idle Gateway has a caller that will apply it    *)
(* (notify_idle).  Without a reload turns get their Runtime, the state is   *)
(* final, and "active" means that the newest revision is the one that runs. *)
RevisionIsFollowed ==
  /\ (state = "pending" /\ Idle /\ ~closing) =>
       callers # <<>> \/ \E j \in Job : used[j] = Ended
  /\ AtRest =>
       /\ ready
       /\ state # "applying"
       /\ (state = "active" /\ ~closing) => desired = active

(* If the Gateway becomes idle for good, no revision stays pending.         *)
PendingSettles == <>[](Idle /\ ~closing) => <>[](state # "pending")

(* phase-7 document, line 596: a reload that failed keeps the old instance: *)
(* Runtime, service, tools and principal resolver belong together and run.  *)
FailureKeepsOld == (AtRest /\ ~closing /\ state = "failed") =>
  /\ service = runtime /\ up = {runtime} /\ tools = {runtime}
  /\ resolver = runtime

(* phase-9 document, line 151: the desired revision is applied once the     *)
(* Gateway is idle.  A failure is reported for the revision that was tried. *)
DesiredIsTried == (AtRest /\ ~closing /\ state = "failed") => target = desired
=============================================================================
