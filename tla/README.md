# A TLA+ verification of the Turning-Good-Agent Gateway

Turning-Good-Agent is a personal agent that runs as one Python process, the *Gateway*. Messages
arrive from a command line client, a Web page and IM accounts (Weixin, Feishu), wait in one FIFO
line per route, run as agent turns on a shared *Runtime*, and are answered through one outbound
consumer. In the background a proactive service fires Cron jobs and reviews memory and skills. Both
the Runtime and the accounts can be replaced while the Gateway runs.

Everything happens in one asyncio loop. There are no data races; there are *awaits*. Between two
awaits a task runs alone, at an await any other ready task may run, and a task may be cancelled
there. Each module therefore takes one step per piece of code between two awaits (or per body of
an `async with lock`, where the code under the lock does not wait for anybody else), and the
locations of its state machines are the awaits.

Paths below are relative to `src/Turning-Good-Agent/` unless they start with `docs/` or `tests/`.

## 1. Inventory

| Component | State | Operations | Modelled by |
|---|---|---|---|
| Turn coordinator `gateway/turns.py`, `bus/queue.py` | `_inflight`, `_terminal` (LRU of replies), `_active_routes`, `_pending_routes`, `_route_blocks`, the two buses | submit, complete_route_turn, discard_pending_route, reserve/release of routes, consumption and execution, close | `GatewayTurns`, abstractly `RouteFifo` |
| Channel coordinators `channels/im.py`, `channels/cli_gateway.py`, `web/backend/coordinator.py` | one control per session, approvals, guidance | accept/send, dispatch callback, delivery listener, disconnect, approvals, stop, close | `GatewayTurns`, `ExecutionSlots` |
| Channel manager `channels/manager.py` | the outbound consumer, listeners | deliver with timeout, notify listeners, close | `GatewayTurns` |
| Execution slots | one `asyncio.Semaphore`, `_slot_held` of each control | enter, give back for an approval, take again, deadline, close | `ExecutionSlots` |
| Runtime supervisor `gateway/runtime_supervisor.py`, Host `gateway/host.py` | desired and active revision, state, `_ready`, `_replace_lock`, the Host's proactive service and resolver | request_reload, notify_idle, acquire_runtime, prepare, activate, close | `RuntimeReload` |
| Proactive service and Cron `proactive/service.py`, `cron.py`, `scheduler.py` | scheduler task, workspaces, job files, deadlines, tasks under the background semaphore | start, stop, drain, replacement (`RuntimeReload`); schedule loop, claims, jobs, deletion, retirement | `CronJobs`, `RuntimeReload` |
| Reviews `proactive/breakbeat.py`, `dream.py`, `review_window.py` | cursor, next run, items, the lock of a run | select a batch, review, commit; complete and delete items | `ReviewWindows` |
| Skill evolution `proactive/skill_evolution.py` | Observations and Drafts in `skill.json`, boundaries of the intervals | observe after a turn, evolve | `SkillEvolution` |
| Incidents and notices `proactive/incidents.py`, `notifications.py`, `web/backend/proactive_*.py` | `incidents.json`, subscribers, revision of the snapshots, queues of the pages | report, recover, resolve, delete; publish | `ProactivePages` |
| Bindings and principals `gateway/host.py`, `gateway/principals.py`, `channels/registry.py` | registry file, transports, roots, sessions, retired principals | delete, enable, disable, retire, restore | `BindingDeletion`; reservation in `GatewayTurns` |
| Turn of the agent `runtime/state.py`, `runtime/agent_loop.py`, `memory/short_term.py` | stage of the turn, round, guidance, Stop, summary and window | load, build, call the model, run tools, compact, save, respond | `AgentTurn` |
| Multi-Agent `multi_agent/` | Runs by parent request, nodes, two semaphores, event errors, the trace of the parent session | delegate, worker, finalize, waiting, stop, deadline, close, recovery | `MultiAgentRun`, abstractly `RunEvents` |
| Session store `sessions/` | JSONL files, `session.json`, locks | append, rewrite, clear, recover | rows and recovery of Multi-Agent Runs in `MultiAgentRun`, SAVE in `AgentTurn` |
| MCP `mcp/server_worker.py`, `manager.py`, `client.py` | connection, command queue, catalog | start with retries, call, refresh, reconnect, close | `McpWorker` |
| Weixin `channels/weixin.py`, `weixin_qr.py` | record with epoch and first sender, poll task, rescan, code and windows | login, poll, reply, rescan, expiry, enable, disable, revoke | `WeixinBinding`, `WeixinQr` |
| Feishu `channels/feishu.py`, `feishu_ws.py` | record, client, SDK process with its pipe, reconnect task | start, stop, reconnect, bind the owner, replace the credentials | `FeishuConnection`, `FeishuAccount` |
| Web session `web/backend/coordinator.py`, `events.py`, `gateway/catalog_actions.py`, the page's event reader | control, Catalog actions, numbered events with a replay buffer | send, Stop, guide, compact, subscribe, replay, snapshot | `WebSession`, the turn itself in `GatewayTurns` |
| Web read models, configuration, tools, LLM, hooks, CLI, display | - | request handlers, text, parsing, provider I/O | not modelled |

### How the parts interact

A channel coordinator hands a message to `GatewayTurnCoordinator.submit` with a *dispatch callback*.
The turn coordinator claims the route under its lock, releases the lock, and awaits the callback,
which registers a control and puts the message on the inbound bus. A consumer spawns a task per
message; the task takes an execution slot, waits in `RuntimeSupervisor.acquire_runtime`, runs the turn
and puts the reply on the outbound bus. The channel manager's single consumer sends it, at most 5 s,
and notifies the listeners; the listener (for Web: the send itself) drops the control and calls
`complete_route_turn`, which dispatches the next message of the line *inside the outbound consumer*.
Beside the turns, Catalog actions, reviews, the observation of a saved turn, Cron jobs, the control operations of
the page and the transports' own tasks run over the same files and records.
Every change that may have made the Gateway idle ends in `notify_idle`, which may run a whole reload
of the Runtime *inside the caller*: in the outbound consumer, in a job's task, or in an Apply request.

### What is hard here

* the route's claim is made under a lock and the dispatch is awaited outside it, so that a delivery,
  another submit, a disconnect and the rollback of a failed dispatch meet (`gateway/turns.py:99-168`);
* idleness is derived from five places, announced by five callers, and used after an await;
* a reload is a long critical section with eight awaits that a delivery timeout may cancel at each
  of them, and whose failure must undo what it began;
* a cancellation may arrive while a turn takes back the slot it gave up for an approval;
* a Multi-Agent Run is ended by its workers, its parent, Stop, the deadline, a refused row, the close or the next
  start, each from another place;
* Cron deadlines, sessions and registries are files: a crash, or an error, may fall between two writes;
* reviews, evolutions, compactions and replacements of credentials write back what they read many awaits before;
* a reply, a connection report, the callback of a closed window or an event of the page may arrive when what it
  belongs to has been replaced: epochs, generations, revisions and sequence numbers have to tell.

`PROJECT.json` lists the hazards one by one, each at its line and with the properties that cover it.

### What makes each component correct

* *Turns*: two turns of a route never overlap and run in the order of acceptance; `_inflight` is exact;
  a control belongs to the active request; a reserved route is quiet; idleness is announced; every
  accepted message ends.
* *Slots*: permits are conserved; no lost wakeup; nobody runs without a slot; waiting for an approval
  blocks nobody else.
* *Reload*: a turn keeps an open Runtime; one scheduler; after every outcome the service, the tools and the Runtime
  belong together and nothing leaks; a pending revision is applied once the Gateway is idle.
* *Multi-Agent*: one terminal row per node and Run, the Run's last, whatever ends it and across restarts; a completed Run has
  the completed nodes its strategy needs; no permit is lost; a Run ends at its deadline at the latest.
* *Agent turn*: what was saved is in the summary or in the window, once; a Run is told the end of the turn that began it, once.
* *Cron*: a deadline is executed at most once; nothing of a deleted job or a retired principal comes back; no job is left
  without a deadline and without a task; what is due is claimed while the scheduler lives.
* *Reviews*: a cursor passes only what was reviewed; no item and no Observation is lost or doubled; every full interval is read.
* *Pages*: a page that has read everything shows the files, a channel knows the last edge of the incident.
* *Deletion*: all of a Binding or nothing of it, after failures and restarts too.
* *MCP*: a waiting caller has its command in the queue or in execution; the published catalog is the server's.
* *Weixin, Feishu*: a reply reaches the user whose message it answers; the code on the screen is the one the program waits for;
  the transport believes what is true of the connection; record and running bot agree.
* *Web session*: no page shows a task for ever; what was said survives compactions.

## 2. Modules

### RouteFifo, the abstract specification of a route
Lines, remembered executions, held routes. Only the head of a line is executed; nobody joins a
held line, and only an empty line can be held. It knows no tasks, buses or controls.

### GatewayTurns
The variables carry the code's names: `inflight` is `_inflight`, `terminal` the keys of `_terminal`, `active` and
`pending` the two route tables, `blocks` the accounts with a `RouteBlock`, `controls` the tables of the three
channel coordinators by route. `dispatching` is the set of callbacks being awaited, `phase` says where a
message is (inbound bus, spawned, running, recorded, outbound bus), `consumer` is the request the outbound
consumer is busy releasing. `ran` and `forgotten` are history, for the refinement only.

| Action | Code |
|---|---|
| `Submit` | `submit` under the lock, with its early returns |
| `DispatchOk`, `DispatchRaises`, `DispatchCancelled` | the callback's outcome and `_rollback_dispatch` with `advance` true or false, the promotion of the next message included |
| `Consume`, `BeginTurn`, `FinishTurn`, `PublishTerminal` | `_consume_inbound`, `_run_message`: before and after the slot, the turn, the bounded cache, the bus |
| `Deliver`, `WebSendTimesOut`, `CompleteRoute` | the outbound consumer, the listener's two halves, the timeout of a Web send |
| `DiscardPending` | `discard_pending_route` of a CLI disconnect |
| `Reserve`, `ReleaseBlock` | the IM coordinator's reservation of the routes of a Binding |
| `StopDelivery`, `SealAdapters`, `BeginClose`, `FinishClose` | the Gateway's shutdown, in its order |

A failed dispatch that promotes another one is a loop in the code (`_rollback_dispatch` awaits the next callback);
here it is the next request's own `DispatchOk` or `DispatchRaises`, and `consumer` moves along, because the
consumer stays busy with the whole chain.

### ExecutionSlots
The semaphore as CPython implements it: a value, a FIFO of waiters, and the waiters that have been
woken but have not run. Around it the life of a turn: entering, running, asking for an approval without a
slot, taking it back, done; and `CancelledError` arriving at each of these, from the Multi-Agent deadline
or from the close. GatewayTurns leaves open when a turn obtains its slot (`BeginTurn` may come arbitrarily
late), so what it shows holds with any number of slots.

### RuntimeReload
`callers` is the queue of `_replace_lock` (its head holds the lock) and `pc` the await at which the holder is
suspended. A Runtime identity stands for everything bound to one: its proactive service, its tool registry,
its resolver. `service`, `up`, `tools` and `resolver` are what the Host points to, which services schedule, which
registries hold the proactive tools, and whose resolver the Host uses. `abandoned` and `interrupted` are history:
closes and activations that were themselves cancelled.

| Action | Code |
|---|---|
| `Apply` | `request_reload`: record the revision, then pending, or `_reload` |
| `NotifyIdle` (in `End`, `Reject`, `IdleCheck`) | `notify_idle` of the supervisor in the step of the change that made the Gateway idle |
| `Enter`, `Built`, `BuildFails` | the checks under the lock, the factory, `_prepare_runtime` |
| `Started`, `StartFails` | `Runtime.start`, the second idle check, the start of `_activate_runtime` |
| `ServiceStopped`, `Published`, `PublishFails`, `Undone` | the rest of `_activate_runtime`, its exception path, the commit |
| `CloseReturns` | the close of the candidate or of the replaced Runtime, and the release of the lock |
| `DeliveryTimesOut` | `CancelledError` at any await of a reload that runs in a Web delivery, or while it waits for the lock |
| `Accept` ... `Reject`, `StartJob`, `EndJob`, `IdleCheck` | turns and jobs, as far as idleness and the Runtime go |
| `StopReloads`, `StopService`, `CloseRuntime` | `GatewayHost.close` |

GatewayTurns and RuntimeReload meet in two places. `GatewayTurns!NoticedIdle` shows that the announcement
`RuntimeReload` makes in `End` and `Reject` is always made. In the other direction `acquire_runtime` is the
guard `ready` of `Begin`, which GatewayTurns covers by an arbitrarily late `BeginTurn`.

### RunEvents, the abstract specification of a Run
What a reader of the trace may see: the statuses of a Run and of its nodes, which statuses may follow which, no change
after a Run has ended, and `Enough`, the nodes a completed Run needs.

### MultiAgentRun
`trace[r]` holds the rows of Run `r` in the trace file of its parent session, the only thing that survives a process; `SeenRun` and `SeenStatus`
are what `read_multi_agent_runs` makes of them, and the mapping to `RunEvents`. `pc` is where the
parent's turn is, `mem` the status in `_runs_by_request`, `broken` is `_event_errors`; `at`, `res` and `held` are a worker's place in
`_run_worker`, the status of the node it returns and its permits. `asked` is history: somebody asked for the stop of this Run.

Writing a row never suspends: the write lock of a session is never held across an await, and the live event goes to a bus
without a bound. So a step ends at a row, where the process may die, or at an await. A row may be *refused* (the
disk raises): `_emit` then breaks the Run. The row of a worker is followed by one of its token usage, which may be refused when
the first is there (`EmitUsed`). The sets `_terminal_nodes` and `_terminal_runs`, which drop a second terminal, are left out: `OneTerminal`
holds without them.

| Action | Code |
|---|---|
| `Delegate`, `Open`, `QueueNode`, `StartRun` | `delegate` up to the start of the workers, with its three looks at a refused row |
| `Enter`, `TakeRunSlot`, `TakeGlobalSlot`, `GiveUp` | `_run_worker` and `_acquire`: the polled permits, Stop and deadline while waiting, the row `running` |
| `Answer`, `TimeOut`, `StopWorker`, `Report` | `_await_worker_result`, the normalization, the terminal row, the `finally` that gives the permits back |
| `NextWorker` | the loop of `_run_sequential`: next worker, result too long for it, blocked nodes |
| `Collect`, `EndRun`, `FailRun` | the verdict of `delegate`, its row, and `_finish_event_failure` |
| `Finish`, `Overflow`, `AskApproval`, `Resume` | the parent's loop after the results: `finalize`, `check_parent_context`, `set_waiting` |
| `StopRun`, `Expire` | Stop or a lost CLI connection, the deadline |
| `Close`, `CancelTurn`, `Abort`, `FinishCancelled`, `Exit` | the shutdown: all Web and CLI controls stopped, then all turns cancelled at their awaits |
| `Crash`, `Restart`, `RecoverNode`, `RecoverRun`, `Up` | the end of the process anywhere, `recover_interrupted_runs` row by row |

### AgentTurn
One turn after another of one session, under the session lock. `turn` is what `TurnContext` holds, `loop` where `AgentLoop.run`
is; a message is its turn and its size in tokens, and `store` keeps `messages.jsonl` apart from the summary and the
`uncompacted_history` of `session.json`, because SAVE writes them one after the other (`runtime/state.py:308-345`).

`session.json` keeps the role and the content of a record and no id, while `plan_compaction` takes for the summary what has not the *id* of
a record the window keeps. `SameId` says which records look alike to it: those of a window loaded from the snapshot (`turn.reloaded`) all do. Hence a
compaction of such a turn moves all the old records or none of them, and a turn with a user's message that has no answer (`Unanswered`: guidance, or a Stop
before there is a text) can drop old ones altogether: such turns are remembered in `uneven`. `session.json` is also overwritten in
place: `SnapshotIsCut` is the file that a crash or an error leaves truncated, which its readers ignore, so that the next turn begins a new session.

| Action | Code |
|---|---|
| `StartsTurn`, `HandlesCommand`, `LoadsSession`, `BuildsContext` | the stages up to RUN; a session whose snapshot is there is not read from the JSONL |
| `TopOfRound`, `ModelAnswers`, `ToolsEnd`, `BottomOfRound`, `SummaryEnds` | the loop: check points, guidance, tool rounds up to the limit, the final summary |
| `StopRequested`, `GuidanceArrives`, `DeadlinePasses` | what arrives from outside between two awaits |
| `CallTimesOut`, `CallFails`, `UnguardedCallFails` | the exits of the loop, with and without a handler that hands the Run over |
| `Compacts`, `CompactFails`, `Saves`, `SaveFails`, `Responds`, `TurnCrashes` | compaction, the four writes of SAVE with an error or a crash between any two or in the middle of `session.json` (`SnapshotIsCut`), the reply |

### CronJobs
Every principal has a workspace with jobs in memory (`jobs`) and in `cron.json` (`cronDisk`); one scheduler goes through the
workspaces it knew when its pass began. The clock is a counter and a recurring job is due at every instant: matching of
expressions is left out, the order of claims, writes and tasks is kept. Opening workspaces writes the rebuilt `cron.json` of each, one after the
other (`InitializeSchedules`, with the files that were written in `saved`), and any of these writes may raise. In `start` that leaves the service down (`StartFails`); in the loop it happens outside its
`try` (`service.py:448`), ends the scheduler's task for good (`Dead`, `sched.pc = "dead"`), and nothing is claimed until the next start, though jobs can
still be created and deleted. So does an error of the deadlines' computation (`service.py:465-470`, the last disjunct of `SchedulerWaits`). A workspace may also be opened by a turn (`WorkspaceFor`), where the error is the turn's.

| Action | Code |
|---|---|
| `Pass`, `RunDue`, `SchedulerWaits`, `SchedulerWakes` | the loop of the service: clear the event, one workspace after another, wait for the nearest deadline or the event |
| `CreateJob`, `TaskBegins`, `StartsRunning`, `FinishJob`, `PublishResult`, `ReportFailure`, `TaskCancelled` | the life of a job and its task |
| `DeleteJob`, `DeletePurges`, `DeleteRemoves`, `DeleteFails` | `delete_job` with its waits |
| `RetirePrincipal`, `PrincipalDeleted`, `RestorePrincipal`, `WorkspaceFor` | the calls of the Binding deletion; `workspace_for` of a turn or a page |
| `Tick`, `StartService`, `StartFails`, `StopService`, `Crash` | the clock, start from the files or its failure, stop, the end of the process anywhere |

### ReviewWindows
Breakbeat and Dream over one session; `capability` says which of them the behaviour is about, so both are explored. `review` is the
run that holds the lock with the snapshot it read, `callers` those that wait (by hand or by deadline). Messages carry the
time of their turn, which may lie before that of a message saved earlier.

`Arrives`, `SavesTurn`: turns; `CallsReview`, `StartsReview`, `BatchSucceeds`, `BatchFails`, `ReviewCancelled`: a run and its
batches; `CompletesItem`, `DeletesItem`: the user; `Elapse`, `ReviewRestarts`: the clock and the process.

### SkillEvolution
`TurnCompleted` queues the event of a saved turn and `EvolutionDue` an evolution (in `line`, the order of the lock); `TakesLock` reads
the snapshot; `SignalAnswered`, `BatchObserved`, `ObservationFails` are the model calls of a task, `CreatesDraft`, `EvolutionFails`,
`EvolutionEnds` those of an evolution; `SkillRestarts` loses the boundaries, which live in memory only.

### ProactivePages
One incident, one item, a page and a subscribed channel. `FailureIsReported`, `RecoveryIsReported`, `UserResolves`, `UserDeletes`:
the incident; `ReviewFindsItem`, `ReviewIsOver`, `ReviewByHandIsCut`, `UserActsOnItem`, `ToolActsOnItem`: the item, whose writer is
announced only where the code does so: a review is the scheduler's, which publishes in a `finally`, or one by hand (the chat tool, the Catalog), which publishes nothing
when it is cancelled, times out or raises after a batch saved an item (what a review finds is an item it creates; what it changes of one is no other case for the pages); `NoticeReachesPage`, `NoticeReachesChannel`, `NoticeIsLost`, `ChannelChanges`: the fan-out;
`PageConnects`, `PageReads`, `PageDisconnects`, `RuntimeIsReplaced`, `PagesRestart`: the page's queue and its revisions.

### BindingDeletion
`DeletionStarts` (route block and checks), `Retires` (the principal's proactive work), `Erases` (transport, sessions, root, record), `ReleasesRoutes`
are the stages of `delete_channel_binding`; `EraseFails(b, k)` and `GatewayRestarts(b, k)` end it after its k-th part. `TurnArrives`, `TurnSaves`,
`ReplyDelivered`, `TickStarts` (a scheduled review), `ObservationEnds`, `EnableBinding`, `TransportEnabled`, `DisableBinding`, `WorkspacesRefreshed` go on meanwhile. So does
`RuntimeReplaced`: the retired principals are a set of one `ProactiveService` object, and the service of a new Runtime begins with an empty one and opens a workspace for every principal of the registry.
`unretired` is history: the principals whose deletion was past their retirement then.

### McpWorker
`worker` is the task with its location, retries, command and the catalog it has read; `commands` its queue; `answers` what each caller
knows. `StartWorker`, `CloseWorker`, `Request`, `CallerCancelled` are the manager and the turns, `ServerChanges` and `NoticeArrives` the
server; `WorkerStep` collects the worker's own steps (connecting with retries, the two reads of a discovery, taking and executing a command, rejecting
the queue, ending).

### WeixinBinding, WeixinQr
`WeixinBinding` is the record with its epoch and everything that writes it: `PollBegins`, `LoginEnds`, `PollReturns`, `PollFails`, `PollTaskEnds`: the
poll task; `SendBegins`, `SendEnds`, `SendFails`: replies, checked against the epoch and then awaited; `StartRebind`, `CommitRebind`,
`DiscardRebind`: the rescan; `Disable`, `Enable`, `Revoke` write the record first and wait for the lock in `TransportStops`, `TransportPrepares`.

`WeixinQr` leaves messages out and models the codes: steps of the ordinary login (`Login...`) and of the rescan (`Rescan...`),
`Presented` (the window starts or not), `UserClosesWindow` and `CloserRuns` (its callback, which waits for the lock), `CodeIsTooOld`, `QrExpires`, `FirstDm`, and
the control operations (`ControlDisables`, `ControlEnables`, `AccountStops`, `AccountPrepares`).

### FeishuConnection, FeishuAccount
`FeishuConnection` has the SDK's process with its pipe (`SdkConnects`, `SdkLoses`, `SdkExits`), the pump (`PumpReads`, `PumpSeesExit`), the
reconnect task (`Reconnect...`) and the transport (`StartBot`, `Registers`, `StartFails`, `StopBot`, `SendRefused`).
`FeishuAccount` has the record and its writers: `HandleEvent` (no lifecycle lock), `IssueOwnerCode`, `EnableAccount`, `DisableAccount`, `UpdateCredentials`, `MarkConnected`,
`MarkDisconnected`, and under the lock, in its order (`LockTaken`), the replacement of the credentials: `StartFailsToConnect`, `Commits`, `PreviousStops`, `PreviousFailsToStop`.

### WebSession
A session with one route, its turns, a compaction and a global Catalog action (Dream), the hub's numbered events and one browser. The hub's lock may
suspend a publisher (`Stop` and `StopIsAnnounced`, `Deliver` and `DeliverPending`, `CompactEnds` and `CompactFinishes`, `DreamEnds` and `DreamFinishes`, `Subscribe` and
`SnapshotArrives` are the halves). `CompactLoads`, `CompactSummarizes`, `CompactWritesWindow` are a compaction's reads and writes, `WebTurnLoads` and `WebTurnSaves`
those of the turn. `Consume` is the page's treatment of an event.

### MC modules, and how the modules are composed
`MCGatewayTurns`, `MCGatewayFair`, `MCExecutionSlots`, `MCRuntimeReload`, `MCMultiAgentRun`, `MCWeixinReply` only give the constants their
values. `MCServices` and `MCSlotsAndJobs` put several components that share no variable into one run: a variable `which` chooses at the start the one that moves, so that
the state spaces add up instead of multiplying, and each is explored in full. Nothing is claimed there about their interplay; where components of the program
do interact, one module contains both sides (a deletion and the turns of its Binding, a reload and its deliveries, a compaction and the turns
of its session, an evolution and the tasks of turns).

## 3. Runs

Every deadlock check is off for the same reason: the Gateway stops (the first three specifications end in a
closed Gateway; MultiAgentRun when the bounded Runs are over), RuntimeReload's Apply requests and timeouts are bounded, and so are the
messages, faults and clocks of the other components.

| Run | Result | What it shows |
|---|---|---|
| `gateway_turns` | holds | six requests on three kinds of route, a deletion, a disconnect, a shutdown, failing and cancelled dispatches: `OneTurnPerRoute`, `InflightAccounting`, `ControlMatchesActive`, `BlockedRouteIsQuiet`, `NoticedIdle`, and the refinement of `RouteFifo` (`ImplementsFifo`) |
| `gateway_fair` | holds | an accepted IM message always ends (`AcceptedEnds`) |
| `gateway_web_timeout` | violated | deviation 1 below (`WebRouteReleased`) |
| `slots` | holds | conservation of permits up to the documented over-release (`SlotAccounting`), progress of queued turns (`QueuedTurnsRun`); of Cron: `RunAtMostOnce`, `NothingComesBack`, `NoDeadJob`, and `DueIsClaimed` (unless the scheduler has died) |
| `slots_deadline` | violated | deviation 2 (`SlotsNotOverReleased`) |
| `reload` | holds | `WorkOnOpenRuntime`, `OneScheduler`, `ServiceFollowsRuntime`, `NoLeakedRuntime`, `RevisionIsFollowed`, and `PendingSettles` |
| `reload_failure` | violated | deviation 3 (`FailureKeepsOld`) |
| `reload_desired` | violated | deviation 4 (`DesiredIsTried`) |
| `multi_agent` | holds | `OneTerminal`, `SlotsExact`, `Recovered` of a fan-out or a pipeline, the refinement of `RunEvents` (`ImplementsRunEvents`), and `RunEnds` |
| `multi_agent_cancelled` | violated | deviation 5 (`CancelledMeansStopped`) |
| `services` | holds | the sixteen invariants of the other components: `CursorBacked`, `ItemsConserved`, `ObservationsConserved`, `IntervalReviewed` (reviews), `UsersAreUpToDate` (pages), `DeletionIsWhole`, `CatalogIsCurrent`, `NoStrandedRequest` (MCP), `RescanSeparatesUsers`, `QrFollowsLogin` (Weixin), `BelievesTheTruth`, `AccountIsCoherent` (Feishu), `NothingForgotten`, `RunHandedOver` (agent turn), `ClientSeesTheEnd`, `CompactKeepsContext` (Web session) |
| `weixin_reply` | violated | deviation 6 (`ReplyReachesItsSender`) |

### Bounds, and why they are enough
* `gateway_turns`: three CLI requests make a line of two behind the active one, the smallest in which order,
  discarding and promotion differ; two IM requests with one account make a deletion meet an active and a
  waiting message; the routes interact only through `inflight`, the cache, the consumer and the
  shutdown, so one route of each kind suffices. A cache of one reply (`TerminalLimit = 1`) makes
  eviction, and hence a second acceptance of an old id, happen at once. Requests of one
  route are interchangeable, nothing in the module orders them, so `MCSymmetry` is sound; that run
  checks no liveness property. The liveness runs use two IM requests and one Web request without symmetry.
* `slots`, turns: one slot and three turns: one holds it, two wait, and both the woken waiter and the one behind
  it may be cancelled. `Max` occurs only in the initial value.
* `slots`, Cron: a recurring job of the Owner and a one-shot job of a guest, whose principal may be retired (the scheduler
  therefore has two workspaces to go through), one deletion, a background limit of one (so a claimed job also waits), two
  instants (a deadline, and one after it that the same job may meet twice), and a load of two: jobs created, writes that failed, stops and retirements, counted together (`MaxLoad = 2`).
  So a job meets one fault, and an error that ends the scheduler meets one job that is due (181,000 states in the whole run).
* `reload`: two revisions (one applied while another is wanted), one timeout (`wait_for` cancels once),
  one Web and one other turn, one job; `MaxCallers = 2` bounds only who may *start* new work while
  reloads wait: a third caller does arrive. Four identities suffice: at any time the
  committed Runtime, the service's, the resolver's and those of an abandoned close are in use, and `Fresh` reuses
  every other one; the run never lacks a candidate in the states where the code would build one after that.
* `multi_agent`: either a fan-out of two workers or a pipeline of three, the smallest with a node behind a blocked one (`MaxRuns = 1`: two
  Runs share nothing but the global semaphore). Two permits of the Run and one global permit, so that a worker also waits with one of
  the two. Two refused rows (one that breaks the Run, one that hides its end), two ends of the process (the second one interrupts a
  recovery), one approval.
* `services` (about 880,000 states together):
  * *reviews*: two turns of two messages in batches of two, so that a batch ends inside a turn and another turn is saved during it; a window of two and
    five instants, so that a message can also grow too old; one fault; the second batch then sees what the first one's failure left.
  * *skills*: intervals of two in four turns, the first of which can still be under way when the second is complete; two evolutions, since a Draft is
    doubled by the second; one fault.
  * *pages*: a queue of two snapshots, the smallest that loses one while another domain's is still in it; three changes (an edge, its recovery, and the item, found by either kind of review); one fault.
  * *weixin*: two messages of two users, one rescan, three faults (expiry, disable and enable are three). *Codes*: three codes and two attempts: the callback of the first
    window may then meet the second rescan.
  * *feishu connection*: two reconnect attempts, four losses, exits and refused sends. *Feishu account*: two applications, events with and without the code for the
    first, one with the code for the second, four writes of the record, one waiting operation.
  * *bindings*: one of a principal of its own and one of the Owner's, two failures or restarts; any number of replacements of the Runtime.
  * *mcp*: two callers, one retry, three catalog versions (one change while another is being read), two failures.
  * *turns*: three turns, since what the second one's compaction moves is what the third reads; answers of one or two tokens against thresholds of
    3, 4 and 6, so that a turn may fit, be compacted, or be refused; two tool rounds; one fault.
  * *web*: a buffer of two events, less than a turn publishes, so that a reconnection replays or takes a snapshot; two messages and two extras.
* `weixin_reply`: the same constants for the one component.
* What the constants declared as a *bound* limit (faults, messages, codes, revisions, instants) appears in guards only, or as the set that is
  counted to; `Max`, `MaxToolRounds`, the token limits, `BufferSize`, `PageLimit`, `ReconnectTries`, `ConnectRetries`, `TurnInterval`, `Refresh` and `BatchLimit` are settings of the
  program. The proofs hold for all values of both.

### Fairness
asyncio runs every ready task, hence weak fairness for each step of a task that awaits nothing but
its turn. In GatewayTurns two actions have strong fairness: taking a reply from the outbound queue, because
that queue is FIFO and every reply ahead is taken first; and the *success* of a dispatch, because the
callback only puts a message on an unbounded in-process queue and cannot fail every time. A turn
that asks for an approval is assumed to be answered or stopped in `gateway_fair`; `slots` shows what holds without
that assumption. In CronJobs the scheduler task takes its own steps (`WF(SchedulerStep)`): the loop never waits for a job, a page or
a save that does not return, and may end by an error, which `DueIsClaimed` excepts; clock, jobs and deletions are free to do nothing. In RuntimeReload every call a reload awaits returns or raises (`WF_vars(Holder)`), and the idle
check of a finished job runs. In MultiAgentRun a Run that has a step of its own takes one (`WF_vars(Progress(r))`): its
parent's synchronous code, polling workers, the passing of its deadline, and, after it, the timeouts that end every wait. No
worker, model, user or approval ever has to answer. Nothing forces messages, failures, timeouts, jobs, answers or a shutdown
to come. The eleven components of `services` are checked for safety only and state no fairness.

## 4. Proofs

Eight modules hold the theorems, which TLAPS checks for every value of the constants that the named
assumptions allow: any sets of requests, routes, accounts, turns, Runs, jobs, bindings and identities, any bounds. `GatewayTurns_proofs`,
`RuntimeReload_proofs`, `ExecutionSlots_proofs`, `CronJobs_proofs` and `MultiAgentRun_proofs` are about one module each; `Channels_proofs` is about
BindingDeletion, WeixinBinding, WeixinQr, FeishuConnection and FeishuAccount, `Sessions_proofs` about McpWorker, WebSession and AgentTurn,
`Proactive_proofs` about SkillEvolution, ReviewWindows and ProactivePages. Every invariant that a passing run checks and both refinements are theorems.
None of them is inductive alone, apart from the simplest; each paragraph names what had to be added, and why. The strengthened invariants
hold under TLC too, on the instances of section 3.

Ten further theorems, mostly action properties, say what follows from those invariants about *steps*: which order is kept, what a step may never undo, and what is final.
They are stated in the proof modules, next to the invariants they need, and are no properties of the runs' configurations. The paragraphs list them last.

**GatewayTurns** (`RouteAssumption`: every request has a route and every route a channel; `AccountAssumption`:
accounts own disjoint sets of IM routes; `LimitAssumption`). Proved: `TypeOK`, `OneTurnPerRoute`,
`ControlMatchesActive`, `BlockedRouteIsQuiet`, `NoticedIdle`. None is inductive alone. That a live request is the
active one needs that a dispatch is made for an idle route only and that the lines hold requests of their
own route (`DispatchIsIdle`, `LineRoutes`); that a promotion never revives the consumer's request needs to know what the consumer
holds (`ConsumerHolds`); that a control is never lost or foreign needs its owner (`ControlOwner`, `ControlKept`); that a waiting line has an active head
needs `HeadFirst` and `ActiveRoute`; and the announcement of idleness needs that a request without a control has been released
(`Released`). `IInv` is their conjunction.

`InflightAccounting` is an equality over all lines, the controls and the cache at once. Until the Gateway is closed it follows from `AccountInv`: a request stands in its line once
(`WaitsOnce`), and none of those that stand there is being dispatched or executed. So what a step takes out of a line is nowhere else, and
removing it from `_inflight` is right; lemmas say what appending, promoting and evicting do to who waits and what is remembered.

`ImplementsFifo` (theorem `FifoImplemented`): the line of a route is its active request followed by its waiting ones (`Line`), the
remembered ones are those whose turn began and was not evicted (`Served`), the held routes are those of blocked accounts (`Held`).
Each action is one of `Arrive`, `Begin`, `Leave`, `DropWaiting`, `DropLine`, `Forget`, `Hold`, `Unhold`, `Reset`, or leaves all three alone. It uses `IInv` and one fact more, `RanRecorded`: a turn
that began is in the cache, running, or forgotten. Without it `submit` could accept a message whose execution is still remembered.
Of steps: a turn begins only for the head of its line, alone on its route, on a route that no deletion holds, and not for a request whose execution is remembered
(`TurnsAlwaysInOrder`); on a route nobody is overtaken, by whatever rollback, discarding, promotion or arrival (`NobodyEverOvertakes`, from what each action does to `Line`); and after the
close nothing is left and nothing comes back, though dispatches, deliveries and deletions may still be at an await (`ClosedForGood`).

**RuntimeReload** (`ReloadAssumption`: turns and jobs are different things, `None` and `Ended` are no identities).
Proved: `TypeOK`, `WorkOnOpenRuntime`, `OneScheduler`, `ServiceFollowsRuntime`, `NoLeakedRuntime`, `RevisionIsFollowed`. The invariant states, at every await,
exactly which Runtimes are open (`Opened`), that the candidate is neither the committed nor an abandoned one (`Candidate`), that only
the Host's service schedules and none does in the middle of an activation (`Scheduler`), whose service it is (`ServiceBound`), that turns run only outside
the critical section (`TurnsKeep`), that a job's service is up (`JobsUp`), and that the close of the Gateway stands last in the queue of the lock, so that no reload begins after
it got through (`ClosingOrder`, `StopLast`). The last one came out of the attempt to prove the others: without it nothing says that the closer gets the lock only once, and `Opened`, which speaks of `stopped`, is not preserved. Even the typing
needs `Candidate`, because the Host's service is set from the holder's locals. `RevisionIsFollowed` has an invariant of its own, `FollowInv`, proved on top of the first: which state each place of the
holder of the lock allows (`StateFits`), that an active revision, or one being applied, that is not the newest has an Apply request waiting in the queue of the lock (`ActiveFollowed`,
`ApplyingFollowed`), and that a pending revision in an idle Gateway has a waiting caller which no delivery timeout removes, or a finished job whose check is due (`PendingFollowed`).
Of steps: the commit of `_activate_runtime` does not look again at turns, jobs or the close, and yet switches the Runtime only when all of them allow it (`SwitchIsAlwaysSafe`, by what
`IInv` says of the place `publishing`); the active revision never goes back (`RevisionNeverGoesBack`, which needs that a reload under way is not for an older one, `TargetAhead`); and a closed Host
stays closed (`CloseIsAlwaysFinal`, from `ClosingOrder`).

**ExecutionSlots** (`Max` a positive number, `Turn` finite). `SlotAccounting` says that value, holders and granted waiters add up. The lemmas about the semaphore
come first: what waking, releasing, taking, queueing, resuming and abandoning do to the free permits (`Permits`) and to who occurs in
the queue (`Present`); `Balance` then settles one turn's move by the cardinality of the set of its holders, and each action names the lemma it uses.

**CronJobs** (`CronAssumption`). `RunAtMostOnce` compares a claim with everything claimed and executed before, though the memory is lost at
each restart and the file is written separately. Inductive is `ClaimInv`: what is claimed is later than what was executed (`ClaimIsNew`); what is stored for
a recurring job is later than both (`RecurringAhead`); a one-shot job that was claimed or executed has nothing in memory or in the file that could fire again
(`OneShotSpent`). `NothingComesBack` needs `DeleteInv`: what a deletion at work may rely on at each of its awaits (`DeletionHolds`), that only a job being
deleted has a cancelled or outdated task (`CancelledFalls`), what has gone has neither task nor incident nor entry (`GoneForGood`), and a retired principal is not scheduled (`RetiredRests`).
`NoDeadJob` needs that a one-shot job without a deadline has a task (`FiredOnce`).

**MultiAgentRun** (`RunAssumption`). `SlotsExact`: what a worker holds follows from where it is (`HeldAt` in `SlotInv`), so permits and holders are counted together.
`OneTerminal` and `Recovered` speak of the rows of a file, and nothing but the rows survives a process. `RunInv` therefore says, for every place of the parent's turn and of the workers, what a
reader of the rows sees: `PhaseShows` and `WorkerShows`, which also say what may still be written; `RowsShow` for Runs of an earlier process; and `TraceOK`, that
a terminal row is the last one of its node and of its Run. It holds whichever rows the disk refuses and wherever the process ends, without the sets
`_terminal_nodes` and `_terminal_runs`.
`ImplementsRunEvents` (theorem `RunEventsImplemented`): every step writes one row that `MayWrite` allows in what is seen (`NewRow`), or none; one lemma turns such a row into an action of `RunEvents`. In particular a Run
is recorded `completed` only with enough completed nodes, whatever was refused.
Of steps: rows are only appended, one at a time, never after the end of their Run or of their node (`TraceIsSealed`); so that a Run seen as completed has earned it
and goes on to (`CompletedIsEarnedAlways`).

**BindingDeletion** (`BindingAssumption`). `DeletionIsWhole` needs that a deletion at work keeps its routes (`Reserved`) and its principal (`Retired`) closed, so that
no turn, scheduled task, observation or workspace appears behind its back, and what is true once the record is gone (`Gone`). The second and third hold for a principal of its own only as long
as no Runtime was replaced during its erasure (`unretired`): a replacement keeps neither.

**WeixinBinding** (`WxAssumption`). `RescanSeparatesUsers` needs the owner of an epoch: for a running reply of the current epoch the first sender
is its user, or there is none until somebody logs in again (`OwnerKept`), and a reply being sent is addressed to its user (`Addressed`).

**WeixinQr** (`QrAssumption`). `QrFollowsLogin` relates the window on the screen to the code the program waits for, across two logins, a lock and a callback of the user's. `QrInv` adds what status and
credentials tell about each other (`StatusFits`), that the step with the lock and the loop work for the pending rescan, which only a waiting control
operation can have disabled (`RebindFits`), that there is one window at most, that it shows what it was opened for, and that none is open when a step is about to present one (`WindowsFit`).

**FeishuConnection** (`WsAssumption`). `BelievesTheTruth` is about a pipe: what is unread ends with the present state of the process (`PipeTells`), and what was read is what
the transport believes (`BeliefFollows`), because a loss is reported once and may be reported again when the connection has been back (`LossesReported`). Belief and
connection differ in one place: `_reconnect` may give up a process that had just recovered, whose loss is then still to be reported.

**FeishuAccount** (`FeishuAssumption`). `AccountIsCoherent` speaks of a record that some writers change under the lifecycle lock and others without it. `FsInv` says how the candidate of a waiting or
running replacement relates to the record, by their revisions (`WaitingFit`, `StartFits`, `StopFits`), that what a failure restores is coherent (`BeforeFits`), and which bot runs meanwhile (`BotFits`).

**McpWorker** (`McpAssumption`). `NoStrandedRequest` needs that only an executing worker has a command, that a refresh has no caller (`CommandPlaces`), and that a
closing worker finds one end of its queue (`ClosedOnce`); two lemmas say that what leaves the queue is handled (`QueueParts`, `TakenIsHandled`).
`CatalogIsCurrent` needs that whatever the worker served or read is the server's version, or news of the change is under way, as a notice or as a refresh in the queue
(`ServedCatalog`, `ReadCatalog`, `News`), and what an executing command may be (`ExecutedCommand`).

**WebSession** (`WebAssumption`). `CompactKeepsContext` needs that no turn runs while a compaction works, unless one was dispatched into it (`Apart`), and that the context a
turn will write back, the one a compaction has read and the one it has still to write each cover what was said by then (`Covered`).
`ClientSeesTheEnd` needs `PageInv`: a page that shows a task as running is *justified*, by a control, a compaction or a Catalog action that is still to publish its end (`Justified`); so is
the last event of the hub (`LastTells`) and a snapshot under way (`ViewTells`); a connected browser's queue ends with the hub's last event (`QueueTells`), which a replay keeps because the kept
events have consecutive numbers (`Numbered`).

**AgentTurn** (`TurnAssumption`). `RunHandedOver` needs what was delegated and handed over before and in RUN (`HandInv`). `NothingForgotten` needs that summary and window, as
stored and as the turn carries them, cover what was said (`Known`, `Loaded`, `Covers`) except what an uneven turn has made `Outdated`, that what is stored is older than the turn (`Earlier`), and that no message is in the context
twice (`Once`): of one that stood in the window twice, a compaction could move one copy and keep the other. Which messages the window keeps is where induction over the history would be
expected; the prover has none, so `AtPlaces`, the history at a set of places, is shown to hold exactly those entries, each once, by the pigeonhole principle (`RankCounts`, `PlacesOnce`). What goes to the summary is decided by ids: `SourceFacts`
says that it never holds what the window keeps, and that together they lack only old records of a turn whose window was loaded without ids, and which keeps another of them. If every user's message of such a turn is answered, its own
pair is the last one, so either the window keeps old records and then the source is empty (nothing is compacted), or it keeps none and the source has them all; hence the loss needs `Unanswered`.
Of the file messages.jsonl: it only grows until the session is removed or its `session.json` cut off, its messages are in the order of what was said, each once, and every turn in it begins with the user's message, however
SAVE is cut off (`TranscriptInOrderAlways`, by `Earlier`, and by what `NewMessagesInOrder` and `OrderedConcat` say of the messages that are added).

**SkillEvolution** (`SkillAssumption`). `ObservationsConserved` speaks of a file that is overwritten from snapshots. It is inductive together with: whoever has
the lock holds a snapshot equal to the file (`Snapshots`); events wait in the order of their turns and above every Observation made (`LineOrder`, `Behind`); what a task
still has to read was not read (`BoundaryUnread`). The last three are needed for a new Observation to be new.
`IntervalReviewed` holds because each complete interval still waits in the line or each of its turns is offered or about to be read (`IntervalsCovered`), and the observed
boundary stays below every event still in the line (`BoundaryBehind`); `DivisionParts` and `LiesInInterval` say in which interval a turn lies, for any interval length.

**ReviewWindows** (`ReviewAssumption`, of the specification `ReviewSpec`). `CursorBacked` and `ItemsConserved` hold although a review writes back the snapshot it read at its start, because everyone who
writes waits for the lock (`ReviewShape`), and everything up to the last message the run has read was reviewed, is too old, or is still in its batches (`RunCovers`). A batch is a prefix in
the order of time (`BatchIsPrefix`), hence the cursor may move to its last message.
Of steps: the cursor never goes back, every batch that succeeds has a message and moves it, and no message is in two of them (`ReviewsAreAlwaysOrderly`): what was reviewed lies
at or before the cursor, what is left to the run behind it (`OnceInv`).

**ProactivePages** (`PagesAssumption`). `UsersAreUpToDate` speaks of a page that has read everything. `PagesInv` says what it *will* show of a domain: the last entry of it in the queue, else in what
came at the connection, else what it shows now (`WillShow`, `PageFollows`); and the same of the recipient of notices (`RecipientFollows`). Two lemmas about the last entry of a
kind (`AppendTells`, `TailTells`) serve every broadcast and every read.

**What the proofs found out about the models.** A stop of the Gateway used to clear `spoilt` (CronJobs): beyond the bounds of the run, a job that had gone, another deletion of
which had failed, was then covered by no exception after the restart, so `spoilt` keeps the jobs that had gone. What FeishuAccount takes from its events, a sender and a chat
(`_parse_event` drops the others), had to become part of its assumption. In AgentTurn a missing snapshot does not mean that nothing was said, only that every SAVE so far was interrupted.
In FeishuConnection belief and connection are not the same during a reconnection. In RuntimeReload the invariants are not preserved without `StopLast`.

**Only model-checked:** the liveness properties `AcceptedEnds`, `QueuedTurnsRun`, `DueIsClaimed`, `PendingSettles`, `RunEnds`, because fairness and ENABLED are
beyond the prover. What `TokensOf` and `PairTokens` (AgentTurn), two folds, compute for a history of any length would need induction over data, which the
prover cannot apply either; the theorems hold whatever they return, since sizes only decide when a turn compacts and which pairs its window keeps, and TLC evaluates them on the bounded instances. No module declares a RECURSIVE operator.

## 5. Deviations found

1. **A Web reply that exceeds the delivery timeout blocks its route for ever** (`gateway_web_timeout`). The release of a Web
   route is part of the transport's send, behind the publication of its events; the 5 s timeout
   cancels it and no listener makes up for it.
2. **A cancellation during `acquire_slot` makes the semaphore grow** (`slots_deadline`). The turn leaves without its slot and
   `async with` releases one anyway. Reproduced with the real control class.
3. **A failed reload leaves the Host with the closed candidate's principal resolver** (`reload_failure`).
4. **A failed reload forgets a newer pending revision** (`reload_desired`). Reproduced with the real supervisor class.
5. **A closing Gateway records its active Runs as cancelled by their users** (`multi_agent_cancelled`). Stopping the controls before
   the turns are cancelled, and the handling of the cancellation itself, both write `cancelled`, where the documents want these Runs to be found
   interrupted at the next start.

6. **An expired Weixin Binding can hand the answer of its earlier user to the next one** (`weixin_reply`). Only a rescan raises the epoch. An
   expired Binding that is disabled, enabled and logged in to by somebody else keeps it, and the epoch test of `send` lets the old reply pass.

`PROJECT.json` has the lines and the sentences they contradict.

Some properties name an exception, kept as a history variable or visible in the state. Each of these is something the code does, and the property says nothing about it. `docs/REVIEW.md`, a review
of the code kept in the repository, calls some of them defects; the last column names its entry. For the others (`-`) it has none.

| Exception | What the code does | `docs/REVIEW.md` |
|---|---|---|
| `late` (ReviewWindows) | a message whose turn waited for its SAVE is written behind the cursor and never reviewed | - |
| `doubled` (SkillEvolution) | a Draft whose removal of Observations was not written is made again by the next evolution | - |
| failed intervals (SkillEvolution, `skillFaults = 0`) | an interval whose model call failed is not read again | - |
| `misled` (WebSession) | a Stop suspended in the hub is announced after the end of its turn; a snapshot may show a Catalog action that has just ended | - |
| `overlap` (WebSession) | `send` does not ask whether a compaction is under way; what the turn saves in between may be overwritten | - |
| `stale` (ProactivePages) | revisions restart at 0 while an open page keeps the higher one; a full queue drops the oldest snapshot; the agent's tools publish none, nor does a review by hand that is cut after it saved an item | - |
| `untold` (ProactivePages) | a notice refused by the channel is not repeated, by design | - |
| `recycled` (WeixinBinding) | the epochs of deviation 6 | - |
| `abandoned` (McpWorker) | the caller whose command executes when the worker is cancelled gets no answer | M8 |
| `refreshLost` (McpWorker) | a refresh whose call fails leaves the old tools published until the next notice | - |
| `interrupted` (AgentTurn) | messages of a turn whose SAVE ended between its writes are in `messages.jsonl` but not in the window; a SAVE that is not one transaction is a stated non-goal | - |
| `uneven` (AgentTurn) | a turn on a window loaded from `session.json` that is guided, or stopped before it has a text, and is compacted, may lose old records: they have no id, and look kept when one of them is | H4 |
| `store' = EmptyStore` (AgentTurn) | `session.json` is overwritten in place; cut off, it is ignored and the session begins anew: its old messages are no longer the session's (`NothingForgotten` speaks of the messages the session has) | M5 |
| `unguarded` (AgentTurn) | the awaits of a turn outside every handler: an exception there leaves without telling the Run | - |
| `dropped`, `doubted` (FeishuConnection) | a report that comes before the client is registered is dropped; a refused send makes the transport call the bot disconnected | - |
| `outdated`, `unrestored` (FeishuAccount) | a candidate that waited for the lock may be older than the record it is committed to; a failed replacement may find the record changed and leave it | - |
| `spoilt` (CronJobs) | a creation or deletion that raised leaves a job that another deletion must remove | M16 |
| `sched.pc = "dead"` (CronJobs) | a write that fails while the scheduler opens workspaces, or a read of the deadlines that fails, is outside the `try` of its loop and ends its task; nothing is claimed until the next start | M25 (the read) |
| `unretired` (BindingDeletion) | the service of a Runtime that is activated during the erasure does not know the retired principal and opens its workspace again | - |

Other entries of `docs/REVIEW.md` touch what is modelled without being an exception of a property. M9: the page moves the cursor of sessions it does not show; WebSession has one session, which is shown, so
`ClientSeesTheEnd` says nothing of the others. M21: in WeixinBinding too a refused send or poll of an old epoch (`SendFails`, `PollFails`) expires the present record; `RescanSeparatesUsers` is about whom a reply reaches. M16 also names `run_due`, which starts a task before it saves: CronJobs has that order, and `RunAtMostOnce` holds with it. M22: a Feishu connection that is first lost
and whose process then ends is not reconnected; FeishuConnection has this, and `BelievesTheTruth` claims what the transport believes, not that it reconnects.

## 6. Plan

Done: turns and routes, slots, reloads, the agent's turn, Multi-Agent, Cron, the deletion of Bindings, MCP, Weixin, Feishu, reviews, skills, Web sessions and pages. Left, in this order:

| Content | Aimed at |
|---|---|
| RuntimeReload with GatewayTurns: `BeginTurn` takes `ready` | that an announcement made inside a delivery is the reload's own caller |
| BindingDeletion with CronJobs | the retirement of a principal as one protocol, from the page to the last task |
| Session store: partial lines, clear and deletion under locks | what was confirmed survives |
| Matching and next occurrence of cron expressions as functions | equal to a reference definition over bounded times |
| Attachments and receipts of client actions | a repeated action is executed once |

## 7. What is not modelled, and why

* The contents of messages, prompts, tool results and provider calls: the properties do not tell them apart.
* `resync`, snapshots and read models: they only read.
* The failure of `GatewayHost.start`, which undoes what it began before anything else runs.
* Cancellation of a reload by anything but the delivery timeout: no other caller of `notify_idle` or `request_reload` is cancelled while the Gateway is open.
* Two failures at once inside the undo of an activation (`previous.start` raising there).
* The workers' own loops and tools. A worker that does not end within 0.2 s of its cancellation goes on without its permits; the model takes it for
  ended, so `SlotsExact` counts permits, not running workers.
* Two observations about Multi-Agent that no property states: a Run whose terminal row is refused stays in the coordinator's dictionaries
  until the process ends; and a Run that failed because a row was refused may leave nodes without a terminal row, which recovery
  does not touch, since the Run has ended.
* Partial lines of a JSONL file after a crash (`sessions/store.py:592`), and the deletion of sessions. A cut-off line of `messages.jsonl` makes later turns fail in BUILD as long as
  the snapshot is empty; for the session that is what a refused BUILD does.
* A rename or pin of a session outside a turn that leaves `session.json` cut off, and the identity of the new session that replaces a cut-off one: AgentTurn has the latter as an empty store.
* Late guidance (`web/backend/coordinator.py:351`): guidance accepted between the copy of `control.guidance` and the removal of the control is
  neither executed nor reported. WebSession has the action; no text promises what becomes of it, so no property does. It is the one
  listed hazard without a property.
* `update_timezone` of Cron, `reconnect` and list-changed handlers of MCP where only tests call them, and the matching of cron expressions.
* A Weixin rescan whose commit could not be saved stays pending without a loop that goes on with it (`channels/weixin.py:615`); WeixinQr shows the
  state, the QR property excludes nothing for it, and no document says what should happen.
* The scheduler's immediate repetition when a deadline has passed but nothing can be claimed (`proactive/service.py:537`): a loop without an
  effect on the state.
* Attachments, receipts of client actions, commands, hooks, the parallel execution inside one batch of tools, `tools/exec_sessions`, token budgets and
  prompts, and the configuration: data or provider I/O, or one writer under one lock.
* The HTTP and WebSocket clients, the rendering of codes and cards, and what the pages display.
* The command line client: the environment that sends messages and answers approvals.
