------------------------------ MODULE McpWorker ------------------------------
(***************************************************************************)
(* One MCP server (mcp/server_worker.py, manager.py, client.py): a worker  *)
(* task owns the SDK client, connects with retries, discovers the server's *)
(* catalog and then serves one command at a time.  Turns send requests and *)
(* may be cancelled, the server announces catalog changes at any moment,   *)
(* the connection may fail at every await, and the manager may close the   *)
(* worker whatever it is doing.                                            *)
(***************************************************************************)
EXTENDS Naturals, Sequences, FiniteSets

CONSTANTS
  Requests,        \* tool, resource and prompt requests, and reconnects, of the callers
  ConnectRetries,  \* connect_retry_attempts
  MaxVersion,      \* bound on the changes of the server's catalog
  MaxMcpFaults     \* bound on connections and calls that fail

ASSUME McpAssumption ==
  Requests \subseteq Nat \ {0} /\ ConnectRetries \in Nat /\ MaxVersion \in Nat /\ MaxMcpFaults \in Nat

VARIABLES
  worker,     \* the worker task: where it is, its retries, its command, the catalog it has read
  mcpStatus,  \* the status it published last
  commands,   \* _commands
  answers,    \* what each request's caller knows
  server,     \* the server's catalog version, and whether a notice of it is on its way
  catalog,    \* the manager's catalogs[name]: a version, 0 for none
  managed,    \* the manager still has the worker in workers
  mcpFaults,  \* failures so far
  refreshLost,\* history: the last refresh failed, and nobody was told
  abandoned   \* history: requests in execution when the worker was cancelled

mcpVars == <<worker, mcpStatus, commands, answers, server, catalog, managed, mcpFaults,
             refreshLost, abandoned>>

Nobody == 0
RefreshCatalog == [name |-> "refresh_catalog", by |-> Nobody]
NoCommand == [name |-> "none", by |-> Nobody]
WorkerAt(pc, retry, cmd, seen) == [pc |-> pc, retry |-> retry, cmd |-> cmd, seen |-> seen]

Alive == worker.pc \notin {"none", "done"}
SessionOpen == worker.pc \in {"discovering", "applying", "idle", "executing", "reading"}
Waiting(r) == answers[r] = "waiting"

(* _resolve and _reject: the caller learns of it unless it has left. *)
Answer(cmd, outcome) ==
  answers' = [r \in Requests |-> IF r = cmd.by /\ Waiting(r) THEN outcome ELSE answers[r]]

McpFault == mcpFaults < MaxMcpFaults /\ mcpFaults' = mcpFaults + 1

McpInit ==
  /\ worker = WorkerAt("none", 0, NoCommand, 0)
  /\ mcpStatus = "none" /\ commands = <<>> /\ answers = [r \in Requests |-> "none"]
  /\ server = [version |-> 1, notice |-> FALSE] /\ catalog = 0 /\ managed = FALSE
  /\ mcpFaults = 0 /\ refreshLost = FALSE /\ abandoned = {}

-----------------------------------------------------------------------------
(* The worker: connecting. *)
StartWorker ==
  /\ worker.pc = "none"
  /\ worker' = [worker EXCEPT !.pc = "new"] /\ managed' = TRUE
  /\ mcpStatus' = "connecting"
  /\ UNCHANGED <<commands, answers, server, catalog, mcpFaults, refreshLost, abandoned>>

(* _connect_with_retries publishes its attempt; a first attempt follows the *)
(* task's first step, a closed client, or a failure that a reconnect ended. *)
Attempts ==
  /\ worker.pc \in {"new", "closing"}
  /\ worker' = WorkerAt("connecting", 0, NoCommand, 0) /\ mcpStatus' = "connecting"
  /\ UNCHANGED <<commands, answers, server, catalog, managed, mcpFaults, refreshLost, abandoned>>

Connects ==
  /\ worker.pc = "connecting"
  /\ worker' = [worker EXCEPT !.pc = "discovering"]
  /\ UNCHANGED <<mcpStatus, commands, answers, server, catalog, managed, mcpFaults, refreshLost,
                 abandoned>>

(* discover reads the lists; what the server changes from here on is news. *)
DiscoverReads ==
  /\ \/ worker.pc = "discovering" /\ worker' = [worker EXCEPT !.pc = "applying",
                                                                !.seen = server.version]
     \/ worker.pc = "executing" /\ worker.cmd.name = "refresh_catalog"
        /\ worker' = [worker EXCEPT !.pc = "reading", !.seen = server.version]
  /\ UNCHANGED <<mcpStatus, commands, answers, server, catalog, managed, mcpFaults, refreshLost,
                 abandoned>>

(* _apply_catalog; then the worker serves its queue. *)
CatalogApplied ==
  /\ worker.pc \in {"applying", "reading"}
  /\ catalog' = worker.seen /\ refreshLost' = FALSE
  /\ worker' = WorkerAt("idle", 0, NoCommand, 0) /\ mcpStatus' = "connected"
  /\ UNCHANGED <<commands, answers, server, managed, mcpFaults, abandoned>>

(* Only a lost connection is retried, and only connect_retry_attempts times; *)
(* a request that timed out is an ordinary error.                            *)
ConnectFails(lost) ==
  LET retries == lost /\ worker.retry < ConnectRetries
  IN /\ worker.pc \in {"connecting", "discovering", "applying"} /\ McpFault
     /\ worker' = IF retries THEN WorkerAt("retry_wait", worker.retry + 1, NoCommand, 0)
                  ELSE WorkerAt("failed", 0, NoCommand, 0)
     /\ mcpStatus' = IF retries THEN "retry_wait" ELSE "failed"
     /\ server' = [server EXCEPT !.notice = FALSE]
     /\ UNCHANGED <<commands, answers, catalog, managed, refreshLost, abandoned>>

RetryElapses ==
  /\ worker.pc = "retry_wait"
  /\ worker' = [worker EXCEPT !.pc = "connecting"] /\ mcpStatus' = "connecting"
  /\ UNCHANGED <<commands, answers, server, catalog, managed, mcpFaults, refreshLost, abandoned>>

(* _wait_for_retry and _wait_when_failed: a reconnect starts over, anything *)
(* else is rejected.                                                        *)
RejectsUnlessReconnect ==
  /\ worker.pc \in {"retry_wait", "failed"} /\ commands # <<>>
  /\ commands' = Tail(commands)
  /\ \/ /\ Head(commands).name = "reconnect" /\ Answer(Head(commands), "ok")
        /\ worker' = WorkerAt("closing", 0, NoCommand, 0)
     \/ /\ Head(commands).name # "reconnect" /\ Answer(Head(commands), "rejected")
        /\ UNCHANGED worker
  /\ UNCHANGED <<mcpStatus, server, catalog, managed, mcpFaults, refreshLost, abandoned>>

-----------------------------------------------------------------------------
(* The worker: serving.  The published status stays "connected" while the *)
(* client of a lost connection is being closed.                           *)
TakesCommand ==
  /\ worker.pc = "idle" /\ commands # <<>>
  /\ commands' = Tail(commands)
  /\ \/ /\ Head(commands).name = "reconnect" /\ Answer(Head(commands), "ok")
        /\ worker' = WorkerAt("closing", 0, NoCommand, 0)
        /\ server' = [server EXCEPT !.notice = FALSE]
     \/ /\ Head(commands).name # "reconnect" /\ UNCHANGED <<answers, server>>
        /\ worker' = WorkerAt("executing", 0, Head(commands), 0)
  /\ UNCHANGED <<mcpStatus, catalog, managed, mcpFaults, refreshLost, abandoned>>

CallSucceeds ==
  /\ worker.pc = "executing" /\ worker.cmd.name = "call"
  /\ Answer(worker.cmd, "ok") /\ worker' = WorkerAt("idle", 0, NoCommand, 0)
  /\ UNCHANGED <<mcpStatus, commands, server, catalog, managed, mcpFaults, refreshLost, abandoned>>

(* The caller gets the error; a refresh asked for by a notice has none. *)
CommandFails(lost) ==
  /\ worker.pc \in {"executing", "reading"} /\ McpFault
  /\ Answer(worker.cmd, "rejected")
  /\ refreshLost' = (refreshLost \/ worker.cmd.name = "refresh_catalog")
  /\ worker' = WorkerAt(IF lost THEN "closing" ELSE "idle", 0, NoCommand, 0)
  /\ server' = [server EXCEPT !.notice = @ /\ ~lost]
  /\ UNCHANGED <<mcpStatus, commands, catalog, managed, abandoned>>

-----------------------------------------------------------------------------
(* close cancels the task, wherever it awaits: the command in execution is *)
(* never answered, and a task that has not run yet never reaches its       *)
(* finally clause.  The manager has forgotten the worker by then.          *)
CloseWorker ==
  /\ managed /\ Alive
  /\ managed' = FALSE /\ catalog' = 0
  /\ abandoned' = {r \in Requests : Waiting(r) /\ (r = worker.cmd.by \/ worker.pc = "new")}
  /\ worker' = WorkerAt(IF worker.pc = "new" THEN "done" ELSE "ending", 0, NoCommand, 0)
  /\ server' = [server EXCEPT !.notice = FALSE]
  /\ UNCHANGED <<mcpStatus, commands, answers, mcpFaults, refreshLost>>

(* _fail_queued_commands *)
Drained_Forgets(queue) == answers
Drained(queue) ==
  [r \in Requests |-> IF Waiting(r) /\ \E i \in DOMAIN queue : queue[i].by = r
                      THEN "rejected" ELSE answers[r]]

WorkerEnds ==
  /\ worker.pc = "ending"
  /\ worker' = [worker EXCEPT !.pc = "done"] /\ mcpStatus' = "closed"
  /\ answers' = Drained(commands) /\ commands' = <<>>
  /\ UNCHANGED <<server, catalog, managed, mcpFaults, refreshLost, abandoned>>

-----------------------------------------------------------------------------
(* The callers. *)
(* _enqueue: a request needs the published status, a reconnect only a task. *)
Request(r, name) ==
  /\ answers[r] = "none" /\ managed /\ Alive
  /\ IF name = "reconnect" \/ mcpStatus = "connected"
     THEN /\ commands' = Append(commands, [name |-> name, by |-> r])
          /\ answers' = [answers EXCEPT ![r] = "waiting"]
     ELSE answers' = [answers EXCEPT ![r] = "rejected"] /\ UNCHANGED commands
  /\ UNCHANGED <<worker, mcpStatus, server, catalog, managed, mcpFaults, refreshLost, abandoned>>

(* The turn is cancelled: its command stays where it is, and is still executed. *)
CallerCancelled(r) ==
  /\ Waiting(r) /\ r \notin abandoned
  /\ answers' = [answers EXCEPT ![r] = "cancelled"]
  /\ UNCHANGED <<worker, mcpStatus, commands, server, catalog, managed, mcpFaults, refreshLost,
                 abandoned>>

(* The server changes its catalog and says so if a session is open. *)
ServerChanges ==
  /\ server.version < MaxVersion
  /\ server' = [version |-> server.version + 1, notice |-> SessionOpen]
  /\ UNCHANGED <<worker, mcpStatus, commands, answers, catalog, managed, mcpFaults, refreshLost,
                 abandoned>>

(* _queue_catalog_refresh *)
WithRefresh_WhenServing(queue) == IF mcpStatus = "connected" THEN Append(queue, RefreshCatalog) ELSE queue
WithRefresh(queue) == IF Alive THEN Append(queue, RefreshCatalog) ELSE queue

NoticeArrives ==
  /\ server.notice
  /\ commands' = WithRefresh(commands) /\ server' = [server EXCEPT !.notice = FALSE]
  /\ UNCHANGED <<worker, mcpStatus, answers, catalog, managed, mcpFaults, refreshLost, abandoned>>

WorkerStep ==
  \/ Attempts \/ Connects \/ DiscoverReads \/ CatalogApplied \/ RetryElapses
  \/ RejectsUnlessReconnect \/ TakesCommand \/ CallSucceeds \/ WorkerEnds
  \/ \E lost \in BOOLEAN : ConnectFails(lost) \/ CommandFails(lost)

McpNext ==
  \/ WorkerStep \/ StartWorker \/ CloseWorker \/ ServerChanges \/ NoticeArrives
  \/ \E r \in Requests : CallerCancelled(r) \/ \E name \in {"call", "reconnect"} : Request(r, name)

McpSpec == McpInit /\ [][McpNext]_mcpVars

-----------------------------------------------------------------------------
(* When the worker rests with an empty queue, the tools and resources it   *)
(* published are those the server has now, whichever of its two reads, the *)
(* notice of the change and a reconnection came first: no change that was  *)
(* announced is forgotten unless the refresh itself failed.                *)
CatalogIsCurrent ==
  worker.pc = "idle" /\ commands = <<>> /\ ~server.notice /\ ~refreshLost
    => catalog = server.version

(* A caller that waits has its command in the queue or in execution, from  *)
(* the request through failures, retries and reconnections to the closing: *)
(* nobody waits for an answer that no step will give.  The one exception   *)
(* is the command that was executing when the worker was cancelled.        *)
NoStrandedRequest ==
  \A r \in Requests \ abandoned :
    Waiting(r) => worker.cmd.by = r \/ \E i \in DOMAIN commands : commands[i].by = r
=============================================================================
