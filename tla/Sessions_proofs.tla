-------------------------- MODULE Sessions_proofs ---------------------------
(***************************************************************************)
(* What works for the turns of a session, for any number of requests,      *)
(* messages, retries, catalog changes, failures and restarts: an MCP       *)
(* server's worker, a Web session and its pages, and the steps of a turn.  *)
(***************************************************************************)
EXTENDS McpWorker, WebSession, AgentTurn, SequenceTheorems, FiniteSetTheorems, TLAPS

(* The worker of an MCP server.                                            *)
Command == [name : {"call", "reconnect", "refresh_catalog"}, by : Requests \union {Nobody}]

McpTypeOK ==
  /\ DOMAIN worker = {"pc", "retry", "cmd", "seen"}
  /\ commands \in Seq(Command)
  /\ DOMAIN answers = Requests

(* A refresh has no caller, and only a worker that executes has a command. *)
CommandPlaces ==
  /\ \A i \in DOMAIN commands : commands[i].name = "refresh_catalog" => commands[i].by = Nobody
  /\ worker.pc # "executing" => worker.cmd.by = Nobody
  /\ worker.cmd.name = "refresh_catalog" => worker.cmd.by = Nobody

(* The worker is cancelled once. *)
ClosedOnce == managed \/ worker.pc = "none" => abandoned = {}

Queued(r, queue) == \E i \in DOMAIN queue : queue[i].by = r

McpInv == McpTypeOK /\ CommandPlaces /\ ClosedOnce /\ NoStrandedRequest

-----------------------------------------------------------------------------
(* Who is in a queue is at its head or in its tail, and stays when it grows. *)
LEMMA QueueParts ==
  ASSUME NEW queue \in Seq(Command)
  PROVE  /\ queue # <<>> =>
              /\ Tail(queue) \in Seq(Command) /\ Head(queue) \in Command
              /\ \A r : Queued(r, queue) => Head(queue).by = r \/ Queued(r, Tail(queue))
              /\ Head(queue) = queue[1] /\ 1 \in DOMAIN queue
              /\ \A i \in DOMAIN Tail(queue) : \E j \in DOMAIN queue : Tail(queue)[i] = queue[j]
         /\ \A e \in Command :
              /\ Append(queue, e) \in Seq(Command)
              /\ \A r : Queued(r, queue) => Queued(r, Append(queue, e))
              /\ Queued(e.by, Append(queue, e))
              /\ \A i \in DOMAIN Append(queue, e) :
                   Append(queue, e)[i] = e \/ \E j \in DOMAIN queue : Append(queue, e)[i] = queue[j]
<1>1. Len(queue) \in Nat /\ DOMAIN queue = 1..Len(queue)
  OBVIOUS
<1>2. ASSUME queue # <<>>
      PROVE  /\ Tail(queue) \in Seq(Command) /\ Head(queue) \in Command
             /\ \A r : Queued(r, queue) => Head(queue).by = r \/ Queued(r, Tail(queue))
             /\ Head(queue) = queue[1] /\ 1 \in DOMAIN queue
             /\ \A i \in DOMAIN Tail(queue) : \E j \in DOMAIN queue : Tail(queue)[i] = queue[j]
  <2>1. /\ Len(queue) \in Nat \ {0} /\ Tail(queue) \in Seq(Command) /\ Head(queue) \in Command
        /\ Len(Tail(queue)) = Len(queue) - 1
        /\ \A i \in 1..(Len(queue) - 1) : Tail(queue)[i] = queue[i + 1]
        /\ Head(queue) = queue[1]
    BY <1>2, HeadTailProperties, EmptySeq
  <2>2. DOMAIN Tail(queue) = 1..(Len(queue) - 1)
    BY <2>1
  <2>3. ASSUME NEW r, NEW i \in DOMAIN queue, queue[i].by = r
        PROVE  Head(queue).by = r \/ Queued(r, Tail(queue))
    <3>1. CASE i = 1
      BY <2>1, <2>3, <3>1
    <3>2. CASE i # 1
      <4>1. i - 1 \in 1..(Len(queue) - 1) /\ Tail(queue)[i - 1] = queue[i]
        BY <1>1, <2>1, <3>2
      <4> QED
        BY <2>2, <2>3, <4>1 DEF Queued
    <3> QED
      BY <3>1, <3>2
  <2>4. ASSUME NEW i \in DOMAIN Tail(queue)
        PROVE  \E j \in DOMAIN queue : Tail(queue)[i] = queue[j]
    <3>1. i + 1 \in DOMAIN queue /\ Tail(queue)[i] = queue[i + 1]
      BY <1>1, <2>1, <2>2
    <3> QED
      BY <3>1
  <2> QED
    BY <1>1, <2>1, <2>3, <2>4 DEF Queued
<1>3. ASSUME NEW e \in Command
      PROVE  /\ Append(queue, e) \in Seq(Command)
             /\ \A r : Queued(r, queue) => Queued(r, Append(queue, e))
             /\ Queued(e.by, Append(queue, e))
             /\ \A i \in DOMAIN Append(queue, e) :
                  Append(queue, e)[i] = e \/ \E j \in DOMAIN queue : Append(queue, e)[i] = queue[j]
  <2>1. /\ Append(queue, e) \in Seq(Command) /\ DOMAIN Append(queue, e) = 1..(Len(queue) + 1)
        /\ \A i \in 1..Len(queue) : Append(queue, e)[i] = queue[i]
        /\ Append(queue, e)[Len(queue) + 1] = e
    OBVIOUS
  <2>2. ASSUME NEW r, NEW i \in DOMAIN queue, queue[i].by = r
        PROVE  Queued(r, Append(queue, e))
    <3>1. i \in DOMAIN Append(queue, e) /\ Append(queue, e)[i] = queue[i]
      BY <1>1, <2>1
    <3> QED
      BY <2>2, <3>1 DEF Queued
  <2>3. Queued(e.by, Append(queue, e))
    <3>1. Len(queue) + 1 \in DOMAIN Append(queue, e)
      BY <1>1, <2>1
    <3> QED
      BY <2>1, <3>1 DEF Queued
  <2>4. ASSUME NEW i \in DOMAIN Append(queue, e)
        PROVE  Append(queue, e)[i] = e \/ \E j \in DOMAIN queue : Append(queue, e)[i] = queue[j]
    BY <1>1, <2>1
  <2> QED
    BY <2>1, <2>2, <2>3, <2>4 DEF Queued
<1> QED
  BY <1>2, <1>3

LEMMA McpInitInv == McpInit => McpInv
BY EmptySeq DEF McpInit, McpInv, McpTypeOK, CommandPlaces, ClosedOnce, NoStrandedRequest, Waiting, WorkerAt,
    NoCommand, Nobody

(* A command that is taken from the queue is executed or answered. *)
LEMMA TakenIsHandled ==
  ASSUME McpInv, commands # <<>>, commands' = Tail(commands), UNCHANGED <<managed, abandoned>>,
         worker'.pc # "executing" => worker'.cmd.by = Nobody,
         DOMAIN worker' = {"pc", "retry", "cmd", "seen"},
         worker.cmd.by = Nobody, worker'.pc # "none",
         \/ worker'.cmd = Head(commands) /\ UNCHANGED answers
         \/ /\ worker'.cmd = worker.cmd \/ worker'.cmd = NoCommand
            /\ \E outcome \in {"ok", "rejected"} : Answer(Head(commands), outcome)
  PROVE  McpInv'
<1>1. /\ Tail(commands) \in Seq(Command) /\ Head(commands) = commands[1] /\ 1 \in DOMAIN commands
      /\ \A r : Queued(r, commands) => Head(commands).by = r \/ Queued(r, Tail(commands))
      /\ \A i \in DOMAIN Tail(commands) : \E j \in DOMAIN commands : Tail(commands)[i] = commands[j]
  BY QueueParts DEF McpInv, McpTypeOK
<1>2. McpTypeOK'
  BY <1>1 DEF McpInv, McpTypeOK, Answer
<1>3. CommandPlaces'
  BY <1>1 DEF McpInv, CommandPlaces, NoCommand, Nobody
<1>4. \A r \in Requests : r # Nobody
  BY McpAssumption DEF Nobody
<1>5. \A r \in Requests : Waiting(r)' => Waiting(r) /\ (r = Head(commands).by => worker'.cmd.by = r)
  BY DEF Waiting, Answer
<1>6. NoStrandedRequest'
  BY <1>1, <1>4, <1>5 DEF McpInv, NoStrandedRequest, Queued
<1> QED
  BY <1>2, <1>3, <1>6 DEF McpInv, ClosedOnce

LEMMA McpNextInv ==
  ASSUME McpInv, [McpNext]_mcpVars
  PROVE  McpInv'
<1>0. \A r \in Requests : r # Nobody
  BY McpAssumption DEF Nobody
<1> USE DEF McpInv, McpTypeOK, CommandPlaces, ClosedOnce, NoStrandedRequest, Waiting, WorkerAt
<1>1. CASE StartWorker
  <2>1. /\ worker'.pc = "new" /\ worker'.cmd = worker.cmd /\ DOMAIN worker' = DOMAIN worker
        /\ worker.cmd.by = Nobody
    BY <1>1 DEF StartWorker
  <2>2. UNCHANGED <<commands, answers, abandoned>> /\ worker.pc = "none" /\ managed' = TRUE
    BY <1>1 DEF StartWorker
  <2>3. abandoned = {}
    BY <2>2
  <2> QED
    BY <2>1, <2>2, <2>3
<1>2. CASE Attempts
  BY <1>2, <1>0 DEF Attempts, NoCommand
<1>3. CASE Connects
  BY <1>3 DEF Connects
<1>4. CASE DiscoverReads
  <2>1. /\ worker'.cmd = worker.cmd /\ DOMAIN worker' = DOMAIN worker
        /\ \/ worker.pc = "discovering" /\ worker'.pc = "applying"
           \/ worker.pc = "executing" /\ worker'.pc = "reading" /\ worker.cmd.name = "refresh_catalog"
    BY <1>4 DEF DiscoverReads
  <2>2. UNCHANGED <<commands, answers, abandoned, managed>>
    BY <1>4 DEF DiscoverReads
  <2> QED
    BY <1>0, <2>1, <2>2
<1>5. CASE CatalogApplied
  BY <1>5, <1>0 DEF CatalogApplied, NoCommand
<1>6. ASSUME NEW lost \in BOOLEAN, ConnectFails(lost)
      PROVE  McpInv'
  BY <1>6, <1>0 DEF ConnectFails, NoCommand
<1>7. CASE RetryElapses
  BY <1>7 DEF RetryElapses
<1>8. CASE RejectsUnlessReconnect
  <2>1. /\ commands # <<>> /\ commands' = Tail(commands) /\ UNCHANGED <<managed, abandoned>>
        /\ worker.cmd.by = Nobody
    BY <1>8 DEF RejectsUnlessReconnect
  <2>2. /\ worker'.pc \in {"closing", "retry_wait", "failed"} /\ DOMAIN worker' = DOMAIN worker
        /\ worker'.cmd = worker.cmd \/ worker'.cmd = NoCommand
        /\ worker'.cmd.by = Nobody
    BY <1>8 DEF RejectsUnlessReconnect, NoCommand
  <2>3. \E outcome \in {"ok", "rejected"} : Answer(Head(commands), outcome)
    BY <1>8 DEF RejectsUnlessReconnect
  <2> QED
    BY <2>1, <2>2, <2>3, TakenIsHandled
<1>9. CASE TakesCommand
  <2>1. commands # <<>> /\ commands' = Tail(commands) /\ UNCHANGED <<managed, abandoned>> /\ worker.cmd.by = Nobody
    BY <1>9 DEF TakesCommand
  <2>2. CASE Head(commands).name = "reconnect"
    <3>1. worker' = WorkerAt("closing", 0, NoCommand, 0) /\ Answer(Head(commands), "ok")
      BY <1>9, <2>2 DEF TakesCommand
    <3>2. /\ worker'.pc = "closing" /\ worker'.cmd = NoCommand /\ worker'.cmd.by = Nobody
          /\ DOMAIN worker' = {"pc", "retry", "cmd", "seen"}
      BY <3>1 DEF NoCommand
    <3> QED
      BY <2>1, <3>1, <3>2, TakenIsHandled
  <2>3. CASE Head(commands).name # "reconnect"
    <3>1. worker' = WorkerAt("executing", 0, Head(commands), 0) /\ UNCHANGED answers
      BY <1>9, <2>3 DEF TakesCommand
    <3>2. /\ worker'.pc = "executing" /\ worker'.cmd = Head(commands)
          /\ DOMAIN worker' = {"pc", "retry", "cmd", "seen"}
      BY <3>1
    <3> QED
      BY <2>1, <3>1, <3>2, TakenIsHandled
  <2> QED
    BY <2>2, <2>3
<1>10. CASE CallSucceeds
  BY <1>10, <1>0 DEF CallSucceeds, NoCommand, Answer
<1>11. ASSUME NEW lost \in BOOLEAN, CommandFails(lost)
       PROVE  McpInv'
  BY <1>11, <1>0 DEF CommandFails, NoCommand, Answer
<1>12. CASE CloseWorker
  BY <1>12, <1>0 DEF CloseWorker, NoCommand
<1>13. CASE WorkerEnds
  <2>1. commands' = <<>> /\ <<>> \in Seq(Command) /\ DOMAIN <<>> = {}
    BY <1>13, EmptySeq DEF WorkerEnds
  <2> QED
    BY <1>13, <2>1, <1>0 DEF WorkerEnds, Drained
<1>14. ASSUME NEW r \in Requests, NEW name \in {"call", "reconnect"}, Request(r, name)
       PROVE  McpInv'
  <2>1. DOMAIN answers' = Requests /\ UNCHANGED <<worker, managed, abandoned>>
    BY <1>14 DEF Request
  <2>2. CASE name = "reconnect" \/ mcpStatus = "connected"
    <3> DEFINE e == [name |-> name, by |-> r]
    <3>1. commands' = Append(commands, e) /\ answers' = [answers EXCEPT ![r] = "waiting"] /\ e \in Command
      BY <1>14, <2>2 DEF Request, Command
    <3>2. /\ commands' \in Seq(Command) /\ Queued(r, commands')
          /\ \A q : Queued(q, commands) => Queued(q, commands')
          /\ \A i \in DOMAIN commands' : commands'[i] = e \/ \E j \in DOMAIN commands : commands'[i] = commands[j]
      BY <3>1, QueueParts
    <3>3. CommandPlaces'
      BY <1>14, <2>1, <3>2
    <3>4. NoStrandedRequest'
      BY <2>1, <3>1, <3>2 DEF Queued
    <3> QED
      BY <2>1, <3>2, <3>3, <3>4
  <2>3. CASE ~(name = "reconnect" \/ mcpStatus = "connected")
    BY <1>14, <2>1, <2>3 DEF Request
  <2> QED
    BY <2>2, <2>3
<1>15. ASSUME NEW r \in Requests, CallerCancelled(r)
       PROVE  McpInv'
  BY <1>15 DEF CallerCancelled
<1>16. CASE ServerChanges
  BY <1>16 DEF ServerChanges
<1>17. CASE NoticeArrives
  <2>1. UNCHANGED <<worker, answers, managed, abandoned>>
    BY <1>17 DEF NoticeArrives
  <2>2. CASE UNCHANGED commands
    BY <2>1, <2>2
  <2>3. CASE commands' = Append(commands, RefreshCatalog)
    <3>1. RefreshCatalog \in Command /\ RefreshCatalog.by = Nobody
      BY DEF RefreshCatalog, Command
    <3>2. /\ commands' \in Seq(Command)
          /\ \A q : Queued(q, commands) => Queued(q, commands')
          /\ \A i \in DOMAIN commands' : commands'[i] = RefreshCatalog
               \/ \E j \in DOMAIN commands : commands'[i] = commands[j]
      BY <2>3, <3>1, QueueParts
    <3>3. CommandPlaces'
      BY <2>1, <3>1, <3>2
    <3>4. NoStrandedRequest'
      BY <2>1, <3>2 DEF Queued
    <3> QED
      BY <2>1, <3>2, <3>3, <3>4
  <2> QED
    BY <1>17, <2>2, <2>3 DEF NoticeArrives, WithRefresh
<1>18. CASE UNCHANGED mcpVars
  BY <1>18 DEF mcpVars
<1> QED
  BY <1>1, <1>2, <1>3, <1>4, <1>5, <1>6, <1>7, <1>8, <1>9, <1>10, <1>11, <1>12, <1>13, <1>14,
     <1>15, <1>16, <1>17, <1>18 DEF McpNext, WorkerStep

(* A caller that waits is in the queue or in execution, unless its command  *)
(* was executing when the worker was cancelled.                             *)
THEOREM NoStrandedRequestAlways == McpSpec => []NoStrandedRequest
<1>1. McpInv => NoStrandedRequest
  BY DEF McpInv
<1> QED
  BY <1>1, McpInitInv, McpNextInv, PTL DEF McpSpec
-----------------------------------------------------------------------------
(* CatalogIsCurrent.  News of a change is a notice or a queued refresh.  A  *)
(* worker that serves has the server's catalog, or there is news, or the    *)
(* refresh was lost; one that has read the catalog and not yet published it *)
(* has read the server's, or there is news.  A lost refresh excuses only    *)
(* the former, since publishing ends the excuse.                            *)
RefreshIn(queue) == \E i \in DOMAIN queue : queue[i].name = "refresh_catalog"
News == server.notice \/ RefreshIn(commands)
Refreshing == worker.cmd.name = "refresh_catalog"

ServedCatalog ==
  worker.pc = "idle" \/ (worker.pc = "executing" /\ ~Refreshing)
    => catalog = server.version \/ News \/ refreshLost

ReadCatalog == worker.pc \in {"applying", "reading"} => worker.seen = server.version \/ News

ExecutedCommand ==
  /\ worker.pc = "executing" => worker.cmd.name \in {"call", "refresh_catalog"}
  /\ worker.pc = "reading" => Refreshing

CatalogInv ==
  /\ DOMAIN server = {"version", "notice"} /\ server.notice \in BOOLEAN
  /\ ServedCatalog /\ ReadCatalog /\ ExecutedCommand

(* A refresh in a queue is its head or stays, and every queue can get one. *)
LEMMA RefreshParts ==
  ASSUME NEW queue \in Seq(Command)
  PROVE  /\ queue # <<>> => (RefreshIn(queue) => Head(queue).name = "refresh_catalog" \/ RefreshIn(Tail(queue)))
         /\ \A e \in Command : RefreshIn(queue) => RefreshIn(Append(queue, e))
         /\ RefreshIn(Append(queue, RefreshCatalog))
<1>1. Len(queue) \in Nat /\ DOMAIN queue = 1..Len(queue)
  OBVIOUS
<1>2. ASSUME queue # <<>>, NEW i \in DOMAIN queue, queue[i].name = "refresh_catalog"
      PROVE  Head(queue).name = "refresh_catalog" \/ RefreshIn(Tail(queue))
  <2>1. /\ Len(queue) \in Nat \ {0} /\ Tail(queue) \in Seq(Command)
        /\ Len(Tail(queue)) = Len(queue) - 1
        /\ \A j \in 1..(Len(queue) - 1) : Tail(queue)[j] = queue[j + 1]
        /\ Head(queue) = queue[1]
    BY <1>2, HeadTailProperties, EmptySeq
  <2>2. DOMAIN Tail(queue) = 1..(Len(queue) - 1)
    BY <2>1
  <2>3. CASE i = 1
    BY <1>2, <2>1, <2>3
  <2>4. CASE i # 1
    <3>1. i - 1 \in 1..(Len(queue) - 1) /\ Tail(queue)[i - 1] = queue[i]
      BY <1>1, <1>2, <2>1, <2>4
    <3> QED
      BY <1>2, <2>2, <3>1 DEF RefreshIn
  <2> QED
    BY <2>3, <2>4
<1>3. ASSUME NEW e \in Command
      PROVE  /\ RefreshIn(queue) => RefreshIn(Append(queue, e))
             /\ e.name = "refresh_catalog" => RefreshIn(Append(queue, e))
  <2>1. /\ DOMAIN Append(queue, e) = 1..(Len(queue) + 1)
        /\ \A i \in 1..Len(queue) : Append(queue, e)[i] = queue[i]
        /\ Append(queue, e)[Len(queue) + 1] = e
    OBVIOUS
  <2>2. ASSUME NEW i \in DOMAIN queue, queue[i].name = "refresh_catalog"
        PROVE  RefreshIn(Append(queue, e))
    <3>1. i \in DOMAIN Append(queue, e) /\ Append(queue, e)[i] = queue[i]
      BY <1>1, <2>1
    <3> QED
      BY <2>2, <3>1 DEF RefreshIn
  <2>3. ASSUME e.name = "refresh_catalog"
        PROVE  RefreshIn(Append(queue, e))
    <3>1. Len(queue) + 1 \in DOMAIN Append(queue, e)
      BY <1>1, <2>1
    <3> QED
      BY <2>1, <2>3, <3>1 DEF RefreshIn
  <2> QED
    BY <2>2, <2>3 DEF RefreshIn
<1>4. RefreshCatalog \in Command /\ RefreshCatalog.name = "refresh_catalog"
  BY DEF RefreshCatalog, Command
<1> QED
  BY <1>2, <1>3, <1>4 DEF RefreshIn

LEMMA CatalogInitInv == McpInit => CatalogInv
BY DEF McpInit, CatalogInv, ServedCatalog, ReadCatalog, ExecutedCommand, Refreshing, WorkerAt, NoCommand

LEMMA CatalogNextInv ==
  ASSUME McpInv, CatalogInv, [McpNext]_mcpVars
  PROVE  CatalogInv'
<1> commands \in Seq(Command) /\ DOMAIN worker = {"pc", "retry", "cmd", "seen"}
  BY DEF McpInv, McpTypeOK
<1> USE DEF CatalogInv, ServedCatalog, ReadCatalog, ExecutedCommand, News, Refreshing, WorkerAt
<1>1. CASE StartWorker
  BY <1>1 DEF StartWorker
<1>2. CASE Attempts
  BY <1>2 DEF Attempts
<1>3. CASE Connects
  BY <1>3 DEF Connects
<1>4. CASE DiscoverReads
  BY <1>4 DEF DiscoverReads
<1>5. CASE CatalogApplied
  BY <1>5 DEF CatalogApplied
<1>6. ASSUME NEW lost \in BOOLEAN, ConnectFails(lost)
      PROVE  CatalogInv'
  <2>1. worker'.pc \in {"retry_wait", "failed"} /\ server' = [server EXCEPT !.notice = FALSE]
    BY <1>6 DEF ConnectFails
  <2> QED
    BY <2>1
<1>7. CASE RetryElapses
  BY <1>7 DEF RetryElapses
<1>8. CASE RejectsUnlessReconnect
  <2>1. worker'.pc \in {"retry_wait", "failed", "closing"} /\ UNCHANGED server
    BY <1>8 DEF RejectsUnlessReconnect
  <2> QED
    BY <2>1
<1>9. CASE TakesCommand
  <2>1. worker.pc = "idle" /\ commands # <<>> /\ commands' = Tail(commands) /\ UNCHANGED <<catalog, refreshLost>>
    BY <1>9 DEF TakesCommand
  <2>2. CASE Head(commands).name = "reconnect"
    <3>1. worker'.pc = "closing" /\ server' = [server EXCEPT !.notice = FALSE]
      BY <1>9, <2>2 DEF TakesCommand
    <3> QED
      BY <3>1
  <2>3. CASE Head(commands).name # "reconnect"
    <3>1. worker' = WorkerAt("executing", 0, Head(commands), 0) /\ UNCHANGED server
      BY <1>9, <2>3 DEF TakesCommand
    <3>2. worker'.pc = "executing" /\ worker'.cmd = Head(commands)
      BY <3>1
    <3>3. Head(commands) \in Command
      BY <2>1, QueueParts
    <3>4. Head(commands).name \in {"call", "refresh_catalog"}
      BY <2>3, <3>3 DEF Command
    <3>5. RefreshIn(commands) => Refreshing' \/ RefreshIn(commands')
      BY <2>1, <3>2, RefreshParts
    <3> QED
      BY <2>1, <3>1, <3>2, <3>4, <3>5
  <2> QED
    BY <2>2, <2>3
<1>10. CASE CallSucceeds
  BY <1>10 DEF CallSucceeds
<1>11. ASSUME NEW lost \in BOOLEAN, CommandFails(lost)
       PROVE  CatalogInv'
  <2>1. CASE lost
    <3>1. worker'.pc = "closing" /\ server' = [server EXCEPT !.notice = FALSE]
      BY <1>11, <2>1 DEF CommandFails
    <3> QED
      BY <3>1
  <2>2. CASE ~lost
    <3>1. /\ server' = [server EXCEPT !.notice = @ /\ ~lost] /\ worker'.pc = "idle"
          /\ refreshLost' = (refreshLost \/ Refreshing) /\ worker.pc \in {"executing", "reading"}
          /\ UNCHANGED <<commands, catalog>>
      BY <1>11, <2>2 DEF CommandFails
    <3>2. /\ server'.version = server.version /\ server'.notice = (server.notice /\ ~lost)
          /\ DOMAIN server' = DOMAIN server
      BY <3>1
    <3>3. server'.notice = server.notice
      BY <2>2, <3>2
    <3> QED
      BY <3>1, <3>2, <3>3
  <2> QED
    BY <2>1, <2>2
<1>12. CASE CloseWorker
  <2>1. worker'.pc \in {"done", "ending"} /\ server' = [server EXCEPT !.notice = FALSE]
    BY <1>12 DEF CloseWorker
  <2> QED
    BY <2>1
<1>13. CASE WorkerEnds
  BY <1>13 DEF WorkerEnds
<1>14. ASSUME NEW r \in Requests, NEW name \in {"call", "reconnect"}, Request(r, name)
       PROVE  CatalogInv'
  <2>1. UNCHANGED <<worker, server, catalog, refreshLost>>
    BY <1>14 DEF Request
  <2>2. [name |-> name, by |-> r] \in Command
    BY DEF Command
  <2>3. RefreshIn(commands) => RefreshIn(commands')
    BY <1>14, <2>2, RefreshParts DEF Request
  <2> QED
    BY <2>1, <2>3
<1>15. ASSUME NEW r \in Requests, CallerCancelled(r)
       PROVE  CatalogInv'
  BY <1>15 DEF CallerCancelled
<1>16. CASE ServerChanges
  <2>1. /\ UNCHANGED <<worker, commands, catalog, refreshLost>>
        /\ server' = [version |-> server.version + 1, notice |-> SessionOpen]
    BY <1>16 DEF ServerChanges
  <2>2. DOMAIN server' = {"version", "notice"} /\ server'.notice = SessionOpen
    BY <2>1
  <2>3. CASE SessionOpen
    BY <2>1, <2>2, <2>3
  <2>4. CASE ~SessionOpen
    <3>1. server'.notice = FALSE
      BY <2>2, <2>4
    <3>2. worker'.pc \notin {"idle", "executing", "applying", "reading"}
      BY <2>1, <2>4 DEF SessionOpen
    <3> QED
      BY <2>2, <3>1, <3>2
  <2> QED
    BY <2>3, <2>4
<1>17. CASE NoticeArrives
  <2>1. UNCHANGED <<worker, catalog, refreshLost>> /\ server' = [server EXCEPT !.notice = FALSE]
    BY <1>17 DEF NoticeArrives
  <2>2. CASE Alive
    <3>1. RefreshIn(commands')
      BY <1>17, <2>2, RefreshParts DEF NoticeArrives, WithRefresh
    <3> QED
      BY <2>1, <3>1
  <2>3. CASE ~Alive
    BY <2>1, <2>3 DEF Alive
  <2> QED
    BY <2>2, <2>3
<1>18. CASE UNCHANGED mcpVars
  BY <1>18 DEF mcpVars
<1> QED
  BY <1>1, <1>2, <1>3, <1>4, <1>5, <1>6, <1>7, <1>8, <1>9, <1>10, <1>11, <1>12, <1>13, <1>14,
     <1>15, <1>16, <1>17, <1>18 DEF McpNext, WorkerStep

(* A worker that rests with an empty queue has published the server's       *)
(* catalog, unless a notice is on its way or the last refresh failed.       *)
THEOREM CatalogIsCurrentAlways == McpSpec => []CatalogIsCurrent
<1>1. CatalogInv => CatalogIsCurrent
  <2>1. commands = <<>> => ~RefreshIn(commands)
    BY DEF RefreshIn
  <2> QED
    BY <2>1 DEF CatalogInv, ServedCatalog, News, CatalogIsCurrent
<1>2. McpInit => McpInv /\ CatalogInv
  BY McpInitInv, CatalogInitInv
<1>3. McpInv /\ CatalogInv /\ [McpNext]_mcpVars => (McpInv /\ CatalogInv)'
  BY McpNextInv, CatalogNextInv
<1> QED
  BY <1>1, <1>2, <1>3, PTL DEF McpSpec

-----------------------------------------------------------------------------
(* The session of a Web page.                                              *)
(* The records have their fields. *)
Shapes ==
  /\ active = [msg |-> active.msg, pc |-> active.pc, base |-> active.base, guidance |-> active.guidance]
  /\ active.pc \in {"none", "dispatched", "running", "saved", "pending", "popped"}
  /\ active.base = [sum |-> active.base.sum, win |-> active.base.win]
  /\ compact = [pc |-> compact.pc, sum |-> compact.sum, win |-> compact.win]
  /\ context = [sum |-> context.sum, win |-> context.win]

(* begin_catalog_action: no turn has its control while a compaction works. *)
Apart == HasControl => ~Compacting

(* What is written next covers what was said: the context a turn has loaded, *)
(* the one a compaction has read, and the summary with the window it still   *)
(* has to write.                                                             *)
Covered ==
  /\ said \subseteq context.sum \cup context.win
  /\ active.pc = "running" => said \subseteq active.base.sum \cup active.base.win
  /\ compact.pc = "loaded" => compact.sum = context.sum /\ compact.win = context.win
  /\ compact.pc = "halved" => said \subseteq context.sum \cup compact.win

ContextInv == Shapes /\ (~overlap => Apart /\ Covered)

-----------------------------------------------------------------------------
LEMMA ContextInitInv == WebInit => ContextInv
BY DEF WebInit, ContextInv, Shapes, Apart, Covered, HasControl, Compacting, NoWebTurn, NoCompaction

(* A turn that is dispatched beside a compaction is noted. *)
LEMMA DispatchKeeps ==
  ASSUME ContextInv, NEW m, Dispatched(m), UNCHANGED <<compact, context, said>>
  PROVE  ContextInv'
BY DEF Dispatched, NoWebTurn, ContextInv, Shapes, Apart, Covered, HasControl, Compacting

LEMMA ContextNextInv ==
  ASSUME ContextInv, [WebNext]_webVars
  PROVE  ContextInv'
<1> USE DEF ContextInv, Shapes, Apart, Covered, HasControl, Compacting
<1>1. CASE Send
  <2>1. CASE active.pc = "none"
    BY <1>1, <2>1, DispatchKeeps DEF Send
  <2>2. CASE active.pc # "none"
    BY <1>1, <2>2 DEF Send
  <2> QED
    BY <2>1, <2>2
<1>2. CASE WebTurnLoads
  BY <1>2 DEF WebTurnLoads
<1>3. CASE Guide
  BY <1>3 DEF Guide
<1>4. CASE Stop
  BY <1>4 DEF Stop
<1>5. CASE StopIsAnnounced
  BY <1>5 DEF StopIsAnnounced
<1>6. CASE WebTurnSaves
  BY <1>6 DEF WebTurnSaves, NoWebTurn
<1>7. CASE WebTurnFails
  BY <1>7 DEF WebTurnFails, NoWebTurn
<1>8. CASE Deliver
  BY <1>8 DEF Deliver
<1>9. CASE DeliverPending
  BY <1>9 DEF DeliverPending
<1>10. CASE RouteGoesOn
  <2>1. CASE waiters = {}
    BY <1>10, <2>1 DEF RouteGoesOn, NoWebTurn
  <2>2. CASE waiters # {}
    BY <1>10, <2>2, DispatchKeeps DEF RouteGoesOn
  <2> QED
    BY <2>1, <2>2
<1>11. CASE CompactBegins
  BY <1>11 DEF CompactBegins, SessionIsFree, NoCompaction
<1>12. CASE CompactLoads
  BY <1>12 DEF CompactLoads
<1>13. ASSUME NEW newest \in 0..MaxMessages, CompactSummarizes(newest)
       PROVE  ContextInv'
  <2> DEFINE source == {m \in compact.win : m <= newest}
  <2>1. compact.pc = "loaded" /\ UNCHANGED <<active, said, overlap>>
    BY <1>13 DEF CompactSummarizes, Silent
  <2>2. CASE source = {}
    <3>1. /\ context' = [sum |-> context.sum, win |-> compact.win]
          /\ compact'.pc = "written" /\ compact' = [pc |-> compact'.pc, sum |-> compact'.sum, win |-> compact'.win]
      BY <1>13, <2>2 DEF CompactSummarizes, NoCompaction
    <3> QED
      BY <2>1, <3>1
  <2>3. CASE source # {}
    <3>1. /\ context' = [sum |-> compact.sum \cup source, win |-> context.win]
          /\ compact' = [pc |-> "halved", sum |-> compact.sum, win |-> compact.win \ source]
      BY <1>13, <2>3 DEF CompactSummarizes
    <3> QED
      BY <2>1, <3>1
  <2> QED
    BY <2>2, <2>3
<1>14. CASE CompactWritesWindow
  BY <1>14 DEF CompactWritesWindow, NoCompaction
<1>15. CASE CompactEnds
  BY <1>15 DEF CompactEnds, NoCompaction
<1>16. CASE CompactFinishes
  BY <1>16 DEF CompactFinishes, NoCompaction
<1>17. CASE DreamBegins \/ DreamRuns \/ DreamEnds \/ DreamFinishes
  BY <1>17 DEF DreamBegins, DreamRuns, DreamEnds, DreamFinishes
<1>18. CASE Subscribe \/ SnapshotArrives \/ Consume \/ Disconnect
  BY <1>18 DEF Subscribe, SnapshotArrives, Consume, Disconnect
<1>19. CASE WebRestarts
  BY <1>19 DEF WebRestarts, NoWebTurn, NoCompaction
<1>20. CASE UNCHANGED webVars
  BY <1>20 DEF webVars
<1> QED
  BY <1>1, <1>2, <1>3, <1>4, <1>5, <1>6, <1>7, <1>8, <1>9, <1>10, <1>11, <1>12, <1>13, <1>14,
     <1>15, <1>16, <1>17, <1>18, <1>19, <1>20 DEF WebNext

(* What was said is in the summary or in the window, whatever a turn and a  *)
(* compaction write, unless a turn was dispatched into the compaction.      *)
THEOREM CompactKeepsContextAlways == WebSpec => []CompactKeepsContext
<1>1. ContextInv => CompactKeepsContext
  BY DEF ContextInv, Covered, CompactKeepsContext
<1> QED
  BY <1>1, ContextInitInv, ContextNextInv, PTL DEF WebSpec

-----------------------------------------------------------------------------
(* What the page shows of it. *)
HubEvent == [id : Nat, type : {"begin", "end"}]
LastEvent(s) == s[Len(s)]

WebTypes ==
  /\ hub = [events |-> hub.events, last |-> hub.last]
  /\ hub.last \in Nat
  /\ hub.events \in Seq(HubEvent)
  /\ browser = [pc |-> browser.pc, queue |-> browser.queue, after |-> browser.after,
                running |-> browser.running, view |-> browser.view]
  /\ browser.pc \in {"off", "snapshot", "on"}
  /\ browser.queue \in Seq(HubEvent)
  /\ browser.after \in Nat
  /\ browser.running \in BOOLEAN
  /\ browser.view \in BOOLEAN

(* The events kept have consecutive numbers. *)
Numbered == \A i \in DOMAIN hub.events : hub.events[i].id + Len(hub.events) = hub.last + i

(* What a "begin" stands for, until an "end" follows it. *)
Busy ==
  \/ HasControl \/ waiters # {}
  \/ compact.pc \in {"begun", "loaded", "halved", "written"}
  \/ dream \in {"begun", "running"}
Justified == misled \/ Busy

Places ==
  /\ active.pc = "none" => waiters = {} /\ active.msg = 0
  /\ misled \in BOOLEAN
  /\ compact.pc \in {"none", "begun", "loaded", "halved", "written", "ended"}
  /\ dream \in {"none", "begun", "running", "ended"}

(* The last event says whether something is under way; a browser that is     *)
(* connected has it as its last, one that reads a snapshot knows as much.    *)
LastTells == hub.events # <<>> /\ LastEvent(hub.events).type # "end" => Justified
QueueTells == browser.queue # <<>> => hub.events # <<>> /\ LastEvent(browser.queue) = LastEvent(hub.events)
PageTells == browser.queue = <<>> /\ browser.running => Justified
ViewTells == browser.pc = "snapshot" /\ browser.view => Justified
Rests == browser.pc # "on" => browser.queue = <<>> /\ ~browser.running

PageInv ==
  /\ WebTypes
  /\ Numbered
  /\ Places
  /\ LastTells
  /\ QueueTells
  /\ PageTells
  /\ ViewTells
  /\ Rests

-----------------------------------------------------------------------------
(* An event is appended to what is kept, and what is kept is never empty.    *)
LEMMA KeepLast ==
  ASSUME NEW s \in Seq(HubEvent), NEW e \in HubEvent
  PROVE  /\ Kept(Append(s, e)) \in Seq(HubEvent)
         /\ Kept(Append(s, e)) # <<>>
         /\ LastEvent(Kept(Append(s, e))) = e
<1> DEFINE t == Append(s, e)
<1>1. t \in Seq(HubEvent) /\ Len(t) = Len(s) + 1 /\ Len(s) \in Nat /\ t[Len(t)] = e
  OBVIOUS
<1>2. CASE Len(t) > BufferSize
  <2>1. Len(t) > 1 /\ t # <<>>
    BY <1>1, <1>2, WebAssumption
  <2>2. /\ Tail(t) \in Seq(HubEvent) /\ Len(Tail(t)) = Len(t) - 1
        /\ \A i \in 1..(Len(t) - 1) : Tail(t)[i] = t[i + 1]
    BY <1>1, <2>1, HeadTailProperties
  <2>3. Tail(t) # <<>> /\ LastEvent(Tail(t)) = e
    BY <1>1, <2>1, <2>2 DEF LastEvent
  <2> QED
    BY <1>2, <2>2, <2>3 DEF Kept
<1>3. CASE ~ (Len(t) > BufferSize)
  BY <1>1, <1>3 DEF Kept, LastEvent
<1> QED
  BY <1>2, <1>3

LEMMA AppendEvent ==
  ASSUME NEW s \in Seq(HubEvent), NEW e \in HubEvent
  PROVE  /\ Append(s, e) \in Seq(HubEvent) /\ Append(s, e) # <<>>
         /\ Len(Append(s, e)) = Len(s) + 1 /\ Len(s) \in Nat
         /\ \A i \in 1..(Len(s) + 1) : Append(s, e)[i] = IF i = Len(s) + 1 THEN e ELSE s[i]
         /\ \A i \in 1..Len(s) : s[i] \in HubEvent
OBVIOUS

LEMMA KeepNumbers ==
  ASSUME NEW s \in Seq(HubEvent), NEW last \in Nat, NEW e \in HubEvent, e.id = last + 1,
         \A i \in DOMAIN s : s[i].id + Len(s) = last + i
  PROVE  \A i \in DOMAIN Kept(Append(s, e)) :
            Kept(Append(s, e))[i].id + Len(Kept(Append(s, e))) = last + 1 + i
<1> DEFINE t == Append(s, e)
<1>0. /\ t \in Seq(HubEvent) /\ Len(t) = Len(s) + 1 /\ Len(s) \in Nat /\ t # <<>>
      /\ \A i \in 1..(Len(s) + 1) : t[i] = IF i = Len(s) + 1 THEN e ELSE s[i]
      /\ \A i \in 1..Len(s) : s[i] \in HubEvent
  BY AppendEvent
<1>. HIDE DEF t
<1>1. t \in Seq(HubEvent) /\ Len(t) = Len(s) + 1 /\ Len(s) \in Nat /\ t[Len(t)] = e /\ t # <<>>
  BY <1>0
<1>2. ASSUME NEW i \in 1..Len(t)
      PROVE  t[i].id \in Nat /\ t[i].id + Len(t) = last + 1 + i
  <2>1. CASE i = Len(t)
    BY <1>1, <2>1 DEF HubEvent
  <2>2. CASE i # Len(t)
    <3>1. i \in 1..Len(s) /\ t[i] = s[i] /\ i \in Nat
      BY <1>0, <2>2
    <3>2. s[i] \in HubEvent /\ s[i].id + Len(s) = last + i
      BY <1>0, <3>1
    <3>3. s[i].id \in Nat
      BY <3>2 DEF HubEvent
    <3>4. \A a \in Nat : a + Len(s) = last + i => a + (Len(s) + 1) = last + 1 + i
      BY <1>1, <3>1
    <3>5. s[i].id + (Len(s) + 1) = last + 1 + i
      BY <3>2, <3>3, <3>4
    <3> QED
      BY <1>1, <3>1, <3>3, <3>5
  <2> QED
    BY <2>1, <2>2
<1>3. CASE Len(t) > BufferSize
  <2>1. /\ Tail(t) \in Seq(HubEvent) /\ Len(Tail(t)) = Len(t) - 1
        /\ \A i \in 1..(Len(t) - 1) : Tail(t)[i] = t[i + 1]
    BY <1>1, HeadTailProperties
  <2>2. ASSUME NEW i \in DOMAIN Tail(t)
        PROVE  Tail(t)[i].id + Len(Tail(t)) = last + 1 + i
    <3>1. i \in 1..(Len(t) - 1) /\ i + 1 \in 1..Len(t) /\ i \in Nat
      BY <2>1, <1>1
    <3>2. t[i + 1].id \in Nat /\ t[i + 1].id + Len(t) = last + 1 + (i + 1)
      BY <3>1, <1>2
    <3>3. Tail(t)[i] = t[i + 1]
      BY <2>1, <3>1
    <3>0. Len(t) \in Nat
      BY <1>1
    <3>4. \A a, n \in Nat : a + n = last + 1 + (i + 1) => a + (n - 1) = last + 1 + i
      BY <3>1
    <3>5. t[i + 1].id + (Len(t) - 1) = last + 1 + i
      BY <3>0, <3>2, <3>4
    <3> QED
      BY <2>1, <3>3, <3>5
  <2> QED
    BY <1>3, <2>2 DEF Kept, t
<1>4. CASE ~ (Len(t) > BufferSize)
  BY <1>1, <1>2, <1>4 DEF Kept, t
<1> QED
  BY <1>3, <1>4

(* A published event is the last one, for the hub and for a browser that     *)
(* is connected.                                                             *)
LEMMA PublishTells ==
  ASSUME PageInv, NEW type \in {"begin", "end"}, Publish(type)
  PROVE  /\ WebTypes' /\ Numbered' /\ QueueTells' /\ Rests'
         /\ hub'.events # <<>> /\ LastEvent(hub'.events).type = type
         /\ browser.pc = browser'.pc /\ browser'.pc # "snapshot"
         /\ browser'.pc = "on" => browser'.queue # <<>>
<1> DEFINE event == [id |-> hub.last + 1, type |-> type]
<1>0. WebTypes /\ Numbered /\ QueueTells /\ Rests
  BY DEF PageInv
<1>1. event \in HubEvent /\ event.id = hub.last + 1 /\ event.type = type
  BY <1>0 DEF WebTypes, HubEvent
<1>2. /\ browser.pc # "snapshot"
      /\ hub' = [events |-> Kept(Append(hub.events, event)), last |-> hub.last + 1]
      /\ browser' = IF browser.pc = "on" THEN [browser EXCEPT !.queue = Append(@, event)] ELSE browser
  BY DEF Publish, HubIsFree
<1>3. /\ hub' = [events |-> hub'.events, last |-> hub'.last]
      /\ hub'.events = Kept(Append(hub.events, event)) /\ hub'.last = hub.last + 1
  BY <1>2
<1>4. hub'.events \in Seq(HubEvent) /\ hub'.events # <<>> /\ LastEvent(hub'.events) = event
  BY <1>0, <1>1, <1>3, KeepLast DEF WebTypes
<1>5. Numbered'
  <2>1. \A i \in DOMAIN hub.events : hub.events[i].id + Len(hub.events) = hub.last + i
    BY <1>0 DEF Numbered
  <2>2. hub.events \in Seq(HubEvent) /\ hub.last \in Nat
    BY <1>0 DEF WebTypes
  <2> HIDE DEF event
  <2>3. \A i \in DOMAIN Kept(Append(hub.events, event)) :
           Kept(Append(hub.events, event))[i].id + Len(Kept(Append(hub.events, event))) = hub.last + 1 + i
    BY <1>1, <2>1, <2>2, KeepNumbers
  <2> QED
    BY <1>3, <2>3 DEF Numbered, event
<1>6. CASE browser.pc = "on"
  <2>1. browser' = [browser EXCEPT !.queue = Append(@, event)]
    BY <1>2, <1>6
  <2>2. /\ browser' = [pc |-> browser.pc, queue |-> Append(browser.queue, event), after |-> browser.after,
                       running |-> browser.running, view |-> browser.view]
    BY <1>0, <2>1 DEF WebTypes
  <2>3. /\ Append(browser.queue, event) \in Seq(HubEvent)
        /\ Append(browser.queue, event) # <<>>
        /\ LastEvent(Append(browser.queue, event)) = event
    <3>1. browser.queue \in Seq(HubEvent)
      BY <1>0 DEF WebTypes
    <3>2. /\ Append(browser.queue, event) \in Seq(HubEvent)
          /\ Len(Append(browser.queue, event)) = Len(browser.queue) + 1 /\ Len(browser.queue) \in Nat
          /\ Append(browser.queue, event)[Len(browser.queue) + 1] = event
      BY <1>1, <3>1, AppendProperties, LenProperties
    <3> QED
      BY <3>2 DEF LastEvent
  <2>4. WebTypes'
    BY <1>0, <1>3, <1>4, <2>2, <2>3 DEF WebTypes
  <2> QED
    BY <1>1, <1>2, <1>4, <1>5, <1>6, <2>2, <2>3, <2>4 DEF QueueTells, Rests
<1>7. CASE browser.pc # "on"
  <2>1. browser' = browser /\ browser.queue = <<>>
    BY <1>0, <1>2, <1>7 DEF Rests
  <2>2. WebTypes'
    BY <1>0, <1>3, <1>4, <2>1 DEF WebTypes
  <2> QED
    BY <1>0, <1>1, <1>2, <1>4, <1>5, <1>7, <2>1, <2>2 DEF QueueTells, Rests
<1> QED
  BY <1>6, <1>7

(* So a step that publishes must have something under way unless it          *)
(* publishes an end, and any other step must leave it under way.             *)
LEMMA PublishKeeps ==
  ASSUME PageInv, NEW type \in {"begin", "end"}, Publish(type),
         type = "begin" => Justified', Places'
  PROVE  PageInv'
<1>1. /\ WebTypes' /\ Numbered' /\ QueueTells' /\ Rests'
      /\ hub'.events # <<>> /\ LastEvent(hub'.events).type = type
      /\ browser.pc = browser'.pc /\ browser'.pc # "snapshot"
      /\ browser'.pc = "on" => browser'.queue # <<>>
  BY PublishTells
<1>2. LastTells' /\ ViewTells' /\ PageTells'
  BY <1>1 DEF LastTells, ViewTells, PageTells, Rests
<1> QED
  BY <1>1, <1>2 DEF PageInv

LEMMA SilentKeeps ==
  ASSUME PageInv, UNCHANGED <<hub, browser>>, Justified => Justified', Places'
  PROVE  PageInv'
<1>1. WebTypes' /\ Numbered' /\ QueueTells' /\ Rests'
  BY DEF PageInv, WebTypes, Numbered, QueueTells, Rests
<1>2. LastTells' /\ ViewTells' /\ PageTells'
  BY DEF PageInv, LastTells, ViewTells, PageTells
<1> QED
  BY <1>1, <1>2 DEF PageInv

(* The replay ends with the last event the hub has kept. *)
LEMMA ReplayTells ==
  ASSUME WebTypes, Numbered, CanReplay
  PROVE  /\ Replayed \in Seq(HubEvent)
         /\ Replayed # <<>> => hub.events # <<>> /\ LastEvent(Replayed) = LastEvent(hub.events)
<1> DEFINE s == hub.events
           m == browser.after - Head(s).id + 2
<1>1. s \in Seq(HubEvent) /\ s # <<>> /\ browser.after \in Nat /\ browser.after >= Head(s).id - 1
  BY DEF WebTypes, CanReplay
<1>. HIDE DEF s
<1>2. Head(s) \in HubEvent /\ Head(s).id \in Nat
  <2>1. Head(s) \in HubEvent
    BY <1>1, HeadTailProperties
  <2> QED
    BY <2>1 DEF HubEvent
<1>3. m \in Int /\ m >= 1 /\ Len(s) \in Nat
  BY <1>1, <1>2
<1>4. Replayed = SubSeq(s, m, Len(s))
  BY DEF Replayed, s
<1>. HIDE DEF m
<1>5. CASE m > Len(s)
  <2>1. Replayed = <<>>
    BY <1>1, <1>3, <1>4, <1>5
  <2> QED
    BY <2>1
<1>6. CASE m <= Len(s)
  <2>1. m \in 1..Len(s)
    BY <1>3, <1>6
  <2>2. /\ SubSeq(s, m, Len(s)) \in Seq(HubEvent)
        /\ Len(SubSeq(s, m, Len(s))) = Len(s) - m + 1
        /\ \A i \in 1..(Len(s) - m + 1) : SubSeq(s, m, Len(s))[i] = s[m + i - 1]
    BY <1>1, <1>3, <2>1, SubSeqProperties
  <2>3. SubSeq(s, m, Len(s))[Len(s) - m + 1] = s[Len(s)]
    BY <1>3, <2>1, <2>2
  <2> QED
    BY <1>1, <1>3, <1>4, <1>6, <2>2, <2>3 DEF LastEvent, s
<1> QED
  BY <1>3, <1>5, <1>6

-----------------------------------------------------------------------------
LEMMA PageInitInv == WebInit => PageInv
<1>1. <<>> \in Seq(HubEvent)
  OBVIOUS
<1>2. WebInit => WebTypes /\ Rests
  BY <1>1 DEF WebInit, WebTypes, Rests, EmptyHub, NoBrowser
<1>3. WebInit => LastTells /\ QueueTells /\ PageTells /\ ViewTells
  <2>1. WebInit => /\ hub.events = <<>> /\ browser.queue = <<>>
                   /\ browser.running = FALSE /\ browser.pc = "off"
    BY DEF WebInit, EmptyHub, NoBrowser
  <2> QED
    BY <2>1 DEF LastTells, QueueTells, PageTells, ViewTells
<1>5. WebInit => Places
  <2>1. WebInit => misled \in BOOLEAN
    BY DEF WebInit
  <2>2. WebInit => waiters = {} /\ active.msg = 0 /\ compact.pc = "none" /\ dream = "none"
    BY DEF WebInit, NoWebTurn, NoCompaction
  <2> QED
    BY <2>1, <2>2 DEF Places
<1>4. WebInit => Numbered
  <2>1. WebInit => hub.events = <<>>
    BY DEF WebInit, EmptyHub
  <2>2. DOMAIN <<>> = {}
    OBVIOUS
  <2> QED
    BY <2>1, <2>2 DEF Numbered
<1> QED
  BY <1>2, <1>3, <1>4, <1>5 DEF PageInv

LEMMA PageNextInv ==
  ASSUME Shapes, Shapes', PageInv, [WebNext]_webVars
  PROVE  PageInv'
<1>0. Places /\ WebTypes
  BY DEF PageInv
<1>1. CASE Send
  BY <1>0, <1>1, PublishKeeps
     DEF Send, Dispatched, Shapes, Places, Justified, Busy, HasControl, NoWebTurn
<1>2. CASE WebTurnLoads
  BY <1>0, <1>2, SilentKeeps
     DEF WebTurnLoads, Silent, Shapes, Places, Justified, Busy, HasControl
<1>3. CASE Guide
  BY <1>0, <1>3, SilentKeeps
     DEF Guide, Silent, Shapes, Places, Justified, Busy, HasControl
<1>4. CASE Stop
  <2>1. CASE HubIsFree
    BY <1>0, <1>4, <2>1, PublishKeeps
       DEF Stop, Places, Justified, Busy, HasControl
  <2>2. CASE ~HubIsFree
    BY <1>0, <1>4, <2>2, SilentKeeps
       DEF Stop, Silent, Places, Justified, Busy, HasControl
  <2> QED
    BY <2>1, <2>2
<1>5. CASE StopIsAnnounced
  <2>1. misled' \/ active.pc \notin {"none", "popped"}
    BY <1>0, <1>5 DEF StopIsAnnounced, Places
  <2> QED
    BY <1>0, <1>5, <2>1, PublishKeeps
       DEF StopIsAnnounced, Places, Justified, Busy, HasControl
<1>6. CASE WebTurnSaves
  BY <1>0, <1>6, SilentKeeps
     DEF WebTurnSaves, Silent, Shapes, Places, Justified, Busy, HasControl
<1>7. CASE WebTurnFails
  BY <1>0, <1>7, SilentKeeps
     DEF WebTurnFails, Silent, Shapes, Places, Justified, Busy, HasControl
<1>8. CASE Deliver
  BY <1>0, <1>8, PublishKeeps DEF Deliver, Shapes, Places
<1>9. CASE DeliverPending
  BY <1>0, <1>9, PublishKeeps DEF DeliverPending, Shapes, Places
<1>10. CASE RouteGoesOn
  <2>1. CASE waiters = {}
    BY <1>0, <1>10, <2>1, SilentKeeps
       DEF RouteGoesOn, Silent, NoWebTurn, Places, Justified, Busy, HasControl
  <2>2. CASE waiters # {}
    <3>1. active'.pc = "dispatched"
      BY <1>10, <2>2 DEF RouteGoesOn, Dispatched, NoWebTurn
    <3>2. misled' = misled /\ UNCHANGED <<hub, browser, compact, dream>>
      BY <1>10 DEF RouteGoesOn, Silent
    <3> QED
      BY <1>0, <3>1, <3>2, SilentKeeps DEF Places, Justified, Busy, HasControl
  <2> QED
    BY <2>1, <2>2
<1>11. CASE CompactBegins
  BY <1>0, <1>11, SilentKeeps
     DEF CompactBegins, SessionIsFree, Silent, NoCompaction, Shapes, Places, Justified, Busy, HasControl
<1>12. CASE CompactLoads
  BY <1>0, <1>12, PublishKeeps DEF CompactLoads, Places, Justified, Busy
<1>13. ASSUME NEW newest \in 0..MaxMessages, CompactSummarizes(newest)
       PROVE  PageInv'
  <2>1. compact'.pc \in {"written", "halved"}
    BY <1>13 DEF CompactSummarizes, NoCompaction, Shapes
  <2> QED
    BY <1>0, <1>13, <2>1, SilentKeeps
       DEF CompactSummarizes, Silent, Places, Justified, Busy, HasControl
<1>14. CASE CompactWritesWindow
  <2>1. compact'.pc = "written"
    BY <1>14 DEF CompactWritesWindow, NoCompaction
  <2> QED
    BY <1>0, <1>14, <2>1, SilentKeeps
       DEF CompactWritesWindow, Silent, Places, Justified, Busy, HasControl
<1>15. CASE CompactEnds
  <2>1. compact'.pc = "ended"
    BY <1>15 DEF CompactEnds, NoCompaction
  <2> QED
    BY <1>0, <1>15, <2>1, PublishKeeps DEF CompactEnds, Places
<1>16. CASE CompactFinishes
  <2>1. compact'.pc = "none"
    BY <1>16 DEF CompactFinishes, NoCompaction
  <2> QED
    BY <1>0, <1>16, <2>1, SilentKeeps
       DEF CompactFinishes, Silent, Places, Justified, Busy, HasControl
<1>17. CASE DreamBegins
  BY <1>0, <1>17, SilentKeeps DEF DreamBegins, Silent, Places, Justified, Busy, HasControl
<1>18. CASE DreamRuns
  BY <1>0, <1>18, PublishKeeps DEF DreamRuns, Places, Justified, Busy
<1>19. CASE DreamEnds
  BY <1>0, <1>19, PublishKeeps DEF DreamEnds, Places
<1>20. CASE DreamFinishes
  BY <1>0, <1>20, SilentKeeps DEF DreamFinishes, Silent, Places, Justified, Busy, HasControl
<1>21. CASE Subscribe
  <2>1. /\ UNCHANGED <<waiters, active, compact, dream, hub>>
        /\ browser.pc = "off" /\ browser.queue = <<>> /\ ~browser.running
    BY <1>21 DEF Subscribe, PageInv, Rests
  <2>2. CASE CanReplay
    <3>1. browser' = [browser EXCEPT !.pc = "on", !.queue = Replayed] /\ misled' = misled
      BY <1>21, <2>2 DEF Subscribe
    <3>2. /\ Replayed \in Seq(HubEvent)
          /\ Replayed # <<>> => hub.events # <<>> /\ LastEvent(Replayed) = LastEvent(hub.events)
      BY <2>2, ReplayTells DEF PageInv
    <3>3. browser' = [pc |-> "on", queue |-> Replayed, after |-> browser.after,
                      running |-> browser.running, view |-> browser.view]
      BY <1>0, <3>1 DEF WebTypes
    <3>4. WebTypes'
      BY <1>0, <2>1, <3>2, <3>3 DEF WebTypes
    <3>5. Numbered' /\ Places' /\ LastTells'
      BY <2>1, <3>1 DEF PageInv, Numbered, Places, LastTells, Justified, Busy, HasControl
    <3>6. QueueTells' /\ PageTells' /\ ViewTells' /\ Rests'
      BY <2>1, <3>2, <3>3 DEF QueueTells, PageTells, ViewTells, Rests
    <3> QED
      BY <3>4, <3>5, <3>6 DEF PageInv
  <2>3. CASE ~CanReplay
    <3>1. /\ browser' = [browser EXCEPT !.pc = "snapshot", !.view = Active, !.after = hub.last]
          /\ misled' = (misled \/ (Active /\ OnlyEnded))
      BY <1>21, <2>3 DEF Subscribe
    <3>2. browser' = [pc |-> "snapshot", queue |-> browser.queue, after |-> hub.last,
                      running |-> browser.running, view |-> Active]
      BY <1>0, <3>1 DEF WebTypes
    <3>3. Active \in BOOLEAN
      BY DEF Active
    <3>4. WebTypes'
      BY <1>0, <2>1, <3>2, <3>3 DEF WebTypes
    <3>5. Numbered' /\ Places' /\ LastTells'
      BY <2>1, <3>1 DEF PageInv, Numbered, Places, LastTells, Justified, Busy, HasControl
    <3>6. QueueTells' /\ PageTells' /\ Rests'
      BY <2>1, <3>2 DEF QueueTells, PageTells, Rests
    <3>7. Active /\ ~OnlyEnded => Busy'
      <4>1. compact.pc \notin {"none", "ended"} \/ dream \notin {"none", "ended"} \/ HasControl
              => Busy'
        BY <2>1, <1>0 DEF Busy, HasControl, Places
      <4> QED
        BY <4>1 DEF OnlyEnded
    <3>8. ViewTells'
      BY <3>1, <3>2, <3>7 DEF ViewTells, Justified
    <3> QED
      BY <3>4, <3>5, <3>6, <3>8 DEF PageInv
  <2> QED
    BY <2>2, <2>3
<1>22. CASE SnapshotArrives
  <2>1. /\ UNCHANGED <<waiters, active, compact, dream, hub, misled>>
        /\ browser.pc = "snapshot" /\ browser.queue = <<>>
    BY <1>22 DEF SnapshotArrives, PageInv, Rests
  <2>2. browser' = [pc |-> "on", queue |-> browser.queue, after |-> browser.after,
                    running |-> browser.view, view |-> FALSE]
    BY <1>0, <1>22 DEF WebTypes, SnapshotArrives
  <2>3. WebTypes'
    BY <1>0, <2>1, <2>2 DEF WebTypes
  <2>4. Numbered' /\ Places' /\ LastTells'
    BY <2>1 DEF PageInv, Numbered, Places, LastTells, Justified, Busy, HasControl
  <2>5. QueueTells' /\ PageTells' /\ ViewTells' /\ Rests'
    BY <2>1, <2>2 DEF PageInv, QueueTells, PageTells, ViewTells, Rests, Justified, Busy, HasControl
  <2> QED
    BY <2>3, <2>4, <2>5 DEF PageInv
<1>23. CASE Consume
  <2> DEFINE q == browser.queue
  <2>1. /\ UNCHANGED <<waiters, active, compact, dream, hub, misled>>
        /\ browser.pc = "on" /\ q # <<>>
    BY <1>23 DEF Consume
  <2>2. browser' = [pc |-> "on", queue |-> Tail(q), after |-> Head(q).id,
                    running |-> (Head(q).type # "end"), view |-> browser.view]
    BY <1>0, <1>23 DEF WebTypes, Consume
  <2>3. q \in Seq(HubEvent) /\ LastEvent(q) = LastEvent(hub.events) /\ hub.events # <<>>
    BY <1>0, <2>1 DEF WebTypes, PageInv, QueueTells
  <2>4. Head(q) \in HubEvent /\ Head(q) = q[1] /\ Tail(q) \in Seq(HubEvent) /\ Len(q) \in Nat
        /\ Len(Tail(q)) = Len(q) - 1 /\ \A i \in 1..Len(Tail(q)) : Tail(q)[i] = q[i + 1]
    BY <2>1, <2>3, HeadTailProperties
  <2> HIDE DEF q
  <2>5. Tail(q) # <<>> => LastEvent(Tail(q)) = LastEvent(q)
    <3>1. ASSUME Tail(q) # <<>>
          PROVE  Len(Tail(q)) \in 1..Len(Tail(q))
      BY <3>1, <2>4
    <3>2. ASSUME Tail(q) # <<>>
          PROVE  Tail(q)[Len(Tail(q))] = q[Len(Tail(q)) + 1]
      BY <3>1, <3>2, <2>4
    <3>3. Len(Tail(q)) + 1 = Len(q)
      BY <2>4
    <3> QED
      BY <3>2, <3>3 DEF LastEvent
  <2>6. Tail(q) = <<>> => Head(q) = LastEvent(q)
    <3>1. ASSUME Tail(q) = <<>>
          PROVE  Len(q) = 1
      <4>1. Len(<<>>) = 0
        OBVIOUS
      <4>2. Len(Tail(q)) = 0
        BY <3>1, <4>1
      <4>3. Len(q) \in Nat /\ Len(Tail(q)) = Len(q) - 1
        BY <2>4
      <4> QED
        BY <4>2, <4>3
    <3> QED
      BY <3>1, <2>4 DEF LastEvent
  <2>7. WebTypes'
    <3>1. Head(q).id \in Nat
      BY <2>4 DEF HubEvent
    <3> QED
      BY <1>0, <2>1, <2>2, <2>4, <3>1 DEF WebTypes
  <2>8. Numbered' /\ Places' /\ LastTells'
    BY <2>1 DEF PageInv, Numbered, Places, LastTells, Justified, Busy, HasControl
  <2>9. QueueTells'
    BY <2>1, <2>2, <2>3, <2>5 DEF QueueTells
  <2>10. PageTells'
    BY <2>2, <2>3, <2>6, <2>8, <2>1 DEF PageTells, LastTells
  <2>11. ViewTells' /\ Rests'
    BY <2>2 DEF ViewTells, Rests
  <2> QED
    BY <2>7, <2>8, <2>9, <2>10, <2>11 DEF PageInv
<1>24. CASE Disconnect
  <2>1. UNCHANGED <<waiters, active, compact, dream, hub, misled>>
    BY <1>24 DEF Disconnect
  <2>2. browser' = [pc |-> "off", queue |-> <<>>, after |-> browser.after, running |-> FALSE, view |-> FALSE]
    BY <1>24 DEF Disconnect, NoBrowser
  <2>3. <<>> \in Seq(HubEvent)
    OBVIOUS
  <2>4. WebTypes'
    BY <1>0, <2>1, <2>2, <2>3 DEF WebTypes
  <2>5. Numbered' /\ Places' /\ LastTells'
    BY <2>1 DEF PageInv, Numbered, Places, LastTells, Justified, Busy, HasControl
  <2>6. QueueTells' /\ PageTells' /\ ViewTells' /\ Rests'
    BY <2>2 DEF QueueTells, PageTells, ViewTells, Rests
  <2> QED
    BY <2>4, <2>5, <2>6 DEF PageInv
<1>25. CASE WebRestarts
  <2>1. waiters' = {} /\ active' = NoWebTurn /\ hub' = EmptyHub /\ misled' = FALSE
    BY <1>25 DEF WebRestarts
  <2>2. browser' = [pc |-> "off", queue |-> <<>>, after |-> browser.after, running |-> FALSE, view |-> FALSE]
    BY <1>25 DEF WebRestarts, NoBrowser
  <2>3. <<>> \in Seq(HubEvent)
    OBVIOUS
  <2>4. WebTypes'
    BY <1>0, <2>1, <2>2, <2>3 DEF WebTypes, EmptyHub
  <2>5. Places'
    BY <1>25 DEF WebRestarts, NoCompaction, Places, NoWebTurn
  <2>8. LastTells'
    BY <2>1 DEF LastTells, EmptyHub
  <2>7. Numbered'
    <3>1. hub'.events = <<>>
      BY <2>1 DEF EmptyHub
    <3>2. DOMAIN <<>> = {}
      OBVIOUS
    <3> QED
      BY <3>1, <3>2 DEF Numbered
  <2>6. QueueTells' /\ PageTells' /\ ViewTells' /\ Rests'
    BY <2>2 DEF QueueTells, PageTells, ViewTells, Rests
  <2> QED
    BY <2>4, <2>5, <2>6, <2>7, <2>8 DEF PageInv
<1>26. CASE UNCHANGED webVars
  BY <1>0, <1>26, SilentKeeps DEF webVars, Places, Justified, Busy, HasControl
<1> QED
  BY <1>1, <1>2, <1>3, <1>4, <1>5, <1>6, <1>7, <1>8, <1>9, <1>10, <1>11, <1>12, <1>13, <1>14,
     <1>15, <1>16, <1>17, <1>18, <1>19, <1>20, <1>21, <1>22, <1>23, <1>24, <1>25, <1>26 DEF WebNext

(* However a page reconnected, wherever in a publication or a snapshot, it   *)
(* shows a running task only if one is there, or if it was told of something *)
(* that was over: nothing else leaves it with a "begin" and no "end".        *)
THEOREM ClientSeesTheEndAlways == WebSpec => []ClientSeesTheEnd
<1>1. PageInv => ClientSeesTheEnd
  BY DEF PageInv, PageTells, Justified, Busy, Active, ClientSeesTheEnd
<1>2. ContextInv => Shapes
  BY DEF ContextInv
<1>3. WebInit => ContextInv /\ PageInv
  BY ContextInitInv, PageInitInv
<1>4. ContextInv /\ PageInv /\ [WebNext]_webVars => (ContextInv /\ PageInv)'
  BY <1>2, ContextNextInv, PageNextInv DEF ContextInv
<1> QED
  BY <1>1, <1>3, <1>4, PTL DEF WebSpec

-----------------------------------------------------------------------------
(* The turns of a session.                                                 *)
(* Before RUN nothing was delegated; in RUN nothing is handed over; what    *)
(* leaves RUN by an exit that a handler guards hands over what there is.    *)
HandInv ==
  /\ delegated \in BOOLEAN
  /\ turnState \in {"COMMAND", "SESSION", "BUILD"} => handed = 0 /\ ~delegated
  /\ turnState = "RUN" => handed = 0
  /\ RunHandedOver

LEMMA HandInitInv == TurnInit => HandInv
BY DEF TurnInit, HandInv, RunHandedOver

(* Every guarded exit from RUN is a finish. *)
LEMMA FinishKeeps ==
  ASSUME HandInv, turnState = "RUN", NEW content, NEW cancelled, NEW guided,
         Finish(content, cancelled, guided)
  PROVE  HandInv'
BY DEF HandInv, RunHandedOver, Finish, Leaves, HandsOver

LEMMA CheckpointKeeps ==
  ASSUME HandInv, turnState = "RUN", NEW content, NEW next, Checkpoint(content, next)
  PROVE  HandInv'
<1>1. CASE \E cancelled, guided : Finish(content, cancelled, guided)
  BY <1>1, FinishKeeps
<1>2. CASE \E guided : Finish(1, FALSE, guided)
  BY <1>2, FinishKeeps
<1>3. CASE UNCHANGED <<turnState, runVars>>
  BY <1>3 DEF HandInv, RunHandedOver, runVars
<1> QED
  BY <1>1, <1>2, <1>3 DEF Checkpoint

LEMMA HandNextInv ==
  ASSUME HandInv, [TurnNext]_turnVars
  PROVE  HandInv'
<1>1. CASE TopOfRound
  BY <1>1, CheckpointKeeps DEF TopOfRound
<1>2. CASE ModelAnswers
  <2>1. CASE \E content, cancelled : Finish(content, cancelled, turn.guided)
    BY <1>2, <2>1, FinishKeeps DEF ModelAnswers
  <2>2. CASE UNCHANGED <<turnState, turn, runVars>>
    BY <1>2, <2>2 DEF HandInv, RunHandedOver, runVars
  <2> QED
    BY <1>2, <2>1, <2>2 DEF ModelAnswers
<1>3. CASE BottomOfRound
  BY <1>3, CheckpointKeeps DEF BottomOfRound
<1>4. CASE SummaryEnds
  BY <1>4, FinishKeeps DEF SummaryEnds
<1>5. CASE CallTimesOut
  BY <1>5, FinishKeeps DEF CallTimesOut, AtCall
<1> USE DEF HandInv, RunHandedOver, runVars
<1>6. CASE StartsTurn
  BY <1>6 DEF StartsTurn
<1>7. CASE HandlesCommand
  BY <1>7 DEF HandlesCommand
<1>8. CASE LoadsSession
  BY <1>8 DEF LoadsSession
<1>9. CASE BuildsContext
  BY <1>9 DEF BuildsContext
<1>10. CASE StopRequested
  BY <1>10 DEF StopRequested
<1>11. CASE GuidanceArrives
  BY <1>11 DEF GuidanceArrives
<1>12. CASE DeadlinePasses
  BY <1>12 DEF DeadlinePasses
<1>13. CASE ToolsEnd
  BY <1>13 DEF ToolsEnd
<1>14. ASSUME NEW next \in {"RESPOND", "idle"}, CallFails(next)
       PROVE  HandInv'
  <2>1. /\ turnState = "RUN" /\ turnState' = next /\ UNCHANGED unguarded
        /\ delegated' \in (IF loop.at = "tools" THEN {delegated, TRUE} ELSE {delegated})
        /\ handed' = IF delegated' THEN handed + 1 ELSE handed
    BY <1>14 DEF CallFails, AtCall, Leaves, HandsOver
  <2>2. delegated' = delegated \/ delegated' = TRUE
    BY <2>1
  <2>3. delegated' \in BOOLEAN
    BY <2>2
  <2> QED
    BY <1>14, <2>1, <2>3
<1>15. ASSUME NEW next \in {"RESPOND", "idle"}, UnguardedCallFails(next)
       PROVE  HandInv'
  BY <1>15 DEF UnguardedCallFails, Leaves
<1>16. ASSUME NEW next \in {"RESPOND", "idle"}, CompactFails(next)
       PROVE  HandInv'
  BY <1>16 DEF CompactFails
<1>17. ASSUME NEW next \in {"RESPOND", "idle"}, SaveFails(next)
       PROVE  HandInv'
  BY <1>17 DEF SaveFails
<1>18. CASE Compacts
  BY <1>18 DEF Compacts
<1>19. CASE Saves
  BY <1>19 DEF Saves
<1>20. CASE Responds
  BY <1>20 DEF Responds
<1>21. CASE TurnCrashes
  BY <1>21 DEF TurnCrashes, Leaves
<1>22. CASE UNCHANGED turnVars
  BY <1>22 DEF turnVars
<1> QED
  BY <1>1, <1>2, <1>3, <1>4, <1>5, <1>6, <1>7, <1>8, <1>9, <1>10, <1>11, <1>12, <1>13, <1>14,
     <1>15, <1>16, <1>17, <1>18, <1>19, <1>20, <1>21, <1>22 DEF TurnNext

(* A turn that delegated tells the coordinator its end exactly once, by     *)
(* whichever of the guarded exits it leaves RUN.                            *)
THEOREM RunHandedOverAlways == TurnSpec => []RunHandedOver
<1>1. HandInv => RunHandedOver
  BY DEF HandInv
<1> QED
  BY <1>1, HandInitInv, HandNextInv, PTL DEF TurnSpec

-----------------------------------------------------------------------------
(* What the model goes on knowing.                                         *)
Msg == [turn : Nat, role : {"user", "assistant"}, size : Nat, part : Nat]
InContext(s) == s.summary \union Range(SessionHistory(s))

MemoryTypes ==
  /\ turnState \in {"idle", "COMMAND", "SESSION", "BUILD", "RUN", "COMPACT", "SAVE", "RESPOND"}
  /\ turn.n \in Nat
  /\ turnState # "idle" =>
       /\ turn = [n |-> turn.n, summary |-> turn.summary, window |-> turn.window,
                  reloaded |-> turn.reloaded, guided |-> turn.guided, content |-> turn.content, cancelled |-> turn.cancelled]
       /\ turn.content \in Nat
       /\ turn.window \in Seq(Msg)
       /\ turn.summary \subseteq Msg
  /\ store = [messages |-> store.messages, summary |-> store.summary, window |-> store.window]
  /\ store.messages \in Seq(Msg)
  /\ store.summary \subseteq Msg
  /\ store.window \in Seq(Msg)

(* What is stored is of earlier turns, as long as this one may still save. *)
Earlier ==
  \A m \in Range(store.messages) \union store.summary \union Range(store.window) :
     /\ m.turn <= turn.n
     /\ turnState \notin {"idle", "RESPOND"} => m.turn < turn.n

(* messages.jsonl is in the context but for what an interrupted SAVE or an  *)
(* uneven turn cost, and there is a snapshot unless every SAVE so far was   *)
(* interrupted.                                                             *)
Outdated(m) == \E t \in uneven : m.turn < t

Known ==
  /\ \A m \in Range(store.messages) : m.turn \notin interrupted => m \in InContext(store) \/ Outdated(m)
  /\ store.window = <<>> /\ store.summary = {} =>
       \A m \in Range(store.messages) : m.turn \in interrupted

(* The turn works on what is stored, and has all of it that is not lost,    *)
(* and its own messages, when it saves.                                     *)
Loaded ==
  turnState \in {"BUILD", "RUN", "COMPACT"} =>
     turn.summary = store.summary /\ turn.window = SessionHistory(store)
Covers ==
  turnState = "SAVE" =>
     /\ store.summary \subseteq turn.summary
     /\ Range(NewMessages) \subseteq turn.summary \union Range(turn.window)
     /\ \A m \in InContext(store) : m \in turn.summary \union Range(turn.window) \/ Outdated(m)
     /\ \A m \in turn.summary \union Range(turn.window) : m.turn <= turn.n

(* No message is in the context twice. *)
Once ==
  interrupted = {} =>
     /\ store.summary \intersect Range(SessionHistory(store)) = {}
     /\ IsInjective(SessionHistory(store))
     /\ turnState = "SAVE" =>
          turn.summary \intersect Range(turn.window) = {} /\ IsInjective(turn.window)

MemoryInv ==
  /\ MemoryTypes
  /\ Earlier
  /\ Known
  /\ Loaded
  /\ Covers
  /\ Once

-----------------------------------------------------------------------------
(* The places themselves are counted by their rank: AtPlaces is a sequence  *)
(* of what is at the places, each once.                                     *)
LEMMA RankCounts ==
  ASSUME NEW n \in Nat, NEW P \in SUBSET (1..n)
  PROVE  /\ Cardinality(P) \in Nat
         /\ \A i \in P : Cardinality({j \in P : j <= i}) \in 1..Cardinality(P)
         /\ \A i, k \in P : Cardinality({j \in P : j <= i}) = Cardinality({j \in P : j <= k}) => i = k
         /\ \A r \in 1..Cardinality(P) : \E i \in P : Cardinality({j \in P : j <= i}) = r
<1> DEFINE Below(i) == {j \in P : j <= i}
           rank == [i \in P |-> Cardinality(Below(i))]
<1>1. IsFiniteSet(P) /\ Cardinality(P) \in Nat
  <2>1. IsFiniteSet(1..n)
    BY FS_Interval
  <2>2. IsFiniteSet(P)
    BY <2>1, FS_Subset
  <2> QED
    BY <2>2, FS_CardinalityType
<1>0. \A i \in P : i \in Int
  OBVIOUS
<1>2. ASSUME NEW i \in P
      PROVE  /\ IsFiniteSet(Below(i)) /\ i \in Below(i)
             /\ Cardinality(Below(i)) \in Nat /\ Cardinality(Below(i)) \in 1..Cardinality(P)
  <2>1. Below(i) \in SUBSET P /\ i \in Below(i)
    OBVIOUS
  <2>2. IsFiniteSet(Below(i)) /\ Cardinality(Below(i)) <= Cardinality(P)
    BY <1>1, <2>1, FS_Subset
  <2>3. Cardinality(Below(i)) \in Nat
    BY <2>2, FS_CardinalityType
  <2>4. Cardinality(Below(i)) # 0
    BY <2>1, <2>2, FS_EmptySet
  <2> HIDE DEF Below
  <2> QED
    BY <1>1, <2>1, <2>2, <2>3, <2>4
<1>3. ASSUME NEW i \in P, NEW k \in P, i < k
      PROVE  Cardinality(Below(i)) # Cardinality(Below(k))
  <2>1. Below(i) \in SUBSET Below(k) /\ k \notin Below(i)
    <3>1. \A j \in P : j <= i => j <= k
      BY <1>0, <1>3
    <3>2. ~ (k <= i)
      BY <1>0, <1>3
    <3> QED
      BY <3>1, <3>2
  <2>2. IsFiniteSet(Below(k)) /\ k \in Below(k)
    BY <1>2
  <2> HIDE DEF Below
  <2>3. Cardinality(Below(k)) = Cardinality(Below(i)) => Below(k) = Below(i)
    BY <2>1, <2>2, FS_Subset
  <2> QED
    BY <2>1, <2>2, <2>3
<1>4. ASSUME NEW i \in P, NEW k \in P, Cardinality(Below(i)) = Cardinality(Below(k))
      PROVE  i = k
  <2>1. i < k \/ k < i \/ i = k
    OBVIOUS
  <2> QED
    BY <1>3, <1>4, <2>1
<1>5. rank \in Injection(P, 1..Cardinality(P))
  <2> HIDE DEF Below
  <2>1. \A i \in P : rank[i] = Cardinality(Below(i))
    OBVIOUS
  <2>2. rank \in [P -> 1..Cardinality(P)]
    BY <1>2
  <2> HIDE DEF rank
  <2>3. \A i, k \in P : rank[i] = rank[k] => i = k
    BY <1>4, <2>1
  <2> QED
    BY <2>2, <2>3 DEF Injection, IsInjective
<1>6. IsFiniteSet(1..Cardinality(P)) /\ Cardinality(1..Cardinality(P)) = Cardinality(P)
  BY <1>1, FS_Interval
<1>7. rank \in Surjection(P, 1..Cardinality(P))
  <2> HIDE DEF rank
  <2> QED
    BY <1>5, <1>6, FS_Injection
<1>8. \A r \in 1..Cardinality(P) : \E i \in P : rank[i] = r
  <2> HIDE DEF rank
  <2> QED
    BY <1>7 DEF Surjection
<1>9. \A r \in 1..Cardinality(P) : \E i \in P : Cardinality(Below(i)) = r
  BY <1>8
<1> QED
  BY <1>1, <1>2, <1>4, <1>9

LEMMA PlacesOnce ==
  ASSUME NEW S, NEW h \in Seq(S), NEW P \in SUBSET (1..Len(h))
  PROVE  /\ AtPlaces(h, P) \in Seq(S)
         /\ Range(AtPlaces(h, P)) = {h[i] : i \in P}
         /\ IsInjective(h) => IsInjective(AtPlaces(h, P))
<1> DEFINE rank(i) == Cardinality({j \in P : j <= i})
           n == Cardinality(P)
           at(k) == CHOOSE i \in P : rank(i) = k
           w == [k \in 1..n |-> h[at(k)]]
<1>0. Len(h) \in Nat /\ DOMAIN h = 1..Len(h)
  OBVIOUS
<1>1. /\ n \in Nat
      /\ \A i \in P : rank(i) \in 1..n
      /\ \A i, k \in P : rank(i) = rank(k) => i = k
      /\ \A r \in 1..n : \E i \in P : rank(i) = r
  BY <1>0, RankCounts
<1>2. AtPlaces(h, P) = w
  BY DEF AtPlaces
<1> HIDE DEF rank, n
<1>3. \A k \in 1..n : at(k) \in P /\ rank(at(k)) = k
  BY <1>1
<1>4. \A i \in P : at(rank(i)) = i
  BY <1>1, <1>3
<1> HIDE DEF at
<1>5. DOMAIN w = 1..n /\ \A k \in 1..n : w[k] = h[at(k)]
  OBVIOUS
<1>6. w \in Seq(S)
  <2>1. \A k \in 1..n : h[at(k)] \in S
    <3>1. \A k \in 1..n : at(k) \in 1..Len(h)
      BY <1>3
    <3>2. \A i \in 1..Len(h) : h[i] \in S
      OBVIOUS
    <3> QED
      BY <3>1, <3>2
  <2>2. w \in [1..n -> S]
    BY <2>1
  <2> QED
    BY <1>1, <2>2
<1> HIDE DEF w
<1>7. Range(w) = {h[i] : i \in P}
  <2>1. ASSUME NEW i \in P
        PROVE  h[i] \in Range(w)
    <3>1. rank(i) \in DOMAIN w /\ w[rank(i)] = h[i]
      BY <1>1, <1>4, <1>5
    <3> QED
      BY <3>1 DEF Range
  <2>2. ASSUME NEW k \in DOMAIN w
        PROVE  w[k] \in {h[i] : i \in P}
    BY <1>3, <1>5
  <2> QED
    BY <2>1, <2>2 DEF Range
<1>8. ASSUME IsInjective(h)
      PROVE  IsInjective(w)
  <2>1. ASSUME NEW a \in DOMAIN w, NEW b \in DOMAIN w, w[a] = w[b]
        PROVE  a = b
    <3>1. at(a) \in DOMAIN h /\ at(b) \in DOMAIN h /\ h[at(a)] = h[at(b)]
      BY <1>0, <1>3, <1>5, <2>1
    <3>2. at(a) = at(b)
      BY <1>8, <3>1 DEF IsInjective
    <3> QED
      BY <1>3, <1>5, <3>2
  <2> QED
    BY <2>1 DEF IsInjective
<1> QED
  BY <1>2, <1>6, <1>7, <1>8

LEMMA ConcatRange ==
  ASSUME NEW S, NEW s \in Seq(S), NEW t \in Seq(S)
  PROVE  /\ s \o t \in Seq(S)
         /\ Range(s \o t) = Range(s) \union Range(t)
         /\ IsInjective(s) /\ IsInjective(t) /\ Range(s) \intersect Range(t) = {} => IsInjective(s \o t)
<1> DEFINE u == s \o t
<1>1. /\ u \in Seq(S) /\ DOMAIN s = 1..Len(s) /\ DOMAIN t = 1..Len(t) /\ DOMAIN u = 1..(Len(s) + Len(t))
      /\ Len(s) \in Nat /\ Len(t) \in Nat
      /\ \A i \in 1..(Len(s) + Len(t)) : u[i] = IF i <= Len(s) THEN s[i] ELSE t[i - Len(s)]
  BY ConcatProperties
<1> HIDE DEF u
<1>2. ASSUME NEW i \in DOMAIN u
      PROVE  \/ i \in DOMAIN s /\ u[i] = s[i]
             \/ i - Len(s) \in DOMAIN t /\ u[i] = t[i - Len(s)]
  BY <1>1
<1>3. \A i \in DOMAIN s : i \in DOMAIN u /\ u[i] = s[i]
  BY <1>1
<1>4. \A i \in DOMAIN t : i + Len(s) \in DOMAIN u /\ u[i + Len(s)] = t[i]
  BY <1>1
<1>5. Range(u) = Range(s) \union Range(t)
  BY <1>2, <1>3, <1>4 DEF Range
<1>6. ASSUME IsInjective(s), IsInjective(t), Range(s) \intersect Range(t) = {},
             NEW a \in DOMAIN u, NEW b \in DOMAIN u, u[a] = u[b]
      PROVE  a = b
  <2>1. \A i \in DOMAIN s, k \in DOMAIN t : s[i] # t[k]
    BY <1>6 DEF Range
  <2>2. \A i, k \in DOMAIN s : s[i] = s[k] => i = k
    BY <1>6 DEF IsInjective
  <2>3. \A i, k \in DOMAIN t : t[i] = t[k] => i = k
    BY <1>6 DEF IsInjective
  <2>4. CASE a \in DOMAIN s /\ u[a] = s[a]
    BY <1>2, <1>6, <2>1, <2>2, <2>4
  <2>5. CASE a - Len(s) \in DOMAIN t /\ u[a] = t[a - Len(s)]
    <3>1. b - Len(s) \in DOMAIN t /\ a - Len(s) = b - Len(s)
      BY <1>2, <1>6, <2>1, <2>3, <2>5
    <3> QED
      BY <1>1, <3>1
  <2> QED
    BY <1>2, <2>4, <2>5
<1>7. IsInjective(s) /\ IsInjective(t) /\ Range(s) \intersect Range(t) = {} => IsInjective(u)
  BY <1>6 DEF IsInjective
<1> QED
  BY <1>1, <1>5, <1>7 DEF u

LEMMA NothingIn ==
  /\ <<>> \in Seq(Msg)
  /\ Range(<<>>) = {}
  /\ IsInjective(<<>>)
  /\ \A s \in Seq(Msg) : Range(s) = {} => s = <<>>
<1>1. DOMAIN <<>> = {} /\ <<>> \in Seq(Msg)
  OBVIOUS
<1>2. ASSUME NEW s \in Seq(Msg), Range(s) = {}
      PROVE  s = <<>>
  <2>1. DOMAIN s = {}
    BY <1>2 DEF Range
  <2> QED
    BY <2>1
<1> QED
  BY <1>1, <1>2 DEF Range, IsInjective

(* The messages of a turn: they are of this turn, and each is there once.   *)
LEMMA NewMessagesFacts ==
  ASSUME turn.n \in Nat, turn.content \in Nat
  PROVE  /\ NewMessages \in Seq(Msg) /\ NewMessages # <<>> /\ Len(NewMessages) \in Nat
         /\ Range(NewMessages) # {}
         /\ \A m \in Range(NewMessages) : m.turn = turn.n
         /\ IsInjective(NewMessages)
<1> DEFINE a == Message("user", 1, 1)
           b == Message("user", 1, 2)
           c == Message("assistant", turn.content, 3)
<1>1. /\ a \in Msg /\ b \in Msg /\ c \in Msg
      /\ a.turn = turn.n /\ b.turn = turn.n /\ c.turn = turn.n
      /\ a.part = 1 /\ b.part = 2 /\ c.part = 3
  BY DEF Message, Msg
<1>2. \/ NewMessages = <<a>> \o <<>> \o <<>>
      \/ NewMessages = <<a>> \o <<b>> \o <<>>
      \/ NewMessages = <<a>> \o <<>> \o <<c>>
      \/ NewMessages = <<a>> \o <<b>> \o <<c>>
  BY DEF NewMessages
<1> HIDE DEF a, b, c
<1>3. \A m \in Msg : <<m>> \in Seq(Msg) /\ Range(<<m>>) = {m} /\ IsInjective(<<m>>)
  <2>1. ASSUME NEW m \in Msg
        PROVE  <<m>> \in Seq(Msg) /\ DOMAIN <<m>> = {1} /\ <<m>>[1] = m
    OBVIOUS
  <2> QED
    BY <2>1 DEF Range, IsInjective
<1>4. a # b /\ a # c /\ b # c
  BY <1>1
<1>5. PICK x \in {<<>>, <<b>>}, y \in {<<>>, <<c>>} : NewMessages = (<<a>> \o x) \o y
  BY <1>2
<1>6. /\ x \in Seq(Msg) /\ Range(x) \subseteq {b} /\ IsInjective(x)
      /\ y \in Seq(Msg) /\ Range(y) \subseteq {c} /\ IsInjective(y)
  BY <1>1, <1>3, NothingIn
<1>7. <<a>> \in Seq(Msg) /\ Range(<<a>>) = {a} /\ IsInjective(<<a>>)
  BY <1>1, <1>3
<1>8. /\ <<a>> \o x \in Seq(Msg) /\ Range(<<a>> \o x) = {a} \union Range(x)
      /\ IsInjective(<<a>> \o x)
  <2>1. Range(<<a>>) \intersect Range(x) = {}
    BY <1>4, <1>6, <1>7
  <2> DEFINE w == <<a>>
  <2> HIDE DEF w
  <2>2. w \in Seq(Msg) /\ Range(w) = {a} /\ IsInjective(w) /\ Range(w) \intersect Range(x) = {}
    BY <1>7, <2>1 DEF w
  <2>3. w \o x \in Seq(Msg) /\ Range(w \o x) = {a} \union Range(x) /\ IsInjective(w \o x)
    BY <1>6, <2>2, ConcatRange
  <2> QED
    BY <2>3 DEF w
<1>9. /\ NewMessages \in Seq(Msg) /\ Range(NewMessages) = {a} \union Range(x) \union Range(y)
      /\ IsInjective(NewMessages)
  <2> DEFINE w == <<a>> \o x
  <2> HIDE DEF w
  <2>1. w \in Seq(Msg) /\ Range(w) = {a} \union Range(x) /\ IsInjective(w)
    BY <1>8 DEF w
  <2>2. Range(w) \intersect Range(y) = {}
    BY <1>4, <1>6, <2>1
  <2>3. w \o y \in Seq(Msg) /\ Range(w \o y) = Range(w) \union Range(y) /\ IsInjective(w \o y)
    BY <1>6, <2>1, <2>2, ConcatRange
  <2> QED
    BY <1>5, <2>1, <2>3 DEF w
<1>10. NewMessages # <<>> /\ Len(NewMessages) \in Nat
  BY <1>9, NothingIn
<1> QED
  BY <1>1, <1>6, <1>9, <1>10

(* The history that is loaded is the window, or what there is of messages. *)
LEMMA HistoryFacts ==
  ASSUME NEW s, s.window \in Seq(Msg), s.messages \in Seq(Msg)
  PROVE  /\ SessionHistory(s) \in Seq(Msg)
         /\ s.window # <<>> \/ s.summary # {} => SessionHistory(s) = s.window
         /\ s.window = <<>> /\ s.summary = {} => SessionHistory(s) = s.messages
BY DEF SessionHistory, HasSnapshot

-----------------------------------------------------------------------------
LEMMA MemoryInitInv == TurnInit => MemoryInv
<1> SUFFICES ASSUME TurnInit PROVE MemoryInv
  OBVIOUS
<1>1. /\ turnState = "idle" /\ turn.n = 0 /\ interrupted = {}
      /\ store = [messages |-> <<>>, summary |-> {}, window |-> <<>>]
  BY DEF TurnInit, NoTurn, EmptyStore
<1>2. Range(store.messages) = {} /\ Range(store.window) = {} /\ SessionHistory(store) = <<>>
  BY <1>1, NothingIn DEF SessionHistory
<1>3. MemoryTypes
  BY <1>1, NothingIn DEF MemoryTypes
<1>4. Earlier /\ Known
  BY <1>1, <1>2 DEF Earlier, Known
<1>5. Loaded /\ Covers
  BY <1>1 DEF Loaded, Covers
<1>6. Once
  BY <1>1, <1>2, NothingIn DEF Once
<1> QED
  BY <1>3, <1>4, <1>5, <1>6 DEF MemoryInv

(* A step that leaves the memory of the turn and the store as they are, and *)
(* saves nothing.                                                           *)
LEMMA RestKeeps ==
  ASSUME MemoryInv, UNCHANGED <<store, interrupted, uneven>>, turn'.n = turn.n,
         \/ turnState' \in {"idle", "RESPOND"}
         \/ /\ turnState \in {"BUILD", "RUN"} /\ turnState' \in {"RUN", "COMPACT"}
            /\ turn'.summary = turn.summary /\ turn'.window = turn.window
         \/ turnState = "COMMAND" /\ turnState' = "SESSION"
         \/ /\ turnState = "SESSION" /\ turnState' = "BUILD"
            /\ turn'.summary = store.summary /\ turn'.window = SessionHistory(store),
         turnState' # "idle" =>
           /\ turn' = [n |-> turn'.n, summary |-> turn'.summary, window |-> turn'.window,
                       reloaded |-> turn'.reloaded, guided |-> turn'.guided, content |-> turn'.content, cancelled |-> turn'.cancelled]
           /\ turn'.content \in Nat /\ turn'.window \in Seq(Msg) /\ turn'.summary \subseteq Msg
  PROVE  MemoryInv'
<1>1. MemoryTypes'
  BY DEF MemoryInv, MemoryTypes
<1>2. Earlier' /\ Known'
  BY DEF MemoryInv, Earlier, Known, InContext, Outdated
<1>3. Loaded' /\ Covers'
  BY DEF MemoryInv, Loaded, Covers
<1>4. Once'
  BY DEF MemoryInv, Once
<1> QED
  BY <1>1, <1>2, <1>3, <1>4 DEF MemoryInv

(* The store is removed, by COMMAND or SESSION, or is cut off in SAVE. *)
LEMMA ClearedKeeps ==
  ASSUME MemoryInv, UNCHANGED <<interrupted, uneven>>, turn'.n = turn.n, store' = EmptyStore,
         turnState' \in {"RESPOND", "BUILD", "idle"},
         turn' = [n |-> turn'.n, summary |-> turn'.summary, window |-> turn'.window,
                  reloaded |-> turn'.reloaded, guided |-> turn'.guided, content |-> turn'.content, cancelled |-> turn'.cancelled],
         turn'.content \in Nat, turn'.window \in Seq(Msg), turn'.summary \subseteq Msg,
         turnState' = "BUILD" => turn'.summary = store'.summary /\ turn'.window = SessionHistory(store')
  PROVE  MemoryInv'
<1>1. /\ store' = [messages |-> <<>>, summary |-> {}, window |-> <<>>]
      /\ store'.messages = <<>> /\ store'.summary = {} /\ store'.window = <<>>
      /\ SessionHistory(store)' = <<>>
  BY DEF EmptyStore, SessionHistory
<1>2. Range(store.messages)' = {} /\ Range(store.window)' = {}
  BY <1>1, NothingIn
<1>3. MemoryTypes'
  BY <1>1, NothingIn DEF MemoryInv, MemoryTypes
<1>4. Earlier' /\ Known'
  BY <1>1, <1>2 DEF Earlier, Known
<1>5. Loaded' /\ Covers'
  BY DEF Loaded, Covers
<1>6. Once'
  BY <1>1, <1>2, NothingIn DEF Once
<1> QED
  BY <1>3, <1>4, <1>5, <1>6 DEF MemoryInv

(* What of a history the summary gets: nothing that the window keeps, every *)
(* message of the turn that it does not keep, and nothing of the others is  *)
(* forgotten unless the turn has a message without an answer; otherwise the *)
(* pair of the turn is in every window, and the source is all or nothing.   *)
LEMMA SourceFacts ==
  ASSUME turn.content \in Nat, turn.window \in Seq(Msg), NewMessages \in Seq(Msg),
         NEW h, h = turn.window \o NewMessages
  PROVE  LET kept == {i \in 1..Len(h) : InRecentWindow(h, i)}
             source == {i \in 1..Len(h) : ~IdIsKept(h, i)}
         IN /\ CompactSource(h) = {h[i] : i \in source}
            /\ source \subseteq (1..Len(h)) \ kept
            /\ \A i \in 1..Len(h) : i > Len(turn.window) => i \in kept \/ i \in source
            /\ CompactSource(h) # {} /\ ~(turn.reloaded /\ Unanswered) => source = (1..Len(h)) \ kept
<1> DEFINE L == Len(turn.window)
           kept == {i \in 1..Len(h) : InRecentWindow(h, i)}
           source == {i \in 1..Len(h) : ~IdIsKept(h, i)}
<1>1. /\ L \in Nat /\ Len(NewMessages) \in Nat /\ Len(h) = L + Len(NewMessages)
      /\ \A i \in 1..Len(NewMessages) : h[L + i] = NewMessages[i]
  <2>1. /\ Len(h) = L + Len(NewMessages) /\ L \in Nat /\ Len(NewMessages) \in Nat
        /\ \A i \in 1..(L + Len(NewMessages)) : h[i] = IF i <= L THEN turn.window[i] ELSE NewMessages[i - L]
    BY ConcatProperties
  <2>2. ASSUME NEW i \in 1..Len(NewMessages)
        PROVE  h[L + i] = NewMessages[i]
    <3>1. L + i \in 1..(L + Len(NewMessages)) /\ ~(L + i <= L) /\ (L + i) - L = i
      BY <2>1
    <3> QED
      BY <2>1, <3>1
  <2> QED
    BY <2>1, <2>2
<1>2. CompactSource(h) = {h[i] : i \in source}
  BY DEF CompactSource
<1>3. \A i \in kept : IdIsKept(h, i)
  BY DEF IdIsKept, SameId
<1>4. source \subseteq (1..Len(h)) \ kept
  BY <1>3
<1>5. ASSUME NEW i \in 1..Len(h), i > L, i \notin source
      PROVE  i \in kept
  <2>1. PICK k \in 1..Len(h) : InRecentWindow(h, k) /\ SameId(i, k)
    BY <1>5 DEF IdIsKept
  <2>2. ~(i <= L)
    BY <1>1, <1>5
  <2>3. k = i
    BY <2>1, <2>2 DEF SameId
  <2> QED
    BY <2>1, <2>3
<1>6. ASSUME \A k \in kept : turn.reloaded => k > L
      PROVE  source = (1..Len(h)) \ kept
  <2>1. ASSUME NEW i \in 1..Len(h), i \notin source
        PROVE  i \in kept
    <3>1. PICK k \in 1..Len(h) : InRecentWindow(h, k) /\ SameId(i, k)
      BY <2>1 DEF IdIsKept
    <3>2. turn.reloaded => ~(k <= L)
      BY <1>1, <1>6, <3>1
    <3>3. k = i
      BY <3>1, <3>2 DEF SameId
    <3> QED
      BY <3>1, <3>3
  <2> QED
    BY <1>4, <2>1
<1>7. ASSUME turn.reloaded, ~Unanswered, NEW k \in kept, ~(k > L)
      PROVE  source = {}
  <2>1. NewMessages = <<Message("user", 1, 1)>> \o <<>> \o <<Message("assistant", turn.content, 3)>>
    BY <1>7 DEF Unanswered, NewMessages
  <2>2. /\ Len(NewMessages) = 2
        /\ NewMessages[1].role = "user" /\ NewMessages[2].role = "assistant"
    BY <2>1 DEF Message
  <2>3. /\ Len(h) = L + 2 /\ h[L + 1].role = "user" /\ h[L + 2].role = "assistant"
    BY <1>1, <2>2
  <2>4. L + 1 \in PairsOf(h) /\ PairsOf(h) \subseteq 1..(L + 1)
    <3>1. L + 1 \in 1..(Len(h) - 1) /\ (L + 1) + 1 = L + 2 /\ Len(h) - 1 = L + 1
      BY <1>1, <2>3
    <3> QED
      BY <2>3, <3>1 DEF PairsOf
  <2>5. PICK p \in PairsOf(h) : /\ k = p \/ k = p + 1
                                /\ \A q \in PairsOf(h) : q >= p => PairTokens(h, q) <= RecentLimit
    BY <1>7 DEF InRecentWindow
  <2>6. p \in 1..(L + 1) /\ L + 1 >= p
    BY <1>1, <1>7, <2>4, <2>5
  <2>7. \A q \in PairsOf(h) : q >= L + 1 => q >= p
    BY <1>1, <2>4, <2>6
  <2>8. L + 1 \in kept /\ L + 2 \in kept
    <3>1. \A q \in PairsOf(h) : q >= L + 1 => PairTokens(h, q) <= RecentLimit
      BY <2>5, <2>7
    <3>2. L + 1 \in 1..Len(h) /\ L + 2 \in 1..Len(h) /\ L + 2 = (L + 1) + 1
      BY <1>1, <2>3
    <3>3. ASSUME NEW i, i = L + 1 \/ i = (L + 1) + 1
          PROVE  InRecentWindow(h, i)
      <4> DEFINE own == L + 1
      <4>1. own \in PairsOf(h) /\ \A q \in PairsOf(h) : q >= own => PairTokens(h, q) <= RecentLimit
        BY <2>4, <3>1
      <4>2. i = own \/ i = own + 1
        BY <3>3
      <4> HIDE DEF own
      <4> QED
        BY <4>1, <4>2 DEF InRecentWindow
    <3> QED
      BY <3>2, <3>3
  <2>9. ASSUME NEW i \in 1..Len(h)
        PROVE  IdIsKept(h, i)
    <3>1. i <= L \/ i = L + 1 \/ i = L + 2
      <4>1. L \in Nat /\ Len(h) = L + 2 /\ i \in 1..Len(h)
        BY <1>1, <2>3
      <4> HIDE DEF L
      <4> QED
        BY <4>1
    <3>2. CASE i <= L
      <4>1. k <= L /\ k \in 1..Len(h) /\ InRecentWindow(h, k)
        BY <1>1, <1>7
      <4> QED
        BY <1>7, <3>2, <4>1 DEF IdIsKept, SameId
    <3>3. CASE i \in kept
      BY <1>3, <3>3
    <3> QED
      BY <2>8, <3>1, <3>2, <3>3
  <2> QED
    BY <2>9
<1>8. ASSUME CompactSource(h) # {}, ~(turn.reloaded /\ Unanswered)
      PROVE  source = (1..Len(h)) \ kept
  <2>1. source # {}
    BY <1>2, <1>8
  <2>2. \A k \in kept : turn.reloaded => k > L
    BY <1>7, <1>8, <2>1
  <2> QED
    BY <1>6, <2>2
<1> QED
  BY <1>2, <1>4, <1>5, <1>8

(* COMPACT: of the history only what is older than an uneven turn can be    *)
(* lost, whichever messages the limits choose, and what the summary gets is *)
(* not in the window.                                                       *)
LEMMA CompactsKeeps ==
  ASSUME MemoryInv, Compacts
  PROVE  MemoryInv'
<1> DEFINE h == turn.window \o NewMessages
           kept == {i \in 1..Len(h) : InRecentWindow(h, i)}
           source == {i \in 1..Len(h) : ~IdIsKept(h, i)}
<1>0. /\ MemoryTypes /\ Earlier /\ Known /\ Loaded /\ Covers /\ Once
      /\ turnState = "COMPACT" /\ turnState' = "SAVE" /\ UNCHANGED <<store, interrupted>>
      /\ \/ /\ CompactSource(h) # {}
            /\ turn' = [turn EXCEPT !.summary = @ \union CompactSource(h), !.window = RecentWindow(h)]
            /\ uneven' = IF turn.reloaded /\ Unanswered THEN uneven \union {turn.n} ELSE uneven
         \/ turn' = [turn EXCEPT !.window = h] /\ uneven' = uneven
  BY DEF MemoryInv, Compacts, VirtualHistory
<1>1. /\ turn = [n |-> turn.n, summary |-> turn.summary, window |-> turn.window,
                 reloaded |-> turn.reloaded, guided |-> turn.guided, content |-> turn.content, cancelled |-> turn.cancelled]
      /\ turn.n \in Nat /\ turn.content \in Nat /\ turn.window \in Seq(Msg) /\ turn.summary \subseteq Msg
      /\ turn.summary = store.summary /\ turn.window = SessionHistory(store)
  BY <1>0 DEF MemoryTypes, Loaded
<1>2. /\ NewMessages \in Seq(Msg)
      /\ \A m \in Range(NewMessages) : m.turn = turn.n
      /\ IsInjective(NewMessages)
  BY <1>1, NewMessagesFacts
<1>3. \A m \in turn.summary \union Range(turn.window) : m.turn < turn.n /\ m.turn # turn.n /\ m.turn <= turn.n
  <2>1. turn.window = store.window \/ turn.window = store.messages
    BY <1>1 DEF SessionHistory
  <2>2. turn.n \in Nat
    BY <1>1
  <2>3. \A m \in turn.summary \union Range(turn.window) : m.turn < turn.n
    BY <1>0, <1>1, <2>1 DEF Earlier
  <2>4. \A m \in turn.summary \union Range(turn.window) : m \in Msg
    BY <1>1 DEF Range
  <2>5. \A m \in Msg : m.turn \in Nat
    BY DEF Msg
  <2> QED
    BY <2>2, <2>3, <2>4, <2>5
<1>4. turn.summary \intersect Range(NewMessages) = {} /\ Range(turn.window) \intersect Range(NewMessages) = {}
  BY <1>2, <1>3
<1>5. /\ h \in Seq(Msg) /\ Range(h) = Range(turn.window) \union Range(NewMessages)
      /\ IsInjective(turn.window) => IsInjective(h)
  BY <1>1, <1>2, <1>4, ConcatRange
<1>6. interrupted = {} => turn.summary \intersect Range(h) = {} /\ IsInjective(h)
  BY <1>0, <1>1, <1>4, <1>5 DEF Once
<1>7. NewMessages' = NewMessages /\ turn'.n = turn.n
  BY <1>0, <1>1 DEF NewMessages, Message
<1>s. /\ CompactSource(h) = {h[i] : i \in source}
      /\ source \subseteq (1..Len(h)) \ kept
      /\ \A i \in 1..Len(h) : i > Len(turn.window) => i \in kept \/ i \in source
      /\ CompactSource(h) # {} /\ ~(turn.reloaded /\ Unanswered) => source = (1..Len(h)) \ kept
  BY <1>1, <1>2, SourceFacts
(* The messages of the turn are the last ones. *)
<1>n. ASSUME NEW m \in Range(NewMessages)
      PROVE  \E i \in 1..Len(h) : i > Len(turn.window) /\ m = h[i]
  <2>1. /\ Len(h) = Len(turn.window) + Len(NewMessages)
        /\ Len(turn.window) \in Nat /\ Len(NewMessages) \in Nat /\ DOMAIN NewMessages = 1..Len(NewMessages)
        /\ \A i \in 1..(Len(turn.window) + Len(NewMessages)) :
              h[i] = IF i <= Len(turn.window) THEN turn.window[i] ELSE NewMessages[i - Len(turn.window)]
    BY <1>1, <1>2, ConcatProperties
  <2>2. PICK j \in 1..Len(NewMessages) : m = NewMessages[j]
    BY <1>n, <2>1 DEF Range
  <2> DEFINE i == Len(turn.window) + j
  <2>3. i \in 1..(Len(turn.window) + Len(NewMessages)) /\ i > Len(turn.window) /\ ~(i <= Len(turn.window))
        /\ i - Len(turn.window) = j
    BY <2>1, <2>2
  <2> HIDE DEF i
  <2>4. h[i] = m
    BY <2>1, <2>2, <2>3
  <2> QED
    BY <2>1, <2>3, <2>4
<1> HIDE DEF h
<1>8. /\ RecentWindow(h) \in Seq(Msg) /\ Range(RecentWindow(h)) = {h[i] : i \in kept}
      /\ IsInjective(h) => IsInjective(RecentWindow(h))
  <2>1. RecentWindow(h) = AtPlaces(h, kept)
    BY DEF RecentWindow
  <2>2. kept \in SUBSET (1..Len(h))
    OBVIOUS
  <2> HIDE DEF kept
  <2> QED
    BY <1>5, <2>1, <2>2, PlacesOnce
<1>9. /\ kept \subseteq 1..Len(h) /\ source \subseteq 1..Len(h)
      /\ Range(h) = {h[i] : i \in 1..Len(h)} /\ Range(h) \subseteq Msg /\ DOMAIN h = 1..Len(h)
  BY <1>5 DEF Range
<1> HIDE DEF kept, source
<1>10. /\ CompactSource(h) \union Range(RecentWindow(h)) \subseteq Range(h)
       /\ Range(NewMessages) \subseteq CompactSource(h) \union Range(RecentWindow(h))
       /\ CompactSource(h) # {} /\ ~(turn.reloaded /\ Unanswered) =>
            CompactSource(h) \union Range(RecentWindow(h)) = Range(h)
       /\ IsInjective(h) => CompactSource(h) \intersect Range(RecentWindow(h)) = {}
  <2>1. ASSUME IsInjective(h), NEW i \in kept, NEW j \in source, h[i] = h[j]
        PROVE  FALSE
    BY <1>9, <1>s, <2>1 DEF IsInjective
  <2>2. CompactSource(h) \union Range(RecentWindow(h)) \subseteq Range(h)
    BY <1>8, <1>9, <1>s
  <2>3. \A m \in Range(NewMessages) : m \in CompactSource(h) \union Range(RecentWindow(h))
    BY <1>8, <1>n, <1>s
  <2>4. ASSUME CompactSource(h) # {}, ~(turn.reloaded /\ Unanswered)
        PROVE  Range(h) \subseteq CompactSource(h) \union Range(RecentWindow(h))
    BY <1>8, <1>9, <1>s, <2>4
  <2>5. IsInjective(h) => CompactSource(h) \intersect Range(RecentWindow(h)) = {}
    BY <1>8, <1>s, <2>1
  <2> QED
    BY <2>2, <2>3, <2>4, <2>5
<1>11. /\ turn' = [n |-> turn.n, summary |-> turn'.summary, window |-> turn'.window,
                   reloaded |-> turn.reloaded, guided |-> turn.guided, content |-> turn.content, cancelled |-> turn.cancelled]
       /\ \/ turn'.summary = turn.summary \union CompactSource(h) /\ turn'.window = RecentWindow(h)
          \/ turn'.summary = turn.summary /\ turn'.window = h
  BY <1>0, <1>1
<1>u. /\ uneven \subseteq uneven'
      /\ \/ turn.summary \union Range(h) \subseteq turn'.summary \union Range(turn'.window)
         \/ turn.n \in uneven'
  <2>1. CASE turn' = [turn EXCEPT !.window = h] /\ uneven' = uneven
    <3>1. turn'.summary = turn.summary /\ turn'.window = h
      BY <1>1, <2>1
    <3> QED
      BY <2>1, <3>1
  <2>2. CASE /\ CompactSource(h) # {}
             /\ turn' = [turn EXCEPT !.summary = @ \union CompactSource(h), !.window = RecentWindow(h)]
             /\ uneven' = IF turn.reloaded /\ Unanswered THEN uneven \union {turn.n} ELSE uneven
    <3>1. turn'.summary = turn.summary \union CompactSource(h) /\ turn'.window = RecentWindow(h)
      BY <1>1, <2>2
    <3>2. CASE turn.reloaded /\ Unanswered
      BY <2>2, <3>2
    <3>3. CASE ~(turn.reloaded /\ Unanswered)
      BY <1>10, <2>2, <3>1, <3>3
    <3> QED
      BY <3>2, <3>3
  <2> QED
    BY <1>0, <2>1, <2>2
<1>12. /\ turn'.window \in Seq(Msg) /\ turn'.summary \subseteq Msg
       /\ turn'.summary \union Range(turn'.window) \subseteq turn.summary \union Range(h)
       /\ Range(NewMessages) \subseteq turn'.summary \union Range(turn'.window)
       /\ turn.summary \subseteq turn'.summary
       /\ interrupted = {} => turn'.summary \intersect Range(turn'.window) = {} /\ IsInjective(turn'.window)
  BY <1>1, <1>5, <1>6, <1>8, <1>9, <1>10, <1>11
<1>13. MemoryTypes'
  BY <1>0, <1>1, <1>11, <1>12 DEF MemoryTypes
<1>14. Earlier' /\ Known' /\ Loaded'
  <2>1. \A m : Outdated(m) => Outdated(m)'
    BY <1>u DEF Outdated
  <2> QED
    BY <1>0, <1>7, <2>1 DEF Earlier, Known, InContext, Loaded
<1>15. Covers'
  <2>1. \A m \in Range(NewMessages) : m.turn <= turn.n
    BY <1>1, <1>2
  <2>2. \A m \in turn'.summary \union Range(turn'.window) : m.turn <= turn.n
    BY <1>3, <1>5, <1>12, <2>1
  <2>3. InContext(store) = turn.summary \union Range(turn.window)
    BY <1>1 DEF InContext
  <2>4. ASSUME NEW m \in InContext(store)
        PROVE  m \in turn'.summary \union Range(turn'.window) \/ Outdated(m)'
    BY <1>3, <1>5, <1>u, <2>3, <2>4 DEF Outdated
  <2>5. InContext(store)' = InContext(store) /\ store'.summary = turn.summary
    BY <1>0, <1>1 DEF InContext
  <2> QED
    BY <1>0, <1>7, <1>12, <2>2, <2>4, <2>5 DEF Covers
<1>16. Once'
  BY <1>0, <1>12 DEF Once
<1> QED
  BY <1>13, <1>14, <1>15, <1>16 DEF MemoryInv

(* SAVE, with any number of its writes: only the messages of an interrupted *)
(* turn may miss in the snapshot.                                           *)
LEMMA WritesKeeps ==
  ASSUME MemoryInv, turnState = "SAVE", turnState' \in {"RESPOND", "idle"}, UNCHANGED turn,
         NEW written, Writes(written)
  PROVE  MemoryInv'
<1> DEFINE n == Len(NewMessages)
           new == SubSeq(NewMessages, 1, IF written < n THEN written ELSE n)
<1>0. MemoryTypes /\ Earlier /\ Known /\ Covers /\ Once
  BY DEF MemoryInv
<1>1. /\ turn = [n |-> turn.n, summary |-> turn.summary, window |-> turn.window,
                 reloaded |-> turn.reloaded, guided |-> turn.guided, content |-> turn.content, cancelled |-> turn.cancelled]
      /\ turn.n \in Nat /\ turn.content \in Nat /\ turn.window \in Seq(Msg) /\ turn.summary \subseteq Msg
      /\ store.messages \in Seq(Msg) /\ store.summary \subseteq Msg /\ store.window \in Seq(Msg)
  BY <1>0 DEF MemoryTypes
<1>2. /\ NewMessages \in Seq(Msg) /\ n \in Nat /\ Range(NewMessages) # {}
      /\ \A m \in Range(NewMessages) : m.turn = turn.n
  BY <1>1, NewMessagesFacts
<1>3. /\ store.summary \subseteq turn.summary
      /\ Range(NewMessages) \subseteq turn.summary \union Range(turn.window)
      /\ \A m \in InContext(store) : m \in turn.summary \union Range(turn.window) \/ Outdated(m)
  BY <1>0 DEF Covers
<1>4. /\ written \in 0..(n + 2)
      /\ store' = [messages |-> store.messages \o new,
                   summary |-> IF written > n THEN turn.summary ELSE store.summary,
                   window |-> IF written > n + 1 THEN turn.window ELSE store.window]
      /\ interrupted' = IF written \in 1..(n + 1) THEN interrupted \union {turn.n} ELSE interrupted
      /\ uneven' = uneven
  BY DEF Writes
<1>5. new \in Seq(Msg) /\ Range(new) \subseteq Range(NewMessages)
  <2> DEFINE k == IF written < n THEN written ELSE n
  <2>1. k \in 0..n
    BY <1>2, <1>4
  <2> HIDE DEF k
  <2>2. \A i \in 1..k : NewMessages[i] \in Msg /\ i \in DOMAIN NewMessages
    BY <1>2, <2>1
  <2>3. /\ SubSeq(NewMessages, 1, k) \in Seq(Msg)
        /\ Len(SubSeq(NewMessages, 1, k)) = IF 1 <= k THEN k - 1 + 1 ELSE 0
        /\ \A i \in 1..(k - 1 + 1) : SubSeq(NewMessages, 1, k)[i] = NewMessages[1 + i - 1]
    BY <2>1, <2>2, SubSeqProperties
  <2>4. DOMAIN SubSeq(NewMessages, 1, k) = 1..k /\ \A i \in 1..k : SubSeq(NewMessages, 1, k)[i] = NewMessages[i]
    BY <2>1, <2>3
  <2>5. Range(SubSeq(NewMessages, 1, k)) \subseteq Range(NewMessages)
    BY <2>2, <2>4 DEF Range
  <2> QED
    BY <2>3, <2>5 DEF k
<1>6. written = 0 => Range(new) = {}
  <2>1. ASSUME written = 0
        PROVE  new = SubSeq(NewMessages, 1, 0)
    BY <2>1, <1>2
  <2>2. SubSeq(NewMessages, 1, 0) = <<>>
    BY SubSeqEmpty
  <2> QED
    BY <2>1, <2>2, NothingIn
<1> HIDE DEF n, new
<1>7. store.messages \o new \in Seq(Msg) /\ Range(store.messages \o new) = Range(store.messages) \union Range(new)
  BY <1>1, <1>5, ConcatRange
<1>8. /\ store' = [messages |-> store'.messages, summary |-> store'.summary, window |-> store'.window]
      /\ store'.messages \in Seq(Msg) /\ Range(store'.messages) = Range(store.messages) \union Range(new)
      /\ store'.summary = IF written > n THEN turn.summary ELSE store.summary
      /\ store'.window = IF written > n + 1 THEN turn.window ELSE store.window
  BY <1>4, <1>7
<1>9. MemoryTypes'
  BY <1>0, <1>1, <1>8 DEF MemoryTypes
<1>10. \A m \in Range(store.messages) \union store.summary \union Range(store.window) :
          m.turn < turn.n /\ m.turn <= turn.n
  BY <1>0 DEF Earlier
<1>11. \A m \in turn.summary \union Range(turn.window) : m.turn <= turn.n
  BY <1>0 DEF Covers
<1>12. Earlier'
  <2>1. \A m \in Range(NewMessages) : m.turn <= turn.n
    BY <1>1, <1>2
  <2>2. \A m \in Range(store'.messages) \union store'.summary \union Range(store'.window) : m.turn <= turn.n
    BY <1>5, <1>8, <1>10, <1>11, <2>1
  <2> QED
    BY <2>2 DEF Earlier
<1>13. SessionHistory(store) \in Seq(Msg)
       /\ (store.window # <<>> \/ store.summary # {} => SessionHistory(store) = store.window)
       /\ (store.window = <<>> /\ store.summary = {} => SessionHistory(store) = store.messages)
  BY <1>1, HistoryFacts
<1>14. SessionHistory(store') \in Seq(Msg)
       /\ (store'.window # <<>> \/ store'.summary # {} => SessionHistory(store') = store'.window)
       /\ (store'.window = <<>> /\ store'.summary = {} => SessionHistory(store') = store'.messages)
  BY <1>1, <1>8, HistoryFacts
<1>15. CASE written = n + 2
  <2>1. /\ store'.summary = turn.summary /\ store'.window = turn.window /\ interrupted' = interrupted
    BY <1>2, <1>4, <1>8, <1>15 DEF n
  <2>2. turn.summary # {} \/ turn.window # <<>>
    BY <1>2, <1>3, NothingIn
  <2>3. SessionHistory(store') = turn.window
    BY <1>14, <2>1, <2>2
  <2>4. Known'
    BY <1>0, <1>3, <1>4, <1>5, <1>8, <2>1, <2>2, <2>3 DEF Known, InContext, Outdated
  <2>5. Once'
    BY <1>0, <2>1, <2>3 DEF Once
  <2> QED
    BY <1>9, <1>12, <2>4, <2>5 DEF MemoryInv, Loaded, Covers
<1>16. CASE written \in 1..n
  <2>1. /\ store'.summary = store.summary /\ store'.window = store.window
        /\ interrupted' = interrupted \union {turn.n}
    BY <1>2, <1>4, <1>8, <1>16 DEF n
  <2>2. ASSUME NEW m \in Range(store'.messages), m.turn \notin interrupted'
        PROVE  m \in Range(store.messages) /\ (m \in InContext(store') \/ Outdated(m))
    <3>1. m \in Range(store.messages)
      BY <1>2, <1>5, <1>8, <2>1, <2>2
    <3>2. m \in InContext(store) \/ Outdated(m)
      BY <1>0, <2>1, <2>2, <3>1 DEF Known
    <3> QED
      BY <1>8, <1>13, <1>14, <2>1, <3>1, <3>2 DEF InContext
  <2>3. Known'
    BY <1>0, <1>2, <1>4, <1>5, <1>8, <2>1, <2>2 DEF Known, Outdated
  <2>4. Once'
    BY <2>1 DEF Once
  <2> QED
    BY <1>9, <1>12, <2>3, <2>4 DEF MemoryInv, Loaded, Covers
<1>17. CASE written = n + 1
  <2>1. /\ store'.summary = turn.summary /\ store'.window = store.window
        /\ interrupted' = interrupted \union {turn.n}
    BY <1>2, <1>4, <1>8, <1>17 DEF n
  <2>2. ASSUME NEW m \in Range(store'.messages), m.turn \notin interrupted'
        PROVE  m \in InContext(store') \/ Outdated(m)
    <3>1. m \in Range(store.messages) /\ m.turn \notin interrupted
      BY <1>2, <1>5, <1>8, <2>1, <2>2
    <3>2. (m \in InContext(store) \/ Outdated(m)) /\ (store.window # <<>> \/ store.summary # {})
      BY <1>0, <3>1 DEF Known
    <3>3. m \in store.summary \union Range(store.window) \/ Outdated(m)
      BY <1>13, <3>2 DEF InContext
    <3>4. store'.window # <<>> \/ store'.summary # {}
      BY <1>3, <2>1, <3>2
    <3> QED
      BY <1>3, <1>14, <2>1, <3>3, <3>4 DEF InContext
  <2>3. ASSUME store'.window = <<>>, store'.summary = {}, NEW m \in Range(store'.messages)
        PROVE  m.turn \in interrupted'
    BY <1>0, <1>2, <1>3, <1>5, <1>8, <2>1, <2>3 DEF Known
  <2>4. Known'
    BY <1>4, <2>2, <2>3 DEF Known, Outdated
  <2>5. Once'
    BY <2>1 DEF Once
  <2> QED
    BY <1>9, <1>12, <2>4, <2>5 DEF MemoryInv, Loaded, Covers
<1>18. CASE written = 0
  <2>1. /\ store'.summary = store.summary /\ store'.window = store.window /\ interrupted' = interrupted
        /\ Range(store'.messages) = Range(store.messages)
    <3>1. n \in Nat /\ ~ (written > n) /\ ~ (written > n + 1) /\ written \notin 1..(n + 1)
      BY <1>2, <1>18 DEF n
    <3>2. store'.summary = store.summary /\ store'.window = store.window /\ interrupted' = interrupted
      BY <1>4, <1>8, <3>1
    <3> QED
      BY <1>6, <1>8, <1>18, <3>2
  <2>2. Range(SessionHistory(store')) = Range(SessionHistory(store))
    BY <1>13, <1>14, <2>1
  <2>3. Known'
    BY <1>0, <1>4, <2>1, <2>2 DEF Known, InContext, Outdated
  <2>4. ASSUME interrupted = {}
        PROVE  IsInjective(SessionHistory(store'))
    <3>1. CASE store.window = <<>> /\ store.summary = {}
      <4>1. Range(store.messages) = {}
        BY <1>0, <2>4, <3>1 DEF Known
      <4>2. store'.messages = <<>> /\ SessionHistory(store') = store'.messages
        BY <1>8, <1>14, <2>1, <3>1, <4>1, NothingIn
      <4> QED
        BY <4>2, NothingIn
    <3>2. CASE ~(store.window = <<>> /\ store.summary = {})
      BY <1>0, <1>13, <1>14, <2>1, <2>4, <3>2 DEF Once
    <3> QED
      BY <3>1, <3>2
  <2>5. Once'
    BY <1>0, <2>1, <2>2, <2>4 DEF Once
  <2> QED
    BY <1>9, <1>12, <2>3, <2>5 DEF MemoryInv, Loaded, Covers
<1> QED
  <2>1. written = 0 \/ written \in 1..n \/ written = n + 1 \/ written = n + 2
    BY <1>2, <1>4 DEF n
  <2> QED
    BY <1>15, <1>16, <1>17, <1>18, <2>1

LEMMA MemoryNextInv ==
  ASSUME MemoryInv, [TurnNext]_turnVars
  PROVE  MemoryInv'
<1> USE DEF pastVars
<1>0. MemoryTypes /\ Loaded
  BY DEF MemoryInv
<1> DEFINE Shaped(t) == /\ t = [n |-> t.n, summary |-> t.summary, window |-> t.window,
                                reloaded |-> t.reloaded, guided |-> t.guided, content |-> t.content, cancelled |-> t.cancelled]
                        /\ t.content \in Nat /\ t.window \in Seq(Msg) /\ t.summary \subseteq Msg
<1>a. turnState # "idle" => Shaped(turn)
  BY <1>0 DEF MemoryTypes
<1>b. ASSUME turnState = "RUN", UNCHANGED <<store, interrupted, uneven>>,
             turnState' \in {"RUN", "COMPACT", "RESPOND", "idle"}, turn' = turn
      PROVE  MemoryInv'
  <2>1. Shaped(turn')
    BY <1>a, <1>b
  <2> QED
    BY <1>b, <2>1, RestKeeps
<1>c. ASSUME turnState = "RUN", UNCHANGED <<store, interrupted, uneven>>,
             turnState' \in {"RUN", "COMPACT"}, NEW content \in Nat, NEW cancelled, NEW guided,
             turn' = [turn EXCEPT !.content = content, !.cancelled = cancelled, !.guided = guided]
      PROVE  MemoryInv'
  <2>1. Shaped(turn') /\ turn'.n = turn.n /\ turn'.summary = turn.summary /\ turn'.window = turn.window
    BY <1>a, <1>c
  <2> QED
    BY <1>c, <2>1, RestKeeps
<1>d. ASSUME turnState = "RUN", UNCHANGED <<store, interrupted, uneven>>, NEW content \in Nat, NEW next,
             Checkpoint(content, next)
      PROVE  MemoryInv'
  <2>1. CASE \E cancelled, guided : \E c \in Nat : Finish(c, cancelled, guided)
    BY <1>c, <1>d, <2>1 DEF Finish, Leaves
  <2>2. CASE \E guided : turn' = [turn EXCEPT !.guided = guided] /\ UNCHANGED turnState
    <3>1. PICK guided : turn' = [turn EXCEPT !.guided = guided] /\ UNCHANGED turnState
      BY <2>2
    <3>2. Shaped(turn') /\ turn'.n = turn.n /\ turn'.summary = turn.summary /\ turn'.window = turn.window
      BY <1>a, <1>d, <3>1
    <3> QED
      BY <1>d, <3>1, <3>2, RestKeeps
  <2>3. 1 \in Nat
    OBVIOUS
  <2> QED
    BY <1>d, <2>1, <2>2, <2>3 DEF Checkpoint
<1>e. AnswerSizes \subseteq Nat /\ {0, 1} \subseteq Nat
  BY TurnAssumption
<1>1. CASE StartsTurn
  <2>1. /\ turnState = "idle" /\ turnState' = "COMMAND" /\ turn'.n = turn.n + 1
        /\ turn' = [n |-> turn.n + 1, summary |-> {}, window |-> <<>>, reloaded |-> FALSE,
                    guided |-> FALSE, content |-> 0, cancelled |-> FALSE]
        /\ UNCHANGED <<store, interrupted, uneven>>
    BY <1>1 DEF StartsTurn
  <2>2. turn.n \in Nat
    BY <1>0 DEF MemoryTypes
  <2>3. MemoryTypes'
    BY <1>0, <2>1, <2>2, NothingIn DEF MemoryTypes
  <2>4. Earlier'
    <3>1. \A m \in Range(store.messages) \union store.summary \union Range(store.window) :
             m \in Msg /\ m.turn <= turn.n
      BY <1>0 DEF MemoryInv, MemoryTypes, Earlier, Range
    <3>2. \A m \in Msg : m.turn \in Nat
      BY DEF Msg
    <3>3. \A k \in Nat : k <= turn.n => k <= turn.n + 1 /\ k < turn.n + 1
      BY <2>2
    <3>4. \A m \in Range(store.messages) \union store.summary \union Range(store.window) :
             m.turn <= turn.n + 1 /\ m.turn < turn.n + 1
      BY <3>1, <3>2, <3>3
    <3> QED
      BY <2>1, <3>4 DEF Earlier
  <2>5. Known' /\ Loaded' /\ Covers' /\ Once'
    BY <2>1 DEF MemoryInv, Known, InContext, Outdated, Loaded, Covers, Once
  <2> QED
    BY <2>3, <2>4, <2>5 DEF MemoryInv
<1>2. CASE HandlesCommand
  <2>1. Shaped(turn') /\ turn'.n = turn.n /\ UNCHANGED <<interrupted, uneven>> /\ turnState = "COMMAND"
    BY <1>2, <1>a DEF HandlesCommand
  <2>2. CASE store' = store
    BY <1>2, <2>1, <2>2, RestKeeps DEF HandlesCommand
  <2>3. CASE store' = EmptyStore /\ turnState' = "RESPOND"
    BY <2>1, <2>3, ClearedKeeps
  <2> QED
    BY <1>2, <2>2, <2>3 DEF HandlesCommand
<1>3. CASE LoadsSession
  <2>1. /\ turnState = "SESSION" /\ turnState' = "BUILD" /\ UNCHANGED <<interrupted, uneven>>
        /\ store' \in {store, EmptyStore}
        /\ turn' = [turn EXCEPT !.summary = store'.summary, !.window = SessionHistory(store'),
                                !.reloaded = HasSnapshot(store')]
    BY <1>3 DEF LoadsSession
  <2>2. /\ turn'.n = turn.n /\ turn'.summary = store'.summary /\ turn'.window = SessionHistory(store')
        /\ turn'.content \in Nat
        /\ turn' = [n |-> turn'.n, summary |-> turn'.summary, window |-> turn'.window,
                    reloaded |-> turn'.reloaded, guided |-> turn'.guided, content |-> turn'.content, cancelled |-> turn'.cancelled]
    BY <1>a, <2>1
  <2>3. CASE store' = store
    <3>1. SessionHistory(store) \in Seq(Msg) /\ store.summary \subseteq Msg
      BY <1>0, HistoryFacts DEF MemoryTypes
    <3> QED
      BY <2>1, <2>2, <2>3, <3>1, RestKeeps
  <2>4. CASE store' = EmptyStore
    <3>1. SessionHistory(store') \in Seq(Msg) /\ store'.summary \subseteq Msg
      BY <2>4, NothingIn, HistoryFacts DEF EmptyStore
    <3> QED
      BY <2>1, <2>2, <2>4, <3>1, ClearedKeeps
  <2> QED
    BY <2>1, <2>3, <2>4
<1>4. CASE BuildsContext
  <2>1. Shaped(turn') /\ turn' = turn
    BY <1>4, <1>a DEF BuildsContext
  <2> QED
    BY <1>4, <2>1, RestKeeps DEF BuildsContext
<1>5. CASE StopRequested \/ GuidanceArrives \/ DeadlinePasses \/ ToolsEnd
  BY <1>5, <1>b DEF StopRequested, GuidanceArrives, DeadlinePasses, ToolsEnd
<1>6. CASE TopOfRound
  BY <1>6, <1>d, <1>e DEF TopOfRound
<1>7. CASE ModelAnswers
  <2>1. CASE \E cancelled, guided : \E c \in Nat : Finish(c, cancelled, guided)
    <3>0. PICK cancelled, guided : \E c \in Nat : Finish(c, cancelled, guided)
      BY <2>1
    <3>1. PICK c \in Nat : Finish(c, cancelled, guided)
      BY <3>0
    <3>2. /\ turnState = "RUN" /\ turnState' = "COMPACT" /\ UNCHANGED <<store, interrupted, uneven>>
          /\ turn' = [turn EXCEPT !.content = c, !.cancelled = cancelled, !.guided = guided]
      BY <1>7, <3>1 DEF ModelAnswers, Finish, Leaves
    <3> QED
      BY <1>c, <3>2
  <2>2. CASE UNCHANGED <<turnState, turn, runVars>>
    BY <1>7, <1>b, <2>2 DEF ModelAnswers
  <2> QED
    BY <1>7, <1>e, <2>1, <2>2 DEF ModelAnswers
<1>8. CASE BottomOfRound
  BY <1>8, <1>d, <1>e DEF BottomOfRound
<1>9. CASE SummaryEnds
  <2>0. PICK cancelled, guided : \E c \in Nat : Finish(c, cancelled, guided)
    BY <1>9, <1>e DEF SummaryEnds
  <2>1. PICK c \in Nat : Finish(c, cancelled, guided)
    BY <2>0
  <2>2. /\ turnState = "RUN" /\ turnState' = "COMPACT" /\ UNCHANGED <<store, interrupted, uneven>>
        /\ turn' = [turn EXCEPT !.content = c, !.cancelled = cancelled, !.guided = guided]
    BY <1>9, <2>1 DEF SummaryEnds, Finish, Leaves
  <2> QED
    BY <1>c, <2>2
<1>10. CASE CallTimesOut
  BY <1>10, <1>c, <1>e DEF CallTimesOut, AtCall, Finish, Leaves
<1>11. ASSUME NEW next \in {"RESPOND", "idle"}, CallFails(next) \/ UnguardedCallFails(next)
       PROVE  MemoryInv'
  BY <1>11, <1>b DEF CallFails, UnguardedCallFails, AtCall, Leaves
<1>12. ASSUME NEW next \in {"RESPOND", "idle"}, CompactFails(next)
       PROVE  MemoryInv'
  <2>1. Shaped(turn') /\ turn' = turn
    BY <1>12, <1>a DEF CompactFails
  <2> QED
    BY <1>12, <2>1, RestKeeps DEF CompactFails
<1>13. ASSUME NEW next \in {"RESPOND", "idle"}, SaveFails(next)
       PROVE  MemoryInv'
  <2>1. CASE \E written \in 0..5 : Writes(written)
    BY <1>13, <2>1, WritesKeeps DEF SaveFails
  <2>2. CASE SnapshotIsCut
    <3>1. /\ Shaped(turn') /\ turn' = turn /\ turnState' \in {"RESPOND", "idle"}
          /\ store' = EmptyStore /\ UNCHANGED <<interrupted, uneven>>
      BY <1>13, <1>a, <2>2 DEF SaveFails, SnapshotIsCut
    <3> QED
      BY <3>1, ClearedKeeps
  <2> QED
    BY <1>13, <2>1, <2>2 DEF SaveFails
<1>14. CASE Compacts
  BY <1>14, CompactsKeeps
<1>15. CASE Saves
  BY <1>15, WritesKeeps DEF Saves
<1>16. CASE Responds
  <2>1. Shaped(turn') /\ turn' = turn
    BY <1>16, <1>a DEF Responds
  <2> QED
    BY <1>16, <2>1, RestKeeps DEF Responds
<1>17. CASE TurnCrashes
  <2>1. Shaped(turn') /\ turn' = turn
    BY <1>17, <1>a DEF TurnCrashes
  <2> QED
    BY <1>17, <2>1, RestKeeps DEF TurnCrashes, Leaves
<1>18. CASE UNCHANGED turnVars
  <2>1. UNCHANGED <<turnState, turn, store, interrupted, uneven>>
    BY <1>18 DEF turnVars
  <2>2. MemoryTypes' /\ Earlier' /\ Known'
    BY <2>1 DEF MemoryInv, MemoryTypes, Earlier, Known, InContext, Outdated
  <2>3. Loaded' /\ Covers' /\ Once'
    BY <2>1 DEF MemoryInv, Loaded, Covers, Once, InContext, Outdated, NewMessages, Message
  <2> QED
    BY <2>2, <2>3 DEF MemoryInv
<1> QED
  BY <1>1, <1>2, <1>3, <1>4, <1>5, <1>6, <1>7, <1>8, <1>9, <1>10, <1>11, <1>12, <1>13, <1>14,
     <1>15, <1>16, <1>17, <1>18 DEF TurnNext

(* The model goes on knowing every message that was saved, in the summary   *)
(* or in the window and in only one of them, however the turns are stopped, *)
(* guided, refused, compacted or fail; only a turn whose SAVE ended between *)
(* its writes may miss in the snapshot, and what is older than an uneven    *)
(* turn: one that compacted what session.json kept without ids and had a    *)
(* message without an answer itself.                                        *)
THEOREM NothingForgottenAlways == TurnSpec => []NothingForgotten
<1>1. MemoryInv => NothingForgotten
  BY DEF MemoryInv, Known, Once, InContext, Outdated, NothingForgotten
<1> QED
  BY <1>1, MemoryInitInv, MemoryNextInv, PTL DEF TurnSpec

-----------------------------------------------------------------------------
(* What messages.jsonl holds: the messages in the order of their turns and, *)
(* in a turn, of what was said; no turn begins but with what its user said. *)
Precedes(a, b) == a.turn < b.turn \/ (a.turn = b.turn /\ a.part < b.part)

InOrder(h) == \A i, j \in 1..Len(h) : i < j => Precedes(h[i], h[j])
OpensWithUser(h) ==
  \A i \in 1..Len(h) : h[i].part # 1 => i - 1 \in 1..Len(h) /\ h[i - 1].turn = h[i].turn

TranscriptInOrder == InOrder(store.messages) /\ OpensWithUser(store.messages)

(* A step leaves messages.jsonl as it is, adds messages at its end, or      *)
(* removes the session with it, which only COMMAND and SESSION do, and a    *)
(* write of SAVE that fails.                                                *)
Adds == turnState = "SAVE" /\ IsPrefix(store.messages, store'.messages)
Removes ==
  /\ store' = EmptyStore
  /\ turnState \in {"COMMAND", "SESSION"} \/ (turnState = "SAVE" /\ turnFaults' = turnFaults + 1)
TranscriptGrows == [][store'.messages = store.messages \/ Adds \/ Removes]_turnVars

(* Only SAVE writes, and nothing else removes. *)
LEMMA WhoChangesStore ==
  ASSUME [TurnNext]_turnVars
  PROVE  \/ store' = store
         \/ Removes
         \/ turnState = "SAVE" /\ UNCHANGED turn /\ \E written \in Nat : Writes(written)
<1>1. CASE UNCHANGED store
  BY <1>1
<1>2. CASE HandlesCommand \/ LoadsSession
  BY <1>2 DEF HandlesCommand, LoadsSession, Removes
<1>3. CASE Saves \/ \E next \in {"RESPOND", "idle"} : SaveFails(next)
  <2>1. CASE turnState = "SAVE" /\ UNCHANGED turn /\ \E written : Writes(written)
    <3>1. PICK written : Writes(written)
      BY <2>1
    <3>2. written \in 0..(Len(NewMessages) + 2)
      BY <3>1 DEF Writes
    <3> QED
      BY <2>1, <3>1, <3>2
  <2>2. CASE \E next \in {"RESPOND", "idle"} : SaveFails(next) /\ SnapshotIsCut
    BY <2>2 DEF SaveFails, SnapshotIsCut, TurnFault, Removes
  <2> QED
    BY <1>3, <2>1, <2>2 DEF Saves, SaveFails
<1>4. CASE StartsTurn \/ BuildsContext \/ StopRequested \/ GuidanceArrives \/ DeadlinePasses \/ UNCHANGED turnVars
  BY <1>1, <1>4 DEF StartsTurn, BuildsContext, StopRequested, GuidanceArrives, DeadlinePasses, turnVars
<1>5. CASE TopOfRound \/ ModelAnswers \/ ToolsEnd \/ BottomOfRound \/ SummaryEnds \/ CallTimesOut
  BY <1>1, <1>5 DEF TopOfRound, ModelAnswers, ToolsEnd, BottomOfRound, SummaryEnds, CallTimesOut
<1>6. CASE \E next \in {"RESPOND", "idle"} : CallFails(next) \/ UnguardedCallFails(next) \/ CompactFails(next)
  BY <1>1, <1>6 DEF CallFails, UnguardedCallFails, CompactFails
<1>7. CASE Compacts \/ Responds \/ TurnCrashes
  BY <1>1, <1>7 DEF Compacts, Responds, TurnCrashes
<1> QED
  BY <1>2, <1>3, <1>4, <1>5, <1>6, <1>7 DEF TurnNext

(* What a turn saves is in order, and so is every beginning of it.          *)
LEMMA NewMessagesInOrder ==
  ASSUME turn.n \in Nat, turn.content \in Nat, NEW k \in 0..Len(NewMessages)
  PROVE  LET t == SubSeq(NewMessages, 1, k)
         IN /\ t \in Seq(Msg) /\ Len(t) = k
            /\ \A i \in 1..k : t[i].turn = turn.n
            /\ InOrder(t) /\ OpensWithUser(t)
<1> DEFINE a == Message("user", 1, 1)
           b == Message("user", 1, 2)
           c == Message("assistant", turn.content, 3)
           t == SubSeq(NewMessages, 1, k)
<1>1. /\ a \in Msg /\ b \in Msg /\ c \in Msg
      /\ a.turn = turn.n /\ b.turn = turn.n /\ c.turn = turn.n
      /\ a.part = 1 /\ b.part = 2 /\ c.part = 3
  BY DEF Message, Msg
<1>2. \/ NewMessages = <<a>> \o <<>> \o <<>>
      \/ NewMessages = <<a>> \o <<b>> \o <<>>
      \/ NewMessages = <<a>> \o <<>> \o <<c>>
      \/ NewMessages = <<a>> \o <<b>> \o <<c>>
  BY DEF NewMessages
<1> HIDE DEF a, b, c
<1>3. PICK x \in {<<>>, <<b>>}, y \in {<<>>, <<c>>} : NewMessages = (<<a>> \o x) \o y
  BY <1>2
<1>m. ASSUME NEW m \in Msg, NEW z \in {<<>>, <<m>>}
      PROVE  z \in Seq(Msg) /\ (Len(z) = 0 \/ (Len(z) = 1 /\ z[1] = m))
  <2>1. CASE z = <<>>
    BY <2>1
  <2>2. CASE z = <<m>>
    BY <1>m, <2>2
  <2> QED
    BY <1>m, <2>1, <2>2
<1>x. /\ x \in Seq(Msg) /\ (Len(x) = 0 \/ (Len(x) = 1 /\ x[1] = b))
      /\ y \in Seq(Msg) /\ (Len(y) = 0 \/ (Len(y) = 1 /\ y[1] = c))
  BY <1>1, <1>3, <1>m
<1> DEFINE p == <<a>>
           q == p \o x
<1>p. p \in Seq(Msg) /\ Len(p) = 1 /\ p[1] = a
  BY <1>1
<1> HIDE DEF p
<1>q. /\ q \in Seq(Msg) /\ Len(q) = 1 + Len(x) /\ q[1] = a
      /\ Len(x) = 1 => q[2] = b
  <2>1. /\ q \in Seq(Msg) /\ Len(q) = Len(p) + Len(x)
        /\ \A i \in 1..(Len(p) + Len(x)) : q[i] = IF i <= Len(p) THEN p[i] ELSE x[i - Len(p)]
    <3>1. x \in Seq(Msg) /\ p \in Seq(Msg)
      BY <1>x, <1>p
    <3> QED
      BY <3>1, ConcatProperties
  <2> HIDE DEF q
  <2> QED
    BY <1>x, <1>p, <2>1
<1> HIDE DEF q
<1>4. /\ NewMessages \in Seq(Msg) /\ Len(NewMessages) = Len(q) + Len(y)
      /\ \A i \in 1..Len(q) : NewMessages[i] = q[i]
      /\ Len(y) = 1 => NewMessages[Len(q) + 1] = c
  <2> DEFINE u == q \o y
  <2>1. NewMessages = u
    BY <1>3 DEF q, p
  <2>2. q \in Seq(Msg) /\ y \in Seq(Msg) /\ Len(q) \in Nat
    BY <1>x, <1>q
  <2>3. /\ u \in Seq(Msg) /\ Len(u) = Len(q) + Len(y)
        /\ \A i \in 1..(Len(q) + Len(y)) : u[i] = IF i <= Len(q) THEN q[i] ELSE y[i - Len(q)]
    BY <2>2, ConcatProperties
  <2> HIDE DEF u
  <2>4. \A i \in 1..Len(q) : u[i] = q[i]
    BY <1>x, <2>2, <2>3
  <2>5. Len(y) = 1 => u[Len(q) + 1] = c
    <3>1. CASE Len(y) = 1
      <4>1. u[Len(q) + 1] = y[(Len(q) + 1) - Len(q)]
        BY <2>2, <2>3, <3>1
      <4>2. (Len(q) + 1) - Len(q) = 1 /\ y[1] = c
        BY <1>x, <2>2, <3>1
      <4> QED
        BY <4>1, <4>2
    <3> QED
      BY <3>1
  <2> QED
    BY <2>1, <2>3, <2>4, <2>5
<1>5. /\ t \in Seq(Msg) /\ Len(t) = k /\ k \in Nat /\ k <= Len(NewMessages)
      /\ \A i \in 1..k : t[i] = NewMessages[i]
  BY <1>4
<1>6. /\ Len(NewMessages) \in {1, 2, 3} /\ NewMessages[1] = a
      /\ Len(NewMessages) >= 2 => NewMessages[2] \in {b, c}
      /\ Len(NewMessages) = 3 => NewMessages[2] = b /\ NewMessages[3] = c
  <2>0. Len(q) = 1 \/ Len(q) = 2
    <3>1. Len(x) = 0 \/ Len(x) = 1
      BY <1>x
    <3>2. CASE Len(x) = 0
      BY <1>q, <3>2
    <3>3. CASE Len(x) = 1
      BY <1>q, <3>3
    <3> QED
      BY <3>1, <3>2, <3>3
  <2>1. (Len(q) = 1 \/ Len(q) = 2) /\ Len(NewMessages) = Len(q) + Len(y)
    BY <2>0, <1>4
  <2>2. NewMessages[1] = a /\ (Len(q) = 2 => NewMessages[2] = b)
    <3>1. q[1] = a /\ (Len(q) = 2 => q[2] = b)
      BY <1>x, <1>q
    <3>2. CASE Len(q) = 1
      <4>1. 1 \in 1..Len(q)
        BY <3>2
      <4> QED
        BY <1>4, <3>1, <3>2, <4>1
    <3>3. CASE Len(q) = 2
      <4>1. 1 \in 1..Len(q) /\ 2 \in 1..Len(q)
        BY <3>3
      <4> QED
        BY <1>4, <3>1, <3>3, <4>1
    <3> QED
      BY <2>0, <3>2, <3>3
  <2>3. CASE Len(y) = 0
    BY <2>1, <2>2, <2>3
  <2>4. CASE Len(y) = 1
    BY <1>4, <2>1, <2>2, <2>4
  <2> QED
    BY <1>x, <2>1, <2>2, <2>3, <2>4
<1> HIDE DEF t
<1>7. /\ k >= 1 => t[1] = a
      /\ k >= 2 => t[2] \in {b, c}
      /\ k = 3 => t[2] = b /\ t[3] = c
      /\ k \in {0, 1, 2, 3}
  BY <1>5, <1>6
<1>8. \A i \in 1..k : t[i].turn = turn.n
  BY <1>1, <1>7
<1>9. InOrder(t)
  <2>1. \A i, j \in 1..k : i < j => t[i].part < t[j].part
    BY <1>1, <1>7
  <2> QED
    BY <1>5, <1>8, <2>1 DEF InOrder, Precedes
<1>10. OpensWithUser(t)
  <2>1. \A i \in 1..k : t[i].part # 1 => i - 1 \in 1..k
    BY <1>1, <1>7
  <2> QED
    BY <1>5, <1>8, <2>1 DEF OpensWithUser
<1> QED
  BY <1>5, <1>8, <1>9, <1>10 DEF t

(* Messages of later turns at the end. *)
LEMMA OrderedConcat ==
  ASSUME NEW s \in Seq(Msg), NEW t \in Seq(Msg), InOrder(s), OpensWithUser(s), InOrder(t), OpensWithUser(t),
         \A i \in 1..Len(s), j \in 1..Len(t) : s[i].turn < t[j].turn
  PROVE  InOrder(s \o t) /\ OpensWithUser(s \o t) /\ IsPrefix(s, s \o t)
<1> DEFINE u == s \o t
<1>1. /\ u \in Seq(Msg) /\ Len(u) = Len(s) + Len(t) /\ Len(s) \in Nat /\ Len(t) \in Nat
      /\ \A i \in 1..(Len(s) + Len(t)) : u[i] = IF i <= Len(s) THEN s[i] ELSE t[i - Len(s)]
  BY ConcatProperties
<1>2. IsPrefix(s, u)
  BY DEF IsPrefix
<1> HIDE DEF u
<1>3. \A i \in 1..Len(s) : i \in 1..Len(u) /\ u[i] = s[i]
  BY <1>1
<1>4. ASSUME NEW i \in 1..Len(u), i \notin 1..Len(s)
      PROVE  i - Len(s) \in 1..Len(t) /\ u[i] = t[i - Len(s)]
  BY <1>1, <1>4
<1>5. ASSUME NEW i \in 1..Len(u), NEW j \in 1..Len(u), i < j
      PROVE  Precedes(u[i], u[j])
  <2>1. CASE j \in 1..Len(s)
    <3>1. i \in 1..Len(s)
      BY <1>1, <1>5, <2>1
    <3> QED
      BY <1>3, <1>5, <2>1, <3>1 DEF InOrder
  <2>2. CASE i \in 1..Len(s) /\ j \notin 1..Len(s)
    <3>1. u[i] = s[i] /\ j - Len(s) \in 1..Len(t) /\ u[j] = t[j - Len(s)]
      BY <1>3, <1>4, <2>2
    <3>2. s[i].turn < t[j - Len(s)].turn
      BY <2>2, <3>1
    <3> QED
      BY <3>1, <3>2 DEF Precedes
  <2>3. CASE i \notin 1..Len(s) /\ j \notin 1..Len(s)
    <3>1. /\ i - Len(s) \in 1..Len(t) /\ u[i] = t[i - Len(s)]
          /\ j - Len(s) \in 1..Len(t) /\ u[j] = t[j - Len(s)]
      BY <1>4, <2>3
    <3>2. i - Len(s) < j - Len(s)
      BY <1>1, <1>5
    <3> QED
      BY <3>1, <3>2 DEF InOrder
  <2> QED
    BY <2>1, <2>2, <2>3
<1>6. ASSUME NEW i \in 1..Len(u), u[i].part # 1
      PROVE  i - 1 \in 1..Len(u) /\ u[i - 1].turn = u[i].turn
  <2>1. CASE i \in 1..Len(s)
    <3>1. u[i] = s[i]
      BY <1>3, <2>1
    <3>2. i - 1 \in 1..Len(s) /\ s[i - 1].turn = s[i].turn
      BY <1>6, <2>1, <3>1 DEF OpensWithUser
    <3> QED
      BY <1>3, <3>1, <3>2
  <2>2. CASE i \notin 1..Len(s)
    <3>1. i - Len(s) \in 1..Len(t) /\ u[i] = t[i - Len(s)]
      BY <1>4, <2>2
    <3>2. (i - Len(s)) - 1 \in 1..Len(t) /\ t[(i - Len(s)) - 1].turn = t[i - Len(s)].turn
      BY <1>6, <3>1 DEF OpensWithUser
    <3>3. i - 1 \in 1..Len(u) /\ i - 1 \notin 1..Len(s) /\ (i - 1) - Len(s) = (i - Len(s)) - 1
      BY <1>1, <3>2
    <3>4. u[i - 1] = t[(i - Len(s)) - 1]
      BY <1>4, <3>3
    <3> QED
      BY <3>1, <3>2, <3>3, <3>4
  <2> QED
    BY <2>1, <2>2
<1>7. InOrder(u) /\ OpensWithUser(u)
  BY <1>5, <1>6 DEF InOrder, OpensWithUser
<1> QED
  BY <1>2, <1>7 DEF u

LEMMA TranscriptStep ==
  ASSUME MemoryInv, TranscriptInOrder, [TurnNext]_turnVars
  PROVE  /\ TranscriptInOrder'
         /\ store'.messages = store.messages \/ Adds \/ Removes
<1>1. CASE store' = store
  BY <1>1 DEF TranscriptInOrder
<1>2. CASE Removes
  <2>1. store'.messages = <<>> /\ 1..Len(<<>>) = {}
    BY <1>2 DEF EmptyStore, Removes
  <2> QED
    BY <1>2, <2>1 DEF TranscriptInOrder, InOrder, OpensWithUser
<1>3. CASE turnState = "SAVE" /\ \E written \in Nat : Writes(written)
  <2>1. /\ turn.n \in Nat /\ turn.content \in Nat /\ store.messages \in Seq(Msg)
        /\ \A m \in Range(store.messages) : m.turn < turn.n
    BY <1>3 DEF MemoryInv, MemoryTypes, Earlier
  <2>2. PICK written \in Nat : Writes(written)
    BY <1>3
  <2> DEFINE k == IF written < Len(NewMessages) THEN written ELSE Len(NewMessages)
             t == SubSeq(NewMessages, 1, k)
  <2>3. k \in 0..Len(NewMessages) /\ store'.messages = store.messages \o t
    <3>1. Len(NewMessages) \in Nat
      BY <2>1, NewMessagesFacts
    <3>2. k \in 0..Len(NewMessages)
      BY <2>2, <3>1
    <3>3. store'.messages = store.messages \o t
      BY <2>2 DEF Writes
    <3> QED
      BY <3>2, <3>3
  <2>4. /\ t \in Seq(Msg) /\ \A i \in 1..Len(t) : t[i].turn = turn.n
        /\ InOrder(t) /\ OpensWithUser(t)
    BY <2>1, <2>3, NewMessagesInOrder
  <2> HIDE DEF t
  <2>5. \A i \in 1..Len(store.messages) : store.messages[i].turn < turn.n
    BY <2>1 DEF Range
  <2>6. \A i \in 1..Len(store.messages), j \in 1..Len(t) : store.messages[i].turn < t[j].turn
    BY <2>4, <2>5
  <2>7. /\ InOrder(store.messages \o t) /\ OpensWithUser(store.messages \o t)
        /\ IsPrefix(store.messages, store.messages \o t)
    BY <2>1, <2>4, <2>6, OrderedConcat DEF TranscriptInOrder
  <2> QED
    BY <1>3, <2>3, <2>7 DEF TranscriptInOrder, Adds
<1> QED
  BY <1>1, <1>2, <1>3, WhoChangesStore

(* sessions/store.py appends to messages.jsonl what SAVE has of a turn, and *)
(* /clear, the expiry or a session.json that a failed write has cut off     *)
(* removes it with the session: whatever SAVE leaves unwritten, wherever    *)
(* turns fail or the process ends, the file only grows until then, its      *)
(* messages stand in the order in which they were said, each once, and no   *)
(* answer or guidance stands there without the message of the user that it  *)
(* belongs to.                                                              *)
THEOREM TranscriptInOrderAlways == TurnSpec => []TranscriptInOrder /\ TranscriptGrows
<1>1. TurnInit => TranscriptInOrder
  <2>1. 1..Len(<<>>) = {}
    OBVIOUS
  <2> QED
    BY <2>1 DEF TurnInit, EmptyStore, TranscriptInOrder, InOrder, OpensWithUser
<1>2. MemoryInv /\ TranscriptInOrder /\ [TurnNext]_turnVars => TranscriptInOrder'
  BY TranscriptStep
<1>3. MemoryInv /\ TranscriptInOrder /\ [TurnNext]_turnVars =>
        [store'.messages = store.messages \/ Adds \/ Removes]_turnVars
  BY TranscriptStep
<1> QED
  BY <1>1, <1>2, <1>3, MemoryInitInv, MemoryNextInv, PTL DEF TurnSpec, TranscriptGrows
=============================================================================
