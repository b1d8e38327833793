---------------------------- MODULE GatewayTurns ----------------------------
(***************************************************************************)
(* The turn coordinator of the Gateway (gateway/turns.py) with the three   *)
(* channel coordinators that submit to it and release it (channels/im.py,  *)
(* channels/cli_gateway.py, web/backend/coordinator.py), the single        *)
(* outbound consumer (channels/manager.py) and the bus between them.       *)
(*                                                                         *)
(* Every body of `async with lock` is one step; every other await of the   *)
(* code (the dispatch callback, the bus, the turn itself, a listener) is a *)
(* point where other tasks run.  When a turn obtains its execution slot    *)
(* and its Runtime is left open: BeginTurn may come arbitrarily late.      *)
(***************************************************************************)
EXTENDS Naturals, Sequences, FiniteSets

CONSTANTS Req,            \* request ids (InboundMessage.id)
          Route,          \* routes: (principal, channel, conversation)
          Account,        \* IM accounts whose Binding may be deleted
          NoReq,          \* "no request"
          RouteOf,        \* [Req -> Route]
          Channel,        \* [Route -> {"web", "cli", "im"}]
          AccountRoutes,  \* [Account -> SUBSET Route]: the route matcher
          TerminalLimit   \* _TERMINAL_CACHE_LIMIT

ASSUME RouteAssumption ==
  /\ RouteOf \in [Req -> Route]
  /\ Channel \in [Route -> {"web", "cli", "im"}]
  /\ NoReq \notin Req

ASSUME AccountAssumption ==
  /\ AccountRoutes \in [Account -> SUBSET Route]
  /\ \A a \in Account : \A ro \in AccountRoutes[a] : Channel[ro] = "im"
  /\ \A a, b \in Account : a # b => AccountRoutes[a] \intersect AccountRoutes[b] = {}

ASSUME LimitAssumption == TerminalLimit \in Nat \ {0}

VARIABLES
  stage,        \* how far GatewayHost._stop_components has got
  inflight,     \* _inflight: accepted ids without a terminal
  terminal,     \* _terminal: ids of cached terminal replies, oldest first
  active,       \* _active_routes
  pending,      \* _pending_routes
  blocks,       \* _route_blocks: accounts that hold a RouteBlock
  dispatching,  \* requests whose dispatch callback is being awaited
  controls,     \* controls / _controls of the three coordinators
  phase,        \* where the message of a request is
  consumer,     \* the request whose release the outbound consumer works on
  noticed,      \* on_idle reached the supervisor since the last activity
  ran,          \* history: requests whose turn has begun
  forgotten     \* history: of these, the ones evicted from _terminal

turnVars == <<inflight, terminal, active, pending, blocks>>
vars == <<stage, inflight, terminal, active, pending, blocks, dispatching,
          controls, phase, consumer, noticed, ran, forgotten>>

Stages == {"open", "detached", "sealed", "closing", "closed"}

(* idle: nowhere; queued: in the inbound queue; spawned: its task waits for *)
(* a slot and a Runtime; running: run_turn; recorded: terminal cached, not  *)
(* published; published: in the outbound queue.                             *)
Phases == {"idle", "queued", "spawned", "running", "recorded", "published"}

Elems(s) == {s[i] : i \in 1..Len(s)}
Blocked(ro) == \E a \in blocks : ro \in AccountRoutes[a]
Running == {r \in Req : phase[r] \in {"spawned", "running", "recorded"}}
Accepting(ro) == stage = "open" \/ (stage = "detached" /\ Channel[ro] # "im")
AdapterOpen == stage \in {"open", "detached"}
TurnsClosed == stage \in {"closing", "closed"}

(* is_globally_idle of the turn coordinator, of one channel coordinator, and *)
(* the conjunction the Host's idle probe takes over all of them.             *)
TurnsIdle == inflight = {} /\ Running = {}
AdapterIdle_Silent(ch) == FALSE
AdapterIdle(ch) == \A ro \in Route : Channel[ro] = ch => controls[ro] = NoReq
GloballyIdle == TurnsIdle /\ \A ro \in Route : controls[ro] = NoReq

(* _notify_idle is called when `called`; the probe it runs sees the new state. *)
Notice(called) == noticed' = (GloballyIdle' /\ (called \/ noticed))

Init ==
  /\ stage = "open"
  /\ inflight = {}
  /\ terminal = <<>>
  /\ active = [ro \in Route |-> NoReq]
  /\ pending = [ro \in Route |-> <<>>]
  /\ blocks = {}
  /\ dispatching = {}
  /\ controls = [ro \in Route |-> NoReq]
  /\ phase = [r \in Req |-> "idle"]
  /\ consumer = NoReq
  /\ noticed = TRUE
  /\ ran = {}
  /\ forgotten = {}

-----------------------------------------------------------------------------
(***************************************************************************)
(* Accepting a message.  A rejected submit (closed, blocked, a duplicate)  *)
(* changes nothing.  The Web coordinator draws a fresh uuid for every send,*)
(* so a Web request is never one whose turn has begun.                     *)
(***************************************************************************)
Known(r) == r \in inflight \/ r \in Elems(terminal)

RouteBusy_ByControl(ro) == controls[ro] # NoReq
RouteBusy(ro) == active[ro] # NoReq

Enqueue_Lifo(s, r) == <<r>> \o s
Enqueue(s, r) == Append(s, r)

Submit(r) ==
  LET ro == RouteOf[r] IN
  /\ Accepting(ro)
  /\ Channel[ro] = "web" => r \notin ran
  /\ ~Blocked(ro)
  /\ ~Known(r)
  /\ inflight' = inflight \union {r}
  /\ \/ /\ RouteBusy(ro)
        /\ pending' = [pending EXCEPT ![ro] = Enqueue(@, r)]
        /\ UNCHANGED <<active, dispatching>>
     \/ /\ ~RouteBusy(ro)
        /\ active' = [active EXCEPT ![ro] = r]
        /\ dispatching' = dispatching \union {r}
        /\ UNCHANGED pending
  /\ UNCHANGED <<stage, terminal, blocks, controls, phase, consumer, ran, forgotten>>
  /\ Notice(FALSE)

(***************************************************************************)
(* The dispatch callback registers the control and publishes to the bus.   *)
(* The IM callback refuses when it finds a control or a closed coordinator;*)
(* the CLI and Web callbacks overwrite.                                    *)
(***************************************************************************)
MayRegister(r) ==
  Channel[RouteOf[r]] = "im" => AdapterOpen /\ controls[RouteOf[r]] = NoReq

DispatchOk(r) ==
  /\ r \in dispatching
  /\ MayRegister(r)
  /\ controls' = [controls EXCEPT ![RouteOf[r]] = r]
  /\ phase' = [phase EXCEPT ![r] = "queued"]
  /\ dispatching' = dispatching \ {r}
  /\ consumer' = IF consumer = r THEN NoReq ELSE consumer
  /\ UNCHANGED <<stage, turnVars, ran, forgotten>>
  /\ Notice(FALSE)

(* The head of `pending` becomes the active request of the route. *)
PromoteNext(ro, r) ==
  LET next == Head(pending[ro]) IN
  /\ active' = [active EXCEPT ![ro] = next]
  /\ pending' = [pending EXCEPT ![ro] = Tail(@)]
  /\ dispatching' = (dispatching \ {r}) \union {next}
  /\ consumer' = IF consumer = r THEN next ELSE consumer

(* The requests that leave _inflight together with a route's waiting line. *)
Discarded_None(ro) == {}
Discarded(ro) == Elems(pending[ro])

(* _rollback_dispatch(request, advance) after the callback raised. *)
Rollback(r, advance) ==
  LET ro == RouteOf[r] IN
  \/ /\ active[ro] # r
     /\ inflight' = inflight \ {r}
     /\ dispatching' = dispatching \ {r}
     /\ consumer' = IF consumer = r THEN NoReq ELSE consumer
     /\ Notice(FALSE)
     /\ UNCHANGED <<active, pending>>
  \/ /\ active[ro] = r
     /\ advance /\ pending[ro] # <<>>
     /\ inflight' = inflight \ {r}
     /\ PromoteNext(ro, r)
     /\ Notice(FALSE)
  \/ /\ active[ro] = r
     /\ ~(advance /\ pending[ro] # <<>>)
     /\ active' = [active EXCEPT ![ro] = NoReq]
     /\ pending' = [pending EXCEPT ![ro] = <<>>]
     /\ inflight' = inflight \ ({r} \union Discarded(ro))
     /\ dispatching' = dispatching \ {r}
     /\ consumer' = IF consumer = r THEN NoReq ELSE consumer
     /\ Notice(TurnsIdle')

(* A CLI or Web callback that raises has replaced and then removed the control. *)
DropControl_Leaks(r) == controls' = [controls EXCEPT ![RouteOf[r]] = r]
DropControl(r) ==
  controls' = IF Channel[RouteOf[r]] = "im" THEN controls
              ELSE [controls EXCEPT ![RouteOf[r]] = NoReq]

DispatchRaises(r) ==
  /\ r \in dispatching
  /\ DropControl(r)
  /\ UNCHANGED <<stage, terminal, blocks, phase, ran, forgotten>>
  /\ Rollback(r, TRUE)

(* Cancelled: the submitter is cancelled, or the outbound consumer is: its  *)
(* delivery timeout ends only a Web delivery, else the delivery is stopping. *)
DispatchCancelled(r) ==
  /\ r \in dispatching
  /\ DropControl(r)
  /\ stage' = IF consumer = r /\ Channel[RouteOf[r]] # "web" THEN "detached" ELSE stage
  /\ UNCHANGED <<terminal, blocks, phase, ran, forgotten>>
  /\ Rollback(r, FALSE)

-----------------------------------------------------------------------------
(***************************************************************************)
(* Running a turn: _consume_inbound and _run_message.                      *)
(***************************************************************************)
Consume(r) ==
  /\ ~TurnsClosed
  /\ phase[r] = "queued"
  /\ phase' = [phase EXCEPT ![r] = "spawned"]
  /\ UNCHANGED <<stage, turnVars, dispatching, controls, consumer, ran, forgotten>>
  /\ Notice(FALSE)

BeginTurn(r) ==
  /\ stage # "closed"
  /\ phase[r] = "spawned"
  /\ phase' = [phase EXCEPT ![r] = "running"]
  /\ ran' = ran \union {r}
  /\ forgotten' = forgotten \ {r}
  /\ UNCHANGED <<stage, turnVars, dispatching, controls, consumer>>
  /\ Notice(FALSE)

(* The bounded cache keeps the newest TerminalLimit replies. *)
Without(s, r) ==
  IF r \notin Elems(s) THEN s
  ELSE LET k == CHOOSE i \in 1..Len(s) : s[i] = r
       IN SubSeq(s, 1, k - 1) \o SubSeq(s, k + 1, Len(s))
Cached(r) == Append(Without(terminal, r), r)

Evict(s) == IF Len(s) > TerminalLimit THEN Tail(s) ELSE s

(* run_turn returned or raised: both leave a terminal for the request. *)
FinishTurn(r) ==
  /\ stage # "closed"
  /\ phase[r] = "running"
  /\ phase' = [phase EXCEPT ![r] = "recorded"]
  /\ inflight' = inflight \ {r}
  /\ terminal' = Evict(Cached(r))
  /\ forgotten' = forgotten \union ((Elems(terminal) \union {r}) \ Elems(terminal'))
  /\ UNCHANGED <<stage, active, pending, blocks, dispatching, controls, consumer, ran>>
  /\ Notice(FALSE)

PublishTerminal(r) ==
  /\ stage # "closed"
  /\ phase[r] = "recorded"
  /\ phase' = [phase EXCEPT ![r] = "published"]
  /\ UNCHANGED <<stage, turnVars, dispatching, controls, consumer, ran, forgotten>>
  /\ Notice(TurnsIdle')

-----------------------------------------------------------------------------
(***************************************************************************)
(* The outbound consumer.  For IM and CLI the delivery listener releases   *)
(* the route whatever the transport did with the reply; for Web the        *)
(* release is part of the transport's send, which ChannelManager cancels   *)
(* after its delivery timeout.                                             *)
(***************************************************************************)
Deliver(r) ==
  /\ stage = "open"
  /\ consumer = NoReq
  /\ phase[r] = "published"
  /\ phase' = [phase EXCEPT ![r] = "idle"]
  /\ \/ /\ controls[RouteOf[r]] = r
        /\ controls' = [controls EXCEPT ![RouteOf[r]] = NoReq]
        /\ consumer' = r
     \/ /\ controls[RouteOf[r]] # r
        /\ UNCHANGED <<controls, consumer>>
  /\ UNCHANGED <<stage, turnVars, dispatching, ran, forgotten>>
  /\ Notice(FALSE)

MayLoseRelease_Any(ro) == TRUE
MayLoseRelease(ro) == Channel[ro] = "web"

WebSendTimesOut(r) ==
  /\ stage = "open"
  /\ consumer = NoReq
  /\ phase[r] = "published"
  /\ MayLoseRelease(RouteOf[r])
  /\ phase' = [phase EXCEPT ![r] = "idle"]
  /\ UNCHANGED <<stage, turnVars, dispatching, controls, consumer, ran, forgotten>>
  /\ Notice(FALSE)

(* complete_route_turn, then on_idle of the channel coordinator. *)
CompleteRoute(r) ==
  LET ro == RouteOf[r] IN
  /\ consumer = r
  /\ r \notin dispatching
  /\ UNCHANGED <<stage, inflight, terminal, blocks, controls, phase, ran, forgotten>>
  /\ \/ /\ active[ro] # r
        /\ consumer' = NoReq
        /\ UNCHANGED <<active, pending, dispatching>>
        /\ Notice(AdapterIdle(Channel[ro]))
     \/ /\ active[ro] = r
        /\ pending[ro] = <<>>
        /\ active' = [active EXCEPT ![ro] = NoReq]
        /\ consumer' = NoReq
        /\ UNCHANGED <<pending, dispatching>>
        /\ Notice(AdapterIdle(Channel[ro]))
     \/ /\ active[ro] = r
        /\ pending[ro] # <<>>
        /\ PromoteNext(ro, r)
        /\ Notice(FALSE)

-----------------------------------------------------------------------------
(* A CLI client disconnects: its route's waiting messages are discarded. *)
DiscardPending(ro) ==
  /\ Channel[ro] = "cli"
  /\ stage # "closed"
  /\ inflight' = inflight \ Discarded(ro)
  /\ pending' = [pending EXCEPT ![ro] = <<>>]
  /\ UNCHANGED <<stage, terminal, active, blocks, dispatching, controls, phase,
                 consumer, ran, forgotten>>
  /\ Notice(FALSE)

(* The deletion of a Binding reserves the routes of its account.  The IM *)
(* coordinator's lock is held over both checks.                          *)
QuietRoute_ControlsOnly(ro) == controls[ro] = NoReq
QuietRoute(ro) == active[ro] = NoReq /\ pending[ro] = <<>> /\ controls[ro] = NoReq

Reserve(a) ==
  /\ ~TurnsClosed
  /\ a \notin blocks
  /\ \A ro \in AccountRoutes[a] : QuietRoute(ro)
  /\ blocks' = blocks \union {a}
  /\ UNCHANGED <<stage, inflight, terminal, active, pending, dispatching, controls,
                 phase, consumer, noticed, ran, forgotten>>

(* The deletion ends, done or failed: release_route_block, then _notify_idle. *)
ReleaseBlock(a) ==
  /\ a \in blocks
  /\ blocks' = blocks \ {a}
  /\ UNCHANGED <<stage, inflight, terminal, active, pending, dispatching, controls,
                 phase, consumer, ran, forgotten>>
  /\ Notice(TRUE)

-----------------------------------------------------------------------------
(***************************************************************************)
(* Shutdown: ChannelManager.close, the three coordinators' close, then     *)
(* GatewayTurnCoordinator.close in its two parts.                          *)
(***************************************************************************)
StopDelivery ==
  /\ stage = "open"
  /\ consumer \notin dispatching
  /\ stage' = "detached"
  /\ consumer' = NoReq
  /\ UNCHANGED <<turnVars, dispatching, controls, phase, noticed, ran, forgotten>>

SealAdapters ==
  /\ stage = "detached"
  /\ stage' = "sealed"
  /\ controls' = [ro \in Route |-> IF Channel[ro] = "im" THEN NoReq ELSE controls[ro]]
  /\ UNCHANGED <<turnVars, dispatching, phase, consumer, ran, forgotten>>
  /\ Notice(FALSE)

BeginClose ==
  /\ stage = "sealed"
  /\ stage' = "closing"
  /\ UNCHANGED <<turnVars, dispatching, controls, phase, consumer, noticed, ran, forgotten>>

FinishClose ==
  /\ stage = "closing"
  /\ stage' = "closed"
  /\ phase' = [r \in Req |-> IF r \in Running THEN "idle" ELSE phase[r]]
  /\ inflight' = {}
  /\ active' = [ro \in Route |-> NoReq]
  /\ pending' = [ro \in Route |-> <<>>]
  /\ blocks' = {}
  /\ UNCHANGED <<terminal, dispatching, controls, consumer, ran, forgotten>>
  /\ Notice(FALSE)

-----------------------------------------------------------------------------
Next ==
  \/ \E r \in Req :
       \/ Submit(r) \/ DispatchOk(r) \/ DispatchRaises(r) \/ DispatchCancelled(r)
       \/ Consume(r) \/ BeginTurn(r) \/ FinishTurn(r) \/ PublishTerminal(r)
       \/ Deliver(r) \/ WebSendTimesOut(r) \/ CompleteRoute(r)
  \/ \E ro \in Route : DiscardPending(ro)
  \/ \E a \in Account : Reserve(a) \/ ReleaseBlock(a)
  \/ StopDelivery \/ SealAdapters \/ BeginClose \/ FinishClose

Spec == Init /\ [][Next]_vars

(***************************************************************************)
(* Fairness: asyncio runs every ready task, so a dispatch, a spawned task, *)
(* a turn and the consumer's next step are not put off for ever.  The      *)
(* outbound queue is FIFO, hence a published reply cannot be overtaken for *)
(* ever either: strong fairness for taking it.  Nothing forces messages to *)
(* arrive, clients to disconnect, deletions, failures or a shutdown to     *)
(* start; a shutdown that started goes on.  A dispatch callback only puts  *)
(* the message on an unbounded in-process queue: it may fail, but not every *)
(* time for ever (strong fairness).  A turn that asks for an approval ends *)
(* because somebody answers or stops it, an assumption on the user.        *)
(***************************************************************************)
Fairness ==
  /\ \A r \in Req :
       /\ WF_vars(DispatchOk(r) \/ DispatchRaises(r))
       /\ SF_vars(DispatchOk(r))
       /\ WF_vars(Consume(r))
       /\ WF_vars(BeginTurn(r))
       /\ WF_vars(FinishTurn(r))
       /\ WF_vars(PublishTerminal(r))
       /\ SF_vars(Deliver(r) \/ WebSendTimesOut(r))
       /\ WF_vars(CompleteRoute(r))
  /\ WF_vars(SealAdapters \/ BeginClose \/ FinishClose)

FairSpec == Spec /\ Fairness

-----------------------------------------------------------------------------
(***************************************************************************)
(* Properties.                                                             *)
(***************************************************************************)

(* Every variable has its type, and the replay cache of terminal replies   *)
(* never exceeds _TERMINAL_CACHE_LIMIT (turns.py:_run_message).            *)
TypeOK ==
  /\ stage \in Stages
  /\ inflight \subseteq Req
  /\ terminal \in Seq(Req) /\ Len(terminal) <= TerminalLimit
  /\ active \in [Route -> Req \union {NoReq}]
  /\ pending \in [Route -> Seq(Req)]
  /\ blocks \subseteq Account
  /\ dispatching \subseteq Req
  /\ controls \in [Route -> Req \union {NoReq}]
  /\ phase \in [Req -> Phases]
  /\ consumer \in Req \union {NoReq}
  /\ noticed \in BOOLEAN
  /\ ran \subseteq Req
  /\ forgotten \subseteq Req

(* A request is live from its dispatch until its reply left the outbound queue. *)
Live(r) == r \in dispatching \/ phase[r] # "idle"

(* Until shutdown completes, whatever is anywhere between the dispatch and  *)
(* the delivery of its reply is THE active request of its route: two turns  *)
(* of one route never overlap, even while callbacks fail or are cancelled   *)
(* (turns.py:submit, _rollback_dispatch, complete_route_turn).              *)
OneTurnPerRoute ==
  stage # "closed" => \A r \in Req : Live(r) => active[RouteOf[r]] = r

(* _inflight, which decides duplicates and idleness, is exactly the waiting *)
(* requests and the active ones without a terminal: no id is left behind    *)
(* when a line is discarded or a dispatch rolled back, none is forgotten    *)
(* early, and none is also in the replay cache (turns.py).                  *)
Working(r) == r \in dispatching \/ phase[r] \in {"queued", "spawned", "running"}
InflightAccounting ==
  stage # "closed" =>
    /\ inflight = (UNION {Elems(pending[ro]) : ro \in Route}) \union {r \in Req : Working(r)}
    /\ inflight \intersect Elems(terminal) = {}

(* A channel coordinator's control always belongs to the request the turn   *)
(* coordinator holds active on that route, and a request that is past its   *)
(* dispatch has its control until its reply is delivered or the adapters    *)
(* are sealed: Stop, approvals and the release find the right turn          *)
(* (im.py:accept, on_delivery; cli_gateway.py:send; coordinator.py:send).   *)
ControlMatchesActive ==
  stage # "closed" =>
    /\ \A ro \in Route : controls[ro] # NoReq =>
         active[ro] = controls[ro] /\ active[ro] \notin dispatching
    /\ AdapterOpen => \A r \in Req : phase[r] # "idle" => controls[RouteOf[r]] = r

(* While a Binding's routes are reserved for its deletion nothing of theirs *)
(* is accepted, waiting, running or undelivered                             *)
(* (im.py:reserve_matching_routes_if_idle, host.py:delete_channel_binding). *)
BlockedRouteIsQuiet ==
  \A ro \in Route : Blocked(ro) =>
    QuietRoute(ro) /\ \A r \in Req : RouteOf[r] = ro => ~Live(r)

(* When everything has come to rest and the Gateway is idle, on_idle has    *)
(* been called since the last activity: a pending Runtime replacement is    *)
(* never left waiting for a notification that does not come                 *)
(* (turns.py:_run_message, _rollback_dispatch; on_idle of the coordinators).*)
NoticedIdle ==
  (stage = "open" /\ GloballyIdle /\ consumer = NoReq /\ dispatching = {}) => noticed

(* The coordinator implements one line per route: served in acceptance      *)
(* order, one at a time, none twice while it is remembered, none while held.*)
Fifo == INSTANCE RouteFifo WITH
  line <- [ro \in Route |-> IF active[ro] = NoReq THEN <<>> ELSE <<active[ro]>> \o pending[ro]],
  served <- ran \ forgotten,
  held <- UNION {AccountRoutes[a] : a \in blocks}
ImplementsFifo == Fifo!Spec

(* Every accepted IM or CLI message leaves _inflight: no failure of a       *)
(* callback or of a delivery blocks its route for ever (phase-8 document,   *)
(* "releases the FIFO whether the delivery succeeded or not").              *)
AcceptedEnds ==
  \A r \in Req : Channel[RouteOf[r]] # "web" => (r \in inflight ~> r \notin inflight)

(* The same for a Web route: once its reply is published, the route is      *)
(* handed on.  This is what the code does NOT guarantee (WebSendTimesOut).  *)
WebRouteReleased ==
  \A r \in Req : Channel[RouteOf[r]] = "web" =>
    (phase[r] = "published" ~> active[RouteOf[r]] # r)
=============================================================================
