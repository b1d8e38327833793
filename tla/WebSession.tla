----------------------------- MODULE WebSession -----------------------------
(***************************************************************************)
(* One session of the Web application: its turns, the Catalog actions that *)
(* run beside them (gateway/catalog_actions.py), the numbered events both  *)
(* publish (web/backend/events.py), and a browser that connects, follows   *)
(* them and reconnects.  The hub's lock is held while a subscriber's       *)
(* snapshot is read, so every publisher may be suspended before its event  *)
(* gets its number.  FIFO and slots of the turns are in GatewayTurns and   *)
(* ExecutionSlots: here a turn waits, runs and is delivered.               *)
(***************************************************************************)
EXTENDS Naturals, Sequences

CONSTANTS
  BufferSize,    \* events the hub keeps for a replay
  MaxMessages,   \* bound on the messages
  MaxExtras      \* bound on Catalog actions, Stops, guidance, and on failed turns and
                 \* actions, disconnections and restarts together

ASSUME WebAssumption ==
  /\ BufferSize \in Nat \ {0}
  /\ MaxMessages \in Nat /\ MaxExtras \in Nat

VARIABLES
  waiters,      \* messages that wait for the route
  active,      \* the message with a control, and where its turn is; guidance it got
  compact,   \* the compaction: pc, and the context it has read or still has to write
  dream,     \* a Catalog action of global scope: none, running, ended
  context,   \* the stored session: messages in the summary, and in the window
  said,      \* messages.jsonl
  hub,       \* the events kept, as number and type, and the last number
  stopper,   \* a Stop that waits for the lock of the hub: its message, 0 without one
  browser,   \* pc, queue, last number, does it show a running task, snapshot under way
  webCounts, \* messages and extras so far
  misled,    \* history: the browser was told of something that was over already
  overlap    \* history: a turn was dispatched while a compaction was under way

webVars == <<waiters, active, compact, dream, context, said, hub, stopper, browser, webCounts, misled, overlap>>

NoWebTurn == [msg |-> 0, pc |-> "none", base |-> [sum |-> {}, win |-> {}], guidance |-> FALSE]
NoCompaction == [pc |-> "none", sum |-> {}, win |-> {}]
NoBrowser == [pc |-> "off", queue |-> <<>>, after |-> 0, running |-> FALSE, view |-> FALSE]
EmptyHub == [events |-> <<>>, last |-> 0]
Spare == webCounts.extras < MaxExtras

WebInit ==
  /\ waiters = {} /\ active = NoWebTurn /\ compact = NoCompaction /\ dream = "none"
  /\ context = [sum |-> {}, win |-> {}] /\ said = {} /\ hub = EmptyHub /\ stopper = 0
  /\ browser = NoBrowser /\ misled = FALSE /\ overlap = FALSE
  /\ webCounts = [messages |-> 0, extras |-> 0]

Bump(what) == webCounts' = [webCounts EXCEPT ![what] = @ + 1]

-----------------------------------------------------------------------------
(* SessionEventHub.  The lock is taken while a snapshot is read. *)
HubIsFree_Always == TRUE
HubIsFree == browser.pc # "snapshot"

Kept(events) == IF Len(events) > BufferSize THEN Tail(events) ELSE events

Publish(type) ==
  LET event == [id |-> hub.last + 1, type |-> type]
  IN /\ HubIsFree
     /\ hub' = [events |-> Kept(Append(hub.events, event)), last |-> event.id]
     /\ browser' = IF browser.pc = "on" THEN [browser EXCEPT !.queue = Append(@, event)] ELSE browser

Silent == UNCHANGED <<hub, browser>>

-----------------------------------------------------------------------------
(* A turn has a control from its dispatch to the end of its delivery.  (The *)
(* route is given on after the control is gone: pc = "popped".)             *)
HasControl == active.pc \notin {"none", "popped"}
Compacting == compact.pc \in {"begun", "loaded", "halved"}
Active == HasControl \/ compact.pc # "none" \/ dream # "none"

Dispatched(m) ==
  /\ active' = [NoWebTurn EXCEPT !.msg = m, !.pc = "dispatched"]
  /\ overlap' = (overlap \/ Compacting)

(* send announces the message, then submits it. *)
Send ==
  /\ webCounts.messages < MaxMessages /\ Bump("messages")
  /\ Publish("begin")
  /\ LET m == webCounts.messages + 1
     IN IF active.pc = "none" THEN Dispatched(m) /\ UNCHANGED waiters
        ELSE waiters' = waiters \cup {m} /\ UNCHANGED <<active, overlap>>
  /\ UNCHANGED <<compact, dream, context, said, stopper, misled>>

WebTurnLoads ==
  /\ active.pc = "dispatched"
  /\ active' = [active EXCEPT !.pc = "running", !.base = context]
  /\ Silent /\ UNCHANGED <<waiters, compact, dream, context, said, stopper, webCounts, misled, overlap>>

(* send_guidance.  (Its event leaves what the browser shows as it is.) *)
Guide ==
  /\ active.pc \in {"dispatched", "running", "saved"} /\ ~active.guidance
  /\ Spare /\ Bump("extras")
  /\ active' = [active EXCEPT !.guidance = TRUE]
  /\ Silent /\ UNCHANGED <<waiters, compact, dream, context, said, stopper, misled, overlap>>

(* stop may be suspended, and then announces itself after the turn. *)
Stop ==
  /\ HasControl /\ stopper = 0 /\ Spare /\ Bump("extras")
  /\ IF HubIsFree
     THEN Publish("begin") /\ UNCHANGED stopper /\ misled' = (misled \/ active.pc = "pending")
     ELSE stopper' = active.msg /\ Silent /\ UNCHANGED misled
  /\ UNCHANGED <<waiters, active, compact, dream, context, said, overlap>>

StopIsAnnounced ==
  /\ stopper # 0 /\ Publish("begin") /\ stopper' = 0
  /\ misled' = (misled \/ active.msg # stopper \/ active.pc \in {"pending", "popped"})
  /\ UNCHANGED <<waiters, active, compact, dream, context, said, webCounts, overlap>>

(* SAVE writes the context the turn has loaded, and what it added. *)
WebTurnSaves ==
  /\ active.pc = "running"
  /\ active' = [active EXCEPT !.pc = "saved", !.base = NoWebTurn.base]
  /\ said' = said \cup {active.msg}
  /\ context' = [active.base EXCEPT !.win = @ \cup {active.msg}]
  /\ Silent /\ UNCHANGED <<waiters, compact, dream, stopper, webCounts, misled, overlap>>

WebTurnFails ==
  /\ active.pc \in {"dispatched", "running"} /\ Spare /\ Bump("extras")
  /\ active' = [active EXCEPT !.pc = "saved", !.base = NoWebTurn.base]
  /\ Silent /\ UNCHANGED <<waiters, compact, dream, context, said, stopper, misled, overlap>>

(* deliver: the terminal event, guidance nobody has read, then the control. *)
Deliver ==
  /\ active.pc = "saved" /\ Publish("end") /\ misled' = FALSE
  /\ active' = [active EXCEPT !.pc = IF active.guidance THEN "pending" ELSE "popped"]
  /\ UNCHANGED <<waiters, compact, dream, context, said, stopper, webCounts, overlap>>

DeliverPending ==
  /\ active.pc = "pending" /\ Publish("end") /\ misled' = FALSE
  /\ active' = [active EXCEPT !.pc = "popped"]
  /\ UNCHANGED <<waiters, compact, dream, context, said, stopper, webCounts, overlap>>

(* complete_route_turn hands the route to the oldest message. *)
RouteGoesOn ==
  /\ active.pc = "popped"
  /\ IF waiters = {} THEN active' = NoWebTurn /\ UNCHANGED <<waiters, overlap>>
     ELSE LET m == CHOOSE m \in waiters : \A n \in waiters : m <= n
          IN waiters' = waiters \ {m} /\ Dispatched(m)
  /\ Silent /\ UNCHANGED <<compact, dream, context, said, stopper, webCounts, misled>>

-----------------------------------------------------------------------------
(* Catalog actions.  One of the session's scope wants the session for       *)
(* itself; send does not ask whether one is under way.                      *)
SessionIsFree_OfActions == compact.pc = "none" /\ dream = "none"
SessionIsFree == ~HasControl /\ compact.pc = "none" /\ dream = "none"

CompactBegins ==
  /\ SessionIsFree /\ Spare /\ Bump("extras")
  /\ compact' = [NoCompaction EXCEPT !.pc = "begun"]
  /\ Silent /\ UNCHANGED <<waiters, active, dream, context, said, stopper, misled, overlap>>

(* compact_session reads the session, and later writes what it has read. *)
CompactLoads ==
  /\ compact.pc = "begun" /\ Publish("begin")
  /\ compact' = [pc |-> "loaded", sum |-> context.sum, win |-> context.win]
  /\ UNCHANGED <<waiters, active, dream, context, said, stopper, webCounts, misled, overlap>>

(* The older messages go into the summary; without any the window is        *)
(* written back as it was.                                                  *)
CompactSummarizes(newest) ==
  /\ compact.pc = "loaded"
  /\ LET source == {m \in compact.win : m <= newest}
     IN IF source = {}
        THEN context' = [context EXCEPT !.win = compact.win] /\ compact' = [NoCompaction EXCEPT !.pc = "written"]
        ELSE /\ context' = [context EXCEPT !.sum = compact.sum \cup source]
             /\ compact' = [compact EXCEPT !.pc = "halved", !.win = @ \ source]
  /\ Silent /\ UNCHANGED <<waiters, active, dream, said, stopper, webCounts, misled, overlap>>

CompactWritesWindow ==
  /\ compact.pc = "halved"
  /\ context' = [context EXCEPT !.win = compact.win]
  /\ compact' = [NoCompaction EXCEPT !.pc = "written"]
  /\ Silent /\ UNCHANGED <<waiters, active, dream, said, stopper, webCounts, misled, overlap>>

CompactEnds ==
  /\ \/ compact.pc = "written" /\ UNCHANGED webCounts
     \/ compact.pc \in {"loaded", "halved"} /\ Spare /\ Bump("extras")
  /\ Publish("end") /\ misled' = FALSE
  /\ compact' = [NoCompaction EXCEPT !.pc = "ended"]
  /\ UNCHANGED <<waiters, active, dream, context, said, stopper, overlap>>

CompactFinishes ==
  /\ compact.pc = "ended" /\ compact' = NoCompaction
  /\ Silent /\ UNCHANGED <<waiters, active, dream, context, said, stopper, webCounts, misled, overlap>>

(* run_catalog_action, for the abilities of global scope: one at a time,    *)
(* beside the turns of the session.                                         *)
DreamBegins ==
  /\ dream = "none" /\ Spare /\ Bump("extras")
  /\ dream' = "begun"
  /\ Silent /\ UNCHANGED <<waiters, active, compact, context, said, stopper, misled, overlap>>

DreamRuns ==
  /\ dream = "begun" /\ dream' = "running" /\ Publish("begin")
  /\ UNCHANGED <<waiters, active, compact, context, said, stopper, webCounts, misled, overlap>>

DreamEnds ==
  /\ dream = "running" /\ dream' = "ended" /\ Publish("end") /\ misled' = FALSE
  /\ UNCHANGED <<waiters, active, compact, context, said, stopper, webCounts, overlap>>

DreamFinishes ==
  /\ dream = "ended" /\ dream' = "none"
  /\ Silent /\ UNCHANGED <<waiters, active, compact, context, said, stopper, webCounts, misled, overlap>>

-----------------------------------------------------------------------------
(* The browser.  subscribe replays what the hub has kept after browser.after *)
(* (the numbers are consecutive, so that is where the buffer goes on), or    *)
(* else reads a snapshot, which is not told of the end of an action that it  *)
(* still shows.                                                              *)
Replayed == SubSeq(hub.events, browser.after - Head(hub.events).id + 2, Len(hub.events))
CanReplay == hub.events # <<>> /\ browser.after >= Head(hub.events).id - 1
OnlyEnded == ~HasControl /\ compact.pc \in {"none", "ended"} /\ dream \in {"none", "ended"}

Subscribe ==
  /\ browser.pc = "off"
  /\ IF CanReplay
     THEN browser' = [browser EXCEPT !.pc = "on", !.queue = Replayed] /\ UNCHANGED misled
     ELSE /\ browser' = [browser EXCEPT !.pc = "snapshot", !.view = Active, !.after = hub.last]
          /\ misled' = (misled \/ (Active /\ OnlyEnded))
  /\ UNCHANGED <<waiters, active, compact, dream, context, said, hub, stopper, webCounts, overlap>>

SnapshotArrives ==
  /\ browser.pc = "snapshot"
  /\ browser' = [browser EXCEPT !.pc = "on", !.running = browser.view, !.view = FALSE]
  /\ UNCHANGED <<waiters, active, compact, dream, context, said, hub, stopper, webCounts, misled, overlap>>

Consume ==
  /\ browser.pc = "on" /\ browser.queue # <<>>
  /\ LET event == Head(browser.queue)
     IN browser' = [browser EXCEPT !.queue = Tail(@), !.after = event.id, !.running = (event.type # "end")]
  /\ UNCHANGED <<waiters, active, compact, dream, context, said, hub, stopper, webCounts, misled, overlap>>

(* The browser shows what ran as interrupted, and will reconnect. *)
Disconnect ==
  /\ browser.pc = "on" /\ Spare /\ Bump("extras")
  /\ browser' = [NoBrowser EXCEPT !.after = browser.after]
  /\ UNCHANGED <<waiters, active, compact, dream, context, said, hub, stopper, misled, overlap>>

WebRestarts ==
  /\ Spare /\ Bump("extras")
  /\ waiters' = {} /\ active' = NoWebTurn /\ compact' = NoCompaction /\ dream' = "none"
  /\ hub' = EmptyHub /\ stopper' = 0 /\ misled' = FALSE
  /\ browser' = [NoBrowser EXCEPT !.after = browser.after]
  /\ UNCHANGED <<context, said, overlap>>

WebNext ==
  \/ Send \/ WebTurnLoads \/ Stop \/ StopIsAnnounced \/ WebTurnSaves \/ WebTurnFails \/ Deliver
  \/ DeliverPending \/ RouteGoesOn \/ CompactBegins \/ CompactLoads \/ CompactWritesWindow
  \/ CompactEnds \/ CompactFinishes \/ DreamBegins \/ DreamRuns \/ DreamEnds \/ DreamFinishes
  \/ Guide \/ Subscribe \/ SnapshotArrives \/ Consume \/ Disconnect \/ WebRestarts
  \/ \E newest \in 0..MaxMessages : CompactSummarizes(newest)

WebSpec == WebInit /\ [][WebNext]_webVars

-----------------------------------------------------------------------------
(* A browser that has read all its events shows a running task only if one  *)
(* is there, however it reconnected, and wherever in a publication or a     *)
(* snapshot it did.  (misled: a Stop that was suspended announces itself    *)
(* after the turn, and a snapshot may show a Catalog action whose terminal  *)
(* event is out already; the next terminal event corrects both.)            *)
ClientSeesTheEnd ==
  (browser.pc = "on" /\ browser.queue = <<>> /\ browser.running /\ ~misled)
    => Active \/ active.pc = "popped" \/ waiters # {} \/ stopper # 0

(* What was said in the session stays in its summary or in its window,      *)
(* whatever a turn and a compaction write, as long as no turn is dispatched *)
(* while a compaction is under way: begin_catalog_action refuses the other  *)
(* order.                                                                   *)
CompactKeepsContext == ~overlap => said \subseteq context.sum \cup context.win
=============================================================================
