----------------------------- MODULE AgentTurn -----------------------------
(***************************************************************************)
(* One turn after another of a session: the state machine of               *)
(* runtime/state.py under the session lock, the model and tool loop of     *)
(* runtime/agent_loop.py that its RUN state drives, the compaction of      *)
(* memory/short_term.py and the files of sessions/store.py that SAVE       *)
(* writes one after the other.  A turn can be stopped, guided, cancelled,  *)
(* fail at any call, or end in the middle of SAVE with the process.        *)
(***************************************************************************)
EXTENDS Naturals, Sequences, SequencesExt, FiniteSetsExt

CONSTANTS
  MaxTurns,         \* bound on the turns
  MaxToolRounds,    \* runtime.max_tool_rounds
  AnswerSizes,      \* tokens an answer may have; other messages have one
  CompactThreshold, RecentLimit, ContextLimit, \* the three token limits
  MaxTurnFaults     \* bound on failures, cancellations and crashes

ASSUME TurnAssumption ==
  /\ MaxTurns \in Nat /\ MaxToolRounds \in Nat \ {0} /\ AnswerSizes \subseteq Nat \ {0}
  /\ 1 \in AnswerSizes /\ CompactThreshold \in Nat /\ RecentLimit \in Nat
  /\ ContextLimit \in Nat /\ MaxTurnFaults \in Nat

VARIABLES
  turnState,   \* TurnState, or "idle" between two turns
  turn,        \* what TurnContext holds
  loop,        \* where AgentLoop.run is, in which round
  stop, guidance,       \* a stop was requested; guidance nobody has consumed
  delegated, overdue,   \* the turn has a Run (run_id); its deadline has passed
  store,       \* messages.jsonl, and summary and uncompacted_history of session.json
  turnFaults,
  handed, unguarded,    \* history: finish_parent_turn calls, a turn left by an await no
                        \* handler guards,
  interrupted, uneven   \* turns SAVE ended early for, turns that compacted a window from
                        \* the file with a message of their own that got no answer

controlVars == <<stop, guidance>>
runVars == <<delegated, overdue, handed, unguarded>>
pastVars == <<interrupted, uneven>>
turnVars == <<turnState, turn, loop, controlVars, runVars, store, turnFaults, pastVars>>

NoTurn == [n |-> 0]
OutOfLoop == [at |-> "out", round |-> 0]
EmptyStore == [messages |-> <<>>, summary |-> {}, window |-> <<>>]

TurnInit ==
  /\ turnState = "idle" /\ turn = NoTurn /\ loop = OutOfLoop
  /\ stop = FALSE /\ guidance = FALSE
  /\ delegated = FALSE /\ overdue = FALSE /\ handed = 0 /\ unguarded = FALSE
  /\ store = EmptyStore /\ turnFaults = 0 /\ interrupted = {} /\ uneven = {}

TurnFault == turnFaults < MaxTurnFaults /\ turnFaults' = turnFaults + 1

-----------------------------------------------------------------------------
(* Messages and their tokens. *)
Message(role, size, part) == [turn |-> turn.n, role |-> role, size |-> size, part |-> part]
TokensOf(history) == FoldSeq(LAMBDA m, n : n + m.size, 0, history)

(* What one turn adds, in the order in which it is saved. *)
NewMessages ==
  << Message("user", 1, 1) >>
  \o (IF turn.guided THEN << Message("user", 1, 2) >> ELSE <<>>)
  \o (IF turn.content > 0 \/ ~turn.cancelled
      THEN << Message("assistant", turn.content, 3) >> ELSE <<>>)

VirtualHistory == turn.window \o NewMessages

(* build_session_context: the snapshot, or all messages when it is empty. *)
HasSnapshot(s) == s.window # <<>> \/ s.summary # {}
SessionHistory(s) == IF HasSnapshot(s) THEN s.window ELSE s.messages

ContextTokens(summary, history) == TokensOf(history) + (IF summary = {} THEN 0 ELSE 1)

(* complete_turns: from the front, a user message directly followed by an  *)
(* assistant message; the index of the user message of every such pair.    *)
PairsOf(history) ==
  {i \in 1..(Len(history) - 1) : history[i].role = "user" /\ history[i + 1].role = "assistant"}

PairTokens(history, from) ==
  LET pairs == {i \in PairsOf(history) : i >= from}
  IN MapThenSumSet(LAMBDA i : history[i].size + history[i + 1].size, pairs)

(* recent_window: the latest pairs that fit together. *)
InRecentWindow(history, i) ==
  \E p \in PairsOf(history) :
     /\ i = p \/ i = p + 1
     /\ \A q \in PairsOf(history) : q >= p => PairTokens(history, q) <= RecentLimit

(* What is at the given places, in order. *)
AtPlaces(history, places) ==
  LET rank(i) == Cardinality({j \in places : j <= i})
  IN [k \in 1..Cardinality(places) |-> history[CHOOSE i \in places : rank(i) = k]]

RecentWindow(history) ==
  AtPlaces(history, {i \in 1..Len(history) : InRecentWindow(history, i)})

(* session.json keeps no ids: the records of a window that was loaded from *)
(* it all have the same, the empty one.                                    *)
SameId(i, k) == i = k \/ (turn.reloaded /\ i <= Len(turn.window) /\ k <= Len(turn.window))

(* compact_source: what has not the id of a message that the window keeps. *)
IdIsKept(history, i) == \E k \in 1..Len(history) : InRecentWindow(history, k) /\ SameId(i, k)

CompactSource_PairsOnly(history) ==
  {history[i] : i \in {k \in 1..Len(history) : ~IdIsKept(history, k)
                       /\ \E p \in PairsOf(history) : k = p \/ k = p + 1}}
CompactSource(history) ==
  {history[i] : i \in {k \in 1..Len(history) : ~IdIsKept(history, k)}}

ShouldCompact(history) ==
  \/ TokensOf(history) > CompactThreshold
  \/ ContextTokens(turn.summary, history) > ContextLimit

-----------------------------------------------------------------------------
(* COMMAND, SESSION and BUILD. *)
StartsTurn ==
  /\ turnState = "idle" /\ turn.n < MaxTurns
  /\ turnState' = "COMMAND"
  /\ turn' = [n |-> turn.n + 1, summary |-> {}, window |-> <<>>, reloaded |-> FALSE,
              guided |-> FALSE, content |-> 0, cancelled |-> FALSE]
  /\ stop' = FALSE /\ guidance' = FALSE
  /\ delegated' = FALSE /\ overdue' = FALSE /\ handed' = 0 /\ unguarded' = FALSE
  /\ UNCHANGED <<loop, store, turnFaults, pastVars>>

(* A slash command, or a rejected one, skips the model; /clear removes the *)
(* directory of the session.                                               *)
HandlesCommand ==
  /\ turnState = "COMMAND"
  /\ \/ turnState' = "SESSION" /\ UNCHANGED store
     \/ turnState' = "RESPOND" /\ store' \in {store, EmptyStore}
  /\ UNCHANGED <<turn, loop, controlVars, runVars, turnFaults, pastVars>>

(* The expired session is removed and made anew before it is loaded. *)
LoadsSession ==
  /\ turnState = "SESSION"
  /\ turnState' = "BUILD"
  /\ store' \in {store, EmptyStore}
  /\ turn' = [turn EXCEPT !.summary = store'.summary, !.window = SessionHistory(store'),
                          !.reloaded = HasSnapshot(store')]
  /\ UNCHANGED <<loop, controlVars, runVars, turnFaults, pastVars>>

(* The message, the whole context included, has to fit; it is refused also *)
(* for images or a mode that the settings do not allow, and it fails when  *)
(* messages.jsonl ends in a line that a crash or a full disk cut off.      *)
BuildsContext ==
  /\ turnState = "BUILD"
  /\ \/ /\ ContextTokens(turn.summary, turn.window) + 1 <= ContextLimit
        /\ turnState' = "RUN" /\ loop' = [at |-> "top", round |-> 1]
     \/ turnState' = "RESPOND" /\ UNCHANGED loop
  /\ UNCHANGED <<turn, controlVars, runVars, store, turnFaults, pastVars>>

-----------------------------------------------------------------------------
(* RUN.  The user stops or guides the turn, and the deadline of its Run    *)
(* passes, at any moment.                                                  *)
StopRequested ==
  /\ turnState = "RUN" /\ ~stop /\ stop' = TRUE
  /\ UNCHANGED <<turnState, turn, loop, guidance, runVars, store, turnFaults, pastVars>>

GuidanceArrives ==
  /\ turnState = "RUN" /\ ~guidance /\ ~turn.guided /\ guidance' = TRUE
  /\ UNCHANGED <<turnState, turn, loop, stop, runVars, store, turnFaults, pastVars>>

DeadlinePasses ==
  /\ turnState = "RUN" /\ delegated /\ ~overdue /\ overdue' = TRUE
  /\ UNCHANGED <<turnState, turn, loop, controlVars, delegated, handed, unguarded, store,
                 turnFaults, pastVars>>

(* finish_multi_agent: the Run, if there is one by now, is told the end of *)
(* its parent turn.                                                        *)
HandsOver(run) == handed' = IF run THEN handed + 1 ELSE handed

Leaves(next) == turnState' = next /\ loop' = OutOfLoop

(* finish: the turn has a result and goes on to COMPACT. *)
Finish(content, cancelled, guided) ==
  /\ Leaves("COMPACT")
  /\ turn' = [turn EXCEPT !.content = content, !.cancelled = cancelled, !.guided = guided]
  /\ HandsOver(delegated)
  /\ UNCHANGED <<delegated, overdue, unguarded>>

(* _apply_turn_control, the deadline and check_parent_synthesis, at the    *)
(* start of a round (content is then empty) and after its tools.           *)
Checkpoint(content, next) ==
  \/ stop /\ Finish(content, TRUE, turn.guided) /\ UNCHANGED guidance
  \/ /\ ~stop /\ guidance' = FALSE
     /\ LET guided == turn.guided \/ guidance
        IN \/ delegated /\ Finish(1, FALSE, guided)
           \/ /\ ~overdue /\ loop' = next
              /\ turn' = [turn EXCEPT !.guided = guided]
              /\ UNCHANGED <<turnState, runVars>>

TopOfRound ==
  /\ turnState = "RUN" /\ loop.at = "top"
  /\ Checkpoint(0, [loop EXCEPT !.at = "model"])
  /\ UNCHANGED <<stop, store, turnFaults, pastVars>>

(* The answer of the model: text, nothing, or calls, with or without text. *)
ModelAnswers ==
  /\ turnState = "RUN" /\ loop.at = "model"
  /\ \/ \E size \in AnswerSizes : Finish(size, stop, turn.guided)
     \/ stop /\ \E size \in {0, 1} : Finish(size, TRUE, turn.guided)
     \/ ~stop /\ loop' = [loop EXCEPT !.at = "tools"] /\ UNCHANGED <<turnState, turn, runVars>>
  /\ UNCHANGED <<controlVars, store, turnFaults, pastVars>>

(* The calls of a round may hold the one that delegates. *)
ToolsEnd ==
  /\ turnState = "RUN" /\ loop.at = "tools"
  /\ loop' = [loop EXCEPT !.at = "bottom"]
  /\ delegated' \in {delegated, TRUE}
  /\ UNCHANGED <<turnState, turn, controlVars, overdue, handed, unguarded, store, turnFaults,
                 pastVars>>

BottomOfRound ==
  /\ turnState = "RUN" /\ loop.at = "bottom"
  /\ \E content \in {0, 1} :
       Checkpoint(content, IF loop.round = MaxToolRounds THEN [loop EXCEPT !.at = "summary"]
                           ELSE [at |-> "top", round |-> loop.round + 1])
  /\ UNCHANGED <<stop, store, turnFaults, pastVars>>

(* After the last round the model sums up without tools, or a fixed text does. *)
SummaryEnds ==
  /\ turnState = "RUN" /\ loop.at = "summary"
  /\ \/ stop /\ Finish(0, TRUE, turn.guided)
     \/ ~stop /\ \E size \in AnswerSizes : Finish(size, FALSE, turn.guided)
  /\ UNCHANGED <<controlVars, store, turnFaults, pastVars>>

AtCall == turnState = "RUN" /\ loop.at \in {"model", "tools", "summary"}

(* The deadline of the Run bounds every call; the turn ends with a fixed text. *)
CallTimesOut_Silent ==
  /\ AtCall /\ overdue
  /\ Leaves("COMPACT")
  /\ turn' = [turn EXCEPT !.content = 1]
  /\ UNCHANGED <<controlVars, runVars, store, turnFaults, pastVars>>
CallTimesOut ==
  /\ AtCall /\ overdue
  /\ Finish(1, FALSE, turn.guided)
  /\ UNCHANGED <<controlVars, store, turnFaults, pastVars>>

(* A call raises, or the task of the turn is cancelled in one; a delegation *)
(* of the same round may have come before it.                               *)
CallFails(next) ==
  /\ AtCall /\ TurnFault
  /\ Leaves(next)
  /\ delegated' \in (IF loop.at = "tools" THEN {delegated, TRUE} ELSE {delegated})
  /\ HandsOver(delegated')
  /\ UNCHANGED <<turn, controlVars, overdue, unguarded, store, pastVars>>

(* No handler guards the checkpoints nor the last on_delta. *)
UnguardedCallFails(next) ==
  /\ turnState = "RUN" /\ loop.at \in {"top", "bottom", "summary"} /\ TurnFault
  /\ Leaves(next)
  /\ unguarded' = TRUE
  /\ UNCHANGED <<turn, controlVars, delegated, overdue, handed, store, pastVars>>

-----------------------------------------------------------------------------
(* COMPACT, SAVE and RESPOND. *)
(* A guided turn, or one that is stopped before it has a text, has a user   *)
(* message without an answer.                                               *)
Unanswered == turn.guided \/ (turn.cancelled /\ turn.content = 0)

Compacts ==
  /\ turnState = "COMPACT"
  /\ turnState' = "SAVE"
  /\ LET history == VirtualHistory
     IN IF ShouldCompact(history) /\ CompactSource(history) # {}
        THEN /\ turn' = [turn EXCEPT !.summary = @ \union CompactSource(history),
                                     !.window = RecentWindow(history)]
             /\ uneven' = IF turn.reloaded /\ Unanswered THEN uneven \union {turn.n} ELSE uneven
        ELSE turn' = [turn EXCEPT !.window = history] /\ UNCHANGED uneven
  /\ UNCHANGED <<loop, controlVars, runVars, store, turnFaults, interrupted>>

(* The model that writes the summary fails or returns none, a hook raises, *)
(* or the turn is cancelled: nothing of the turn is saved.                 *)
CompactFails(next) ==
  /\ turnState = "COMPACT" /\ TurnFault
  /\ turnState' = next
  /\ UNCHANGED <<turn, loop, controlVars, runVars, store, pastVars>>

(* SAVE appends the messages and then replaces session.json twice, without  *)
(* giving way to another task; written: how many of these writes succeed.   *)
Writes(written) ==
  LET n == Len(NewMessages)
  IN /\ written \in 0..(n + 2)
     /\ store' = [messages |-> store.messages \o SubSeq(NewMessages, 1, IF written < n THEN written ELSE n),
                  summary |-> IF written > n THEN turn.summary ELSE store.summary,
                  window |-> IF written > n + 1 THEN turn.window ELSE store.window]
     /\ interrupted' = IF written \in 1..(n + 1) THEN interrupted \union {turn.n} ELSE interrupted
     /\ UNCHANGED uneven

(* session.json is overwritten in place, after each message too.  Cut off,  *)
(* it is no session to its readers, and the next turn makes a new one.      *)
SnapshotIsCut == store' = EmptyStore /\ UNCHANGED pastVars

Saves ==
  /\ turnState = "SAVE"
  /\ turnState' = "RESPOND"
  /\ Writes(Len(NewMessages) + 2)
  /\ UNCHANGED <<turn, loop, controlVars, runVars, turnFaults>>

(* A write raises, also one of the tool calls, the usage or the event that *)
(* follow: the turn ends as a failure with what has been written.          *)
SaveFails(next) ==
  /\ turnState = "SAVE" /\ TurnFault
  /\ turnState' = next
  /\ SnapshotIsCut \/ \E written \in 0..5 : Writes(written)
  /\ UNCHANGED <<turn, loop, controlVars, runVars>>

Responds ==
  /\ turnState = "RESPOND"
  /\ turnState' = "idle"
  /\ UNCHANGED <<turn, loop, controlVars, runVars, store, turnFaults, pastVars>>

(* Between two turns, and with the process itself, nothing is left of one. *)
TurnCrashes ==
  /\ turnState \notin {"idle", "SAVE"} /\ TurnFault
  /\ Leaves("idle")
  /\ unguarded' = TRUE
  /\ UNCHANGED <<turn, controlVars, delegated, overdue, handed, store, pastVars>>

TurnNext ==
  \/ StartsTurn \/ HandlesCommand \/ LoadsSession \/ BuildsContext
  \/ StopRequested \/ GuidanceArrives \/ DeadlinePasses
  \/ TopOfRound \/ ModelAnswers \/ ToolsEnd \/ BottomOfRound \/ SummaryEnds \/ CallTimesOut
  \/ \E next \in {"RESPOND", "idle"} :
       CallFails(next) \/ UnguardedCallFails(next) \/ CompactFails(next) \/ SaveFails(next)
  \/ Compacts \/ Saves \/ Responds \/ TurnCrashes

TurnSpec == TurnInit /\ [][TurnNext]_turnVars

-----------------------------------------------------------------------------
(* The model goes on knowing every message that was saved: it is in the    *)
(* summary or in the window, and in only one of them, however turns are    *)
(* stopped, guided, refused, compacted or fail.  Excepted are the messages *)
(* of a turn whose SAVE ended between its writes (messages.jsonl has them, *)
(* the snapshot that the next turn prefers does not), and what is older    *)
(* than a turn that was uneven: what its window does not keep is lost when *)
(* it keeps another record without an id.                                  *)
NothingForgotten ==
  LET window == Range(SessionHistory(store))
  IN turnState = "idle" =>
       /\ \A m \in Range(store.messages) :
            m.turn \in interrupted \/ (\E t \in uneven : m.turn < t) \/ m \in store.summary \union window
       /\ interrupted = {} => store.summary \intersect window = {}

(* A turn that delegated tells the coordinator its end, exactly once, when *)
(* it leaves RUN by any exit that a handler guards.                        *)
RunHandedOver ==
  turnState # "RUN" /\ ~unguarded => handed = (IF delegated THEN 1 ELSE 0)
=============================================================================
