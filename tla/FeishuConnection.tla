--------------------------- MODULE FeishuConnection ---------------------------
(***************************************************************************)
(* The connection of one Feishu bot (channels/feishu_ws.py) and what the   *)
(* transport believes of it (channels/feishu.py): the SDK runs in a        *)
(* process of its own and reports over a pipe, a pump task reads the pipe, *)
(* a reconnect task replaces a process that died, and every change of the  *)
(* connection is reported to the transport, which drops what it hears from *)
(* a client it has not registered.                                         *)
(***************************************************************************)
EXTENDS Naturals, Sequences

CONSTANTS
  ReconnectTries, \* Len(_PROCESS_RECONNECT_DELAYS_SECONDS)
  MaxWsFaults     \* bound on losses, exits, failed sends and stops

ASSUME WsAssumption == ReconnectTries \in Nat \ {0} /\ MaxWsFaults \in Nat

VARIABLES
  process,    \* the SDK process: none, starting, up, down or dead
  pipe,       \* the statuses it has sent and nobody has read
  pump,       \* the pump task runs
  readyFuture,\* the future _start_process waits for
  ready, everReady, reported,  \* _ready, _ever_ready, _disconnected_reported
  reconnect,  \* the reconnect task: none, waiting or starting
  tries,      \* attempts of the reconnect task
  starting,   \* start_bot has not returned
  registered, \* the transport has the client in _clients
  believed,   \* _states: the bot is connected
  dropped, doubted, \* history: a report was dropped; the transport gave up on its own
  wsFaults

processVars == <<process, pipe, pump, readyFuture, ready, everReady>>
reconnectVars == <<reconnect, tries>>
transportVars == <<starting, registered>>
beliefVars == <<reported, believed, dropped, doubted>>
wsVars == <<processVars, reconnectVars, transportVars, beliefVars, wsFaults>>

WsFault == wsFaults < MaxWsFaults /\ wsFaults' = wsFaults + 1
Exits == {"failed", "stopped"}
ProcessAlive == process \in {"starting", "up", "down"}

WsInit ==
  /\ process = "none" /\ pipe = <<>> /\ pump = FALSE /\ readyFuture = "none"
  /\ ready = FALSE /\ everReady = FALSE /\ reported = FALSE
  /\ reconnect = "none" /\ tries = 0 /\ starting = FALSE /\ registered = FALSE
  /\ believed = FALSE /\ dropped = FALSE /\ doubted = FALSE /\ wsFaults = 0

-----------------------------------------------------------------------------
(* on_state_change: a report of a client that is not registered is dropped. *)
Report(connected) ==
  IF registered THEN believed' = connected /\ doubted' = FALSE /\ UNCHANGED dropped
  ELSE dropped' = TRUE /\ UNCHANGED <<believed, doubted>>
NoReport == UNCHANGED <<believed, dropped, doubted>>
ReportLossOnce ==
  /\ reported' = TRUE
  /\ IF reported THEN NoReport ELSE Report(FALSE)

(* _stop_current_process and _start_process. *)
ProcessStarts ==
  /\ process' = "starting" /\ pipe' = <<>> /\ pump' = TRUE /\ readyFuture' = "pending"
  /\ ready' = FALSE
ProcessStops ==
  /\ process' = "none" /\ pipe' = <<>> /\ pump' = FALSE /\ readyFuture' = "none"
  /\ ready' = FALSE

-----------------------------------------------------------------------------
(* The SDK process. *)
Sdk(from, to, status) ==
  /\ process \in from /\ process' = to
  /\ pipe' = IF status = "silent" THEN pipe ELSE Append(pipe, status)
  /\ UNCHANGED <<pump, readyFuture, ready, everReady, reconnectVars, transportVars, beliefVars>>

SdkConnects == Sdk({"starting", "down"}, "up", "ready") /\ UNCHANGED wsFaults
SdkLoses == Sdk({"up"}, "down", "disconnected") /\ WsFault
SdkExits == \E status \in Exits \cup {"silent"} : Sdk({"starting", "up", "down"}, "dead", status) /\ WsFault

-----------------------------------------------------------------------------
(* _pump_events *)
PumpReadsReady_Once(first) == reported' = reported
PumpReadsReady(first) == reported' = IF first THEN reported ELSE FALSE

PumpReads ==
  /\ pump /\ pipe # <<>> /\ Head(pipe) \notin Exits
  /\ pipe' = Tail(pipe)
  /\ \/ /\ Head(pipe) = "ready"
        /\ ready' = TRUE /\ everReady' = TRUE
        /\ readyFuture' = IF readyFuture = "pending" THEN "true" ELSE readyFuture
        /\ PumpReadsReady(~everReady)
        /\ IF everReady THEN Report(TRUE) ELSE NoReport
     \/ /\ Head(pipe) = "disconnected"
        /\ ready' = FALSE
        /\ IF ready THEN ReportLossOnce ELSE NoReport /\ UNCHANGED reported
        /\ UNCHANGED <<everReady, readyFuture>>
  /\ UNCHANGED <<process, pump, reconnectVars, transportVars, wsFaults>>

(* _handle_process_exit: a process that was not ready when it ended is not *)
(* replaced, also when it had only just lost its connection.               *)
PumpSeesExit ==
  /\ pump /\ \/ pipe # <<>> /\ Head(pipe) \in Exits
             \/ pipe = <<>> /\ process = "dead"
  /\ pump' = FALSE /\ pipe' = <<>> /\ ready' = FALSE
  /\ readyFuture' = IF readyFuture = "pending" THEN "false" ELSE readyFuture
  /\ IF ready
     THEN /\ ReportLossOnce
          /\ reconnect' = IF reconnect = "none" THEN "waiting" ELSE reconnect
          /\ tries' = IF reconnect = "none" THEN 0 ELSE tries
     ELSE NoReport /\ UNCHANGED <<reported, reconnectVars>>
  /\ UNCHANGED <<process, everReady, transportVars, wsFaults>>

-----------------------------------------------------------------------------
(* _reconnect *)
ReconnectStarts ==
  /\ reconnect = "waiting"
  /\ ProcessStarts
  /\ reconnect' = "starting" /\ UNCHANGED tries
  /\ UNCHANGED <<everReady, transportVars, beliefVars, wsFaults>>

ReconnectSucceeds ==
  /\ reconnect = "starting" /\ readyFuture = "true"
  /\ reconnect' = IF ready THEN "none" ELSE "waiting"
  /\ tries' = 0 /\ readyFuture' = "none"
  /\ UNCHANGED <<process, pipe, pump, ready, everReady, transportVars, beliefVars, wsFaults>>

(* The process ended or was not ready in time. *)
ReconnectFails ==
  /\ reconnect = "starting" /\ readyFuture \in {"pending", "false"}
  /\ ProcessStops
  /\ IF tries + 1 < ReconnectTries
     THEN reconnect' = "waiting" /\ tries' = tries + 1 /\ NoReport /\ UNCHANGED reported
     ELSE reconnect' = "none" /\ tries' = 0 /\ ReportLossOnce
  /\ UNCHANGED <<everReady, transportVars, wsFaults>>

-----------------------------------------------------------------------------
(* The transport: start_bot, the registration that follows it, a send that *)
(* fails, and stop_bot.                                                    *)
StartBot ==
  /\ ~starting /\ ~registered
  /\ starting' = TRUE /\ ProcessStarts
  /\ UNCHANGED <<everReady, reconnectVars, registered, beliefVars, wsFaults>>

Registers ==
  /\ starting /\ readyFuture = "true"
  /\ starting' = FALSE /\ registered' = TRUE /\ believed' = TRUE /\ readyFuture' = "none"
  /\ UNCHANGED <<process, pipe, pump, ready, everReady, reconnectVars, reported, dropped, doubted,
                 wsFaults>>

ClosesConnection ==
  /\ ProcessStops /\ everReady' = FALSE /\ reported' = FALSE
  /\ reconnect' = "none" /\ tries' = 0
  /\ believed' = FALSE /\ dropped' = FALSE /\ doubted' = FALSE

StartFails ==
  /\ starting /\ readyFuture \in {"pending", "false"}
  /\ starting' = FALSE /\ ClosesConnection /\ UNCHANGED registered /\ WsFault

StopBot ==
  /\ registered /\ registered' = FALSE
  /\ ClosesConnection /\ UNCHANGED starting /\ WsFault

(* _mark_disconnected: one refused message, and nothing is delivered until *)
(* the connection is reported anew.                                        *)
SendRefused ==
  /\ registered /\ believed /\ WsFault
  /\ believed' = FALSE /\ doubted' = TRUE
  /\ UNCHANGED <<processVars, reconnectVars, transportVars, reported, dropped>>

WsNext ==
  \/ SdkConnects \/ SdkLoses \/ SdkExits \/ PumpReads \/ PumpSeesExit
  \/ ReconnectStarts \/ ReconnectSucceeds \/ ReconnectFails
  \/ StartBot \/ Registers \/ StartFails \/ StopBot \/ SendRefused

WsSpec == WsInit /\ [][WsNext]_wsVars

-----------------------------------------------------------------------------
(* Once the pump has read what the process had to say and no reconnect     *)
(* task is at work, the transport delivers exactly while the bot is        *)
(* connected, through losses the SDK repairs itself, dead processes and    *)
(* reconnections: no loss stays unreported because an earlier one was, and *)
(* no recovery either.  The exceptions are a report that came before the   *)
(* client was registered and a send that made the transport give up.       *)
BelievesTheTruth ==
  registered /\ reconnect = "none" /\ pipe = <<>> /\ ~(pump /\ process = "dead") /\ ~dropped /\ ~doubted
    => (believed <=> process = "up")
=============================================================================
