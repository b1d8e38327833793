-------------------------- MODULE BindingDeletion --------------------------
(***************************************************************************)
(* delete_channel_binding of gateway/host.py: a channel binding goes for   *)
(* good together with its transport, its sessions and, when it belongs to  *)
(* an independent principal, the workspace and the data root of that       *)
(* principal, while turns, the background tasks of the principal, the       *)
(* scheduler, the replacement of the Runtime and the Web page's enable and  *)
(* disable go on.  Any part can fail or be cancelled, and the process can   *)
(* end in the middle.                                                       *)
(***************************************************************************)
EXTENDS Naturals, FiniteSets

CONSTANTS
  Bindings, Independent,  \* the bindings, and those with a principal of their own
  MaxDeletionFaults       \* bound on failures, cancellations and restarts

ASSUME BindingAssumption == Independent \subseteq Bindings /\ MaxDeletionFaults \in Nat

VARIABLES
  account,      \* the Registry record: "on", "off" or "absent"
  attached,     \* bindings whose transport runs
  enabling,     \* enable calls that wait for the transport
  sessioned,    \* bindings with session directories
  rooted,       \* bindings whose data root exists
  answering, observing, \* bindings with a turn, and with background tasks
  workspaces,   \* bindings whose principal has a proactive workspace
  blocked, retiredOf,   \* the route block, and _retired_principal_ids
  deletionAt,   \* where the deletion of each binding is
  deletionFaults,
  unretired     \* history: the Runtime was replaced in the deletion that erases them

activityVars == <<answering, observing>>
dataVars == <<sessioned, rooted>>
bindingVars == <<account, attached, enabling, dataVars, activityVars, workspaces, blocked,
                 retiredOf, deletionAt, deletionFaults, unretired>>

BindingInit ==
  /\ account = [b \in Bindings |-> "on"] /\ attached = Bindings /\ enabling = {}
  /\ sessioned = {} /\ rooted = Bindings
  /\ answering = {} /\ observing = {} /\ workspaces = Bindings
  /\ blocked = {} /\ retiredOf = {} /\ deletionAt = [b \in Bindings |-> "none"]
  /\ deletionFaults = 0 /\ unretired = {}

DeletionFault == deletionFaults < MaxDeletionFaults /\ deletionFaults' = deletionFaults + 1
Exists(b) == account[b] # "absent"

-----------------------------------------------------------------------------
(* A turn of the binding: its SAVE writes under the data root and hands a  *)
(* saved conversation to the principal's workspace, which observes it.     *)
TurnArrives(b) ==
  /\ b \in attached \ (blocked \union answering) /\ account[b] = "on"
  /\ answering' = answering \union {b}
  /\ UNCHANGED <<account, attached, enabling, dataVars, observing, workspaces, blocked, retiredOf,
                 deletionAt, deletionFaults, unretired>>

TurnSaves(b) ==
  /\ b \in answering
  /\ sessioned' = sessioned \union {b} /\ rooted' = rooted \union {b}
  /\ workspaces' = workspaces \union ({b} \ retiredOf)
  /\ observing' = observing \union ({b} \ retiredOf)
  /\ UNCHANGED <<account, attached, enabling, answering, blocked, retiredOf, deletionAt,
                 deletionFaults, unretired>>

ReplyDelivered(b) ==
  /\ b \in answering /\ answering' = answering \ {b}
  /\ UNCHANGED <<account, attached, enabling, dataVars, observing, workspaces, blocked, retiredOf,
                 deletionAt, deletionFaults, unretired>>

(* A review or a job of the workspace comes due; a retired principal is skipped. *)
TickStarts(b) ==
  /\ b \in workspaces \ (retiredOf \union observing) /\ observing' = observing \union {b}
  /\ UNCHANGED <<account, attached, enabling, dataVars, answering, workspaces, blocked, retiredOf,
                 deletionAt, deletionFaults, unretired>>

(* The result, or an incident, is written below the root the task knows. *)
ObservationEnds(b) ==
  /\ b \in observing /\ observing' = observing \ {b}
  /\ rooted' = rooted \union {b}
  /\ UNCHANGED <<account, attached, enabling, sessioned, answering, workspaces, blocked, retiredOf,
                 deletionAt, deletionFaults, unretired>>

(* _refresh_known_workspaces: every principal of the Registry but the retired. *)
WorkspacesRefreshed ==
  /\ LET missing == {b \in Bindings : Exists(b)} \ (workspaces \union retiredOf)
     IN /\ missing # {}
        /\ workspaces' = workspaces \union missing /\ rooted' = rooted \union missing
  /\ UNCHANGED <<account, attached, enabling, sessioned, activityVars, blocked, retiredOf,
                 deletionAt, deletionFaults, unretired>>

(* _activate_runtime: no background task is left, and the new service, with *)
(* _retired_principal_ids of its own, opens every principal of the Registry.  *)
(* A deletion that gives way in its erasure sees the new service from now on. *)
RuntimeReplaced ==
  /\ observing = {}
  /\ LET known == {b \in Bindings : Exists(b)}
     IN workspaces' = known /\ rooted' = rooted \union known
  /\ retiredOf' = {}
  /\ unretired' = unretired \union {b \in Independent : deletionAt[b] = "erasing"}
  /\ UNCHANGED <<account, attached, enabling, sessioned, activityVars, blocked, deletionAt, deletionFaults>>

(* The Web page changes the record and then waits for the transport. *)
EnableBinding(b) ==
  /\ Exists(b)
  /\ account' = [account EXCEPT ![b] = "on"] /\ enabling' = enabling \union {b}
  /\ UNCHANGED <<attached, dataVars, activityVars, workspaces, blocked, retiredOf, deletionAt,
                 deletionFaults, unretired>>

TransportEnabled(b) ==
  /\ b \in enabling /\ enabling' = enabling \ {b}
  /\ attached' = IF account[b] = "on" THEN attached \union {b} ELSE attached
  /\ UNCHANGED <<account, dataVars, activityVars, workspaces, blocked, retiredOf, deletionAt,
                 deletionFaults, unretired>>

DisableBinding(b) ==
  /\ Exists(b)
  /\ account' = [account EXCEPT ![b] = "off"] /\ attached' = attached \ {b}
  /\ UNCHANGED <<enabling, dataVars, activityVars, workspaces, blocked, retiredOf, deletionAt,
                 deletionFaults, unretired>>

-----------------------------------------------------------------------------
(* reserve_matching_routes_if_idle, under the deletion lock of the binding. *)
DeletionStarts(b) ==
  /\ Exists(b) /\ deletionAt[b] = "none" /\ b \notin answering
  /\ blocked' = blocked \union {b}
  /\ deletionAt' = [deletionAt EXCEPT ![b] = "retiring"]
  /\ UNCHANGED <<account, attached, enabling, dataVars, activityVars, workspaces, retiredOf,
                 deletionFaults, unretired>>

IsPrincipalIdle_CronOnly(b) == TRUE
IsPrincipalIdle(b) == b \notin observing

(* retire_principal, or its refusal while the principal has background tasks. *)
Retires(b) ==
  /\ deletionAt[b] = "retiring"
  /\ LET refused == b \in Independent /\ ~IsPrincipalIdle(b)
         retires == b \in Independent /\ ~refused
     IN /\ deletionAt' = [deletionAt EXCEPT ![b] = IF refused THEN "releasing" ELSE "erasing"]
        /\ retiredOf' = IF retires THEN retiredOf \union {b} ELSE retiredOf
        /\ workspaces' = IF retires THEN workspaces \ {b} ELSE workspaces
  /\ UNCHANGED <<account, attached, enabling, dataVars, activityVars, blocked, deletionFaults, unretired>>

(* The transport is detached, the matching sessions, the root and the      *)
(* record are removed, in this order and without giving way in between.    *)
Parts(b) == <<"transport", "sessions", "root", "record">>
Done(b, k) == {Parts(b)[i] : i \in 1..k}

Erased(b, parts) ==
  /\ attached' = IF "transport" \in parts THEN attached \ {b} ELSE attached
  /\ sessioned' = IF "sessions" \in parts THEN sessioned \ {b} ELSE sessioned
  /\ rooted' = IF "root" \in parts /\ b \in Independent THEN rooted \ {b} ELSE rooted
  /\ account' = IF "record" \in parts THEN [account EXCEPT ![b] = "absent"] ELSE account

Erases(b) ==
  /\ deletionAt[b] = "erasing"
  /\ Erased(b, Done(b, 4))
  /\ deletionAt' = [deletionAt EXCEPT ![b] = "releasing"]
  /\ UNCHANGED <<enabling, activityVars, workspaces, blocked, retiredOf, deletionFaults, unretired>>

(* A part raises or the request is cancelled: the principal is restored. *)
EraseFails(b, k) ==
  /\ deletionAt[b] = "erasing" /\ DeletionFault
  /\ Erased(b, Done(b, k))
  /\ deletionAt' = [deletionAt EXCEPT ![b] = "releasing"]
  /\ retiredOf' = retiredOf \ {b} /\ unretired' = unretired \ {b}
  /\ UNCHANGED <<enabling, activityVars, workspaces, blocked>>

ReleasesRoutes(b) ==
  /\ deletionAt[b] = "releasing"
  /\ blocked' = blocked \ {b} /\ deletionAt' = [deletionAt EXCEPT ![b] = "none"]
  /\ UNCHANGED <<account, attached, enabling, dataVars, activityVars, workspaces, retiredOf,
                 deletionFaults, unretired>>

(* The process ends, also between two parts, and starts from the Registry. *)
GatewayRestarts(b, k) ==
  /\ DeletionFault
  /\ LET parts == IF deletionAt[b] = "erasing" THEN Done(b, k) ELSE {}
         records == [account EXCEPT ![b] = IF "record" \in parts THEN "absent" ELSE @]
         known == {c \in Bindings : records[c] # "absent"}
     IN /\ account' = records
        /\ sessioned' = IF "sessions" \in parts THEN sessioned \ {b} ELSE sessioned
        /\ rooted' = (IF "root" \in parts /\ b \in Independent THEN rooted \ {b} ELSE rooted)
                     \union known
        /\ workspaces' = known /\ attached' = {c \in known : records[c] = "on"}
        /\ unretired' = unretired \ known
  /\ enabling' = {} /\ answering' = {} /\ observing' = {} /\ blocked' = {} /\ retiredOf' = {}
  /\ deletionAt' = [c \in Bindings |-> "none"]

BindingNext ==
  \/ WorkspacesRefreshed \/ RuntimeReplaced
  \/ \E b \in Bindings :
       \/ TurnArrives(b) \/ TurnSaves(b) \/ ReplyDelivered(b) \/ TickStarts(b) \/ ObservationEnds(b)
       \/ EnableBinding(b) \/ TransportEnabled(b) \/ DisableBinding(b)
       \/ DeletionStarts(b) \/ Retires(b) \/ Erases(b) \/ ReleasesRoutes(b)
       \/ \E k \in 0..3 : EraseFails(b, k)
       \/ \E k \in 0..4 : GatewayRestarts(b, k)

BindingSpec == BindingInit /\ [][BindingNext]_bindingVars

-----------------------------------------------------------------------------
(* A record that is gone leaves nothing of its binding behind, nor          *)
(* anything that could bring it back: no transport, turn or sessions, nor   *)
(* for an independent principal a workspace, background tasks or a root,    *)
(* unless the Runtime was replaced between the retirement of the principal  *)
(* and the end of its erasure.  And a deletion that failed leaves a record  *)
(* that can be deleted again, with the principal's proactive work and the   *)
(* route free.                                                              *)
DeletionIsWhole ==
  \A b \in Bindings :
    /\ ~Exists(b) =>
         /\ b \notin attached \union sessioned \union answering
         /\ b \in Independent \ unretired => b \notin rooted \union workspaces \union observing
    /\ Exists(b) /\ deletionAt[b] = "none" => b \notin blocked \union retiredOf
=============================================================================
