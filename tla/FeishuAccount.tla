----------------------------- MODULE FeishuAccount -----------------------------
(***************************************************************************)
(* The record of one Feishu bot (channels/registry.py) under everything    *)
(* that writes it (channels/feishu.py, web/backend/channel_control.py):    *)
(* events that bind the owner or start turns, the verification code,       *)
(* disabling and enabling, and the replacement of the credentials, which   *)
(* starts a candidate bot, commits the record if nobody has written it     *)
(* meanwhile, stops the previous bot, and undoes all of it when that fails.*)
(* Events are handled without the lifecycle lock.                          *)
(***************************************************************************)
EXTENDS Naturals, Sequences

CONSTANTS
  Apps,         \* app_id values, positive numbers; the bot starts with the smallest
  Events,       \* p2p text events: id, app, from, chat, and whether the text is the code
  MaxWaiting,   \* bound on the operations that wait for the lock
  MaxRevision   \* bound on the writes of the record

(* _parse_event drops an event without a sender or a chat. *)
ASSUME FeishuAssumption ==
  /\ Apps \subseteq Nat \ {0} /\ MaxWaiting \in Nat /\ MaxRevision \in Nat
  /\ Events \subseteq [id : Nat, app : Nat, from : Nat \ {0}, chat : Nat \ {0}, code : BOOLEAN]

VARIABLES
  fs,        \* the record: app, owner, chat, code, status, enabled, ids, revision (updated_at)
  bot,       \* the app the running client was started for, 0 without one
  change,    \* the holder of the lifecycle lock: what it does, with which candidate
  waiting,   \* the operations that wait for the lock, a replacement with its candidate
  outdated,  \* history: a candidate older than the record was committed
  unrestored \* history: the record could not be restored after a failed replacement

fsVars == <<fs, bot, change, waiting, outdated, unrestored>>

NoOne == 0
FirstApp == CHOOSE a \in Apps : \A b \in Apps : a <= b
Written(record) == [record EXCEPT !.revision = fs.revision + 1]
MayWrite == fs.revision < MaxRevision

FsInit ==
  /\ fs = [app |-> FirstApp, owner |-> NoOne, chat |-> NoOne, code |-> FALSE, enabled |-> TRUE,
           status |-> "awaiting_owner_code", ids |-> {}, revision |-> 0]
  /\ bot = FirstApp
  /\ change = [pc |-> "none"] /\ waiting = <<>>
  /\ outdated = FALSE /\ unrestored = FALSE

-----------------------------------------------------------------------------
(* _handle_event, from the read of the record to accept: there is no await *)
(* in between, but the owner and the conversation are written with the     *)
(* private fields read before claim_inbounds, which brings back the old    *)
(* inbound_ids - and, as update merges, never removes the code.            *)
Listening(a) == bot = a \/ (change.pc \in {"starting", "stopping"} /\ change.cand.app = a)
Claimed(e) == [fs EXCEPT !.ids = @ \cup {e.id}]

LocksOwner(e) ==
  /\ fs.owner = NoOne /\ e.code /\ fs.code
  /\ fs' = Written([fs EXCEPT !.owner = e.from, !.chat = e.chat, !.status = "active"])

CompletesReverification(e) ==
  /\ fs.owner = e.from /\ e.code /\ fs.code
  /\ fs' = Written([Claimed(e) EXCEPT !.code = FALSE])

AcceptsMessage(e) ==
  /\ fs.owner = e.from /\ ~(e.code /\ fs.code)
  /\ fs' = Written(IF fs.chat = e.chat THEN Claimed(e) ELSE [fs EXCEPT !.chat = e.chat])

OnlyClaims(e) ==
  /\ IF fs.owner = NoOne THEN ~(e.code /\ fs.code) ELSE fs.owner # e.from
  /\ fs' = Written(Claimed(e))

HandleEvent(e) ==
  /\ Listening(e.app) /\ fs.enabled /\ e.id \notin fs.ids /\ MayWrite
  /\ LocksOwner(e) \/ CompletesReverification(e) \/ AcceptsMessage(e) \/ OnlyClaims(e)
  /\ UNCHANGED <<bot, change, waiting, outdated, unrestored>>

(* issue_owner_code *)
IssueOwnerCode ==
  /\ MayWrite /\ ~fs.code
  /\ fs' = Written(IF fs.owner # NoOne THEN [fs EXCEPT !.code = TRUE]
                   ELSE [fs EXCEPT !.code = TRUE, !.status = "awaiting_owner_code",
                                   !.enabled = TRUE])
  /\ UNCHANGED <<bot, change, waiting, outdated, unrestored>>

-----------------------------------------------------------------------------
(* update_feishu_credentials makes the candidate from the record it reads, *)
(* then waits for the lifecycle lock; another application drops the owner. *)
Candidate(a) ==
  IF a = fs.app THEN fs
  ELSE [fs EXCEPT !.app = a, !.owner = NoOne, !.chat = NoOne, !.code = FALSE,
                  !.status = "awaiting_owner_code"]
Waits(request) == Len(waiting) < MaxWaiting /\ waiting' = Append(waiting, request)
UpdateCredentials(a) ==
  /\ MayWrite
  /\ Waits([op |-> "reload", cand |-> Candidate(a)])
  /\ UNCHANGED <<fs, bot, change, outdated, unrestored>>

(* enable and disable write the record first, and then wait for the lock. *)
EnableAccount ==
  /\ MayWrite /\ Waits([op |-> "enable"])
  /\ fs' = Written([fs EXCEPT !.enabled = TRUE,
              !.status = IF fs.owner # NoOne THEN "active" ELSE "awaiting_owner_code"])
  /\ UNCHANGED <<bot, change, outdated, unrestored>>

DisableAccount ==
  /\ MayWrite /\ fs.enabled /\ Waits([op |-> "disable"])
  /\ fs' = Written([fs EXCEPT !.enabled = FALSE, !.status = "disabled"])
  /\ UNCHANGED <<bot, change, outdated, unrestored>>

(* reload_account: the revision that is compared later is read under the   *)
(* lock, the candidate is older.                                           *)
Start(cand, replacing) ==
  change' = [pc |-> "starting", cand |-> cand, before |-> fs, replacing |-> replacing]
ReloadStarts ==
  /\ Head(waiting).op = "reload" /\ Start(Head(waiting).cand, TRUE)
  /\ outdated' = (outdated \/ Head(waiting).cand.revision # fs.revision)
  /\ UNCHANGED bot
EnableStarts ==
  /\ Head(waiting).op = "enable" /\ Start(fs, FALSE) /\ UNCHANGED <<bot, outdated>>
DisableStops ==
  /\ Head(waiting).op = "disable" /\ bot' = 0 /\ UNCHANGED <<change, outdated>>
LockTaken ==
  /\ change.pc = "none" /\ waiting # <<>>
  /\ waiting' = Tail(waiting)
  /\ ReloadStarts \/ EnableStarts \/ DisableStops
  /\ UNCHANGED <<fs, unrestored>>

(* _mark_disconnected_by_id, and the report that the bot is back. *)
MarkDisconnected ==
  /\ change.pc = "none" /\ bot # 0 /\ MayWrite /\ fs.status \notin {"failed", "disabled"}
  /\ fs' = Written([fs EXCEPT !.status = "failed"])
  /\ UNCHANGED <<bot, change, waiting, outdated, unrestored>>
MarkConnected ==
  /\ bot # 0 /\ fs.enabled /\ fs.status = "failed" /\ MayWrite
  /\ fs' = Written([fs EXCEPT !.status = IF fs.owner # NoOne THEN "active"
                                         ELSE "awaiting_owner_code"])
  /\ UNCHANGED <<bot, change, waiting, outdated, unrestored>>

(* _start_account_locked: the candidate does not connect. *)
StartFailsToConnect ==
  /\ change.pc = "starting" /\ MayWrite
  /\ change' = [pc |-> "none"]
  /\ fs' = IF change.replacing THEN fs
           ELSE Written([fs EXCEPT !.status = IF @ = "disabled" THEN @ ELSE "failed"])
  /\ UNCHANGED <<bot, waiting, outdated, unrestored>>

(* The candidate is connected: the commit, with expected_updated_at. *)
Committed(cand) ==
  LET private == IF cand.app = fs.app
                 THEN [cand EXCEPT !.owner = IF @ = NoOne THEN fs.owner ELSE @,
                                   !.chat = IF @ = NoOne THEN fs.chat ELSE @,
                                   !.code = @ \/ fs.code]
                 ELSE cand
  IN Written([private EXCEPT !.status = IF cand.owner # NoOne THEN "active"
                                        ELSE "awaiting_owner_code"])
Unchanged_Always(before) == TRUE
Unchanged(before) == fs.revision = before.revision

Commits ==
  /\ change.pc = "starting" /\ MayWrite
  /\ IF Unchanged(change.before)
     THEN fs' = Committed(change.cand) /\ change' = [change EXCEPT !.pc = "stopping", !.cand = fs']
     ELSE change' = [pc |-> "none"] /\ UNCHANGED fs
  /\ UNCHANGED <<bot, waiting, outdated, unrestored>>

PreviousStops ==
  /\ change.pc = "stopping"
  /\ bot' = change.cand.app /\ change' = [pc |-> "none"]
  /\ UNCHANGED <<fs, waiting, outdated, unrestored>>

(* The previous bot cannot be stopped: _restore_registry, _discard_candidate. *)
PreviousFailsToStop ==
  /\ change.pc = "stopping" /\ bot # 0 /\ MayWrite
  /\ change' = [pc |-> "none"]
  /\ IF Unchanged(change.cand)
     THEN fs' = Written(change.before) /\ UNCHANGED unrestored
     ELSE unrestored' = TRUE /\ UNCHANGED fs
  /\ UNCHANGED <<bot, waiting, outdated>>

FsNext ==
  \/ IssueOwnerCode \/ EnableAccount \/ DisableAccount \/ LockTaken
  \/ MarkDisconnected \/ MarkConnected
  \/ StartFailsToConnect \/ Commits \/ PreviousStops \/ PreviousFailsToStop
  \/ \E e \in Events : HandleEvent(e)
  \/ \E a \in Apps : UpdateCredentials(a)

FsSpec == FsInit /\ [][FsNext]_fsVars

-----------------------------------------------------------------------------
(* The record agrees with itself and with the bot that runs, however a     *)
(* replacement of the credentials, the event that binds the owner and the  *)
(* control operations interleave: an account with an owner does not wait   *)
(* for one, and the bot that runs is the one of the recorded application.  *)
(* The exceptions are a candidate that was out of date when its turn came  *)
(* and a failed replacement that could not restore the record.             *)
AccountIsCoherent ==
  change.pc = "none" /\ ~outdated /\ ~unrestored =>
    /\ fs.enabled /\ fs.owner # NoOne => fs.status # "awaiting_owner_code"
    /\ fs.status = "active" => fs.owner # NoOne
    /\ bot # 0 => bot = fs.app
=============================================================================
