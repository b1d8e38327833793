---------------------------- MODULE WeixinBinding ----------------------------
(***************************************************************************)
(* One Weixin binding (channels/weixin.py, its record in registry.py and   *)
(* the operations of web/backend/channel_control.py): the QR login, the    *)
(* poll loop, the turns it starts, the sending of their replies, and the   *)
(* rescan that hands the binding over to another login while turns of the  *)
(* old user are still running.  The binding lock is not held while a poll, *)
(* or a send waits for the platform, and the control operations write the  *)
(* record before they take it.                                             *)
(***************************************************************************)
EXTENDS Naturals, Sequences, FiniteSets

CONSTANTS
  WxMessages, WxFrom,  \* messages, and the user (a positive number) each comes from
  MaxWxEpoch,          \* bound on the rescans
  MaxWxFaults          \* bound on failures, control operations and restarts

ASSUME WxAssumption ==
  /\ WxFrom \in [WxMessages -> Nat \ {0}]
  /\ MaxWxEpoch \in Nat /\ MaxWxFaults \in Nat

VARIABLES
  wx,        \* the record: status, enabled, binding_epoch, credentials, first sender, token, connected, inbound_ids
  poll,      \* the poll task: none, sleeping, login or polling, and the epoch it read
  rebind,    \* _pending_rebinds: the status at the rescan, "none" without one
  owed,      \* control operations that wait for the binding lock, in their order
  replies,   \* accepted messages whose turn runs: message and binding_epoch
  sending,   \* replies being sent, with the snapshot of the record they go to
  delivered, \* history: messages and the user their reply went to
  recycled,  \* history: epochs in which somebody logged in again
  wxFaults   \* failures, control operations and restarts so far

wxVars == <<wx, poll, rebind, owed, replies, sending, delivered, recycled, wxFaults>>

NoUser == 0
PollOff == [pc |-> "none", epoch |-> 0]
Serving == {"awaiting_first_dm", "active"}
WxFault == wxFaults < MaxWxFaults /\ wxFaults' = wxFaults + 1

(* _is_active_account; the token is there whenever the first sender is. *)
IsActive(record) ==
  record.enabled /\ record.status = "active" /\ record.user # NoUser /\ record.connected

WxInit ==
  /\ wx = [status |-> "pending_qr", enabled |-> TRUE, epoch |-> 0, cred |-> FALSE,
           user |-> NoUser, connected |-> FALSE, ids |-> {}]
  /\ poll = [pc |-> "sleeping", epoch |-> 0]
  /\ rebind = "none" /\ owed = <<>> /\ replies = {} /\ sending = {}
  /\ delivered = {} /\ recycled = {} /\ wxFaults = 0

-----------------------------------------------------------------------------
(* The poll task: the QR login, or a poll of the platform. *)
PollBegins ==
  /\ poll.pc = "sleeping" /\ wx.enabled
  /\ \/ wx.status = "pending_qr" /\ poll' = [poll EXCEPT !.pc = "login"]
     \/ wx.status \in Serving /\ poll' = [pc |-> "polling", epoch |-> wx.epoch]
  /\ UNCHANGED <<wx, rebind, owed, replies, sending, delivered, recycled, wxFaults>>

(* _progress_login_locked: what the platform says is written over whatever *)
(* status the record has by now.                                           *)
LoginEnds(ok) ==
  /\ poll.pc = "login"
  /\ IF ok THEN /\ wx' = [wx EXCEPT !.status = "awaiting_first_dm", !.cred = TRUE]
                /\ recycled' = IF wx.epoch \in {r.epoch : r \in replies \cup sending}
                               THEN recycled \cup {wx.epoch} ELSE recycled
                /\ UNCHANGED wxFaults
     ELSE /\ WxFault /\ UNCHANGED recycled
          /\ wx' = IF wx.status = "revoked" THEN wx
                   ELSE [wx EXCEPT !.status = "failed", !.connected = FALSE]
  /\ poll' = [poll EXCEPT !.pc = "sleeping"]
  /\ UNCHANGED <<rebind, owed, replies, sending, delivered>>

(* claim_weixin_first_sender, claim_inbound and the update of the token:   *)
(* the record after message m has been handled, and whether it was taken.  *)
Takes(m) ==
  /\ m \notin wx.ids
  /\ IF wx.user = NoUser THEN wx.status = "awaiting_first_dm" ELSE wx.user = WxFrom[m]
HandledBy(m) ==
  IF Takes(m)
  THEN [wx EXCEPT !.user = WxFrom[m], !.connected = TRUE, !.ids = @ \cup {m},
                  !.status = IF wx.user = NoUser THEN "active" ELSE @]
  ELSE wx

(* poll_once checks the epoch again, and nothing else, under the lock. *)
PollReturns(m) ==
  /\ poll.pc = "polling"
  /\ IF poll.epoch = wx.epoch
     THEN /\ wx' = HandledBy(m)
          /\ replies' = IF Takes(m) THEN replies \cup {[msg |-> m, epoch |-> wx.epoch]} ELSE replies
     ELSE UNCHANGED <<wx, replies>>
  /\ poll' = [poll EXCEPT !.pc = "sleeping"]
  /\ UNCHANGED <<rebind, owed, sending, delivered, recycled, wxFaults>>

(* _expire_binding drops the credentials and the user, and keeps the epoch. *)
Expired(record) ==
  IF record.status = "revoked" THEN record
  ELSE [record EXCEPT !.status = "expired", !.enabled = FALSE, !.cred = FALSE,
                      !.user = NoUser, !.connected = FALSE]
Disconnected(record) ==
  IF record.status = "revoked" THEN record ELSE [record EXCEPT !.connected = FALSE]

PollFails(expired) ==
  /\ poll.pc = "polling" /\ WxFault
  /\ wx' = IF expired THEN Expired(wx) ELSE Disconnected(wx)
  /\ poll' = [poll EXCEPT !.pc = "sleeping"]
  /\ UNCHANGED <<rebind, owed, replies, sending, delivered, recycled>>

PollTaskEnds ==
  /\ poll.pc = "sleeping" /\ wx.status \notin Serving \cup {"pending_qr"}
  /\ poll' = PollOff
  /\ UNCHANGED <<wx, rebind, owed, replies, sending, delivered, recycled, wxFaults>>

-----------------------------------------------------------------------------
(* Sending a reply: the epoch is compared once, then the snapshot that was *)
(* compared is what every chunk is sent with.                              *)
SendBegins(r) ==
  /\ r \in replies
  /\ replies' = replies \ {r}
  /\ sending' = IF r.epoch = wx.epoch /\ IsActive(wx)
                THEN sending \cup {[msg |-> r.msg, epoch |-> r.epoch, to |-> wx.user]}
                ELSE sending
  /\ UNCHANGED <<wx, poll, rebind, owed, delivered, recycled, wxFaults>>

SendEnds(s) ==
  /\ s \in sending
  /\ sending' = sending \ {s}
  /\ delivered' = delivered \cup {[msg |-> s.msg, epoch |-> s.epoch, to |-> s.to]}
  /\ UNCHANGED <<wx, poll, rebind, owed, replies, recycled, wxFaults>>

(* A late failure is written into the record of whoever has the binding now. *)
SendFails(s, expired) ==
  /\ s \in sending /\ WxFault
  /\ sending' = sending \ {s}
  /\ wx' = IF expired THEN Expired(wx) ELSE Disconnected(wx)
  /\ UNCHANGED <<poll, rebind, owed, replies, delivered, recycled>>

-----------------------------------------------------------------------------
(* The control operations write the record, then call the transport. *)
Disable ==
  /\ wx.status # "revoked" /\ WxFault
  /\ wx' = [wx EXCEPT !.status = "disabled", !.enabled = FALSE] /\ owed' = Append(owed, "stop")
  /\ UNCHANGED <<poll, rebind, replies, sending, delivered, recycled>>

Revoke ==
  /\ wx.status # "revoked" /\ WxFault
  /\ wx' = [wx EXCEPT !.status = "revoked", !.enabled = FALSE] /\ owed' = Append(owed, "stop")
  /\ UNCHANGED <<poll, rebind, replies, sending, delivered, recycled>>

(* A binding whose credentials have expired logs in again, in the same epoch. *)
Enable ==
  /\ wx.status \notin {"revoked", "expired"} /\ WxFault
  /\ wx' = [wx EXCEPT !.enabled = TRUE,
                      !.status = IF wx.user # NoUser THEN "active"
                                 ELSE IF wx.cred THEN "awaiting_first_dm" ELSE "pending_qr"]
  /\ owed' = Append(owed, "prepare")
  /\ UNCHANGED <<poll, rebind, replies, sending, delivered, recycled>>

(* disable_account, which waits for a login that holds the lock. *)
TransportStops ==
  /\ owed # <<>> /\ Head(owed) = "stop" /\ poll.pc # "login"
  /\ owed' = Tail(owed) /\ rebind' = "none" /\ poll' = PollOff
  /\ UNCHANGED <<wx, replies, sending, delivered, recycled, wxFaults>>

(* enable_account: _prepare_binding_locked and _ensure_poll_task. *)
TransportPrepares ==
  /\ owed # <<>> /\ Head(owed) = "prepare" /\ poll.pc # "login"
  /\ owed' = Tail(owed)
  /\ poll' = IF poll.pc = "none" /\ wx.enabled /\ wx.status \in Serving \cup {"pending_qr"}
             THEN [pc |-> "sleeping", epoch |-> 0] ELSE poll
  /\ UNCHANGED <<wx, rebind, replies, sending, delivered, recycled, wxFaults>>

(* start_rebind: the old binding keeps working until the candidate has logged in. *)
StartRebind ==
  /\ wx.status \in {"active", "expired", "revoked"} /\ poll.pc # "login"
  /\ wx.epoch < MaxWxEpoch
  /\ rebind' = wx.status
  /\ UNCHANGED <<wx, poll, owed, replies, sending, delivered, recycled, wxFaults>>

DiscardRebind ==
  /\ rebind # "none" /\ WxFault /\ rebind' = "none"
  /\ UNCHANGED <<wx, poll, owed, replies, sending, delivered, recycled>>

(* _commit_rebind_locked *)
Rebound_SameEpoch(record) ==
  [record EXCEPT !.status = "awaiting_first_dm", !.enabled = TRUE, !.cred = TRUE,
                 !.user = NoUser, !.connected = FALSE, !.ids = {}]
Rebound(record) ==
  [record EXCEPT !.status = "awaiting_first_dm", !.enabled = TRUE, !.cred = TRUE,
                 !.user = NoUser, !.connected = FALSE, !.ids = {}, !.epoch = @ + 1]
CommitRebind ==
  /\ rebind # "none" /\ poll.pc # "login"
  /\ rebind' = "none"
  /\ IF wx.status = "disabled" \/ (wx.status = "revoked" /\ rebind # "revoked")
     THEN UNCHANGED <<wx, poll>>
     ELSE wx' = Rebound(wx) /\ poll' = [pc |-> "sleeping", epoch |-> 0]
  /\ UNCHANGED <<owed, replies, sending, delivered, recycled, wxFaults>>

(* The process restarts: what is in memory is gone, the record is read. *)
WxRestarts ==
  /\ WxFault
  /\ rebind' = "none" /\ owed' = <<>> /\ replies' = {} /\ sending' = {}
  /\ poll' = IF wx.enabled /\ wx.status \in Serving \cup {"pending_qr"}
             THEN [pc |-> "sleeping", epoch |-> 0] ELSE PollOff
  /\ UNCHANGED <<wx, delivered, recycled>>

WxNext ==
  \/ PollBegins \/ PollTaskEnds \/ Disable \/ Revoke \/ Enable \/ TransportStops
  \/ TransportPrepares \/ StartRebind \/ DiscardRebind \/ CommitRebind \/ WxRestarts
  \/ \E ok \in BOOLEAN : LoginEnds(ok) \/ PollFails(ok)
  \/ \E m \in WxMessages : PollReturns(m)
  \/ \E r \in replies : SendBegins(r)
  \/ \E s \in sending : SendEnds(s) \/ \E expired \in BOOLEAN : SendFails(s, expired)

WxSpec == WxInit /\ [][WxNext]_wxVars

-----------------------------------------------------------------------------
(* The reply to a message goes to the user who sent it, however the rescan,*)
(* a poll that was under way and the running turn interleave (the comment  *)
(* at the epoch test of send: the final text of an old turn must not reach *)
(* the new user).  This is what the documentation promises.                *)
ReplyReachesItsSender == \A d \in delivered : d.to = WxFrom[d.msg]

(* The same, for every epoch in which nobody logged in a second time: with *)
(* a rescan the epoch separates the users.                                 *)
RescanSeparatesUsers ==
  \A d \in delivered : d.epoch \notin recycled => d.to = WxFrom[d.msg]
=============================================================================
