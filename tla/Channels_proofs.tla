-------------------------- MODULE Channels_proofs ---------------------------
(***************************************************************************)
(* The IM channels, for any bindings, messages, users, events, revisions   *)
(* and any number of failures: the deletion of a binding and the Weixin    *)
(* and Feishu transports.                                                  *)
(***************************************************************************)
EXTENDS BindingDeletion, WeixinBinding, WeixinQr, FeishuConnection, FeishuAccount, FiniteSetTheorems, TLAPS

(* The deletion of a binding.                                              *)
(* The state is well typed: records, places of a deletion, sets of bindings. *)
BindingTypeOK ==
  /\ account \in [Bindings -> {"on", "off", "absent"}]
  /\ deletionAt \in [Bindings -> {"none", "retiring", "erasing", "releasing"}]

(* Who is being deleted is blocked and has no turn, from the reservation on, *)
(* and exists until it is erased; its principal is retired from              *)
(* retire_principal to the end of the erasure, and then has neither a        *)
(* workspace nor background tasks, unless the Runtime is replaced meanwhile. *)
Reserved(b) ==
  /\ b \in blocked <=> deletionAt[b] # "none"
  /\ deletionAt[b] # "none" => b \notin answering
  /\ deletionAt[b] \in {"retiring", "erasing"} => Exists(b)
Retired(b) ==
  /\ deletionAt[b] = "erasing" /\ b \in Independent \ unretired =>
       b \in retiredOf /\ b \notin workspaces \union observing
  /\ Exists(b) /\ deletionAt[b] # "erasing" => b \notin retiredOf
Gone(b) ==
  ~Exists(b) =>
    /\ b \notin attached \union sessioned \union answering
    /\ b \in Independent \ unretired => b \notin rooted \union workspaces \union observing

BindingInv == BindingTypeOK /\ \A b \in Bindings : Reserved(b) /\ Retired(b) /\ Gone(b)

-----------------------------------------------------------------------------
(* Only the whole erasure removes the record, and it removes all the rest. *)
LEMMA DoneParts ==
  ASSUME NEW b, NEW k \in 0..4
  PROVE  /\ "record" \in Done(b, k) => k = 4
         /\ Done(b, 4) = {"transport", "sessions", "root", "record"}
BY DEF Done, Parts

LEMMA BindingInitInv == BindingInit => BindingInv
BY DEF BindingInit, BindingInv, BindingTypeOK, Reserved, Retired, Gone, Exists

LEMMA BindingNextInv ==
  ASSUME BindingInv, [BindingNext]_bindingVars
  PROVE  BindingInv'
<1> USE DEF BindingInv, BindingTypeOK, Reserved, Retired, Gone, Exists, activityVars, dataVars
<1>1. CASE WorkspacesRefreshed
  BY <1>1 DEF WorkspacesRefreshed
<1>2. ASSUME NEW b \in Bindings, TurnArrives(b) PROVE BindingInv'
  BY <1>2 DEF TurnArrives
<1>3. ASSUME NEW b \in Bindings, TurnSaves(b) PROVE BindingInv'
  BY <1>3 DEF TurnSaves
<1>4. ASSUME NEW b \in Bindings, ReplyDelivered(b) PROVE BindingInv'
  BY <1>4 DEF ReplyDelivered
<1>5. ASSUME NEW b \in Bindings, ObservationEnds(b) PROVE BindingInv'
  BY <1>5 DEF ObservationEnds
<1>6. ASSUME NEW b \in Bindings, EnableBinding(b) PROVE BindingInv'
  BY <1>6 DEF EnableBinding
<1>7. ASSUME NEW b \in Bindings, TransportEnabled(b) PROVE BindingInv'
  BY <1>7 DEF TransportEnabled
<1>8. ASSUME NEW b \in Bindings, DisableBinding(b) PROVE BindingInv'
  BY <1>8 DEF DisableBinding
<1>9. ASSUME NEW b \in Bindings, DeletionStarts(b) PROVE BindingInv'
  BY <1>9 DEF DeletionStarts
<1>10. ASSUME NEW b \in Bindings, Retires(b) PROVE BindingInv'
  <2>1. CASE b \in Independent /\ b \in observing
    BY <1>10, <2>1 DEF Retires, IsPrincipalIdle
  <2>2. CASE b \in Independent /\ b \notin observing
    BY <1>10, <2>2 DEF Retires, IsPrincipalIdle
  <2>3. CASE b \notin Independent
    BY <1>10, <2>3 DEF Retires, IsPrincipalIdle
  <2> QED
    BY <2>1, <2>2, <2>3
<1>11. ASSUME NEW b \in Bindings, Erases(b) PROVE BindingInv'
  BY <1>11, DoneParts DEF Erases, Erased
<1>12. ASSUME NEW b \in Bindings, ReleasesRoutes(b) PROVE BindingInv'
  BY <1>12 DEF ReleasesRoutes
<1>13. ASSUME NEW b \in Bindings, NEW k \in 0..3, EraseFails(b, k) PROVE BindingInv'
  BY <1>13, DoneParts DEF EraseFails, Erased, DeletionFault
<1>14. ASSUME NEW b \in Bindings, NEW k \in 0..4, GatewayRestarts(b, k) PROVE BindingInv'
  BY <1>14, DoneParts DEF GatewayRestarts, DeletionFault
<1>15. CASE RuntimeReplaced
  BY <1>15 DEF RuntimeReplaced
<1>16. ASSUME NEW b \in Bindings, TickStarts(b) PROVE BindingInv'
  BY <1>16 DEF TickStarts
<1>17. CASE UNCHANGED bindingVars
  BY <1>17 DEF bindingVars
<1> QED
  BY <1>1, <1>2, <1>3, <1>4, <1>5, <1>6, <1>7, <1>8, <1>9, <1>10, <1>11, <1>12, <1>13, <1>14, <1>15, <1>16, <1>17
  DEF BindingNext

(* A deletion leaves all of a binding or nothing of it, whatever fails in   *)
(* delete_channel_binding and whenever the process starts again, unless the *)
(* Runtime was replaced while the deletion erased an independent principal. *)
THEOREM DeletionIsWholeAlways == BindingSpec => []DeletionIsWhole
<1>1. BindingInv => DeletionIsWhole
  BY DEF BindingInv, BindingTypeOK, Reserved, Retired, Gone, DeletionIsWhole
<1> QED
  BY <1>1, BindingInitInv, BindingNextInv, PTL DEF BindingSpec

-----------------------------------------------------------------------------
(* The Weixin binding and its replies.                                     *)
(* The record has its fields; a turn keeps the epoch its message came in.  *)
WxShape ==
  /\ DOMAIN wx = {"status", "enabled", "epoch", "cred", "user", "connected", "ids"}
  /\ wx.epoch \in Nat
  /\ \A r \in replies : r.msg \in WxMessages /\ r.epoch \in Nat /\ r.epoch <= wx.epoch

(* The binding has no user and takes none without a login. *)
Vacant == wx.user = NoUser /\ ~wx.cred /\ wx.status # "awaiting_first_dm"

(* Who has the binding in the epoch of a running turn is who sent its      *)
(* message, or nobody until somebody logs in again.                        *)
OwnerKept ==
  \A r \in replies : r.epoch = wx.epoch /\ wx.epoch \notin recycled =>
    (wx.user # NoUser /\ wx.user = WxFrom[r.msg]) \/ Vacant

Addressed == \A s \in sending : s.epoch \notin recycled => s.to = WxFrom[s.msg]

WxInv == WxShape /\ OwnerKept /\ Addressed /\ RescanSeparatesUsers

-----------------------------------------------------------------------------
LEMMA WxInitInv == WxInit => WxInv
BY DEF WxInit, WxInv, WxShape, OwnerKept, Addressed, RescanSeparatesUsers

LEMMA WxNextInv ==
  ASSUME WxInv, [WxNext]_wxVars
  PROVE  WxInv'
<1> USE DEF WxInv, WxShape, Vacant, OwnerKept, Addressed, RescanSeparatesUsers
<1>1. CASE PollBegins \/ PollTaskEnds \/ TransportStops \/ TransportPrepares \/ StartRebind \/ DiscardRebind
  BY <1>1 DEF PollBegins, PollTaskEnds, TransportStops, TransportPrepares, StartRebind, DiscardRebind
<1>2. ASSUME NEW ok \in BOOLEAN, LoginEnds(ok)
      PROVE  WxInv'
  <2>1. CASE ok
    <3>1. /\ wx' = [wx EXCEPT !.status = "awaiting_first_dm", !.cred = TRUE]
          /\ UNCHANGED <<replies, sending, delivered>>
          /\ recycled \subseteq recycled'
          /\ \A r \in replies : r.epoch = wx.epoch => wx.epoch \in recycled'
      BY <1>2, <2>1 DEF LoginEnds
    <3>2. wx'.epoch = wx.epoch
      BY <3>1
    <3>3. WxShape'
      BY <3>1
    <3> QED
      BY <3>1, <3>2, <3>3
  <2>2. CASE ~ok
    BY <1>2, <2>2 DEF LoginEnds
  <2> QED
    BY <2>1, <2>2
<1>3. ASSUME NEW m \in WxMessages, PollReturns(m)
      PROVE  WxInv'
  <2>1. CASE poll.epoch = wx.epoch /\ Takes(m)
    <3>1. /\ wx' = HandledBy(m) /\ replies' = replies \cup {[msg |-> m, epoch |-> wx.epoch]}
          /\ UNCHANGED <<sending, delivered, recycled>>
      BY <1>3, <2>1 DEF PollReturns
    <3>2. /\ wx'.epoch = wx.epoch /\ wx'.user = WxFrom[m] /\ WxFrom[m] # NoUser
          /\ wx.user = NoUser => wx.status = "awaiting_first_dm"
          /\ wx.user # NoUser => wx.user = WxFrom[m]
      BY <2>1, <3>1, WxAssumption DEF Takes, HandledBy, NoUser
    <3>3. WxShape'
      BY <2>1, <3>1, <3>2 DEF HandledBy
    <3>4. OwnerKept'
      <4>1. \A r \in replies' : r \in replies \/ r.msg = m
        BY <3>1
      <4> QED
        BY <3>1, <3>2, <4>1
    <3> QED
      BY <3>1, <3>3, <3>4
  <2>2. CASE ~(poll.epoch = wx.epoch /\ Takes(m))
    BY <1>3, <2>2 DEF PollReturns, HandledBy
  <2> QED
    BY <2>1, <2>2
<1>4. ASSUME NEW expired \in BOOLEAN, PollFails(expired)
      PROVE  WxInv'
  BY <1>4 DEF PollFails, Expired, Disconnected
<1>5. ASSUME NEW r \in replies, SendBegins(r)
      PROVE  WxInv'
  BY <1>5 DEF SendBegins, IsActive
<1>6. ASSUME NEW s \in sending, SendEnds(s)
      PROVE  WxInv'
  BY <1>6 DEF SendEnds
<1>7. ASSUME NEW s \in sending, NEW expired \in BOOLEAN, SendFails(s, expired)
      PROVE  WxInv'
  BY <1>7 DEF SendFails, Expired, Disconnected
<1>8. CASE Disable
  BY <1>8 DEF Disable
<1>9. CASE Revoke
  BY <1>9 DEF Revoke
<1>10. CASE Enable
  BY <1>10 DEF Enable
<1>11. CASE CommitRebind
  <2>1. CASE UNCHANGED wx
    BY <1>11, <2>1 DEF CommitRebind
  <2>2. CASE wx' = Rebound(wx)
    <3>1. UNCHANGED <<replies, sending, delivered, recycled>>
      BY <1>11 DEF CommitRebind
    <3>2. wx'.epoch = wx.epoch + 1
      BY <2>2 DEF Rebound
    <3>3. WxShape'
      BY <2>2, <3>1, <3>2 DEF Rebound
    <3>4. \A r \in replies' : r.epoch # wx'.epoch
      BY <3>1, <3>2
    <3> QED
      BY <3>1, <3>3, <3>4
  <2> QED
    BY <1>11, <2>1, <2>2 DEF CommitRebind
<1>12. CASE WxRestarts
  BY <1>12 DEF WxRestarts
<1>13. CASE UNCHANGED wxVars
  BY <1>13 DEF wxVars
<1> QED
  BY <1>1, <1>2, <1>3, <1>4, <1>5, <1>6, <1>7, <1>8, <1>9, <1>10, <1>11, <1>12, <1>13 DEF WxNext

(* A reply reaches the user whose message it answers, in every epoch in     *)
(* which nobody logged in a second time while a turn of it was running.     *)
THEOREM RescanSeparatesUsersAlways == WxSpec => []RescanSeparatesUsers
<1>1. WxInv => RescanSeparatesUsers
  BY DEF WxInv
<1> QED
  BY <1>1, WxInitInv, WxNextInv, PTL DEF WxSpec

-----------------------------------------------------------------------------
(* The login codes of a Weixin binding.                                    *)
QrStatuses == {"pending_qr", "awaiting_first_dm", "active", "failed", "expired", "disabled"}
Levels == {"none", "credentials", "user"}
QrRecords == [status : QrStatuses, enabled : BOOLEAN, code : Nat, level : Levels]
Rebinds == [attempt : Nat, code : Nat]
Counts == [codes : Nat, attempts : Nat, faults : Nat]
Steps == [pc : {"free", "platform", "presenting"}, attempt : Nat, code : Nat, fresh : BOOLEAN]

QrTypeOK ==
  /\ acct \in QrRecords /\ step \in Steps /\ pending \in Rebinds /\ driver \in Nat
  /\ counts \in Counts

(* What the record says of itself; and a login step works on a record      *)
(* without credentials, whatever is written beside it.                     *)
StatusFits ==
  /\ acct.status = "pending_qr" => acct.level = "none"
  /\ acct.status = "active" => acct.level = "user"
  /\ acct.status = "expired" => ~acct.enabled
  /\ step.pc # "free" /\ step.attempt = 0 =>
       acct.level = "none" /\ acct.status \in {"pending_qr", "disabled", "expired", "failed"}

(* The step that holds the lock and the loop work for the rescan that is   *)
(* pending, which only a control operation that waits for the lock can     *)
(* have disabled.                                                          *)
RebindFits ==
  /\ step.pc # "free" => step.attempt = pending.attempt
  /\ driver # 0 => driver = pending.attempt
  /\ pending.attempt # 0 =>
       acct.status \in {"active", "expired", "disabled"} /\ (acct.status = "disabled" => "stop" \in calls)

(* A window shows the code of what it was opened for, unless the binding   *)
(* has expired or the account is about to be stopped.                      *)
ShowsRight(w) ==
  \/ w = [gen |-> pending.attempt, code |-> pending.code] /\ w.gen # 0
  \/ w = [gen |-> 0, code |-> acct.code] /\ acct.status = "pending_qr"
  \/ w.gen = 0 /\ acct.status = "expired"
OneWindow == \A v, w \in windows : v = w
WindowsFit ==
  /\ OneWindow
  /\ step.pc = "presenting" =>
       windows = {} /\ ("stop" \in calls \/ ShowsRight([gen |-> step.attempt, code |-> step.code]))
  /\ "stop" \in calls \/ \A w \in windows : ShowsRight(w)
  /\ step.pc = "platform" /\ step.attempt = 0 /\ acct.status = "expired" => windows = {} \/ "stop" \in calls

QrInv == QrTypeOK /\ StatusFits /\ RebindFits /\ WindowsFit /\ crossed = FALSE

(* What the writes of the record make of it. *)
LEMMA AcctWritten ==
  ASSUME acct \in QrRecords
  PROVE  /\ acct.code \in Nat
         /\ Failed(acct) \in QrRecords /\ Failed(acct).status = "failed" /\ Failed(acct).level = acct.level
         /\ \A s \in QrStatuses : [acct EXCEPT !.status = s] \in QrRecords
         /\ \A s \in QrStatuses, n \in Nat : [acct EXCEPT !.status = s, !.code = n] \in QrRecords
         /\ \A s \in QrStatuses, b \in BOOLEAN, n \in Nat, l \in Levels :
              [status |-> s, enabled |-> b, code |-> n, level |-> l] \in QrRecords
BY DEF Failed, QrRecords, QrStatuses, Levels

LEMMA StepBegun ==
  ASSUME step \in Steps, counts \in Counts, NEW attempt \in Nat, NEW code \in Nat, NEW available \in BOOLEAN,
         BeginStep(attempt, code, available)
  PROVE  step' \in Steps /\ counts' \in Counts
<1>1. CASE code # 0 /\ available
  <2>1. counts' = counts /\ step' = [pc |-> "platform", attempt |-> attempt, code |-> code, fresh |-> FALSE]
    BY <1>1 DEF BeginStep
  <2> QED
    BY <2>1 DEF Steps
<1>2. CASE ~(code # 0 /\ available)
  <2>1. counts.codes + 1 \in Nat
    BY DEF Counts
  <2>2. step' = [pc |-> "platform", attempt |-> attempt, code |-> counts.codes + 1, fresh |-> TRUE]
    BY <1>2 DEF BeginStep
  <2>3. step' \in Steps
    BY <2>1, <2>2 DEF Steps
  <2>4. counts' \in Counts
    BY <1>2 DEF BeginStep, Counts
  <2> QED
    BY <2>3, <2>4
<1> QED
  BY <1>1, <1>2

LEMMA StepShown ==
  ASSUME step \in Steps, Show
  PROVE  /\ step' \in Steps /\ step'.pc = "presenting" /\ step'.attempt = step.attempt /\ step'.code = step.code
         /\ windows' = {}
BY DEF Show, Steps

LEMMA RescanBegun ==
  ASSUME pending \in Rebinds, counts \in Counts, step \in Steps, RescanBegins
  PROVE  step' \in Steps /\ pending' \in Rebinds /\ counts' \in Counts
<1>1. counts.codes + 1 \in Nat /\ counts.attempts + 1 \in Nat
  BY DEF Counts
<1>2. step' = [pc |-> "platform", attempt |-> counts.attempts + 1, code |-> counts.codes + 1, fresh |-> TRUE]
  BY DEF RescanBegins
<1>3. step' \in Steps
  BY <1>1, <1>2 DEF Steps
<1>4. pending' \in Rebinds
  BY <1>1 DEF RescanBegins, Rebinds
<1>5. counts' \in Counts
  BY <1>1 DEF RescanBegins, Counts
<1> QED
  BY <1>3, <1>4, <1>5

LEMMA LoginStepWaitsKeeps ==
  ASSUME QrInv, LoginStepWaits
  PROVE  QrInv'
<1>1. /\ acct \in QrRecords /\ step \in Steps /\ step.pc = "platform" /\ step.attempt = 0
      /\ UNCHANGED <<pending, driver, polls, closers, calls, counts, logged, crossed>>
  BY DEF LoginStepWaits, QrInv, QrTypeOK
<1>2. acct.level = "none" /\ pending.attempt = 0
  BY <1>1 DEF QrInv, StatusFits, RebindFits
<1>3. CASE step.fresh
  <2> DEFINE record == [acct EXCEPT !.status = "pending_qr", !.code = step.code]
  <2>1. record \in QrRecords /\ record.status = "pending_qr" /\ record.code = step.code /\ record.level = "none"
    BY <1>1, <1>2 DEF QrRecords, QrStatuses, Steps
  <2>2. acct' = record /\ Show
    BY <1>3 DEF LoginStepWaits
  <2> HIDE DEF record
  <2>3. /\ step' \in Steps /\ step'.pc = "presenting" /\ step'.attempt = 0 /\ step'.code = step.code
        /\ windows' = {}
    BY <1>1, <2>2, StepShown
  <2> QED
    BY <1>1, <1>2, <2>1, <2>2, <2>3
    DEF QrInv, QrTypeOK, StatusFits, RebindFits, WindowsFit, OneWindow, ShowsRight
<1>4. CASE ~step.fresh
  <2>1. step' = NoStep /\ windows' = windows
        /\ acct' = IF cached = 0 /\ windows = {} THEN Failed(acct) ELSE [acct EXCEPT !.status = "pending_qr"]
    BY <1>4 DEF LoginStepWaits, KeepQr
  <2>2. step' \in Steps /\ step'.pc = "free"
    BY <2>1 DEF NoStep, Steps
  <2>3. CASE windows = {} /\ acct' = Failed(acct)
    BY <1>1, <1>2, <2>1, <2>2, <2>3, AcctWritten
    DEF QrInv, QrTypeOK, StatusFits, RebindFits, WindowsFit, OneWindow, ShowsRight
  <2>4. CASE acct' = [acct EXCEPT !.status = "pending_qr"]
    <3>1. acct' \in QrRecords /\ acct'.status = "pending_qr" /\ acct'.code = acct.code /\ acct'.level = "none"
      BY <1>1, <1>2, <2>4 DEF QrRecords, QrStatuses
    <3>2. acct.status = "expired" => windows = {} \/ "stop" \in calls
      BY <1>1 DEF QrInv, WindowsFit
    <3> QED
      BY <1>1, <1>2, <2>1, <2>2, <3>1, <3>2
      DEF QrInv, QrTypeOK, StatusFits, RebindFits, WindowsFit, OneWindow, ShowsRight
  <2> QED
    BY <2>1, <2>3, <2>4
<1> QED
  BY <1>3, <1>4

LEMMA RescanDone ==
  ASSUME acct \in QrRecords, RescanScanned
  PROVE  acct' \in QrRecords
<1>1. CASE acct.status = "disabled"
  BY <1>1 DEF RescanScanned
<1>2. CASE acct.status # "disabled"
  <2>1. acct' = [status |-> "awaiting_first_dm", enabled |-> TRUE, code |-> 0, level |-> "credentials"]
    BY <1>2 DEF RescanScanned
  <2> QED
    BY <2>1 DEF QrRecords, QrStatuses, Levels
<1> QED
  BY <1>1, <1>2

LEMMA RescanStepEnds ==
  ASSUME step \in Steps, RescanWaits
  PROVE  step' \in Steps
<1>1. CASE step.fresh
  BY <1>1, StepShown DEF RescanWaits
<1>2. CASE ~step.fresh
  <2>1. step' = NoStep
    BY <1>2 DEF RescanWaits
  <2> QED
    BY <2>1 DEF NoStep, Steps
<1> QED
  BY <1>1, <1>2

LEMMA QrInitInv == QrInit => QrInv
<1>1. QrInit => QrTypeOK
  <2> SUFFICES ASSUME QrInit PROVE QrTypeOK
    OBVIOUS
  <2>1. \E status \in {"pending_qr", "active"}, level \in Levels :
          acct = [status |-> status, enabled |-> TRUE, code |-> 0, level |-> level]
    BY DEF QrInit, Levels
  <2>2. acct \in QrRecords
    BY <2>1 DEF QrRecords, QrStatuses
  <2>3. step \in Steps /\ pending \in Rebinds /\ counts \in Counts /\ driver \in Nat
    BY DEF QrInit, NoStep, NoRebind, Steps, Rebinds, Counts
  <2> QED
    BY <2>2, <2>3 DEF QrTypeOK
<1>2. QrInit => StatusFits /\ RebindFits /\ WindowsFit
  BY DEF QrInit, StatusFits, RebindFits, WindowsFit, OneWindow, NoStep, NoRebind
<1> QED
  BY <1>1, <1>2 DEF QrInit, QrInv

LEMMA QrNextInv ==
  ASSUME QrInv, [QrNext]_qrVars
  PROVE  QrInv'
<1>0. /\ acct \in QrRecords /\ step \in Steps /\ pending \in Rebinds /\ driver \in Nat /\ counts \in Counts
  BY DEF QrInv, QrTypeOK
<1> USE DEF LockIsFree, NoStep, NoRebind
<1>1. CASE LoginBegins
  <2>1. QrTypeOK'
    <3>1. acct' \in QrRecords
      BY <1>1, <1>0 DEF LoginBegins
    <3>2. step' \in Steps
      BY <1>1, <1>0, StepBegun, AcctWritten DEF LoginBegins, Rebinds
    <3>3. pending' \in Rebinds /\ driver' \in Nat
      BY <1>1, <1>0 DEF LoginBegins
    <3>4. counts' \in Counts
      BY <1>1, <1>0, StepBegun, AcctWritten DEF LoginBegins, Rebinds
    <3> QED
      BY <3>1, <3>2, <3>3, <3>4 DEF QrTypeOK
  <2>2. StatusFits' /\ RebindFits'
    BY <1>1 DEF LoginBegins, BeginStep, QrInv, QrTypeOK, QrStatuses, Levels, QrRecords, Steps, Rebinds, Counts,
        StatusFits, RebindFits
  <2>3. WindowsFit' /\ crossed' = FALSE
    BY <1>1 DEF LoginBegins, BeginStep, QrInv, QrTypeOK, QrStatuses, Levels, QrRecords, Steps, Rebinds, Counts,
        StatusFits, RebindFits, WindowsFit, OneWindow, ShowsRight
  <2> QED
    BY <2>1, <2>2, <2>3 DEF QrInv
<1>2. CASE LoginStepWaits
  BY <1>2, LoginStepWaitsKeeps
<1>3. CASE LoginStepScanned
  <2>1. QrTypeOK'
    <3>1. acct' \in QrRecords
      BY <1>3, <1>0 DEF LoginStepScanned, QrRecords, QrStatuses, Levels
    <3>2. step' \in Steps
      BY <1>3, <1>0 DEF LoginStepScanned, Steps
    <3>3. pending' \in Rebinds /\ driver' \in Nat
      BY <1>3, <1>0 DEF LoginStepScanned
    <3>4. counts' \in Counts
      BY <1>3, <1>0 DEF LoginStepScanned
    <3> QED
      BY <3>1, <3>2, <3>3, <3>4 DEF QrTypeOK
  <2>2. StatusFits' /\ RebindFits'
    BY <1>3 DEF LoginStepScanned, DismissQr, QrInv, QrTypeOK, QrStatuses, Levels, QrRecords, Steps, Rebinds,
        Counts, StatusFits, RebindFits
  <2>3. WindowsFit' /\ crossed' = FALSE
    BY <1>3 DEF LoginStepScanned, DismissQr, QrInv, QrTypeOK, QrStatuses, Levels, QrRecords, Steps, Rebinds,
        Counts, StatusFits, RebindFits, WindowsFit, OneWindow, ShowsRight
  <2> QED
    BY <2>1, <2>2, <2>3 DEF QrInv
<1>4. CASE LoginStepFails
  <2>1. QrTypeOK'
    <3>1. acct' \in QrRecords
      BY <1>4, <1>0, AcctWritten DEF LoginStepFails
    <3>2. step' \in Steps
      BY <1>4, <1>0 DEF LoginStepFails, Steps
    <3>3. pending' \in Rebinds /\ driver' \in Nat
      BY <1>4, <1>0 DEF LoginStepFails
    <3>4. counts' \in Counts
      BY <1>4, <1>0 DEF LoginStepFails, QrFault, Counts
    <3> QED
      BY <3>1, <3>2, <3>3, <3>4 DEF QrTypeOK
  <2>2. StatusFits' /\ RebindFits'
    BY <1>4 DEF LoginStepFails, DismissQr, Failed, QrFault, QrInv, QrTypeOK, QrStatuses, Levels, QrRecords, Steps,
        Rebinds, Counts, StatusFits, RebindFits
  <2>3. WindowsFit' /\ crossed' = FALSE
    BY <1>4 DEF LoginStepFails, DismissQr, Failed, QrFault, QrInv, QrTypeOK, QrStatuses, Levels, QrRecords, Steps,
        Rebinds, Counts, StatusFits, RebindFits, WindowsFit, OneWindow, ShowsRight
  <2> QED
    BY <2>1, <2>2, <2>3 DEF QrInv
<1>5. CASE RescanBegins
  <2>1. QrTypeOK'
    <3>1. acct' \in QrRecords
      BY <1>5, <1>0 DEF RescanBegins
    <3>2. step' \in Steps
      BY <1>5, <1>0, RescanBegun
    <3>3. pending' \in Rebinds /\ driver' \in Nat
      BY <1>5, <1>0, RescanBegun DEF RescanBegins
    <3>4. counts' \in Counts
      BY <1>5, <1>0, RescanBegun
    <3> QED
      BY <3>1, <3>2, <3>3, <3>4 DEF QrTypeOK
  <2>2. StatusFits' /\ RebindFits'
    BY <1>5 DEF RescanBegins, DismissQr, KeepQr, QrInv, QrTypeOK, QrStatuses, Levels, QrRecords, Steps, Rebinds,
        Counts, StatusFits, RebindFits
  <2>3. WindowsFit' /\ crossed' = FALSE
    BY <1>5 DEF RescanBegins, DismissQr, KeepQr, QrInv, QrTypeOK, QrStatuses, Levels, QrRecords, Steps, Rebinds,
        Counts, StatusFits, RebindFits, WindowsFit, OneWindow, ShowsRight
  <2> QED
    BY <2>1, <2>2, <2>3 DEF QrInv
<1>6. CASE RescanGoesOn
  <2>1. QrTypeOK'
    <3>1. acct' \in QrRecords
      BY <1>6, <1>0 DEF RescanGoesOn
    <3>2. step' \in Steps
      BY <1>6, <1>0, StepBegun, AcctWritten DEF RescanGoesOn, Rebinds
    <3>3. pending' \in Rebinds /\ driver' \in Nat
      BY <1>6, <1>0 DEF RescanGoesOn
    <3>4. counts' \in Counts
      BY <1>6, <1>0, StepBegun, AcctWritten DEF RescanGoesOn, Rebinds
    <3> QED
      BY <3>1, <3>2, <3>3, <3>4 DEF QrTypeOK
  <2>2. StatusFits' /\ RebindFits'
    BY <1>6 DEF RescanGoesOn, BeginStep, QrInv, QrTypeOK, QrStatuses, Levels, QrRecords, Steps, Rebinds, Counts,
        StatusFits, RebindFits
  <2>3. WindowsFit' /\ crossed' = FALSE
    BY <1>6 DEF RescanGoesOn, BeginStep, QrInv, QrTypeOK, QrStatuses, Levels, QrRecords, Steps, Rebinds, Counts,
        StatusFits, RebindFits, WindowsFit, OneWindow, ShowsRight
  <2> QED
    BY <2>1, <2>2, <2>3 DEF QrInv
<1>7. CASE RescanWaits
  <2>1. QrTypeOK'
    <3>1. acct' \in QrRecords
      BY <1>7, <1>0 DEF RescanWaits
    <3>2. step' \in Steps
      BY <1>7, <1>0, RescanStepEnds
    <3>3. pending' \in Rebinds /\ driver' \in Nat
      BY <1>7, <1>0 DEF RescanWaits, Discard, Rebinds, Steps
    <3>4. counts' \in Counts
      BY <1>7, <1>0 DEF RescanWaits
    <3> QED
      BY <3>1, <3>2, <3>3, <3>4 DEF QrTypeOK
  <2>2. StatusFits' /\ RebindFits'
    BY <1>7 DEF RescanWaits, Show, KeepQr, Discard, DismissQr, QrInv, QrTypeOK, QrStatuses, Levels, QrRecords,
        Steps, Rebinds, Counts, StatusFits, RebindFits
  <2>3. WindowsFit' /\ crossed' = FALSE
    BY <1>7 DEF RescanWaits, Show, KeepQr, Discard, DismissQr, QrInv, QrTypeOK, QrStatuses, Levels, QrRecords,
        Steps, Rebinds, Counts, StatusFits, RebindFits, WindowsFit, OneWindow, ShowsRight
  <2> QED
    BY <2>1, <2>2, <2>3 DEF QrInv
<1>8. CASE RescanFails
  <2>1. QrTypeOK'
    <3>1. acct' \in QrRecords
      BY <1>8, <1>0 DEF RescanFails
    <3>2. step' \in Steps
      BY <1>8, <1>0 DEF RescanFails, Steps
    <3>3. pending' \in Rebinds /\ driver' \in Nat
      BY <1>8, <1>0 DEF RescanFails, Discard, Rebinds, Steps
    <3>4. counts' \in Counts
      BY <1>8, <1>0 DEF RescanFails, QrFault, Counts
    <3> QED
      BY <3>1, <3>2, <3>3, <3>4 DEF QrTypeOK
  <2>2. StatusFits' /\ RebindFits'
    BY <1>8 DEF RescanFails, KeepQr, Discard, DismissQr, QrFault, QrInv, QrTypeOK, QrStatuses, Levels, QrRecords,
        Steps, Rebinds, Counts, StatusFits, RebindFits
  <2>3. WindowsFit' /\ crossed' = FALSE
    BY <1>8 DEF RescanFails, KeepQr, Discard, DismissQr, QrFault, QrInv, QrTypeOK, QrStatuses, Levels, QrRecords,
        Steps, Rebinds, Counts, StatusFits, RebindFits, WindowsFit, OneWindow, ShowsRight
  <2> QED
    BY <2>1, <2>2, <2>3 DEF QrInv
<1>9. CASE RescanScanned
  <2>1. QrTypeOK'
    <3>1. acct' \in QrRecords
      BY <1>9, <1>0, RescanDone
    <3>2. step' \in Steps
      BY <1>9, <1>0 DEF RescanScanned, Steps
    <3>3. pending' \in Rebinds /\ driver' \in Nat
      BY <1>9, <1>0 DEF RescanScanned, Discard, Rebinds, Steps
    <3>4. counts' \in Counts
      BY <1>9, <1>0 DEF RescanScanned
    <3> QED
      BY <3>1, <3>2, <3>3, <3>4 DEF QrTypeOK
  <2>2. StatusFits' /\ RebindFits'
    BY <1>9 DEF RescanScanned, KeepQr, Discard, DismissQr, QrInv, QrTypeOK, QrStatuses, Levels, QrRecords, Steps,
        Rebinds, Counts, StatusFits, RebindFits
  <2>3. WindowsFit' /\ crossed' = FALSE
    BY <1>9 DEF RescanScanned, KeepQr, Discard, DismissQr, QrInv, QrTypeOK, QrStatuses, Levels, QrRecords, Steps,
        Rebinds, Counts, StatusFits, RebindFits, WindowsFit, OneWindow, ShowsRight
  <2> QED
    BY <2>1, <2>2, <2>3 DEF QrInv
<1>10. CASE RescanIsNotSaved
  <2>1. QrTypeOK'
    <3>1. acct' \in QrRecords
      BY <1>10, <1>0 DEF RescanIsNotSaved
    <3>2. step' \in Steps
      BY <1>10, <1>0 DEF RescanIsNotSaved, Steps
    <3>3. pending' \in Rebinds /\ driver' \in Nat
      BY <1>10, <1>0 DEF RescanIsNotSaved, Rebinds, Steps
    <3>4. counts' \in Counts
      BY <1>10, <1>0 DEF RescanIsNotSaved, QrFault, Counts
    <3> QED
      BY <3>1, <3>2, <3>3, <3>4 DEF QrTypeOK
  <2>2. StatusFits' /\ RebindFits'
    BY <1>10 DEF RescanIsNotSaved, QrFault, QrInv, QrTypeOK, QrStatuses, Levels, QrRecords, Steps, Rebinds, Counts,
        StatusFits, RebindFits
  <2>3. WindowsFit' /\ crossed' = FALSE
    BY <1>10 DEF RescanIsNotSaved, QrFault, QrInv, QrTypeOK, QrStatuses, Levels, QrRecords, Steps, Rebinds, Counts,
        StatusFits, RebindFits, WindowsFit, OneWindow, ShowsRight
  <2> QED
    BY <2>1, <2>2, <2>3 DEF QrInv
<1>11. ASSUME NEW ok \in BOOLEAN, Presented(ok)
      PROVE  QrInv'
  <2>1. QrTypeOK'
    <3>1. acct' \in QrRecords
      BY <1>11, <1>0 DEF Presented
    <3>2. step' \in Steps
      BY <1>11, <1>0 DEF Presented, Steps
    <3>3. pending' \in Rebinds /\ driver' \in Nat
      BY <1>11, <1>0 DEF Presented, Discard, Rebinds, Steps
    <3>4. counts' \in Counts
      BY <1>11, <1>0 DEF Presented, QrFault, Counts
    <3> QED
      BY <3>1, <3>2, <3>3, <3>4 DEF QrTypeOK
  <2>2. StatusFits' /\ RebindFits'
    BY <1>11 DEF Presented, KeepQr, Discard, DismissQr, QrFault, QrInv, QrTypeOK, QrStatuses, Levels, QrRecords,
        Steps, Rebinds, Counts, StatusFits, RebindFits
  <2>3. WindowsFit' /\ crossed' = FALSE
    BY <1>11 DEF Presented, KeepQr, Discard, DismissQr, QrFault, QrInv, QrTypeOK, QrStatuses, Levels, QrRecords,
        Steps, Rebinds, Counts, StatusFits, RebindFits, WindowsFit, OneWindow, ShowsRight
  <2> QED
    BY <2>1, <2>2, <2>3 DEF QrInv
<1>12. ASSUME NEW w \in windows, UserClosesWindow(w)
      PROVE  QrInv'
  <2>1. QrTypeOK'
    <3>1. acct' \in QrRecords
      BY <1>12, <1>0, AcctWritten DEF UserClosesWindow
    <3>2. step' \in Steps
      BY <1>12, <1>0 DEF UserClosesWindow
    <3>3. pending' \in Rebinds /\ driver' \in Nat
      BY <1>12, <1>0 DEF UserClosesWindow
    <3>4. counts' \in Counts
      BY <1>12, <1>0 DEF UserClosesWindow
    <3> QED
      BY <3>1, <3>2, <3>3, <3>4 DEF QrTypeOK
  <2>2. StatusFits' /\ RebindFits'
    BY <1>12 DEF UserClosesWindow, Failed, QrInv, QrTypeOK, QrStatuses, Levels, QrRecords, Steps, Rebinds, Counts,
        StatusFits, RebindFits
  <2>3. WindowsFit' /\ crossed' = FALSE
    BY <1>12 DEF UserClosesWindow, Failed, QrInv, QrTypeOK, QrStatuses, Levels, QrRecords, Steps, Rebinds, Counts,
        StatusFits, RebindFits, WindowsFit, OneWindow, ShowsRight
  <2> QED
    BY <2>1, <2>2, <2>3 DEF QrInv
<1>13. ASSUME NEW gen \in closers, CloserRuns(gen)
      PROVE  QrInv'
  <2>1. QrTypeOK'
    <3>1. acct' \in QrRecords
      BY <1>13, <1>0 DEF CloserRuns
    <3>2. step' \in Steps
      BY <1>13, <1>0 DEF CloserRuns
    <3>3. pending' \in Rebinds /\ driver' \in Nat
      BY <1>13, <1>0 DEF CloserRuns, Discard, Rebinds, Steps
    <3>4. counts' \in Counts
      BY <1>13, <1>0 DEF CloserRuns
    <3> QED
      BY <3>1, <3>2, <3>3, <3>4 DEF QrTypeOK
  <2>2. StatusFits' /\ RebindFits'
    BY <1>13 DEF CloserRuns, Concerns, KeepQr, Discard, DismissQr, QrInv, QrTypeOK, QrStatuses, Levels, QrRecords,
        Steps, Rebinds, Counts, StatusFits, RebindFits
  <2>3. WindowsFit' /\ crossed' = FALSE
    <3>1. UNCHANGED <<acct, step, calls>> /\ step.pc = "free"
      BY <1>13 DEF CloserRuns, LockIsFree
    <3>2. windows' \in {windows, {}} /\ (windows' = windows => UNCHANGED pending \/ windows = {})
      BY <1>13 DEF CloserRuns, KeepQr, Discard, DismissQr
    <3>3. crossed' = FALSE
      BY <1>13 DEF CloserRuns, Concerns, QrInv, QrTypeOK, Rebinds
    <3>4. WindowsFit'
      BY <3>1, <3>2 DEF QrInv, WindowsFit, OneWindow, ShowsRight
    <3> QED
      BY <3>3, <3>4
  <2> QED
    BY <2>1, <2>2, <2>3 DEF QrInv
<1>14. CASE CodeIsTooOld
  <2>1. QrTypeOK'
    <3>1. acct' \in QrRecords
      BY <1>14, <1>0 DEF CodeIsTooOld
    <3>2. step' \in Steps
      BY <1>14, <1>0 DEF CodeIsTooOld
    <3>3. pending' \in Rebinds /\ driver' \in Nat
      BY <1>14, <1>0 DEF CodeIsTooOld
    <3>4. counts' \in Counts
      BY <1>14, <1>0 DEF CodeIsTooOld
    <3> QED
      BY <3>1, <3>2, <3>3, <3>4 DEF QrTypeOK
  <2>2. StatusFits' /\ RebindFits'
    BY <1>14 DEF CodeIsTooOld, QrInv, QrTypeOK, QrStatuses, Levels, QrRecords, Steps, Rebinds, Counts, StatusFits,
        RebindFits
  <2>3. WindowsFit' /\ crossed' = FALSE
    BY <1>14 DEF CodeIsTooOld, QrInv, QrTypeOK, QrStatuses, Levels, QrRecords, Steps, Rebinds, Counts, StatusFits,
        RebindFits, WindowsFit, OneWindow, ShowsRight
  <2> QED
    BY <2>1, <2>2, <2>3 DEF QrInv
<1>15. CASE QrExpires
  <2>1. QrTypeOK'
    <3>1. acct' \in QrRecords
      BY <1>15, <1>0 DEF QrExpires, QrRecords, QrStatuses, Levels
    <3>2. step' \in Steps
      BY <1>15, <1>0 DEF QrExpires
    <3>3. pending' \in Rebinds /\ driver' \in Nat
      BY <1>15, <1>0 DEF QrExpires
    <3>4. counts' \in Counts
      BY <1>15, <1>0 DEF QrExpires, QrFault, Counts
    <3> QED
      BY <3>1, <3>2, <3>3, <3>4 DEF QrTypeOK
  <2>2. StatusFits' /\ RebindFits'
    BY <1>15 DEF QrExpires, KeepQr, DismissQr, QrFault, QrInv, QrTypeOK, QrStatuses, Levels, QrRecords, Steps,
        Rebinds, Counts, StatusFits, RebindFits
  <2>3. WindowsFit' /\ crossed' = FALSE
    BY <1>15 DEF QrExpires, KeepQr, DismissQr, QrFault, QrInv, QrTypeOK, QrStatuses, Levels, QrRecords, Steps,
        Rebinds, Counts, StatusFits, RebindFits, WindowsFit, OneWindow, ShowsRight
  <2> QED
    BY <2>1, <2>2, <2>3 DEF QrInv
<1>16. CASE FirstDm
  <2>1. QrTypeOK'
    <3>1. acct' \in QrRecords
      BY <1>16, <1>0 DEF FirstDm, QrRecords, QrStatuses, Levels
    <3>2. step' \in Steps
      BY <1>16, <1>0 DEF FirstDm
    <3>3. pending' \in Rebinds /\ driver' \in Nat
      BY <1>16, <1>0 DEF FirstDm
    <3>4. counts' \in Counts
      BY <1>16, <1>0 DEF FirstDm
    <3> QED
      BY <3>1, <3>2, <3>3, <3>4 DEF QrTypeOK
  <2>2. StatusFits' /\ RebindFits'
    BY <1>16 DEF FirstDm, QrInv, QrTypeOK, QrStatuses, Levels, QrRecords, Steps, Rebinds, Counts, StatusFits,
        RebindFits
  <2>3. WindowsFit' /\ crossed' = FALSE
    BY <1>16 DEF FirstDm, QrInv, QrTypeOK, QrStatuses, Levels, QrRecords, Steps, Rebinds, Counts, StatusFits,
        RebindFits, WindowsFit, OneWindow, ShowsRight
  <2> QED
    BY <2>1, <2>2, <2>3 DEF QrInv
<1>17. CASE ControlDisables
  <2>1. QrTypeOK'
    <3>1. acct' \in QrRecords
      BY <1>17, <1>0 DEF ControlDisables, QrRecords, QrStatuses, Levels
    <3>2. step' \in Steps
      BY <1>17, <1>0 DEF ControlDisables
    <3>3. pending' \in Rebinds /\ driver' \in Nat
      BY <1>17, <1>0 DEF ControlDisables
    <3>4. counts' \in Counts
      BY <1>17, <1>0 DEF ControlDisables, QrFault, Counts
    <3> QED
      BY <3>1, <3>2, <3>3, <3>4 DEF QrTypeOK
  <2>2. StatusFits' /\ RebindFits'
    BY <1>17 DEF ControlDisables, QrFault, QrInv, QrTypeOK, QrStatuses, Levels, QrRecords, Steps, Rebinds, Counts,
        StatusFits, RebindFits
  <2>3. WindowsFit' /\ crossed' = FALSE
    BY <1>17 DEF ControlDisables, QrFault, QrInv, QrTypeOK, QrStatuses, Levels, QrRecords, Steps, Rebinds, Counts,
        StatusFits, RebindFits, WindowsFit, OneWindow, ShowsRight
  <2> QED
    BY <2>1, <2>2, <2>3 DEF QrInv
<1>18. CASE ControlEnables
  <2>1. QrTypeOK'
    <3>1. acct' \in QrRecords
      BY <1>18, <1>0 DEF ControlEnables, QrRecords, QrStatuses, Levels
    <3>2. step' \in Steps
      BY <1>18, <1>0 DEF ControlEnables
    <3>3. pending' \in Rebinds /\ driver' \in Nat
      BY <1>18, <1>0 DEF ControlEnables
    <3>4. counts' \in Counts
      BY <1>18, <1>0 DEF ControlEnables, QrFault, Counts
    <3> QED
      BY <3>1, <3>2, <3>3, <3>4 DEF QrTypeOK
  <2>2. StatusFits' /\ RebindFits'
    BY <1>18 DEF ControlEnables, QrFault, QrInv, QrTypeOK, QrStatuses, Levels, QrRecords, Steps, Rebinds, Counts,
        StatusFits, RebindFits
  <2>3. WindowsFit' /\ crossed' = FALSE
    BY <1>18 DEF ControlEnables, QrFault, QrInv, QrTypeOK, QrStatuses, Levels, QrRecords, Steps, Rebinds, Counts,
        StatusFits, RebindFits, WindowsFit, OneWindow, ShowsRight
  <2> QED
    BY <2>1, <2>2, <2>3 DEF QrInv
<1>19. CASE AccountStops
  <2>1. QrTypeOK'
    <3>1. acct' \in QrRecords
      BY <1>19, <1>0 DEF AccountStops
    <3>2. step' \in Steps
      BY <1>19, <1>0 DEF AccountStops
    <3>3. pending' \in Rebinds /\ driver' \in Nat
      BY <1>19, <1>0 DEF AccountStops, Rebinds, Steps
    <3>4. counts' \in Counts
      BY <1>19, <1>0 DEF AccountStops
    <3> QED
      BY <3>1, <3>2, <3>3, <3>4 DEF QrTypeOK
  <2>2. StatusFits' /\ RebindFits'
    BY <1>19 DEF AccountStops, DismissQr, QrInv, QrTypeOK, QrStatuses, Levels, QrRecords, Steps, Rebinds, Counts,
        StatusFits, RebindFits
  <2>3. WindowsFit' /\ crossed' = FALSE
    BY <1>19 DEF AccountStops, DismissQr, QrInv, QrTypeOK, QrStatuses, Levels, QrRecords, Steps, Rebinds, Counts,
        StatusFits, RebindFits, WindowsFit, OneWindow, ShowsRight
  <2> QED
    BY <2>1, <2>2, <2>3 DEF QrInv
<1>20. CASE AccountPrepares
  <2>1. QrTypeOK'
    <3>1. acct' \in QrRecords
      BY <1>20, <1>0 DEF AccountPrepares
    <3>2. step' \in Steps
      BY <1>20, <1>0 DEF AccountPrepares
    <3>3. pending' \in Rebinds /\ driver' \in Nat
      BY <1>20, <1>0 DEF AccountPrepares
    <3>4. counts' \in Counts
      BY <1>20, <1>0 DEF AccountPrepares
    <3> QED
      BY <3>1, <3>2, <3>3, <3>4 DEF QrTypeOK
  <2>2. StatusFits' /\ RebindFits'
    BY <1>20 DEF AccountPrepares, QrInv, QrTypeOK, QrStatuses, Levels, QrRecords, Steps, Rebinds, Counts,
        StatusFits, RebindFits
  <2>3. WindowsFit' /\ crossed' = FALSE
    BY <1>20 DEF AccountPrepares, QrInv, QrTypeOK, QrStatuses, Levels, QrRecords, Steps, Rebinds, Counts,
        StatusFits, RebindFits, WindowsFit, OneWindow, ShowsRight
  <2> QED
    BY <2>1, <2>2, <2>3 DEF QrInv
<1>21. CASE UNCHANGED qrVars
  <2>1. QrTypeOK'
    <3>1. acct' \in QrRecords
      BY <1>21, <1>0 DEF qrVars
    <3>2. step' \in Steps
      BY <1>21, <1>0 DEF qrVars
    <3>3. pending' \in Rebinds /\ driver' \in Nat
      BY <1>21, <1>0 DEF qrVars
    <3>4. counts' \in Counts
      BY <1>21, <1>0 DEF qrVars
    <3> QED
      BY <3>1, <3>2, <3>3, <3>4 DEF QrTypeOK
  <2>2. StatusFits' /\ RebindFits'
    BY <1>21 DEF qrVars, QrInv, QrTypeOK, QrStatuses, Levels, QrRecords, Steps, Rebinds, Counts, StatusFits,
        RebindFits
  <2>3. WindowsFit' /\ crossed' = FALSE
    BY <1>21 DEF qrVars, QrInv, QrTypeOK, QrStatuses, Levels, QrRecords, Steps, Rebinds, Counts, StatusFits,
        RebindFits, WindowsFit, OneWindow, ShowsRight
  <2> QED
    BY <2>1, <2>2, <2>3 DEF QrInv
<1> QED
  BY <1>1, <1>2, <1>3, <1>4, <1>5, <1>6, <1>7, <1>8, <1>9, <1>10, <1>11, <1>12, <1>13, <1>14, <1>15, <1>16, <1>17,
      <1>18, <1>19, <1>20, <1>21 DEF QrNext

(* Between two steps one window at most is open; it shows what the login of *)
(* weixin.py waits for, and closing it ends no rescan but its own.         *)
THEOREM QrFollowsLoginAlways == QrSpec => []QrFollowsLogin
<1>1. QrInv => QrFollowsLogin
  <2> SUFFICES ASSUME QrInv PROVE QrFollowsLogin
    OBVIOUS
  <2>1. CASE windows = {}
    BY <2>1, FS_EmptySet DEF QrFollowsLogin, QrInv
  <2>2. ASSUME NEW w \in windows PROVE windows = {w} /\ Cardinality(windows) <= 1
    <3>1. windows = {w}
      BY DEF QrInv, WindowsFit, OneWindow
    <3> QED
      BY <3>1, FS_Singleton
  <2> QED
    BY <2>1, <2>2 DEF QrFollowsLogin, QrInv, WindowsFit, ShowsRight, StatusFits, LockIsFree
<1> QED
  BY <1>1, QrInitInv, QrNextInv, PTL DEF QrSpec

-----------------------------------------------------------------------------
(* The connection of a Feishu bot.                                         *)
(* What the SDK process has sent and nobody has read ends with its present *)
(* state; without a pump there is neither a process nor anything unread.   *)
Statuses == {"ready", "disconnected", "failed", "stopped"}
PipeEnd == pipe[Len(pipe)]
PipeTells ==
  /\ pipe \in Seq(Statuses)
  /\ process \in {"none", "starting", "up", "down", "dead"}
  /\ \A i \in 1..Len(pipe) : pipe[i] \in Exits => process = "dead"
  /\ process = "none" => ~pump
  /\ ~pump => process \in {"none", "dead"} /\ pipe = <<>> /\ ~ready
  /\ process = "starting" => pipe = <<>> /\ ~ready
  /\ process = "up" => IF pipe = <<>> THEN ready ELSE PipeEnd = "ready"
  /\ process = "down" => IF pipe = <<>> THEN ~ready ELSE PipeEnd = "disconnected"

(* _disconnected_reported is cleared when the connection is back, so the   *)
(* next loss is reported; only a connection that was ready is replaced.    *)
LossesReported ==
  /\ ready \in BOOLEAN /\ everReady \in BOOLEAN /\ reported \in BOOLEAN /\ pump \in BOOLEAN
  /\ starting \in BOOLEAN /\ registered \in BOOLEAN
  /\ believed \in BOOLEAN /\ dropped \in BOOLEAN /\ doubted \in BOOLEAN
  /\ ready => everReady /\ ~reported
  /\ ~everReady => ~reported /\ reconnect = "none"
  /\ readyFuture \in {"pending", "false"} => ~ready
  /\ readyFuture = "false" => ~pump

(* The transport believes what the pump has read, unless _reconnect gives   *)
(* up a process that had recovered: its loss is then still to be reported. *)
BeliefFollows ==
  /\ starting => ~registered
  /\ registered \/ (starting /\ readyFuture = "true") => everReady
  /\ starting /\ readyFuture = "true" /\ ~dropped => ready
  /\ registered /\ ~dropped /\ ~doubted =>
       (believed <=> ready) \/ (reconnect # "none" /\ believed /\ ~ready /\ ~reported)

WsInv == PipeTells /\ LossesReported /\ BeliefFollows

LEMMA PipeGrows ==
  ASSUME NEW x, pipe \in Seq(Statuses),
         x \in Statuses, pipe' = Append(pipe, x)
  PROVE  /\ pipe' \in Seq(Statuses) /\ pipe' # <<>> /\ PipeEnd' = x
         /\ Len(pipe') = Len(pipe) + 1 /\ pipe'[Len(pipe) + 1] = x
         /\ \A i \in 1..Len(pipe) : pipe'[i] = pipe[i]
BY DEF PipeEnd

LEMMA PipeShrinks ==
  ASSUME pipe \in Seq(Statuses), pipe # <<>>, pipe' = Tail(pipe)
  PROVE  /\ pipe' \in Seq(Statuses)
         /\ \A i \in 1..Len(pipe') : pipe'[i] = pipe[i + 1] /\ i + 1 \in 1..Len(pipe)
         /\ IF pipe' = <<>> THEN PipeEnd = Head(pipe) ELSE PipeEnd' = PipeEnd
BY DEF PipeEnd

LEMMA EmptyPipe == <<>> \in Seq(Statuses) /\ 1..Len(<<>>) = {}
OBVIOUS

LEMMA WsInitInv == WsInit => WsInv
<1>1. WsInit => PipeTells
  BY EmptyPipe DEF WsInit, PipeTells
<1> QED
  BY <1>1 DEF WsInit, WsInv, LossesReported, BeliefFollows

LEMMA SdkKeeps ==
  ASSUME WsInv, NEW from, NEW to, NEW status, Sdk(from, to, status),
         \/ from = {"starting", "down"} /\ to = "up" /\ status = "ready"
         \/ from = {"up"} /\ to = "down" /\ status = "disconnected"
         \/ from = {"starting", "up", "down"} /\ to = "dead" /\ status \in Exits \union {"silent"}
  PROVE  WsInv'
<1>1. PipeTells'
  <2>1. CASE status = "silent"
    BY <2>1 DEF Sdk, WsInv, PipeTells, Exits
  <2>2. CASE status # "silent"
    <3>1. pipe' = Append(pipe, status) /\ status \in Statuses
      BY <2>2 DEF Sdk, Statuses, Exits
    <3> QED
      BY <3>1, PipeGrows DEF Sdk, WsInv, PipeTells, Exits
  <2> QED
    BY <2>1, <2>2
<1>2. LossesReported' /\ BeliefFollows'
  BY DEF Sdk, WsInv, LossesReported, BeliefFollows, reconnectVars, transportVars, beliefVars
<1> QED
  BY <1>1, <1>2 DEF WsInv

LEMMA PumpReadsKeeps ==
  ASSUME WsInv, PumpReads
  PROVE  WsInv'
<1>1. PipeTells'
  <2>1. pump /\ pipe \in Seq(Statuses) /\ pipe # <<>> /\ pipe' = Tail(pipe) /\ process' = process /\ pump' = pump
        /\ Head(pipe) \in {"ready", "disconnected"} /\ (ready' <=> Head(pipe) = "ready")
    BY DEF PumpReads, WsInv, PipeTells
  <2>2. /\ \A i \in 1..Len(pipe') : pipe'[i] \in Exits => process = "dead"
        /\ IF pipe' = <<>> THEN PipeEnd = Head(pipe) ELSE PipeEnd' = PipeEnd
    BY <2>1, PipeShrinks DEF WsInv, PipeTells
  <2>3. pipe' \in Seq(Statuses)
    BY <2>1, PipeShrinks
  <2>4. (process = "up" => PipeEnd = "ready") /\ (process = "down" => PipeEnd = "disconnected")
        /\ process \in {"up", "down", "dead"}
    BY <2>1 DEF WsInv, PipeTells
  <2>5. (process = "up" => IF pipe' = <<>> THEN ready' ELSE PipeEnd' = "ready")
        /\ (process = "down" => IF pipe' = <<>> THEN ~ready' ELSE PipeEnd' = "disconnected")
    BY <2>1, <2>2, <2>4
  <2> QED
    BY <2>1, <2>2, <2>3, <2>4, <2>5 DEF PipeTells
<1>2. CASE Head(pipe) = "ready"
  <2>1. /\ ready' = TRUE /\ everReady' = TRUE /\ reported' = IF ~everReady THEN reported ELSE FALSE
        /\ readyFuture' = IF readyFuture = "pending" THEN "true" ELSE readyFuture
        /\ IF everReady THEN Report(TRUE) ELSE NoReport
        /\ UNCHANGED <<pump, reconnect, starting, registered>>
    BY <1>2 DEF PumpReads, PumpReadsReady, reconnectVars, transportVars
  <2>2. LossesReported'
    BY <2>1 DEF PumpReads, WsInv, LossesReported, Report, NoReport
  <2>3. BeliefFollows'
    BY <2>1 DEF WsInv, LossesReported, BeliefFollows, Report, NoReport
  <2> QED
    BY <1>1, <2>2, <2>3 DEF WsInv
<1>3. CASE Head(pipe) = "disconnected"
  <2>1. /\ ready' = FALSE /\ UNCHANGED <<everReady, readyFuture, pump, reconnect, starting, registered>>
        /\ IF ready THEN ReportLossOnce ELSE NoReport /\ UNCHANGED reported
    BY <1>3 DEF PumpReads, reconnectVars, transportVars
  <2>2. LossesReported'
    BY <2>1 DEF WsInv, LossesReported, ReportLossOnce, Report, NoReport
  <2>3. BeliefFollows'
    BY <2>1 DEF WsInv, LossesReported, BeliefFollows, ReportLossOnce, Report, NoReport
  <2> QED
    BY <1>1, <2>2, <2>3 DEF WsInv
<1> QED
  BY <1>2, <1>3 DEF PumpReads

LEMMA WsNextInv ==
  ASSUME WsInv, [WsNext]_wsVars
  PROVE  WsInv'
<1>1. CASE SdkConnects \/ SdkLoses \/ SdkExits
  BY <1>1, SdkKeeps DEF SdkConnects, SdkLoses, SdkExits
<1>2. CASE PumpReads
  BY <1>2, PumpReadsKeeps
<1> USE DEF WsInv, PipeTells, PipeEnd, LossesReported, BeliefFollows, processVars, reconnectVars, transportVars,
            beliefVars
<1>3. CASE PumpSeesExit
  <2>1. process = "dead"
    BY <1>3 DEF PumpSeesExit, Statuses
  <2> QED
    BY <1>3, <2>1, EmptyPipe DEF PumpSeesExit, Report, NoReport, ReportLossOnce, Exits
<1>4. CASE ReconnectStarts
  BY <1>4, EmptyPipe DEF ReconnectStarts, ProcessStarts
<1>5. CASE ReconnectSucceeds
  BY <1>5 DEF ReconnectSucceeds
<1>6. CASE ReconnectFails
  BY <1>6, EmptyPipe DEF ReconnectFails, ProcessStops, Report, NoReport, ReportLossOnce
<1>7. CASE StartBot
  BY <1>7, EmptyPipe DEF StartBot, ProcessStarts
<1>8. CASE Registers
  BY <1>8 DEF Registers
<1>9. CASE StartFails
  BY <1>9, EmptyPipe DEF StartFails, ClosesConnection, ProcessStops
<1>10. CASE StopBot
  BY <1>10, EmptyPipe DEF StopBot, ClosesConnection, ProcessStops
<1>11. CASE SendRefused
  BY <1>11 DEF SendRefused
<1>12. CASE UNCHANGED wsVars
  BY <1>12 DEF wsVars
<1> QED
  BY <1>1, <1>2, <1>3, <1>4, <1>5, <1>6, <1>7, <1>8, <1>9, <1>10, <1>11, <1>12 DEF WsNext

(* Once the pump of feishu_ws.py has read all and no _reconnect is at work, *)
(* the transport delivers exactly while the bot is connected.              *)
THEOREM BelievesTheTruthAlways == WsSpec => []BelievesTheTruth
<1>1. WsInv => BelievesTheTruth
  <2> SUFFICES ASSUME WsInv, registered, reconnect = "none", pipe = <<>>, ~(pump /\ process = "dead"),
                      ~dropped, ~doubted
               PROVE  believed <=> process = "up"
    BY DEF BelievesTheTruth
  <2>1. believed <=> ready
    BY DEF WsInv, BeliefFollows
  <2>2. ready <=> process = "up"
    BY DEF WsInv, PipeTells
  <2> QED
    BY <2>1, <2>2
<1> QED
  BY <1>1, WsInitInv, WsNextInv, PTL DEF WsSpec

-----------------------------------------------------------------------------
(* The record of a Feishu bot.                                             *)
FsRecords ==
  [app : Apps \union {FirstApp}, owner : Nat, chat : Nat, code : BOOLEAN, enabled : BOOLEAN,
   status : {"awaiting_owner_code", "active", "failed", "disabled"}, ids : SUBSET Nat, revision : Nat]

(* A candidate is not newer than the record, and one as old as the record   *)
(* is what update_feishu_credentials makes of it.                          *)
Fits(cand, record) ==
  /\ cand.revision <= record.revision
  /\ cand.revision = record.revision => IF cand.app = record.app THEN cand = record ELSE cand.owner = NoOne

(* An enabled account with an owner does not wait for one, and an active   *)
(* account has one.                                                        *)
Coherent(record) ==
  /\ record.enabled /\ record.owner # NoOne => record.status # "awaiting_owner_code"
  /\ record.status = "active" => record.owner # NoOne

Changes ==
  [pc : {"none"}] \union
  [pc : {"starting", "stopping"}, cand : FsRecords, before : FsRecords, replacing : BOOLEAN]
WaitingOps == [op : {"reload"}, cand : FsRecords] \union [op : {"enable", "disable"}]

FsTypeOK ==
  /\ fs \in FsRecords /\ change \in Changes /\ waiting \in Seq(WaitingOps)
  /\ outdated \in BOOLEAN /\ unrestored \in BOOLEAN

WaitingFit == \A i \in 1..Len(waiting) : waiting[i].op = "reload" => Fits(waiting[i].cand, fs)

(* Under the lifecycle lock the record is the one that was read, unless it  *)
(* was written meanwhile, and what the candidate replaces is what runs.    *)
StartFits ==
  change.pc = "starting" =>
    /\ change.before.app = fs.app /\ change.before.revision <= fs.revision
    /\ change.before.revision = fs.revision => change.before = fs
    /\ ~outdated => Fits(change.cand, change.before) /\ change.cand.revision = change.before.revision
StopFits == change.pc = "stopping" => change.cand.app = fs.app
BeforeFits == change.pc # "none" /\ ~outdated => Coherent(change.before)
BotFits ==
  bot # 0 /\ ~outdated /\ ~unrestored =>
    bot = IF change.pc = "none" THEN fs.app ELSE change.before.app

FsInv ==
  /\ FsTypeOK /\ WaitingFit /\ StartFits /\ StopFits /\ BeforeFits /\ BotFits
  /\ ~outdated => Coherent(fs)

LEMMA FsInitInv == FsInit => FsInv
<1> SUFFICES ASSUME FsInit PROVE FsInv
  OBVIOUS
<1>1. waiting \in Seq(WaitingOps) /\ 1..Len(waiting) = {}
  BY DEF FsInit
<1> QED
  BY <1>1 DEF FsInit, FsInv, FsTypeOK, FsRecords, Changes, WaitingFit, StartFits, StopFits, BeforeFits, BotFits,
              Coherent, NoOne

LEMMA RecordWritten ==
  ASSUME fs \in FsRecords, NEW record \in FsRecords
  PROVE  /\ Written(record) \in FsRecords /\ Written(record).revision = fs.revision + 1
         /\ Written(record).app = record.app /\ Written(record).owner = record.owner
         /\ Coherent(Written(record)) <=> Coherent(record)
BY DEF Written, FsRecords, Coherent

LEMMA WaitingOlder ==
  ASSUME FsInv, fs' \in FsRecords, fs'.revision = fs.revision + 1,
         \/ waiting' = waiting
         \/ \E op \in {"enable", "disable"} : waiting' = Append(waiting, [op |-> op])
  PROVE  waiting' \in Seq(WaitingOps) /\ WaitingFit'
<1>1. fs.revision \in Nat /\ waiting \in Seq(WaitingOps)
  BY DEF FsInv, FsTypeOK, FsRecords
<1>2. \A i \in 1..Len(waiting) : waiting[i].op = "reload" =>
        waiting[i].cand.revision \in Nat /\ Fits(waiting[i].cand, fs)
  BY <1>1 DEF FsInv, WaitingFit, WaitingOps, FsRecords
<1>3. \A i \in 1..Len(waiting) : waiting[i].op = "reload" => Fits(waiting[i].cand, fs')
  BY <1>1, <1>2 DEF Fits
<1>4. CASE waiting' = waiting
  BY <1>1, <1>3, <1>4 DEF WaitingFit
<1>5. ASSUME NEW op \in {"enable", "disable"}, waiting' = Append(waiting, [op |-> op])
      PROVE  waiting' \in Seq(WaitingOps) /\ WaitingFit'
  <2>1. [op |-> op] \in WaitingOps
    BY DEF WaitingOps
  <2>2. /\ waiting' \in Seq(WaitingOps) /\ Len(waiting') = Len(waiting) + 1
        /\ waiting'[Len(waiting) + 1].op = op /\ \A i \in 1..Len(waiting) : waiting'[i] = waiting[i]
    BY <1>1, <1>5, <2>1
  <2> QED
    BY <1>1, <1>3, <2>2 DEF WaitingFit
<1> QED
  BY <1>4, <1>5

(* Any write of the record that keeps it coherent and its application, with *)
(* or without the lock.                                                    *)
LEMMA WriteKeeps ==
  ASSUME FsInv, NEW record \in FsRecords, fs' = Written(record), record.app = fs.app,
         ~outdated => Coherent(record), UNCHANGED <<bot, change, outdated, unrestored>>,
         \/ waiting' = waiting
         \/ \E op \in {"enable", "disable"} : waiting' = Append(waiting, [op |-> op])
  PROVE  FsInv'
<1>1. /\ fs' \in FsRecords /\ fs'.revision = fs.revision + 1 /\ fs'.app = fs.app
      /\ fs.revision \in Nat /\ (~outdated => Coherent(fs'))
  BY RecordWritten DEF FsInv, FsTypeOK, FsRecords
<1>2. waiting' \in Seq(WaitingOps) /\ WaitingFit'
  BY <1>1, WaitingOlder
<1>3. StartFits'
  <2> SUFFICES ASSUME change'.pc = "starting"
               PROVE  /\ change.before.app = fs'.app /\ change.before.revision < fs'.revision
                      /\ change.before.revision \in Nat
                      /\ ~outdated => Fits(change.cand, change.before) /\ change.cand.revision = change.before.revision
    BY <1>1 DEF StartFits, FsRecords, Fits
  <2>1. change.before \in FsRecords /\ change.before.revision \in Nat
    BY DEF FsInv, FsTypeOK, Changes, FsRecords
  <2>2. StartFits /\ change.pc = "starting"
    BY DEF FsInv
  <2> QED
    BY <1>1, <2>1, <2>2 DEF StartFits
<1>4. StopFits' /\ BeforeFits' /\ BotFits'
  BY <1>1 DEF FsInv, StopFits, BeforeFits, BotFits
<1> QED
  BY <1>1, <1>2, <1>3, <1>4 DEF FsInv, FsTypeOK

LEMMA EventKeeps ==
  ASSUME FsInv, NEW e \in Events, HandleEvent(e)
  PROVE  FsInv'
<1> USE DEF FsRecords, Coherent, NoOne
<1>1. /\ fs \in FsRecords /\ (~outdated => Coherent(fs)) /\ UNCHANGED <<bot, change, waiting, outdated, unrestored>>
      /\ e.id \in Nat /\ e.from \in Nat \ {0} /\ e.chat \in Nat
  BY FeishuAssumption DEF HandleEvent, FsInv, FsTypeOK
<1>2. Claimed(e) \in FsRecords /\ Claimed(e) = [fs EXCEPT !.ids = fs.ids \union {e.id}]
  BY <1>1 DEF Claimed
<1>3. CASE LocksOwner(e)
  <2> DEFINE record == [fs EXCEPT !.owner = e.from, !.chat = e.chat, !.status = "active"]
  <2>1. record \in FsRecords /\ record.app = fs.app /\ Coherent(record)
    BY <1>1
  <2>2. fs' = Written(record)
    BY <1>3 DEF LocksOwner
  <2> QED
    BY <1>1, <2>1, <2>2, WriteKeeps
<1>4. CASE CompletesReverification(e)
  <2> DEFINE record == [Claimed(e) EXCEPT !.code = FALSE]
  <2>1. record \in FsRecords /\ record.app = fs.app /\ (~outdated => Coherent(record))
    BY <1>1, <1>2
  <2>2. fs' = Written(record)
    BY <1>4 DEF CompletesReverification
  <2> QED
    BY <1>1, <2>1, <2>2, WriteKeeps
<1>5. CASE AcceptsMessage(e) \/ OnlyClaims(e)
  <2>1. PICK record \in {Claimed(e), [fs EXCEPT !.chat = e.chat]} : fs' = Written(record)
    BY <1>5 DEF AcceptsMessage, OnlyClaims
  <2>2. record \in FsRecords /\ record.app = fs.app /\ (~outdated => Coherent(record))
    BY <1>1, <1>2
  <2> QED
    BY <1>1, <2>1, <2>2, WriteKeeps
<1> QED
  BY <1>3, <1>4, <1>5 DEF HandleEvent

LEMMA WritesKeep ==
  ASSUME FsInv, IssueOwnerCode \/ EnableAccount \/ DisableAccount \/ MarkDisconnected \/ MarkConnected
  PROVE  FsInv'
<1>1. fs \in FsRecords /\ (~outdated => Coherent(fs))
  BY DEF FsInv, FsTypeOK
<1>2. PICK record \in FsRecords :
        /\ fs' = Written(record) /\ record.app = fs.app /\ (~outdated => Coherent(record))
        /\ UNCHANGED <<bot, change, outdated, unrestored>>
        /\ \/ waiting' = waiting
           \/ \E op \in {"enable", "disable"} : waiting' = Append(waiting, [op |-> op])
  <2> USE <1>1 DEF FsRecords, Coherent, NoOne
  <2>1. CASE IssueOwnerCode
    BY <2>1 DEF IssueOwnerCode
  <2>2. CASE EnableAccount
    BY <2>2 DEF EnableAccount, Waits
  <2>3. CASE DisableAccount
    BY <2>3 DEF DisableAccount, Waits
  <2>4. CASE MarkDisconnected
    BY <2>4 DEF MarkDisconnected
  <2>5. CASE MarkConnected
    BY <2>5 DEF MarkConnected
  <2> QED
    BY <2>1, <2>2, <2>3, <2>4, <2>5
<1> QED
  BY <1>2, WriteKeeps

LEMMA UpdateKeeps ==
  ASSUME FsInv, NEW a \in Apps, UpdateCredentials(a)
  PROVE  FsInv'
<1> DEFINE request == [op |-> "reload", cand |-> Candidate(a)]
<1>1. fs \in FsRecords /\ waiting \in Seq(WaitingOps) /\ waiting' = Append(waiting, request)
      /\ UNCHANGED <<fs, bot, change, outdated, unrestored>>
  BY DEF UpdateCredentials, Waits, FsInv, FsTypeOK
<1>2. Candidate(a) \in FsRecords /\ Fits(Candidate(a), fs)
  <2>1. fs.revision \in Nat /\ Fits(fs, fs)
    BY <1>1 DEF FsRecords, Fits
  <2>2. CASE a = fs.app
    BY <1>1, <2>1, <2>2 DEF Candidate
  <2>3. CASE a # fs.app
    <3>1. /\ Candidate(a) \in FsRecords /\ Candidate(a).app = a /\ Candidate(a).owner = NoOne
          /\ Candidate(a).revision = fs.revision
      BY <1>1, <2>3 DEF Candidate, FsRecords, NoOne
    <3> QED
      BY <2>1, <2>3, <3>1 DEF Fits
  <2> QED
    BY <2>2, <2>3
<1>3. request \in WaitingOps /\ request.cand = Candidate(a)
  BY <1>2 DEF WaitingOps
<1>4. /\ waiting' \in Seq(WaitingOps) /\ Len(waiting') = Len(waiting) + 1
      /\ waiting'[Len(waiting) + 1] = request /\ \A i \in 1..Len(waiting) : waiting'[i] = waiting[i]
  BY <1>1, <1>3
<1> HIDE DEF request
<1>5. WaitingFit'
  BY <1>1, <1>2, <1>3, <1>4 DEF FsInv, WaitingFit
<1> QED
  BY <1>1, <1>4, <1>5 DEF FsInv, FsTypeOK, StartFits, StopFits, BeforeFits, BotFits

LEMMA LockKeeps ==
  ASSUME FsInv, LockTaken
  PROVE  FsInv'
<1> DEFINE first == Head(waiting)
<1>1. /\ change.pc = "none" /\ waiting # <<>> /\ waiting' = Tail(waiting) /\ UNCHANGED <<fs, unrestored>>
      /\ fs \in FsRecords /\ waiting \in Seq(WaitingOps) /\ outdated \in BOOLEAN
  BY DEF LockTaken, FsInv, FsTypeOK
<1>2. /\ waiting' \in Seq(WaitingOps)
      /\ \A i \in 1..Len(waiting') : waiting'[i] = waiting[i + 1] /\ i + 1 \in 1..Len(waiting)
      /\ first \in WaitingOps /\ first = waiting[1] /\ 1 \in 1..Len(waiting)
  BY <1>1
<1>3. WaitingFit'
  BY <1>1, <1>2 DEF FsInv, WaitingFit
<1> HIDE DEF first
<1>4. ASSUME NEW cand \in FsRecords, NEW replacing \in BOOLEAN, Start(cand, replacing), bot' = bot,
             outdated' \in BOOLEAN, outdated => outdated',
             ~outdated' => Fits(cand, fs) /\ cand.revision = fs.revision
      PROVE  FsInv'
  <2>1. change' \in Changes /\ change'.pc = "starting" /\ change'.cand = cand /\ change'.before = fs
    BY <1>1, <1>4 DEF Start, Changes
  <2> QED
    BY <1>1, <1>2, <1>3, <1>4, <2>1 DEF FsInv, FsTypeOK, StartFits, StopFits, BeforeFits, BotFits, FsRecords
<1>5. CASE ReloadStarts
  <2>1. first.op = "reload" /\ Start(first.cand, TRUE) /\ outdated' = (outdated \/ first.cand.revision # fs.revision)
        /\ bot' = bot
    BY <1>5 DEF ReloadStarts, first
  <2>2. first.cand \in FsRecords /\ Fits(first.cand, fs)
    BY <1>2, <2>1 DEF WaitingOps, FsInv, WaitingFit
  <2> QED
    BY <1>1, <1>4, <2>1, <2>2
<1>6. CASE EnableStarts
  <2>1. Fits(fs, fs)
    BY <1>1 DEF Fits, FsRecords
  <2> QED
    BY <1>1, <1>4, <1>6, <2>1 DEF EnableStarts
<1>7. CASE DisableStops
  BY <1>1, <1>2, <1>3, <1>7 DEF DisableStops, FsInv, FsTypeOK, StartFits, StopFits, BeforeFits, BotFits
<1> QED
  BY <1>5, <1>6, <1>7 DEF LockTaken

LEMMA StartFailsKeeps ==
  ASSUME FsInv, StartFailsToConnect
  PROVE  FsInv'
<1>1. /\ fs \in FsRecords /\ change \in Changes /\ change.pc = "starting" /\ change' = [pc |-> "none"]
      /\ UNCHANGED <<bot, waiting, outdated, unrestored>>
  BY DEF StartFailsToConnect, FsInv, FsTypeOK
<1>2. change' \in Changes /\ change'.pc = "none"
  BY <1>1 DEF Changes
<1>3. CASE fs' = fs
  BY <1>1, <1>2, <1>3 DEF FsInv, FsTypeOK, WaitingFit, StartFits, StopFits, BeforeFits, BotFits
<1>4. CASE ~change.replacing
  <2> DEFINE record == [fs EXCEPT !.status = IF fs.status = "disabled" THEN fs.status ELSE "failed"]
  <2>1. record \in FsRecords /\ record.app = fs.app /\ (~outdated => Coherent(record)) /\ fs' = Written(record)
    BY <1>1, <1>4 DEF StartFailsToConnect, FsRecords, Coherent, FsInv
  <2> HIDE DEF record
  <2>2. /\ fs' \in FsRecords /\ fs'.revision = fs.revision + 1 /\ fs'.app = fs.app /\ (~outdated => Coherent(fs'))
    BY <1>1, <2>1, RecordWritten
  <2>3. waiting' \in Seq(WaitingOps) /\ WaitingFit'
    BY <1>1, <2>2, WaitingOlder
  <2> QED
    BY <1>1, <1>2, <2>2, <2>3 DEF FsInv, FsTypeOK, StartFits, StopFits, BeforeFits, BotFits
<1> QED
  BY <1>3, <1>4 DEF StartFailsToConnect

(* A candidate as old as the record is committed as it is, but for its     *)
(* status, which agrees with its owner.                                    *)
LEMMA CommittedFits ==
  ASSUME fs \in FsRecords, NEW cand \in FsRecords
  PROVE  /\ Committed(cand) \in FsRecords /\ Committed(cand).revision = fs.revision + 1
         /\ Committed(cand).app = cand.app
         /\ Fits(cand, fs) /\ cand.revision = fs.revision => Coherent(Committed(cand))
<1> DEFINE private == IF cand.app = fs.app
                      THEN [cand EXCEPT !.owner = IF cand.owner = NoOne THEN fs.owner ELSE cand.owner,
                                        !.chat = IF cand.chat = NoOne THEN fs.chat ELSE cand.chat,
                                        !.code = cand.code \/ fs.code]
                      ELSE cand
           record == [private EXCEPT !.status = IF cand.owner # NoOne THEN "active" ELSE "awaiting_owner_code"]
<1>1. Committed(cand) = Written(record)
  BY DEF Committed
<1>2. private \in FsRecords /\ private.app = cand.app
  BY DEF FsRecords, NoOne
<1>3. Fits(cand, fs) /\ cand.revision = fs.revision => private.owner = cand.owner
  BY DEF FsRecords, NoOne, Fits
<1> HIDE DEF private
<1>4. /\ record \in FsRecords /\ record.app = cand.app
      /\ Fits(cand, fs) /\ cand.revision = fs.revision => Coherent(record)
  BY <1>2, <1>3 DEF FsRecords, Coherent
<1> HIDE DEF record
<1> QED
  BY <1>1, <1>4, RecordWritten

LEMMA CommitKeeps ==
  ASSUME FsInv, Commits
  PROVE  FsInv'
<1>1. /\ fs \in FsRecords /\ change \in Changes /\ change.pc = "starting"
      /\ change.cand \in FsRecords /\ change.before \in FsRecords /\ change.replacing \in BOOLEAN
      /\ UNCHANGED <<bot, waiting, outdated, unrestored>>
  BY DEF Commits, FsInv, FsTypeOK, Changes
<1>2. CASE fs' = fs /\ change' = [pc |-> "none"]
  <2>1. change' \in Changes /\ change'.pc = "none"
    BY <1>2 DEF Changes
  <2> QED
    BY <1>1, <1>2, <2>1 DEF FsInv, FsTypeOK, WaitingFit, StartFits, StopFits, BeforeFits, BotFits
<1>3. CASE Unchanged(change.before) /\ fs' = Committed(change.cand)
           /\ change' = [change EXCEPT !.pc = "stopping", !.cand = fs']
  <2>1. change.before = fs /\ (~outdated => Fits(change.cand, fs) /\ change.cand.revision = fs.revision)
    BY <1>1, <1>3 DEF Unchanged, FsInv, StartFits
  <2>2. /\ fs' \in FsRecords /\ fs'.revision = fs.revision + 1 /\ fs'.app = change.cand.app
        /\ ~outdated => Coherent(fs')
    BY <1>1, <1>3, <2>1, CommittedFits
  <2>3. /\ change' \in Changes /\ change'.pc = "stopping" /\ change'.cand = fs' /\ change'.before = change.before
    BY <1>1, <1>3, <2>2 DEF Changes
  <2>4. waiting' \in Seq(WaitingOps) /\ WaitingFit'
    BY <1>1, <2>2, WaitingOlder
  <2> QED
    BY <1>1, <2>1, <2>2, <2>3, <2>4 DEF FsInv, FsTypeOK, StartFits, StopFits, BeforeFits, BotFits
<1> QED
  BY <1>2, <1>3 DEF Commits

LEMMA StopKeeps ==
  ASSUME FsInv, PreviousStops \/ PreviousFailsToStop
  PROVE  FsInv'
<1>1. /\ fs \in FsRecords /\ change \in Changes /\ change.pc = "stopping" /\ change' = [pc |-> "none"]
      /\ change.cand \in FsRecords /\ change.before \in FsRecords
      /\ UNCHANGED <<waiting, outdated>>
  BY DEF PreviousStops, PreviousFailsToStop, FsInv, FsTypeOK, Changes
<1>2. change' \in Changes /\ change'.pc = "none"
  BY <1>1 DEF Changes
<1>3. CASE PreviousStops
  BY <1>1, <1>2, <1>3 DEF PreviousStops, FsInv, FsTypeOK, WaitingFit, StartFits, StopFits, BeforeFits, BotFits
<1>4. CASE PreviousFailsToStop /\ ~Unchanged(change.cand)
  BY <1>1, <1>2, <1>4 DEF PreviousFailsToStop, FsInv, FsTypeOK, WaitingFit, StartFits, StopFits, BeforeFits, BotFits
<1>5. CASE PreviousFailsToStop /\ Unchanged(change.cand)
  <2>1. fs' = Written(change.before) /\ UNCHANGED <<bot, unrestored>>
    BY <1>5 DEF PreviousFailsToStop
  <2>2. /\ fs' \in FsRecords /\ fs'.revision = fs.revision + 1 /\ fs'.app = change.before.app
        /\ ~outdated => Coherent(fs')
    BY <1>1, <2>1, RecordWritten DEF FsInv, BeforeFits
  <2>3. waiting' \in Seq(WaitingOps) /\ WaitingFit'
    BY <1>1, <2>2, WaitingOlder
  <2> QED
    BY <1>1, <1>2, <2>1, <2>2, <2>3 DEF FsInv, FsTypeOK, StartFits, StopFits, BeforeFits, BotFits
<1> QED
  BY <1>3, <1>4, <1>5

LEMMA FsNextInv ==
  ASSUME FsInv, [FsNext]_fsVars
  PROVE  FsInv'
<1>1. CASE UNCHANGED fsVars
  BY <1>1 DEF fsVars, FsInv, FsTypeOK, WaitingFit, StartFits, StopFits, BeforeFits, BotFits
<1> QED
  BY <1>1, WritesKeep, LockKeeps, StartFailsKeeps, CommitKeeps, StopKeeps, EventKeeps, UpdateKeeps DEF FsNext

(* However the events, the control operations and a replacement of the      *)
(* credentials by reload_account interleave, the record agrees with itself *)
(* and with the bot that runs.                                             *)
THEOREM AccountIsCoherentAlways == FsSpec => []AccountIsCoherent
<1>1. FsInv => AccountIsCoherent
  BY DEF FsInv, BotFits, Coherent, AccountIsCoherent
<1> QED
  BY <1>1, FsInitInv, FsNextInv, PTL DEF FsSpec
=============================================================================
