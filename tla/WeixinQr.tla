------------------------------ MODULE WeixinQr ------------------------------
(***************************************************************************)
(* The login codes of one Weixin binding: the ordinary login and the       *)
(* rescan (channels/weixin.py), the code in the memory cache, and the      *)
(* local window that shows it (channels/weixin_qr.py).  One login step     *)
(* holds the binding lock while it waits for the platform and for the      *)
(* window to start.  A window that its user closes calls back without the  *)
(* lock, and so does the failure of an old reply.                          *)
(***************************************************************************)
EXTENDS Naturals, FiniteSets

CONSTANTS
  MaxCodes,      \* bound on the codes the platform gives
  MaxAttempts,   \* bound on the rescans
  MaxQrFaults    \* bound on failures, and on disabling and enabling

ASSUME QrAssumption == MaxCodes \in Nat /\ MaxAttempts \in Nat /\ MaxQrFaults \in Nat

VARIABLES
  acct,      \* the record: status, enabled, qrcode, level (of what the login has brought)
  pending,   \* _pending_rebinds: the attempt and the code of the candidate; attempt 0: none
  driver,    \* the attempt of the running _rebind_loop, 0 without one
  polls,     \* is there a poll task, which drives the ordinary login?
  cached,    \* the code in InMemoryIlinkQrCache, 0 without one
  windows,   \* open windows: generation (0 for the ordinary login) and code
  closers,   \* callbacks of closed windows that wait for the lock
  step,      \* the login step that holds the lock: pc, attempt, code it works on, is it new
  calls,     \* control operations that wait for the lock
  counts,    \* codes and attempts given out so far, faults
  logged,    \* has anybody logged in?  Then an old reply may still fail
  crossed    \* history: did a window end a rescan it did not belong to?

qrVars == <<acct, pending, driver, polls, cached, windows, closers, step, calls, counts, logged, crossed>>

NoStep == [pc |-> "free", attempt |-> 0, code |-> 0, fresh |-> FALSE]
NoRebind == [attempt |-> 0, code |-> 0]
LockIsFree == step.pc = "free"
QrFault == counts.faults < MaxQrFaults /\ counts' = [counts EXCEPT !.faults = @ + 1]

QrInit ==
  /\ acct \in {[status |-> "pending_qr", enabled |-> TRUE, code |-> 0, level |-> "none"],
               [status |-> "active", enabled |-> TRUE, code |-> 0, level |-> "user"]}
  /\ pending = NoRebind /\ driver = 0 /\ polls = TRUE /\ cached = 0 /\ windows = {}
  /\ closers = {} /\ step = NoStep /\ calls = {} /\ logged = (acct.level = "user")
  /\ counts = [codes |-> 0, attempts |-> 0, faults |-> 0] /\ crossed = FALSE

-----------------------------------------------------------------------------
(* _dismiss_qr: the window's task is cancelled and does not call back. *)
DismissQr == cached' = 0 /\ windows' = {}
KeepQr == UNCHANGED <<cached, windows>>

Failed(record) == [record EXCEPT !.status = "failed", !.code = 0]

(* _discard_rebind_locked *)
Discard ==
  IF pending.attempt = 0 THEN UNCHANGED <<pending, driver>> /\ KeepQr
  ELSE pending' = NoRebind /\ driver' = 0 /\ DismissQr

(* A step asks for the state of its code while the user still has it, and  *)
(* for a new code otherwise.                                               *)
BeginStep(attempt, code, available) ==
  IF code # 0 /\ available
  THEN step' = [pc |-> "platform", attempt |-> attempt, code |-> code, fresh |-> FALSE] /\ UNCHANGED counts
  ELSE /\ counts.codes < MaxCodes
       /\ counts' = [counts EXCEPT !.codes = @ + 1]
       /\ step' = [pc |-> "platform", attempt |-> attempt, code |-> counts.codes + 1, fresh |-> TRUE]

(* put into the cache; present dismisses the window before it starts one. *)
Show ==
  /\ cached' = step.code /\ windows' = {}
  /\ step' = [step EXCEPT !.pc = "presenting"]

-----------------------------------------------------------------------------
(* The ordinary login. *)
LoginBegins ==
  /\ LockIsFree /\ polls /\ acct.enabled /\ acct.status = "pending_qr"
  /\ BeginStep(0, acct.code, cached # 0)
  /\ UNCHANGED <<acct, pending, driver, polls, cached, windows, closers, calls, logged, crossed>>

LoginStepWaits ==
  /\ step.pc = "platform" /\ step.attempt = 0
  /\ IF step.fresh
     THEN acct' = [acct EXCEPT !.status = "pending_qr", !.code = step.code] /\ Show
     ELSE /\ acct' = IF cached = 0 /\ windows = {} THEN Failed(acct) ELSE [acct EXCEPT !.status = "pending_qr"]
          /\ step' = NoStep /\ KeepQr
  /\ UNCHANGED <<pending, driver, polls, closers, calls, counts, logged, crossed>>

LoginStepScanned ==
  /\ step.pc = "platform" /\ step.attempt = 0 /\ ~step.fresh
  /\ acct' = [acct EXCEPT !.status = "awaiting_first_dm", !.level = "credentials"]
  /\ step' = NoStep /\ logged' = TRUE /\ DismissQr
  /\ UNCHANGED <<pending, driver, polls, closers, calls, counts, crossed>>

LoginStepFails ==
  /\ step.pc = "platform" /\ step.attempt = 0 /\ QrFault
  /\ acct' = Failed(acct) /\ step' = NoStep /\ DismissQr
  /\ UNCHANGED <<pending, driver, polls, closers, calls, logged, crossed>>

-----------------------------------------------------------------------------
(* The rescan.  Another one under way is discarded. *)
RescanBegins ==
  /\ LockIsFree /\ acct.status \in {"active", "expired"} /\ counts.attempts < MaxAttempts
  /\ counts.codes < MaxCodes
  /\ counts' = [counts EXCEPT !.attempts = @ + 1, !.codes = @ + 1]
  /\ pending' = [attempt |-> counts.attempts + 1, code |-> 0]
  /\ driver' = 0
  /\ step' = [pc |-> "platform", attempt |-> counts.attempts + 1, code |-> counts.codes + 1, fresh |-> TRUE]
  /\ IF pending.attempt = 0 THEN KeepQr ELSE DismissQr
  /\ UNCHANGED <<acct, polls, closers, calls, logged, crossed>>

RescanGoesOn ==
  /\ LockIsFree /\ driver # 0
  /\ BeginStep(driver, pending.code, cached # 0 \/ windows # {})
  /\ UNCHANGED <<acct, pending, driver, polls, cached, windows, closers, calls, logged, crossed>>

(* The candidate waits for the scan: start_rebind then has a loop drive it. *)
RescanWaits ==
  /\ step.pc = "platform" /\ step.attempt # 0
  /\ IF step.fresh
     THEN pending' = [pending EXCEPT !.code = step.code] /\ Show /\ UNCHANGED driver
     ELSE /\ step' = NoStep
          /\ IF cached = 0 /\ windows = {} THEN Discard ELSE UNCHANGED <<pending, driver>> /\ KeepQr
  /\ UNCHANGED <<acct, polls, closers, calls, counts, logged, crossed>>

RescanFails ==
  /\ step.pc = "platform" /\ step.attempt # 0 /\ QrFault
  /\ Discard /\ step' = NoStep
  /\ UNCHANGED <<acct, polls, closers, calls, logged, crossed>>

(* _commit_rebind_locked *)
RescanScanned ==
  /\ step.pc = "platform" /\ step.attempt # 0 /\ ~step.fresh
  /\ Discard /\ step' = NoStep
  /\ IF acct.status = "disabled" THEN UNCHANGED <<acct, polls, logged>>
     ELSE /\ acct' = [status |-> "awaiting_first_dm", enabled |-> TRUE, code |-> 0, level |-> "credentials"]
          /\ polls' = TRUE /\ logged' = TRUE
  /\ UNCHANGED <<closers, calls, counts, crossed>>

(* The record is not written: the error ends the loop, the attempt stays. *)
RescanIsNotSaved ==
  /\ step.pc = "platform" /\ step.attempt # 0 /\ ~step.fresh /\ QrFault
  /\ step' = NoStep /\ driver' = 0
  /\ UNCHANGED <<acct, pending, polls, cached, windows, closers, calls, logged, crossed>>

-----------------------------------------------------------------------------
(* The window has started, or could not be: the code is in the cache. *)
Presented(ok) ==
  /\ step.pc = "presenting"
  /\ IF ok THEN UNCHANGED counts ELSE QrFault
  /\ step' = NoStep
  /\ IF step.attempt # 0 /\ ~ok /\ cached = 0 THEN Discard
     ELSE /\ windows' = windows \cup (IF ok THEN {[gen |-> step.attempt, code |-> step.code]} ELSE {})
          /\ driver' = IF step.attempt # 0 THEN step.attempt ELSE driver
          /\ UNCHANGED <<pending, cached>>
  /\ UNCHANGED <<acct, polls, closers, calls, logged, crossed>>

(* The callback of a closed window concerns the rescan it showed; that of  *)
(* the ordinary login has no generation.                                   *)
Concerns_Any(gen) == pending.attempt # 0
Concerns(gen) == pending.attempt # 0 /\ (gen = 0 \/ gen = pending.attempt)

(* Without a rescan the ordinary login fails, also in the middle of a step. *)
UserClosesWindow(w) ==
  /\ w \in windows
  /\ windows' = windows \ {w}
  /\ closers' = IF Concerns(w.gen) THEN closers \cup {w.gen} ELSE closers
  /\ IF pending.attempt = 0 /\ acct.status = "pending_qr"
     THEN acct' = Failed(acct) /\ cached' = 0 ELSE UNCHANGED <<acct, cached>>
  /\ UNCHANGED <<pending, driver, polls, step, calls, counts, logged, crossed>>

CloserRuns(gen) ==
  /\ gen \in closers /\ LockIsFree
  /\ closers' = closers \ {gen}
  /\ IF Concerns(gen) THEN Discard ELSE UNCHANGED <<pending, driver>> /\ KeepQr
  /\ crossed' = (crossed \/ (Concerns(gen) /\ gen \notin {0, pending.attempt}))
  /\ UNCHANGED <<acct, polls, step, calls, counts, logged>>

CodeIsTooOld ==
  /\ cached # 0 /\ cached' = 0
  /\ UNCHANGED <<acct, pending, driver, polls, windows, closers, step, calls, counts, logged, crossed>>

-----------------------------------------------------------------------------
(* _expire_binding, when a poll or a late reply finds the credentials       *)
(* invalid: without the lock, and sparing the code of a candidate.          *)
QrExpires ==
  /\ logged /\ QrFault
  /\ acct' = [status |-> "expired", enabled |-> FALSE, code |-> 0, level |-> "none"]
  /\ IF pending.attempt = 0 THEN DismissQr ELSE KeepQr
  /\ UNCHANGED <<pending, driver, polls, closers, step, calls, logged, crossed>>

FirstDm ==
  /\ polls /\ acct.status = "awaiting_first_dm" /\ acct.enabled
  /\ acct' = [acct EXCEPT !.status = "active", !.level = "user"]
  /\ UNCHANGED <<pending, driver, polls, cached, windows, closers, step, calls, counts, logged, crossed>>

(* The control operations write the record, then wait for the lock. *)
ControlDisables ==
  /\ QrFault
  /\ acct' = [acct EXCEPT !.status = "disabled", !.enabled = FALSE] /\ calls' = calls \cup {"stop"}
  /\ UNCHANGED <<pending, driver, polls, cached, windows, closers, step, logged, crossed>>

ControlEnables ==
  /\ acct.status # "expired" /\ "stop" \notin calls /\ QrFault
  /\ acct' = [acct EXCEPT !.enabled = TRUE,
                          !.status = IF acct.level = "user" THEN "active"
                                     ELSE IF acct.level = "credentials" THEN "awaiting_first_dm" ELSE "pending_qr"]
  /\ calls' = calls \cup {"prepare"}
  /\ UNCHANGED <<pending, driver, polls, cached, windows, closers, step, logged, crossed>>

(* disable_account discards the rescan, ends the poll task, closes the window. *)
AccountStops ==
  /\ "stop" \in calls /\ LockIsFree
  /\ calls' = calls \ {"stop"} /\ polls' = FALSE
  /\ pending' = NoRebind /\ driver' = 0 /\ DismissQr
  /\ UNCHANGED <<acct, closers, step, counts, logged, crossed>>

AccountPrepares ==
  /\ "prepare" \in calls /\ LockIsFree
  /\ calls' = calls \ {"prepare"}
  /\ polls' = (polls \/ (acct.enabled /\ acct.status \in {"pending_qr", "awaiting_first_dm", "active"}))
  /\ UNCHANGED <<acct, pending, driver, cached, windows, closers, step, counts, logged, crossed>>

QrNext ==
  \/ LoginBegins \/ LoginStepWaits \/ LoginStepScanned \/ LoginStepFails
  \/ RescanBegins \/ RescanGoesOn \/ RescanWaits \/ RescanFails \/ RescanScanned \/ RescanIsNotSaved
  \/ CodeIsTooOld \/ QrExpires \/ FirstDm
  \/ ControlDisables \/ ControlEnables \/ AccountStops \/ AccountPrepares
  \/ \E ok \in BOOLEAN : Presented(ok)
  \/ \E w \in windows : UserClosesWindow(w)
  \/ \E gen \in closers : CloserRuns(gen)

QrSpec == QrInit /\ [][QrNext]_qrVars

-----------------------------------------------------------------------------
(* What the user sees is what the program waits for: between two steps one *)
(* window at most is open, and it shows the code of the rescan under way,  *)
(* or else of the ordinary login; and a window that is closed ends no      *)
(* rescan but the one it showed.  (An expiry in the middle of an ordinary  *)
(* login leaves a window behind on a record that is not enabled.)          *)
QrFollowsLogin ==
  /\ ~crossed
  /\ (LockIsFree /\ calls = {}) =>
       /\ Cardinality(windows) <= 1
       /\ \A w \in windows :
            \/ w = [gen |-> pending.attempt, code |-> pending.code] /\ w.gen # 0
            \/ w = [gen |-> 0, code |-> acct.code] /\ acct.status = "pending_qr"
            \/ w.gen = 0 /\ ~acct.enabled
=============================================================================
