--------------------------- MODULE ProactivePages ---------------------------
(***************************************************************************)
(* What the users are told of the Owner's proactive state: the incident of *)
(* one fingerprint (proactive/incidents.py), one Breakbeat item, the       *)
(* notices to the channels (proactive/notifications.py), and a Web page    *)
(* that follows the snapshots of both domains (web/backend/                *)
(* proactive_events.py, proactive_control.py).  A report does not wait     *)
(* between its write and its notices: the outbound bus is unbounded.       *)
(***************************************************************************)
EXTENDS Naturals, Sequences

CONSTANTS
  PageLimit,      \* snapshots a page may lag behind (64) before the oldest is dropped
  MaxChanges,     \* bound on the changes
  MaxPageFaults   \* bound on what is lost: connections, deliveries, the process

ASSUME PagesAssumption ==
  PageLimit \in Nat \ {0} /\ MaxChanges \in Nat /\ MaxPageFaults \in Nat

VARIABLES
  data,       \* incidents.json and breakbeat.json
  reviewing,  \* whose review has saved the item and is under way: "tick", "hand" or "none"
  outbox,     \* notices on the outbound bus
  online,     \* can the subscribed recipient on another channel be reached?
  told,       \* what the last notice told it of the incident
  untold,     \* history: has it not been told of the newest edge?
  revision,   \* _proactive_revision
  page,       \* is it connected, its initial snapshots, its queue, what it shows
  stale,      \* history: domains of which the page was not told
  pageCounts  \* changes and faults so far

pageVars == <<data, reviewing, outbox, online, told, untold, revision, page, stale, pageCounts>>

Domains == {"incident", "breakbeat"}
Snapshot(domain, files, rev) == [domain |-> domain, value |-> files[domain], rev |-> rev]
Notice == [domain |-> "notice", value |-> "none", rev |-> 0]

PagesInit ==
  /\ data = [incident |-> "none", breakbeat |-> "none"] /\ reviewing = "none"
  /\ outbox = <<>> /\ online = TRUE /\ untold = FALSE /\ told = "none"
  /\ revision = 0 /\ stale = {} /\ pageCounts = [changes |-> 0, faults |-> 0]
  /\ page = [on |-> FALSE, first |-> <<>>, queue |-> <<>>,
             shows |-> [d \in Domains |-> [value |-> "none", rev |-> 0]]]

Change == pageCounts.changes < MaxChanges /\ pageCounts' = [pageCounts EXCEPT !.changes = @ + 1]
PageFault == pageCounts.faults < MaxPageFaults /\ pageCounts' = [pageCounts EXCEPT !.faults = @ + 1]

-----------------------------------------------------------------------------
(* _broadcast: a page that is too slow loses the oldest entry of its queue, *)
(* of whatever domain.                                                      *)
Dropped(queue) == IF Len(queue) > PageLimit THEN {Head(queue).domain} ELSE {}
Pushed_KeepsOld(queue, entry) == IF Len(queue) > PageLimit THEN queue ELSE Append(queue, entry)
Pushed(queue, entry) == Append(IF Len(queue) > PageLimit THEN Tail(queue) ELSE queue, entry)

Broadcast(entry) ==
  IF page.on
  THEN /\ page' = [page EXCEPT !.queue = Pushed(@, entry)]
       /\ stale' = stale \cup (Dropped(page.queue) \cap Domains)
  ELSE UNCHANGED <<page, stale>>

BroadcastTwo(first, second) ==
  IF page.on
  THEN LET once == Pushed(page.queue, first)
       IN /\ page' = [page EXCEPT !.queue = Pushed(once, second)]
          /\ stale' = stale \cup ((Dropped(page.queue) \cup Dropped(once)) \cap Domains)
  ELSE UNCHANGED <<page, stale>>

(* publish_snapshot with changed=True: what is in the file now. *)
Publishes(domain, files) ==
  /\ revision' = revision + 1
  /\ Broadcast(Snapshot(domain, files, revision + 1))

-----------------------------------------------------------------------------
(* The fan-out of an edge: to the page, and to whom can be reached now. *)
Notices(edge) ==
  LET everyone == <<[to |-> "page", edge |-> edge], [to |-> "channel", edge |-> edge]>>
  IN outbox' = outbox \o (IF online THEN everyone ELSE <<Head(everyone)>>) /\ untold' = (untold \/ ~online)

Unnoticed == untold' = TRUE /\ UNCHANGED outbox

(* report_failure; one that is open already is only counted. *)
FailureIsReported(notify) ==
  LET files == [data EXCEPT !.incident = "open"]
  IN /\ Change /\ data' = files /\ Publishes("incident", files)
     /\ IF data.incident = "open" THEN UNCHANGED <<outbox, untold>>
        ELSE IF notify THEN Notices("open") ELSE Unnoticed
     /\ UNCHANGED <<reviewing, online, told>>

(* report_recovery *)
RecoveryIsReported(notify) ==
  LET files == [data EXCEPT !.incident = "resolved"]
  IN /\ data.incident = "open" /\ Change
     /\ data' = files /\ Publishes("incident", files)
     /\ IF notify THEN Notices("resolved") ELSE Unnoticed
     /\ UNCHANGED <<reviewing, online, told>>

(* A user resolves or deletes the incident on the page: the monitor         *)
(* publishes the domain, and then the request does; nobody is notified.     *)
UserActsOnIncident(result) ==
  LET files == [data EXCEPT !.incident = result]
  IN /\ data.incident # "none" /\ (result = "resolved" => data.incident = "open") /\ Change
     /\ data' = files /\ revision' = revision + 2
     /\ BroadcastTwo(Snapshot("incident", files, revision + 1), Snapshot("incident", files, revision + 2))
     /\ Unnoticed
     /\ UNCHANGED <<reviewing, online, told>>

UserResolves == UserActsOnIncident("resolved")
UserDeletes == UserActsOnIncident("none")

-----------------------------------------------------------------------------
Reviewing == reviewing # "none"

(* A Breakbeat review, of the scheduler or by hand (the chat tool or the    *)
(* Catalog), saves what it found and publishes at its end.                  *)
ReviewFindsItem(whose) ==
  /\ data.breakbeat = "none" /\ ~Reviewing /\ Change
  /\ data' = [data EXCEPT !.breakbeat = "pending"] /\ reviewing' = whose
  /\ UNCHANGED <<outbox, online, told, untold, revision, page, stale>>

ReviewIsOver ==
  /\ Reviewing /\ reviewing' = "none" /\ Publishes("breakbeat", data)
  /\ UNCHANGED <<data, outbox, online, told, untold, pageCounts>>

(* A review by hand that is cancelled, times out or raises after that       *)
(* publishes nothing; only the scheduler's does so in a `finally`.          *)
ReviewByHandIsCut ==
  /\ reviewing = "hand" /\ reviewing' = "none"
  /\ stale' = stale \cup {"breakbeat"}
  /\ UNCHANGED <<data, outbox, online, told, untold, revision, page, pageCounts>>

ItemBecomes(status) ==
  /\ data.breakbeat # "none" /\ (status = "completed" => data.breakbeat = "pending")
  /\ Change /\ data' = [data EXCEPT !.breakbeat = status]

(* complete_breakbeat, delete_breakbeat *)
UserActsOnItem(status) ==
  /\ ItemBecomes(status)
  /\ Publishes("breakbeat", data')
  /\ UNCHANGED <<reviewing, outbox, online, told, untold>>

(* The same by the tools of a chat turn: they publish nothing. *)
ToolActsOnItem(status) ==
  /\ ItemBecomes(status)
  /\ stale' = stale \cup {"breakbeat"}
  /\ UNCHANGED <<reviewing, outbox, online, told, untold, revision, page>>

-----------------------------------------------------------------------------
ForChannel == {i \in DOMAIN outbox : outbox[i].to = "channel"}

(* The ChannelManager hands out the notices in order.  To the page it is a  *)
(* notice and a snapshot, with the revision of the notice.                  *)
NoticeReachesPage ==
  /\ outbox # <<>> /\ Head(outbox).to = "page"
  /\ outbox' = Tail(outbox) /\ revision' = revision + 1
  /\ BroadcastTwo(Notice, Snapshot("incident", data, revision + 1))
  /\ UNCHANGED <<data, reviewing, online, told, untold, pageCounts>>

NoticeReachesChannel ==
  /\ outbox # <<>> /\ Head(outbox).to = "channel"
  /\ outbox' = Tail(outbox) /\ told' = Head(outbox).edge
  /\ untold' = (untold /\ (told' # data.incident \/ ForChannel # {1}))
  /\ UNCHANGED <<data, reviewing, online, revision, page, stale, pageCounts>>

(* Refused, or not accepted in time: it is not sent again. *)
NoticeIsLost ==
  /\ outbox # <<>> /\ Head(outbox).to = "channel" /\ PageFault
  /\ outbox' = Tail(outbox) /\ untold' = TRUE
  /\ UNCHANGED <<data, reviewing, online, told, revision, page, stale>>

ChannelChanges ==
  /\ PageFault /\ online' = ~online
  /\ UNCHANGED <<data, reviewing, outbox, told, untold, revision, page, stale>>

-----------------------------------------------------------------------------
(* The page subscribes, gets the snapshots of all domains, then its queue.  *)
PageConnects ==
  /\ ~page.on
  /\ page' = [page EXCEPT !.on = TRUE,
                          !.first = <<Snapshot("incident", data, revision), Snapshot("breakbeat", data, revision)>>]
  /\ UNCHANGED <<data, reviewing, outbox, online, told, untold, revision, stale, pageCounts>>

(* receiveProactiveSnapshot does not take a snapshot of a lower revision.   *)
(* (A page with what is in the file is not stale any more, if nothing of    *)
(* the domain is still to come.)                                            *)
IsNewer(entry) == page.shows[entry.domain].rev <= entry.rev

PageReads ==
  /\ page.on /\ page.first \o page.queue # <<>>
  /\ LET entry == Head(page.first \o page.queue)
         rest == IF page.first # <<>> THEN [page EXCEPT !.first = Tail(@)]
                 ELSE [page EXCEPT !.queue = Tail(@)]
             coming == {(rest.first \o rest.queue)[i].domain : i \in DOMAIN (rest.first \o rest.queue)}
     IN IF entry.domain \notin Domains THEN page' = rest /\ UNCHANGED stale
        ELSE IF ~IsNewer(entry) THEN page' = rest /\ stale' = stale \cup {entry.domain}
        ELSE /\ page' = [rest EXCEPT !.shows[entry.domain] = [value |-> entry.value, rev |-> entry.rev]]
             /\ stale' = IF entry.value = data[entry.domain] /\ entry.domain \notin coming THEN stale \ {entry.domain} ELSE stale
  /\ UNCHANGED <<data, reviewing, outbox, online, told, untold, revision, pageCounts>>

PageDisconnects ==
  /\ page.on /\ PageFault
  /\ page' = [page EXCEPT !.on = FALSE, !.first = <<>>, !.queue = <<>>]
  /\ UNCHANGED <<data, reviewing, outbox, online, told, untold, revision, stale>>

(* publish_all, when the Host has replaced the Runtime. *)
RuntimeIsReplaced ==
  /\ page.on /\ Change
  /\ BroadcastTwo(Snapshot("incident", data, revision), Snapshot("breakbeat", data, revision))
  /\ UNCHANGED <<data, reviewing, outbox, online, told, untold, revision>>

(* The revisions start anew; the page keeps what it shows. *)
PagesRestart ==
  /\ PageFault
  /\ reviewing' = "none" /\ outbox' = <<>> /\ revision' = 0
  /\ untold' = (untold \/ ForChannel # {})
  /\ page' = [page EXCEPT !.on = FALSE, !.first = <<>>, !.queue = <<>>]
  /\ UNCHANGED <<data, online, told, stale>>

PagesNext ==
  \/ UserResolves \/ UserDeletes \/ ReviewIsOver \/ ReviewByHandIsCut
  \/ NoticeReachesPage \/ NoticeReachesChannel \/ NoticeIsLost \/ ChannelChanges
  \/ PageConnects \/ PageReads \/ PageDisconnects \/ RuntimeIsReplaced \/ PagesRestart
  \/ \E whose \in {"tick", "hand"} : ReviewFindsItem(whose)
  \/ \E notify \in BOOLEAN : FailureIsReported(notify) \/ RecoveryIsReported(notify)
  \/ \E status \in {"completed", "none"} : UserActsOnItem(status) \/ ToolActsOnItem(status)

PagesSpec == PagesInit /\ [][PagesNext]_pageVars

-----------------------------------------------------------------------------
(* Nobody goes on believing what is over: a page that has read all that it  *)
(* got shows both files as they are, also when it reconnected or a notice   *)
(* came between, and a recipient whose notices have all arrived knows the   *)
(* last edge of the incident.  Excepted are a page whose snapshot was       *)
(* dropped, ignored or never sent (the tools of a chat turn send none, nor  *)
(* does a review by hand that is cut), and a recipient that missed a notice. *)
UsersAreUpToDate ==
  /\ (page.on /\ page.first \o page.queue = <<>>) =>
       \A d \in Domains : page.shows[d].value = data[d] \/ d \in stale \/ (d = "breakbeat" /\ Reviewing)
  /\ (~untold /\ ForChannel = {}) => told = data.incident
=============================================================================
