------------------------ MODULE GatewayTurns_proofs ------------------------
(***************************************************************************)
(* Theorems about GatewayTurns, for every set of requests, routes and      *)
(* accounts and every cache limit.                                         *)
(***************************************************************************)
EXTENDS GatewayTurns, SequenceTheorems, TLAPS

(* Removing one entry of a sequence: what move_to_end relies on. *)
LEMMA WithoutType ==
  ASSUME NEW S, NEW s \in Seq(S), NEW r
  PROVE  Without(s, r) \in Seq(S) /\ Len(Without(s, r)) <= Len(s)
<1>1. CASE r \notin Elems(s)
  BY <1>1 DEF Without
<1>2. CASE r \in Elems(s)
  <2> DEFINE k == CHOOSE i \in 1..Len(s) : s[i] = r
  <2>1. k \in 1..Len(s)
    BY <1>2 DEF Elems
  <2> HIDE DEF k
  <2> DEFINE a == SubSeq(s, 1, k - 1)
             b == SubSeq(s, k + 1, Len(s))
  <2>2. a \in Seq(S) /\ Len(a) = k - 1
    BY <2>1, SubSeqProperties, LenProperties
  <2>3. b \in Seq(S) /\ Len(b) = Len(s) - k
    BY <2>1, SubSeqProperties, LenProperties
  <2>4. Without(s, r) = a \o b
    BY <1>2 DEF Without, k
  <2> HIDE DEF a, b
  <2>5. a \o b \in Seq(S) /\ Len(a \o b) = Len(a) + Len(b)
    BY <2>2, <2>3, ConcatProperties
  <2> QED
    BY <2>1, <2>2, <2>3, <2>4, <2>5, LenProperties
<1> QED
  BY <1>1, <1>2

(* The cache keeps its bound when one reply is added. *)
LEMMA EvictType ==
  ASSUME terminal \in Seq(Req), Len(terminal) <= TerminalLimit, NEW r \in Req
  PROVE  /\ Evict(Cached(r)) \in Seq(Req)
         /\ Len(Evict(Cached(r))) <= TerminalLimit
<1> DEFINE w == Without(terminal, r)
<1>1. w \in Seq(Req) /\ Len(w) <= TerminalLimit
  <2>1. w \in Seq(Req) /\ Len(w) <= Len(terminal)
    BY WithoutType
  <2> QED
    BY <2>1, LimitAssumption, LenProperties
<1> HIDE DEF w
<1>2. Append(w, r) \in Seq(Req) /\ Len(Append(w, r)) = Len(w) + 1
  BY <1>1, AppendProperties
<1>3. Cached(r) = Append(w, r)
  BY DEF Cached, w
<1> QED
  BY <1>1, <1>2, <1>3, LimitAssumption, HeadTailProperties, LenProperties DEF Evict

-----------------------------------------------------------------------------
(* Typing.  The head of a waiting line is a request, and the rest a line. *)
LEMMA LineType ==
  ASSUME TypeOK, NEW ro \in Route, pending[ro] # <<>>
  PROVE  Head(pending[ro]) \in Req /\ Tail(pending[ro]) \in Seq(Req)
<1>1. pending[ro] \in Seq(Req)
  BY DEF TypeOK
<1> QED
  BY <1>1, HeadTailProperties

LEMMA PromoteType ==
  ASSUME TypeOK, NEW ro \in Route, NEW r \in Req, pending[ro] # <<>>, PromoteNext(ro, r)
  PROVE  /\ active' \in [Route -> Req \union {NoReq}]
         /\ pending' \in [Route -> Seq(Req)]
         /\ dispatching' \subseteq Req
         /\ consumer' \in Req \union {NoReq}
<1>1. Head(pending[ro]) \in Req /\ Tail(pending[ro]) \in Seq(Req)
  BY LineType
<1> QED
  BY <1>1 DEF TypeOK, PromoteNext

LEMMA TypeStep == TypeOK /\ [Next]_vars => TypeOK'
<1> SUFFICES ASSUME TypeOK, [Next]_vars PROVE TypeOK'
  OBVIOUS
<1> USE RouteAssumption
<1>1. ASSUME NEW r \in Req, Submit(r) PROVE TypeOK'
  <2>1. RouteOf[r] \in Route
    OBVIOUS
  <2>2. noticed' \in BOOLEAN
    BY <1>1 DEF Submit, Notice
  <2>3. /\ inflight' = inflight \union {r}
        /\ UNCHANGED <<stage, terminal, blocks, controls, phase, consumer, ran, forgotten>>
    BY <1>1 DEF Submit
  <2>4. pending' \in [Route -> Seq(Req)]
    <3>1. \/ pending' = [pending EXCEPT ![RouteOf[r]] = Append(pending[RouteOf[r]], r)]
          \/ pending' = pending
      BY <1>1 DEF Submit, Enqueue
    <3>2. Append(pending[RouteOf[r]], r) \in Seq(Req)
      BY <2>1, AppendProperties DEF TypeOK
    <3> QED
      BY <2>1, <3>1, <3>2 DEF TypeOK
  <2>5. active' = active \/ active' = [active EXCEPT ![RouteOf[r]] = r]
    BY <1>1 DEF Submit
  <2>6. active' \in [Route -> Req \union {NoReq}]
    BY <2>1, <2>5 DEF TypeOK
  <2>7. dispatching' \subseteq Req
    BY <1>1 DEF Submit, TypeOK
  <2> QED
    BY <2>2, <2>3, <2>4, <2>6, <2>7 DEF TypeOK
<1>2. ASSUME NEW r \in Req, DispatchOk(r) PROVE TypeOK'
  BY <1>2 DEF TypeOK, DispatchOk, Notice, turnVars, Phases
<1>3. ASSUME NEW r \in Req, NEW adv \in BOOLEAN, Rollback(r, adv), DropControl(r),
             stage' \in Stages, UNCHANGED <<terminal, blocks, phase, ran, forgotten>>
      PROVE  TypeOK'
  <2>1. RouteOf[r] \in Route /\ <<>> \in Seq(Req)
    OBVIOUS
  <2>2. controls' \in [Route -> Req \union {NoReq}]
    BY <1>3 DEF TypeOK, DropControl
  <2>3. /\ active' \in [Route -> Req \union {NoReq}]
        /\ pending' \in [Route -> Seq(Req)]
        /\ inflight' \subseteq Req
        /\ dispatching' \subseteq Req
        /\ consumer' \in Req \union {NoReq}
        /\ noticed' \in BOOLEAN
    <3>1. CASE active[RouteOf[r]] = r /\ adv /\ pending[RouteOf[r]] # <<>>
      <4>1. PromoteNext(RouteOf[r], r) /\ inflight' = inflight \ {r} /\ Notice(FALSE)
        BY <1>3, <3>1 DEF Rollback
      <4> QED
        BY <4>1, <3>1, <2>1, PromoteType DEF TypeOK, Notice
    <3>2. CASE active[RouteOf[r]] # r
      BY <1>3, <3>2 DEF TypeOK, Rollback, Notice
    <3>3. CASE active[RouteOf[r]] = r /\ ~(adv /\ pending[RouteOf[r]] # <<>>)
      <4>1. /\ active' = [active EXCEPT ![RouteOf[r]] = NoReq]
            /\ pending' = [pending EXCEPT ![RouteOf[r]] = <<>>]
            /\ inflight' = inflight \ ({r} \union Discarded(RouteOf[r]))
            /\ dispatching' = dispatching \ {r}
            /\ consumer' = IF consumer = r THEN NoReq ELSE consumer
            /\ Notice(TurnsIdle')
        BY <1>3, <3>3 DEF Rollback
      <4>2. noticed' \in BOOLEAN
        BY <4>1 DEF Notice
      <4> QED
        BY <4>1, <4>2, <2>1 DEF TypeOK
    <3> QED
      BY <3>1, <3>2, <3>3
  <2> QED
    BY <1>3, <2>2, <2>3 DEF TypeOK
<1>4. ASSUME NEW r \in Req, DispatchRaises(r) PROVE TypeOK'
  BY <1>3, <1>4 DEF DispatchRaises, TypeOK
<1>5. ASSUME NEW r \in Req, DispatchCancelled(r) PROVE TypeOK'
  BY <1>3, <1>5 DEF DispatchCancelled, TypeOK, Stages
<1>6. ASSUME NEW r \in Req, Consume(r) PROVE TypeOK'
  BY <1>6 DEF TypeOK, Consume, Notice, turnVars, Phases
<1>7. ASSUME NEW r \in Req, BeginTurn(r) PROVE TypeOK'
  BY <1>7 DEF TypeOK, BeginTurn, Notice, turnVars, Phases
<1>8. ASSUME NEW r \in Req, FinishTurn(r) PROVE TypeOK'
  <2>1. Evict(Cached(r)) \in Seq(Req) /\ Len(Evict(Cached(r))) <= TerminalLimit
    BY EvictType DEF TypeOK
  <2>2. Elems(terminal) \subseteq Req
    BY ElementOfSeq DEF TypeOK, Elems
  <2> QED
    BY <1>8, <2>1, <2>2 DEF TypeOK, FinishTurn, Notice, Phases
<1>9. ASSUME NEW r \in Req, PublishTerminal(r) PROVE TypeOK'
  BY <1>9 DEF TypeOK, PublishTerminal, Notice, turnVars, Phases
<1>10. ASSUME NEW r \in Req, Deliver(r) PROVE TypeOK'
  BY <1>10 DEF TypeOK, Deliver, Notice, turnVars, Phases
<1>11. ASSUME NEW r \in Req, WebSendTimesOut(r) PROVE TypeOK'
  BY <1>11 DEF TypeOK, WebSendTimesOut, Notice, turnVars, Phases
<1>12. ASSUME NEW r \in Req, CompleteRoute(r) PROVE TypeOK'
  <2>1. RouteOf[r] \in Route
    OBVIOUS
  <2>2. CASE active[RouteOf[r]] = r /\ pending[RouteOf[r]] # <<>>
    <3>1. PromoteNext(RouteOf[r], r) /\ Notice(FALSE)
      BY <1>12, <2>2 DEF CompleteRoute
    <3> QED
      BY <1>12, <2>1, <2>2, <3>1, PromoteType DEF TypeOK, CompleteRoute, Notice
  <2>3. CASE ~(active[RouteOf[r]] = r /\ pending[RouteOf[r]] # <<>>)
    BY <1>12, <2>1, <2>3 DEF TypeOK, CompleteRoute, Notice
  <2> QED
    BY <2>2, <2>3
<1>13. ASSUME NEW ro \in Route, DiscardPending(ro) PROVE TypeOK'
  BY <1>13 DEF TypeOK, DiscardPending, Discarded, Notice
<1>14. ASSUME NEW a \in Account, Reserve(a) PROVE TypeOK'
  BY <1>14 DEF TypeOK, Reserve
<1>15. ASSUME NEW a \in Account, ReleaseBlock(a) PROVE TypeOK'
  BY <1>15 DEF TypeOK, ReleaseBlock, Notice
<1>16. CASE StopDelivery
  BY <1>16 DEF TypeOK, StopDelivery, Stages, turnVars
<1>17. CASE SealAdapters
  BY <1>17 DEF TypeOK, SealAdapters, Stages, turnVars, Notice
<1>18. CASE BeginClose
  BY <1>18 DEF TypeOK, BeginClose, Stages, turnVars
<1>19. CASE FinishClose
  BY <1>19 DEF TypeOK, FinishClose, Stages, Phases, Notice
<1>20. CASE UNCHANGED vars
  BY <1>20 DEF TypeOK, vars
<1> QED
  BY <1>1, <1>2, <1>4, <1>5, <1>6, <1>7, <1>8, <1>9, <1>10, <1>11, <1>12, <1>13,
     <1>14, <1>15, <1>16, <1>17, <1>18, <1>19, <1>20 DEF Next

(* TypeOK holds in every state; in particular the replay cache of terminal  *)
(* replies never exceeds its limit (turns.py:_run_message).                 *)
THEOREM TypeCorrect == Spec => []TypeOK
<1>1. Init => TypeOK
  BY RouteAssumption, LimitAssumption DEF Init, TypeOK, Stages, Phases
<1> QED
  BY <1>1, TypeStep, PTL DEF Spec

-----------------------------------------------------------------------------
(***************************************************************************)
(* The inductive invariant.  While the Gateway is not closed: what is live *)
(* is active, what is being dispatched is nowhere else, a line only holds  *)
(* messages of its route, the outbound consumer holds the active request   *)
(* whose control it removed, a control belongs to the active request, a    *)
(* blocked route is empty, and an active request always has somebody who   *)
(* will release it.                                                        *)
(***************************************************************************)
LineRoutes ==
  \A ro \in Route : \A i \in 1..Len(pending[ro]) : RouteOf[pending[ro][i]] = ro

Owns == \A r \in Req : Live(r) => active[RouteOf[r]] = r

DispatchIsIdle == \A r \in Req : r \in dispatching => phase[r] = "idle"

ConsumerHolds ==
  consumer # NoReq =>
    /\ stage = "open"
    /\ phase[consumer] = "idle"
    /\ controls[RouteOf[consumer]] = NoReq
    /\ active[RouteOf[consumer]] = consumer

ControlOwner ==
  \A ro \in Route : controls[ro] # NoReq =>
    active[ro] = controls[ro] /\ active[ro] \notin dispatching

ControlKept == AdapterOpen => \A r \in Req : phase[r] # "idle" => controls[RouteOf[r]] = r

HeadFirst == \A ro \in Route : active[ro] = NoReq => pending[ro] = <<>>

ActiveRoute == \A ro \in Route : active[ro] # NoReq => RouteOf[active[ro]] = ro

BlockedEmpty == \A ro \in Route : Blocked(ro) => active[ro] = NoReq

Released ==
  stage = "open" => \A ro \in Route : active[ro] # NoReq =>
    \/ active[ro] \in dispatching
    \/ controls[ro] = active[ro]
    \/ consumer = active[ro]

OpenInv ==
  /\ Owns /\ DispatchIsIdle /\ ConsumerHolds /\ ControlOwner /\ ControlKept
  /\ HeadFirst /\ ActiveRoute /\ BlockedEmpty /\ Released

ClosedInv == stage = "closed" => blocks = {} /\ consumer = NoReq

IInv == TypeOK /\ LineRoutes /\ (stage # "closed" => OpenInv) /\ ClosedInv

(* A line changes by an append at its end, by losing its head, or whole. *)
LEMMA LineChange ==
  ASSUME TypeOK, [Next]_vars
  PROVE  \/ pending' = pending
         \/ \E r \in Req : pending' = [pending EXCEPT ![RouteOf[r]] = Append(@, r)]
         \/ \E ro \in Route : pending[ro] # <<>> /\ pending' = [pending EXCEPT ![ro] = Tail(@)]
         \/ \E ro \in Route : pending' = [pending EXCEPT ![ro] = <<>>]
         \/ pending' = [ro \in Route |-> <<>>]
<1> USE RouteAssumption
<1>1. ASSUME NEW r \in Req, Rollback(r, TRUE) \/ Rollback(r, FALSE)
      PROVE  \/ pending' = pending
             \/ \E ro \in Route : pending[ro] # <<>> /\ pending' = [pending EXCEPT ![ro] = Tail(@)]
             \/ \E ro \in Route : pending' = [pending EXCEPT ![ro] = <<>>]
  BY <1>1 DEF Rollback, PromoteNext
<1>2. ASSUME NEW r \in Req, CompleteRoute(r)
      PROVE  \/ pending' = pending
             \/ \E ro \in Route : pending[ro] # <<>> /\ pending' = [pending EXCEPT ![ro] = Tail(@)]
  BY <1>2 DEF CompleteRoute, PromoteNext
<1>3. ASSUME NEW r \in Req, Submit(r)
      PROVE  \/ pending' = pending
             \/ pending' = [pending EXCEPT ![RouteOf[r]] = Append(@, r)]
  BY <1>3 DEF Submit, Enqueue
<1>4. ASSUME NEW ro \in Route, DiscardPending(ro)
      PROVE  pending' = [pending EXCEPT ![ro] = <<>>]
  BY <1>4 DEF DiscardPending
<1>5. FinishClose => pending' = [ro \in Route |-> <<>>]
  BY DEF FinishClose
<1>6. ASSUME NEW r \in Req,
             \/ DispatchOk(r) \/ Consume(r) \/ BeginTurn(r) \/ FinishTurn(r)
             \/ PublishTerminal(r) \/ Deliver(r) \/ WebSendTimesOut(r)
      PROVE  pending' = pending
  BY <1>6 DEF DispatchOk, Consume, BeginTurn, FinishTurn, PublishTerminal, Deliver,
              WebSendTimesOut, turnVars
<1>7. (\/ \E a \in Account : Reserve(a) \/ ReleaseBlock(a)
       \/ StopDelivery \/ SealAdapters \/ BeginClose \/ UNCHANGED vars)
      => pending' = pending
  BY DEF Reserve, ReleaseBlock, StopDelivery, SealAdapters, BeginClose, turnVars, vars
<1> QED
  BY <1>1, <1>2, <1>3, <1>4, <1>5, <1>6, <1>7 DEF Next, DispatchRaises, DispatchCancelled

LEMMA LineStep == TypeOK /\ LineRoutes /\ [Next]_vars => LineRoutes'
<1> SUFFICES ASSUME TypeOK, LineRoutes, [Next]_vars,
                    NEW ro \in Route, NEW i \in 1..Len(pending'[ro])
             PROVE  RouteOf[pending'[ro][i]] = ro
  BY DEF LineRoutes
<1> USE RouteAssumption
<1>0. pending[ro] \in Seq(Req) /\ pending \in [Route -> Seq(Req)]
  BY DEF TypeOK
<1>1. CASE pending' = pending
  BY <1>1 DEF LineRoutes
<1>2. ASSUME NEW r \in Req, pending' = [pending EXCEPT ![RouteOf[r]] = Append(@, r)]
      PROVE  RouteOf[pending'[ro][i]] = ro
  <2>1. CASE RouteOf[r] = ro
    <3>1. pending'[ro] = Append(pending[ro], r)
      BY <1>0, <1>2, <2>1
    <3>2. i = Len(pending[ro]) + 1 => pending'[ro][i] = r
      BY <1>0, <3>1, AppendProperties
    <3>3. i # Len(pending[ro]) + 1 => /\ i \in 1..Len(pending[ro])
                                      /\ pending'[ro][i] = pending[ro][i]
      BY <1>0, <3>1, AppendProperties, LenProperties
    <3> QED
      BY <2>1, <3>2, <3>3 DEF LineRoutes
  <2>2. CASE RouteOf[r] # ro
    BY <1>0, <1>2, <2>2 DEF LineRoutes
  <2> QED
    BY <2>1, <2>2
<1>3. ASSUME NEW q \in Route, pending[q] # <<>>, pending' = [pending EXCEPT ![q] = Tail(@)]
      PROVE  RouteOf[pending'[ro][i]] = ro
  <2>1. CASE q = ro
    <3>1. pending'[ro] = Tail(pending[ro])
      BY <1>0, <1>3, <2>1
    <3>2. i + 1 \in 1..Len(pending[ro]) /\ pending'[ro][i] = pending[ro][i + 1]
      BY <1>0, <1>3, <2>1, <3>1, HeadTailProperties, LenProperties
    <3> QED
      BY <3>2 DEF LineRoutes
  <2>2. CASE q # ro
    BY <1>0, <1>3, <2>2 DEF LineRoutes
  <2> QED
    BY <2>1, <2>2
<1>4. ASSUME NEW q \in Route, pending' = [pending EXCEPT ![q] = <<>>]
      PROVE  RouteOf[pending'[ro][i]] = ro
  <2>1. pending'[ro] = pending[ro]
    BY <1>0, <1>4, EmptySeq
  <2> QED
    BY <2>1 DEF LineRoutes
<1>5. CASE pending' = [q \in Route |-> <<>>]
  BY <1>5, EmptySeq
<1> QED
  BY LineChange, <1>1, <1>2, <1>3, <1>4, <1>5

(* The message that is promoted is a message of the route. *)
LEMMA HeadRoute ==
  ASSUME TypeOK, LineRoutes, NEW ro \in Route, pending[ro] # <<>>
  PROVE  Head(pending[ro]) \in Req /\ RouteOf[Head(pending[ro])] = ro
<1>1. pending[ro] \in Seq(Req)
  BY DEF TypeOK
<1>2. Len(pending[ro]) \in Nat \ {0} /\ Head(pending[ro]) = pending[ro][1]
  BY <1>1, EmptySeq
<1> QED
  BY <1>2, LineType DEF LineRoutes

-----------------------------------------------------------------------------
(* The head of a line takes over the route of a request that is nowhere any *)
(* more and has no control: in _rollback_dispatch and complete_route_turn.  *)
LEMMA PromoteStep ==
  ASSUME TypeOK, LineRoutes, OpenInv, NEW r \in Req,
         active[RouteOf[r]] = r, pending[RouteOf[r]] # <<>>, phase[r] = "idle",
         controls[RouteOf[r]] = NoReq, PromoteNext(RouteOf[r], r),
         UNCHANGED <<stage, controls, phase, blocks>>
  PROVE  OpenInv'
<1> DEFINE ro == RouteOf[r]
           next == Head(pending[ro])
<1> USE RouteAssumption
<1>1. ro \in Route /\ next \in Req /\ RouteOf[next] = ro
  BY HeadRoute
<1>2. /\ active' = [active EXCEPT ![ro] = next]
      /\ dispatching' = (dispatching \ {r}) \union {next}
      /\ consumer' = IF consumer = r THEN next ELSE consumer
      /\ \A q \in Route : q # ro => pending'[q] = pending[q]
  BY DEF PromoteNext, TypeOK
<1> HIDE DEF next, ro
<1>3. active \in [Route -> Req \union {NoReq}] /\ r = active[ro] /\ RouteOf[r] = ro
  BY DEF TypeOK, ro
<1>4. phase[next] = "idle"
  BY <1>1, <1>3 DEF OpenInv, Owns, Live
<1>5. Owns'
  BY <1>1, <1>2, <1>3, <1>4 DEF OpenInv, Owns, Live
<1>6. DispatchIsIdle'
  BY <1>2, <1>4 DEF OpenInv, DispatchIsIdle
<1>7. ConsumerHolds'
  BY <1>1, <1>2, <1>3, <1>4 DEF OpenInv, ConsumerHolds, ro, TypeOK
<1>8. ControlOwner'
  <2> SUFFICES ASSUME NEW q \in Route, controls[q] # NoReq
               PROVE  active'[q] = controls[q] /\ active'[q] \notin dispatching'
    BY DEF ControlOwner
  <2>1. q # ro
    BY DEF ro
  <2>2. active'[q] = controls[q] /\ active[q] \notin dispatching /\ active[q] = controls[q]
    BY <1>2, <1>3, <2>1 DEF OpenInv, ControlOwner
  <2>3. next # active[q]
    <3>1. CASE next = active[q]
      <4>1. controls[ro] = NoReq /\ controls[q] = next
        BY <2>2, <3>1 DEF ro
      <4>2. q = ro
        BY <1>1, <2>2, <3>1 DEF OpenInv, ActiveRoute
      <4> QED
        BY <2>1, <4>2
    <3> QED
      BY <3>1
  <2> QED
    BY <1>2, <2>2, <2>3
<1>9. ControlKept'
  BY DEF OpenInv, ControlKept, AdapterOpen
<1>10. HeadFirst'
  BY <1>1, <1>2, <1>3 DEF OpenInv, HeadFirst
<1>11. BlockedEmpty'
  BY <1>1, <1>2, <1>3 DEF OpenInv, BlockedEmpty, Blocked
<1>12. Released'
  <2> SUFFICES ASSUME stage = "open", NEW q \in Route, active'[q] # NoReq
               PROVE  \/ active'[q] \in dispatching'
                      \/ controls[q] = active'[q]
                      \/ consumer' = active'[q]
    BY DEF Released
  <2>1. CASE q = ro
    BY <1>1, <1>2, <1>3, <2>1
  <2>2. CASE q # ro
    <3>1. active'[q] = active[q] /\ active[q] # r
      BY <1>1, <1>2, <1>3, <2>2 DEF OpenInv, ActiveRoute
    <3> QED
      BY <1>2, <3>1 DEF OpenInv, Released
  <2> QED
    BY <2>1, <2>2
<1>13. ActiveRoute'
  BY <1>1, <1>2, <1>3 DEF OpenInv, ActiveRoute
<1> QED
  BY <1>13, <1>5, <1>6, <1>7, <1>8, <1>9, <1>10, <1>11, <1>12 DEF OpenInv

(* A request that is nowhere any more and has no control gives its route up *)
(* for good; so does the request whose dispatch is cancelled.               *)
LEMMA ReleaseStep ==
  ASSUME TypeOK, OpenInv, NEW r \in Req,
         active[RouteOf[r]] = r, phase[r] = "idle", controls[RouteOf[r]] = NoReq,
         active' = [active EXCEPT ![RouteOf[r]] = NoReq],
         pending' = [pending EXCEPT ![RouteOf[r]] = <<>>],
         dispatching' = dispatching \ {r},
         consumer' = IF consumer = r THEN NoReq ELSE consumer,
         stage' = stage \/ (consumer = r /\ stage' = "detached"),
         UNCHANGED <<controls, phase, blocks>>
  PROVE  OpenInv'
<1> DEFINE ro == RouteOf[r]
<1> USE RouteAssumption
<1>1. ro \in Route /\ active[ro] = r
  OBVIOUS
<1>2. active' = [active EXCEPT ![ro] = NoReq] /\ pending' = [pending EXCEPT ![ro] = <<>>]
  OBVIOUS
<1>3. active \in [Route -> Req \union {NoReq}] /\ pending \in [Route -> Seq(Req)]
  BY DEF TypeOK
<1>4. \A q \in Route : q # ro => active'[q] = active[q] /\ active[q] # r
  BY <1>1, <1>2, <1>3 DEF OpenInv, ActiveRoute
<1>5. active'[ro] = NoReq /\ pending'[ro] = <<>>
  BY <1>1, <1>2, <1>3
<1>6. \A q \in Route : q # ro => pending'[q] = pending[q]
  BY <1>1, <1>2, <1>3
<1> HIDE DEF ro
<1>7. Owns'
  <2> SUFFICES ASSUME NEW x \in Req, Live(x)' PROVE active'[RouteOf[x]] = x
    BY DEF Owns
  <2>1. Live(x) /\ x # r
    BY DEF Live
  <2>2. active[RouteOf[x]] = x
    BY <2>1 DEF OpenInv, Owns
  <2>3. RouteOf[x] # ro /\ RouteOf[x] \in Route
    BY <2>1, <2>2, <1>1
  <2> QED
    BY <1>4, <2>2, <2>3
<1>8. DispatchIsIdle'
  BY DEF OpenInv, DispatchIsIdle
<1>9. ConsumerHolds'
  <2> SUFFICES ASSUME consumer' # NoReq
               PROVE  /\ stage' = "open"
                      /\ phase[consumer'] = "idle"
                      /\ controls[RouteOf[consumer']] = NoReq
                      /\ active'[RouteOf[consumer']] = consumer'
    BY DEF ConsumerHolds
  <2>1. consumer' = consumer /\ consumer # r /\ consumer \in Req
    BY DEF TypeOK
  <2>2. /\ phase[consumer] = "idle" /\ controls[RouteOf[consumer]] = NoReq
        /\ active[RouteOf[consumer]] = consumer /\ stage' = "open"
    BY <2>1 DEF OpenInv, ConsumerHolds
  <2>3. RouteOf[consumer] # ro /\ RouteOf[consumer] \in Route
    BY <1>1, <2>1, <2>2
  <2> QED
    BY <1>4, <2>1, <2>2, <2>3
<1>10. ControlOwner'
  <2> SUFFICES ASSUME NEW q \in Route, controls[q] # NoReq
               PROVE  active'[q] = controls[q] /\ active'[q] \notin dispatching'
    BY DEF ControlOwner
  <2>1. q # ro
    BY DEF ro
  <2> QED
    BY <1>4, <2>1 DEF OpenInv, ControlOwner
<1>11. ControlKept'
  BY DEF OpenInv, ControlKept, AdapterOpen, ConsumerHolds
<1>12. HeadFirst'
  <2> SUFFICES ASSUME NEW q \in Route, active'[q] = NoReq PROVE pending'[q] = <<>>
    BY DEF HeadFirst
  <2>1. CASE q = ro
    BY <1>5, <2>1
  <2>2. CASE q # ro
    BY <1>4, <1>6, <2>2 DEF OpenInv, HeadFirst
  <2> QED
    BY <2>1, <2>2
<1>13. ActiveRoute'
  BY <1>4, <1>5 DEF OpenInv, ActiveRoute
<1>14. BlockedEmpty'
  BY <1>4, <1>5 DEF OpenInv, BlockedEmpty, Blocked
<1>15. Released'
  BY <1>4, <1>5 DEF OpenInv, Released
<1> QED
  BY <1>7, <1>8, <1>9, <1>10, <1>11, <1>12, <1>13, <1>14, <1>15 DEF OpenInv

-----------------------------------------------------------------------------
(* Each action keeps the invariant. *)
LEMMA SubmitStep ==
  ASSUME TypeOK, OpenInv, NEW r \in Req, Submit(r)
  PROVE  OpenInv'
<1> DEFINE ro == RouteOf[r]
<1> USE RouteAssumption
<1>1. ro \in Route /\ ~Blocked(ro)
  BY DEF Submit
<1>2. UNCHANGED <<stage, terminal, blocks, controls, phase, consumer>>
  BY DEF Submit
<1>3. active \in [Route -> Req \union {NoReq}] /\ pending \in [Route -> Seq(Req)]
  BY DEF TypeOK
<1>4. CASE RouteBusy(ro)
  <2>1. active[ro] # NoReq /\ UNCHANGED <<active, dispatching>>
    BY <1>4 DEF Submit, RouteBusy
  <2>2. \A q \in Route : q # ro => pending'[q] = pending[q]
    BY <1>3, <1>4 DEF Submit, RouteBusy
  <2>3. HeadFirst'
    BY <2>1, <2>2 DEF OpenInv, HeadFirst
  <2> QED
    BY <1>2, <2>1, <2>3 DEF OpenInv, Owns, Live, DispatchIsIdle, ConsumerHolds, ControlOwner,
       ControlKept, AdapterOpen, ActiveRoute, BlockedEmpty, Blocked, Released
<1>5. CASE ~RouteBusy(ro)
  <2>1. /\ active[ro] = NoReq /\ active' = [active EXCEPT ![ro] = r]
        /\ dispatching' = dispatching \union {r} /\ pending' = pending
    BY <1>5 DEF Submit, RouteBusy
  <2>2. active'[ro] = r /\ \A q \in Route : q # ro => active'[q] = active[q]
    BY <1>1, <1>3, <2>1
  <2>3. \A x \in Req : RouteOf[x] = ro => ~Live(x)
    BY <2>1 DEF OpenInv, Owns
  <2> HIDE DEF ro
  <2>4. RouteOf[r] = ro
    BY DEF ro
  <2>5. Owns'
    BY <1>2, <2>1, <2>2, <2>3, <2>4 DEF OpenInv, Owns, Live
  <2>6. DispatchIsIdle'
    BY <1>2, <2>1, <2>3, <2>4 DEF OpenInv, DispatchIsIdle, Live
  <2>7. ConsumerHolds'
    BY <1>2, <2>1, <2>2 DEF OpenInv, ConsumerHolds, TypeOK
  <2>8. ControlOwner'
    <3> SUFFICES ASSUME NEW q \in Route, controls[q] # NoReq
                 PROVE  active'[q] = controls[q] /\ active'[q] \notin dispatching'
      BY <1>2 DEF ControlOwner
    <3>1. active[q] = controls[q] /\ active[q] \notin dispatching /\ q # ro
      BY <2>1 DEF OpenInv, ControlOwner
    <3>2. active[q] # r
      BY <2>4, <3>1 DEF OpenInv, ActiveRoute
    <3> QED
      BY <2>1, <2>2, <3>1, <3>2
  <2>9. HeadFirst' /\ ActiveRoute' /\ ControlKept'
    BY <1>2, <2>1, <2>2, <2>4 DEF OpenInv, HeadFirst, ActiveRoute, ControlKept, AdapterOpen
  <2>10. BlockedEmpty' /\ Released'
    BY <1>1, <1>2, <2>1, <2>2 DEF OpenInv, BlockedEmpty, Blocked, Released
  <2> QED
    BY <2>5, <2>6, <2>7, <2>8, <2>9, <2>10 DEF OpenInv
<1> QED
  BY <1>4, <1>5

LEMMA DispatchOkStep ==
  ASSUME TypeOK, OpenInv, NEW r \in Req, DispatchOk(r)
  PROVE  OpenInv'
<1> DEFINE ro == RouteOf[r]
<1> USE RouteAssumption
<1>1. ro \in Route /\ active[ro] = r /\ phase[r] = "idle"
  BY DEF DispatchOk, OpenInv, Owns, Live, DispatchIsIdle
<1>2. /\ r \in dispatching
      /\ controls' = [controls EXCEPT ![ro] = r] /\ phase' = [phase EXCEPT ![r] = "queued"]
      /\ dispatching' = dispatching \ {r}
      /\ consumer' = IF consumer = r THEN NoReq ELSE consumer
      /\ UNCHANGED <<stage, active, pending, blocks>>
  BY DEF DispatchOk, turnVars
<1>3. /\ controls'[ro] = r /\ \A q \in Route : q # ro => controls'[q] = controls[q]
      /\ phase'[r] = "queued" /\ \A x \in Req : x # r => phase'[x] = phase[x]
  BY <1>1, <1>2 DEF TypeOK
<1>4. RouteOf[r] = ro
  OBVIOUS
<1> HIDE DEF ro
<1>5. Owns'
  BY <1>1, <1>2, <1>3, <1>4 DEF OpenInv, Owns, Live
<1>6. DispatchIsIdle'
  BY <1>2, <1>3 DEF OpenInv, DispatchIsIdle
<1>7. ConsumerHolds'
  BY <1>1, <1>2, <1>3, <1>4 DEF OpenInv, ConsumerHolds, TypeOK
<1>8. ControlOwner'
  BY <1>1, <1>2, <1>3 DEF OpenInv, ControlOwner
<1>9. ControlKept'
  <2> SUFFICES ASSUME AdapterOpen, NEW x \in Req, phase'[x] # "idle"
               PROVE  controls'[RouteOf[x]] = x
    BY <1>2 DEF ControlKept, AdapterOpen
  <2>1. CASE x = r
    BY <1>3, <1>4, <2>1
  <2>2. CASE x # r
    <3>1. controls[RouteOf[x]] = x /\ active[RouteOf[x]] = x
      BY <1>3, <2>2 DEF OpenInv, ControlKept, Owns, Live
    <3>2. RouteOf[x] # ro /\ RouteOf[x] \in Route
      BY <1>1, <2>2, <3>1
    <3> QED
      BY <1>3, <3>1, <3>2
  <2> QED
    BY <2>1, <2>2
<1>10. HeadFirst' /\ ActiveRoute' /\ BlockedEmpty'
  BY <1>2 DEF OpenInv, HeadFirst, ActiveRoute, BlockedEmpty, Blocked
<1>11. Released'
  <2> SUFFICES ASSUME stage = "open", NEW q \in Route, active[q] # NoReq
               PROVE  \/ active[q] \in dispatching'
                      \/ controls'[q] = active[q]
                      \/ consumer' = active[q]
    BY <1>2 DEF Released
  <2>1. CASE q = ro
    BY <1>1, <1>3, <2>1
  <2>2. CASE q # ro
    <3>1. active[q] # r
      BY <1>4, <2>2 DEF OpenInv, ActiveRoute
    <3> QED
      BY <1>2, <1>3, <2>2, <3>1 DEF OpenInv, Released
  <2> QED
    BY <2>1, <2>2
<1> QED
  BY <1>5, <1>6, <1>7, <1>8, <1>9, <1>10, <1>11 DEF OpenInv

(* A dispatch that raises or is cancelled hands the route on, or gives it up. *)
LEMMA RollbackStep ==
  ASSUME TypeOK, LineRoutes, OpenInv, NEW r \in Req, r \in dispatching,
         NEW advance \in BOOLEAN, DropControl(r), Rollback(r, advance),
         stage' = stage \/ (~advance /\ consumer = r /\ stage' = "detached"),
         UNCHANGED <<terminal, blocks, phase, ran, forgotten>>
  PROVE  OpenInv'
<1> USE RouteAssumption
<1>1. active[RouteOf[r]] = r /\ phase[r] = "idle" /\ RouteOf[r] \in Route
  BY DEF OpenInv, Owns, Live, DispatchIsIdle
<1>2. controls[RouteOf[r]] = NoReq
  BY <1>1 DEF OpenInv, ControlOwner
<1>3. controls' = controls
  BY <1>1, <1>2 DEF DropControl, TypeOK
<1>4. CASE advance /\ pending[RouteOf[r]] # <<>>
  <2>1. PromoteNext(RouteOf[r], r) /\ stage' = stage
    BY <1>1, <1>4 DEF Rollback
  <2> QED
    BY <1>1, <1>2, <1>3, <1>4, <2>1, PromoteStep
<1>5. CASE ~(advance /\ pending[RouteOf[r]] # <<>>)
  <2>1. /\ active' = [active EXCEPT ![RouteOf[r]] = NoReq]
        /\ pending' = [pending EXCEPT ![RouteOf[r]] = <<>>]
        /\ dispatching' = dispatching \ {r}
        /\ consumer' = IF consumer = r THEN NoReq ELSE consumer
    BY <1>1, <1>5 DEF Rollback
  <2> QED
    BY <1>1, <1>2, <1>3, <2>1, ReleaseStep
<1> QED
  BY <1>4, <1>5

LEMMA DeliverStep ==
  ASSUME TypeOK, OpenInv, NEW r \in Req, Deliver(r)
  PROVE  OpenInv'
<1> DEFINE ro == RouteOf[r]
<1> USE RouteAssumption
<1>1. /\ stage = "open" /\ consumer = NoReq /\ phase[r] = "published"
      /\ phase' = [phase EXCEPT ![r] = "idle"]
      /\ UNCHANGED <<stage, active, pending, blocks, dispatching>>
  BY DEF Deliver, turnVars
<1>2. ro \in Route /\ active[ro] = r /\ controls[ro] = r
  BY <1>1 DEF OpenInv, Owns, Live, ControlKept, AdapterOpen
<1>3. controls' = [controls EXCEPT ![ro] = NoReq] /\ consumer' = r
  BY <1>2 DEF Deliver
<1>4. RouteOf[r] = ro
  OBVIOUS
<1> HIDE DEF ro
<1>5. /\ controls'[ro] = NoReq /\ \A q \in Route : q # ro => controls'[q] = controls[q]
      /\ phase'[r] = "idle" /\ \A x \in Req : x # r => phase'[x] = phase[x]
  BY <1>1, <1>2, <1>3 DEF TypeOK
<1>6. Owns' /\ DispatchIsIdle'
  BY <1>1, <1>5 DEF OpenInv, Owns, Live, DispatchIsIdle
<1>7. ConsumerHolds'
  BY <1>1, <1>2, <1>3, <1>4, <1>5 DEF ConsumerHolds
<1>8. ControlOwner'
  BY <1>1, <1>2, <1>5 DEF OpenInv, ControlOwner
<1>9. ControlKept'
  <2> SUFFICES ASSUME NEW x \in Req, phase'[x] # "idle" PROVE controls'[RouteOf[x]] = x
    BY DEF ControlKept
  <2>1. x # r /\ controls[RouteOf[x]] = x /\ active[RouteOf[x]] = x
    BY <1>1, <1>5 DEF OpenInv, ControlKept, AdapterOpen, Owns, Live
  <2>2. RouteOf[x] # ro /\ RouteOf[x] \in Route
    BY <1>2, <2>1
  <2> QED
    BY <1>5, <2>1, <2>2
<1>10. HeadFirst' /\ ActiveRoute' /\ BlockedEmpty'
  BY <1>1 DEF OpenInv, HeadFirst, ActiveRoute, BlockedEmpty, Blocked
<1>11. Released'
  BY <1>1, <1>2, <1>3, <1>5 DEF OpenInv, Released
<1> QED
  BY <1>6, <1>7, <1>8, <1>9, <1>10, <1>11 DEF OpenInv

LEMMA CompleteStep ==
  ASSUME TypeOK, LineRoutes, OpenInv, NEW r \in Req, CompleteRoute(r)
  PROVE  OpenInv'
<1> USE RouteAssumption
<1>1. /\ consumer = r /\ r \notin dispatching
      /\ UNCHANGED <<stage, blocks, controls, phase>>
  BY DEF CompleteRoute
<1>2. /\ phase[r] = "idle" /\ controls[RouteOf[r]] = NoReq /\ active[RouteOf[r]] = r
      /\ RouteOf[r] \in Route
  BY <1>1 DEF OpenInv, ConsumerHolds
<1>3. CASE pending[RouteOf[r]] # <<>>
  <2>1. PromoteNext(RouteOf[r], r)
    BY <1>2, <1>3 DEF CompleteRoute
  <2> QED
    BY <1>1, <1>2, <1>3, <2>1, PromoteStep
<1>4. CASE pending[RouteOf[r]] = <<>>
  <2>1. /\ active' = [active EXCEPT ![RouteOf[r]] = NoReq] /\ consumer' = NoReq
        /\ pending' = pending /\ dispatching' = dispatching
    BY <1>2, <1>4 DEF CompleteRoute
  <2>2. /\ pending' = [pending EXCEPT ![RouteOf[r]] = <<>>]
        /\ dispatching' = dispatching \ {r}
        /\ consumer' = IF consumer = r THEN NoReq ELSE consumer
    BY <1>1, <1>2, <1>4, <2>1 DEF TypeOK
  <2> QED
    BY <1>1, <1>2, <2>1, <2>2, ReleaseStep
<1> QED
  BY <1>3, <1>4

(* The steps of a turn only move a live request on. *)
LEMMA TurnStep ==
  ASSUME TypeOK, OpenInv, NEW r \in Req,
         Consume(r) \/ BeginTurn(r) \/ FinishTurn(r) \/ PublishTerminal(r)
  PROVE  OpenInv'
<1>1. /\ phase[r] # "idle" /\ phase'[r] # "idle"
      /\ \A x \in Req : x # r => phase'[x] = phase[x]
      /\ UNCHANGED <<stage, active, pending, blocks, dispatching, controls, consumer>>
  BY DEF TypeOK, Consume, BeginTurn, FinishTurn, PublishTerminal, turnVars
<1>2. \A x \in Req : (phase'[x] = "idle") <=> (phase[x] = "idle")
  BY <1>1
<1> QED
  BY <1>1, <1>2 DEF OpenInv, Owns, Live, DispatchIsIdle, ConsumerHolds, ControlOwner, ControlKept,
     AdapterOpen, HeadFirst, ActiveRoute, BlockedEmpty, Blocked, Released, TypeOK

LEMMA WebTimeoutStep ==
  ASSUME TypeOK, OpenInv, NEW r \in Req, WebSendTimesOut(r)
  PROVE  OpenInv'
<1>1. /\ UNCHANGED <<stage, active, pending, blocks, dispatching, controls, consumer>>
      /\ phase'[r] = "idle" /\ \A x \in Req : x # r => phase'[x] = phase[x]
  BY DEF WebSendTimesOut, turnVars, TypeOK
<1>2. \A x \in Req : phase'[x] # "idle" => phase[x] # "idle"
  BY <1>1
<1> QED
  BY <1>1, <1>2 DEF OpenInv, Owns, Live, DispatchIsIdle, ConsumerHolds, ControlOwner, ControlKept,
     AdapterOpen, HeadFirst, ActiveRoute, BlockedEmpty, Blocked, Released, TypeOK

LEMMA DiscardStep ==
  ASSUME TypeOK, OpenInv, NEW ro \in Route, DiscardPending(ro)
  PROVE  OpenInv'
<1>1. /\ pending' = [pending EXCEPT ![ro] = <<>>]
      /\ UNCHANGED <<stage, active, blocks, dispatching, controls, phase, consumer>>
  BY DEF DiscardPending
<1>2. HeadFirst'
  BY <1>1 DEF OpenInv, HeadFirst, TypeOK
<1> QED
  BY <1>1, <1>2 DEF OpenInv, Owns, Live, DispatchIsIdle, ConsumerHolds, ControlOwner, ControlKept,
     AdapterOpen, ActiveRoute, BlockedEmpty, Blocked, Released

LEMMA BlockStep ==
  ASSUME TypeOK, OpenInv, NEW a \in Account, Reserve(a) \/ ReleaseBlock(a)
  PROVE  OpenInv'
<1>1. UNCHANGED <<stage, active, pending, dispatching, controls, phase, consumer>>
  BY DEF Reserve, ReleaseBlock
<1>2. BlockedEmpty'
  BY <1>1 DEF Reserve, ReleaseBlock, OpenInv, BlockedEmpty, Blocked, QuietRoute
<1> QED
  BY <1>1, <1>2 DEF OpenInv, Owns, Live, DispatchIsIdle, ConsumerHolds, ControlOwner, ControlKept,
     AdapterOpen, HeadFirst, ActiveRoute, Released

(* The steps of the shutdown before its last one. *)
LEMMA ShutdownStep ==
  ASSUME TypeOK, OpenInv, StopDelivery \/ SealAdapters \/ BeginClose
  PROVE  OpenInv'
<1> USE RouteAssumption
<1>1. CASE StopDelivery
  <2>1. /\ stage' = "detached" /\ consumer' = NoReq /\ stage = "open"
        /\ UNCHANGED <<active, pending, blocks, dispatching, controls, phase>>
    BY <1>1 DEF StopDelivery, turnVars
  <2> QED
    BY <2>1 DEF OpenInv, Owns, Live, DispatchIsIdle, ConsumerHolds, ControlOwner, ControlKept,
       AdapterOpen, HeadFirst, ActiveRoute, BlockedEmpty, Blocked, Released
<1>2. CASE SealAdapters
  <2>1. /\ stage' = "sealed"
        /\ UNCHANGED <<active, pending, blocks, dispatching, phase, consumer>>
        /\ \A ro \in Route : controls'[ro] \in {NoReq, controls[ro]}
        /\ stage = "detached"
    BY <1>2 DEF SealAdapters, turnVars
  <2> QED
    BY <2>1 DEF OpenInv, Owns, Live, DispatchIsIdle, ConsumerHolds, ControlOwner, ControlKept,
       AdapterOpen, HeadFirst, ActiveRoute, BlockedEmpty, Blocked, Released
<1>3. CASE BeginClose
  <2>1. /\ stage' = "closing" /\ stage = "sealed"
        /\ UNCHANGED <<active, pending, blocks, dispatching, controls, phase, consumer>>
    BY <1>3 DEF BeginClose, turnVars
  <2> QED
    BY <2>1 DEF OpenInv, Owns, Live, DispatchIsIdle, ConsumerHolds, ControlOwner, ControlKept,
       AdapterOpen, HeadFirst, ActiveRoute, BlockedEmpty, Blocked, Released
<1> QED
  BY <1>1, <1>2, <1>3

(* No step leaves "closed"; there no route is blocked and nothing delivered. *)
LEMMA ClosedStep ==
  ASSUME TypeOK, stage # "closed" => OpenInv, ClosedInv, [Next]_vars
  PROVE  ClosedInv' /\ (stage = "closed" => stage' = "closed")
<1> USE RouteAssumption
<1>1. ASSUME NEW r \in Req,
             \/ Submit(r) \/ Consume(r) \/ BeginTurn(r) \/ FinishTurn(r)
             \/ PublishTerminal(r) \/ WebSendTimesOut(r)
      PROVE  UNCHANGED <<stage, blocks, consumer>>
  BY <1>1 DEF Submit, Consume, BeginTurn, FinishTurn, PublishTerminal, WebSendTimesOut, turnVars
<1>2. ASSUME NEW r \in Req, Deliver(r) PROVE UNCHANGED <<stage, blocks>> /\ stage = "open"
  BY <1>2 DEF Deliver, turnVars
<1>3. ASSUME NEW r \in Req, CompleteRoute(r) PROVE UNCHANGED <<stage, blocks>> /\ consumer = r
  BY <1>3 DEF CompleteRoute
<1>4. ASSUME NEW r \in Req, DispatchOk(r)
      PROVE  UNCHANGED <<stage, blocks>> /\ consumer' \in {consumer, NoReq}
  BY <1>4 DEF DispatchOk, turnVars
<1>5. ASSUME NEW r \in Req, NEW advance \in BOOLEAN, Rollback(r, advance)
      PROVE  consumer # r => consumer' = consumer
  BY <1>5 DEF Rollback, PromoteNext
<1>6. ASSUME NEW r \in Req, DispatchRaises(r) \/ DispatchCancelled(r)
      PROVE  /\ blocks' = blocks
             /\ consumer # r => stage' = stage /\ consumer' = consumer
             /\ stage' \in {stage, "detached"}
  BY <1>5, <1>6 DEF DispatchCancelled, DispatchRaises
<1>7. ASSUME NEW ro \in Route, DiscardPending(ro) PROVE UNCHANGED <<stage, blocks, consumer>>
  BY <1>7 DEF DiscardPending
<1>8. ASSUME NEW a \in Account, Reserve(a) PROVE stage' = stage /\ stage # "closed"
  BY <1>8 DEF Reserve, TurnsClosed
<1>9. ASSUME NEW a \in Account, ReleaseBlock(a)
      PROVE  UNCHANGED <<stage, consumer>> /\ blocks' \subseteq blocks
  BY <1>9 DEF ReleaseBlock
<1>10. StopDelivery \/ SealAdapters \/ BeginClose => stage # "closed" /\ stage' # "closed"
  BY DEF StopDelivery, SealAdapters, BeginClose
<1>11. FinishClose => stage' = "closed" /\ blocks' = {} /\ consumer' = NoReq
  BY DEF FinishClose, OpenInv, ConsumerHolds
<1>12. UNCHANGED vars => UNCHANGED <<stage, blocks, consumer>>
  BY DEF vars
<1>13. CASE stage = "closed"
  <2>1. blocks = {} /\ consumer = NoReq
    BY <1>13 DEF ClosedInv
  <2> QED
    BY <1>1, <1>2, <1>3, <1>4, <1>6, <1>7, <1>8, <1>9, <1>10, <1>11, <1>12, <1>13, <2>1
       DEF ClosedInv, Next
<1>14. CASE stage # "closed"
  <2>1. stage' # "closed" \/ FinishClose
    BY <1>1, <1>2, <1>3, <1>4, <1>6, <1>7, <1>8, <1>9, <1>10, <1>12, <1>14 DEF Next
  <2> QED
    BY <1>11, <1>14, <2>1 DEF ClosedInv
<1> QED
  BY <1>13, <1>14

LEMMA OpenStep ==
  ASSUME TypeOK, LineRoutes, OpenInv, [Next]_vars
  PROVE  FinishClose \/ OpenInv'
<1>1. ASSUME NEW r \in Req, DispatchRaises(r) PROVE OpenInv'
  BY <1>1, RollbackStep DEF DispatchRaises
<1>2. ASSUME NEW r \in Req, DispatchCancelled(r) PROVE OpenInv'
  <2>1. /\ r \in dispatching /\ DropControl(r) /\ Rollback(r, FALSE)
        /\ stage' = stage \/ (consumer = r /\ stage' = "detached")
        /\ UNCHANGED <<terminal, blocks, phase, ran, forgotten>>
    BY <1>2 DEF DispatchCancelled
  <2> QED
    BY <2>1, RollbackStep
<1>3. ASSUME UNCHANGED vars PROVE OpenInv'
  BY <1>3 DEF vars, OpenInv, Owns, Live, DispatchIsIdle, ConsumerHolds, ControlOwner, ControlKept,
     AdapterOpen, HeadFirst, ActiveRoute, BlockedEmpty, Blocked, Released
<1> QED
  BY <1>1, <1>2, <1>3, SubmitStep, DispatchOkStep, DeliverStep, CompleteStep, TurnStep,
     WebTimeoutStep, DiscardStep, BlockStep, ShutdownStep DEF Next

LEMMA InvStep == IInv /\ [Next]_vars => IInv'
<1> SUFFICES ASSUME IInv, [Next]_vars PROVE IInv'
  OBVIOUS
<1>1. TypeOK' /\ LineRoutes' /\ ClosedInv' /\ (stage = "closed" => stage' = "closed")
  BY TypeStep, LineStep, ClosedStep DEF IInv
<1>2. stage' # "closed" => OpenInv'
  BY <1>1, OpenStep DEF IInv, FinishClose
<1> QED
  BY <1>1, <1>2 DEF IInv

LEMMA InvInit == Init => IInv
<1> SUFFICES ASSUME Init PROVE IInv
  OBVIOUS
<1>1. TypeOK
  BY RouteAssumption, LimitAssumption DEF Init, TypeOK, Stages, Phases
<1>2. LineRoutes
  BY EmptySeq DEF Init, LineRoutes
<1>3. OpenInv
  BY RouteAssumption DEF Init, OpenInv, Owns, Live, DispatchIsIdle, ConsumerHolds, ControlOwner,
     ControlKept, HeadFirst, ActiveRoute, BlockedEmpty, Blocked, Released
<1> QED
  BY <1>1, <1>2, <1>3 DEF IInv, ClosedInv, Init

(* The ownership of a route by its active request, with what the waiting    *)
(* lines, the controls, the dispatch callbacks and the outbound consumer    *)
(* contribute to it, holds in every state (turns.py, im.py, cli_gateway.py, *)
(* web/backend/coordinator.py).                                             *)
THEOREM InductiveInvariant == Spec => []IInv
BY InvInit, InvStep, PTL DEF Spec

-----------------------------------------------------------------------------
(* Two turns of one route never overlap, whatever fails or is cancelled     *)
(* (turns.py:submit, _rollback_dispatch, complete_route_turn).              *)
THEOREM OneTurnCorrect == Spec => []OneTurnPerRoute
<1>1. IInv => OneTurnPerRoute
  BY DEF IInv, OpenInv, Owns, OneTurnPerRoute
<1> QED
  BY <1>1, InductiveInvariant, PTL

(* The control of a channel coordinator is the active request's, and a      *)
(* request keeps its control until its reply is delivered (im.py,           *)
(* cli_gateway.py, web/backend/coordinator.py).                             *)
THEOREM ControlCorrect == Spec => []ControlMatchesActive
<1>1. IInv => ControlMatchesActive
  BY DEF IInv, OpenInv, ControlOwner, ControlKept, ControlMatchesActive
<1> QED
  BY <1>1, InductiveInvariant, PTL

(* Nothing of a blocked route is accepted, waiting, running or undelivered  *)
(* (im.py:reserve_matching_routes_if_idle).                                 *)
THEOREM BlockedRouteCorrect == Spec => []BlockedRouteIsQuiet
<1>1. ASSUME IInv, NEW ro \in Route, Blocked(ro)
      PROVE  QuietRoute(ro) /\ \A r \in Req : RouteOf[r] = ro => ~Live(r)
  <2>1. stage # "closed"
    BY <1>1 DEF IInv, ClosedInv, Blocked
  <2>2. active[ro] = NoReq /\ OpenInv
    BY <1>1, <2>1 DEF IInv, OpenInv, BlockedEmpty
  <2>3. QuietRoute(ro)
    BY <2>2 DEF OpenInv, HeadFirst, ControlOwner, QuietRoute
  <2> QED
    BY <2>2, <2>3, RouteAssumption DEF OpenInv, Owns
<1>2. IInv => BlockedRouteIsQuiet
  BY <1>1 DEF BlockedRouteIsQuiet
<1> QED
  BY <1>2, InductiveInvariant, PTL

-----------------------------------------------------------------------------
(* No lost wakeup: every step that brings the Gateway to rest calls on_idle. *)
AtRest == stage = "open" /\ GloballyIdle /\ consumer = NoReq /\ dispatching = {}

LEMMA NoticeStep == IInv /\ IInv' /\ NoticedIdle /\ [Next]_vars => NoticedIdle'
<1> SUFFICES ASSUME IInv, IInv', NoticedIdle, [Next]_vars, AtRest' PROVE noticed'
  BY DEF NoticedIdle, AtRest
<1> USE RouteAssumption
<1>0. stage' = "open" /\ GloballyIdle' /\ TurnsIdle' /\ consumer' = NoReq /\ dispatching' = {}
  BY DEF AtRest, GloballyIdle
<1>1. TypeOK /\ stage = "open" /\ OpenInv /\ TypeOK' /\ OpenInv'
  <2>1. TypeOK /\ TypeOK' /\ OpenInv' /\ stage # "closed"
    BY <1>0, ClosedStep DEF IInv
  <2>2. OpenInv
    BY <2>1 DEF IInv
  <2>3. stage = "open"
    <3>1. stage \in {"detached", "sealed", "closing"} => stage' # "open"
      BY <2>1, <2>2 DEF Next, Submit, DispatchOk, DispatchRaises, DispatchCancelled, Consume,
         BeginTurn, FinishTurn, PublishTerminal, Deliver, WebSendTimesOut, CompleteRoute,
         DiscardPending, Reserve, ReleaseBlock, StopDelivery, SealAdapters, BeginClose,
         FinishClose, turnVars, vars
    <3> QED
      BY <1>0, <2>1, <3>1 DEF TypeOK, Stages
  <2> QED
    BY <2>1, <2>2, <2>3
<1>2. \A ro \in Route : active'[ro] = NoReq /\ pending'[ro] = <<>>
  <2>1. \A ro \in Route : controls'[ro] = NoReq
    BY <1>0 DEF GloballyIdle
  <2> QED
    BY <1>0, <1>1, <2>1 DEF OpenInv, Released, HeadFirst
<1>3. \A r \in Req : ~Live(r)'
  BY <1>1, <1>2 DEF OpenInv, Owns
<1>4. ASSUME NEW r \in Req, Submit(r) PROVE noticed'
  BY <1>0, <1>4 DEF Submit, TurnsIdle
<1>5. ASSUME NEW r \in Req, DispatchOk(r) PROVE noticed'
  BY <1>3, <1>1, <1>5 DEF DispatchOk, Live, TypeOK
<1>6. ASSUME NEW r \in Req, NEW advance \in BOOLEAN, r \in dispatching, Rollback(r, advance)
      PROVE  noticed'
  <2>1. active[RouteOf[r]] = r
    BY <1>1, <1>6 DEF OpenInv, Owns, Live
  <2>2. CASE advance /\ pending[RouteOf[r]] # <<>>
    BY <1>0, <1>6, <2>1, <2>2 DEF Rollback, PromoteNext
  <2>3. CASE ~(advance /\ pending[RouteOf[r]] # <<>>)
    <3>1. Notice(TurnsIdle')
      BY <1>6, <2>1, <2>3 DEF Rollback
    <3> QED
      BY <1>0, <3>1 DEF Notice
  <2> QED
    BY <2>2, <2>3
<1>7. ASSUME NEW r \in Req, Consume(r) \/ BeginTurn(r) \/ FinishTurn(r) \/ PublishTerminal(r)
      PROVE  noticed'
  <2>1. phase'[r] # "idle"
    BY <1>1, <1>7 DEF TypeOK, Consume, BeginTurn, FinishTurn, PublishTerminal
  <2> QED
    BY <1>3, <2>1 DEF Live
<1>8. ASSUME NEW r \in Req, Deliver(r) \/ WebSendTimesOut(r) PROVE noticed'
  <2>1. phase[r] = "published" /\ active' = active
    BY <1>8 DEF Deliver, WebSendTimesOut, turnVars
  <2> QED
    BY <1>1, <1>2, <2>1 DEF OpenInv, Owns, Live
<1>9. ASSUME NEW r \in Req, CompleteRoute(r) PROVE noticed'
  <2>1. active[RouteOf[r]] = r /\ RouteOf[r] \in Route
    BY <1>1, <1>9 DEF CompleteRoute, OpenInv, ConsumerHolds
  <2>2. CASE pending[RouteOf[r]] # <<>>
    BY <1>0, <1>9, <2>1, <2>2 DEF CompleteRoute, PromoteNext
  <2>3. CASE pending[RouteOf[r]] = <<>>
    <3>1. Notice(AdapterIdle(Channel[RouteOf[r]])) /\ controls' = controls
      BY <1>9, <2>1, <2>3 DEF CompleteRoute
    <3>2. AdapterIdle(Channel[RouteOf[r]])
      BY <1>0, <3>1 DEF AdapterIdle, GloballyIdle
    <3> QED
      BY <1>0, <3>1, <3>2 DEF Notice
  <2> QED
    BY <2>2, <2>3
<1>10. ASSUME NEW ro \in Route, DiscardPending(ro) PROVE noticed'
  <2>1. pending[ro] = <<>>
    BY <1>1, <1>2, <1>10 DEF DiscardPending, OpenInv, HeadFirst
  <2>2. Discarded(ro) = {}
    BY <2>1, EmptySeq DEF Discarded, Elems
  <2>3. /\ inflight' = inflight /\ Notice(FALSE)
        /\ UNCHANGED <<stage, phase, controls, consumer, dispatching>>
    BY <1>10, <2>2 DEF DiscardPending
  <2>4. AtRest
    BY <1>0, <2>3 DEF AtRest, GloballyIdle, TurnsIdle, Running
  <2> QED
    BY <1>0, <2>3, <2>4 DEF Notice, NoticedIdle, AtRest
<1>11. ASSUME NEW a \in Account, Reserve(a) \/ ReleaseBlock(a) PROVE noticed'
  <2>1. CASE Reserve(a)
    BY <2>1, <1>0 DEF Reserve, NoticedIdle, GloballyIdle, TurnsIdle, Running
  <2>2. CASE ReleaseBlock(a)
    BY <2>2, <1>0 DEF ReleaseBlock, Notice
  <2> QED
    BY <1>11, <2>1, <2>2
<1>12. ~StopDelivery /\ ~SealAdapters /\ ~BeginClose /\ ~FinishClose
  BY <1>0 DEF StopDelivery, SealAdapters, BeginClose, FinishClose
<1>13. CASE UNCHANGED vars
  BY <1>13, <1>0 DEF vars, NoticedIdle, GloballyIdle, TurnsIdle, Running
<1> QED
  BY <1>4, <1>5, <1>6, <1>7, <1>8, <1>9, <1>10, <1>11, <1>12, <1>13
     DEF Next, DispatchRaises, DispatchCancelled

(* When everything has come to rest, on_idle has been called: a Runtime     *)
(* replacement that waits for idleness is not left waiting (turns.py).      *)
THEOREM NoticedIdleCorrect == Spec => []NoticedIdle
<1>1. Init => NoticedIdle
  BY DEF Init, NoticedIdle
<1> QED
  BY <1>1, InductiveInvariant, NoticeStep, PTL DEF Spec

-----------------------------------------------------------------------------
(* InflightAccounting.  A request waits in one place of its line at most,   *)
(* and none of those that wait is being dispatched or executed: so what one *)
(* step takes out of a line or of _inflight is nowhere else.                *)
Waits(r) == \E i \in 1..Len(pending[RouteOf[r]]) : pending[RouteOf[r]][i] = r

WaitsOnce ==
  \A ro \in Route : \A i, k \in 1..Len(pending[ro]) : pending[ro][i] = pending[ro][k] => i = k

AccountInv ==
  /\ WaitsOnce
  /\ \A r \in Req :
       /\ r \in inflight <=> Waits(r) \/ Working(r)
       /\ Waits(r) => ~Working(r)
       /\ r \in inflight => r \notin Elems(terminal)

LEMMA WaitsAppend ==
  ASSUME TypeOK, WaitsOnce, NEW r \in Req, ~Waits(r),
         pending' = [pending EXCEPT ![RouteOf[r]] = Append(@, r)]
  PROVE  WaitsOnce' /\ \A x \in Req : Waits(x)' <=> Waits(x) \/ x = r
<1> USE RouteAssumption
<1> DEFINE ro == RouteOf[r]
           s == pending[ro]
<1>1. ro \in Route /\ s \in Seq(Req) /\ Len(s) \in Nat
  BY LenProperties DEF TypeOK
<1>2. pending'[ro] = Append(s, r) /\ \A q \in Route : q # ro => pending'[q] = pending[q]
  BY <1>1 DEF TypeOK
<1>3. /\ Len(pending'[ro]) = Len(s) + 1 /\ pending'[ro][Len(s) + 1] = r
      /\ \A i \in 1..Len(s) : pending'[ro][i] = s[i]
  BY <1>1, <1>2, AppendProperties
<1>4. \A i \in 1..Len(s) : s[i] # r
  BY DEF Waits
<1>5. \A i, k \in 1..Len(s) : s[i] = s[k] => i = k
  BY <1>1 DEF WaitsOnce
<1>6. \A x \in Req : RouteOf[x] = ro => (Waits(x) <=> \E i \in 1..Len(s) : s[i] = x)
  BY DEF Waits
<1>7. \A x \in Req : RouteOf[x] = ro =>
        (Waits(x)' <=> \E i \in 1..Len(pending'[ro]) : pending'[ro][i] = x)
  BY DEF Waits
<1>8. \A x \in Req : RouteOf[x] # ro => (Waits(x)' <=> Waits(x)) /\ x # r
  BY <1>2 DEF Waits
<1> HIDE DEF ro, s
<1>9. \A i, k \in 1..Len(pending'[ro]) : pending'[ro][i] = pending'[ro][k] => i = k
  BY <1>1, <1>3, <1>4, <1>5
<1>10. WaitsOnce'
  <2> SUFFICES ASSUME NEW q \in Route, NEW i \in 1..Len(pending'[q]), NEW k \in 1..Len(pending'[q]),
                      pending'[q][i] = pending'[q][k]
               PROVE  i = k
    BY DEF WaitsOnce
  <2>1. CASE q = ro
    BY <1>9, <2>1
  <2>2. CASE q # ro
    BY <1>2, <2>2 DEF WaitsOnce
  <2> QED
    BY <2>1, <2>2
<1>11. ASSUME NEW x \in Req, RouteOf[x] = ro
       PROVE  Waits(x)' <=> Waits(x) \/ x = r
  <2>1. CASE x = r
    <3>1. RouteOf[r] = ro /\ Len(s) + 1 \in 1..Len(pending'[ro])
      BY <1>1, <1>3 DEF ro
    <3> QED
      BY <1>3, <1>7, <2>1, <3>1
  <2>2. CASE x # r
    <3>0. \A i \in 1..Len(s) : i \in 1..Len(pending'[ro])
      BY <1>1, <1>3
    <3>1. ASSUME Waits(x) PROVE Waits(x)'
      <4>1. PICK i \in 1..Len(s) : s[i] = x
        BY <1>6, <1>11, <3>1
      <4>2. i \in 1..Len(pending'[ro]) /\ pending'[ro][i] = x
        BY <1>3, <3>0, <4>1
      <4> QED
        BY <1>7, <1>11, <4>2
    <3>2. ASSUME Waits(x)' PROVE Waits(x)
      <4>1. PICK i \in 1..Len(pending'[ro]) : pending'[ro][i] = x
        BY <1>7, <1>11, <3>2
      <4>2. i \in 1..Len(s)
        BY <1>1, <1>3, <2>2, <4>1
      <4>3. s[i] = x
        BY <1>3, <4>1, <4>2
      <4> QED
        BY <1>6, <1>11, <4>2, <4>3
    <3> QED
      BY <2>2, <3>1, <3>2
  <2> QED
    BY <2>1, <2>2
<1> QED
  BY <1>8, <1>10, <1>11

LEMMA WaitsTail ==
  ASSUME TypeOK, LineRoutes, WaitsOnce, NEW ro \in Route, pending[ro] # <<>>,
         pending' = [pending EXCEPT ![ro] = Tail(@)]
  PROVE  WaitsOnce' /\ \A x \in Req : Waits(x)' <=> Waits(x) /\ x # Head(pending[ro])
<1> USE RouteAssumption
<1> DEFINE s == pending[ro]
<1>1. s \in Seq(Req) /\ Len(s) \in Nat \ {0}
  BY LenProperties, EmptySeq DEF TypeOK
<1>2. pending'[ro] = Tail(s) /\ \A q \in Route : q # ro => pending'[q] = pending[q]
  BY DEF TypeOK
<1>3. /\ Len(pending'[ro]) = Len(s) - 1 /\ Head(s) = s[1]
      /\ \A i \in 1..(Len(s) - 1) : pending'[ro][i] = s[i + 1]
  <2>1. Head(s) = s[1]
    BY <1>1
  <2>2. Len(Tail(s)) = Len(s) - 1 /\ \A i \in 1..Len(Tail(s)) : Tail(s)[i] = s[i + 1]
    BY <1>1, HeadTailProperties
  <2> QED
    BY <1>2, <2>1, <2>2
<1>4. \A i, k \in 1..Len(s) : s[i] = s[k] => i = k
  BY DEF WaitsOnce
<1>5. \A x \in Req : RouteOf[x] = ro =>
        /\ Waits(x) <=> \E i \in 1..Len(s) : s[i] = x
        /\ Waits(x)' <=> \E i \in 1..Len(pending'[ro]) : pending'[ro][i] = x
  BY DEF Waits
<1>6. \A x \in Req : RouteOf[x] # ro => (Waits(x)' <=> Waits(x)) /\ x # Head(s)
  BY <1>2, HeadRoute DEF Waits
<1> HIDE DEF s
<1>7. ASSUME NEW i \in 1..Len(pending'[ro]), NEW k \in 1..Len(pending'[ro]),
             pending'[ro][i] = pending'[ro][k]
      PROVE  i = k
  <2>1. i \in 1..(Len(s) - 1) /\ k \in 1..(Len(s) - 1)
    BY <1>3
  <2>2. pending'[ro][i] = s[i + 1] /\ pending'[ro][k] = s[k + 1]
    BY <1>3, <2>1
  <2>3. i + 1 \in 1..Len(s) /\ k + 1 \in 1..Len(s)
    BY <1>1, <2>1
  <2>4. i + 1 = k + 1
    BY <1>4, <1>7, <2>2, <2>3
  <2> QED
    BY <2>1, <2>4
<1>8. WaitsOnce'
  BY <1>2, <1>7 DEF WaitsOnce
<1>9. ASSUME NEW x \in Req, RouteOf[x] = ro
      PROVE  Waits(x)' <=> Waits(x) /\ x # Head(s)
  <2>1. ASSUME Waits(x)' PROVE Waits(x) /\ x # Head(s)
    <3>1. PICK i \in 1..Len(pending'[ro]) : pending'[ro][i] = x
      BY <1>5, <1>9, <2>1
    <3>2. i \in 1..(Len(s) - 1) /\ s[i + 1] = x
      BY <1>3, <3>1
    <3>3. i + 1 \in 1..Len(s) /\ 1 \in 1..Len(s) /\ i + 1 # 1
      BY <1>1, <3>2
    <3> QED
      BY <1>3, <1>4, <1>5, <1>9, <3>2, <3>3
  <2>2. ASSUME Waits(x), x # Head(s) PROVE Waits(x)'
    <3>1. PICK i \in 2..Len(s) : s[i] = x
      BY <1>1, <1>3, <1>5, <1>9, <2>2
    <3>2. i - 1 \in 1..(Len(s) - 1) /\ (i - 1) + 1 = i
      BY <1>1, <3>1
    <3>3. i - 1 \in 1..Len(pending'[ro]) /\ pending'[ro][i - 1] = x
      BY <1>3, <3>1, <3>2
    <3> QED
      BY <1>5, <1>9, <3>3
  <2> QED
    BY <2>1, <2>2
<1> QED
  BY <1>6, <1>8, <1>9 DEF s

LEMMA WaitsDropped ==
  ASSUME TypeOK, LineRoutes, WaitsOnce, NEW ro \in Route, pending' = [pending EXCEPT ![ro] = <<>>]
  PROVE  /\ WaitsOnce'
         /\ \A x \in Req : /\ Waits(x)' <=> Waits(x) /\ RouteOf[x] # ro
                           /\ x \in Discarded(ro) <=> Waits(x) /\ RouteOf[x] = ro
<1> USE RouteAssumption
<1>1. /\ pending'[ro] = <<>> /\ Len(<<>>) = 0 /\ \A q \in Route : q # ro => pending'[q] = pending[q]
      /\ pending[ro] \in Seq(Req) /\ Len(pending[ro]) \in Nat
  BY EmptySeq, LenProperties DEF TypeOK
<1>2. WaitsOnce'
  BY <1>1 DEF WaitsOnce
<1>3. \A x \in Req : Waits(x)' <=> Waits(x) /\ RouteOf[x] # ro
  BY <1>1 DEF Waits
<1>4. \A x \in Req : x \in Discarded(ro) <=> Waits(x) /\ RouteOf[x] = ro
  BY <1>1 DEF Discarded, Elems, Waits, LineRoutes
<1> QED
  BY <1>2, <1>3, <1>4

(* The cache holds what it held and the new reply. *)
LEMMA CachedElems ==
  ASSUME TypeOK, NEW r \in Req
  PROVE  Elems(Evict(Cached(r))) \subseteq Elems(terminal) \union {r}
<1> DEFINE w == Without(terminal, r)
<1>1. terminal \in Seq(Req) /\ Len(terminal) \in Nat
  BY LenProperties DEF TypeOK
<1>2. w \in Seq(Req) /\ Len(w) \in Nat /\ Elems(w) \subseteq Elems(terminal)
  <2>1. CASE r \notin Elems(terminal)
    BY <1>1, <2>1 DEF Without
  <2>2. CASE r \in Elems(terminal)
    <3> DEFINE k == CHOOSE i \in 1..Len(terminal) : terminal[i] = r
               a == SubSeq(terminal, 1, k - 1)
               b == SubSeq(terminal, k + 1, Len(terminal))
    <3>1. k \in 1..Len(terminal)
      BY <2>2 DEF Elems
    <3> HIDE DEF k
    <3>2. a \in Seq(Req) /\ Len(a) = k - 1 /\ \A i \in 1..Len(a) : a[i] = terminal[i]
      BY <1>1, <3>1, SubSeqProperties
    <3>3. b \in Seq(Req) /\ Len(b) = Len(terminal) - k /\ \A i \in 1..Len(b) : b[i] = terminal[k + i]
      BY <1>1, <3>1, SubSeqProperties
    <3>4. w = a \o b
      BY <2>2 DEF Without, k
    <3> HIDE DEF a, b, w
    <3>5. /\ w \in Seq(Req) /\ Len(w) = Len(a) + Len(b)
          /\ \A i \in 1..Len(a) : w[i] = a[i]
          /\ \A i \in (Len(a) + 1)..(Len(a) + Len(b)) : w[i] = b[i - Len(a)]
      <4>1. /\ a \o b \in Seq(Req) /\ Len(a \o b) = Len(a) + Len(b)
            /\ \A i \in 1..(Len(a) + Len(b)) : (a \o b)[i] = IF i <= Len(a) THEN a[i] ELSE b[i - Len(a)]
        BY <3>2, <3>3, ConcatProperties
      <4>2. Len(a) \in Nat /\ Len(b) \in Nat
        BY <3>2, <3>3, LenProperties
      <4> QED
        BY <3>4, <4>1, <4>2
    <3>6. ASSUME NEW i \in 1..Len(w) PROVE w[i] \in Elems(terminal)
      <4>1. CASE i <= Len(a)
        BY <1>1, <3>1, <3>2, <3>5, <4>1 DEF Elems
      <4>2. CASE ~(i <= Len(a))
        <5>1. i - Len(a) \in 1..Len(b) /\ w[i] = b[i - Len(a)]
          BY <1>1, <3>1, <3>2, <3>3, <3>5, <4>2
        <5>2. k + (i - Len(a)) \in 1..Len(terminal) /\ w[i] = terminal[k + (i - Len(a))]
          BY <1>1, <3>1, <3>2, <3>3, <5>1
        <5> QED
          BY <5>2 DEF Elems
      <4> QED
        BY <4>1, <4>2
    <3> QED
      BY <1>1, <3>1, <3>2, <3>3, <3>5, <3>6 DEF Elems
  <2> QED
    BY <2>1, <2>2
<1> HIDE DEF w
<1>3. /\ Cached(r) \in Seq(Req) /\ Len(Cached(r)) = Len(w) + 1 /\ Cached(r)[Len(w) + 1] = r
      /\ \A i \in 1..Len(w) : Cached(r)[i] = w[i]
  BY <1>2, AppendProperties DEF Cached, w
<1>4. Elems(Cached(r)) \subseteq Elems(terminal) \union {r}
  <2> SUFFICES ASSUME NEW i \in 1..Len(Cached(r)), Cached(r)[i] # r
               PROVE  Cached(r)[i] \in Elems(terminal)
    BY DEF Elems
  <2>1. i \in 1..Len(w)
    BY <1>2, <1>3
  <2> QED
    BY <1>2, <1>3, <2>1 DEF Elems
<1>5. Cached(r) # <<>>
  BY <1>2, <1>3, EmptySeq
<1>6. Elems(Tail(Cached(r))) \subseteq Elems(Cached(r))
  BY <1>2, <1>3, <1>5, HeadTailProperties DEF Elems
<1> QED
  BY <1>4, <1>6 DEF Evict

LEMMA AccountRollback ==
  ASSUME IInv, OpenInv, AccountInv, NEW r \in Req, r \in dispatching, NEW advance \in BOOLEAN,
         Rollback(r, advance), UNCHANGED <<phase, terminal>>
  PROVE  AccountInv'
<1> USE RouteAssumption
<1>1. /\ active[RouteOf[r]] = r /\ phase[r] = "idle" /\ RouteOf[r] \in Route /\ TypeOK /\ LineRoutes
      /\ Working(r) /\ ~Waits(r)
  BY DEF IInv, OpenInv, Owns, Live, DispatchIsIdle, AccountInv, Working
<1>2. CASE advance /\ pending[RouteOf[r]] # <<>>
  <2> DEFINE next == Head(pending[RouteOf[r]])
  <2>1. /\ inflight' = inflight \ {r} /\ dispatching' = (dispatching \ {r}) \union {next}
        /\ pending' = [pending EXCEPT ![RouteOf[r]] = Tail(@)]
    BY <1>1, <1>2 DEF Rollback, PromoteNext
  <2>2. WaitsOnce' /\ \A x \in Req : Waits(x)' <=> Waits(x) /\ x # next
    BY <1>1, <1>2, <2>1, WaitsTail DEF AccountInv
  <2>3. next \in Req /\ Waits(next)
    <3>1. next \in Req /\ RouteOf[next] = RouteOf[r]
      BY <1>1, <1>2, HeadRoute
    <3>2. 1 \in 1..Len(pending[RouteOf[r]]) /\ next = pending[RouteOf[r]][1]
      BY <1>1, <1>2, HeadTailProperties, LenProperties, EmptySeq DEF TypeOK
    <3> QED
      BY <3>1, <3>2 DEF Waits
  <2> HIDE DEF next
  <2>4. \A x \in Req : Working(x)' <=> (Working(x) /\ x # r) \/ x = next
    BY <1>1, <2>1 DEF Working
  <2> QED
    BY <1>1, <2>1, <2>2, <2>3, <2>4 DEF AccountInv
<1>3. CASE ~(advance /\ pending[RouteOf[r]] # <<>>)
  <2>1. /\ inflight' = inflight \ ({r} \union Discarded(RouteOf[r])) /\ dispatching' = dispatching \ {r}
        /\ pending' = [pending EXCEPT ![RouteOf[r]] = <<>>]
    BY <1>1, <1>3 DEF Rollback
  <2>2. /\ WaitsOnce'
        /\ \A x \in Req : /\ Waits(x)' <=> Waits(x) /\ RouteOf[x] # RouteOf[r]
                          /\ x \in Discarded(RouteOf[r]) <=> Waits(x) /\ RouteOf[x] = RouteOf[r]
    BY <1>1, <2>1, WaitsDropped DEF AccountInv
  <2>3. \A x \in Req : Working(x)' <=> Working(x) /\ x # r
    BY <1>1, <2>1 DEF Working
  <2> QED
    BY <1>1, <2>1, <2>2, <2>3 DEF AccountInv
<1> QED
  BY <1>2, <1>3

LEMMA AccountStep ==
  ASSUME IInv, stage # "closed", AccountInv, [Next]_vars
  PROVE  FinishClose \/ AccountInv'
<1> USE RouteAssumption
<1>1. TypeOK /\ LineRoutes /\ OpenInv
  BY DEF IInv
<1>2. ASSUME NEW r \in Req, Submit(r) PROVE AccountInv'
  <2>1. /\ r \notin inflight /\ r \notin Elems(terminal) /\ inflight' = inflight \union {r}
        /\ UNCHANGED <<phase, terminal>>
    BY <1>2 DEF Submit, Known
  <2>2. ~Waits(r) /\ ~Working(r) /\ RouteOf[r] \in Route
    BY <2>1 DEF AccountInv
  <2>3. CASE pending' = [pending EXCEPT ![RouteOf[r]] = Append(@, r)] /\ dispatching' = dispatching
    <3>1. WaitsOnce' /\ \A x \in Req : Waits(x)' <=> Waits(x) \/ x = r
      BY <1>1, <2>2, <2>3, WaitsAppend DEF AccountInv
    <3>2. \A x \in Req : Working(x)' <=> Working(x)
      BY <2>1, <2>3 DEF Working
    <3> QED
      BY <2>1, <2>2, <3>1, <3>2 DEF AccountInv
  <2>4. CASE pending' = pending /\ dispatching' = dispatching \union {r}
    <3>1. \A x \in Req : /\ Working(x)' <=> Working(x) \/ x = r
                         /\ Waits(x)' <=> Waits(x)
      BY <2>1, <2>4 DEF Working, Waits
    <3> QED
      BY <2>1, <2>2, <2>4, <3>1 DEF AccountInv, WaitsOnce
  <2> QED
    BY <1>2, <2>3, <2>4 DEF Submit, Enqueue
<1>3. ASSUME NEW r \in Req, DispatchOk(r) \/ Consume(r) \/ BeginTurn(r) PROVE AccountInv'
  <2>1. /\ UNCHANGED <<pending, inflight, terminal>> /\ \A x \in Req : Working(x)' <=> Working(x)
    BY <1>1, <1>3 DEF DispatchOk, Consume, BeginTurn, turnVars, Working, TypeOK
  <2> QED
    BY <2>1 DEF AccountInv, Waits, WaitsOnce
<1>4. ASSUME NEW r \in Req, FinishTurn(r) PROVE AccountInv'
  <2>1. /\ phase[r] = "running" /\ phase' = [phase EXCEPT ![r] = "recorded"] /\ inflight' = inflight \ {r}
        /\ terminal' = Evict(Cached(r)) /\ UNCHANGED <<pending, dispatching>>
    BY <1>4 DEF FinishTurn
  <2>2. Working(r) /\ r \notin dispatching /\ ~Waits(r)
    BY <1>1, <2>1 DEF Working, AccountInv, OpenInv, DispatchIsIdle
  <2>3. \A x \in Req : Working(x)' <=> Working(x) /\ x # r
    BY <1>1, <2>1, <2>2 DEF Working, TypeOK
  <2>4. \A x \in Req : Waits(x)' <=> Waits(x)
    BY <2>1 DEF Waits
  <2>5. \A x \in Elems(terminal') : x \in Elems(terminal) \/ x = r
    BY <1>1, <2>1, CachedElems
  <2> QED
    BY <2>1, <2>2, <2>3, <2>4, <2>5 DEF AccountInv, WaitsOnce
<1>5. ASSUME NEW r \in Req, PublishTerminal(r) \/ Deliver(r) \/ WebSendTimesOut(r) PROVE AccountInv'
  <2>1. /\ UNCHANGED <<pending, inflight, terminal>> /\ \A x \in Req : Working(x)' <=> Working(x)
    BY <1>1, <1>5 DEF PublishTerminal, Deliver, WebSendTimesOut, turnVars, Working, TypeOK
  <2> QED
    BY <2>1 DEF AccountInv, Waits, WaitsOnce
<1>6. ASSUME NEW r \in Req, DispatchRaises(r) \/ DispatchCancelled(r) PROVE AccountInv'
  BY <1>1, <1>6, AccountRollback DEF DispatchRaises, DispatchCancelled
<1>7. ASSUME NEW r \in Req, CompleteRoute(r) PROVE AccountInv'
  <2>1. UNCHANGED <<inflight, phase, terminal>> /\ active[RouteOf[r]] = r /\ r \notin dispatching
        /\ RouteOf[r] \in Route
    BY <1>1, <1>7 DEF CompleteRoute, OpenInv, ConsumerHolds
  <2>2. CASE pending[RouteOf[r]] = <<>>
    <3>1. UNCHANGED <<pending, dispatching>>
      BY <1>7, <2>1, <2>2 DEF CompleteRoute
    <3> QED
      BY <2>1, <3>1 DEF AccountInv, Waits, WaitsOnce, Working
  <2>3. CASE pending[RouteOf[r]] # <<>>
    <3> DEFINE next == Head(pending[RouteOf[r]])
    <3>1. /\ dispatching' = (dispatching \ {r}) \union {next}
          /\ pending' = [pending EXCEPT ![RouteOf[r]] = Tail(@)]
      BY <1>7, <2>1, <2>3 DEF CompleteRoute, PromoteNext
    <3>2. WaitsOnce' /\ \A x \in Req : Waits(x)' <=> Waits(x) /\ x # next
      BY <1>1, <2>1, <2>3, <3>1, WaitsTail DEF AccountInv
    <3>3. next \in Req /\ Waits(next)
      <4>1. next \in Req /\ RouteOf[next] = RouteOf[r]
        BY <1>1, <2>1, <2>3, HeadRoute
      <4>2. 1 \in 1..Len(pending[RouteOf[r]]) /\ next = pending[RouteOf[r]][1]
        BY <1>1, <2>1, <2>3, HeadTailProperties, LenProperties, EmptySeq DEF TypeOK
      <4> QED
        BY <4>1, <4>2 DEF Waits
    <3> HIDE DEF next
    <3>4. \A x \in Req : Working(x)' <=> Working(x) \/ x = next
      BY <2>1, <3>1 DEF Working
    <3> QED
      BY <2>1, <3>1, <3>2, <3>3, <3>4 DEF AccountInv
  <2> QED
    BY <2>2, <2>3
<1>8. ASSUME NEW ro \in Route, DiscardPending(ro) PROVE AccountInv'
  <2>1. /\ inflight' = inflight \ Discarded(ro) /\ pending' = [pending EXCEPT ![ro] = <<>>]
        /\ UNCHANGED <<dispatching, phase, terminal>>
    BY <1>8 DEF DiscardPending
  <2>2. /\ WaitsOnce'
        /\ \A x \in Req : /\ Waits(x)' <=> Waits(x) /\ RouteOf[x] # ro
                          /\ x \in Discarded(ro) <=> Waits(x) /\ RouteOf[x] = ro
    BY <1>1, <2>1, WaitsDropped DEF AccountInv
  <2>3. \A x \in Req : Working(x)' <=> Working(x)
    BY <2>1 DEF Working
  <2> QED
    BY <2>1, <2>2, <2>3 DEF AccountInv
<1>9. ASSUME \/ \E a \in Account : Reserve(a) \/ ReleaseBlock(a)
             \/ StopDelivery \/ SealAdapters \/ BeginClose \/ UNCHANGED vars
      PROVE  AccountInv'
  <2>1. UNCHANGED <<pending, inflight, terminal, dispatching, phase>>
    BY <1>9 DEF Reserve, ReleaseBlock, StopDelivery, SealAdapters, BeginClose, turnVars, vars
  <2> QED
    BY <2>1 DEF AccountInv, Waits, WaitsOnce, Working
<1> QED
  BY <1>2, <1>3, <1>4, <1>5, <1>6, <1>7, <1>8, <1>9 DEF Next

(* _inflight, which decides duplicates and idleness, is what waits and what *)
(* is dispatched or executed, and nothing of it is in the replay cache      *)
(* (turns.py:submit, _rollback_dispatch, discard_pending_route).            *)
THEOREM InflightCorrect == Spec => []InflightAccounting
<1> DEFINE Accounted == stage # "closed" => AccountInv
<1>1. Init => Accounted
  BY RouteAssumption, EmptySeq DEF Init, AccountInv, WaitsOnce, Waits, Working, Elems
<1>2. IInv /\ Accounted /\ [Next]_vars => Accounted'
  BY AccountStep, ClosedStep DEF IInv, FinishClose
<1>3. ASSUME IInv, Accounted PROVE InflightAccounting
  <2> SUFFICES ASSUME stage # "closed"
               PROVE  /\ inflight = (UNION {Elems(pending[ro]) : ro \in Route}) \union {r \in Req : Working(r)}
                      /\ inflight \intersect Elems(terminal) = {}
    BY DEF InflightAccounting
  <2>1. AccountInv /\ TypeOK /\ LineRoutes
    BY <1>3 DEF IInv
  <2>2. \A ro \in Route : Elems(pending[ro]) \subseteq {r \in Req : Waits(r)}
    <3> SUFFICES ASSUME NEW ro \in Route, NEW i \in 1..Len(pending[ro])
                 PROVE  pending[ro][i] \in Req /\ Waits(pending[ro][i])
      BY DEF Elems
    <3>1. pending[ro] \in Seq(Req) /\ pending[ro][i] \in Req
      BY <2>1, ElementOfSeq DEF TypeOK
    <3> QED
      BY <2>1, <3>1 DEF LineRoutes, Waits
  <2>3. \A r \in Req : Waits(r) => RouteOf[r] \in Route /\ r \in Elems(pending[RouteOf[r]])
    BY RouteAssumption DEF Waits, Elems
  <2>4. /\ inflight \subseteq Req /\ \A r \in Req : r \in inflight <=> Waits(r) \/ Working(r)
        /\ \A r \in Req : r \in inflight => r \notin Elems(terminal)
    BY <2>1 DEF AccountInv, TypeOK
  <2>5. inflight \subseteq (UNION {Elems(pending[ro]) : ro \in Route}) \union {r \in Req : Working(r)}
    <3> SUFFICES ASSUME NEW r \in Req, Waits(r)
                 PROVE  r \in UNION {Elems(pending[ro]) : ro \in Route}
      BY <2>4
    <3> QED
      BY <2>3
  <2>6. UNION {Elems(pending[ro]) : ro \in Route} \subseteq inflight
    BY <2>2, <2>4
  <2>7. {r \in Req : Working(r)} \subseteq inflight
    BY <2>4
  <2>8. inflight \intersect Elems(terminal) = {}
    BY <2>4
  <2> QED
    BY <2>5, <2>6, <2>7, <2>8
<1> QED
  BY <1>1, <1>2, <1>3, InductiveInvariant, PTL DEF Spec

-----------------------------------------------------------------------------
(***************************************************************************)
(* The coordinator implements RouteFifo: the line of a route is its active *)
(* request and those that wait behind it.                                  *)
(***************************************************************************)
Line == [ro \in Route |-> IF active[ro] = NoReq THEN <<>> ELSE <<active[ro]>> \o pending[ro]]
Served == ran \ forgotten
Held == UNION {AccountRoutes[a] : a \in blocks}

(* A line is looked at, joined and left like any sequence.                  *)
LEMMA LineOf ==
  ASSUME NEW S, NEW a \in S, NEW s \in Seq(S)
  PROVE  /\ <<a>> \o s \in Seq(S)
         /\ <<a>> \o s # <<>>
         /\ Len(<<a>> \o s) = Len(s) + 1
         /\ \A i \in 2..(Len(s) + 1) : (<<a>> \o s)[i] = s[i - 1]
         /\ Head(<<a>> \o s) = a
         /\ Tail(<<a>> \o s) = s
         /\ <<a>> \o <<>> = <<a>>
<1> DEFINE t == <<a>> \o s
<1>1. <<a>> \in Seq(S) /\ Len(<<a>>) = 1 /\ <<a>>[1] = a /\ Len(s) \in Nat
  BY LenProperties
<1>2. /\ t \in Seq(S) /\ Len(t) = Len(s) + 1
      /\ \A i \in 1..(1 + Len(s)) : t[i] = IF i <= 1 THEN <<a>>[i] ELSE s[i - 1]
  BY <1>1, ConcatProperties
<1>3. <<a>> \o <<>> = <<a>>
  BY <1>1, ConcatEmptySeq
<1> HIDE DEF t
<1>4. t # <<>>
  BY <1>1, <1>2, EmptySeq
<1>5. Head(t) = a
  BY <1>1, <1>2, <1>4
<1>6. Tail(t) \in Seq(S) /\ Len(Tail(t)) = Len(s) /\ \A i \in 1..Len(Tail(t)) : Tail(t)[i] = t[i + 1]
  BY <1>1, <1>2, <1>4, HeadTailProperties
<1>7. \A i \in 1..Len(Tail(t)) : Tail(t)[i] = s[i]
  BY <1>1, <1>2, <1>6
<1>8. Tail(t) = s
  BY <1>6, <1>7, SeqEqual
<1>9. \A i \in 2..(Len(s) + 1) : t[i] = s[i - 1]
  BY <1>1, <1>2
<1> QED
  BY <1>2, <1>3, <1>4, <1>5, <1>8, <1>9 DEF t

LEMMA LineGrows ==
  ASSUME NEW S, NEW a \in S, NEW s \in Seq(S), NEW e \in S
  PROVE  /\ <<a>> \o Append(s, e) = Append(<<a>> \o s, e)
         /\ Append(<<>>, e) = <<e>> \o <<>>
<1>1. <<a>> \in Seq(S) /\ <<e>> \in Seq(S) /\ <<a>> \o s \in Seq(S) /\ <<>> \in Seq(S)
  BY ConcatProperties, EmptySeq
<1>2. Append(s, e) = s \o <<e>> /\ Append(<<a>> \o s, e) = (<<a>> \o s) \o <<e>>
  BY <1>1, AppendIsConcat
<1>3. (<<a>> \o s) \o <<e>> = <<a>> \o (s \o <<e>>)
  BY <1>1, ConcatAssociative
<1>4. Append(<<>>, e) = <<>> \o <<e>> /\ <<>> \o <<e>> = <<e>> /\ <<e>> \o <<>> = <<e>>
  BY <1>1, AppendIsConcat, ConcatEmptySeq
<1> QED
  BY <1>2, <1>3, <1>4

LEMMA HeadTailLine ==
  ASSUME NEW S, NEW s \in Seq(S), s # <<>>
  PROVE  <<Head(s)>> \o Tail(s) = s
<1>1. Head(s) \in S /\ Tail(s) \in Seq(S) /\ Len(Tail(s)) = Len(s) - 1 /\ Len(s) \in Nat
  BY HeadTailProperties, LenProperties
<1>2. \A i \in 1..Len(Tail(s)) : Tail(s)[i] = s[i + 1]
  BY HeadTailProperties
<1> DEFINE t == <<Head(s)>> \o Tail(s)
           h == Head(s)
           u == Tail(s)
<1>3. h = s[1]
  OBVIOUS
<1> HIDE DEF h, u
<1>4. /\ <<h>> \o u \in Seq(S) /\ <<h>> \o u # <<>>
      /\ Len(<<h>> \o u) = Len(u) + 1
      /\ \A i \in 2..(Len(u) + 1) : (<<h>> \o u)[i] = u[i - 1]
      /\ Head(<<h>> \o u) = h
  BY <1>1, LineOf DEF h, u
<1>5. (<<h>> \o u)[1] = h
  BY <1>4
<1> DEFINE v == <<h>> \o u
<1> HIDE DEF v
<1>6. \A i \in 1..Len(v) : v[i] = s[i]
  <2>1. Len(u) = Len(s) - 1 /\ \A i \in 1..Len(u) : u[i] = s[i + 1]
    BY <1>1, <1>2 DEF u
  <2> QED
    BY <1>1, <1>3, <1>4, <1>5, <2>1 DEF v
<1>7. v \in Seq(S) /\ Len(v) = Len(s)
  BY <1>1, <1>4 DEF v, u
<1>8. v = s
  BY <1>6, <1>7, SeqEqual
<1> QED
  BY <1>8 DEF v, h, u

-----------------------------------------------------------------------------
(* Whose turn has begun is remembered, or its turn is running, or it was    *)
(* evicted: so what is accepted again and what begins is not remembered.    *)
RanRecorded == \A r \in ran \ forgotten : r \in Elems(terminal) \/ phase[r] = "running"

LEMMA RanStep ==
  ASSUME IInv, stage # "closed", RanRecorded, [Next]_vars
  PROVE  stage' = "closed" \/ RanRecorded'
<1> USE RouteAssumption
<1>1. TypeOK /\ DispatchIsIdle
  BY DEF IInv, OpenInv
<1>2. CASE \E r \in Req : BeginTurn(r)
  <2>1. PICK r \in Req : BeginTurn(r)
    BY <1>2
  <2>2. /\ phase' = [phase EXCEPT ![r] = "running"] /\ ran' = ran \union {r} /\ forgotten' = forgotten \ {r}
        /\ terminal' = terminal
    BY <2>1 DEF BeginTurn, turnVars
  <2> QED
    BY <1>1, <2>2 DEF RanRecorded, TypeOK
<1>3. CASE \E r \in Req : FinishTurn(r)
  <2>1. PICK r \in Req : FinishTurn(r)
    BY <1>3
  <2>2. /\ phase' = [phase EXCEPT ![r] = "recorded"] /\ ran' = ran
        /\ forgotten' = forgotten \union ((Elems(terminal) \union {r}) \ Elems(terminal'))
    BY <2>1 DEF FinishTurn
  <2> QED
    BY <1>1, <2>2 DEF RanRecorded, TypeOK
<1>4. CASE \E r \in Req : DispatchOk(r)
  <2>1. PICK r \in Req : DispatchOk(r)
    BY <1>4
  <2>2. /\ phase' = [phase EXCEPT ![r] = "queued"] /\ ran' = ran /\ forgotten' = forgotten /\ terminal' = terminal
        /\ phase[r] = "idle"
    BY <1>1, <2>1 DEF DispatchOk, turnVars, DispatchIsIdle
  <2> QED
    BY <1>1, <2>2 DEF RanRecorded, TypeOK
<1>5. CASE \E r \in Req : Consume(r)
  BY <1>1, <1>5 DEF Consume, turnVars, RanRecorded, TypeOK
<1>6. CASE \E r \in Req : PublishTerminal(r) \/ Deliver(r) \/ WebSendTimesOut(r)
  BY <1>1, <1>6 DEF PublishTerminal, Deliver, WebSendTimesOut, turnVars, RanRecorded, TypeOK
<1>7. CASE FinishClose
  BY <1>7 DEF FinishClose
<1>8. CASE UNCHANGED <<phase, ran, forgotten, terminal>>
  BY <1>8 DEF RanRecorded
<1>9. CASE \E r \in Req : Submit(r) \/ DispatchRaises(r) \/ DispatchCancelled(r) \/ CompleteRoute(r)
  BY <1>8, <1>9 DEF Submit, DispatchRaises, DispatchCancelled, CompleteRoute
<1>10. CASE \/ \E ro \in Route : DiscardPending(ro)
            \/ \E a \in Account : Reserve(a) \/ ReleaseBlock(a)
            \/ StopDelivery \/ SealAdapters \/ BeginClose \/ UNCHANGED vars
  BY <1>8, <1>10 DEF DiscardPending, Reserve, ReleaseBlock, StopDelivery, SealAdapters, BeginClose, turnVars, vars
<1> QED
  BY <1>2, <1>3, <1>4, <1>5, <1>6, <1>7, <1>9, <1>10 DEF Next

-----------------------------------------------------------------------------
(* What a line is, and that it changes alone.                               *)
LEMMA LineIs ==
  ASSUME TypeOK, NEW ro \in Route
  PROVE  /\ active[ro] = NoReq => Line[ro] = <<>>
         /\ active[ro] # NoReq =>
              /\ Line[ro] = <<active[ro]>> \o pending[ro]
              /\ Line[ro] # <<>> /\ Head(Line[ro]) = active[ro] /\ Tail(Line[ro]) = pending[ro]
              /\ Len(Line[ro]) = Len(pending[ro]) + 1
              /\ \A i \in 2..Len(Line[ro]) : Line[ro][i] = pending[ro][i - 1]
<1>1. active[ro] \in Req \union {NoReq} /\ pending[ro] \in Seq(Req)
  BY DEF TypeOK
<1>2. Line[ro] = IF active[ro] = NoReq THEN <<>> ELSE <<active[ro]>> \o pending[ro]
  BY DEF Line
<1>3. ASSUME active[ro] # NoReq
      PROVE  LET l == <<active[ro]>> \o pending[ro]
             IN /\ l # <<>> /\ Head(l) = active[ro] /\ Tail(l) = pending[ro]
                /\ Len(l) = Len(pending[ro]) + 1
                /\ \A i \in 2..(Len(pending[ro]) + 1) : l[i] = pending[ro][i - 1]
  <2>1. active[ro] \in Req
    BY <1>1, <1>3
  <2> DEFINE l == <<active[ro]>> \o pending[ro]
  <2>2. /\ l # <<>> /\ Head(l) = active[ro] /\ Tail(l) = pending[ro]
        /\ Len(l) = Len(pending[ro]) + 1
        /\ \A i \in 2..(Len(pending[ro]) + 1) : l[i] = pending[ro][i - 1]
    BY <1>1, <2>1, LineOf
  <2> HIDE DEF l
  <2> QED
    BY <2>2 DEF l
<1> DEFINE l == <<active[ro]>> \o pending[ro]
<1>4. active[ro] # NoReq =>
        /\ l # <<>> /\ Head(l) = active[ro] /\ Tail(l) = pending[ro]
        /\ Len(l) = Len(pending[ro]) + 1
        /\ \A i \in 2..(Len(pending[ro]) + 1) : l[i] = pending[ro][i - 1]
  BY <1>3
<1>5. active[ro] # NoReq => Line[ro] = l
  BY <1>2
<1> HIDE DEF l
<1>6. active[ro] # NoReq =>
        /\ Line[ro] = l
        /\ Line[ro] # <<>> /\ Head(Line[ro]) = active[ro] /\ Tail(Line[ro]) = pending[ro]
        /\ Len(Line[ro]) = Len(pending[ro]) + 1
        /\ \A i \in 2..Len(Line[ro]) : Line[ro][i] = pending[ro][i - 1]
  BY <1>4, <1>5
<1> QED
  BY <1>2, <1>6 DEF l

LEMMA LineAlone ==
  ASSUME NEW ro \in Route, \A q \in Route : q # ro => active'[q] = active[q] /\ pending'[q] = pending[q],
         NEW l, l = IF active'[ro] = NoReq THEN <<>> ELSE <<active'[ro]>> \o pending'[ro]
  PROVE  Line' = [Line EXCEPT ![ro] = l]
BY DEF Line

(* The head of a line leaves it, and the next in line is promoted, or the   *)
(* whole line goes.                                                         *)
LEMMA HeadLeaves ==
  ASSUME TypeOK, NEW ro \in Route, NEW r \in Req, active[ro] = r, Served' = Served, Held' = Held,
         \/ pending[ro] # <<>> /\ PromoteNext(ro, r)
         \/ active' = [active EXCEPT ![ro] = NoReq] /\ pending' \in {pending, [pending EXCEPT ![ro] = <<>>]}
  PROVE  Fifo!Next
<1> USE RouteAssumption
<1>1. active \in [Route -> Req \union {NoReq}] /\ pending \in [Route -> Seq(Req)] /\ r # NoReq
  BY DEF TypeOK
<1>2. Line[ro] # <<>> /\ Tail(Line[ro]) = pending[ro]
  BY <1>1, LineIs
<1>3. CASE pending[ro] # <<>> /\ PromoteNext(ro, r)
  <2> DEFINE next == Head(pending[ro])
  <2>1. active' = [active EXCEPT ![ro] = next] /\ pending' = [pending EXCEPT ![ro] = Tail(@)]
    BY <1>3 DEF PromoteNext
  <2>2. next \in Req /\ next # NoReq
    BY <1>3, LineType
  <2>3. <<next>> \o Tail(pending[ro]) = pending[ro]
    BY <1>1, <1>3, HeadTailLine
  <2> HIDE DEF next
  <2>4. active'[ro] = next /\ pending'[ro] = Tail(pending[ro])
        /\ \A q \in Route : q # ro => active'[q] = active[q] /\ pending'[q] = pending[q]
    BY <1>1, <2>1
  <2>5. Line' = [Line EXCEPT ![ro] = pending[ro]]
    BY <2>2, <2>3, <2>4, LineAlone
  <2>6. Fifo!Leave(ro)
    BY <1>2, <2>5 DEF Fifo!Leave, Line, Served, Held
  <2> QED
    BY <2>6 DEF Fifo!Next
<1>4. CASE active' = [active EXCEPT ![ro] = NoReq] /\ pending' \in {pending, [pending EXCEPT ![ro] = <<>>]}
  <2>1. active'[ro] = NoReq
        /\ \A q \in Route : q # ro => active'[q] = active[q] /\ pending'[q] = pending[q]
    BY <1>1, <1>4
  <2>2. Line' = [Line EXCEPT ![ro] = <<>>]
    BY <2>1, LineAlone
  <2>3. Fifo!DropLine(ro)
    BY <2>2 DEF Fifo!DropLine, Line, Served, Held
  <2> QED
    BY <2>3 DEF Fifo!Next
<1> QED
  BY <1>3, <1>4

LEMMA SubmitArrives ==
  ASSUME IInv, AccountInv, RanRecorded, NEW r \in Req, Submit(r)
  PROVE  Fifo!Next
<1> USE RouteAssumption
<1> DEFINE ro == RouteOf[r]
<1>1. /\ ~Blocked(ro) /\ r \notin inflight /\ r \notin Elems(terminal)
      /\ UNCHANGED <<ran, forgotten, blocks>>
      /\ \/ /\ active[ro] # NoReq /\ active' = active
            /\ pending' = [pending EXCEPT ![ro] = Append(pending[ro], r)]
         \/ /\ active[ro] = NoReq /\ pending' = pending
            /\ active' = [active EXCEPT ![ro] = r]
  BY DEF Submit, Known, RouteBusy, Enqueue
<1>2. /\ TypeOK /\ HeadFirst /\ ro \in Route /\ r # NoReq
      /\ active \in [Route -> Req \union {NoReq}] /\ pending \in [Route -> Seq(Req)]
  BY DEF IInv, OpenInv, TypeOK, Submit, Accepting
<1>3. ~Waits(r) /\ ~Working(r)
  BY <1>1 DEF AccountInv
<1> HIDE DEF ro
<1>4. r \notin Served
  BY <1>1, <1>3 DEF Served, RanRecorded, Working
<1>5. ro \notin Held
  BY <1>1 DEF Held, Blocked
<1>6. r \notin {Line[ro][i] : i \in 2..Len(Line[ro])}
  <2> SUFFICES ASSUME NEW i \in 2..Len(Line[ro]), Line[ro][i] = r
               PROVE  FALSE
    OBVIOUS
  <2>1. CASE active[ro] = NoReq
    <3>1. Line[ro] = <<>> /\ Len(<<>>) = 0
      BY <1>2, <2>1, LineIs, EmptySeq
    <3> QED
      BY <3>1
  <2>2. CASE active[ro] # NoReq
    <3>1. Len(Line[ro]) = Len(pending[ro]) + 1 /\ r = pending[ro][i - 1]
      BY <1>2, <2>2, LineIs
    <3>2. Len(pending[ro]) \in Nat
      BY <1>2, LenProperties
    <3>3. i - 1 \in 1..Len(pending[ro])
      BY <3>1, <3>2
    <3> QED
      BY <1>3, <3>1, <3>3 DEF Waits, ro
  <2> QED
    BY <2>1, <2>2
<1>7. Line' = [Line EXCEPT ![ro] = Append(@, r)]
  <2>1. CASE /\ active[ro] # NoReq /\ active' = active
             /\ pending' = [pending EXCEPT ![ro] = Append(pending[ro], r)]
    <3>1. /\ \A q \in Route : q # ro => active'[q] = active[q] /\ pending'[q] = pending[q]
          /\ active'[ro] = active[ro] /\ pending'[ro] = Append(pending[ro], r)
      BY <1>2, <2>1
    <3>2. <<active[ro]>> \o Append(pending[ro], r) = Append(<<active[ro]>> \o pending[ro], r)
      BY <1>2, <2>1, LineGrows
    <3>3. Line[ro] = <<active[ro]>> \o pending[ro]
      BY <1>2, <2>1, LineIs
    <3>4. Append(Line[ro], r) = IF active'[ro] = NoReq THEN <<>> ELSE <<active'[ro]>> \o pending'[ro]
      BY <2>1, <3>1, <3>2, <3>3
    <3>5. Line' = [Line EXCEPT ![ro] = Append(Line[ro], r)]
      BY <1>2, <3>1, <3>4, LineAlone
    <3> QED
      BY <3>5
  <2>2. CASE /\ active[ro] = NoReq /\ pending' = pending
             /\ active' = [active EXCEPT ![ro] = r]
    <3>1. /\ \A q \in Route : q # ro => active'[q] = active[q] /\ pending'[q] = pending[q]
          /\ active'[ro] = r /\ pending'[ro] = <<>>
      BY <1>2, <2>2 DEF HeadFirst
    <3>2. <<r>> \o <<>> = Append(<<>>, r)
      <4>1. <<>> \in Seq(Req)
        BY EmptySeq
      <4> QED
        BY <4>1, LineGrows
    <3>3. Line[ro] = <<>>
      BY <1>2, <2>2, LineIs
    <3>4. Append(Line[ro], r) = IF active'[ro] = NoReq THEN <<>> ELSE <<active'[ro]>> \o pending'[ro]
      BY <1>2, <3>1, <3>2, <3>3
    <3>5. Line' = [Line EXCEPT ![ro] = Append(Line[ro], r)]
      BY <1>2, <3>1, <3>4, LineAlone
    <3> QED
      BY <3>5
  <2> QED
    BY <1>1, <2>1, <2>2
<1>8. Fifo!Arrive(r)
  BY <1>1, <1>4, <1>5, <1>6, <1>7 DEF Fifo!Arrive, Fifo!Waiting, Line, Served, Held, ro
<1> QED
  BY <1>8 DEF Fifo!Next

LEMMA TurnBegins ==
  ASSUME IInv, stage # "closed" => AccountInv /\ RanRecorded, NEW r \in Req, BeginTurn(r)
  PROVE  Fifo!Next
<1> USE RouteAssumption
<1> DEFINE ro == RouteOf[r]
<1>1. /\ stage # "closed" /\ phase[r] = "spawned" /\ ran' = ran \union {r} /\ forgotten' = forgotten \ {r}
      /\ UNCHANGED <<active, pending, blocks>>
  BY DEF BeginTurn, turnVars
<1>2. active[ro] = r /\ TypeOK /\ ro \in Route /\ r # NoReq
  BY <1>1 DEF IInv, OpenInv, Owns, Live
<1>3. r \notin Served
  <2>1. r \in inflight
    BY <1>1 DEF AccountInv, Working
  <2> QED
    BY <1>1, <2>1 DEF AccountInv, RanRecorded, Served
<1>4. Served' = Served \union {r}
  BY <1>1 DEF Served
<1> HIDE DEF ro
<1>5. Line[ro] # <<>> /\ Head(Line[ro]) = r
  BY <1>2, LineIs
<1>6. Line' = Line /\ Held' = Held
  BY <1>1 DEF Line, Held
<1>7. Fifo!Begin(r)
  BY <1>3, <1>4, <1>5, <1>6 DEF Fifo!Begin, Line, Served, Held, ro
<1> QED
  BY <1>7 DEF Fifo!Next

LEMMA TurnIsRemembered ==
  ASSUME TypeOK, TypeOK', NEW r \in Req, FinishTurn(r)
  PROVE  Fifo!Next
<1> DEFINE evicted == (Elems(terminal) \union {r}) \ Elems(terminal')
<1>1. ran' = ran /\ forgotten' = forgotten \union evicted /\ UNCHANGED <<active, pending, blocks>>
  BY DEF FinishTurn
<1>2. evicted \in SUBSET Req
  BY ElementOfSeq DEF TypeOK, Elems
<1> HIDE DEF evicted
<1>3. Served' = Served \ evicted /\ Line' = Line /\ Held' = Held
  BY <1>1 DEF Served, Line, Held
<1>4. Fifo!Forget(evicted)
  BY <1>3 DEF Fifo!Forget, Line, Served, Held
<1> QED
  BY <1>2, <1>4 DEF Fifo!Next

LEMMA RestIsDropped ==
  ASSUME TypeOK, NEW ro \in Route, DiscardPending(ro)
  PROVE  Fifo!Next \/ (Line' = Line /\ Served' = Served /\ Held' = Held)
<1>1. /\ pending' = [pending EXCEPT ![ro] = <<>>] /\ UNCHANGED <<active, blocks, ran, forgotten>>
      /\ active \in [Route -> Req \union {NoReq}] /\ pending \in [Route -> Seq(Req)]
  BY DEF DiscardPending, TypeOK
<1>2. Served' = Served /\ Held' = Held
  BY <1>1 DEF Served, Held
<1>3. /\ \A q \in Route : q # ro => active'[q] = active[q] /\ pending'[q] = pending[q]
      /\ active'[ro] = active[ro] /\ pending'[ro] = <<>>
  BY <1>1
<1>4. CASE active[ro] = NoReq
  <2>1. Line' = Line
    BY <1>1, <1>4 DEF Line
  <2> QED
    BY <1>2, <2>1
<1>5. CASE active[ro] # NoReq
  <2>1. active[ro] \in Req
    BY <1>1, <1>5
  <2>2. <<active[ro]>> \o <<>> = <<active[ro]>>
    <3>1. <<>> \in Seq(Req)
      BY EmptySeq
    <3> QED
      BY <2>1, <3>1, LineOf
  <2>3. Line[ro] # <<>> /\ Head(Line[ro]) = active[ro]
    BY <1>5, LineIs
  <2>4. <<Head(Line[ro])>> = IF active'[ro] = NoReq THEN <<>> ELSE <<active'[ro]>> \o pending'[ro]
    BY <1>3, <1>5, <2>2, <2>3
  <2>5. Line' = [Line EXCEPT ![ro] = <<Head(Line[ro])>>]
    BY <1>3, <2>4, LineAlone
  <2>6. Fifo!DropWaiting(ro)
    BY <1>2, <2>3, <2>5 DEF Fifo!DropWaiting, Line, Served, Held
  <2> QED
    BY <2>6 DEF Fifo!Next
<1> QED
  BY <1>4, <1>5

LEMMA BlocksHold ==
  ASSUME TypeOK, NEW a \in Account, Reserve(a) \/ ReleaseBlock(a)
  PROVE  Fifo!Next
<1> USE AccountAssumption
<1>1. UNCHANGED <<active, pending, ran, forgotten>>
  BY DEF Reserve, ReleaseBlock
<1>2. Line' = Line /\ Served' = Served /\ AccountRoutes[a] \in SUBSET Route /\ blocks \subseteq Account
  BY <1>1 DEF Line, Served, TypeOK
<1>3. CASE Reserve(a)
  <2>1. blocks' = blocks \union {a} /\ \A ro \in AccountRoutes[a] : active[ro] = NoReq
    BY <1>3 DEF Reserve, QuietRoute
  <2>2. Held' = Held \union AccountRoutes[a]
    BY <2>1 DEF Held
  <2>3. \A ro \in AccountRoutes[a] : Line[ro] = <<>>
    BY <1>2, <2>1 DEF Line
  <2>4. Fifo!Hold(AccountRoutes[a])
    BY <1>2, <2>2, <2>3 DEF Fifo!Hold, Line, Served, Held
  <2> QED
    BY <1>2, <2>4 DEF Fifo!Next
<1>4. CASE ReleaseBlock(a)
  <2>1. blocks' = blocks \ {a} /\ a \in blocks
    BY <1>4 DEF ReleaseBlock
  <2>2. Held' = Held \ AccountRoutes[a]
    BY <1>2, <2>1 DEF Held
  <2>3. Fifo!Unhold(AccountRoutes[a])
    BY <1>2, <2>2 DEF Fifo!Unhold, Line, Served, Held
  <2> QED
    BY <1>2, <2>3 DEF Fifo!Next
<1> QED
  BY <1>3, <1>4

LEMMA LinesEnd ==
  ASSUME FinishClose
  PROVE  Fifo!Next
<1>1. active' = [ro \in Route |-> NoReq] /\ blocks' = {} /\ UNCHANGED <<ran, forgotten>>
  BY DEF FinishClose
<1>2. Line' = [ro \in Route |-> <<>>]
  BY <1>1 DEF Line
<1>3. Held' = {} /\ Served' = Served
  BY <1>1 DEF Held, Served
<1>4. Fifo!Reset
  BY <1>2, <1>3 DEF Fifo!Reset, Line, Served, Held
<1> QED
  BY <1>4 DEF Fifo!Next

LEMMA FifoStep ==
  ASSUME IInv, IInv', stage # "closed" => AccountInv /\ RanRecorded, [Next]_vars
  PROVE  Fifo!Next \/ (Line' = Line /\ Served' = Served /\ Held' = Held)
<1> USE RouteAssumption
<1>1. TypeOK /\ TypeOK'
  BY DEF IInv
<1>2. ASSUME UNCHANGED <<active, pending, ran, forgotten, blocks>>
      PROVE  Line' = Line /\ Served' = Served /\ Held' = Held
  BY <1>2 DEF Line, Served, Held
<1>3. ASSUME NEW r \in Req, NEW advance \in BOOLEAN, Rollback(r, advance), UNCHANGED <<ran, forgotten, blocks>>
      PROVE  Fifo!Next \/ (Line' = Line /\ Served' = Served /\ Held' = Held)
  <2>1. Served' = Served /\ Held' = Held /\ RouteOf[r] \in Route
    BY <1>3 DEF Served, Held
  <2>2. CASE active[RouteOf[r]] # r
    BY <1>2, <1>3, <2>2 DEF Rollback
  <2>3. CASE active[RouteOf[r]] = r
    <3>1. \/ pending[RouteOf[r]] # <<>> /\ PromoteNext(RouteOf[r], r)
          \/ active' = [active EXCEPT ![RouteOf[r]] = NoReq] /\ pending' = [pending EXCEPT ![RouteOf[r]] = <<>>]
      BY <1>3, <2>3 DEF Rollback
    <3> QED
      BY <1>1, <2>1, <2>3, <3>1, HeadLeaves
  <2> QED
    BY <2>2, <2>3
<1>4. ASSUME NEW r \in Req, CompleteRoute(r)
      PROVE  Fifo!Next \/ (Line' = Line /\ Served' = Served /\ Held' = Held)
  <2>1. Served' = Served /\ Held' = Held /\ RouteOf[r] \in Route
    BY <1>4 DEF CompleteRoute, Served, Held
  <2>2. CASE active[RouteOf[r]] # r
    BY <1>2, <1>4, <2>2 DEF CompleteRoute
  <2>3. CASE active[RouteOf[r]] = r
    <3>1. \/ pending[RouteOf[r]] # <<>> /\ PromoteNext(RouteOf[r], r)
          \/ active' = [active EXCEPT ![RouteOf[r]] = NoReq] /\ pending' = pending
      BY <1>4, <2>3 DEF CompleteRoute
    <3> QED
      BY <1>1, <2>1, <2>3, <3>1, HeadLeaves
  <2> QED
    BY <2>2, <2>3
<1>5. ASSUME NEW r \in Req, Submit(r) PROVE Fifo!Next
  <2>1. stage # "closed"
    BY <1>5 DEF Submit, Accepting
  <2> QED
    BY <1>5, <2>1, SubmitArrives
<1>6. ASSUME NEW r \in Req, DispatchRaises(r) \/ DispatchCancelled(r)
      PROVE  Fifo!Next \/ (Line' = Line /\ Served' = Served /\ Held' = Held)
  <2>1. CASE DispatchRaises(r)
    <3>1. Rollback(r, TRUE) /\ UNCHANGED <<ran, forgotten, blocks>>
      BY <2>1 DEF DispatchRaises
    <3> QED
      BY <1>3, <3>1
  <2>2. CASE DispatchCancelled(r)
    <3>1. Rollback(r, FALSE) /\ UNCHANGED <<ran, forgotten, blocks>>
      BY <2>2 DEF DispatchCancelled
    <3> QED
      BY <1>3, <3>1
  <2> QED
    BY <1>6, <2>1, <2>2
<1>7. ASSUME NEW r \in Req, BeginTurn(r) PROVE Fifo!Next
  BY <1>7, TurnBegins
<1>8. ASSUME NEW r \in Req, FinishTurn(r) PROVE Fifo!Next
  BY <1>1, <1>8, TurnIsRemembered
<1>9. ASSUME \/ \E r \in Req : DispatchOk(r) \/ Consume(r) \/ PublishTerminal(r) \/ Deliver(r) \/ WebSendTimesOut(r)
             \/ StopDelivery \/ SealAdapters \/ BeginClose \/ UNCHANGED vars
      PROVE  Line' = Line /\ Served' = Served /\ Held' = Held
  BY <1>2, <1>9 DEF DispatchOk, Consume, PublishTerminal, Deliver, WebSendTimesOut, StopDelivery, SealAdapters,
                    BeginClose, turnVars, vars
<1>10. ASSUME NEW ro \in Route, DiscardPending(ro)
       PROVE  Fifo!Next \/ (Line' = Line /\ Served' = Served /\ Held' = Held)
  BY <1>1, <1>10, RestIsDropped
<1>11. ASSUME NEW a \in Account, Reserve(a) \/ ReleaseBlock(a) PROVE Fifo!Next
  BY <1>1, <1>11, BlocksHold
<1>12. ASSUME FinishClose PROVE Fifo!Next
  BY <1>12, LinesEnd
<1> QED
  BY <1>4, <1>5, <1>6, <1>7, <1>8, <1>9, <1>10, <1>11, <1>12 DEF Next

(* Until the close, who is in flight and whose turn has begun is recorded.  *)
Remembered == stage # "closed" => AccountInv /\ RanRecorded

LEMMA OnlyFinishCloses ==
  ASSUME IInv, [Next]_vars, stage # "closed", ~FinishClose
  PROVE  stage' # "closed"
<1>1. ASSUME NEW r \in Req,
             \/ Submit(r) \/ DispatchOk(r) \/ DispatchRaises(r) \/ DispatchCancelled(r) \/ Consume(r)
             \/ BeginTurn(r)
      PROVE  stage' # "closed"
  BY <1>1 DEF Submit, DispatchOk, DispatchRaises, DispatchCancelled, Consume, BeginTurn
<1>2. ASSUME NEW r \in Req,
             \/ FinishTurn(r) \/ PublishTerminal(r) \/ Deliver(r) \/ WebSendTimesOut(r) \/ CompleteRoute(r)
      PROVE  stage' # "closed"
  BY <1>2 DEF FinishTurn, PublishTerminal, Deliver, WebSendTimesOut, CompleteRoute
<1>3. (\/ \E ro \in Route : DiscardPending(ro)
       \/ \E a \in Account : Reserve(a) \/ ReleaseBlock(a)
       \/ StopDelivery \/ SealAdapters \/ BeginClose \/ UNCHANGED vars) => stage' # "closed"
  BY DEF DiscardPending, Reserve, ReleaseBlock, StopDelivery, SealAdapters, BeginClose, vars
<1> QED
  BY <1>1, <1>2, <1>3 DEF Next

LEMMA AlwaysRemembered == Spec => []Remembered
<1>1. Init => Remembered
  BY RouteAssumption, EmptySeq DEF Remembered, Init, AccountInv, WaitsOnce, Waits, Working, Elems, RanRecorded
<1>2. IInv /\ Remembered /\ [Next]_vars => Remembered'
  <2> SUFFICES ASSUME IInv, Remembered, [Next]_vars, stage' # "closed"
               PROVE  AccountInv' /\ RanRecorded'
    BY DEF Remembered
  <2>1. stage # "closed" /\ ~FinishClose
    BY ClosedStep DEF IInv, FinishClose
  <2> QED
    BY <2>1, AccountStep, RanStep DEF Remembered
<1> QED
  BY <1>1, <1>2, InductiveInvariant, PTL DEF Spec

(* Whatever dispatches fail or are cancelled, lines are discarded, Bindings *)
(* are deleted and replies are evicted, the coordinator does nothing that a *)
(* line per route would not do: served in the order of acceptance, one at a *)
(* time, none twice while it is remembered, none while the route is held    *)
(* (turns.py:submit, _rollback_dispatch, complete_route_turn).              *)
THEOREM FifoImplemented == Spec => ImplementsFifo
<1>1. Init => Fifo!Init
  <2> SUFFICES ASSUME Init
               PROVE  Fifo!Init
    OBVIOUS
  <2>1. Line = [ro \in Route |-> <<>>] /\ Served = {} /\ Held = {}
    BY DEF Init, Line, Served, Held
  <2> QED
    BY <2>1 DEF Fifo!Init, Line, Served, Held
<1>2. IInv /\ IInv' /\ Remembered /\ [Next]_vars => [Fifo!Next]_(Fifo!fifoVars)
  <2> SUFFICES ASSUME IInv, IInv', Remembered, [Next]_vars
               PROVE  Fifo!Next \/ (Line' = Line /\ Served' = Served /\ Held' = Held)
    BY DEF Fifo!fifoVars, Line, Served, Held
  <2> QED
    BY FifoStep DEF Remembered
<1> QED
  BY <1>1, <1>2, InductiveInvariant, AlwaysRemembered, PTL DEF Spec, ImplementsFifo, Fifo!Spec

-----------------------------------------------------------------------------
(* Who runs, and in which order.                                           *)
TurnsInOrder ==
  [][\A r \in Req : phase[r] # "running" /\ phase'[r] = "running" =>
       /\ active[RouteOf[r]] = r
       /\ r \notin Served
       /\ ~Blocked(RouteOf[r])
       /\ \A q \in Req \ {r} : RouteOf[q] = RouteOf[r] => ~Live(q)]_vars

(* t is s with some taken away in front, some dropped at the end, and at    *)
(* most one new member after what is left of s.                             *)
MovedUp(s, t) ==
  \E d \in 0..Len(s) :
    /\ Len(t) + d <= Len(s) + 1
    /\ \A i \in 1..Len(t) : i + d <= Len(s) => t[i] = s[i + d]

NobodyOvertakes == [][\A ro \in Route : MovedUp(Line[ro], Line'[ro])]_vars

(* Nothing but the begin of a turn makes a request run. *)
LEMMA OnlyBeginRuns ==
  ASSUME TypeOK, [Next]_vars, NEW r \in Req, phase[r] # "running", phase'[r] = "running"
  PROVE  BeginTurn(r)
<1>1. phase \in [Req -> Phases]
  BY DEF TypeOK
<1>2. ASSUME NEW q \in Req, BeginTurn(q)
      PROVE  q = r
  BY <1>1, <1>2 DEF BeginTurn
<1>3. ASSUME NEW q \in Req, DispatchOk(q) \/ Consume(q) \/ FinishTurn(q) \/ PublishTerminal(q)
      PROVE  FALSE
  BY <1>1, <1>3 DEF DispatchOk, Consume, FinishTurn, PublishTerminal
<1>4. ASSUME NEW q \in Req, Deliver(q) \/ WebSendTimesOut(q)
      PROVE  FALSE
  BY <1>1, <1>4 DEF Deliver, WebSendTimesOut
<1>5. ASSUME NEW q \in Req, Submit(q) \/ DispatchRaises(q) \/ DispatchCancelled(q) \/ CompleteRoute(q)
      PROVE  FALSE
  BY <1>5 DEF Submit, DispatchRaises, DispatchCancelled, CompleteRoute
<1>6. (\/ \E ro \in Route : DiscardPending(ro)
       \/ \E a \in Account : Reserve(a) \/ ReleaseBlock(a)
       \/ StopDelivery \/ SealAdapters \/ BeginClose \/ UNCHANGED vars) => phase' = phase
  BY DEF DiscardPending, Reserve, ReleaseBlock, StopDelivery, SealAdapters, BeginClose, vars
<1>7. CASE FinishClose
  BY <1>7 DEF FinishClose
<1> QED
  BY <1>2, <1>3, <1>4, <1>5, <1>6, <1>7 DEF Next

(* A turn begins only for the head of its line, alone on its route, not     *)
(* blocked by the deletion of a Binding, and for no request whose execution *)
(* is remembered (turns.py:_consume_inbound, _run_message), whatever was    *)
(* rolled back, discarded, promoted or evicted before.                      *)
THEOREM TurnsAlwaysInOrder == Spec => TurnsInOrder
<1>1. ASSUME IInv, Remembered, [Next]_vars, NEW r \in Req, phase[r] # "running", phase'[r] = "running"
      PROVE  /\ active[RouteOf[r]] = r
             /\ r \notin Served
             /\ ~Blocked(RouteOf[r])
             /\ \A q \in Req \ {r} : RouteOf[q] = RouteOf[r] => ~Live(q)
  <2>1. BeginTurn(r) /\ RouteOf[r] \in Route
    BY <1>1, OnlyBeginRuns, RouteAssumption DEF IInv
  <2>2. stage # "closed" /\ phase[r] = "spawned"
    BY <2>1 DEF BeginTurn
  <2>3. OpenInv /\ AccountInv /\ RanRecorded
    BY <1>1, <2>2 DEF IInv, Remembered
  <2>4. active[RouteOf[r]] = r /\ \A q \in Req : Live(q) => active[RouteOf[q]] = q
    BY <2>2, <2>3 DEF OpenInv, Owns, Live
  <2>5. r # NoReq
    BY RouteAssumption
  <2>6. ~Blocked(RouteOf[r])
    BY <2>1, <2>3, <2>4, <2>5 DEF OpenInv, BlockedEmpty
  <2>7. r \in inflight /\ r \notin Elems(terminal)
    BY <2>2, <2>3 DEF AccountInv, Working
  <2>8. r \notin Served
    BY <1>1, <2>3, <2>7 DEF RanRecorded, Served
  <2> QED
    BY <2>4, <2>6, <2>8
<1>2. IInv /\ Remembered /\ [Next]_vars =>
        [\A r \in Req : phase[r] # "running" /\ phase'[r] = "running" =>
           /\ active[RouteOf[r]] = r
           /\ r \notin Served
           /\ ~Blocked(RouteOf[r])
           /\ \A q \in Req \ {r} : RouteOf[q] = RouteOf[r] => ~Live(q)]_vars
  BY <1>1
<1> QED
  BY <1>2, InductiveInvariant, AlwaysRemembered, PTL DEF Spec, TurnsInOrder

LEMMA EachMovesUp ==
  ASSUME NEW s \in Seq(Req)
  PROVE  /\ MovedUp(s, s) /\ MovedUp(s, <<>>)
         /\ \A r \in Req : MovedUp(s, Append(s, r))
         /\ s # <<>> => MovedUp(s, Tail(s)) /\ MovedUp(s, <<Head(s)>>)
<1>0. Len(s) \in Nat /\ 0 \in 0..Len(s)
  BY LenProperties
<1>1. MovedUp(s, s)
  BY <1>0 DEF MovedUp
<1>2. MovedUp(s, <<>>)
  BY <1>0 DEF MovedUp
<1>3. ASSUME NEW r \in Req
      PROVE  MovedUp(s, Append(s, r))
  <2>1. Len(Append(s, r)) = Len(s) + 1 /\ \A i \in 1..Len(s) : Append(s, r)[i] = s[i]
    BY <1>0, AppendProperties
  <2> DEFINE t == Append(s, r)
  <2> HIDE DEF t
  <2>2. Len(t) = Len(s) + 1 /\ \A i \in 1..Len(s) : t[i] = s[i]
    BY <2>1 DEF t
  <2>3. MovedUp(s, t)
    BY <1>0, <2>2 DEF MovedUp
  <2> QED
    BY <2>3 DEF t
<1>4. ASSUME s # <<>>
      PROVE  MovedUp(s, Tail(s)) /\ MovedUp(s, <<Head(s)>>)
  <2>1. /\ Len(s) # 0 /\ Len(Tail(s)) = Len(s) - 1
        /\ \A i \in 1..Len(Tail(s)) : Tail(s)[i] = s[i + 1]
    BY <1>0, <1>4, EmptySeq, HeadTailProperties
  <2> DEFINE t == Tail(s)
  <2> HIDE DEF t
  <2>2. Len(t) = Len(s) - 1 /\ (\A i \in 1..Len(t) : t[i] = s[i + 1]) /\ 1 \in 0..Len(s)
    BY <1>0, <2>1 DEF t
  <2>3. MovedUp(s, t)
    BY <1>0, <2>2 DEF MovedUp
  <2>4. Len(<<Head(s)>>) = 1 /\ <<Head(s)>>[1] = s[1]
    BY <1>4
  <2> DEFINE h == <<Head(s)>>
  <2> HIDE DEF h
  <2>5. Len(h) = 1 /\ h[1] = s[1]
    BY <2>4 DEF h
  <2>6. MovedUp(s, h)
    BY <1>0, <2>1, <2>5 DEF MovedUp
  <2> QED
    BY <2>3, <2>6 DEF t, h
<1> QED
  BY <1>1, <1>2, <1>3, <1>4

LEMMA LineInSeq == TypeOK => Line \in [Route -> Seq(Req)]
<1> SUFFICES ASSUME TypeOK, NEW ro \in Route
             PROVE  (IF active[ro] = NoReq THEN <<>> ELSE <<active[ro]>> \o pending[ro]) \in Seq(Req)
  BY DEF Line
<1>1. active[ro] \in Req \union {NoReq} /\ pending[ro] \in Seq(Req)
  BY DEF TypeOK
<1>2. active[ro] # NoReq => <<active[ro]>> \o pending[ro] \in Seq(Req)
  BY <1>1, LineOf
<1> QED
  BY <1>2, EmptySeq

(* On a route nobody is overtaken: whatever a step does, those who stay in  *)
(* line keep their order and have as many or fewer in front of them, and a  *)
(* newcomer stands behind all of them (turns.py:submit, _rollback_dispatch, *)
(* complete_route_turn, discard_pending_route).                             *)
THEOREM NobodyEverOvertakes == Spec => NobodyOvertakes
<1>1. ASSUME IInv, IInv', Remembered, [Next]_vars, NEW ro \in Route
      PROVE  MovedUp(Line[ro], Line'[ro])
  <2>1. Line \in [Route -> Seq(Req)] /\ Line[ro] \in Seq(Req)
    BY <1>1, LineInSeq DEF IInv
  <2>2. MovedUp(Line[ro], Line[ro]) /\ MovedUp(Line[ro], <<>>)
        /\ (\A r \in Req : MovedUp(Line[ro], Append(Line[ro], r)))
        /\ (Line[ro] # <<>> => MovedUp(Line[ro], Tail(Line[ro])) /\ MovedUp(Line[ro], <<Head(Line[ro])>>))
    BY <2>1, EachMovesUp
  <2>3. CASE Line' = Line
    BY <2>2, <2>3
  <2>4. ASSUME NEW r \in Req, Fifo!Arrive(r)
        PROVE  MovedUp(Line[ro], Line'[ro])
    <3>1. Line' = [Line EXCEPT ![RouteOf[r]] = Append(Line[RouteOf[r]], r)]
      BY <2>4 DEF Fifo!Arrive, Line
    <3>2. Line'[ro] = Line[ro] \/ Line'[ro] = Append(Line[ro], r)
      BY <2>1, <3>1
    <3> QED
      BY <2>2, <3>2
  <2>5. ASSUME NEW q \in Route, Fifo!Leave(q) \/ Fifo!DropWaiting(q) \/ Fifo!DropLine(q)
        PROVE  MovedUp(Line[ro], Line'[ro])
    <3>1. \/ Line[q] # <<>> /\ Line' = [Line EXCEPT ![q] = Tail(Line[q])]
          \/ Line[q] # <<>> /\ Line' = [Line EXCEPT ![q] = <<Head(Line[q])>>]
          \/ Line' = [Line EXCEPT ![q] = <<>>]
      BY <2>5 DEF Fifo!Leave, Fifo!DropWaiting, Fifo!DropLine, Line
    <3>2. \/ Line'[ro] = Line[ro]
          \/ Line[ro] # <<>> /\ Line'[ro] = Tail(Line[ro])
          \/ Line[ro] # <<>> /\ Line'[ro] = <<Head(Line[ro])>>
          \/ Line'[ro] = <<>>
      BY <2>1, <3>1
    <3> QED
      BY <2>2, <3>2
  <2>6. CASE Fifo!Reset
    <3>1. Line' = [x \in Route |-> <<>>]
      BY <2>6 DEF Fifo!Reset, Line
    <3> QED
      BY <2>2, <3>1
  <2>7. CASE \/ \E r \in Req : Fifo!Begin(r)
             \/ \E S \in SUBSET Req : Fifo!Forget(S)
             \/ \E R \in SUBSET Route : Fifo!Hold(R) \/ Fifo!Unhold(R)
    <3>1. Line' = Line
      BY <2>7 DEF Fifo!Begin, Fifo!Forget, Fifo!Hold, Fifo!Unhold, Line
    <3> QED
      BY <2>3, <3>1
  <2>8. Fifo!Next \/ Line' = Line
    BY <1>1, FifoStep DEF Remembered
  <2> QED
    BY <2>3, <2>4, <2>5, <2>6, <2>7, <2>8 DEF Fifo!Next
<1>2. IInv /\ IInv' /\ Remembered /\ [Next]_vars => [\A ro \in Route : MovedUp(Line[ro], Line'[ro])]_vars
  BY <1>1
<1> QED
  BY <1>2, InductiveInvariant, AlwaysRemembered, PTL DEF Spec, NobodyOvertakes

-----------------------------------------------------------------------------
(* After the close.                                                        *)
NothingLeft ==
  stage = "closed" =>
    /\ inflight = {} /\ Running = {} /\ blocks = {} /\ consumer = NoReq
    /\ active = [ro \in Route |-> NoReq] /\ pending = [ro \in Route |-> <<>>]

StaysClosed ==
  [][stage = "closed" =>
       UNCHANGED <<stage, inflight, active, pending, blocks, consumer, terminal, ran>>]_vars

LEMMA NothingComesBack ==
  ASSUME IInv, stage = "closed", NothingLeft, [Next]_vars
  PROVE  /\ NothingLeft'
         /\ UNCHANGED <<stage, inflight, active, pending, blocks, consumer, terminal, ran>>
<1> USE RouteAssumption
<1>0. /\ inflight = {} /\ Running = {} /\ blocks = {} /\ consumer = NoReq
      /\ active = [ro \in Route |-> NoReq] /\ pending = [ro \in Route |-> <<>>]
      /\ phase \in [Req -> Phases]
  BY DEF NothingLeft, IInv, TypeOK
<1> DEFINE Same == UNCHANGED <<stage, inflight, active, pending, blocks, consumer, terminal, ran>>
<1>1. ASSUME NEW r \in Req, Submit(r) \/ Consume(r) \/ BeginTurn(r) \/ FinishTurn(r) \/ PublishTerminal(r)
      PROVE  FALSE
  BY <1>1 DEF Submit, Accepting, Consume, TurnsClosed, BeginTurn, FinishTurn, PublishTerminal
<1>2. ASSUME NEW r \in Req, Deliver(r) \/ WebSendTimesOut(r) \/ CompleteRoute(r)
      PROVE  FALSE
  BY <1>0, <1>2 DEF Deliver, WebSendTimesOut, CompleteRoute
<1>3. ASSUME NEW r \in Req, DispatchOk(r)
      PROVE  Same /\ phase' = [phase EXCEPT ![r] = "queued"]
  BY <1>0, <1>3 DEF DispatchOk, turnVars
<1>4. ASSUME NEW r \in Req, NEW advance \in BOOLEAN, Rollback(r, advance)
      PROVE  UNCHANGED <<inflight, active, pending, consumer>>
  <2>1. active[RouteOf[r]] # r /\ consumer # r
    BY <1>0
  <2> QED
    BY <1>0, <1>4, <2>1 DEF Rollback
<1>5. ASSUME NEW r \in Req, DispatchRaises(r) \/ DispatchCancelled(r)
      PROVE  Same /\ phase' = phase
  <2>1. UNCHANGED <<terminal, blocks, phase, ran>> /\ (Rollback(r, TRUE) \/ Rollback(r, FALSE)) /\ stage' = stage
    BY <1>0, <1>5 DEF DispatchRaises, DispatchCancelled
  <2> QED
    BY <1>4, <2>1
<1>6. ASSUME NEW ro \in Route, DiscardPending(ro)
      PROVE  FALSE
  BY <1>6 DEF DiscardPending
<1>7. ASSUME NEW a \in Account, Reserve(a) \/ ReleaseBlock(a)
      PROVE  FALSE
  BY <1>0, <1>7 DEF Reserve, TurnsClosed, ReleaseBlock
<1>8. ~StopDelivery /\ ~SealAdapters /\ ~BeginClose /\ ~FinishClose
  BY DEF StopDelivery, SealAdapters, BeginClose, FinishClose
<1>9. UNCHANGED vars => Same /\ phase' = phase
  BY DEF vars
<1>10. Same /\ (phase' = phase \/ \E r \in Req : phase' = [phase EXCEPT ![r] = "queued"])
  BY <1>1, <1>2, <1>3, <1>5, <1>6, <1>7, <1>8, <1>9 DEF Next
<1>11. Running' = {}
  BY <1>0, <1>10 DEF Running
<1> QED
  BY <1>0, <1>10, <1>11 DEF NothingLeft

(* GatewayTurnCoordinator.close leaves no request in flight, no turn, no    *)
(* line and no reservation behind, and whatever dispatches, deliveries and  *)
(* deletions are still under way, nothing of that comes back: no message is *)
(* accepted, begun or recorded any more.                                    *)
THEOREM ClosedForGood == Spec => []NothingLeft /\ StaysClosed
<1>1. Init => NothingLeft
  BY DEF Init, NothingLeft
<1>2. ASSUME IInv, NothingLeft, [Next]_vars
      PROVE  NothingLeft'
  <2>1. CASE stage = "closed"
    BY <1>2, <2>1, NothingComesBack
  <2>2. CASE stage # "closed" /\ ~FinishClose
    <3>1. stage' # "closed"
      BY <1>2, <2>2, OnlyFinishCloses
    <3> QED
      BY <3>1 DEF NothingLeft
  <2>3. CASE stage # "closed" /\ FinishClose
    <3>1. /\ inflight' = {} /\ blocks' = {}
          /\ active' = [ro \in Route |-> NoReq] /\ pending' = [ro \in Route |-> <<>>]
          /\ phase' = [r \in Req |-> IF r \in Running THEN "idle" ELSE phase[r]]
      BY <2>3 DEF FinishClose
    <3>2. consumer' = NoReq
      BY <1>2, <2>3 DEF FinishClose, IInv, OpenInv, ConsumerHolds
    <3>3. Running' = {}
      BY <3>1 DEF Running
    <3> QED
      BY <3>1, <3>2, <3>3 DEF NothingLeft
  <2> QED
    BY <2>1, <2>2, <2>3
<1>3. IInv /\ NothingLeft /\ [Next]_vars => NothingLeft'
  BY <1>2
<1>4. IInv /\ NothingLeft /\ [Next]_vars =>
        [stage = "closed" =>
           UNCHANGED <<stage, inflight, active, pending, blocks, consumer, terminal, ran>>]_vars
  BY NothingComesBack
<1> QED
  BY <1>1, <1>3, <1>4, InductiveInvariant, PTL DEF Spec, StaysClosed
=============================================================================
