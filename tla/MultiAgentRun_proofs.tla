------------------------ MODULE MultiAgentRun_proofs ------------------------
(***************************************************************************)
(* The permits and the rows of Multi-Agent Runs, for any number of Runs,   *)
(* of tasks and of permits, any failures of the disk and ends of the       *)
(* process.                                                                *)
(***************************************************************************)
EXTENDS MultiAgentRun, FiniteSetTheorems, SequenceTheorems, TLAPS

Statuses == Active \union Ended
Row == [of : Nat, status : Statuses]
Places == {"idle", "ready", "perRun", "global", "exec", "report", "over"}
Phases == {"idle", "opening", "queueing", "starting", "collecting", "ending", "failing",
           "synthesis", "approval", "cancelling", "unsaved", "done", "aborted", "lost"}
Results == {"completed", "failed", "timed_out", "cancelled"}

(* A value for each worker. *)
IsMap(f, V) ==
  /\ f = [r \in Run |-> [n \in Nodes(r) |-> f[r][n]]]
  /\ \A r \in Run : \A n \in Nodes(r) : f[r][n] \in V

-----------------------------------------------------------------------------
(* The permits: how many a worker holds follows from where it is. *)
HeldAt(w) ==
  CASE w = "global" -> {1}
    [] w = "exec" -> {2}
    [] w = "report" -> {0, 1, 2}
    [] OTHER -> {0}

GlobalHolders == {w \in Workers : held[w[1]][w[2]] = 2}
RunHolders(r) == {n \in Nodes(r) : held[r][n] > 0}

SlotInv ==
  /\ IsMap(at, Places) /\ IsMap(held, 0..2)
  /\ \A r \in Run : \A n \in Nodes(r) : held[r][n] \in HeldAt(at[r][n])
  /\ slots \in Nat /\ runSlots \in [Run -> Nat]
  /\ IsFiniteSet(GlobalHolders)
  /\ SlotsExact

-----------------------------------------------------------------------------
(* The rows.  What a reader makes of those about a node, or about the Run.  *)
Shown(r, n) == SeenStatus(trace[r], n)

(* There is a last row about n, and if any row about n is terminal, it is  *)
(* the last one.                                                           *)
EndsOnce(t, n) ==
  /\ RowsOf(t, n) # {} => \E i \in RowsOf(t, n) : \A j \in RowsOf(t, n) : j <= i
  /\ \A i \in EndsOf(t, n) : \A j \in RowsOf(t, n) : j <= i

TraceOK(t) ==
  /\ t \in Seq(Row)
  /\ \A n \in Nat : EndsOnce(t, n)
  /\ \A i \in EndsOf(t, Itself) : i = Len(t)

Finished(r) ==
  /\ \A n \in Nodes(r) : Shown(r, n) \in Results
  /\ IF r \in FanOut THEN \E n \in Nodes(r) : Shown(r, n) = "completed"
                     ELSE \A n \in Nodes(r) : Shown(r, n) = "completed"

(* The rows of a Run whose worker n is at w. *)
WorkerShows(r, n) ==
  /\ at[r][n] \in {"idle", "ready", "perRun", "global"} => Shown(r, n) = "queued"
  /\ at[r][n] = "exec" => Shown(r, n) = "running"
  /\ at[r][n] = "report" => Shown(r, n) \in {"queued", "running"} /\ res[r][n] \in Results
  /\ at[r][n] = "over" /\ ~broken[r] /\ pc[r] = "collecting" =>
       Shown(r, n) = res[r][n] /\ res[r][n] \in Results

(* The rows of a Run, by what its parent's turn is at. *)
PhaseShows(r) ==
  /\ pc[r] \in {"idle", "opening"} => trace[r] = <<>> /\ next[r] = 1
  /\ pc[r] = "queueing" =>
       /\ Shown(r, Itself) = "queued" /\ next[r] \in Nodes(r)
       /\ \A n \in Nodes(r) :
            /\ n >= next[r] => Shown(r, n) = "none"
            /\ n < next[r] /\ ~broken[r] => Shown(r, n) = "queued"
  /\ pc[r] = "starting" =>
       Shown(r, Itself) = "queued" /\ next[r] = 1 /\ \A n \in Nodes(r) : Shown(r, n) = "queued"
  /\ pc[r] \in {"collecting", "aborted", "ending"} => Shown(r, Itself) = "running"
  /\ pc[r] \in {"collecting", "aborted"} => \A n \in Nodes(r) : WorkerShows(r, n)
  /\ pc[r] = "collecting" =>
       next[r] \in Nodes(r) /\ (r \notin FanOut => \A n \in Nodes(r) : n > next[r] => at[r][n] = "idle")
  /\ pc[r] \notin {"collecting", "aborted"} => \A n \in Nodes(r) : at[r][n] \in {"idle", "over"}
  /\ pc[r] = "ending" => mem[r] \in Results \ {"completed"}
  /\ pc[r] = "failing" => mem[r] = "failed" /\ Shown(r, Itself) \in {"none", "queued", "running"}
  /\ pc[r] = "synthesis" => mem[r] \in {"running"} \union Results
  /\ pc[r] = "approval" => mem[r] = "waiting"
  /\ pc[r] = "cancelling" => mem[r] = "running"
  /\ pc[r] \in {"approval", "cancelling"} \/ (pc[r] = "synthesis" /\ mem[r] = "running") =>
       Shown(r, Itself) \in {"running", "waiting"} /\ Finished(r)
  /\ pc[r] = "unsaved" => Shown(r, Itself) \in {"running", "waiting"}
  /\ pc[r] # "lost" => Shown(r, Itself) # "interrupted"

(* The rows of a node, and those of a Run of an earlier process. *)
RowsShow(r) ==
  /\ \A n \in Nodes(r) : Shown(r, n) # "waiting"
  /\ Shown(r, Itself) = "interrupted" => \A n \in Nodes(r) : Shown(r, n) \notin Active
  /\ pc[r] = "lost" /\ gateway \in {"up", "closing"} => trace[r] = <<>> \/ Shown(r, Itself) \in Ended
  /\ gateway \in {"down", "recovering"} => pc[r] \in {"idle", "lost"}

RunTypes ==
  /\ pc \in [Run -> Phases] /\ broken \in [Run -> BOOLEAN]
  /\ mem \in [Run -> Statuses \union {"none"}] /\ next \in [Run -> Nat]
  /\ trace \in [Run -> Seq(Row)] /\ IsMap(at, Places) /\ IsMap(res, Results \union {"none"})
  /\ gateway \in {"up", "closing", "down", "recovering"}

RunInv == RunTypes /\ \A r \in Run : TraceOK(trace[r]) /\ PhaseShows(r) /\ RowsShow(r)
-----------------------------------------------------------------------------
(* Lemmas about maps of workers and their permits. *)
LEMMA MoveMaps ==
  ASSUME IsMap(at, Places), NEW r \in Run, NEW n \in Nodes(r), NEW v \in Places, Move(r, n, v)
  PROVE  /\ IsMap(at', Places) /\ at'[r][n] = v
         /\ \A q \in Run : \A m \in Nodes(q) : q # r \/ m # n => at'[q][m] = at[q][m]
<1>1. at = [q \in Run |-> [m \in Nodes(q) |-> at[q][m]]] /\ \A q \in Run : \A m \in Nodes(q) : at[q][m] \in Places
  BY DEF IsMap
<1>2. at' = [q \in Run |-> [m \in Nodes(q) |-> IF q = r /\ m = n THEN v ELSE at[q][m]]]
  BY <1>1 DEF Move
<1>3. \A q \in Run : \A m \in Nodes(q) : at'[q][m] = IF q = r /\ m = n THEN v ELSE at[q][m]
  BY <1>2
<1>4. at' = [q \in Run |-> [m \in Nodes(q) |-> at'[q][m]]]
  BY <1>2
<1>5. \A q \in Run : \A m \in Nodes(q) : at'[q][m] \in Places
  BY <1>1, <1>3
<1> QED
  BY <1>3, <1>4, <1>5 DEF IsMap

LEMMA HoldMaps ==
  ASSUME IsMap(held, 0..2), NEW r \in Run, NEW n \in Nodes(r), NEW v \in 0..2, Hold(r, n, v)
  PROVE  /\ IsMap(held', 0..2) /\ held'[r][n] = v
         /\ \A q \in Run : \A m \in Nodes(q) : q # r \/ m # n => held'[q][m] = held[q][m]
<1>1. held = [q \in Run |-> [m \in Nodes(q) |-> held[q][m]]] /\ \A q \in Run : \A m \in Nodes(q) : held[q][m] \in 0..2
  BY DEF IsMap
<1>2. held' = [q \in Run |-> [m \in Nodes(q) |-> IF q = r /\ m = n THEN v ELSE held[q][m]]]
  BY <1>1 DEF Hold
<1>3. \A q \in Run : \A m \in Nodes(q) : held'[q][m] = IF q = r /\ m = n THEN v ELSE held[q][m]
  BY <1>2
<1>4. held' = [q \in Run |-> [m \in Nodes(q) |-> held'[q][m]]]
  BY <1>2
<1>5. \A q \in Run : \A m \in Nodes(q) : held'[q][m] \in 0..2
  BY <1>1, <1>3
<1> QED
  BY <1>3, <1>4, <1>5 DEF IsMap

LEMMA ResultMaps ==
  ASSUME IsMap(res, (Results \union {"none"})), NEW r \in Run, NEW n \in Nodes(r), NEW v \in (Results \union {"none"}), Result(r, n, v)
  PROVE  /\ IsMap(res', (Results \union {"none"})) /\ res'[r][n] = v
         /\ \A q \in Run : \A m \in Nodes(q) : q # r \/ m # n => res'[q][m] = res[q][m]
<1>1. res = [q \in Run |-> [m \in Nodes(q) |-> res[q][m]]] /\ \A q \in Run : \A m \in Nodes(q) : res[q][m] \in (Results \union {"none"})
  BY DEF IsMap
<1>2. res' = [q \in Run |-> [m \in Nodes(q) |-> IF q = r /\ m = n THEN v ELSE res[q][m]]]
  BY <1>1 DEF Result
<1>3. \A q \in Run : \A m \in Nodes(q) : res'[q][m] = IF q = r /\ m = n THEN v ELSE res[q][m]
  BY <1>2
<1>4. res' = [q \in Run |-> [m \in Nodes(q) |-> res'[q][m]]]
  BY <1>2
<1>5. \A q \in Run : \A m \in Nodes(q) : res'[q][m] \in (Results \union {"none"})
  BY <1>1, <1>3
<1> QED
  BY <1>3, <1>4, <1>5 DEF IsMap

LEMMA NodesFinite ==
  \A r \in Run : /\ IsFiniteSet(Nodes(r)) /\ Nodes(r) \subseteq Nat \ {0} /\ 1 \in Nodes(r)
                 /\ Tasks[r] \in Nat \ {0}
                 /\ \A n \in Nodes(r) : n <= Tasks[r] /\ (n < Tasks[r] => n + 1 \in Nodes(r))
<1> SUFFICES ASSUME NEW r \in Run
             PROVE  /\ IsFiniteSet(Nodes(r)) /\ Nodes(r) \subseteq Nat \ {0} /\ 1 \in Nodes(r)
                    /\ Tasks[r] \in Nat \ {0}
                    /\ \A n \in Nodes(r) : n <= Tasks[r] /\ (n < Tasks[r] => n + 1 \in Nodes(r))
  OBVIOUS
<1>1. Tasks[r] \in Nat \ {0} /\ Nodes(r) = 1..Tasks[r]
  BY RunAssumption DEF Nodes
<1>2. IsFiniteSet(1..Tasks[r])
  BY <1>1, FS_Interval
<1>3. /\ 1..Tasks[r] \subseteq Nat \ {0} /\ 1 \in 1..Tasks[r]
      /\ \A n \in 1..Tasks[r] : n <= Tasks[r] /\ (n < Tasks[r] => n + 1 \in 1..Tasks[r])
  BY <1>1
<1> QED
  BY <1>1, <1>2, <1>3

LEMMA Names == Itself \in Nat /\ \A r \in Run : \A n \in Nodes(r) : n \in Nat /\ n # Itself
BY NodesFinite DEF Itself

(* What a change of the permits of one worker does to both counts. *)
LEMMA HoldCounts ==
  ASSUME SlotInv, NEW r \in Run, NEW n \in Nodes(r), NEW k \in 0..2, Hold(r, n, k)
  PROVE  /\ IsMap(held, 0..2)' /\ held'[r][n] = k
         /\ \A q \in Run : \A m \in Nodes(q) : q # r \/ m # n => held'[q][m] = held[q][m]
         /\ IsFiniteSet(GlobalHolders') /\ Cardinality(GlobalHolders) \in Nat
         /\ Cardinality(GlobalHolders') = Cardinality(GlobalHolders)
              + (IF k = 2 THEN 1 ELSE 0) - (IF held[r][n] = 2 THEN 1 ELSE 0)
         /\ \A q \in Run : Cardinality(RunHolders(q)) \in Nat
         /\ \A q \in Run \ {r} : RunHolders(q)' = RunHolders(q)
         /\ Cardinality(RunHolders(r)') = Cardinality(RunHolders(r))
              + (IF k > 0 THEN 1 ELSE 0) - (IF held[r][n] > 0 THEN 1 ELSE 0)
<1> DEFINE h == held[r][n]
<1>0. IsMap(held, 0..2) /\ IsFiniteSet(GlobalHolders)
  BY DEF SlotInv
<1>1. /\ IsMap(held, 0..2) /\ h \in 0..2 /\ IsFiniteSet(GlobalHolders)
      /\ \A q \in Run : \A m \in Nodes(q) : held[q][m] \in 0..2
  BY <1>0 DEF IsMap
<1>2. /\ IsMap(held', 0..2) /\ held'[r][n] = k
      /\ \A q \in Run : \A m \in Nodes(q) : q # r \/ m # n => held'[q][m] = held[q][m]
  BY <1>1, HoldMaps
<1>3. Workers = {w \in Workers : TRUE} /\ <<r, n>> \in Workers /\
      \A w \in Workers : \E q \in Run : \E m \in Nodes(q) : w = <<q, m>>
  BY DEF Workers
<1>4. \A w \in Workers : w # <<r, n>> => held'[w[1]][w[2]] = held[w[1]][w[2]]
  BY <1>2, <1>3
<1>5. GlobalHolders' = IF k = 2 THEN GlobalHolders \union {<<r, n>>} ELSE GlobalHolders \ {<<r, n>>}
  BY <1>2, <1>3, <1>4 DEF GlobalHolders
<1>6. (<<r, n>> \in GlobalHolders) <=> h = 2
  BY <1>3 DEF GlobalHolders
<1>7. /\ IsFiniteSet(GlobalHolders') /\ Cardinality(GlobalHolders) \in Nat
      /\ Cardinality(GlobalHolders') = Cardinality(GlobalHolders)
              + (IF k = 2 THEN 1 ELSE 0) - (IF h = 2 THEN 1 ELSE 0)
  <2>1. Cardinality(GlobalHolders) \in Nat
    BY <1>1, FS_CardinalityType
  <2>4. /\ IsFiniteSet(GlobalHolders \union {<<r, n>>})
        /\ Cardinality(GlobalHolders \union {<<r, n>>})
             = IF <<r, n>> \in GlobalHolders THEN Cardinality(GlobalHolders) ELSE Cardinality(GlobalHolders) + 1
    BY <1>1, FS_AddElement
  <2>5. /\ IsFiniteSet(GlobalHolders \ {<<r, n>>})
        /\ Cardinality(GlobalHolders \ {<<r, n>>})
             = IF <<r, n>> \in GlobalHolders THEN Cardinality(GlobalHolders) - 1 ELSE Cardinality(GlobalHolders)
    BY <1>1, FS_RemoveElement
  <2>2. CASE k = 2
    BY <1>5, <1>6, <2>1, <2>2, <2>4
  <2>3. CASE k # 2
    BY <1>5, <1>6, <2>1, <2>3, <2>5
  <2> QED
    BY <2>1, <2>2, <2>3
<1>8. \A q \in Run : IsFiniteSet(RunHolders(q)) /\ Cardinality(RunHolders(q)) \in Nat
  BY NodesFinite, FS_Subset, FS_CardinalityType DEF RunHolders
<1>9. \A q \in Run \ {r} : RunHolders(q)' = RunHolders(q)
  BY <1>2 DEF RunHolders
<1>10. RunHolders(r)' = IF k > 0 THEN RunHolders(r) \union {n} ELSE RunHolders(r) \ {n}
  BY <1>2 DEF RunHolders
<1>11. (n \in RunHolders(r)) <=> h > 0
  BY DEF RunHolders
<1>12. Cardinality(RunHolders(r)') = Cardinality(RunHolders(r))
              + (IF k > 0 THEN 1 ELSE 0) - (IF h > 0 THEN 1 ELSE 0)
  <2>4. Cardinality(RunHolders(r) \union {n})
          = IF n \in RunHolders(r) THEN Cardinality(RunHolders(r)) ELSE Cardinality(RunHolders(r)) + 1
    BY <1>8, FS_AddElement
  <2>5. Cardinality(RunHolders(r) \ {n})
          = IF n \in RunHolders(r) THEN Cardinality(RunHolders(r)) - 1 ELSE Cardinality(RunHolders(r))
    BY <1>8, FS_RemoveElement
  <2>2. CASE k > 0
    BY <1>8, <1>10, <1>11, <2>2, <2>4
  <2>3. CASE ~(k > 0)
    BY <1>8, <1>10, <1>11, <2>3, <2>5
  <2> QED
    BY <2>2, <2>3
<1> QED
  BY <1>2, <1>7, <1>8, <1>9, <1>12

(* A step of one worker keeps the accounts, if the semaphores follow what  *)
(* it holds and what it holds fits where it is.                            *)
LEMMA SlotsFollow ==
  ASSUME SlotInv, NEW r \in Run, NEW n \in Nodes(r), NEW w \in Places, Move(r, n, w),
         NEW k \in {0, 1, 2}, Hold(r, n, k), k \in HeldAt(w),
         slots' \in Nat,
         slots' = slots + (IF held[r][n] = 2 THEN 1 ELSE 0) - (IF k = 2 THEN 1 ELSE 0),
         runSlots' \in [Run -> Nat], \A q \in Run \ {r} : runSlots'[q] = runSlots[q],
         runSlots'[r] = runSlots[r] + (IF held[r][n] > 0 THEN 1 ELSE 0) - (IF k > 0 THEN 1 ELSE 0)
  PROVE  SlotInv'
<1>1. /\ IsMap(at, Places) /\ slots \in Nat /\ runSlots \in [Run -> Nat]
      /\ \A q \in Run : \A m \in Nodes(q) : held[q][m] \in HeldAt(at[q][m])
      /\ slots + Cardinality(GlobalHolders) = Global
      /\ \A q \in Run : runSlots[q] + Cardinality(RunHolders(q)) = PerRun
  BY DEF SlotInv, SlotsExact, GlobalHolders, RunHolders
<1>2. /\ IsMap(at, Places)' /\ at'[r][n] = w
      /\ \A q \in Run : \A m \in Nodes(q) : q # r \/ m # n => at'[q][m] = at[q][m]
  BY <1>1, MoveMaps
<1>3. /\ IsMap(held, 0..2)' /\ held'[r][n] = k
      /\ \A q \in Run : \A m \in Nodes(q) : q # r \/ m # n => held'[q][m] = held[q][m]
      /\ IsFiniteSet(GlobalHolders') /\ Cardinality(GlobalHolders) \in Nat
      /\ Cardinality(GlobalHolders') = Cardinality(GlobalHolders)
           + (IF k = 2 THEN 1 ELSE 0) - (IF held[r][n] = 2 THEN 1 ELSE 0)
      /\ \A q \in Run : Cardinality(RunHolders(q)) \in Nat
      /\ \A q \in Run \ {r} : RunHolders(q)' = RunHolders(q)
      /\ Cardinality(RunHolders(r)') = Cardinality(RunHolders(r))
           + (IF k > 0 THEN 1 ELSE 0) - (IF held[r][n] > 0 THEN 1 ELSE 0)
  BY HoldCounts, k \in 0..2
<1>4. \A q \in Run : \A m \in Nodes(q) : held'[q][m] \in HeldAt(at'[q][m])
  BY <1>1, <1>2, <1>3
<1>6. slots' + Cardinality(GlobalHolders') = Global
  <2>1. Global \in Nat /\ slots \in Nat /\ Cardinality(GlobalHolders) \in Nat
    BY <1>1, <1>3, RunAssumption
  <2>2. /\ slots + Cardinality(GlobalHolders) = Global
        /\ Cardinality(GlobalHolders') = Cardinality(GlobalHolders)
             + (IF k = 2 THEN 1 ELSE 0) - (IF held[r][n] = 2 THEN 1 ELSE 0)
    BY <1>1, <1>3
  <2> QED
    BY <2>1, <2>2
<1>7. \A q \in Run : runSlots'[q] + Cardinality(RunHolders(q)') = PerRun
  <2>1. runSlots[r] \in Nat /\ PerRun \in Nat /\ Cardinality(RunHolders(r)) \in Nat
    BY <1>1, <1>3, RunAssumption
  <2>2. runSlots'[r] + Cardinality(RunHolders(r)') = PerRun
    BY <1>1, <1>3, <2>1
  <2>3. \A q \in Run \ {r} : runSlots'[q] + Cardinality(RunHolders(q)') = PerRun
    BY <1>1, <1>3
  <2> QED
    BY <2>2, <2>3
<1>8. SlotsExact'
  BY <1>6, <1>7 DEF SlotsExact, GlobalHolders, RunHolders
<1> QED
  BY <1>2, <1>3, <1>4, <1>8 DEF SlotInv

LEMMA SlotsMove ==
  ASSUME SlotInv, NEW r \in Run, NEW n \in Nodes(r), NEW w \in Places, Move(r, n, w),
         held[r][n] \in HeldAt(w), UNCHANGED <<held, runSlots, slots>>
  PROVE  SlotInv'
<1>1. IsMap(at, Places) /\ \A q \in Run : \A m \in Nodes(q) : held[q][m] \in HeldAt(at[q][m])
  BY DEF SlotInv
<1>2. /\ IsMap(at, Places)' /\ at'[r][n] = w
      /\ \A q \in Run : \A m \in Nodes(q) : q # r \/ m # n => at'[q][m] = at[q][m]
  BY <1>1, MoveMaps
<1>3. \A q \in Run : \A m \in Nodes(q) : held'[q][m] \in HeldAt(at'[q][m])
  BY <1>1, <1>2
<1>4. /\ IsMap(held, 0..2)' /\ (slots \in Nat /\ runSlots \in [Run -> Nat])'
      /\ IsFiniteSet(GlobalHolders)' /\ SlotsExact'
  BY DEF SlotInv, GlobalHolders, SlotsExact
<1> QED
  BY <1>2, <1>3, <1>4 DEF SlotInv

LEMMA SlotsStutter ==
  ASSUME SlotInv, UNCHANGED workers
  PROVE  SlotInv'
BY DEF SlotInv, workers, GlobalHolders, SlotsExact, IsMap

LEMMA SlotsCancelled ==
  ASSUME SlotInv, NEW r \in Run, CancelWorkers(r)
  PROVE  SlotInv'
<1> DEFINE atGlobal == {n \in Nodes(r) : at[r][n] = "global"}
<1>1. /\ IsMap(at, Places) /\ IsMap(held, 0..2) /\ slots \in Nat /\ runSlots \in [Run -> Nat]
      /\ \A q \in Run : \A m \in Nodes(q) : held[q][m] \in HeldAt(at[q][m])
      /\ IsFiniteSet(GlobalHolders) /\ slots + Cardinality(GlobalHolders) = Global
      /\ \A q \in Run : runSlots[q] + Cardinality(RunHolders(q)) = PerRun
  BY DEF SlotInv, SlotsExact, GlobalHolders, RunHolders
<1>2. /\ at = [q \in Run |-> [m \in Nodes(q) |-> at[q][m]]]
      /\ held = [q \in Run |-> [m \in Nodes(q) |-> held[q][m]]]
      /\ \A q \in Run : \A m \in Nodes(q) : at[q][m] \in Places /\ held[q][m] \in 0..2
  BY <1>1 DEF IsMap
<1>20. \A q \in Run : \A m \in Nodes(q) :
         at[q][m] \in Places /\ held[q][m] \in 0..2 /\ held[q][m] \in HeldAt(at[q][m])
  BY <1>1, <1>2
<1>3. /\ at' = [q \in Run |-> [m \in Nodes(q) |->
                 IF q # r THEN at[q][m]
                 ELSE IF Dies(r, m) THEN "over" ELSE IF at[r][m] = "exec" THEN "report" ELSE at[r][m]]]
      /\ held' = [q \in Run |-> [m \in Nodes(q) |-> IF q = r /\ Dies(r, m) THEN 0 ELSE held[q][m]]]
  BY <1>2 DEF CancelWorkers
<1>4. \A q \in Run : \A m \in Nodes(q) :
        /\ at'[q][m] = IF q # r THEN at[q][m]
                       ELSE IF Dies(r, m) THEN "over" ELSE IF at[r][m] = "exec" THEN "report" ELSE at[r][m]
        /\ held'[q][m] = IF q = r /\ Dies(r, m) THEN 0 ELSE held[q][m]
  BY <1>3
<1>5. IsMap(at', Places) /\ IsMap(held', 0..2)
  <2>1. /\ at' = [q \in Run |-> [m \in Nodes(q) |-> at'[q][m]]]
        /\ held' = [q \in Run |-> [m \in Nodes(q) |-> held'[q][m]]]
    BY <1>3
  <2>2. \A q \in Run : \A m \in Nodes(q) : at'[q][m] \in Places
    BY <1>20, <1>4 DEF Places
  <2>3. \A q \in Run : \A m \in Nodes(q) : held'[q][m] \in 0..2
    BY <1>20, <1>4
  <2> QED
    BY <2>1, <2>2, <2>3 DEF IsMap
<1>6. \A q \in Run : \A m \in Nodes(q) : held'[q][m] \in HeldAt(at'[q][m])
  BY <1>20, <1>4 DEF HeldAt, Dies, Places
<1>7. GlobalHolders' = GlobalHolders
  <2>1. \A q \in Run : \A m \in Nodes(q) : held'[q][m] = 2 <=> held[q][m] = 2
    BY <1>20, <1>4 DEF HeldAt, Dies, Places
  <2>2. \A w \in Workers : \E q \in Run : \E m \in Nodes(q) : w = <<q, m>>
    BY DEF Workers
  <2> QED
    BY <2>1, <2>2 DEF GlobalHolders
<1>8. \A q \in Run \ {r} : RunHolders(q)' = RunHolders(q)
  BY <1>4 DEF RunHolders
<1>9. RunHolders(r)' = RunHolders(r) \ atGlobal /\ atGlobal \subseteq RunHolders(r)
  BY <1>20, <1>4 DEF RunHolders, HeldAt, Dies, Places
<1>10. /\ IsFiniteSet(RunHolders(r)) /\ IsFiniteSet(atGlobal)
       /\ Cardinality(RunHolders(r)) \in Nat /\ Cardinality(atGlobal) \in Nat
       /\ Cardinality(RunHolders(r) \ atGlobal) = Cardinality(RunHolders(r)) - Cardinality(atGlobal)
  <2>1. IsFiniteSet(RunHolders(r)) /\ IsFiniteSet(atGlobal)
    BY NodesFinite, FS_Subset DEF RunHolders
  <2>2. RunHolders(r) \intersect atGlobal = atGlobal
    BY <1>9
  <2>3. Cardinality(RunHolders(r) \ atGlobal)
          = Cardinality(RunHolders(r)) - Cardinality(RunHolders(r) \intersect atGlobal)
    BY <2>1, FS_Difference
  <2> QED
    BY <2>1, <2>2, <2>3, FS_CardinalityType
<1>11. slots' = slots /\ runSlots' = [runSlots EXCEPT ![r] = @ + Cardinality(atGlobal)]
  BY DEF CancelWorkers
<1>12. runSlots' \in [Run -> Nat] /\ \A q \in Run :
         runSlots'[q] = IF q = r THEN runSlots[q] + Cardinality(atGlobal) ELSE runSlots[q]
  BY <1>1, <1>10, <1>11
<1>13. \A q \in Run : runSlots'[q] + Cardinality(RunHolders(q)') = PerRun
  <2>1. runSlots[r] \in Nat /\ runSlots[r] + Cardinality(RunHolders(r)) = PerRun
    BY <1>1
  <2>2. runSlots'[r] + Cardinality(RunHolders(r)') = PerRun
    BY <1>9, <1>10, <1>12, <2>1
  <2>3. \A q \in Run \ {r} : runSlots'[q] + Cardinality(RunHolders(q)') = PerRun
    BY <1>1, <1>8, <1>12
  <2> QED
    BY <2>2, <2>3
<1>14. SlotsExact'
  BY <1>1, <1>7, <1>11, <1>13 DEF SlotsExact, GlobalHolders, RunHolders
<1> QED
  BY <1>1, <1>5, <1>6, <1>7, <1>11, <1>12, <1>14 DEF SlotInv

Fresh ==
  /\ at = [r \in Run |-> [n \in Nodes(r) |-> "idle"]]
  /\ held = [r \in Run |-> [n \in Nodes(r) |-> 0]]
  /\ runSlots = [r \in Run |-> PerRun] /\ slots = Global

LEMMA SlotsFresh == Fresh => SlotInv
<1> SUFFICES ASSUME Fresh
             PROVE  SlotInv
  OBVIOUS
<1> USE DEF Fresh
<1>1. \A r \in Run : \A n \in Nodes(r) : at[r][n] = "idle" /\ held[r][n] = 0
  OBVIOUS
<1>2. IsMap(at, Places) /\ IsMap(held, 0..2)
  BY <1>1 DEF IsMap, Places
<1>3. GlobalHolders = {} /\ \A r \in Run : RunHolders(r) = {}
  BY <1>1 DEF GlobalHolders, RunHolders, Workers
<1>4. IsFiniteSet({}) /\ Cardinality({}) = 0
  BY FS_EmptySet
<1>5. PerRun \in Nat /\ Global \in Nat
  BY RunAssumption
<1>6. slots + Cardinality(GlobalHolders) = Global
  BY <1>3, <1>4, <1>5
<1>7. \A r \in Run : runSlots[r] + Cardinality(RunHolders(r)) = PerRun
  <2>1. \A r \in Run : runSlots[r] = PerRun /\ Cardinality(RunHolders(r)) = 0
    BY <1>3, <1>4
  <2> QED
    BY <1>5, <2>1
<1>8. SlotsExact
  BY <1>6, <1>7 DEF SlotsExact, GlobalHolders, RunHolders
<1> QED
  BY <1>1, <1>2, <1>3, <1>4, <1>5, <1>8 DEF SlotInv, HeldAt

-----------------------------------------------------------------------------
(* Lemmas about rows: a reader sees the last row, and what one more does.  *)
LEMMA SeenIsLast ==
  ASSUME NEW t, TraceOK(t), NEW n \in Nat
  PROVE  /\ RowsOf(t, n) = {} <=> SeenStatus(t, n) = "none"
         /\ EndsOf(t, n) # {} <=> SeenStatus(t, n) \in Ended
         /\ SeenStatus(t, n) \in Statuses \union {"none"}
         /\ RowsOf(t, n) # {} => LastOf(t, n) = SeenStatus(t, n)
         /\ EndsOf(t, n) # {} => FirstEnd(t, n) = SeenStatus(t, n)
         /\ \A i \in RowsOf(t, n) : (\A j \in RowsOf(t, n) : j <= i) => SeenStatus(t, n) = t[i].status
<1>1. /\ t \in Seq(Row) /\ Len(t) \in Nat
      /\ RowsOf(t, n) # {} => \E i \in RowsOf(t, n) : \A j \in RowsOf(t, n) : j <= i
      /\ \A i \in EndsOf(t, n) : \A j \in RowsOf(t, n) : j <= i
  BY DEF TraceOK, EndsOnce
<1>2. /\ RowsOf(t, n) \subseteq 1..Len(t) /\ EndsOf(t, n) \subseteq RowsOf(t, n)
      /\ \A i \in RowsOf(t, n) : t[i].status \in Statuses /\ t[i].of = n
      /\ \A i \in RowsOf(t, n) : i \in EndsOf(t, n) <=> t[i].status \in Ended
  <2>1. \A i \in 1..Len(t) : t[i] \in Row
    BY <1>1, ElementOfSeq
  <2> QED
    BY <2>1 DEF RowsOf, EndsOf, Row
<1>3. CASE RowsOf(t, n) = {}
  BY <1>2, <1>3 DEF SeenStatus, Statuses, Active, Ended
<1>4. CASE RowsOf(t, n) # {}
  <2>1. PICK k \in RowsOf(t, n) : \A j \in RowsOf(t, n) : j <= k
    BY <1>1, <1>4
  <2>2. \A i \in RowsOf(t, n) : (\A j \in RowsOf(t, n) : j <= i) => i = k
    BY <1>1, <1>2, <2>1
  <2>3. LastOf(t, n) = t[k].status
    <3>1. (CHOOSE i \in RowsOf(t, n) : \A j \in RowsOf(t, n) : j <= i) = k
      BY <2>1, <2>2
    <3> QED
      BY <3>1 DEF LastOf
  <2>4. \A i \in EndsOf(t, n) : i = k
    BY <1>1, <1>2, <2>2
  <2>5. ASSUME EndsOf(t, n) # {}
        PROVE  FirstEnd(t, n) = t[k].status /\ k \in EndsOf(t, n)
    <3>1. k \in EndsOf(t, n)
      BY <2>4, <2>5
    <3>2. (CHOOSE i \in EndsOf(t, n) : \A j \in EndsOf(t, n) : i <= j) = k
      BY <1>1, <1>2, <2>4, <3>1
    <3> QED
      BY <3>1, <3>2 DEF FirstEnd
  <2>6. SeenStatus(t, n) = t[k].status
    BY <1>4, <2>3, <2>5 DEF SeenStatus
  <2>7. t[k].status \in Statuses /\ (k \in EndsOf(t, n) <=> t[k].status \in Ended) /\ "none" \notin Statuses
    BY <1>2 DEF Statuses, Active, Ended
  <2> QED
    BY <1>4, <2>2, <2>3, <2>4, <2>5, <2>6, <2>7
<1> QED
  BY <1>3, <1>4

LEMMA RowAppended ==
  ASSUME NEW t, TraceOK(t), NEW row \in Row,
         SeenStatus(t, row.of) \notin Ended, SeenStatus(t, Itself) \notin Ended
  PROVE  /\ TraceOK(Append(t, row)) /\ Append(t, row) # <<>>
         /\ SeenStatus(Append(t, row), row.of) = row.status
         /\ \A x \in Nat \ {row.of} : SeenStatus(Append(t, row), x) = SeenStatus(t, x)
<1> DEFINE u == Append(t, row)
           n == row.of
           s == row.status
<1>1. /\ t \in Seq(Row) /\ row \in Row /\ Len(t) \in Nat /\ row.of = n /\ row.status = s
      /\ n \in Nat /\ s \in Statuses
      /\ SeenStatus(t, n) \notin Ended /\ SeenStatus(t, Itself) \notin Ended
  BY DEF TraceOK, Row
<1>2. /\ u \in Seq(Row) /\ Len(u) = Len(t) + 1 /\ u[Len(u)] = row /\ u # <<>>
      /\ \A i \in 1..Len(t) : u[i] = t[i]
  BY <1>1, AppendProperties
<1>3. \A i : i \in 1..Len(u) <=> i \in 1..Len(t) \/ i = Len(u)
  BY <1>1, <1>2
<1>4. Len(u) \notin 1..Len(t) /\ Len(u) \in Nat
  BY <1>1, <1>2
<1> HIDE DEF u, n, s
<1>5. \A x \in Nat \ {n} :
        /\ RowsOf(u, x) = RowsOf(t, x) /\ EndsOf(u, x) = EndsOf(t, x)
        /\ \A i \in RowsOf(t, x) : u[i] = t[i]
  BY <1>1, <1>2, <1>3 DEF RowsOf, EndsOf
<1>6. /\ RowsOf(u, n) = RowsOf(t, n) \union {Len(u)}
      /\ EndsOf(u, n) = EndsOf(t, n) \union (IF s \in Ended THEN {Len(u)} ELSE {})
  BY <1>1, <1>2, <1>3 DEF RowsOf, EndsOf
<1>7. EndsOf(t, n) = {} /\ EndsOf(t, Itself) = {}
  BY <1>1, SeenIsLast DEF Itself
<1>8. RowsOf(u, n) \subseteq 1..Len(u) /\ \A i \in RowsOf(u, n) : i <= Len(u)
  BY <1>2, <1>4 DEF RowsOf
<1>9. \A x \in Nat : EndsOnce(t, x)
  BY DEF TraceOK
<1>10. EndsOnce(u, n)
  BY <1>6, <1>7, <1>8 DEF EndsOnce
<1>11. \A x \in Nat \ {n} : EndsOnce(u, x)
  BY <1>5, <1>9 DEF EndsOnce
<1>12. \A i \in EndsOf(u, Itself) : i = Len(u)
  <2>1. CASE n = Itself
    BY <1>6, <1>7, <2>1
  <2>2. CASE n # Itself
    BY <1>5, <1>7, <2>2 DEF Itself
  <2> QED
    BY <2>1, <2>2
<1>13. TraceOK(u)
  BY <1>2, <1>10, <1>11, <1>12 DEF TraceOK
<1>14. SeenStatus(u, n) = s
  <2>1. Len(u) \in RowsOf(u, n) /\ \A j \in RowsOf(u, n) : j <= Len(u)
    BY <1>6, <1>8
  <2>2. SeenStatus(u, n) = u[Len(u)].status
    BY <1>1, <1>13, <2>1, SeenIsLast
  <2> QED
    BY <1>1, <1>2, <2>2
<1>15. \A x \in Nat \ {n} : SeenStatus(u, x) = SeenStatus(t, x)
  <2> SUFFICES ASSUME NEW x \in Nat \ {n}
               PROVE  SeenStatus(u, x) = SeenStatus(t, x)
    OBVIOUS
  <2>1. CASE RowsOf(t, x) = {}
    BY <1>5, <1>13, <2>1, SeenIsLast
  <2>2. CASE RowsOf(t, x) # {}
    <3>1. PICK i \in RowsOf(t, x) : \A j \in RowsOf(t, x) : j <= i
      BY <1>9, <2>2 DEF EndsOnce
    <3>2. SeenStatus(t, x) = t[i].status
      BY <3>1, SeenIsLast
    <3>3. SeenStatus(u, x) = u[i].status
      BY <1>5, <1>13, <3>1, SeenIsLast
    <3> QED
      BY <1>5, <3>2, <3>3
  <2> QED
    BY <2>1, <2>2
<1> QED
  BY <1>2, <1>13, <1>14, <1>15 DEF u, n, s

LEMMA NothingSeen == \A n : SeenStatus(<<>>, n) = "none"
BY DEF SeenStatus, RowsOf, EndsOf

LEMMA EmptyTrace == TraceOK(<<>>)
BY DEF TraceOK, EndsOnce, RowsOf, EndsOf

-----------------------------------------------------------------------------
(* What a step does to the rows of its Run, whether the row is written or  *)
(* refused, and to those of the others.                                    *)
Kept(q) == trace'[q] = trace[q] /\ \A x \in Nat : Shown(q, x)' = Shown(q, x)

Noted(r, n, s) ==
  /\ trace'[r] # <<>> /\ Shown(r, n)' = s
  /\ \A x \in Nat \ {n} : Shown(r, x)' = Shown(r, x)

RowsOK == trace \in [Run -> Seq(Row)] /\ \A q \in Run : TraceOK(trace[q])

LEMMA RowWritten ==
  ASSUME RunInv, NEW r \in Run, NEW n \in Nat, NEW s \in Statuses, Written(r, n, s),
         Shown(r, n) \notin Ended, Shown(r, Itself) \notin Ended
  PROVE  RowsOK' /\ Noted(r, n, s) /\ \A q \in Run \ {r} : Kept(q)
<1> DEFINE row == [of |-> n, status |-> s]
<1>1. /\ trace \in [Run -> Seq(Row)] /\ \A q \in Run : TraceOK(trace[q])
      /\ SeenStatus(trace[r], n) \notin Ended /\ SeenStatus(trace[r], Itself) \notin Ended
  BY DEF RunInv, RunTypes, Shown
<1>2. trace' = [trace EXCEPT ![r] = Append(trace[r], row)]
  BY DEF Written
<1>3. trace'[r] = Append(trace[r], row) /\ \A q \in Run \ {r} : trace'[q] = trace[q]
  BY <1>1, <1>2
<1>4. /\ TraceOK(trace'[r]) /\ trace'[r] # <<>> /\ SeenStatus(trace'[r], n) = s
      /\ \A x \in Nat \ {n} : SeenStatus(trace'[r], x) = SeenStatus(trace[r], x)
  <2>1. row \in Row /\ row.of = n /\ row.status = s
    BY DEF Row
  <2> HIDE DEF row
  <2> QED
    BY <1>1, <1>3, <2>1, RowAppended
<1>5. trace' \in [Run -> Seq(Row)]
  BY <1>1, <1>2, <1>4 DEF TraceOK
<1>6. RowsOK'
  BY <1>1, <1>3, <1>4, <1>5 DEF RowsOK
<1> QED
  BY <1>3, <1>4, <1>6 DEF Noted, Kept, Shown

LEMMA RowsUntouched ==
  ASSUME RunInv, UNCHANGED trace
  PROVE  RowsOK' /\ \A q \in Run : Kept(q)
BY DEF RunInv, RunTypes, RowsOK, Kept, Shown

(* Emit and EmitUsed: what the Run knows of a row that is not there.       *)
LEMMA RowEmitted ==
  ASSUME RunInv, NEW r \in Run, NEW n \in Nat, NEW s \in Statuses,
         Emit(r, n, s) \/ EmitUsed(r, n, s),
         Shown(r, n) \notin Ended, Shown(r, Itself) \notin Ended
  PROVE  /\ RowsOK' /\ broken' \in [Run -> BOOLEAN]
         /\ \A q \in Run \ {r} : Kept(q) /\ broken'[q] = broken[q]
         /\ broken[r] => broken'[r]
         /\ Noted(r, n, s) \/ (Kept(r) /\ broken'[r])
<1>1. broken \in [Run -> BOOLEAN]
  BY DEF RunInv, RunTypes
<1>2. CASE Emitted(r, n, s)
  BY <1>1, <1>2, RowWritten DEF Emitted
<1>3. CASE Refused(r) /\ UNCHANGED trace
  BY <1>1, <1>3, RowsUntouched DEF Refused
<1>4. CASE Refused(r) /\ Written(r, n, s)
  BY <1>1, <1>4, RowWritten DEF Refused
<1> QED
  BY <1>2, <1>3, <1>4 DEF Emit, EmitUsed

(* A step of one Run leaves the others as they are. *)
Elsewhere(r) ==
  \A q \in Run \ {r} :
    /\ pc'[q] = pc[q] /\ mem'[q] = mem[q] /\ next'[q] = next[q]
    /\ at'[q] = at[q] /\ res'[q] = res[q] /\ broken'[q] = broken[q]

LEMMA OneRun ==
  ASSUME RunInv, NEW r \in Run, RunTypes', RowsOK', UNCHANGED gateway,
         Elsewhere(r), \A q \in Run \ {r} : Kept(q),
         PhaseShows(r)', RowsShow(r)'
  PROVE  RunInv'
<1>1. \A q \in Run : PhaseShows(q) /\ RowsShow(q) /\ Nodes(q) \subseteq Nat
  BY NodesFinite DEF RunInv
<1>2. ASSUME NEW q \in Run \ {r}
      PROVE  PhaseShows(q)' /\ RowsShow(q)'
  <2>1. /\ pc'[q] = pc[q] /\ mem'[q] = mem[q] /\ next'[q] = next[q] /\ trace'[q] = trace[q]
        /\ at'[q] = at[q] /\ res'[q] = res[q] /\ broken'[q] = broken[q]
        /\ \A x \in Nat : Shown(q, x)' = Shown(q, x)
        /\ Itself \in Nat /\ Nodes(q) \subseteq Nat
    BY <1>1 DEF Elsewhere, Kept, Itself
  <2>2. PhaseShows(q)'
    BY <1>1, <2>1 DEF PhaseShows, WorkerShows, Finished
  <2>3. RowsShow(q)'
    BY <1>1, <2>1 DEF RowsShow
  <2> QED
    BY <2>2, <2>3
<1> QED
  BY <1>2 DEF RunInv, RowsOK

-----------------------------------------------------------------------------
(* The steps of the parent's turn. *)
LEMMA Delegate_Keeps ==
  ASSUME RunInv, NEW r \in Run, Delegate(r)
  PROVE  RunInv'
<1>1. RunTypes /\ PhaseShows(r) /\ RowsShow(r) /\ TraceOK(trace[r])
  BY DEF RunInv
<1>2. Itself \in Nat /\ \A x \in Nodes(r) : x \in Nat /\ x # Itself
  BY Names
<1>3. RowsOK' /\ Kept(r) /\ \A q \in Run \ {r} : Kept(q)
  BY RowsUntouched DEF Delegate, Goto, Remember, sink, parent, workers, signals, process
<1>4. broken'[r] = broken[r] /\ pc'[r] = "opening" /\ mem'[r] = "queued" /\ at'[r] = at[r] /\ res'[r] = res[r] /\ next'[r] = next[r]
  BY <1>1, <1>3 DEF RunTypes, Delegate, Goto, Remember, sink, parent, workers, signals, process
<1>5. RunTypes'
  BY <1>1, <1>3 DEF RunTypes, RowsOK, Phases, Statuses, Active, Ended, Results, Delegate, Goto, Remember, sink, parent, workers, signals, process
<1>6. Elsewhere(r)
  BY <1>1, <1>3 DEF RunTypes, Elsewhere, Delegate, Goto, Remember, sink, parent, workers, signals, process
<1>7. PhaseShows(r)' /\ RowsShow(r)'
  BY <1>1, <1>2, <1>3, <1>4 DEF PhaseShows, WorkerShows, RowsShow, Finished, Kept, Noted, Results, Ended, Active, Delegate, process
<1> QED
  BY <1>3, <1>5, <1>6, <1>7, OneRun DEF Delegate, Goto, Remember, sink, parent, workers, signals, process

LEMMA Open_Keeps ==
  ASSUME RunInv, NEW r \in Run, Open(r)
  PROVE  RunInv'
<1>1. RunTypes /\ PhaseShows(r) /\ RowsShow(r) /\ TraceOK(trace[r])
  BY DEF RunInv
<1>2. Itself \in Nat /\ \A x \in Nodes(r) : x \in Nat /\ x # Itself
  BY Names
<1>3. /\ RowsOK' /\ broken' \in [Run -> BOOLEAN]
      /\ \A q \in Run \ {r} : Kept(q) /\ broken'[q] = broken[q]
      /\ broken[r] => broken'[r]
      /\ Noted(r, Itself, "queued") \/ (Kept(r) /\ broken'[r])
  <2>1. Shown(r, Itself) \notin Ended /\ Shown(r, Itself) \notin Ended /\ Itself \in Nat /\ "queued" \in Statuses
    BY <1>1, <1>2, NothingSeen DEF PhaseShows, RowsShow, Statuses, Active, Ended, Results, Shown, Open
  <2> QED
    BY <2>1, RowEmitted DEF Open
<1>8. 1 \in Nodes(r) /\ Shown(r, Itself) = "none" /\ (\A x \in Nodes(r) : x >= 1 /\ Shown(r, x) = "none")
  BY <1>1, NothingSeen, NodesFinite DEF PhaseShows, Open, Shown
<1>4. \/ (broken'[r] /\ pc'[r] = "failing" /\ mem'[r] = "failed" /\ at'[r] = at[r] /\ res'[r] = res[r] /\ next'[r] = next[r])
      \/ (~broken'[r] /\ pc'[r] = "queueing" /\ mem'[r] = mem[r] /\ at'[r] = at[r] /\ res'[r] = res[r] /\ next'[r] = next[r])
  BY <1>1, <1>3 DEF RunTypes, Open, FinishEventFailure, Goto, Remember, sink, parent, workers, signals, process
<1>5. RunTypes'
  BY <1>1, <1>3 DEF RunTypes, RowsOK, Phases, Statuses, Active, Ended, Results, Open, FinishEventFailure, Goto, Remember, sink, parent, workers, signals, process
<1>6. Elsewhere(r)
  BY <1>1, <1>3 DEF RunTypes, Elsewhere, Open, FinishEventFailure, Goto, Remember, sink, parent, workers, signals, process
<1>7. PhaseShows(r)' /\ RowsShow(r)'
  <2>1. CASE Noted(r, Itself, "queued") /\ broken'[r] /\ pc'[r] = "failing" /\ mem'[r] = "failed" /\ at'[r] = at[r] /\ res'[r] = res[r] /\ next'[r] = next[r]
    <3>1. PhaseShows(r)'
      BY <1>1, <1>2, <1>3, <1>8, <2>1 DEF PhaseShows, WorkerShows, Finished, Kept, Noted, Results, Ended, Open
    <3>2. RowsShow(r)'
      BY <1>1, <1>2, <1>3, <1>8, <2>1 DEF PhaseShows, RowsShow, Kept, Noted, Results, Ended, Active, Open, process
    <3> QED
      BY <3>1, <3>2
  <2>2. CASE Noted(r, Itself, "queued") /\ ~broken'[r] /\ pc'[r] = "queueing" /\ mem'[r] = mem[r] /\ at'[r] = at[r] /\ res'[r] = res[r] /\ next'[r] = next[r]
    <3>1. PhaseShows(r)'
      BY <1>1, <1>2, <1>3, <1>8, <2>2 DEF PhaseShows, WorkerShows, Finished, Kept, Noted, Results, Ended, Open
    <3>2. RowsShow(r)'
      BY <1>1, <1>2, <1>3, <1>8, <2>2 DEF PhaseShows, RowsShow, Kept, Noted, Results, Ended, Active, Open, process
    <3> QED
      BY <3>1, <3>2
  <2>3. CASE Kept(r) /\ broken'[r] /\ broken'[r] /\ pc'[r] = "failing" /\ mem'[r] = "failed" /\ at'[r] = at[r] /\ res'[r] = res[r] /\ next'[r] = next[r]
    <3>1. PhaseShows(r)'
      BY <1>1, <1>2, <1>3, <1>8, <2>3 DEF PhaseShows, WorkerShows, Finished, Kept, Noted, Results, Ended, Open
    <3>2. RowsShow(r)'
      BY <1>1, <1>2, <1>3, <1>8, <2>3 DEF PhaseShows, RowsShow, Kept, Noted, Results, Ended, Active, Open, process
    <3> QED
      BY <3>1, <3>2
  <2>4. CASE Kept(r) /\ broken'[r] /\ ~broken'[r] /\ pc'[r] = "queueing" /\ mem'[r] = mem[r] /\ at'[r] = at[r] /\ res'[r] = res[r] /\ next'[r] = next[r]
    <3>1. PhaseShows(r)'
      BY <1>1, <1>2, <1>3, <1>8, <2>4 DEF PhaseShows, WorkerShows, Finished, Kept, Noted, Results, Ended, Open
    <3>2. RowsShow(r)'
      BY <1>1, <1>2, <1>3, <1>8, <2>4 DEF PhaseShows, RowsShow, Kept, Noted, Results, Ended, Active, Open, process
    <3> QED
      BY <3>1, <3>2
  <2> QED
    BY <1>3, <1>4, <2>1, <2>2, <2>3, <2>4
<1> QED
  BY <1>3, <1>5, <1>6, <1>7, OneRun DEF Open, FinishEventFailure, Goto, Remember, sink, parent, workers, signals, process

LEMMA QueueNode_Keeps ==
  ASSUME RunInv, NEW r \in Run, QueueNode(r)
  PROVE  RunInv'
<1>1. RunTypes /\ PhaseShows(r) /\ RowsShow(r) /\ TraceOK(trace[r])
  BY DEF RunInv
<1>2. Itself \in Nat /\ \A x \in Nodes(r) : x \in Nat /\ x # Itself
  BY Names
<1>9. PICK k \in Nodes(r) : k = next[r]
  BY <1>1 DEF PhaseShows, QueueNode
<1>3. /\ RowsOK' /\ broken' \in [Run -> BOOLEAN]
      /\ \A q \in Run \ {r} : Kept(q) /\ broken'[q] = broken[q]
      /\ broken[r] => broken'[r]
      /\ Noted(r, k, "queued") \/ (Kept(r) /\ broken'[r])
  <2>1. Shown(r, k) \notin Ended /\ Shown(r, Itself) \notin Ended /\ k \in Nat /\ "queued" \in Statuses
    BY <1>1, <1>2, <1>9 DEF PhaseShows, RowsShow, Statuses, Active, Ended, Results, QueueNode
  <2> QED
    BY <1>9, <2>1, RowEmitted DEF QueueNode
<1>8. next[r] \in Nodes(r) /\ next[r] # Itself /\ next[r] \in Nat \ {0} /\ Tasks[r] \in Nat /\ (\A x \in Nodes(r) : x <= Tasks[r]) /\ (next[r] # Tasks[r] => next[r] + 1 \in Nodes(r))
  BY <1>1, <1>2, NodesFinite DEF PhaseShows, QueueNode
<1>4. \/ (LastNode(r) /\ next'[r] = 1 /\ broken'[r] /\ pc'[r] = "failing" /\ mem'[r] = "failed" /\ at'[r] = at[r] /\ res'[r] = res[r])
      \/ (LastNode(r) /\ next'[r] = 1 /\ ~broken'[r] /\ pc'[r] = "starting" /\ mem'[r] = "running" /\ at'[r] = at[r] /\ res'[r] = res[r])
      \/ (~LastNode(r) /\ next'[r] = next[r] + 1 /\ pc'[r] = pc[r] /\ mem'[r] = mem[r] /\ at'[r] = at[r] /\ res'[r] = res[r])
  BY <1>1, <1>3 DEF RunTypes, QueueNode, FinishEventFailure, LastNode, Goto, Remember, sink, parent, workers, signals, process
<1>5. RunTypes'
  <2>1. next' \in [Run -> Nat]
    <3>1. next \in [Run -> Nat] /\ 1 \in Nat /\ next[r] + 1 \in Nat
      BY <1>1, <1>8 DEF RunTypes
    <3>2. next' = [next EXCEPT ![r] = 1] \/ next' = [next EXCEPT ![r] = next[r] + 1]
      BY DEF QueueNode
    <3> QED
      BY <3>1, <3>2
  <2>2. pc' \in [Run -> Phases] /\ mem' \in [Run -> Statuses \union {"none"}]
    BY <1>1 DEF RunTypes, QueueNode, FinishEventFailure, Goto, Remember, Phases, Statuses, Active, Ended
  <2> QED
    BY <1>1, <1>3, <2>1, <2>2 DEF RunTypes, RowsOK, QueueNode, workers, process
<1>6. Elsewhere(r)
  BY <1>1, <1>3 DEF RunTypes, Elsewhere, QueueNode, FinishEventFailure, LastNode, Goto, Remember, sink, parent, workers, signals, process
<1>7. PhaseShows(r)' /\ RowsShow(r)'
  <2>1. CASE Noted(r, k, "queued") /\ LastNode(r) /\ next'[r] = 1 /\ broken'[r] /\ pc'[r] = "failing" /\ mem'[r] = "failed" /\ at'[r] = at[r] /\ res'[r] = res[r]
    <3>1. PhaseShows(r)'
      BY <1>1, <1>2, <1>3, <1>8, <1>9, <2>1 DEF PhaseShows, WorkerShows, Finished, Kept, Noted, Results, Ended, QueueNode, LastNode
    <3>2. RowsShow(r)'
      BY <1>1, <1>2, <1>3, <1>8, <1>9, <2>1 DEF PhaseShows, RowsShow, Kept, Noted, Results, Ended, Active, QueueNode, process, LastNode
    <3> QED
      BY <3>1, <3>2
  <2>2. CASE Noted(r, k, "queued") /\ LastNode(r) /\ next'[r] = 1 /\ ~broken'[r] /\ pc'[r] = "starting" /\ mem'[r] = "running" /\ at'[r] = at[r] /\ res'[r] = res[r]
    <3>1. PhaseShows(r)'
      BY <1>1, <1>2, <1>3, <1>8, <1>9, <2>2 DEF PhaseShows, WorkerShows, Finished, Kept, Noted, Results, Ended, QueueNode, LastNode
    <3>2. RowsShow(r)'
      BY <1>1, <1>2, <1>3, <1>8, <1>9, <2>2 DEF PhaseShows, RowsShow, Kept, Noted, Results, Ended, Active, QueueNode, process, LastNode
    <3> QED
      BY <3>1, <3>2
  <2>3. CASE Noted(r, k, "queued") /\ ~LastNode(r) /\ next'[r] = next[r] + 1 /\ pc'[r] = pc[r] /\ mem'[r] = mem[r] /\ at'[r] = at[r] /\ res'[r] = res[r]
    <3>1. PhaseShows(r)'
      BY <1>1, <1>2, <1>3, <1>8, <1>9, <2>3 DEF PhaseShows, WorkerShows, Finished, Kept, Noted, Results, Ended, QueueNode, LastNode
    <3>2. RowsShow(r)'
      BY <1>1, <1>2, <1>3, <1>8, <1>9, <2>3 DEF PhaseShows, RowsShow, Kept, Noted, Results, Ended, Active, QueueNode, process, LastNode
    <3> QED
      BY <3>1, <3>2
  <2>4. CASE Kept(r) /\ broken'[r] /\ LastNode(r) /\ next'[r] = 1 /\ broken'[r] /\ pc'[r] = "failing" /\ mem'[r] = "failed" /\ at'[r] = at[r] /\ res'[r] = res[r]
    <3>1. PhaseShows(r)'
      BY <1>1, <1>2, <1>3, <1>8, <1>9, <2>4 DEF PhaseShows, WorkerShows, Finished, Kept, Noted, Results, Ended, QueueNode, LastNode
    <3>2. RowsShow(r)'
      BY <1>1, <1>2, <1>3, <1>8, <1>9, <2>4 DEF PhaseShows, RowsShow, Kept, Noted, Results, Ended, Active, QueueNode, process, LastNode
    <3> QED
      BY <3>1, <3>2
  <2>5. CASE Kept(r) /\ broken'[r] /\ LastNode(r) /\ next'[r] = 1 /\ ~broken'[r] /\ pc'[r] = "starting" /\ mem'[r] = "running" /\ at'[r] = at[r] /\ res'[r] = res[r]
    <3>1. PhaseShows(r)'
      BY <1>1, <1>2, <1>3, <1>8, <1>9, <2>5 DEF PhaseShows, WorkerShows, Finished, Kept, Noted, Results, Ended, QueueNode, LastNode
    <3>2. RowsShow(r)'
      BY <1>1, <1>2, <1>3, <1>8, <1>9, <2>5 DEF PhaseShows, RowsShow, Kept, Noted, Results, Ended, Active, QueueNode, process, LastNode
    <3> QED
      BY <3>1, <3>2
  <2>6. CASE Kept(r) /\ broken'[r] /\ ~LastNode(r) /\ next'[r] = next[r] + 1 /\ pc'[r] = pc[r] /\ mem'[r] = mem[r] /\ at'[r] = at[r] /\ res'[r] = res[r]
    <3>1. PhaseShows(r)'
      BY <1>1, <1>2, <1>3, <1>8, <1>9, <2>6 DEF PhaseShows, WorkerShows, Finished, Kept, Noted, Results, Ended, QueueNode, LastNode
    <3>2. RowsShow(r)'
      BY <1>1, <1>2, <1>3, <1>8, <1>9, <2>6 DEF PhaseShows, RowsShow, Kept, Noted, Results, Ended, Active, QueueNode, process, LastNode
    <3> QED
      BY <3>1, <3>2
  <2> QED
    BY <1>3, <1>4, <2>1, <2>2, <2>3, <2>4, <2>5, <2>6
<1> QED
  BY <1>3, <1>5, <1>6, <1>7, OneRun DEF QueueNode, FinishEventFailure, LastNode, Goto, Remember, sink, parent, workers, signals, process

LEMMA FailRun_Keeps ==
  ASSUME RunInv, NEW r \in Run, FailRun(r)
  PROVE  RunInv'
<1>1. RunTypes /\ PhaseShows(r) /\ RowsShow(r) /\ TraceOK(trace[r])
  BY DEF RunInv
<1>2. Itself \in Nat /\ \A x \in Nodes(r) : x \in Nat /\ x # Itself
  BY Names
<1>3. /\ RowsOK' /\ broken' \in [Run -> BOOLEAN]
      /\ \A q \in Run \ {r} : Kept(q) /\ broken'[q] = broken[q]
      /\ broken[r] => broken'[r]
      /\ Noted(r, Itself, "failed") \/ (Kept(r) /\ broken'[r])
  <2>1. Shown(r, Itself) \notin Ended /\ Shown(r, Itself) \notin Ended /\ Itself \in Nat /\ "failed" \in Statuses
    BY <1>1, <1>2 DEF PhaseShows, RowsShow, Statuses, Active, Ended, Results, FailRun
  <2> QED
    BY <2>1, RowEmitted DEF FailRun
<1>4. \/ (pc[r] = "failing" /\ pc'[r] = "synthesis" /\ mem'[r] = mem[r] /\ at'[r] = at[r] /\ res'[r] = res[r] /\ next'[r] = next[r])
      \/ (pc[r] = "unsaved" /\ pc'[r] = "done" /\ mem'[r] = mem[r] /\ at'[r] = at[r] /\ res'[r] = res[r] /\ next'[r] = next[r])
  BY <1>1, <1>3 DEF RunTypes, FailRun, Goto, Remember, sink, parent, workers, signals, process
<1>5. RunTypes'
  BY <1>1, <1>3 DEF RunTypes, RowsOK, Phases, Statuses, Active, Ended, Results, FailRun, Goto, Remember, sink, parent, workers, signals, process
<1>6. Elsewhere(r)
  BY <1>1, <1>3 DEF RunTypes, Elsewhere, FailRun, Goto, Remember, sink, parent, workers, signals, process
<1>7. PhaseShows(r)' /\ RowsShow(r)'
  <2>1. CASE Noted(r, Itself, "failed") /\ pc[r] = "failing" /\ pc'[r] = "synthesis" /\ mem'[r] = mem[r] /\ at'[r] = at[r] /\ res'[r] = res[r] /\ next'[r] = next[r]
    <3>1. PhaseShows(r)'
      BY <1>1, <1>2, <1>3, <2>1 DEF PhaseShows, WorkerShows, Finished, Kept, Noted, Results, Ended, FailRun
    <3>2. RowsShow(r)'
      BY <1>1, <1>2, <1>3, <2>1 DEF PhaseShows, RowsShow, Kept, Noted, Results, Ended, Active, FailRun, process
    <3> QED
      BY <3>1, <3>2
  <2>2. CASE Noted(r, Itself, "failed") /\ pc[r] = "unsaved" /\ pc'[r] = "done" /\ mem'[r] = mem[r] /\ at'[r] = at[r] /\ res'[r] = res[r] /\ next'[r] = next[r]
    <3>1. PhaseShows(r)'
      BY <1>1, <1>2, <1>3, <2>2 DEF PhaseShows, WorkerShows, Finished, Kept, Noted, Results, Ended, FailRun
    <3>2. RowsShow(r)'
      BY <1>1, <1>2, <1>3, <2>2 DEF PhaseShows, RowsShow, Kept, Noted, Results, Ended, Active, FailRun, process
    <3> QED
      BY <3>1, <3>2
  <2>3. CASE Kept(r) /\ broken'[r] /\ pc[r] = "failing" /\ pc'[r] = "synthesis" /\ mem'[r] = mem[r] /\ at'[r] = at[r] /\ res'[r] = res[r] /\ next'[r] = next[r]
    <3>1. PhaseShows(r)'
      BY <1>1, <1>2, <1>3, <2>3 DEF PhaseShows, WorkerShows, Finished, Kept, Noted, Results, Ended, FailRun
    <3>2. RowsShow(r)'
      BY <1>1, <1>2, <1>3, <2>3 DEF PhaseShows, RowsShow, Kept, Noted, Results, Ended, Active, FailRun, process
    <3> QED
      BY <3>1, <3>2
  <2>4. CASE Kept(r) /\ broken'[r] /\ pc[r] = "unsaved" /\ pc'[r] = "done" /\ mem'[r] = mem[r] /\ at'[r] = at[r] /\ res'[r] = res[r] /\ next'[r] = next[r]
    <3>1. PhaseShows(r)'
      BY <1>1, <1>2, <1>3, <2>4 DEF PhaseShows, WorkerShows, Finished, Kept, Noted, Results, Ended, FailRun
    <3>2. RowsShow(r)'
      BY <1>1, <1>2, <1>3, <2>4 DEF PhaseShows, RowsShow, Kept, Noted, Results, Ended, Active, FailRun, process
    <3> QED
      BY <3>1, <3>2
  <2> QED
    BY <1>3, <1>4, <2>1, <2>2, <2>3, <2>4
<1> QED
  BY <1>3, <1>5, <1>6, <1>7, OneRun DEF FailRun, Goto, Remember, sink, parent, workers, signals, process

LEMMA Overflow_Keeps ==
  ASSUME RunInv, NEW r \in Run, Overflow(r)
  PROVE  RunInv'
<1>1. RunTypes /\ PhaseShows(r) /\ RowsShow(r) /\ TraceOK(trace[r])
  BY DEF RunInv
<1>2. Itself \in Nat /\ \A x \in Nodes(r) : x \in Nat /\ x # Itself
  BY Names
<1>3. /\ RowsOK' /\ broken' \in [Run -> BOOLEAN]
      /\ \A q \in Run \ {r} : Kept(q) /\ broken'[q] = broken[q]
      /\ broken[r] => broken'[r]
      /\ Noted(r, Itself, "failed") \/ (Kept(r) /\ broken'[r])
  <2>1. Shown(r, Itself) \notin Ended /\ Shown(r, Itself) \notin Ended /\ Itself \in Nat /\ "failed" \in Statuses
    BY <1>1, <1>2 DEF PhaseShows, RowsShow, Statuses, Active, Ended, Results, Overflow
  <2> QED
    BY <2>1, RowEmitted DEF Overflow
<1>4. pc'[r] = "done" /\ mem'[r] = "none" /\ at'[r] = at[r] /\ res'[r] = res[r] /\ next'[r] = next[r]
  BY <1>1, <1>3 DEF RunTypes, Overflow, Forget, Goto, Remember, sink, parent, workers, signals, process
<1>5. RunTypes'
  BY <1>1, <1>3 DEF RunTypes, RowsOK, Phases, Statuses, Active, Ended, Results, Overflow, Forget, Goto, Remember, sink, parent, workers, signals, process
<1>6. Elsewhere(r)
  BY <1>1, <1>3 DEF RunTypes, Elsewhere, Overflow, Forget, Goto, Remember, sink, parent, workers, signals, process
<1>7. PhaseShows(r)' /\ RowsShow(r)'
  <2>1. CASE Noted(r, Itself, "failed") /\ pc'[r] = "done" /\ mem'[r] = "none" /\ at'[r] = at[r] /\ res'[r] = res[r] /\ next'[r] = next[r]
    <3>1. PhaseShows(r)'
      BY <1>1, <1>2, <1>3, <2>1 DEF PhaseShows, WorkerShows, Finished, Kept, Noted, Results, Ended, Overflow
    <3>2. RowsShow(r)'
      BY <1>1, <1>2, <1>3, <2>1 DEF PhaseShows, RowsShow, Kept, Noted, Results, Ended, Active, Overflow, process
    <3> QED
      BY <3>1, <3>2
  <2>2. CASE Kept(r) /\ broken'[r] /\ pc'[r] = "done" /\ mem'[r] = "none" /\ at'[r] = at[r] /\ res'[r] = res[r] /\ next'[r] = next[r]
    <3>1. PhaseShows(r)'
      BY <1>1, <1>2, <1>3, <2>2 DEF PhaseShows, WorkerShows, Finished, Kept, Noted, Results, Ended, Overflow
    <3>2. RowsShow(r)'
      BY <1>1, <1>2, <1>3, <2>2 DEF PhaseShows, RowsShow, Kept, Noted, Results, Ended, Active, Overflow, process
    <3> QED
      BY <3>1, <3>2
  <2> QED
    BY <1>3, <1>4, <2>1, <2>2
<1> QED
  BY <1>3, <1>5, <1>6, <1>7, OneRun DEF Overflow, Forget, Goto, Remember, sink, parent, workers, signals, process

LEMMA AskApproval_Keeps ==
  ASSUME RunInv, NEW r \in Run, AskApproval(r)
  PROVE  RunInv'
<1>1. RunTypes /\ PhaseShows(r) /\ RowsShow(r) /\ TraceOK(trace[r])
  BY DEF RunInv
<1>2. Itself \in Nat /\ \A x \in Nodes(r) : x \in Nat /\ x # Itself
  BY Names
<1>3. /\ RowsOK' /\ broken' \in [Run -> BOOLEAN]
      /\ \A q \in Run \ {r} : Kept(q) /\ broken'[q] = broken[q]
      /\ broken[r] => broken'[r]
      /\ Noted(r, Itself, "waiting") \/ (Kept(r) /\ broken'[r])
  <2>1. Shown(r, Itself) \notin Ended /\ Shown(r, Itself) \notin Ended /\ Itself \in Nat /\ "waiting" \in Statuses
    BY <1>1, <1>2 DEF PhaseShows, RowsShow, Statuses, Active, Ended, Results, AskApproval
  <2> QED
    BY <2>1, RowEmitted DEF AskApproval
<1>4. pc'[r] = "approval" /\ mem'[r] = "waiting" /\ at'[r] = at[r] /\ res'[r] = res[r] /\ next'[r] = next[r]
  BY <1>1, <1>3 DEF RunTypes, AskApproval, Goto, Remember, sink, parent, workers, signals, process
<1>5. RunTypes'
  BY <1>1, <1>3 DEF RunTypes, RowsOK, Phases, Statuses, Active, Ended, Results, AskApproval, Goto, Remember, sink, parent, workers, signals, process
<1>6. Elsewhere(r)
  BY <1>1, <1>3 DEF RunTypes, Elsewhere, AskApproval, Goto, Remember, sink, parent, workers, signals, process
<1>7. PhaseShows(r)' /\ RowsShow(r)'
  <2>1. CASE Noted(r, Itself, "waiting") /\ pc'[r] = "approval" /\ mem'[r] = "waiting" /\ at'[r] = at[r] /\ res'[r] = res[r] /\ next'[r] = next[r]
    <3>1. PhaseShows(r)'
      BY <1>1, <1>2, <1>3, <2>1 DEF PhaseShows, WorkerShows, Finished, Kept, Noted, Results, Ended, AskApproval
    <3>2. RowsShow(r)'
      BY <1>1, <1>2, <1>3, <2>1 DEF PhaseShows, RowsShow, Kept, Noted, Results, Ended, Active, AskApproval, process
    <3> QED
      BY <3>1, <3>2
  <2>2. CASE Kept(r) /\ broken'[r] /\ pc'[r] = "approval" /\ mem'[r] = "waiting" /\ at'[r] = at[r] /\ res'[r] = res[r] /\ next'[r] = next[r]
    <3>1. PhaseShows(r)'
      BY <1>1, <1>2, <1>3, <2>2 DEF PhaseShows, WorkerShows, Finished, Kept, Noted, Results, Ended, AskApproval
    <3>2. RowsShow(r)'
      BY <1>1, <1>2, <1>3, <2>2 DEF PhaseShows, RowsShow, Kept, Noted, Results, Ended, Active, AskApproval, process
    <3> QED
      BY <3>1, <3>2
  <2> QED
    BY <1>3, <1>4, <2>1, <2>2
<1> QED
  BY <1>3, <1>5, <1>6, <1>7, OneRun DEF AskApproval, Goto, Remember, sink, parent, workers, signals, process

LEMMA Resume_Keeps ==
  ASSUME RunInv, NEW r \in Run, Resume(r)
  PROVE  RunInv'
<1>1. RunTypes /\ PhaseShows(r) /\ RowsShow(r) /\ TraceOK(trace[r])
  BY DEF RunInv
<1>2. Itself \in Nat /\ \A x \in Nodes(r) : x \in Nat /\ x # Itself
  BY Names
<1>3. /\ RowsOK' /\ broken' \in [Run -> BOOLEAN]
      /\ \A q \in Run \ {r} : Kept(q) /\ broken'[q] = broken[q]
      /\ broken[r] => broken'[r]
      /\ Noted(r, Itself, "running") \/ (Kept(r) /\ broken'[r])
  <2>1. Shown(r, Itself) \notin Ended /\ Shown(r, Itself) \notin Ended /\ Itself \in Nat /\ "running" \in Statuses
    BY <1>1, <1>2 DEF PhaseShows, RowsShow, Statuses, Active, Ended, Results, Resume
  <2> QED
    BY <2>1, RowEmitted DEF Resume
<1>4. pc'[r] = "synthesis" /\ mem'[r] = "running" /\ at'[r] = at[r] /\ res'[r] = res[r] /\ next'[r] = next[r]
  BY <1>1, <1>3 DEF RunTypes, Resume, Goto, Remember, sink, parent, workers, signals, process
<1>5. RunTypes'
  BY <1>1, <1>3 DEF RunTypes, RowsOK, Phases, Statuses, Active, Ended, Results, Resume, Goto, Remember, sink, parent, workers, signals, process
<1>6. Elsewhere(r)
  BY <1>1, <1>3 DEF RunTypes, Elsewhere, Resume, Goto, Remember, sink, parent, workers, signals, process
<1>7. PhaseShows(r)' /\ RowsShow(r)'
  <2>1. CASE Noted(r, Itself, "running") /\ pc'[r] = "synthesis" /\ mem'[r] = "running" /\ at'[r] = at[r] /\ res'[r] = res[r] /\ next'[r] = next[r]
    <3>1. PhaseShows(r)'
      BY <1>1, <1>2, <1>3, <2>1 DEF PhaseShows, WorkerShows, Finished, Kept, Noted, Results, Ended, Resume
    <3>2. RowsShow(r)'
      BY <1>1, <1>2, <1>3, <2>1 DEF PhaseShows, RowsShow, Kept, Noted, Results, Ended, Active, Resume, process
    <3> QED
      BY <3>1, <3>2
  <2>2. CASE Kept(r) /\ broken'[r] /\ pc'[r] = "synthesis" /\ mem'[r] = "running" /\ at'[r] = at[r] /\ res'[r] = res[r] /\ next'[r] = next[r]
    <3>1. PhaseShows(r)'
      BY <1>1, <1>2, <1>3, <2>2 DEF PhaseShows, WorkerShows, Finished, Kept, Noted, Results, Ended, Resume
    <3>2. RowsShow(r)'
      BY <1>1, <1>2, <1>3, <2>2 DEF PhaseShows, RowsShow, Kept, Noted, Results, Ended, Active, Resume, process
    <3> QED
      BY <3>1, <3>2
  <2> QED
    BY <1>3, <1>4, <2>1, <2>2
<1> QED
  BY <1>3, <1>5, <1>6, <1>7, OneRun DEF Resume, Goto, Remember, sink, parent, workers, signals, process

LEMMA Abort_Keeps ==
  ASSUME RunInv, NEW r \in Run, Abort(r)
  PROVE  RunInv'
<1>1. RunTypes /\ PhaseShows(r) /\ RowsShow(r) /\ TraceOK(trace[r])
  BY DEF RunInv
<1>2. Itself \in Nat /\ \A x \in Nodes(r) : x \in Nat /\ x # Itself
  BY Names
<1>3. RowsOK' /\ Kept(r) /\ \A q \in Run \ {r} : Kept(q)
  BY RowsUntouched DEF Abort, Goto, Remember, sink, parent, workers, signals, process
<1>4. broken'[r] = broken[r] /\ pc'[r] = "aborted" /\ mem'[r] = mem[r] /\ at'[r] = at[r] /\ res'[r] = res[r] /\ next'[r] = next[r]
  BY <1>1, <1>3 DEF RunTypes, Abort, Goto, Remember, sink, parent, workers, signals, process
<1>5. RunTypes'
  BY <1>1, <1>3 DEF RunTypes, RowsOK, Phases, Statuses, Active, Ended, Results, Abort, Goto, Remember, sink, parent, workers, signals, process
<1>6. Elsewhere(r)
  BY <1>1, <1>3 DEF RunTypes, Elsewhere, Abort, Goto, Remember, sink, parent, workers, signals, process
<1>7. PhaseShows(r)' /\ RowsShow(r)'
  BY <1>1, <1>2, <1>3, <1>4 DEF PhaseShows, WorkerShows, RowsShow, Finished, Kept, Noted, Results, Ended, Active, Abort, process
<1> QED
  BY <1>3, <1>5, <1>6, <1>7, OneRun DEF Abort, Goto, Remember, sink, parent, workers, signals, process

LEMMA StopRun_Keeps ==
  ASSUME RunInv, NEW r \in Run, StopRun(r)
  PROVE  RunInv'
<1>1. RunTypes /\ PhaseShows(r) /\ RowsShow(r) /\ TraceOK(trace[r])
  BY DEF RunInv
<1>2. Itself \in Nat /\ \A x \in Nodes(r) : x \in Nat /\ x # Itself
  BY Names
<1>3. RowsOK' /\ Kept(r) /\ \A q \in Run \ {r} : Kept(q)
  BY RowsUntouched DEF StopRun, Goto, Remember, sink, parent, workers, signals, process
<1>4. broken'[r] = broken[r] /\ pc'[r] = pc[r] /\ mem'[r] = mem[r] /\ at'[r] = at[r] /\ res'[r] = res[r] /\ next'[r] = next[r]
  BY <1>1, <1>3 DEF RunTypes, StopRun, Goto, Remember, sink, parent, workers, signals, process
<1>5. RunTypes'
  BY <1>1, <1>3 DEF RunTypes, RowsOK, Phases, Statuses, Active, Ended, Results, StopRun, Goto, Remember, sink, parent, workers, signals, process
<1>6. Elsewhere(r)
  BY <1>1, <1>3 DEF RunTypes, Elsewhere, StopRun, Goto, Remember, sink, parent, workers, signals, process
<1>7. PhaseShows(r)' /\ RowsShow(r)'
  BY <1>1, <1>2, <1>3, <1>4 DEF PhaseShows, WorkerShows, RowsShow, Finished, Kept, Noted, Results, Ended, Active, StopRun, process
<1> QED
  BY <1>3, <1>5, <1>6, <1>7, OneRun DEF StopRun, Goto, Remember, sink, parent, workers, signals, process

LEMMA Expire_Keeps ==
  ASSUME RunInv, NEW r \in Run, Expire(r)
  PROVE  RunInv'
<1>1. RunTypes /\ PhaseShows(r) /\ RowsShow(r) /\ TraceOK(trace[r])
  BY DEF RunInv
<1>2. Itself \in Nat /\ \A x \in Nodes(r) : x \in Nat /\ x # Itself
  BY Names
<1>3. RowsOK' /\ Kept(r) /\ \A q \in Run \ {r} : Kept(q)
  BY RowsUntouched DEF Expire, Goto, Remember, sink, parent, workers, signals, process
<1>4. broken'[r] = broken[r] /\ pc'[r] = pc[r] /\ mem'[r] = mem[r] /\ at'[r] = at[r] /\ res'[r] = res[r] /\ next'[r] = next[r]
  BY <1>1, <1>3 DEF RunTypes, Expire, Goto, Remember, sink, parent, workers, signals, process
<1>5. RunTypes'
  BY <1>1, <1>3 DEF RunTypes, RowsOK, Phases, Statuses, Active, Ended, Results, Expire, Goto, Remember, sink, parent, workers, signals, process
<1>6. Elsewhere(r)
  BY <1>1, <1>3 DEF RunTypes, Elsewhere, Expire, Goto, Remember, sink, parent, workers, signals, process
<1>7. PhaseShows(r)' /\ RowsShow(r)'
  BY <1>1, <1>2, <1>3, <1>4 DEF PhaseShows, WorkerShows, RowsShow, Finished, Kept, Noted, Results, Ended, Active, Expire, process
<1> QED
  BY <1>3, <1>5, <1>6, <1>7, OneRun DEF Expire, Goto, Remember, sink, parent, workers, signals, process


LEMMA StartRun_Keeps ==
  ASSUME RunInv, NEW r \in Run, StartRun(r)
  PROVE  RunInv'
<1>1. RunTypes /\ PhaseShows(r) /\ RowsShow(r) /\ TraceOK(trace[r]) /\ pc[r] = "starting"
  BY DEF RunInv, StartRun
<1>2. Itself \in Nat /\ (\A x \in Nodes(r) : x \in Nat /\ x # Itself /\ x >= 1) /\ 1 \in Nodes(r)
  BY Names, NodesFinite
<1>3. /\ RowsOK' /\ broken' \in [Run -> BOOLEAN]
      /\ \A q \in Run \ {r} : Kept(q) /\ broken'[q] = broken[q]
      /\ broken[r] => broken'[r]
      /\ Noted(r, Itself, "running") \/ (Kept(r) /\ broken'[r])
  <2>1. Shown(r, Itself) \notin Ended /\ "running" \in Statuses
    BY <1>1 DEF PhaseShows, Ended, Statuses, Active
  <2> QED
    BY <1>2, <2>1, RowEmitted DEF StartRun
<1>4. UNCHANGED <<next, res, gateway>>
  BY DEF StartRun, process
<1>5. CASE broken'[r]
  <2>1. /\ pc' = [pc EXCEPT ![r] = "failing"] /\ mem' = [mem EXCEPT ![r] = "failed"] /\ at' = at
    BY <1>5 DEF StartRun, FinishEventFailure, Goto, Remember
  <2>2. RunTypes' /\ Elsewhere(r)
    BY <1>1, <1>3, <1>4, <2>1 DEF RunTypes, RowsOK, Elsewhere, Phases, Statuses, Ended
  <2>3. pc'[r] = "failing" /\ mem'[r] = "failed"
    BY <1>1, <2>1 DEF RunTypes
  <2>4. PhaseShows(r)' /\ RowsShow(r)'
    BY <1>1, <1>2, <1>3, <1>4, <2>1, <2>3
       DEF PhaseShows, WorkerShows, RowsShow, Finished, Kept, Noted, Results, Ended, Active
  <2> QED
    BY <1>3, <1>4, <2>2, <2>4, OneRun
<1>6. CASE ~broken'[r]
  <2> DEFINE first == [n \in Nodes(r) |-> IF r \in FanOut \/ n = 1 THEN "ready" ELSE "idle"]
  <2>1. pc' = [pc EXCEPT ![r] = "collecting"] /\ mem' = mem /\ at' = [at EXCEPT ![r] = first]
    BY <1>6 DEF StartRun, Goto
  <2>2. /\ at = [q \in Run |-> [m \in Nodes(q) |-> at[q][m]]]
        /\ \A q \in Run : \A m \in Nodes(q) : at[q][m] \in Places
    BY <1>1 DEF RunTypes, IsMap
  <2>10. \A q \in Run : \A m \in Nodes(q) : at[q][m] \in Places
    BY <2>2
  <2>11. \A m \in Nodes(r) : first[m] \in Places
    BY DEF Places
  <2>3. \A q \in Run : at'[q] = IF q = r THEN first ELSE at[q]
    BY <2>1, <2>2
  <2>4. IsMap(at', Places)
    <3>1. at' = [q \in Run |-> [m \in Nodes(q) |-> IF q = r THEN first[m] ELSE at[q][m]]]
      BY <2>1, <2>2
    <3>2. \A q \in Run : \A m \in Nodes(q) : at'[q][m] = IF q = r THEN first[m] ELSE at[q][m]
      BY <3>1
    <3>3. at' = [q \in Run |-> [m \in Nodes(q) |-> at'[q][m]]]
      BY <3>1
    <3>4. \A q \in Run : \A m \in Nodes(q) : at'[q][m] \in Places
      BY <2>10, <2>11, <3>2
    <3> QED
      BY <3>3, <3>4 DEF IsMap
  <2>5. RunTypes'
    BY <1>1, <1>3, <1>4, <2>1, <2>4 DEF RunTypes, RowsOK, Phases
  <2>6. Elsewhere(r)
    BY <1>1, <1>3, <1>4, <2>1, <2>3 DEF RunTypes, Elsewhere
  <2>7. /\ pc'[r] = "collecting" /\ mem'[r] = mem[r] /\ next'[r] = next[r] /\ Noted(r, Itself, "running")
    BY <1>1, <1>3, <1>4, <1>6, <2>1 DEF RunTypes
  <2>12. \A n \in Nodes(r) : at'[r][n] = IF r \in FanOut \/ n = 1 THEN "ready" ELSE "idle"
    BY <2>3
  <2>8. PhaseShows(r)'
    BY <1>1, <1>2, <2>7, <2>12 DEF PhaseShows, WorkerShows, Noted
  <2>9. RowsShow(r)'
    BY <1>1, <1>2, <1>4, <2>7 DEF PhaseShows, RowsShow, Noted
  <2> QED
    BY <1>3, <1>4, <2>5, <2>6, <2>8, <2>9, OneRun
<1> QED
  BY <1>5, <1>6

-----------------------------------------------------------------------------
(* The steps of a worker. *)
LEMMA WorkerStepKeeps ==
  ASSUME RunInv, NEW r \in Run, NEW n \in Nodes(r), at[r][n] \notin {"idle", "over"},
         NEW w \in Places \ {"idle"}, Move(r, n, w),
         UNCHANGED <<pc, mem, next, gateway>>,
         IsMap(res', Results \union {"none"}),
         \A q \in Run : \A m \in Nodes(q) : q # r \/ m # n => res'[q][m] = res[q][m],
         \A q \in Run \ {r} : res'[q] = res[q],
         RowsOK', broken' \in [Run -> BOOLEAN],
         \A q \in Run \ {r} : Kept(q) /\ broken'[q] = broken[q],
         broken[r] => broken'[r],
         Noted(r, n, Shown(r, n)') \/ Kept(r),
         WorkerShows(r, n)', Shown(r, n)' # "waiting"
  PROVE  RunInv'
<1>1. /\ RunTypes /\ PhaseShows(r) /\ RowsShow(r) /\ pc[r] \in {"collecting", "aborted"}
      /\ Shown(r, Itself) = "running"
  BY DEF RunInv, PhaseShows
<1>2. Itself \in Nat /\ \A x \in Nodes(r) : x \in Nat /\ x # Itself
  BY Names
<1>3. /\ Shown(r, Itself)' = "running"
      /\ \A m \in Nodes(r) : m # n => Shown(r, m)' = Shown(r, m)
  BY <1>1, <1>2 DEF Noted, Kept
<1>4. /\ IsMap(at', Places) /\ at'[r][n] = w
      /\ \A q \in Run : \A m \in Nodes(q) : q # r \/ m # n => at'[q][m] = at[q][m]
  BY <1>1, MoveMaps DEF RunTypes
<1>5. \A q \in Run \ {r} : at'[q] = at[q]
  BY DEF Move
<1>6. RunTypes'
  BY <1>1, <1>4 DEF RunTypes, RowsOK
<1>7. Elsewhere(r)
  BY <1>5 DEF Elsewhere
<1>8. \A m \in Nodes(r) : m # n => WorkerShows(r, m)'
  BY <1>1, <1>3, <1>4 DEF PhaseShows, WorkerShows
<1>9. PhaseShows(r)'
  BY <1>1, <1>3, <1>4, <1>8 DEF PhaseShows
<1>10. RowsShow(r)'
  BY <1>1, <1>3 DEF RowsShow
<1> QED
  BY <1>6, <1>7, <1>9, <1>10, OneRun

(* The steps that write no row. *)
LEMMA QuietWorker ==
  ASSUME RunInv, NEW r \in Run, NEW n \in Nodes(r), at[r][n] \notin {"idle", "over"},
         NEW w \in Places \ {"idle"}, Move(r, n, w), UNCHANGED <<sink, parent, process>>,
         (UNCHANGED res) \/ \E s \in Results : Result(r, n, s),
         w \in {"perRun", "global"} => at[r][n] \in {"ready", "perRun"},
         w \notin {"exec", "ready"},
         w = "report" => \E s \in Results : Result(r, n, s),
         w = "over" => broken[r]
  PROVE  RunInv'
<1>1. RunTypes /\ PhaseShows(r) /\ RowsShow(r) /\ pc[r] \in {"collecting", "aborted"} /\ WorkerShows(r, n)
  BY DEF RunInv, PhaseShows
<1>2. n \in Nat /\ at[r][n] \in Places
  BY <1>1, Names DEF RunTypes, IsMap
<1>3. RowsOK' /\ \A q \in Run : Kept(q)
  BY RowsUntouched DEF sink
<1>4. /\ IsMap(res', Results \union {"none"})
      /\ \A q \in Run : \A m \in Nodes(q) : q # r \/ m # n => res'[q][m] = res[q][m]
      /\ \A q \in Run \ {r} : res'[q] = res[q]
      /\ w = "report" => res'[r][n] \in Results
  <2>1. IsMap(res, Results \union {"none"})
    BY <1>1 DEF RunTypes
  <2>2. CASE UNCHANGED res /\ w # "report"
    BY <2>1, <2>2
  <2>3. ASSUME NEW s \in Results, Result(r, n, s)
        PROVE  /\ IsMap(res', Results \union {"none"}) /\ res'[r][n] = s
               /\ \A q \in Run : \A m \in Nodes(q) : q # r \/ m # n => res'[q][m] = res[q][m]
               /\ \A q \in Run \ {r} : res'[q] = res[q]
    <3>1. /\ IsMap(res', Results \union {"none"}) /\ res'[r][n] = s
          /\ \A q \in Run : \A m \in Nodes(q) : q # r \/ m # n => res'[q][m] = res[q][m]
      BY <2>1, <2>3, ResultMaps
    <3> QED
      BY <2>3, <3>1 DEF Result
  <2> QED
    BY <2>2, <2>3
<1>5. /\ Shown(r, n)' = Shown(r, n) /\ broken' = broken /\ UNCHANGED <<pc, mem, next, gateway>>
      /\ broken' \in [Run -> BOOLEAN]
  BY <1>1, <1>2, <1>3 DEF Kept, sink, parent, process, RunTypes
<1>6. at'[r][n] = w
  BY <1>1, MoveMaps DEF RunTypes
<1>7. WorkerShows(r, n)'
  BY <1>1, <1>2, <1>4, <1>5, <1>6 DEF WorkerShows, Places
<1>8. Shown(r, n)' # "waiting"
  BY <1>1, <1>5 DEF RowsShow
<1> QED
  BY <1>3, <1>4, <1>5, <1>7, <1>8, WorkerStepKeeps

LEMMA QuietWorkersKeep ==
  ASSUME RunInv, NEW r \in Run, NEW n \in Nodes(r),
         Enter(r, n) \/ TakeRunSlot(r, n) \/ GiveUp(r, n) \/ Answer(r, n) \/ TimeOut(r, n) \/ StopWorker(r, n)
  PROVE  RunInv'
<1>1. {"cancelled", "timed_out", "failed", "completed"} \subseteq Results /\ Unstarted(r) \in Results
      /\ {"over", "report", "perRun", "global"} \subseteq Places \ {"idle"}
  BY DEF Results, Unstarted, Places
<1>2. CASE Enter(r, n)
  <2>1. CASE broken[r]
    BY <1>1, <1>2, <2>1, QuietWorker DEF Enter
  <2>2. CASE ~broken[r] /\ Over(r)
    BY <1>1, <1>2, <2>2, QuietWorker DEF Enter
  <2>3. CASE ~broken[r] /\ ~Over(r)
    BY <1>1, <1>2, <2>3, QuietWorker DEF Enter
  <2> QED
    BY <2>1, <2>2, <2>3
<1>3. CASE TakeRunSlot(r, n)
  <2>1. CASE Over(r)
    BY <1>1, <1>3, <2>1, QuietWorker DEF TakeRunSlot
  <2>2. CASE ~Over(r)
    BY <1>1, <1>3, <2>2, QuietWorker DEF TakeRunSlot
  <2> QED
    BY <2>1, <2>2
<1>4. CASE GiveUp(r, n)
  BY <1>1, <1>4, QuietWorker DEF GiveUp
<1>5. CASE Answer(r, n)
  BY <1>1, <1>5, QuietWorker DEF Answer, Accepted
<1>6. CASE TimeOut(r, n)
  BY <1>1, <1>6, QuietWorker DEF TimeOut
<1>7. CASE StopWorker(r, n)
  BY <1>1, <1>7, QuietWorker DEF StopWorker
<1> QED
  BY <1>2, <1>3, <1>4, <1>5, <1>6, <1>7

LEMMA TakeGlobalSlot_Keeps ==
  ASSUME RunInv, NEW r \in Run, NEW n \in Nodes(r), TakeGlobalSlot(r, n)
  PROVE  RunInv'
<1>1. /\ RunTypes /\ PhaseShows(r) /\ RowsShow(r) /\ at[r][n] = "global"
      /\ pc[r] \in {"collecting", "aborted"} /\ Shown(r, Itself) = "running" /\ Shown(r, n) = "queued"
  BY DEF RunInv, TakeGlobalSlot, PhaseShows, WorkerShows
<1>2. n \in Nat
  BY Names
<1>3. /\ RowsOK' /\ broken' \in [Run -> BOOLEAN]
      /\ \A q \in Run \ {r} : Kept(q) /\ broken'[q] = broken[q]
      /\ broken[r] => broken'[r]
      /\ Noted(r, n, "running") \/ (Kept(r) /\ broken'[r])
  <2>1. Shown(r, n) \notin Ended /\ Shown(r, Itself) \notin Ended /\ "running" \in Statuses
    BY <1>1 DEF Ended, Statuses, Active
  <2> QED
    BY <1>2, <2>1, RowEmitted DEF TakeGlobalSlot
<1>4. UNCHANGED <<pc, mem, next, gateway>>
  BY DEF TakeGlobalSlot, parent, process
<1>5. Shown(r, n)' # "waiting" /\ (Noted(r, n, Shown(r, n)') \/ Kept(r))
  BY <1>1, <1>2, <1>3 DEF Noted, Kept
<1>6. {"over", "report", "exec"} \subseteq Places \ {"idle"} /\ {"failed", "timed_out"} \subseteq Results
  BY DEF Places, Results
<1>7. IsMap(at, Places) /\ IsMap(res, Results \union {"none"})
  BY <1>1 DEF RunTypes
<1>8. CASE broken'[r]
  <2>1. Move(r, n, "over") /\ Result(r, n, "failed")
    BY <1>8 DEF TakeGlobalSlot
  <2>2. /\ IsMap(res', Results \union {"none"}) /\ res'[r][n] = "failed"
        /\ \A q \in Run : \A m \in Nodes(q) : q # r \/ m # n => res'[q][m] = res[q][m]
    BY <1>6, <1>7, <2>1, ResultMaps
  <2>3. \A q \in Run \ {r} : res'[q] = res[q]
    BY <2>1 DEF Result
  <2>4. at'[r][n] = "over"
    BY <1>6, <1>7, <2>1, MoveMaps
  <2>5. WorkerShows(r, n)'
    BY <1>8, <2>4 DEF WorkerShows
  <2> QED
    BY <1>1, <1>3, <1>4, <1>5, <1>6, <2>1, <2>2, <2>3, <2>5, WorkerStepKeeps
<1>9. CASE ~broken'[r] /\ late[r]
  <2>1. Move(r, n, "report") /\ Result(r, n, "timed_out")
    BY <1>9 DEF TakeGlobalSlot
  <2>2. /\ IsMap(res', Results \union {"none"}) /\ res'[r][n] = "timed_out"
        /\ \A q \in Run : \A m \in Nodes(q) : q # r \/ m # n => res'[q][m] = res[q][m]
    BY <1>6, <1>7, <2>1, ResultMaps
  <2>3. \A q \in Run \ {r} : res'[q] = res[q]
    BY <2>1 DEF Result
  <2>4. at'[r][n] = "report" /\ Shown(r, n)' = "running"
    BY <1>3, <1>6, <1>7, <1>9, <2>1, MoveMaps DEF Noted
  <2>5. WorkerShows(r, n)'
    BY <1>6, <2>2, <2>4 DEF WorkerShows
  <2> QED
    BY <1>1, <1>3, <1>4, <1>5, <1>6, <2>1, <2>2, <2>3, <2>5, WorkerStepKeeps
<1>10. CASE ~broken'[r] /\ ~late[r]
  <2>1. Move(r, n, "exec") /\ UNCHANGED res
    BY <1>10 DEF TakeGlobalSlot
  <2>4. at'[r][n] = "exec" /\ Shown(r, n)' = "running"
    BY <1>3, <1>6, <1>7, <1>10, <2>1, MoveMaps DEF Noted
  <2>5. WorkerShows(r, n)'
    BY <1>6, <2>4 DEF WorkerShows
  <2> QED
    BY <1>1, <1>3, <1>4, <1>5, <1>6, <1>7, <2>1, <2>5, WorkerStepKeeps
<1> QED
  BY <1>8, <1>9, <1>10

LEMMA Report_Keeps ==
  ASSUME RunInv, NEW r \in Run, NEW n \in Nodes(r), Report(r, n)
  PROVE  RunInv'
<1>1. /\ RunTypes /\ PhaseShows(r) /\ RowsShow(r) /\ at[r][n] = "report"
      /\ pc[r] \in {"collecting", "aborted"} /\ Shown(r, Itself) = "running"
      /\ Shown(r, n) \in {"queued", "running"} /\ res[r][n] \in Results
  BY DEF RunInv, Report, PhaseShows, WorkerShows
<1>2. n \in Nat
  BY Names
<1>3. /\ RowsOK' /\ broken' \in [Run -> BOOLEAN]
      /\ \A q \in Run \ {r} : Kept(q) /\ broken'[q] = broken[q]
      /\ broken[r] => broken'[r]
      /\ Noted(r, n, res[r][n]) \/ (Kept(r) /\ broken'[r])
  <2>1. Shown(r, n) \notin Ended /\ Shown(r, Itself) \notin Ended /\ res[r][n] \in Statuses
    BY <1>1 DEF Ended, Statuses, Active, Results
  <2>2. Emit(r, n, res[r][n]) \/ EmitUsed(r, n, res[r][n])
    BY DEF Report
  <2> QED
    BY <1>2, <2>1, <2>2, RowEmitted
<1>4. UNCHANGED <<pc, mem, next, gateway, res>> /\ Move(r, n, "over") /\ "over" \in Places \ {"idle"}
  BY DEF Report, parent, process, Places
<1>5. Shown(r, n)' # "waiting" /\ (Noted(r, n, Shown(r, n)') \/ Kept(r))
  BY <1>1, <1>2, <1>3 DEF Noted, Kept, Results
<1>6. at'[r][n] = "over"
  BY <1>1, <1>4, MoveMaps DEF RunTypes
<1>7. WorkerShows(r, n)'
  BY <1>1, <1>3, <1>4, <1>6 DEF WorkerShows, Noted
<1>8. IsMap(res', Results \union {"none"})
  BY <1>1, <1>4 DEF RunTypes
<1> QED
  BY <1>1, <1>3, <1>4, <1>5, <1>7, <1>8, WorkerStepKeeps

-----------------------------------------------------------------------------
(* The parent goes on with its workers, or is cancelled. *)
LEMMA NextWorker_Keeps ==
  ASSUME RunInv, NEW r \in Run, NextWorker(r)
  PROVE  RunInv'
<1>1. /\ RunTypes /\ PhaseShows(r) /\ RowsShow(r) /\ pc[r] = "collecting" /\ r \notin FanOut
      /\ next[r] + 1 \in Nodes(r) /\ next[r] \in Nat
  BY DEF RunInv, NextWorker, RunTypes
<1>2. Itself \in Nat /\ \A x \in Nodes(r) : x \in Nat /\ x # Itself
  BY Names
<1>3. RowsOK' /\ \A q \in Run : Kept(q)
  BY RowsUntouched DEF NextWorker, sink
<1>4. PICK k \in Nodes(r) : k = next[r] + 1
  BY <1>1
<1>5. at[r][k] = "idle" /\ Shown(r, k) = "queued" /\ "ready" \in Places /\ "report" \in Places /\ {"failed", "cancelled"} \subseteq Results
  BY <1>1, <1>2, <1>4 DEF PhaseShows, WorkerShows, Places, Results
<1>6. /\ UNCHANGED <<pc, mem, broken, gateway>> /\ next' = [next EXCEPT ![r] = k]
      /\ \/ Move(r, k, "ready") /\ UNCHANGED res
         \/ Move(r, k, "report") /\ \E s \in Results : Result(r, k, s)
  BY <1>4, <1>5 DEF NextWorker, sink, process
<1>7. PICK w \in {"ready", "report"} : Move(r, k, w) /\ (w = "report" => \E s \in Results : Result(r, k, s)) /\ (w = "ready" => UNCHANGED res)
  BY <1>6
<1>8. /\ IsMap(at', Places) /\ at'[r][k] = w
      /\ \A q \in Run : \A m \in Nodes(q) : q # r \/ m # k => at'[q][m] = at[q][m]
  BY <1>1, <1>5, <1>7, MoveMaps DEF RunTypes
<1>9. /\ IsMap(res', Results \union {"none"})
      /\ \A q \in Run : \A m \in Nodes(q) : q # r \/ m # k => res'[q][m] = res[q][m]
      /\ \A q \in Run \ {r} : res'[q] = res[q]
      /\ w = "report" => res'[r][k] \in Results
  <2>1. IsMap(res, Results \union {"none"})
    BY <1>1 DEF RunTypes
  <2>2. CASE UNCHANGED res /\ w # "report"
    BY <2>1, <2>2
  <2>3. ASSUME NEW s \in Results, Result(r, k, s)
        PROVE  /\ IsMap(res', Results \union {"none"}) /\ res'[r][k] = s
               /\ \A q \in Run : \A m \in Nodes(q) : q # r \/ m # k => res'[q][m] = res[q][m]
               /\ \A q \in Run \ {r} : res'[q] = res[q]
    <3>1. /\ IsMap(res', Results \union {"none"}) /\ res'[r][k] = s
          /\ \A q \in Run : \A m \in Nodes(q) : q # r \/ m # k => res'[q][m] = res[q][m]
      BY <2>1, <2>3, ResultMaps
    <3> QED
      BY <2>3, <3>1 DEF Result
  <2> QED
    BY <1>7, <2>2, <2>3
<1>10. \A q \in Run \ {r} : at'[q] = at[q]
  BY <1>7 DEF Move
<1>11. RunTypes'
  BY <1>1, <1>2, <1>3, <1>6, <1>8, <1>9 DEF RunTypes, RowsOK
<1>12. Elsewhere(r) /\ next'[r] = k /\ pc'[r] = "collecting" /\ broken'[r] = broken[r]
  BY <1>1, <1>6, <1>9, <1>10 DEF Elsewhere, RunTypes
<1>13. /\ Shown(r, Itself)' = Shown(r, Itself) /\ trace'[r] = trace[r]
       /\ \A m \in Nodes(r) : Shown(r, m)' = Shown(r, m)
  BY <1>2, <1>3 DEF Kept
<1>14. \A m \in Nodes(r) : WorkerShows(r, m)
  BY <1>1 DEF PhaseShows
<1>15. \A m \in Nodes(r) : WorkerShows(r, m)'
  <2>1. WorkerShows(r, k)'
    BY <1>5, <1>7, <1>8, <1>9, <1>13 DEF WorkerShows
  <2>2. \A m \in Nodes(r) : m # k => WorkerShows(r, m)'
    BY <1>1, <1>8, <1>9, <1>12, <1>13, <1>14 DEF WorkerShows
  <2> QED
    BY <2>1, <2>2
<1>16. PhaseShows(r)'
  <2>1. \A m \in Nodes(r) : m > k => at'[r][m] = "idle"
    BY <1>1, <1>2, <1>4, <1>8 DEF PhaseShows
  <2> QED
    BY <1>1, <1>12, <1>13, <1>15, <2>1 DEF PhaseShows
<1>17. RowsShow(r)'
  BY <1>1, <1>6, <1>12, <1>13 DEF RowsShow
<1> QED
  BY <1>3, <1>6, <1>11, <1>12, <1>16, <1>17, OneRun

LEMMA Collect_Keeps ==
  ASSUME RunInv, NEW r \in Run, Collect(r)
  PROVE  RunInv'
<1>1. RunTypes /\ PhaseShows(r) /\ RowsShow(r) /\ pc[r] = "collecting" /\ \A n \in Nodes(r) : at[r][n] = "over"
  BY DEF RunInv, Collect, Collected
<1>2. Itself \in Nat /\ \A x \in Nodes(r) : x \in Nat /\ x # Itself
  BY Names
<1>3. RowsOK' /\ \A q \in Run : Kept(q)
  BY RowsUntouched DEF Collect, sink
<1>4. UNCHANGED <<next, at, res, gateway, broken>>
  BY DEF Collect, sink, workers, process
<1>5. /\ Shown(r, Itself)' = Shown(r, Itself) /\ trace'[r] = trace[r] /\ Shown(r, Itself) = "running"
      /\ \A m \in Nodes(r) : Shown(r, m)' = Shown(r, m)
  BY <1>1, <1>2, <1>3 DEF Kept, PhaseShows
<1>6. \/ pc' = [pc EXCEPT ![r] = "failing"] /\ mem' = [mem EXCEPT ![r] = "failed"]
      \/ \E v \in Results \ {"completed"} : pc' = [pc EXCEPT ![r] = "ending"] /\ mem' = [mem EXCEPT ![r] = v]
      \/ /\ pc' = [pc EXCEPT ![r] = "synthesis"] /\ mem' = [mem EXCEPT ![r] = "running"]
         /\ ~broken[r] /\ Succeeded(r)
  <2>1. \A v \in Verdicts(r) : v \in (Results \ {"completed"}) \union {"running"} /\ (v = "running" => Succeeded(r))
    BY DEF Verdicts, Results
  <2> QED
    BY <2>1 DEF Collect, FinishEventFailure, Goto, Remember, Results
<1>7. ~broken[r] /\ Succeeded(r) => Finished(r)'
  BY <1>1, <1>2, <1>5 DEF PhaseShows, WorkerShows, Succeeded, Completed, Finished
<1>8. RunTypes' /\ Elsewhere(r)
  <2>1. PICK p \in Phases, v \in Statuses : pc' = [pc EXCEPT ![r] = p] /\ mem' = [mem EXCEPT ![r] = v]
    <3>1. {"failing", "ending", "synthesis"} \subseteq Phases /\ {"failed", "running"} \union Results \subseteq Statuses
      BY DEF Phases, Statuses, Ended, Active, Results
    <3> QED
      BY <1>6, <3>1
  <2>2. pc \in [Run -> Phases] /\ mem \in [Run -> Statuses \union {"none"}]
    BY <1>1 DEF RunTypes
  <2>3. /\ pc' \in [Run -> Phases] /\ mem' \in [Run -> Statuses \union {"none"}]
        /\ \A q \in Run \ {r} : pc'[q] = pc[q] /\ mem'[q] = mem[q]
    BY <2>1, <2>2
  <2>4. trace' \in [Run -> Seq(Row)]
    BY <1>3 DEF RowsOK
  <2>5. RunTypes'
    BY <1>1, <1>4, <2>3, <2>4 DEF RunTypes, IsMap
  <2> QED
    BY <1>4, <2>3, <2>5 DEF Elsewhere
<1>9. /\ pc'[r] \in {"failing", "ending", "synthesis"}
      /\ pc'[r] = "failing" => mem'[r] = "failed"
      /\ pc'[r] = "ending" => mem'[r] \in Results \ {"completed"}
      /\ pc'[r] = "synthesis" => mem'[r] = "running" /\ Finished(r)'
  BY <1>1, <1>6, <1>7 DEF RunTypes
<1>10. PhaseShows(r)'
  BY <1>1, <1>4, <1>5, <1>9 DEF PhaseShows
<1>11. RowsShow(r)'
  BY <1>1, <1>4, <1>5, <1>9 DEF RowsShow
<1> QED
  BY <1>3, <1>4, <1>8, <1>10, <1>11, OneRun

LEMMA CancelCollecting_Keeps ==
  ASSUME RunInv, NEW r \in Run, CancelCollecting(r), UNCHANGED gateway
  PROVE  RunInv'
<1>1. RunTypes /\ PhaseShows(r) /\ RowsShow(r) /\ pc[r] = "collecting" /\ Shown(r, Itself) = "running"
  BY DEF RunInv, CancelCollecting, PhaseShows
<1>2. Itself \in Nat /\ \A x \in Nodes(r) : x \in Nat /\ x # Itself
  BY Names
<1>3. RowsOK' /\ \A q \in Run : Kept(q)
  BY RowsUntouched DEF CancelCollecting, sink
<1>4. UNCHANGED <<next, mem, broken>>
  BY DEF CancelCollecting, sink
<1>5. /\ at = [q \in Run |-> [m \in Nodes(q) |-> at[q][m]]]
      /\ res = [q \in Run |-> [m \in Nodes(q) |-> res[q][m]]]
      /\ \A q \in Run : \A m \in Nodes(q) : at[q][m] \in Places /\ res[q][m] \in Results \union {"none"}
  BY <1>1 DEF RunTypes, IsMap
<1>6. /\ at' = [q \in Run |-> [m \in Nodes(q) |->
                 IF q # r THEN at[q][m]
                 ELSE IF Dies(r, m) THEN "over" ELSE IF at[r][m] = "exec" THEN "report" ELSE at[r][m]]]
      /\ res' = [q \in Run |-> [m \in Nodes(q) |-> IF q = r /\ at[r][m] = "exec" THEN "cancelled" ELSE res[q][m]]]
  BY <1>5 DEF CancelCollecting, CancelWorkers
<1>7. \A q \in Run : \A m \in Nodes(q) :
        /\ at'[q][m] = IF q # r THEN at[q][m]
                       ELSE IF Dies(r, m) THEN "over" ELSE IF at[r][m] = "exec" THEN "report" ELSE at[r][m]
        /\ res'[q][m] = IF q = r /\ at[r][m] = "exec" THEN "cancelled" ELSE res[q][m]
  BY <1>6
<1>8. \A q \in Run : \A m \in Nodes(q) : at[q][m] \in Places /\ res[q][m] \in Results \union {"none"}
  BY <1>5
<1>9. IsMap(at', Places) /\ IsMap(res', Results \union {"none"})
  <2>1. /\ at' = [q \in Run |-> [m \in Nodes(q) |-> at'[q][m]]]
        /\ res' = [q \in Run |-> [m \in Nodes(q) |-> res'[q][m]]]
    BY <1>6
  <2>2. \A q \in Run : \A m \in Nodes(q) : at'[q][m] \in Places /\ res'[q][m] \in Results \union {"none"}
    BY <1>7, <1>8 DEF Places, Results
  <2> QED
    BY <2>1, <2>2 DEF IsMap
<1>10. \A q \in Run \ {r} : at'[q] = at[q] /\ res'[q] = res[q]
  BY <1>5 DEF CancelCollecting, CancelWorkers
<1>11. pc' = [pc EXCEPT ![r] = "aborted"] \/ (UNCHANGED pc /\ \A m \in Nodes(r) : ~Dies(r, m))
  BY DEF CancelCollecting, Goto
<1>12. RunTypes' /\ Elsewhere(r)
  BY <1>1, <1>3, <1>4, <1>9, <1>10, <1>11 DEF RunTypes, RowsOK, Elsewhere, Phases
<1>13. /\ Shown(r, Itself)' = "running" /\ trace'[r] = trace[r]
       /\ \A m \in Nodes(r) : Shown(r, m)' = Shown(r, m)
  BY <1>1, <1>2, <1>3 DEF Kept
<1>14. \A m \in Nodes(r) : WorkerShows(r, m)
  BY <1>1 DEF PhaseShows
<1>15. pc'[r] = "aborted" \/ (pc'[r] = "collecting" /\ \A m \in Nodes(r) : ~Dies(r, m))
  BY <1>1, <1>11 DEF RunTypes
<1>16. \A m \in Nodes(r) : WorkerShows(r, m)'
  BY <1>1, <1>4, <1>7, <1>8, <1>13, <1>14, <1>15 DEF WorkerShows, Dies, Results, Places
<1>17. \A m \in Nodes(r) : at[r][m] = "idle" => at'[r][m] = "idle"
  BY <1>7 DEF Dies
<1>18. PhaseShows(r)'
  BY <1>1, <1>4, <1>13, <1>15, <1>16, <1>17 DEF PhaseShows
<1>19. RowsShow(r)'
  BY <1>1, <1>13, <1>15 DEF RowsShow
<1> QED
  BY <1>3, <1>12, <1>18, <1>19, OneRun

-----------------------------------------------------------------------------
(* The end of a Run. *)
LEMMA EndRun_Keeps ==
  ASSUME RunInv, NEW r \in Run, EndRun(r)
  PROVE  RunInv'
<1>1. /\ RunTypes /\ PhaseShows(r) /\ RowsShow(r) /\ pc[r] = "ending"
      /\ Shown(r, Itself) = "running" /\ mem[r] \in Results \ {"completed"}
  BY DEF RunInv, EndRun, PhaseShows
<1>2. Itself \in Nat /\ (\A x \in Nodes(r) : x \in Nat /\ x # Itself) /\ mem[r] \in Statuses /\ "running" \notin Ended
  BY <1>1, Names DEF Results, Statuses, Ended
<1>3. UNCHANGED <<next, at, res, gateway>>
  BY DEF EndRun, workers, process
<1>4. CASE Emitted(r, Itself, mem[r]) /\ Goto(r, "synthesis") /\ UNCHANGED mem
  <2>1. RowsOK' /\ Noted(r, Itself, mem[r]) /\ \A q \in Run \ {r} : Kept(q)
    BY <1>1, <1>2, <1>4, RowWritten DEF Emitted
  <2>2. RunTypes' /\ Elsewhere(r) /\ pc'[r] = "synthesis" /\ mem'[r] = mem[r]
    BY <1>1, <1>3, <1>4, <2>1 DEF RunTypes, RowsOK, Elsewhere, Emitted, Goto, Phases
  <2>3. PhaseShows(r)'
    BY <1>1, <1>2, <1>3, <2>1, <2>2 DEF PhaseShows, Noted, Results
  <2>4. RowsShow(r)'
    BY <1>1, <1>2, <1>3, <2>1, <2>2 DEF PhaseShows, RowsShow, Noted, Results
  <2> QED
    BY <1>3, <2>1, <2>2, <2>3, <2>4, OneRun
<1>5. CASE Refused(r) /\ FinishEventFailure(r, "failing") /\ UNCHANGED trace
  <2>1. RowsOK' /\ \A q \in Run : Kept(q)
    BY <1>5, RowsUntouched
  <2>2. RunTypes' /\ Elsewhere(r) /\ pc'[r] = "failing" /\ mem'[r] = "failed"
    BY <1>1, <1>3, <1>5, <2>1
       DEF RunTypes, RowsOK, Elsewhere, Refused, FinishEventFailure, Remember, Goto, Phases, Statuses, Ended
  <2>3. PhaseShows(r)'
    BY <1>1, <1>2, <1>3, <2>1, <2>2 DEF PhaseShows, Kept
  <2>4. RowsShow(r)'
    BY <1>1, <1>2, <1>3, <2>1, <2>2 DEF RowsShow, Kept
  <2> QED
    BY <1>3, <2>1, <2>2, <2>3, <2>4, OneRun
<1> QED
  BY <1>4, <1>5 DEF EndRun

LEMMA FinalizeKeeps ==
  ASSUME RunInv, NEW r \in Run, pc[r] \in {"synthesis", "cancelling"},
         NEW o \in Results, Finalize(r, o), UNCHANGED <<next, at, res, gateway>>
  PROVE  RunInv'
<1>1. RunTypes /\ PhaseShows(r) /\ RowsShow(r)
  BY DEF RunInv
<1>2. Itself \in Nat /\ \A x \in Nodes(r) : x \in Nat /\ x # Itself
  BY Names
<1>3. CASE mem[r] \in Ended
  <2>1. RowsOK' /\ \A q \in Run : Kept(q)
    BY <1>3, RowsUntouched DEF Finalize, sink
  <2>2. RunTypes' /\ Elsewhere(r) /\ pc'[r] = "done"
    BY <1>1, <1>3, <2>1
       DEF RunTypes, RowsOK, Elsewhere, Finalize, Forget, Remember, Goto, Phases, sink
  <2>3. PhaseShows(r)'
    BY <1>1, <1>2, <2>1, <2>2 DEF PhaseShows, Kept
  <2>4. RowsShow(r)'
    BY <1>1, <1>2, <2>1, <2>2 DEF RowsShow, Kept
  <2> QED
    BY <2>1, <2>2, <2>3, <2>4, OneRun
<1>4. CASE mem[r] \notin Ended
  <2>1. mem[r] = "running" /\ Shown(r, Itself) \in {"running", "waiting"} /\ Shown(r, Itself) \notin Ended
    BY <1>1, <1>4 DEF PhaseShows, Ended, Results
  <2>2. CASE Emitted(r, Itself, Outcome(r, o)) /\ Forget(r)
    <3>1. PICK s \in Results : s = Outcome(r, o)
      BY DEF Outcome, Results
    <3>2. s \in Statuses /\ "interrupted" \notin Results
      BY DEF Statuses, Ended, Results
    <3>3. RowsOK' /\ Noted(r, Itself, s) /\ \A q \in Run \ {r} : Kept(q)
      BY <1>2, <2>1, <2>2, <3>1, <3>2, RowWritten DEF Emitted
    <3>4. RunTypes' /\ Elsewhere(r) /\ pc'[r] = "done"
      BY <1>1, <2>2, <3>3
         DEF RunTypes, RowsOK, Elsewhere, Emitted, Forget, Remember, Goto, Phases
    <3>5. PhaseShows(r)'
      BY <1>1, <1>2, <3>2, <3>3, <3>4 DEF PhaseShows, Noted
    <3>6. RowsShow(r)'
      BY <1>1, <1>2, <3>2, <3>3, <3>4 DEF PhaseShows, RowsShow, Noted
    <3> QED
      BY <3>3, <3>4, <3>5, <3>6, OneRun
  <2>3. CASE Refused(r) /\ FinishEventFailure(r, "unsaved") /\ UNCHANGED trace
    <3>1. RowsOK' /\ \A q \in Run : Kept(q)
      BY <2>3, RowsUntouched
    <3>2. RunTypes' /\ Elsewhere(r) /\ pc'[r] = "unsaved"
      BY <1>1, <2>3, <3>1
         DEF RunTypes, RowsOK, Elsewhere, Refused, FinishEventFailure, Remember, Goto, Phases, Statuses, Ended
    <3>3. PhaseShows(r)'
      BY <1>1, <1>2, <2>1, <3>1, <3>2 DEF PhaseShows, Kept
    <3>4. RowsShow(r)'
      BY <1>1, <1>2, <3>1, <3>2 DEF RowsShow, Kept
    <3> QED
      BY <3>1, <3>2, <3>3, <3>4, OneRun
  <2> QED
    BY <1>4, <2>2, <2>3 DEF Finalize
<1> QED
  BY <1>3, <1>4

LEMMA EndingsKeep ==
  ASSUME RunInv, NEW r \in Run,
         Finish(r) \/ FinishCancelled(r) \/ (CancelSynthesis(r) /\ UNCHANGED gateway)
  PROVE  RunInv'
<1>1. Endings(r) \subseteq Results /\ "cancelled" \in Results
  BY DEF Endings, Results
<1>2. CASE Finish(r)
  BY <1>1, <1>2, FinalizeKeeps DEF Finish, workers, process
<1>3. CASE FinishCancelled(r)
  BY <1>1, <1>3, FinalizeKeeps DEF FinishCancelled, workers, process
<1>4. CASE CancelSynthesis(r) /\ UNCHANGED gateway
  BY <1>1, <1>4, FinalizeKeeps DEF CancelSynthesis, workers
<1> QED
  BY <1>2, <1>3, <1>4

LEMMA CancelApproval_Keeps ==
  ASSUME RunInv, NEW r \in Run, CancelApproval(r), UNCHANGED gateway
  PROVE  RunInv'
<1>1. /\ RunTypes /\ PhaseShows(r) /\ RowsShow(r) /\ pc[r] = "approval"
      /\ Shown(r, Itself) \in {"running", "waiting"}
  BY DEF RunInv, CancelApproval, PhaseShows
<1>2. Itself \in Nat /\ \A x \in Nodes(r) : x \in Nat /\ x # Itself
  BY Names
<1>3. /\ RowsOK' /\ broken' \in [Run -> BOOLEAN]
      /\ \A q \in Run \ {r} : Kept(q) /\ broken'[q] = broken[q]
      /\ broken[r] => broken'[r]
      /\ Noted(r, Itself, "running") \/ (Kept(r) /\ broken'[r])
  <2>1. Shown(r, Itself) \notin Ended /\ "running" \in Statuses
    BY <1>1 DEF Ended, Statuses, Active
  <2> QED
    BY <1>2, <2>1, RowEmitted DEF CancelApproval
<1>4. UNCHANGED <<next, at, res>>
  BY DEF CancelApproval, workers
<1>5. RunTypes' /\ Elsewhere(r) /\ pc'[r] = "cancelling" /\ mem'[r] = "running"
  BY <1>1, <1>3, <1>4 DEF RunTypes, RowsOK, Elsewhere, CancelApproval, Remember, Goto, Phases, Statuses, Active
<1>6. /\ Shown(r, Itself)' \in {"running", "waiting"}
      /\ \A m \in Nodes(r) : Shown(r, m)' = Shown(r, m)
  BY <1>1, <1>2, <1>3 DEF Noted, Kept
<1>7. Finished(r)'
  BY <1>1, <1>6 DEF PhaseShows, Finished
<1>8. PhaseShows(r)'
  BY <1>1, <1>4, <1>5, <1>6, <1>7 DEF PhaseShows
<1>9. RowsShow(r)'
  BY <1>1, <1>5, <1>6 DEF RowsShow
<1> QED
  BY <1>3, <1>4, <1>5, <1>8, <1>9, OneRun

LEMMA CancelTurn_Keeps ==
  ASSUME RunInv, NEW r \in Run, CancelTurn(r)
  PROVE  RunInv'
BY CancelCollecting_Keeps, EndingsKeep, CancelApproval_Keeps DEF CancelTurn, process

-----------------------------------------------------------------------------
(* The end of the process, and the next start. *)
LEMMA NewProcessKeeps ==
  ASSUME RunInv, Close \/ Restart \/ ProcessEnds \/ Up
  PROVE  RunInv'
<1>1. RunTypes /\ \A q \in Run : PhaseShows(q) /\ RowsShow(q) /\ TraceOK(trace[q])
  BY DEF RunInv
<1>2. \A q \in Run : \A x \in Nodes(q) : x \in Nat /\ x # Itself
  BY Names
<1>3. UNCHANGED trace
  BY DEF Close, Restart, ProcessEnds, Up, sink
<1>4. RowsOK' /\ \A q \in Run : Kept(q)
  BY <1>3, RowsUntouched
<1>5. \A q \in Run : /\ Shown(q, Itself)' = Shown(q, Itself) /\ trace'[q] = trace[q] /\ TraceOK(trace[q])'
                     /\ \A m \in Nodes(q) : Shown(q, m)' = Shown(q, m)
  BY <1>2, <1>4, Names DEF Kept, RowsOK
<1>6. CASE Close \/ Restart \/ Up
  <2>1. UNCHANGED <<pc, mem, next, at, res, broken>>
    BY <1>6 DEF Close, Restart, Up, sink, parent, workers
  <2>2. RunTypes'
    BY <1>1, <1>3, <1>6, <2>1 DEF RunTypes, Close, Restart, Up
  <2>3. \A q \in Run : PhaseShows(q)'
    BY <1>1, <1>5, <2>1 DEF PhaseShows, WorkerShows, Finished
  <2>4. ASSUME NEW q \in Run
        PROVE  RowsShow(q)'
    <3>1. CASE Close
      BY <1>1, <1>5, <2>1, <3>1 DEF RowsShow, Close
    <3>2. CASE Restart
      BY <1>1, <1>5, <2>1, <3>2 DEF RowsShow, Restart
    <3>3. CASE Up
      <4>1. trace[q] = <<>> \/ Shown(q, Itself) \in Ended
        BY <1>1, <3>3, SeenIsLast, Names DEF Up, Interrupted, Shown
      <4> QED
        BY <1>1, <1>5, <2>1, <3>3, <4>1 DEF RowsShow, Up
    <3> QED
      BY <1>6, <3>1, <3>2, <3>3
  <2> QED
    BY <1>5, <2>2, <2>3, <2>4 DEF RunInv
<1>7. CASE ProcessEnds
  <2>1. /\ gateway' = "down" /\ UNCHANGED trace
        /\ pc' = [r \in Run |-> IF pc[r] = "idle" THEN "idle" ELSE "lost"]
        /\ mem' = [r \in Run |-> "none"] /\ broken' = [r \in Run |-> FALSE] /\ next' = [r \in Run |-> 1]
        /\ at' = [r \in Run |-> [n \in Nodes(r) |-> "idle"]]
        /\ res' = [r \in Run |-> [n \in Nodes(r) |-> "none"]]
    BY <1>7 DEF ProcessEnds
  <2>2. IsMap(at', Places) /\ IsMap(res', Results \union {"none"})
    <3>1. \A q \in Run : \A m \in Nodes(q) : at'[q][m] = "idle" /\ res'[q][m] = "none"
      BY <2>1
    <3>2. /\ at' = [q \in Run |-> [m \in Nodes(q) |-> at'[q][m]]]
          /\ res' = [q \in Run |-> [m \in Nodes(q) |-> res'[q][m]]]
      BY <2>1
    <3> QED
      BY <3>1, <3>2 DEF IsMap, Places
  <2>3. pc' \in [Run -> Phases] /\ broken' \in [Run -> BOOLEAN] /\ mem' \in [Run -> Statuses \union {"none"}] /\ next' \in [Run -> Nat]
    BY <2>1 DEF Phases
  <2>4. RunTypes'
    BY <1>1, <2>1, <2>2, <2>3 DEF RunTypes
  <2>5. \A q \in Run : /\ pc'[q] \in {"idle", "lost"} /\ (pc'[q] = "idle" => pc[q] = "idle") /\ next'[q] = 1
                       /\ \A m \in Nodes(q) : at'[q][m] = "idle"
    BY <2>1
  <2>6. \A q \in Run : PhaseShows(q)'
    BY <1>1, <1>5, <2>5 DEF PhaseShows
  <2>7. \A q \in Run : RowsShow(q)'
    BY <1>1, <1>5, <2>1, <2>5 DEF RowsShow
  <2> QED
    BY <1>5, <2>4, <2>6, <2>7 DEF RunInv
<1> QED
  BY <1>6, <1>7

LEMMA RecoveryKeeps ==
  ASSUME RunInv, NEW r \in Run, RecoverRun(r) \/ \E n \in Nodes(r) : RecoverNode(r, n)
  PROVE  RunInv'
<1>1. /\ RunTypes /\ PhaseShows(r) /\ RowsShow(r) /\ TraceOK(trace[r])
      /\ gateway = "recovering" /\ trace[r] # <<>> /\ EndsOf(trace[r], Itself) = {}
  BY DEF RunInv, RecoverRun, RecoverNode, Interrupted
<1>2. Itself \in Nat /\ \A x \in Nodes(r) : x \in Nat /\ x # Itself
  BY Names
<1>3. pc[r] = "lost" /\ Shown(r, Itself) \notin Ended /\ "interrupted" \in Statuses
  BY <1>1, <1>2, SeenIsLast DEF PhaseShows, RowsShow, Shown, Statuses, Ended
<1>4. UNCHANGED <<pc, mem, next, at, res, broken, gateway>>
  BY DEF RecoverRun, RecoverNode, Emitted, parent, workers, process
<1>5. CASE RecoverRun(r)
  <2>1. RowsOK' /\ Noted(r, Itself, "interrupted") /\ \A q \in Run \ {r} : Kept(q)
    BY <1>2, <1>3, <1>5, RowWritten DEF RecoverRun, Emitted
  <2>2. \A m \in Nodes(r) : Shown(r, m) \notin Active
    <3> SUFFICES ASSUME NEW m \in Nodes(r), Shown(r, m) \in Active
                 PROVE  FALSE
      OBVIOUS
    <3>1. m \notin OpenNodes(r)
      BY <1>5 DEF RecoverRun
    <3> QED
      BY <1>1, <1>2, <3>1, SeenIsLast DEF OpenNodes, Shown, Active, Ended
  <2>3. RunTypes' /\ Elsewhere(r)
    BY <1>1, <1>4, <2>1 DEF RunTypes, RowsOK, Elsewhere
  <2>4. PhaseShows(r)' /\ RowsShow(r)'
    BY <1>1, <1>2, <1>3, <1>4, <2>1, <2>2 DEF PhaseShows, RowsShow, Noted
  <2> QED
    BY <1>4, <2>1, <2>3, <2>4, OneRun
<1>6. ASSUME NEW n \in Nodes(r), RecoverNode(r, n)
      PROVE  RunInv'
  <2>1. Shown(r, n) \notin Ended /\ n \in Nat
    <3>1. n \in OpenNodes(r)
      BY <1>6 DEF RecoverNode
    <3> QED
      BY <1>1, <1>2, <3>1, SeenIsLast DEF OpenNodes, Shown
  <2>2. RowsOK' /\ Noted(r, n, "interrupted") /\ \A q \in Run \ {r} : Kept(q)
    BY <1>3, <1>6, <2>1, RowWritten DEF RecoverNode, Emitted
  <2>3. RunTypes' /\ Elsewhere(r)
    BY <1>1, <1>4, <2>2 DEF RunTypes, RowsOK, Elsewhere
  <2>4. Shown(r, Itself)' = Shown(r, Itself) /\ Shown(r, n)' = "interrupted" /\ \A m \in Nodes(r) \ {n} : Shown(r, m)' = Shown(r, m)
    BY <1>2, <2>2 DEF Noted
  <2>5. PhaseShows(r)' /\ RowsShow(r)'
    BY <1>1, <1>3, <1>4, <2>4 DEF PhaseShows, RowsShow, Ended
  <2> QED
    BY <1>4, <2>2, <2>3, <2>5, OneRun
<1> QED
  BY <1>5, <1>6

-----------------------------------------------------------------------------
LEMMA RunStart == Init => RunInv
<1> SUFFICES ASSUME Init
             PROVE  RunInv
  OBVIOUS
<1>1. /\ trace = [r \in Run |-> <<>>] /\ broken = [r \in Run |-> FALSE] /\ pc = [r \in Run |-> "idle"]
      /\ mem = [r \in Run |-> "none"] /\ next = [r \in Run |-> 1] /\ gateway = "up"
      /\ at = [r \in Run |-> [n \in Nodes(r) |-> "idle"]]
      /\ res = [r \in Run |-> [n \in Nodes(r) |-> "none"]]
  BY DEF Init
<1>2. \A r \in Run : /\ trace[r] = <<>> /\ pc[r] = "idle" /\ next[r] = 1
                     /\ \A n \in Nodes(r) : at[r][n] = "idle" /\ res[r][n] = "none"
                     /\ \A n : Shown(r, n) = "none"
  BY <1>1, NothingSeen DEF Shown
<1>3. IsMap(at, Places) /\ IsMap(res, Results \union {"none"})
  BY <1>1, <1>2 DEF IsMap, Places
<1>4. <<>> \in Seq(Row)
  OBVIOUS
<1>5. RunTypes
  BY <1>1, <1>3, <1>4 DEF RunTypes, Phases
<1>6. \A r \in Run : TraceOK(trace[r]) /\ PhaseShows(r) /\ RowsShow(r)
  BY <1>1, <1>2, EmptyTrace DEF PhaseShows, RowsShow, Active
<1> QED
  BY <1>5, <1>6 DEF RunInv

LEMMA RunStep == RunInv /\ [Next]_vars => RunInv'
<1> SUFFICES ASSUME RunInv, [Next]_vars
             PROVE  RunInv'
  OBVIOUS
<1>1. ASSUME NEW r \in Run, ParentStep(r)
      PROVE  RunInv'
  BY <1>1, Open_Keeps, QueueNode_Keeps, StartRun_Keeps, NextWorker_Keeps, Collect_Keeps, Abort_Keeps,
     EndRun_Keeps, FailRun_Keeps, EndingsKeep DEF ParentStep
<1>2. ASSUME NEW r \in Run,
             \/ Delegate(r) \/ Finish(r) \/ Overflow(r) \/ AskApproval(r) \/ Resume(r)
             \/ StopRun(r) \/ Expire(r) \/ CancelTurn(r) \/ RecoverRun(r)
      PROVE  RunInv'
  BY <1>2, Delegate_Keeps, EndingsKeep, Overflow_Keeps, AskApproval_Keeps, Resume_Keeps,
     StopRun_Keeps, Expire_Keeps, CancelTurn_Keeps, RecoveryKeeps
<1>3. ASSUME NEW r \in Run, NEW n \in Nodes(r),
             WorkerStep(r, n) \/ Answer(r, n) \/ TimeOut(r, n) \/ RecoverNode(r, n)
      PROVE  RunInv'
  BY <1>3, QuietWorkersKeep, TakeGlobalSlot_Keeps, Report_Keeps, RecoveryKeeps DEF WorkerStep
<1>4. CASE Close \/ Exit \/ Crash \/ Restart \/ Up
  BY <1>4, NewProcessKeeps DEF Exit, Crash
<1>5. CASE UNCHANGED vars
  BY <1>5 DEF RunInv, RunTypes, PhaseShows, WorkerShows, Finished, RowsShow, Shown,
              vars, sink, parent, workers, process
<1> QED
  BY <1>1, <1>2, <1>3, <1>4, <1>5 DEF Next

(* The rows of every Run and the places of its parent and its workers fit, *)
(* always: what persists in the trace is what the coordinator is at.       *)
THEOREM RunCorrect == Spec => []RunInv
<1> QED
  BY RunStart, RunStep, PTL DEF Spec

(* Every Run and every node has one terminal row at most, and that of a    *)
(* Run is the last of all, whoever writes it: a worker, the parent, a      *)
(* cancelled turn, or the recovery after any crash.                        *)
THEOREM OneTerminalAlways == Spec => []OneTerminal
<1>1. RunInv => OneTerminal
  <2> SUFFICES ASSUME RunInv, NEW r \in Run
               PROVE  /\ \A n \in Nodes(r) : Cardinality(EndsOf(trace[r], n)) <= 1
                      /\ \A i \in EndsOf(trace[r], Itself) : i = Len(trace[r])
    BY DEF OneTerminal
  <2>1. TraceOK(trace[r])
    BY DEF RunInv
  <2>2. ASSUME NEW n \in Nodes(r)
        PROVE  Cardinality(EndsOf(trace[r], n)) <= 1
    <3>1. \A i, j \in EndsOf(trace[r], n) : i = j
      <4>1. /\ \A i \in EndsOf(trace[r], n) : \A j \in RowsOf(trace[r], n) : j <= i
            /\ EndsOf(trace[r], n) \subseteq RowsOf(trace[r], n) /\ RowsOf(trace[r], n) \subseteq Nat
        BY <2>1, Names DEF TraceOK, EndsOnce, RowsOf, EndsOf
      <4> QED
        BY <4>1
    <3>2. CASE EndsOf(trace[r], n) = {}
      BY <3>2, FS_EmptySet
    <3>3. CASE EndsOf(trace[r], n) # {}
      <4>1. PICK i \in EndsOf(trace[r], n) : TRUE
        BY <3>3
      <4>2. EndsOf(trace[r], n) = {i}
        BY <3>1, <4>1
      <4>3. Cardinality({i}) = 1
        BY FS_Singleton
      <4> QED
        BY <4>2, <4>3
    <3> QED
      BY <3>2, <3>3
  <2> QED
    BY <2>1, <2>2 DEF TraceOK
<1> QED
  BY <1>1, RunCorrect, PTL

(* While the Gateway is up, no Run of an earlier process is left open, and *)
(* no node of one that was interrupted, however often the recovery itself  *)
(* was cut short (recover_interrupted_runs).                               *)
THEOREM RecoveredAlways == Spec => []Recovered
<1>1. RunInv => Recovered
  <2> SUFFICES ASSUME RunInv, gateway = "up", NEW r \in Run, pc[r] = "lost"
               PROVE  /\ ~Interrupted(r)
                      /\ trace[r] # <<>> /\ FirstEnd(trace[r], Itself) = "interrupted" =>
                           OpenNodes(r) = {}
    BY DEF Recovered
  <2>1. /\ TraceOK(trace[r]) /\ RowsShow(r) /\ Itself \in Nat
        /\ trace[r] = <<>> \/ SeenStatus(trace[r], Itself) \in Ended
        /\ SeenStatus(trace[r], Itself) = "interrupted" =>
             \A n \in Nodes(r) : SeenStatus(trace[r], n) \notin Active
    BY Names DEF RunInv, RowsShow, Shown
  <2>2. ~Interrupted(r)
    BY <2>1, SeenIsLast DEF Interrupted
  <2>3. ASSUME trace[r] # <<>>, FirstEnd(trace[r], Itself) = "interrupted", NEW n \in OpenNodes(r)
        PROVE  FALSE
    <3>1. SeenStatus(trace[r], Itself) = "interrupted"
      BY <2>1, <2>3, SeenIsLast
    <3>2. n \in Nodes(r) /\ n \in Nat /\ RowsOf(trace[r], n) # {} /\ LastOf(trace[r], n) \notin Ended
      BY <2>3, Names DEF OpenNodes
    <3>3. SeenStatus(trace[r], n) \in Statuses /\ SeenStatus(trace[r], n) \notin Ended
      BY <2>1, <3>2, SeenIsLast
    <3> QED
      BY <2>1, <3>1, <3>2, <3>3 DEF Statuses
  <2> QED
    BY <2>2, <2>3
<1> QED
  BY <1>1, RunCorrect, PTL

-----------------------------------------------------------------------------
(* The permits, with what RunInv says of where workers can be. *)
LEMMA SlotWorkerKeeps ==
  ASSUME RunInv, SlotInv, NEW r \in Run, NEW n \in Nodes(r),
         WorkerStep(r, n) \/ Answer(r, n) \/ TimeOut(r, n) \/ RecoverNode(r, n)
  PROVE  SlotInv'
<1>1. /\ slots \in Nat /\ runSlots \in [Run -> Nat] /\ held[r][n] \in HeldAt(at[r][n]) /\ held[r][n] \in 0..2
  <2>1. /\ slots \in Nat /\ runSlots \in [Run -> Nat] /\ held[r][n] \in HeldAt(at[r][n]) /\ IsMap(held, 0..2)
    BY DEF SlotInv
  <2> QED
    BY <2>1 DEF IsMap
<1>2. {"over", "report", "perRun", "global", "exec"} \subseteq Places /\ runSlots[r] \in Nat
  BY <1>1 DEF Places
<1>3. CASE RecoverNode(r, n)
  BY <1>3, SlotsStutter DEF RecoverNode
<1>4. CASE Enter(r, n)
  <2>1. at[r][n] = "ready" /\ held[r][n] = 0 /\ UNCHANGED <<held, runSlots, slots>>
    BY <1>1, <1>4 DEF Enter, HeldAt
  <2>2. \E w \in {"over", "report", "perRun"} : Move(r, n, w)
    BY <1>4 DEF Enter
  <2> QED
    BY <1>2, <2>1, <2>2, SlotsMove DEF HeldAt
<1>5. CASE TakeRunSlot(r, n)
  <2>1. /\ at[r][n] = "perRun" /\ held[r][n] = 0 /\ Hold(r, n, 1) /\ runSlots[r] - 1 \in Nat
        /\ runSlots' = [runSlots EXCEPT ![r] = runSlots[r] - 1] /\ UNCHANGED slots
    BY <1>1, <1>2, <1>5 DEF TakeRunSlot, HeldAt
  <2>2. PICK w \in {"report", "global"} : Move(r, n, w)
    BY <1>5 DEF TakeRunSlot
  <2>3. 1 \in HeldAt(w) /\ w \in Places
    BY <1>2 DEF HeldAt
  <2>5. /\ slots' = slots + (IF held[r][n] = 2 THEN 1 ELSE 0) - (IF 1 = 2 THEN 1 ELSE 0)
        /\ runSlots'[r] = runSlots[r] + (IF held[r][n] > 0 THEN 1 ELSE 0) - (IF 1 > 0 THEN 1 ELSE 0)
        /\ slots' \in Nat /\ runSlots' \in [Run -> Nat] /\ \A q \in Run \ {r} : runSlots'[q] = runSlots[q]
    BY <1>1, <1>2, <2>1
  <2> QED
    BY <2>1, <2>2, <2>3, <2>5, SlotsFollow
<1>6. CASE GiveUp(r, n)
  BY <1>1, <1>2, <1>6, SlotsMove DEF GiveUp, HeldAt
<1>7. CASE StopWorker(r, n) \/ Answer(r, n) \/ TimeOut(r, n)
  BY <1>1, <1>2, <1>7, SlotsMove DEF StopWorker, Answer, TimeOut, HeldAt
<1>8. CASE TakeGlobalSlot(r, n)
  <2>1. at[r][n] = "global" /\ held[r][n] = 1 /\ slots - 1 \in Nat
    BY <1>1, <1>8 DEF TakeGlobalSlot, HeldAt
  <2>2. CASE broken'[r]
    <3>1. /\ Move(r, n, "over") /\ Hold(r, n, 0) /\ UNCHANGED slots
          /\ runSlots' = [runSlots EXCEPT ![r] = runSlots[r] + 1]
      BY <1>8, <2>2 DEF TakeGlobalSlot
    <3>3. /\ slots' = slots + (IF held[r][n] = 2 THEN 1 ELSE 0) - (IF 0 = 2 THEN 1 ELSE 0)
          /\ runSlots'[r] = runSlots[r] + (IF held[r][n] > 0 THEN 1 ELSE 0) - (IF 0 > 0 THEN 1 ELSE 0)
          /\ slots' \in Nat /\ runSlots' \in [Run -> Nat] /\ (\A q \in Run \ {r} : runSlots'[q] = runSlots[q]) /\ 0 \in HeldAt("over")
      BY <1>1, <1>2, <2>1, <3>1 DEF HeldAt
    <3> QED
      BY <1>2, <3>1, <3>3, SlotsFollow
  <2>3. CASE ~broken'[r]
    <3>1. /\ Hold(r, n, 2) /\ slots' = slots - 1 /\ UNCHANGED runSlots
      BY <1>8, <2>3 DEF TakeGlobalSlot
    <3>2. PICK w \in {"report", "exec"} : Move(r, n, w)
      BY <1>8, <2>3 DEF TakeGlobalSlot
    <3>4. /\ slots' = slots + (IF held[r][n] = 2 THEN 1 ELSE 0) - (IF 2 = 2 THEN 1 ELSE 0)
          /\ runSlots'[r] = runSlots[r] + (IF held[r][n] > 0 THEN 1 ELSE 0) - (IF 2 > 0 THEN 1 ELSE 0)
          /\ slots' \in Nat /\ runSlots' \in [Run -> Nat] /\ (\A q \in Run \ {r} : runSlots'[q] = runSlots[q])
          /\ 2 \in HeldAt(w) /\ w \in Places
      BY <1>1, <1>2, <2>1, <3>1, <3>2 DEF HeldAt
    <3> QED
      BY <3>1, <3>2, <3>4, SlotsFollow
  <2> QED
    BY <2>2, <2>3
<1>9. CASE Report(r, n)
  <2> DEFINE a == IF held[r][n] > 0 THEN 1 ELSE 0
             c == IF held[r][n] = 2 THEN 1 ELSE 0
  <2>1. /\ Move(r, n, "over") /\ Hold(r, n, 0)
        /\ runSlots' = [runSlots EXCEPT ![r] = runSlots[r] + a] /\ slots' = slots + c
    BY <1>9 DEF Report, Release
  <2>3. /\ slots' = slots + c - (IF 0 = 2 THEN 1 ELSE 0)
        /\ runSlots'[r] = runSlots[r] + a - (IF 0 > 0 THEN 1 ELSE 0)
        /\ slots' \in Nat /\ runSlots' \in [Run -> Nat] /\ (\A q \in Run \ {r} : runSlots'[q] = runSlots[q]) /\ 0 \in HeldAt("over")
    BY <1>1, <1>2, <2>1 DEF HeldAt
  <2> QED
    BY <1>2, <2>1, <2>3, SlotsFollow
<1> QED
  BY <1>3, <1>4, <1>5, <1>6, <1>7, <1>8, <1>9 DEF WorkerStep

LEMMA SlotStartKeeps ==
  ASSUME RunInv, SlotInv, NEW r \in Run, StartRun(r)
  PROVE  SlotInv'
<1>1. UNCHANGED <<held, runSlots, slots>> /\ \A n \in Nodes(r) : at[r][n] \in {"idle", "over"}
  BY DEF StartRun, RunInv, PhaseShows
<1>2. CASE broken'[r]
  BY <1>1, <1>2, SlotsStutter DEF StartRun, workers
<1>3. CASE ~broken'[r]
  <2> DEFINE first == [n \in Nodes(r) |-> IF r \in FanOut \/ n = 1 THEN "ready" ELSE "idle"]
  <2>1. at' = [at EXCEPT ![r] = first] /\ IsMap(at, Places)
    BY <1>3 DEF StartRun, SlotInv
  <2>2. at' = [q \in Run |-> [m \in Nodes(q) |-> IF q = r THEN first[m] ELSE at[q][m]]]
    BY <2>1 DEF IsMap
  <2>3. \A q \in Run : \A m \in Nodes(q) : at'[q][m] = IF q = r THEN first[m] ELSE at[q][m]
    BY <2>2
  <2>4. \A q \in Run : \A m \in Nodes(q) : at[q][m] \in Places
    BY <2>1 DEF IsMap
  <2>5. \A m \in Nodes(r) : first[m] \in {"ready", "idle"} /\ first[m] \in Places
    BY DEF Places
  <2>6. IsMap(at', Places)
    <3>1. at' = [q \in Run |-> [m \in Nodes(q) |-> at'[q][m]]]
      BY <2>2
    <3>2. \A q \in Run : \A m \in Nodes(q) : at'[q][m] \in Places
      BY <2>3, <2>4, <2>5
    <3> QED
      BY <3>1, <3>2 DEF IsMap
  <2>7. \A q \in Run : \A m \in Nodes(q) : held[q][m] \in HeldAt(at[q][m])
    BY DEF SlotInv
  <2>8. \A q \in Run : \A m \in Nodes(q) : held'[q][m] \in HeldAt(at'[q][m])
    <3>1. \A m \in Nodes(r) : held[r][m] = 0
      BY <1>1, <2>7 DEF HeldAt
    <3>2. \A m \in Nodes(r) : held'[r][m] \in HeldAt(at'[r][m])
      BY <1>1, <2>3, <2>5, <3>1 DEF HeldAt
    <3>3. \A q \in Run \ {r} : \A m \in Nodes(q) : held'[q][m] \in HeldAt(at'[q][m])
      BY <1>1, <2>3, <2>7
    <3> QED
      BY <3>2, <3>3
  <2>9. /\ IsMap(held, 0..2)' /\ (slots \in Nat /\ runSlots \in [Run -> Nat])'
        /\ IsFiniteSet(GlobalHolders)' /\ SlotsExact'
    BY <1>1 DEF SlotInv, GlobalHolders, SlotsExact
  <2> QED
    BY <2>6, <2>8, <2>9 DEF SlotInv
<1> QED
  BY <1>2, <1>3

LEMMA SlotNextKeeps ==
  ASSUME RunInv, SlotInv, NEW r \in Run, NextWorker(r)
  PROVE  SlotInv'
<1>1. /\ PhaseShows(r) /\ pc[r] = "collecting" /\ r \notin FanOut
      /\ next[r] + 1 \in Nodes(r) /\ next[r] \in Nat
  BY DEF RunInv, RunTypes, NextWorker
<1>2. PICK k \in Nodes(r) : k = next[r] + 1
  BY <1>1
<1>3. at[r][k] = "idle" /\ UNCHANGED <<held, runSlots, slots>>
  BY <1>1, <1>2 DEF PhaseShows, NextWorker
<1>4. held[r][k] = 0
  BY <1>3 DEF SlotInv, HeldAt
<1>5. PICK w \in {"ready", "report"} : Move(r, k, w)
  BY <1>2 DEF NextWorker
<1> QED
  BY <1>3, <1>4, <1>5, SlotsMove DEF HeldAt, Places

LEMMA SlotStep == RunInv /\ SlotInv /\ [Next]_vars => SlotInv'
<1> SUFFICES ASSUME RunInv, SlotInv, [Next]_vars
             PROVE  SlotInv'
  OBVIOUS
<1>1. ASSUME NEW r \in Run, ParentStep(r)
      PROVE  SlotInv'
  BY <1>1, SlotStartKeeps, SlotNextKeeps, SlotsStutter
     DEF ParentStep, Open, QueueNode, Collect, Abort, EndRun, FailRun, FinishCancelled
<1>2. ASSUME NEW r \in Run,
             \/ Delegate(r) \/ Finish(r) \/ Overflow(r) \/ AskApproval(r) \/ Resume(r)
             \/ StopRun(r) \/ Expire(r) \/ RecoverRun(r)
      PROVE  SlotInv'
  BY <1>2, SlotsStutter
     DEF Delegate, Finish, Overflow, AskApproval, Resume, StopRun, Expire, RecoverRun
<1>3. ASSUME NEW r \in Run, CancelTurn(r)
      PROVE  SlotInv'
  BY <1>3, SlotsCancelled, SlotsStutter DEF CancelTurn, CancelCollecting, CancelSynthesis, CancelApproval
<1>4. ASSUME NEW r \in Run, NEW n \in Nodes(r),
             WorkerStep(r, n) \/ Answer(r, n) \/ TimeOut(r, n) \/ RecoverNode(r, n)
      PROVE  SlotInv'
  BY <1>4, SlotWorkerKeeps
<1>5. CASE Close \/ Restart \/ Up
  BY <1>5, SlotsStutter DEF Close, Restart, Up
<1>6. CASE ProcessEnds
  <2>1. Fresh'
    BY <1>6 DEF ProcessEnds, Fresh
  <2> QED
    BY <2>1, SlotsFresh, PTL
<1>7. CASE UNCHANGED vars
  BY <1>7, SlotsStutter DEF vars
<1> QED
  BY <1>1, <1>2, <1>3, <1>4, <1>5, <1>6, <1>7 DEF Next, Exit, Crash

(* No permit of a Run or of the Gateway is lost or made, however many      *)
(* workers end by an answer, a deadline, Stop, a broken Run, or a          *)
(* cancellation at any of their awaits (_acquire, the finally of           *)
(* _run_worker).                                                           *)
THEOREM SlotsExactAlways == Spec => []SlotsExact
<1>1. Init => SlotInv
  BY SlotsFresh DEF Init, Fresh
<1>2. SlotInv => SlotsExact
  BY DEF SlotInv
<1> QED
  BY <1>1, <1>2, SlotStep, RunCorrect, PTL DEF Spec

-----------------------------------------------------------------------------
(* The refinement of RunEvents: which rows may come next. *)
MayWrite(r, n, s) ==
  \/ /\ n = Itself /\ s = "queued" /\ trace[r] = <<>>
  \/ /\ n = Itself /\ s = "running" /\ Shown(r, Itself) \in {"queued", "running", "waiting"}
  \/ /\ n = Itself /\ s = "waiting" /\ Shown(r, Itself) \in {"running", "waiting"}
  \/ /\ n = Itself /\ s \in Ended /\ (s = "completed" => Finished(r))
  \/ /\ n \in Nodes(r) /\ s = "queued" /\ Shown(r, Itself) = "queued" /\ Shown(r, n) = "none"
  \/ /\ n \in Nodes(r) /\ s = "running" /\ Shown(r, Itself) = "running" /\ Shown(r, n) = "queued"
  \/ /\ n \in Nodes(r) /\ s \in Ended /\ trace[r] # <<>> /\ Shown(r, n) \in {"queued", "running"}

NewRow(r, n, s) ==
  /\ Written(r, n, s) /\ MayWrite(r, n, s)
  /\ Shown(r, n) \notin Ended /\ Shown(r, Itself) \notin Ended

NewRows == \E r \in Run : \E n \in Nodes(r) \union {Itself} : \E s \in Statuses : NewRow(r, n, s)

LEMMA SomeRow == \A t : RowsOf(t, Itself) # {} => t # <<>>
BY DEF RowsOf

LEMMA ShownRowExists ==
  ASSUME RunInv, NEW r \in Run, NEW n \in Nodes(r) \union {Itself}, Shown(r, n) # "none"
  PROVE  trace[r] # <<>>
BY NothingSeen DEF Shown

LEMMA ParentRowsFit ==
  ASSUME RunInv, NEW r \in Run, ParentStep(r)
  PROVE  UNCHANGED trace \/ NewRows
<1>1. PhaseShows(r) /\ RowsShow(r) /\ RunTypes
  BY DEF RunInv
<1>2. Itself \in Nat /\ \A x \in Nodes(r) : x \in Nat /\ x # Itself
  BY Names
<1>3. {"queued", "running", "waiting", "failed"} \subseteq Statuses /\ Results \subseteq Statuses
  BY DEF Statuses, Active, Ended, Results
<1>4. CASE Open(r)
  <2>1. Shown(r, Itself) = "none" /\ MayWrite(r, Itself, "queued")
    BY <1>1, <1>4, NothingSeen DEF Open, PhaseShows, MayWrite, Shown
  <2>2. Written(r, Itself, "queued") \/ UNCHANGED trace
    BY <1>4 DEF Open, Emit, Emitted
  <2> QED
    BY <1>3, <2>1, <2>2 DEF NewRows, NewRow, Ended
<1>5. CASE QueueNode(r)
  <2>1. PICK k \in Nodes(r) : k = next[r]
    BY <1>1, <1>5 DEF PhaseShows, QueueNode
  <2>2. /\ Shown(r, Itself) = "queued" /\ Shown(r, k) = "none" /\ MayWrite(r, k, "queued")
    BY <1>1, <1>2, <1>5, <2>1 DEF QueueNode, PhaseShows, MayWrite
  <2>3. Written(r, k, "queued") \/ UNCHANGED trace
    BY <1>5, <2>1 DEF QueueNode, Emit, Emitted
  <2> QED
    BY <1>3, <2>2, <2>3 DEF NewRows, NewRow, Ended
<1>6. CASE StartRun(r)
  <2>1. Shown(r, Itself) = "queued" /\ MayWrite(r, Itself, "running")
    BY <1>1, <1>6 DEF StartRun, PhaseShows, MayWrite
  <2>2. Written(r, Itself, "running") \/ UNCHANGED trace
    BY <1>6 DEF StartRun, Emit, Emitted
  <2> QED
    BY <1>3, <2>1, <2>2 DEF NewRows, NewRow, Ended
<1>7. CASE EndRun(r)
  <2>1. Shown(r, Itself) = "running" /\ mem[r] \in Results \ {"completed"} /\ MayWrite(r, Itself, mem[r])
    BY <1>1, <1>7 DEF EndRun, PhaseShows, MayWrite, Results, Ended
  <2>2. Written(r, Itself, mem[r]) \/ UNCHANGED trace
    BY <1>7 DEF EndRun, Emitted
  <2> QED
    BY <1>3, <2>1, <2>2 DEF NewRows, NewRow, Ended
<1>8. CASE FailRun(r)
  <2>1. Shown(r, Itself) \notin Ended /\ MayWrite(r, Itself, "failed")
    BY <1>1, <1>8 DEF FailRun, PhaseShows, MayWrite, Ended
  <2>2. Written(r, Itself, "failed") \/ UNCHANGED trace
    BY <1>8 DEF FailRun, Emit, Emitted
  <2> QED
    BY <1>3, <2>1, <2>2 DEF NewRows, NewRow
<1>9. CASE NextWorker(r) \/ Collect(r) \/ Abort(r)
  BY <1>9 DEF NextWorker, Collect, Abort, sink
<1>10. CASE FinishCancelled(r)
  <2>1. Shown(r, Itself) \in {"running", "waiting"} /\ mem[r] = "running"
    BY <1>1, <1>10 DEF FinishCancelled, PhaseShows
  <2>2. PICK s \in Results : s = Outcome(r, "cancelled") /\ s # "completed"
    BY DEF Outcome, Results
  <2>3. Written(r, Itself, s) \/ UNCHANGED trace
    BY <1>10, <2>1, <2>2 DEF FinishCancelled, Finalize, Emitted, sink
  <2> QED
    BY <1>3, <2>1, <2>2, <2>3 DEF NewRows, NewRow, MayWrite, Ended, Results
<1> QED
  BY <1>4, <1>5, <1>6, <1>7, <1>8, <1>9, <1>10 DEF ParentStep

LEMMA TurnRowsFit ==
  ASSUME RunInv, NEW r \in Run,
         \/ Delegate(r) \/ Finish(r) \/ Overflow(r) \/ AskApproval(r) \/ Resume(r)
         \/ StopRun(r) \/ Expire(r) \/ CancelTurn(r) \/ RecoverRun(r)
  PROVE  UNCHANGED trace \/ NewRows
<1>1. PhaseShows(r) /\ RowsShow(r) /\ RunTypes /\ TraceOK(trace[r])
  BY DEF RunInv
<1>2. Itself \in Nat /\ \A x \in Nodes(r) : x \in Nat /\ x # Itself
  BY Names
<1>3. {"queued", "running", "waiting", "failed", "interrupted"} \subseteq Statuses /\ Results \subseteq Statuses
  BY DEF Statuses, Active, Ended, Results
<1>4. ASSUME pc[r] = "synthesis", NEW o \in Results, Finalize(r, o)
      PROVE  UNCHANGED trace \/ NewRows
  <2>1. CASE mem[r] \in Ended
    BY <1>4, <2>1 DEF Finalize, sink
  <2>2. CASE mem[r] \notin Ended
    <3>1. Shown(r, Itself) \in {"running", "waiting"} /\ Finished(r)
      BY <1>1, <1>4, <2>2 DEF PhaseShows, Results, Ended
    <3>2. PICK s \in Results : s = Outcome(r, o)
      BY DEF Outcome, Results
    <3>3. Written(r, Itself, s) \/ UNCHANGED trace
      BY <1>4, <2>2, <3>2 DEF Finalize, Emitted
    <3> QED
      BY <1>3, <3>1, <3>2, <3>3 DEF NewRows, NewRow, MayWrite, Ended, Results
  <2> QED
    BY <2>1, <2>2
<1>5. CASE Delegate(r) \/ StopRun(r) \/ Expire(r)
  BY <1>5 DEF Delegate, StopRun, Expire, sink
<1>6. CASE Finish(r)
  <2>1. Endings(r) \subseteq Results
    BY DEF Endings, Results
  <2> QED
    BY <1>4, <1>6, <2>1 DEF Finish
<1>7. CASE Overflow(r)
  <2>1. Shown(r, Itself) \in {"running", "waiting"}
    BY <1>1, <1>7 DEF Overflow, PhaseShows
  <2>2. Written(r, Itself, "failed") \/ UNCHANGED trace
    BY <1>7 DEF Overflow, Emit, Emitted
  <2> QED
    BY <1>3, <2>1, <2>2 DEF NewRows, NewRow, MayWrite, Ended
<1>8. CASE AskApproval(r)
  <2>1. Shown(r, Itself) \in {"running", "waiting"}
    BY <1>1, <1>8 DEF AskApproval, PhaseShows
  <2>2. Written(r, Itself, "waiting") \/ UNCHANGED trace
    BY <1>8 DEF AskApproval, Emit, Emitted
  <2> QED
    BY <1>3, <2>1, <2>2 DEF NewRows, NewRow, MayWrite, Ended
<1>9. CASE Resume(r) \/ CancelApproval(r)
  <2>1. Shown(r, Itself) \in {"running", "waiting"}
    BY <1>1, <1>9 DEF Resume, CancelApproval, PhaseShows
  <2>2. Written(r, Itself, "running") \/ UNCHANGED trace
    BY <1>9 DEF Resume, CancelApproval, Emit, Emitted
  <2> QED
    BY <1>3, <2>1, <2>2 DEF NewRows, NewRow, MayWrite, Ended
<1>10. CASE CancelTurn(r)
  <2>1. CASE CancelCollecting(r)
    BY <2>1 DEF CancelCollecting, sink
  <2>2. CASE CancelSynthesis(r)
    BY <1>4, <2>2 DEF CancelSynthesis, Results
  <2> QED
    BY <1>9, <1>10, <2>1, <2>2 DEF CancelTurn
<1>11. CASE RecoverRun(r)
  <2>1. Shown(r, Itself) \notin Ended
    BY <1>1, <1>2, <1>11, SeenIsLast DEF RecoverRun, Interrupted, Shown
  <2>2. Written(r, Itself, "interrupted")
    BY <1>11 DEF RecoverRun, Emitted
  <2> QED
    BY <1>3, <2>1, <2>2 DEF NewRows, NewRow, MayWrite, Ended
<1> QED
  BY <1>5, <1>6, <1>7, <1>8, <1>9, <1>10, <1>11

LEMMA WorkerRowsFit ==
  ASSUME RunInv, NEW r \in Run, NEW n \in Nodes(r),
         WorkerStep(r, n) \/ Answer(r, n) \/ TimeOut(r, n) \/ RecoverNode(r, n)
  PROVE  UNCHANGED trace \/ NewRows
<1>1. PhaseShows(r) /\ RowsShow(r) /\ RunTypes /\ TraceOK(trace[r])
  BY DEF RunInv
<1>2. Itself \in Nat /\ n \in Nat
  BY Names
<1>3. {"running", "interrupted"} \subseteq Statuses /\ Results \subseteq Statuses
  BY DEF Statuses, Active, Ended, Results
<1>4. CASE Enter(r, n) \/ TakeRunSlot(r, n) \/ GiveUp(r, n) \/ StopWorker(r, n) \/ Answer(r, n) \/ TimeOut(r, n)
  BY <1>4 DEF Enter, TakeRunSlot, GiveUp, StopWorker, Answer, TimeOut, sink
<1>5. CASE TakeGlobalSlot(r, n)
  <2>1. Shown(r, Itself) = "running" /\ Shown(r, n) = "queued"
    BY <1>1, <1>5 DEF TakeGlobalSlot, PhaseShows, WorkerShows
  <2>2. Written(r, n, "running") \/ UNCHANGED trace
    BY <1>5 DEF TakeGlobalSlot, Emit, Emitted
  <2> QED
    BY <1>3, <2>1, <2>2 DEF NewRows, NewRow, MayWrite, Ended
<1>6. CASE Report(r, n)
  <2>1. Shown(r, Itself) = "running" /\ Shown(r, n) \in {"queued", "running"} /\ res[r][n] \in Results
    BY <1>1, <1>6 DEF Report, PhaseShows, WorkerShows
  <2>2. Written(r, n, res[r][n]) \/ UNCHANGED trace
    BY <1>6 DEF Report, EmitUsed, Emit, Emitted
  <2>3. trace[r] # <<>>
    BY <2>1, ShownRowExists
  <2> QED
    BY <1>3, <2>1, <2>2, <2>3 DEF NewRows, NewRow, MayWrite, Ended, Results
<1>7. CASE RecoverNode(r, n)
  <2>1. n \in OpenNodes(r) /\ trace[r] # <<>> /\ EndsOf(trace[r], Itself) = {} /\ Written(r, n, "interrupted")
    BY <1>7 DEF RecoverNode, Interrupted, Emitted
  <2>2. Shown(r, Itself) \notin Ended /\ Shown(r, n) \in Statuses \ Ended
    BY <1>1, <1>2, <2>1, SeenIsLast DEF OpenNodes, Shown
  <2>3. Shown(r, n) \in {"queued", "running"}
    BY <1>1, <2>2 DEF RowsShow, Statuses, Active
  <2> QED
    BY <1>3, <2>1, <2>2, <2>3 DEF NewRows, NewRow, MayWrite, Ended
<1> QED
  BY <1>4, <1>5, <1>6, <1>7 DEF WorkerStep

LEMMA RowsFit ==
  ASSUME RunInv, [Next]_vars
  PROVE  UNCHANGED trace \/ NewRows
<1>1. CASE Close \/ Exit \/ Crash \/ Restart \/ Up \/ UNCHANGED vars
  BY <1>1 DEF Close, Exit, Crash, ProcessEnds, Restart, Up, vars, sink
<1> QED
  BY <1>1, ParentRowsFit, TurnRowsFit, WorkerRowsFit DEF Next

-----------------------------------------------------------------------------
(* What a reader sees of a new row. *)
RunSeen == [r \in Run |-> SeenRun(trace[r])]
NodeSeen == [r \in Run |-> [n \in Nodes(r) |-> SeenStatus(trace[r], n)]]

LEMMA RunSeenIs ==
  \A r \in Run : RunSeen[r] = IF trace[r] # <<>> /\ Shown(r, Itself) = "none" THEN "queued" ELSE Shown(r, Itself)
BY DEF RunSeen, SeenRun, Shown

LEMMA RunRowSeen ==
  ASSUME RunInv, NEW r \in Run, NEW s \in Statuses, NewRow(r, Itself, s)
  PROVE  RunSeen' = [RunSeen EXCEPT ![r] = s] /\ NodeSeen' = NodeSeen
<1>1. /\ Noted(r, Itself, s) /\ \A q \in Run \ {r} : Kept(q)
  BY RowWritten, Names DEF NewRow
<1>2. /\ trace'[r] # <<>> /\ SeenStatus(trace'[r], Itself) = s /\ s # "none"
      /\ \A x \in Nodes(r) : SeenStatus(trace'[r], x) = SeenStatus(trace[r], x)
      /\ \A q \in Run \ {r} : trace'[q] = trace[q]
  BY <1>1, Names DEF Noted, Kept, Shown, Statuses, Active, Ended
<1>3. \A q \in Run : SeenRun(trace'[q]) = IF q = r THEN s ELSE SeenRun(trace[q])
  BY <1>2 DEF SeenRun
<1>4. \A q \in Run : \A x \in Nodes(q) : SeenStatus(trace'[q], x) = SeenStatus(trace[q], x)
  BY <1>2
<1>5. RunSeen' = [RunSeen EXCEPT ![r] = s]
  BY <1>3 DEF RunSeen
<1>6. NodeSeen' = NodeSeen
  BY <1>4 DEF NodeSeen
<1> QED
  BY <1>5, <1>6

LEMMA NodeRowSeen ==
  ASSUME RunInv, NEW r \in Run, NEW n \in Nodes(r), NEW s \in Statuses, NewRow(r, n, s), trace[r] # <<>>
  PROVE  RunSeen' = RunSeen /\ NodeSeen' = [NodeSeen EXCEPT ![r][n] = s]
<1>1. /\ Noted(r, n, s) /\ \A q \in Run \ {r} : Kept(q)
  BY RowWritten, Names DEF NewRow
<1>2. /\ trace'[r] # <<>> /\ SeenStatus(trace'[r], n) = s
      /\ SeenStatus(trace'[r], Itself) = SeenStatus(trace[r], Itself)
      /\ \A x \in Nodes(r) \ {n} : SeenStatus(trace'[r], x) = SeenStatus(trace[r], x)
      /\ \A q \in Run \ {r} : trace'[q] = trace[q]
  BY <1>1, Names DEF Noted, Kept, Shown
<1>3. \A q \in Run : SeenRun(trace'[q]) = SeenRun(trace[q])
  BY <1>2 DEF SeenRun
<1>4. \A q \in Run : \A x \in Nodes(q) :
        SeenStatus(trace'[q], x) = IF q = r /\ x = n THEN s ELSE SeenStatus(trace[q], x)
  BY <1>2
<1>5. RunSeen' = RunSeen
  BY <1>3 DEF RunSeen
<1>6. NodeSeen' = [NodeSeen EXCEPT ![r][n] = s]
  BY <1>4 DEF NodeSeen
<1> QED
  BY <1>5, <1>6

LEMMA EventOfRow ==
  ASSUME RunInv, NewRows
  PROVE  Events!Next \/ (RunSeen' = RunSeen /\ NodeSeen' = NodeSeen)
<1>0. PICK r \in Run : \E n \in Nodes(r) \union {Itself} : \E s \in Statuses : NewRow(r, n, s)
  BY DEF NewRows
<1>1. PICK n \in Nodes(r) \union {Itself}, s \in Statuses : NewRow(r, n, s)
  BY <1>0
<1>2. /\ MayWrite(r, n, s) /\ Shown(r, n) \notin Ended /\ Shown(r, Itself) \notin Ended
      /\ TraceOK(trace[r]) /\ Itself \notin Nodes(r) /\ "none" \notin Ended \union Active
  BY <1>1, Names DEF NewRow, RunInv, Ended, Active
<1>3. /\ RunSeen[r] = IF trace[r] # <<>> /\ Shown(r, Itself) = "none" THEN "queued" ELSE Shown(r, Itself)
      /\ \A x \in Nodes(r) : NodeSeen[r][x] = Shown(r, x)
  BY RunSeenIs DEF NodeSeen, Shown
<1>4. RunSeen[r] \in {"none"} \union Active /\ (trace[r] # <<>> => RunSeen[r] \in Active)
  BY <1>2, <1>3, SeenIsLast, Names DEF Shown, Statuses, Active
<1>5. CASE n = Itself
  <2>1. RunSeen' = [RunSeen EXCEPT ![r] = s] /\ NodeSeen' = NodeSeen
    BY <1>1, <1>5, RunRowSeen
  <2>2. CASE s = "queued" /\ trace[r] = <<>>
    <3>1. RunSeen[r] = "none"
      BY <1>3, <2>2, NothingSeen DEF Shown
    <3>2. Events!Open(r)
      BY <2>1, <2>2, <3>1 DEF Events!Open, Events!RunIs, RunSeen, NodeSeen
    <3> QED
      BY <3>2 DEF Events!Next
  <2>3. CASE s = RunSeen[r]
    <3>1. RunSeen' = RunSeen
      BY <2>1, <2>3 DEF RunSeen
    <3> QED
      BY <2>1, <3>1
  <2>4. CASE s = "running" /\ RunSeen[r] = "queued"
    <3>1. Events!Start(r)
      BY <2>1, <2>4 DEF Events!Start, Events!RunIs, RunSeen, NodeSeen
    <3> QED
      BY <3>1 DEF Events!Next
  <2>5. CASE s = "running" /\ RunSeen[r] = "waiting"
    <3>1. Events!Resume(r)
      BY <2>1, <2>5 DEF Events!Resume, Events!RunIs, RunSeen, NodeSeen
    <3> QED
      BY <3>1 DEF Events!Next
  <2>6. CASE s = "waiting" /\ RunSeen[r] = "running"
    <3>1. Events!Wait(r)
      BY <2>1, <2>6 DEF Events!Wait, Events!RunIs, RunSeen, NodeSeen
    <3> QED
      BY <3>1 DEF Events!Next
  <2>7. CASE s \in Ended /\ (s = "completed" => Finished(r))
    <3>1. RunSeen[r] \notin Events!Ended
      BY <1>2, <1>3, <1>4 DEF Events!Ended, Ended, Active
    <3>2. s = "completed" => Events!Enough(r)
      BY <1>3, <2>7 DEF Finished, Events!Enough, Events!Ended, Results, NodeSeen
    <3>3. s \in Events!Ended \ (IF Events!Enough(r) THEN {} ELSE {"completed"})
      BY <2>7, <3>2 DEF Events!Ended, Ended
    <3>4. Events!End(r)
      BY <2>1, <3>1, <3>3 DEF Events!End, Events!RunIs, RunSeen, NodeSeen
    <3> QED
      BY <3>4 DEF Events!Next
  <2> QED
    BY <1>2, <1>3, <1>5, <2>2, <2>3, <2>4, <2>5, <2>6, <2>7 DEF MayWrite
<1>6. CASE n \in Nodes(r)
  <2>1. trace[r] # <<>>
    BY <1>2, <1>6, ShownRowExists DEF MayWrite
  <2>2. RunSeen' = RunSeen /\ NodeSeen' = [NodeSeen EXCEPT ![r][n] = s] /\ RunSeen[r] \in Active
    BY <1>1, <1>4, <1>6, <2>1, NodeRowSeen
  <2>3. CASE s = "queued" /\ Shown(r, Itself) = "queued" /\ Shown(r, n) = "none"
    <3>1. RunSeen[r] = "queued" /\ NodeSeen[r][n] = "none" /\ RunSeen' = [RunSeen EXCEPT ![r] = "queued"]
      BY <1>3, <1>6, <2>2, <2>3 DEF RunSeen
    <3>2. Events!Queue(r, n)
      BY <2>2, <2>3, <3>1 DEF Events!Queue, RunSeen, NodeSeen
    <3> QED
      BY <1>6, <3>2 DEF Events!Next
  <2>4. CASE s = "running" /\ Shown(r, Itself) = "running" /\ Shown(r, n) = "queued"
    <3>1. RunSeen[r] = "running" /\ NodeSeen[r][n] = "queued"
      BY <1>3, <1>6, <2>4
    <3>2. Events!Work(r, n)
      BY <2>2, <2>4, <3>1 DEF Events!Work, Events!NodeIs, RunSeen, NodeSeen
    <3> QED
      BY <1>6, <3>2 DEF Events!Next
  <2>5. CASE s \in Ended /\ Shown(r, n) \in {"queued", "running"}
    <3>1. NodeSeen[r][n] \in {"queued", "running"} /\ RunSeen[r] \in Events!Active /\ s \in Events!Ended
      BY <1>3, <1>6, <2>2, <2>5 DEF Events!Active, Active, Events!Ended, Ended
    <3>2. Events!EndNode(r, n)
      BY <2>2, <3>1 DEF Events!EndNode, Events!NodeIs, RunSeen, NodeSeen
    <3> QED
      BY <1>6, <3>2 DEF Events!Next
  <2> QED
    BY <1>2, <1>6, <2>3, <2>4, <2>5 DEF MayWrite
<1> QED
  BY <1>1, <1>5, <1>6

(* Whatever refusals of the disk and ends of the process, a reader of the   *)
(* trace sees a life that RunEvents describes: a Run is queued, runs, ends *)
(* once and is completed only with enough completed nodes.                 *)
THEOREM RunEventsImplemented == Spec => ImplementsRunEvents
<1>1. Init => Events!Init
  <2> SUFFICES ASSUME Init
               PROVE  Events!Init
    OBVIOUS
  <2>1. \A r \in Run : trace[r] = <<>>
    BY DEF Init
  <2>2. \A r \in Run : SeenRun(trace[r]) = "none" /\ \A n : SeenStatus(trace[r], n) = "none"
    BY <2>1, NothingSeen DEF SeenRun
  <2> QED
    BY <2>2 DEF Events!Init
<1>2. RunInv /\ [Next]_vars => [Events!Next]_(Events!eventVars)
  <2> SUFFICES ASSUME RunInv, [Next]_vars
               PROVE  Events!Next \/ (RunSeen' = RunSeen /\ NodeSeen' = NodeSeen)
    BY DEF Events!eventVars, RunSeen, NodeSeen
  <2>1. CASE UNCHANGED trace
    BY <2>1 DEF RunSeen, NodeSeen
  <2> QED
    BY <2>1, RowsFit, EventOfRow
<1> QED
  BY <1>1, <1>2, RunCorrect, PTL DEF Spec, ImplementsRunEvents, Events!Spec

-----------------------------------------------------------------------------
(* What was written stays written, and what says completed was earned.     *)
RowOf(n, s) == [of |-> n, status |-> s]

AppendsOnly ==
  [][\A r \in Run : trace'[r] # trace[r] =>
       /\ EndsOf(trace[r], Itself) = {}
       /\ \E n \in Nodes(r) \union {Itself} : \E s \in Statuses :
            EndsOf(trace[r], n) = {} /\ trace'[r] = Append(trace[r], RowOf(n, s))]_vars

CompletedIsEarned == \A r \in Run : Shown(r, Itself) = "completed" => Finished(r)

(* The rows of a Run are only ever appended to, one at a time, never after *)
(* its terminal row and never about a node that has one: no late report,   *)
(* no answer to an approval, no second end and no recovery rewrites what a *)
(* reader has seen (coordinator.py:_emit, recovery of interrupted Runs).   *)
THEOREM TraceIsSealed == Spec => AppendsOnly
<1>1. ASSUME RunInv, [Next]_vars, NEW r \in Run, trace'[r] # trace[r]
      PROVE  /\ EndsOf(trace[r], Itself) = {}
             /\ \E n \in Nodes(r) \union {Itself} : \E s \in Statuses :
                  EndsOf(trace[r], n) = {} /\ trace'[r] = Append(trace[r], RowOf(n, s))
  <2>1. PICK q \in Run : \E n \in Nodes(q) \union {Itself} : \E s \in Statuses : NewRow(q, n, s)
    BY <1>1, RowsFit DEF NewRows
  <2>2. PICK n \in Nodes(q) \union {Itself}, s \in Statuses : NewRow(q, n, s)
    BY <2>1
  <2>3. trace \in [Run -> Seq(Row)] /\ TraceOK(trace[q]) /\ n \in Nat /\ Itself \in Nat
    BY <1>1, Names DEF RunInv, RunTypes
  <2>4. trace' = [trace EXCEPT ![q] = Append(trace[q], RowOf(n, s))]
    BY <2>2, <2>3 DEF NewRow, Written, RowOf
  <2>5. q = r /\ trace'[r] = Append(trace[r], RowOf(n, s))
    BY <1>1, <2>3, <2>4
  <2>6. EndsOf(trace[q], n) = {} /\ EndsOf(trace[q], Itself) = {}
    BY <2>2, <2>3, SeenIsLast DEF NewRow, Shown
  <2> QED
    BY <2>5, <2>6
<1>2. RunInv /\ [Next]_vars => [\A r \in Run : trace'[r] # trace[r] =>
        /\ EndsOf(trace[r], Itself) = {}
        /\ \E n \in Nodes(r) \union {Itself} : \E s \in Statuses :
             EndsOf(trace[r], n) = {} /\ trace'[r] = Append(trace[r], RowOf(n, s))]_vars
  BY <1>1
<1> QED
  BY <1>2, RunCorrect, PTL DEF Spec, AppendsOnly

(* A Run that a reader sees as completed has no node left open and enough  *)
(* of them completed: one for a fan-out, all for a pipeline or a review;   *)
(* and that stays so, over restarts too (coordinator.py:finalize).         *)
THEOREM CompletedIsEarnedAlways == Spec => []CompletedIsEarned
<1>1. Init => CompletedIsEarned
  BY NothingSeen DEF Init, CompletedIsEarned, Shown
<1>2. ASSUME RunInv, CompletedIsEarned, [Next]_vars
      PROVE  CompletedIsEarned'
  <2> SUFFICES ASSUME NEW r \in Run, Shown(r, Itself)' = "completed"
               PROVE  Finished(r)'
    BY DEF CompletedIsEarned
  <2>1. CASE trace'[r] = trace[r]
    <3>1. \A x : Shown(r, x)' = Shown(r, x)
      BY <2>1 DEF Shown
    <3>2. Finished(r)
      BY <1>2, <3>1 DEF CompletedIsEarned
    <3> QED
      BY <3>1, <3>2 DEF Finished
  <2>2. CASE trace'[r] # trace[r]
    <3>1. PICK q \in Run : \E n \in Nodes(q) \union {Itself} : \E s \in Statuses : NewRow(q, n, s)
      BY <1>2, <2>2, RowsFit DEF NewRows
    <3>2. PICK n \in Nodes(q) \union {Itself}, s \in Statuses : NewRow(q, n, s)
      BY <3>1
    <3>3. /\ Noted(q, n, s) /\ \A x \in Run \ {q} : Kept(x)
          /\ Itself \in Nat /\ \A x \in Nodes(r) : x \in Nat /\ x # Itself
      BY <1>2, <3>2, RowWritten, Names DEF NewRow
    <3>4. q = r
      BY <2>2, <3>3 DEF Kept
    <3>5. n = Itself /\ s = "completed"
      BY <3>2, <3>3, <3>4 DEF NewRow, Noted, Ended
    <3>6. Finished(r)
      BY <3>2, <3>4, <3>5, Names DEF NewRow, MayWrite, Ended
    <3>7. \A x \in Nodes(r) : Shown(r, x)' = Shown(r, x)
      BY <3>3, <3>4, <3>5 DEF Noted
    <3> QED
      BY <3>6, <3>7 DEF Finished
  <2> QED
    BY <2>1, <2>2
<1>3. RunInv /\ CompletedIsEarned /\ [Next]_vars => CompletedIsEarned'
  BY <1>2
<1> QED
  BY <1>1, <1>3, RunCorrect, PTL DEF Spec
=============================================================================
