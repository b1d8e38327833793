----------------------- MODULE ExecutionSlots_proofs -----------------------
(***************************************************************************)
(* SlotAccounting for any number of slots and any finite set of turns.     *)
(***************************************************************************)
EXTENDS ExecutionSlots, FiniteSetTheorems, SequenceTheorems, TLAPS

Semaphores == [value : Nat, waiters : Seq(Turn), granted : SUBSET Turn]
Distinct(w) == \A i, j \in 1..Len(w) : w[i] = w[j] => i = j
Permits(s) == s.value + Cardinality(s.granted)
Present(s) == Waiting(s) \union s.granted

(* A semaphore whose waiters wait once, and no wakeup of which is lost. *)
Formed(s) == s \in Semaphores /\ Distinct(s.waiters) /\ Waiting(s) \intersect s.granted = {}
Awake(s) == s.value > 0 /\ s.waiters # <<>> => s.granted # {}

TurnStates == {"new", "entering", "running", "asking", "reentering", "done"}
TypeOK ==
  /\ at \in [Turn -> TurnStates] /\ held \in [Turn -> BOOLEAN]
  /\ expired \subseteq Turn /\ cancelled \subseteq Turn /\ over \subseteq Turn

Queueing == {t \in Turn : at[t] \in {"entering", "reentering"}}

SlotInv ==
  /\ TypeOK /\ Formed(sem) /\ Awake(sem)
  /\ Permits(sem) + Cardinality(Holders) = Max + Cardinality(over)
  /\ Present(sem) = Queueing
  /\ \A t \in Turn :
       /\ at[t] \notin {"running"} => ~held[t]
       /\ at[t] = "running" /\ t \notin expired \union cancelled => held[t]
       /\ t \in over => at[t] = "done"

-----------------------------------------------------------------------------
(* asyncio.Semaphore. *)
LEMMA Finite == \A S \in SUBSET Turn : IsFiniteSet(S) /\ Cardinality(S) \in Nat
BY TurnAssumption, FS_Subset, FS_CardinalityType

LEMMA TailOfWaiters ==
  ASSUME NEW w \in Seq(Turn), w # <<>>, Distinct(w)
  PROVE  /\ Tail(w) \in Seq(Turn) /\ Head(w) \in Turn /\ Distinct(Tail(w))
         /\ {w[i] : i \in 1..Len(w)} = {Tail(w)[i] : i \in 1..Len(Tail(w))} \union {Head(w)}
         /\ Head(w) \notin {Tail(w)[i] : i \in 1..Len(Tail(w))}
<1>1. /\ Len(w) \in Nat \ {0} /\ Tail(w) \in Seq(Turn) /\ Head(w) \in Turn /\ Head(w) = w[1]
      /\ Len(Tail(w)) = Len(w) - 1
      /\ \A i \in 1..(Len(w) - 1) : Tail(w)[i] = w[i + 1]
  BY HeadTailProperties, EmptySeq
<1>2. Distinct(Tail(w))
  BY <1>1 DEF Distinct
<1>3. \A i \in 1..Len(w) : i = 1 \/ (i - 1 \in 1..Len(Tail(w)) /\ Tail(w)[i - 1] = w[i])
  BY <1>1
<1>4. \A i \in 1..Len(Tail(w)) : i + 1 \in 1..Len(w) /\ Tail(w)[i] = w[i + 1] /\ i + 1 # 1 /\ 1 \in 1..Len(w)
  BY <1>1
<1>5. Head(w) \notin {Tail(w)[i] : i \in 1..Len(Tail(w))}
  BY <1>1, <1>4 DEF Distinct
<1>6. {w[i] : i \in 1..Len(w)} = {Tail(w)[i] : i \in 1..Len(Tail(w))} \union {Head(w)}
  BY <1>1, <1>3, <1>4
<1> QED
  BY <1>1, <1>2, <1>5, <1>6

LEMMA WaitersGrow ==
  ASSUME NEW w \in Seq(Turn), Distinct(w), NEW t \in Turn, t \notin {w[i] : i \in 1..Len(w)}
  PROVE  /\ Append(w, t) \in Seq(Turn) /\ Distinct(Append(w, t))
         /\ {Append(w, t)[i] : i \in 1..Len(Append(w, t))} = {w[i] : i \in 1..Len(w)} \union {t}
<1>1. /\ Len(w) \in Nat /\ Append(w, t) \in Seq(Turn) /\ Len(Append(w, t)) = Len(w) + 1
      /\ \A i \in 1..Len(w) : Append(w, t)[i] = w[i]
      /\ Append(w, t)[Len(w) + 1] = t
  OBVIOUS
<1>2. \A i \in 1..(Len(w) + 1) : i \in 1..Len(w) \/ i = Len(w) + 1
  BY <1>1
<1>3. Distinct(Append(w, t))
  BY <1>1, <1>2 DEF Distinct
<1>4. Len(w) + 1 \in 1..(Len(w) + 1) /\ \A i \in 1..Len(w) : i \in 1..(Len(w) + 1)
  BY <1>1
<1>5. {Append(w, t)[i] : i \in 1..(Len(w) + 1)} = {w[i] : i \in 1..Len(w)} \union {t}
  BY <1>1, <1>2, <1>4
<1> QED
  BY <1>1, <1>3, <1>5

LEMMA WaitersShrink ==
  ASSUME NEW w \in Seq(Turn), Distinct(w), NEW t \in {w[i] : i \in 1..Len(w)}
  PROVE  /\ RemoveOne(w, t) \in Seq(Turn) /\ Distinct(RemoveOne(w, t))
         /\ {RemoveOne(w, t)[i] : i \in 1..Len(RemoveOne(w, t))} = {w[i] : i \in 1..Len(w)} \ {t}
<1> DEFINE k == CHOOSE i \in 1..Len(w) : w[i] = t
           v == RemoveOne(w, t)
<1>1. k \in 1..Len(w) /\ w[k] = t /\ Len(w) \in Nat /\ k \in Nat
  OBVIOUS
<1> HIDE DEF k
<1>2. \A i \in 1..Len(w) : w[i] \in Turn
  BY ElementOfSeq
<1>3. /\ SubSeq(w, 1, k - 1) \in Seq(Turn) /\ Len(SubSeq(w, 1, k - 1)) = k - 1
      /\ \A i \in 1..(k - 1) : SubSeq(w, 1, k - 1)[i] = w[i]
  <2>1. /\ SubSeq(w, 1, k - 1) \in Seq(Turn)
        /\ Len(SubSeq(w, 1, k - 1)) = (IF 1 <= k - 1 THEN (k - 1) - 1 + 1 ELSE 0)
        /\ \A i \in 1..((k - 1) - 1 + 1) : SubSeq(w, 1, k - 1)[i] = w[1 + i - 1]
    <3>1. \A i \in 1..(k - 1) : w[i] \in Turn
      BY <1>1, <1>2
    <3>2. 1 \in Int /\ k - 1 \in Int
      BY <1>1
    <3> QED
      BY <3>1, <3>2, SubSeqProperties
  <2> QED
    BY <1>1, <2>1
<1>4. /\ SubSeq(w, k + 1, Len(w)) \in Seq(Turn) /\ Len(SubSeq(w, k + 1, Len(w))) = Len(w) - k
      /\ \A i \in 1..(Len(w) - k) : SubSeq(w, k + 1, Len(w))[i] = w[k + i]
  <2>1. /\ SubSeq(w, k + 1, Len(w)) \in Seq(Turn)
        /\ Len(SubSeq(w, k + 1, Len(w))) = (IF k + 1 <= Len(w) THEN Len(w) - (k + 1) + 1 ELSE 0)
        /\ \A i \in 1..(Len(w) - (k + 1) + 1) : SubSeq(w, k + 1, Len(w))[i] = w[(k + 1) + i - 1]
    <3>1. \A i \in (k + 1)..Len(w) : w[i] \in Turn
      BY <1>1, <1>2
    <3>2. k + 1 \in Int /\ Len(w) \in Int
      BY <1>1
    <3> QED
      BY <3>1, <3>2, SubSeqProperties
  <2> QED
    BY <1>1, <2>1
<1>5. v = SubSeq(w, 1, k - 1) \o SubSeq(w, k + 1, Len(w))
  BY DEF RemoveOne, k
<1> HIDE DEF v
<1>6. /\ v \in Seq(Turn) /\ Len(v) = Len(w) - 1
      /\ \A i \in 1..(Len(w) - 1) : v[i] = IF i < k THEN w[i] ELSE w[i + 1]
  <2>1. /\ v \in Seq(Turn) /\ Len(v) = (k - 1) + (Len(w) - k)
        /\ \A i \in 1..((k - 1) + (Len(w) - k)) :
             v[i] = IF i <= k - 1 THEN SubSeq(w, 1, k - 1)[i] ELSE SubSeq(w, k + 1, Len(w))[i - (k - 1)]
    <3> DEFINE a == SubSeq(w, 1, k - 1)
               b == SubSeq(w, k + 1, Len(w))
    <3> HIDE DEF a, b
    <3>1. a \in Seq(Turn) /\ b \in Seq(Turn) /\ Len(a) = k - 1 /\ Len(b) = Len(w) - k /\ v = a \o b
      BY <1>3, <1>4, <1>5 DEF a, b
    <3>2. /\ a \o b \in Seq(Turn) /\ Len(a \o b) = Len(a) + Len(b)
          /\ \A i \in 1..(Len(a) + Len(b)) : (a \o b)[i] = IF i <= Len(a) THEN a[i] ELSE b[i - Len(a)]
      BY <3>1, ConcatProperties
    <3> QED
      BY <3>1, <3>2 DEF a, b
  <2> QED
    BY <1>1, <1>3, <1>4, <2>1
<1>7. \A i \in 1..Len(v) : \E j \in 1..Len(w) : v[i] = w[j] /\ j # k
  BY <1>1, <1>6
<1>8. \A j \in 1..Len(w) : j # k => \E i \in 1..Len(v) : v[i] = w[j]
  <2>1. ASSUME NEW j \in 1..Len(w), j < k
        PROVE  j \in 1..Len(v) /\ v[j] = w[j]
    BY <1>1, <1>6, <2>1
  <2>2. ASSUME NEW j \in 1..Len(w), j > k
        PROVE  j - 1 \in 1..Len(v) /\ v[j - 1] = w[j]
    BY <1>1, <1>6, <2>2
  <2> SUFFICES ASSUME NEW j \in 1..Len(w), j # k
               PROVE  \E i \in 1..Len(v) : v[i] = w[j]
    OBVIOUS
  <2>3. j < k \/ j > k
    BY <1>1
  <2> QED
    BY <2>1, <2>2, <2>3
<1>9. Distinct(v)
  <2> SUFFICES ASSUME NEW i \in 1..Len(v), NEW j \in 1..Len(v), v[i] = v[j]
               PROVE  i = j
    BY DEF Distinct
  <2> DEFINE from(x) == IF x < k THEN x ELSE x + 1
  <2>1. /\ from(i) \in 1..Len(w) /\ v[i] = w[from(i)]
        /\ from(j) \in 1..Len(w) /\ v[j] = w[from(j)]
    BY <1>1, <1>6
  <2>2. from(i) = from(j)
    <3> HIDE DEF from
    <3> QED
      BY <2>1 DEF Distinct
  <2> QED
    BY <1>1, <1>6, <2>2
<1>10. {v[i] : i \in 1..Len(v)} = {w[i] : i \in 1..Len(w)} \ {t}
  <2>1. \A j \in 1..Len(w) : w[j] = t <=> j = k
    BY <1>1 DEF Distinct
  <2>2. \A i \in 1..Len(v) : v[i] \in {w[j] : j \in 1..Len(w)} \ {t}
    BY <1>7, <2>1
  <2>3. \A j \in 1..Len(w) : w[j] # t => w[j] \in {v[i] : i \in 1..Len(v)}
    BY <1>8, <2>1
  <2> QED
    BY <2>2, <2>3
<1> QED
  BY <1>6, <1>9, <1>10 DEF v

LEMMA Woken ==
  ASSUME NEW s, Formed(s), s.value > 0
  PROVE  /\ Formed(WakeNext(s)) /\ Awake(WakeNext(s))
         /\ Permits(WakeNext(s)) = Permits(s) /\ Present(WakeNext(s)) = Present(s)
<1>1. CASE s.waiters = <<>>
  BY <1>1 DEF WakeNext, Formed, Awake
<1>2. CASE s.waiters # <<>>
  <2> DEFINE w == s.waiters
             g == s.granted \union {Head(w)}
             x == WakeNext(s)
  <2>1. x = [value |-> s.value - 1, waiters |-> Tail(w), granted |-> g]
    BY <1>2 DEF WakeNext
  <2>2. /\ w \in Seq(Turn) /\ s.granted \in SUBSET Turn /\ s.value \in Nat \ {0}
        /\ Waiting(s) = {w[i] : i \in 1..Len(w)} /\ Waiting(s) \intersect s.granted = {}
    BY DEF Formed, Semaphores, Waiting
  <2>3. /\ Tail(w) \in Seq(Turn) /\ Head(w) \in Turn /\ Distinct(Tail(w))
        /\ Waiting(s) = {Tail(w)[i] : i \in 1..Len(Tail(w))} \union {Head(w)}
        /\ Head(w) \notin {Tail(w)[i] : i \in 1..Len(Tail(w))}
    BY <1>2, <2>2, TailOfWaiters DEF Formed
  <2>4. Head(w) \notin s.granted
    BY <2>2, <2>3
  <2>5. /\ IsFiniteSet(s.granted) /\ Cardinality(s.granted) \in Nat
        /\ Cardinality(g) = Cardinality(s.granted) + 1
    BY <2>2, <2>4, Finite, FS_AddElement
  <2> HIDE DEF x, g, w
  <2>6. /\ x.value = s.value - 1 /\ x.waiters = Tail(w) /\ x.granted = g /\ x \in Semaphores
        /\ g = s.granted \union {Head(w)}
    BY <2>1, <2>2, <2>3 DEF Semaphores, g
  <2>7. Waiting(x) = {Tail(w)[i] : i \in 1..Len(Tail(w))}
    BY <2>6 DEF Waiting
  <2>8. Permits(x) = Permits(s)
    <3>1. Permits(x) = (s.value - 1) + (Cardinality(s.granted) + 1)
      BY <2>5, <2>6 DEF Permits
    <3>2. s.value \in Nat /\ Cardinality(s.granted) \in Nat
      BY <2>2, <2>5
    <3> QED
      BY <3>1, <3>2 DEF Permits
  <2>9. Present(x) = Present(s) /\ Formed(x)
    BY <2>2, <2>3, <2>4, <2>6, <2>7 DEF Present, Formed
  <2>10. Awake(x)
    BY <2>6 DEF Awake
  <2> QED
    BY <2>8, <2>9, <2>10 DEF x
<1> QED
  BY <1>1, <1>2

LEMMA Released ==
  ASSUME NEW s, Formed(s)
  PROVE  /\ Formed(Release(s)) /\ Awake(Release(s))
         /\ Permits(Release(s)) = Permits(s) + 1 /\ Present(Release(s)) = Present(s)
<1> DEFINE x == [s EXCEPT !.value = @ + 1]
<1>1. x \in Semaphores /\ x.value = s.value + 1 /\ x.waiters = s.waiters /\ x.granted = s.granted /\ s.value \in Nat
  BY DEF Formed, Semaphores
<1>2. Cardinality(s.granted) \in Nat
  BY Finite DEF Formed, Semaphores
<1>3. Release(s) = WakeNext(x)
  BY DEF Release
<1> HIDE DEF x
<1>4. Formed(x) /\ Permits(x) = Permits(s) + 1 /\ Present(x) = Present(s) /\ x.value > 0
  BY <1>1, <1>2 DEF Formed, Permits, Present, Waiting
<1> QED
  BY <1>3, <1>4, Woken

LEMMA TakenFree ==
  ASSUME NEW s, Formed(s), ~Locked(s)
  PROVE  /\ Formed(Taken(s)) /\ Awake(Taken(s))
         /\ Permits(Taken(s)) = Permits(s) - 1 /\ Present(Taken(s)) = Present(s)
<1> DEFINE x == Taken(s)
<1>1. /\ x \in Semaphores /\ x.value = s.value - 1 /\ x.waiters = s.waiters /\ x.granted = s.granted
      /\ s.value \in Nat /\ s.waiters = <<>>
  BY DEF Formed, Semaphores, Taken, Locked
<1>2. Cardinality(s.granted) \in Nat
  BY Finite DEF Formed, Semaphores
<1> HIDE DEF x
<1>3. Formed(x) /\ Permits(x) = Permits(s) - 1 /\ Present(x) = Present(s) /\ Awake(x)
  BY <1>1, <1>2 DEF Formed, Permits, Present, Waiting, Awake
<1> QED
  BY <1>3 DEF x

LEMMA QueuedLast ==
  ASSUME NEW s, Formed(s), Awake(s), Locked(s), NEW t \in Turn, t \notin Present(s)
  PROVE  /\ Formed(Queued(s, t)) /\ Awake(Queued(s, t))
         /\ Permits(Queued(s, t)) = Permits(s) /\ Present(Queued(s, t)) = Present(s) \union {t}
<1> DEFINE x == Queued(s, t)
<1>1. /\ s.waiters \in Seq(Turn) /\ Distinct(s.waiters) /\ t \notin {s.waiters[i] : i \in 1..Len(s.waiters)}
      /\ t \notin s.granted
  BY DEF Formed, Semaphores, Present, Waiting
<1>2. /\ Append(s.waiters, t) \in Seq(Turn) /\ Distinct(Append(s.waiters, t))
      /\ {Append(s.waiters, t)[i] : i \in 1..Len(Append(s.waiters, t))}
           = {s.waiters[i] : i \in 1..Len(s.waiters)} \union {t}
  BY <1>1, WaitersGrow
<1>3. x \in Semaphores /\ x.value = s.value /\ x.waiters = Append(s.waiters, t) /\ x.granted = s.granted
  BY <1>2 DEF Formed, Semaphores, Queued
<1> HIDE DEF x
<1>4. Waiting(x) = Waiting(s) \union {t}
  BY <1>2, <1>3 DEF Waiting
<1>5. Formed(x) /\ Permits(x) = Permits(s) /\ Present(x) = Present(s) \union {t}
  BY <1>1, <1>2, <1>3, <1>4 DEF Formed, Permits, Present
<1>6. Awake(x)
  BY <1>3 DEF Awake, Locked
<1> QED
  BY <1>5, <1>6 DEF x

LEMMA GrantedLeaves ==
  ASSUME NEW s, Formed(s), NEW t \in s.granted, NEW x, x = [s EXCEPT !.granted = @ \ {t}]
  PROVE  /\ Formed(x) /\ Permits(x) = Permits(s) - 1 /\ Present(x) = Present(s) \ {t}
         /\ x.value = s.value /\ x.value \in Nat
<1>1. x \in Semaphores /\ x.value = s.value /\ x.waiters = s.waiters /\ x.granted = s.granted \ {t} /\ x.value \in Nat
  BY DEF Formed, Semaphores
<1>2. /\ Cardinality(s.granted) \in Nat /\ Cardinality(s.granted \ {t}) = Cardinality(s.granted) - 1
  BY Finite, FS_RemoveElement DEF Formed, Semaphores
<1>3. t \notin Waiting(s) /\ Waiting(x) = Waiting(s)
  BY <1>1 DEF Formed, Waiting
<1>4. Permits(x) = Permits(s) - 1
  BY <1>1, <1>2 DEF Permits
<1>5. Formed(x)
  BY <1>1, <1>3 DEF Formed
<1>6. Present(x) = Present(s) \ {t}
  BY <1>1, <1>3 DEF Present
<1> QED
  BY <1>1, <1>4, <1>5, <1>6

LEMMA ResumedGranted ==
  ASSUME NEW s, Formed(s), NEW t \in s.granted
  PROVE  /\ Formed(Resumed(s, t)) /\ Awake(Resumed(s, t))
         /\ Permits(Resumed(s, t)) = Permits(s) - 1 /\ Present(Resumed(s, t)) = Present(s) \ {t}
<1> DEFINE x == [s EXCEPT !.granted = @ \ {t}]
<1>1. /\ Formed(x) /\ Permits(x) = Permits(s) - 1 /\ Present(x) = Present(s) \ {t} /\ x.value \in Nat
  BY GrantedLeaves
<1>2. Resumed(s, t) = IF x.value > 0 THEN WakeNext(x) ELSE x
  BY DEF Resumed
<1> HIDE DEF x
<1>3. CASE x.value > 0
  BY <1>1, <1>2, <1>3, Woken
<1>4. CASE ~(x.value > 0)
  BY <1>1, <1>2, <1>4 DEF Awake
<1> QED
  BY <1>3, <1>4

LEMMA AbandonedWait ==
  ASSUME NEW s, Formed(s), Awake(s), NEW t \in Present(s)
  PROVE  /\ Formed(Abandoned(s, t)) /\ Awake(Abandoned(s, t))
         /\ Permits(Abandoned(s, t)) = Permits(s) /\ Present(Abandoned(s, t)) = Present(s) \ {t}
<1>0. Cardinality(s.granted) \in Nat /\ s.value \in Nat /\ Permits(s) \in Nat
  BY Finite DEF Formed, Semaphores, Permits
<1>1. CASE t \in s.granted
  <2> DEFINE x == [s EXCEPT !.granted = @ \ {t}]
  <2>1. /\ Formed(x) /\ Permits(x) = Permits(s) - 1 /\ Present(x) = Present(s) \ {t}
    BY <1>1, GrantedLeaves
  <2>2. Abandoned(s, t) = Release(x)
    BY <1>1 DEF Abandoned
  <2> HIDE DEF x
  <2> QED
    BY <1>0, <2>1, <2>2, Released
<1>2. CASE t \notin s.granted
  <2> DEFINE x == Abandoned(s, t)
             v == RemoveOne(s.waiters, t)
  <2>1. s.waiters \in Seq(Turn) /\ Distinct(s.waiters) /\ t \in {s.waiters[i] : i \in 1..Len(s.waiters)}
    BY <1>2 DEF Formed, Semaphores, Present, Waiting
  <2>2. v \in Seq(Turn) /\ Distinct(v) /\ {v[i] : i \in 1..Len(v)} = {s.waiters[i] : i \in 1..Len(s.waiters)} \ {t}
    BY <2>1, WaitersShrink
  <2>3. x = [s EXCEPT !.waiters = v]
    BY <1>2 DEF Abandoned
  <2> HIDE DEF x, v
  <2>4. x \in Semaphores /\ x.value = s.value /\ x.waiters = v /\ x.granted = s.granted
    BY <2>2, <2>3 DEF Formed, Semaphores
  <2>5. Waiting(x) = Waiting(s) \ {t}
    BY <2>2, <2>4 DEF Waiting
  <2>6. s.waiters # <<>>
    BY <2>1, EmptySeq
  <2>7. Formed(x) /\ Permits(x) = Permits(s) /\ Present(x) = Present(s) \ {t} /\ Awake(x)
    BY <1>2, <2>2, <2>4, <2>5, <2>6 DEF Formed, Permits, Present, Awake
  <2> QED
    BY <2>7 DEF x
<1> QED
  BY <1>1, <1>2

-----------------------------------------------------------------------------
(* The turns: who takes a slot, who gives one back.                        *)
LEMMA SlotInitInv == Init => SlotInv
<1> SUFFICES ASSUME Init PROVE SlotInv
  OBVIOUS
<1>1. /\ sem = [value |-> Max, waiters |-> <<>>, granted |-> {}] /\ Max \in Nat
      /\ <<>> \in Seq(Turn) /\ Len(<<>>) = 0
  BY MaxAssumption, EmptySeq DEF Init
<1>2. Formed(sem) /\ Awake(sem) /\ Present(sem) = {} /\ Permits(sem) = Max
  BY <1>1, FS_EmptySet DEF Formed, Semaphores, Awake, Present, Waiting, Permits, Distinct
<1>3. Holders = {} /\ over = {} /\ Queueing = {} /\ TypeOK
  BY DEF Init, Holders, Queueing, TypeOK, TurnStates
<1> QED
  BY <1>1, <1>2, <1>3, FS_EmptySet DEF Init, SlotInv

(* One turn moves: it takes a slot, gives one back, waits or leaves.        *)
LEMMA Balance ==
  ASSUME SlotInv, NEW t \in Turn, NEW place \in TurnStates, NEW has \in BOOLEAN,
         at' = [at EXCEPT ![t] = place], held' = [held EXCEPT ![t] = has],
         Formed(sem'), Awake(sem'),
         expired' \subseteq Turn, cancelled' \subseteq Turn,
         expired \subseteq expired', cancelled \subseteq cancelled',
         over' = over \/ (over' = over \union {t} /\ place = "done" /\ at[t] # "done"),
         at[t] # "done",
         has => place = "running",
         place = "running" /\ ~has => t \in expired' \union cancelled',
         Present(sem') = IF place \in {"entering", "reentering"} THEN Present(sem) \union {t}
                         ELSE Present(sem) \ {t},
         Permits(sem') + (IF has THEN 1 ELSE 0) + (IF over' = over THEN 0 ELSE -1)
           = Permits(sem) + (IF held[t] THEN 1 ELSE 0)
  PROVE  SlotInv'
<1>1. TypeOK'
  BY DEF SlotInv, TypeOK
<1>2. Queueing' = IF place \in {"entering", "reentering"} THEN Queueing \union {t} ELSE Queueing \ {t}
  BY DEF Queueing, SlotInv, TypeOK
<1>3. Present(sem') = Queueing'
  BY <1>2 DEF SlotInv
<1>4. \A u \in Turn :
        /\ at'[u] \notin {"running"} => ~held'[u]
        /\ at'[u] = "running" /\ u \notin expired' \union cancelled' => held'[u]
        /\ u \in over' => at'[u] = "done"
  <2> SUFFICES ASSUME NEW u \in Turn
               PROVE  /\ at'[u] \notin {"running"} => ~held'[u]
                      /\ at'[u] = "running" /\ u \notin expired' \union cancelled' => held'[u]
                      /\ u \in over' => at'[u] = "done"
    OBVIOUS
  <2>1. CASE u = t
    BY <2>1 DEF SlotInv, TypeOK
  <2>2. CASE u # t
    BY <2>2 DEF SlotInv, TypeOK
  <2> QED
    BY <2>1, <2>2
<1>5. Holders' = IF has THEN Holders \union {t} ELSE Holders \ {t}
  BY DEF Holders, SlotInv, TypeOK
<1>6. /\ IsFiniteSet(Holders) /\ Cardinality(Holders) \in Nat /\ (t \in Holders <=> held[t])
      /\ IsFiniteSet(over) /\ Cardinality(over) \in Nat /\ t \notin over
  BY Finite DEF Holders, SlotInv, TypeOK
<1>7. Cardinality(Holders') = Cardinality(Holders) + (IF has THEN 1 ELSE 0) - (IF held[t] THEN 1 ELSE 0)
  <2>1. Cardinality(Holders \union {t}) = IF t \in Holders THEN Cardinality(Holders) ELSE Cardinality(Holders) + 1
    BY <1>6, FS_AddElement
  <2>2. Cardinality(Holders \ {t}) = IF t \in Holders THEN Cardinality(Holders) - 1 ELSE Cardinality(Holders)
    BY <1>6, FS_RemoveElement
  <2>3. CASE has /\ held[t]
    BY <2>1, <2>3, <1>5, <1>6
  <2>4. CASE has /\ ~held[t]
    BY <2>1, <2>4, <1>5, <1>6
  <2>5. CASE ~has /\ held[t]
    BY <2>2, <2>5, <1>5, <1>6
  <2>6. CASE ~has /\ ~held[t]
    BY <2>2, <2>6, <1>5, <1>6
  <2> QED
    BY <2>3, <2>4, <2>5, <2>6
<1>8. Cardinality(over') = Cardinality(over) + (IF over' = over THEN 0 ELSE 1)
  BY <1>6, FS_AddElement
<1>9. Permits(sem) \in Nat /\ Permits(sem') \in Nat
  BY Finite DEF Permits, SlotInv, Formed, Semaphores
<1>10. Permits(sem') + Cardinality(Holders') = Max + Cardinality(over')
  BY <1>6, <1>7, <1>8, <1>9, MaxAssumption DEF SlotInv
<1> QED
  BY <1>1, <1>3, <1>4, <1>10 DEF SlotInv

(* acquire_slot up to its first await: of a turn that holds none. *)
LEMMA ReenterKeeps ==
  ASSUME SlotInv, NEW t \in Turn, at[t] = "asking", Reenter(t),
         expired' \subseteq Turn, cancelled' \subseteq Turn,
         expired \subseteq expired', cancelled \subseteq cancelled', UNCHANGED over
  PROVE  SlotInv'
<1>1. /\ ~held[t] /\ t \notin Present(sem) /\ Formed(sem) /\ Awake(sem) /\ Permits(sem) \in Int
      /\ held = [held EXCEPT ![t] = FALSE]
  BY Finite DEF SlotInv, TypeOK, Queueing, Permits, Formed, Semaphores
<1>2. CASE /\ ~Locked(sem) /\ sem' = Taken(sem)
           /\ at' = [at EXCEPT ![t] = "running"] /\ held' = [held EXCEPT ![t] = TRUE]
  <2>1. Formed(sem') /\ Awake(sem') /\ Permits(sem') = Permits(sem) - 1 /\ Present(sem') = Present(sem)
    BY <1>1, <1>2, TakenFree
  <2>2. Present(sem') = Present(sem) \ {t} /\ Permits(sem') + 1 + 0 = Permits(sem) + 0
    BY <1>1, <2>1
  <2> QED
    BY <1>1, <1>2, <2>1, <2>2, Balance DEF TurnStates
<1>3. CASE /\ Locked(sem) /\ sem' = Queued(sem, t)
           /\ at' = [at EXCEPT ![t] = "reentering"] /\ UNCHANGED held
  <2>1. Formed(sem') /\ Awake(sem') /\ Permits(sem') = Permits(sem) /\ Present(sem') = Present(sem) \union {t}
    BY <1>1, <1>3, QueuedLast
  <2>2. held' = [held EXCEPT ![t] = FALSE] /\ Permits(sem') + 0 + 0 = Permits(sem) + 0
    BY <1>1, <1>3, <2>1
  <2> QED
    BY <1>1, <1>3, <2>1, <2>2, Balance DEF TurnStates
<1> QED
  BY <1>2, <1>3 DEF Reenter

(* A cancellation, wherever the turn awaits; the caller notes whose it is.  *)
LEMMA InterruptKeeps ==
  ASSUME SlotInv, NEW t \in Turn, Interrupt(t),
         expired' \subseteq Turn, cancelled' \subseteq Turn,
         expired \subseteq expired', cancelled \subseteq cancelled', UNCHANGED over,
         t \in expired' \union cancelled'
  PROVE  SlotInv'
<1>1. CASE at[t] = "running" /\ UNCHANGED <<sem, at, held, approval>>
  BY <1>1 DEF SlotInv, TypeOK, Queueing, Holders
<1>2. CASE at[t] = "asking" /\ Reenter(t)
  BY <1>2, ReenterKeeps
<1>3. ASSUME at[t] \in {"reentering", "entering"}, sem' = Abandoned(sem, t), UNCHANGED held,
             NEW place \in {"running", "done"}, at' = [at EXCEPT ![t] = place]
      PROVE  SlotInv'
  <2>1. /\ ~held[t] /\ t \in Present(sem) /\ Formed(sem) /\ Awake(sem) /\ Permits(sem) \in Int
        /\ held' = [held EXCEPT ![t] = FALSE]
    BY <1>3, Finite DEF SlotInv, TypeOK, Queueing, Permits, Formed, Semaphores
  <2>2. Formed(sem') /\ Awake(sem') /\ Permits(sem') = Permits(sem) /\ Present(sem') = Present(sem) \ {t}
    BY <1>3, <2>1, AbandonedWait
  <2>3. Permits(sem') + 0 + 0 = Permits(sem) + 0
    BY <2>1, <2>2
  <2> QED
    BY <1>3, <2>1, <2>2, <2>3, Balance DEF TurnStates
<1> QED
  BY <1>1, <1>2, <1>3 DEF Interrupt

LEMMA SlotNextInv ==
  ASSUME SlotInv, [Next]_vars
  PROVE  SlotInv'
<1>0. /\ TypeOK /\ Formed(sem) /\ Awake(sem) /\ Permits(sem) \in Int
      /\ expired \subseteq Turn /\ cancelled \subseteq Turn
  BY Finite DEF SlotInv, TypeOK, Permits, Formed, Semaphores
<1>1. ASSUME NEW t \in Turn, Start(t)
      PROVE  SlotInv'
  <2>1. /\ at[t] = "new" /\ ~held[t] /\ t \notin Present(sem) /\ held = [held EXCEPT ![t] = FALSE]
        /\ UNCHANGED <<expired, cancelled, over>>
    BY <1>0, <1>1 DEF Start, SlotInv, TypeOK, Queueing
  <2>2. CASE /\ ~Locked(sem) /\ sem' = Taken(sem)
             /\ at' = [at EXCEPT ![t] = "running"] /\ held' = [held EXCEPT ![t] = TRUE]
    <3>1. Formed(sem') /\ Awake(sem') /\ Permits(sem') = Permits(sem) - 1 /\ Present(sem') = Present(sem)
      BY <1>0, <2>2, TakenFree
    <3>2. Present(sem') = Present(sem) \ {t} /\ Permits(sem') + 1 + 0 = Permits(sem) + 0
      BY <1>0, <2>1, <3>1
    <3> QED
      BY <1>0, <2>1, <2>2, <3>1, <3>2, Balance DEF TurnStates
  <2>3. CASE /\ Locked(sem) /\ sem' = Queued(sem, t)
             /\ at' = [at EXCEPT ![t] = "entering"] /\ UNCHANGED held
    <3>1. Formed(sem') /\ Awake(sem') /\ Permits(sem') = Permits(sem) /\ Present(sem') = Present(sem) \union {t}
      BY <1>0, <2>1, <2>3, QueuedLast
    <3>2. held' = [held EXCEPT ![t] = FALSE] /\ Permits(sem') + 0 + 0 = Permits(sem) + 0
      BY <1>0, <2>1, <2>3, <3>1
    <3> QED
      BY <1>0, <2>1, <2>3, <3>1, <3>2, Balance DEF TurnStates
  <2> QED
    BY <1>1, <2>2, <2>3 DEF Start
<1>2. ASSUME NEW t \in Turn, Proceed(t)
      PROVE  SlotInv'
  <2>1. /\ t \in sem.granted /\ t \in Present(sem) /\ at[t] # "done" /\ ~held[t]
        /\ sem' = Resumed(sem, t) /\ at' = [at EXCEPT ![t] = "running"] /\ held' = [held EXCEPT ![t] = TRUE]
        /\ UNCHANGED <<expired, cancelled, over>>
    BY <1>0, <1>2 DEF Proceed, SlotInv, TypeOK, Present, Queueing
  <2>2. Formed(sem') /\ Awake(sem') /\ Permits(sem') = Permits(sem) - 1 /\ Present(sem') = Present(sem) \ {t}
    BY <1>0, <2>1, ResumedGranted
  <2>3. Permits(sem') + 1 + 0 = Permits(sem) + 0
    BY <1>0, <2>2
  <2> QED
    BY <1>0, <2>1, <2>2, <2>3, Balance DEF TurnStates
<1>3. ASSUME NEW t \in Turn, AskApproval(t)
      PROVE  SlotInv'
  <2>1. /\ at[t] = "running" /\ held[t] /\ t \notin Present(sem)
        /\ UNCHANGED <<expired, cancelled, over>> /\ at' = [at EXCEPT ![t] = "asking"]
    BY <1>0, <1>3 DEF AskApproval, SlotInv, Queueing
  <2>2. sem' = Release(sem) /\ held' = [held EXCEPT ![t] = FALSE]
    BY <1>3, <2>1 DEF AskApproval, ReleaseSlot
  <2>3. Formed(sem') /\ Awake(sem') /\ Permits(sem') = Permits(sem) + 1 /\ Present(sem') = Present(sem)
    BY <1>0, <2>2, Released
  <2>4. Permits(sem') + 0 + 0 = Permits(sem) + 1 /\ Present(sem') = Present(sem) \ {t}
    BY <1>0, <2>1, <2>3
  <2> QED
    BY <1>0, <2>1, <2>2, <2>3, <2>4, Balance DEF TurnStates
<1>4. ASSUME NEW t \in Turn, Answer(t)
      PROVE  SlotInv'
  BY <1>4 DEF Answer, SlotInv, TypeOK, Queueing, Holders
<1>5. ASSUME NEW t \in Turn, ApprovalDone(t)
      PROVE  SlotInv'
  BY <1>0, <1>5, ReenterKeeps DEF ApprovalDone
<1>6. ASSUME NEW t \in Turn, DeadlinePasses(t)
      PROVE  SlotInv'
  BY <1>0, <1>6, InterruptKeeps DEF DeadlinePasses
<1>7. ASSUME NEW t \in Turn, CloseCancels(t)
      PROVE  SlotInv'
  BY <1>0, <1>7, InterruptKeeps DEF CloseCancels
<1>8. ASSUME NEW t \in Turn, Finish(t)
      PROVE  SlotInv'
  <2>1. /\ at[t] = "running" /\ t \notin Present(sem) /\ t \notin over
        /\ UNCHANGED <<expired, cancelled>> /\ sem' = Release(sem)
        /\ at' = [at EXCEPT ![t] = "done"] /\ held' = [held EXCEPT ![t] = FALSE]
        /\ over' = IF held[t] THEN over ELSE over \union {t}
    BY <1>0, <1>8 DEF Finish, SlotInv, Queueing
  <2>2. Formed(sem') /\ Awake(sem') /\ Permits(sem') = Permits(sem) + 1 /\ Present(sem') = Present(sem)
    BY <1>0, <2>1, Released
  <2>3. Present(sem') = Present(sem) \ {t}
    BY <2>1, <2>2
  <2>4. CASE held[t]
    <3>1. over' = over /\ Permits(sem') + 0 + 0 = Permits(sem) + 1
      BY <1>0, <2>1, <2>2, <2>4
    <3> QED
      BY <1>0, <2>1, <2>2, <2>3, <2>4, <3>1, Balance DEF TurnStates
  <2>5. CASE ~held[t]
    <3>1. /\ over' = over \union {t} /\ over' # over
          /\ Permits(sem') + 0 + (-1) = Permits(sem) + 0
      BY <1>0, <2>1, <2>2, <2>5
    <3> QED
      BY <1>0, <2>1, <2>2, <2>3, <2>5, <3>1, Balance DEF TurnStates
  <2> QED
    BY <2>4, <2>5
<1>9. CASE BeginClose \/ UNCHANGED vars
  BY <1>9 DEF BeginClose, vars, SlotInv, TypeOK, Queueing, Holders
<1> QED
  BY <1>1, <1>2, <1>3, <1>4, <1>5, <1>6, <1>7, <1>8, <1>9 DEF Next

(* No slot of the Gateway is lost, doubled or forgotten, whatever approvals, *)
(* deadlines and the close do to the turns; only a turn that was interrupted *)
(* while it took its slot back gives one back too many.                      *)
THEOREM SlotAccountingAlways == Spec => []SlotAccounting
<1>1. SlotInv => SlotAccounting
  <2>1. ASSUME SlotInv
        PROVE  sem.value + Cardinality(Holders) + Cardinality(sem.granted) = Max + Cardinality(over)
    <3>1. /\ Cardinality(Holders) \in Nat /\ Cardinality(sem.granted) \in Nat /\ sem.value \in Nat
          /\ sem.value + Cardinality(sem.granted) + Cardinality(Holders) = Max + Cardinality(over)
      BY <2>1, Finite DEF SlotInv, Formed, Semaphores, Permits, Holders
    <3> QED
      BY <3>1
  <2>2. SlotInv => \A t \in Turn :
          /\ at[t] \in {"asking", "reentering", "entering"} => ~held[t]
          /\ at[t] = "running" /\ t \notin expired \union cancelled => held[t]
    BY DEF SlotInv
  <2> QED
    BY <2>1, <2>2 DEF SlotInv, Formed, Awake, Present, Queueing, SlotAccounting
<1> QED
  BY <1>1, SlotInitInv, SlotNextInv, PTL DEF Spec
=============================================================================
