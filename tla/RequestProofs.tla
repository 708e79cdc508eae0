--------------------------- MODULE RequestProofs ---------------------------
(***************************************************************************)
(* Proofs about Limiter, for every number of turns, pools and versions:    *)
(* IndInv is inductive, so no interleaving of resizes and drops loses or   *)
(* mints a permit, and nobody waits on an idle pool; RowInv is, so the     *)
(* limiter follows the row.  And about Compaction, for every window and    *)
(* every estimate and summary within the buffer: RoomInv is inductive, so  *)
(* a request that has just room left is not one the server must refuse.    *)
(***************************************************************************)
EXTENDS Limiter, Compaction, QueueProofs, FiniteSetTheorems, TLAPS

\* Handing a permit to a semaphore keeps its queue and the turns well typed.
LEMMA GiveType ==
    ASSUME TypeOK, NEW p \in Pools, NEW pcs \in [Turns -> States], Give(p, pcs)
    PROVE  /\ permits' \in [Pools -> Nat]
           /\ queue' \in [Pools -> Seq(Turns)]
           /\ pc' \in [Turns -> States]
<1>1. CASE queue[p] = <<>>
  <2>1. permits' = [permits EXCEPT ![p] = permits[p] + 1] /\ queue' = queue /\ pc' = pcs
    BY <1>1 DEF Give
  <2> QED BY <2>1 DEF TypeOK, PoolsOK
<1>2. CASE queue[p] # <<>>
  <2>1. queue[p] \in Seq(Turns)
    BY DEF TypeOK, PoolsOK
  <2>2. Head(queue[p]) \in Turns /\ Tail(queue[p]) \in Seq(Turns)
    BY <1>2, <2>1
  <2>3. "assigned" \in States
    BY DEF States
  <2> QED BY <1>2, <2>2, <2>3 DEF Give, TypeOK, PoolsOK
<1> QED BY <1>1, <1>2

\* Handing a permit to one semaphore, or sizing one pool, leaves the others
\* alone.
LEMMA GiveElsewhere ==
    ASSUME TypeOK, NEW p \in Pools, NEW pcs, Give(p, pcs), NEW q \in Pools, q # p
    PROVE  permits'[q] = permits[q] /\ queue'[q] = queue[q]
  BY DEF TypeOK, PoolsOK, Give

LEMMA ResizeElsewhere ==
    ASSUME TypeOK, NEW r \in pending, ResizeSet(r), limit.pool \in Pools
    PROVE  /\ count'[limit.pool] = r.max
           /\ \A q \in Pools : q # limit.pool =>
                 permits'[q] = permits[q] /\ owed'[q] = owed[q] /\ count'[q] = count[q]
  BY DEF TypeOK, PoolsOK, ResizeSet, Raise, Lower

\* Whom a permit handed to p's semaphore moves: its first waiter, or nobody.
LEMMA GiveMoves ==
    ASSUME TypeOK, QueuesFit, NEW p \in Pools, NEW pcs \in [Turns -> States], Give(p, pcs)
    PROVE  \/ /\ queue[p] = <<>>
              /\ pc' = pcs
              /\ permits'[p] = permits[p] + 1
              /\ queue'[p] = <<>>
           \/ /\ queue[p] # <<>>
              /\ permits' = permits
              /\ queue'[p] = Tail(queue[p])
              /\ \E h \in Turns : /\ h = Head(queue[p]) /\ pc[h] = "waiting" /\ want[h] = p
                                  /\ pc' = [pcs EXCEPT ![h] = "assigned"]
<1>1. CASE queue[p] = <<>>
  BY <1>1 DEF Give, TypeOK, PoolsOK
<1>2. CASE queue[p] # <<>>
  <2>1. queue[p] \in Seq(Turns)
    BY DEF TypeOK, PoolsOK
  <2>2. 1 \in 1..Len(queue[p]) /\ Head(queue[p]) = queue[p][1] /\ Head(queue[p]) \in Turns
    BY <1>2, <2>1
  <2>3. pc[Head(queue[p])] = "waiting" /\ want[Head(queue[p])] = p
    BY <2>2 DEF QueuesFit, QueueFits
  <2>4. queue'[p] = Tail(queue[p])
    BY <1>2 DEF Give, TypeOK, PoolsOK
  <2> QED BY <1>2, <2>2, <2>3, <2>4 DEF Give
<1> QED BY <1>1, <1>2

\* The numbers in a well-typed state.
LEMMA Numbers ==
    ASSUME TypeOK
    PROVE  /\ Pools \subseteq Nat
           /\ made \in Nat /\ limit.pool \in Nat /\ limit.version \in Nat
           /\ resizing.pool \in Nat /\ resizing.owe \in Nat /\ resizing.add \in Nat
           /\ \A t \in Turns : slot[t] \in Nat /\ want[t] \in Nat /\ old[t] \in Nat
           /\ \A p \in Pools : count[p] \in Nat /\ permits[p] \in Nat /\ owed[p] \in Nat
<1>1. Pools \subseteq Nat /\ Pools \cup {None} \subseteq Nat
  BY DEF Pools, None
<1>2. made \in Nat /\ limit.pool \in Nat /\ limit.version \in Nat
  BY <1>1 DEF TypeOK, PoolsOK, Limits
<1>3. resizing.pool \in Nat /\ resizing.owe \in Nat /\ resizing.add \in Nat
  BY <1>1 DEF TypeOK, PoolsOK, Resizes
<1>4. \A t \in Turns : slot[t] \in Nat /\ want[t] \in Nat /\ old[t] \in Nat
  BY <1>1 DEF TypeOK, TurnsOK
<1>5. \A p \in Pools : count[p] \in Nat /\ permits[p] \in Nat /\ owed[p] \in Nat
  BY DEF TypeOK, PoolsOK
<1> QED BY <1>1, <1>2, <1>3, <1>4, <1>5

\* Handing a permit to a semaphore keeps every queue in order, when the step
\* leaves the turns that wait where they are.
LEMMA GiveQueues ==
    ASSUME TypeOK, QueuesFit, NEW p \in Pools, NEW pcs \in [Turns -> States], Give(p, pcs),
           closed' = closed,
           \A u \in Turns : pc[u] = "waiting" => pcs[u] = "waiting" /\ want'[u] = want[u]
    PROVE  QueuesFit'
<1> SUFFICES ASSUME NEW q \in Pools PROVE QueueFits(q)'
  BY DEF QueuesFit
<1>1. queue \in [Pools -> Seq(Turns)] /\ QueueFits(q) /\ QueueFits(p)
  BY DEF TypeOK, PoolsOK, QueuesFit
<1>2. CASE q # p
  <2>1. permits'[q] = permits[q] /\ queue'[q] = queue[q]
    BY <1>2, GiveElsewhere
  <2>2. ASSUME NEW u \in Turns, pc[u] = "waiting", want[u] = q PROVE pc'[u] = "waiting"
    BY <1>2, <2>2, GiveMoves
  <2>3. \A i \in 1..Len(queue[q]) : queue[q][i] \in Turns
    BY <1>1
  <2> QED BY <1>1, <2>1, <2>2, <2>3 DEF QueueFits
<1>3. CASE q = p /\ queue[p] = <<>>
  BY <1>3, GiveMoves DEF QueueFits, Once
<1>4. CASE q = p /\ queue[p] # <<>>
  <2>1. permits'[p] = permits[p] /\ queue'[p] = Tail(queue[p])
    BY <1>4, GiveMoves
  <2>2. PICK h \in Turns : h = Head(queue[p]) /\ pc' = [pcs EXCEPT ![h] = "assigned"]
    BY <1>4, GiveMoves
  <2>3. /\ Len(queue[p]) \in Nat /\ Len(queue'[p]) = Len(queue[p]) - 1
        /\ \A i \in 1..Len(queue'[p]) : queue'[p][i] = queue[p][i + 1]
        /\ \A i \in 1..Len(queue[p]) : queue[p][i] \in Turns
        /\ h = queue[p][1]
    BY <1>1, <1>4, <2>1, <2>2
  <2>4. \A i \in 1..Len(queue'[p]) : i + 1 \in 1..Len(queue[p]) /\ queue[p][i + 1] # h
    BY <2>3, <1>1, <1>4 DEF QueueFits, Once
  <2>5. \A i \in 1..Len(queue'[p]) : pc'[queue'[p][i]] = "waiting" /\ want'[queue'[p][i]] = p
    <3> SUFFICES ASSUME NEW i \in 1..Len(queue'[p])
                 PROVE  pc'[queue'[p][i]] = "waiting" /\ want'[queue'[p][i]] = p
      OBVIOUS
    <3> DEFINE u == queue[p][i + 1]
    <3>1. u \in Turns /\ u # h /\ queue'[p][i] = u
      BY <2>3, <2>4
    <3>2. pc[u] = "waiting" /\ want[u] = p
      BY <1>1, <2>4 DEF QueueFits
    <3> HIDE DEF u
    <3>3. pc'[u] = pcs[u]
      BY <2>2, <3>1
    <3> QED BY <3>1, <3>2, <3>3
  <2>6. \A i, j \in 1..Len(queue'[p]) : queue'[p][i] = queue'[p][j] => i = j
    <3> SUFFICES ASSUME NEW i \in 1..Len(queue'[p]), NEW j \in 1..Len(queue'[p]),
                        queue'[p][i] = queue'[p][j]
                 PROVE  i = j
      OBVIOUS
    <3>1. queue[p][i + 1] = queue[p][j + 1] /\ i + 1 \in 1..Len(queue[p]) /\ j + 1 \in 1..Len(queue[p])
      BY <2>3, <2>4
    <3>2. i + 1 = j + 1
      BY <1>1, <3>1 DEF QueueFits, Once
    <3> QED BY <2>3, <3>2
  <2> QED BY <1>1, <1>4, <2>1, <2>5, <2>6 DEF QueueFits, Once
<1> QED BY <1>2, <1>3, <1>4

\* Which turns have a permit of p decides how many are out.
LEMMA OutFinite ==
    ASSUME NEW p PROVE IsFiniteSet(Out(p)) /\ Cardinality(Out(p)) \in Nat
  BY LimiterAssumption, FS_Subset, FS_CardinalityType DEF Out

LEMMA OutSame ==
    ASSUME NEW p, \A u \in Turns : Has(u, p)' <=> Has(u, p)
    PROVE  Cardinality(Out(p)') = Cardinality(Out(p))
<1>1. Out(p)' = Out(p)
  BY DEF Out
<1> QED BY <1>1

LEMMA OutGrows ==
    ASSUME NEW p, NEW t \in Turns, ~ Has(t, p), Has(t, p)',
           \A u \in Turns : u # t => (Has(u, p)' <=> Has(u, p))
    PROVE  Cardinality(Out(p)') = Cardinality(Out(p)) + 1
<1>1. Out(p)' = Out(p) \cup {t} /\ t \notin Out(p)
  BY DEF Out
<1> QED BY <1>1, OutFinite, FS_AddElement

LEMMA OutShrinks ==
    ASSUME NEW p, NEW t \in Turns, Has(t, p), ~ Has(t, p)',
           \A u \in Turns : u # t => (Has(u, p)' <=> Has(u, p))
    PROVE  Cardinality(Out(p)') = Cardinality(Out(p)) - 1
<1>1. Out(p)' = Out(p) \ {t} /\ t \in Out(p)
  BY DEF Out
<1> QED BY <1>1, OutFinite, FS_RemoveElement

LEMMA OutSwaps ==
    ASSUME NEW p, NEW t \in Turns, NEW h \in Turns, Has(t, p), ~ Has(t, p)', ~ Has(h, p), Has(h, p)',
           \A u \in Turns : u # t /\ u # h => (Has(u, p)' <=> Has(u, p))
    PROVE  Cardinality(Out(p)') = Cardinality(Out(p))
<1> DEFINE rest == Out(p) \ {t}
<1>1. /\ Out(p)' = rest \cup {h} /\ h \notin rest /\ t \in Out(p)
  BY DEF Out
<1>2. IsFiniteSet(rest) /\ Cardinality(rest) = Cardinality(Out(p)) - 1
  BY <1>1, OutFinite, FS_RemoveElement
<1>3. Cardinality(rest \cup {h}) = Cardinality(rest) + 1
  BY <1>1, <1>2, FS_AddElement
<1> QED BY <1>1, <1>2, <1>3, OutFinite

\* Every step keeps every variable in its type.
LEMMA TypeStep == IndInv /\ [Next]_vars => TypeOK'
<1> SUFFICES ASSUME IndInv, [Next]_vars PROVE TypeOK'
  OBVIOUS
<1> USE LimiterAssumption DEF rowVars, poolVars, turnVars
<1>1. ASSUME NEW max \in 0..MaxLimit, SaveProvider(max) PROVE TypeOK'
  <2>1. RowsOK'
    BY <1>1 DEF IndInv, TypeOK, RowsOK, SaveProvider, Exists, Rows
  <2>2. PoolsOK'
    BY <1>1 DEF IndInv, TypeOK, PoolsOK, SaveProvider, Exists
  <2>3. TurnsOK'
    BY <1>1 DEF IndInv, TypeOK, PoolsOK, TurnsOK, SaveProvider, Exists
  <2> QED BY <2>1, <2>2, <2>3 DEF TypeOK
<1>2. CASE BuildEndpoint
  <2>1. RowsOK'
    BY <1>2 DEF IndInv, TypeOK, RowsOK, BuildEndpoint, Rows
  <2>2. PoolsOK'
    BY <1>2 DEF IndInv, TypeOK, PoolsOK, BuildEndpoint
  <2>3. TurnsOK'
    BY <1>2 DEF IndInv, TypeOK, PoolsOK, TurnsOK, BuildEndpoint
  <2> QED BY <2>1, <2>2, <2>3 DEF TypeOK
<1>3. CASE DeleteProvider
  <2>1. RowsOK'
    BY <1>3 DEF IndInv, TypeOK, RowsOK, DeleteProvider, Gone, Rows
  <2>2. PoolsOK'
    BY <1>3 DEF IndInv, TypeOK, PoolsOK, DeleteProvider, Gone
  <2>3. TurnsOK'
    BY <1>3 DEF IndInv, TypeOK, PoolsOK, TurnsOK, DeleteProvider, Gone
  <2> QED BY <2>1, <2>2, <2>3 DEF TypeOK
<1>4. ASSUME NEW r \in pending, Set(r), IgnoreStaleSet(r) PROVE TypeOK'
  <2>1. RowsOK'
    BY <1>4 DEF IndInv, TypeOK, RowsOK, Set, IgnoreStaleSet, Rows
  <2>2. PoolsOK'
    BY <1>4 DEF IndInv, TypeOK, PoolsOK, Set, IgnoreStaleSet
  <2>3. TurnsOK'
    BY <1>4 DEF IndInv, TypeOK, PoolsOK, TurnsOK, Set, IgnoreStaleSet
  <2> QED BY <2>1, <2>2, <2>3 DEF TypeOK
<1>5. ASSUME NEW r \in pending, Set(r), ResizeSet(r) PROVE TypeOK'
  <2>1. r.max \in 0..MaxLimit /\ r.version \in 0..MaxVersion /\ limit.pool \in Pools
    BY <1>5 DEF IndInv, TypeOK, RowsOK, PoolsOK, TurnsOK, Rows, Limits, Resizes, CurrentMade,
       TurnsFit, Fits, NoResize, Pools, None, Asking, ResizeSet
  <2>2. RowsOK'
    BY <1>5 DEF IndInv, TypeOK, RowsOK, Set, ResizeSet, Raise, Lower, Lesser, Rows
  <2>3. PoolsOK'
    <3> DEFINE p == limit.pool
    <3>1. /\ permits[p] \in Nat /\ owed[p] \in Nat /\ count[p] \in Nat /\ r.max \in Nat
      BY <2>1 DEF IndInv, TypeOK, PoolsOK
    <3>2. count' \in [Pools -> 0..MaxLimit] /\ limit' \in Limits
      BY <1>5, <2>1 DEF IndInv, TypeOK, PoolsOK, ResizeSet, Limits
    <3>3. CASE r.max > count[p]
      <4>1. Raise(p, r.max)
        BY <1>5, <3>3 DEF ResizeSet
      <4>2. owed[p] - Lesser(owed[p], r.max - count[p]) \in Nat
        BY <3>1, <3>3 DEF Lesser
      <4>3. r.max - count[p] - Lesser(owed[p], r.max - count[p]) \in Nat
        BY <3>1, <3>3 DEF Lesser
      <4>4. owed' \in [Pools -> Nat] /\ resizing' \in Resizes /\ permits' = permits
        BY <4>1, <4>2, <4>3, <2>1 DEF Raise, Resizes, IndInv, TypeOK, PoolsOK
      <4> QED BY <1>5, <3>2, <4>4 DEF IndInv, TypeOK, PoolsOK, ResizeSet
    <3>4. CASE ~ (r.max > count[p])
      <4>1. Lower(p, r.max)
        BY <1>5, <3>4 DEF ResizeSet
      <4>2. permits[p] - Lesser(permits[p], count[p] - r.max) \in Nat
        BY <3>1, <3>4 DEF Lesser
      <4>3. count[p] - r.max - Lesser(permits[p], count[p] - r.max) \in Nat
        BY <3>1, <3>4 DEF Lesser
      <4>4. permits' \in [Pools -> Nat] /\ resizing' \in Resizes /\ owed' = owed
        BY <4>1, <4>2, <4>3, <2>1 DEF Lower, Resizes, IndInv, TypeOK, PoolsOK
      <4> QED BY <1>5, <3>2, <4>4 DEF IndInv, TypeOK, PoolsOK, ResizeSet
    <3> QED BY <3>3, <3>4
  <2>4. TurnsOK'
    BY <1>5, <2>1 DEF IndInv, TypeOK, PoolsOK, TurnsOK, Set, ResizeSet, Raise, Lower, Lesser
  <2> QED BY <2>2, <2>3, <2>4 DEF TypeOK
<1>6. ASSUME NEW r \in pending, Set(r), ReplaceSet(r) PROVE TypeOK'
  <2>1. r.max \in 0..MaxLimit /\ r.version \in 0..MaxVersion /\ made \in 0..MaxPools
    BY <1>6 DEF IndInv, TypeOK, RowsOK, PoolsOK, TurnsOK, Rows, Limits, Resizes, CurrentMade,
       TurnsFit, Fits, NoResize, Pools, None, Asking, ReplaceSet
  <2>2. RowsOK'
    BY <1>6 DEF IndInv, TypeOK, RowsOK, Set, ReplaceSet, MutexFree, Rows
  <2>3. PoolsOK'
    <3>1. queue' \in [Pools -> Seq(Turns)] /\ closed' \subseteq Pools
      BY <1>6 DEF IndInv, TypeOK, PoolsOK, ReplaceSet, Limits
    <3>2. CASE r.max > 0
      <4>1. made + 1 \in Pools /\ made + 1 \in 0..MaxPools
        BY <1>6, <3>2, <2>1 DEF ReplaceSet, Pools
      <4>2. count' \in [Pools -> 0..MaxLimit] /\ permits' \in [Pools -> Nat]
        <5>1. count' = [count EXCEPT ![made + 1] = r.max] /\ permits' = [permits EXCEPT ![made + 1] = r.max]
          BY <1>6, <3>2 DEF ReplaceSet
        <5> QED BY <2>1, <4>1, <5>1 DEF IndInv, TypeOK, PoolsOK
      <4>3. limit' \in Limits /\ made' \in 0..MaxPools
        BY <1>6, <3>2, <2>1, <4>1 DEF ReplaceSet, Limits
      <4> QED BY <1>6, <3>1, <4>2, <4>3 DEF IndInv, TypeOK, PoolsOK, ReplaceSet
    <3>3. CASE ~ (r.max > 0)
      <4>1. limit' \in Limits
        BY <1>6, <2>1, <3>3 DEF ReplaceSet, Limits
      <4> QED BY <1>6, <3>1, <3>3, <4>1 DEF IndInv, TypeOK, PoolsOK, ReplaceSet
    <3> QED BY <3>2, <3>3
  <2>4. TurnsOK'
    BY <1>6, <2>1 DEF IndInv, TypeOK, PoolsOK, TurnsOK, Set, ReplaceSet, MutexFree
  <2> QED BY <2>2, <2>3, <2>4 DEF TypeOK
<1>7. CASE Forget
  <2>1. RowsOK'
    BY <1>7 DEF IndInv, TypeOK, RowsOK, Forget, Unknown
  <2>2. PoolsOK'
    BY <1>7 DEF IndInv, TypeOK, PoolsOK, Forget, Unknown, Limits, None
  <2>3. TurnsOK'
    BY <1>7 DEF IndInv, TypeOK, PoolsOK, TurnsOK, Forget, Unknown
  <2> QED BY <2>1, <2>2, <2>3 DEF TypeOK
<1>8. CASE FinishLower
  <2>1. resizing.pool \in Pools /\ resizing.owe \in Nat
    BY <1>8 DEF IndInv, TypeOK, RowsOK, PoolsOK, TurnsOK, Rows, Limits, Resizes, CurrentMade,
       TurnsFit, Fits, NoResize, Pools, None, Asking, FinishLower
  <2>2. RowsOK'
    BY <1>8 DEF IndInv, TypeOK, RowsOK, FinishLower, NoResize
  <2>3. PoolsOK'
    BY <1>8, <2>1 DEF IndInv, TypeOK, PoolsOK, FinishLower, NoResize, Resizes, None
  <2>4. TurnsOK'
    BY <1>8, <2>1 DEF IndInv, TypeOK, PoolsOK, TurnsOK, FinishLower, NoResize
  <2> QED BY <2>2, <2>3, <2>4 DEF TypeOK
<1>9. CASE FinishEvenResize
  <2>1. RowsOK'
    BY <1>9 DEF IndInv, TypeOK, RowsOK, FinishEvenResize, NoResize
  <2>2. PoolsOK'
    BY <1>9 DEF IndInv, TypeOK, PoolsOK, FinishEvenResize, NoResize, Resizes, None
  <2>3. TurnsOK'
    BY <1>9 DEF IndInv, TypeOK, PoolsOK, TurnsOK, FinishEvenResize, NoResize
  <2> QED BY <2>1, <2>2, <2>3 DEF TypeOK
<1>10. CASE AddPermit
  <2>1. resizing.pool \in Pools /\ resizing.add \in Nat /\ resizing.owe \in Nat
    BY <1>10 DEF IndInv, TypeOK, RowsOK, PoolsOK, TurnsOK, Rows, Limits, Resizes, CurrentMade,
       TurnsFit, Fits, NoResize, Pools, None, Asking, AddPermit
  <2>2. RowsOK'
    BY <1>10 DEF IndInv, TypeOK, RowsOK, AddPermit, Give
  <2>3. PoolsOK'
    <3>1. pc \in [Turns -> States]
      BY DEF IndInv, TypeOK, TurnsOK, States
    <3>2. permits' \in [Pools -> Nat] /\ queue' \in [Pools -> Seq(Turns)]
      BY <1>10, <2>1, <3>1, GiveType DEF IndInv, AddPermit
    <3>3. resizing' \in Resizes
      <4>1. resizing.add - 1 \in Nat /\ resizing' = [resizing EXCEPT !.add = resizing.add - 1]
        BY <1>10, <2>1 DEF AddPermit
      <4> QED BY <4>1 DEF Resizes, IndInv, TypeOK, PoolsOK
    <3> QED BY <1>10, <3>2, <3>3 DEF IndInv, TypeOK, PoolsOK, AddPermit
  <2>4. TurnsOK'
    BY <1>10, <2>1 DEF IndInv, TypeOK, PoolsOK, TurnsOK, AddPermit, Give, States
  <2> QED BY <2>2, <2>3, <2>4 DEF TypeOK
<1>11. ASSUME NEW t \in Turns, StartTurn(t) PROVE TypeOK'
  <2>1. RowsOK'
    BY <1>11 DEF IndInv, TypeOK, RowsOK, StartTurn
  <2>2. PoolsOK'
    BY <1>11 DEF IndInv, TypeOK, PoolsOK, StartTurn
  <2>3. TurnsOK'
    BY <1>11 DEF IndInv, TypeOK, PoolsOK, TurnsOK, StartTurn, States
  <2> QED BY <2>1, <2>2, <2>3 DEF TypeOK
<1>12. ASSUME NEW t \in Turns, Refresh(t) PROVE TypeOK'
  <2>1. RowsOK'
    BY <1>12 DEF IndInv, TypeOK, RowsOK, Refresh, MutexFree
  <2>2. PoolsOK'
    BY <1>12 DEF IndInv, TypeOK, PoolsOK, Refresh, MutexFree
  <2>3. TurnsOK'
    BY <1>12 DEF IndInv, TypeOK, PoolsOK, TurnsOK, Refresh, MutexFree, States
  <2> QED BY <2>1, <2>2, <2>3 DEF TypeOK
<1>13. ASSUME NEW t \in Turns, Look(t) PROVE TypeOK'
  <2>1. limit.pool \in Pools \cup {None}
    BY <1>13 DEF IndInv, TypeOK, RowsOK, PoolsOK, TurnsOK, Rows, Limits, Resizes, CurrentMade,
       TurnsFit, Fits, NoResize, Pools, None, Asking, Look
  <2>2. RowsOK'
    BY <1>13 DEF IndInv, TypeOK, RowsOK, Look, MutexFree, TakeInstead
  <2>3. PoolsOK'
    BY <1>13, <2>1 DEF IndInv, TypeOK, PoolsOK, Look, MutexFree, TakeInstead
  <2>4. TurnsOK'
    BY <1>13, <2>1 DEF IndInv, TypeOK, PoolsOK, TurnsOK, Look, MutexFree, TakeInstead, States
  <2> QED BY <2>2, <2>3, <2>4 DEF TypeOK
<1>14. ASSUME NEW t \in Turns, Refused(t) PROVE TypeOK'
  <2>1. RowsOK'
    BY <1>14 DEF IndInv, TypeOK, RowsOK, Refused
  <2>2. PoolsOK'
    BY <1>14 DEF IndInv, TypeOK, PoolsOK, Refused
  <2>3. TurnsOK'
    BY <1>14 DEF IndInv, TypeOK, PoolsOK, TurnsOK, Refused, States
  <2> QED BY <2>1, <2>2, <2>3 DEF TypeOK
<1>15. ASSUME NEW t \in Turns, TakePermit(t) PROVE TypeOK'
  <2>1. want[t] \in Pools
    BY <1>15 DEF IndInv, TypeOK, RowsOK, PoolsOK, TurnsOK, Rows, Limits, Resizes, CurrentMade,
       TurnsFit, Fits, NoResize, Pools, None, Asking, TakePermit
  <2>2. RowsOK'
    BY <1>15 DEF IndInv, TypeOK, RowsOK, TakePermit, TakeInstead
  <2>3. PoolsOK'
    BY <1>15, <2>1 DEF IndInv, TypeOK, PoolsOK, TakePermit, TakeInstead
  <2>4. TurnsOK'
    BY <1>15, <2>1 DEF IndInv, TypeOK, PoolsOK, TurnsOK, TakePermit, TakeInstead, States
  <2> QED BY <2>2, <2>3, <2>4 DEF TypeOK
<1>16. ASSUME NEW t \in Turns, Enqueue(t) PROVE TypeOK'
  <2>1. want[t] \in Pools
    BY <1>16 DEF IndInv, TypeOK, RowsOK, PoolsOK, TurnsOK, Rows, Limits, Resizes, CurrentMade,
       TurnsFit, Fits, NoResize, Pools, None, Asking, Enqueue
  <2>2. RowsOK'
    BY <1>16 DEF IndInv, TypeOK, RowsOK, Enqueue
  <2>3. PoolsOK'
    BY <1>16, <2>1 DEF IndInv, TypeOK, PoolsOK, Enqueue
  <2>4. TurnsOK'
    BY <1>16, <2>1 DEF IndInv, TypeOK, PoolsOK, TurnsOK, Enqueue, States
  <2> QED BY <2>2, <2>3, <2>4 DEF TypeOK
<1>17. ASSUME NEW t \in Turns, TakeUp(t) PROVE TypeOK'
  <2>1. want[t] \in Pools
    BY <1>17 DEF IndInv, TypeOK, RowsOK, PoolsOK, TurnsOK, Rows, Limits, Resizes, CurrentMade,
       TurnsFit, Fits, NoResize, Pools, None, Asking, TakeUp
  <2>2. RowsOK'
    BY <1>17 DEF IndInv, TypeOK, RowsOK, TakeUp, TakeInstead
  <2>3. PoolsOK'
    BY <1>17, <2>1 DEF IndInv, TypeOK, PoolsOK, TakeUp, TakeInstead
  <2>4. TurnsOK'
    BY <1>17, <2>1 DEF IndInv, TypeOK, PoolsOK, TurnsOK, TakeUp, TakeInstead, States
  <2> QED BY <2>2, <2>3, <2>4 DEF TypeOK
<1>18. ASSUME NEW t \in Turns, PoolClosed(t) PROVE TypeOK'
  <2>1. RowsOK'
    BY <1>18 DEF IndInv, TypeOK, RowsOK, PoolClosed
  <2>2. PoolsOK'
    BY <1>18 DEF IndInv, TypeOK, PoolsOK, PoolClosed
  <2>3. TurnsOK'
    BY <1>18 DEF IndInv, TypeOK, PoolsOK, TurnsOK, PoolClosed, States
  <2> QED BY <2>1, <2>2, <2>3 DEF TypeOK
<1>19. ASSUME NEW t \in Turns, PermitReturned(t) PROVE TypeOK'
  <2>1. want[t] \in Pools
    BY <1>19 DEF IndInv, TypeOK, RowsOK, PoolsOK, TurnsOK, Rows, Limits, Resizes, CurrentMade,
       TurnsFit, Fits, NoResize, Pools, None, Asking, PermitReturned
  <2>2. RowsOK'
    BY <1>19 DEF IndInv, TypeOK, RowsOK, PermitReturned
  <2>3. PoolsOK'
    BY <1>19, <2>1 DEF IndInv, TypeOK, PoolsOK, PermitReturned
  <2>4. TurnsOK'
    BY <1>19, <2>1 DEF IndInv, TypeOK, PoolsOK, TurnsOK, PermitReturned, States
  <2> QED BY <2>2, <2>3, <2>4 DEF TypeOK
<1>20. ASSUME NEW t \in Turns, DropSlot(t) PROVE TypeOK'
  <2>1. old[t] \in Pools
    BY <1>20 DEF IndInv, TypeOK, RowsOK, PoolsOK, TurnsOK, Rows, Limits, Resizes, CurrentMade,
       TurnsFit, Fits, NoResize, Pools, None, Asking, DropSlot
  <2>2. RowsOK'
    BY <1>20 DEF IndInv, TypeOK, RowsOK, DropSlot
  <2>3. PoolsOK'
    <3>1. owed' \in [Pools -> Nat]
      BY <1>20, <2>1 DEF IndInv, TypeOK, PoolsOK, DropSlot
    <3> QED BY <1>20, <3>1 DEF IndInv, TypeOK, PoolsOK, DropSlot
  <2>4. TurnsOK'
    BY <1>20, <2>1 DEF IndInv, TypeOK, PoolsOK, TurnsOK, DropSlot, States
  <2> QED BY <2>2, <2>3, <2>4 DEF TypeOK
<1>21. ASSUME NEW t \in Turns, FreePermit(t) PROVE TypeOK'
  <2>1. old[t] \in Pools
    BY <1>21 DEF IndInv, TypeOK, RowsOK, PoolsOK, TurnsOK, Rows, Limits, Resizes, CurrentMade,
       TurnsFit, Fits, NoResize, Pools, None, Asking, FreePermit
  <2>2. RowsOK'
    BY <1>21 DEF IndInv, TypeOK, RowsOK, FreePermit, Give
  <2>3. PoolsOK'
    <3>1. [pc EXCEPT ![t] = after[t]] \in [Turns -> States]
      BY DEF IndInv, TypeOK, TurnsOK, States
    <3>2. permits' \in [Pools -> Nat] /\ queue' \in [Pools -> Seq(Turns)]
      BY <1>21, <2>1, <3>1, GiveType DEF IndInv, FreePermit
    <3> QED BY <1>21, <3>2 DEF IndInv, TypeOK, PoolsOK, FreePermit
  <2>4. TurnsOK'
    BY <1>21, <2>1 DEF IndInv, TypeOK, PoolsOK, TurnsOK, FreePermit, Give, States
  <2> QED BY <2>2, <2>3, <2>4 DEF TypeOK
<1>22. ASSUME NEW t \in Turns, RunTools(t) PROVE TypeOK'
  <2>1. RowsOK'
    BY <1>22 DEF IndInv, TypeOK, RowsOK, RunTools, GiveUp
  <2>2. PoolsOK'
    BY <1>22 DEF IndInv, TypeOK, PoolsOK, RunTools, GiveUp
  <2>3. TurnsOK'
    <3>1. rounds' \in [Turns -> 0..MaxRounds]
      BY <1>22 DEF IndInv, TypeOK, TurnsOK, RunTools
    <3> QED BY <1>22, <3>1 DEF IndInv, TypeOK, TurnsOK, RunTools, GiveUp, States
  <2> QED BY <2>1, <2>2, <2>3 DEF TypeOK
<1>23. ASSUME NEW t \in Turns, NextCall(t) PROVE TypeOK'
  <2>1. RowsOK'
    BY <1>23 DEF IndInv, TypeOK, RowsOK, NextCall
  <2>2. PoolsOK'
    BY <1>23 DEF IndInv, TypeOK, PoolsOK, NextCall
  <2>3. TurnsOK'
    BY <1>23 DEF IndInv, TypeOK, PoolsOK, TurnsOK, NextCall, States
  <2> QED BY <2>1, <2>2, <2>3 DEF TypeOK
<1>24. ASSUME NEW t \in Turns, EndTurn(t) PROVE TypeOK'
  <2>1. RowsOK'
    BY <1>24 DEF IndInv, TypeOK, RowsOK, EndTurn, GiveUp
  <2>2. PoolsOK'
    BY <1>24 DEF IndInv, TypeOK, PoolsOK, EndTurn, GiveUp
  <2>3. TurnsOK'
    BY <1>24 DEF IndInv, TypeOK, PoolsOK, TurnsOK, EndTurn, GiveUp, States
  <2> QED BY <2>1, <2>2, <2>3 DEF TypeOK
<1>25. ASSUME NEW t \in Turns, Stop(t) PROVE TypeOK'
  <2>1. RowsOK'
    BY <1>25 DEF IndInv, TypeOK, RowsOK, Stop, GiveUp
  <2>2. PoolsOK'
    BY <1>25 DEF IndInv, TypeOK, PoolsOK, Stop, GiveUp
  <2>3. TurnsOK'
    BY <1>25 DEF IndInv, TypeOK, PoolsOK, TurnsOK, Stop, GiveUp, States
  <2> QED BY <2>1, <2>2, <2>3 DEF TypeOK
<1>26. ASSUME NEW t \in Turns, StopWaiting(t) PROVE TypeOK'
  <2>1. want[t] \in Pools
    BY <1>26 DEF IndInv, TypeOK, RowsOK, PoolsOK, TurnsOK, Rows, Limits, Resizes, CurrentMade,
       TurnsFit, Fits, NoResize, Pools, None, Asking, StopWaiting
  <2>2. RowsOK'
    BY <1>26 DEF IndInv, TypeOK, RowsOK, StopWaiting, GiveUp
  <2>3. PoolsOK'
    <3>1. Without(queue[want[t]], t) \in Seq(Turns)
      BY <2>1, WithoutIsQueue DEF IndInv, TypeOK, PoolsOK, QueuesFit, QueueFits, Once
    <3> QED BY <1>26, <2>1, <3>1 DEF IndInv, TypeOK, PoolsOK, StopWaiting
  <2>4. TurnsOK'
    BY <1>26, <2>1 DEF IndInv, TypeOK, PoolsOK, TurnsOK, StopWaiting, GiveUp, States
  <2> QED BY <2>2, <2>3, <2>4 DEF TypeOK
<1>27. ASSUME NEW t \in Turns, StopAssigned(t) PROVE TypeOK'
  <2>1. want[t] \in Pools
    BY <1>27 DEF IndInv, TypeOK, RowsOK, PoolsOK, TurnsOK, Rows, Limits, Resizes, CurrentMade,
       TurnsFit, Fits, NoResize, Pools, None, Asking, StopAssigned
  <2>2. RowsOK'
    BY <1>27 DEF IndInv, TypeOK, RowsOK, StopAssigned, Give
  <2>3. PoolsOK'
    <3>1. [pc EXCEPT ![t] = IF slot[t] = None THEN "idle" ELSE "drop"] \in [Turns -> States]
      BY DEF IndInv, TypeOK, TurnsOK, States
    <3>2. permits' \in [Pools -> Nat] /\ queue' \in [Pools -> Seq(Turns)]
      BY <1>27, <2>1, <3>1, GiveType DEF IndInv, StopAssigned
    <3> QED BY <1>27, <3>2 DEF IndInv, TypeOK, PoolsOK, StopAssigned
  <2>4. TurnsOK'
    BY <1>27, <2>1 DEF IndInv, TypeOK, PoolsOK, TurnsOK, StopAssigned, Give, States
  <2> QED BY <2>2, <2>3, <2>4 DEF TypeOK
<1>28. CASE UNCHANGED vars
  BY <1>28 DEF vars, IndInv, TypeOK, RowsOK, PoolsOK, TurnsOK
<1> QED
  BY <1>1, <1>2, <1>3, <1>4, <1>5, <1>6, <1>7, <1>8, <1>9, <1>10, <1>11, <1>12, <1>13, <1>14,
     <1>15, <1>16, <1>17, <1>18, <1>19, <1>20, <1>21, <1>22, <1>23, <1>24, <1>25, <1>26, <1>27,
     <1>28
     DEF Next, Configure, Limiting, Proceed, Set
\* Every step keeps the current pool and the one being resized made.
LEMMA CurrentMadeStep == IndInv /\ TypeOK' /\ [Next]_vars => CurrentMade'
<1> SUFFICES ASSUME IndInv, TypeOK', [Next]_vars PROVE CurrentMade'
  OBVIOUS
<1> USE LimiterAssumption DEF rowVars, poolVars, turnVars
<1>1. ASSUME NEW max \in 0..MaxLimit, SaveProvider(max) PROVE CurrentMade'
  BY <1>1 DEF IndInv, TypeOK, PoolsOK, CurrentMade, TurnsFit, None, NoResize, Limits, Resizes,
     SaveProvider, Exists
<1>2. CASE BuildEndpoint
  BY <1>2 DEF IndInv, TypeOK, PoolsOK, CurrentMade, TurnsFit, None, NoResize, Limits, Resizes,
     BuildEndpoint
<1>3. CASE DeleteProvider
  BY <1>3 DEF IndInv, TypeOK, PoolsOK, CurrentMade, TurnsFit, None, NoResize, Limits, Resizes,
     DeleteProvider, Gone
<1>4. ASSUME NEW r \in pending, Set(r), IgnoreStaleSet(r) PROVE CurrentMade'
  BY <1>4 DEF IndInv, TypeOK, PoolsOK, CurrentMade, TurnsFit, None, NoResize, Limits, Resizes,
     Set, IgnoreStaleSet
<1>5. ASSUME NEW r \in pending, Set(r), ResizeSet(r) PROVE CurrentMade'
  BY <1>5, SMTT(30) DEF IndInv, TypeOK, PoolsOK, CurrentMade, TurnsFit, None, NoResize, Limits, Resizes,
     Set, ResizeSet, Raise, Lower, Lesser
<1>6. ASSUME NEW r \in pending, Set(r), ReplaceSet(r) PROVE CurrentMade'
  <2>1. made \in Nat /\ limit.pool \in Nat /\ closed \subseteq Nat
    <3>1. Pools \subseteq Nat /\ None \in Nat
      BY DEF Pools, None
    <3>2. made \in Nat /\ limit.pool \in Pools \cup {None} /\ closed \subseteq Pools
      BY DEF IndInv, TypeOK, PoolsOK, Limits
    <3> QED BY <3>1, <3>2
  <2>2. resizing' = NoResize
    BY <1>6 DEF Set, MutexFree, ReplaceSet
  <2>3. CASE r.max > 0
    BY <1>6, <2>1, <2>2, <2>3 DEF IndInv, CurrentMade, ReplaceSet, None, NoResize
  <2>4. CASE ~ (r.max > 0)
    BY <1>6, <2>1, <2>2, <2>4 DEF IndInv, CurrentMade, ReplaceSet, None, NoResize
  <2> QED BY <2>3, <2>4
<1>7. CASE Forget
  BY <1>7 DEF IndInv, TypeOK, PoolsOK, CurrentMade, TurnsFit, None, NoResize, Limits, Resizes,
     Forget, Unknown
<1>8. CASE FinishLower
  BY <1>8 DEF IndInv, TypeOK, PoolsOK, CurrentMade, TurnsFit, None, NoResize, Limits, Resizes,
     FinishLower, NoResize
<1>9. CASE FinishEvenResize
  BY <1>9 DEF IndInv, TypeOK, PoolsOK, CurrentMade, TurnsFit, None, NoResize, Limits, Resizes,
     FinishEvenResize, NoResize
<1>10. CASE AddPermit
  BY <1>10 DEF IndInv, TypeOK, PoolsOK, CurrentMade, TurnsFit, None, NoResize, Limits, Resizes,
     AddPermit, Give, TurnsOK
<1>11. ASSUME NEW t \in Turns, StartTurn(t) PROVE CurrentMade'
  BY <1>11 DEF IndInv, TypeOK, PoolsOK, CurrentMade, TurnsFit, None, NoResize, Limits, Resizes,
     StartTurn
<1>12. ASSUME NEW t \in Turns, Refresh(t) PROVE CurrentMade'
  BY <1>12 DEF IndInv, TypeOK, PoolsOK, CurrentMade, TurnsFit, None, NoResize, Limits, Resizes,
     Refresh, MutexFree
<1>13. ASSUME NEW t \in Turns, Look(t) PROVE CurrentMade'
  BY <1>13 DEF IndInv, TypeOK, PoolsOK, CurrentMade, TurnsFit, None, NoResize, Limits, Resizes,
     Look, MutexFree, TakeInstead
<1>14. ASSUME NEW t \in Turns, Refused(t) PROVE CurrentMade'
  BY <1>14 DEF IndInv, TypeOK, PoolsOK, CurrentMade, TurnsFit, None, NoResize, Limits, Resizes,
     Refused
<1>15. ASSUME NEW t \in Turns, TakePermit(t) PROVE CurrentMade'
  BY <1>15 DEF IndInv, TypeOK, PoolsOK, CurrentMade, TurnsFit, None, NoResize, Limits, Resizes,
     TakePermit, TakeInstead
<1>16. ASSUME NEW t \in Turns, Enqueue(t) PROVE CurrentMade'
  BY <1>16 DEF IndInv, TypeOK, PoolsOK, CurrentMade, TurnsFit, None, NoResize, Limits, Resizes,
     Enqueue
<1>17. ASSUME NEW t \in Turns, TakeUp(t) PROVE CurrentMade'
  BY <1>17 DEF IndInv, TypeOK, PoolsOK, CurrentMade, TurnsFit, None, NoResize, Limits, Resizes,
     TakeUp, TakeInstead
<1>18. ASSUME NEW t \in Turns, PoolClosed(t) PROVE CurrentMade'
  BY <1>18 DEF IndInv, TypeOK, PoolsOK, CurrentMade, TurnsFit, None, NoResize, Limits, Resizes,
     PoolClosed
<1>19. ASSUME NEW t \in Turns, PermitReturned(t) PROVE CurrentMade'
  BY <1>19 DEF IndInv, TypeOK, PoolsOK, CurrentMade, TurnsFit, None, NoResize, Limits, Resizes,
     PermitReturned
<1>20. ASSUME NEW t \in Turns, DropSlot(t) PROVE CurrentMade'
  BY <1>20 DEF IndInv, TypeOK, PoolsOK, CurrentMade, TurnsFit, None, NoResize, Limits, Resizes,
     DropSlot
<1>21. ASSUME NEW t \in Turns, FreePermit(t) PROVE CurrentMade'
  BY <1>21 DEF IndInv, TypeOK, PoolsOK, CurrentMade, TurnsFit, None, NoResize, Limits, Resizes,
     FreePermit, Give
<1>22. ASSUME NEW t \in Turns, RunTools(t) PROVE CurrentMade'
  BY <1>22 DEF IndInv, TypeOK, PoolsOK, CurrentMade, TurnsFit, None, NoResize, Limits, Resizes,
     RunTools, GiveUp
<1>23. ASSUME NEW t \in Turns, NextCall(t) PROVE CurrentMade'
  BY <1>23 DEF IndInv, TypeOK, PoolsOK, CurrentMade, TurnsFit, None, NoResize, Limits, Resizes,
     NextCall
<1>24. ASSUME NEW t \in Turns, EndTurn(t) PROVE CurrentMade'
  BY <1>24 DEF IndInv, TypeOK, PoolsOK, CurrentMade, TurnsFit, None, NoResize, Limits, Resizes,
     EndTurn, GiveUp
<1>25. ASSUME NEW t \in Turns, Stop(t) PROVE CurrentMade'
  BY <1>25 DEF IndInv, TypeOK, PoolsOK, CurrentMade, TurnsFit, None, NoResize, Limits, Resizes,
     Stop, GiveUp
<1>26. ASSUME NEW t \in Turns, StopWaiting(t) PROVE CurrentMade'
  BY <1>26 DEF IndInv, TypeOK, PoolsOK, CurrentMade, TurnsFit, None, NoResize, Limits, Resizes,
     StopWaiting, GiveUp
<1>27. ASSUME NEW t \in Turns, StopAssigned(t) PROVE CurrentMade'
  BY <1>27 DEF IndInv, TypeOK, PoolsOK, CurrentMade, TurnsFit, None, NoResize, Limits, Resizes,
     StopAssigned, Give
<1>28. CASE UNCHANGED vars
  BY <1>28 DEF vars, IndInv, TypeOK, PoolsOK, CurrentMade, TurnsFit, None, NoResize, Limits,
     Resizes
<1> QED
  BY <1>1, <1>2, <1>3, <1>4, <1>5, <1>6, <1>7, <1>8, <1>9, <1>10, <1>11, <1>12, <1>13, <1>14,
     <1>15, <1>16, <1>17, <1>18, <1>19, <1>20, <1>21, <1>22, <1>23, <1>24, <1>25, <1>26, <1>27,
     <1>28
     DEF Next, Configure, Limiting, Proceed, Set

\* Every step leaves the pools that were not made untouched.
LEMMA UnmadeUntouchedStep == IndInv /\ TypeOK' /\ [Next]_vars => UnmadeUntouched'
<1> SUFFICES ASSUME IndInv, TypeOK', [Next]_vars PROVE UnmadeUntouched'
  OBVIOUS
<1> USE LimiterAssumption DEF rowVars, poolVars, turnVars
<1>1. ASSUME NEW max \in 0..MaxLimit, SaveProvider(max) PROVE UnmadeUntouched'
  BY <1>1 DEF IndInv, TypeOK, PoolsOK, UnmadeUntouched, SaveProvider, Exists
<1>2. CASE BuildEndpoint
  BY <1>2 DEF IndInv, TypeOK, PoolsOK, UnmadeUntouched, BuildEndpoint
<1>3. CASE DeleteProvider
  BY <1>3 DEF IndInv, TypeOK, PoolsOK, UnmadeUntouched, DeleteProvider, Gone
<1>4. ASSUME NEW r \in pending, Set(r), IgnoreStaleSet(r) PROVE UnmadeUntouched'
  BY <1>4 DEF IndInv, TypeOK, PoolsOK, UnmadeUntouched, Set, IgnoreStaleSet
<1>5. ASSUME NEW r \in pending, Set(r), ResizeSet(r) PROVE UnmadeUntouched'
  <2>1. limit.pool \in Pools /\ limit.pool <= made
    BY <1>5 DEF IndInv, TypeOK, PoolsOK, TurnsOK, Pools, None, NoResize, Limits, Resizes,
       CurrentMade, ResizeSet
  <2>2. /\ count'[limit.pool] = r.max
        /\ \A q \in Pools : q # limit.pool =>
              permits'[q] = permits[q] /\ owed'[q] = owed[q] /\ count'[q] = count[q]
    BY <1>5, <2>1, ResizeElsewhere DEF IndInv
  <2> QED BY <1>5, <2>1, <2>2 DEF IndInv, UnmadeUntouched, ResizeSet
<1>6. ASSUME NEW r \in pending, Set(r), ReplaceSet(r) PROVE UnmadeUntouched'
  <2>1. made \in Nat /\ r.max \in Nat
    BY DEF IndInv, TypeOK, PoolsOK, RowsOK, Rows
  <2>2. \A q \in Pools : q > made => queue'[q] = <<>>
    BY <1>6 DEF IndInv, UnmadeUntouched, ReplaceSet
  <2>3. CASE r.max > 0
    <3>1. made + 1 \in Pools /\ made' = made + 1
      BY <1>6, <2>1, <2>3 DEF ReplaceSet, IndInv, TypeOK, PoolsOK, Pools
    <3>2. /\ count' = [count EXCEPT ![made + 1] = r.max]
          /\ permits' = [permits EXCEPT ![made + 1] = r.max]
          /\ owed' = owed
      BY <1>6, <2>3 DEF ReplaceSet
    <3>3. /\ count'[made + 1] = r.max
          /\ \A q \in Pools : q # made + 1 => count'[q] = count[q] /\ permits'[q] = permits[q]
      BY <3>1, <3>2 DEF IndInv, TypeOK, PoolsOK
    <3>4. \A q \in Pools : q \in Nat
      BY DEF Pools
    <3> QED BY <2>1, <2>2, <2>3, <3>1, <3>2, <3>3, <3>4 DEF IndInv, UnmadeUntouched
  <2>4. CASE ~ (r.max > 0)
    BY <1>6, <2>2, <2>4 DEF IndInv, UnmadeUntouched, ReplaceSet
  <2> QED BY <2>3, <2>4
<1>7. CASE Forget
  BY <1>7 DEF IndInv, TypeOK, PoolsOK, UnmadeUntouched, Forget, Unknown
<1>8. CASE FinishLower
  <2>1. resizing.pool \in Pools /\ resizing.pool <= made
    BY <1>8 DEF IndInv, TypeOK, PoolsOK, TurnsOK, Pools, None, NoResize, Limits, Resizes,
       CurrentMade, TurnsFit, Fits, Asking, FinishLower
  <2> QED BY <1>8, <2>1 DEF IndInv, UnmadeUntouched, TypeOK, PoolsOK, FinishLower, NoResize
<1>9. CASE FinishEvenResize
  BY <1>9 DEF IndInv, TypeOK, PoolsOK, UnmadeUntouched, FinishEvenResize, NoResize
<1>10. CASE AddPermit
  <2>1. resizing.pool \in Pools /\ resizing.pool <= made
    BY <1>10 DEF IndInv, TypeOK, PoolsOK, TurnsOK, Pools, None, NoResize, Limits, Resizes,
       CurrentMade, TurnsFit, Fits, Asking, AddPermit
  <2>2. \A q \in Pools : q # resizing.pool => permits'[q] = permits[q] /\ queue'[q] = queue[q]
    BY <1>10, <2>1, GiveElsewhere DEF IndInv, AddPermit
  <2> QED BY <1>10, <2>1, <2>2 DEF IndInv, UnmadeUntouched, TypeOK, PoolsOK, AddPermit
<1>11. ASSUME NEW t \in Turns, StartTurn(t) PROVE UnmadeUntouched'
  BY <1>11 DEF IndInv, TypeOK, PoolsOK, UnmadeUntouched, StartTurn
<1>12. ASSUME NEW t \in Turns, Refresh(t) PROVE UnmadeUntouched'
  BY <1>12 DEF IndInv, TypeOK, PoolsOK, UnmadeUntouched, Refresh, MutexFree
<1>13. ASSUME NEW t \in Turns, Look(t) PROVE UnmadeUntouched'
  BY <1>13 DEF IndInv, TypeOK, PoolsOK, UnmadeUntouched, Look, MutexFree, TakeInstead
<1>14. ASSUME NEW t \in Turns, Refused(t) PROVE UnmadeUntouched'
  BY <1>14 DEF IndInv, TypeOK, PoolsOK, UnmadeUntouched, Refused
<1>15. ASSUME NEW t \in Turns, TakePermit(t) PROVE UnmadeUntouched'
  <2>1. want[t] \in Pools /\ want[t] <= made
    BY <1>15 DEF IndInv, TypeOK, PoolsOK, TurnsOK, Pools, None, NoResize, Limits, Resizes,
       CurrentMade, TurnsFit, Fits, Asking, TakePermit
  <2> QED BY <1>15, <2>1 DEF IndInv, UnmadeUntouched, TypeOK, PoolsOK, TakePermit, TakeInstead
<1>16. ASSUME NEW t \in Turns, Enqueue(t) PROVE UnmadeUntouched'
  <2>1. want[t] \in Pools /\ want[t] <= made
    BY <1>16 DEF IndInv, TypeOK, PoolsOK, TurnsOK, Pools, None, NoResize, Limits, Resizes,
       CurrentMade, TurnsFit, Fits, Asking, Enqueue
  <2> QED BY <1>16, <2>1 DEF IndInv, UnmadeUntouched, TypeOK, PoolsOK, Enqueue
<1>17. ASSUME NEW t \in Turns, TakeUp(t) PROVE UnmadeUntouched'
  BY <1>17 DEF IndInv, TypeOK, PoolsOK, UnmadeUntouched, TakeUp, TakeInstead
<1>18. ASSUME NEW t \in Turns, PoolClosed(t) PROVE UnmadeUntouched'
  BY <1>18 DEF IndInv, TypeOK, PoolsOK, UnmadeUntouched, PoolClosed
<1>19. ASSUME NEW t \in Turns, PermitReturned(t) PROVE UnmadeUntouched'
  <2>1. want[t] \in Pools /\ want[t] <= made
    BY <1>19 DEF IndInv, TypeOK, PoolsOK, TurnsOK, Pools, None, NoResize, Limits, Resizes,
       CurrentMade, TurnsFit, Fits, Asking, PermitReturned
  <2> QED BY <1>19, <2>1 DEF IndInv, UnmadeUntouched, TypeOK, PoolsOK, PermitReturned
<1>20. ASSUME NEW t \in Turns, DropSlot(t) PROVE UnmadeUntouched'
  <2>1. old[t] \in Pools /\ old[t] <= made
    BY <1>20 DEF IndInv, TypeOK, PoolsOK, TurnsOK, Pools, None, NoResize, Limits, Resizes,
       CurrentMade, TurnsFit, Fits, Asking, DropSlot
  <2> QED BY <1>20, <2>1 DEF IndInv, UnmadeUntouched, TypeOK, PoolsOK, DropSlot
<1>21. ASSUME NEW t \in Turns, FreePermit(t) PROVE UnmadeUntouched'
  <2>1. old[t] \in Pools /\ old[t] <= made
    BY <1>21 DEF IndInv, TypeOK, PoolsOK, TurnsOK, Pools, None, NoResize, Limits, Resizes,
       CurrentMade, TurnsFit, Fits, Asking, FreePermit
  <2>2. \A q \in Pools : q # old[t] => permits'[q] = permits[q] /\ queue'[q] = queue[q]
    BY <1>21, <2>1, GiveElsewhere DEF IndInv, FreePermit
  <2> QED BY <1>21, <2>1, <2>2, SMTT(30)
       DEF IndInv, UnmadeUntouched, TypeOK, PoolsOK, FreePermit
<1>22. ASSUME NEW t \in Turns, RunTools(t) PROVE UnmadeUntouched'
  BY <1>22 DEF IndInv, TypeOK, PoolsOK, UnmadeUntouched, RunTools, GiveUp
<1>23. ASSUME NEW t \in Turns, NextCall(t) PROVE UnmadeUntouched'
  BY <1>23 DEF IndInv, TypeOK, PoolsOK, UnmadeUntouched, NextCall
<1>24. ASSUME NEW t \in Turns, EndTurn(t) PROVE UnmadeUntouched'
  BY <1>24 DEF IndInv, TypeOK, PoolsOK, UnmadeUntouched, EndTurn, GiveUp
<1>25. ASSUME NEW t \in Turns, Stop(t) PROVE UnmadeUntouched'
  BY <1>25 DEF IndInv, TypeOK, PoolsOK, UnmadeUntouched, Stop, GiveUp
<1>26. ASSUME NEW t \in Turns, StopWaiting(t) PROVE UnmadeUntouched'
  <2>1. want[t] \in Pools /\ want[t] <= made
    BY <1>26 DEF IndInv, TypeOK, PoolsOK, TurnsOK, Pools, None, NoResize, Limits, Resizes,
       CurrentMade, TurnsFit, Fits, Asking, StopWaiting
  <2>2. queue[want[t]] = <<>> => Without(queue[want[t]], t) = <<>>
    BY DEF Without
  <2> QED BY <1>26, <2>1, <2>2 DEF IndInv, UnmadeUntouched, TypeOK, PoolsOK, StopWaiting, GiveUp
<1>27. ASSUME NEW t \in Turns, StopAssigned(t) PROVE UnmadeUntouched'
  <2>1. want[t] \in Pools /\ want[t] <= made
    BY <1>27 DEF IndInv, TypeOK, PoolsOK, TurnsOK, Pools, None, NoResize, Limits, Resizes,
       CurrentMade, TurnsFit, Fits, Asking, StopAssigned
  <2>2. \A q \in Pools : q # want[t] => permits'[q] = permits[q] /\ queue'[q] = queue[q]
    BY <1>27, <2>1, GiveElsewhere DEF IndInv, StopAssigned
  <2> QED BY <1>27, <2>1, <2>2 DEF IndInv, UnmadeUntouched, TypeOK, PoolsOK, StopAssigned
<1>28. CASE UNCHANGED vars
  BY <1>28 DEF vars, IndInv, TypeOK, PoolsOK, UnmadeUntouched
<1> QED
  BY <1>1, <1>2, <1>3, <1>4, <1>5, <1>6, <1>7, <1>8, <1>9, <1>10, <1>11, <1>12, <1>13, <1>14,
     <1>15, <1>16, <1>17, <1>18, <1>19, <1>20, <1>21, <1>22, <1>23, <1>24, <1>25, <1>26, <1>27,
     <1>28
     DEF Next, Configure, Limiting, Proceed, Set

\* Every step keeps what each turn holds fit for where it is.
LEMMA TurnsFitStep == IndInv /\ TypeOK' /\ [Next]_vars => TurnsFit'
<1> SUFFICES ASSUME IndInv, TypeOK', [Next]_vars PROVE TurnsFit'
  OBVIOUS
<1> USE LimiterAssumption DEF rowVars, poolVars, turnVars
<1>1. ASSUME NEW max \in 0..MaxLimit, SaveProvider(max) PROVE TurnsFit'
  BY <1>1 DEF IndInv, TypeOK, TurnsOK, PoolsOK, TurnsFit, Fits, Asking, None, SaveProvider,
     Exists
<1>2. CASE BuildEndpoint
  BY <1>2 DEF IndInv, TypeOK, TurnsOK, PoolsOK, TurnsFit, Fits, Asking, None, BuildEndpoint
<1>3. CASE DeleteProvider
  BY <1>3 DEF IndInv, TypeOK, TurnsOK, PoolsOK, TurnsFit, Fits, Asking, None, DeleteProvider,
     Gone
<1>4. ASSUME NEW r \in pending, Set(r), IgnoreStaleSet(r) PROVE TurnsFit'
  BY <1>4 DEF IndInv, TypeOK, TurnsOK, PoolsOK, TurnsFit, Fits, Asking, None, Set,
     IgnoreStaleSet
<1>5. ASSUME NEW r \in pending, Set(r), ResizeSet(r) PROVE TurnsFit'
  BY <1>5 DEF IndInv, TypeOK, TurnsOK, PoolsOK, TurnsFit, Fits, Asking, None, Set, ResizeSet,
     Raise, Lower, Lesser
<1>6. ASSUME NEW r \in pending, Set(r), ReplaceSet(r) PROVE TurnsFit'
  <2>1. ASSUME NEW u \in Turns PROVE Fits(u)'
    <3>1. made \in Nat /\ r.max \in Nat /\ slot[u] \in Nat /\ want[u] \in Nat /\ old[u] \in Nat
      BY Numbers DEF IndInv, TypeOK, RowsOK, Rows
    <3>2. Fits(u)
      BY DEF IndInv, TurnsFit
    <3>3. \/ made' = made /\ limit'.pool = None
          \/ made' = made + 1 /\ limit'.pool = made + 1
      BY <1>6 DEF ReplaceSet
    <3> QED BY <1>6, <3>1, <3>2, <3>3 DEF Set, Fits, Asking, None
  <2> QED BY <2>1 DEF TurnsFit
<1>7. CASE Forget
  BY <1>7 DEF IndInv, TypeOK, TurnsOK, PoolsOK, TurnsFit, Fits, Asking, None, Forget, Unknown
<1>8. CASE FinishLower
  BY <1>8 DEF IndInv, TypeOK, TurnsOK, PoolsOK, TurnsFit, Fits, Asking, None, FinishLower,
     NoResize
<1>9. CASE FinishEvenResize
  BY <1>9 DEF IndInv, TypeOK, TurnsOK, PoolsOK, TurnsFit, Fits, Asking, None, FinishEvenResize,
     NoResize
<1>10. CASE AddPermit
  <2>1. resizing.pool \in Pools
    BY <1>10, Numbers
       DEF IndInv, TypeOK, PoolsOK, TurnsOK, Pools, None, NoResize, Limits, Resizes,
       CurrentMade, TurnsFit, Fits, Asking, AddPermit
  <2> DEFINE pcs == pc
  <2>2. pcs \in [Turns -> States]
    BY DEF IndInv, TypeOK, TurnsOK, States
  <2>3. Give(resizing.pool, pcs)
    BY <1>10 DEF AddPermit
  <2>f. \A u \in Turns : pcs[u] = pc[u]
    BY DEF IndInv, TypeOK, TurnsOK
  <2> HIDE DEF pcs
  <2>4. \/ pc' = pcs
        \/ \E h \in Turns : pc[h] = "waiting" /\ pc' = [pcs EXCEPT ![h] = "assigned"]
    BY <2>1, <2>2, <2>3, GiveMoves DEF IndInv
  <2>5. ASSUME NEW u \in Turns PROVE Fits(u)'
    <3>1. pc'[u] = pc[u] \/ (pc[u] = "waiting" /\ pc'[u] = "assigned")
      BY <2>2, <2>4, <2>f
    <3>2. Fits(u)
      BY DEF IndInv, TurnsFit
    <3> QED BY <1>10, <3>1, <3>2 DEF AddPermit, Fits, Asking
  <2> QED BY <2>5 DEF TurnsFit
<1>11. ASSUME NEW t \in Turns, StartTurn(t) PROVE TurnsFit'
  BY <1>11 DEF IndInv, TypeOK, TurnsOK, PoolsOK, TurnsFit, Fits, Asking, None, StartTurn
<1>12. ASSUME NEW t \in Turns, Refresh(t) PROVE TurnsFit'
  BY <1>12 DEF IndInv, TypeOK, TurnsOK, PoolsOK, TurnsFit, Fits, Asking, None, Refresh,
     MutexFree, Limits
<1>13. ASSUME NEW t \in Turns, Look(t) PROVE TurnsFit'
  <2>0. made \in Nat /\ limit.pool \in Nat /\ slot[t] \in Nat /\ want[t] \in Nat /\ old[t] \in Nat
    BY Numbers DEF IndInv
  <2>1. ASSUME NEW u \in Turns, u # t PROVE Fits(u)'
    BY <1>13, <2>1
       DEF IndInv, TypeOK, TurnsOK, PoolsOK, TurnsFit, Fits, Asking, None, Look, MutexFree,
       TakeInstead
  <2>2. Fits(t)'
    BY <1>13, <2>0
       DEF IndInv, TypeOK, TurnsOK, PoolsOK, TurnsFit, Fits, Asking, None, Look, MutexFree,
       TakeInstead, CurrentMade
  <2> QED BY <2>1, <2>2 DEF TurnsFit
<1>14. ASSUME NEW t \in Turns, Refused(t) PROVE TurnsFit'
  BY <1>14 DEF IndInv, TypeOK, TurnsOK, PoolsOK, TurnsFit, Fits, Asking, None, Refused
<1>15. ASSUME NEW t \in Turns, TakePermit(t) PROVE TurnsFit'
  <2>0. made \in Nat /\ limit.pool \in Nat /\ slot[t] \in Nat /\ want[t] \in Nat /\ old[t] \in Nat
    BY Numbers DEF IndInv
  <2>1. ASSUME NEW u \in Turns, u # t PROVE Fits(u)'
    BY <1>15, <2>1
       DEF IndInv, TypeOK, TurnsOK, PoolsOK, TurnsFit, Fits, Asking, None, TakePermit,
       TakeInstead
  <2>2. Fits(t)'
    BY <1>15, <2>0
       DEF IndInv, TypeOK, TurnsOK, PoolsOK, TurnsFit, Fits, Asking, None, TakePermit,
       TakeInstead
  <2> QED BY <2>1, <2>2 DEF TurnsFit
<1>16. ASSUME NEW t \in Turns, Enqueue(t) PROVE TurnsFit'
  BY <1>16 DEF IndInv, TypeOK, TurnsOK, PoolsOK, TurnsFit, Fits, Asking, None, Enqueue
<1>17. ASSUME NEW t \in Turns, TakeUp(t) PROVE TurnsFit'
  <2>0. made \in Nat /\ limit.pool \in Nat /\ slot[t] \in Nat /\ want[t] \in Nat /\ old[t] \in Nat
    BY Numbers DEF IndInv
  <2>1. ASSUME NEW u \in Turns, u # t PROVE Fits(u)'
    BY <1>17, <2>1
       DEF IndInv, TypeOK, TurnsOK, PoolsOK, TurnsFit, Fits, Asking, None, TakeUp, TakeInstead
  <2>2. Fits(t)'
    BY <1>17, <2>0
       DEF IndInv, TypeOK, TurnsOK, PoolsOK, TurnsFit, Fits, Asking, None, TakeUp, TakeInstead
  <2> QED BY <2>1, <2>2 DEF TurnsFit
<1>18. ASSUME NEW t \in Turns, PoolClosed(t) PROVE TurnsFit'
  BY <1>18 DEF IndInv, TypeOK, TurnsOK, PoolsOK, TurnsFit, Fits, Asking, None, PoolClosed
<1>19. ASSUME NEW t \in Turns, PermitReturned(t) PROVE TurnsFit'
  BY <1>19 DEF IndInv, TypeOK, TurnsOK, PoolsOK, TurnsFit, Fits, Asking, None, PermitReturned
<1>20. ASSUME NEW t \in Turns, DropSlot(t) PROVE TurnsFit'
  <2>1. ASSUME NEW u \in Turns, u # t PROVE Fits(u)'
    BY <1>20, <2>1 DEF IndInv, TypeOK, TurnsOK, PoolsOK, TurnsFit, Fits, Asking, None, DropSlot
  <2>2. after[t] \in {"idle", "refresh", "calling", "tools"} /\ pc \in [Turns -> States]
        /\ old \in [Turns -> Pools \cup {None}] /\ Fits(t) /\ made \in Nat
    BY Numbers DEF IndInv, TypeOK, TurnsOK, TurnsFit
  <2>3. Fits(t)'
    BY <1>20, <2>2 DEF Fits, Asking, None, DropSlot
  <2> QED BY <2>1, <2>3 DEF TurnsFit
<1>21. ASSUME NEW t \in Turns, FreePermit(t) PROVE TurnsFit'
  <2>1. old[t] \in Pools
    BY <1>21, Numbers
       DEF IndInv, TypeOK, PoolsOK, TurnsOK, Pools, None, NoResize, Limits, Resizes,
       CurrentMade, TurnsFit, Fits, Asking, FreePermit
  <2> DEFINE pcs == [pc EXCEPT ![t] = after[t]]
  <2>2. pcs \in [Turns -> States]
    BY DEF IndInv, TypeOK, TurnsOK, States
  <2>3. Give(old[t], pcs)
    BY <1>21 DEF FreePermit
  <2>f. \A u \in Turns : u # t => pcs[u] = pc[u]
    BY DEF IndInv, TypeOK, TurnsOK
  <2> HIDE DEF pcs
  <2>4. \/ pc' = pcs
        \/ \E h \in Turns : pc[h] = "waiting" /\ pc' = [pcs EXCEPT ![h] = "assigned"]
    BY <2>1, <2>2, <2>3, GiveMoves DEF IndInv
  <2>5. ASSUME NEW u \in Turns, u # t PROVE Fits(u)'
    <3>1. pc'[u] = pc[u] \/ (pc[u] = "waiting" /\ pc'[u] = "assigned")
      BY <2>2, <2>4, <2>5, <2>f
    <3>2. Fits(u)
      BY DEF IndInv, TurnsFit
    <3> QED BY <1>21, <2>5, <3>1, <3>2 DEF FreePermit, Fits, Asking, IndInv, TypeOK, TurnsOK
  <2>6. Fits(t)'
    <3>1. Fits(t) /\ pc'[t] = pcs[t]
      BY <1>21, <2>2, <2>4 DEF FreePermit, IndInv, TurnsFit
    <3> USE DEF pcs
    <3>2. after[t] \in {"idle", "refresh", "calling", "tools"} /\ pc \in [Turns -> States]
      BY DEF IndInv, TypeOK, TurnsOK
    <3>3. made \in Nat
      BY Numbers DEF IndInv
    <3> QED BY <1>21, <3>1, <3>2, <3>3
               DEF FreePermit, Fits, Asking, None, IndInv, TypeOK, TurnsOK
  <2> QED BY <2>5, <2>6 DEF TurnsFit
<1>22. ASSUME NEW t \in Turns, RunTools(t) PROVE TurnsFit'
  <2>0. made \in Nat /\ limit.pool \in Nat /\ slot[t] \in Nat /\ want[t] \in Nat /\ old[t] \in Nat
    BY Numbers DEF IndInv
  <2>1. ASSUME NEW u \in Turns, u # t PROVE Fits(u)'
    BY <1>22, <2>1
       DEF IndInv, TypeOK, TurnsOK, PoolsOK, TurnsFit, Fits, Asking, None, RunTools, GiveUp
  <2>2. Fits(t)'
    BY <1>22, <2>0, SMTT(30)
       DEF IndInv, TypeOK, TurnsOK, PoolsOK, TurnsFit, Fits, Asking, None, RunTools, GiveUp
  <2> QED BY <2>1, <2>2 DEF TurnsFit
<1>23. ASSUME NEW t \in Turns, NextCall(t) PROVE TurnsFit'
  BY <1>23 DEF IndInv, TypeOK, TurnsOK, PoolsOK, TurnsFit, Fits, Asking, None, NextCall
<1>24. ASSUME NEW t \in Turns, EndTurn(t) PROVE TurnsFit'
  BY <1>24 DEF IndInv, TypeOK, TurnsOK, PoolsOK, TurnsFit, Fits, Asking, None, EndTurn, GiveUp
<1>25. ASSUME NEW t \in Turns, Stop(t) PROVE TurnsFit'
  BY <1>25 DEF IndInv, TypeOK, TurnsOK, PoolsOK, TurnsFit, Fits, Asking, None, Stop, GiveUp
<1>26. ASSUME NEW t \in Turns, StopWaiting(t) PROVE TurnsFit'
  BY <1>26 DEF IndInv, TypeOK, TurnsOK, PoolsOK, TurnsFit, Fits, Asking, None, StopWaiting,
     GiveUp
<1>27. ASSUME NEW t \in Turns, StopAssigned(t) PROVE TurnsFit'
  <2>1. want[t] \in Pools
    BY <1>27, Numbers
       DEF IndInv, TypeOK, PoolsOK, TurnsOK, Pools, None, NoResize, Limits, Resizes,
       CurrentMade, TurnsFit, Fits, Asking, StopAssigned
  <2> DEFINE pcs == [pc EXCEPT ![t] = IF slot[t] = None THEN "idle" ELSE "drop"]
  <2>2. pcs \in [Turns -> States]
    BY DEF IndInv, TypeOK, TurnsOK, States
  <2>3. Give(want[t], pcs)
    BY <1>27 DEF StopAssigned
  <2>f. \A u \in Turns : u # t => pcs[u] = pc[u]
    BY DEF IndInv, TypeOK, TurnsOK
  <2> HIDE DEF pcs
  <2>4. \/ pc' = pcs
        \/ \E h \in Turns : pc[h] = "waiting" /\ pc' = [pcs EXCEPT ![h] = "assigned"]
    BY <2>1, <2>2, <2>3, GiveMoves DEF IndInv
  <2>5. ASSUME NEW u \in Turns, u # t PROVE Fits(u)'
    <3>1. pc'[u] = pc[u] \/ (pc[u] = "waiting" /\ pc'[u] = "assigned")
      BY <2>2, <2>4, <2>5, <2>f
    <3>2. Fits(u)
      BY DEF IndInv, TurnsFit
    <3> QED BY <1>27, <2>5, <3>1, <3>2 DEF StopAssigned, Fits, Asking, IndInv, TypeOK, TurnsOK
  <2>6. Fits(t)'
    <3>1. Fits(t) /\ pc'[t] = pcs[t]
      BY <1>27, <2>2, <2>4 DEF StopAssigned, IndInv, TurnsFit
    <3> USE DEF pcs
    <3>2. after[t] \in {"idle", "refresh", "calling", "tools"} /\ pc \in [Turns -> States]
      BY DEF IndInv, TypeOK, TurnsOK
    <3>3. made \in Nat
      BY Numbers DEF IndInv
    <3> QED BY <1>27, <3>1, <3>2, <3>3
               DEF StopAssigned, Fits, Asking, None, IndInv, TypeOK, TurnsOK
  <2> QED BY <2>5, <2>6 DEF TurnsFit
<1>28. CASE UNCHANGED vars
  BY <1>28 DEF vars, IndInv, TypeOK, TurnsOK, PoolsOK, TurnsFit, Fits, Asking, None
<1> QED
  BY <1>1, <1>2, <1>3, <1>4, <1>5, <1>6, <1>7, <1>8, <1>9, <1>10, <1>11, <1>12, <1>13, <1>14,
     <1>15, <1>16, <1>17, <1>18, <1>19, <1>20, <1>21, <1>22, <1>23, <1>24, <1>25, <1>26, <1>27,
     <1>28
     DEF Next, Configure, Limiting, Proceed, Set

\* Every step keeps the waiters of every semaphore in order.
LEMMA QueuesFitStep == IndInv /\ TypeOK' /\ [Next]_vars => QueuesFit'
<1> SUFFICES ASSUME IndInv, TypeOK', [Next]_vars PROVE QueuesFit'
  OBVIOUS
<1> USE LimiterAssumption DEF rowVars, poolVars, turnVars
<1>1. ASSUME NEW max \in 0..MaxLimit, SaveProvider(max) PROVE QueuesFit'
  BY <1>1 DEF IndInv, TypeOK, PoolsOK, TurnsOK, QueuesFit, QueueFits, SaveProvider, Exists
<1>2. CASE BuildEndpoint
  BY <1>2 DEF IndInv, TypeOK, PoolsOK, TurnsOK, QueuesFit, QueueFits, BuildEndpoint
<1>3. CASE DeleteProvider
  BY <1>3 DEF IndInv, TypeOK, PoolsOK, TurnsOK, QueuesFit, QueueFits, DeleteProvider, Gone
<1>4. ASSUME NEW r \in pending, Set(r), IgnoreStaleSet(r) PROVE QueuesFit'
  BY <1>4 DEF IndInv, TypeOK, PoolsOK, TurnsOK, QueuesFit, QueueFits, Set, IgnoreStaleSet
<1>5. ASSUME NEW r \in pending, Set(r), ResizeSet(r) PROVE QueuesFit'
  <2>1. limit.pool \in Pools
    BY <1>5 DEF ResizeSet, IndInv, TypeOK, PoolsOK, Limits
  <2>2. \A q \in Pools : permits[q] = 0 => permits'[q] = 0
    <3> SUFFICES ASSUME NEW q \in Pools, permits[q] = 0 PROVE permits'[q] = 0
      OBVIOUS
    <3>1. CASE r.max > count[limit.pool]
      BY <1>5, <3>1 DEF ResizeSet, Raise
    <3>2. CASE ~ (r.max > count[limit.pool])
      <4>1. count[limit.pool] - r.max \in Nat /\ permits[limit.pool] \in Nat /\ permits \in [Pools -> Nat]
        <5>1. count[limit.pool] \in Nat /\ permits[limit.pool] \in Nat /\ permits \in [Pools -> Nat]
          BY <2>1, Numbers DEF IndInv, TypeOK, PoolsOK
        <5>2. r.max \in Nat
          BY DEF IndInv, TypeOK, RowsOK, Rows
        <5> QED BY <3>2, <5>1, <5>2
      <4>2. permits' = [permits EXCEPT ![limit.pool] =
                           permits[limit.pool] - Lesser(permits[limit.pool], count[limit.pool] - r.max)]
        BY <1>5, <3>2 DEF ResizeSet, Lower
      <4> QED BY <2>1, <4>1, <4>2 DEF Lesser
    <3> QED BY <3>1, <3>2
  <2> QED BY <1>5, <2>2 DEF Set, ResizeSet, IndInv, QueuesFit, QueueFits
<1>6. ASSUME NEW r \in pending, Set(r), ReplaceSet(r) PROVE QueuesFit'
  <2>1. ASSUME NEW q \in Pools PROVE QueueFits(q)'
    <3>1. QueueFits(q) /\ queue'[q] = IF q = limit.pool THEN <<>> ELSE queue[q]
      BY <1>6 DEF ReplaceSet, IndInv, QueuesFit
    <3>2. queue[q] # <<>> => permits'[q] = permits[q]
      <4>1. queue[q] # <<>> => q # made + 1
        BY Numbers DEF IndInv, UnmadeUntouched
      <4> QED BY <1>6, <4>1 DEF ReplaceSet, IndInv, TypeOK, PoolsOK
    <3> QED BY <1>6, <3>1, <3>2 DEF ReplaceSet, Set, QueueFits, Once
  <2> QED BY <2>1 DEF QueuesFit
<1>7. CASE Forget
  BY <1>7 DEF IndInv, TypeOK, PoolsOK, TurnsOK, QueuesFit, QueueFits, Forget, Unknown
<1>8. CASE FinishLower
  BY <1>8 DEF IndInv, TypeOK, PoolsOK, TurnsOK, QueuesFit, QueueFits, FinishLower, NoResize
<1>9. CASE FinishEvenResize
  BY <1>9 DEF IndInv, TypeOK, PoolsOK, TurnsOK, QueuesFit, QueueFits, FinishEvenResize, NoResize
<1>10. CASE AddPermit
  <2>1. resizing.pool \in Pools
    BY <1>10, Numbers
       DEF IndInv, TypeOK, PoolsOK, TurnsOK, Pools, None, NoResize, Limits, Resizes,
       CurrentMade, TurnsFit, Fits, Asking, AddPermit
  <2> DEFINE pcs == pc
  <2>2. pcs \in [Turns -> States]
    BY DEF IndInv, TypeOK, TurnsOK, States
  <2>3. Give(resizing.pool, pcs)
    BY <1>10 DEF AddPermit
  <2>4. \A u \in Turns : pcs[u] = pc[u]
    BY DEF IndInv, TypeOK, TurnsOK
  <2> HIDE DEF pcs
  <2>5. \A u \in Turns : pc[u] = "waiting" => pcs[u] = "waiting" /\ want'[u] = want[u]
    BY <1>10, <2>4 DEF AddPermit, IndInv, TypeOK, TurnsOK
  <2> QED BY <1>10, <2>1, <2>2, <2>3, <2>5, GiveQueues DEF IndInv, AddPermit
<1>11. ASSUME NEW t \in Turns, StartTurn(t) PROVE QueuesFit'
  <2>1. queue \in [Pools -> Seq(Turns)] /\ pc \in [Turns -> States] /\ want \in [Turns -> Pools \cup {None}]
    BY DEF IndInv, TypeOK, PoolsOK, TurnsOK
  <2> QED BY <1>11, <2>1 DEF IndInv, QueuesFit, QueueFits, StartTurn
<1>12. ASSUME NEW t \in Turns, Refresh(t) PROVE QueuesFit'
  <2>1. queue \in [Pools -> Seq(Turns)] /\ pc \in [Turns -> States] /\ want \in [Turns -> Pools \cup {None}]
    BY DEF IndInv, TypeOK, PoolsOK, TurnsOK
  <2> QED BY <1>12, <2>1 DEF IndInv, QueuesFit, QueueFits, Refresh, MutexFree
<1>13. ASSUME NEW t \in Turns, Look(t) PROVE QueuesFit'
  <2>1. queue \in [Pools -> Seq(Turns)] /\ pc \in [Turns -> States] /\ want \in [Turns -> Pools \cup {None}]
    BY DEF IndInv, TypeOK, PoolsOK, TurnsOK
  <2> QED BY <1>13, <2>1 DEF IndInv, QueuesFit, QueueFits, Look, MutexFree, TakeInstead
<1>14. ASSUME NEW t \in Turns, Refused(t) PROVE QueuesFit'
  <2>1. queue \in [Pools -> Seq(Turns)] /\ pc \in [Turns -> States] /\ want \in [Turns -> Pools \cup {None}]
    BY DEF IndInv, TypeOK, PoolsOK, TurnsOK
  <2> QED BY <1>14, <2>1 DEF IndInv, QueuesFit, QueueFits, Refused
<1>15. ASSUME NEW t \in Turns, TakePermit(t) PROVE QueuesFit'
  BY <1>15 DEF IndInv, TypeOK, PoolsOK, TurnsOK, QueuesFit, QueueFits, TakePermit, TakeInstead
<1>16. ASSUME NEW t \in Turns, Enqueue(t) PROVE QueuesFit'
  <2> DEFINE p == want[t]
  <2>1. /\ p \in Pools /\ queue \in [Pools -> Seq(Turns)] /\ pc \in [Turns -> States]
        /\ queue[p] \in Seq(Turns)
    BY <1>16 DEF IndInv, TypeOK, PoolsOK, TurnsOK, TurnsFit, Fits, Enqueue
  <2>2. queue' = [queue EXCEPT ![p] = Append(queue[p], t)] /\ pc' = [pc EXCEPT ![t] = "waiting"]
    BY <1>16 DEF Enqueue
  <2>3. ASSUME NEW q \in Pools PROVE QueueFits(q)'
    <3>1. QueueFits(q) /\ QueueFits(p)
      BY <2>1 DEF IndInv, QueuesFit
    <3>2. CASE q # p
      BY <1>16, <2>1, <2>2, <3>1, <3>2 DEF QueueFits, Enqueue
    <3>3. CASE q = p
      <4>1. /\ Len(queue[p]) \in Nat /\ Len(queue'[p]) = Len(queue[p]) + 1
            /\ queue'[p][Len(queue[p]) + 1] = t
            /\ \A i \in 1..Len(queue[p]) : queue'[p][i] = queue[p][i]
        BY <2>1, <2>2
      <4>2. \A i \in 1..Len(queue[p]) : queue[p][i] # t
        BY <1>16, <3>1 DEF QueueFits, Enqueue
      <4>3. \A i \in 1..Len(queue'[p]) : pc'[queue'[p][i]] = "waiting" /\ want'[queue'[p][i]] = p
        <5> SUFFICES ASSUME NEW i \in 1..Len(queue'[p])
                     PROVE  pc'[queue'[p][i]] = "waiting" /\ want'[queue'[p][i]] = p
          OBVIOUS
        <5>1. want' = want
          BY <1>16 DEF Enqueue
        <5>2. CASE i \in 1..Len(queue[p])
          <6>1. queue'[p][i] = queue[p][i] /\ queue[p][i] \in Turns /\ queue[p][i] # t
            BY <2>1, <4>1, <4>2, <5>2
          <6>2. pc[queue[p][i]] = "waiting" /\ want[queue[p][i]] = p
            BY <3>1, <5>2 DEF QueueFits
          <6> QED BY <2>1, <2>2, <5>1, <6>1, <6>2
        <5>3. CASE i = Len(queue[p]) + 1
          <6>1. queue'[p][i] = t /\ pc'[t] = "waiting"
            BY <2>1, <2>2, <4>1, <5>3
          <6> QED BY <5>1, <6>1
        <5>4. i \in 1..Len(queue[p]) \/ i = Len(queue[p]) + 1
          BY <4>1
        <5> QED BY <5>2, <5>3, <5>4
      <4>4. \A i, j \in 1..Len(queue'[p]) : queue'[p][i] = queue'[p][j] => i = j
        <5> SUFFICES ASSUME NEW i \in 1..Len(queue'[p]), NEW j \in 1..Len(queue'[p]),
                            queue'[p][i] = queue'[p][j]
                     PROVE  i = j
          OBVIOUS
        <5>1. i \in 1..Len(queue[p]) \/ i = Len(queue[p]) + 1
          BY <4>1
        <5>2. j \in 1..Len(queue[p]) \/ j = Len(queue[p]) + 1
          BY <4>1
        <5> QED BY <3>1, <4>1, <4>2, <5>1, <5>2 DEF QueueFits, Once
      <4>5. p \notin closed' /\ permits'[p] = 0
        BY <1>16 DEF Enqueue
      <4> QED BY <3>3, <4>3, <4>4, <4>5 DEF QueueFits, Once
    <3> QED BY <3>2, <3>3
  <2> QED BY <2>3 DEF QueuesFit
<1>17. ASSUME NEW t \in Turns, TakeUp(t) PROVE QueuesFit'
  <2>1. queue \in [Pools -> Seq(Turns)] /\ pc \in [Turns -> States] /\ want \in [Turns -> Pools \cup {None}]
    BY DEF IndInv, TypeOK, PoolsOK, TurnsOK
  <2> QED BY <1>17, <2>1 DEF IndInv, QueuesFit, QueueFits, TakeUp, TakeInstead
<1>18. ASSUME NEW t \in Turns, PoolClosed(t) PROVE QueuesFit'
  <2>1. queue \in [Pools -> Seq(Turns)] /\ pc \in [Turns -> States] /\ want \in [Turns -> Pools \cup {None}]
    BY DEF IndInv, TypeOK, PoolsOK, TurnsOK
  <2> QED BY <1>18, <2>1 DEF IndInv, QueuesFit, QueueFits, PoolClosed
<1>19. ASSUME NEW t \in Turns, PermitReturned(t) PROVE QueuesFit'
  <2>1. /\ want[t] \in Pools /\ queue \in [Pools -> Seq(Turns)] /\ pc \in [Turns -> States]
        /\ want \in [Turns -> Pools \cup {None}] /\ permits \in [Pools -> Nat]
    BY <1>19 DEF IndInv, TypeOK, PoolsOK, TurnsOK, TurnsFit, Fits, PermitReturned
  <2>2. queue[want[t]] = <<>>
    BY <1>19, <2>1 DEF IndInv, QueuesFit, QueueFits, PermitReturned
  <2>3. \A q \in Pools : q # want[t] => permits'[q] = permits[q]
    BY <1>19, <2>1 DEF PermitReturned
  <2> QED BY <1>19, <2>1, <2>2, <2>3 DEF IndInv, QueuesFit, QueueFits, PermitReturned
<1>20. ASSUME NEW t \in Turns, DropSlot(t) PROVE QueuesFit'
  <2>1. queue \in [Pools -> Seq(Turns)] /\ pc \in [Turns -> States] /\ want \in [Turns -> Pools \cup {None}]
    BY DEF IndInv, TypeOK, PoolsOK, TurnsOK
  <2> QED BY <1>20, <2>1 DEF IndInv, QueuesFit, QueueFits, DropSlot
<1>21. ASSUME NEW t \in Turns, FreePermit(t) PROVE QueuesFit'
  <2>1. old[t] \in Pools
    BY <1>21, Numbers
       DEF IndInv, TypeOK, PoolsOK, TurnsOK, Pools, None, NoResize, Limits, Resizes,
       CurrentMade, TurnsFit, Fits, Asking, FreePermit
  <2> DEFINE pcs == [pc EXCEPT ![t] = after[t]]
  <2>2. pcs \in [Turns -> States]
    BY DEF IndInv, TypeOK, TurnsOK, States
  <2>3. Give(old[t], pcs)
    BY <1>21 DEF FreePermit
  <2>4. \A u \in Turns : u # t => pcs[u] = pc[u]
    BY DEF IndInv, TypeOK, TurnsOK
  <2> HIDE DEF pcs
  <2>5. \A u \in Turns : pc[u] = "waiting" => pcs[u] = "waiting" /\ want'[u] = want[u]
    BY <1>21, <2>4 DEF FreePermit, IndInv, TypeOK, TurnsOK
  <2> QED BY <1>21, <2>1, <2>2, <2>3, <2>5, GiveQueues DEF IndInv, FreePermit
<1>22. ASSUME NEW t \in Turns, RunTools(t) PROVE QueuesFit'
  <2>1. queue \in [Pools -> Seq(Turns)] /\ pc \in [Turns -> States] /\ want \in [Turns -> Pools \cup {None}]
    BY DEF IndInv, TypeOK, PoolsOK, TurnsOK
  <2> QED BY <1>22, <2>1 DEF IndInv, QueuesFit, QueueFits, RunTools, GiveUp
<1>23. ASSUME NEW t \in Turns, NextCall(t) PROVE QueuesFit'
  <2>1. queue \in [Pools -> Seq(Turns)] /\ pc \in [Turns -> States] /\ want \in [Turns -> Pools \cup {None}]
    BY DEF IndInv, TypeOK, PoolsOK, TurnsOK
  <2> QED BY <1>23, <2>1 DEF IndInv, QueuesFit, QueueFits, NextCall
<1>24. ASSUME NEW t \in Turns, EndTurn(t) PROVE QueuesFit'
  <2>1. queue \in [Pools -> Seq(Turns)] /\ pc \in [Turns -> States] /\ want \in [Turns -> Pools \cup {None}]
    BY DEF IndInv, TypeOK, PoolsOK, TurnsOK
  <2> QED BY <1>24, <2>1 DEF IndInv, QueuesFit, QueueFits, EndTurn, GiveUp
<1>25. ASSUME NEW t \in Turns, Stop(t) PROVE QueuesFit'
  <2>1. queue \in [Pools -> Seq(Turns)] /\ pc \in [Turns -> States] /\ want \in [Turns -> Pools \cup {None}]
    BY DEF IndInv, TypeOK, PoolsOK, TurnsOK
  <2> QED BY <1>25, <2>1 DEF IndInv, QueuesFit, QueueFits, Stop, GiveUp
<1>26. ASSUME NEW t \in Turns, StopWaiting(t) PROVE QueuesFit'
  <2> DEFINE p == want[t]
             w == Without(queue[p], t)
  <2>1. /\ p \in Pools /\ queue \in [Pools -> Seq(Turns)] /\ pc \in [Turns -> States]
        /\ want \in [Turns -> Pools \cup {None}] /\ queue[p] \in Seq(Turns)
    BY <1>26 DEF IndInv, TypeOK, PoolsOK, TurnsOK, TurnsFit, Fits, StopWaiting
  <2>2. /\ queue' = [queue EXCEPT ![p] = w] /\ want' = [want EXCEPT ![t] = None]
        /\ \A u \in Turns : u # t => pc'[u] = pc[u]
    BY <1>26, <2>1 DEF StopWaiting, GiveUp
  <2>3. ASSUME NEW q \in Pools PROVE QueueFits(q)'
    <3>1. QueueFits(q) /\ QueueFits(p)
      BY <2>1 DEF IndInv, QueuesFit
    <3>2. CASE q # p
      BY <1>26, <2>1, <2>2, <3>1, <3>2 DEF QueueFits, StopWaiting
    <3>3. CASE q = p
      <4>1. /\ w \in Seq(Turns) /\ Once(w)
            /\ queue[p] = <<>> => w = <<>>
            /\ \A j \in 1..Len(w) : \E k \in 1..Len(queue[p]) : w[j] = queue[p][k] /\ queue[p][k] # t
        BY <2>1, <3>1, WithoutIsQueue DEF QueueFits, Once
      <4> HIDE DEF w
      <4>2. \A j \in 1..Len(w) : pc'[w[j]] = "waiting" /\ want'[w[j]] = p
        <5> SUFFICES ASSUME NEW j \in 1..Len(w) PROVE pc'[w[j]] = "waiting" /\ want'[w[j]] = p
          OBVIOUS
        <5>1. PICK k \in 1..Len(queue[p]) : w[j] = queue[p][k] /\ queue[p][k] # t
          BY <4>1
        <5>2. queue[p][k] \in Turns /\ pc[queue[p][k]] = "waiting" /\ want[queue[p][k]] = p
          BY <2>1, <3>1 DEF QueueFits
        <5> QED BY <2>1, <2>2, <5>1, <5>2
      <4>3. queue'[p] = w
        BY <2>1, <2>2
      <4> QED BY <1>26, <3>1, <3>3, <4>1, <4>2, <4>3 DEF QueueFits, Once, StopWaiting
    <3> QED BY <3>2, <3>3
  <2> QED BY <2>3 DEF QueuesFit
<1>27. ASSUME NEW t \in Turns, StopAssigned(t) PROVE QueuesFit'
  <2>1. want[t] \in Pools
    BY <1>27, Numbers
       DEF IndInv, TypeOK, PoolsOK, TurnsOK, Pools, None, NoResize, Limits, Resizes,
       CurrentMade, TurnsFit, Fits, Asking, StopAssigned
  <2> DEFINE pcs == [pc EXCEPT ![t] = IF slot[t] = None THEN "idle" ELSE "drop"]
  <2>2. pcs \in [Turns -> States]
    BY DEF IndInv, TypeOK, TurnsOK, States
  <2>3. Give(want[t], pcs)
    BY <1>27 DEF StopAssigned
  <2>4. \A u \in Turns : u # t => pcs[u] = pc[u]
    BY DEF IndInv, TypeOK, TurnsOK
  <2> HIDE DEF pcs
  <2>5. \A u \in Turns : pc[u] = "waiting" => pcs[u] = "waiting" /\ want'[u] = want[u]
    BY <1>27, <2>4 DEF StopAssigned, IndInv, TypeOK, TurnsOK
  <2> QED BY <1>27, <2>1, <2>2, <2>3, <2>5, GiveQueues DEF IndInv, StopAssigned
<1>28. CASE UNCHANGED vars
  BY <1>28 DEF vars, IndInv, TypeOK, PoolsOK, TurnsOK, QueuesFit, QueueFits
<1> QED
  BY <1>1, <1>2, <1>3, <1>4, <1>5, <1>6, <1>7, <1>8, <1>9, <1>10, <1>11, <1>12, <1>13, <1>14,
     <1>15, <1>16, <1>17, <1>18, <1>19, <1>20, <1>21, <1>22, <1>23, <1>24, <1>25, <1>26, <1>27,
     <1>28
     DEF Next, Configure, Limiting, Proceed, Set

\* Every step conserves the slots of every pool.
LEMMA SlotsConservedStep == IndInv /\ TypeOK' /\ [Next]_vars => SlotsConserved'
<1> SUFFICES ASSUME IndInv, TypeOK', [Next]_vars PROVE SlotsConserved'
  OBVIOUS
<1> USE LimiterAssumption DEF rowVars, poolVars, turnVars
<1>1. ASSUME NEW max \in 0..MaxLimit, SaveProvider(max) PROVE SlotsConserved'
  <2>1. \A p \in Pools : \A u \in Turns : Has(u, p)' <=> Has(u, p)
    BY <1>1 DEF IndInv, TypeOK, TurnsOK, Has, SaveProvider, Exists
  <2>2. \A p \in Pools : Cardinality(Out(p)') = Cardinality(Out(p))
    BY <2>1, OutSame
  <2> QED BY <1>1, <2>2
             DEF IndInv, SlotsConserved, Conserved, Owing, Adding, SaveProvider, Exists
<1>2. CASE BuildEndpoint
  <2>1. \A p \in Pools : \A u \in Turns : Has(u, p)' <=> Has(u, p)
    BY <1>2 DEF IndInv, TypeOK, TurnsOK, Has, BuildEndpoint
  <2>2. \A p \in Pools : Cardinality(Out(p)') = Cardinality(Out(p))
    BY <2>1, OutSame
  <2> QED BY <1>2, <2>2 DEF IndInv, SlotsConserved, Conserved, Owing, Adding, BuildEndpoint
<1>3. CASE DeleteProvider
  <2>1. \A p \in Pools : \A u \in Turns : Has(u, p)' <=> Has(u, p)
    BY <1>3 DEF IndInv, TypeOK, TurnsOK, Has, DeleteProvider, Gone
  <2>2. \A p \in Pools : Cardinality(Out(p)') = Cardinality(Out(p))
    BY <2>1, OutSame
  <2> QED BY <1>3, <2>2
             DEF IndInv, SlotsConserved, Conserved, Owing, Adding, DeleteProvider, Gone
<1>4. ASSUME NEW r \in pending, Set(r), IgnoreStaleSet(r) PROVE SlotsConserved'
  <2>1. \A p \in Pools : \A u \in Turns : Has(u, p)' <=> Has(u, p)
    BY <1>4 DEF IndInv, TypeOK, TurnsOK, Has, Set, IgnoreStaleSet
  <2>2. \A p \in Pools : Cardinality(Out(p)') = Cardinality(Out(p))
    BY <2>1, OutSame
  <2> QED BY <1>4, <2>2
             DEF IndInv, SlotsConserved, Conserved, Owing, Adding, Set, IgnoreStaleSet
<1>5. ASSUME NEW r \in pending, Set(r), ResizeSet(r) PROVE SlotsConserved'
  <2>r. limit.pool \in Pools /\ resizing = NoResize /\ r.max \in Nat
    BY <1>5 DEF ResizeSet, Set, MutexFree, IndInv, TypeOK, PoolsOK, Limits, RowsOK, Rows
  <2>s. \A p \in Pools : Cardinality(Out(p)') = Cardinality(Out(p))
    <3>1. \A p \in Pools : \A u \in Turns : Has(u, p)' <=> Has(u, p)
      BY <1>5 DEF Has, Set, turnVars
    <3> QED BY <3>1, OutSame
  <2> SUFFICES ASSUME NEW p \in Pools PROVE Conserved(p)'
    BY DEF SlotsConserved
  <2>n. /\ permits[p] \in Nat /\ owed[p] \in Nat /\ count[p] \in Nat /\ Cardinality(Out(p)) \in Nat
        /\ resizing.owe \in Nat /\ resizing.add \in Nat /\ Conserved(p)
    BY Numbers, OutFinite DEF IndInv, SlotsConserved
  <2>1. CASE p # limit.pool
    <3>1. permits'[p] = permits[p] /\ owed'[p] = owed[p] /\ count'[p] = count[p]
      BY <1>5, <2>r, <2>1, ResizeElsewhere DEF IndInv
    <3>2. Owing(p)' = 0 /\ Adding(p)' = 0 /\ Owing(p) = 0 /\ Adding(p) = 0
      BY <1>5, <2>r, <2>1 DEF ResizeSet, Raise, Lower, Owing, Adding, NoResize
    <3> QED BY <2>n, <2>s, <3>1, <3>2 DEF Conserved
  <2>2. CASE p = limit.pool /\ r.max > count[p]
    <3> DEFINE more == r.max - count[p]
               paid == Lesser(owed[p], more)
    <3>1. /\ permits'[p] = permits[p] /\ owed'[p] = owed[p] - paid /\ count'[p] = r.max
          /\ Owing(p)' = 0 /\ Adding(p)' = more - paid /\ Owing(p) = 0 /\ Adding(p) = 0
      BY <1>5, <2>r, <2>2 DEF ResizeSet, Raise, Owing, Adding, NoResize, IndInv, TypeOK, PoolsOK
    <3>2. more \in Nat /\ paid \in Nat
      BY <2>r, <2>n, <2>2 DEF Lesser
    <3> HIDE DEF paid
    <3> QED BY <2>n, <2>r, <2>s, <3>1, <3>2 DEF Conserved
  <2>3. CASE p = limit.pool /\ ~ (r.max > count[p])
    <3> DEFINE fewer == count[p] - r.max
               taken == Lesser(permits[p], fewer)
    <3>1. /\ permits'[p] = permits[p] - taken /\ owed'[p] = owed[p] /\ count'[p] = r.max
          /\ Owing(p)' = fewer - taken /\ Adding(p)' = 0 /\ Owing(p) = 0 /\ Adding(p) = 0
      BY <1>5, <2>r, <2>3 DEF ResizeSet, Lower, Owing, Adding, NoResize, IndInv, TypeOK, PoolsOK
    <3>2. fewer \in Nat /\ taken \in Nat
      BY <2>r, <2>n, <2>3 DEF Lesser
    <3> HIDE DEF taken
    <3> QED BY <2>n, <2>r, <2>s, <3>1, <3>2 DEF Conserved
  <2> QED BY <2>1, <2>2, <2>3
<1>6. ASSUME NEW r \in pending, Set(r), ReplaceSet(r) PROVE SlotsConserved'
  <2>s. \A p \in Pools : Cardinality(Out(p)') = Cardinality(Out(p))
    <3>1. \A p \in Pools : \A u \in Turns : Has(u, p)' <=> Has(u, p)
      BY <1>6 DEF Has, Set, turnVars
    <3> QED BY <3>1, OutSame
  <2> SUFFICES ASSUME NEW p \in Pools PROVE Conserved(p)'
    BY DEF SlotsConserved
  <2>n. /\ permits[p] \in Nat /\ owed[p] \in Nat /\ count[p] \in Nat /\ Cardinality(Out(p)) \in Nat
        /\ resizing.owe \in Nat /\ resizing.add \in Nat /\ Conserved(p)
    BY Numbers, OutFinite DEF IndInv, SlotsConserved
  <2>1. owed' = owed /\ resizing' = resizing
    BY <1>6 DEF ReplaceSet
  <2>2. CASE count'[p] = count[p] /\ permits'[p] = permits[p]
    BY <2>n, <2>s, <2>1, <2>2 DEF Conserved, Owing, Adding
  <2>3. CASE p = made + 1 /\ count'[p] = r.max /\ permits'[p] = r.max
    <3>1. count[p] = 0 /\ permits[p] = 0 /\ r.max \in Nat
      BY <2>3, Numbers DEF IndInv, UnmadeUntouched, TypeOK, RowsOK, Rows
    <3> QED BY <2>n, <2>s, <2>1, <2>3, <3>1 DEF Conserved, Owing, Adding
  <2> QED BY <1>6, <2>2, <2>3 DEF ReplaceSet, IndInv, TypeOK, PoolsOK
<1>7. CASE Forget
  <2>1. \A p \in Pools : \A u \in Turns : Has(u, p)' <=> Has(u, p)
    BY <1>7 DEF IndInv, TypeOK, TurnsOK, Has, Forget, Unknown
  <2>2. \A p \in Pools : Cardinality(Out(p)') = Cardinality(Out(p))
    BY <2>1, OutSame
  <2> QED BY <1>7, <2>2 DEF IndInv, SlotsConserved, Conserved, Owing, Adding, Forget, Unknown
<1>8. CASE FinishLower
  <2>s. \A p \in Pools : Cardinality(Out(p)') = Cardinality(Out(p))
    <3>1. \A p \in Pools : \A u \in Turns : Has(u, p)' <=> Has(u, p)
      BY <1>8 DEF Has, FinishLower, turnVars
    <3> QED BY <3>1, OutSame
  <2> SUFFICES ASSUME NEW p \in Pools PROVE Conserved(p)'
    BY DEF SlotsConserved
  <2>n. /\ permits[p] \in Nat /\ owed[p] \in Nat /\ count[p] \in Nat /\ Cardinality(Out(p)) \in Nat
        /\ resizing.owe \in Nat /\ resizing.add \in Nat /\ Conserved(p)
    BY Numbers, OutFinite DEF IndInv, SlotsConserved
  <2>1. resizing.pool \in Pools /\ resizing.add = 0
    BY <1>8 DEF FinishLower, IndInv, CurrentMade, OneHalf, TypeOK, PoolsOK, Resizes, NoResize
  <2>2. owed'[p] = owed[p] + Owing(p) /\ Owing(p)' = 0 /\ Adding(p)' = 0 /\ Adding(p) = 0
    <3>1. resizing' = NoResize /\ None # p
      BY <1>8 DEF FinishLower, None, Pools
    <3>2. owed' = [owed EXCEPT ![resizing.pool] = owed[resizing.pool] + resizing.owe] /\ owed \in [Pools -> Nat]
      BY <1>8 DEF FinishLower, IndInv, TypeOK, PoolsOK
    <3>3. owed'[p] = owed[p] + Owing(p)
      BY <2>n, <2>1, <3>2 DEF Owing
    <3> QED BY <2>1, <3>1, <3>3 DEF Owing, Adding, NoResize
  <2>3. Owing(p) \in Nat
    BY <2>n DEF Owing
  <2> QED BY <1>8, <2>n, <2>s, <2>2, <2>3 DEF FinishLower, Conserved
<1>9. CASE FinishEvenResize
  <2>s. \A p \in Pools : Cardinality(Out(p)') = Cardinality(Out(p))
    <3>1. \A p \in Pools : \A u \in Turns : Has(u, p)' <=> Has(u, p)
      BY <1>9 DEF Has, FinishEvenResize, turnVars
    <3> QED BY <3>1, OutSame
  <2> SUFFICES ASSUME NEW p \in Pools PROVE Conserved(p)'
    BY DEF SlotsConserved
  <2>n. /\ permits[p] \in Nat /\ owed[p] \in Nat /\ count[p] \in Nat /\ Cardinality(Out(p)) \in Nat
        /\ resizing.owe \in Nat /\ resizing.add \in Nat /\ Conserved(p)
    BY Numbers, OutFinite DEF IndInv, SlotsConserved
  <2>1. Owing(p) = 0 /\ Adding(p) = 0 /\ Owing(p)' = 0 /\ Adding(p)' = 0
    BY <1>9 DEF FinishEvenResize, Owing, Adding, NoResize
  <2> QED BY <1>9, <2>n, <2>s, <2>1 DEF FinishEvenResize, Conserved
<1>10. CASE AddPermit
  <2>1. resizing.pool \in Pools
    BY <1>10, Numbers
       DEF IndInv, TypeOK, PoolsOK, TurnsOK, Pools, None, NoResize, Limits, Resizes,
       CurrentMade, TurnsFit, Fits, Asking, AddPermit
  <2> DEFINE pcs == pc
  <2>2. pcs \in [Turns -> States]
    BY DEF IndInv, TypeOK, TurnsOK, States
  <2>3. Give(resizing.pool, pcs)
    BY <1>10 DEF AddPermit
  <2>4. \A u \in Turns : pcs[u] = pc[u]
    BY DEF IndInv, TypeOK, TurnsOK
  <2> HIDE DEF pcs
  <2> SUFFICES ASSUME NEW p \in Pools PROVE Conserved(p)'
    BY DEF SlotsConserved
  <2>5. /\ permits[p] \in Nat /\ owed[p] \in Nat /\ count[p] \in Nat /\ Cardinality(Out(p)) \in Nat
        /\ resizing.owe \in Nat /\ resizing.add \in Nat /\ Conserved(p)
    BY Numbers, OutFinite DEF IndInv, SlotsConserved
  <2>6. \A q \in Pools : q # None
    BY DEF Pools, None
  <2>7. \A u \in Turns : slot'[u] = slot[u] /\ want'[u] = want[u] /\ old'[u] = old[u]
    BY <1>10 DEF AddPermit, IndInv, TypeOK, TurnsOK
  <2>10. /\ owed'[p] = owed[p] /\ count'[p] = count[p] /\ Owing(p)' = Owing(p)
         /\ p # resizing.pool => Adding(p)' = Adding(p)
         /\ p = resizing.pool => Adding(p)' = Adding(p) - 1
    <3>1. resizing'.pool = resizing.pool /\ resizing'.owe = resizing.owe /\ resizing'.add = resizing.add - 1
      BY <1>10 DEF AddPermit, IndInv, TypeOK, PoolsOK, Resizes
    <3> QED BY <1>10, <3>1 DEF AddPermit, Owing, Adding
  <2>11. Owing(p) \in Nat /\ Adding(p) \in Nat
    BY <2>5 DEF Owing, Adding
  <2>12. CASE queue[resizing.pool] = <<>>
    <3>1. pc' = pcs /\ permits'[resizing.pool] = permits[resizing.pool] + 1
      BY <2>1, <2>2, <2>3, <2>12, GiveMoves DEF IndInv
    <3>2. \A u \in Turns : (Has(u, p)' <=> Has(u, p))
      BY <2>4, <2>7, <3>1 DEF Has
    <3>3. CASE p # resizing.pool
      <4>1. Cardinality(Out(p)') = Cardinality(Out(p))
        BY <3>2, <3>3, OutSame
      <4>2. permits'[p] = permits[p]
        BY <2>1, <2>2, <2>3, <3>3, GiveElsewhere DEF IndInv
      <4> QED BY <2>5, <2>10, <2>11, <3>3, <4>1, <4>2 DEF Conserved
    <3>4. CASE p = resizing.pool
      <4>1. Cardinality(Out(p)') = Cardinality(Out(p))
        BY <3>2, <3>4, OutSame
      <4> QED BY <2>5, <2>10, <2>11, <3>1, <3>4, <4>1 DEF Conserved
    <3> QED BY <3>3, <3>4
  <2>13. CASE queue[resizing.pool] # <<>>
    <3>1. permits' = permits
      BY <2>1, <2>2, <2>3, <2>13, GiveMoves DEF IndInv
    <3>2. PICK h \in Turns : pc[h] = "waiting" /\ want[h] = resizing.pool /\ pc' = [pcs EXCEPT ![h] = "assigned"]
      BY <2>1, <2>2, <2>3, <2>13, GiveMoves DEF IndInv
    <3>3. h \in Turns
      OBVIOUS
    <3>4. \A u \in Turns : u # h => (Has(u, p)' <=> Has(u, p))
      BY <2>2, <2>4, <2>7, <3>2 DEF Has
    <3>5. /\ p # resizing.pool => (Has(h, p)' <=> Has(h, p))
          /\ p = resizing.pool => ~ Has(h, p) /\ Has(h, p)'
      <4>1. pc'[h] = "assigned" /\ slot'[h] = slot[h] /\ want'[h] = want[h] /\ slot[h] # want[h]
        BY <2>2, <2>7, <3>2, <3>3 DEF IndInv, TurnsFit, Fits
      <4> QED BY <3>2, <4>1 DEF Has
    <3>6. CASE p # resizing.pool
      <4>1. Cardinality(Out(p)') = Cardinality(Out(p))
        BY <3>4, <3>5, <3>6, OutSame
      <4> QED BY <2>5, <2>10, <2>11, <3>1, <3>6, <4>1 DEF Conserved
    <3>7. CASE p = resizing.pool
      <4>1. Cardinality(Out(p)') = Cardinality(Out(p)) + 1
        BY <3>4, <3>5, <3>7, OutGrows
      <4> QED BY <2>5, <2>10, <2>11, <3>1, <3>7, <4>1 DEF Conserved
    <3> QED BY <3>6, <3>7
  <2> QED BY <2>12, <2>13
<1>11. ASSUME NEW t \in Turns, StartTurn(t) PROVE SlotsConserved'
  <2>1. \A p \in Pools : \A u \in Turns : Has(u, p)' <=> Has(u, p)
    BY <1>11 DEF IndInv, TypeOK, TurnsOK, Has, StartTurn
  <2>2. \A p \in Pools : Cardinality(Out(p)') = Cardinality(Out(p))
    BY <2>1, OutSame
  <2> QED BY <1>11, <2>2 DEF IndInv, SlotsConserved, Conserved, Owing, Adding, StartTurn
<1>12. ASSUME NEW t \in Turns, Refresh(t) PROVE SlotsConserved'
  <2>1. \A p \in Pools : \A u \in Turns : Has(u, p)' <=> Has(u, p)
    BY <1>12 DEF IndInv, TypeOK, TurnsOK, Has, Refresh, MutexFree
  <2>2. \A p \in Pools : Cardinality(Out(p)') = Cardinality(Out(p))
    BY <2>1, OutSame
  <2> QED BY <1>12, <2>2
             DEF IndInv, SlotsConserved, Conserved, Owing, Adding, Refresh, MutexFree
<1>13. ASSUME NEW t \in Turns, Look(t) PROVE SlotsConserved'
  <2>0. \A q \in Pools : q # None
    BY DEF Pools, None
  <2>1. \A p \in Pools : \A u \in Turns : Has(u, p)' <=> Has(u, p)
    <3> SUFFICES ASSUME NEW p \in Pools, NEW u \in Turns PROVE Has(u, p)' <=> Has(u, p)
      OBVIOUS
    <3>1. CASE u # t
      BY <1>13, <3>1 DEF IndInv, TypeOK, TurnsOK, Has, Look, MutexFree, TakeInstead
    <3>2. CASE u = t
      BY <1>13, <2>0, <3>2
         DEF IndInv, TypeOK, TurnsOK, TurnsFit, Fits, Asking, None, Has, Look, MutexFree,
         TakeInstead
    <3> QED BY <3>1, <3>2
  <2>2. \A p \in Pools : Cardinality(Out(p)') = Cardinality(Out(p))
    BY <2>1, OutSame
  <2> QED BY <1>13, <2>2
             DEF IndInv, SlotsConserved, Conserved, Owing, Adding, Look, MutexFree, TakeInstead
<1>14. ASSUME NEW t \in Turns, Refused(t) PROVE SlotsConserved'
  <2>1. \A p \in Pools : \A u \in Turns : Has(u, p)' <=> Has(u, p)
    BY <1>14 DEF IndInv, TypeOK, TurnsOK, Has, Refused
  <2>2. \A p \in Pools : Cardinality(Out(p)') = Cardinality(Out(p))
    BY <2>1, OutSame
  <2> QED BY <1>14, <2>2 DEF IndInv, SlotsConserved, Conserved, Owing, Adding, Refused
<1>15. ASSUME NEW t \in Turns, TakePermit(t) PROVE SlotsConserved'
  <2> SUFFICES ASSUME NEW p \in Pools PROVE Conserved(p)'
    BY DEF SlotsConserved
  <2>n. /\ permits[p] \in Nat /\ owed[p] \in Nat /\ count[p] \in Nat /\ Cardinality(Out(p)) \in Nat
        /\ resizing.owe \in Nat /\ resizing.add \in Nat /\ Conserved(p)
    BY Numbers, OutFinite DEF IndInv, SlotsConserved
  <2>0. \A q \in Pools : q # None
    BY DEF Pools, None
  <2>1. want[t] \in Pools
    BY <1>15 DEF IndInv, TypeOK, TurnsOK, TurnsFit, Fits, Asking, None, Has, TakePermit
  <2>2. ASSUME NEW u \in Turns, u # t \/ p # want[t] PROVE Has(u, p)' <=> Has(u, p)
    <3>1. CASE u # t
      BY <1>15, <3>1 DEF IndInv, TypeOK, TurnsOK, Has, TakePermit, TakeInstead
    <3>2. CASE u = t
      BY <1>15, <2>0, <2>2, <3>2
         DEF IndInv, TypeOK, TurnsOK, TurnsFit, Fits, Asking, None, Has, TakePermit, TakeInstead
    <3> QED BY <3>1, <3>2
  <2>3. CASE p # want[t]
    <3>1. Cardinality(Out(p)') = Cardinality(Out(p))
      BY <2>2, <2>3, OutSame
    <3>2. permits'[p] = permits[p] /\ owed'[p] = owed[p]
      BY <1>15, <2>1, <2>3 DEF TakePermit, IndInv, TypeOK, PoolsOK
    <3> QED BY <1>15, <2>n, <3>1, <3>2 DEF TakePermit, Conserved, Owing, Adding
  <2>4. CASE p = want[t]
    <3>1. Has(t, p)'
      BY <1>15, <2>4 DEF IndInv, TypeOK, TurnsOK, Has, TakePermit, TakeInstead
    <3>2. ~ Has(t, p)
      BY <1>15, <2>4 DEF IndInv, TurnsFit, Fits, Has, TakePermit
    <3>3. Cardinality(Out(p)') = Cardinality(Out(p)) + 1
      BY <2>2, <3>1, <3>2, OutGrows
    <3>4. permits'[p] = permits[p] - 1
      BY <1>15, <2>1, <2>4 DEF TakePermit, IndInv, TypeOK, PoolsOK
    <3> QED BY <1>15, <2>n, <3>3, <3>4 DEF TakePermit, Conserved, Owing, Adding
  <2> QED BY <2>3, <2>4
<1>16. ASSUME NEW t \in Turns, Enqueue(t) PROVE SlotsConserved'
  <2>1. \A p \in Pools : \A u \in Turns : Has(u, p)' <=> Has(u, p)
    BY <1>16 DEF IndInv, TypeOK, TurnsOK, Has, Enqueue
  <2>2. \A p \in Pools : Cardinality(Out(p)') = Cardinality(Out(p))
    BY <2>1, OutSame
  <2> QED BY <1>16, <2>2 DEF IndInv, SlotsConserved, Conserved, Owing, Adding, Enqueue
<1>17. ASSUME NEW t \in Turns, TakeUp(t) PROVE SlotsConserved'
  <2>0. \A q \in Pools : q # None
    BY DEF Pools, None
  <2>1. \A p \in Pools : \A u \in Turns : Has(u, p)' <=> Has(u, p)
    <3> SUFFICES ASSUME NEW p \in Pools, NEW u \in Turns PROVE Has(u, p)' <=> Has(u, p)
      OBVIOUS
    <3>1. CASE u # t
      BY <1>17, <3>1 DEF IndInv, TypeOK, TurnsOK, Has, TakeUp, TakeInstead
    <3>2. CASE u = t
      BY <1>17, <2>0, <3>2
         DEF IndInv, TypeOK, TurnsOK, TurnsFit, Fits, Asking, None, Has, TakeUp, TakeInstead
    <3> QED BY <3>1, <3>2
  <2>2. \A p \in Pools : Cardinality(Out(p)') = Cardinality(Out(p))
    BY <2>1, OutSame
  <2> QED BY <1>17, <2>2
             DEF IndInv, SlotsConserved, Conserved, Owing, Adding, TakeUp, TakeInstead
<1>18. ASSUME NEW t \in Turns, PoolClosed(t) PROVE SlotsConserved'
  <2>1. \A p \in Pools : \A u \in Turns : Has(u, p)' <=> Has(u, p)
    BY <1>18 DEF IndInv, TypeOK, TurnsOK, Has, PoolClosed
  <2>2. \A p \in Pools : Cardinality(Out(p)') = Cardinality(Out(p))
    BY <2>1, OutSame
  <2> QED BY <1>18, <2>2 DEF IndInv, SlotsConserved, Conserved, Owing, Adding, PoolClosed
<1>19. ASSUME NEW t \in Turns, PermitReturned(t) PROVE SlotsConserved'
  <2> SUFFICES ASSUME NEW p \in Pools PROVE Conserved(p)'
    BY DEF SlotsConserved
  <2>n. /\ permits[p] \in Nat /\ owed[p] \in Nat /\ count[p] \in Nat /\ Cardinality(Out(p)) \in Nat
        /\ resizing.owe \in Nat /\ resizing.add \in Nat /\ Conserved(p)
    BY Numbers, OutFinite DEF IndInv, SlotsConserved
  <2>0. \A q \in Pools : q # None
    BY DEF Pools, None
  <2>1. want[t] \in Pools
    BY <1>19 DEF IndInv, TypeOK, TurnsOK, TurnsFit, Fits, Asking, None, Has, PermitReturned
  <2>2. ASSUME NEW u \in Turns, u # t \/ p # want[t] PROVE Has(u, p)' <=> Has(u, p)
    <3>1. CASE u # t
      BY <1>19, <3>1 DEF IndInv, TypeOK, TurnsOK, Has, PermitReturned
    <3>2. CASE u = t
      BY <1>19, <2>0, <2>2, <3>2
         DEF IndInv, TypeOK, TurnsOK, TurnsFit, Fits, Asking, None, Has, PermitReturned
    <3> QED BY <3>1, <3>2
  <2>3. CASE p # want[t]
    <3>1. Cardinality(Out(p)') = Cardinality(Out(p))
      BY <2>2, <2>3, OutSame
    <3>2. permits'[p] = permits[p] /\ owed'[p] = owed[p]
      BY <1>19, <2>1, <2>3 DEF PermitReturned, IndInv, TypeOK, PoolsOK
    <3> QED BY <1>19, <2>n, <3>1, <3>2 DEF PermitReturned, Conserved, Owing, Adding
  <2>4. CASE p = want[t]
    <3>1. ~ Has(t, p)' /\ Has(t, p)
      BY <1>19, <2>0, <2>4
         DEF IndInv, TypeOK, TurnsOK, TurnsFit, Fits, Asking, None, Has, PermitReturned
    <3>2. Cardinality(Out(p)') = Cardinality(Out(p)) - 1
      BY <2>2, <3>1, OutShrinks
    <3>3. permits'[p] = permits[p] + 1
      BY <1>19, <2>1, <2>4 DEF PermitReturned, IndInv, TypeOK, PoolsOK
    <3> QED BY <1>19, <2>n, <3>2, <3>3 DEF PermitReturned, Conserved, Owing, Adding
  <2> QED BY <2>3, <2>4
<1>20. ASSUME NEW t \in Turns, DropSlot(t) PROVE SlotsConserved'
  <2> SUFFICES ASSUME NEW p \in Pools PROVE Conserved(p)'
    BY DEF SlotsConserved
  <2>n. /\ permits[p] \in Nat /\ owed[p] \in Nat /\ count[p] \in Nat /\ Cardinality(Out(p)) \in Nat
        /\ resizing.owe \in Nat /\ resizing.add \in Nat /\ Conserved(p)
    BY Numbers, OutFinite DEF IndInv, SlotsConserved
  <2>0. \A q \in Pools : q # None
    BY DEF Pools, None
  <2>1. old[t] \in Pools
    BY <1>20 DEF IndInv, TypeOK, TurnsOK, TurnsFit, Fits, Asking, None, Has, DropSlot
  <2>2. ASSUME NEW u \in Turns, u # t \/ p # old[t] PROVE Has(u, p)' <=> Has(u, p)
    <3>1. CASE u # t
      BY <1>20, <3>1 DEF IndInv, TypeOK, TurnsOK, Has, DropSlot
    <3>2. CASE u = t
      BY <1>20, <2>0, <2>2, <3>2
         DEF IndInv, TypeOK, TurnsOK, TurnsFit, Fits, Asking, None, Has, DropSlot
    <3> QED BY <3>1, <3>2
  <2>3. CASE p # old[t]
    <3>1. Cardinality(Out(p)') = Cardinality(Out(p))
      BY <2>2, <2>3, OutSame
    <3>2. permits'[p] = permits[p] /\ owed'[p] = owed[p]
      BY <1>20, <2>1, <2>3 DEF DropSlot, IndInv, TypeOK, PoolsOK
    <3> QED BY <1>20, <2>n, <3>1, <3>2 DEF DropSlot, Conserved, Owing, Adding
  <2>4. CASE p = old[t] /\ owed[p] > 0
    <3>0. after[t] \in {"idle", "refresh", "calling", "tools"}
      BY DEF IndInv, TypeOK, TurnsOK
    <3>1. ~ Has(t, p)' /\ Has(t, p)
      BY <1>20, <2>0, <2>4, <3>0
         DEF IndInv, TypeOK, TurnsOK, TurnsFit, Fits, Asking, None, Has, DropSlot
    <3>2. Cardinality(Out(p)') = Cardinality(Out(p)) - 1
      BY <2>2, <3>1, OutShrinks
    <3>3. owed'[p] = owed[p] - 1
      BY <1>20, <2>1, <2>4 DEF DropSlot, IndInv, TypeOK, PoolsOK
    <3> QED BY <1>20, <2>n, <3>2, <3>3 DEF DropSlot, Conserved, Owing, Adding
  <2>5. CASE p = old[t] /\ ~ (owed[p] > 0)
    <3>1. Has(t, p)' /\ Has(t, p)
      BY <1>20, <2>5 DEF IndInv, TypeOK, TurnsOK, Has, DropSlot
    <3>2. Cardinality(Out(p)') = Cardinality(Out(p))
      BY <2>2, <3>1, OutSame
    <3> QED BY <1>20, <2>n, <2>5, <3>2 DEF DropSlot, Conserved, Owing, Adding
  <2> QED BY <2>3, <2>4, <2>5
<1>21. ASSUME NEW t \in Turns, FreePermit(t) PROVE SlotsConserved'
  <2>1. old[t] \in Pools
    BY <1>21, Numbers
       DEF IndInv, TypeOK, PoolsOK, TurnsOK, Pools, None, NoResize, Limits, Resizes,
       CurrentMade, TurnsFit, Fits, Asking, FreePermit
  <2> DEFINE pcs == [pc EXCEPT ![t] = after[t]]
  <2>2. pcs \in [Turns -> States]
    BY DEF IndInv, TypeOK, TurnsOK, States
  <2>3. Give(old[t], pcs)
    BY <1>21 DEF FreePermit
  <2>4. \A u \in Turns : u # t => pcs[u] = pc[u]
    BY DEF IndInv, TypeOK, TurnsOK
  <2> HIDE DEF pcs
  <2> SUFFICES ASSUME NEW p \in Pools PROVE Conserved(p)'
    BY DEF SlotsConserved
  <2>5. /\ permits[p] \in Nat /\ owed[p] \in Nat /\ count[p] \in Nat /\ Cardinality(Out(p)) \in Nat
        /\ resizing.owe \in Nat /\ resizing.add \in Nat /\ Conserved(p)
    BY Numbers, OutFinite DEF IndInv, SlotsConserved
  <2>6. \A q \in Pools : q # None
    BY DEF Pools, None
  <2>7. \A u \in Turns : u # t => slot'[u] = slot[u] /\ want'[u] = want[u] /\ old'[u] = old[u]
    BY <1>21 DEF FreePermit, IndInv, TypeOK, TurnsOK
  <2>8. pc'[t] = pcs[t]
    BY <1>21, <2>1, <2>2, <2>3, GiveMoves DEF IndInv, FreePermit
  <2>9. /\ p # old[t] => (Has(t, p)' <=> Has(t, p))
        /\ p = old[t] => Has(t, p) /\ ~ Has(t, p)'
    <3>1. after[t] \in {"idle", "refresh", "calling", "tools"}
      BY DEF IndInv, TypeOK, TurnsOK
    <3> QED BY <1>21, <2>6, <2>8, <3>1
               DEF IndInv, TypeOK, TurnsOK, TurnsFit, Fits, Asking, None, Has, pcs, FreePermit
  <2>10. owed'[p] = owed[p] /\ count'[p] = count[p] /\ Owing(p)' = Owing(p) /\ Adding(p)' = Adding(p)
    BY <1>21 DEF FreePermit, Owing, Adding
  <2>11. Owing(p) \in Nat /\ Adding(p) \in Nat
    BY <2>5 DEF Owing, Adding
  <2>12. CASE queue[old[t]] = <<>>
    <3>1. pc' = pcs /\ permits'[old[t]] = permits[old[t]] + 1
      BY <2>1, <2>2, <2>3, <2>12, GiveMoves DEF IndInv
    <3>2. \A u \in Turns : u # t => (Has(u, p)' <=> Has(u, p))
      BY <2>4, <2>7, <3>1 DEF Has
    <3>3. CASE p # old[t]
      <4>1. Cardinality(Out(p)') = Cardinality(Out(p))
        BY <2>9, <3>2, <3>3, OutSame
      <4>2. permits'[p] = permits[p]
        BY <2>1, <2>2, <2>3, <3>3, GiveElsewhere DEF IndInv
      <4> QED BY <2>5, <2>10, <2>11, <3>3, <4>1, <4>2 DEF Conserved
    <3>4. CASE p = old[t]
      <4>1. Cardinality(Out(p)') = Cardinality(Out(p)) - 1
        BY <2>9, <3>2, <3>4, OutShrinks
      <4> QED BY <2>5, <2>10, <2>11, <3>1, <3>4, <4>1 DEF Conserved
    <3> QED BY <3>3, <3>4
  <2>13. CASE queue[old[t]] # <<>>
    <3>1. permits' = permits
      BY <2>1, <2>2, <2>3, <2>13, GiveMoves DEF IndInv
    <3>2. PICK h \in Turns : pc[h] = "waiting" /\ want[h] = old[t] /\ pc' = [pcs EXCEPT ![h] = "assigned"]
      BY <2>1, <2>2, <2>3, <2>13, GiveMoves DEF IndInv
    <3>3. h # t
      BY <1>21, <3>2 DEF FreePermit
    <3>4. \A u \in Turns : u # t /\ u # h => (Has(u, p)' <=> Has(u, p))
      BY <2>2, <2>4, <2>7, <3>2 DEF Has
    <3>5. /\ p # old[t] => (Has(h, p)' <=> Has(h, p))
          /\ p = old[t] => ~ Has(h, p) /\ Has(h, p)'
      <4>1. pc'[h] = "assigned" /\ slot'[h] = slot[h] /\ want'[h] = want[h] /\ slot[h] # want[h]
        BY <2>2, <2>7, <3>2, <3>3 DEF IndInv, TurnsFit, Fits
      <4> QED BY <3>2, <4>1 DEF Has
    <3>6. CASE p # old[t]
      <4>1. Cardinality(Out(p)') = Cardinality(Out(p))
        BY <2>9, <3>4, <3>5, <3>6, OutSame
      <4> QED BY <2>5, <2>10, <2>11, <3>1, <3>6, <4>1 DEF Conserved
    <3>7. CASE p = old[t]
      <4>1. Cardinality(Out(p)') = Cardinality(Out(p))
        BY <2>9, <3>4, <3>5, <3>7, OutSwaps
      <4> QED BY <2>5, <2>10, <2>11, <3>1, <3>7, <4>1 DEF Conserved
    <3> QED BY <3>6, <3>7
  <2> QED BY <2>12, <2>13
<1>22. ASSUME NEW t \in Turns, RunTools(t) PROVE SlotsConserved'
  <2>0. \A q \in Pools : q # None
    BY DEF Pools, None
  <2>1. \A p \in Pools : \A u \in Turns : Has(u, p)' <=> Has(u, p)
    <3> SUFFICES ASSUME NEW p \in Pools, NEW u \in Turns PROVE Has(u, p)' <=> Has(u, p)
      OBVIOUS
    <3>1. CASE u # t
      BY <1>22, <3>1 DEF IndInv, TypeOK, TurnsOK, Has, RunTools, GiveUp
    <3>2. CASE u = t
      BY <1>22, <2>0, <3>2
         DEF IndInv, TypeOK, TurnsOK, TurnsFit, Fits, Asking, None, Has, RunTools, GiveUp
    <3> QED BY <3>1, <3>2
  <2>2. \A p \in Pools : Cardinality(Out(p)') = Cardinality(Out(p))
    BY <2>1, OutSame
  <2> QED BY <1>22, <2>2 DEF IndInv, SlotsConserved, Conserved, Owing, Adding, RunTools, GiveUp
<1>23. ASSUME NEW t \in Turns, NextCall(t) PROVE SlotsConserved'
  <2>1. \A p \in Pools : \A u \in Turns : Has(u, p)' <=> Has(u, p)
    BY <1>23 DEF IndInv, TypeOK, TurnsOK, Has, NextCall
  <2>2. \A p \in Pools : Cardinality(Out(p)') = Cardinality(Out(p))
    BY <2>1, OutSame
  <2> QED BY <1>23, <2>2 DEF IndInv, SlotsConserved, Conserved, Owing, Adding, NextCall
<1>24. ASSUME NEW t \in Turns, EndTurn(t) PROVE SlotsConserved'
  <2>0. \A q \in Pools : q # None
    BY DEF Pools, None
  <2>1. \A p \in Pools : \A u \in Turns : Has(u, p)' <=> Has(u, p)
    <3> SUFFICES ASSUME NEW p \in Pools, NEW u \in Turns PROVE Has(u, p)' <=> Has(u, p)
      OBVIOUS
    <3>1. CASE u # t
      BY <1>24, <3>1 DEF IndInv, TypeOK, TurnsOK, Has, EndTurn, GiveUp
    <3>2. CASE u = t
      BY <1>24, <2>0, <3>2
         DEF IndInv, TypeOK, TurnsOK, TurnsFit, Fits, Asking, None, Has, EndTurn, GiveUp
    <3> QED BY <3>1, <3>2
  <2>2. \A p \in Pools : Cardinality(Out(p)') = Cardinality(Out(p))
    BY <2>1, OutSame
  <2> QED BY <1>24, <2>2 DEF IndInv, SlotsConserved, Conserved, Owing, Adding, EndTurn, GiveUp
<1>25. ASSUME NEW t \in Turns, Stop(t) PROVE SlotsConserved'
  <2>0. \A q \in Pools : q # None
    BY DEF Pools, None
  <2>1. \A p \in Pools : \A u \in Turns : Has(u, p)' <=> Has(u, p)
    <3> SUFFICES ASSUME NEW p \in Pools, NEW u \in Turns PROVE Has(u, p)' <=> Has(u, p)
      OBVIOUS
    <3>1. CASE u # t
      BY <1>25, <3>1 DEF IndInv, TypeOK, TurnsOK, Has, Stop, GiveUp
    <3>2. CASE u = t
      BY <1>25, <2>0, <3>2
         DEF IndInv, TypeOK, TurnsOK, TurnsFit, Fits, Asking, None, Has, Stop, GiveUp
    <3> QED BY <3>1, <3>2
  <2>2. \A p \in Pools : Cardinality(Out(p)') = Cardinality(Out(p))
    BY <2>1, OutSame
  <2> QED BY <1>25, <2>2 DEF IndInv, SlotsConserved, Conserved, Owing, Adding, Stop, GiveUp
<1>26. ASSUME NEW t \in Turns, StopWaiting(t) PROVE SlotsConserved'
  <2>0. \A q \in Pools : q # None
    BY DEF Pools, None
  <2>1. \A p \in Pools : \A u \in Turns : Has(u, p)' <=> Has(u, p)
    <3> SUFFICES ASSUME NEW p \in Pools, NEW u \in Turns PROVE Has(u, p)' <=> Has(u, p)
      OBVIOUS
    <3>1. CASE u # t
      BY <1>26, <3>1 DEF IndInv, TypeOK, TurnsOK, Has, StopWaiting, GiveUp
    <3>2. CASE u = t
      BY <1>26, <2>0, <3>2
         DEF IndInv, TypeOK, TurnsOK, TurnsFit, Fits, Asking, None, Has, StopWaiting, GiveUp
    <3> QED BY <3>1, <3>2
  <2>2. \A p \in Pools : Cardinality(Out(p)') = Cardinality(Out(p))
    BY <2>1, OutSame
  <2> QED BY <1>26, <2>2
             DEF IndInv, SlotsConserved, Conserved, Owing, Adding, StopWaiting, GiveUp
<1>27. ASSUME NEW t \in Turns, StopAssigned(t) PROVE SlotsConserved'
  <2>1. want[t] \in Pools
    BY <1>27, Numbers
       DEF IndInv, TypeOK, PoolsOK, TurnsOK, Pools, None, NoResize, Limits, Resizes,
       CurrentMade, TurnsFit, Fits, Asking, StopAssigned
  <2> DEFINE pcs == [pc EXCEPT ![t] = IF slot[t] = None THEN "idle" ELSE "drop"]
  <2>2. pcs \in [Turns -> States]
    BY DEF IndInv, TypeOK, TurnsOK, States
  <2>3. Give(want[t], pcs)
    BY <1>27 DEF StopAssigned
  <2>4. \A u \in Turns : u # t => pcs[u] = pc[u]
    BY DEF IndInv, TypeOK, TurnsOK
  <2> HIDE DEF pcs
  <2> SUFFICES ASSUME NEW p \in Pools PROVE Conserved(p)'
    BY DEF SlotsConserved
  <2>5. /\ permits[p] \in Nat /\ owed[p] \in Nat /\ count[p] \in Nat /\ Cardinality(Out(p)) \in Nat
        /\ resizing.owe \in Nat /\ resizing.add \in Nat /\ Conserved(p)
    BY Numbers, OutFinite DEF IndInv, SlotsConserved
  <2>6. \A q \in Pools : q # None
    BY DEF Pools, None
  <2>7. \A u \in Turns : u # t => slot'[u] = slot[u] /\ want'[u] = want[u] /\ old'[u] = old[u]
    BY <1>27 DEF StopAssigned, IndInv, TypeOK, TurnsOK
  <2>8. pc'[t] = pcs[t]
    BY <1>27, <2>1, <2>2, <2>3, GiveMoves DEF IndInv, StopAssigned
  <2>9. /\ p # want[t] => (Has(t, p)' <=> Has(t, p))
        /\ p = want[t] => Has(t, p) /\ ~ Has(t, p)'
    <3>1. after[t] \in {"idle", "refresh", "calling", "tools"}
      BY DEF IndInv, TypeOK, TurnsOK
    <3> QED BY <1>27, <2>6, <2>8, <3>1
               DEF IndInv, TypeOK, TurnsOK, TurnsFit, Fits, Asking, None, Has, pcs, StopAssigned
  <2>10. owed'[p] = owed[p] /\ count'[p] = count[p] /\ Owing(p)' = Owing(p) /\ Adding(p)' = Adding(p)
    BY <1>27 DEF StopAssigned, Owing, Adding
  <2>11. Owing(p) \in Nat /\ Adding(p) \in Nat
    BY <2>5 DEF Owing, Adding
  <2>12. CASE queue[want[t]] = <<>>
    <3>1. pc' = pcs /\ permits'[want[t]] = permits[want[t]] + 1
      BY <2>1, <2>2, <2>3, <2>12, GiveMoves DEF IndInv
    <3>2. \A u \in Turns : u # t => (Has(u, p)' <=> Has(u, p))
      BY <2>4, <2>7, <3>1 DEF Has
    <3>3. CASE p # want[t]
      <4>1. Cardinality(Out(p)') = Cardinality(Out(p))
        BY <2>9, <3>2, <3>3, OutSame
      <4>2. permits'[p] = permits[p]
        BY <2>1, <2>2, <2>3, <3>3, GiveElsewhere DEF IndInv
      <4> QED BY <2>5, <2>10, <2>11, <3>3, <4>1, <4>2 DEF Conserved
    <3>4. CASE p = want[t]
      <4>1. Cardinality(Out(p)') = Cardinality(Out(p)) - 1
        BY <2>9, <3>2, <3>4, OutShrinks
      <4> QED BY <2>5, <2>10, <2>11, <3>1, <3>4, <4>1 DEF Conserved
    <3> QED BY <3>3, <3>4
  <2>13. CASE queue[want[t]] # <<>>
    <3>1. permits' = permits
      BY <2>1, <2>2, <2>3, <2>13, GiveMoves DEF IndInv
    <3>2. PICK h \in Turns : pc[h] = "waiting" /\ want[h] = want[t] /\ pc' = [pcs EXCEPT ![h] = "assigned"]
      BY <2>1, <2>2, <2>3, <2>13, GiveMoves DEF IndInv
    <3>3. h # t
      BY <1>27, <3>2 DEF StopAssigned
    <3>4. \A u \in Turns : u # t /\ u # h => (Has(u, p)' <=> Has(u, p))
      BY <2>2, <2>4, <2>7, <3>2 DEF Has
    <3>5. /\ p # want[t] => (Has(h, p)' <=> Has(h, p))
          /\ p = want[t] => ~ Has(h, p) /\ Has(h, p)'
      <4>1. pc'[h] = "assigned" /\ slot'[h] = slot[h] /\ want'[h] = want[h] /\ slot[h] # want[h]
        BY <2>2, <2>7, <3>2, <3>3 DEF IndInv, TurnsFit, Fits
      <4> QED BY <3>2, <4>1 DEF Has
    <3>6. CASE p # want[t]
      <4>1. Cardinality(Out(p)') = Cardinality(Out(p))
        BY <2>9, <3>4, <3>5, <3>6, OutSame
      <4> QED BY <2>5, <2>10, <2>11, <3>1, <3>6, <4>1 DEF Conserved
    <3>7. CASE p = want[t]
      <4>1. Cardinality(Out(p)') = Cardinality(Out(p))
        BY <2>9, <3>4, <3>5, <3>7, OutSwaps
      <4> QED BY <2>5, <2>10, <2>11, <3>1, <3>7, <4>1 DEF Conserved
    <3> QED BY <3>6, <3>7
  <2> QED BY <2>12, <2>13
<1>28. CASE UNCHANGED vars
  BY <1>28 DEF vars, IndInv, SlotsConserved, Conserved, Out, Has, Owing, Adding
<1> QED
  BY <1>1, <1>2, <1>3, <1>4, <1>5, <1>6, <1>7, <1>8, <1>9, <1>10, <1>11, <1>12, <1>13, <1>14,
     <1>15, <1>16, <1>17, <1>18, <1>19, <1>20, <1>21, <1>22, <1>23, <1>24, <1>25, <1>26, <1>27,
     <1>28
     DEF Next, Configure, Limiting, Proceed, Set

\* Every step leaves a resize one half to do.
LEMMA OneHalfStep == IndInv /\ TypeOK' /\ [Next]_vars => OneHalf'
<1> SUFFICES ASSUME IndInv, TypeOK', [Next]_vars PROVE OneHalf'
  OBVIOUS
<1> USE LimiterAssumption DEF rowVars, poolVars, turnVars
<1>1. ASSUME NEW max \in 0..MaxLimit, SaveProvider(max) PROVE OneHalf'
  BY <1>1 DEF IndInv, OneHalf, SaveProvider, Exists
<1>2. CASE BuildEndpoint
  BY <1>2 DEF IndInv, OneHalf, BuildEndpoint
<1>3. CASE DeleteProvider
  BY <1>3 DEF IndInv, OneHalf, DeleteProvider, Gone
<1>4. ASSUME NEW r \in pending, Set(r), IgnoreStaleSet(r) PROVE OneHalf'
  BY <1>4 DEF IndInv, OneHalf, Set, IgnoreStaleSet
<1>5. ASSUME NEW r \in pending, Set(r), ResizeSet(r) PROVE OneHalf'
  BY <1>5 DEF IndInv, OneHalf, Set, ResizeSet, Raise, Lower, Lesser
<1>6. ASSUME NEW r \in pending, Set(r), ReplaceSet(r) PROVE OneHalf'
  BY <1>6 DEF IndInv, OneHalf, Set, ReplaceSet, MutexFree
<1>7. CASE Forget
  BY <1>7 DEF IndInv, OneHalf, Forget, Unknown
<1>8. CASE FinishLower
  BY <1>8 DEF IndInv, OneHalf, FinishLower, NoResize
<1>9. CASE FinishEvenResize
  BY <1>9 DEF IndInv, OneHalf, FinishEvenResize, NoResize
<1>10. CASE AddPermit
  <2>1. resizing'.owe = resizing.owe /\ resizing.owe = 0
    BY <1>10, Numbers DEF IndInv, OneHalf, AddPermit, TypeOK, PoolsOK, Resizes
  <2> QED BY <2>1 DEF OneHalf
<1>11. ASSUME NEW t \in Turns, StartTurn(t) PROVE OneHalf'
  BY <1>11 DEF IndInv, OneHalf, StartTurn
<1>12. ASSUME NEW t \in Turns, Refresh(t) PROVE OneHalf'
  BY <1>12 DEF IndInv, OneHalf, Refresh, MutexFree
<1>13. ASSUME NEW t \in Turns, Look(t) PROVE OneHalf'
  BY <1>13 DEF IndInv, OneHalf, Look, MutexFree, TakeInstead
<1>14. ASSUME NEW t \in Turns, Refused(t) PROVE OneHalf'
  BY <1>14 DEF IndInv, OneHalf, Refused
<1>15. ASSUME NEW t \in Turns, TakePermit(t) PROVE OneHalf'
  BY <1>15 DEF IndInv, OneHalf, TakePermit, TakeInstead
<1>16. ASSUME NEW t \in Turns, Enqueue(t) PROVE OneHalf'
  BY <1>16 DEF IndInv, OneHalf, Enqueue
<1>17. ASSUME NEW t \in Turns, TakeUp(t) PROVE OneHalf'
  BY <1>17 DEF IndInv, OneHalf, TakeUp, TakeInstead
<1>18. ASSUME NEW t \in Turns, PoolClosed(t) PROVE OneHalf'
  BY <1>18 DEF IndInv, OneHalf, PoolClosed
<1>19. ASSUME NEW t \in Turns, PermitReturned(t) PROVE OneHalf'
  BY <1>19 DEF IndInv, OneHalf, PermitReturned
<1>20. ASSUME NEW t \in Turns, DropSlot(t) PROVE OneHalf'
  BY <1>20 DEF IndInv, OneHalf, DropSlot
<1>21. ASSUME NEW t \in Turns, FreePermit(t) PROVE OneHalf'
  BY <1>21 DEF IndInv, OneHalf, FreePermit, Give
<1>22. ASSUME NEW t \in Turns, RunTools(t) PROVE OneHalf'
  BY <1>22 DEF IndInv, OneHalf, RunTools, GiveUp
<1>23. ASSUME NEW t \in Turns, NextCall(t) PROVE OneHalf'
  BY <1>23 DEF IndInv, OneHalf, NextCall
<1>24. ASSUME NEW t \in Turns, EndTurn(t) PROVE OneHalf'
  BY <1>24 DEF IndInv, OneHalf, EndTurn, GiveUp
<1>25. ASSUME NEW t \in Turns, Stop(t) PROVE OneHalf'
  BY <1>25 DEF IndInv, OneHalf, Stop, GiveUp
<1>26. ASSUME NEW t \in Turns, StopWaiting(t) PROVE OneHalf'
  BY <1>26 DEF IndInv, OneHalf, StopWaiting, GiveUp
<1>27. ASSUME NEW t \in Turns, StopAssigned(t) PROVE OneHalf'
  BY <1>27 DEF IndInv, OneHalf, StopAssigned, Give
<1>28. CASE UNCHANGED vars
  BY <1>28 DEF vars, IndInv, OneHalf
<1> QED
  BY <1>1, <1>2, <1>3, <1>4, <1>5, <1>6, <1>7, <1>8, <1>9, <1>10, <1>11, <1>12, <1>13, <1>14,
     <1>15, <1>16, <1>17, <1>18, <1>19, <1>20, <1>21, <1>22, <1>23, <1>24, <1>25, <1>26, <1>27,
     <1>28
     DEF Next, Configure, Limiting, Proceed, Set

\* IndInv holds of every reachable state.
THEOREM LimiterInductive == Spec => []IndInv
<1> USE LimiterAssumption
<1>1. Init => IndInv
  <2> SUFFICES ASSUME Init PROVE IndInv
    OBVIOUS
  <2>1. TypeOK
    <3>1. RowsOK
      BY DEF Init, RowsOK, Rows
    <3>2. PoolsOK
      BY DEF Init, PoolsOK, Limits, Resizes, Unknown, NoResize, None
    <3>3. TurnsOK
      BY DEF Init, TurnsOK, States
    <3> QED BY <3>1, <3>2, <3>3 DEF TypeOK
  <2>2. CurrentMade /\ OneHalf
    BY DEF Init, CurrentMade, OneHalf, Unknown, NoResize, None
  <2>3. UnmadeUntouched
    BY DEF Init, UnmadeUntouched, Pools
  <2>4. TurnsFit
    BY DEF Init, TurnsFit, Fits, Asking, None
  <2>5. QueuesFit
    BY DEF Init, QueuesFit, QueueFits, Once
  <2>6. SlotsConserved
    <3> SUFFICES ASSUME NEW p \in Pools PROVE Conserved(p)
      BY DEF SlotsConserved
    <3>1. Out(p) = {}
      BY DEF Init, Out, Has, None, Pools
    <3>2. Cardinality(Out(p)) = 0
      BY <3>1, FS_EmptySet
    <3> QED BY <3>2 DEF Init, Conserved, Owing, Adding, NoResize
  <2> QED BY <2>1, <2>2, <2>3, <2>4, <2>5, <2>6 DEF IndInv
<1>2. IndInv /\ [Next]_vars => IndInv'
  BY TypeStep, CurrentMadeStep, OneHalfStep, UnmadeUntouchedStep, TurnsFitStep,
     QueuesFitStep, SlotsConservedStep DEF IndInv
<1> QED
  BY <1>1, <1>2, PTL DEF Spec

\* Type correctness, for every number of turns, pools and versions.
THEOREM LimiterTypes == Spec => []TypeOK
<1>1. IndInv => TypeOK
  BY DEF IndInv
<1> QED
  BY LimiterInductive, <1>1, PTL

\* However Pool::resize and Slot::drop interleave, no permit is lost or
\* minted.
THEOREM LimiterConserves == Spec => []SlotsConserved
<1>1. IndInv => SlotsConserved
  BY DEF IndInv
<1> QED
  BY LimiterInductive, <1>1, PTL

\* A waiter's pool is open and has a permit out or about to be added: the
\* permits of a limit of at least one are all somewhere.
THEOREM LimiterNoIdleWait == Spec => []NobodyWaitsOnIdlePool
<1>1. IndInv => NobodyWaitsOnIdlePool
  <2> SUFFICES ASSUME IndInv, NEW p \in Pools, queue[p] # <<>>
               PROVE  p \notin closed /\ permits[p] = 0 /\ (Out(p) # {} \/ Adding(p) > 0)
    BY DEF NobodyWaitsOnIdlePool
  <2>1. p \notin closed /\ permits[p] = 0
    BY DEF IndInv, QueuesFit, QueueFits
  <2>2. count[p] > 0
    BY Numbers DEF IndInv, UnmadeUntouched
  <2>3. ASSUME Out(p) = {} PROVE Adding(p) > 0
    <3>1. Cardinality(Out(p)) = 0
      BY <2>3, FS_EmptySet
    <3>2. Owing(p) \in Nat /\ Adding(p) \in Nat /\ owed[p] \in Nat /\ count[p] \in Nat
      BY Numbers DEF IndInv, Owing, Adding
    <3> QED BY <2>1, <2>2, <3>1, <3>2 DEF IndInv, SlotsConserved, Conserved
  <2> QED BY <2>1, <2>3
<1> QED
  BY LimiterInductive, <1>1, PTL
-----------------------------------------------------------------------------
(* The row the limiter follows.                                            *)

\* The limiter enforces `max`: no pool for no limit, else one sized to it.
Enforces(max) ==
    /\ (limit.pool = None) <=> (max = 0)
    /\ limit.pool # None => count[limit.pool] = max

\* While the provider exists: a row read or written is never newer than the
\* committed one, and the same version is the same row; the limiter was last
\* set from no newer one, and from the committed one it enforces its limit; and
\* the committed row's set is yet to run, has run, or no set ever began.
RowInv == Exists =>
    /\ row.version > 0
    /\ \A r \in pending : /\ r.version \in 1..row.version
                          /\ r.version = row.version => r = row
    /\ limit.version <= row.version
    /\ limit.version = row.version => Enforces(row.max)
    /\ limit.version = 0 => limit = Unknown
    /\ \/ row \in pending
       \/ limit.version = row.version
       \/ pending = {} /\ limit = Unknown

\* A set that is not ignored enforces its row and takes its version
\* (limiter::set, both ways).
LEMMA SetEnforces ==
    ASSUME TypeOK, NEW r \in pending, r # Gone,
           ResizeSet(r) \/ ReplaceSet(r), limit.pool # None => count[limit.pool] > 0
    PROVE  /\ ~ Stale(r)
           /\ limit'.version = r.version
           /\ Enforces(r.max)'
<1>1. r.max \in Nat /\ limit.pool \in Pools \cup {None} /\ limit.version \in Nat
  BY LimiterAssumption DEF TypeOK, RowsOK, PoolsOK, Rows, Limits
<1>2. CASE ResizeSet(r)
  <2>1. limit' = [limit EXCEPT !.version = r.version] /\ limit.pool # None /\ r.max > 0 /\ ~ Stale(r)
    BY <1>2 DEF ResizeSet
  <2>2. limit'.version = r.version /\ limit'.pool = limit.pool
    BY <2>1 DEF TypeOK, PoolsOK, Limits
  <2>3. count'[limit.pool] = r.max
    BY <1>1, <1>2, <2>1, ResizeElsewhere
  <2> QED BY <1>1, <2>1, <2>2, <2>3 DEF Enforces
<1>3. CASE ReplaceSet(r)
  <2>1. ~ Stale(r)
    BY <1>3 DEF ReplaceSet
  <2>2. CASE r.max > 0
    <3>1. limit' = [version |-> r.version, pool |-> made + 1] /\ made < MaxPools
          /\ count' = [count EXCEPT ![made + 1] = r.max]
      BY <1>3, <2>2 DEF ReplaceSet
    <3>2. made + 1 \in Pools /\ made + 1 # None
      BY <3>1, LimiterAssumption DEF TypeOK, PoolsOK, Pools, None
    <3>3. count'[made + 1] = r.max
      BY <3>1, <3>2 DEF TypeOK, PoolsOK
    <3>4. limit'.version = r.version /\ limit'.pool = made + 1
      BY <3>1
    <3> QED BY <1>1, <2>1, <2>2, <3>2, <3>3, <3>4 DEF Enforces
  <2>3. CASE r.max = 0
    <3>1. limit' = [version |-> r.version, pool |-> None]
      BY <1>3, <2>3 DEF ReplaceSet
    <3> QED BY <2>1, <2>3, <3>1 DEF Enforces
  <2> QED BY <1>1, <2>2, <2>3
<1> QED BY <1>2, <1>3

\* No step leaves the limiter behind the row: a save or a build adds the row it
\* commits or reads, and only a set of the newest version takes it away.
LEMMA RowInvStep == IndInv /\ RowInv /\ [Next]_vars => RowInv'
<1> SUFFICES ASSUME IndInv, RowInv, [Next]_vars, Exists'
             PROVE  RowInv'
  BY DEF RowInv
<1>1. TypeOK
  BY DEF IndInv
<1>2. row.version \in Nat /\ row.max \in Nat /\ limit.version \in Nat /\ row \in Rows
      /\ pending \subseteq Rows
  BY <1>1, LimiterAssumption DEF TypeOK, RowsOK, PoolsOK, Rows, Limits
<1>3. \A r \in pending : r.version \in Nat
  BY <1>2, LimiterAssumption DEF Rows
<1>4. ASSUME NEW max \in 0..MaxLimit, SaveProvider(max) PROVE RowInv'
  <2>1. Exists /\ row' = [version |-> row.version + 1, max |-> max] /\ pending' = pending \cup {row'}
        /\ limit' = limit /\ count' = count
    BY <1>4 DEF SaveProvider, poolVars
  <2>2. row'.version = row.version + 1
    BY <2>1
  <2>3. \A r \in pending' : r.version \in 1..row'.version /\ (r.version = row'.version => r = row')
    BY <1>2, <1>3, <2>1, <2>2 DEF RowInv
  <2>4. limit'.version < row'.version
    BY <1>2, <2>1, <2>2 DEF RowInv
  <2> QED BY <1>2, <2>1, <2>2, <2>3, <2>4 DEF RowInv
<1>5. CASE BuildEndpoint
  <2>1. Exists /\ row' = row /\ pending' = pending \cup {row} /\ limit' = limit /\ count' = count
    BY <1>5 DEF BuildEndpoint, poolVars
  <2> QED BY <1>2, <2>1 DEF RowInv, Enforces
<1>6. CASE DeleteProvider
  BY <1>6 DEF DeleteProvider, Exists
<1>7. ASSUME NEW r \in pending, Set(r) PROVE RowInv'
  <2>1. r # Gone /\ pending' = pending \ {r} /\ row' = row /\ Exists
        /\ (IgnoreStaleSet(r) \/ ResizeSet(r) \/ ReplaceSet(r))
    BY <1>7 DEF Set, Exists
  <2>2. CASE IgnoreStaleSet(r)
    <3>1. limit.version > r.version /\ limit' = limit /\ count' = count
      BY <2>2 DEF IgnoreStaleSet, Stale, poolVars
    <3>2. r # row
      BY <1>2, <1>3, <2>1, <3>1 DEF RowInv
    <3>3. limit # Unknown
      BY <1>3, <3>1 DEF Unknown
    <3> QED BY <1>2, <2>1, <3>1, <3>2, <3>3 DEF RowInv, Enforces
  <2>3. CASE ResizeSet(r) \/ ReplaceSet(r)
    <3>1. limit.pool # None => count[limit.pool] > 0
      <4> SUFFICES ASSUME limit.pool # None PROVE count[limit.pool] > 0
        OBVIOUS
      <4>1. limit.pool \in Pools /\ limit.pool <= made
        BY <1>1 DEF IndInv, CurrentMade, TypeOK, PoolsOK, Limits
      <4> QED BY <4>1 DEF IndInv, UnmadeUntouched
    <3>2. ~ Stale(r) /\ limit'.version = r.version /\ Enforces(r.max)'
      BY <1>1, <2>1, <2>3, <3>1, SetEnforces
    <3>3. r.version \in 1..row.version /\ (r.version = row.version => r = row)
      BY <2>1 DEF RowInv
    <3>4. ASSUME r # row PROVE row \in pending'
      BY <1>2, <1>3, <2>1, <3>2, <3>3, <3>4 DEF RowInv, Stale
    <3>5. limit'.version # 0 /\ limit'.version <= row.version
      BY <1>2, <1>3, <3>2, <3>3
    <3> QED BY <1>2, <2>1, <3>2, <3>3, <3>4, <3>5 DEF RowInv
  <2> QED BY <2>1, <2>2, <2>3
<1>8. CASE Forget
  <2>1. row' = row /\ Gone \in pending
    BY <1>8 DEF Forget
  <2>2. Gone.version = 0
    BY DEF Gone
  <2> QED BY <2>1, <2>2 DEF RowInv, Exists
<1>9. ASSUME UNCHANGED <<row, pending, limit, count>> PROVE RowInv'
  BY <1>9 DEF RowInv, Enforces, Exists
<1>10. CASE FinishLower \/ FinishEvenResize \/ AddPermit
  BY <1>9, <1>10 DEF FinishLower, FinishEvenResize, AddPermit, rowVars
<1>11. ASSUME NEW t \in Turns, StartTurn(t) \/ Proceed(t) \/ Stop(t) \/ StopWaiting(t) \/ StopAssigned(t)
       PROVE  RowInv'
  BY <1>9, <1>11 DEF StartTurn, Proceed, Stop, StopWaiting, StopAssigned, Refresh, Look,
     Refused, TakePermit, Enqueue, TakeUp, PoolClosed, PermitReturned, DropSlot, FreePermit,
     RunTools, NextCall, EndTurn, rowVars, poolVars
<1>12. CASE UNCHANGED vars
  BY <1>9, <1>12 DEF vars, rowVars, poolVars
<1> QED BY <1>4, <1>5, <1>6, <1>7, <1>8, <1>10, <1>11, <1>12 DEF Next, Configure, Limiting

\* However the sets of saves and endpoint builds are delayed and reordered,
\* once they have all run the limiter enforces the row's limit.
THEOREM LimiterFollowsRow == Spec => []LimitFollowsRow
<1>1. Init => RowInv
  <2> SUFFICES ASSUME Init PROVE RowInv
    OBVIOUS
  <2>1. row.version = 1 /\ pending = {} /\ limit = Unknown
    BY DEF Init
  <2>2. limit.version = 0
    BY <2>1 DEF Unknown
  <2> QED BY <2>1, <2>2 DEF RowInv
<1>2. RowInv => LimitFollowsRow
  BY DEF RowInv, LimitFollowsRow, Enforces
<1> QED
  BY <1>1, <1>2, RowInvStep, LimiterInductive, PTL DEF Spec

-----------------------------------------------------------------------------
(* Compaction: the numbers of a request.                                     *)

LEMMA MaxPair ==
    ASSUME NEW a \in Int, NEW b \in Int
    PROVE  Max({a, b}) \in {a, b} /\ Max({a, b}) >= a /\ Max({a, b}) >= b
<1>1. \E x \in {a, b} : \A y \in {a, b} : x >= y
  <2>1. CASE a >= b
    BY <2>1
  <2>2. CASE b >= a
    BY <2>2
  <2> QED BY <2>1, <2>2
<1> QED BY <1>1 DEF Max

LEMMA MinPair ==
    ASSUME NEW a \in Int, NEW b \in Int
    PROVE  Least(a, b) \in {a, b} /\ Least(a, b) <= a /\ Least(a, b) <= b
<1>1. \E x \in {a, b} : \A y \in {a, b} : x <= y
  <2>1. CASE a <= b
    BY <2>1
  <2>2. CASE b <= a
    BY <2>2
  <2> QED BY <2>1, <2>2
<1> QED BY <1>1 DEF Least, Min

LEMMA MinOfThree ==
    ASSUME NEW a \in Int, NEW b \in Int, NEW c \in Int
    PROVE  Min({a, b, c}) \in {a, b, c}
<1>1. \E x \in {a, b, c} : \A y \in {a, b, c} : x <= y
  <2>1. CASE a <= b /\ a <= c
    BY <2>1
  <2>2. CASE b <= a /\ b <= c
    BY <2>2
  <2>3. CASE c <= a /\ c <= b
    BY <2>3
  <2> QED BY <2>1, <2>2, <2>3
<1> QED BY <1>1 DEF Min

LEMMA AtLeast0Is ==
    ASSUME NEW n \in Int
    PROVE  /\ AtLeast0(n) \in Nat /\ AtLeast0(n) >= n
           /\ AtLeast0(n) > 0 => AtLeast0(n) = n
BY MaxPair DEF AtLeast0

\* What a request asks for has room after it, or is less than a useful reply.
LEMMA BudgetIs ==
    ASSUME NEW w \in Nat, NEW n \in Nat, NEW roomOnly \in BOOLEAN
    PROVE  LET b == BudgetFor(w, n, roomOnly)
           IN  /\ b.tokens \in Nat
               /\ roomOnly /\ b.tokens > 0 => b.tokens + n + COMPACTION_SAFETY_BUFFER <= w
               /\ roomOnly /\ w >= 2 /\ b.tokens = 0 =>
                    b.roomLeft /\ n + COMPACTION_SAFETY_BUFFER >= w
<1> DEFINE half == w \div 2
           room == AtLeast0(w - n - COMPACTION_SAFETY_BUFFER)
           x == Least(room, half)
           y == Least(MIN_REPLY_TOKENS, half)
           tokens == Max({x, y})
<1>1. half \in Nat /\ (w >= 2 => half > 0)
  OBVIOUS
<1>2. /\ room \in Nat /\ (room > 0 => room + n + COMPACTION_SAFETY_BUFFER = w)
      /\ room = 0 => n + COMPACTION_SAFETY_BUFFER >= w
  BY AtLeast0Is DEF COMPACTION_SAFETY_BUFFER
<1>3. x \in Nat /\ y \in Nat /\ (w >= 2 => y > 0)
  BY <1>1, <1>2, MinPair DEF MIN_REPLY_TOKENS
<1>4. tokens \in Nat /\ (w >= 2 => tokens > 0)
  <2> HIDE DEF x, y
  <2>1. tokens \in {x, y} /\ tokens >= y
    BY <1>3, MaxPair
  <2> HIDE DEF tokens
  <2>2. tokens \in Nat
    BY <1>3, <2>1
  <2> QED BY <1>3, <2>1, <2>2
<1>5. ReplyBudget(w, n) = [tokens |-> tokens, roomLeft |-> tokens # half]
  BY DEF ReplyBudget
<1>6. BudgetFor(w, n, roomOnly) = IF roomOnly /\ room < tokens THEN [tokens |-> room, roomLeft |-> TRUE]
                                  ELSE [tokens |-> tokens, roomLeft |-> tokens # half]
  BY <1>5 DEF BudgetFor
<1> HIDE DEF half, room, tokens
<1>7. CASE roomOnly /\ room < tokens
  BY <1>2, <1>6, <1>7
<1>8. CASE ~(roomOnly /\ room < tokens)
  <2> DEFINE left == tokens # half
             b == [tokens |-> tokens, roomLeft |-> left]
  <2>4. BudgetFor(w, n, roomOnly) = b
    BY <1>6, <1>8
  <2>5. b.tokens = tokens
    OBVIOUS
  <2>6. b.roomLeft = left
    <3> HIDE DEF left
    <3> QED OBVIOUS
  <2> HIDE DEF b
  <2>1. BudgetFor(w, n, roomOnly).tokens = tokens /\ (tokens # half => BudgetFor(w, n, roomOnly).roomLeft)
    BY <2>4, <2>5, <2>6
  <2>2. roomOnly /\ tokens > 0 => tokens + n + COMPACTION_SAFETY_BUFFER <= w
    BY <1>2, <1>4, <1>8 DEF COMPACTION_SAFETY_BUFFER
  <2>3. ~(w >= 2 /\ tokens = 0)
    BY <1>4
  <2> QED BY <1>4, <2>1, <2>2, <2>3
<1> QED BY <1>7, <1>8

-----------------------------------------------------------------------------
(* CompactionProgress: what each operation does to what was measured.        *)

\* The fields RoomInv is about are there.
LEMMA FieldsIn ==
    /\ {"window", "after", "guess", "tight", "awaiting", "tightResults", "atLimit", "stuck",
        "refusalCompactions", "compactForRoom", "roomRetried", "tryAnyway", "believing"}
       = DOMAIN Fresh(0)
    /\ {"at", "users", "window", "pending", "usage", "compacted", "retry", "hold", "under", "sized",
        "budget", "spent", "took"} = DOMAIN NoTurn
BY DEF Fresh, NoTurn

LEMMA FreshFits ==
    ASSUME NEW w \in Nat
    PROVE  /\ ProgressFits(Fresh(w)) /\ AfterFits(Fresh(w))
           /\ Fresh(w).window = w /\ Fresh(w).guess = 0 /\ Fresh(w).after = 0
BY DEF Fresh, ProgressFits, AfterFits

\* r says what q says of the window.
Same(r, q) == DOMAIN r = DOMAIN q /\ r.window = q.window /\ r.after = q.after /\ r.guess = q.guess

LEMMA SameFits ==
    ASSUME NEW q, NEW r, Same(r, q)
    PROVE  /\ ProgressFits(q) => ProgressFits(r)
           /\ AfterFits(q) => AfterFits(r)
BY DEF Same, ProgressFits, AfterFits

LEMMA ForgetMeasuresFits ==
    ASSUME NEW q, ProgressFits(q)
    PROVE  LET r == ForgetMeasures(q)
           IN  ProgressFits(r) /\ AfterFits(r) /\ r.window = q.window /\ r.guess = q.guess
<1> DEFINE a == [q EXCEPT !.after = 0, !.awaiting = FALSE, !.tight = FALSE]
           r == [a EXCEPT !.tightResults = 0, !.atLimit = 0]
<1>1. DOMAIN a = DOMAIN q /\ a.window = q.window /\ a.guess = q.guess /\ a.after = 0
  BY FieldsIn DEF ProgressFits
<1> HIDE DEF a
<1>2. DOMAIN r = DOMAIN a /\ r.window = a.window /\ r.guess = a.guess /\ r.after = a.after
  BY <1>1, FieldsIn DEF ProgressFits
<1>3. ForgetMeasures(q) = r
  BY DEF ForgetMeasures, a
<1> HIDE DEF r
<1> QED BY <1>1, <1>2, <1>3 DEF ProgressFits, AfterFits

LEMMA SyncFits ==
    ASSUME NEW q, ProgressFits(q), AfterFits(q), NEW w \in Nat
    PROVE  LET r == Sync(q, w)
           IN  /\ ProgressFits(r) /\ AfterFits(r)
               /\ w # 0 /\ r.guess = 0 => r.window = w
<1>1. CASE q.guess = w
  BY <1>1 DEF Sync
<1>2. CASE q.guess # w /\ q.window # w
  BY <1>2, FreshFits DEF Sync
<1>3. CASE q.guess # w /\ q.window = w /\ q.guess # 0
  <2> DEFINE a == [q EXCEPT !.guess = 0]
  <2>1. ProgressFits(a) /\ a.window = q.window /\ a.guess = 0
    BY FieldsIn DEF ProgressFits
  <2>2. Sync(q, w) = ForgetMeasures(a)
    BY <1>3 DEF Sync
  <2> HIDE DEF a
  <2> QED BY <1>3, <2>1, <2>2, ForgetMeasuresFits
<1>4. CASE q.guess # w /\ q.window = w /\ q.guess = 0
  BY <1>4 DEF Sync
<1> QED BY <1>1, <1>2, <1>3, <1>4

LEMMA GuessedFits ==
    ASSUME NEW q, ProgressFits(q), AfterFits(q), NEW w \in Nat, NEW g \in Nat
    PROVE  ProgressFits(Guessed(q, w, g)) /\ AfterFits(Guessed(q, w, g))
<1> DEFINE s == Sync(q, w)
           a == [s EXCEPT !.guess = g]
<1>1. ProgressFits(s)
  BY SyncFits
<1> HIDE DEF s
<1>2. ProgressFits(a)
  BY <1>1, FieldsIn DEF ProgressFits
<1>3. Guessed(q, w, g) = ForgetMeasures(a)
  BY DEF Guessed, s
<1> HIDE DEF a
<1> QED BY <1>2, <1>3, ForgetMeasuresFits

LEMMA CompactedFits ==
    ASSUME NEW q, ProgressFits(q), AfterFits(q), NEW w \in Nat
    PROVE  /\ ProgressFits(Compacted(q, w)) /\ AfterFits(Compacted(q, w))
           /\ ProgressFits(RefusalCompacted(q, w)) /\ AfterFits(RefusalCompacted(q, w))
<1> DEFINE s == Sync(q, w)
           c == [s EXCEPT !.awaiting = TRUE]
           r == [c EXCEPT !.refusalCompactions = @ + 1]
<1>1. ProgressFits(s) /\ AfterFits(s)
  BY SyncFits
<1> HIDE DEF s
<1>2. Same(c, s)
  BY <1>1, FieldsIn DEF Same, ProgressFits
<1>3. ProgressFits(c) /\ AfterFits(c)
  BY <1>1, <1>2, SameFits
<1> HIDE DEF c
<1>4. Same(r, c)
  BY <1>3, FieldsIn DEF Same, ProgressFits
<1>5. ProgressFits(r) /\ AfterFits(r)
  BY <1>3, <1>4, SameFits
<1> QED BY <1>3, <1>5 DEF Compacted, RefusalCompacted, c, s

\* The server's own count of a request is no less than what it always has.
LEMMA RefusedForFits ==
    ASSUME NEW q, ProgressFits(q), AfterFits(q), NEW n \in Nat, n = 0 \/ n >= fixed, fixed \in Nat
    PROVE  ProgressFits(RefusedFor(q, n)) /\ AfterFits(RefusedFor(q, n))
<1> DEFINE a == IF ~q.believing THEN q.after ELSE IF n = 0 THEN 0 ELSE Max({q.after, n})
           b == [q EXCEPT !.believing = FALSE]
           r == [b EXCEPT !.after = a]
<1>1. q.after \in Nat
  BY DEF ProgressFits
<1>2. a \in Nat /\ (a = q.after \/ a = 0 \/ a >= fixed)
  BY <1>1, MaxPair
<1>3. RefusedFor(q, n) = r
  BY DEF RefusedFor
<1> HIDE DEF a
<1>4. DOMAIN b = DOMAIN q /\ b.window = q.window /\ b.guess = q.guess /\ b.after = q.after
  BY FieldsIn DEF ProgressFits
<1> HIDE DEF b
<1>5. DOMAIN r = DOMAIN b /\ r.window = b.window /\ r.guess = b.guess /\ r.after = a
  BY <1>4, FieldsIn DEF ProgressFits
<1> HIDE DEF r
<1> QED BY <1>2, <1>3, <1>4, <1>5 DEF ProgressFits, AfterFits

LEMMA MeasuredFits ==
    ASSUME NEW q, ProgressFits(q), AfterFits(q), NEW n \in Nat, n >= fixed, fixed \in Nat, NEW w \in Nat
    PROVE  ProgressFits(Measured(q, n, w)) /\ AfterFits(Measured(q, n, w))
<1> DEFINE s == Sync(q, w)
           a == [s EXCEPT !.awaiting = FALSE]
           m == [a EXCEPT !.after = n]
<1>1. ProgressFits(s) /\ AfterFits(s)
  BY SyncFits
<1> HIDE DEF s
<1>2. DOMAIN a = DOMAIN s /\ a.window = s.window /\ a.guess = s.guess
  BY <1>1, FieldsIn DEF ProgressFits
<1> HIDE DEF a
<1>3. DOMAIN m = DOMAIN a /\ m.window = a.window /\ m.guess = a.guess /\ m.after = n
  BY <1>1, <1>2, FieldsIn DEF ProgressFits
<1> HIDE DEF m
<1>4. ProgressFits(m) /\ AfterFits(m)
  BY <1>1, <1>2, <1>3 DEF ProgressFits, AfterFits
<1>5. ASSUME NEW x, NEW y, NEW z
      PROVE  Same([m EXCEPT !.tightResults = x, !.tight = y, !.atLimit = z], m)
  BY <1>4, FieldsIn DEF Same, ProgressFits
<1>6. ASSUME NEW c, Same(c, m), NEW z
      PROVE  Same([c EXCEPT !.stuck = z], m)
  BY <1>4, <1>6, FieldsIn DEF Same, ProgressFits
<1>7. Measured(q, n, w) \in {s, m} \/ Same(Measured(q, n, w), m)
  <2> DEFINE close == n + SHORT_REPLY_TOKENS > Limit(w)
             c == [m EXCEPT !.tightResults = Least(@ + 1, TIGHT_RESULTS),
                            !.tight = @ \/ s.tightResults + 1 >= TIGHT_RESULTS,
                            !.atLimit = IF close THEN @ + 1 ELSE 0]
             d == [m EXCEPT !.tightResults = 0, !.tight = FALSE, !.atLimit = 0]
             e == [c EXCEPT !.stuck = @ \/ c.atLimit >= MAX_AT_LIMIT]
  <2>1. Same(c, m) /\ Same(d, m)
    BY <1>5
  <2> HIDE DEF c
  <2>2. Same(e, m)
    BY <1>6, <2>1
  <2> HIDE DEF d, e
  <2>3. Measured(q, n, w) \in {s, m, d, e}
    BY Zenon DEF Measured, s, m, a, c, d, e, close
  <2> QED BY <2>1, <2>2, <2>3
<1> QED BY <1>1, <1>4, <1>7, SameFits

LEMMA TooSmallFits ==
    ASSUME NEW q, ProgressFits(q), AfterFits(q), NEW w \in Nat
    PROVE  ProgressFits(TooSmall(q, w)) /\ AfterFits(TooSmall(q, w))
<1> DEFINE s == Sync(q, w)
<1>1. ProgressFits(s) /\ AfterFits(s)
  BY SyncFits
<1> HIDE DEF s
<1>2. Same([s EXCEPT !.stuck = TRUE], s)
  BY <1>1, FieldsIn DEF Same, ProgressFits
<1> QED BY <1>1, <1>2, SameFits DEF TooSmall, s

LEMMA UserWroteFits ==
    ASSUME NEW q, ProgressFits(q), AfterFits(q)
    PROVE  ProgressFits(UserWrote(q)) /\ AfterFits(UserWrote(q))
<1> DEFINE a(x) == [q EXCEPT !.tryAnyway = x, !.stuck = FALSE, !.roomRetried = FALSE]
           r(x, y, z) == [a(x) EXCEPT !.compactForRoom = FALSE, !.atLimit = y, !.refusalCompactions = z]
<1>1. ASSUME NEW x PROVE Same(a(x), q)
  BY FieldsIn DEF Same, ProgressFits
<1>2. ASSUME NEW x, NEW y, NEW z PROVE Same(r(x, y, z), a(x))
  <2> DEFINE b == a(x)
  <2>1. DOMAIN b = DOMAIN Fresh(0)
    BY <1>1 DEF Same, ProgressFits
  <2> HIDE DEF b
  <2>2. Same([b EXCEPT !.compactForRoom = FALSE, !.atLimit = y, !.refusalCompactions = z], b)
    BY <2>1, FieldsIn DEF Same
  <2> QED BY <2>2 DEF b
<1>3. \E x, y, z : UserWrote(q) = r(x, y, z)
  BY DEF UserWrote
<1> HIDE DEF a, r
<1> QED BY <1>1, <1>2, <1>3 DEF Same, ProgressFits, AfterFits

-----------------------------------------------------------------------------
(* The turn.                                                                 *)

LEMMA Sizes ==
    ASSUME RoomInv
    PROVE  /\ Real \in Nat /\ Real >= fixed /\ fixed \in Nat /\ history \in Nat
           /\ Estimate(Real) \in Nat /\ Estimate(Real) + COMPACTION_SAFETY_BUFFER >= Real
           /\ server.window \in Nat /\ server.window > COMPACTION_SAFETY_BUFFER + MIN_USEFUL_REPLY
           /\ Believed \in Nat /\ Believed # 0
<1>1. Real \in Nat /\ Real >= fixed /\ fixed \in Nat /\ history \in Nat
  BY DEF RoomInv, WorldFits, Real
<1>2. skew \in Int /\ -skew <= COMPACTION_SAFETY_BUFFER
  BY RoomAssumption DEF RoomInv, WorldFits
<1>3. Estimate(Real) \in Nat /\ Estimate(Real) + COMPACTION_SAFETY_BUFFER >= Real
  BY <1>1, <1>2, AtLeast0Is DEF Estimate, COMPACTION_SAFETY_BUFFER
<1>4. server.window \in Servers
  BY DEF RoomInv, WorldFits
<1>5. Believed \in Nat /\ Believed # 0
  BY DEF RoomInv, WorldFits, Believed
<1> QED BY <1>1, <1>3, <1>4, <1>5, RoomAssumption

\* What a turn's step leaves alone.
Outside == <<own, reported, server, skew, fixed, edits>>

\* A step of a turn that makes no call.
LEMMA NoCall ==
    ASSUME RoomInv, UNCHANGED Outside,
           learned' \in Nat, history' \in Nat, unanswered' \in 0..QUOTE_MAX, usage' \in Nat,
           ProgressFits(progress'), AfterFits(progress'),
           DOMAIN turn' = DOMAIN NoTurn,
           {turn'.window, turn'.pending, turn'.usage, turn'.under} \subseteq Nat,
           turn'.at \in {"step", "compact", "build"} => turn'.window # 0,
           turn'.at # "call",
           turn'.at = "build" /\ turn'.compacted =>
             turn'.usage = 0 /\ history' <= COMPACTION_SAFETY_BUFFER
    PROVE  RoomInv'
<1>1. WorldFits'
  BY DEF Outside, RoomInv, WorldFits
<1>2. TurnFits'
  BY DEF TurnFits
<1>3. AfterFits(progress)' /\ ProgressFits(progress)'
  BY DEF Outside, AfterFits, ProgressFits
<1>4. RoomIsKept'
  BY DEF RoomIsKept
<1> QED BY <1>1, <1>2, <1>3, <1>4 DEF RoomInv

LEMMA NoTurnIs ==
    /\ NoTurn.at = "idle" /\ NoTurn.compacted = FALSE
    /\ NoTurn.window = 0 /\ NoTurn.pending = 0 /\ NoTurn.usage = 0 /\ NoTurn.under = 0
BY DEF NoTurn

\* A turn ends, and leaves the history as it is.
LEMMA TurnEnds ==
    ASSUME RoomInv, UNCHANGED Outside, UNCHANGED <<history, unanswered, usage>>,
           learned' \in Nat, ProgressFits(progress'), AfterFits(progress'),
           \/ turn' = NoTurn
           \/ \E u, k : turn' = [NoTurn EXCEPT !.at = "failed", !.users = u, !.took = k, !.spent = TRUE]
           \/ turn' = [turn EXCEPT !.at = "failed", !.spent = TRUE]
    PROVE  RoomInv'
<1>1. history' \in Nat /\ unanswered' \in 0..QUOTE_MAX /\ usage' \in Nat
  BY DEF RoomInv, WorldFits
<1>2. /\ DOMAIN turn' = DOMAIN NoTurn
      /\ {turn'.window, turn'.pending, turn'.usage, turn'.under} \subseteq Nat
      /\ turn'.at \in {"idle", "failed"}
  <2>1. CASE turn' = NoTurn
    BY <2>1, NoTurnIs
  <2>2. CASE \E u, k : turn' = [NoTurn EXCEPT !.at = "failed", !.users = u, !.took = k, !.spent = TRUE]
    <3>1. ASSUME NEW u, NEW k,
                 turn' = [NoTurn EXCEPT !.at = "failed", !.users = u, !.took = k, !.spent = TRUE]
          PROVE  /\ DOMAIN turn' = DOMAIN NoTurn /\ turn'.at = "failed"
                 /\ turn'.window = 0 /\ turn'.pending = 0 /\ turn'.usage = 0 /\ turn'.under = 0
      BY <3>1, NoTurnIs, FieldsIn
    <3>2. /\ DOMAIN turn' = DOMAIN NoTurn /\ turn'.at = "failed"
          /\ turn'.window = 0 /\ turn'.pending = 0 /\ turn'.usage = 0 /\ turn'.under = 0
      BY <2>2, <3>1
    <3> DEFINE z == 0
    <3>3. turn'.window = z /\ turn'.pending = z /\ turn'.usage = z /\ turn'.under = z /\ z \in Nat
      BY <3>2
    <3> HIDE DEF z
    <3> QED BY <3>2, <3>3
  <2>3. CASE turn' = [turn EXCEPT !.at = "failed", !.spent = TRUE]
    BY <2>3, FieldsIn DEF RoomInv, TurnFits
  <2> QED BY <2>1, <2>2, <2>3
<1> QED BY <1>1, <1>2, NoCall

LEMMA ProgressIs ==
    ASSUME RoomInv
    PROVE  /\ ProgressFits(progress) /\ AfterFits(progress)
           /\ turn.window \in Nat
           /\ turn.at \in {"step", "compact", "build", "call"} => turn.window # 0
           /\ DOMAIN turn = DOMAIN NoTurn
           /\ learned \in Nat /\ history \in Nat /\ unanswered \in 0..QUOTE_MAX /\ usage \in Nat
           /\ {turn.window, turn.pending, turn.usage, turn.under} \subseteq Nat
BY DEF RoomInv, TurnFits, WorldFits

LEMMA BeginKeeps ==
    ASSUME RoomInv, NEW users, NEW size \in Nat, Begin(users, size)
    PROVE  RoomInv'
<1>1. ProgressFits(progress') /\ AfterFits(progress')
  BY ProgressIs, UserWroteFits DEF Begin
<1>2. history' \in Nat /\ usage' \in Nat /\ learned' \in Nat /\ UNCHANGED Outside
  BY ProgressIs DEF Begin, world, Outside
<1>3. unanswered' \in 0..QUOTE_MAX
  BY ProgressIs, MinPair DEF Begin, QUOTE_MAX
<1>4. /\ DOMAIN turn' = DOMAIN NoTurn /\ turn'.at = "step" /\ turn'.window = Believed
      /\ turn'.pending = size /\ turn'.usage = usage /\ turn'.under = 0
  BY NoTurnIs, FieldsIn DEF Begin
<1> QED BY <1>1, <1>2, <1>3, <1>4, Sizes, ProgressIs, NoCall

LEMMA StepKeeps == ASSUME RoomInv, Step PROVE RoomInv'
<1> DEFINE q == Sync(progress, turn.window)
           r == [q EXCEPT !.compactForRoom = FALSE]
<1>1. ProgressFits(q) /\ AfterFits(q)
  BY ProgressIs, SyncFits
<1>2. progress' \in {q, r}
  BY DEF Step
<1>3. /\ turn.at = "step" /\ UNCHANGED <<world, history, unanswered, usage, edits>>
      /\ \/ turn' = NoTurn
         \/ \E a \in {"compact", "build"} : turn' = [turn EXCEPT !.at = a, !.compacted = FALSE]
  BY Zenon DEF Step, Ends
<1> HIDE DEF q
<1>4. Same(r, q)
  BY <1>1, FieldsIn DEF Same, ProgressFits
<1>5. ProgressFits(progress') /\ AfterFits(progress')
  BY <1>1, <1>2, <1>4, SameFits
<1>6. CASE turn' = NoTurn
  BY <1>3, <1>5, <1>6, ProgressIs, TurnEnds DEF world, Outside
<1>7. ASSUME NEW a \in {"compact", "build"}, turn' = [turn EXCEPT !.at = a, !.compacted = FALSE]
      PROVE  RoomInv'
  <2>1. /\ DOMAIN turn' = DOMAIN NoTurn /\ turn'.at = a /\ turn'.window = turn.window
        /\ turn'.pending = turn.pending /\ turn'.usage = turn.usage /\ turn'.under = turn.under
        /\ turn'.compacted = FALSE
    BY <1>7, ProgressIs, FieldsIn
  <2> QED BY <1>3, <1>5, <2>1, ProgressIs, NoCall DEF world, Outside
<1> QED BY <1>3, <1>6, <1>7

LEMMA LearnedIs ==
    ASSUME RoomInv, NEW w \in Nat
    PROVE  Learned(w) \in Nat
BY ProgressIs DEF Learned

\* A compaction leaves a history that fits in the buffer.
LEMMA SummaryKeeps ==
    ASSUME RoomInv, NEW s \in Summaries, NEW w \in Nat \ {0}, Summary(s, w), learned' \in Nat
    PROVE  RoomInv'
<1>1. s \in Nat /\ s + QUOTE_MAX <= COMPACTION_SAFETY_BUFFER
  BY RoomAssumption
<1>2. history' \in Nat /\ history' <= COMPACTION_SAFETY_BUFFER
  BY <1>1, ProgressIs DEF Summary, QUOTE_MAX, COMPACTION_SAFETY_BUFFER
<1>3. usage' \in Nat /\ unanswered' \in 0..QUOTE_MAX /\ UNCHANGED Outside
  BY ProgressIs DEF Summary, Outside
<1>4. ProgressFits(progress') /\ AfterFits(progress')
  BY ProgressIs, CompactedFits DEF Summary
<1>5. /\ DOMAIN turn' = DOMAIN NoTurn /\ turn'.at = "build" /\ turn'.window = w
      /\ turn'.pending = turn.pending /\ turn'.usage = 0 /\ turn'.under = turn.under
  BY ProgressIs, FieldsIn DEF Summary
<1> QED BY <1>2, <1>3, <1>4, <1>5, ProgressIs, NoCall

LEMMA CompactKeeps == ASSUME RoomInv, NEW s \in Summaries, Compact(s) PROVE RoomInv'
BY ProgressIs, SummaryKeeps DEF Compact

LEMMA CompactAgainKeeps == ASSUME RoomInv, NEW s \in Summaries, CompactAgain(s) PROVE RoomInv'
<1>1. turn.window \in Nat \ {0} /\ server.window \in Nat \ {0}
  BY ProgressIs, Sizes DEF CompactAgain, COMPACTION_SAFETY_BUFFER, MIN_USEFUL_REPLY
<1>2. Least(turn.window, server.window) \in Nat \ {0}
  BY <1>1, MinPair
<1>3. Learned(server.window) \in Nat /\ learned \in Nat
  BY <1>1, LearnedIs, ProgressIs
<1> QED BY <1>1, <1>2, <1>3, SummaryKeeps DEF CompactAgain

LEMMA CompactFailsKeeps == ASSUME RoomInv, CompactFails PROVE RoomInv'
<1>1. \E u, k : turn' = [NoTurn EXCEPT !.at = "failed", !.users = u, !.took = k, !.spent = TRUE]
  BY DEF CompactFails
<1>2. UNCHANGED <<world, history, unanswered, usage, progress, edits>>
  BY DEF CompactFails
<1> QED BY <1>1, <1>2, ProgressIs, TurnEnds DEF world, Outside

LEMMA FailsKeeps == ASSUME RoomInv, Fails PROVE RoomInv'
BY ProgressIs, TurnEnds DEF Fails, Ends, world, Outside

LEMMA CallFailsKeeps == ASSUME RoomInv, CallFails PROVE RoomInv'
BY ProgressIs, TurnEnds DEF CallFails, Ends, world, Outside

LEMMA SaidIs ==
    ASSUME RoomInv
    PROVE  Said \in Nat /\ (Said = 0 \/ Said >= fixed)
BY Sizes DEF Said

LEMMA RefuseOutKeeps == ASSUME RoomInv, RefuseOut PROVE RoomInv'
<1> DEFINE q == Sync(progress, turn.window)
<1>1. ProgressFits(q) /\ AfterFits(q)
  BY ProgressIs, SyncFits
<1>2. progress' = [q EXCEPT !.stuck = TRUE]
  BY DEF RefuseOut
<1> HIDE DEF q
<1>3. Same(progress', q)
  BY <1>1, <1>2, FieldsIn DEF Same, ProgressFits
<1>4. turn' = [turn EXCEPT !.at = "failed", !.spent = TRUE]
      /\ UNCHANGED <<world, history, unanswered, usage, edits>>
  BY DEF RefuseOut
<1> QED BY <1>1, <1>3, <1>4, SameFits, ProgressIs, TurnEnds DEF world, Outside

LEMMA RetryRefusedKeeps == ASSUME RoomInv, RetryRefused PROVE RoomInv'
<1>1. ProgressFits(progress') /\ AfterFits(progress')
  BY ProgressIs, SaidIs, Sizes, RefusedForFits DEF RetryRefused
<1>2. learned' \in Nat
  BY ProgressIs, Sizes, LearnedIs DEF RetryRefused
<1>3. turn' = [turn EXCEPT !.at = "failed", !.spent = TRUE]
      /\ UNCHANGED <<own, reported, server, skew, fixed, history, unanswered, usage, edits>>
  BY DEF RetryRefused
<1> QED BY <1>1, <1>2, <1>3, TurnEnds DEF Outside

LEMMA RecoverKeeps == ASSUME RoomInv, Recover PROVE RoomInv'
<1> DEFINE s == Sync(progress, turn.window)
           q == RefusedFor(s, Said)
           w == IF Names THEN Least(turn.window, server.window) ELSE turn.window
           input == IF Names THEN Real ELSE Estimate(Real)
           guess == (3 * input) \div 4
           guesses == ~Names /\ guess < w
           tooSmall == Names /\ Estimate(fixed) + MIN_USEFUL_REPLY > w
           compacts == ~Names \/ input + MIN_REPLY_TOKENS + COMPACTION_SAFETY_BUFFER > w
           sum == Max({Projected(turn.usage, turn.pending), input})
           under == AtLeast0(Said - Estimate(Real))
           t == [turn EXCEPT !.at = IF compacts THEN "compact" ELSE "build",
                             !.window = IF guesses THEN guess ELSE w,
                             !.usage = IF compacts THEN 0 ELSE sum,
                             !.pending = 0, !.compacted = FALSE, !.retry = TRUE,
                             !.hold = Names, !.spent = TRUE,
                             !.under = under]
<1>1. /\ turn.at = "call" /\ OverServer(Real, turn.budget.tokens)
      /\ learned' = IF Names THEN Learned(server.window) ELSE learned
      /\ progress' \in {TooSmall(q, w), Guessed(q, w, guess), q}
      /\ UNCHANGED <<own, reported, server, skew, fixed, history, unanswered, usage, edits>>
  BY Zenon DEF Recover
<1>2. \/ turn' = [NoTurn EXCEPT !.at = "failed", !.users = turn.users, !.took = turn.took, !.spent = TRUE]
      \/ turn' = t
  BY Zenon DEF Recover
<1>3. turn.window \in Nat \ {0} /\ server.window \in Nat \ {0}
  BY <1>1, ProgressIs, Sizes DEF COMPACTION_SAFETY_BUFFER, MIN_USEFUL_REPLY
<1>4. w \in Nat \ {0}
  BY <1>3, MinPair
<1>5. input \in Nat
  BY Sizes
<1>6. guess \in Nat
  BY <1>5
<1>7. ~Names => guess # 0
  <2>1. ~Names => Real > server.window
    BY <1>1 DEF OverServer, Names
  <2>2. ~Names => input >= 2
    BY <2>1, Sizes DEF COMPACTION_SAFETY_BUFFER, MIN_USEFUL_REPLY
  <2> QED BY <1>5, <2>2
<1>8. sum \in Nat /\ under \in Nat
  <2>1. Projected(turn.usage, turn.pending) \in Nat
    BY ProgressIs DEF Projected
  <2>2. sum \in Nat
    <3> HIDE DEF input
    <3> QED BY <1>5, <2>1, MaxPair
  <2>3. Said - Estimate(Real) \in Int
    BY SaidIs, Sizes
  <2>4. under \in Nat
    BY <2>3, AtLeast0Is
  <2> QED BY <2>2, <2>4
<1>9. ProgressFits(s) /\ AfterFits(s)
  BY ProgressIs, SyncFits
<1>10. ProgressFits(q) /\ AfterFits(q)
  <2> HIDE DEF s
  <2> QED BY <1>9, SaidIs, Sizes, RefusedForFits
<1>11. ProgressFits(progress') /\ AfterFits(progress')
  <2> HIDE DEF q, w, guess
  <2> QED BY <1>1, <1>4, <1>6, <1>10, TooSmallFits, GuessedFits
<1>12. learned' \in Nat
  BY <1>1, <1>3, LearnedIs, ProgressIs
<1>13. CASE turn' = [NoTurn EXCEPT !.at = "failed", !.users = turn.users, !.took = turn.took, !.spent = TRUE]
  BY <1>1, <1>11, <1>12, <1>13, TurnEnds DEF Outside
<1>14. CASE turn' = t
  <2> DEFINE win == IF guesses THEN guess ELSE w
             at == IF compacts THEN "compact" ELSE "build"
             use == IF compacts THEN 0 ELSE sum
  <2>1. win \in Nat \ {0} /\ at \in {"compact", "build"} /\ use \in Nat
    BY <1>4, <1>6, <1>7, <1>8
  <2> HIDE DEF win, at, use, under
  <2>2. turn' = [turn EXCEPT !.at = at, !.window = win, !.usage = use, !.pending = 0,
                   !.compacted = FALSE, !.retry = TRUE, !.hold = Names, !.spent = TRUE, !.under = under]
    BY <1>14 DEF win, at, use
  <2> DEFINE a == [turn EXCEPT !.at = at, !.window = win, !.usage = use, !.pending = 0]
  <2>3. DOMAIN a = DOMAIN NoTurn /\ a.at = at /\ a.window = win /\ a.usage = use /\ a.pending = 0
    BY ProgressIs, FieldsIn
  <2>4. turn' = [a EXCEPT !.compacted = FALSE, !.retry = TRUE, !.hold = Names, !.spent = TRUE, !.under = under]
    BY <2>2
  <2> HIDE DEF a
  <2>5. DOMAIN turn' = DOMAIN a /\ turn'.at = a.at /\ turn'.window = a.window
    BY <2>3, <2>4, FieldsIn
  <2>6. turn'.usage = a.usage /\ turn'.pending = a.pending /\ turn'.under = under /\ turn'.compacted = FALSE
    BY <2>3, <2>4, FieldsIn
  <2> HIDE DEF t
  <2>7. UNCHANGED Outside /\ UNCHANGED <<history, unanswered, usage>>
    BY <1>1 DEF Outside
  <2> QED BY <1>8, <1>11, <1>12, <2>1, <2>3, <2>5, <2>6, <2>7, ProgressIs, NoCall
<1> QED BY <1>2, <1>13, <1>14

LEMMA ReplyKeeps ==
    ASSUME RoomInv, NEW wants \in Wants, NEW results \in Results \cup {0}, Reply(wants, results)
    PROVE  RoomInv'
<1> DEFINE written == Min({wants, turn.budget.tokens, server.window - Real})
           taken == IF turn.retry THEN RetryTaken(progress) ELSE StepTaken(progress)
           m == Measured(taken, Real, turn.window)
           n == [m EXCEPT !.roomRetried = FALSE]
<1>1. /\ turn.at = "call" /\ ~OverServer(Real, turn.budget.tokens)
      /\ \/ progress' \in {m, n}
         \/ \E q \in {m, n} : progress' = [q EXCEPT !.compactForRoom = TRUE, !.roomRetried = TRUE]
      /\ usage' = Real + written
      /\ learned' \in {0, learned}
      /\ history' = history + written + results
      /\ unanswered' = 0
      /\ UNCHANGED <<own, reported, server, skew, fixed, edits>>
  BY Zenon DEF Reply
<1>2. \/ turn' = NoTurn
      \/ \E users : turn' = [NoTurn EXCEPT !.at = "step", !.users = users, !.window = turn.window,
                              !.pending = results, !.usage = usage', !.took = TRUE]
  BY Zenon DEF Reply
<1>3. written \in Nat
  <2>1. turn.budget.tokens \in Nat
    BY <1>1 DEF RoomInv, TurnFits
  <2>2. server.window - Real \in Nat
    BY <1>1, Sizes DEF OverServer
  <2> QED BY <2>1, <2>2, MinOfThree, RoomAssumption
<1>4. Same(taken, progress)
  <2>1. Same([progress EXCEPT !.tryAnyway = FALSE, !.believing = FALSE], progress)
    BY ProgressIs, FieldsIn DEF Same, ProgressFits
  <2>2. Same([progress EXCEPT !.refusalCompactions = 0, !.tryAnyway = FALSE, !.believing = FALSE], progress)
    BY ProgressIs, FieldsIn DEF Same, ProgressFits
  <2> QED BY <2>1, <2>2 DEF RetryTaken, StepTaken
<1>5. ProgressFits(taken) /\ AfterFits(taken)
  BY <1>4, ProgressIs, SameFits
<1>6. ProgressFits(m) /\ AfterFits(m)
  <2> HIDE DEF taken
  <2> QED BY <1>5, Sizes, ProgressIs, MeasuredFits
<1> HIDE DEF written, m
<1>7. Same(n, m)
  BY <1>6, FieldsIn DEF Same, ProgressFits
<1> HIDE DEF n
<1>8. ProgressFits(n) /\ AfterFits(n)
  BY <1>6, <1>7, SameFits
<1>9. ASSUME NEW q \in {m, n}
      PROVE  Same([q EXCEPT !.compactForRoom = TRUE, !.roomRetried = TRUE], q)
  BY <1>6, <1>8, FieldsIn DEF Same, ProgressFits
<1>10. ProgressFits(progress') /\ AfterFits(progress')
  BY <1>1, <1>6, <1>8, <1>9, SameFits
<1>11. results \in Nat
  BY RoomAssumption
<1>12. history' \in Nat /\ usage' \in Nat /\ unanswered' \in 0..QUOTE_MAX /\ learned' \in Nat
       /\ UNCHANGED Outside
  BY <1>1, <1>3, <1>11, Sizes, ProgressIs DEF QUOTE_MAX, Outside
<1>13. /\ DOMAIN turn' = DOMAIN NoTurn
       /\ {turn'.window, turn'.pending, turn'.usage, turn'.under} \subseteq Nat
       /\ turn'.at = "idle" \/ (turn'.at = "step" /\ turn'.window = turn.window)
  <2>1. CASE turn' = NoTurn
    BY <2>1, NoTurnIs
  <2>2. ASSUME NEW users, turn' = [NoTurn EXCEPT !.at = "step", !.users = users, !.window = turn.window,
                              !.pending = results, !.usage = usage', !.took = TRUE]
        PROVE  /\ DOMAIN turn' = DOMAIN NoTurn
               /\ turn'.at = "step" /\ turn'.window = turn.window
               /\ turn'.pending = results /\ turn'.usage = usage' /\ turn'.under = 0
    BY <2>2, NoTurnIs, FieldsIn
  <2>3. turn' = NoTurn \/ (/\ DOMAIN turn' = DOMAIN NoTurn
                            /\ turn'.at = "step" /\ turn'.window = turn.window
                            /\ turn'.pending = results /\ turn'.usage = usage' /\ turn'.under = 0)
    BY <1>2, <2>2
  <2>4. CASE turn' # NoTurn
    <3>1. {turn'.window, turn'.pending, turn'.usage, turn'.under} \subseteq Nat
      BY <1>11, <1>12, <2>3, <2>4, ProgressIs
    <3> QED BY <2>3, <2>4, <3>1
  <2> QED BY <2>1, <2>4
<1> QED BY <1>1, <1>10, <1>12, <1>13, ProgressIs, NoCall

LEMMA EditKeeps == ASSUME RoomInv, Edit PROVE RoomInv'
<1>1. /\ turn.at = "idle" /\ edits' = edits + 1
      /\ UNCHANGED <<reported, skew, history, unanswered, usage, progress, turn>>
      /\ \/ \E f \in Fixeds \ {fixed} : fixed' = f /\ UNCHANGED <<own, server, learned>>
         \/ \E w \in Own \ {own} : own' = w /\ UNCHANGED <<fixed, server, learned>>
         \/ \E w \in Servers \ {server.window} :
              server' = [server EXCEPT !.window = w] /\ UNCHANGED <<fixed, own, learned>>
         \/ learned # 0 /\ learned' = 0 /\ UNCHANGED <<fixed, own, server>>
  BY DEF Edit
<1>2. own' \in Nat /\ fixed' \in Nat /\ learned' \in Nat /\ server' \in [window : Servers, kind : Kinds]
  BY <1>1, RoomAssumption DEF RoomInv, WorldFits
<1>3. edits' \in Nat /\ edits' # 0
  BY <1>1 DEF RoomInv, WorldFits
<1>4. WorldFits'
  BY <1>1, <1>2, <1>3 DEF RoomInv, WorldFits
<1>5. TurnFits' /\ RoomIsKept' /\ ProgressFits(progress)'
  BY <1>1 DEF RoomInv, TurnFits, RoomIsKept, ProgressFits
<1>6. AfterFits(progress)'
  BY <1>3 DEF AfterFits
<1> QED BY <1>4, <1>5, <1>6 DEF RoomInv

\* A compacted request that leaves no useful room: what is noted of its size.
LEMMA FloorFiredFits ==
    ASSUME NEW q, ProgressFits(q), AfterFits(q), NEW w \in Nat, NEW size \in Nat,
           FloorAnswer(q, w) = "noRoom" /\ q.guess = 0 =>
             q.window = w /\ size + COMPACTION_SAFETY_BUFFER + MIN_USEFUL_REPLY > w
    PROVE  LET r == FloorFired(q, w, size)
           IN  ProgressFits(r) /\ AfterFits(r) /\ r.tight = q.tight /\ r.guess = q.guess
<1> DEFINE believing == [q EXCEPT !.believing = TRUE]
           trying == [q EXCEPT !.tryAnyway = FALSE]
           a == IF q.after = 0 THEN size ELSE q.after
           noted == [q EXCEPT !.after = a, !.stuck = TRUE]
<1>1. Same(believing, q) /\ believing.tight = q.tight /\ Same(trying, q) /\ trying.tight = q.tight
  BY FieldsIn DEF Same, ProgressFits
<1>2. a \in Nat /\ (q.after # 0 => a = q.after) /\ (q.after = 0 => a = size)
  BY DEF ProgressFits
<1> HIDE DEF a
<1>3. /\ DOMAIN noted = DOMAIN q /\ noted.window = q.window /\ noted.after = a
      /\ noted.guess = q.guess /\ noted.tight = q.tight
  BY FieldsIn DEF ProgressFits
<1>4. /\ FloorAnswer(q, w) \in {"believe", "try", "noRoom"}
      /\ FloorAnswer(q, w) = "believe" => FloorFired(q, w, size) = believing
      /\ FloorAnswer(q, w) = "try" => FloorFired(q, w, size) = trying
      /\ FloorAnswer(q, w) = "noRoom" => FloorFired(q, w, size) = noted
  BY DEF FloorAnswer, FloorFired, a
<1> HIDE DEF believing, trying, noted
<1>5. CASE FloorAnswer(q, w) = "believe"
  BY <1>1, <1>4, <1>5, SameFits DEF Same
<1>6. CASE FloorAnswer(q, w) = "try"
  BY <1>1, <1>4, <1>6, SameFits DEF Same
<1>7. CASE FloorAnswer(q, w) = "noRoom"
  <2>1. ProgressFits(noted)
    BY <1>2, <1>3 DEF ProgressFits
  <2>2. AfterFits(noted)
    BY <1>2, <1>3, <1>7 DEF AfterFits
  <2> QED BY <1>3, <1>4, <1>7, <2>1, <2>2
<1> QED BY <1>4, <1>5, <1>6, <1>7

\* Where RoomIsKept is decided: the request that goes out asks for a reply
\* that fits after what the server will count.
LEMMA BuildKeeps == ASSUME RoomInv, Build PROVE RoomInv'
<1> DEFINE q == Sync(progress, turn.window)
           roomOnly == RoomOnly(q) \/ turn.hold
           size == Estimate(Real) + turn.under
           projected == IF turn.usage = 0 THEN size ELSE turn.usage + turn.pending
           budget == BudgetFor(turn.window, projected, roomOnly)
           underTheFloor == roomOnly /\ budget.roomLeft /\ budget.tokens < MIN_USEFUL_REPLY
           answer == FloorAnswer(q, turn.window)
           believed == BudgetFor(turn.window, q.after, TRUE)
           useful == [tokens |-> MIN_USEFUL_REPLY, roomLeft |-> TRUE]
           fired == FloorFired(q, turn.window, size)
<1>1. turn.at = "build" /\ UNCHANGED <<world, history, unanswered, usage, edits, unsummed>>
  BY DEF Build
<1>2. \/ /\ underTheFloor /\ ~turn.compacted
         /\ progress' = q /\ turn' = [turn EXCEPT !.at = "compact"]
      \/ /\ underTheFloor /\ turn.compacted /\ answer = "noRoom"
         /\ progress' = fired /\ turn' = NoTurn
      \/ \E sent, sized :
           /\ turn' = [turn EXCEPT !.at = "call", !.budget = sent, !.sized = sized]
           /\ \/ ~underTheFloor /\ progress' = q /\ sent = budget
              \/ /\ underTheFloor /\ turn.compacted /\ answer # "noRoom" /\ progress' = fired
                 /\ \/ answer = "believe" /\ sent = believed
                    \/ sent = useful
  BY Zenon DEF Build, Ends
<1>3. /\ turn.window \in Nat /\ turn.window # 0 /\ turn.usage \in Nat /\ turn.pending \in Nat /\ turn.under \in Nat
      /\ DOMAIN turn = DOMAIN NoTurn
      /\ turn.compacted => turn.usage = 0 /\ history <= COMPACTION_SAFETY_BUFFER
  BY <1>1 DEF RoomInv, TurnFits
<1>4. ProgressFits(q) /\ AfterFits(q) /\ (q.guess = 0 => q.window = turn.window)
  BY <1>3, ProgressIs, SyncFits
<1>5. size \in Nat /\ size + COMPACTION_SAFETY_BUFFER >= Real
  BY <1>3, Sizes DEF COMPACTION_SAFETY_BUFFER
<1>6. /\ projected \in Nat
      /\ turn.usage = 0 => projected = size
      /\ turn.usage # 0 => projected = turn.usage + turn.pending
  BY <1>3, <1>5
<1>7. roomOnly \in BOOLEAN
  OBVIOUS
<1>8. /\ budget.tokens \in Nat
      /\ roomOnly /\ budget.tokens > 0 => budget.tokens + projected + COMPACTION_SAFETY_BUFFER <= turn.window
      /\ roomOnly /\ turn.window >= 2 /\ budget.tokens = 0 =>
           budget.roomLeft /\ projected + COMPACTION_SAFETY_BUFFER >= turn.window
  <2> HIDE DEF roomOnly, projected
  <2> QED BY <1>3, <1>6, <1>7, BudgetIs
<1>9. /\ believed.tokens \in Nat
      /\ believed.tokens > 0 => believed.tokens + q.after + COMPACTION_SAFETY_BUFFER <= turn.window
      /\ turn.window >= 2 /\ believed.tokens = 0 => q.after + COMPACTION_SAFETY_BUFFER >= turn.window
  <2>1. q.after \in Nat
    BY <1>4 DEF ProgressFits
  <2> HIDE DEF q
  <2> QED BY <1>3, <2>1, BudgetIs
<1>10. useful.tokens = MIN_USEFUL_REPLY /\ useful.tokens \in Nat /\ useful.roomLeft = TRUE
  BY DEF MIN_USEFUL_REPLY
<1>11. RoomOnly(q) => roomOnly
  OBVIOUS
<1> HIDE DEF q, size, projected, budget, believed, useful, roomOnly
<1>12. underTheFloor /\ turn.compacted =>
         /\ ProgressFits(fired) /\ AfterFits(fired)
         /\ fired.tight = q.tight /\ fired.guess = q.guess
  <2> SUFFICES ASSUME underTheFloor, turn.compacted
               PROVE  /\ ProgressFits(fired) /\ AfterFits(fired)
                      /\ fired.tight = q.tight /\ fired.guess = q.guess
    OBVIOUS
  <2>1. budget.tokens = 0 /\ projected = size /\ roomOnly
    BY <1>3, <1>6, <1>8 DEF MIN_USEFUL_REPLY
  <2>2. size + COMPACTION_SAFETY_BUFFER + MIN_USEFUL_REPLY > turn.window
    BY <1>3, <1>5, <1>8, <2>1 DEF COMPACTION_SAFETY_BUFFER, MIN_USEFUL_REPLY
  <2> QED BY <1>3, <1>4, <1>5, <2>2, FloorFiredFits
<1> HIDE DEF fired
<1>13. ProgressFits(progress') /\ AfterFits(progress')
  BY <1>2, <1>4, <1>12
<1>14. UNCHANGED Outside /\ UNCHANGED <<learned, history, unanswered, usage>>
  BY <1>1 DEF world, Outside
<1>15. CASE /\ underTheFloor /\ ~turn.compacted
            /\ progress' = q /\ turn' = [turn EXCEPT !.at = "compact"]
  <2>1. /\ DOMAIN turn' = DOMAIN NoTurn /\ turn'.at = "compact" /\ turn'.window = turn.window
        /\ turn'.pending = turn.pending /\ turn'.usage = turn.usage /\ turn'.under = turn.under
    BY <1>3, <1>15, FieldsIn
  <2> QED BY <1>3, <1>13, <1>14, <2>1, ProgressIs, NoCall
<1>16. CASE /\ underTheFloor /\ turn.compacted /\ answer = "noRoom"
            /\ progress' = fired /\ turn' = NoTurn
  BY <1>13, <1>14, <1>16, ProgressIs, TurnEnds
<1>17. ASSUME NEW sent, NEW sized,
              turn' = [turn EXCEPT !.at = "call", !.budget = sent, !.sized = sized],
              \/ ~underTheFloor /\ progress' = q /\ sent = budget
              \/ /\ underTheFloor /\ turn.compacted /\ answer # "noRoom" /\ progress' = fired
                 /\ \/ answer = "believe" /\ sent = believed
                    \/ sent = useful
       PROVE  RoomInv'
  <2>1. /\ DOMAIN turn' = DOMAIN NoTurn /\ turn'.at = "call" /\ turn'.window = turn.window
        /\ turn'.pending = turn.pending /\ turn'.usage = turn.usage /\ turn'.under = turn.under
        /\ turn'.budget = sent /\ turn'.compacted = turn.compacted
    BY <1>3, <1>17, FieldsIn
  <2>2. sent.tokens \in Nat
    BY <1>8, <1>9, <1>10, <1>17
  <2>3. WorldFits'
    BY <1>14 DEF Outside, RoomInv, WorldFits
  <2>4. TurnFits'
    BY <1>3, <1>14, <2>1, <2>2 DEF TurnFits
  <2>5. AfterFits(progress)' /\ ProgressFits(progress)'
    BY <1>13, <1>14 DEF Outside, AfterFits, ProgressFits
  <2>6. ASSUME RoomOnly(progress'), turn.window = server.window, edits = 0,
               turn.usage = 0 \/ turn.usage + turn.pending = Real,
               ~(sent.roomLeft /\ sent.tokens = MIN_USEFUL_REPLY)
        PROVE  Real + sent.tokens <= server.window
    <3>1. RoomOnly(q)
      BY <1>12, <1>17, <2>6 DEF RoomOnly
    <3>2. turn.window \in Nat /\ turn.window > COMPACTION_SAFETY_BUFFER + MIN_USEFUL_REPLY
      BY <2>6, Sizes
    <3>3. CASE ~underTheFloor /\ sent = budget
      <4>1. budget.tokens > 0
        BY <1>8, <1>11, <3>1, <3>2, <3>3 DEF MIN_USEFUL_REPLY, COMPACTION_SAFETY_BUFFER
      <4>2. projected + COMPACTION_SAFETY_BUFFER >= Real
        BY <1>5, <1>6, <2>6, Sizes DEF COMPACTION_SAFETY_BUFFER
      <4>3. budget.tokens + projected + COMPACTION_SAFETY_BUFFER <= turn.window
        BY <1>8, <1>11, <3>1, <4>1
      <4> QED BY <1>6, <1>8, <2>6, <3>2, <3>3, <4>2, <4>3, Sizes DEF COMPACTION_SAFETY_BUFFER
    <3>4. CASE turn.compacted /\ answer = "believe" /\ sent = believed
      <4>1. q.after \in Nat /\ q.after # 0 /\ q.after + COMPACTION_SAFETY_BUFFER + MIN_USEFUL_REPLY <= turn.window
        BY <1>4, <3>4 DEF FloorAnswer, FloorFits, ProgressFits
      <4>2. q.after >= fixed
        BY <1>4, <2>6, <3>1, <3>2, <4>1 DEF AfterFits, RoomOnly, COMPACTION_SAFETY_BUFFER, MIN_USEFUL_REPLY
      <4>3. Real <= q.after + COMPACTION_SAFETY_BUFFER
        BY <1>3, <3>4, <4>1, <4>2, Sizes DEF Real, COMPACTION_SAFETY_BUFFER
      <4>4. believed.tokens > 0
        BY <1>9, <3>2, <4>1 DEF COMPACTION_SAFETY_BUFFER, MIN_USEFUL_REPLY
      <4>5. believed.tokens + q.after + COMPACTION_SAFETY_BUFFER <= turn.window
        BY <1>9, <4>4
      <4> QED BY <1>9, <2>6, <3>2, <3>4, <4>1, <4>3, <4>5, Sizes DEF COMPACTION_SAFETY_BUFFER
    <3>5. sent # useful
      BY <1>10, <2>6
    <3> QED BY <1>17, <3>3, <3>4, <3>5
  <2>7. RoomIsKept'
    <3>1. Real' = Real /\ UNCHANGED <<server, edits>>
      BY <1>14 DEF Outside, Real
    <3>2. Real + sent.tokens <= server.window => ~OverServer(Real, sent.tokens)
      BY <2>2, Sizes DEF OverServer
    <3>3. OverServer(Real, turn.budget.tokens)' = OverServer(Real, sent.tokens)
      BY <2>1, <3>1 DEF OverServer
    <3>4. RoomOnly(progress)' = RoomOnly(progress')
      BY DEF RoomOnly
    <3> QED BY <2>1, <2>6, <3>1, <3>2, <3>3, <3>4 DEF RoomIsKept
  <2> QED BY <2>3, <2>4, <2>5, <2>7 DEF RoomInv
<1> HIDE DEF underTheFloor, answer
<1> QED BY <1>2, <1>15, <1>16, <1>17

LEMMA RoomInitHolds == RoomInit => RoomInv
<1> SUFFICES ASSUME RoomInit PROVE RoomInv
  OBVIOUS
<1>1. WorldFits
  BY RoomAssumption DEF RoomInit, WorldFits, QUOTE_MAX
<1>2. ProgressFits(progress) /\ AfterFits(progress)
  BY FreshFits DEF RoomInit
<1>3. TurnFits /\ RoomIsKept
  BY NoTurnIs DEF RoomInit, TurnFits, RoomIsKept
<1> QED BY <1>1, <1>2, <1>3 DEF RoomInv

LEMMA RoomNextKeeps == RoomInv /\ [RoomNext]_pvars => RoomInv'
<1> SUFFICES ASSUME RoomInv, [RoomNext]_pvars PROVE RoomInv'
  OBVIOUS
<1>1. CASE UNCHANGED pvars
  BY <1>1 DEF pvars, world, ghosts, RoomInv, WorldFits, TurnFits, ProgressFits, AfterFits, RoomIsKept,
     RoomOnly, OverServer, Real
<1>2. ASSUME NEW size \in Typed, Send(size) PROVE RoomInv'
  BY <1>2, RoomAssumption, BeginKeeps DEF Send
<1>3. CASE Wake
  BY <1>3, BeginKeeps DEF Wake
<1>4. ASSUME NEW s \in Summaries, Compact(s) \/ CompactAgain(s) PROVE RoomInv'
  BY <1>4, CompactKeeps, CompactAgainKeeps
<1>5. ASSUME NEW wants \in Wants, NEW results \in Results \cup {0}, Reply(wants, results) PROVE RoomInv'
  BY <1>5, ReplyKeeps
<1> QED
  BY <1>1, <1>2, <1>3, <1>4, <1>5, StepKeeps, CompactFailsKeeps, FailsKeeps, BuildKeeps, CallFailsKeeps,
     RecoverKeeps, RefuseOutKeeps, RetryRefusedKeeps, EditKeeps DEF RoomNext

\* A conversation in which compacting can help no more never sends a request
\* whose reply the server must refuse for its size, but for the user's one
\* try, while the server's window and the tools are those it knows: the budget
\* of Build, which stands for build_request_with_room and before_sending, is
\* what is left after all that the server will count.
THEOREM RoomKept == RoomSpec => []RoomIsKept
<1>1. RoomInv => RoomIsKept
  BY DEF RoomInv
<1> QED BY RoomInitHolds, RoomNextKeeps, <1>1, PTL DEF RoomSpec
=============================================================================
