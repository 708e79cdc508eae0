---------------------------- MODULE QueueProofs ----------------------------
(***************************************************************************)
(* What leaving a waiter queue does to it, for every queue.                *)
(***************************************************************************)
EXTENDS Queues, TLAPS

\* Leaving a queue keeps it a queue of waiters, and its head if that is
\* another.
LEMMA WithoutKeepsHead ==
    ASSUME NEW S, NEW q \in Seq(S), NEW t
    PROVE  /\ Without(q, t) \in Seq(S)
           /\ q # <<>> /\ Head(q) # t => Without(q, t) # <<>> /\ Head(Without(q, t)) = Head(q)
<1>1. CASE \E i \in 1..Len(q) : q[i] = t
  <2> DEFINE i == CHOOSE k \in 1..Len(q) : q[k] = t
             w == [j \in 1..(Len(q) - 1) |-> IF j < i THEN q[j] ELSE q[j + 1]]
  <2>1. i \in 1..Len(q) /\ q[i] = t
    BY <1>1
  <2>2. Without(q, t) = w
    BY <1>1 DEF Without
  <2>3. Len(q) \in Nat /\ Len(q) >= 1
    BY <2>1
  <2> HIDE DEF i
  <2>4. w \in [1..(Len(q) - 1) -> S]
    BY <2>1, <2>3
  <2>5. w \in Seq(S) /\ Len(w) = Len(q) - 1
    BY <2>3, <2>4, SMT
  <2>6. ASSUME Head(q) # t PROVE w # <<>> /\ Head(w) = Head(q)
    <3>1. Head(q) = q[1]
      BY <2>3
    <3>2. i > 1
      BY <2>1, <2>6, <3>1
    <3>3. 1 \in 1..(Len(q) - 1) /\ w[1] = q[1]
      BY <2>1, <3>2
    <3>4. Len(w) >= 1
      BY <2>1, <2>5, <3>2
    <3> HIDE DEF w
    <3>5. w # <<>> /\ Head(w) = w[1]
      BY <2>5, <3>4
    <3> QED BY <3>1, <3>3, <3>5
  <2> QED BY <2>2, <2>5, <2>6
<1>2. CASE ~ \E i \in 1..Len(q) : q[i] = t
  BY <1>2 DEF Without
<1> QED BY <1>1, <1>2

\* Leaving a queue keeps it a queue of waiters, each once, and leaves the
\* others in it.
LEMMA WithoutIsQueue ==
    ASSUME NEW S, NEW q \in Seq(S), NEW t, Once(q)
    PROVE  /\ Without(q, t) \in Seq(S)
           /\ q = <<>> => Without(q, t) = <<>>
           /\ Once(Without(q, t))
           /\ \A j \in 1..Len(Without(q, t)) :
                 \E k \in 1..Len(q) : Without(q, t)[j] = q[k] /\ q[k] # t
<1>1. CASE \E i \in 1..Len(q) : q[i] = t
  <2> DEFINE i == CHOOSE k \in 1..Len(q) : q[k] = t
             w == [j \in 1..(Len(q) - 1) |-> IF j < i THEN q[j] ELSE q[j + 1]]
  <2>1. i \in 1..Len(q) /\ q[i] = t
    BY <1>1
  <2>2. Without(q, t) = w
    BY <1>1 DEF Without
  <2>3. Len(q) \in Nat /\ Len(q) >= 1
    BY <2>1
  <2> HIDE DEF i
  <2>4. ASSUME NEW j \in 1..(Len(q) - 1)
        PROVE  \E k \in 1..Len(q) : w[j] = q[k] /\ q[k] # t
    <3> DEFINE k == IF j < i THEN j ELSE j + 1
    <3>1. k \in 1..Len(q) /\ k # i /\ w[j] = q[k]
      BY <2>1, <2>3
    <3>2. q[k] # t
      BY <3>1, <2>1 DEF Once
    <3> QED BY <3>1, <3>2
  <2>5. w \in Seq(S) /\ Len(w) = Len(q) - 1
    <3>1. w \in [1..(Len(q) - 1) -> S]
      BY <2>4
    <3> QED BY <3>1, <2>3, SMT
  <2>6. Once(w)
    <3> SUFFICES ASSUME NEW j \in 1..(Len(q) - 1), NEW k \in 1..(Len(q) - 1), w[j] = w[k]
                 PROVE  j = k
      BY <2>5 DEF Once
    <3> QED BY <2>1, <2>3, SMT DEF Once
  <2> QED BY <2>2, <2>4, <2>5, <2>6, <2>3
<1>2. CASE ~ \E i \in 1..Len(q) : q[i] = t
  BY <1>2 DEF Without
<1> QED BY <1>1, <1>2

\* Joining a queue that is not empty keeps its head.
LEMMA AppendKeepsHead ==
    ASSUME NEW S, NEW q \in Seq(S), NEW t \in S, q # <<>>
    PROVE  Append(q, t) # <<>> /\ Head(Append(q, t)) = Head(q)
<1>1. Len(q) \in Nat /\ Len(q) >= 1
  OBVIOUS
<1>2. Append(q, t) \in Seq(S) /\ Len(Append(q, t)) = Len(q) + 1 /\ Append(q, t)[1] = q[1]
  BY <1>1
<1> QED BY <1>1, <1>2

\* Those in w are in q, in the order they have there.
InOrder(w, q) == \A i, j \in 1..Len(w) :
                     \E n, m \in 1..Len(q) : w[i] = q[n] /\ w[j] = q[m] /\ (i < j <=> n < m)

\* All of q's are in w, but for t.
HasOthers(w, q, t) == \A n \in 1..Len(q) : q[n] # t => \E i \in 1..Len(w) : w[i] = q[n]

\* Leaving a queue leaves the others in it, in their order.
LEMMA WithoutKeepsOrder ==
    ASSUME NEW S, NEW q \in Seq(S), NEW t
    PROVE  InOrder(Without(q, t), q) /\ HasOthers(Without(q, t), q, t)
<1>1. CASE \E i \in 1..Len(q) : q[i] = t
  <2> DEFINE n == CHOOSE k \in 1..Len(q) : q[k] = t
             w == [j \in 1..(Len(q) - 1) |-> IF j < n THEN q[j] ELSE q[j + 1]]
  <2>1. n \in 1..Len(q) /\ q[n] = t
    BY <1>1
  <2>2. Without(q, t) = w
    BY <1>1 DEF Without
  <2>3. Len(q) \in Nat /\ Len(q) >= 1
    BY <2>1
  <2> HIDE DEF n
  <2>4. ASSUME NEW j \in 1..(Len(q) - 1)
        PROVE  w[j] = q[IF j < n THEN j ELSE j + 1] /\ (IF j < n THEN j ELSE j + 1) \in 1..Len(q)
    BY <2>1, <2>3
  <2>5. Len(w) = Len(q) - 1
    <3>1. w \in [1..(Len(q) - 1) -> S]
      BY <2>4
    <3> QED BY <3>1, <2>3, SMT
  <2> HIDE DEF w
  <2> DEFINE v == Without(q, t)
  <2>6. Len(v) = Len(q) - 1 /\ \A j \in 1..(Len(q) - 1) : v[j] = q[IF j < n THEN j ELSE j + 1]
    BY <2>2, <2>4, <2>5
  <2> HIDE DEF v
  <2>7. ASSUME NEW i \in 1..Len(v), NEW j \in 1..Len(v)
        PROVE  \E k, m \in 1..Len(q) : v[i] = q[k] /\ v[j] = q[m] /\ (i < j <=> k < m)
    <3> DEFINE k == IF i < n THEN i ELSE i + 1
               m == IF j < n THEN j ELSE j + 1
    <3>1. k \in 1..Len(q) /\ v[i] = q[k] /\ m \in 1..Len(q) /\ v[j] = q[m]
      BY <2>1, <2>3, <2>6
    <3>2. i < j <=> k < m
      BY <2>1, <2>3, <2>6
    <3> QED BY <3>1, <3>2
  <2>8. ASSUME NEW k \in 1..Len(q), q[k] # t
        PROVE  \E i \in 1..Len(v) : v[i] = q[k]
    <3> DEFINE i == IF k < n THEN k ELSE k - 1
    <3>1. k # n
      BY <2>1, <2>8
    <3>2. i \in 1..Len(v) /\ (IF i < n THEN i ELSE i + 1) = k
      BY <2>1, <2>3, <2>6, <3>1
    <3>3. v[i] = q[k]
      BY <2>6, <3>2
    <3> QED BY <3>2, <3>3
  <2>9. InOrder(v, q) /\ HasOthers(v, q, t)
    BY <2>7, <2>8 DEF InOrder, HasOthers
  <2> QED BY <2>9 DEF v
<1>2. CASE ~ \E i \in 1..Len(q) : q[i] = t
  BY <1>2 DEF Without, InOrder, HasOthers
<1> QED BY <1>1, <1>2

\* Joining a queue that one is not in keeps the others' places, and each once.
LEMMA AppendKeepsOrder ==
    ASSUME NEW S, NEW q \in Seq(S), NEW t \in S
    PROVE  /\ Append(q, t) \in Seq(S) /\ Len(Append(q, t)) = Len(q) + 1 /\ Len(q) \in Nat
           /\ Append(q, t)[Len(q) + 1] = t
           /\ \A i \in 1..Len(q) : Append(q, t)[i] = q[i]
           /\ Once(q) /\ (\A i \in 1..Len(q) : q[i] # t) => Once(Append(q, t))
<1>1. /\ Append(q, t) \in Seq(S) /\ Len(Append(q, t)) = Len(q) + 1 /\ Len(q) \in Nat
      /\ Append(q, t)[Len(q) + 1] = t
      /\ \A i \in 1..Len(q) : Append(q, t)[i] = q[i]
  OBVIOUS
<1>2. ASSUME Once(q), \A i \in 1..Len(q) : q[i] # t
      PROVE  Once(Append(q, t))
  <2> SUFFICES ASSUME NEW i \in 1..(Len(q) + 1), NEW j \in 1..(Len(q) + 1), Append(q, t)[i] = Append(q, t)[j]
               PROVE  i = j
    BY <1>1 DEF Once
  <2> DEFINE a == Append(q, t)
  <2>1. CASE i \in 1..Len(q) /\ j \in 1..Len(q)
    BY <1>1, <1>2, <2>1 DEF Once
  <2>2. CASE i = Len(q) + 1 /\ j \in 1..Len(q)
    BY <1>1, <1>2, <2>2
  <2>3. CASE j = Len(q) + 1 /\ i \in 1..Len(q)
    BY <1>1, <1>2, <2>3
  <2> QED BY <1>1, <2>1, <2>2, <2>3
<1> QED BY <1>1, <1>2


\* Those in w are in q, but not t.
NoneBut(w, q, t) == \A i \in 1..Len(w) : \E n \in 1..Len(q) : w[i] = q[n] /\ q[n] # t

\* What is left of a queue, w: the others, each once and in their order.
LEMMA LeftInOrder ==
    ASSUME NEW S, NEW q \in Seq(S), NEW t, Once(q), NEW w, w = Without(q, t)
    PROVE  Once(w) /\ NoneBut(w, q, t) /\ InOrder(w, q) /\ HasOthers(w, q, t)
<1>1. Once(w)
  BY WithoutIsQueue
<1>2. \A i \in 1..Len(w) : \E n \in 1..Len(q) : w[i] = q[n] /\ q[n] # t
  BY WithoutIsQueue
<1>3. InOrder(w, q) /\ HasOthers(w, q, t)
  BY WithoutKeepsOrder
<1> QED BY <1>1, <1>2, <1>3 DEF NoneBut
=============================================================================
