------------------------------- MODULE Queues -------------------------------
(***************************************************************************)
(* The first-come-first-served queue of a tokio semaphore or mutex, as a   *)
(* sequence of those who wait in it.                                       *)
(***************************************************************************)
EXTENDS Naturals, Sequences

\* The queue q without the waiter t, who is in it once at most.
Without(q, t) ==
    IF \E i \in 1..Len(q) : q[i] = t
    THEN LET i == CHOOSE i \in 1..Len(q) : q[i] = t
         IN  [j \in 1..(Len(q) - 1) |-> IF j < i THEN q[j] ELSE q[j + 1]]
    ELSE q

\* Nobody is in q twice.
Once(q) == \A i, j \in 1..Len(q) : q[i] = q[j] => i = j
=============================================================================
