------------------------------ MODULE Limiter ------------------------------
(***************************************************************************)
(* The request slots of one model provider: providers/limiter.rs, the wait *)
(* for a slot in anthropic/stream/endpoint.rs, and the slot a running turn *)
(* holds (TurnSlot in turn/call.rs).                                       *)
(*                                                                         *)
(* A Pool is a tokio semaphore plus `owed`, the permits a lowered limit    *)
(* has still to take back.  The semaphore and `owed` are two atomics, so   *)
(* `Pool::resize` and `Slot::drop` each touch them in two separate steps;  *)
(* the model keeps those steps apart.  Everything under the LIMITS mutex   *)
(* excludes other users of the mutex, not a Slot being dropped.            *)
(***************************************************************************)
EXTENDS Naturals, Sequences, FiniteSets, Queues

CONSTANTS
    Turns,        \* the turns that run on this provider
    MaxLimit,     \* bound: the largest max_concurrent_requests saved
    MaxVersion,   \* bound: how many times the provider's row is written
    MaxPools,     \* bound: how many pools are ever made
    MaxRounds     \* bound: model calls of one turn (turn::run's MAX_TURNS)

ASSUME LimiterAssumption ==
    /\ IsFiniteSet(Turns)
    /\ MaxLimit \in Nat \ {0}
    /\ MaxVersion \in Nat \ {0}
    /\ MaxPools \in Nat \ {0}
    /\ MaxRounds \in Nat \ {0}

VARIABLES
    row,       \* the provider's row in the database
    pending,   \* rows read or written, whose limiter::set has yet to run; Gone
               \* among them is a limiter::forget yet to run
    made,      \* how many pools have been made
    limit,     \* the provider's entry in LIMITS
    count,     \* the limit each pool was last sized to
    permits,   \* free permits of each pool's semaphore
    owed,      \* permits each pool has still to take back
    closed,    \* the pools whose semaphore is closed
    queue,     \* the waiters of each semaphore, first come first served
    resizing,  \* the second half of a Pool::resize still to run
    pc,        \* where each turn is
    slot,      \* the pool whose slot each turn holds, or None
    want,      \* the pool each turn is asking for a slot
    old,       \* the pool of the slot each turn is dropping
    after,     \* where each turn goes once its drop or its take is over
    rounds     \* model calls each turn has made

rowVars  == <<row, pending>>
poolVars == <<made, limit, count, permits, owed, closed, queue, resizing>>
turnVars == <<pc, slot, want, old, after, rounds>>
vars     == <<rowVars, poolVars, turnVars>>

-----------------------------------------------------------------------------
Pools == 1..MaxPools
None  == 0                     \* no pool: no limit, or no slot
NoResize == [pool |-> None, owe |-> 0, add |-> 0]
Unknown  == [version |-> 0, pool |-> None]

\* Versions start at 1; an entry LIMITS does not have reads as version 0.
\* max = 0 stands for no limit: resolved_max filters a pool of none out.
Rows   == [version : 0..MaxVersion, max : 0..MaxLimit]
Limits == [version : 0..MaxVersion, pool : Pools \cup {None}]
Resizes == [pool : Pools \cup {None}, owe : Nat, add : Nat]
Gone   == [version |-> 0, max |-> 0]   \* the row of a deleted provider
States == {"idle", "refresh", "look", "acquire", "waiting", "assigned",
           "drop", "free", "calling", "tools"}

RowsOK ==
    /\ row \in Rows
    /\ pending \subseteq Rows

PoolsOK ==
    /\ made \in 0..MaxPools
    /\ limit \in Limits
    /\ count \in [Pools -> 0..MaxLimit]
    /\ permits \in [Pools -> Nat]
    /\ owed \in [Pools -> Nat]
    /\ closed \subseteq Pools
    /\ queue \in [Pools -> Seq(Turns)]
    /\ resizing \in Resizes

TurnsOK ==
    /\ pc \in [Turns -> States]
    /\ slot \in [Turns -> Pools \cup {None}]
    /\ want \in [Turns -> Pools \cup {None}]
    /\ old \in [Turns -> Pools \cup {None}]
    /\ after \in [Turns -> {"idle", "refresh", "calling", "tools"}]
    /\ rounds \in [Turns -> 0..MaxRounds]

TypeOK == RowsOK /\ PoolsOK /\ TurnsOK

Init ==
    /\ row \in {[version |-> 1, max |-> m] : m \in 0..MaxLimit}
    /\ pending = {}
    /\ made = 0
    /\ limit = Unknown
    /\ count = [p \in Pools |-> 0]
    /\ permits = [p \in Pools |-> 0]
    /\ owed = [p \in Pools |-> 0]
    /\ closed = {}
    /\ queue = [p \in Pools |-> <<>>]
    /\ resizing = NoResize
    /\ pc = [t \in Turns |-> "idle"]
    /\ slot = [t \in Turns |-> None]
    /\ want = [t \in Turns |-> None]
    /\ old = [t \in Turns |-> None]
    /\ after = [t \in Turns |-> "idle"]
    /\ rounds = [t \in Turns |-> 0]

-----------------------------------------------------------------------------
(* The database row, and the sets it leads to.                             *)

Exists == row # Gone

\* A save, or a server's report of its slot count, commits a new row; its
\* limiter::set runs later.
SaveProvider(max) ==
    /\ Exists
    /\ row.version < MaxVersion
    /\ row' = [version |-> row.version + 1, max |-> max]
    /\ pending' = pending \cup {row'}
    /\ UNCHANGED <<poolVars, turnVars>>

\* Building an endpoint reads the row; its limiter::set runs later, by
\* which time the row may have been saved again, or deleted.
BuildEndpoint ==
    /\ Exists
    /\ row \notin pending
    /\ pending' = pending \cup {row}
    /\ UNCHANGED <<row, poolVars, turnVars>>

\* A delete removes the row; its limiter::forget runs later.
DeleteProvider ==
    /\ Exists
    /\ row' = Gone
    /\ pending' = pending \cup {Gone}
    /\ UNCHANGED <<poolVars, turnVars>>

-----------------------------------------------------------------------------
(* The LIMITS mutex: limiter::set, limiter::forget.                        *)

MutexFree == resizing = NoResize

Lesser(a, b) == IF a <= b THEN a ELSE b

\* Mutation: the version check of limiter::set is dropped.
NeverStale(r) == FALSE

\* A row older than the one the limit was last set from.
Stale(r) == limit.version > r.version

\* limiter::set from a stale row: ignored.
IgnoreStaleSet(r) ==
    /\ Stale(r)
    /\ UNCHANGED poolVars

\* Mutation: what is owed is paid off, and its permits are added all the same.
RaiseAddsPaidToo(p, to) ==
    LET more == to - count[p]
    IN  /\ owed' = [owed EXCEPT ![p] = @ - Lesser(owed[p], more)]
        /\ resizing' = [pool |-> p, owe |-> 0, add |-> more]
        /\ UNCHANGED permits

\* Pool::resize to a higher limit, first half: what is owed is paid off.
Raise(p, to) ==
    LET more == to - count[p]
        paid == Lesser(owed[p], more)
    IN  /\ owed' = [owed EXCEPT ![p] = @ - paid]
        /\ resizing' = [pool |-> p, owe |-> 0, add |-> more - paid]
        /\ UNCHANGED permits

\* Pool::resize to the same or a lower limit, first half: free permits are
\* forgotten.
Lower(p, to) ==
    LET fewer == count[p] - to
        taken == Lesser(permits[p], fewer)
    IN  /\ permits' = [permits EXCEPT ![p] = @ - taken]
        /\ resizing' = [pool |-> p, owe |-> fewer - taken, add |-> 0]
        /\ UNCHANGED owed

\* limiter::set with a limit on a limited provider: the pool is resized in
\* place.
ResizeSet(r) ==
    /\ ~ Stale(r)
    /\ limit.pool # None
    /\ r.max > 0
    /\ IF r.max > count[limit.pool]
       THEN Raise(limit.pool, r.max)
       ELSE Lower(limit.pool, r.max)
    /\ count' = [count EXCEPT ![limit.pool] = r.max]
    /\ limit' = [limit EXCEPT !.version = r.version]
    /\ UNCHANGED <<made, closed, queue>>

\* limiter::set that starts or clears a limit: an old pool is closed, which
\* sends its waiters on, and a limit gets a new pool.
ReplaceSet(r) ==
    /\ ~ Stale(r)
    /\ limit.pool = None \/ r.max = 0
    /\ r.max > 0 => made < MaxPools
    /\ LET new == made + 1
       IN  IF r.max > 0
           THEN /\ made' = new
                /\ count' = [count EXCEPT ![new] = r.max]
                /\ permits' = [permits EXCEPT ![new] = r.max]
                /\ limit' = [version |-> r.version, pool |-> new]
           ELSE /\ limit' = [version |-> r.version, pool |-> None]
                /\ UNCHANGED <<made, count, permits>>
    /\ closed' = closed \cup ({limit.pool} \ {None})
    /\ queue' = [p \in Pools |-> IF p = limit.pool THEN <<>> ELSE queue[p]]
    /\ UNCHANGED <<owed, resizing>>

Set(r) ==
    /\ MutexFree
    /\ r \in pending \ {Gone}
    /\ pending' = pending \ {r}
    /\ IgnoreStaleSet(r) \/ ResizeSet(r) \/ ReplaceSet(r)
    /\ UNCHANGED <<row, turnVars>>

\* limiter::forget, after the row is deleted.  The pool is not closed, and a
\* set from a row read before the delete makes the entry anew.
Forget ==
    /\ MutexFree
    /\ Gone \in pending
    /\ pending' = pending \ {Gone}
    /\ limit' = Unknown
    /\ UNCHANGED <<row, made, count, permits, owed, closed, queue, resizing, turnVars>>

\* Pool::resize lowering, second half: the permits still out are owed.
FinishLower ==
    /\ resizing.owe > 0
    /\ owed' = [owed EXCEPT ![resizing.pool] = @ + resizing.owe]
    /\ resizing' = NoResize
    /\ UNCHANGED <<rowVars, made, limit, count, permits, closed, queue, turnVars>>

\* A resize with nothing left to add or to owe lets the mutex go.
FinishEvenResize ==
    /\ resizing # NoResize
    /\ resizing.owe = 0 /\ resizing.add = 0
    /\ resizing' = NoResize
    /\ UNCHANGED <<rowVars, made, limit, count, permits, owed, closed, queue, turnVars>>

-----------------------------------------------------------------------------
(* The semaphore (external: tokio::sync::Semaphore).                       *)

\* One permit given to p's semaphore: to its first waiter, else free.  `pcs`
\* is where the turns are but for that.
Give(p, pcs) ==
    IF queue[p] = <<>>
    THEN /\ permits' = [permits EXCEPT ![p] = @ + 1]
         /\ pc' = pcs
         /\ UNCHANGED queue
    ELSE /\ queue' = [queue EXCEPT ![p] = Tail(@)]
         /\ pc' = [pcs EXCEPT ![Head(queue[p])] = "assigned"]
         /\ UNCHANGED permits

\* Pool::resize raising, second half: add_permits, permit by permit.
AddPermit ==
    /\ resizing.add > 0
    /\ Give(resizing.pool, pc)
    /\ resizing' = [resizing EXCEPT !.add = @ - 1]
    /\ UNCHANGED <<rowVars, made, limit, count, owed, closed, slot, want, old, after, rounds>>

-----------------------------------------------------------------------------
(* A turn: TurnSlot::acquire, then refresh before every model call.        *)

\* turn::run's first iteration: TurnSlot::acquire.
StartTurn(t) ==
    /\ pc[t] = "idle"
    /\ pc' = [pc EXCEPT ![t] = "look"]
    /\ after' = [after EXCEPT ![t] = "refresh"]
    /\ rounds' = [rounds EXCEPT ![t] = 0]
    /\ UNCHANGED <<rowVars, poolVars, slot, want, old>>

\* TurnSlot::refresh: the slot of the pool that is current is kept.
Refresh(t) ==
    /\ pc[t] = "refresh"
    /\ MutexFree
    /\ pc' = [pc EXCEPT ![t] = IF slot[t] = limit.pool THEN "calling" ELSE "look"]
    /\ after' = [after EXCEPT ![t] = "calling"]
    /\ UNCHANGED <<rowVars, poolVars, slot, want, old, rounds>>

\* The turn's slot becomes `new`; the one it held, if any, is dropped next.
TakeInstead(t, new, pcs) ==
    /\ slot' = [slot EXCEPT ![t] = new]
    /\ old' = [old EXCEPT ![t] = slot[t]]
    /\ want' = [want EXCEPT ![t] = None]
    /\ pc' = [pcs EXCEPT ![t] = IF slot[t] = None THEN after[t] ELSE "drop"]

\* Endpoint::slot looks the pool up: with no limit the turn goes without.
Look(t) ==
    /\ pc[t] = "look"
    /\ MutexFree
    /\ IF limit.pool = None
       THEN TakeInstead(t, None, pc)
       ELSE /\ want' = [want EXCEPT ![t] = limit.pool]
            /\ pc' = [pc EXCEPT ![t] = "acquire"]
            /\ UNCHANGED <<slot, old>>
    /\ UNCHANGED <<rowVars, poolVars, after, rounds>>

\* Mutation: a turn refused by a closed pool asks that same pool again.
RefusedAgain(t) ==
    /\ pc[t] = "acquire"
    /\ want[t] \in closed
    /\ UNCHANGED vars

\* Pool::acquire: a closed pool refuses, and the turn looks again;
Refused(t) ==
    /\ pc[t] = "acquire"
    /\ want[t] \in closed
    /\ pc' = [pc EXCEPT ![t] = "look"]
    /\ want' = [want EXCEPT ![t] = None]
    /\ UNCHANGED <<rowVars, poolVars, slot, old, after, rounds>>

\* a free permit is taken;
TakePermit(t) ==
    /\ pc[t] = "acquire"
    /\ want[t] \notin closed
    /\ permits[want[t]] > 0
    /\ permits' = [permits EXCEPT ![want[t]] = @ - 1]
    /\ TakeInstead(t, want[t], pc)
    /\ UNCHANGED <<rowVars, made, limit, count, owed, closed, queue, resizing, after, rounds>>

\* or else the turn joins the semaphore's queue.
Enqueue(t) ==
    /\ pc[t] = "acquire"
    /\ want[t] \notin closed
    /\ permits[want[t]] = 0
    /\ queue' = [queue EXCEPT ![want[t]] = Append(@, t)]
    /\ pc' = [pc EXCEPT ![t] = "waiting"]
    /\ UNCHANGED <<rowVars, made, limit, count, permits, owed, closed, resizing,
                   slot, want, old, after, rounds>>

\* The waiter assigned a permit takes it up as its Slot.
TakeUp(t) ==
    /\ pc[t] = "assigned"
    /\ want[t] \notin closed
    /\ TakeInstead(t, want[t], pc)
    /\ UNCHANGED <<rowVars, poolVars, after, rounds>>

\* A pool closed while the turn waited sends it to look again.
PoolClosed(t) ==
    /\ pc[t] = "waiting"
    /\ want[t] \in closed
    /\ pc' = [pc EXCEPT ![t] = "look"]
    /\ want' = [want EXCEPT ![t] = None]
    /\ UNCHANGED <<rowVars, poolVars, slot, old, after, rounds>>

\* So does one closed after it assigned the turn a permit: the permit goes
\* back to the semaphore, which has no waiters left, past Slot::drop.
PermitReturned(t) ==
    /\ pc[t] = "assigned"
    /\ want[t] \in closed
    /\ permits' = [permits EXCEPT ![want[t]] = @ + 1]
    /\ pc' = [pc EXCEPT ![t] = "look"]
    /\ want' = [want EXCEPT ![t] = None]
    /\ UNCHANGED <<rowVars, made, limit, count, owed, closed, queue, resizing,
                   slot, old, after, rounds>>

\* Mutation: a saturating decrement, so that every drop forgets its permit.
DropAlwaysForgets(t) ==
    /\ pc[t] = "drop"
    /\ owed' = [owed EXCEPT ![old[t]] = IF @ > 0 THEN @ - 1 ELSE 0]
    /\ old' = [old EXCEPT ![t] = None]
    /\ pc' = [pc EXCEPT ![t] = after[t]]
    /\ UNCHANGED <<rowVars, made, limit, count, permits, closed, queue, resizing,
                   slot, want, after, rounds>>

\* Slot::drop, first half: while the pool is owed permits this one pays.
DropSlot(t) ==
    LET p == old[t]
    IN  /\ pc[t] = "drop"
        /\ IF owed[p] > 0
           THEN /\ owed' = [owed EXCEPT ![p] = @ - 1]
                /\ old' = [old EXCEPT ![t] = None]
                /\ pc' = [pc EXCEPT ![t] = after[t]]
           ELSE /\ pc' = [pc EXCEPT ![t] = "free"]
                /\ UNCHANGED <<owed, old>>
        /\ UNCHANGED <<rowVars, made, limit, count, permits, closed, queue, resizing,
                       slot, want, after, rounds>>

\* Slot::drop, second half: with nothing owed the permit is freed.
FreePermit(t) ==
    /\ pc[t] = "free"
    /\ Give(old[t], [pc EXCEPT ![t] = after[t]])
    /\ old' = [old EXCEPT ![t] = None]
    /\ UNCHANGED <<rowVars, made, limit, count, owed, closed, resizing,
                   slot, want, after, rounds>>

\* The turn's slot is dropped; the turn goes on to `next`.
GiveUp(t, next, pcs) ==
    /\ slot' = [slot EXCEPT ![t] = None]
    /\ old' = [old EXCEPT ![t] = slot[t]]
    /\ after' = [after EXCEPT ![t] = next]
    /\ pc' = [pcs EXCEPT ![t] = IF slot[t] = None THEN next ELSE "drop"]

\* A call ends with tools to run: TurnSlot::yield_to_own_agents keeps the
\* slot, or gives it up while the turn's own agents are live.
RunTools(t) ==
    /\ pc[t] = "calling"
    /\ rounds[t] < MaxRounds
    /\ rounds' = [rounds EXCEPT ![t] = @ + 1]
    /\ \/ /\ pc' = [pc EXCEPT ![t] = "tools"]
          /\ UNCHANGED <<slot, old, after>>
       \/ /\ slot[t] # None
          /\ GiveUp(t, "tools", pc)
    /\ UNCHANGED <<rowVars, poolVars, want>>

\* The tool pass is over: the next iteration refreshes the slot.
NextCall(t) ==
    /\ pc[t] = "tools"
    /\ pc' = [pc EXCEPT ![t] = "refresh"]
    /\ UNCHANGED <<rowVars, poolVars, slot, want, old, after, rounds>>

EndTurn(t) ==
    /\ pc[t] = "calling"
    /\ GiveUp(t, "idle", pc)
    /\ UNCHANGED <<rowVars, poolVars, want, rounds>>

\* A Stop drops the turn at one of its awaits: in a call or a tool pass,
Stop(t) ==
    /\ pc[t] \in {"calling", "tools"}
    /\ GiveUp(t, "idle", pc)
    /\ UNCHANGED <<rowVars, poolVars, want, rounds>>

\* in the semaphore's queue, which it leaves,
StopWaiting(t) ==
    /\ pc[t] = "waiting"
    /\ GiveUp(t, "idle", pc)
    /\ queue' = [queue EXCEPT ![want[t]] = Without(@, t)]
    /\ want' = [want EXCEPT ![t] = None]
    /\ UNCHANGED <<rowVars, made, limit, count, permits, owed, closed, resizing, rounds>>

\* or with a permit assigned, which goes back past Slot::drop.
StopAssigned(t) ==
    /\ pc[t] = "assigned"
    /\ slot' = [slot EXCEPT ![t] = None]
    /\ old' = [old EXCEPT ![t] = slot[t]]
    /\ after' = [after EXCEPT ![t] = "idle"]
    /\ Give(want[t], [pc EXCEPT ![t] = IF slot[t] = None THEN "idle" ELSE "drop"])
    /\ want' = [want EXCEPT ![t] = None]
    /\ UNCHANGED <<rowVars, made, limit, count, owed, closed, resizing, rounds>>

-----------------------------------------------------------------------------
Configure ==
    \/ \E max \in 0..MaxLimit : SaveProvider(max)
    \/ BuildEndpoint
    \/ DeleteProvider

Limiting ==
    \/ \E r \in pending : Set(r)
    \/ Forget
    \/ FinishLower
    \/ FinishEvenResize
    \/ AddPermit

Proceed(t) ==
    \/ Refresh(t)
    \/ Look(t)
    \/ Refused(t)
    \/ TakePermit(t)
    \/ Enqueue(t)
    \/ TakeUp(t)
    \/ PoolClosed(t)
    \/ PermitReturned(t)
    \/ DropSlot(t)
    \/ FreePermit(t)
    \/ RunTools(t)
    \/ NextCall(t)
    \/ EndTurn(t)

Next ==
    \/ Configure
    \/ Limiting
    \/ \E t \in Turns : StartTurn(t) \/ Proceed(t) \/ Stop(t) \/ StopWaiting(t) \/ StopAssigned(t)

Spec == Init /\ [][Next]_vars

\* A task that can go on is scheduled (tokio), and a model call or a tool
\* pass ends: both have timeouts.  A thread that finds the LIMITS mutex free
\* again and again gets it at last: a turn is at one of its two reads of LIMITS,
\* never at both.  Nobody has to save, start or stop.
Fairness ==
    /\ WF_vars(Limiting)
    /\ \A t \in Turns :
          /\ WF_vars(Proceed(t))
          /\ SF_vars(Refresh(t) \/ Look(t))

FairSpec == Spec /\ Fairness

-----------------------------------------------------------------------------
(* Properties.                                                             *)

\* The turns that have one of p's permits: in a slot, assigned to their
\* wait, or not yet given back by a drop.
Has(t, p) ==
    \/ slot[t] = p
    \/ pc[t] = "assigned" /\ want[t] = p
    \/ pc[t] \in {"drop", "free"} /\ old[t] = p

Out(p) == {t \in Turns : Has(t, p)}

\* What a resize has still to add to p's permits, and to what p is owed.
Owing(p)  == IF resizing.pool = p THEN resizing.owe ELSE 0
Adding(p) == IF resizing.pool = p THEN resizing.add ELSE 0

\* No resize, however it interleaves with slots being dropped, loses or
\* mints a permit: the free permits and the ones out always add up to the
\* limit plus what is still owed (Pool::resize, Slot::drop).
Conserved(p) ==
    permits[p] + Cardinality(Out(p)) + Adding(p) = count[p] + owed[p] + Owing(p)

SlotsConserved == \A p \in Pools : Conserved(p)

\* Nobody waits on an idle pool (no lost wake-up): a waiter's pool is open,
\* has no free permit, and one of its permits is out or about to be added.
NobodyWaitsOnIdlePool ==
    \A p \in Pools : queue[p] # <<>> =>
        /\ p \notin closed
        /\ permits[p] = 0
        /\ Out(p) # {} \/ Adding(p) > 0

\* However the sets of saves and endpoint builds are delayed and reordered,
\* once they have all run the limiter enforces the row's limit (the version
\* check of limiter::set).
LimitFollowsRow ==
    (Exists /\ pending = {} /\ MutexFree /\ limit # Unknown) =>
        /\ (limit.pool = None) <=> (row.max = 0)
        /\ limit.pool # None => count[limit.pool] = row.max

\* A turn that asks for a slot gets to its call, goes without one, or is
\* stopped: it never waits for ever (Endpoint::slot).
SlotGranted ==
    \A t \in Turns :
        pc[t] \in {"look", "acquire", "waiting", "assigned"} ~> pc[t] \in {"idle", "calling"}

-----------------------------------------------------------------------------
(* The inductive strengthening of SlotsConserved and NobodyWaitsOnIdlePool. *)

Asking == {"look", "acquire", "waiting", "assigned"}

\* The current pool, the one being resized and the closed ones were made; the
\* current one is open.
CurrentMade ==
    /\ \A p \in closed : p <= made
    /\ limit.pool <= made
    /\ limit.pool # None => limit.pool \notin closed
    /\ resizing.pool <= made
    /\ resizing.pool = None => resizing = NoResize

\* A resize has permits to add or to be owed, never both.
OneHalf == resizing.owe = 0 \/ resizing.add = 0

\* A pool that was made has a limit; one that was not is as Init left it.
UnmadeUntouched ==
    \A p \in Pools :
        /\ p <= made => count[p] > 0
        /\ p > made => count[p] = 0 /\ permits[p] = 0 /\ owed[p] = 0 /\ queue[p] = <<>>

\* What a turn holds fits where it is; it never asks the pool of its own slot.
Fits(t) ==
    /\ slot[t] <= made /\ want[t] <= made /\ old[t] <= made
    /\ pc[t] = "idle" => slot[t] = None
    /\ pc[t] \in {"drop", "free"} => /\ old[t] # None
                                     /\ old[t] # slot[t]
                                     /\ after[t] = "idle" => slot[t] = None
    /\ pc[t] \in Asking => /\ slot[t] = None \/ slot[t] # limit.pool
                           /\ after[t] \in {"refresh", "calling"}
    /\ pc[t] \in {"acquire", "waiting", "assigned"} => /\ want[t] # None
                                                       /\ slot[t] # want[t]

TurnsFit == \A t \in Turns : Fits(t)

\* A semaphore's queue holds turns that wait on it, each once; a closed pool
\* and one with a free permit have none.
QueueFits(p) ==
    /\ \A i \in 1..Len(queue[p]) : /\ pc[queue[p][i]] = "waiting"
                                   /\ want[queue[p][i]] = p
    /\ Once(queue[p])
    /\ queue[p] # <<>> => p \notin closed /\ permits[p] = 0

QueuesFit == \A p \in Pools : QueueFits(p)

\* What is true of every reachable state, and of every step from one.
IndInv == TypeOK /\ CurrentMade /\ OneHalf /\ UnmadeUntouched /\ TurnsFit /\ QueuesFit /\ SlotsConserved

\* What limiter.rs's module comment says of a resize: a permit is handed out
\* only while the ones out, that one included, are within the limit.
NoNewRequestOverLimit ==
    [][ \A p \in Pools :
          (p = limit.pool /\ MutexFree /\ limit' = limit /\ Out(p)' \ Out(p) # {}) =>
              Cardinality(Out(p)') <= count[p] ]_vars
=============================================================================
