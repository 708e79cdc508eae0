------------------------------- MODULE PodLife -------------------------------
(***************************************************************************)
(* One conversation's sandbox: the pods it starts one after another, the   *)
(* database row of each, and the two volume claims all of them mount.      *)
(*                                                                         *)
(* A pod is started by a task of its own (sandbox/manager/create.rs).  It  *)
(* is ended by the user's Stop, by the model's terminate_pod, by the quiet *)
(* stop of an idle or finished pod, by a storage removal, by the watcher   *)
(* and the reconnect that find it gone, and by the conversation's delete.  *)
(* The claims are removed by the user, by the storage-grace pass some days *)
(* after a quiet stop, by the delete, and by the sweep at the next start   *)
(* of the server.  Only some of these take the conversation's turn lock    *)
(* and pod-start lock, so they interleave in every order.                  *)
(*                                                                         *)
(* A task is a record: where it is (pc), the pod it is about, and what a   *)
(* storage removal has found so far.  Every await of the code that another *)
(* task can slip into is a step boundary.                                  *)
(***************************************************************************)
EXTENDS Naturals, FiniteSets

CONSTANTS Pods,        \* the ids of the rows the conversation may get, 1..n
          MaxOps,      \* how many operations are begun
          MaxFaults    \* how many calls may fail and how often the server may die

ASSUME PodAssumption == /\ Pods \subseteq Nat \ {0} /\ IsFiniteSet(Pods)
                        /\ MaxOps \in Nat /\ MaxFaults \in Nat

VARIABLES convo,    \* the conversation's row exists
          row,      \* sandbox_pods: "none" so far, "live", "ended", "deleted"
          mark,     \* quietly_stopped_at: "no", "fresh", or "due" past the grace
          tried,    \* storage_removal_started_at is set
          pod,      \* the cluster's object of that name
          claim,    \* the cluster's claims: "none", "ok", "doomed"
          cmd,      \* the pod a command runs in, or 0
          lock,     \* the holders of the turn lock and of the pod-start lock
          task,     \* the server's tasks
          notices,  \* how often the model was told the grace pass removed it
          mine,     \* (history) the pass removed this stop's claims, or may have
          kept,     \* (history) a user's Stop of this pod returned
          ops,      \* operations begun so far
          faults,   \* failed calls and crashes so far
          crashes   \* (history) the crashes among them
database == <<convo, row, mark, tried>>
cluster == <<pod, claim>>
history == <<notices, mine, kept, crashes>>
vars == <<database, cluster, cmd, lock, task, history, ops, faults>>

Claims == {"docker", "workspace"}
Tasks == {"start", "turn", "stop", "quiet", "grace", "remove", "delete", "watch"}
TaskAt(pc, p) == [pc |-> pc, pod |-> p, end |-> "plain", next |-> "idle", before |-> FALSE]
Idle == TaskAt("idle", 0)
NoHolder == [turn |-> "free", start |-> "free"]
\* Where a task can be.
Places == {"idle", "wait_lock", "wait_gone", "claims", "create", "wait_running", "creds",
           "check", "check_convo", "failed", "tear_pods", "tear_claims", "queued", "run",
           "term", "close", "try", "wait_turn", "wait_start", "check_finished", "rm", "rm_on",
           "rm_wait", "rm_claims", "settle", "settle_deleted", "settle_left", "err",
           "notice", "clear", "sweep"}
TaskRecords == [pc : Places, pod : Pods \cup {0}, end : {"plain", "quiet", "user"},
                next : {"idle", "run", "rm_on"}, before : BOOLEAN]
PodStates == {"none", "starting", "running", "dead", "stopping"}

TypeOK == /\ convo \in BOOLEAN
          /\ row \in [Pods -> {"none", "live", "ended", "deleted"}]
          /\ mark \in [Pods -> {"no", "fresh", "due"}]
          /\ tried \in [Pods -> BOOLEAN]
          /\ pod \in [Pods -> PodStates]
          /\ claim \in [Claims -> {"none", "ok", "doomed"}]
          /\ cmd \in Pods \cup {0}
          /\ lock \in [turn : Tasks \cup {"free"}, start : Tasks \cup {"free"}]
          /\ task \in [Tasks -> TaskRecords]
          /\ notices \in [Pods -> Nat]
          /\ mine \in [Pods -> BOOLEAN]
          /\ kept \in [Pods -> BOOLEAN]
          /\ ops \in 0..MaxOps
          /\ faults \in 0..MaxFaults
          /\ crashes \in 0..MaxFaults

Init == /\ convo = TRUE
        /\ row = [p \in Pods |-> "none"]
        /\ mark = [p \in Pods |-> "no"]
        /\ tried = [p \in Pods |-> FALSE]
        /\ pod = [p \in Pods |-> "none"]
        /\ claim = [c \in Claims |-> "none"]
        /\ cmd = 0
        /\ lock = NoHolder
        /\ task = [t \in Tasks |-> Idle]
        /\ notices = [p \in Pods |-> 0]
        /\ mine = [p \in Pods |-> FALSE]
        /\ kept = [p \in Pods |-> FALSE]
        /\ ops = 0
        /\ faults = 0
        /\ crashes = 0
-----------------------------------------------------------------------------
(***************************************************************************)
(* Tasks, locks and failing calls.                                         *)
(***************************************************************************)
At(t, pc) == task[t].pc = pc
Go(t, pc) == task' = [task EXCEPT ![t].pc = pc]
GoWith(t, pc, p) == task' = [task EXCEPT ![t] = TaskAt(pc, p)]
Released(t) == [turn |-> IF lock.turn = t THEN "free" ELSE lock.turn,
                start |-> IF lock.start = t THEN "free" ELSE lock.start]
\* The task returns, and its guards drop: every lock it holds is free.
Return(t) == task' = [task EXCEPT ![t] = Idle] /\ lock' = Released(t)
Fault == faults < MaxFaults /\ faults' = faults + 1 /\ UNCHANGED ops
NoFault == UNCHANGED <<faults, ops>>
\* An operation begins, within the bound.
Begins == ops < MaxOps /\ ops' = ops + 1 /\ UNCHANGED faults

LiveRows == {p \in Pods : row[p] = "live"}
Latest(p) == \A q \in Pods : q > p => row[q] = "none"
Deleted(s) == IF s = "none" THEN "none" ELSE "stopping"
\* A deleted pod's object stands until its containers have ended.
DeletePods(S) == pod' = [p \in Pods |-> IF p \in S THEN Deleted(pod[p]) ELSE pod[p]]
DeleteClaims(S) == claim' = [c \in Claims |-> IF c \in S /\ claim[c] = "ok" THEN "doomed" ELSE claim[c]]
\* turn_running: a turn that runs, or is queued behind the lock.
TurnRunning == ~At("turn", "idle")

\* Mutation: the user's Stop leaves a quiet stop's mark.
CloseRowKeepsMark(p, end) ==
    IF row[p] = "deleted" \/ (end = "quiet" /\ row[p] # "live")
    THEN UNCHANGED <<row, mark>>
    ELSE /\ row' = [row EXCEPT ![p] = "ended"]
         /\ mark' = IF end = "quiet" THEN [mark EXCEPT ![p] = "fresh"] ELSE mark
\* terminate_sandbox_pod_as: a Plain end always, a Quiet one only of a live
\* row and with its mark, a user's keeping an earlier end and clearing the mark.
CloseRow(p, end) ==
    IF row[p] = "deleted" \/ (end = "quiet" /\ row[p] # "live")
    THEN UNCHANGED <<row, mark>>
    ELSE /\ row' = [row EXCEPT ![p] = "ended"]
         /\ mark' = CASE end = "quiet" -> [mark EXCEPT ![p] = "fresh"]
                      [] end = "user"  -> [mark EXCEPT ![p] = "no"]
                      [] OTHER         -> mark
-----------------------------------------------------------------------------
(***************************************************************************)
(* terminate_pod_as, for every task that ends one pod: the cluster's       *)
(* delete, then the row.  (Its deregister is PodConn's.)                   *)
(***************************************************************************)
Enders == {"turn", "stop", "quiet", "remove", "watch"}

\* delete_terminated_pod: gone already is as good as deleted.
ClusterDelete(t) ==
    /\ At(t, "term")
    /\ DeletePods({task[t].pod})
    /\ Go(t, "close")
    /\ NoFault /\ UNCHANGED <<database, claim, cmd, lock, history>>

\* The row is closed; then the ended pod's terminals, and its command with them.
Close(t) ==
    LET p == task[t].pod
        closed == row[p] # "deleted" /\ (task[t].end = "quiet" => row[p] = "live") IN
    /\ At(t, "close")
    /\ CloseRow(p, task[t].end)
    /\ cmd' = IF closed /\ cmd = p THEN 0 ELSE cmd
    /\ kept' = [kept EXCEPT ![p] = @ \/ t = "stop"]
    /\ IF task[t].next = "idle" THEN Return(t) ELSE GoWith(t, task[t].next, 0) /\ UNCHANGED lock
    /\ NoFault /\ UNCHANGED <<convo, tried, cluster, notices, mine, crashes>>

\* Either step fails, and the caller returns: the row stays live.
TermFails(t) ==
    /\ At(t, "term") \/ At(t, "close")
    /\ Return(t)
    /\ Fault /\ UNCHANGED <<database, cluster, cmd, history>>

Terminate(t) == ClusterDelete(t) \/ Close(t) \/ TermFails(t)
-----------------------------------------------------------------------------
(***************************************************************************)
(* A pod's start: run_pod_start's own task, under the pod-start lock.      *)
(***************************************************************************)
\* create_pod or start_or_get_pod: from a turn's tool call or the user's clone.
StartAsk ==
    /\ At("start", "idle") /\ \E p \in Pods : row[p] = "none"
    /\ GoWith("start", "wait_lock", 0)
    /\ Begins /\ UNCHANGED <<database, cluster, cmd, lock, history>>

\* The lock, then check_pod_guard and the row's insert: a live row is a
\* refusal (or the pod to reuse), a missing conversation a failed insert.
StartRow ==
    /\ At("start", "wait_lock") /\ lock.start = "free"
    /\ \/ /\ LiveRows # {}
          /\ Return("start") /\ UNCHANGED row
       \/ /\ LiveRows = {} /\ ~convo
          /\ Go("start", "failed") /\ lock' = [lock EXCEPT !.start = "start"]
          /\ UNCHANGED row
       \/ /\ LiveRows = {} /\ convo
          /\ \E p \in Pods :
                /\ row[p] = "none" /\ \A q \in Pods : q < p => row[q] # "none"
                /\ row' = [row EXCEPT ![p] = "live"]
                /\ GoWith("start", "wait_gone", p)
          /\ lock' = [lock EXCEPT !.start = "start"]
    /\ NoFault /\ UNCHANGED <<convo, mark, tried, cluster, cmd, history>>

\* A failed step of the start closes its row; create_pod_now looks further.
StartFails == CloseRow(task["start"].pod, "plain") /\ Go("start", "failed")

\* wait_for_conversation_pods_gone, its timeout, or a list that fails.
StartWaitsGone ==
    /\ At("start", "wait_gone")
    /\ \/ /\ \A p \in Pods : pod[p] = "none"
          /\ Go("start", "claims") /\ UNCHANGED <<row, mark>> /\ NoFault
       \/ /\ \E p \in Pods : pod[p] # "none"
          /\ StartFails /\ NoFault
       \/ Fault /\ StartFails
    /\ UNCHANGED <<convo, tried, cluster, cmd, lock, history>>

\* ensure_conversation_pvcs: a missing claim is made, a doomed one is waited
\* out and never mounted; past the wait, or on a failed call, the start fails.
StartClaims ==
    /\ At("start", "claims")
    /\ \/ /\ \A c \in Claims : claim[c] # "doomed"
          /\ claim' = [c \in Claims |-> "ok"]
          /\ Go("start", "create") /\ UNCHANGED <<row, mark>> /\ NoFault
       \/ /\ \E c \in Claims : claim[c] = "doomed"
          /\ StartFails /\ UNCHANGED claim /\ NoFault
       \/ /\ Fault /\ StartFails
          /\ claim' \in {claim, [claim EXCEPT !["docker"] = IF @ = "none" THEN "ok" ELSE @]}
    /\ UNCHANGED <<convo, tried, pod, cmd, lock, history>>

\* create_with_docker: the pod's object.
StartCreate ==
    /\ At("start", "create")
    /\ \/ /\ pod' = [pod EXCEPT ![task["start"].pod] = "starting"]
          /\ Go("start", "wait_running") /\ UNCHANGED <<row, mark>> /\ NoFault
       \/ Fault /\ StartFails /\ UNCHANGED pod
    /\ UNCHANGED <<convo, tried, claim, cmd, lock, history>>

\* wait_for_running: a pod that is deleted meanwhile, or never runs, is a
\* failed start, which deletes what it made.
StartWaitsRunning ==
    LET p == task["start"].pod IN
    /\ At("start", "wait_running")
    /\ \/ /\ pod[p] = "running"
          /\ Go("start", "creds") /\ UNCHANGED <<row, mark, pod>>
       \/ /\ pod[p] # "running"
          /\ DeletePods({p}) /\ StartFails
    /\ NoFault /\ UNCHANGED <<convo, tried, claim, cmd, lock, history>>

\* install_into_new_pod.
StartCredentials ==
    /\ At("start", "creds")
    /\ \/ Go("start", "check") /\ UNCHANGED <<row, mark, pod>> /\ NoFault
       \/ Fault /\ DeletePods({task["start"].pod}) /\ StartFails
    /\ UNCHANGED <<convo, tried, claim, cmd, lock, history>>

\* Was the record closed while the pod started?  An unreadable one counts as live.
StartCheckRow ==
    LET p == task["start"].pod IN
    /\ At("start", "check")
    /\ \/ row[p] = "live" /\ Go("start", "check_convo") /\ UNCHANGED pod /\ NoFault
       \/ row[p] # "live" /\ Go("start", "failed") /\ DeletePods({p}) /\ NoFault
       \/ row[p] # "live" /\ Go("start", "check_convo") /\ UNCHANGED pod /\ Fault
    /\ UNCHANGED <<database, claim, cmd, lock, history>>

\* Was the conversation deleted while the pod started?
StartCheckConvo ==
    /\ At("start", "check_convo")
    /\ \/ convo /\ Return("start") /\ NoFault
       \/ ~convo /\ Go("start", "tear_pods") /\ UNCHANGED lock /\ NoFault
       \/ ~convo /\ Return("start") /\ Fault
    /\ UNCHANGED <<database, cluster, cmd, history>>

\* Mutation: a failed start leaves what it made to the delete.
StartFailedLeaves ==
    /\ At("start", "failed") /\ Return("start") /\ NoFault
    /\ UNCHANGED <<database, cluster, cmd, history>>
\* create_pod_now: a failed start of a deleted conversation clears up after it.
StartFailed ==
    /\ At("start", "failed")
    /\ \/ convo /\ Return("start") /\ NoFault
       \/ ~convo /\ Go("start", "tear_pods") /\ UNCHANGED lock /\ NoFault
       \/ ~convo /\ Return("start") /\ Fault
    /\ UNCHANGED <<database, cluster, cmd, history>>

Start == \/ StartAsk \/ StartRow \/ StartWaitsGone \/ StartClaims \/ StartCreate
         \/ StartWaitsRunning \/ StartCredentials \/ StartCheckRow
         \/ StartCheckConvo \/ StartFailed
-----------------------------------------------------------------------------
(***************************************************************************)
(* The turn, and the user's Stop.                                          *)
(***************************************************************************)
TurnAdmit ==
    /\ convo /\ At("turn", "idle")
    /\ GoWith("turn", "queued", 0)
    /\ Begins /\ UNCHANGED <<database, cluster, cmd, lock, history>>

TurnLock ==
    /\ At("turn", "queued") /\ lock.turn = "free"
    /\ lock' = [lock EXCEPT !.turn = "turn"] /\ Go("turn", "run")
    /\ NoFault /\ UNCHANGED <<database, cluster, cmd, history>>

\* A tool call starts a command in the live pod, once its agent answers.
TurnCommand(p) ==
    /\ At("turn", "run") /\ row[p] = "live" /\ pod[p] = "running" /\ cmd = 0
    /\ cmd' = p
    /\ NoFault /\ UNCHANGED <<database, cluster, lock, task, history>>

\* The model's terminate_pod: refused while the pod has a live terminal.
TurnTerminates(p) ==
    /\ At("turn", "run") /\ row[p] = "live" /\ cmd # p
    /\ task' = [task EXCEPT !["turn"].pc = "term", !["turn"].pod = p, !["turn"].next = "run"]
    /\ NoFault /\ UNCHANGED <<database, cluster, cmd, lock, history>>

\* The turn ends, or a stop drops its future wherever it is.
TurnEnd ==
    /\ ~At("turn", "idle") /\ Return("turn")
    /\ NoFault /\ UNCHANGED <<database, cluster, cmd, history>>

CommandExits ==
    /\ cmd # 0 /\ cmd' = 0
    /\ NoFault /\ UNCHANGED <<database, cluster, lock, task, history>>

\* stop_pod_for_user: the row is live; it takes neither lock.
UserStop(p) ==
    /\ At("stop", "idle") /\ row[p] = "live"
    /\ task' = [task EXCEPT !["stop"] = [TaskAt("term", p) EXCEPT !.end = "user"]]
    /\ Begins /\ UNCHANGED <<database, cluster, cmd, lock, history>>

\* The request is dropped: its future goes.
UserLeaves ==
    /\ ~At("stop", "idle") /\ Return("stop")
    /\ NoFault /\ UNCHANGED <<database, cluster, cmd, history>>

Turn == \/ TurnAdmit \/ TurnLock \/ TurnEnd \/ CommandExits
        \/ \E p \in Pods : TurnCommand(p) \/ TurnTerminates(p)
-----------------------------------------------------------------------------
(***************************************************************************)
(* The quiet stop: of an idle pod by the pass, which takes no lock it has  *)
(* to wait for, and of a finished agent's pod, which waits for both.       *)
(***************************************************************************)
Stoppable(p) == row[p] = "live" /\ cmd # p
TakeBoth(t) == lock' = [turn |-> t, start |-> t]

QuietCandidate(p) ==
    /\ At("quiet", "idle") /\ Stoppable(p) /\ ~TurnRunning
    /\ GoWith("quiet", "try", p)
    /\ Begins /\ UNCHANGED <<database, cluster, cmd, lock, history>>

\* between_turns without waiting, then the start lock's try_lock.
QuietTryLocks ==
    /\ At("quiet", "try")
    /\ IF lock = NoHolder THEN TakeBoth("quiet") /\ Go("quiet", "check")
       ELSE Return("quiet")
    /\ NoFault /\ UNCHANGED <<database, cluster, cmd, history>>

\* stop_finished_agent_pod: the turn lock, then the start lock.
FinishCandidate(p) ==
    /\ At("quiet", "idle") /\ row[p] = "live"
    /\ GoWith("quiet", "wait_turn", p)
    /\ Begins /\ UNCHANGED <<database, cluster, cmd, lock, history>>
FinishWaits ==
    /\ \/ At("quiet", "wait_turn") /\ lock.turn = "free"
          /\ lock' = [lock EXCEPT !.turn = "quiet"] /\ Go("quiet", "wait_start")
       \/ At("quiet", "wait_start") /\ lock.start = "free"
          /\ lock' = [lock EXCEPT !.start = "quiet"] /\ Go("quiet", "check_finished")
    /\ NoFault /\ UNCHANGED <<database, cluster, cmd, history>>

\* The re-check under both locks; then stop_locked.  The finish stop does not
\* ask whether a turn waits: the lock decides between them.
QuietCheck ==
    LET p == task["quiet"].pod
        turnWaits == At("quiet", "check") /\ TurnRunning IN
    /\ At("quiet", "check") \/ At("quiet", "check_finished")
    /\ \/ /\ Stoppable(p) /\ ~turnWaits
          /\ task' = [task EXCEPT !["quiet"].pc = "term", !["quiet"].end = "quiet"]
          /\ UNCHANGED lock /\ NoFault
       \/ ~(Stoppable(p) /\ ~turnWaits) /\ Return("quiet") /\ NoFault
       \/ Return("quiet") /\ Fault
    /\ UNCHANGED <<database, cluster, cmd, history>>

Quiet == \/ QuietTryLocks \/ FinishWaits \/ QuietCheck
         \/ \E p \in Pods : QuietCandidate(p) \/ FinishCandidate(p)
-----------------------------------------------------------------------------
(***************************************************************************)
(* Storage removal, shared by the user's request and the grace pass:       *)
(* remove_conversation_storage_locked, with the start lock held.           *)
(***************************************************************************)
Removers == {"grace", "remove"}

\* The user asks; the removal is a task of its own and waits for the lock.
RemoveAsk ==
    /\ At("remove", "idle") /\ convo /\ \E p \in Pods : row[p] # "none"
    /\ GoWith("remove", "wait_lock", 0)
    /\ Begins /\ UNCHANGED <<database, cluster, cmd, lock, history>>
RemoveLock ==
    /\ At("remove", "wait_lock") /\ lock.start = "free"
    /\ lock' = [lock EXCEPT !.start = "remove"] /\ Go("remove", "rm")
    /\ NoFault /\ UNCHANGED <<database, cluster, cmd, history>>

\* A gone conversation is left to its teardown; live pods are ended first (the
\* grace pass finds none: its row is the latest, and ended).
RemovePods(t) ==
    /\ At(t, "rm")
    /\ \/ ~convo /\ Go(t, "settle")
       \/ /\ convo /\ LiveRows # {}
          /\ \E p \in LiveRows :
                task' = [task EXCEPT ![t].pc = "term", ![t].next = "rm_on", ![t].pod = p]
       \/ convo /\ LiveRows = {} /\ Go(t, "rm_wait")
    /\ NoFault /\ UNCHANGED <<database, cluster, cmd, lock, history>>

\* With its pods ended it goes on, and looks at the conversation no more.
RemoveGoesOn ==
    /\ At("remove", "rm_on") /\ LiveRows = {} /\ Go("remove", "rm_wait")
    /\ NoFault /\ UNCHANGED <<database, cluster, cmd, lock, history>>

\* Mutation: the removal goes on past its wait for the pods.
RemoveWaitsNot(t) ==
    /\ At(t, "rm_wait") /\ Go(t, "rm_claims")
    /\ NoFault /\ UNCHANGED <<database, cluster, cmd, lock, history>>

\* wait_for_conversation_pods_gone; its timeout, or a list that fails, leaves
\* the claims intact.
RemoveWaits(t) ==
    /\ At(t, "rm_wait")
    /\ \/ NoFault /\ Go(t, IF \A p \in Pods : pod[p] = "none" THEN "rm_claims" ELSE "err")
       \/ Fault /\ Go(t, "err")
    /\ UNCHANGED <<database, cluster, cmd, lock, history>>

\* Both claims by name; a claim whose delete fails is left behind.
RemoveClaims(t) ==
    /\ At(t, "rm_claims")
    /\ \/ /\ DeleteClaims(Claims) /\ NoFault
          /\ Go(t, IF \E c \in Claims : claim[c] = "ok" THEN "settle_deleted" ELSE "settle")
       \/ /\ Fault
          /\ \E S \in SUBSET Claims : S # Claims /\ DeleteClaims(S)
          /\ Go(t, "settle_left")
    /\ mine' = [p \in Pods |-> mine[p] \/ (t = "grace" /\ p = task[t].pod /\ claim' # claim)]
    /\ UNCHANGED <<database, pod, cmd, lock, notices, kept, crashes>>

\* The user's removal settles the quiet stops too, unless a claim is left.
RemoveSettles ==
    /\ At("remove", "settle") \/ At("remove", "settle_deleted")
    /\ \/ /\ mark' = [p \in Pods |-> "no"] /\ tried' = [p \in Pods |-> FALSE]
          /\ NoFault
       \/ Fault /\ UNCHANGED <<mark, tried>>
    /\ Return("remove")
    /\ UNCHANGED <<convo, row, cluster, cmd, history>>
RemoveReturns ==
    /\ At("remove", "settle_left") \/ At("remove", "err")
    /\ Return("remove")
    /\ NoFault /\ UNCHANGED <<database, cluster, cmd, history>>

RemoveBody(t) == RemovePods(t) \/ RemoveWaits(t) \/ RemoveClaims(t)
Remove == \/ RemoveAsk \/ RemoveLock \/ RemoveBody("remove") \/ RemoveGoesOn
          \/ RemoveSettles \/ RemoveReturns
-----------------------------------------------------------------------------
(***************************************************************************)
(* The storage-grace pass.                                                 *)
(***************************************************************************)
Due(p) == mark[p] = "due" /\ Latest(p) /\ convo

\* The grace runs out: days in which no request is still under way.
Expire(p) ==
    /\ mark[p] = "fresh" /\ At("stop", "idle") /\ At("remove", "idle")
    /\ mark' = [mark EXCEPT ![p] = "due"]
    /\ NoFault /\ UNCHANGED <<convo, row, tried, cluster, cmd, lock, task, history>>

GraceCandidate(p) ==
    /\ At("grace", "idle") /\ Due(p) /\ ~TurnRunning
    /\ GoWith("grace", "try", p)
    /\ Begins /\ UNCHANGED <<database, cluster, cmd, lock, history>>

GraceTryLocks ==
    /\ At("grace", "try")
    /\ IF lock = NoHolder THEN TakeBoth("grace") /\ Go("grace", "check")
       ELSE Return("grace")
    /\ NoFault /\ UNCHANGED <<database, cluster, cmd, history>>

\* The re-check, and start_storage_removal's record of the attempt.
GraceCheck ==
    LET p == task["grace"].pod
        go == Due(p) /\ ~TurnRunning IN
    /\ At("grace", "check")
    /\ \/ /\ go /\ NoFault
          /\ tried' = [tried EXCEPT ![p] = TRUE]
          /\ task' = [task EXCEPT !["grace"].pc = "rm", !["grace"].before = tried[p]]
          /\ UNCHANGED lock
       \/ ~go /\ Return("grace") /\ UNCHANGED tried /\ NoFault
       \/ Return("grace") /\ UNCHANGED tried /\ Fault
    /\ UNCHANGED <<convo, row, mark, cluster, cmd, history>>

\* The removal outlasts its bound: dropped wherever it is, some claims gone.
GraceTimeout ==
    /\ task["grace"].pc \in {"rm", "rm_wait", "rm_claims"}
    /\ \/ UNCHANGED claim
       \/ At("grace", "rm_claims") /\ (DeleteClaims({"docker"}) \/ DeleteClaims(Claims))
    /\ mine' = [mine EXCEPT ![task["grace"].pod] = TRUE]
    /\ Return("grace")
    /\ NoFault /\ UNCHANGED <<database, pod, cmd, notices, kept, crashes>>

\* A removal that failed before the claims: a first attempt is forgotten, so
\* that a retry does not take another's removal for its own.
GraceFailed ==
    LET p == task["grace"].pod IN
    /\ At("grace", "err")
    /\ \/ tried' = [tried EXCEPT ![p] = task["grace"].before] /\ NoFault
       \/ UNCHANGED tried /\ Fault
    /\ Return("grace")
    /\ UNCHANGED <<convo, row, mark, cluster, cmd, history>>
GraceLeft ==
    /\ At("grace", "settle_left") /\ Return("grace")
    /\ NoFault /\ UNCHANGED <<database, cluster, cmd, history>>

\* Mutation: claims found gone are told of, whoever removed them.
GraceForgetsTells ==
    /\ At("grace", "settle") \/ At("grace", "settle_deleted")
    /\ \/ /\ tried' = [tried EXCEPT ![task["grace"].pod] = FALSE]
          /\ Go("grace", "notice") /\ UNCHANGED lock /\ NoFault
       \/ Return("grace") /\ UNCHANGED tried /\ Fault
    /\ UNCHANGED <<convo, row, mark, cluster, cmd, history>>
\* The claims are gone: the attempt is forgotten first.  (The pass has stopped no
\* live pod, which would be a notice of its own: RemovePods.)
GraceForgets ==
    LET t == task["grace"] IN
    /\ At("grace", "settle") \/ At("grace", "settle_deleted")
    /\ \/ /\ tried' = [tried EXCEPT ![t.pod] = FALSE]
          /\ Go("grace", IF t.pc = "settle_deleted" \/ t.before THEN "notice" ELSE "clear")
          /\ UNCHANGED lock /\ NoFault
       \/ Return("grace") /\ UNCHANGED tried /\ Fault
    /\ UNCHANGED <<convo, row, mark, cluster, cmd, history>>

\* save_removal_notice, in place; a conversation deleted meanwhile gets none.
GraceNotice ==
    /\ At("grace", "notice")
    /\ notices' = [notices EXCEPT ![task["grace"].pod] = IF convo THEN @ + 1 ELSE @]
    /\ Go("grace", "clear")
    /\ NoFault /\ UNCHANGED <<database, cluster, cmd, lock, mine, kept, crashes>>

\* clear_pod_quiet_stop_mark; should it fail, the next pass settles it again.
GraceClear ==
    LET p == task["grace"].pod IN
    /\ At("grace", "clear")
    /\ \/ mark' = [mark EXCEPT ![p] = "no"] /\ tried' = [tried EXCEPT ![p] = FALSE] /\ NoFault
       \/ UNCHANGED <<mark, tried>> /\ Fault
    /\ Return("grace")
    /\ UNCHANGED <<convo, row, cluster, cmd, history>>

Grace == \/ GraceTryLocks \/ GraceCheck \/ RemoveBody("grace") \/ GraceTimeout
         \/ GraceFailed \/ GraceLeft \/ GraceForgets \/ GraceNotice \/ GraceClear
         \/ \E p \in Pods : Expire(p) \/ GraceCandidate(p)
-----------------------------------------------------------------------------
(***************************************************************************)
(* The conversation's delete and its teardown, the watcher, the server.    *)
(***************************************************************************)
\* The rows go first, once its turn has ended; then teardown_conversation.
Delete ==
    /\ convo /\ At("delete", "idle") /\ At("turn", "idle")
    /\ convo' = FALSE
    /\ row' = [p \in Pods |-> IF row[p] = "none" THEN "none" ELSE "deleted"]
    /\ mark' = [p \in Pods |-> "no"] /\ tried' = [p \in Pods |-> FALSE]
    /\ Go("delete", "tear_pods")
    /\ Begins /\ UNCHANGED <<cluster, cmd, lock, history>>

\* teardown_conversation_with: the pods by label, then the claims; each delete
\* is best-effort.
TearPods(t) ==
    /\ At(t, "tear_pods")
    /\ \/ DeletePods(Pods) /\ NoFault
       \/ \E S \in SUBSET Pods : S # Pods /\ DeletePods(S) /\ Fault
    /\ Go(t, "tear_claims")
    /\ UNCHANGED <<database, claim, cmd, lock, history>>
TearClaims(t) ==
    /\ At(t, "tear_claims")
    /\ \/ DeleteClaims(Claims) /\ NoFault
       \/ \E S \in SUBSET Claims : S # Claims /\ DeleteClaims(S) /\ Fault
    /\ Return(t)
    /\ UNCHANGED <<database, pod, cmd, history>>

\* close_if_gone finds no running pod behind a live row; a reconnect finds the
\* pod dead, or gives up on it unless its start is under way.
Watch(p) ==
    /\ At("watch", "idle") /\ row[p] = "live"
    /\ pod[p] \notin {"none", "dead"} => lock.start = "free"
    /\ GoWith("watch", "term", p)
    /\ Begins /\ UNCHANGED <<database, cluster, cmd, lock, history>>

\* The server dies, and with it every task, lock and mark in memory.
Crash ==
    /\ Fault /\ crashes' = crashes + 1
    /\ task' = [t \in Tasks |-> IF t = "delete" THEN TaskAt("sweep", 0) ELSE Idle]
    /\ lock' = NoHolder
    /\ mine' = [p \in Pods |-> mine[p] \/ task["grace"].pod = p]
    /\ UNCHANGED <<database, cluster, cmd, notices, kept>>

\* sweep_orphaned_conversation_claims, once at startup.
Sweep ==
    /\ At("delete", "sweep")
    /\ IF convo THEN UNCHANGED claim ELSE DeleteClaims(Claims)
    /\ Return("delete")
    /\ NoFault /\ UNCHANGED <<database, pod, cmd, history>>

\* Kubernetes: a pod comes up, its containers end, a deleted one goes, and a
\* deleted claim goes once no pod holds it.
PodRuns(p) == pod[p] = "starting" /\ pod' = [pod EXCEPT ![p] = "running"] /\ UNCHANGED claim
PodDies(p) == pod[p] \in {"starting", "running"} /\ pod' = [pod EXCEPT ![p] = "dead"] /\ UNCHANGED claim
PodGone(p) == pod[p] = "stopping" /\ pod' = [pod EXCEPT ![p] = "none"] /\ UNCHANGED claim
Holds(p) == pod[p] \in {"starting", "running", "stopping"}
ClaimGone(c) == /\ claim[c] = "doomed" /\ ~\E p \in Pods : Holds(p)
                /\ claim' = [claim EXCEPT ![c] = "none"] /\ UNCHANGED pod
Kubernetes == /\ \/ \E p \in Pods : PodRuns(p) \/ PodDies(p) \/ PodGone(p)
                 \/ \E c \in Claims : ClaimGone(c)
              /\ NoFault /\ UNCHANGED <<database, cmd, lock, task, history>>

Next == \/ Start \/ Turn \/ Quiet \/ Remove \/ Grace \/ Delete \/ Crash \/ Sweep \/ Kubernetes
        \/ \E t \in Enders : Terminate(t)
        \/ \E t \in {"start", "delete"} : TearPods(t) \/ TearClaims(t)
        \/ \E p \in Pods : UserStop(p) \/ Watch(p)
        \/ UserLeaves

Spec == Init /\ [][Next]_vars
-----------------------------------------------------------------------------
(***************************************************************************)
(* Correctness.                                                            *)
(***************************************************************************)
\* All these steps implement the storage's abstract specification, its holders
\* the pods whose object stands.  So the claims are mounted by one pod at a time
\* (two Docker daemons on one data directory corrupt it), and a second one is
\* not even made while the first one's object stands (create_pod's wait, under
\* the start lock); no pod starts on a claim that is being deleted (ensure_conversation_claim),
\* and none loses one while the conversation exists (the removals' wait).
Holders == {p \in Pods : pod[p] # "none"}
Storage == INSTANCE SandboxStorage WITH alive <- convo, holders <- Holders, volume <- claim
ImplementsStorage == Storage!Spec

\* A user's Stop that returned keeps the storage: its pod is never on the
\* grace pass's clock, however the Stop raced a quiet stop of the same pod.
StopKeepsStorage == \A p \in Pods : kept[p] => mark[p] = "no"

\* No removal notice unless a pass removed the claims itself or gave up on a
\* removal that may have (never for the user's own removal), while one call at
\* most fails; and one for each quiet stop, however many attempts were given up
\* on, while none does.
OneTrueNotice == \A p \in Pods : /\ faults <= 1 /\ notices[p] > 0 => mine[p]
                                 /\ faults = 0 => notices[p] <= 1

\* One removal notice for each quiet stop, also when clearing its mark fails:
\* "one notice per stop still holds" (storage_grace.rs).  It may not (README).
OneNotice == \A p \in Pods : notices[p] <= 1

\* Once the conversation is deleted and every task is done, no pod runs and no
\* claim stands, however a start interleaved with the delete; after a crash the
\* claims go all the same (the startup sweep).
Quiescent == \A t \in Tasks : At(t, "idle")
NothingLeft == ~convo /\ Quiescent =>
                  /\ faults = 0 => \A p \in Pods : pod[p] \in {"none", "stopping"}
                  /\ faults = crashes => \A c \in Claims : claim[c] # "ok"

\* A running pod has a live row, or a start or teardown that will delete it: "a
\* pod left running with no live record is one nothing deletes" (create.rs).
\* A Stop that closes the row late leaves one (README).
NoStrayPod == faults = 0 =>
    \A p \in Pods : pod[p] \in {"starting", "running"} /\ row[p] # "live" =>
        \/ ~At("start", "idle") /\ task["start"].pod = p
        \/ At("delete", "tear_pods")
=============================================================================
