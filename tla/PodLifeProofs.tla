--------------------------- MODULE PodLifeProofs ---------------------------
(***************************************************************************)
(* Proofs about PodLife, for any number of pods, operations and faults.    *)
(***************************************************************************)
EXTENDS PodLife, TLAPS

-----------------------------------------------------------------------------
(* Types.                                                                  *)

TasksOK == /\ task \in [Tasks -> TaskRecords]
           /\ lock \in [turn : Tasks \cup {"free"}, start : Tasks \cup {"free"}]

\* The grace pass is about a pod.
GraceHasPod == task["grace"].pc # "idle" => task["grace"].pod \in Pods

RowsOK == /\ convo \in BOOLEAN
          /\ row \in [Pods -> {"none", "live", "ended", "deleted"}]
          /\ mark \in [Pods -> {"no", "fresh", "due"}]
          /\ tried \in [Pods -> BOOLEAN]
          /\ pod \in [Pods -> PodStates]
          /\ claim \in [Claims -> {"none", "ok", "doomed"}]
          /\ cmd \in Pods \cup {0}
          /\ notices \in [Pods -> Nat]
          /\ mine \in [Pods -> BOOLEAN]
          /\ kept \in [Pods -> BOOLEAN]
          /\ ops \in 0..MaxOps
          /\ faults \in 0..MaxFaults
          /\ crashes \in 0..faults

\* A task's record with several fields changed.
LEMMA TaskRecordKept ==
    ASSUME NEW r \in TaskRecords
    PROVE  /\ \A p \in Pods : [r EXCEPT !.pc = "term", !.pod = p, !.next = "run"] \in TaskRecords
           /\ [r EXCEPT !.pc = "term", !.end = "quiet"] \in TaskRecords
           /\ \A b \in BOOLEAN : [r EXCEPT !.pc = "rm", !.before = b] \in TaskRecords
  BY DEF TaskRecords, Places

\* A start's steps keep the tasks and the two locks typed (run_pod_start's
\* path, its refusals and its failures).
LEMMA StartTasks ==
    ASSUME TasksOK, Start
    PROVE  TasksOK'
<1> USE DEF TasksOK, Tasks, Go, GoWith, Return, Released, TaskAt, Idle, TaskRecords, Places
<1>1. CASE StartAsk
  BY <1>1 DEF StartAsk
<1>2. CASE StartRow
  <2>1. \/ Return("start")
        \/ Go("start", "failed") /\ lock' = [lock EXCEPT !.start = "start"]
        \/ (\E p \in Pods : GoWith("start", "wait_gone", p)) /\ lock' = [lock EXCEPT !.start = "start"]
    BY <1>2 DEF StartRow
  <2>2. CASE Return("start")
    BY <2>2
  <2>3. CASE Go("start", "failed") /\ lock' = [lock EXCEPT !.start = "start"]
    BY <2>3
  <2>4. ASSUME NEW p \in Pods, GoWith("start", "wait_gone", p), lock' = [lock EXCEPT !.start = "start"]
        PROVE  TasksOK'
    BY <2>4
  <2> QED BY <2>1, <2>2, <2>3, <2>4
<1>3. CASE StartWaitsGone
  BY <1>3 DEF StartWaitsGone, StartFails
<1>4. CASE StartClaims
  BY <1>4 DEF StartClaims, StartFails
<1>5. CASE StartCreate
  BY <1>5 DEF StartCreate, StartFails
<1>6. CASE StartWaitsRunning
  BY <1>6 DEF StartWaitsRunning, StartFails
<1>7. CASE StartCredentials
  BY <1>7 DEF StartCredentials, StartFails
<1>8. CASE StartCheckRow
  BY <1>8 DEF StartCheckRow
<1>9. CASE StartCheckConvo
  <2>1. Return("start") \/ (Go("start", "tear_pods") /\ lock' = lock)
    BY <1>9 DEF StartCheckConvo
  <2>2. CASE Return("start")
    BY <2>2
  <2>3. CASE Go("start", "tear_pods") /\ lock' = lock
    BY <2>3
  <2> QED BY <2>1, <2>2, <2>3
<1>10. CASE StartFailed
  <2>1. Return("start") \/ (Go("start", "tear_pods") /\ lock' = lock)
    BY <1>10 DEF StartFailed
  <2>2. CASE Return("start")
    BY <2>2
  <2>3. CASE Go("start", "tear_pods") /\ lock' = lock
    BY <2>3
  <2> QED BY <2>1, <2>2, <2>3
<1> QED BY <1>1, <1>2, <1>3, <1>4, <1>5, <1>6, <1>7, <1>8, <1>9, <1>10 DEF Start

\* So do terminate_pod_as's, for each task that ends a pod.
LEMMA TerminateTasks ==
    ASSUME TasksOK, NEW t \in Enders, Terminate(t)
    PROVE  TasksOK'
<1> USE DEF TasksOK, Tasks, Go, GoWith, Return, Released, TaskAt, Idle, TaskRecords, Places
<1>1. CASE ClusterDelete(t)
  BY <1>1 DEF ClusterDelete, Enders
<1>2. CASE Close(t)
  <2>1. \/ Return(t)
        \/ GoWith(t, task[t].next, 0) /\ lock' = lock
    BY <1>2 DEF Close
  <2>2. CASE Return(t)
    BY <2>2 DEF Enders
  <2>3. CASE GoWith(t, task[t].next, 0) /\ lock' = lock
    BY <2>3 DEF Enders
  <2> QED BY <2>1, <2>2, <2>3
<1>3. CASE TermFails(t)
  BY <1>3 DEF TermFails, Enders
<1> QED BY <1>1, <1>2, <1>3 DEF Enders, Terminate

\* So do the turn's, and the user's Stop and its dropped request.
LEMMA TurnTasks ==
    ASSUME TasksOK, Turn \/ UserLeaves \/ \E p \in Pods : UserStop(p)
    PROVE  TasksOK'
<1> USE DEF TasksOK, Tasks, Go, GoWith, Return, Released, TaskAt, Idle, TaskRecords, Places
<1>1. CASE TurnAdmit
  BY <1>1 DEF TurnAdmit
<1>2. CASE TurnLock
  BY <1>2 DEF TurnLock
<1>3. CASE TurnEnd
  BY <1>3 DEF TurnEnd
<1>4. CASE CommandExits
  BY <1>4 DEF CommandExits
<1>5. ASSUME NEW p \in Pods, TurnCommand(p) PROVE TasksOK'
  BY <1>5 DEF TurnCommand
<1>6. ASSUME NEW p \in Pods, TurnTerminates(p) PROVE TasksOK'
  <2> HIDE DEF TaskRecords, Places
  <2>1. [task["turn"] EXCEPT !.pc = "term", !.pod = p, !.next = "run"] \in TaskRecords
    BY <1>6, TaskRecordKept
  <2> QED BY <1>6, <2>1 DEF TurnTerminates
<1>7. CASE UserLeaves
  BY <1>7 DEF UserLeaves
<1>8. ASSUME NEW p \in Pods, UserStop(p) PROVE TasksOK'
  BY <1>8 DEF UserStop
<1> QED BY <1>1, <1>2, <1>3, <1>4, <1>5, <1>6, <1>7, <1>8 DEF Turn

\* So do the quiet stop's, of an idle and of a finished pod.
LEMMA QuietTasks ==
    ASSUME TasksOK, Quiet
    PROVE  TasksOK'
<1> USE DEF TasksOK, Tasks, Go, GoWith, Return, Released, TaskAt, Idle, TaskRecords, Places
<1>1. CASE QuietTryLocks
  <2>1. \/ Return("quiet")
        \/ Go("quiet", "check") /\ TakeBoth("quiet")
    BY <1>1 DEF QuietTryLocks, TakeBoth
  <2>2. CASE Return("quiet")
    BY <2>2 DEF TakeBoth
  <2>3. CASE Go("quiet", "check") /\ TakeBoth("quiet")
    BY <2>3 DEF TakeBoth
  <2> QED BY <2>1, <2>2, <2>3
<1>2. CASE FinishWaits
  <2>1. \/ Go("quiet", "wait_start") /\ lock' = [lock EXCEPT !.turn = "quiet"]
        \/ Go("quiet", "check_finished") /\ lock' = [lock EXCEPT !.start = "quiet"]
    BY <1>2 DEF FinishWaits
  <2>2. CASE Go("quiet", "wait_start") /\ lock' = [lock EXCEPT !.turn = "quiet"]
    BY <2>2
  <2>3. CASE Go("quiet", "check_finished") /\ lock' = [lock EXCEPT !.start = "quiet"]
    BY <2>3
  <2> QED BY <2>1, <2>2, <2>3
<1>3. CASE QuietCheck
  <2>1. \/ Return("quiet")
        \/ task' = [task EXCEPT !["quiet"].pc = "term", !["quiet"].end = "quiet"] /\ lock' = lock
    BY <1>3 DEF QuietCheck
  <2>2. CASE Return("quiet")
    BY <2>2
  <2>3. CASE task' = [task EXCEPT !["quiet"].pc = "term", !["quiet"].end = "quiet"] /\ lock' = lock
    <3> HIDE DEF TaskRecords, Places
    <3>1. [task["quiet"] EXCEPT !.pc = "term", !.end = "quiet"] \in TaskRecords
      BY TaskRecordKept
    <3> QED BY <2>3, <3>1
  <2> QED BY <2>1, <2>2, <2>3
<1>4. ASSUME NEW p \in Pods, QuietCandidate(p) PROVE TasksOK'
  BY <1>4 DEF QuietCandidate
<1>5. ASSUME NEW p \in Pods, FinishCandidate(p) PROVE TasksOK'
  BY <1>5 DEF FinishCandidate
<1> QED BY <1>1, <1>2, <1>3, <1>4, <1>5 DEF Quiet

\* So do the steps the two storage removals share.
LEMMA RemoveBodyTasks ==
    ASSUME TasksOK, NEW t \in Removers, RemoveBody(t)
    PROVE  TasksOK'
<1> USE DEF TasksOK, Tasks, Go, GoWith, Return, Released, TaskAt, Idle, TaskRecords, Places
<1>1. CASE RemovePods(t)
  <2>1. \/ (Go(t, "settle") \/ Go(t, "rm_wait")) /\ lock' = lock
        \/ (\E p \in Pods : task' = [task EXCEPT ![t].pc = "term", ![t].next = "rm_on", ![t].pod = p]) /\ lock' = lock
    BY <1>1 DEF RemovePods, LiveRows
  <2>2. CASE (Go(t, "settle") \/ Go(t, "rm_wait")) /\ lock' = lock
    BY <2>2 DEF Removers
  <2>3. CASE (\E p \in Pods : task' = [task EXCEPT ![t].pc = "term", ![t].next = "rm_on", ![t].pod = p]) /\ lock' = lock
    BY <2>3 DEF Removers
  <2> QED BY <2>1, <2>2, <2>3
<1>2. CASE RemoveWaits(t)
  <2>1. (Go(t, "rm_claims") \/ Go(t, "err")) /\ lock' = lock
    BY <1>2 DEF RemoveWaits
  <2> QED BY <2>1 DEF Removers
<1>3. CASE RemoveClaims(t)
  <2>1. (Go(t, "settle_deleted") \/ Go(t, "settle") \/ Go(t, "settle_left")) /\ lock' = lock
    BY <1>3 DEF RemoveClaims
  <2> QED BY <2>1 DEF Removers
<1> QED BY <1>1, <1>2, <1>3 DEF RemoveBody, Removers

\* So do the rest of the user's removal's.
LEMMA RemoveTasks ==
    ASSUME TasksOK, RemoveAsk \/ RemoveLock \/ RemoveGoesOn \/ RemoveSettles \/ RemoveReturns
    PROVE  TasksOK'
<1> USE DEF TasksOK, Tasks, Go, GoWith, Return, Released, TaskAt, Idle, TaskRecords, Places
<1>1. CASE RemoveAsk
  BY <1>1 DEF RemoveAsk
<1>2. CASE RemoveLock
  BY <1>2 DEF RemoveLock
<1>3. CASE RemoveSettles
  BY <1>3 DEF RemoveSettles
<1>4. CASE RemoveReturns
  BY <1>4 DEF RemoveReturns
<1>5. CASE RemoveGoesOn
  BY <1>5 DEF RemoveGoesOn
<1> QED BY <1>1, <1>2, <1>3, <1>4, <1>5

\* So do the rest of the grace pass's.
LEMMA GraceTasks ==
    ASSUME TasksOK, RowsOK, GraceHasPod, Grace /\ ~RemoveBody("grace")
    PROVE  TasksOK'
<1> USE DEF TasksOK, Tasks, Go, GoWith, Return, Released, TaskAt, Idle, TaskRecords, Places
<1>1. CASE GraceTryLocks
  <2>1. \/ Return("grace")
        \/ Go("grace", "check") /\ TakeBoth("grace")
    BY <1>1 DEF GraceTryLocks, TakeBoth
  <2>2. CASE Return("grace")
    BY <2>2 DEF TakeBoth
  <2>3. CASE Go("grace", "check") /\ TakeBoth("grace")
    BY <2>3 DEF TakeBoth
  <2> QED BY <2>1, <2>2, <2>3
<1>2. CASE GraceCheck
  <2>1. \/ Return("grace")
        \/ task' = [task EXCEPT !["grace"].pc = "rm", !["grace"].before = tried[task["grace"].pod]] /\ lock' = lock
    BY <1>2 DEF GraceCheck
  <2>2. CASE Return("grace")
    BY <2>2
  <2>3. CASE task' = [task EXCEPT !["grace"].pc = "rm", !["grace"].before = tried[task["grace"].pod]] /\ lock' = lock
    <3>1. tried[task["grace"].pod] \in BOOLEAN
      BY <1>2 DEF GraceCheck, At, RowsOK, GraceHasPod
    <3> HIDE DEF TaskRecords, Places
    <3>2. [task["grace"] EXCEPT !.pc = "rm", !.before = tried[task["grace"].pod]] \in TaskRecords
      BY <3>1, TaskRecordKept
    <3> QED BY <2>3, <3>2
  <2> QED BY <2>1, <2>2, <2>3
<1>3. CASE GraceTimeout
  BY <1>3 DEF GraceTimeout
<1>4. CASE GraceFailed
  BY <1>4 DEF GraceFailed
<1>5. CASE GraceLeft
  BY <1>5 DEF GraceLeft
<1>6. CASE GraceForgets
  <2>1. \/ Return("grace")
        \/ (Go("grace", "notice") \/ Go("grace", "clear")) /\ lock' = lock
    BY <1>6 DEF GraceForgets
  <2>2. CASE Return("grace")
    BY <2>2
  <2>3. CASE (Go("grace", "notice") \/ Go("grace", "clear")) /\ lock' = lock
    BY <2>3
  <2> QED BY <2>1, <2>2, <2>3
<1>7. CASE GraceNotice
  BY <1>7 DEF GraceNotice
<1>8. CASE GraceClear
  BY <1>8 DEF GraceClear
<1>9. ASSUME NEW p \in Pods, Expire(p) PROVE TasksOK'
  BY <1>9 DEF Expire
<1>10. ASSUME NEW p \in Pods, GraceCandidate(p) PROVE TasksOK'
  BY <1>10 DEF GraceCandidate
<1> QED BY <1>1, <1>2, <1>3, <1>4, <1>5, <1>6, <1>7, <1>8, <1>9, <1>10 DEF Grace

\* So do the delete's, its teardown's, the crash's and the cluster's.
LEMMA RestTasks ==
    ASSUME TasksOK, \/ Delete \/ Crash \/ Sweep \/ Kubernetes \/ (\E p \in Pods : Watch(p))
           \/ \E t \in {"start", "delete"} : TearPods(t) \/ TearClaims(t)
    PROVE  TasksOK'
<1> USE DEF TasksOK, Tasks, Go, GoWith, Return, Released, TaskAt, Idle, TaskRecords, Places
<1>1. CASE Delete
  BY <1>1 DEF Delete
<1>2. CASE Crash
  BY <1>2 DEF Crash, NoHolder
<1>3. CASE Sweep
  BY <1>3 DEF Sweep
<1>4. CASE Kubernetes
  BY <1>4 DEF Kubernetes
<1>5. ASSUME NEW p \in Pods, Watch(p) PROVE TasksOK'
  BY <1>5 DEF Watch
<1>6. ASSUME NEW t \in {"start", "delete"}, TearPods(t) PROVE TasksOK'
  BY <1>6 DEF TearPods
<1>7. ASSUME NEW t \in {"start", "delete"}, TearClaims(t) PROVE TasksOK'
  BY <1>7 DEF TearClaims
<1> QED BY <1>1, <1>2, <1>3, <1>4, <1>5, <1>6, <1>7

\* A start's steps keep rows, marks, objects, claims and counters typed.
LEMMA StartRows ==
    ASSUME RowsOK, Start
    PROVE  RowsOK'
<1> USE PodAssumption DEF RowsOK, Fault, NoFault, Begins, database, cluster, history
<1>1. CASE StartAsk
  BY <1>1 DEF StartAsk
<1>2. CASE StartRow
  BY <1>2 DEF StartRow
<1>3. CASE StartWaitsGone
  BY <1>3 DEF StartWaitsGone, StartFails, CloseRow
<1>4. CASE StartClaims
  BY <1>4 DEF StartClaims, StartFails, CloseRow, Claims
<1>5. CASE StartCreate
  BY <1>5 DEF StartCreate, StartFails, CloseRow, PodStates
<1>6. CASE StartWaitsRunning
  BY <1>6 DEF StartWaitsRunning, StartFails, CloseRow, DeletePods, Deleted, PodStates
<1>7. CASE StartCredentials
  BY <1>7 DEF StartCredentials, StartFails, CloseRow, DeletePods, Deleted, PodStates
<1>8. CASE StartCheckRow
  BY <1>8 DEF StartCheckRow, DeletePods, Deleted, PodStates
<1>9. CASE StartCheckConvo
  BY <1>9 DEF StartCheckConvo
<1>10. CASE StartFailed
  BY <1>10 DEF StartFailed
<1> QED BY <1>1, <1>2, <1>3, <1>4, <1>5, <1>6, <1>7, <1>8, <1>9, <1>10 DEF Start

\* So do terminate_pod_as's.
LEMMA TerminateRows ==
    ASSUME RowsOK, NEW t \in Enders, Terminate(t)
    PROVE  RowsOK'
<1> USE PodAssumption DEF RowsOK, Fault, NoFault, Begins, database, cluster, history
<1>1. CASE ClusterDelete(t)
  BY <1>1 DEF ClusterDelete, DeletePods, Deleted, PodStates
<1>2. CASE Close(t)
  BY <1>2 DEF Close, CloseRow
<1>3. CASE TermFails(t)
  BY <1>3 DEF TermFails
<1> QED BY <1>1, <1>2, <1>3 DEF Enders, Terminate

\* So do the turn's and the user's Stop's.
LEMMA TurnRows ==
    ASSUME RowsOK, Turn \/ UserLeaves \/ \E p \in Pods : UserStop(p)
    PROVE  RowsOK'
<1> USE PodAssumption DEF RowsOK, Fault, NoFault, Begins, database, cluster, history
<1>1. CASE TurnAdmit
  BY <1>1 DEF TurnAdmit
<1>2. CASE TurnLock
  BY <1>2 DEF TurnLock
<1>3. CASE TurnEnd
  BY <1>3 DEF TurnEnd
<1>4. CASE CommandExits
  BY <1>4 DEF CommandExits
<1>5. ASSUME NEW p \in Pods, TurnCommand(p) PROVE RowsOK'
  BY <1>5 DEF TurnCommand
<1>6. ASSUME NEW p \in Pods, TurnTerminates(p) PROVE RowsOK'
  BY <1>6 DEF TurnTerminates
<1>7. CASE UserLeaves
  BY <1>7 DEF UserLeaves
<1>8. ASSUME NEW p \in Pods, UserStop(p) PROVE RowsOK'
  BY <1>8 DEF UserStop
<1> QED BY <1>1, <1>2, <1>3, <1>4, <1>5, <1>6, <1>7, <1>8 DEF Turn

\* So do the quiet stop's.
LEMMA QuietRows ==
    ASSUME RowsOK, Quiet
    PROVE  RowsOK'
<1> USE PodAssumption DEF RowsOK, Fault, NoFault, Begins, database, cluster, history
<1>1. CASE QuietTryLocks
  BY <1>1 DEF QuietTryLocks
<1>2. CASE FinishWaits
  BY <1>2 DEF FinishWaits
<1>3. CASE QuietCheck
  BY <1>3 DEF QuietCheck
<1>4. ASSUME NEW p \in Pods, QuietCandidate(p) PROVE RowsOK'
  BY <1>4 DEF QuietCandidate
<1>5. ASSUME NEW p \in Pods, FinishCandidate(p) PROVE RowsOK'
  BY <1>5 DEF FinishCandidate
<1> QED BY <1>1, <1>2, <1>3, <1>4, <1>5 DEF Quiet

\* So do the steps the two storage removals share.
LEMMA RemoveBodyRows ==
    ASSUME RowsOK, NEW t \in Removers, RemoveBody(t)
    PROVE  RowsOK'
<1> USE PodAssumption DEF RowsOK, Fault, NoFault, Begins, database, cluster, history
<1>1. CASE RemovePods(t)
  BY <1>1 DEF RemovePods, Removers
<1>2. CASE RemoveWaits(t)
  BY <1>2 DEF RemoveWaits, Removers
<1>3. CASE RemoveClaims(t)
  BY <1>3 DEF RemoveClaims, DeleteClaims, Removers
<1> QED BY <1>1, <1>2, <1>3 DEF RemoveBody, Removers

\* So do the rest of the user's removal's.
LEMMA RemoveRows ==
    ASSUME RowsOK, RemoveAsk \/ RemoveLock \/ RemoveGoesOn \/ RemoveSettles \/ RemoveReturns
    PROVE  RowsOK'
<1> USE PodAssumption DEF RowsOK, Fault, NoFault, Begins, database, cluster, history
<1>1. CASE RemoveAsk
  BY <1>1 DEF RemoveAsk
<1>2. CASE RemoveLock
  BY <1>2 DEF RemoveLock
<1>3. CASE RemoveSettles
  <2>1. \/ tried' = tried
        \/ tried' = [p \in Pods |-> FALSE]
    BY <1>3 DEF RemoveSettles
  <2>2. tried' \in [Pods -> BOOLEAN]
    BY <2>1 DEF RowsOK
  <2> QED BY <1>3, <2>2 DEF RemoveSettles
<1>4. CASE RemoveReturns
  BY <1>4 DEF RemoveReturns
<1>5. CASE RemoveGoesOn
  BY <1>5 DEF RemoveGoesOn
<1> QED BY <1>1, <1>2, <1>3, <1>4, <1>5

\* So do the rest of the grace pass's, which write the row of its pod.
LEMMA GraceRows ==
    ASSUME TasksOK, RowsOK, GraceHasPod, Grace /\ ~RemoveBody("grace")
    PROVE  RowsOK'
<1> USE PodAssumption DEF RowsOK, Fault, NoFault, Begins, database, cluster, history
<1>1. CASE GraceTryLocks
  BY <1>1 DEF GraceTryLocks
<1>2. CASE GraceCheck
  <2>1. \/ tried' = tried
        \/ tried' = [tried EXCEPT ![task["grace"].pod] = TRUE]
    BY <1>2 DEF GraceCheck
  <2>2. tried' \in [Pods -> BOOLEAN]
    BY <2>1 DEF RowsOK
  <2> QED BY <1>2, <2>2 DEF GraceCheck
<1>3. CASE GraceTimeout
  BY <1>3 DEF GraceTimeout, DeleteClaims
<1>4. CASE GraceFailed
  <2>1. \/ tried' = tried
        \/ tried' = [tried EXCEPT ![task["grace"].pod] = task["grace"].before]
    BY <1>4 DEF GraceFailed
  <2>2. tried' \in [Pods -> BOOLEAN]
    BY <2>1 DEF RowsOK, TasksOK, TaskRecords, Tasks
  <2> QED BY <1>4, <2>2 DEF GraceFailed
<1>5. CASE GraceLeft
  BY <1>5 DEF GraceLeft
<1>6. CASE GraceForgets
  <2>1. \/ tried' = tried
        \/ tried' = [tried EXCEPT ![task["grace"].pod] = FALSE]
    BY <1>6 DEF GraceForgets
  <2>2. tried' \in [Pods -> BOOLEAN]
    BY <2>1 DEF RowsOK
  <2> QED BY <1>6, <2>2 DEF GraceForgets
<1>7. CASE GraceNotice
  <2>1. task["grace"].pod \in Pods
    BY <1>7 DEF GraceNotice, At, GraceHasPod
  <2>2. \/ notices' = notices
        \/ notices' = [notices EXCEPT ![task["grace"].pod] = notices[task["grace"].pod] + 1]
    BY <1>7, <2>1 DEF GraceNotice
  <2>3. notices' \in [Pods -> Nat]
    BY <2>1, <2>2
  <2> QED BY <1>7, <2>3 DEF GraceNotice
<1>8. CASE GraceClear
  <2>1. \/ tried' = tried
        \/ tried' = [tried EXCEPT ![task["grace"].pod] = FALSE]
    BY <1>8 DEF GraceClear
  <2>2. tried' \in [Pods -> BOOLEAN]
    BY <2>1 DEF RowsOK
  <2> QED BY <1>8, <2>2 DEF GraceClear
<1>9. ASSUME NEW p \in Pods, Expire(p) PROVE RowsOK'
  BY <1>9 DEF Expire
<1>10. ASSUME NEW p \in Pods, GraceCandidate(p) PROVE RowsOK'
  BY <1>10 DEF GraceCandidate
<1> QED BY <1>1, <1>2, <1>3, <1>4, <1>5, <1>6, <1>7, <1>8, <1>9, <1>10 DEF Grace

\* So do the delete's, its teardown's, the crash's and the cluster's.
LEMMA RestRows ==
    ASSUME RowsOK, \/ Delete \/ Crash \/ Sweep \/ Kubernetes \/ (\E p \in Pods : Watch(p))
           \/ \E t \in {"start", "delete"} : TearPods(t) \/ TearClaims(t)
    PROVE  RowsOK'
<1> USE PodAssumption DEF RowsOK, Fault, NoFault, Begins, database, cluster, history
<1>1. CASE Delete
  <2>1. convo' = FALSE /\ tried' = [p \in Pods |-> FALSE] /\ mark' = [p \in Pods |-> "no"]
    BY <1>1 DEF Delete
  <2>2. convo' \in BOOLEAN /\ tried' \in [Pods -> BOOLEAN] /\ mark' \in [Pods -> {"no", "fresh", "due"}]
    BY <2>1
  <2> QED BY <1>1, <2>2 DEF Delete
<1>2. CASE Crash
  BY <1>2 DEF Crash
<1>3. CASE Sweep
  BY <1>3 DEF Sweep, DeleteClaims
<1>4. CASE Kubernetes
  BY <1>4 DEF Kubernetes, PodRuns, PodDies, PodGone, ClaimGone, PodStates, Claims
<1>5. ASSUME NEW p \in Pods, Watch(p) PROVE RowsOK'
  BY <1>5 DEF Watch
<1>6. ASSUME NEW t \in {"start", "delete"}, TearPods(t) PROVE RowsOK'
  BY <1>6 DEF TearPods, DeletePods, Deleted, PodStates
<1>7. ASSUME NEW t \in {"start", "delete"}, TearClaims(t) PROVE RowsOK'
  BY <1>7 DEF TearClaims, DeleteClaims
<1> QED BY <1>1, <1>2, <1>3, <1>4, <1>5, <1>6, <1>7

-----------------------------------------------------------------------------
(* An operation moves its own task only.                                   *)

\* A start's step moves no other task, and takes the start lock from nobody.
LEMMA StartMoves ==
    ASSUME TasksOK, Start
    PROVE  /\ \A u \in Tasks : u # "start" => task'[u] = task[u]
           /\ lock.start \notin {"start", "free"} => lock'.start = lock.start
<1> USE DEF TasksOK, Tasks, Go, GoWith, Return, Released, TakeBoth, NoHolder
<1>1. CASE StartAsk \/ StartRow \/ StartCheckRow \/ StartCheckConvo \/ StartFailed
  BY <1>1 DEF StartAsk, StartRow, StartCheckRow, StartCheckConvo, StartFailed
<1>2. CASE StartWaitsGone \/ StartClaims \/ StartCreate
  BY <1>2 DEF StartWaitsGone, StartClaims, StartCreate, StartFails
<1>3. CASE StartWaitsRunning \/ StartCredentials
  BY <1>3 DEF StartWaitsRunning, StartCredentials, StartFails
<1> QED BY <1>1, <1>2, <1>3 DEF Start

\* So of terminate_pod_as and the task that called it.
LEMMA EnderMoves ==
    ASSUME TasksOK, NEW t \in Enders, Terminate(t)
    PROVE  /\ \A u \in Tasks : u # t => task'[u] = task[u]
           /\ lock.start \notin {t, "free"} => lock'.start = lock.start
  BY DEF Terminate, ClusterDelete, Close, TermFails, Go, GoWith, Return, Released, TakeBoth,
         NoHolder, TasksOK, Tasks, Enders

\* So of a turn.
LEMMA TurnMoves ==
    ASSUME TasksOK, Turn
    PROVE  /\ \A u \in Tasks : u # "turn" => task'[u] = task[u]
           /\ lock.start \notin {"turn", "free"} => lock'.start = lock.start
<1> USE DEF TasksOK, Tasks
<1>1. CASE TurnAdmit \/ CommandExits \/ \E p \in Pods : TurnCommand(p) \/ TurnTerminates(p)
  BY <1>1 DEF TurnAdmit, CommandExits, TurnCommand, TurnTerminates, GoWith
<1>2. CASE TurnLock
  BY <1>2 DEF TurnLock, Go
<1>3. CASE TurnEnd
  BY <1>3 DEF TurnEnd, Return, Released
<1> QED BY <1>1, <1>2, <1>3 DEF Turn

\* So of the user's Stop.
LEMMA StopMoves ==
    ASSUME TasksOK, UserLeaves \/ \E p \in Pods : UserStop(p)
    PROVE  /\ \A u \in Tasks : u # "stop" => task'[u] = task[u]
           /\ lock.start \notin {"stop", "free"} => lock'.start = lock.start
  BY DEF UserStop, UserLeaves, Return, Released, TakeBoth, NoHolder, TasksOK, Tasks

\* So of a quiet stop.
LEMMA QuietMoves ==
    ASSUME TasksOK, Quiet
    PROVE  /\ \A u \in Tasks : u # "quiet" => task'[u] = task[u]
           /\ lock.start \notin {"quiet", "free"} => lock'.start = lock.start
  BY DEF Quiet, QuietTryLocks, FinishWaits, QuietCheck, QuietCandidate, FinishCandidate, Go,
         GoWith, Return, Released, TakeBoth, NoHolder, TasksOK, Tasks

\* So of the user's removal, outside what it shares with the grace pass.
LEMMA RemoveMoves ==
    ASSUME TasksOK, RemoveAsk \/ RemoveLock \/ RemoveGoesOn \/ RemoveSettles \/ RemoveReturns
    PROVE  /\ \A u \in Tasks : u # "remove" => task'[u] = task[u]
           /\ lock.start \notin {"remove", "free"} => lock'.start = lock.start
  BY DEF RemoveAsk, RemoveLock, RemoveGoesOn, RemoveSettles, RemoveReturns, Go, GoWith, Return, Released,
         TakeBoth, NoHolder, TasksOK, Tasks

\* So of the removal's shared steps and the task that runs them.
LEMMA RemoveBodyMoves ==
    ASSUME TasksOK, NEW t \in Removers, RemoveBody(t)
    PROVE  /\ \A u \in Tasks : u # t => task'[u] = task[u]
           /\ lock.start \notin {t, "free"} => lock'.start = lock.start
  BY DEF RemoveBody, RemovePods, RemoveWaits, RemoveClaims, Go, TasksOK, Tasks, Removers

\* So of the grace pass.
LEMMA GraceMoves ==
    ASSUME TasksOK, Grace
    PROVE  /\ \A u \in Tasks : u # "grace" => task'[u] = task[u]
           /\ lock.start \notin {"grace", "free"} => lock'.start = lock.start
<1> USE DEF TasksOK, Tasks, Go, GoWith, Return, Released, TakeBoth, NoHolder
<1>1. CASE GraceTryLocks \/ GraceCheck \/ GraceTimeout \/ GraceFailed \/ GraceLeft
  BY <1>1 DEF GraceTryLocks, GraceCheck, GraceTimeout, GraceFailed, GraceLeft
<1>2. CASE GraceForgets \/ GraceNotice \/ GraceClear \/ \E p \in Pods : Expire(p) \/ GraceCandidate(p)
  BY <1>2 DEF GraceForgets, GraceNotice, GraceClear, Expire, GraceCandidate
<1>3. CASE RemoveBody("grace")
  BY <1>3, RemoveBodyMoves DEF Removers
<1> QED BY <1>1, <1>2, <1>3 DEF Grace

\* So of the conversation's delete and the startup's sweep.
LEMMA DeleteMoves ==
    ASSUME TasksOK, Delete \/ Sweep
    PROVE  /\ \A u \in Tasks : u # "delete" => task'[u] = task[u]
           /\ lock.start \notin {"delete", "free"} => lock'.start = lock.start
  BY DEF Delete, Sweep, Go, Return, Released, TakeBoth, NoHolder, TasksOK, Tasks

\* So of teardown_conversation and the task that runs it.
LEMMA TearMoves ==
    ASSUME TasksOK, NEW t \in {"start", "delete"}, TearPods(t) \/ TearClaims(t)
    PROVE  /\ \A u \in Tasks : u # t => task'[u] = task[u]
           /\ lock.start \notin {t, "free"} => lock'.start = lock.start
  BY DEF TearPods, TearClaims, Go, Return, Released, TakeBoth, NoHolder, TasksOK, Tasks

\* So of the watcher.
LEMMA WatchMoves ==
    ASSUME TasksOK, NEW p \in Pods, Watch(p)
    PROVE  /\ \A u \in Tasks : u # "watch" => task'[u] = task[u]
           /\ lock.start \notin {"watch", "free"} => lock'.start = lock.start
  BY DEF Watch, GoWith, TasksOK, Tasks

-----------------------------------------------------------------------------
(* The start lock: a start, a removal and a grace pass each work under it. *)

StartHolds == task["start"].pc \notin {"idle", "wait_lock"} => lock.start = "start"
RemoveHolds == task["remove"].pc \notin {"idle", "wait_lock"} => lock.start = "remove"
GraceHolds == task["grace"].pc \notin {"idle", "try"} => lock.start = "grace"
LockHeld == StartHolds /\ RemoveHolds /\ GraceHolds

\* The tasks' own steps.
LEMMA StartHoldsOwn ==
    ASSUME TasksOK, StartHolds, Start \/ TearPods("start") \/ TearClaims("start")
    PROVE  StartHolds'
<1> USE DEF TasksOK, Tasks, Go, GoWith, Return, Released, At, StartHolds, TaskAt, Idle
<1>1. CASE StartAsk \/ StartRow
  BY <1>1 DEF StartAsk, StartRow
<1>2. CASE StartCheckRow \/ StartCheckConvo \/ StartFailed
  BY <1>2 DEF StartCheckRow, StartCheckConvo, StartFailed
<1>3. CASE StartWaitsGone \/ StartClaims \/ StartCreate
  BY <1>3 DEF StartWaitsGone, StartClaims, StartCreate, StartFails
<1>4. CASE StartWaitsRunning \/ StartCredentials
  BY <1>4 DEF StartWaitsRunning, StartCredentials, StartFails
<1>5. CASE TearPods("start") \/ TearClaims("start")
  BY <1>5 DEF TearPods, TearClaims
<1> QED BY <1>1, <1>2, <1>3, <1>4, <1>5 DEF Start

\* The user's removal holds the start lock from its wait to its return.
LEMMA RemoveHoldsOwn ==
    ASSUME TasksOK, RemoveHolds,
           Remove \/ Terminate("remove")
    PROVE  RemoveHolds'
<1> USE DEF TasksOK, Tasks, Go, GoWith, Return, Released, At, RemoveHolds, TaskAt, Idle
<1>1. CASE RemoveAsk \/ RemoveLock \/ RemoveGoesOn \/ RemoveSettles \/ RemoveReturns
  BY <1>1 DEF RemoveAsk, RemoveLock, RemoveGoesOn, RemoveSettles, RemoveReturns
<1>2. CASE RemoveBody("remove")
  BY <1>2 DEF RemoveBody, RemovePods, RemoveWaits, RemoveClaims
<1>3. CASE Terminate("remove")
  BY <1>3 DEF Terminate, ClusterDelete, Close, TermFails
<1> QED BY <1>1, <1>2, <1>3 DEF Remove

\* The grace pass holds it from its try_lock to its return.
LEMMA GraceHoldsOwn ==
    ASSUME TasksOK, GraceHolds, Grace
    PROVE  GraceHolds'
<1> USE DEF TasksOK, Tasks, Go, GoWith, Return, Released, At, GraceHolds, TaskAt, Idle
<1>1. CASE GraceTryLocks \/ GraceCheck \/ GraceTimeout
  BY <1>1 DEF GraceTryLocks, GraceCheck, GraceTimeout, TakeBoth
<1>2. CASE GraceFailed \/ GraceLeft \/ GraceForgets \/ GraceNotice \/ GraceClear
  BY <1>2 DEF GraceFailed, GraceLeft, GraceForgets, GraceNotice, GraceClear
<1>3. CASE \E p \in Pods : Expire(p) \/ GraceCandidate(p)
  BY <1>3 DEF Expire, GraceCandidate
<1>4. CASE RemoveBody("grace")
  BY <1>4 DEF RemoveBody, RemovePods, RemoveWaits, RemoveClaims
<1> QED BY <1>1, <1>2, <1>3, <1>4 DEF Grace

\* A task that does not move keeps its lock while another one acts.
LEMMA LockHeldStep ==
    ASSUME TasksOK, LockHeld, [Next]_vars
    PROVE  LockHeld'
<1> USE DEF LockHeld, StartHolds, RemoveHolds, GraceHolds
<1>1. CASE Start
  <2>1. StartHolds'
    BY <1>1, StartHoldsOwn
  <2> QED BY <1>1, <2>1, StartMoves DEF Tasks
<1>2. ASSUME NEW t \in Enders, Terminate(t)
      PROVE  LockHeld'
  <2>1. CASE t = "remove"
    <3>1. RemoveHolds'
      BY <1>2, <2>1, RemoveHoldsOwn
    <3> QED BY <1>2, <2>1, <3>1, EnderMoves DEF Tasks
  <2>2. CASE t # "remove"
    BY <1>2, <2>2, EnderMoves DEF Tasks, Enders
  <2> QED BY <2>1, <2>2
<1>3. CASE Turn
  BY <1>3, TurnMoves DEF Tasks
<1>4. CASE UserLeaves \/ \E p \in Pods : UserStop(p)
  BY <1>4, StopMoves DEF Tasks
<1>5. CASE Quiet
  BY <1>5, QuietMoves DEF Tasks
<1>6. CASE Remove
  <2>1. RemoveHolds'
    BY <1>6, RemoveHoldsOwn
  <2> QED BY <1>6, <2>1, RemoveMoves, RemoveBodyMoves DEF Tasks, Remove, Removers
<1>7. CASE Grace
  <2>1. GraceHolds'
    BY <1>7, GraceHoldsOwn
  <2> QED BY <1>7, <2>1, GraceMoves DEF Tasks
<1>8. CASE Delete \/ Sweep
  BY <1>8, DeleteMoves DEF Tasks
<1>9. ASSUME NEW t \in {"start", "delete"}, TearPods(t) \/ TearClaims(t)
      PROVE  LockHeld'
  <2>1. CASE t = "start"
    <3>1. StartHolds'
      BY <1>9, <2>1, StartHoldsOwn
    <3> QED BY <1>9, <2>1, <3>1, TearMoves DEF Tasks
  <2>2. CASE t = "delete"
    BY <1>9, <2>2, TearMoves DEF Tasks
  <2> QED BY <1>9, <2>1, <2>2
<1>10. ASSUME NEW p \in Pods, Watch(p)
       PROVE  LockHeld'
  BY <1>10, WatchMoves DEF Tasks
<1>11. CASE Crash
  BY <1>11 DEF Crash, TaskAt, Idle, Tasks
<1>12. CASE Kubernetes \/ UNCHANGED vars
  BY <1>12 DEF Kubernetes, vars
<1> QED BY <1>1, <1>2, <1>3, <1>4, <1>5, <1>6, <1>7, <1>8, <1>9, <1>10, <1>11, <1>12 DEF Next

-----------------------------------------------------------------------------
(* What changes the cluster: only a start makes a pod, and few steps        *)
(* change a claim.                                                          *)

NoPods == \A p \in Pods : pod[p] = "none"

\* A step that makes no pod, and stops the end of none.
PodsDwindle == \A p \in Pods : /\ pod[p] = "none" => pod'[p] = "none"
                               /\ pod[p] = "stopping" => pod'[p] \in {"none", "stopping"}

\* Only create_with_docker makes a pod, and nothing revives a deleted one.
LEMMA PodsOnlyGo ==
    ASSUME RowsOK, [Next]_vars, ~StartCreate
    PROVE  PodsDwindle
<1> USE DEF PodsDwindle, RowsOK, cluster, DeletePods, Deleted
<1>1. CASE Start
  BY <1>1 DEF Start, StartAsk, StartRow, StartWaitsGone, StartClaims, StartWaitsRunning,
              StartCredentials, StartCheckRow, StartCheckConvo, StartFailed
<1>2. ASSUME NEW t \in Enders, Terminate(t)
      PROVE  PodsDwindle
  BY <1>2 DEF Terminate, ClusterDelete, Close, TermFails
<1>3. CASE Turn \/ UserLeaves \/ \E p \in Pods : UserStop(p) \/ Watch(p)
  BY <1>3 DEF Turn, TurnAdmit, TurnLock, TurnEnd, CommandExits, TurnCommand, TurnTerminates,
              UserStop, UserLeaves, Watch
<1>4. CASE Quiet
  BY <1>4 DEF Quiet, QuietTryLocks, FinishWaits, QuietCheck, QuietCandidate, FinishCandidate
<1>5. CASE Remove \/ RemoveBody("grace")
  BY <1>5 DEF Remove, RemoveAsk, RemoveLock, RemoveGoesOn, RemoveSettles, RemoveReturns, RemoveBody,
              RemovePods, RemoveWaits, RemoveClaims
<1>6. CASE Grace
  BY <1>5, <1>6 DEF Grace, GraceTryLocks, GraceCheck, GraceTimeout, GraceFailed, GraceLeft,
              GraceForgets, GraceNotice, GraceClear, Expire, GraceCandidate
<1>7. CASE Delete \/ Crash \/ Sweep
  BY <1>7 DEF Delete, Crash, Sweep
<1>8. ASSUME NEW t \in {"start", "delete"}, TearPods(t) \/ TearClaims(t)
      PROVE  PodsDwindle
  BY <1>8 DEF TearPods, TearClaims
<1>9. CASE Kubernetes \/ UNCHANGED vars
  BY <1>9 DEF Kubernetes, PodRuns, PodDies, PodGone, ClaimGone, vars
<1> QED BY <1>1, <1>2, <1>3, <1>4, <1>5, <1>6, <1>7, <1>8, <1>9 DEF Next

\* And only the cluster itself lets one go.
LEMMA PodsStay ==
    ASSUME RowsOK, [Next]_vars, ~Kubernetes
    PROVE  \A p \in Pods : pod[p] # "none" => pod'[p] # "none"
<1> USE DEF RowsOK, cluster, DeletePods, Deleted
<1>1. CASE Start
  BY <1>1 DEF Start, StartAsk, StartRow, StartWaitsGone, StartClaims, StartCreate,
              StartWaitsRunning,
              StartCredentials, StartCheckRow, StartCheckConvo, StartFailed
<1>2. ASSUME NEW t \in Enders, Terminate(t)
      PROVE  \A p \in Pods : pod[p] # "none" => pod'[p] # "none"
  BY <1>2 DEF Terminate, ClusterDelete, Close, TermFails
<1>3. CASE Turn \/ UserLeaves \/ \E p \in Pods : UserStop(p) \/ Watch(p)
  BY <1>3 DEF Turn, TurnAdmit, TurnLock, TurnEnd, CommandExits, TurnCommand, TurnTerminates,
              UserStop, UserLeaves, Watch
<1>4. CASE Quiet
  BY <1>4 DEF Quiet, QuietTryLocks, FinishWaits, QuietCheck, QuietCandidate, FinishCandidate
<1>5. CASE Remove \/ RemoveBody("grace")
  BY <1>5 DEF Remove, RemoveAsk, RemoveLock, RemoveGoesOn, RemoveSettles, RemoveReturns, RemoveBody,
              RemovePods, RemoveWaits, RemoveClaims
<1>6. CASE Grace
  BY <1>5, <1>6 DEF Grace, GraceTryLocks, GraceCheck, GraceTimeout, GraceFailed, GraceLeft,
              GraceForgets, GraceNotice, GraceClear, Expire, GraceCandidate
<1>7. CASE Delete \/ Crash \/ Sweep
  BY <1>7 DEF Delete, Crash, Sweep
<1>8. ASSUME NEW t \in {"start", "delete"}, TearPods(t) \/ TearClaims(t)
      PROVE  \A p \in Pods : pod[p] # "none" => pod'[p] # "none"
  BY <1>8 DEF TearPods, TearClaims
<1>9. CASE UNCHANGED vars
  BY <1>9 DEF vars
<1> QED BY <1>1, <1>2, <1>3, <1>4, <1>5, <1>6, <1>7, <1>8, <1>9 DEF Next

\* The steps that change a claim.
ChangesClaim ==
    \/ StartClaims \/ (\E t \in Removers : RemoveClaims(t))
    \/ (GraceTimeout /\ At("grace", "rm_claims"))
    \/ (\E t \in {"start", "delete"} : TearClaims(t))
    \/ (Sweep /\ ~convo)
    \/ (Kubernetes /\ \E c \in Claims : ClaimGone(c))

\* No other step does.
LEMMA ClaimsStand ==
    ASSUME [Next]_vars, ~ChangesClaim
    PROVE  claim' = claim
<1> USE DEF cluster, ChangesClaim, Removers
<1>1. CASE Start
  BY <1>1 DEF Start, StartAsk, StartRow, StartWaitsGone, StartCreate, StartWaitsRunning,
              StartCredentials, StartCheckRow, StartCheckConvo, StartFailed
<1>2. ASSUME NEW t \in Enders, Terminate(t)
      PROVE  claim' = claim
  BY <1>2 DEF Terminate, ClusterDelete, Close, TermFails
<1>3. CASE Turn \/ UserLeaves \/ \E p \in Pods : UserStop(p) \/ Watch(p)
  BY <1>3 DEF Turn, TurnAdmit, TurnLock, TurnEnd, CommandExits, TurnCommand, TurnTerminates,
              UserStop, UserLeaves, Watch
<1>4. CASE Quiet
  BY <1>4 DEF Quiet, QuietTryLocks, FinishWaits, QuietCheck, QuietCandidate, FinishCandidate
<1>5. CASE Remove \/ RemoveBody("grace")
  BY <1>5 DEF Remove, RemoveAsk, RemoveLock, RemoveGoesOn, RemoveSettles, RemoveReturns, RemoveBody,
              RemovePods, RemoveWaits
<1>6. CASE Grace
  BY <1>5, <1>6 DEF Grace, GraceTryLocks, GraceCheck, GraceTimeout, GraceFailed, GraceLeft,
              GraceForgets, GraceNotice, GraceClear, Expire, GraceCandidate
<1>7. CASE Delete \/ Crash \/ Sweep
  BY <1>7 DEF Delete, Crash, Sweep
<1>8. ASSUME NEW t \in {"start", "delete"}, TearPods(t) \/ TearClaims(t)
      PROVE  claim' = claim
  BY <1>8 DEF TearPods
<1>9. CASE Kubernetes \/ UNCHANGED vars
  BY <1>9 DEF Kubernetes, PodRuns, PodDies, PodGone, vars
<1> QED BY <1>1, <1>2, <1>3, <1>4, <1>5, <1>6, <1>7, <1>8, <1>9 DEF Next

\* A deleted conversation stays deleted.
LEMMA ConvoGoes ==
    ASSUME [Next]_vars, ~Delete
    PROVE  convo' = convo
<1> USE DEF database
<1>1. CASE Start
  BY <1>1 DEF Start, StartAsk, StartRow, StartWaitsGone, StartClaims, StartCreate,
              StartWaitsRunning,
              StartCredentials, StartCheckRow, StartCheckConvo, StartFailed
<1>2. ASSUME NEW t \in Enders, Terminate(t)
      PROVE  convo' = convo
  BY <1>2 DEF Terminate, ClusterDelete, Close, TermFails
<1>3. CASE Turn \/ UserLeaves \/ \E p \in Pods : UserStop(p) \/ Watch(p)
  BY <1>3 DEF Turn, TurnAdmit, TurnLock, TurnEnd, CommandExits, TurnCommand, TurnTerminates,
              UserStop, UserLeaves, Watch
<1>4. CASE Quiet
  BY <1>4 DEF Quiet, QuietTryLocks, FinishWaits, QuietCheck, QuietCandidate, FinishCandidate
<1>5. CASE Remove \/ RemoveBody("grace")
  BY <1>5 DEF Remove, RemoveAsk, RemoveLock, RemoveGoesOn, RemoveSettles, RemoveReturns, RemoveBody,
              RemovePods, RemoveWaits, RemoveClaims
<1>6. CASE Grace
  BY <1>5, <1>6 DEF Grace, GraceTryLocks, GraceCheck, GraceTimeout, GraceFailed, GraceLeft,
              GraceForgets, GraceNotice, GraceClear, Expire, GraceCandidate
<1>7. CASE Crash \/ Sweep \/ Kubernetes \/ UNCHANGED vars
  BY <1>7 DEF Crash, Sweep, Kubernetes, vars
<1>8. ASSUME NEW t \in {"start", "delete"}, TearPods(t) \/ TearClaims(t)
      PROVE  convo' = convo
  BY <1>8 DEF TearPods, TearClaims
<1> QED BY <1>1, <1>2, <1>3, <1>4, <1>5, <1>6, <1>7, <1>8 DEF Next

-----------------------------------------------------------------------------
(* The storage.                                                            *)

\* No pod stands between a task's wait for the pods to go and its use of that.
StartClear == task["start"].pc \in {"claims", "create"} => NoPods
RemoversClear == \A t \in Removers : task[t].pc = "rm_claims" => NoPods
Clear == StartClear /\ RemoversClear

\* A start's pod, once it has a row.
StartHasPod == task["start"].pc \in {"wait_gone", "claims", "create", "wait_running", "creds",
                                     "check", "check_convo"} => task["start"].pod \in Pods

\* A teardown is of a deleted conversation.
TearsGone == \A t \in {"start", "delete"} :
                task[t].pc \in {"tear_pods", "tear_claims"} => ~convo

\* The start's own steps.
LEMMA StartOwn ==
    ASSUME TasksOK, RowsOK, StartClear, StartHasPod, TearsGone,
           Start \/ TearPods("start") \/ TearClaims("start")
    PROVE  StartClear' /\ StartHasPod' /\ (task'["start"].pc \in {"tear_pods", "tear_claims"} => ~convo')
<1> USE DEF TasksOK, RowsOK, Tasks, Go, GoWith, Return, At, StartClear, StartHasPod,
            TearsGone, NoPods, TaskAt, Idle, TaskRecords,
            database, cluster
<1>1. CASE StartAsk \/ StartRow
  BY <1>1 DEF StartAsk, StartRow
<1>2. CASE StartCheckRow \/ StartCheckConvo \/ StartFailed
  BY <1>2 DEF StartCheckRow, StartCheckConvo, StartFailed
<1>3. CASE StartWaitsGone \/ StartClaims \/ StartCreate
  BY <1>3 DEF StartWaitsGone, StartClaims, StartCreate, StartFails
<1>4. CASE StartWaitsRunning \/ StartCredentials
  BY <1>4 DEF StartWaitsRunning, StartCredentials, StartFails
<1>5. CASE TearPods("start") \/ TearClaims("start")
  BY <1>5 DEF TearPods, TearClaims
<1> QED BY <1>1, <1>2, <1>3, <1>4, <1>5 DEF Start

\* A remover's own steps.
LEMMA RemoverOwn ==
    ASSUME TasksOK, RowsOK, NEW t \in Removers, RemoveBody(t)
    PROVE  task'[t].pc = "rm_claims" => NoPods'
  BY DEF TasksOK, Tasks, Removers, RemoveBody, RemovePods, RemoveWaits, RemoveClaims, Go, At,
         NoPods, TaskRecords, cluster

\* The user's removal reaches its claims only past its wait for the pods.
LEMMA RemoveOwn ==
    ASSUME TasksOK, RowsOK, Remove \/ Terminate("remove")
    PROVE  task'["remove"].pc = "rm_claims" => NoPods'
<1>1. CASE RemoveAsk \/ RemoveLock \/ RemoveGoesOn \/ RemoveSettles \/ RemoveReturns
  BY <1>1 DEF RemoveAsk, RemoveLock, RemoveGoesOn, RemoveSettles, RemoveReturns, Go, GoWith, Return,
              TaskAt, Idle, TaskRecords, TasksOK, Tasks
<1>2. CASE RemoveBody("remove")
  BY <1>2, RemoverOwn DEF Removers
<1>3. CASE Terminate("remove")
  <2>1. task["remove"].next # "rm_claims"
    BY DEF TasksOK, Tasks, TaskRecords
  <2> QED BY <1>3, <2>1 DEF Terminate, ClusterDelete, Close, TermFails, Go, GoWith, Return,
                            TaskAt, Idle, TaskRecords, TasksOK, Tasks
<1> QED BY <1>1, <1>2, <1>3 DEF Remove

\* So does the grace pass.
LEMMA GraceOwn ==
    ASSUME TasksOK, RowsOK, RemoversClear, Grace
    PROVE  task'["grace"].pc = "rm_claims" => NoPods'
<1> USE DEF TasksOK, Tasks, Go, GoWith, Return, TaskAt, Idle, TaskRecords
<1>1. CASE GraceTryLocks \/ GraceCheck \/ GraceTimeout
  BY <1>1 DEF GraceTryLocks, GraceCheck, GraceTimeout
<1>2. CASE GraceFailed \/ GraceLeft \/ GraceForgets \/ GraceNotice \/ GraceClear
  BY <1>2 DEF GraceFailed, GraceLeft, GraceForgets, GraceNotice, GraceClear
<1>3. CASE \E p \in Pods : Expire(p) \/ GraceCandidate(p)
  BY <1>3 DEF Expire, GraceCandidate, RemoversClear, Removers, NoPods, cluster
<1>4. CASE RemoveBody("grace")
  BY <1>4, RemoverOwn DEF Removers
<1> QED BY <1>1, <1>2, <1>3, <1>4 DEF Grace

PathInv == LockHeld /\ Clear /\ StartHasPod /\ TearsGone

\* The locks keep what each task found out before it took its next step.
LEMMA PathStep ==
    ASSUME TasksOK, RowsOK, PathInv, [Next]_vars
    PROVE  PathInv'
<1>1. LockHeld'
  BY LockHeldStep DEF PathInv
<1>2. ~StartCreate => (NoPods => NoPods')
  BY PodsOnlyGo DEF NoPods, PodsDwindle
<1>3. convo' => convo
  BY ConvoGoes DEF Delete, RowsOK
<1> USE DEF PathInv, Clear, StartClear, RemoversClear, StartHasPod, TearsGone, Removers
<1>4. CASE Start
  <2>1. StartClear' /\ StartHasPod' /\ (task'["start"].pc \in {"tear_pods", "tear_claims"} => ~convo')
    BY <1>4, StartOwn
  <2>2. /\ task'["remove"] = task["remove"] /\ task'["grace"] = task["grace"]
        /\ task'["delete"] = task["delete"]
    BY <1>4, StartMoves DEF Tasks
  <2>3. StartCreate => task["remove"].pc # "rm_claims" /\ task["grace"].pc # "rm_claims"
    BY DEF StartCreate, At, LockHeld, StartHolds, RemoveHolds, GraceHolds
  <2> QED BY <1>1, <1>2, <1>3, <2>1, <2>2, <2>3
<1>5. CASE ~Start
  <2>1. NoPods => NoPods'
    BY <1>2, <1>5 DEF Start
  <2> DEFINE Still(t) == task'[t] = task[t]
  <2>2. CASE /\ Still("start") /\ Still("remove") /\ Still("grace") /\ Still("delete")
    BY <1>1, <1>3, <2>1, <2>2
  <2>3. ASSUME NEW t \in Enders, Terminate(t)
        PROVE  PathInv'
    <3>1. CASE t # "remove"
      BY <2>2, <2>3, <3>1, EnderMoves DEF Tasks, Enders
    <3>2. CASE t = "remove"
      <4>1. task'["remove"].pc = "rm_claims" => NoPods'
        BY <2>3, <3>2, RemoveOwn
      <4>2. Still("start") /\ Still("grace") /\ Still("delete")
        BY <2>3, <3>2, EnderMoves DEF Tasks
      <4> QED BY <1>1, <1>3, <2>1, <4>1, <4>2
    <3> QED BY <3>1, <3>2
  <2>4. CASE Turn
    BY <2>2, <2>4, TurnMoves DEF Tasks
  <2>5. CASE UserLeaves \/ \E p \in Pods : UserStop(p)
    BY <2>2, <2>5, StopMoves DEF Tasks
  <2>6. CASE Quiet
    BY <2>2, <2>6, QuietMoves DEF Tasks
  <2>7. CASE Remove
    <3>1. task'["remove"].pc = "rm_claims" => NoPods'
      BY <2>7, RemoveOwn
    <3>2. Still("start") /\ Still("grace") /\ Still("delete")
      BY <2>7, RemoveMoves, RemoveBodyMoves DEF Tasks, Remove
    <3> QED BY <1>1, <1>3, <2>1, <3>1, <3>2
  <2>8. CASE Grace
    <3>1. task'["grace"].pc = "rm_claims" => NoPods'
      BY <2>8, GraceOwn
    <3>2. Still("start") /\ Still("remove") /\ Still("delete")
      BY <2>8, GraceMoves DEF Tasks
    <3> QED BY <1>1, <1>3, <2>1, <3>1, <3>2
  <2>9. CASE Delete \/ Sweep
    <3>1. Still("start") /\ Still("remove") /\ Still("grace")
      BY <2>9, DeleteMoves DEF Tasks
    <3>2. Delete => ~convo'
      BY DEF Delete
    <3>3. Sweep => task'["delete"].pc = "idle"
      BY DEF Sweep, Return, TaskAt, Idle, TasksOK, Tasks
    <3> QED BY <1>1, <1>3, <2>1, <2>9, <3>1, <3>2, <3>3
  <2>10. ASSUME NEW t \in {"start", "delete"}, TearPods(t) \/ TearClaims(t)
         PROVE  PathInv'
    <3>1. CASE t = "start"
      <4>1. StartClear' /\ StartHasPod' /\ (task'["start"].pc \in {"tear_pods", "tear_claims"} => ~convo')
        BY <2>10, <3>1, StartOwn
      <4>2. Still("remove") /\ Still("grace") /\ Still("delete")
        BY <2>10, <3>1, TearMoves DEF Tasks
      <4> QED BY <1>1, <1>3, <2>1, <4>1, <4>2
    <3>2. CASE t = "delete"
      <4>1. Still("start") /\ Still("remove") /\ Still("grace")
        BY <2>10, <3>2, TearMoves DEF Tasks
      <4>2. ~convo
        BY <2>10, <3>2 DEF TearPods, TearClaims, At
      <4> QED BY <1>1, <1>3, <2>1, <4>1, <4>2
    <3> QED BY <2>10, <3>1, <3>2
  <2>11. ASSUME NEW p \in Pods, Watch(p)
         PROVE  PathInv'
    BY <2>2, <2>11, WatchMoves DEF Tasks
  <2>12. CASE Crash
    <3>1. \A t \in Tasks : task'[t].pc \in {"idle", "sweep"}
      BY <2>12 DEF Crash, TaskAt, Idle
    <3> QED BY <1>1, <3>1 DEF Tasks
  <2>13. CASE Kubernetes \/ UNCHANGED vars
    BY <2>2, <2>13 DEF Kubernetes, vars
  <2> QED BY <1>5, <2>3, <2>4, <2>5, <2>6, <2>7, <2>8, <2>9, <2>10, <2>11, <2>12, <2>13 DEF Next
<1> QED BY <1>4, <1>5
\* One pod stands at a time; at a start's create, and while a pod stands, the
\* claims of a conversation that exists are whole.
OneHolder == \A p, q \in Pods : pod[p] # "none" /\ pod[q] # "none" => p = q
ClaimsReady == convo /\ task["start"].pc = "create" => \A c \in Claims : claim[c] = "ok"
NoneDoomed == convo /\ ~NoPods => \A c \in Claims : claim[c] # "doomed"
StorageInv == OneHolder /\ ClaimsReady /\ NoneDoomed

\* Who moves the start's task.
LEMMA StartStands ==
    ASSUME TasksOK, [Next]_vars, ~Start, ~Crash, ~TearPods("start"), ~TearClaims("start")
    PROVE  task'["start"] = task["start"]
<1>1. CASE \E t \in Enders : Terminate(t)
  BY <1>1, EnderMoves DEF Tasks, Enders
<1>2. CASE Turn \/ Quiet \/ Grace \/ UserLeaves \/ \E p \in Pods : UserStop(p) \/ Watch(p)
  BY <1>2, TurnMoves, QuietMoves, GraceMoves, StopMoves, WatchMoves DEF Tasks
<1>3. CASE Remove \/ Delete \/ Sweep \/ TearPods("delete") \/ TearClaims("delete")
  BY <1>3, RemoveMoves, RemoveBodyMoves, DeleteMoves, TearMoves DEF Tasks, Remove, Removers
<1>4. CASE Kubernetes \/ UNCHANGED vars
  BY <1>4 DEF Kubernetes, vars
<1> QED BY <1>1, <1>2, <1>3, <1>4 DEF Next

\* Only a start that made the claims goes on to make its pod.
LEMMA CreateReached ==
    ASSUME TasksOK, [Next]_vars, ~StartClaims, task'["start"].pc = "create"
    PROVE  task["start"].pc = "create" /\ ~Start
<1>1. CASE Start
  BY <1>1 DEF Start, StartAsk, StartRow, StartWaitsGone, StartCreate, StartWaitsRunning,
              StartCredentials, StartCheckRow, StartCheckConvo, StartFailed, StartFails,
              Go, GoWith, Return, TaskAt, Idle, TasksOK, Tasks, TaskRecords
<1>2. CASE TearPods("start") \/ TearClaims("start")
  BY <1>2 DEF TearPods, TearClaims, Go, Return, TaskAt, Idle, TasksOK, Tasks, TaskRecords
<1>3. CASE Crash
  BY <1>3 DEF Crash, TaskAt, Idle, Tasks
<1> QED BY <1>1, <1>2, <1>3, StartStands

\* Of the steps that change a claim, those that can doom one do so under the
\* start lock with no pod standing, or after the conversation.
LEMMA DoomsAlone ==
    ASSUME TasksOK, RowsOK, PathInv, [Next]_vars, ChangesClaim, ~StartClaims, convo
    PROVE  /\ \/ NoPods
              \/ Kubernetes /\ \E c \in Claims : ClaimGone(c)
           /\ task["start"].pc # "create" \/ (Kubernetes /\ \E c \in Claims : ClaimGone(c))
<1> USE DEF PathInv, Clear, LockHeld, StartHolds, RemoveHolds, GraceHolds, RemoversClear,
            TearsGone, At
<1>1. CASE \E t \in Removers : RemoveClaims(t)
  BY <1>1 DEF RemoveClaims, Removers
<1>2. CASE \E t \in {"start", "delete"} : TearClaims(t)
  BY <1>2 DEF TearClaims
<1>3. CASE GraceTimeout /\ At("grace", "rm_claims")
  BY <1>3 DEF Removers
<1> QED BY <1>1, <1>2, <1>3 DEF ChangesClaim

\* One pod stands, on whole claims: each wait is under the start lock, and a
\* claim is doomed only where that lock or the conversation's end allows it.
LEMMA StorageStep ==
    ASSUME TasksOK, RowsOK, PathInv, StorageInv, [Next]_vars
    PROVE  StorageInv'
<1> USE DEF StorageInv, OneHolder, ClaimsReady, NoneDoomed
<1>1. CASE StartCreate
  <2>1. NoPods /\ task["start"].pod \in Pods
    BY <1>1 DEF StartCreate, At, PathInv, Clear, StartClear, StartHasPod
  <2>2. claim' = claim /\ convo' = convo
    BY <1>1 DEF StartCreate
  <2>3. task'["start"].pc # "create"
    BY <1>1 DEF StartCreate, StartFails, Go, TasksOK, Tasks, TaskRecords
  <2>4. pod' = pod \/ pod' = [pod EXCEPT ![task["start"].pod] = "starting"]
    BY <1>1 DEF StartCreate
  <2>5. OneHolder'
    BY <2>1, <2>4 DEF NoPods, RowsOK
  <2> QED BY <1>1, <2>1, <2>2, <2>3, <2>4, <2>5 DEF StartCreate, At, NoPods
<1>2. CASE ~StartCreate
  <2>1. \A p \in Pods : pod[p] = "none" => pod'[p] = "none"
    BY <1>2, PodsOnlyGo DEF PodsDwindle
  <2>2. OneHolder' /\ (~NoPods' => ~NoPods)
    BY <2>1 DEF NoPods
  <2>3. convo' => convo
    BY ConvoGoes DEF Delete, RowsOK
  <2>4. CASE ~ChangesClaim
    <3>1. claim' = claim
      BY <2>4, ClaimsStand
    <3>2. task'["start"].pc = "create" => task["start"].pc = "create"
      BY <2>4, CreateReached DEF ChangesClaim
    <3> QED BY <2>2, <2>3, <3>1, <3>2
  <2>5. CASE StartClaims
    <3>1. NoPods
      BY <2>5 DEF StartClaims, At, PathInv, Clear, StartClear
    <3>2. task'["start"].pc = "create" => claim' = [c \in Claims |-> "ok"]
      BY <2>5 DEF StartClaims, StartFails, Go, TasksOK, Tasks, TaskRecords
    <3> QED BY <2>2, <3>1, <3>2
  <2>6. CASE ChangesClaim /\ ~StartClaims /\ convo
    <3>1. CASE Kubernetes /\ \E c \in Claims : ClaimGone(c)
      <4>1. PICK c \in Claims : claim[c] = "doomed" /\ claim' = [claim EXCEPT ![c] = "none"]
        BY <3>1 DEF ClaimGone
      <4>2. task' = task
        BY <3>1 DEF Kubernetes
      <4> QED BY <2>2, <2>3, <4>1, <4>2 DEF RowsOK
    <3>2. CASE ~(Kubernetes /\ \E c \in Claims : ClaimGone(c))
      <4>1. NoPods /\ task["start"].pc # "create"
        BY <2>6, <3>2, DoomsAlone
      <4>2. task'["start"].pc # "create"
        BY <2>6, <4>1, CreateReached
      <4> QED BY <2>2, <4>1, <4>2
    <3> QED BY <3>1, <3>2
  <2> QED BY <2>2, <2>3, <2>4, <2>5, <2>6
<1> QED BY <1>1, <1>2

-----------------------------------------------------------------------------
(* The refinement.                                                         *)

\* Every step of the sandbox manager, its tasks, a crash and the cluster is a
\* step of the abstract storage, or leaves it alone.
LEMMA StorageRefines ==
    ASSUME TasksOK, RowsOK, PathInv, StorageInv, [Next]_vars
    PROVE  [Storage!Next]_(Storage!vars)
<1> USE DEF Storage!Next, Storage!vars
<1>1. CASE StartCreate
  <2>1. NoPods /\ task["start"].pod \in Pods
    BY <1>1 DEF StartCreate, At, PathInv, Clear, StartClear, StartHasPod
  <2>2. claim' = claim /\ convo' = convo
    BY <1>1 DEF StartCreate
  <2>3. CASE pod' = pod
    BY <2>2, <2>3 DEF Holders
  <2>4. CASE pod' = [pod EXCEPT ![task["start"].pod] = "starting"]
    <3>1. Holders = {}
      BY <2>1 DEF NoPods, Holders
    <3>2. Holders' = {task["start"].pod}
      BY <2>1, <2>4 DEF NoPods, Holders, RowsOK
    <3>3. convo => \A c \in Claims : claim[c] = "ok"
      BY <1>1 DEF StartCreate, At, StorageInv, ClaimsReady
    <3>4. Storage!Take
      BY <2>1, <2>2, <3>1, <3>2, <3>3 DEF Storage!Take
    <3> QED BY <3>4
  <2> QED BY <1>1, <2>3, <2>4 DEF StartCreate
<1>2. CASE Kubernetes
  <2>1. convo' = convo
    BY <1>2 DEF Kubernetes, database
  <2>2. CASE \E p \in Pods : PodRuns(p) \/ PodDies(p)
    <3>1. \A p \in Pods : pod'[p] = "none" <=> pod[p] = "none"
      BY <2>2 DEF PodRuns, PodDies, RowsOK
    <3>2. Holders' = Holders /\ claim' = claim
      BY <2>2, <3>1 DEF Holders, PodRuns, PodDies
    <3> QED BY <2>1, <3>2
  <2>3. CASE \E p \in Pods : PodGone(p)
    <3>1. Holders' = {} /\ claim' = claim
      BY <2>3 DEF PodGone, Holders, StorageInv, OneHolder, RowsOK
    <3> QED BY <2>1, <3>1 DEF Storage!Leave
  <2>4. CASE \E c \in Claims : ClaimGone(c)
    <3>1. pod' = pod
      BY <2>4 DEF ClaimGone
    <3>2. convo => NoPods
      BY <2>4 DEF ClaimGone, StorageInv, NoneDoomed
    <3>3. Holders' = Holders /\ (convo => Holders = {})
      BY <3>1, <3>2 DEF Holders, NoPods
    <3> QED BY <2>1, <2>4, <3>3 DEF Storage!Gone, ClaimGone
  <2> QED BY <1>2, <2>2, <2>3, <2>4 DEF Kubernetes
<1>3. CASE ~StartCreate /\ ~Kubernetes
  <2>1. \A p \in Pods : pod[p] = "none" <=> pod'[p] = "none"
    BY <1>3, PodsOnlyGo, PodsStay DEF PodsDwindle
  <2>2. Holders' = Holders
    BY <2>1 DEF Holders
  <2>3. CASE Delete
    BY <2>2, <2>3 DEF Delete, cluster, Storage!End
  <2>4. CASE ~Delete /\ ~ChangesClaim
    BY <2>2, <2>4, ConvoGoes, ClaimsStand
  <2>5. CASE StartClaims
    <3>1. Holders = {}
      BY <2>5 DEF StartClaims, At, PathInv, Clear, StartClear, NoPods, Holders
    <3>2. /\ claim' \in [Claims -> {"none", "ok", "doomed"}]
          /\ \A c \in Claims : claim'[c] = claim[c] \/ (claim[c] = "none" /\ claim'[c] = "ok")
      BY <2>5 DEF StartClaims, RowsOK, Claims
    <3>3. convo' = convo
      BY <2>5 DEF StartClaims
    <3> QED BY <2>2, <3>1, <3>2, <3>3 DEF Storage!Make
  <2>6. CASE ~Delete /\ ChangesClaim /\ ~StartClaims
    <3>1. /\ claim' \in [Claims -> {"none", "ok", "doomed"}]
          /\ \A c \in Claims : claim'[c] = claim[c] \/ (claim[c] = "ok" /\ claim'[c] = "doomed")
      BY <1>3, <2>6 DEF ChangesClaim, RemoveClaims, GraceTimeout, TearClaims, Sweep,
                        DeleteClaims, RowsOK
    <3>2. convo' = convo
      BY <2>6, ConvoGoes
    <3>3. convo => Holders = {}
      BY <1>3, <2>6, DoomsAlone DEF Holders, NoPods
    <3> QED BY <2>2, <3>1, <3>2, <3>3 DEF Storage!Doom
  <2> QED BY <2>3, <2>4, <2>5, <2>6
<1> QED BY <1>1, <1>2, <1>3

-----------------------------------------------------------------------------
(* A user's Stop keeps the storage.                                        *)

\* The grace period runs for ended rows only; a stopped row is over and is not
\* on that clock; and a user's Stop ends its row as one.
Marked == \A p \in Pods : mark[p] # "no" => row[p] = "ended"
KeptIsOver == \A p \in Pods : kept[p] => row[p] \in {"ended", "deleted"} /\ mark[p] = "no"
StopIsUsers == task["stop"].pc # "idle" => task["stop"].end = "user" /\ task["stop"].next = "idle"
KeptInv == Marked /\ KeptIsOver /\ StopIsUsers

\* A Stop's close clears the mark of a quiet stop that came first, and a quiet
\* stop that comes second finds no live row (terminate_sandbox_pod_as).
LEMMA KeptStep ==
    ASSUME TasksOK, RowsOK, KeptInv, [Next]_vars
    PROVE  KeptInv'
<1> USE DEF KeptInv, Marked, KeptIsOver, StopIsUsers, database, history
<1>1. CASE Start
  <2>1. task'["stop"] = task["stop"] /\ kept' = kept
    BY <1>1, StartMoves DEF Tasks, Start, StartAsk, StartRow, StartWaitsGone, StartClaims,
                            StartCreate,
          StartWaitsRunning, StartCredentials, StartCheckRow, StartCheckConvo, StartFailed
  <2>2. /\ mark' = mark
        /\ \A p \in Pods : /\ row[p] = "ended" => row'[p] = "ended"
                           /\ row[p] = "deleted" => row'[p] = "deleted"
    <3>1. CASE StartAsk \/ StartRow \/ StartCheckRow \/ StartCheckConvo \/ StartFailed
      BY <3>1 DEF StartAsk, StartRow, StartCheckRow, StartCheckConvo, StartFailed, RowsOK
    <3>2. CASE UNCHANGED <<row, mark>> \/ CloseRow(task["start"].pod, "plain")
      BY <3>2 DEF CloseRow, RowsOK
    <3>3. CASE StartWaitsGone \/ StartClaims \/ StartCreate \/ StartWaitsRunning \/ StartCredentials
      BY <3>2, <3>3 DEF StartWaitsGone, StartClaims, StartCreate, StartWaitsRunning,
                        StartCredentials,
            StartFails
    <3> QED BY <1>1, <3>1, <3>3 DEF Start
  <2> QED BY <2>1, <2>2
<1>2. ASSUME NEW t \in Enders, Terminate(t)
      PROVE  KeptInv'
  <2>1. CASE ClusterDelete(t) \/ TermFails(t)
    BY <2>1 DEF ClusterDelete, TermFails, Go, Return, At, TaskAt, Idle, TasksOK, Tasks,
                TaskRecords, Enders
  <2>2. CASE Close(t)
    <3> DEFINE p == task[t].pod
    <3>1. t = "stop" => task[t].end = "user"
      BY <2>2 DEF Close, At
    <3>2. Marked'
      BY <2>2 DEF Close, CloseRow, RowsOK
    <3>3. KeptIsOver'
      BY <2>2, <3>1 DEF Close, CloseRow, RowsOK
    <3>4. StopIsUsers'
      <4>1. CASE t = "stop"
        <5>1. Return(t)
          BY <2>2, <4>1 DEF Close, At
        <5> QED BY <4>1, <5>1 DEF Return, TaskAt, Idle, TasksOK, Tasks
      <4>2. CASE t # "stop"
        BY <1>2, <4>2, EnderMoves DEF Tasks
      <4> QED BY <4>1, <4>2
    <3> QED BY <3>2, <3>3, <3>4
  <2> QED BY <1>2, <2>1, <2>2 DEF Terminate
<1>3. CASE UserLeaves \/ \E p \in Pods : UserStop(p)
  <2>1. task'["stop"].pc = "idle" \/ (task'["stop"].end = "user" /\ task'["stop"].next = "idle")
    <3>1. CASE UserLeaves
      BY <3>1 DEF UserLeaves, Return, TaskAt, Idle, TasksOK, Tasks
    <3>2. ASSUME NEW p \in Pods, UserStop(p)
          PROVE  task'["stop"].end = "user" /\ task'["stop"].next = "idle"
      BY <3>2 DEF UserStop, TaskAt, TasksOK, Tasks
    <3> QED BY <1>3, <3>1, <3>2
  <2>2. UNCHANGED <<row, mark, kept>>
    BY <1>3 DEF UserLeaves, UserStop
  <2> QED BY <2>1, <2>2
<1>4. CASE Turn
  <2>1. task'["stop"] = task["stop"]
    BY <1>4, TurnMoves DEF Tasks
  <2>2. UNCHANGED <<row, mark, kept>>
    BY <1>4 DEF Turn, TurnAdmit, TurnLock, TurnEnd, CommandExits, TurnCommand, TurnTerminates
  <2> QED BY <2>1, <2>2
<1>5. CASE Quiet
  BY <1>5, QuietMoves DEF Tasks, Quiet, QuietTryLocks, FinishWaits, QuietCheck,
                          QuietCandidate, FinishCandidate
<1>6. CASE Remove \/ RemoveBody("grace")
  <2>1. task'["stop"] = task["stop"]
    BY <1>6, RemoveMoves, RemoveBodyMoves DEF Tasks, Remove, Removers
  <2>2. row' = row /\ kept' = kept /\ (mark' = mark \/ mark' = [p \in Pods |-> "no"])
    BY <1>6 DEF Remove, RemoveAsk, RemoveLock, RemoveGoesOn, RemoveSettles, RemoveReturns, RemoveBody,
                RemovePods,
          RemoveWaits, RemoveClaims
  <2> QED BY <2>1, <2>2
<1>7. CASE Grace /\ ~RemoveBody("grace")
  <2>1. task'["stop"] = task["stop"]
    BY <1>7, GraceMoves DEF Tasks
  <2>2. /\ row' = row /\ kept' = kept
        /\ \/ mark' = mark
           \/ \E p \in Pods : mark[p] = "fresh" /\ mark' = [mark EXCEPT ![p] = "due"]
           \/ mark' = [mark EXCEPT ![task["grace"].pod] = "no"]
    BY <1>7 DEF Grace, GraceTryLocks, GraceCheck, GraceTimeout, GraceFailed, GraceLeft,
          GraceForgets, GraceNotice, GraceClear, Expire, GraceCandidate
  <2> QED BY <2>1, <2>2 DEF RowsOK
<1>8. CASE Delete
  <2>1. task'["stop"] = task["stop"]
    BY <1>8, DeleteMoves DEF Tasks
  <2> QED BY <1>8, <2>1 DEF Delete, RowsOK
<1>9. CASE Sweep \/ \E p \in Pods : Watch(p)
  BY <1>9, DeleteMoves, WatchMoves DEF Tasks, Sweep, Watch
<1>10. ASSUME NEW t \in {"start", "delete"}, TearPods(t) \/ TearClaims(t)
       PROVE  KeptInv'
  BY <1>10, TearMoves DEF Tasks, TearPods, TearClaims
<1>11. CASE Crash
  BY <1>11 DEF Crash, TaskAt, Idle, Tasks
<1>12. CASE Kubernetes \/ UNCHANGED vars
  BY <1>12 DEF Kubernetes, vars
<1> QED BY <1>1, <1>2, <1>3, <1>4, <1>5, <1>6, <1>7, <1>8, <1>9, <1>10, <1>11, <1>12 DEF Next

-----------------------------------------------------------------------------
(* Nothing is left of a deleted conversation.                              *)

\* Faults are counted, crashes among them.
LEMMA FaultsCounted ==
    ASSUME RowsOK, [Next]_vars
    PROVE  /\ faults' \in {faults, faults + 1}
           /\ ~Crash => crashes' = crashes
           /\ Crash => crashes' = crashes + 1 /\ faults' = faults + 1
<1> USE DEF RowsOK, Fault, NoFault, Begins, history
<1>1. CASE Start
  BY <1>1 DEF Start, StartAsk, StartRow, StartWaitsGone, StartClaims, StartCreate,
              StartWaitsRunning,
              StartCredentials, StartCheckRow, StartCheckConvo, StartFailed, Crash
<1>2. ASSUME NEW t \in Enders, Terminate(t)
      PROVE  /\ faults' \in {faults, faults + 1} /\ (~Crash => crashes' = crashes)
             /\ Crash => crashes' = crashes + 1 /\ faults' = faults + 1
  BY <1>2 DEF Terminate, ClusterDelete, Close, TermFails, Crash
<1>3. CASE Turn \/ UserLeaves \/ \E p \in Pods : UserStop(p) \/ Watch(p)
  BY <1>3 DEF Turn, TurnAdmit, TurnLock, TurnEnd, CommandExits, TurnCommand, TurnTerminates,
              UserStop, UserLeaves, Watch, Crash
<1>4. CASE Quiet
  BY <1>4 DEF Quiet, QuietTryLocks, FinishWaits, QuietCheck, QuietCandidate, FinishCandidate,
              Crash
<1>5. CASE Remove \/ RemoveBody("grace")
  BY <1>5 DEF Remove, RemoveAsk, RemoveLock, RemoveGoesOn, RemoveSettles, RemoveReturns, RemoveBody,
              RemovePods, RemoveWaits, RemoveClaims, Crash
<1>6. CASE Grace /\ ~RemoveBody("grace")
  BY <1>6 DEF Grace, GraceTryLocks, GraceCheck, GraceTimeout, GraceFailed, GraceLeft,
              GraceForgets, GraceNotice, GraceClear, Expire, GraceCandidate, Crash
<1>7. CASE Delete \/ Crash \/ Sweep \/ Kubernetes
  BY <1>7 DEF Delete, Crash, Sweep, Kubernetes
<1>8. ASSUME NEW t \in {"start", "delete"}, TearPods(t) \/ TearClaims(t)
      PROVE  /\ faults' \in {faults, faults + 1} /\ (~Crash => crashes' = crashes)
             /\ Crash => crashes' = crashes + 1 /\ faults' = faults + 1
  BY <1>8 DEF TearPods, TearClaims, Crash
<1>9. CASE UNCHANGED vars
  BY <1>9 DEF vars, Crash
<1> QED BY <1>1, <1>2, <1>3, <1>4, <1>5, <1>6, <1>7, <1>8, <1>9 DEF Next

\* Who moves the delete's task.
LEMMA DeleteStands ==
    ASSUME TasksOK, [Next]_vars, ~Delete, ~Sweep, ~Crash, ~TearPods("delete"), ~TearClaims("delete")
    PROVE  task'["delete"] = task["delete"]
<1>1. CASE \E t \in Enders : Terminate(t)
  BY <1>1, EnderMoves DEF Tasks, Enders
<1>2. CASE Turn \/ Quiet \/ Grace \/ UserLeaves \/ \E p \in Pods : UserStop(p) \/ Watch(p)
  BY <1>2, TurnMoves, QuietMoves, GraceMoves, StopMoves, WatchMoves DEF Tasks
<1>3. CASE Remove \/ Start \/ TearPods("start") \/ TearClaims("start")
  BY <1>3, RemoveMoves, RemoveBodyMoves, StartMoves, TearMoves DEF Tasks, Remove, Removers
<1>4. CASE Kubernetes \/ UNCHANGED vars
  BY <1>4 DEF Kubernetes, vars
<1> QED BY <1>1, <1>2, <1>3, <1>4 DEF Next

\* A live row is of a conversation that exists.
LiveExists == \A p \in Pods : row[p] = "live" => convo

\* A row is inserted live only while its conversation exists, and the delete
\* takes every row with it.
LEMMA LiveStep ==
    ASSUME RowsOK, LiveExists, [Next]_vars
    PROVE  LiveExists'
<1> USE DEF LiveExists, database, CloseRow, RowsOK
<1>1. CASE Start
  <2>1. CASE StartAsk \/ StartRow \/ StartCheckRow \/ StartCheckConvo \/ StartFailed
    BY <2>1 DEF StartAsk, StartRow, StartCheckRow, StartCheckConvo, StartFailed
  <2>2. CASE convo' = convo /\ (row' = row \/ StartFails)
    BY <2>2 DEF StartFails
  <2>3. CASE StartWaitsGone \/ StartClaims \/ StartCreate \/ StartWaitsRunning \/ StartCredentials
    BY <2>2, <2>3 DEF StartWaitsGone, StartClaims, StartCreate, StartWaitsRunning,
                      StartCredentials
  <2> QED BY <1>1, <2>1, <2>3 DEF Start
<1>2. ASSUME NEW t \in Enders, Terminate(t)
      PROVE  LiveExists'
  BY <1>2 DEF Terminate, ClusterDelete, Close, TermFails
<1>3. CASE Turn \/ UserLeaves \/ \E p \in Pods : UserStop(p) \/ Watch(p)
  BY <1>3 DEF Turn, TurnAdmit, TurnLock, TurnEnd, CommandExits, TurnCommand, TurnTerminates,
              UserStop, UserLeaves, Watch
<1>4. CASE Quiet
  BY <1>4 DEF Quiet, QuietTryLocks, FinishWaits, QuietCheck, QuietCandidate, FinishCandidate
<1>5. CASE Remove \/ RemoveBody("grace")
  BY <1>5 DEF Remove, RemoveAsk, RemoveLock, RemoveGoesOn, RemoveSettles, RemoveReturns, RemoveBody,
              RemovePods, RemoveWaits, RemoveClaims
<1>6. CASE Grace /\ ~RemoveBody("grace")
  BY <1>6 DEF Grace, GraceTryLocks, GraceCheck, GraceTimeout, GraceFailed, GraceLeft,
              GraceForgets, GraceNotice, GraceClear, Expire, GraceCandidate
<1>7. CASE Delete \/ Crash \/ Sweep \/ Kubernetes \/ UNCHANGED vars
  BY <1>7 DEF Delete, Crash, Sweep, Kubernetes, vars
<1>8. ASSUME NEW t \in {"start", "delete"}, TearPods(t) \/ TearClaims(t)
      PROVE  LiveExists'
  BY <1>8 DEF TearPods, TearClaims
<1> QED BY <1>1, <1>2, <1>3, <1>4, <1>5, <1>6, <1>7, <1>8 DEF Next

\* Who moves the grace pass's task.
LEMMA GraceStands ==
    ASSUME TasksOK, [Next]_vars, ~Grace, ~Crash
    PROVE  task'["grace"] = task["grace"]
<1>1. CASE \E t \in Enders : Terminate(t)
  BY <1>1, EnderMoves DEF Tasks, Enders
<1>2. CASE Start \/ Turn \/ Quiet \/ UserLeaves \/ \E p \in Pods : UserStop(p) \/ Watch(p)
  BY <1>2, StartMoves, TurnMoves, QuietMoves, StopMoves, WatchMoves DEF Tasks
<1>3. CASE Remove
  BY <1>3, RemoveMoves, RemoveBodyMoves DEF Tasks, Remove, Removers
<1>4. CASE Delete \/ Sweep \/ \E t \in {"start", "delete"} : TearPods(t) \/ TearClaims(t)
  BY <1>4, DeleteMoves, TearMoves DEF Tasks
<1>5. CASE Kubernetes \/ UNCHANGED vars
  BY <1>5 DEF Kubernetes, vars
<1> QED BY <1>1, <1>2, <1>3, <1>4, <1>5 DEF Next

\* The grace pass keeps the pod its candidate was about.
LEMMA GraceHasPodStep ==
    ASSUME TasksOK, RowsOK, GraceHasPod, [Next]_vars
    PROVE  GraceHasPod'
<1> USE DEF GraceHasPod
<1>1. CASE ~Grace /\ ~Crash
  BY <1>1, GraceStands
<1>2. CASE Crash
  BY <1>2 DEF Crash, TaskAt, Idle, Tasks
<1>3. CASE RemoveBody("grace")
  BY <1>3 DEF RemoveBody, RemovePods, RemoveWaits, RemoveClaims, LiveRows, At, Go, TasksOK,
              Tasks, TaskRecords
<1>4. CASE GraceTryLocks \/ GraceCheck \/ GraceTimeout
  BY <1>4 DEF GraceTryLocks, GraceCheck, GraceTimeout, At, Go, Return, TaskAt, Idle, TasksOK,
              Tasks, TaskRecords
<1>5. CASE GraceFailed \/ GraceLeft \/ GraceForgets \/ GraceNotice \/ GraceClear
  BY <1>5 DEF GraceFailed, GraceLeft, GraceForgets, GraceNotice, GraceClear, At, Go, Return,
              TaskAt, Idle,
              TasksOK, Tasks, TaskRecords
<1>6. CASE \E p \in Pods : Expire(p) \/ GraceCandidate(p)
  BY <1>6 DEF Expire, GraceCandidate, GoWith, TaskAt, TasksOK, Tasks
<1> QED BY <1>1, <1>2, <1>3, <1>4, <1>5, <1>6 DEF Grace

\* Every pod of a deleted conversation is on its way out, or a teardown is to
\* come that deletes it: the delete's own, or that of the start that made it.
Over(p) == pod[p] \in {"none", "stopping"}
StartMinds(p) == /\ task["start"].pod = p
                 /\ task["start"].pc \in {"wait_running", "creds", "check", "check_convo", "tear_pods"}
PodsCovered == faults = 0 /\ ~convo =>
                  \A p \in Pods : Over(p) \/ At("delete", "tear_pods") \/ StartMinds(p)

\* Without failures each pod of a deleted conversation stays covered: a start
\* that finds its row or its conversation gone deletes what it made.
LEMMA PodsCoveredStep ==
    ASSUME TasksOK, RowsOK, PathInv, LiveExists, PodsCovered, [Next]_vars
    PROVE  PodsCovered'
<1>1. CASE Delete
  BY <1>1 DEF Delete, Go, At, PodsCovered, TasksOK, Tasks, TaskRecords
<1>2. CASE ~Delete
  <2>1. SUFFICES ASSUME faults' = 0, ~convo', NEW p \in Pods
                 PROVE  Over(p)' \/ At("delete", "tear_pods")' \/ StartMinds(p)'
    BY DEF PodsCovered
  <2>2. ~convo
    BY <1>2, <2>1, ConvoGoes
  <2>3. faults = 0 /\ faults' = faults /\ ~Crash
    BY <2>1, FaultsCounted DEF RowsOK
  <2>4. ~StartCreate => (Over(p) => Over(p)')
    BY PodsOnlyGo DEF Over, PodsDwindle
  <2>5. Over(p) \/ At("delete", "tear_pods") \/ StartMinds(p)
    BY <2>2, <2>3 DEF PodsCovered
  <2>6. CASE TearPods("delete") \/ TearPods("start")
    <3>1. DeletePods(Pods)
      BY <2>3, <2>6 DEF TearPods, Fault
    <3> QED BY <3>1 DEF DeletePods, Deleted, Over
  <2>7. CASE TearClaims("start") \/ TearClaims("delete")
    <3>1. task'["start"] = task["start"] \/ ~StartMinds(p)
      BY <2>7, TearMoves DEF Tasks, TearClaims, At, StartMinds
    <3>2. task'["delete"] = task["delete"] \/ ~At("delete", "tear_pods")
      BY <2>7, TearMoves DEF Tasks, TearClaims, At
    <3>3. Over(p) => Over(p)'
      BY <2>7 DEF TearClaims, Over
    <3> QED BY <2>4, <2>5, <3>1, <3>2, <3>3 DEF At, StartMinds
  <2>8. CASE Sweep
    <3>1. task'["start"] = task["start"] /\ ~At("delete", "tear_pods")
      BY <2>8, DeleteMoves DEF Tasks, Sweep, At
    <3> QED BY <2>5, <2>8, <3>1 DEF Sweep, Over, StartMinds
  <2>9. CASE Start
    <3>1. task'["delete"] = task["delete"]
      BY <2>9, StartMoves DEF Tasks
    <3>2. row[p] # "live"
      BY <2>2 DEF LiveExists
    <3>3. CASE StartCreate
      <4>1. CASE p # task["start"].pod
        <5>1. Over(p) => Over(p)'
          BY <3>3, <4>1 DEF StartCreate, Over, RowsOK
        <5>2. ~StartMinds(p)
          BY <4>1 DEF StartMinds
        <5> QED BY <2>5, <3>1, <5>1, <5>2 DEF At
      <4>2. CASE p = task["start"].pod
        BY <2>3, <3>3, <4>2 DEF StartCreate, Fault, Go, StartMinds, TasksOK, Tasks,
                                TaskRecords, RowsOK
      <4> QED BY <4>1, <4>2
    <3>4. CASE ~StartCreate /\ StartMinds(p)
      <4>1. CASE StartWaitsRunning
        <5>1. CASE Go("start", "creds")
          BY <3>4, <5>1 DEF StartMinds, Go, TasksOK, Tasks, TaskRecords
        <5>2. CASE DeletePods({task["start"].pod})
          BY <3>4, <5>2 DEF StartMinds, DeletePods, Deleted, Over
        <5> QED BY <4>1, <5>1, <5>2 DEF StartWaitsRunning
      <4>2. CASE StartCredentials
        BY <2>3, <3>4, <4>2 DEF StartCredentials, Fault, StartMinds, Go, TasksOK, Tasks,
                                TaskRecords
      <4>3. CASE StartCheckRow
        <5>1. DeletePods({task["start"].pod})
          BY <2>3, <3>2, <3>4, <4>3 DEF StartCheckRow, Fault, StartMinds
        <5> QED BY <3>4, <5>1 DEF StartMinds, DeletePods, Deleted, Over
      <4>4. CASE StartCheckConvo
        BY <2>2, <2>3, <3>4, <4>4 DEF StartCheckConvo, Fault, StartMinds, Go, TasksOK, Tasks,
                                      TaskRecords
      <4> QED BY <2>9, <3>4, <4>1, <4>2, <4>3, <4>4
               DEF Start, StartAsk, StartRow, StartWaitsGone, StartClaims, StartFailed, At,
                   StartMinds
    <3> QED BY <2>4, <2>5, <3>1, <3>3, <3>4 DEF At
  <2>10. CASE /\ ~Start /\ ~Sweep
              /\ ~TearPods("start") /\ ~TearPods("delete") /\ ~TearClaims("start") /\ ~TearClaims("delete")
    <3>1. task'["start"] = task["start"] /\ task'["delete"] = task["delete"]
      BY <1>2, <2>3, <2>10, StartStands, DeleteStands
    <3> QED BY <2>4, <2>5, <2>10, <3>1 DEF Start, At, StartMinds
  <2> QED BY <2>6, <2>7, <2>8, <2>9, <2>10
<1> QED BY <1>1, <1>2

\* A claim that stands is still to be deleted by the teardown under way, by the
\* startup's sweep, or by the start that will find the conversation gone.
NoClaims == \A c \in Claims : claim[c] # "ok"
Clearing == \/ task["delete"].pc \in {"tear_pods", "tear_claims", "sweep"}
            \/ task["start"].pc \notin {"idle", "wait_lock"}
ClaimsCovered == faults = crashes /\ ~convo => NoClaims \/ Clearing

\* With no failures but crashes each claim of one stays covered: the start that
\* made it goes on to the teardown, and a crash brings the sweep.
LEMMA ClaimsCoveredStep ==
    ASSUME TasksOK, RowsOK, PathInv, LiveExists, ClaimsCovered, [Next]_vars
    PROVE  ClaimsCovered'
<1>1. CASE Delete
  BY <1>1 DEF Delete, Go, Clearing, ClaimsCovered, TasksOK, Tasks, TaskRecords
<1>2. CASE Crash
  BY <1>2 DEF Crash, TaskAt, Clearing, ClaimsCovered, Tasks
<1>3. CASE ~Delete /\ ~Crash
  <2>1. SUFFICES ASSUME faults' = crashes', ~convo'
                 PROVE  NoClaims' \/ Clearing'
    BY DEF ClaimsCovered
  <2>2. ~convo
    BY <1>3, <2>1, ConvoGoes
  <2>3. faults = crashes /\ faults' = faults /\ faults \in Nat
    BY <1>3, <2>1, FaultsCounted DEF RowsOK
  <2>4. NoClaims \/ Clearing
    BY <2>2, <2>3 DEF ClaimsCovered
  <2>5. CASE TearClaims("delete") \/ TearClaims("start") \/ Sweep
    <3>1. DeleteClaims(Claims)
      BY <2>2, <2>3, <2>5 DEF TearClaims, Sweep, Fault
    <3> QED BY <3>1 DEF DeleteClaims, NoClaims
  <2>6. CASE TearPods("delete") \/ TearPods("start")
    BY <2>6 DEF TearPods, Go, Clearing, TasksOK, Tasks, TaskRecords
  <2>7. CASE StartClaims
    BY <2>7 DEF StartClaims, StartFails, Go, Clearing, TasksOK, Tasks, TaskRecords
  <2>8. CASE Start /\ ~StartClaims
    <3>1. task'["delete"] = task["delete"]
      BY <2>8, StartMoves DEF Tasks
    <3>2. claim' = claim
      BY <2>8 DEF Start, StartAsk, StartRow, StartWaitsGone, StartCreate, StartWaitsRunning,
              StartCredentials, StartCheckRow, StartCheckConvo, StartFailed, cluster
    <3>3. task["start"].pc \notin {"idle", "wait_lock"} => task'["start"].pc \notin {"idle", "wait_lock"}
      <4>1. CASE StartAsk \/ StartRow
        BY <4>1 DEF StartAsk, StartRow, At
      <4>2. CASE StartWaitsGone \/ StartCreate \/ StartWaitsRunning \/ StartCredentials \/ StartCheckRow
        BY <4>2 DEF StartWaitsGone, StartCreate, StartWaitsRunning, StartCredentials,
                    StartCheckRow,
                    StartFails, Go, TasksOK, Tasks, TaskRecords
      <4>3. CASE StartCheckConvo \/ StartFailed
        BY <2>2, <2>3, <4>3 DEF StartCheckConvo, StartFailed, Fault, Go, TasksOK, Tasks,
                                TaskRecords
      <4> QED BY <2>8, <4>1, <4>2, <4>3 DEF Start
    <3> QED BY <2>4, <3>1, <3>2, <3>3 DEF NoClaims, Clearing
  <2>9. CASE /\ ~Start /\ ~Sweep
             /\ ~TearPods("start") /\ ~TearPods("delete") /\ ~TearClaims("start") /\ ~TearClaims("delete")
    <3>1. task'["start"] = task["start"] /\ task'["delete"] = task["delete"]
      BY <1>3, <2>9, StartStands, DeleteStands
    <3>2. NoClaims => NoClaims'
      <4>1. CASE ~ChangesClaim
        BY <4>1, ClaimsStand DEF NoClaims
      <4>2. CASE ChangesClaim
        BY <2>9, <4>2 DEF ChangesClaim, Start, RemoveClaims, GraceTimeout, ClaimGone,
                          DeleteClaims, NoClaims, RowsOK
      <4> QED BY <4>1, <4>2
    <3> QED BY <2>4, <3>1, <3>2 DEF Clearing
  <2> QED BY <2>5, <2>6, <2>7, <2>8, <2>9
<1> QED BY <1>1, <1>2, <1>3

-----------------------------------------------------------------------------
(* The theorems.                                                           *)

Inv == /\ TasksOK /\ RowsOK /\ GraceHasPod
       /\ PathInv /\ StorageInv /\ KeptInv
       /\ LiveExists /\ PodsCovered /\ ClaimsCovered

\* Every step keeps the types.
LEMMA TypesStep ==
    ASSUME TasksOK, RowsOK, GraceHasPod, [Next]_vars
    PROVE  TasksOK' /\ RowsOK'
<1>1. CASE Start
  BY <1>1, StartTasks, StartRows
<1>2. CASE \E t \in Enders : Terminate(t)
  BY <1>2, TerminateTasks, TerminateRows
<1>3. CASE Turn \/ UserLeaves \/ \E p \in Pods : UserStop(p)
  BY <1>3, TurnTasks, TurnRows
<1>4. CASE Quiet
  BY <1>4, QuietTasks, QuietRows
<1>5. CASE \E t \in Removers : RemoveBody(t)
  BY <1>5, RemoveBodyTasks, RemoveBodyRows
<1>6. CASE RemoveAsk \/ RemoveLock \/ RemoveGoesOn \/ RemoveSettles \/ RemoveReturns
  BY <1>6, RemoveTasks, RemoveRows
<1>7. CASE Grace /\ ~RemoveBody("grace")
  BY <1>7, GraceTasks, GraceRows
<1>8. CASE \/ Delete \/ Crash \/ Sweep \/ Kubernetes \/ (\E p \in Pods : Watch(p))
           \/ \E t \in {"start", "delete"} : TearPods(t) \/ TearClaims(t)
  BY <1>8, RestTasks, RestRows
<1>9. CASE UNCHANGED vars
  BY <1>9 DEF TasksOK, RowsOK, vars, database, cluster, history
<1> QED BY <1>1, <1>2, <1>3, <1>4, <1>5, <1>6, <1>7, <1>8, <1>9 DEF Next, Remove, Removers

\* The inductive invariant holds at first,
LEMMA InvInit == Init => Inv
<1> SUFFICES ASSUME Init
             PROVE  Inv
  OBVIOUS
<1> USE DEF Init, TaskAt, Idle
<1>1. TasksOK
  BY DEF TasksOK, Tasks, TaskRecords, Places, NoHolder
<1>2. RowsOK
  BY PodAssumption DEF RowsOK, PodStates
<1>3. \A t \in Tasks : task[t].pc = "idle"
  OBVIOUS
<1>4. GraceHasPod /\ PathInv
  BY <1>3 DEF GraceHasPod, PathInv, LockHeld, StartHolds, RemoveHolds, GraceHolds, Clear,
              StartClear,
              RemoversClear, StartHasPod, TearsGone, Tasks, Removers
<1>5. StorageInv
  BY <1>3 DEF StorageInv, OneHolder, ClaimsReady, NoneDoomed, NoPods, Tasks
<1>6. KeptInv /\ LiveExists
  BY <1>3 DEF KeptInv, Marked, KeptIsOver, StopIsUsers, LiveExists, Tasks
<1>7. PodsCovered /\ ClaimsCovered
  BY DEF PodsCovered, ClaimsCovered
<1> QED BY <1>1, <1>2, <1>4, <1>5, <1>6, <1>7 DEF Inv

\* is kept by every step,
LEMMA InvStep == Inv /\ [Next]_vars => Inv'
  BY TypesStep, GraceHasPodStep, PathStep, StorageStep, KeptStep, LiveStep, PodsCoveredStep,
     ClaimsCoveredStep DEF Inv

\* and so always holds.
LEMMA InvAlways == Spec => []Inv
  BY InvInit, InvStep, PTL DEF Spec

\* Rows, marks, objects, claims, locks, tasks and counters keep their types, for
\* any number of pods, operations, failed calls and crashes.
THEOREM PodLifeTypes == Spec => []TypeOK
<1>1. Inv => TypeOK
  BY PodAssumption DEF Inv, TasksOK, RowsOK, TypeOK
<1> QED BY <1>1, InvAlways, PTL

\* The sandbox manager implements its promise of the storage: one pod at a time
\* stands on the two claims, none is made on a claim that is being deleted, and
\* none loses a claim while the conversation exists, however starts, stops,
\* removals, the grace pass, the delete and crashes interleave (create_pod's and
\* the removals' waits under the start lock).
THEOREM PodLifeStorage == Spec => ImplementsStorage
<1>1. Init => Storage!Init
  BY DEF Init, Storage!Init, Holders
<1>2. Inv /\ [Next]_vars => [Storage!Next]_(Storage!vars)
  BY StorageRefines DEF Inv
<1> QED BY <1>1, <1>2, InvAlways, PTL DEF Spec, ImplementsStorage, Storage!Spec

\* A user's Stop that returned keeps the storage off the grace pass's clock,
\* however it raced a quiet stop of the same pod (terminate_sandbox_pod_as).
THEOREM PodLifeStop == Spec => []StopKeepsStorage
<1>1. Inv => StopKeepsStorage
  BY DEF Inv, KeptInv, KeptIsOver, StopKeepsStorage
<1> QED BY <1>1, InvAlways, PTL

\* Once a deleted conversation's tasks are done, no pod of it runs and no claim
\* stands, whatever start the delete raced; after crashes the claims are gone
\* all the same (create_pod_now's clear-up, teardown, the startup's sweep).
THEOREM PodLifeNothingLeft == Spec => []NothingLeft
<1>1. Inv => NothingLeft
  BY DEF Inv, PodsCovered, ClaimsCovered, NothingLeft, Quiescent, At, Over, StartMinds,
         NoClaims, Clearing, Tasks
<1> QED BY <1>1, InvAlways, PTL

-----------------------------------------------------------------------------
(* One true notice.                                                        *)

\* A quiet stop re-checks, deletes and closes under the start lock, and only it
\* ends a row quietly.
QuietHolds == task["quiet"].pc \in {"check", "check_finished", "term", "close"} =>
                  lock.start = "quiet"
QuietEnds == \A t \in Tasks : task[t].end = "quiet" => t = "quiet"

\* Past its look at the live rows a removal finds none.
RemovalAlone == \A t \in Removers :
                   task[t].pc \in {"rm_wait", "rm_claims"} /\ convo => LiveRows = {}

\* A row with a notice, a recorded attempt or a grace pass at work is over.
RowOver(p) == row[p] \in {"ended", "deleted"}
NoticedOver == \A p \in Pods :
    /\ tried[p] \/ notices[p] > 0 => RowOver(p)
    /\ task["grace"].pc \notin {"idle", "term"} /\ task["grace"].pod = p => RowOver(p)

\* Until the first failure: a pod was told of once at most, and one that was
\* told of is marked only until the pass has cleared its mark.
ToldOnce == faults = 0 =>
    \A p \in Pods :
      /\ notices[p] <= 1
      /\ notices[p] = 1 => \/ mark[p] = "no"
                           \/ task["grace"].pc = "clear" /\ task["grace"].pod = p
      /\ task["grace"].pod = p /\ task["grace"].pc \notin {"idle", "clear", "term"} => notices[p] = 0

\* A task's pod has had a row.
PodHasRow == \A t \in Tasks : task[t].pod \in Pods => row[task[t].pod] # "none"

\* Rows are made in order, and only the newest can be live.
RowsInOrder == \A p, q \in Pods : q < p /\ row[p] # "none" => row[q] \notin {"none", "live"}

Whole == \A c \in Claims : claim[c] = "ok"
RemoveSettling == task["remove"].pc \in {"settle", "settle_deleted"}
\* A stop on the grace pass's clock whose claims no pass has removed.
Concerned(p) == convo /\ mark[p] # "no" /\ Latest(p) /\ ~mine[p]
GraceOn(p) == task["grace"].pod = p /\
              task["grace"].pc \in {"rm", "rm_wait", "rm_claims", "settle", "settle_deleted", "err"}
\* A second attempt.
Again(p) == GraceOn(p) /\ task["grace"].before

\* The pass is about the newest row, while the start lock keeps others out.
GraceLatest == \A p \in Pods : GraceOn(p) /\ convo => Latest(p)

\* Until the first failure: the claims of a live row, past its start, are whole;
\* so are those of a concerned stop until a user's removal settles it; and only
\* a pass at work leaves an attempt on record that removed nothing.
LiveWhole == faults = 0 /\ convo =>
    \A p \in Pods : row[p] = "live" =>
        Whole \/ (task["start"].pc \in {"wait_gone", "claims"} /\ task["start"].pod = p)
ConcernedWhole == faults = 0 => \A p \in Pods : Concerned(p) => Whole \/ RemoveSettling
TriedAtWork == faults = 0 => \A p \in Pods : /\ tried[p] => mine[p] \/ GraceOn(p)
                                             /\ Again(p) => mine[p]

\* After it, a concerned stop with an attempt on record still has its claims.
TriedWhole == faults = 1 =>
    \A p \in Pods : Concerned(p) /\ tried[p] =>
        Whole \/ RemoveSettling \/ (GraceOn(p) /\ ~task["grace"].before)

\* So a second attempt finds the claims, or the pass removed them.
AgainWhole == faults <= 1 =>
    \A p \in Pods : Again(p) => \/ mine[p] \/ ~convo
                                \/ Whole /\ task["grace"].pc \in {"rm", "rm_wait", "rm_claims", "err"}
TellsTrue == /\ \A p \in Pods : task["grace"].pod = p /\ task["grace"].pc = "settle_deleted" => mine[p]
             /\ faults <= 1 => \A p \in Pods :
                    /\ task["grace"].pod = p /\ task["grace"].pc = "notice" => mine[p] \/ ~convo
                    /\ notices[p] > 0 => mine[p]

HeldInv == QuietHolds /\ QuietEnds /\ RemovalAlone /\ PodHasRow /\ RowsInOrder /\ GraceLatest
TrueInv == LiveWhole /\ ConcernedWhole /\ TriedAtWork /\ TriedWhole /\ AgainWhole /\ TellsTrue
NoteInv == HeldInv /\ NoticedOver /\ ToldOnce /\ TrueInv

\* What a step does to the rows: one that is over stays so, none is taken back,
\* and only the insert makes one live, when no other is.
LEMMA RowsMove ==
    ASSUME TasksOK, RowsOK, [Next]_vars, NEW p \in Pods
    PROVE  /\ RowOver(p) => RowOver(p)'
           /\ row[p] # "none" => row'[p] # "none"
           /\ row'[p] = "live" /\ row[p] # "live" => StartRow /\ LiveRows = {} /\ task["start"].pc = "wait_lock"
<1> USE DEF RowOver, database, CloseRow, RowsOK
<1>1. CASE StartRow
  BY <1>1 DEF StartRow, LiveRows, At
<1>2. CASE Start /\ ~StartRow
  <2>1. row' = row \/ StartFails
    BY <1>2 DEF Start, StartAsk, StartWaitsGone, StartClaims, StartCreate, StartWaitsRunning,
                StartCredentials, StartCheckRow, StartCheckConvo, StartFailed
  <2> QED BY <2>1 DEF StartFails
<1>3. ASSUME NEW t \in Enders, Terminate(t)
      PROVE  (RowOver(p) => RowOver(p)') /\ (row[p] # "none" => row'[p] # "none")
             /\ (row'[p] = "live" => row[p] = "live")
  BY <1>3 DEF Terminate, ClusterDelete, Close, TermFails
<1>4. CASE Delete
  BY <1>4 DEF Delete
<1>5. CASE Turn \/ UserLeaves \/ \E q \in Pods : UserStop(q) \/ Watch(q)
  BY <1>5 DEF Turn, TurnAdmit, TurnLock, TurnEnd, CommandExits, TurnCommand, TurnTerminates,
              UserStop, UserLeaves, Watch
<1>6. CASE Quiet
  BY <1>6 DEF Quiet, QuietTryLocks, FinishWaits, QuietCheck, QuietCandidate, FinishCandidate
<1>7. CASE Remove \/ RemoveBody("grace")
  BY <1>7 DEF Remove, RemoveAsk, RemoveLock, RemoveGoesOn, RemoveSettles, RemoveReturns, RemoveBody,
              RemovePods, RemoveWaits, RemoveClaims
<1>8. CASE Grace /\ ~RemoveBody("grace")
  BY <1>8 DEF Grace, GraceTryLocks, GraceCheck, GraceTimeout, GraceFailed, GraceLeft,
              GraceForgets, GraceNotice, GraceClear, Expire, GraceCandidate
<1>9. CASE Crash \/ Sweep \/ Kubernetes \/ UNCHANGED vars
  BY <1>9 DEF Crash, Sweep, Kubernetes, vars
<1>10. ASSUME NEW t \in {"start", "delete"}, TearPods(t) \/ TearClaims(t)
       PROVE  row' = row
  BY <1>10 DEF TearPods, TearClaims
<1> QED BY <1>1, <1>2, <1>3, <1>4, <1>5, <1>6, <1>7, <1>8, <1>9, <1>10 DEF Next

\* A row is marked by a quiet stop's close only, while it is live.
LEMMA MarksMove ==
    ASSUME TasksOK, RowsOK, QuietEnds, [Next]_vars, NEW p \in Pods
    PROVE  mark'[p] # "no" /\ mark[p] = "no" =>
               /\ row[p] = "live" /\ task["quiet"].pc = "close"
               /\ UNCHANGED <<claim, faults, mine, convo>>
<1> USE DEF database, CloseRow, RowsOK
<1>1. CASE Start
  <2>1. mark' = mark \/ StartFails
    BY <1>1 DEF Start, StartAsk, StartRow, StartWaitsGone, StartClaims, StartCreate,
                StartWaitsRunning, StartCredentials, StartCheckRow, StartCheckConvo, StartFailed
  <2> QED BY <2>1 DEF StartFails
<1>2. ASSUME NEW t \in Enders, Terminate(t), mark'[p] # "no", mark[p] = "no"
      PROVE  /\ row[p] = "live" /\ task["quiet"].pc = "close"
             /\ UNCHANGED <<claim, faults, mine, convo>>
  <2>1. Close(t)
    BY <1>2 DEF Terminate, ClusterDelete, TermFails
  <2>2. task[t].end = "quiet" /\ task[t].pod = p /\ row[p] = "live"
    BY <1>2, <2>1 DEF Close
  <2>3. t = "quiet"
    BY <2>2 DEF QuietEnds, Enders, Tasks
  <2> QED BY <2>1, <2>2, <2>3 DEF Close, At, NoFault, cluster
<1>3. CASE Delete
  BY <1>3 DEF Delete
<1>4. CASE Turn \/ UserLeaves \/ \E q \in Pods : UserStop(q) \/ Watch(q)
  BY <1>4 DEF Turn, TurnAdmit, TurnLock, TurnEnd, CommandExits, TurnCommand, TurnTerminates,
              UserStop, UserLeaves, Watch
<1>5. CASE Quiet
  BY <1>5 DEF Quiet, QuietTryLocks, FinishWaits, QuietCheck, QuietCandidate, FinishCandidate
<1>6. CASE Remove \/ RemoveBody("grace")
  BY <1>6 DEF Remove, RemoveAsk, RemoveLock, RemoveGoesOn, RemoveSettles, RemoveReturns, RemoveBody,
              RemovePods, RemoveWaits, RemoveClaims
<1>7. CASE Grace /\ ~RemoveBody("grace")
  BY <1>7 DEF Grace, GraceTryLocks, GraceCheck, GraceTimeout, GraceFailed, GraceLeft,
              GraceForgets, GraceNotice, GraceClear, Expire, GraceCandidate
<1>8. CASE Crash \/ Sweep \/ Kubernetes \/ UNCHANGED vars
  BY <1>8 DEF Crash, Sweep, Kubernetes, vars
<1>9. ASSUME NEW t \in {"start", "delete"}, TearPods(t) \/ TearClaims(t)
      PROVE  mark' = mark
  BY <1>9 DEF TearPods, TearClaims
<1> QED BY <1>1, <1>2, <1>3, <1>4, <1>5, <1>6, <1>7, <1>8, <1>9 DEF Next

\* Attempts, notices and removals are the grace pass's to record.
LEMMA GraceRecords ==
    ASSUME RowsOK, [Next]_vars, ~Grace, ~Crash
    PROVE  /\ \A p \in Pods : tried'[p] => tried[p]
           /\ notices' = notices /\ mine' = mine
<1> USE DEF database, history, CloseRow, RowsOK
<1>1. CASE Start
  BY <1>1 DEF Start, StartAsk, StartRow, StartWaitsGone, StartClaims, StartCreate,
              StartWaitsRunning, StartCredentials, StartCheckRow, StartCheckConvo, StartFailed
<1>2. ASSUME NEW t \in Enders, Terminate(t)
      PROVE  UNCHANGED <<tried, notices, mine>>
  BY <1>2 DEF Terminate, ClusterDelete, Close, TermFails
<1>3. CASE Delete \/ Sweep \/ Kubernetes \/ UNCHANGED vars
  BY <1>3 DEF Delete, Sweep, Kubernetes, vars
<1>4. CASE Turn \/ UserLeaves \/ \E q \in Pods : UserStop(q) \/ Watch(q)
  BY <1>4 DEF Turn, TurnAdmit, TurnLock, TurnEnd, CommandExits, TurnCommand, TurnTerminates,
              UserStop, UserLeaves, Watch
<1>5. CASE Quiet
  BY <1>5 DEF Quiet, QuietTryLocks, FinishWaits, QuietCheck, QuietCandidate, FinishCandidate
<1>6. CASE Remove
  BY <1>6 DEF Remove, RemoveAsk, RemoveLock, RemoveGoesOn, RemoveSettles, RemoveReturns, RemoveBody,
              RemovePods, RemoveWaits, RemoveClaims
<1>7. ASSUME NEW t \in {"start", "delete"}, TearPods(t) \/ TearClaims(t)
      PROVE  UNCHANGED <<tried, notices, mine>>
  BY <1>7 DEF TearPods, TearClaims
<1> QED BY <1>1, <1>2, <1>3, <1>4, <1>5, <1>6, <1>7 DEF Next

\* While a conversation exists only a removal takes a whole claim, under the
\* start lock.
LEMMA WholeKept ==
    ASSUME TasksOK, RowsOK, PathInv, [Next]_vars, Whole, convo
    PROVE  \/ Whole'
           \/ \E t \in Removers : RemoveClaims(t)
           \/ GraceTimeout
<1>1. CASE ~ChangesClaim
  BY <1>1, ClaimsStand DEF Whole
<1>2. CASE StartClaims
  BY <1>2 DEF StartClaims, Whole, RowsOK
<1>3. CASE \E t \in {"start", "delete"} : TearClaims(t)
  BY <1>3 DEF TearClaims, At, PathInv, TearsGone
<1>4. CASE Kubernetes /\ \E c \in Claims : ClaimGone(c)
  BY <1>4 DEF ClaimGone, Whole
<1> QED BY <1>1, <1>2, <1>3, <1>4 DEF ChangesClaim

\* Who moves the quiet stop's task, and who takes the start lock from it.
LEMMA QuietStands ==
    ASSUME TasksOK, [Next]_vars, ~Quiet, ~Terminate("quiet"), ~Crash
    PROVE  /\ task'["quiet"] = task["quiet"]
           /\ lock.start = "quiet" => lock'.start = "quiet"
<1>1. CASE \E t \in Enders : Terminate(t)
  BY <1>1, EnderMoves DEF Tasks, Enders
<1>2. CASE Start \/ Turn \/ UserLeaves \/ \E p \in Pods : UserStop(p) \/ Watch(p)
  BY <1>2, StartMoves, TurnMoves, StopMoves, WatchMoves DEF Tasks
<1>3. CASE Remove
  BY <1>3, RemoveMoves, RemoveBodyMoves DEF Tasks, Remove, Removers
<1>4. CASE Grace
  BY <1>4, GraceMoves DEF Tasks
<1>5. CASE Delete \/ Sweep \/ \E t \in {"start", "delete"} : TearPods(t) \/ TearClaims(t)
  BY <1>5, DeleteMoves, TearMoves DEF Tasks
<1>6. CASE Kubernetes \/ UNCHANGED vars
  BY <1>6 DEF Kubernetes, vars
<1> QED BY <1>1, <1>2, <1>3, <1>4, <1>5, <1>6 DEF Next

\* Who moves the user's removal.
LEMMA RemoveStands ==
    ASSUME TasksOK, [Next]_vars, ~Remove, ~Terminate("remove"), ~Crash
    PROVE  task'["remove"] = task["remove"]
<1>1. CASE \E t \in Enders : Terminate(t)
  BY <1>1, EnderMoves DEF Tasks, Enders
<1>2. CASE Start \/ Turn \/ UserLeaves \/ \E p \in Pods : UserStop(p) \/ Watch(p)
  BY <1>2, StartMoves, TurnMoves, StopMoves, WatchMoves DEF Tasks
<1>3. CASE Quiet \/ Grace
  BY <1>3, QuietMoves, GraceMoves DEF Tasks
<1>4. CASE Delete \/ Sweep \/ \E t \in {"start", "delete"} : TearPods(t) \/ TearClaims(t)
  BY <1>4, DeleteMoves, TearMoves DEF Tasks
<1>5. CASE Kubernetes \/ UNCHANGED vars
  BY <1>5 DEF Kubernetes, vars
<1> QED BY <1>1, <1>2, <1>3, <1>4, <1>5 DEF Next

\* Only a quiet stop ends a row quietly, its re-check, its delete and its close
\* in one hold of the start lock (stop_locked).
LEMMA QuietStep ==
    ASSUME TasksOK, QuietHolds, QuietEnds, [Next]_vars
    PROVE  QuietHolds' /\ QuietEnds'
<1> USE DEF QuietHolds
<1>1. QuietHolds'
  <2>1. CASE ~Quiet /\ ~Terminate("quiet") /\ ~Crash
    BY <2>1, QuietStands
  <2>2. CASE Quiet
    <3> USE DEF TakeBoth, Go, GoWith, Return, TaskAt, Idle, At, TasksOK, Tasks, TaskRecords
    <3>1. CASE QuietTryLocks
      BY <3>1 DEF QuietTryLocks
    <3>4. CASE FinishWaits
      BY <3>4 DEF FinishWaits
    <3>2. CASE QuietCheck
      BY <3>2 DEF QuietCheck
    <3>3. CASE \E p \in Pods : QuietCandidate(p) \/ FinishCandidate(p)
      BY <3>3 DEF QuietCandidate, FinishCandidate
    <3> QED BY <2>2, <3>1, <3>2, <3>3, <3>4 DEF Quiet
  <2>3. CASE Terminate("quiet")
    <3>1. task["quiet"].next \notin {"check", "check_finished", "term", "close"}
      BY DEF TasksOK, Tasks, TaskRecords
    <3> QED BY <2>3, <3>1 DEF Terminate, ClusterDelete, Close, TermFails, Go, GoWith, Return,
                              TaskAt, Idle, At, TasksOK, Tasks
  <2>4. CASE Crash
    BY <2>4 DEF Crash, TaskAt, Idle, Tasks
  <2> QED BY <2>1, <2>2, <2>3, <2>4
<1>2. QuietEnds'
  <2> SUFFICES ASSUME NEW u \in Tasks, u # "quiet" PROVE task'[u].end # "quiet"
    BY DEF QuietEnds
  <2>1. \A t \in Tasks : t # "quiet" => task[t].end # "quiet"
    BY DEF QuietEnds
  <2> USE DEF Go, GoWith, Return, TaskAt, Idle, TasksOK, Tasks, TaskRecords
  <2>2. CASE Start \/ TearPods("start") \/ TearClaims("start")
    <3>1. task'["start"].end # "quiet"
      <4>1. CASE StartAsk \/ StartRow \/ StartCheckRow \/ StartCheckConvo \/ StartFailed
        BY <2>1, <4>1 DEF StartAsk, StartRow, StartCheckRow, StartCheckConvo, StartFailed
      <4>2. CASE StartWaitsGone \/ StartClaims \/ StartCreate
        BY <2>1, <4>2 DEF StartWaitsGone, StartClaims, StartCreate, StartFails
      <4>3. CASE StartWaitsRunning \/ StartCredentials
        BY <2>1, <4>3 DEF StartWaitsRunning, StartCredentials, StartFails
      <4>4. CASE TearPods("start") \/ TearClaims("start")
        BY <2>1, <4>4 DEF TearPods, TearClaims
      <4> QED BY <2>2, <4>1, <4>2, <4>3, <4>4 DEF Start
    <3> QED BY <2>1, <2>2, <3>1, StartMoves, TearMoves
  <2>3. ASSUME NEW t \in Enders, Terminate(t)
        PROVE  task'[u].end # "quiet"
    <3>1. CASE t # "quiet"
      <4>1. task'[t].end # "quiet"
        BY <2>1, <2>3, <3>1 DEF Terminate, ClusterDelete, Close, TermFails, Enders
      <4> QED BY <2>1, <2>3, <4>1, EnderMoves
    <3> QED BY <2>1, <2>3, <3>1, EnderMoves
  <2>4. CASE Turn
    <3>1. task'["turn"].end # "quiet"
      <4>1. CASE TurnAdmit \/ TurnLock \/ TurnEnd \/ CommandExits
        BY <2>1, <4>1 DEF TurnAdmit, TurnLock, TurnEnd, CommandExits
      <4>2. CASE \E q \in Pods : TurnCommand(q) \/ TurnTerminates(q)
        BY <2>1, <4>2 DEF TurnCommand, TurnTerminates
      <4> QED BY <2>4, <4>1, <4>2 DEF Turn
    <3> QED BY <2>1, <2>4, <3>1, TurnMoves
  <2>5. CASE UserLeaves \/ \E q \in Pods : UserStop(q)
    <3>1. task'["stop"].end # "quiet"
      <4>1. CASE UserLeaves
        BY <4>1 DEF UserLeaves
      <4>2. ASSUME NEW q \in Pods, UserStop(q) PROVE task'["stop"].end # "quiet"
        BY <4>2 DEF UserStop
      <4> QED BY <2>5, <4>1, <4>2
    <3> QED BY <2>1, <2>5, <3>1, StopMoves
  <2>6. CASE Quiet
    BY <2>1, <2>6, QuietMoves
  <2>7. CASE Remove
    <3>1. task'["remove"].end # "quiet"
      <4>1. CASE RemoveAsk \/ RemoveLock \/ RemoveGoesOn \/ RemoveSettles \/ RemoveReturns
        BY <2>1, <4>1 DEF RemoveAsk, RemoveLock, RemoveGoesOn, RemoveSettles, RemoveReturns
      <4>2. CASE RemoveBody("remove")
        BY <2>1, <4>2 DEF RemoveBody, RemovePods, RemoveWaits, RemoveClaims
      <4> QED BY <2>7, <4>1, <4>2 DEF Remove
    <3> QED BY <2>1, <2>7, <3>1, RemoveMoves, RemoveBodyMoves DEF Remove, Removers
  <2>8. CASE Grace
    <3>1. task'["grace"].end # "quiet"
      <4>1. CASE GraceTryLocks \/ GraceCheck \/ GraceTimeout
        BY <2>1, <4>1 DEF GraceTryLocks, GraceCheck, GraceTimeout
      <4>2. CASE GraceFailed \/ GraceLeft \/ GraceForgets \/ GraceNotice \/ GraceClear
        BY <2>1, <4>2 DEF GraceFailed, GraceLeft, GraceForgets, GraceNotice, GraceClear
      <4>3. CASE \E p \in Pods : Expire(p) \/ GraceCandidate(p)
        BY <2>1, <4>3 DEF Expire, GraceCandidate
      <4>4. CASE RemoveBody("grace")
        BY <2>1, <4>4 DEF RemoveBody, RemovePods, RemoveWaits, RemoveClaims
      <4> QED BY <2>8, <4>1, <4>2, <4>3, <4>4 DEF Grace
    <3> QED BY <2>1, <2>8, <3>1, GraceMoves
  <2>9. CASE Delete \/ Sweep \/ TearPods("delete") \/ TearClaims("delete")
    <3>1. task'["delete"].end # "quiet"
      BY <2>1, <2>9 DEF Delete, Sweep, TearPods, TearClaims
    <3> QED BY <2>1, <2>9, <3>1, DeleteMoves, TearMoves
  <2>10. ASSUME NEW q \in Pods, Watch(q) PROVE task'[u].end # "quiet"
    <3>1. task'["watch"].end # "quiet"
      BY <2>10 DEF Watch
    <3> QED BY <2>1, <2>10, <3>1, WatchMoves
  <2>11. CASE Crash \/ Kubernetes \/ UNCHANGED vars
    BY <2>1, <2>11 DEF Crash, Kubernetes, vars
  <2> QED BY <2>2, <2>3, <2>4, <2>5, <2>6, <2>7, <2>8, <2>9, <2>10, <2>11 DEF Next
<1> QED BY <1>1, <1>2

\* A grace pass is at its shared steps only by them.
LEMMA GraceReturnsTo ==
    ASSUME TasksOK, Grace, ~RemoveBody("grace"),
           task["grace"].pc \notin {"rm_wait", "rm_claims"}
    PROVE  task'["grace"].pc \notin {"rm_wait", "rm_claims"}
<1> USE DEF Go, GoWith, Return, TaskAt, Idle, At, TasksOK, Tasks, TaskRecords
<1>1. CASE GraceTryLocks \/ GraceCheck \/ GraceTimeout
  BY <1>1 DEF GraceTryLocks, GraceCheck, GraceTimeout
<1>2. CASE GraceFailed \/ GraceLeft \/ GraceForgets \/ GraceNotice \/ GraceClear
  BY <1>2 DEF GraceFailed, GraceLeft, GraceForgets, GraceNotice, GraceClear
<1>3. CASE \E q \in Pods : Expire(q) \/ GraceCandidate(q)
  BY <1>3 DEF Expire, GraceCandidate
<1> QED BY <1>1, <1>2, <1>3 DEF Grace

\* A removal past its look at the rows holds the lock a start needs for another
\* one (remove_conversation_storage_locked).
LEMMA RemovalAloneStep ==
    ASSUME TasksOK, RowsOK, PathInv, RemovalAlone, [Next]_vars
    PROVE  RemovalAlone'
<1> SUFFICES ASSUME NEW t \in Removers, task'[t].pc \in {"rm_wait", "rm_claims"}, convo',
                    NEW p \in Pods, row'[p] = "live"
             PROVE  FALSE
  BY DEF RemovalAlone, LiveRows
<1> USE DEF Removers, Tasks
<1>1. convo
  BY ConvoGoes DEF Delete, RowsOK
<1>2. CASE StartRow
  <2>1. task'[t] = task[t] /\ lock.start = "free"
    BY <1>2, StartMoves DEF Start, StartRow
  <2> QED BY <2>1 DEF PathInv, LockHeld, RemoveHolds, GraceHolds
<1>3. CASE ~StartRow
  <2>1. p \in LiveRows
    BY <1>3, RowsMove DEF LiveRows
  <2>2. task[t].pc \notin {"rm_wait", "rm_claims"}
    BY <1>1, <2>1 DEF RemovalAlone
  <2>3. task[t].next \notin {"rm_wait", "rm_claims"}
    BY DEF TasksOK, TaskRecords
  <2>4. CASE RemoveBody(t)
    BY <1>1, <2>1, <2>2, <2>4 DEF RemoveBody, RemovePods, RemoveWaits, RemoveClaims, At, Go,
                      TasksOK, TaskRecords
  <2>5. CASE t = "remove" /\ ~RemoveBody(t)
    <3>1. CASE RemoveAsk \/ RemoveLock \/ RemoveSettles \/ RemoveReturns
      <4>1. \/ GoWith("remove", "wait_lock", 0) \/ Go("remove", "rm")
            \/ task' = [task EXCEPT !["remove"] = Idle]
        BY <3>1 DEF RemoveAsk, RemoveLock, RemoveSettles, RemoveReturns, Return
      <4>2. task'["remove"].pc \in {"wait_lock", "rm", "idle"}
        BY <4>1 DEF Go, GoWith, TaskAt, Idle, TasksOK, TaskRecords
      <4> QED BY <2>5, <4>2
    <3>2. CASE Terminate("remove")
      <4>1. \/ Go("remove", "close") \/ task' = [task EXCEPT !["remove"] = Idle]
            \/ GoWith("remove", task["remove"].next, 0)
        BY <3>2 DEF Terminate, ClusterDelete, Close, TermFails, Return
      <4>2. task'["remove"].pc \in {"close", "idle", task["remove"].next}
        BY <4>1 DEF Go, GoWith, TaskAt, Idle, TasksOK, TaskRecords
      <4> QED BY <2>3, <2>5, <4>2
    <3>3. CASE Crash
      BY <2>5, <3>3 DEF Crash, TaskAt, Idle
    <3>4. ~RemoveGoesOn
      BY <1>3, <2>1, RowsMove DEF RemoveGoesOn, LiveRows
    <3> QED BY <2>2, <2>5, <3>1, <3>2, <3>3, <3>4, RemoveStands DEF Remove
  <2>6. CASE t = "grace" /\ ~RemoveBody(t)
    <3>1. CASE Grace
      <4>1. task'["grace"].pc \notin {"rm_wait", "rm_claims"}
        BY <2>2, <2>6, <3>1, GraceReturnsTo
      <4> QED BY <2>6, <4>1
    <3>4. CASE Crash
      BY <2>6, <3>4 DEF Crash, TaskAt, Idle
    <3> QED BY <2>2, <2>6, <3>1, <3>4, GraceStands
  <2> QED BY <2>4, <2>5, <2>6
<1> QED BY <1>2, <1>3

\* The grace pass's path, one step after another: where it goes, and whether its
\* record of the pod and of an earlier attempt is kept.
GoneTo(S) == task'["grace"].pc \in S
Keeps == /\ task'["grace"].pod = task["grace"].pod
         /\ task'["grace"].before = task["grace"].before

\* Up to the claims.
LEMMA GraceBegins ==
    ASSUME TasksOK
    PROVE  /\ \A p \in Pods : Expire(p) => task' = task
           /\ \A p \in Pods : GraceCandidate(p) =>
                 At("grace", "idle") /\ GoneTo({"try"}) /\ task'["grace"].pod = p /\ Due(p)
           /\ GraceTryLocks => /\ At("grace", "try")
                               /\ GoneTo({"idle"}) \/ (GoneTo({"check"}) /\ Keeps)
           /\ GraceCheck =>
                 /\ At("grace", "check")
                 /\ \/ GoneTo({"idle"}) /\ tried' = tried
                    \/ /\ GoneTo({"rm"}) /\ Due(task["grace"].pod)
                       /\ task'["grace"].pod = task["grace"].pod
                       /\ task'["grace"].before = tried[task["grace"].pod]
                       /\ tried' = [tried EXCEPT ![task["grace"].pod] = TRUE]
                       /\ faults' = faults
<1> USE DEF GoneTo, Keeps, Go, GoWith, Return, TaskAt, Idle, TasksOK, Tasks, TaskRecords, At
<1>1. ASSUME NEW p \in Pods, Expire(p) PROVE task' = task
  BY <1>1 DEF Expire
<1>2. ASSUME NEW p \in Pods, GraceCandidate(p)
      PROVE  At("grace", "idle") /\ GoneTo({"try"}) /\ task'["grace"].pod = p /\ Due(p)
  BY <1>2 DEF GraceCandidate
<1>3. ASSUME GraceTryLocks
      PROVE  At("grace", "try") /\ (GoneTo({"idle"}) \/ (GoneTo({"check"}) /\ Keeps))
  BY <1>3 DEF GraceTryLocks
<1>4. ASSUME GraceCheck
      PROVE  /\ At("grace", "check")
             /\ \/ GoneTo({"idle"}) /\ tried' = tried
                \/ /\ GoneTo({"rm"}) /\ Due(task["grace"].pod)
                   /\ task'["grace"].pod = task["grace"].pod
                   /\ task'["grace"].before = tried[task["grace"].pod]
                   /\ tried' = [tried EXCEPT ![task["grace"].pod] = TRUE]
                   /\ faults' = faults
  <2>1. CASE Return("grace") /\ UNCHANGED tried
    <3>1. GoneTo({"idle"})
      BY <2>1
    <3> QED BY <1>4, <2>1, <3>1 DEF GraceCheck
  <2>2. CASE ~(Return("grace") /\ UNCHANGED tried)
    <3>1. /\ Due(task["grace"].pod) /\ tried' = [tried EXCEPT ![task["grace"].pod] = TRUE]
          /\ task' = [task EXCEPT !["grace"].pc = "rm", !["grace"].before = tried[task["grace"].pod]]
          /\ faults' = faults
      BY <1>4, <2>2 DEF GraceCheck, NoFault
    <3>2. /\ GoneTo({"rm"}) /\ task'["grace"].pod = task["grace"].pod
          /\ task'["grace"].before = tried[task["grace"].pod]
      BY <3>1
    <3> QED BY <1>4, <3>1, <3>2 DEF GraceCheck
  <2> QED BY <2>1, <2>2
<1> QED BY <1>1, <1>2, <1>3, <1>4

\* The removal it shares with the user's.
LEMMA GraceRemoves ==
    ASSUME TasksOK
    PROVE  /\ RemovePods("grace") =>
                 /\ At("grace", "rm")
                 /\ \/ GoneTo({"settle"}) /\ ~convo /\ Keeps
                    \/ GoneTo({"term"}) /\ convo /\ LiveRows # {}
                    \/ GoneTo({"rm_wait"}) /\ Keeps
           /\ RemoveWaits("grace") =>
                 At("grace", "rm_wait") /\ GoneTo({"rm_claims", "err"}) /\ Keeps
           /\ RemoveClaims("grace") =>
                 /\ At("grace", "rm_claims") /\ Keeps
                 /\ \/ GoneTo({"settle_left"}) /\ faults' = faults + 1
                    \/ /\ DeleteClaims(Claims) /\ faults' = faults
                       /\ GoneTo({"settle_deleted"}) /\ (\E c \in Claims : claim[c] = "ok")
                    \/ /\ DeleteClaims(Claims) /\ faults' = faults
                       /\ GoneTo({"settle"}) /\ ~(\E c \in Claims : claim[c] = "ok")
           /\ GraceTimeout => /\ task["grace"].pc \in {"rm", "rm_wait", "rm_claims"}
                              /\ GoneTo({"idle"})
<1> USE DEF GoneTo, Keeps, Go, Return, TaskAt, Idle, TasksOK, Tasks, TaskRecords, At
<1>1. ASSUME RemovePods("grace")
      PROVE  /\ At("grace", "rm")
             /\ \/ GoneTo({"settle"}) /\ ~convo /\ Keeps
                \/ GoneTo({"term"}) /\ convo /\ LiveRows # {}
                \/ GoneTo({"rm_wait"}) /\ Keeps
  BY <1>1 DEF RemovePods
<1>2. ASSUME RemoveWaits("grace")
      PROVE  At("grace", "rm_wait") /\ GoneTo({"rm_claims", "err"}) /\ Keeps
  BY <1>2 DEF RemoveWaits
<1>3. ASSUME RemoveClaims("grace")
      PROVE  /\ At("grace", "rm_claims") /\ Keeps
             /\ \/ GoneTo({"settle_left"}) /\ faults' = faults + 1
                \/ /\ DeleteClaims(Claims) /\ faults' = faults
                   /\ GoneTo({"settle_deleted"}) /\ (\E c \in Claims : claim[c] = "ok")
                \/ /\ DeleteClaims(Claims) /\ faults' = faults
                   /\ GoneTo({"settle"}) /\ ~(\E c \in Claims : claim[c] = "ok")
  <2>1. /\ At("grace", "rm_claims")
        /\ \/ Go("grace", "settle_left") /\ faults' = faults + 1
           \/ /\ DeleteClaims(Claims) /\ faults' = faults
              /\ Go("grace", "settle_deleted") /\ (\E c \in Claims : claim[c] = "ok")
           \/ /\ DeleteClaims(Claims) /\ faults' = faults
              /\ Go("grace", "settle") /\ ~(\E c \in Claims : claim[c] = "ok")
    BY <1>3 DEF RemoveClaims, Fault, NoFault
  <2>2. Keeps /\ \A x : Go("grace", x) => GoneTo({x})
    BY <2>1
  <2> QED BY <2>1, <2>2
<1>4. ASSUME GraceTimeout
      PROVE  task["grace"].pc \in {"rm", "rm_wait", "rm_claims"} /\ GoneTo({"idle"})
  <2>1. Return("grace") /\ task["grace"].pc \in {"rm", "rm_wait", "rm_claims"}
    BY <1>4 DEF GraceTimeout
  <2> QED BY <2>1
<1> QED BY <1>1, <1>2, <1>3, <1>4

\* Its ends.
LEMMA GraceEnds ==
    ASSUME TasksOK
    PROVE  /\ GraceFailed => At("grace", "err") /\ GoneTo({"idle"})
           /\ GraceLeft => At("grace", "settle_left") /\ GoneTo({"idle"})
           /\ GraceForgets =>
                 /\ task["grace"].pc \in {"settle", "settle_deleted"}
                 /\ \/ GoneTo({"idle"}) /\ tried' = tried /\ faults' = faults + 1
                    \/ /\ GoneTo({"notice", "clear"}) /\ Keeps /\ faults' = faults
                       /\ tried' = [tried EXCEPT ![task["grace"].pod] = FALSE]
                       /\ GoneTo({"notice"}) => \/ At("grace", "settle_deleted")
                                                \/ task["grace"].before
           /\ GraceNotice => At("grace", "notice") /\ GoneTo({"clear"}) /\ Keeps
           /\ GraceClear => At("grace", "clear") /\ GoneTo({"idle"})
<1> USE DEF GoneTo, Keeps, Go, Return, TaskAt, Idle, TasksOK, Tasks, TaskRecords, At
<1>1. ASSUME GraceFailed \/ GraceLeft \/ GraceClear
      PROVE  GoneTo({"idle"})
  <2>1. Return("grace")
    BY <1>1 DEF GraceFailed, GraceLeft, GraceClear
  <2> QED BY <2>1
<1>2. ASSUME GraceForgets
      PROVE  /\ task["grace"].pc \in {"settle", "settle_deleted"}
             /\ \/ GoneTo({"idle"}) /\ tried' = tried /\ faults' = faults + 1
                \/ /\ GoneTo({"notice", "clear"}) /\ Keeps /\ faults' = faults
                   /\ tried' = [tried EXCEPT ![task["grace"].pod] = FALSE]
                   /\ GoneTo({"notice"}) => \/ At("grace", "settle_deleted")
                                            \/ task["grace"].before
  <2>1. task["grace"].pc \in {"settle", "settle_deleted"}
    BY <1>2 DEF GraceForgets
  <2>2. CASE Return("grace") /\ UNCHANGED tried /\ Fault
    <3>1. GoneTo({"idle"})
      BY <2>2
    <3> QED BY <2>1, <2>2, <3>1 DEF Fault
  <2>3. CASE ~(Return("grace") /\ UNCHANGED tried /\ Fault)
    <3>1. /\ tried' = [tried EXCEPT ![task["grace"].pod] = FALSE] /\ faults' = faults
          /\ Go("grace", IF task["grace"].pc = "settle_deleted" \/ task["grace"].before
                         THEN "notice" ELSE "clear")
      BY <1>2, <2>3 DEF GraceForgets, NoFault
    <3>2. Keeps /\ GoneTo({IF task["grace"].pc = "settle_deleted" \/ task["grace"].before
                           THEN "notice" ELSE "clear"})
      BY <3>1
    <3> QED BY <2>1, <3>1, <3>2
  <2> QED BY <2>2, <2>3
<1>3. ASSUME GraceNotice
      PROVE  At("grace", "notice") /\ GoneTo({"clear"}) /\ Keeps
  BY <1>3 DEF GraceNotice
<1>4. (GraceFailed => At("grace", "err")) /\ (GraceLeft => At("grace", "settle_left"))
      /\ (GraceClear => At("grace", "clear"))
  BY DEF GraceFailed, GraceLeft, GraceClear
<1> QED BY <1>1, <1>2, <1>3, <1>4

\* What a step of the grace pass leaves alone.
LEMMA GraceLeaves ==
    ASSUME RowsOK, TasksOK, GraceHasPod, Grace
    PROVE  /\ row' = row /\ convo' = convo
           /\ \A p \in Pods : /\ mark'[p] # "no" => mark[p] # "no"
                              /\ mine[p] => mine'[p]
           /\ claim' = claim \/ RemoveClaims("grace") \/ GraceTimeout
           /\ notices' = notices \/ GraceNotice
<1> USE DEF RowsOK, database, cluster, history
<1>1. CASE GraceTryLocks \/ GraceCheck \/ GraceTimeout
  BY <1>1 DEF GraceTryLocks, GraceCheck, GraceTimeout
<1>2. CASE GraceFailed \/ GraceLeft \/ GraceForgets \/ GraceNotice \/ GraceClear
  BY <1>2 DEF GraceFailed, GraceLeft, GraceForgets, GraceNotice, GraceClear
<1>3. CASE \E q \in Pods : Expire(q) \/ GraceCandidate(q)
  BY <1>3 DEF Expire, GraceCandidate
<1>4. CASE RemoveBody("grace")
  BY <1>4 DEF RemoveBody, RemovePods, RemoveWaits, RemoveClaims
<1> QED BY <1>1, <1>2, <1>3, <1>4 DEF Grace

\* Each operation is about a pod whose row it found.
LEMMA PodHasRowStep ==
    ASSUME TasksOK, RowsOK, Marked, PodHasRow, [Next]_vars
    PROVE  PodHasRow'
<1> DEFINE Fine(t) == task'[t].pod \in Pods => row'[task'[t].pod] # "none"
<1> SUFFICES ASSUME NEW u \in Tasks
             PROVE  Fine(u)
  BY DEF PodHasRow
<1>1. \A p \in Pods : row[p] # "none" => row'[p] # "none"
  BY RowsMove
<1>2. \A t \in Tasks : task[t].pod \in Pods => row'[task[t].pod] # "none"
  BY <1>1 DEF PodHasRow
<1> USE DEF Go, GoWith, Return, TaskAt, Idle, TasksOK, Tasks, TaskRecords
<1>3. CASE Start \/ TearPods("start") \/ TearClaims("start")
  <2>1. Fine("start")
    <3>1. CASE StartRow
      BY <1>2, <3>1, PodAssumption DEF StartRow, RowsOK
    <3>2. CASE StartAsk \/ StartCheckRow \/ StartCheckConvo \/ StartFailed
      BY <1>2, <3>2, PodAssumption DEF StartAsk, StartCheckRow, StartCheckConvo, StartFailed
    <3>3. CASE StartWaitsGone \/ StartClaims \/ StartCreate
      BY <1>2, <3>3 DEF StartWaitsGone, StartClaims, StartCreate, StartFails
    <3>4. CASE StartWaitsRunning \/ StartCredentials
      BY <1>2, <3>4 DEF StartWaitsRunning, StartCredentials, StartFails
    <3>5. CASE TearPods("start") \/ TearClaims("start")
      BY <1>2, <3>5, PodAssumption DEF TearPods, TearClaims
    <3> QED BY <1>3, <3>1, <3>2, <3>3, <3>4, <3>5 DEF Start
  <2> QED BY <1>2, <1>3, <2>1, StartMoves, TearMoves
<1>4. ASSUME NEW t \in Enders, Terminate(t)
      PROVE  Fine(u)
  <2>1. Fine(t)
    BY <1>2, <1>4, PodAssumption DEF Terminate, ClusterDelete, Close, TermFails, Enders
  <2> QED BY <1>2, <1>4, <2>1, EnderMoves
<1>5. CASE Turn
  <2>1. Fine("turn")
    <3>1. CASE TurnAdmit \/ TurnLock \/ TurnEnd \/ CommandExits
      BY <1>2, <3>1, PodAssumption DEF TurnAdmit, TurnLock, TurnEnd, CommandExits
    <3>2. ASSUME NEW q \in Pods, TurnCommand(q) \/ TurnTerminates(q)
          PROVE  Fine("turn")
      BY <1>1, <1>2, <3>2 DEF TurnCommand, TurnTerminates
    <3> QED BY <1>5, <3>1, <3>2 DEF Turn
  <2> QED BY <1>2, <1>5, <2>1, TurnMoves
<1>6. CASE UserLeaves \/ \E q \in Pods : UserStop(q)
  <2>1. Fine("stop")
    <3>1. CASE UserLeaves
      BY <3>1, PodAssumption DEF UserLeaves
    <3>2. ASSUME NEW q \in Pods, UserStop(q)
          PROVE  Fine("stop")
      BY <1>1, <3>2 DEF UserStop
    <3> QED BY <1>6, <3>1, <3>2
  <2> QED BY <1>2, <1>6, <2>1, StopMoves
<1>7. CASE Quiet
  <2>1. Fine("quiet")
    <3>1. CASE QuietTryLocks \/ FinishWaits \/ QuietCheck
      BY <1>2, <3>1, PodAssumption DEF QuietTryLocks, FinishWaits, QuietCheck
    <3>2. ASSUME NEW q \in Pods, QuietCandidate(q) \/ FinishCandidate(q)
          PROVE  Fine("quiet")
      BY <1>1, <3>2 DEF QuietCandidate, FinishCandidate, Stoppable
    <3> QED BY <1>7, <3>1, <3>2 DEF Quiet
  <2> QED BY <1>2, <1>7, <2>1, QuietMoves
<1>8. ASSUME NEW t \in Removers, RemoveBody(t)
      PROVE  Fine(u)
  <2>1. Fine(t)
    BY <1>1, <1>2, <1>8 DEF RemoveBody, RemovePods, RemoveWaits, RemoveClaims, LiveRows, Removers
  <2> QED BY <1>2, <1>8, <2>1, RemoveBodyMoves
<1>9. CASE RemoveAsk \/ RemoveLock \/ RemoveGoesOn \/ RemoveSettles \/ RemoveReturns
  <2>1. Fine("remove")
    BY <1>2, <1>9, PodAssumption DEF RemoveAsk, RemoveLock, RemoveGoesOn, RemoveSettles, RemoveReturns
  <2> QED BY <1>2, <1>9, <2>1, RemoveMoves
<1>10. CASE Grace /\ ~RemoveBody("grace")
  <2>1. Fine("grace")
    <3>1. CASE GraceTryLocks \/ GraceCheck \/ GraceTimeout
      BY <1>2, <3>1, PodAssumption DEF GraceTryLocks, GraceCheck, GraceTimeout
    <3>2. CASE GraceFailed \/ GraceLeft \/ GraceForgets \/ GraceNotice \/ GraceClear
      BY <1>2, <3>2, PodAssumption DEF GraceFailed, GraceLeft, GraceForgets, GraceNotice, GraceClear
    <3>3. ASSUME NEW q \in Pods, Expire(q) \/ GraceCandidate(q)
          PROVE  Fine("grace")
      BY <1>1, <1>2, <3>3 DEF Expire, GraceCandidate, Due, Marked
    <3> QED BY <1>10, <3>1, <3>2, <3>3 DEF Grace
  <2> QED BY <1>2, <1>10, <2>1, GraceMoves
<1>11. CASE Delete \/ Sweep \/ TearPods("delete") \/ TearClaims("delete")
  <2>1. Fine("delete")
    BY <1>2, <1>11, PodAssumption DEF Delete, Sweep, TearPods, TearClaims
  <2> QED BY <1>2, <1>11, <2>1, DeleteMoves, TearMoves
<1>12. ASSUME NEW q \in Pods, Watch(q) PROVE Fine(u)
  <2>1. Fine("watch")
    BY <1>1, <1>12 DEF Watch
  <2> QED BY <1>2, <1>12, <2>1, WatchMoves
<1>13. CASE Crash
  BY <1>13, PodAssumption DEF Crash
<1>14. CASE Kubernetes \/ UNCHANGED vars
  BY <1>2, <1>14 DEF Kubernetes, vars
<1> HIDE DEF Fine
<1> QED BY <1>3, <1>4, <1>5, <1>6, <1>7, <1>8, <1>9, <1>10, <1>11, <1>12, <1>13, <1>14
        DEF Next, Remove, Removers

\* A row begins with its insert.
LEMMA RowsBegin ==
    ASSUME TasksOK, RowsOK, PodHasRow, [Next]_vars, ~StartRow, NEW p \in Pods, row[p] = "none"
    PROVE  row'[p] = "none"
<1> USE DEF database, CloseRow, RowsOK
<1>1. CASE Start
  <2>1. row' = row \/ StartFails
    BY <1>1 DEF Start, StartAsk, StartWaitsGone, StartClaims, StartCreate, StartWaitsRunning,
                StartCredentials, StartCheckRow, StartCheckConvo, StartFailed
  <2>2. task["start"].pod # p
    BY DEF PodHasRow, Tasks
  <2> QED BY <2>1, <2>2 DEF StartFails
<1>2. ASSUME NEW t \in Enders, Terminate(t)
      PROVE  row'[p] = "none"
  <2>1. task[t].pod # p
    BY DEF PodHasRow, Tasks, Enders
  <2> QED BY <1>2, <2>1 DEF Terminate, ClusterDelete, Close, TermFails
<1>3. CASE Delete
  BY <1>3 DEF Delete
<1>4. CASE Turn \/ UserLeaves \/ \E q \in Pods : UserStop(q) \/ Watch(q)
  BY <1>4 DEF Turn, TurnAdmit, TurnLock, TurnEnd, CommandExits, TurnCommand, TurnTerminates,
              UserStop, UserLeaves, Watch
<1>5. CASE Quiet
  BY <1>5 DEF Quiet, QuietTryLocks, FinishWaits, QuietCheck, QuietCandidate, FinishCandidate
<1>6. CASE Remove \/ RemoveBody("grace")
  BY <1>6 DEF Remove, RemoveAsk, RemoveLock, RemoveGoesOn, RemoveSettles, RemoveReturns, RemoveBody,
              RemovePods, RemoveWaits, RemoveClaims
<1>7. CASE Grace /\ ~RemoveBody("grace")
  BY <1>7 DEF Grace, GraceTryLocks, GraceCheck, GraceTimeout, GraceFailed, GraceLeft,
              GraceForgets, GraceNotice, GraceClear, Expire, GraceCandidate
<1>8. CASE Crash \/ Sweep \/ Kubernetes \/ UNCHANGED vars
  BY <1>8 DEF Crash, Sweep, Kubernetes, vars
<1>9. ASSUME NEW t \in {"start", "delete"}, TearPods(t) \/ TearClaims(t)
      PROVE  row' = row
  BY <1>9 DEF TearPods, TearClaims
<1> QED BY <1>1, <1>2, <1>3, <1>4, <1>5, <1>6, <1>7, <1>8, <1>9 DEF Next

\* A row is inserted after the others, once none of them is live (StartRow).
LEMMA RowsInOrderStep ==
    ASSUME TasksOK, RowsOK, PodHasRow, RowsInOrder, [Next]_vars
    PROVE  RowsInOrder'
<1> SUFFICES ASSUME NEW p \in Pods, NEW q \in Pods, q < p, row'[p] # "none"
             PROVE  row'[q] \notin {"none", "live"}
  BY DEF RowsInOrder
<1> USE PodAssumption
<1>1. CASE ~StartRow
  <2>1. row[p] # "none"
    BY <1>1, RowsBegin
  <2>2. row[q] \notin {"none", "live"}
    BY <2>1 DEF RowsInOrder
  <2> QED BY <1>1, <2>2, RowsMove
<1>2. CASE StartRow /\ row' = row
  BY <1>2 DEF RowsInOrder
<1>3. CASE StartRow /\ row' # row
  <2>1. PICK n \in Pods : /\ row[n] = "none" /\ (\A r \in Pods : r < n => row[r] # "none")
                          /\ row' = [row EXCEPT ![n] = "live"]
    BY <1>3 DEF StartRow
  <2>2. LiveRows = {}
    BY <1>3 DEF StartRow
  <2>3. CASE p = n
    <3>1. row[q] # "none" /\ row[q] # "live" /\ q # n
      BY <2>1, <2>2, <2>3 DEF LiveRows
    <3> QED BY <2>1, <3>1 DEF RowsOK
  <2>4. CASE p # n
    <3>1. row[p] # "none"
      BY <2>1, <2>4 DEF RowsOK
    <3>2. row[q] \notin {"none", "live"}
      BY <3>1 DEF RowsInOrder
    <3> QED BY <2>1, <3>2 DEF RowsOK
  <2> QED BY <2>3, <2>4
<1> QED BY <1>1, <1>2, <1>3

\* The pass is about the newest row from its re-check on.
LEMMA GraceLatestStep ==
    ASSUME TasksOK, RowsOK, PathInv, PodHasRow, GraceLatest, [Next]_vars
    PROVE  GraceLatest'
<1> SUFFICES ASSUME NEW p \in Pods, GraceOn(p)', convo', NEW q \in Pods, q > p
             PROVE  row'[q] = "none"
  BY DEF GraceLatest, Latest
<1>1. convo
  BY ConvoGoes DEF Delete, RowsOK
<1>2. ASSUME GraceOn(p) PROVE row'[q] = "none"
  <2>1. row[q] = "none"
    BY <1>1, <1>2 DEF GraceLatest, Latest
  <2>2. ~StartRow
    BY <1>2 DEF StartRow, GraceOn, PathInv, LockHeld, GraceHolds
  <2> QED BY <2>1, <2>2, RowsBegin
<1>3. CASE ~GraceOn(p)
  <2>1. Grace
    BY <1>3, GraceStands DEF GraceOn, Crash, TaskAt, Idle, Tasks
  <2>2. row' = row
    BY <2>1 DEF Grace, GraceTryLocks, GraceCheck, RemoveBody, RemovePods, RemoveWaits,
                RemoveClaims, GraceTimeout, GraceFailed, GraceLeft, GraceForgets, GraceNotice,
                GraceClear, Expire, GraceCandidate, database
  <2>3. GraceCheck /\ Due(p)
    <3> USE DEF GoneTo, Keeps, GraceOn, At
    <3>1. GraceCheck /\ ~GoneTo({"idle"})
      BY <1>3, <2>1, GraceBegins, GraceRemoves, GraceEnds DEF Grace, RemoveBody
    <3> QED BY <3>1, GraceBegins
  <2> QED BY <2>2, <2>3 DEF Due, Latest
<1> QED BY <1>2, <1>3

\* What the records say of p, and whether its stop is on the pass's clock.
Told(p) == tried'[p] = tried[p] /\ notices'[p] = notices[p] /\ mine'[p] = mine[p]
Clocked(p) == (mark'[p] = "no") <=> (mark[p] = "no")
Passing(p) == task["grace"].pod = p /\ task["grace"].pc \notin {"idle", "term"}

\* A pass about another pod leaves p's records alone.
LEMMA GraceElsewhere ==
    ASSUME TasksOK, RowsOK, GraceHasPod, Grace, NEW p \in Pods, ~Passing(p)
    PROVE  /\ Told(p) /\ Clocked(p)
           /\ \/ ~Passing(p)'
              \/ /\ GraceCandidate(p) /\ GoneTo({"try"})
                 /\ claim' = claim /\ faults' = faults
<1> USE DEF Told, Clocked, Passing, RowsOK, GraceHasPod
<1>1. Told(p) /\ Clocked(p)
  <2> USE DEF database, history, At
  <2>1. CASE GraceTryLocks \/ GraceCheck \/ GraceTimeout
    BY <2>1 DEF GraceTryLocks, GraceCheck, GraceTimeout
  <2>2. CASE GraceFailed \/ GraceLeft \/ GraceForgets \/ GraceNotice \/ GraceClear
    BY <2>2 DEF GraceFailed, GraceLeft, GraceForgets, GraceNotice, GraceClear
  <2>3. CASE \E q \in Pods : Expire(q) \/ GraceCandidate(q)
    BY <2>3 DEF Expire, GraceCandidate
  <2>4. CASE RemoveBody("grace")
    BY <2>4 DEF RemoveBody, RemovePods, RemoveWaits, RemoveClaims
  <2> QED BY <2>1, <2>2, <2>3, <2>4 DEF Grace
<1>2. ASSUME NEW q \in Pods, GraceCandidate(q)
      PROVE  \/ ~Passing(p)'
             \/ GraceCandidate(p) /\ GoneTo({"try"}) /\ claim' = claim /\ faults' = faults
  BY <1>2, GraceBegins DEF GraceCandidate, GoneTo, Begins, cluster
<1>3. ASSUME ~\E q \in Pods : GraceCandidate(q)
      PROVE  ~Passing(p)'
  <2> HIDE DEF RowsOK, Told, Clocked
  <2> USE DEF GoneTo, Keeps, At
  <2>1. ASSUME NEW q \in Pods, Expire(q) PROVE ~Passing(p)'
    BY <2>1, GraceBegins
  <2>2. CASE GraceTryLocks
    BY <2>2, GraceBegins
  <2>3. CASE GraceCheck
    BY <2>3, GraceBegins
  <2>4. CASE RemovePods("grace") \/ RemoveWaits("grace")
    BY <2>4, GraceRemoves
  <2>5. CASE RemoveClaims("grace") \/ GraceTimeout
    BY <2>5, GraceRemoves
  <2>6. CASE GraceFailed \/ GraceLeft \/ GraceNotice \/ GraceClear
    BY <2>6, GraceEnds
  <2>7. CASE GraceForgets
    BY <2>7, GraceEnds
  <2> QED BY <1>3, <2>1, <2>2, <2>3, <2>4, <2>5, <2>6, <2>7 DEF Grace, RemoveBody
<1> QED BY <1>1, <1>2, <1>3

\* A pass about p goes one step on its way.
Onward(p, from, to) == /\ task["grace"].pc = from /\ task'["grace"].pc = to
                       /\ task'["grace"].pod = p /\ task'["grace"].before = task["grace"].before
GivesUp(from) == task["grace"].pc \in from /\ task'["grace"].pc = "idle"
Quietly(p) == Told(p) /\ Clocked(p) /\ claim' = claim

\* It waits, or looks at the rows and the pods.
PassWaits(p) ==
    /\ Quietly(p)
    /\ faults' = faults \/ (faults' = faults + 1 /\ Onward(p, "rm_wait", "err"))
    /\ \/ task' = task
       \/ GivesUp({"try", "settle_left"}) \/ Onward(p, "try", "check")
       \/ Onward(p, "rm", "settle") /\ ~convo
       \/ task["grace"].pc = "rm" /\ task'["grace"].pc = "term" /\ convo /\ LiveRows # {}
       \/ Onward(p, "rm", "rm_wait") \/ Onward(p, "rm_wait", "rm_claims")
       \/ Onward(p, "rm_wait", "err")

\* It re-checks, and records its attempt.
PassChecks(p) ==
    /\ Clocked(p) /\ claim' = claim /\ notices'[p] = notices[p] /\ mine'[p] = mine[p]
    /\ \/ GivesUp({"check"}) /\ tried'[p] = tried[p]
       \/ /\ task["grace"].pc = "check" /\ task'["grace"].pc = "rm" /\ Due(p)
          /\ task'["grace"].pod = p /\ task'["grace"].before = tried[p]
          /\ tried'[p] = TRUE /\ faults' = faults

\* It removes the claims, or times out.
PassRemoves(p) ==
    /\ Clocked(p) /\ tried'[p] = tried[p] /\ notices'[p] = notices[p]
    /\ \/ GivesUp({"rm", "rm_wait", "rm_claims"}) /\ mine'[p] = TRUE /\ faults' = faults
       \/ /\ Onward(p, "rm_claims", "settle_left") /\ faults' = faults + 1
          /\ mine'[p] = TRUE \/ (mine'[p] = mine[p] /\ claim' = claim)
       \/ Onward(p, "rm_claims", "settle_deleted") /\ mine'[p] = TRUE /\ faults' = faults
       \/ /\ Onward(p, "rm_claims", "settle") /\ ~Whole
          /\ claim' = claim /\ mine'[p] = mine[p] /\ faults' = faults

\* It takes its attempt back, tells, and clears the mark.
PassEnds(p) ==
    /\ claim' = claim /\ mine'[p] = mine[p]
    /\ \/ /\ GivesUp({"err"}) /\ tried'[p] = task["grace"].before
          /\ notices'[p] = notices[p] /\ Clocked(p) /\ faults' = faults
       \/ /\ GivesUp({"err", "settle", "settle_deleted", "clear"})
          /\ Told(p) /\ Clocked(p) /\ faults' = faults + 1
       \/ /\ \/ Onward(p, "settle", "notice") /\ task["grace"].before
             \/ Onward(p, "settle_deleted", "notice")
             \/ Onward(p, "settle", "clear") \/ Onward(p, "settle_deleted", "clear")
          /\ tried'[p] = FALSE /\ notices'[p] = notices[p] /\ Clocked(p) /\ faults' = faults
       \/ /\ Onward(p, "notice", "clear") /\ tried'[p] = tried[p]
          /\ notices'[p] = IF convo THEN notices[p] + 1 ELSE notices[p]
          /\ Clocked(p) /\ faults' = faults
       \/ /\ GivesUp({"clear"}) /\ mark'[p] = "no" /\ tried'[p] = FALSE
          /\ notices'[p] = notices[p]

\* These are its steps.
LEMMA GraceHere ==
    ASSUME TasksOK, RowsOK, Grace, NEW p \in Pods, Passing(p)
    PROVE  PassWaits(p) \/ PassChecks(p) \/ PassRemoves(p) \/ PassEnds(p)
<1> USE DEF Told, Clocked, Passing, RowsOK, Onward, GivesUp, Quietly, GoneTo, Keeps, At,
            database, history, cluster
<1>1. ASSUME NEW q \in Pods, Expire(q)
      PROVE  PassWaits(p)
  BY <1>1 DEF Expire, PassWaits, NoFault
<1>2. ~\E q \in Pods : GraceCandidate(q)
  BY DEF GraceCandidate
<1>3. CASE GraceTryLocks
  BY <1>3, GraceBegins DEF GraceTryLocks, PassWaits, NoFault
<1>4. CASE GraceCheck
  <2>1. UNCHANGED <<mark, claim, notices, mine>>
    BY <1>4 DEF GraceCheck
  <2> QED BY <1>4, <2>1, GraceBegins DEF PassChecks
<1>5. CASE RemovePods("grace") \/ RemoveWaits("grace")
  <2>1. UNCHANGED <<mark, tried, claim, notices, mine>>
    BY <1>5 DEF RemovePods, RemoveWaits
  <2>2. \/ faults' = faults
        \/ faults' = faults + 1 /\ RemoveWaits("grace") /\ Go("grace", "err")
    BY <1>5 DEF RemovePods, RemoveWaits, NoFault, Fault
  <2>3. Go("grace", "err") => GoneTo({"err"})
    BY DEF Go, TasksOK, Tasks
  <2> QED BY <1>5, <2>1, <2>2, <2>3, GraceRemoves DEF PassWaits
<1>6. CASE RemoveClaims("grace")
  <2>1. /\ UNCHANGED <<mark, tried, notices>>
        /\ mine'[p] = (mine[p] \/ claim' # claim)
    BY <1>6 DEF RemoveClaims
  <2>2. CASE GoneTo({"settle_left"})
    BY <1>6, <2>1, <2>2, GraceRemoves DEF PassRemoves
  <2>3. CASE GoneTo({"settle_deleted"})
    <3>1. DeleteClaims(Claims) /\ faults' = faults /\ \E c \in Claims : claim[c] = "ok"
      BY <1>6, <2>3, GraceRemoves
    <3>2. claim' # claim
      BY <3>1 DEF DeleteClaims
    <3> QED BY <1>6, <2>1, <2>3, <3>1, <3>2, GraceRemoves DEF PassRemoves
  <2>4. CASE GoneTo({"settle"})
    <3>1. DeleteClaims(Claims) /\ faults' = faults /\ ~\E c \in Claims : claim[c] = "ok"
      BY <1>6, <2>4, GraceRemoves
    <3>2. claim' = claim /\ ~Whole
      BY <3>1 DEF DeleteClaims, Whole, Claims
    <3> QED BY <1>6, <2>1, <2>4, <3>1, <3>2, GraceRemoves DEF PassRemoves
  <2> QED BY <1>6, <2>2, <2>3, <2>4, GraceRemoves
<1>7. CASE GraceTimeout
  BY <1>7, GraceRemoves DEF GraceTimeout, PassRemoves, NoFault
<1>8. CASE GraceFailed
  BY <1>8, GraceEnds DEF GraceFailed, PassEnds, NoFault, Fault
<1>9. CASE GraceLeft
  BY <1>9, GraceEnds DEF GraceLeft, PassWaits, NoFault
<1>10. CASE GraceForgets
  <2>1. UNCHANGED <<mark, claim, notices, mine>>
    BY <1>10 DEF GraceForgets
  <2> QED BY <1>10, <2>1, GraceEnds DEF PassEnds
<1>11. CASE GraceNotice
  BY <1>11, GraceEnds DEF GraceNotice, PassEnds, NoFault
<1>12. CASE GraceClear
  BY <1>12, GraceEnds DEF GraceClear, PassEnds, NoFault, Fault
<1> QED BY <1>1, <1>2, <1>3, <1>4, <1>5, <1>6, <1>7, <1>8, <1>9, <1>10, <1>11, <1>12
        DEF Grace, RemoveBody

\* A crash leaves the records, and no pass behind.
LEMMA CrashLeaves ==
    ASSUME TasksOK, RowsOK, Crash
    PROVE  /\ UNCHANGED <<convo, row, mark, tried, claim, notices>>
           /\ faults' = faults + 1
           /\ \A t \in Tasks : task'[t].pc \in {"idle", "sweep"} /\ task'[t].pod = 0 /\ ~task'[t].before
           /\ task'["grace"].pc = "idle" /\ task'["remove"].pc = "idle"
           /\ \A p \in Pods : mine'[p] = (mine[p] \/ task["grace"].pod = p)
  BY DEF Crash, Fault, TaskAt, Idle, Tasks, database, cluster, RowsOK

\* The pass records attempts and notices of rows that are over.
LEMMA NoticedOverStep ==
    ASSUME TasksOK, RowsOK, GraceHasPod, Marked, NoticedOver, [Next]_vars
    PROVE  NoticedOver'
<1> SUFFICES ASSUME NEW p \in Pods
             PROVE  tried'[p] \/ notices'[p] > 0 \/ Passing(p)' => RowOver(p)'
  BY DEF NoticedOver, Passing
<1>1. CASE RowOver(p)
  BY <1>1, RowsMove
<1>2. CASE ~RowOver(p)
  <2>1. ~tried[p] /\ ~(notices[p] > 0) /\ ~Passing(p) /\ mark[p] = "no"
    BY <1>2 DEF NoticedOver, Passing, Marked, RowOver
  <2>2. CASE Grace
    <3>1. ~GraceCandidate(p)
      BY <2>1 DEF GraceCandidate, Due
    <3> QED BY <2>1, <2>2, <3>1, GraceElsewhere DEF Told
  <2>3. CASE Crash
    BY <2>1, <2>3, CrashLeaves DEF Passing
  <2>4. CASE ~Grace /\ ~Crash
    BY <2>1, <2>4, GraceRecords, GraceStands DEF Passing
  <2> QED BY <2>2, <2>3, <2>4
<1> QED BY <1>1, <1>2

\* Without a failure the pass clears the mark of the stop it told of, and so
\* never comes back to it (clear_pod_quiet_stop_mark after save_removal_notice).
LEMMA ToldOnceStep ==
    ASSUME TasksOK, RowsOK, GraceHasPod, QuietEnds, NoticedOver, ToldOnce, [Next]_vars
    PROVE  ToldOnce'
<1> SUFFICES ASSUME faults' = 0, NEW p \in Pods
             PROVE  /\ notices'[p] <= 1
                    /\ notices'[p] = 1 => \/ mark'[p] = "no"
                                          \/ task'["grace"].pc = "clear" /\ task'["grace"].pod = p
                    /\ Passing(p)' /\ task'["grace"].pc # "clear" => notices'[p] = 0
  BY DEF ToldOnce, Passing
<1>1. faults = 0 /\ ~Crash /\ notices[p] \in Nat
  BY FaultsCounted DEF RowsOK
<1>2. /\ notices[p] <= 1
      /\ notices[p] = 1 => \/ mark[p] = "no"
                           \/ task["grace"].pc = "clear" /\ task["grace"].pod = p
      /\ Passing(p) /\ task["grace"].pc # "clear" => notices[p] = 0
  BY <1>1 DEF ToldOnce, Passing
<1>3. CASE ~Grace
  <2>1. notices[p] = 1 => row[p] # "live"
    BY DEF NoticedOver, RowOver
  <2>2. mark'[p] # "no" /\ mark[p] = "no" => row[p] = "live"
    BY MarksMove
  <2> QED BY <1>1, <1>2, <1>3, <2>1, <2>2, GraceRecords, GraceStands DEF Passing
<1>4. CASE Grace /\ ~Passing(p)
  <2>1. GraceCandidate(p) => mark[p] # "no" /\ task["grace"].pc = "idle"
    BY DEF GraceCandidate, Due, At
  <2>2. notices'[p] = notices[p] /\ (mark'[p] = "no" <=> mark[p] = "no")
    BY <1>4, GraceElsewhere DEF Told, Clocked
  <2>3. Passing(p)' => GraceCandidate(p)
    BY <1>4, GraceElsewhere
  <2> QED BY <1>1, <1>2, <1>4, <2>1, <2>2, <2>3 DEF Passing
<1>5. CASE Grace /\ Passing(p)
  <2> USE DEF Onward, GivesUp, Quietly, Told, Clocked, Passing
  <2>1. CASE PassWaits(p)
    BY <1>2, <1>5, <2>1 DEF PassWaits
  <2>2. CASE PassChecks(p)
    BY <1>2, <1>5, <2>2 DEF PassChecks
  <2>3. CASE PassRemoves(p)
    BY <1>2, <1>5, <2>3 DEF PassRemoves
  <2>4. CASE PassEnds(p)
    BY <1>1, <1>2, <1>5, <2>4 DEF PassEnds
  <2> QED BY <1>5, <2>1, <2>2, <2>3, <2>4, GraceHere
<1> QED BY <1>3, <1>4, <1>5

\* What a pass removed stays removed by it.
LEMMA MineGrows ==
    ASSUME TasksOK, RowsOK, GraceHasPod, [Next]_vars, NEW p \in Pods, mine[p]
    PROVE  mine'[p]
  BY GraceLeaves, GraceRecords, CrashLeaves

\* A stop is concerned because it was, or because a quiet stop just ended its
\* live row.
LEMMA ConcernedBefore ==
    ASSUME TasksOK, RowsOK, GraceHasPod, QuietEnds, [Next]_vars, NEW p \in Pods, Concerned(p)'
    PROVE  \/ Concerned(p)
           \/ /\ row[p] = "live" /\ convo /\ task["quiet"].pc = "close" /\ ~mine[p]
              /\ mark[p] = "no" /\ UNCHANGED <<claim, faults>>
<1>1. convo
  BY ConvoGoes DEF Delete, RowsOK, Concerned
<1>2. Latest(p)
  BY RowsMove DEF Concerned, Latest
<1>3. ~mine[p]
  BY MineGrows DEF Concerned
<1>4. mark[p] # "no" \/ (row[p] = "live" /\ task["quiet"].pc = "close" /\ UNCHANGED <<claim, faults>>)
  BY MarksMove DEF Concerned
<1> QED BY <1>1, <1>2, <1>3, <1>4 DEF Concerned

\* While a stop is concerned only the user's removal takes its claims.
LEMMA ConcernedKept ==
    ASSUME TasksOK, RowsOK, PathInv, GraceHasPod, Marked, PodHasRow, GraceLatest, [Next]_vars,
           NEW p \in Pods, Whole, Concerned(p), Concerned(p)'
    PROVE  Whole' \/ RemoveClaims("remove")
<1>1. Whole' \/ RemoveClaims("remove") \/ RemoveClaims("grace") \/ GraceTimeout
  BY WholeKept DEF Concerned, Removers
<1>2. CASE RemoveClaims("grace") \/ GraceTimeout
  <2>1. GraceOn(task["grace"].pod) /\ task["grace"].pod \in Pods
    BY <1>2 DEF RemoveClaims, GraceTimeout, GraceOn, GraceHasPod, At
  <2>2. Latest(task["grace"].pod) /\ row[task["grace"].pod] # "none"
    BY <2>1 DEF GraceLatest, Concerned, PodHasRow, Tasks
  <2>3. row[p] # "none" /\ Latest(p)
    BY DEF Concerned, Marked
  <2>4. p = task["grace"].pod
    <3>1. p \in Nat /\ task["grace"].pod \in Nat
      BY <2>1, PodAssumption
    <3> QED BY <2>1, <2>2, <2>3, <3>1 DEF Latest
  <2>5. CASE claim' = claim
    BY <2>5 DEF Whole
  <2>6. CASE claim' # claim
    BY <1>2, <2>4, <2>6 DEF RemoveClaims, GraceTimeout, Concerned, RowsOK
  <2> QED BY <2>5, <2>6
<1> QED BY <1>1, <1>2

\* A pass that has re-checked finds no live row (RemovePods).
LEMMA PassFindsNone ==
    ASSUME RowsOK, RowsInOrder, NoticedOver, GraceLatest, NEW p \in Pods, GraceOn(p), convo
    PROVE  LiveRows = {}
<1> SUFFICES ASSUME NEW r \in Pods, row[r] = "live"
             PROVE  FALSE
  BY DEF LiveRows
<1>1. RowOver(p) /\ Latest(p)
  BY DEF NoticedOver, GraceOn, GraceLatest
<1>2. p \in Nat /\ r \in Nat
  BY PodAssumption
<1>3. r # p /\ ~(r > p) /\ ~(r < p)
  BY <1>1 DEF RowOver, Latest, RowsInOrder
<1> QED BY <1>2, <1>3

\* A start makes or keeps the claims of its row, and a removal takes none while
\* a row is live (ensure_conversation_pvcs, remove_conversation_storage_locked).
LEMMA LiveWholeStep ==
    ASSUME TasksOK, RowsOK, PathInv, RemovalAlone, LiveWhole, [Next]_vars
    PROVE  LiveWhole'
<1> DEFINE Begun(p) == task["start"].pc \in {"wait_gone", "claims"} /\ task["start"].pod = p
<1> SUFFICES ASSUME faults' = 0, convo', NEW p \in Pods, row'[p] = "live"
             PROVE  Whole' \/ Begun(p)'
  BY DEF LiveWhole
<1>0. convo
  BY ConvoGoes DEF Delete, RowsOK
<1>1. faults = 0 /\ faults' = faults /\ ~Crash /\ convo
  BY <1>0, FaultsCounted DEF RowsOK
<1>2. CASE row[p] # "live"
  <2>1. StartRow
    BY <1>2, RowsMove
  <2> QED BY <1>2, <2>1 DEF StartRow, RowsOK, GoWith, TaskAt, TasksOK, Tasks
<1>3. CASE row[p] = "live"
  <2>1. CASE Whole
    <3>1. ~\E t \in Removers : RemoveClaims(t)
      BY <1>1, <1>3 DEF RemoveClaims, At, RemovalAlone, LiveRows
    <3>2. GraceTimeout => claim' = claim
      BY <1>1, <1>3 DEF GraceTimeout, At, RemovalAlone, LiveRows, Removers
    <3> QED BY <1>1, <2>1, <3>1, <3>2, WholeKept DEF Whole
  <2>2. CASE Begun(p)
    <3>1. CASE Start
      <4>1. StartWaitsGone \/ StartClaims
        BY <2>2, <3>1 DEF Start, StartAsk, StartRow, StartCreate, StartWaitsRunning,
                StartCredentials, StartCheckRow, StartCheckConvo, StartFailed, At
      <4>2. ~StartFails
        BY <1>3, <2>2 DEF StartFails, CloseRow, RowsOK
      <4>3. CASE StartWaitsGone
        BY <2>2, <4>2, <4>3 DEF StartWaitsGone, Go, TasksOK, Tasks, TaskRecords
      <4>4. CASE StartClaims
        BY <1>1, <4>2, <4>4 DEF StartClaims, Whole, Fault, RowsOK
      <4> QED BY <4>1, <4>3, <4>4
    <3>2. CASE TearPods("start") \/ TearClaims("start")
      BY <2>2, <3>2 DEF TearPods, TearClaims, At
    <3> QED BY <1>1, <2>2, <3>1, <3>2, StartStands
  <2> QED BY <1>1, <1>3, <2>1, <2>2 DEF LiveWhole
<1> QED BY <1>2, <1>3

\* The user's removal settles what it does to a concerned stop, before it drops
\* the lock (RemoveSettles).
LEMMA SettlingStands ==
    ASSUME TasksOK, RowsOK, [Next]_vars, faults' = faults, NEW p \in Pods,
           RemoveSettling, Concerned(p)'
    PROVE  RemoveSettling'
<1>1. ~Crash
  BY FaultsCounted DEF RowsOK
<1>2. CASE RemoveSettles
  BY <1>2 DEF RemoveSettles, Fault, RowsOK, Concerned
<1>3. CASE ~RemoveSettles
  <2>1. ~Remove /\ ~Terminate("remove")
    BY <1>3 DEF Remove, RemoveAsk, RemoveLock, RemoveGoesOn, RemoveReturns, RemoveBody, RemovePods, RemoveWaits,
                RemoveClaims, Terminate, ClusterDelete, Close, TermFails, At, RemoveSettling
  <2> QED BY <1>1, <2>1, RemoveStands DEF RemoveSettling
<1> QED BY <1>2, <1>3

\* The removal's own way there.
LEMMA RemovalSettles ==
    ASSUME TasksOK, RowsOK, RemoveClaims("remove"), faults' = faults
    PROVE  RemoveSettling'
  BY DEF RemoveClaims, Fault, RowsOK, RemoveSettling, Go, TasksOK, Tasks, TaskRecords

\* A quiet stop marks a row whose claims are whole: it holds the start lock, so
\* the row's start is over; then only the user's removal can take them.
LEMMA ConcernedWholeStep ==
    ASSUME TasksOK, RowsOK, PathInv, GraceHasPod, Marked, HeldInv, LiveWhole, ConcernedWhole,
           [Next]_vars
    PROVE  ConcernedWhole'
<1> SUFFICES ASSUME faults' = 0, NEW p \in Pods, Concerned(p)'
             PROVE  Whole' \/ RemoveSettling'
  BY DEF ConcernedWhole
<1> USE DEF HeldInv
<1>1. faults = 0 /\ faults' = faults
  BY FaultsCounted DEF RowsOK
<1>2. CASE Concerned(p)
  <2>1. Whole \/ RemoveSettling
    BY <1>1, <1>2 DEF ConcernedWhole
  <2> QED BY <1>1, <1>2, <2>1, ConcernedKept, RemovalSettles, SettlingStands
<1>3. CASE row[p] = "live" /\ convo /\ task["quiet"].pc = "close" /\ claim' = claim
  <2>1. lock.start = "quiet"
    BY <1>3 DEF QuietHolds
  <2>2. Whole
    BY <1>1, <1>3, <2>1 DEF LiveWhole, PathInv, LockHeld, StartHolds
  <2> QED BY <1>3, <2>2 DEF Whole
<1> QED BY <1>2, <1>3, ConcernedBefore

\* Until a failure only a pass at work, or one that gave up on a removal, leaves
\* an attempt on record (start_storage_removal, and GraceFailed taking it back).
LEMMA TriedAtWorkStep ==
    ASSUME TasksOK, RowsOK, PathInv, GraceHasPod, HeldInv, NoticedOver, TriedAtWork, [Next]_vars
    PROVE  TriedAtWork'
<1> SUFFICES ASSUME faults' = 0, NEW p \in Pods
             PROVE  /\ tried'[p] => mine'[p] \/ GraceOn(p)'
                    /\ Again(p)' => mine'[p]
  BY DEF TriedAtWork
<1> USE DEF HeldInv
<1>1. faults = 0 /\ faults' = faults /\ ~Crash
  BY FaultsCounted DEF RowsOK
<1>2. (tried[p] => mine[p] \/ GraceOn(p)) /\ (Again(p) => mine[p]) /\ (mine[p] => mine'[p])
  BY <1>1, MineGrows DEF TriedAtWork
<1>3. CASE ~Grace
  BY <1>1, <1>2, <1>3, GraceRecords, GraceStands DEF GraceOn, Again
<1>4. CASE Grace /\ ~Passing(p)
  <2>1. ~GraceOn(p) /\ ~GraceOn(p)'
    BY <1>4, GraceElsewhere DEF Passing, GraceOn, GoneTo
  <2> QED BY <1>2, <1>4, <2>1, GraceElsewhere DEF Told, Again
<1>5. CASE Grace /\ Passing(p)
  <2> USE DEF Onward, GivesUp, Quietly, Told, Passing, GraceOn, Again
  <2>1. CASE PassWaits(p)
    <3>1. ~(task["grace"].pc = "rm" /\ convo /\ LiveRows # {})
      BY <1>5, PassFindsNone
    <3> QED BY <1>2, <1>5, <2>1, <3>1 DEF PassWaits
  <2>2. CASE PassChecks(p)
    BY <1>2, <1>5, <2>2 DEF PassChecks
  <2>3. CASE PassRemoves(p)
    BY <1>1, <1>2, <1>5, <2>3 DEF PassRemoves, RowsOK
  <2>4. CASE PassEnds(p)
    BY <1>1, <1>2, <1>5, <2>4 DEF PassEnds, RowsOK
  <2> QED BY <1>5, <2>1, <2>2, <2>3, <2>4, GraceHere
<1> QED BY <1>3, <1>4, <1>5

\* The one failure leaves the claims of a stop whose attempt it forgot to take
\* back, or takes them in the pass's name.
LEMMA TriedWholeFault ==
    ASSUME TasksOK, RowsOK, PathInv, GraceHasPod, Marked, HeldInv, ConcernedWhole, TriedAtWork,
           [Next]_vars, faults = 0, faults' = 1,
           NEW p \in Pods, Concerned(p)', tried'[p] = TRUE
    PROVE  Whole'
<1> USE DEF HeldInv
<1>1. Concerned(p)
  BY ConcernedBefore
<1>2. Whole \/ RemoveSettling
  BY <1>1 DEF ConcernedWhole
<1>3. tried[p] = TRUE
  <2>1. CASE Grace /\ Passing(p)
    <3>1. CASE PassWaits(p) \/ PassChecks(p) \/ PassRemoves(p)
      BY <3>1 DEF PassWaits, PassChecks, PassRemoves, Quietly, Told
    <3>2. CASE PassEnds(p)
      BY <3>2 DEF PassEnds, Told
    <3> QED BY <2>1, <3>1, <3>2, GraceHere
  <2> QED BY <2>1, GraceElsewhere, GraceRecords, CrashLeaves DEF Told
<1>4. GraceOn(p)
  BY <1>1, <1>3 DEF TriedAtWork, Concerned
<1>5. lock.start = "grace"
  BY <1>4 DEF GraceOn, PathInv, LockHeld, GraceHolds
<1>6. ~RemoveSettling /\ ~RemoveClaims("remove")
  BY <1>5 DEF RemoveSettling, RemoveClaims, At, PathInv, LockHeld, RemoveHolds
<1> QED BY <1>1, <1>2, <1>6, ConcernedKept

\* Afterwards every pass that gives up before the claims takes its attempt back,
\* and one that gives up past them has them for its own.
LEMMA TriedWholeStep ==
    ASSUME TasksOK, RowsOK, PathInv, GraceHasPod, Marked, HeldInv, NoticedOver, ConcernedWhole,
           TriedAtWork, TriedWhole, AgainWhole, [Next]_vars
    PROVE  TriedWhole'
<1> SUFFICES ASSUME faults' = 1, NEW p \in Pods, Concerned(p)', tried'[p] = TRUE
             PROVE  Whole' \/ RemoveSettling' \/ (GraceOn(p)' /\ ~task'["grace"].before)
  BY DEF TriedWhole
<1> USE DEF HeldInv
<1>1. CASE faults = 0
  BY <1>1, TriedWholeFault
<1>2. CASE faults # 0
  <2>1. faults = 1 /\ faults' = faults /\ ~Crash
    BY <1>2, FaultsCounted DEF RowsOK
  <2>2. CASE ~tried[p]
    <3>1. Grace /\ Passing(p)
      BY <2>1, <2>2, GraceElsewhere, GraceRecords DEF Told
    <3>2. \/ PassChecks(p)
          \/ GivesUp({"err"}) /\ task["grace"].before /\ claim' = claim
      BY <2>2, <3>1, GraceHere DEF PassWaits, PassRemoves, PassEnds, Quietly, Told, GivesUp, RowsOK
    <3>3. CASE PassChecks(p)
      BY <2>2, <3>3 DEF PassChecks, GraceOn, RowsOK
    <3>4. CASE GivesUp({"err"}) /\ task["grace"].before /\ claim' = claim
      <4>1. Again(p)
        BY <3>1, <3>4 DEF GivesUp, Again, GraceOn, Passing
      <4>2. ~mine[p] /\ convo
        BY MineGrows, ConvoGoes DEF Concerned, Delete, RowsOK
      <4>3. Whole
        BY <2>1, <4>1, <4>2 DEF AgainWhole
      <4> QED BY <3>4, <4>3 DEF Whole
    <3> QED BY <3>2, <3>3, <3>4
  <2>3. CASE tried[p]
    <3>1. Concerned(p)
      BY <2>3, ConcernedBefore DEF NoticedOver, RowOver
    <3>2. Whole \/ RemoveSettling \/ (GraceOn(p) /\ ~task["grace"].before)
      BY <2>1, <2>3, <3>1 DEF TriedWhole
    <3>3. CASE Whole \/ RemoveSettling
      BY <2>1, <3>1, <3>3, ConcernedKept, RemovalSettles, SettlingStands
    <3>4. CASE GraceOn(p) /\ ~task["grace"].before
      <4>1. CASE ~Grace
        BY <2>1, <3>4, <4>1, GraceStands DEF GraceOn
      <4>2. CASE Grace
        <5>1. Passing(p)
          BY <3>4 DEF Passing, GraceOn
        <5>2. ~mine'[p] /\ convo
          BY <3>1 DEF Concerned
        <5> USE DEF Onward, GivesUp, Quietly, Told, GraceOn
        <5>3. CASE PassWaits(p)
          <6>1. ~(task["grace"].pc = "rm" /\ convo /\ LiveRows # {})
            BY <3>4, PassFindsNone
          <6> QED BY <3>4, <5>1, <5>2, <5>3, <6>1 DEF PassWaits
        <5>4. CASE PassChecks(p)
          BY <3>4, <5>4 DEF PassChecks
        <5>5. CASE PassRemoves(p)
          BY <2>1, <3>4, <5>2, <5>5 DEF PassRemoves
        <5>6. CASE PassEnds(p)
          BY <2>1, <3>4, <5>6 DEF PassEnds
        <5> QED BY <4>2, <5>1, <5>3, <5>4, <5>5, <5>6, GraceHere
      <4> QED BY <4>1, <4>2
    <3> QED BY <3>2, <3>3, <3>4
  <2> QED BY <2>2, <2>3
<1> QED BY <1>1, <1>2

\* A second attempt finds an earlier one's record: the claims are whole then, or
\* the earlier one removed them (GraceCheck's before).
LEMMA AgainWholeStep ==
    ASSUME TasksOK, RowsOK, PathInv, GraceHasPod, Marked, HeldInv, TriedAtWork, TriedWhole,
           AgainWhole, [Next]_vars
    PROVE  AgainWhole'
<1> SUFFICES ASSUME faults' <= 1, NEW p \in Pods, Again(p)', ~mine'[p], convo'
             PROVE  /\ Whole'
                    /\ task'["grace"].pc \in {"rm", "rm_wait", "rm_claims", "err"}
  BY DEF AgainWhole
<1> USE DEF HeldInv
<1>1. convo /\ ~mine[p]
  BY MineGrows, ConvoGoes DEF Delete, RowsOK
<1>2. faults <= 1 /\ faults \in Nat /\ faults' \in {faults, faults + 1}
  BY FaultsCounted, PodAssumption DEF RowsOK
<1>3. ~Crash
  BY CrashLeaves DEF Again, GraceOn
<1>4. Again(p) => Whole /\ task["grace"].pc \in {"rm", "rm_wait", "rm_claims", "err"}
  BY <1>1, <1>2 DEF AgainWhole
<1>5. CASE ~Grace
  <2>1. task'["grace"] = task["grace"] /\ Again(p)
    BY <1>3, <1>5, GraceStands DEF Again, GraceOn
  <2>2. ~RemoveClaims("remove")
    BY <2>1 DEF RemoveClaims, At, PathInv, LockHeld, RemoveHolds, GraceHolds, Again, GraceOn
  <2>3. ~RemoveClaims("grace") /\ ~GraceTimeout
    BY <1>5 DEF Grace, RemoveBody
  <2> QED BY <1>1, <1>4, <2>1, <2>2, <2>3, WholeKept DEF Removers
<1>6. CASE Grace
  <2>1. Passing(p)
    BY <1>6, GraceElsewhere DEF GoneTo, Passing, Again, GraceOn
  <2> USE DEF Onward, GivesUp, Quietly, Told, Again, GraceOn
  <2>2. CASE PassWaits(p)
    BY <1>1, <1>4, <2>1, <2>2 DEF PassWaits, Passing, Whole
  <2>3. CASE PassChecks(p)
    <3>1. /\ task["grace"].pc = "check" /\ Due(p) /\ tried[p] /\ faults' = faults
          /\ claim' = claim /\ task'["grace"].pc = "rm"
      BY <2>3 DEF PassChecks
    <3>2. Concerned(p)
      BY <1>1, <3>1 DEF Concerned, Due
    <3>3. ~RemoveSettling
      BY <3>1 DEF RemoveSettling, PathInv, LockHeld, RemoveHolds, GraceHolds
    <3>4. faults # 0
      BY <1>1, <3>1 DEF TriedAtWork
    <3>5. Whole
      BY <1>2, <3>1, <3>2, <3>3, <3>4 DEF TriedWhole
    <3> QED BY <3>1, <3>5 DEF Whole
  <2>4. CASE PassRemoves(p)
    BY <1>4, <2>1, <2>4 DEF PassRemoves, Passing
  <2>5. CASE PassEnds(p)
    BY <2>5 DEF PassEnds
  <2> QED BY <1>6, <2>1, <2>2, <2>3, <2>4, <2>5, GraceHere
<1> QED BY <1>5, <1>6

\* So a notice is of claims the pass removed (settle_deleted, or a second attempt).
LEMMA TellsTrueStep ==
    ASSUME TasksOK, RowsOK, GraceHasPod, AgainWhole, TellsTrue, [Next]_vars
    PROVE  TellsTrue'
<1> DEFINE At2(p, pc) == task["grace"].pod = p /\ task["grace"].pc = pc
<1> SUFFICES ASSUME NEW p \in Pods
             PROVE  /\ At2(p, "settle_deleted")' => mine'[p]
                    /\ faults' <= 1 => /\ At2(p, "notice")' => mine'[p] \/ ~convo'
                                       /\ notices'[p] > 0 => mine'[p]
  BY DEF TellsTrue
<1>1. faults \in Nat /\ (faults' <= 1 => faults <= 1)
  BY FaultsCounted, PodAssumption DEF RowsOK
<1>2. (mine[p] => mine'[p]) /\ (~convo => ~convo')
  <2>1. CASE Delete
    BY <2>1, MineGrows DEF Delete
  <2>2. CASE ~Delete
    BY <2>2, MineGrows, ConvoGoes
  <2> QED BY <2>1, <2>2
<1>3. /\ At2(p, "settle_deleted") => mine[p]
      /\ faults <= 1 => /\ At2(p, "notice") => mine[p] \/ ~convo
                        /\ notices[p] > 0 => mine[p]
                        /\ Again(p) /\ task["grace"].pc = "settle" => mine[p] \/ ~convo
  BY DEF TellsTrue, AgainWhole
<1>4. CASE ~Grace /\ ~Crash
  BY <1>1, <1>2, <1>3, <1>4, GraceRecords, GraceStands
<1>5. CASE Crash
  BY <1>1, <1>2, <1>3, <1>5, CrashLeaves
<1>6. CASE Grace /\ ~Passing(p)
  <2>1. ~At2(p, "settle_deleted")' /\ ~At2(p, "notice")'
    BY <1>6, GraceElsewhere DEF Passing, GoneTo
  <2> QED BY <1>1, <1>2, <1>3, <1>6, <2>1, GraceElsewhere DEF Told
<1>7. CASE Grace /\ Passing(p)
  <2> USE DEF Onward, GivesUp, Quietly, Told, Passing
  <2>1. CASE PassWaits(p)
    BY <1>1, <1>2, <1>3, <1>7, <2>1 DEF PassWaits
  <2>2. CASE PassChecks(p)
    BY <1>1, <1>2, <1>3, <1>7, <2>2 DEF PassChecks
  <2>3. CASE PassRemoves(p)
    BY <1>1, <1>2, <1>3, <1>7, <2>3 DEF PassRemoves
  <2>4. CASE PassEnds(p)
    BY <1>1, <1>2, <1>3, <1>7, <2>4 DEF PassEnds, Again, GraceOn, RowsOK
  <2> QED BY <1>7, <2>1, <2>2, <2>3, <2>4, GraceHere
<1> QED BY <1>4, <1>5, <1>6, <1>7

\* All of it holds at first and is kept.
LEMMA NoteInit == Init => NoteInv
<1> SUFFICES ASSUME Init
             PROVE  NoteInv
  OBVIOUS
<1>1. /\ \A t \in Tasks : task[t].pc = "idle" /\ task[t].end = "plain" /\ task[t].pod = 0 /\ ~task[t].before
      /\ \A p \in Pods : row[p] = "none" /\ mark[p] = "no" /\ ~tried[p] /\ notices[p] = 0 /\ p # 0
  BY PodAssumption DEF Init, TaskAt, Idle
<1> USE <1>1 DEF Tasks
<1>2. HeldInv
  BY DEF HeldInv, QuietHolds, QuietEnds, RemovalAlone, PodHasRow, RowsInOrder, GraceLatest, GraceOn,
         Removers
<1>3. NoticedOver /\ ToldOnce
  BY DEF NoticedOver, ToldOnce
<1>4. TrueInv
  BY DEF TrueInv, LiveWhole, ConcernedWhole, TriedAtWork, TriedWhole, AgainWhole, TellsTrue,
         Concerned, Again, GraceOn
<1> QED BY <1>2, <1>3, <1>4 DEF NoteInv

\* Every step keeps it.
LEMMA NoteStep == Inv /\ NoteInv /\ [Next]_vars => NoteInv'
  BY QuietStep, RemovalAloneStep, PodHasRowStep, RowsInOrderStep, GraceLatestStep, NoticedOverStep,
     ToldOnceStep, LiveWholeStep, ConcernedWholeStep, TriedAtWorkStep, TriedWholeStep,
     AgainWholeStep, TellsTrueStep
  DEF Inv, KeptInv, NoteInv, HeldInv, TrueInv

\* No removal notice unless a pass removed the claims itself or gave up on a
\* removal that may have, while one call at most fails; and one for each quiet
\* stop while none does: however starts, stops, removals, passes, deletes and
\* their locks interleave (the attempt's record, and the mark's clear after the
\* notice, in storage_grace.rs).
THEOREM PodLifeOneTrueNotice == Spec => []OneTrueNotice
<1>1. Inv /\ NoteInv => OneTrueNotice
  BY DEF Inv, RowsOK, NoteInv, TrueInv, TellsTrue, ToldOnce, OneTrueNotice
<1>2. Spec => []NoteInv
  BY NoteInit, NoteStep, InvAlways, PTL DEF Spec
<1> QED BY <1>1, <1>2, InvAlways, PTL
=============================================================================
