-------------------------- MODULE AgentTreeProofs --------------------------
(***************************************************************************)
(* Proofs about AgentTree, for any number of tasks and conversations: what *)
(* tasks have to themselves; then the tree and the locks its transactions  *)
(* take on it (what is under a conversation, that a stop and a delete take *)
(* all of it, and that no tasks wait for each other in a circle).          *)
(***************************************************************************)
EXTENDS AgentTree, WellFoundedInduction, TLAPS

-----------------------------------------------------------------------------
(* Types.  What a task has left to lock is of no concern to the proofs, so *)
(* that any set of it will do.                                             *)

Record(Rests) ==
    [op : AllOps \cup {"none"}, pc : Pcs, by : 0..MaxConvs, on : 0..MaxConvs, rest : Rests,
     tree : SUBSET Convs, was : SUBSET (Convs \X {"active", "finished"})]

Busy(r) == r.pc \notin {"idle", "done"}

TxOK == /\ \E Rests : tx \in [Tasks -> Record(Rests)]
        /\ \A t \in Tasks : Busy(tx[t]) => tx[t].on \in Convs

TreeOK == /\ parent \in [Convs -> 0..MaxConvs]
          /\ state \in [Convs -> States]
          /\ started \subseteq Convs
          /\ rows \in [Tasks -> SUBSET Convs]
          /\ faults \in Nat
          /\ stands \subseteq Convs

\* A task with nothing to do, or over.
LEMMA NoTaskTyped == NoTask \in Record({{}}) /\ Over \in Record({{}}) /\ ~Busy(Over)
  BY AgentTreeAssumption DEF Over, NoTask, Record, Pcs, Busy

\* A task that takes a typed record keeps the tasks typed.
LEMMA Put ==
    ASSUME TxOK, NEW t \in Tasks, NEW Rests, NEW r \in Record(Rests), Busy(r) => r.on \in Convs,
           tx' = [tx EXCEPT ![t] = r]
    PROVE  TxOK'
<1>1. PICK Old : tx \in [Tasks -> Record(Old)]
  BY DEF TxOK
<1>2. /\ r \in Record(Old \cup Rests)
      /\ \A u \in Tasks : tx[u] \in Record(Old \cup Rests)
  BY <1>1 DEF Record
<1>3. tx' \in [Tasks -> Record(Old \cup Rests)]
  BY <1>1, <1>2
<1>4. \A u \in Tasks : Busy(tx'[u]) => tx'[u].on \in Convs
  BY <1>1 DEF TxOK
<1> QED BY <1>3, <1>4 DEF TxOK

\* A busy task that moves on, with other locks to take or not.
LEMMA PutMove ==
    ASSUME TxOK, NEW t \in Tasks, NEW pc \in Pcs, Busy(tx[t]),
           \/ Go(t, pc)
           \/ \E rest : GoLock(t, pc, rest)
    PROVE  TxOK'
<1>1. PICK Old : tx \in [Tasks -> Record(Old)]
  BY DEF TxOK
<1>2. CASE Go(t, pc)
  <2>1. [tx[t] EXCEPT !.pc = pc] \in Record(Old) /\ [tx[t] EXCEPT !.pc = pc].on = tx[t].on
    BY <1>1 DEF Record
  <2> QED BY <1>2, <2>1, Put DEF Go, TxOK
<1>3. ASSUME NEW rest, GoLock(t, pc, rest)
      PROVE  TxOK'
  <2> DEFINE r == [tx[t] EXCEPT !.pc = pc, !.rest = rest]
  <2>1. r \in Record({rest}) /\ r.on = tx[t].on
    BY <1>1 DEF Record
  <2>2. tx' = [tx EXCEPT ![t] = r]
    BY <1>1, <1>3 DEF GoLock
  <2> QED BY <2>1, <2>2, Put DEF TxOK
<1> QED BY <1>2, <1>3

\* A task that is over.
LEMMA PutOver ==
    ASSUME TxOK, NEW t \in Tasks, tx' = [tx EXCEPT ![t] = Over]
    PROVE  TxOK'
  BY NoTaskTyped, Put

-----------------------------------------------------------------------------
\* lock_conversations takes one lock off a list.
LEMMA LockTx ==
    ASSUME TxOK, NEW t \in Tasks, lock_conversations(t)
    PROVE  TxOK'
<1>1. PICK Old : tx \in [Tasks -> Record(Old)]
  BY DEF TxOK
<1> DEFINE r == [tx[t] EXCEPT !.rest = @ \ {NextRow(t)}]
<1>2. r \in Record({tx[t].rest \ {NextRow(t)}}) /\ r.on = tx[t].on /\ r.pc = tx[t].pc
  BY <1>1 DEF Record
<1>3. tx' = [tx EXCEPT ![t] = r]
  BY <1>1 DEF lock_conversations
<1> QED BY <1>2, <1>3, Put DEF TxOK, Busy

\* The records of start_agent, its commit and its done step.
LEMMA StartTx ==
    ASSUME TxOK, TreeOK, NEW t \in Tasks, Start(t)
    PROVE  TxOK'
<1>1. CASE start_agent(t)
  <2>1. PICK by \in Live, c \in Unused :
           tx' = [tx EXCEPT ![t] = [NoTask EXCEPT !.op = "create", !.pc = "link", !.by = by, !.on = c]]
    BY <1>1 DEF start_agent
  <2> DEFINE r == [NoTask EXCEPT !.op = "create", !.pc = "link", !.by = by, !.on = c]
  <2>2. c \in Convs /\ c \in 0..MaxConvs /\ by \in 0..MaxConvs /\ "create" \in AllOps /\ "link" \in Pcs
    BY DEF Live, Unused, Convs, AllOps, Pcs
  <2>3. r \in Record({{}}) /\ r.on = c
    BY <2>2, NoTaskTyped DEF Record
  <2> QED BY <2>1, <2>2, <2>3, Put
<1>2. CASE CreateCommit(t)
  BY <1>2, PutMove DEF CreateCommit, run_start, Busy, Pcs
<1>3. CASE complete_start(t) \/ fail_start(t)
  BY <1>3, PutOver DEF complete_start, fail_start, End
<1>4. CASE StartFault(t)
  BY <1>4, PutMove, PutOver DEF StartFault, End, Busy, Pcs
<1> QED BY <1>1, <1>2, <1>3, <1>4 DEF Start

\* The records of finish and of the follow-up report.
LEMMA FinishTx ==
    ASSUME TxOK, TreeOK, NEW t \in Tasks, Finish(t)
    PROVE  TxOK'
<1>1. CASE finish(t)
  <2>1. PICK c \in Live :
           tx' = [tx EXCEPT ![t] = [NoTask EXCEPT !.op = "finish", !.pc = "finish", !.on = c, !.rest = BothShared(c)]]
    BY <1>1 DEF finish
  <2> DEFINE r == [NoTask EXCEPT !.op = "finish", !.pc = "finish", !.on = c, !.rest = BothShared(c)]
  <2>2. c \in Convs /\ c \in 0..MaxConvs /\ "finish" \in AllOps /\ "finish" \in Pcs
    BY DEF Live, Unused, Convs, AllOps, Pcs
  <2>3. r \in Record({BothShared(c)}) /\ r.on = c
    BY <2>2, NoTaskTyped DEF Record
  <2> QED BY <2>1, <2>2, <2>3, Put
<1>2. CASE FinishUpdate(t)
  BY <1>2, PutMove, PutOver DEF FinishUpdate, Locked, End, Busy, Pcs
<1>3. CASE FinishRunning(t) \/ FinishUnread(t)
  BY <1>3, PutMove, PutOver DEF FinishRunning, FinishUnread, End, Busy, Pcs
<1>4. CASE FinishCommit(t) \/ report_after_finish(t)
  BY <1>4, PutOver DEF FinishCommit, report_after_finish, End
<1> QED BY <1>1, <1>2, <1>3, <1>4 DEF Finish

\* The records of message_agent.
LEMMA MessageTx ==
    ASSUME TxOK, TreeOK, NEW t \in Tasks, Message(t)
    PROVE  TxOK'
<1>1. CASE message_agent(t)
  <2>1. PICK by \in Live, to \in Live :
           tx' = [tx EXCEPT ![t] = [NoTask EXCEPT !.op = "message", !.pc = "recipient", !.by = by, !.on = to,
                                                  !.rest = {<<by, "share">>, <<to, "share">>}]]
    BY <1>1 DEF message_agent
  <2> DEFINE r == [NoTask EXCEPT !.op = "message", !.pc = "recipient", !.by = by, !.on = to,
                               !.rest = {<<by, "share">>, <<to, "share">>}]
  <2>2. to \in Convs /\ to \in 0..MaxConvs /\ by \in 0..MaxConvs /\ "message" \in AllOps /\ "recipient" \in Pcs
    BY DEF Live, Unused, Convs, AllOps, Pcs
  <2>3. r \in Record({{<<by, "share">>, <<to, "share">>}}) /\ r.on = to
    BY <2>2, NoTaskTyped DEF Record
  <2> QED BY <2>1, <2>2, <2>3, Put
<1>2. CASE MessageRow(t) \/ MessageCheck(t)
  BY <1>2, PutMove, PutOver DEF MessageRow, MessageCheck, Locked, End, Busy, Pcs
<1>3. CASE MessageSend(t)
  BY <1>3, PutOver DEF MessageSend, End
<1> QED BY <1>1, <1>2, <1>3 DEF Message

\* The records of the user's send and of a wake.
LEMMA TurnTx ==
    ASSUME TxOK, TreeOK, NEW t \in Tasks, Turn(t)
    PROVE  TxOK'
<1>1. ASSUME NEW op \in AllOps, NEW c \in Convs, NEW pc \in Pcs, BeginTurn(t, op, c, pc)
      PROVE  TxOK'
  <2> DEFINE r == [NoTask EXCEPT !.op = op, !.pc = pc, !.on = c]
  <2>1. r \in Record({{}}) /\ r.on = c
    <3>1. c \in 0..MaxConvs
      BY DEF Convs
    <3> QED BY <3>1, NoTaskTyped DEF Record
  <2> QED BY <1>1, <2>1, Put DEF BeginTurn
<1>2. CASE start_turn(t) \/ wake_conversation(t)
  BY <1>1, <1>2 DEF start_turn, wake_conversation, AllOps, Pcs, Live
<1>3. CASE Reactivate(t)
  BY <1>3, PutMove, PutOver DEF Reactivate, End, Busy, Pcs
<1>4. CASE CountUser(t) \/ confirm_user_turn(t) \/ resume_finished(t)
  BY <1>4, PutMove, PutOver DEF CountUser, confirm_user_turn, resume_finished, End, Busy, Pcs
<1>5. CASE start_unless_paused(t) \/ TurnEnds(t)
  BY <1>5, PutMove, PutOver DEF start_unless_paused, TurnEnds, End, Busy, Pcs
<1> QED BY <1>2, <1>3, <1>4, <1>5 DEF Turn

\* subtree_ids reads conversations.
LEMMA SubtreeOfConvs == ASSUME NEW c \in Convs PROVE subtree_ids(c) \subseteq Convs
  BY DEF subtree_ids, Live

\* The records of stop_agent, and of the turns its halt ends.
LEMMA StopTx ==
    ASSUME TxOK, TreeOK, NEW t \in Tasks, Stop(t)
    PROVE  TxOK'
<1>1. PICK Old : tx \in [Tasks -> Record(Old)]
  BY DEF TxOK
<1>2. CASE stop_agent(t)
  <2>1. PICK by \in Live, c \in Live :
           tx' = [tx EXCEPT ![t] = [NoTask EXCEPT !.op = "stop", !.pc = "subtree", !.by = by, !.on = c,
                                                  !.tree = subtree_ids(c), !.rest = AllOf(subtree_ids(c), "change")]]
    BY <1>2 DEF stop_agent
  <2> DEFINE r == [NoTask EXCEPT !.op = "stop", !.pc = "subtree", !.by = by, !.on = c,
                               !.tree = subtree_ids(c), !.rest = AllOf(subtree_ids(c), "change")]
  <2>2. /\ c \in Convs /\ c \in 0..MaxConvs /\ by \in 0..MaxConvs /\ subtree_ids(c) \in SUBSET Convs
        /\ "stop" \in AllOps /\ "subtree" \in Pcs
    BY SubtreeOfConvs DEF Live, Unused, Convs, AllOps, Pcs
  <2>3. r \in Record({AllOf(subtree_ids(c), "change")}) /\ r.on = c
    BY <2>2, NoTaskTyped DEF Record
  <2> QED BY <2>1, <2>2, <2>3, Put
<1>3. CASE lock_subtree(t)
  <2> DEFINE new == subtree_ids(tx[t].on) \ tx[t].tree
             r   == [tx[t] EXCEPT !.tree = @ \cup new, !.rest = AllOf(new, "change")]
  <2>1. tx[t].on \in Convs /\ tx' = [tx EXCEPT ![t] = r]
    BY <1>1, <1>3 DEF lock_subtree, Locked, TxOK, Busy
  <2>2. new \subseteq Convs
    BY <2>1, SubtreeOfConvs
  <2>3. r \in Record({AllOf(new, "change")}) /\ r.on = tx[t].on
    BY <1>1, <2>2 DEF Record
  <2> QED BY <2>1, <2>3, Put
<1>4. CASE stop_subtree(t)
  BY <1>4, PutMove, PutOver DEF stop_subtree, SubtreeLocked, Locked, End, Busy, Pcs
<1>5. CASE HaltNext(t)
  <2>1. Over \in Record({{}}) /\ ~Busy(Over)
    BY NoTaskTyped
  <2>2. tx[t].on \in Convs
    BY <1>5 DEF HaltNext, TxOK, Busy
  <2>3. Halted(t) \in Record({Halted(t).rest}) /\ (Busy(Halted(t)) => Halted(t).on \in Convs)
    <3>1. CASE Halted(t) = Over
      BY <2>1, <3>1 DEF Record
    <3>2. CASE Halted(t) # Over
      <4> DEFINE rest == AllOf(tx[t].tree, "remove")
                           \cup (IF parent[tx[t].on] = 0 THEN {} ELSE {<<parent[tx[t].on], "share">>})
      <4>1. Halted(t) = [tx[t] EXCEPT !.pc = "rows", !.rest = rest]
        BY <3>2 DEF Halted
      <4>2. "rows" \in Pcs
        BY DEF Pcs
      <4>3. Halted(t) \in Record({rest}) /\ Halted(t).on = tx[t].on /\ Halted(t).rest = rest
        <5> DEFINE r == [tx[t] EXCEPT !.pc = "rows", !.rest = rest]
        <5>1. r \in Record({rest}) /\ r.on = tx[t].on /\ r.rest = rest
          <6> HIDE DEF rest
          <6> QED BY <1>1, <4>2 DEF Record
        <5> QED BY <4>1, <5>1
      <4> QED BY <2>2, <4>3
    <3> QED BY <3>1, <3>2
  <2> DEFINE r == [tx[t] EXCEPT !.rest = @ \ {NextRow(t)}]
  <2>4. r \in Record({tx[t].rest \ {NextRow(t)}}) /\ r.on \in Convs
    BY <1>1, <2>2 DEF Record
  <2> DEFINE All == Old \cup {{}, Halted(t).rest, tx[t].rest \ {NextRow(t)}}
  <2>5. /\ Over \in Record(All) /\ Halted(t) \in Record(All) /\ r \in Record(All)
        /\ \A u \in Tasks : tx[u] \in Record(All)
    BY <1>1, <2>1, <2>3, <2>4 DEF Record
  <2>6. \A u \in Tasks : tx'[u] \in {Over, Halted(t), r, tx[u]} /\ DOMAIN tx' = Tasks
    BY <1>5 DEF HaltNext
  <2>7. tx' = [u \in Tasks |-> tx'[u]]
    BY <1>5 DEF HaltNext
  <2>8. tx' \in [Tasks -> Record(All)]
    BY <2>5, <2>6, <2>7
  <2>9. \A u \in Tasks : Busy(tx'[u]) => tx'[u].on \in Convs
    BY <2>1, <2>3, <2>4, <2>6 DEF TxOK
  <2> QED BY <2>8, <2>9 DEF TxOK
<1> QED BY <1>2, <1>3, <1>4, <1>5 DEF Stop

\* The records of delete_subtree, with the states its mark replaced.
LEMMA DeleteTx ==
    ASSUME TxOK, TreeOK, NEW t \in Tasks, Delete(t)
    PROVE  TxOK'
<1>1. PICK Old : tx \in [Tasks -> Record(Old)]
  BY DEF TxOK
<1>2. CASE delete_subtree(t)
  <2>1. PICK c \in Live :
           tx' = [tx EXCEPT ![t] = [NoTask EXCEPT !.op = "delete", !.pc = "root", !.on = c,
                                                  !.rest = {<<Root(c), "change">>}]]
    BY <1>2 DEF delete_subtree
  <2> DEFINE r == [NoTask EXCEPT !.op = "delete", !.pc = "root", !.on = c,
                               !.rest = {<<Root(c), "change">>}]
  <2>2. c \in Convs /\ c \in 0..MaxConvs /\ "delete" \in AllOps /\ "root" \in Pcs
    BY DEF Live, Unused, Convs, AllOps, Pcs
  <2>3. r \in Record({{<<Root(c), "change">>}}) /\ r.on = c
    BY <2>2, NoTaskTyped DEF Record
  <2> QED BY <2>1, <2>2, <2>3, Put
<1>3. CASE DeleteRoot(t)
  <2>1. tx[t].on \in Convs /\ Busy(tx[t])
    BY <1>3 DEF DeleteRoot, Locked, TxOK, Busy
  <2>2. CASE tx[t].on \notin Live
    BY <1>3, <2>1, <2>2, PutMove DEF DeleteRoot, Pcs
  <2>3. CASE tx[t].on \in Live
    <3> DEFINE ids == subtree_ids(tx[t].on)
               rest == AllOf(ids \ {Root(tx[t].on)}, "change")
               r == [tx[t] EXCEPT !.pc = "subtree", !.tree = ids, !.rest = rest]
    <3>1. tx' = [tx EXCEPT ![t] = r]
      BY <1>1, <1>3, <2>3 DEF DeleteRoot
    <3>2. r \in Record({rest}) /\ r.on = tx[t].on
      <4>1. ids \in SUBSET Convs /\ "subtree" \in Pcs
        BY <2>1, SubtreeOfConvs DEF Pcs
      <4>2. r \in Record({rest})
        BY <1>1, <4>1 DEF Record
      <4> QED BY <1>1, <4>2 DEF Record
    <3> QED BY <2>1, <3>1, <3>2, Put
  <2> QED BY <2>2, <2>3
<1>4. CASE mark_subtree_deleting(t)
  <2> DEFINE rest == AllOf(tx[t].tree, "halt")
             was == {w \in tx[t].tree \X {"active", "finished"} : state[w[1]] = w[2]}
             r == [tx[t] EXCEPT !.pc = "halt", !.rest = rest, !.was = was]
  <2>1. tx[t].on \in Convs /\ tx' = [tx EXCEPT ![t] = r]
    BY <1>1, <1>4 DEF mark_subtree_deleting, SubtreeLocked, Locked, TxOK, Busy
  <2>2. was \in SUBSET (Convs \X {"active", "finished"})
    BY <1>1 DEF Record
  <2>3. r \in Record({rest}) /\ r.on = tx[t].on
    <3>1. r \in Record({rest})
      <4>1. "halt" \in Pcs
        BY DEF Pcs
      <4> QED BY <1>1, <2>2, <4>1 DEF Record
    <3> QED BY <1>1, <3>1 DEF Record
  <2> QED BY <2>1, <2>3, Put
<1>5. CASE delete_subtree_rows(t)
  BY <1>5, PutMove DEF delete_subtree_rows, Locked, Busy, Pcs
<1>6. CASE DeleteFault(t)
  BY <1>6, PutMove, PutOver DEF DeleteFault, Busy, Pcs
<1>7. CASE unmark_subtree_deleting(t)
  BY <1>7, PutOver DEF unmark_subtree_deleting, End
<1> QED BY <1>2, <1>3, <1>4, <1>5, <1>6, <1>7 DEF Delete

-----------------------------------------------------------------------------
(* What a task has to itself.                                              *)

\* An agents row is locked by one task; a finish past its update has its
\* agent's, which stays active; an agent being made is known to one task.
RowsApart   == \A t, u \in Tasks : t # u => rows[t] \cap rows[u] = {}
Finishing(r) == r.pc \in {"running", "unread", "report"}
FinishHolds == \A t \in Tasks :
    Finishing(tx[t]) => tx[t].on \in rows[t] /\ state[tx[t].on] = "active"
LinkAbsent  == \A t \in Tasks : tx[t].pc = "link" =>
    /\ state[tx[t].on] = "absent"
    /\ \A u \in Tasks \ {t} : tx[u].pc = "link" => tx[u].on # tx[t].on

\* A delete's mark replaced the states of agents that had started.
WasStarted  == \A t \in Tasks : \A w \in tx[t].was :
    w[1] \in started \/ state[w[1]] = "deleted"

\* Only an outage makes a delete undo its mark.
NoUnmark    == faults = 0 => \A t \in Tasks : tx[t].pc # "unmark"

Inv == /\ TxOK /\ TreeOK
       /\ RowsApart /\ FinishHolds /\ LinkAbsent /\ WasStarted /\ NoUnmark
       /\ NeverStartedNeverRuns
       /\ faults = 0 => StopStands

-----------------------------------------------------------------------------
(* What a step of task t does to a conversation's state: the arrows of     *)
(* agents.state.                                                           *)

Arrow(c) ==
    \/ state'[c] = state[c]
    \/ state[c] = "absent" /\ state'[c] = "starting"
    \/ state[c] = "starting" /\ state'[c] = "active" /\ c \in started'
    \/ state[c] = "starting" /\ state'[c] = "failed"
    \/ state[c] \in Running \cup {"finished"} /\ state'[c] = "stopped"
    \/ state[c] \notin {"absent", "deleted"} /\ state'[c] = "deleted"
    \/ state[c] = "active" /\ state'[c] = "finished"
    \/ state[c] = "finished" /\ state'[c] = "active"
    \/ state[c] = "stopped" /\ state'[c] = "active" /\ c \in started /\ c \notin stands'
    \/ state[c] = "stopped" /\ \E t \in Tasks : tx[t].pc = "unmark" /\ <<c, state'[c]>> \in tx[t].was

StateMoves(t) == \A c \in Convs :
    /\ Arrow(c)
    /\ state[c] = "active" /\ state'[c] # "active" => \A u \in Tasks \ {t} : c \notin rows[u]
    /\ state[c] = "absent" /\ state'[c] # "absent" => tx[t].pc = "link" /\ tx[t].on = c
    /\ c \in started => c \in started' \/ state'[c] = "deleted"
    /\ c \in stands' => c \in stands \/ state'[c] = "stopped"

StateTyped == /\ parent' \in [Convs -> 0..MaxConvs]
              /\ state' \in [Convs -> States]
              /\ started' \subseteq Convs /\ stands' \subseteq Convs

\* A start makes an absent agent starting, and one that starts active or
\* failed.
LEMMA StartStates ==
    ASSUME Inv, NEW t \in Tasks, Start(t)
    PROVE  StateMoves(t) /\ StateTyped
<1> USE DEF StateMoves, StateTyped, Arrow, Inv, TreeOK
<1>1. CASE start_agent(t) \/ StartFault(t)
  BY <1>1 DEF start_agent, StartFault, dbVars, histVars
<1>2. CASE CreateCommit(t)
  <2>1. tx[t].on \in Convs /\ tx[t].by \in 0..MaxConvs /\ state[tx[t].on] = "absent"
    BY <1>2 DEF CreateCommit, TxOK, Busy, Record, LinkAbsent
  <2> QED BY <1>2, <2>1 DEF CreateCommit, States, AgentStates
<1>3. CASE complete_start(t)
  <2>1. tx[t].on \in Convs
    BY <1>3 DEF complete_start, Locked, TxOK, Busy
  <2> QED BY <1>3, <2>1 DEF complete_start, StillStarting, histVars, States, AgentStates
<1>4. CASE fail_start(t)
  <2>1. tx[t].on \in Convs
    BY <1>4 DEF fail_start, Locked, TxOK, Busy
  <2> QED BY <1>4, <2>1 DEF fail_start, StillStarting, histVars, States, AgentStates
<1> QED BY <1>1, <1>2, <1>3, <1>4 DEF Start

\* A finish ends an active agent whose row it has.
LEMMA FinishStates ==
    ASSUME Inv, NEW t \in Tasks, Finish(t)
    PROVE  StateMoves(t) /\ StateTyped
<1> USE DEF StateMoves, StateTyped, Arrow, Inv, TreeOK
<1>1. CASE finish(t) \/ FinishUpdate(t) \/ FinishRunning(t) \/ FinishUnread(t) \/ report_after_finish(t)
  BY <1>1 DEF finish, FinishUpdate, FinishRunning, FinishUnread, report_after_finish, dbVars, histVars
<1>2. CASE FinishCommit(t)
  <2>1. tx[t].on \in rows[t] /\ state[tx[t].on] = "active"
    BY <1>2 DEF FinishCommit, FinishHolds, Finishing
  <2>2. \A u \in Tasks \ {t} : tx[t].on \notin rows[u]
    BY <2>1 DEF RowsApart
  <2> QED BY <1>2, <2>1, <2>2 DEF FinishCommit, States, AgentStates
<1> QED BY <1>1, <1>2 DEF Finish

\* A message brings back a finished recipient.
LEMMA MessageStates ==
    ASSUME Inv, NEW t \in Tasks, Message(t)
    PROVE  StateMoves(t) /\ StateTyped
<1> USE DEF StateMoves, StateTyped, Arrow, Inv, TreeOK
<1>1. CASE message_agent(t) \/ MessageRow(t) \/ MessageCheck(t)
  BY <1>1 DEF message_agent, MessageRow, MessageCheck, dbVars, histVars
<1>2. CASE MessageSend(t)
  BY <1>2 DEF MessageSend, States, AgentStates
<1> QED BY <1>1, <1>2 DEF Message

\* A send brings back an agent that finished, or was stopped once started.
LEMMA TurnStates ==
    ASSUME Inv, NEW t \in Tasks, Turn(t)
    PROVE  StateMoves(t) /\ StateTyped
<1> USE DEF StateMoves, StateTyped, Arrow, Inv, TreeOK
<1>1. CASE start_turn(t) \/ CountUser(t) \/ confirm_user_turn(t)
  BY <1>1 DEF start_turn, BeginTurn, CountUser, confirm_user_turn, dbVars, histVars
<1>2. CASE wake_conversation(t) \/ start_unless_paused(t) \/ TurnEnds(t)
  BY <1>2 DEF wake_conversation, BeginTurn, start_unless_paused, TurnEnds, dbVars, histVars
<1>3. CASE Reactivate(t)
  BY <1>3 DEF Reactivate, States, AgentStates
<1>4. CASE resume_finished(t)
  BY <1>4 DEF resume_finished, States, AgentStates
<1> QED BY <1>1, <1>2, <1>3, <1>4 DEF Turn

\* stop_agent stops what runs or has finished, its rows free.
LEMMA StopStates ==
    ASSUME Inv, NEW t \in Tasks, Stop(t)
    PROVE  StateMoves(t) /\ StateTyped
<1> USE DEF StateMoves, StateTyped, Arrow, Inv, TreeOK
<1>1. CASE stop_agent(t) \/ lock_subtree(t) \/ HaltNext(t)
  BY <1>1 DEF stop_agent, lock_subtree, HaltNext, dbVars, histVars
<1>2. CASE stop_subtree(t)
  <2>1. tx[t].on \in Convs /\ tx[t].tree \subseteq Convs
    BY <1>2 DEF stop_subtree, SubtreeLocked, Locked, TxOK, Busy, Record
  <2>2. CASE UNCHANGED state /\ stands' \in {stands, stands \cup {tx[t].on}}
             /\ (stands' # stands => state[tx[t].on] = "stopped")
    BY <1>2, <2>1, <2>2 DEF stop_subtree
  <2>3. CASE /\ state' = Stopped(tx[t].tree)
             /\ stands' = stands \cup {d \in tx[t].tree : state'[d] = "stopped"}
    BY <1>2, <2>1, <2>3 DEF stop_subtree, Stopped, RowFree, States, AgentStates, Running
  <2> QED BY <1>2, <2>2, <2>3 DEF stop_subtree
<1> QED BY <1>1, <1>2 DEF Stop

\* A delete stops and removes a subtree; undone, it gives the states of its
\* mark back.
LEMMA DeleteStates ==
    ASSUME Inv, NEW t \in Tasks, Delete(t)
    PROVE  StateMoves(t) /\ StateTyped
<1> USE DEF StateMoves, StateTyped, Arrow, Inv, TreeOK
<1>1. CASE delete_subtree(t) \/ DeleteRoot(t) \/ DeleteFault(t)
  BY <1>1 DEF delete_subtree, DeleteRoot, DeleteFault, dbVars, histVars
<1>2. CASE mark_subtree_deleting(t)
  BY <1>2 DEF mark_subtree_deleting, Stopped, RowFree, States, AgentStates, Running, histVars
<1>3. CASE delete_subtree_rows(t)
  <2> DEFINE gone == IF tx[t].on \in Live THEN subtree_ids(tx[t].on) ELSE {}
  <2>1. gone \subseteq Live
    BY DEF subtree_ids
  <2>2. \A d \in gone : RowFree(t, d)
    BY <1>3 DEF delete_subtree_rows
  <2>3. state' = [c \in Convs |-> IF c \in gone THEN "deleted" ELSE state[c]]
    BY <1>3 DEF delete_subtree_rows
  <2>4. started' = started \ gone /\ stands' = stands /\ parent' = parent
    BY <1>3 DEF delete_subtree_rows
  <2> HIDE DEF gone
  <2> QED BY <2>1, <2>2, <2>3, <2>4 DEF Live, RowFree, States
<1>4. CASE unmark_subtree_deleting(t)
  <2> DEFINE back == {w \in tx[t].was : state[w[1]] = "stopped"}
             ids  == {w[1] : w \in back}
             old(c) == (CHOOSE w \in back : w[1] = c)[2]
  <2>1. state' = [c \in Convs |-> IF c \in ids THEN old(c) ELSE state[c]]
    BY <1>4 DEF unmark_subtree_deleting
  <2>2. tx[t].was \subseteq Convs \X {"active", "finished"}
    BY DEF TxOK, Record
  <2>3. \A c \in ids : <<c, old(c)>> \in tx[t].was /\ state[c] = "stopped" /\ old(c) \in {"active", "finished"}
    <3> SUFFICES ASSUME NEW c \in ids
                 PROVE  <<c, old(c)>> \in tx[t].was /\ state[c] = "stopped" /\ old(c) \in {"active", "finished"}
      OBVIOUS
    <3> DEFINE w == CHOOSE w \in back : w[1] = c
    <3>1. w \in back /\ w[1] = c
      OBVIOUS
    <3>2. w = <<w[1], w[2]>> /\ w[2] \in {"active", "finished"}
      BY <2>2, <3>1
    <3> QED BY <3>1, <3>2
  <2>4. started' = started /\ stands' = stands /\ tx[t].pc = "unmark" /\ parent' = parent
    BY <1>4 DEF unmark_subtree_deleting, Locked
  <2> HIDE DEF back, ids, old
  <2> QED BY <2>1, <2>3, <2>4 DEF States, AgentStates
<1> QED BY <1>1, <1>2, <1>3, <1>4 DEF Delete

-----------------------------------------------------------------------------
(* What a step of task t does to the tasks, their locks and their outages. *)

RowsMove(t) ==
    /\ rows' \in [Tasks -> SUBSET Convs]
    /\ \A u \in Tasks \ {t} : rows'[u] = rows[u]
    /\ rows'[t] \subseteq rows[t] \/ \A u \in Tasks \ {t} : rows'[t] \cap rows[u] = {}

TaskMoves(t) ==
    /\ \A u \in Tasks \ {t} : tx'[u] = tx[u] \/ tx'[u] = Over
    /\ Finishing(tx'[t]) => tx'[t].on \in rows'[t] /\ state'[tx'[t].on] = "active"
    /\ tx'[t].pc = "link" => /\ state' = state
                             /\ tx'[t].on \in Unused \/ (tx[t].pc = "link" /\ tx'[t].on = tx[t].on)
    /\ \/ tx'[t].was \subseteq tx[t].was
       \/ \A w \in tx'[t].was : w[1] \in Convs /\ state[w[1]] \in {"active", "finished"}
    /\ faults' \in Nat /\ (faults' = 0 => faults = 0)
    /\ faults' = 0 /\ tx'[t].pc = "unmark" => tx[t].pc = "unmark"

\* A task that went on, or is over; nobody else moved.
Others(t)   == \A u \in Tasks \ {t} : tx'[u] = tx[u]
Went(t, pc) == /\ tx'[t].pc = pc /\ tx'[t].on = tx[t].on /\ tx'[t].by = tx[t].by /\ tx'[t].was = tx[t].was
               /\ Others(t)
IsOver(t)   == tx'[t].pc = "done" /\ tx'[t].was = {} /\ Others(t)

\* What a task that goes on keeps.
LEMMA GoesOn ==
    ASSUME TxOK, NEW t \in Tasks
    PROVE  \A pc : Go(t, pc) \/ (\E rest : GoLock(t, pc, rest)) => Went(t, pc)
<1>1. PICK Old : tx \in [Tasks -> Record(Old)]
  BY DEF TxOK
<1>2. ASSUME NEW pc, Go(t, pc)
      PROVE  Went(t, pc)
  BY <1>1, <1>2 DEF Go, Went, Others, Record
<1>3. ASSUME NEW pc, NEW rest, GoLock(t, pc, rest)
      PROVE  Went(t, pc)
  BY <1>1, <1>3 DEF GoLock, Went, Others, Record
<1> QED BY <1>2, <1>3

\* What is left of a task that is over.
LEMMA GoesOver ==
    ASSUME TxOK, NEW t \in Tasks
    PROVE  /\ tx' = [tx EXCEPT ![t] = Over] => IsOver(t)
           /\ End(t) => IsOver(t)
  BY DEF TxOK, Over, NoTask, IsOver, Others, End

\* A transaction that ends, or locks no row.
LEMMA RowsGo ==
    ASSUME TreeOK, NEW t \in Tasks, Release(t) \/ rows' = rows
    PROVE  RowsMove(t)
  BY DEF TreeOK, Release, RowsMove

\* A row is taken only when no other transaction has it.
LEMMA RowTaken ==
    ASSUME TreeOK, NEW t \in Tasks, NEW c \in Convs, RowFree(t, c), rows' = [rows EXCEPT ![t] = {c}]
    PROVE  RowsMove(t) /\ rows'[t] = {c}
  BY DEF TreeOK, RowFree, RowsMove

\* lock_conversations moves no task on.
LEMMA LockMoves ==
    ASSUME Inv, NEW t \in Tasks, lock_conversations(t)
    PROVE  RowsMove(t) /\ TaskMoves(t)
<1>1. PICK Old : tx \in [Tasks -> Record(Old)]
  BY DEF Inv, TxOK
<1>2. /\ \A u \in Tasks \ {t} : tx'[u] = tx[u]
      /\ tx'[t].pc = tx[t].pc /\ tx'[t].on = tx[t].on /\ tx'[t].was = tx[t].was
  BY <1>1 DEF lock_conversations, Record
<1>3. UNCHANGED <<state, rows, faults>>
  BY DEF lock_conversations, dbVars
<1> QED BY <1>2, <1>3 DEF RowsMove, TaskMoves, Inv, TreeOK, FinishHolds, Finishing

\* Where a start goes: to an agent nobody else makes, and on with it.
LEMMA StartMoves ==
    ASSUME Inv, NEW t \in Tasks, Start(t)
    PROVE  RowsMove(t) /\ TaskMoves(t)
<1>1. TxOK /\ TreeOK
  BY DEF Inv
<1>2. CASE start_agent(t)
  <2>1. PICK by \in Live, c \in Unused :
           tx' = [tx EXCEPT ![t] = [NoTask EXCEPT !.op = "create", !.pc = "link", !.by = by, !.on = c]]
    BY <1>2 DEF start_agent
  <2>2. tx'[t].pc = "link" /\ tx'[t].on = c /\ tx'[t].was = {} /\ Others(t)
    BY <1>1, <2>1 DEF TxOK, NoTask, Others
  <2> QED BY <1>1, <1>2, <2>2, RowsGo DEF start_agent, dbVars, TaskMoves, Finishing, Others, TreeOK
<1>3. CASE CreateCommit(t)
  <2>1. Release(t) /\ (Went(t, "complete") \/ Went(t, "fail")) /\ faults' = faults
    BY <1>1, <1>3, GoesOn DEF CreateCommit, run_start
  <2> QED BY <1>1, <2>1, RowsGo DEF TaskMoves, Finishing, Went, Others, TreeOK
<1>4. CASE complete_start(t) \/ fail_start(t)
  <2>1. Release(t) /\ IsOver(t) /\ faults' = faults
    BY <1>1, <1>4, GoesOver DEF complete_start, fail_start, End
  <2> QED BY <1>1, <2>1, RowsGo DEF TaskMoves, Finishing, IsOver, Others, TreeOK
<1>5. CASE StartFault(t)
  <2>1. Release(t) /\ (IsOver(t) \/ Went(t, "fail")) /\ faults' = faults + 1
    BY <1>1, <1>5, GoesOn, GoesOver DEF StartFault, End
  <2> QED BY <1>1, <2>1, RowsGo DEF TaskMoves, Finishing, IsOver, Went, Others, TreeOK
<1> QED BY <1>2, <1>3, <1>4, <1>5 DEF Start

\* Where a finish goes: past its update only with the row of an active agent.
LEMMA FinishMoves ==
    ASSUME Inv, NEW t \in Tasks, Finish(t)
    PROVE  RowsMove(t) /\ TaskMoves(t)
<1>1. TxOK /\ TreeOK
  BY DEF Inv
<1>2. CASE finish(t)
  <2>1. tx'[t].pc = "finish" /\ tx'[t].was = {} /\ Others(t)
    BY <1>1, <1>2 DEF finish, TxOK, NoTask, Others
  <2> QED BY <1>1, <1>2, <2>1, RowsGo DEF finish, dbVars, lockVars, TaskMoves, Finishing, Others, TreeOK
<1>3. CASE FinishUpdate(t)
  <2>1. tx[t].on \in Convs /\ RowFree(t, tx[t].on) /\ UNCHANGED <<state, faults>>
    BY <1>1, <1>3 DEF FinishUpdate, Locked, TxOK, Busy, dbVars
  <2>2. CASE state[tx[t].on] = "active" /\ rows' = [rows EXCEPT ![t] = {tx[t].on}] /\ Go(t, "running")
    <3>1. Went(t, "running")
      BY <1>1, <2>2, GoesOn
    <3>2. RowsMove(t) /\ rows'[t] = {tx[t].on}
      BY <1>1, <2>1, <2>2, RowTaken
    <3> QED BY <1>1, <2>1, <2>2, <3>1, <3>2 DEF TaskMoves, Went, Others, TreeOK
  <2>3. CASE Release(t) /\ (GoLock(t, "after", BothShared(tx[t].on)) \/ End(t))
    <3>1. Went(t, "after") \/ IsOver(t)
      BY <1>1, <2>3, GoesOn, GoesOver
    <3> QED BY <1>1, <2>1, <2>3, <3>1, RowsGo DEF TaskMoves, Finishing, Went, IsOver, Others, TreeOK
  <2> QED BY <1>3, <2>2, <2>3 DEF FinishUpdate, End
<1>4. CASE FinishRunning(t) \/ FinishUnread(t)
  <2>1. CASE End(t)
    <3>1. Release(t) /\ IsOver(t) /\ faults' = faults
      BY <1>1, <1>4, <2>1, GoesOver DEF FinishRunning, FinishUnread, End
    <3> QED BY <1>1, <3>1, RowsGo DEF TaskMoves, Finishing, IsOver, Others, TreeOK
  <2>2. CASE (Go(t, "unread") \/ Go(t, "report")) /\ UNCHANGED lockVars
    <3>1. Went(t, "unread") \/ Went(t, "report")
      BY <1>1, <2>2, GoesOn
    <3>2. tx[t].on \in rows[t] /\ state[tx[t].on] = "active" /\ UNCHANGED <<state, rows, faults>>
      BY <1>4, <2>2 DEF FinishRunning, FinishUnread, Inv, FinishHolds, Finishing, dbVars, lockVars
    <3> QED BY <1>1, <3>1, <3>2, RowsGo DEF TaskMoves, Finishing, Went, Others, TreeOK
  <2> QED BY <1>4, <2>1, <2>2 DEF FinishRunning, FinishUnread
<1>5. CASE FinishCommit(t) \/ report_after_finish(t)
  <2>1. Release(t) /\ IsOver(t) /\ faults' = faults
    BY <1>1, <1>5, GoesOver DEF FinishCommit, report_after_finish, End
  <2> QED BY <1>1, <2>1, RowsGo DEF TaskMoves, Finishing, IsOver, Others, TreeOK
<1> QED BY <1>2, <1>3, <1>4, <1>5 DEF Finish

\* Where a message goes.
LEMMA MessageMoves ==
    ASSUME Inv, NEW t \in Tasks, Message(t)
    PROVE  RowsMove(t) /\ TaskMoves(t)
<1>1. TxOK /\ TreeOK
  BY DEF Inv
<1>2. CASE message_agent(t)
  <2>1. tx'[t].pc = "recipient" /\ tx'[t].was = {} /\ Others(t)
    BY <1>1, <1>2 DEF message_agent, TxOK, NoTask, Others
  <2> QED BY <1>1, <1>2, <2>1, RowsGo DEF message_agent, dbVars, lockVars, TaskMoves, Finishing, Others, TreeOK
<1>3. CASE MessageRow(t)
  <2>1. tx[t].on \in Convs /\ RowFree(t, tx[t].on) /\ faults' = faults
    BY <1>1, <1>3 DEF MessageRow, Locked, TxOK, Busy
  <2>2. CASE rows' = [rows EXCEPT ![t] = IF IsAgent(tx[t].on) THEN {tx[t].on} ELSE {}] /\ Go(t, "check")
    <3>1. Went(t, "check")
      BY <1>1, <2>2, GoesOn
    <3>2. RowsMove(t)
      BY <1>1, <2>1, <2>2, RowTaken DEF RowsMove, TreeOK
    <3> QED BY <1>1, <2>1, <3>1, <3>2 DEF TaskMoves, Finishing, Went, Others, TreeOK
  <2>3. CASE End(t)
    <3>1. Release(t) /\ IsOver(t)
      BY <1>1, <2>3, GoesOver DEF End
    <3> QED BY <1>1, <2>1, <3>1, RowsGo DEF TaskMoves, Finishing, IsOver, Others, TreeOK
  <2> QED BY <1>3, <2>2, <2>3 DEF MessageRow
<1>4. CASE MessageCheck(t) \/ MessageSend(t)
  <2>1. /\ Release(t) \/ rows' = rows
        /\ IsOver(t) \/ Went(t, "send")
        /\ faults' = faults
    BY <1>1, <1>4, GoesOn, GoesOver DEF MessageCheck, MessageSend, End, lockVars
  <2> QED BY <1>1, <2>1, RowsGo DEF TaskMoves, Finishing, IsOver, Went, Others, TreeOK
<1> QED BY <1>2, <1>3, <1>4 DEF Message

\* Where a turn goes.
LEMMA TurnMoves ==
    ASSUME Inv, NEW t \in Tasks, Turn(t)
    PROVE  RowsMove(t) /\ TaskMoves(t)
<1>1. TxOK /\ TreeOK
  BY DEF Inv
<1>2. CASE start_turn(t) \/ wake_conversation(t)
  <2>1. PICK op \in {"send", "wake"}, c \in Convs, pc \in {"count", "revive"} : BeginTurn(t, op, c, pc)
    BY <1>2 DEF start_turn, wake_conversation, Live
  <2>2. tx'[t].pc = pc /\ tx'[t].was = {} /\ Others(t)
    BY <1>1, <2>1 DEF BeginTurn, TxOK, NoTask, Others
  <2> QED BY <1>1, <2>1, <2>2, RowsGo DEF BeginTurn, dbVars, lockVars, TaskMoves, Finishing, Others, TreeOK
<1>3. CASE Reactivate(t) \/ CountUser(t) \/ confirm_user_turn(t)
  <2>1. /\ Release(t) \/ rows' = rows
        /\ IsOver(t) \/ \E pc \in {"count", "counted", "turn"} : Went(t, pc)
        /\ faults' = faults
    BY <1>1, <1>3, GoesOn, GoesOver DEF Reactivate, CountUser, confirm_user_turn, End, lockVars
  <2> QED BY <1>1, <2>1, RowsGo DEF TaskMoves, Finishing, IsOver, Went, Others, TreeOK
<1>4. CASE resume_finished(t) \/ start_unless_paused(t) \/ TurnEnds(t)
  <2>1. /\ Release(t) \/ rows' = rows
        /\ IsOver(t) \/ Went(t, "run")
        /\ faults' = faults
    BY <1>1, <1>4, GoesOn, GoesOver DEF resume_finished, start_unless_paused, TurnEnds, End, lockVars
  <2> QED BY <1>1, <2>1, RowsGo DEF TaskMoves, Finishing, IsOver, Went, Others, TreeOK
<1> QED BY <1>2, <1>3, <1>4 DEF Turn

\* Where stop_turn_now leaves its task, and the turns it ends.
LEMMA HaltTo ==
    ASSUME TxOK, NEW t \in Tasks, HaltNext(t)
    PROVE  /\ tx'[t].pc \in {"rows", "done", "halt", "forget"} /\ tx'[t].was \subseteq tx[t].was
           /\ \A u \in Tasks \ {t} : tx'[u] \in {Over, tx[u]}
<1>1. PICK Old : tx \in [Tasks -> Record(Old)]
  BY DEF TxOK
<1>2. Over.pc = "done" /\ Over.was = {}
  BY DEF Over, NoTask
<1>3. Halted(t).pc \in {"rows", "done"} /\ Halted(t).was \subseteq tx[t].was
  BY <1>1, <1>2 DEF Halted, Record
<1> DEFINE r == [tx[t] EXCEPT !.rest = @ \ {NextRow(t)}]
           halted == Halted(t)
<1>4. r.pc = tx[t].pc /\ r.was = tx[t].was /\ tx[t].pc \in {"halt", "forget"}
  BY <1>1 DEF Record, HaltNext
<1>5. tx' = [u \in Tasks |->
               CASE u = t -> IF tx[t].rest = {NextRow(t)} THEN halted ELSE r
                 [] InTurn(u, NextRow(t)[1]) -> Over
                 [] OTHER -> tx[u]]
  BY DEF HaltNext
<1>6. ~InTurn(t, NextRow(t)[1])
  BY <1>4 DEF InTurn
<1> HIDE DEF r, halted
<1>7. tx'[t] \in {halted, r}
  BY <1>5, <1>6
<1>8. \A u \in Tasks \ {t} : tx'[u] \in {Over, tx[u]}
  BY <1>5
<1> QED BY <1>3, <1>4, <1>7, <1>8 DEF halted

\* Where a stop goes.
LEMMA StopMoves ==
    ASSUME Inv, NEW t \in Tasks, Stop(t)
    PROVE  RowsMove(t) /\ TaskMoves(t)
<1>1. TxOK /\ TreeOK
  BY DEF Inv
<1>2. PICK Old : tx \in [Tasks -> Record(Old)]
  BY DEF Inv, TxOK
<1>3. CASE stop_agent(t)
  <2>1. tx'[t].pc = "subtree" /\ tx'[t].was = {} /\ Others(t)
    BY <1>1, <1>3 DEF stop_agent, TxOK, NoTask, Others
  <2> QED BY <1>1, <1>3, <2>1, RowsGo DEF stop_agent, dbVars, lockVars, TaskMoves, Finishing, Others, TreeOK
<1>4. CASE lock_subtree(t)
  <2>1. Went(t, "subtree")
    BY <1>2, <1>4 DEF lock_subtree, Locked, Went, Others, Record
  <2> QED BY <1>1, <1>4, <2>1, RowsGo DEF lock_subtree, dbVars, lockVars, TaskMoves, Finishing, Went, Others, TreeOK
<1>5. CASE stop_subtree(t)
  <2>1. Release(t) /\ (IsOver(t) \/ Went(t, "halt")) /\ faults' = faults
    BY <1>1, <1>5, GoesOn, GoesOver DEF stop_subtree, End
  <2> QED BY <1>1, <2>1, RowsGo DEF TaskMoves, Finishing, IsOver, Went, Others, TreeOK
<1>6. CASE HaltNext(t)
  <2>1. UNCHANGED <<rows, faults>>
    BY <1>6 DEF HaltNext, lockVars
  <2> QED BY <1>1, <1>6, <2>1, HaltTo, RowsGo DEF TaskMoves, Finishing, TreeOK
<1> QED BY <1>3, <1>4, <1>5, <1>6 DEF Stop

\* Where a delete goes: its mark is of agents that had started, and only an
\* outage takes it to unmark_subtree_deleting.
LEMMA DeleteMoves ==
    ASSUME Inv, NEW t \in Tasks, Delete(t)
    PROVE  RowsMove(t) /\ TaskMoves(t)
<1>1. TxOK /\ TreeOK
  BY DEF Inv
<1>2. PICK Old : tx \in [Tasks -> Record(Old)]
  BY DEF Inv, TxOK
<1>3. CASE delete_subtree(t)
  <2>1. tx'[t].pc = "root" /\ tx'[t].was = {} /\ Others(t)
    BY <1>1, <1>3 DEF delete_subtree, TxOK, NoTask, Others
  <2> QED BY <1>1, <1>3, <2>1, RowsGo DEF delete_subtree, dbVars, lockVars, TaskMoves, Finishing, Others, TreeOK
<1>4. CASE DeleteRoot(t)
  <2>1. Went(t, "subtree") \/ Went(t, "forget")
    <3>1. CASE tx[t].on \in Live
      BY <1>2, <1>4, <3>1 DEF DeleteRoot, Went, Others, Record
    <3>2. CASE tx[t].on \notin Live
      BY <1>1, <1>4, <3>2, GoesOn DEF DeleteRoot
    <3> QED BY <3>1, <3>2
  <2>2. (Release(t) \/ rows' = rows) /\ faults' = faults
    BY <1>4 DEF DeleteRoot, lockVars
  <2> QED BY <1>1, <2>1, <2>2, RowsGo DEF TaskMoves, Finishing, Went, Others, TreeOK
<1>5. CASE mark_subtree_deleting(t)
  <2> DEFINE was == {w \in tx[t].tree \X {"active", "finished"} : state[w[1]] = w[2]}
  <2>1. tx'[t].pc = "halt" /\ tx'[t].was = was /\ Others(t)
    BY <1>2, <1>5 DEF mark_subtree_deleting, Others, Record
  <2>2. \A w \in was : w[1] \in Convs /\ state[w[1]] \in {"active", "finished"}
    BY <1>2 DEF Record
  <2>3. Release(t) /\ faults' = faults
    BY <1>5 DEF mark_subtree_deleting
  <2> HIDE DEF was
  <2> QED BY <1>1, <2>1, <2>2, <2>3, RowsGo DEF TaskMoves, Finishing, Others, TreeOK
<1>6. CASE delete_subtree_rows(t)
  <2>1. Release(t) /\ Went(t, "forget") /\ faults' = faults
    BY <1>1, <1>6, GoesOn DEF delete_subtree_rows
  <2> QED BY <1>1, <2>1, RowsGo DEF TaskMoves, Finishing, Went, Others, TreeOK
<1>7. CASE DeleteFault(t)
  <2>1. Release(t) /\ (IsOver(t) \/ Went(t, "unmark")) /\ faults' = faults + 1
    BY <1>1, <1>7, GoesOn, GoesOver DEF DeleteFault
  <2> QED BY <1>1, <2>1, RowsGo DEF TaskMoves, Finishing, IsOver, Went, Others, TreeOK
<1>8. CASE unmark_subtree_deleting(t)
  <2>1. Release(t) /\ IsOver(t) /\ faults' = faults
    BY <1>1, <1>8, GoesOver DEF unmark_subtree_deleting, End
  <2> QED BY <1>1, <2>1, RowsGo DEF TaskMoves, Finishing, IsOver, Others, TreeOK
<1> QED BY <1>3, <1>4, <1>5, <1>6, <1>7, <1>8 DEF Delete

-----------------------------------------------------------------------------
\* A step of one task that moves the states, the rows and the tasks so keeps
\* the invariant.
LEMMA StepKeeps ==
    ASSUME Inv, NEW t \in Tasks, StateMoves(t), StateTyped, RowsMove(t), TaskMoves(t),
           TxOK'
    PROVE  Inv'
<1>1. PICK Old : tx \in [Tasks -> Record(Old)]
  BY DEF Inv, TxOK
<1>2. TreeOK'
  BY DEF TreeOK, StateTyped, RowsMove, TaskMoves
<1>3. \A u \in Tasks \ {t} : tx'[u] = tx[u] \/ (tx'[u].pc = "done" /\ tx'[u].was = {})
  BY DEF TaskMoves, Over, NoTask
<1>4. RowsApart'
  BY DEF Inv, RowsApart, RowsMove
<1>5. FinishHolds'
  <2> SUFFICES ASSUME NEW u \in Tasks, Finishing(tx'[u])
               PROVE  tx'[u].on \in rows'[u] /\ state'[tx'[u].on] = "active"
    BY DEF FinishHolds, Finishing
  <2>1. CASE u = t
    BY <2>1 DEF TaskMoves
  <2>2. CASE u # t
    <3>1. tx'[u] = tx[u] /\ tx[u].on \in rows[u] /\ state[tx[u].on] = "active" /\ rows'[u] = rows[u]
      BY <1>3, <2>2 DEF Inv, FinishHolds, Finishing, RowsMove
    <3>2. tx[u].on \in Convs
      BY <3>1 DEF Inv, TreeOK
    <3> QED BY <2>2, <3>1, <3>2 DEF StateMoves
  <2> QED BY <2>1, <2>2
<1>6. LinkAbsent'
  <2> SUFFICES ASSUME NEW u \in Tasks, tx'[u].pc = "link"
               PROVE  /\ state'[tx'[u].on] = "absent"
                      /\ \A v \in Tasks \ {u} : tx'[v].pc = "link" => tx'[v].on # tx'[u].on
    BY DEF LinkAbsent
  <2>1. ASSUME NEW v \in Tasks \ {t}, tx'[v].pc = "link"
        PROVE  tx'[v] = tx[v] /\ state[tx[v].on] = "absent" /\ tx[v].on \in Convs
    BY <1>3, <2>1 DEF Inv, LinkAbsent, TxOK, Busy
  <2>2. CASE u = t
    <3>1. CASE tx'[t].on \in Unused
      BY <2>1, <2>2, <3>1 DEF Unused, TaskMoves
    <3>2. CASE tx[t].pc = "link" /\ tx'[t].on = tx[t].on
      BY <2>1, <2>2, <3>2 DEF Inv, LinkAbsent, TaskMoves
    <3> QED BY <2>2, <3>1, <3>2 DEF TaskMoves
  <2>3. CASE u # t
    <3>1. tx'[u] = tx[u] /\ state[tx[u].on] = "absent" /\ tx[u].on \in Convs
      BY <2>1, <2>3
    <3>2. state'[tx[u].on] = "absent"
      BY <2>3, <3>1 DEF StateMoves, Inv, LinkAbsent
    <3>3. ASSUME NEW v \in Tasks \ {u}, tx'[v].pc = "link"
          PROVE  tx'[v].on # tx'[u].on
      <4>1. CASE v # t
        BY <2>1, <3>1, <3>3, <4>1 DEF Inv, LinkAbsent
      <4>2. CASE v = t /\ tx'[t].on \in Unused
        BY <3>1, <4>2 DEF Unused
      <4>3. CASE v = t /\ tx[t].pc = "link" /\ tx'[t].on = tx[t].on
        BY <3>1, <4>3, <2>3 DEF Inv, LinkAbsent
      <4> QED BY <3>3, <4>1, <4>2, <4>3 DEF TaskMoves
    <3> QED BY <3>1, <3>2, <3>3
  <2> QED BY <2>2, <2>3
<1>7. \A c \in Convs : c \in started \/ state[c] = "deleted" => c \in started' \/ state'[c] = "deleted"
  BY DEF StateMoves, Arrow, Running
<1>8. WasStarted'
  <2> SUFFICES ASSUME NEW u \in Tasks, NEW w \in tx'[u].was
               PROVE  w[1] \in started' \/ state'[w[1]] = "deleted"
    BY DEF WasStarted
  <2>1. ASSUME NEW v \in Tasks, NEW x \in tx[v].was
        PROVE  x[1] \in Convs /\ (x[1] \in started \/ state[x[1]] = "deleted")
    BY <1>1 DEF Record, Inv, WasStarted
  <2>2. w[1] \in Convs /\ (w[1] \in started \/ state[w[1]] = "deleted")
    <3>1. CASE u # t
      BY <1>3, <2>1, <3>1
    <3>2. CASE u = t /\ tx'[t].was \subseteq tx[t].was
      BY <2>1, <3>2
    <3>3. CASE u = t /\ w[1] \in Convs /\ state[w[1]] \in {"active", "finished"}
      BY <3>3 DEF Inv, NeverStartedNeverRuns
    <3> QED BY <3>1, <3>2, <3>3 DEF TaskMoves
  <2> QED BY <1>7, <2>2
<1>9. NoUnmark'
  BY <1>3 DEF Inv, NoUnmark, TaskMoves
<1>10. NeverStartedNeverRuns'
  <2> SUFFICES ASSUME NEW c \in Convs, state'[c] \in {"active", "finished"}
               PROVE  c \in started'
    BY DEF NeverStartedNeverRuns
  <2>1. CASE state[c] = "stopped" /\ \E u \in Tasks : tx[u].pc = "unmark" /\ <<c, state'[c]>> \in tx[u].was
    BY <1>7, <2>1 DEF Inv, WasStarted
  <2>2. CASE c \in started
    BY <1>7, <2>2
  <2>3. CASE state[c] \in {"active", "finished"}
    BY <2>2, <2>3 DEF Inv, NeverStartedNeverRuns
  <2> QED BY <2>1, <2>2, <2>3 DEF StateMoves, Arrow
<1>11. faults' = 0 => StopStands'
  <2> SUFFICES ASSUME faults' = 0, NEW c \in stands'
               PROVE  state'[c] \in {"stopped", "deleted"}
    BY DEF StopStands
  <2>1. faults = 0 /\ StopStands /\ \A u \in Tasks : tx[u].pc # "unmark"
    BY DEF TaskMoves, Inv, NoUnmark
  <2>2. c \in Convs
    BY DEF StateTyped
  <2>3. CASE c \in stands
    <3>1. state[c] \in {"stopped", "deleted"}
      BY <2>1, <2>3 DEF StopStands
    <3> QED BY <2>1, <2>2, <3>1 DEF StateMoves, Arrow, Running
  <2> QED BY <2>2, <2>3 DEF StateMoves
<1> QED BY <1>2, <1>4, <1>5, <1>6, <1>8, <1>9, <1>10, <1>11 DEF Inv

\* The invariant is inductive.
LEMMA NextKeeps ==
    ASSUME Inv, [Next]_vars
    PROVE  Inv'
<1>1. TxOK /\ TreeOK
  BY DEF Inv
<1>2. ASSUME NEW t \in Tasks, lock_conversations(t)
      PROVE  Inv'
  <2>1. UNCHANGED <<parent, state, started, stands>>
    BY <1>2 DEF lock_conversations, dbVars, histVars
  <2>2. StateMoves(t) /\ StateTyped
    BY <1>1, <2>1 DEF StateMoves, Arrow, StateTyped, TreeOK
  <2> QED BY <1>1, <1>2, <2>2, LockTx, LockMoves, StepKeeps
<1>3. ASSUME NEW t \in Tasks, Start(t) \/ Finish(t)
      PROVE  Inv'
  BY <1>1, <1>3, StartTx, StartStates, StartMoves, FinishTx, FinishStates, FinishMoves,
             StepKeeps
<1>4. ASSUME NEW t \in Tasks, Message(t) \/ Turn(t)
      PROVE  Inv'
  BY <1>1, <1>4, MessageTx, MessageStates, MessageMoves, TurnTx, TurnStates, TurnMoves,
             StepKeeps
<1>5. ASSUME NEW t \in Tasks, Stop(t) \/ Delete(t)
      PROVE  Inv'
  BY <1>1, <1>5, StopTx, StopStates, StopMoves, DeleteTx, DeleteStates, DeleteMoves,
             StepKeeps
<1>6. ASSUME UNCHANGED <<parent, state, started, rows, tx, faults, stands>>
      PROVE  Inv'
  BY <1>6 DEF Inv, TxOK, TreeOK, RowsApart, FinishHolds, LinkAbsent, WasStarted, NoUnmark,
              NeverStartedNeverRuns, StopStands
<1>7. ASSUME NEW c \in Convs, deliver_agent_message(c)
      PROVE  Inv'
  BY <1>6, <1>7 DEF deliver_agent_message, lockVars, histVars
<1>8. CASE UNCHANGED vars
  BY <1>6, <1>8 DEF vars, dbVars, lockVars, histVars
<1> QED BY <1>2, <1>3, <1>4, <1>5, <1>7, <1>8 DEF Next

\* It holds at first.
LEMMA InitInv == Init => Inv
<1> SUFFICES ASSUME Init PROVE Inv
  OBVIOUS
<1>1. /\ tx = [t \in Tasks |-> NoTask]
      /\ rows = [t \in Tasks |-> {}]
      /\ faults = 0 /\ stands = {}
  BY DEF Init
<1>2. TxOK
  BY <1>1, NoTaskTyped DEF TxOK, Busy, NoTask
<1>3. PICK s \in {"active", "finished"}, k \in {"active", "finished", "failed"} :
        state = [c \in Convs |-> CASE c = 1 -> "own" [] c = 2 -> s [] c = 3 -> k [] OTHER -> "absent"]
  BY DEF Init
<1>4. state \in [Convs -> States]
  BY <1>3 DEF States, AgentStates, Convs
<1>5. parent \in [Convs -> 0..MaxConvs]
  BY AgentTreeAssumption DEF Init, Convs
<1>6. TreeOK
  BY <1>1, <1>4, <1>5 DEF Init, TreeOK
<1>7. RowsApart /\ FinishHolds /\ LinkAbsent /\ WasStarted /\ NoUnmark
  BY <1>1 DEF RowsApart, FinishHolds, Finishing, LinkAbsent, WasStarted, NoUnmark, NoTask
<1>8. NeverStartedNeverRuns /\ StopStands
  BY <1>1 DEF Init, NeverStartedNeverRuns, StopStands
<1> QED BY <1>2, <1>6, <1>7, <1>8 DEF Inv

-----------------------------------------------------------------------------
(* What a finish has not seen.                                             *)

RunningOwn(c) == {d \in Own(c) : state[d] \in Running}
Looking(r)    == r.pc \in {"unread", "report"}

\* A start's done step is about an agent of its caller's; a message past its
\* read of the recipient has its agents row, if it has one; and a finish past
\* a read knows of all that has come since.
ChildLinked == \A t \in Tasks : tx[t].pc \in {"complete", "fail"} =>
    state[tx[t].on] # "absent" /\ parent[tx[t].on] = tx[t].by
SendHolds == \A t \in Tasks : tx[t].pc \in {"check", "send"} =>
    tx[t].on \in rows[t] \/ state[tx[t].on] \in {"own", "deleted"}
SeenRunning == \A t \in Tasks : Looking(tx[t]) =>
    \A d \in Convs : parent[d] = tx[t].on /\ state[d] \in Running => d \in fresh[t]
SeenUnread  == \A t \in Tasks : tx[t].pc = "report" => unread[tx[t].on] \subseteq fresh[t]

FreshOK == /\ unread \in [Convs -> SUBSET (0..MaxConvs)]
           /\ fresh \in [Tasks -> SUBSET Convs]

FreshInv == FreshOK /\ ChildLinked /\ SendHolds /\ SeenRunning /\ SeenUnread

\* What a step of task t adds to what the other tasks' finishes have not
\* seen, and where it leaves t.
FreshMoves(t) ==
    /\ FreshOK'
    /\ \A c \in Convs : state[c] # "absent" => parent'[c] = parent[c]
    /\ \A u \in Tasks \ {t} : Looking(tx[u]) =>
          /\ fresh[u] \subseteq fresh'[u]
          /\ \A d \in Convs : state'[d] \in Running /\ state[d] \notin Running => d \in fresh'[u]
    /\ \A u \in Tasks \ {t} : tx[u].pc = "report" =>
          unread'[tx[u].on] \subseteq unread[tx[u].on] \cup fresh'[u] \cup RunningOwn(tx[u].on)
TaskFresh(t) ==
    /\ tx'[t].pc \in {"complete", "fail"} => state'[tx'[t].on] # "absent" /\ parent'[tx'[t].on] = tx'[t].by
    /\ tx'[t].pc \in {"check", "send"} => tx'[t].on \in rows'[t] \/ state'[tx'[t].on] \in {"own", "deleted"}
    /\ Looking(tx'[t]) => \A d \in Convs : parent'[d] = tx'[t].on /\ state'[d] \in Running => d \in fresh'[t]
    /\ tx'[t].pc = "report" => unread'[tx'[t].on] \subseteq fresh'[t]

Plain(pc) == pc \notin {"complete", "fail", "check", "send", "unread", "report"}

\* A step of one task that moves the others' finishes and its own so keeps
\* what finishes know.
LEMMA FreshStep ==
    ASSUME Inv, FreshInv, NEW t \in Tasks, StateMoves(t), RowsMove(t), TaskMoves(t), FreshMoves(t), TaskFresh(t)
    PROVE  FreshInv'
<1>1. \A u \in Tasks \ {t} : tx'[u] = tx[u] \/ tx'[u].pc = "done"
  BY DEF TaskMoves, Over, NoTask
<1>2. \A u \in Tasks : ~Plain(tx[u].pc) => tx[u].on \in Convs
  BY DEF Inv, TxOK, Busy, Plain
<1>3. ChildLinked'
  <2> SUFFICES ASSUME NEW u \in Tasks, tx'[u].pc \in {"complete", "fail"}
               PROVE  state'[tx'[u].on] # "absent" /\ parent'[tx'[u].on] = tx'[u].by
    BY DEF ChildLinked
  <2>1. CASE u = t
    BY <2>1 DEF TaskFresh
  <2>2. CASE u # t
    <3>1. tx'[u] = tx[u] /\ tx[u].on \in Convs
      BY <1>1, <1>2, <2>2 DEF Plain
    <3>2. state[tx[u].on] # "absent" /\ parent[tx[u].on] = tx[u].by
      BY <3>1 DEF FreshInv, ChildLinked
    <3>3. state'[tx[u].on] # "absent"
      <4>1. PICK Rests : tx \in [Tasks -> Record(Rests)]
        BY DEF Inv, TxOK
      <4>2. \A v \in Tasks : \A x : <<tx[u].on, x>> \in tx[v].was => x # "absent"
        BY <4>1 DEF Record
      <4> QED BY <3>1, <3>2, <4>2 DEF StateMoves, Arrow, Running
    <3> QED BY <3>1, <3>2, <3>3 DEF FreshMoves
  <2> QED BY <2>1, <2>2
<1>4. SendHolds'
  <2> SUFFICES ASSUME NEW u \in Tasks, tx'[u].pc \in {"check", "send"}
               PROVE  tx'[u].on \in rows'[u] \/ state'[tx'[u].on] \in {"own", "deleted"}
    BY DEF SendHolds
  <2>1. CASE u = t
    BY <2>1 DEF TaskFresh
  <2>2. CASE u # t
    <3>1. tx'[u] = tx[u] /\ tx[u].on \in Convs /\ rows'[u] = rows[u]
      BY <1>1, <1>2, <2>2 DEF Plain, RowsMove
    <3>2. tx[u].on \in rows[u] \/ state[tx[u].on] \in {"own", "deleted"}
      BY <3>1 DEF FreshInv, SendHolds
    <3>3. ASSUME state[tx[u].on] \in {"own", "deleted"}
          PROVE  state'[tx[u].on] \in {"own", "deleted"}
      BY <3>1, <3>3 DEF StateMoves, Arrow, Running
    <3> QED BY <3>1, <3>2, <3>3
  <2> QED BY <2>1, <2>2
<1>5. SeenRunning'
  <2> SUFFICES ASSUME NEW u \in Tasks, Looking(tx'[u]),
                      NEW d \in Convs, parent'[d] = tx'[u].on, state'[d] \in Running
               PROVE  d \in fresh'[u]
    BY DEF SeenRunning, Looking
  <2>1. CASE u = t
    BY <2>1 DEF TaskFresh
  <2>2. CASE u # t
    <3>1. tx'[u] = tx[u]
      BY <1>1, <2>2 DEF Looking
    <3>2. CASE state[d] \notin Running
      BY <2>2, <3>1, <3>2 DEF FreshMoves
    <3>3. CASE state[d] \in Running
      <4>1. parent[d] = tx[u].on
        BY <3>1, <3>3 DEF FreshMoves, Running
      <4> QED BY <2>2, <3>1, <3>3, <4>1 DEF FreshInv, SeenRunning, FreshMoves
    <3> QED BY <3>2, <3>3
  <2> QED BY <2>1, <2>2
<1>6. SeenUnread'
  <2> SUFFICES ASSUME NEW u \in Tasks, tx'[u].pc = "report"
               PROVE  unread'[tx'[u].on] \subseteq fresh'[u]
    BY DEF SeenUnread
  <2>1. CASE u = t
    BY <2>1 DEF TaskFresh
  <2>2. CASE u # t
    <3>1. tx'[u] = tx[u]
      BY <1>1, <2>2
    <3>2. RunningOwn(tx[u].on) \subseteq fresh[u] /\ unread[tx[u].on] \subseteq fresh[u]
      BY <3>1 DEF FreshInv, SeenRunning, SeenUnread, Looking, RunningOwn, Own, Live
    <3> QED BY <2>2, <3>1, <3>2 DEF FreshMoves, Looking
  <2> QED BY <2>1, <2>2
<1> QED BY <1>3, <1>4, <1>5, <1>6 DEF FreshInv, FreshMoves

\* A step that changes nothing a finish reads, and leaves its task nowhere
\* that is of concern here.
LEMMA Quiet ==
    ASSUME Inv, FreshInv, NEW t \in Tasks, UNCHANGED <<parent, state, unread, fresh>>
    PROVE  FreshMoves(t)
  BY DEF FreshInv, FreshOK, FreshMoves

\* A task that is at no such place.
LEMMA PlainFresh ==
    ASSUME NEW t \in Tasks, Plain(tx'[t].pc)
    PROVE  TaskFresh(t)
  BY DEF Plain, TaskFresh, Looking

\* An agent that comes back is known to all that look.
LEMMA Freshened ==
    ASSUME Inv, FreshInv, NEW cs \in SUBSET Convs, Freshly(cs)
    PROVE  /\ fresh' \in [Tasks -> SUBSET Convs]
           /\ \A u \in Tasks : fresh[u] \subseteq fresh'[u]
           /\ \A u \in Tasks : Looking(tx[u]) => cs \subseteq fresh'[u]
  BY DEF FreshInv, FreshOK, Freshly, Looking

\* A start makes an agent that runs, which those that look at its caller
\* learn of, and one that fails reports to a caller it ran under.
LEMMA StartFresh ==
    ASSUME Inv, FreshInv, NEW t \in Tasks, Start(t)
    PROVE  FreshMoves(t) /\ TaskFresh(t)
<1>1. TxOK /\ TreeOK
  BY DEF Inv
<1>2. Busy(tx[t]) => tx[t].on \in Convs /\ tx[t].on \in 0..MaxConvs
  BY <1>1 DEF TxOK, Convs
<1>3. CASE start_agent(t)
  <2>1. tx'[t].pc = "link"
    BY <1>1, <1>3 DEF start_agent, TxOK, NoTask
  <2> QED BY <1>3, <2>1, Quiet, PlainFresh DEF start_agent, dbVars, histVars, Plain
<1>4. CASE CreateCommit(t)
  <2> DEFINE c == tx[t].on
  <2>1. c \in Convs /\ state[c] = "absent" /\ tx[t].by \in 0..MaxConvs
    BY <1>1, <1>2, <1>4 DEF CreateCommit, Busy, Inv, LinkAbsent, TxOK, Record
  <2>2. /\ parent' = [parent EXCEPT ![c] = tx[t].by]
        /\ state' = [state EXCEPT ![c] = "starting"]
        /\ Freshly({c}) /\ unread' = unread
    BY <1>4 DEF CreateCommit
  <2>3. Went(t, "complete") \/ Went(t, "fail")
    BY <1>1, <1>4, GoesOn DEF CreateCommit, run_start
  <2>4. FreshMoves(t)
    <3>1. FreshOK'
      BY <2>1, <2>2, Freshened DEF FreshOK, FreshInv
    <3> QED BY <1>1, <2>1, <2>2, <3>1, Freshened DEF FreshMoves, TreeOK, Looking
  <2>5. TaskFresh(t)
    BY <1>1, <2>1, <2>2, <2>3 DEF TaskFresh, TreeOK, Went, Looking
  <2> QED BY <2>4, <2>5
<1>5. CASE complete_start(t)
  <2>1. TaskFresh(t)
    BY <1>1, <1>5, GoesOver, PlainFresh DEF complete_start, IsOver, Plain
  <2>2. FreshMoves(t)
    BY <1>1, <1>5 DEF complete_start, StillStarting, histVars, FreshMoves, TreeOK, Running, FreshInv, FreshOK
  <2> QED BY <2>1, <2>2
<1>6. CASE fail_start(t)
  <2> DEFINE c == tx[t].on
  <2>1. TaskFresh(t)
    BY <1>1, <1>6, GoesOver, PlainFresh DEF fail_start, IsOver, Plain
  <2>2. CASE UNCHANGED <<state, unread>>
    BY <1>6, <2>1, <2>2, Quiet DEF fail_start, histVars
  <2>3. CASE /\ StillStarting(t) /\ state' = [state EXCEPT ![c] = "failed"]
             /\ unread' = [unread EXCEPT ![tx[t].by] = @ \cup {c}]
    <3>1. c \in Convs /\ c \in 0..MaxConvs /\ UNCHANGED <<parent, fresh>>
      BY <1>2, <1>6 DEF fail_start, Locked, Busy, histVars
    <3>2. c \in RunningOwn(tx[t].by)
      BY <1>6, <2>3, <3>1 DEF fail_start, Locked, StillStarting, FreshInv, ChildLinked, RunningOwn, Own, Live, Running
    <3>3. FreshOK'
      BY <2>3, <3>1 DEF FreshInv, FreshOK
    <3>4. \A u \in Tasks : unread'[tx[u].on] \subseteq unread[tx[u].on] \cup RunningOwn(tx[u].on) \/ tx[u].on \notin Convs
      BY <2>3, <3>2 DEF FreshInv, FreshOK
    <3>5. \A u \in Tasks : tx[u].pc = "report" => tx[u].on \in Convs
      BY <1>1 DEF TxOK, Busy
    <3>6. \A d \in Convs : state'[d] \in Running => state[d] \in Running
      BY <1>1, <2>3 DEF TreeOK, Running
    <3> HIDE DEF c
    <3> QED BY <2>1, <3>1, <3>3, <3>4, <3>5, <3>6 DEF FreshMoves
  <2> QED BY <1>6, <2>2, <2>3 DEF fail_start
<1>7. CASE StartFault(t)
  <2>1. FreshMoves(t) /\ UNCHANGED <<parent, state>>
    BY <1>7, Quiet DEF StartFault, dbVars, histVars
  <2>2. IsOver(t) \/ (Went(t, "fail") /\ tx[t].pc = "complete")
    BY <1>1, <1>7, GoesOn, GoesOver DEF StartFault, End
  <2>3. CASE IsOver(t)
    BY <2>1, <2>3, PlainFresh DEF IsOver, Plain
  <2>4. CASE Went(t, "fail") /\ tx[t].pc = "complete"
    BY <2>1, <2>4 DEF TaskFresh, Went, Looking, FreshInv, ChildLinked
  <2> QED BY <2>1, <2>2, <2>3, <2>4
<1> QED BY <1>3, <1>4, <1>5, <1>6, <1>7 DEF Start

\* A finish looks at what runs and then at what is unread, its row locked;
\* one that commits reports to a parent it ran under.
LEMMA FinishFresh ==
    ASSUME Inv, FreshInv, NEW t \in Tasks, Finish(t)
    PROVE  FreshMoves(t) /\ TaskFresh(t)
<1>1. TxOK /\ TreeOK
  BY DEF Inv
<1>2. Busy(tx[t]) => tx[t].on \in Convs /\ tx[t].on \in 0..MaxConvs
  BY <1>1 DEF TxOK, Convs
<1>3. CASE finish(t) \/ FinishUpdate(t)
  <2>1. tx'[t].pc \in {"finish", "running", "after", "done"}
    <3>1. CASE finish(t)
      BY <1>1, <3>1 DEF finish, TxOK, NoTask
    <3>2. CASE FinishUpdate(t)
      BY <1>1, <3>2, GoesOn, GoesOver DEF FinishUpdate, Went, IsOver
    <3> QED BY <1>3, <3>1, <3>2
  <2> QED BY <1>3, <2>1, Quiet, PlainFresh DEF finish, FinishUpdate, dbVars, histVars, Plain
<1>4. CASE FinishRunning(t)
  <2>1. FreshMoves(t) /\ UNCHANGED <<parent, state>>
    BY <1>4, Quiet DEF FinishRunning, dbVars, histVars
  <2>2. CASE End(t)
    BY <1>1, <2>1, <2>2, GoesOver, PlainFresh DEF IsOver, Plain
  <2>3. CASE Go(t, "unread") /\ \A d \in Own(tx[t].on) : state[d] \notin Running
    <3>1. Went(t, "unread")
      BY <1>1, <2>3, GoesOn
    <3> QED BY <2>1, <2>3, <3>1 DEF TaskFresh, Went, Looking, Own, Live, Running
  <2> QED BY <1>4, <2>2, <2>3 DEF FinishRunning
<1>5. CASE FinishUnread(t)
  <2>1. CASE End(t) /\ fresh' = [fresh EXCEPT ![t] = {}]
    <3>1. TaskFresh(t)
      BY <1>1, <2>1, GoesOver, PlainFresh DEF IsOver, Plain
    <3>2. UNCHANGED <<parent, state, unread>>
      BY <1>5 DEF FinishUnread, dbVars
    <3> QED BY <2>1, <3>1, <3>2 DEF FreshMoves, FreshInv, FreshOK
  <2>2. CASE unread[tx[t].on] = {} /\ Go(t, "report") /\ UNCHANGED fresh
    <3>1. Went(t, "report") /\ UNCHANGED <<parent, state, unread>> /\ Looking(tx[t])
      BY <1>1, <1>5, <2>2, GoesOn DEF FinishUnread, dbVars, Looking
    <3>2. FreshMoves(t)
      BY <2>2, <3>1, Quiet
    <3> QED BY <2>2, <3>1, <3>2 DEF TaskFresh, Went, Looking, FreshInv, SeenRunning
  <2> QED BY <1>5, <2>1, <2>2 DEF FinishUnread
<1>6. CASE FinishCommit(t)
  <2> DEFINE c == tx[t].on
  <2>1. TaskFresh(t)
    BY <1>1, <1>6, GoesOver, PlainFresh DEF FinishCommit, IsOver, Plain
  <2>2. /\ state' = [state EXCEPT ![c] = "finished"] /\ parent' = parent
        /\ unread' = [unread EXCEPT ![parent[c]] = @ \cup {c}]
        /\ fresh' = [fresh EXCEPT ![t] = {}]
    BY <1>6 DEF FinishCommit
  <2>3. c \in Convs /\ c \in 0..MaxConvs /\ c \in RunningOwn(parent[c])
    BY <1>2, <1>6 DEF FinishCommit, Busy, Inv, FinishHolds, Finishing, RunningOwn, Own, Live, Running
  <2>4. FreshOK'
    BY <2>2, <2>3 DEF FreshInv, FreshOK
  <2>5. \A u \in Tasks : tx[u].pc = "report" =>
           unread'[tx[u].on] \subseteq unread[tx[u].on] \cup RunningOwn(tx[u].on)
    BY <1>1, <2>2, <2>3 DEF FreshInv, FreshOK, TxOK, Busy
  <2>6. \A d \in Convs : state'[d] \in Running => state[d] \in Running
    BY <1>1, <2>2 DEF TreeOK, Running
  <2> HIDE DEF c
  <2> QED BY <2>1, <2>2, <2>4, <2>5, <2>6 DEF FreshMoves, FreshInv, FreshOK
<1>7. CASE report_after_finish(t)
  <2> DEFINE c == tx[t].on
  <2>1. TaskFresh(t)
    BY <1>1, <1>7, GoesOver, PlainFresh DEF report_after_finish, IsOver, Plain
  <2>2. CASE UNCHANGED <<unread, fresh>>
    BY <1>7, <2>1, <2>2, Quiet DEF report_after_finish
  <2>3. CASE unread' = [unread EXCEPT ![parent[c]] = @ \cup {c}] /\ Freshly({c})
    <3>1. c \in Convs /\ c \in 0..MaxConvs /\ UNCHANGED <<parent, state>>
      BY <1>2, <1>7 DEF report_after_finish, Locked, Busy
    <3>2. FreshOK'
      BY <2>3, <3>1, Freshened DEF FreshInv, FreshOK
    <3>3. \A u \in Tasks : tx[u].pc = "report" => unread'[tx[u].on] \subseteq unread[tx[u].on] \cup {c}
      BY <1>1, <2>3 DEF FreshInv, FreshOK, TxOK, Busy
    <3>4. /\ \A u \in Tasks : fresh[u] \subseteq fresh'[u]
          /\ \A u \in Tasks : Looking(tx[u]) => c \in fresh'[u]
      BY <2>3, <3>1, Freshened
    <3> HIDE DEF c
    <3> QED BY <2>1, <3>1, <3>2, <3>3, <3>4 DEF FreshMoves, Looking
  <2> QED BY <1>7, <2>2, <2>3 DEF report_after_finish
<1> QED BY <1>3, <1>4, <1>5, <1>6, <1>7 DEF Finish

\* A message is added to an agent whose row it has, so to none that is past
\* its own finish's update; a recipient that comes back is known.
LEMMA MessageFresh ==
    ASSUME Inv, FreshInv, NEW t \in Tasks, Message(t)
    PROVE  FreshMoves(t) /\ TaskFresh(t)
<1>1. TxOK /\ TreeOK
  BY DEF Inv
<1>2. Busy(tx[t]) => tx[t].on \in Convs
  BY <1>1 DEF TxOK
<1>3. CASE message_agent(t)
  <2>1. tx'[t].pc = "recipient"
    BY <1>1, <1>3 DEF message_agent, TxOK, NoTask
  <2> QED BY <1>3, <2>1, Quiet, PlainFresh DEF message_agent, dbVars, histVars, Plain
<1>4. CASE MessageRow(t)
  <2>1. FreshMoves(t) /\ UNCHANGED state
    BY <1>4, Quiet DEF MessageRow, dbVars, histVars
  <2>2. CASE End(t)
    BY <1>1, <2>1, <2>2, GoesOver, PlainFresh DEF IsOver, Plain
  <2>3. CASE /\ tx[t].on \in Live /\ Go(t, "check")
             /\ rows' = [rows EXCEPT ![t] = IF IsAgent(tx[t].on) THEN {tx[t].on} ELSE {}]
    <3>1. Went(t, "check")
      BY <1>1, <2>3, GoesOn
    <3>2. tx[t].on \in rows'[t] \/ state[tx[t].on] = "own"
      BY <1>1, <2>3 DEF TreeOK, IsAgent, Live, States
    <3> QED BY <2>1, <3>1, <3>2 DEF TaskFresh, Went, Looking
  <2> QED BY <1>4, <2>2, <2>3 DEF MessageRow
<1>5. CASE MessageCheck(t)
  <2>1. FreshMoves(t) /\ UNCHANGED state
    BY <1>5, Quiet DEF MessageCheck, dbVars, histVars
  <2>2. CASE End(t)
    BY <1>1, <2>1, <2>2, GoesOver, PlainFresh DEF IsOver, Plain
  <2>3. CASE Go(t, "send") /\ UNCHANGED rows
    <3>1. Went(t, "send")
      BY <1>1, <2>3, GoesOn
    <3>2. tx[t].on \in rows[t] \/ state[tx[t].on] \in {"own", "deleted"}
      BY <1>5 DEF MessageCheck, FreshInv, SendHolds
    <3> QED BY <2>1, <2>3, <3>1, <3>2 DEF TaskFresh, Went, Looking
  <2> QED BY <1>5, <2>2, <2>3 DEF MessageCheck, lockVars
<1>6. CASE MessageSend(t)
  <2> DEFINE to == tx[t].on
  <2>1. TaskFresh(t)
    BY <1>1, <1>6, GoesOver, PlainFresh DEF MessageSend, IsOver, Plain
  <2>2. /\ to \in Convs /\ tx[t].by \in 0..MaxConvs /\ UNCHANGED parent
        /\ unread' = [unread EXCEPT ![to] = @ \cup {tx[t].by}]
    BY <1>1, <1>2, <1>6 DEF MessageSend, Busy, TxOK, Record
  <2>3. /\ fresh' \in [Tasks -> SUBSET Convs]
        /\ \A u \in Tasks : fresh[u] \subseteq fresh'[u]
        /\ \A u \in Tasks : Looking(tx[u]) =>
              \A d \in Convs : state'[d] \in Running /\ state[d] \notin Running => d \in fresh'[u]
    <3>1. CASE state' = [state EXCEPT ![to] = "active"] /\ Freshly({to})
      BY <1>1, <2>2, <3>1, Freshened DEF TreeOK
    <3>2. CASE UNCHANGED <<state, fresh>>
      BY <3>2 DEF FreshInv, FreshOK
    <3> QED BY <1>6, <3>1, <3>2 DEF MessageSend
  <2>4. FreshOK'
    BY <2>2, <2>3 DEF FreshInv, FreshOK
  <2>5. \A u \in Tasks \ {t} : tx[u].pc = "report" => tx[u].on # to
    <3> SUFFICES ASSUME NEW u \in Tasks \ {t}, tx[u].pc = "report", tx[u].on = to
                 PROVE  FALSE
      OBVIOUS
    <3>1. to \in rows[u] /\ state[to] = "active"
      BY DEF Inv, FinishHolds, Finishing
    <3>2. to \in rows[t]
      BY <1>6, <3>1 DEF MessageSend, FreshInv, SendHolds
    <3> QED BY <3>1, <3>2 DEF Inv, RowsApart
  <2>6. \A u \in Tasks \ {t} : tx[u].pc = "report" => unread'[tx[u].on] = unread[tx[u].on]
    BY <1>1, <2>2, <2>5 DEF FreshInv, FreshOK, TxOK, Busy
  <2> HIDE DEF to
  <2> QED BY <2>1, <2>2, <2>3, <2>4, <2>6 DEF FreshMoves
<1> QED BY <1>3, <1>4, <1>5, <1>6 DEF Message

\* A send that brings an agent back is known.
LEMMA TurnFresh ==
    ASSUME Inv, FreshInv, NEW t \in Tasks, Turn(t)
    PROVE  FreshMoves(t) /\ TaskFresh(t)
<1>1. TxOK /\ TreeOK
  BY DEF Inv
<1>2. TaskFresh(t)
  <2>1. CASE start_turn(t) \/ wake_conversation(t)
    <3>1. PICK op \in {"send", "wake"}, c \in Convs, pc \in {"count", "revive"} : BeginTurn(t, op, c, pc)
      BY <2>1 DEF start_turn, wake_conversation, Live
    <3>2. tx'[t].pc = pc
      BY <1>1, <3>1 DEF BeginTurn, TxOK, NoTask
    <3> QED BY <3>2, PlainFresh DEF Plain
  <2>2. CASE Reactivate(t) \/ CountUser(t) \/ confirm_user_turn(t)
    <3>1. IsOver(t) \/ \E pc \in {"count", "counted", "turn"} : Went(t, pc)
      BY <1>1, <2>2, GoesOn, GoesOver DEF Reactivate, CountUser, confirm_user_turn, End
    <3> QED BY <3>1, PlainFresh DEF IsOver, Went, Plain
  <2>3. CASE resume_finished(t) \/ start_unless_paused(t) \/ TurnEnds(t)
    <3>1. IsOver(t) \/ Went(t, "run")
      BY <1>1, <2>3, GoesOn, GoesOver DEF resume_finished, start_unless_paused, TurnEnds, End
    <3> QED BY <3>1, PlainFresh DEF IsOver, Went, Plain
  <2> QED BY <2>1, <2>2, <2>3 DEF Turn
<1>3. ASSUME NEW c, c \in Convs, state' = [state EXCEPT ![c] = "active"], Freshly({c}), UNCHANGED <<parent, unread>>
      PROVE  FreshMoves(t)
  <2>1. FreshOK'
    BY <1>3, Freshened DEF FreshInv, FreshOK
  <2>2. /\ \A u \in Tasks : fresh[u] \subseteq fresh'[u]
        /\ \A u \in Tasks : Looking(tx[u]) => c \in fresh'[u]
    BY <1>3, Freshened
  <2> QED BY <1>1, <1>3, <2>1, <2>2 DEF FreshMoves, TreeOK
<1>4. CASE start_turn(t) \/ CountUser(t) \/ confirm_user_turn(t)
  BY <1>2, <1>4, Quiet DEF start_turn, BeginTurn, CountUser, confirm_user_turn, dbVars, histVars
<1>5. CASE wake_conversation(t) \/ start_unless_paused(t) \/ TurnEnds(t)
  BY <1>2, <1>5, Quiet DEF wake_conversation, BeginTurn, start_unless_paused, TurnEnds, dbVars, histVars
<1>6. CASE Reactivate(t)
  <2>1. tx[t].on \in Convs
    BY <1>1, <1>6 DEF Reactivate, TxOK, Busy
  <2> QED BY <1>2, <1>3, <1>6, <2>1, Quiet DEF Reactivate
<1>7. CASE resume_finished(t)
  <2>1. tx[t].on \in Convs
    BY <1>1, <1>7 DEF resume_finished, TxOK, Busy
  <2> QED BY <1>2, <1>3, <1>7, <2>1, Quiet DEF resume_finished
<1> QED BY <1>2, <1>4, <1>5, <1>6, <1>7 DEF Turn

\* A stop or a mark makes no agent run.
LEMMA StoppedFresh ==
    ASSUME Inv, FreshInv, NEW t \in Tasks, NEW cs, state' = Stopped(cs), UNCHANGED <<parent, unread, fresh>>
    PROVE  FreshMoves(t)
  BY DEF Stopped, FreshMoves, FreshInv, FreshOK, Running

\* A stop makes none run.
LEMMA StopFresh ==
    ASSUME Inv, FreshInv, NEW t \in Tasks, Stop(t)
    PROVE  FreshMoves(t) /\ TaskFresh(t)
<1>1. TxOK /\ TreeOK
  BY DEF Inv
<1>2. PICK Old : tx \in [Tasks -> Record(Old)]
  BY <1>1 DEF TxOK
<1>3. CASE stop_agent(t)
  <2>1. tx'[t].pc = "subtree"
    BY <1>1, <1>3 DEF stop_agent, TxOK, NoTask
  <2> QED BY <1>3, <2>1, Quiet, PlainFresh DEF stop_agent, dbVars, histVars, Plain
<1>4. CASE lock_subtree(t)
  <2>1. tx'[t].pc = "subtree"
    BY <1>2, <1>4 DEF lock_subtree, Locked, Record
  <2> QED BY <1>4, <2>1, Quiet, PlainFresh DEF lock_subtree, dbVars, histVars, Plain
<1>5. CASE stop_subtree(t)
  <2>1. TaskFresh(t)
    <3>1. IsOver(t) \/ Went(t, "halt")
      BY <1>1, <1>5, GoesOn, GoesOver DEF stop_subtree, End
    <3> QED BY <3>1, PlainFresh DEF IsOver, Went, Plain
  <2>2. FreshMoves(t)
    BY <1>5, StoppedFresh, Quiet DEF stop_subtree
  <2> QED BY <2>1, <2>2
<1>6. CASE HaltNext(t)
  <2>1. tx'[t].pc \in {"rows", "done", "halt", "forget"}
    BY <1>1, <1>6, HaltTo
  <2> QED BY <1>6, <2>1, Quiet, PlainFresh DEF HaltNext, dbVars, histVars, Plain
<1> QED BY <1>3, <1>4, <1>5, <1>6 DEF Stop

\* A delete makes none run, and the agents an undone mark makes active again
\* are known.
LEMMA DeleteFresh ==
    ASSUME Inv, FreshInv, NEW t \in Tasks, Delete(t)
    PROVE  FreshMoves(t) /\ TaskFresh(t)
<1>1. TxOK /\ TreeOK
  BY DEF Inv
<1>2. PICK Old : tx \in [Tasks -> Record(Old)]
  BY <1>1 DEF TxOK
<1>3. CASE delete_subtree(t)
  <2>1. tx'[t].pc = "root"
    BY <1>1, <1>3 DEF delete_subtree, TxOK, NoTask
  <2> QED BY <1>3, <2>1, Quiet, PlainFresh DEF delete_subtree, dbVars, histVars, Plain
<1>4. CASE DeleteRoot(t)
  <2>1. tx'[t].pc \in {"subtree", "forget"}
    <3>1. CASE tx[t].on \in Live
      BY <1>2, <1>4, <3>1 DEF DeleteRoot, Record
    <3>2. CASE tx[t].on \notin Live
      BY <1>1, <1>4, <3>2, GoesOn DEF DeleteRoot, Went
    <3> QED BY <3>1, <3>2
  <2> QED BY <1>4, <2>1, Quiet, PlainFresh DEF DeleteRoot, dbVars, histVars, Plain
<1>5. CASE mark_subtree_deleting(t)
  <2>1. tx'[t].pc = "halt"
    BY <1>2, <1>5 DEF mark_subtree_deleting, Record
  <2> QED BY <1>5, <2>1, StoppedFresh, PlainFresh DEF mark_subtree_deleting, histVars, Plain
<1>6. CASE delete_subtree_rows(t)
  <2>1. TaskFresh(t)
    <3>1. Went(t, "forget")
      BY <1>1, <1>6, GoesOn DEF delete_subtree_rows
    <3> QED BY <3>1, PlainFresh DEF Went, Plain
  <2>2. PICK gone :
           /\ state' = [c \in Convs |-> IF c \in gone THEN "deleted" ELSE state[c]]
           /\ unread' = [c \in Convs |-> IF c \in gone THEN {} ELSE unread[c]]
    BY <1>6 DEF delete_subtree_rows
  <2>3. UNCHANGED <<parent, fresh>>
    BY <1>6 DEF delete_subtree_rows
  <2>4. \A u \in Tasks : tx[u].pc = "report" => unread'[tx[u].on] \subseteq unread[tx[u].on]
    BY <1>1, <2>2 DEF TxOK, Busy
  <2> QED BY <2>1, <2>2, <2>3, <2>4 DEF FreshMoves, FreshInv, FreshOK, Running
<1>7. CASE DeleteFault(t)
  <2>1. IsOver(t) \/ Went(t, "unmark")
    BY <1>1, <1>7, GoesOn, GoesOver DEF DeleteFault
  <2> QED BY <1>7, <2>1, Quiet, PlainFresh DEF DeleteFault, dbVars, histVars, IsOver, Went, Plain
<1>8. CASE unmark_subtree_deleting(t)
  <2> DEFINE back == {w \in tx[t].was : state[w[1]] = "stopped"}
             ids  == {w[1] : w \in back}
             old(c) == (CHOOSE w \in back : w[1] = c)[2]
             cs == {w[1] : w \in {v \in back : v[2] = "active"}}
  <2>1. TaskFresh(t)
    BY <1>1, <1>8, GoesOver, PlainFresh DEF unmark_subtree_deleting, IsOver, Plain
  <2>2. /\ state' = [c \in Convs |-> IF c \in ids THEN old(c) ELSE state[c]]
        /\ Freshly(cs) /\ UNCHANGED <<parent, unread>>
    BY <1>8 DEF unmark_subtree_deleting
  <2>3. tx[t].was \subseteq Convs \X {"active", "finished"}
    BY <1>2 DEF Record
  <2>4. cs \in SUBSET Convs
    BY <2>3
  <2>5. \A c \in ids : old(c) \in Running => c \in cs
    <3> SUFFICES ASSUME NEW c \in ids, old(c) \in Running
                 PROVE  c \in cs
      OBVIOUS
    <3> DEFINE w == CHOOSE w \in back : w[1] = c
    <3>1. w \in back /\ w[1] = c
      OBVIOUS
    <3>2. w[2] = "active"
      BY <2>3, <3>1 DEF Running
    <3> QED BY <3>1, <3>2
  <2>6. /\ fresh' \in [Tasks -> SUBSET Convs]
        /\ \A u \in Tasks : fresh[u] \subseteq fresh'[u]
        /\ \A u \in Tasks : Looking(tx[u]) => cs \subseteq fresh'[u]
    BY <2>2, <2>4, Freshened
  <2> HIDE DEF back, ids, old, cs
  <2> QED BY <2>1, <2>2, <2>5, <2>6 DEF FreshMoves, FreshInv, FreshOK
<1> QED BY <1>3, <1>4, <1>5, <1>6, <1>7, <1>8 DEF Delete

\* What finishes know is kept by every step.
LEMMA FreshKeeps ==
    ASSUME Inv, FreshInv, [Next]_vars
    PROVE  FreshInv'
<1>1. TxOK /\ TreeOK
  BY DEF Inv
<1>2. ASSUME NEW t \in Tasks, lock_conversations(t)
      PROVE  FreshInv'
  <2>1. PICK Old : tx \in [Tasks -> Record(Old)]
    BY <1>1 DEF TxOK
  <2>2. UNCHANGED <<parent, state, started, unread, rows, fresh, stands>>
    BY <1>2 DEF lock_conversations, dbVars, histVars
  <2>3. tx'[t].pc = tx[t].pc /\ tx'[t].on = tx[t].on /\ tx'[t].by = tx[t].by
    BY <1>2, <2>1 DEF lock_conversations, Record
  <2>4. StateMoves(t) /\ RowsMove(t) /\ TaskMoves(t) /\ FreshMoves(t)
    BY <1>1, <1>2, <2>2, LockMoves, Quiet DEF StateMoves, Arrow
  <2>5. TaskFresh(t)
    BY <2>2, <2>3 DEF TaskFresh, Looking, FreshInv, ChildLinked, SendHolds, SeenRunning, SeenUnread
  <2> QED BY <2>4, <2>5, FreshStep
<1>3. ASSUME NEW t \in Tasks, Start(t) \/ Finish(t)
      PROVE  FreshInv'
  BY <1>3, StartStates, StartMoves, StartFresh, FinishStates, FinishMoves, FinishFresh, FreshStep
<1>4. ASSUME NEW t \in Tasks, Message(t) \/ Turn(t)
      PROVE  FreshInv'
  BY <1>4, MessageStates, MessageMoves, MessageFresh, TurnStates, TurnMoves, TurnFresh, FreshStep
<1>5. ASSUME NEW t \in Tasks, Stop(t) \/ Delete(t)
      PROVE  FreshInv'
  BY <1>5, StopStates, StopMoves, StopFresh, DeleteStates, DeleteMoves, DeleteFresh, FreshStep
<1>6. ASSUME NEW c \in Convs, deliver_agent_message(c)
      PROVE  FreshInv'
  <2>1. PICK from : unread' = [unread EXCEPT ![c] = @ \ {from}]
    BY <1>6 DEF deliver_agent_message
  <2>2. UNCHANGED <<parent, state, rows, tx, fresh>>
    BY <1>6 DEF deliver_agent_message, lockVars, histVars
  <2> QED BY <2>1, <2>2 DEF FreshInv, FreshOK, ChildLinked, SendHolds, SeenRunning, SeenUnread
<1>7. CASE UNCHANGED vars
  BY <1>7 DEF vars, dbVars, lockVars, histVars, FreshInv, FreshOK, ChildLinked, SendHolds, SeenRunning, SeenUnread
<1> QED BY <1>2, <1>3, <1>4, <1>5, <1>6, <1>7 DEF Next

\* It holds at first, when nobody finishes.
LEMMA InitFresh == Init => FreshInv
<1> SUFFICES ASSUME Init PROVE FreshInv
  OBVIOUS
<1>1. FreshOK
  BY DEF Init, FreshOK
<1>2. \A t \in Tasks : tx[t].pc = "idle"
  BY DEF Init, NoTask
<1> QED BY <1>1, <1>2 DEF FreshInv, ChildLinked, SendHolds, SeenRunning, SeenUnread, Looking

-----------------------------------------------------------------------------
(* What a stop and a delete halt.                                          *)

NoHalts(rest) == \A r \in rest : r[2] # "halt"
Halts(r)      == r.pc \in {"halt", "forget"} \/ NoHalts(r.rest)
HaltsOnly     == \A t \in Tasks : Halts(tx[t])
NoWakes       == \A t \in Tasks : tx[t].op # "wake"
InRun(r)      == r.pc \in {"turn", "run"}

HaltInv == HaltsOnly /\ NoWakes /\ StoppedRunsNothing

\* A step of a task that halts nothing: what it stops it has to halt, and it
\* goes on to a turn only in a conversation that is not stopped.
Calm(t) ==
    /\ tx[t].pc \notin {"halt", "forget"} /\ Others(t)
    /\ Halts(tx'[t]) /\ tx'[t].op # "wake"
    /\ \A c \in Convs : state'[c] = "stopped" => state[c] = "stopped" \/ <<c, "halt">> \in tx'[t].rest
    /\ InRun(tx'[t]) => \/ InRun(tx[t]) /\ tx'[t].on = tx[t].on
                        \/ state'[tx'[t].on] # "stopped"

\* A step that halts nothing keeps the stopped quiet.
LEMMA CalmKeeps ==
    ASSUME Inv, HaltInv, NEW t \in Tasks, Calm(t), TxOK'
    PROVE  HaltInv'
<1>1. \A u \in Tasks \ {t} : tx'[u] = tx[u]
  BY DEF Calm, Others
<1>2. HaltsOnly' /\ NoWakes'
  BY <1>1 DEF Calm, HaltInv, HaltsOnly, NoWakes, Halts
<1>3. StoppedRunsNothing'
  <2> SUFFICES ASSUME NEW c \in Convs, state'[c] = "stopped",
                      \A u \in Tasks : <<c, "halt">> \notin tx'[u].rest,
                      NEW u \in Tasks, tx'[u].on = c, InRun(tx'[u])
               PROVE  FALSE
    BY DEF StoppedRunsNothing, InRun
  <2>1. state[c] = "stopped"
    BY DEF Calm
  <2>2. <<c, "halt">> \notin tx[t].rest
    BY DEF Calm, HaltInv, HaltsOnly, Halts, NoHalts
  <2>3. \A v \in Tasks : <<c, "halt">> \notin tx[v].rest
    BY <1>1, <2>2
  <2>4. \A v \in Tasks : ~(tx[v].on = c /\ InRun(tx[v]))
    BY <2>1, <2>3 DEF HaltInv, StoppedRunsNothing, InRun
  <2> QED BY <1>1, <2>4 DEF Calm
<1> QED BY <1>2, <1>3 DEF HaltInv

\* stop_turn_now takes a conversation off the list with its turns ended.
LEMMA HaltKeeps ==
    ASSUME Inv, HaltInv, NEW t \in Tasks, HaltNext(t)
    PROVE  HaltInv'
<1>1. PICK Old : tx \in [Tasks -> Record(Old)]
  BY DEF Inv, TxOK
<1> DEFINE next == NextRow(t)
           r == [tx[t] EXCEPT !.rest = @ \ {next}]
           halted == Halted(t)
<1>2. /\ tx[t].pc \in {"halt", "forget"} /\ UNCHANGED state
      /\ tx' = [u \in Tasks |->
                  CASE u = t -> IF tx[t].rest = {next} THEN halted ELSE r
                    [] InTurn(u, next[1]) -> Over
                    [] OTHER -> tx[u]]
  BY DEF HaltNext, dbVars
<1>3. ~InTurn(t, next[1])
  BY <1>2 DEF InTurn
<1>4. r.pc = tx[t].pc /\ r.op = tx[t].op /\ r.rest = tx[t].rest \ {next}
  BY <1>1 DEF Record
<1>5. Over.pc = "done" /\ Over.op = "none" /\ Over.rest = {}
  BY DEF Over, NoTask
<1>6. halted.pc \in {"rows", "done"} /\ halted.op # "wake" /\ NoHalts(halted.rest)
  <2>1. CASE Halted(t) = Over
    BY <1>5, <2>1 DEF NoHalts
  <2>2. CASE Halted(t) # Over
    <3> DEFINE up == parent[tx[t].on]
               rest == AllOf(tx[t].tree, "remove") \cup (IF up = 0 THEN {} ELSE {<<up, "share">>})
    <3>1. Halted(t) = [tx[t] EXCEPT !.pc = "rows", !.rest = rest]
      BY <2>2 DEF Halted
    <3>2. NoHalts(rest)
      BY DEF NoHalts, AllOf
    <3> HIDE DEF rest
    <3>3. [tx[t] EXCEPT !.pc = "rows", !.rest = rest].pc = "rows"
          /\ [tx[t] EXCEPT !.pc = "rows", !.rest = rest].op = tx[t].op
          /\ [tx[t] EXCEPT !.pc = "rows", !.rest = rest].rest = rest
      BY <1>1 DEF Record
    <3> QED BY <3>1, <3>2, <3>3 DEF HaltInv, NoWakes
  <2> QED BY <2>1, <2>2
<1> HIDE DEF next, r, halted
<1>7. tx'[t] = IF tx[t].rest = {next} THEN halted ELSE r
  BY <1>2, <1>3
<1>8. \A u \in Tasks \ {t} : tx'[u] = IF InTurn(u, next[1]) THEN Over ELSE tx[u]
  BY <1>2
<1>9. HaltsOnly' /\ NoWakes'
  <2> SUFFICES ASSUME NEW u \in Tasks
               PROVE  Halts(tx'[u]) /\ tx'[u].op # "wake"
    BY DEF HaltsOnly, NoWakes, Halts
  <2>1. CASE u = t
    BY <1>2, <1>4, <1>6, <1>7, <2>1 DEF Halts, HaltInv, NoWakes
  <2>2. CASE u # t
    BY <1>5, <1>8, <2>2 DEF Halts, NoHalts, HaltInv, HaltsOnly, NoWakes
  <2> QED BY <2>1, <2>2
<1>10. StoppedRunsNothing'
  <2> SUFFICES ASSUME NEW c \in Convs, state'[c] = "stopped",
                      \A u \in Tasks : <<c, "halt">> \notin tx'[u].rest,
                      NEW u \in Tasks, tx'[u].on = c, InRun(tx'[u])
               PROVE  FALSE
    BY DEF StoppedRunsNothing, InRun
  <2>1. u # t /\ tx'[u] = tx[u] /\ ~InTurn(u, next[1])
    BY <1>2, <1>4, <1>5, <1>6, <1>7, <1>8 DEF InRun
  <2>2. c # next[1]
    BY <2>1 DEF InTurn, InRun
  <2>3. next # <<c, "halt">>
    BY <2>2
  <2>4. <<c, "halt">> \notin tx[t].rest
    BY <1>4, <1>7, <2>3
  <2>5. ASSUME NEW v \in Tasks \ {t}
        PROVE  <<c, "halt">> \notin tx[v].rest
    <3>1. CASE tx'[v] = tx[v]
      BY <3>1
    <3>2. CASE InTurn(v, next[1])
      BY <3>2 DEF InTurn, HaltInv, HaltsOnly, Halts, NoHalts
    <3> QED BY <1>8, <3>1, <3>2
  <2> QED BY <1>2, <2>1, <2>4, <2>5 DEF HaltInv, StoppedRunsNothing, InRun
<1> QED BY <1>9, <1>10 DEF HaltInv

\* Where a task that goes on, or is over, has its locks to take.
LEMMA GoesRest ==
    ASSUME TxOK, NEW t \in Tasks
    PROVE  /\ \A pc : Go(t, pc) => Went(t, pc) /\ tx'[t].op = tx[t].op /\ tx'[t].rest = tx[t].rest
           /\ \A pc, rest : GoLock(t, pc, rest) => Went(t, pc) /\ tx'[t].op = tx[t].op /\ tx'[t].rest = rest
           /\ tx' = [tx EXCEPT ![t] = Over] => Others(t) /\ tx'[t].pc = "done" /\ tx'[t].op = "none" /\ tx'[t].rest = {}
<1>1. PICK Old : tx \in [Tasks -> Record(Old)]
  BY DEF TxOK
<1>2. ASSUME NEW pc, Go(t, pc)
      PROVE  Went(t, pc) /\ tx'[t].op = tx[t].op /\ tx'[t].rest = tx[t].rest
  BY <1>1, <1>2 DEF Go, Went, Others, Record
<1>3. ASSUME NEW pc, NEW rest, GoLock(t, pc, rest)
      PROVE  Went(t, pc) /\ tx'[t].op = tx[t].op /\ tx'[t].rest = rest
  BY <1>1, <1>3 DEF GoLock, Went, Others, Record
<1>4. ASSUME tx' = [tx EXCEPT ![t] = Over]
      PROVE  Others(t) /\ tx'[t].pc = "done" /\ tx'[t].op = "none" /\ tx'[t].rest = {}
  BY <1>1, <1>4 DEF Over, NoTask, Others
<1> QED BY <1>2, <1>3, <1>4

\* A task that goes on with what it had to lock, or with locks to take, or is
\* over, and goes on to no turn.
LEMMA CalmGo ==
    ASSUME Inv, HaltInv, NEW t \in Tasks, tx[t].pc \notin {"halt", "forget"},
           \A c \in Convs : state'[c] = "stopped" => state[c] = "stopped",
           \/ End(t) \/ tx' = [tx EXCEPT ![t] = Over]
           \/ \E pc : pc \notin {"turn", "run"} /\ Go(t, pc)
           \/ \E pc, rest : pc \notin {"turn", "run"} /\ GoLock(t, pc, rest) /\ (pc = "forget" \/ NoHalts(rest))
    PROVE  Calm(t)
<1>1. TxOK
  BY DEF Inv
<1>2. tx[t].op # "wake" /\ NoHalts(tx[t].rest)
  BY DEF HaltInv, NoWakes, HaltsOnly, Halts
<1>3. CASE End(t) \/ tx' = [tx EXCEPT ![t] = Over]
  BY <1>1, <1>3, GoesRest DEF End, Calm, Halts, NoHalts, InRun
<1>4. ASSUME NEW pc, pc \notin {"turn", "run"}, Go(t, pc)
      PROVE  Calm(t)
  BY <1>1, <1>2, <1>4, GoesRest DEF Calm, Halts, InRun, Went
<1>5. ASSUME NEW pc, NEW rest, pc \notin {"turn", "run"}, GoLock(t, pc, rest), pc = "forget" \/ NoHalts(rest)
      PROVE  Calm(t)
  BY <1>1, <1>2, <1>5, GoesRest DEF Calm, Halts, InRun, Went
<1> QED BY <1>3, <1>4, <1>5

\* A start stops nothing and begins no turn.
LEMMA StartCalm ==
    ASSUME Inv, HaltInv, NEW t \in Tasks, Start(t)
    PROVE  Calm(t)
<1>1. TxOK /\ TreeOK
  BY DEF Inv
<1> DEFINE both == {<<tx[t].by, "share">>, <<tx[t].on, "change">>}
<1>2. NoHalts(both)
  BY DEF NoHalts
<1>3. CASE start_agent(t)
  <2>1. UNCHANGED state /\ tx[t].pc = "idle"
    BY <1>3 DEF start_agent, dbVars
  <2>2. Others(t) /\ tx'[t].pc = "link" /\ tx'[t].op = "create" /\ tx'[t].rest = {}
    BY <1>1, <1>3 DEF start_agent, TxOK, NoTask, Others
  <2> QED BY <2>1, <2>2 DEF Calm, Halts, NoHalts, InRun
<1>4. CASE CreateCommit(t)
  <2>1. \A c \in Convs : state'[c] = "stopped" => state[c] = "stopped"
    BY <1>1, <1>4 DEF CreateCommit, TreeOK
  <2>2. tx[t].pc = "link" /\ (GoLock(t, "complete", both) \/ GoLock(t, "fail", both))
    BY <1>4 DEF CreateCommit, run_start
  <2> HIDE DEF both
  <2> QED BY <1>2, <2>1, <2>2, CalmGo
<1>5. CASE complete_start(t) \/ fail_start(t)
  <2>1. \A c \in Convs : state'[c] = "stopped" => state[c] = "stopped"
    BY <1>1, <1>5 DEF complete_start, fail_start, TreeOK
  <2>2. tx[t].pc \in {"complete", "fail"} /\ End(t)
    BY <1>5 DEF complete_start, fail_start, Locked
  <2> QED BY <2>1, <2>2, CalmGo
<1>6. CASE StartFault(t)
  <2>1. UNCHANGED state /\ tx[t].pc \in {"complete", "fail"} /\ (End(t) \/ GoLock(t, "fail", both))
    BY <1>6 DEF StartFault, dbVars
  <2> HIDE DEF both
  <2> QED BY <1>2, <2>1, CalmGo
<1> QED BY <1>3, <1>4, <1>5, <1>6 DEF Start

\* A finish stops nothing and begins no turn.
LEMMA FinishCalm ==
    ASSUME Inv, HaltInv, NEW t \in Tasks, Finish(t)
    PROVE  Calm(t)
<1>1. TxOK /\ TreeOK
  BY DEF Inv
<1>2. \A c : NoHalts(BothShared(c))
  BY DEF NoHalts, BothShared
<1>3. CASE finish(t)
  <2>1. UNCHANGED state /\ tx[t].pc = "idle"
    BY <1>3 DEF finish, dbVars
  <2>2. PICK c \in Live :
           tx' = [tx EXCEPT ![t] = [NoTask EXCEPT !.op = "finish", !.pc = "finish", !.on = c, !.rest = BothShared(c)]]
    BY <1>3 DEF finish
  <2>3. Others(t) /\ tx'[t].pc = "finish" /\ tx'[t].op = "finish" /\ tx'[t].rest = BothShared(c)
    BY <1>1, <2>2 DEF TxOK, NoTask, Others
  <2> QED BY <1>2, <2>1, <2>3 DEF Calm, Halts, InRun
<1>4. CASE FinishUpdate(t)
  <2>1. UNCHANGED state /\ tx[t].pc = "finish"
    BY <1>4 DEF FinishUpdate, Locked, dbVars
  <2>2. Go(t, "running") \/ GoLock(t, "after", BothShared(tx[t].on)) \/ End(t)
    BY <1>4 DEF FinishUpdate
  <2> QED BY <1>2, <2>1, <2>2, CalmGo
<1>5. CASE FinishRunning(t) \/ FinishUnread(t)
  <2>1. UNCHANGED state /\ tx[t].pc \in {"running", "unread"}
    BY <1>5 DEF FinishRunning, FinishUnread, dbVars
  <2>2. Go(t, "unread") \/ Go(t, "report") \/ End(t)
    BY <1>5 DEF FinishRunning, FinishUnread
  <2> QED BY <2>1, <2>2, CalmGo
<1>6. CASE FinishCommit(t) \/ report_after_finish(t)
  <2>1. \A c \in Convs : state'[c] = "stopped" => state[c] = "stopped"
    BY <1>1, <1>6 DEF FinishCommit, report_after_finish, TreeOK
  <2>2. tx[t].pc \in {"report", "after"} /\ End(t)
    BY <1>6 DEF FinishCommit, report_after_finish, Locked
  <2> QED BY <2>1, <2>2, CalmGo
<1> QED BY <1>3, <1>4, <1>5, <1>6 DEF Finish

\* A message stops nothing and begins no turn.
LEMMA MessageCalm ==
    ASSUME Inv, HaltInv, NEW t \in Tasks, Message(t)
    PROVE  Calm(t)
<1>1. TxOK /\ TreeOK
  BY DEF Inv
<1>2. CASE message_agent(t)
  <2>1. UNCHANGED state /\ tx[t].pc = "idle"
    BY <1>2 DEF message_agent, dbVars
  <2>2. PICK by \in Live, to \in Live :
           tx' = [tx EXCEPT ![t] = [NoTask EXCEPT !.op = "message", !.pc = "recipient", !.by = by, !.on = to,
                                                  !.rest = {<<by, "share">>, <<to, "share">>}]]
    BY <1>2 DEF message_agent
  <2>3. Others(t) /\ tx'[t].pc = "recipient" /\ tx'[t].op = "message" /\ tx'[t].rest = {<<by, "share">>, <<to, "share">>}
    BY <1>1, <2>2 DEF TxOK, NoTask, Others
  <2> QED BY <2>1, <2>3 DEF Calm, Halts, NoHalts, InRun
<1>3. CASE MessageRow(t) \/ MessageCheck(t)
  <2>1. UNCHANGED state /\ tx[t].pc \in {"recipient", "check"}
    BY <1>3 DEF MessageRow, MessageCheck, Locked, dbVars
  <2>2. Go(t, "check") \/ Go(t, "send") \/ End(t)
    BY <1>3 DEF MessageRow, MessageCheck
  <2> QED BY <2>1, <2>2, CalmGo
<1>4. CASE MessageSend(t)
  <2>1. \A c \in Convs : state'[c] = "stopped" => state[c] = "stopped"
    BY <1>1, <1>4 DEF MessageSend, TreeOK
  <2>2. tx[t].pc = "send" /\ End(t)
    BY <1>4 DEF MessageSend
  <2> QED BY <2>1, <2>2, CalmGo
<1> QED BY <1>2, <1>3, <1>4 DEF Message

\* A send goes on to its turn only past confirm_user_turn.
LEMMA TurnCalm ==
    ASSUME Inv, HaltInv, NEW t \in Tasks, Turn(t), "wake" \notin Ops
    PROVE  Calm(t)
<1>1. TxOK /\ TreeOK
  BY DEF Inv
<1>2. CASE start_turn(t) \/ wake_conversation(t)
  <2>1. PICK op \in {"send", "wake"}, c \in Convs, pc \in {"count", "revive"} : BeginTurn(t, op, c, pc)
    BY <1>2 DEF start_turn, wake_conversation, Live
  <2>2. UNCHANGED state /\ tx[t].pc = "idle" /\ op = "send"
    BY <2>1 DEF BeginTurn, dbVars
  <2>3. Others(t) /\ tx'[t].pc = pc /\ tx'[t].op = op /\ tx'[t].rest = {}
    BY <1>1, <2>1 DEF BeginTurn, TxOK, NoTask, Others
  <2> QED BY <2>1, <2>2, <2>3 DEF Calm, Halts, NoHalts, InRun
<1>3. CASE Reactivate(t) \/ CountUser(t) \/ TurnEnds(t)
  <2>1. \A c \in Convs : state'[c] = "stopped" => state[c] = "stopped"
    BY <1>1, <1>3 DEF Reactivate, CountUser, TurnEnds, TreeOK, dbVars
  <2>2. tx[t].pc \in {"revive", "count", "run"} /\ (Go(t, "count") \/ Go(t, "counted") \/ End(t))
    BY <1>3 DEF Reactivate, CountUser, TurnEnds
  <2> QED BY <2>1, <2>2, CalmGo
<1>4. CASE confirm_user_turn(t)
  <2>1. UNCHANGED state /\ tx[t].pc = "counted"
    BY <1>4 DEF confirm_user_turn, dbVars
  <2>2. CASE End(t)
    BY <2>1, <2>2, CalmGo
  <2>3. CASE state[tx[t].on] # "stopped" /\ Go(t, "turn")
    <3>1. Went(t, "turn") /\ tx'[t].op = tx[t].op /\ tx'[t].rest = tx[t].rest
      BY <1>1, <2>3, GoesRest
    <3> QED BY <2>1, <2>3, <3>1 DEF Calm, Went, Halts, HaltInv, HaltsOnly, NoWakes
  <2> QED BY <1>4, <2>2, <2>3 DEF confirm_user_turn, Ended
<1>5. CASE resume_finished(t)
  <2>1. tx[t].pc = "turn" /\ \A c \in Convs : state'[c] = "stopped" => state[c] = "stopped"
    BY <1>1, <1>5 DEF resume_finished, TreeOK
  <2>2. Went(t, "run") /\ tx'[t].op = tx[t].op /\ tx'[t].rest = tx[t].rest
    BY <1>1, <1>5, GoesRest DEF resume_finished
  <2> QED BY <2>1, <2>2 DEF Calm, Went, InRun, Halts, HaltInv, HaltsOnly, NoWakes
<1>6. ~start_unless_paused(t)
  BY DEF start_unless_paused, HaltInv, NoWakes
<1> QED BY <1>2, <1>3, <1>4, <1>5, <1>6 DEF Turn

\* What a stop or a mark ends, it has to halt.
LEMMA StoppedCalm ==
    ASSUME Inv, HaltInv, NEW t \in Tasks, tx[t].pc = "subtree", Others(t),
           tx'[t].pc = "halt", tx'[t].op = tx[t].op, tx'[t].rest = AllOf(tx[t].tree, "halt"),
           state' = Stopped(tx[t].tree)
    PROVE  Calm(t)
<1>1. \A c \in Convs : state'[c] = "stopped" => state[c] = "stopped" \/ <<c, "halt">> \in tx'[t].rest
  BY DEF Stopped, AllOf
<1> QED BY <1>1 DEF Calm, Halts, InRun, HaltInv, NoWakes

\* A stop halts all that it ended.
LEMMA StopCalm ==
    ASSUME Inv, HaltInv, NEW t \in Tasks, Stop(t)
    PROVE  Calm(t) \/ HaltNext(t)
<1>1. TxOK /\ TreeOK
  BY DEF Inv
<1>2. PICK Old : tx \in [Tasks -> Record(Old)]
  BY <1>1 DEF TxOK
<1>3. \A cs : NoHalts(AllOf(cs, "change"))
  BY DEF NoHalts, AllOf
<1>4. CASE stop_agent(t)
  <2>1. UNCHANGED state /\ tx[t].pc = "idle"
    BY <1>4 DEF stop_agent, dbVars
  <2>2. PICK by \in Live, c \in Live :
           tx' = [tx EXCEPT ![t] = [NoTask EXCEPT !.op = "stop", !.pc = "subtree", !.by = by, !.on = c,
                                                  !.tree = subtree_ids(c), !.rest = AllOf(subtree_ids(c), "change")]]
    BY <1>4 DEF stop_agent
  <2>3. Others(t) /\ tx'[t].pc = "subtree" /\ tx'[t].op = "stop" /\ tx'[t].rest = AllOf(subtree_ids(c), "change")
    BY <1>1, <2>2 DEF TxOK, NoTask, Others
  <2> QED BY <1>3, <2>1, <2>3 DEF Calm, Halts, InRun
<1>5. CASE lock_subtree(t)
  <2>1. UNCHANGED state /\ tx[t].pc = "subtree"
    BY <1>5 DEF lock_subtree, Locked, dbVars
  <2> DEFINE new == subtree_ids(tx[t].on) \ tx[t].tree
  <2>2. tx' = [tx EXCEPT ![t].tree = @ \cup new, ![t].rest = AllOf(new, "change")]
    BY <1>5 DEF lock_subtree
  <2> HIDE DEF new
  <2>3. Others(t) /\ tx'[t].pc = tx[t].pc /\ tx'[t].op = tx[t].op /\ tx'[t].rest = AllOf(new, "change")
    BY <1>2, <2>2 DEF Others, Record
  <2> QED BY <1>3, <2>1, <2>3 DEF Calm, Halts, InRun, HaltInv, NoWakes
<1>6. CASE stop_subtree(t)
  <2>1. tx[t].pc = "subtree"
    BY <1>6 DEF stop_subtree, SubtreeLocked, Locked
  <2>2. CASE End(t) /\ UNCHANGED state
    BY <2>1, <2>2, CalmGo
  <2>3. CASE state' = Stopped(tx[t].tree) /\ GoLock(t, "halt", AllOf(tx[t].tree, "halt"))
    <3>1. Went(t, "halt") /\ tx'[t].op = tx[t].op /\ tx'[t].rest = AllOf(tx[t].tree, "halt")
      BY <1>1, <2>3, GoesRest
    <3> QED BY <2>1, <2>3, <3>1, StoppedCalm DEF Went
  <2> QED BY <1>6, <2>2, <2>3 DEF stop_subtree
<1> QED BY <1>4, <1>5, <1>6 DEF Stop

\* A delete halts all that its mark ended, before it locks their rows.
LEMMA DeleteCalm ==
    ASSUME Inv, HaltInv, NEW t \in Tasks, Delete(t)
    PROVE  Calm(t)
<1>1. TxOK /\ TreeOK
  BY DEF Inv
<1>2. PICK Old : tx \in [Tasks -> Record(Old)]
  BY <1>1 DEF TxOK
<1>3. \A cs : NoHalts(AllOf(cs, "change"))
  BY DEF NoHalts, AllOf
<1>4. CASE delete_subtree(t)
  <2>1. UNCHANGED state /\ tx[t].pc = "idle"
    BY <1>4 DEF delete_subtree, dbVars
  <2>2. PICK c \in Live :
           tx' = [tx EXCEPT ![t] = [NoTask EXCEPT !.op = "delete", !.pc = "root", !.on = c,
                                                  !.rest = {<<Root(c), "change">>}]]
    BY <1>4 DEF delete_subtree
  <2>3. Others(t) /\ tx'[t].pc = "root" /\ tx'[t].op = "delete" /\ tx'[t].rest = {<<Root(c), "change">>}
    BY <1>1, <2>2 DEF TxOK, NoTask, Others
  <2> QED BY <2>1, <2>3 DEF Calm, Halts, NoHalts, InRun
<1>5. CASE DeleteRoot(t)
  <2>1. UNCHANGED state /\ tx[t].pc = "root"
    BY <1>5 DEF DeleteRoot, Locked, dbVars
  <2>2. CASE tx[t].on \notin Live
    BY <1>5, <2>1, <2>2, CalmGo DEF DeleteRoot
  <2>3. CASE tx[t].on \in Live
    <3> DEFINE ids == subtree_ids(tx[t].on)
               new == ids \ {Root(tx[t].on)}
    <3>1. tx' = [tx EXCEPT ![t].pc = "subtree", ![t].tree = ids, ![t].rest = AllOf(new, "change")]
      BY <1>5, <2>3 DEF DeleteRoot
    <3> HIDE DEF ids, new
    <3>2. Others(t) /\ tx'[t].pc = "subtree" /\ tx'[t].op = tx[t].op /\ tx'[t].rest = AllOf(new, "change")
      BY <1>2, <3>1 DEF Others, Record
    <3> QED BY <1>3, <2>1, <3>2 DEF Calm, Halts, InRun, HaltInv, NoWakes
  <2> QED BY <2>2, <2>3
<1>6. CASE mark_subtree_deleting(t)
  <2> DEFINE was == {w \in tx[t].tree \X {"active", "finished"} : state[w[1]] = w[2]}
             halts == AllOf(tx[t].tree, "halt")
  <2>1. /\ tx[t].pc = "subtree" /\ state' = Stopped(tx[t].tree)
        /\ tx' = [tx EXCEPT ![t].pc = "halt", ![t].rest = halts, ![t].was = was]
    BY <1>6 DEF mark_subtree_deleting, SubtreeLocked, Locked
  <2> HIDE DEF was, halts
  <2>2. Others(t) /\ tx'[t].pc = "halt" /\ tx'[t].op = tx[t].op /\ tx'[t].rest = halts
    BY <1>2, <2>1 DEF Others, Record
  <2> QED BY <2>1, <2>2, StoppedCalm DEF halts
<1>7. CASE delete_subtree_rows(t)
  <2>1. PICK gone : state' = [c \in Convs |-> IF c \in gone THEN "deleted" ELSE state[c]]
    BY <1>7 DEF delete_subtree_rows
  <2>2. tx[t].pc = "rows" /\ GoLock(t, "forget", AllOf(tx[t].tree, "halt"))
    BY <1>7 DEF delete_subtree_rows, Locked
  <2> QED BY <2>1, <2>2, CalmGo
<1>8. CASE DeleteFault(t)
  <2>1. UNCHANGED state /\ tx[t].pc = "rows"
    BY <1>8 DEF DeleteFault, dbVars
  <2>2. GoLock(t, "unmark", AllOf(tx[t].tree, "change")) \/ tx' = [tx EXCEPT ![t] = Over]
    BY <1>8 DEF DeleteFault
  <2> QED BY <1>3, <2>1, <2>2, CalmGo
<1>9. CASE unmark_subtree_deleting(t)
  <2>1. tx[t].pc = "unmark" /\ End(t)
    BY <1>9 DEF unmark_subtree_deleting, Locked
  <2>2. \A c \in Convs : state'[c] = "stopped" => state[c] = "stopped"
    <3> DEFINE back == {w \in tx[t].was : state[w[1]] = "stopped"}
               ids  == {w[1] : w \in back}
               old(c) == (CHOOSE w \in back : w[1] = c)[2]
    <3>1. state' = [c \in Convs |-> IF c \in ids THEN old(c) ELSE state[c]]
      BY <1>9 DEF unmark_subtree_deleting
    <3>2. \A c \in ids : state[c] = "stopped"
      OBVIOUS
    <3> HIDE DEF back, ids, old
    <3> QED BY <3>1, <3>2
  <2> QED BY <2>1, <2>2, CalmGo
<1> QED BY <1>4, <1>5, <1>6, <1>7, <1>8, <1>9 DEF Delete

\* Without wakes, every step keeps the stopped quiet.
LEMMA HaltsKept ==
    ASSUME Inv, HaltInv, [Next]_vars, "wake" \notin Ops, TxOK'
    PROVE  HaltInv'
<1>1. ASSUME NEW t \in Tasks, lock_conversations(t)
      PROVE  HaltInv'
  <2>1. PICK Old : tx \in [Tasks -> Record(Old)]
    BY DEF Inv, TxOK
  <2>2. UNCHANGED state /\ tx[t].pc \notin {"halt", "forget"}
    BY <1>1 DEF lock_conversations, Locking, dbVars
  <2>3. /\ tx'[t].pc = tx[t].pc /\ tx'[t].on = tx[t].on /\ tx'[t].op = tx[t].op
        /\ tx'[t].rest \subseteq tx[t].rest /\ Others(t)
    BY <1>1, <2>1 DEF lock_conversations, Record, Others
  <2>4. Calm(t)
    BY <2>2, <2>3 DEF Calm, HaltInv, HaltsOnly, NoWakes, Halts, NoHalts, InRun
  <2> QED BY <2>4, CalmKeeps
<1>2. ASSUME NEW t \in Tasks, Start(t) \/ Finish(t) \/ Message(t)
      PROVE  HaltInv'
  BY <1>2, StartCalm, FinishCalm, MessageCalm, CalmKeeps
<1>3. ASSUME NEW t \in Tasks, Turn(t) \/ Stop(t) \/ Delete(t)
      PROVE  HaltInv'
  BY <1>3, TurnCalm, StopCalm, DeleteCalm, CalmKeeps, HaltKeeps
<1>4. CASE UNCHANGED <<state, tx>>
  BY <1>4 DEF HaltInv, HaltsOnly, NoWakes, StoppedRunsNothing
<1>5. ASSUME NEW c \in Convs, deliver_agent_message(c)
      PROVE  UNCHANGED <<state, tx>>
  BY <1>5 DEF deliver_agent_message
<1> QED BY <1>1, <1>2, <1>3, <1>4, <1>5 DEF Next, vars, dbVars

\* It holds at first, when no task does anything.
LEMMA InitHalts == Init => HaltInv
  BY DEF Init, NoTask, HaltInv, HaltsOnly, Halts, NoHalts, NoWakes, StoppedRunsNothing

-----------------------------------------------------------------------------
\* The inductive invariant of the tasks, their rows and the states.
LEMMA AgentTreeInv == Spec => []Inv
  BY InitInv, NextKeeps, PTL DEF Spec

\* The types the arrows of agents.state are read at: every variable the
\* proofs speak of keeps its type, whatever the tasks do.
THEOREM AgentTreeTypes == Spec => [](TxOK /\ TreeOK)
<1>1. Inv => TxOK /\ TreeOK
  BY DEF Inv
<1> QED BY <1>1, AgentTreeInv, PTL

\* An agent that never completed its start (complete_start) is never active
\* or finished, for any number of tasks, agents and outages: what end_start
\* relies on when it clears the agent's credentials.
THEOREM AgentTreeNeverStarted == Spec => []NeverStartedNeverRuns
<1>1. Inv => NeverStartedNeverRuns
  BY DEF Inv
<1> QED BY <1>1, AgentTreeInv, PTL

\* What stop_agent ended stays stopped, or is deleted, until the user writes
\* to it, as long as no statement of a delete or of a start met an outage: an
\* undone delete (unmark_subtree_deleting) is the only way round it.
THEOREM AgentTreeStopStands == Spec => [](faults = 0 => StopStands)
<1>1. Inv => (faults = 0 => StopStands)
  BY DEF Inv
<1> QED BY <1>1, AgentTreeInv, PTL

\* A finish commits only with every message and report that waits for its
\* agent, and every agent of its own that runs, either read before or come
\* since its reads: finish_agent reads who runs before what is unread, so
\* that an agent that finishes between the two is not missed.
THEOREM AgentTreeFinishReadsAll == Spec => FinishReadsAll
<1>1. Inv /\ FreshInv =>
        \A t \in Tasks : tx[t].pc = "report" =>
            unread[tx[t].on] \cup {d \in Own(tx[t].on) : state[d] \in Running} \subseteq fresh[t]
  BY DEF FreshInv, SeenRunning, SeenUnread, Looking, Own, Live
<1>2. Inv /\ FreshInv => [\A t \in Tasks :
        (tx[t].pc = "report" /\ tx'[t].pc = "done" /\ state'[tx[t].on] = "finished") =>
            unread[tx[t].on] \cup {d \in Own(tx[t].on) : state[d] \in Running} \subseteq fresh[t]]_vars
  BY <1>1
<1>3. Spec => [](Inv /\ FreshInv)
  BY InitInv, InitFresh, NextKeeps, FreshKeeps, PTL DEF Spec
<1> QED BY <1>2, <1>3, PTL DEF FinishReadsAll

\* Once a stop or a delete has halted a stopped agent's turns (stop_turn_now),
\* none runs in it, among any number of sends, starts, messages, finishes,
\* stops, deletes and outages: confirm_user_turn refuses one that was admitted
\* before.  Wakes are left out, which start_unless_paused lets by.
THEOREM AgentTreeStoppedRunsNothing ==
    ASSUME "wake" \notin Ops
    PROVE  Spec => []StoppedRunsNothing
<1>1. Inv /\ HaltInv => StoppedRunsNothing
  BY DEF HaltInv
<1>2. Inv /\ HaltInv /\ [Next]_vars => Inv' /\ HaltInv'
  BY NextKeeps, HaltsKept DEF Inv
<1>3. Spec => [](Inv /\ HaltInv)
  BY InitInv, InitHalts, <1>2, PTL DEF Spec
<1> QED BY <1>1, <1>3, PTL

-----------------------------------------------------------------------------
(* The tree.                                                               *)

\* A set of naturals has a least one: what the inductions over ids rest on.
LEMMA LeastNat ==
    ASSUME NEW T, T \subseteq Nat, T # {}
    PROVE  \E x \in T : \A y \in T : x <= y
<1> DEFINE R == {ss \in Nat \X Nat : ss[1] < ss[2]}
<1>1. IsWellFoundedOn(R, Nat)
  BY NatLessThanWellFounded DEF OpToRel
<1>2. PICK x \in T : \A y \in T : ~(<<y, x>> \in R)
  BY <1>1, WFMin
<1>3. \A y \in T : ~(y < x)
  BY <1>2
<1> QED BY <1>3

\* What the recursion of Up asks of a function.
UpMap(f) == f = [c \in 0..MaxConvs |-> IF c = 0 THEN {} ELSE {c} \cup f[parent[c]]]

\* Up is the function its recursion asks for: such a function exists, as the
\* least set above a conversation that has its parents.
LEMMA UpUnfolds ==
  ASSUME parent \in [Convs -> 0..MaxConvs]
  PROVE  \A c \in 0..MaxConvs : Up[c] = IF c = 0 THEN {} ELSE {c} \cup Up[parent[c]]
<1> DEFINE S0 == 0..MaxConvs
           Closed(s) == \A x \in s : x \in Convs => parent[x] \in s
           f == [c \in S0 |-> {d \in Convs : \A s \in SUBSET S0 : c \in s /\ Closed(s) => d \in s}]
<1>0. Convs \subseteq S0 /\ 0 \in S0 /\ 0 \notin Convs /\ \A c \in S0 : c # 0 => c \in Convs
  BY AgentTreeAssumption DEF Convs
<1>1. ASSUME NEW c \in S0
      PROVE  f[c] = IF c = 0 THEN {} ELSE {c} \cup f[parent[c]]
  <2> HIDE DEF S0
  <2>1. CASE c = 0
    <3>1. {0} \in SUBSET S0 /\ Closed({0})
      BY <1>0
    <3> QED BY <2>1, <3>1, <1>0
  <2>2. CASE c # 0
    <3> DEFINE p == parent[c]
               s1 == {c} \cup {0} \cup f[p] \cup {p}
    <3>1. c \in Convs /\ p \in S0
      BY <1>0, <2>2 DEF S0
    <3>2. \A d \in f[p] : d \in f[c]
      BY <3>1
    <3>3. c \in f[c]
      BY <3>1
    <3>4. \A d \in f[p] : parent[d] \in f[p] \cup {0}
      <4> SUFFICES ASSUME NEW d \in f[p], parent[d] # 0
                   PROVE  parent[d] \in f[p]
        OBVIOUS
      <4>1. parent[d] \in Convs
        BY <1>0, <3>1 DEF S0
      <4> QED BY <3>1, <4>1
    <3>5. p # 0 => p \in f[p]
      BY <1>0, <3>1
    <3>6. s1 \in SUBSET S0 /\ Closed(s1) /\ c \in s1
      BY <1>0, <3>1, <3>4, <3>5
    <3>7. \A d \in f[c] : d \in s1 /\ d # 0
      BY <1>0, <3>1, <3>6
    <3>8. \A d \in f[c] : d \in {c} \cup f[p]
      BY <3>5, <3>7
    <3> HIDE DEF f
    <3> QED BY <2>2, <3>2, <3>3, <3>8
  <2> QED BY <2>1, <2>2
<1>2. UpMap(f)
  BY <1>1 DEF UpMap
<1>3. UpMap(Up)
  <2>1. Up = CHOOSE g : UpMap(g)
    BY DEF Up, UpMap
  <2> QED BY <1>2, <2>1
<1> QED BY <1>3 DEF UpMap

Typed == parent \in [Convs -> 0..MaxConvs]
Unfolds == Typed => \A c \in 0..MaxConvs : Up[c] = IF c = 0 THEN {} ELSE {c} \cup Up[parent[c]]

\* That says something of every step, once it is a formula without hypotheses.
LEMMA UpNow == Unfolds
  BY UpUnfolds DEF Unfolds, Typed

\* The same of the next state.
LEMMA UpNext == Unfolds'
<1>1. Unfolds
  BY UpNow
<1> QED BY <1>1, PTL

\* Made, though it may be deleted since.
Present(c) == c \in Convs /\ state[c] # "absent"

\* An agent's parent is there, and came before it.
ParentsBelow == \A c \in Convs : Present(c) =>
    parent[c] = 0 \/ (Present(parent[c]) /\ parent[c] < c)

\* A step that gives no conversation another parent leaves what is above it.
LEMMA UpKept ==
    ASSUME Typed, Typed', ParentsBelow, \A c \in Convs : Present(c) => parent'[c] = parent[c]
    PROVE  \A c \in Convs : Present(c) => Up'[c] = Up[c]
<1> DEFINE T == {c \in Convs : Present(c) /\ Up'[c] # Up[c]}
<1>1. Convs \subseteq Nat /\ Convs \subseteq 0..MaxConvs /\ 0 \in 0..MaxConvs /\ 0 \notin Convs
  BY AgentTreeAssumption DEF Convs
<1> SUFFICES ASSUME T # {} PROVE FALSE
  OBVIOUS
<1>2. PICK c \in T : \A d \in T : c <= d
  BY <1>1, LeastNat
<1>3. Up[c] = {c} \cup Up[parent[c]] /\ Up'[c] = {c} \cup Up'[parent[c]]
  BY <1>1, <1>2, UpNow, UpNext DEF Unfolds
<1>4. Up[0] = {} /\ Up'[0] = {}
  BY <1>1, UpNow, UpNext DEF Unfolds
<1>5. parent[c] # 0 /\ Present(parent[c]) /\ parent[c] < c
  BY <1>2, <1>3, <1>4 DEF ParentsBelow
<1>6. parent[c] \in T
  BY <1>2, <1>3, <1>5 DEF Present
<1>7. c <= parent[c]
  BY <1>2, <1>6
<1>8. c \in Nat /\ parent[c] \in Nat
  BY <1>1, <1>2, <1>5 DEF Present
<1> HIDE DEF T
<1> QED BY <1>5, <1>7, <1>8

\* What is above a conversation is there.
LEMMA UpPresent ==
    ASSUME Typed, ParentsBelow
    PROVE  \A c \in Convs : Present(c) => \A d \in Up[c] : Present(d)
<1> DEFINE T == {c \in Convs : Present(c) /\ \E d \in Up[c] : ~Present(d)}
<1>1. Convs \subseteq Nat /\ Convs \subseteq 0..MaxConvs /\ 0 \in 0..MaxConvs /\ 0 \notin Convs
  BY AgentTreeAssumption DEF Convs
<1> SUFFICES ASSUME T # {} PROVE FALSE
  OBVIOUS
<1>2. PICK c \in T : \A d \in T : c <= d
  BY <1>1, LeastNat
<1>3. Up[c] = {c} \cup Up[parent[c]] /\ Up[0] = {}
  BY <1>1, <1>2, UpNow DEF Unfolds
<1>4. parent[c] # 0 /\ Present(parent[c]) /\ parent[c] < c
  BY <1>2, <1>3 DEF ParentsBelow
<1>5. parent[c] \in T
  BY <1>2, <1>3, <1>4 DEF Present
<1>7. c <= parent[c]
  BY <1>2, <1>5
<1>8. c \in Nat /\ parent[c] \in Nat
  BY <1>1, <1>2, <1>4 DEF Present
<1> HIDE DEF T
<1> QED BY <1>4, <1>7, <1>8

\* A conversation has one root.
LEMMA OneRoot ==
    ASSUME Typed, ParentsBelow
    PROVE  \A c \in Convs : Present(c) =>
              /\ \E r \in Up[c] : parent[r] = 0
              /\ \A r, s \in Up[c] : parent[r] = 0 /\ parent[s] = 0 => r = s
<1> DEFINE Good(c) == /\ \E r \in Up[c] : parent[r] = 0
                      /\ \A r, s \in Up[c] : parent[r] = 0 /\ parent[s] = 0 => r = s
           T == {c \in Convs : Present(c) /\ ~Good(c)}
<1>1. Convs \subseteq Nat /\ Convs \subseteq 0..MaxConvs /\ 0 \in 0..MaxConvs /\ 0 \notin Convs
  BY AgentTreeAssumption DEF Convs
<1> SUFFICES ASSUME T # {} PROVE FALSE
  OBVIOUS
<1>2. PICK c \in T : \A d \in T : c <= d
  BY <1>1, LeastNat
<1>3. Up[c] = {c} \cup Up[parent[c]] /\ Up[0] = {}
  BY <1>1, <1>2, UpNow DEF Unfolds
<1>4. parent[c] # 0 /\ Present(parent[c]) /\ parent[c] < c
  BY <1>2, <1>3 DEF ParentsBelow
<1>5. ~Good(parent[c])
  BY <1>2, <1>3, <1>4
<1>6. parent[c] \in T
  BY <1>4, <1>5 DEF Present
<1>7. c <= parent[c]
  BY <1>2, <1>6
<1>8. c \in Nat /\ parent[c] \in Nat
  BY <1>1, <1>2, <1>4 DEF Present
<1> HIDE DEF T
<1> QED BY <1>4, <1>7, <1>8

\* An agent is in every subtree its parent is in.
LEMMA Under ==
    ASSUME Typed, NEW c \in Convs, NEW d \in Convs, parent[d] = c
    PROVE  Up[d] = {d} \cup Up[c] /\ c \in Up[c] /\ d \in Up[d]
<1>1. Convs \subseteq 0..MaxConvs /\ 0 \notin Convs
  BY AgentTreeAssumption DEF Convs
<1> QED BY <1>1, UpNow DEF Unfolds

-----------------------------------------------------------------------------
(* Steps that make, stop, mark and remove nothing, and read no subtree.    *)

Elsewhere(pc) == pc \notin {"idle", "done", "link", "root", "subtree", "halt", "rows"}

\* Where such a step leaves its task.
MildTask(t) ==
    /\ Others(t) /\ tx[t].pc # "link"
    /\ \/ tx'[t] = Over
       \/ /\ Elsewhere(tx'[t].pc)
          /\ \/ Busy(tx[t]) /\ tx'[t].on = tx[t].on /\ tx'[t].tree = tx[t].tree
             \/ ~Busy(tx[t]) /\ tx'[t].on \in Live /\ tx'[t].tree = {}

\* What it leaves of the tree: nobody is stopped, and what is marked stays so
\* without an outage.
MildState(t) ==
    /\ parent' = parent /\ cut' = cut
    /\ \A c \in Convs : state'[c] # state[c] =>
          state[c] \notin {"absent", "deleted"} /\ state'[c] \notin {"absent", "starting", "stopped", "deleted"}
    /\ deleting' \subseteq deleting
    /\ faults' = 0 => deleting' = deleting /\ faults = 0
    /\ held' = held \/ held' = [held EXCEPT ![t] = {}]

Mild(t) == MildTask(t) /\ MildState(t)

\* A task that goes on or is over keeps its conversation and its subtree.
LEMMA MildGo ==
    ASSUME TxOK, NEW t \in Tasks, Busy(tx[t]), tx[t].pc # "link",
           \/ End(t) \/ tx' = [tx EXCEPT ![t] = Over]
           \/ \E pc : Elsewhere(pc) /\ Go(t, pc)
           \/ \E pc, rest : Elsewhere(pc) /\ GoLock(t, pc, rest)
    PROVE  MildTask(t)
<1>1. PICK Old : tx \in [Tasks -> Record(Old)]
  BY DEF TxOK
<1>2. CASE End(t) \/ tx' = [tx EXCEPT ![t] = Over]
  BY <1>1, <1>2 DEF End, MildTask, Others
<1>3. ASSUME NEW pc, Elsewhere(pc), Go(t, pc)
      PROVE  MildTask(t)
  <2>1. Others(t) /\ tx'[t].pc = pc /\ tx'[t].on = tx[t].on /\ tx'[t].tree = tx[t].tree
    BY <1>1, <1>3 DEF Go, Others, Record
  <2> QED BY <1>3, <2>1 DEF MildTask
<1>4. ASSUME NEW pc, NEW rest, Elsewhere(pc), GoLock(t, pc, rest)
      PROVE  MildTask(t)
  <2>1. Went(t, pc)
    BY <1>4, GoesOn
  <2>2. tx'[t] = [tx[t] EXCEPT !.pc = pc, !.rest = rest]
    BY <1>1, <1>4 DEF GoLock
  <2>3. tx'[t].tree = tx[t].tree
    BY <1>1, <2>2 DEF Record
  <2> QED BY <1>4, <2>1, <2>3 DEF MildTask, Went
<1> QED BY <1>2, <1>3, <1>4

\* A start's done step ends it, or makes the agent active or failed.
LEMMA StartMild ==
    ASSUME Inv, NEW t \in Tasks, complete_start(t) \/ fail_start(t) \/ StartFault(t)
    PROVE  Mild(t)
<1>1. TxOK /\ TreeOK
  BY DEF Inv
<1>2. MildTask(t)
  <2>1. tx[t].pc \in {"complete", "fail"}
    BY DEF complete_start, fail_start, StartFault, Locked
  <2>2. End(t) \/ \E rest : GoLock(t, "fail", rest)
    BY DEF complete_start, fail_start, StartFault
  <2> QED BY <1>1, <2>1, <2>2, MildGo DEF Busy, Elsewhere
<1>3. CASE complete_start(t)
  <2>1. held' = [held EXCEPT ![t] = {}] /\ UNCHANGED <<parent, cut, deleting, faults>>
    BY <1>3 DEF complete_start, End, Release, histVars
  <2>2. \A c \in Convs : state'[c] # state[c] => state[c] = "starting" /\ state'[c] = "active"
    BY <1>1, <1>3 DEF complete_start, StillStarting, TreeOK
  <2> QED BY <1>2, <2>1, <2>2 DEF Mild, MildState
<1>4. CASE fail_start(t)
  <2>1. held' = [held EXCEPT ![t] = {}] /\ UNCHANGED <<parent, cut, deleting, faults>>
    BY <1>4 DEF fail_start, End, Release, histVars
  <2>2. \A c \in Convs : state'[c] # state[c] => state[c] = "starting" /\ state'[c] = "failed"
    BY <1>1, <1>4 DEF fail_start, StillStarting, TreeOK
  <2> QED BY <1>2, <2>1, <2>2 DEF Mild, MildState
<1>5. CASE StartFault(t)
  BY <1>1, <1>2, <1>5 DEF StartFault, End, Release, dbVars, histVars, Mild, MildState, TreeOK
<1> QED BY <1>3, <1>4, <1>5

\* A finish ends an active agent.
LEMMA FinishMild ==
    ASSUME Inv, NEW t \in Tasks, Finish(t)
    PROVE  Mild(t)
<1>1. TxOK /\ TreeOK
  BY DEF Inv
<1>2. MildTask(t)
  <2>1. CASE finish(t)
    <3>1. PICK c \in Live :
             tx' = [tx EXCEPT ![t] = [NoTask EXCEPT !.op = "finish", !.pc = "finish", !.on = c, !.rest = BothShared(c)]]
      BY <2>1 DEF finish
    <3>2. Others(t) /\ tx'[t].pc = "finish" /\ tx'[t].on = c /\ tx'[t].tree = {}
      BY <1>1, <3>1 DEF TxOK, NoTask, Others
    <3> QED BY <2>1, <3>2 DEF finish, MildTask, Busy, Elsewhere
  <2>2. CASE ~finish(t)
    <3>1. tx[t].pc \in {"finish", "running", "unread", "report", "after"}
      BY <2>2 DEF Finish, FinishUpdate, FinishRunning, FinishUnread, FinishCommit, report_after_finish, Locked
    <3>2. \/ End(t) \/ Go(t, "running") \/ Go(t, "unread") \/ Go(t, "report")
          \/ GoLock(t, "after", BothShared(tx[t].on))
      BY <2>2 DEF Finish, FinishUpdate, FinishRunning, FinishUnread, FinishCommit, report_after_finish
    <3> QED BY <1>1, <3>1, <3>2, MildGo DEF Busy, Elsewhere
  <2> QED BY <2>1, <2>2
<1>3. CASE finish(t) \/ FinishUpdate(t)
  BY <1>2, <1>3 DEF finish, FinishUpdate, End, Release, dbVars, lockVars, histVars, Mild, MildState
<1>4. CASE FinishRunning(t) \/ FinishUnread(t)
  BY <1>2, <1>4 DEF FinishRunning, FinishUnread, End, Release, dbVars, lockVars, histVars, Mild, MildState
<1>5. CASE FinishCommit(t)
  <2>1. held' = [held EXCEPT ![t] = {}] /\ UNCHANGED <<parent, cut, deleting, faults>>
    BY <1>5 DEF FinishCommit, End, Release
  <2>2. \A c \in Convs : state'[c] # state[c] => state[c] = "active" /\ state'[c] = "finished"
    BY <1>1, <1>5 DEF FinishCommit, TreeOK, Inv, FinishHolds, Finishing
  <2> QED BY <1>2, <2>1, <2>2 DEF Mild, MildState
<1>6. CASE report_after_finish(t)
  BY <1>2, <1>6 DEF report_after_finish, End, Release, Mild, MildState
<1> QED BY <1>3, <1>4, <1>5, <1>6 DEF Finish

\* A message brings a finished recipient back.
LEMMA MessageMild ==
    ASSUME Inv, NEW t \in Tasks, Message(t)
    PROVE  Mild(t)
<1>1. TxOK /\ TreeOK
  BY DEF Inv
<1>2. MildTask(t)
  <2>1. CASE message_agent(t)
    <3>1. PICK by \in Live, to \in Live :
             tx' = [tx EXCEPT ![t] = [NoTask EXCEPT !.op = "message", !.pc = "recipient", !.by = by, !.on = to,
                                                    !.rest = {<<by, "share">>, <<to, "share">>}]]
      BY <2>1 DEF message_agent
    <3>2. Others(t) /\ tx'[t].pc = "recipient" /\ tx'[t].on = to /\ tx'[t].tree = {}
      BY <1>1, <3>1 DEF TxOK, NoTask, Others
    <3> QED BY <2>1, <3>2 DEF message_agent, MildTask, Busy, Elsewhere
  <2>2. CASE ~message_agent(t)
    <3>1. tx[t].pc \in {"recipient", "check", "send"}
      BY <2>2 DEF Message, MessageRow, MessageCheck, MessageSend, Locked
    <3>2. End(t) \/ Go(t, "check") \/ Go(t, "send")
      BY <2>2 DEF Message, MessageRow, MessageCheck, MessageSend
    <3> QED BY <1>1, <3>1, <3>2, MildGo DEF Busy, Elsewhere
  <2> QED BY <2>1, <2>2
<1>3. CASE message_agent(t) \/ MessageRow(t) \/ MessageCheck(t)
  BY <1>2, <1>3 DEF message_agent, MessageRow, MessageCheck, End, Release, dbVars, lockVars, histVars, Mild, MildState
<1>4. CASE MessageSend(t)
  <2>1. held' = [held EXCEPT ![t] = {}] /\ UNCHANGED <<parent, cut, deleting, faults>>
    BY <1>4 DEF MessageSend, End, Release
  <2>2. \A c \in Convs : state'[c] # state[c] => state[c] = "finished" /\ state'[c] = "active"
    BY <1>1, <1>4 DEF MessageSend, TreeOK
  <2> QED BY <1>2, <2>1, <2>2 DEF Mild, MildState
<1> QED BY <1>3, <1>4 DEF Message

\* A send brings an agent back.
LEMMA TurnMild ==
    ASSUME Inv, NEW t \in Tasks, Turn(t)
    PROVE  Mild(t)
<1>1. TxOK /\ TreeOK
  BY DEF Inv
<1>2. MildTask(t)
  <2>1. CASE start_turn(t) \/ wake_conversation(t)
    <3>1. PICK op \in {"send", "wake"}, c \in Live, pc \in {"count", "revive"} : BeginTurn(t, op, c, pc)
      BY <2>1 DEF start_turn, wake_conversation, admits_notices
    <3>2. Others(t) /\ tx'[t].pc = pc /\ tx'[t].on = c /\ tx'[t].tree = {} /\ tx[t].pc = "idle"
      BY <1>1, <3>1 DEF BeginTurn, TxOK, NoTask, Others
    <3> QED BY <3>2 DEF MildTask, Busy, Elsewhere
  <2>2. CASE ~(start_turn(t) \/ wake_conversation(t))
    <3>1. tx[t].pc \in {"revive", "count", "counted", "turn", "run"}
      BY <2>2 DEF Turn, Reactivate, CountUser, confirm_user_turn, resume_finished, start_unless_paused, TurnEnds
    <3>2. End(t) \/ Go(t, "count") \/ Go(t, "counted") \/ Go(t, "turn") \/ Go(t, "run")
      BY <2>2 DEF Turn, Reactivate, CountUser, confirm_user_turn, resume_finished, start_unless_paused, TurnEnds
    <3> QED BY <1>1, <3>1, <3>2, MildGo DEF Busy, Elsewhere
  <2> QED BY <2>1, <2>2
<1>3. CASE start_turn(t) \/ CountUser(t) \/ confirm_user_turn(t)
  BY <1>2, <1>3 DEF start_turn, BeginTurn, CountUser, confirm_user_turn, End, Release, dbVars, lockVars, histVars,
                    Mild, MildState
<1>4. CASE wake_conversation(t) \/ start_unless_paused(t) \/ TurnEnds(t)
  BY <1>2, <1>4 DEF wake_conversation, BeginTurn, start_unless_paused, TurnEnds, End, Release, dbVars, lockVars,
                    histVars, Mild, MildState
<1>5. CASE Reactivate(t) \/ resume_finished(t)
  <2>1. (held' = held \/ held' = [held EXCEPT ![t] = {}]) /\ UNCHANGED <<parent, cut, deleting, faults>>
    BY <1>5 DEF Reactivate, resume_finished, End, Release, lockVars
  <2>2. \A c \in Convs : state'[c] # state[c] => state[c] \in {"finished", "stopped"} /\ state'[c] = "active"
    BY <1>1, <1>5 DEF Reactivate, resume_finished, TreeOK
  <2> QED BY <1>2, <2>1, <2>2 DEF Mild, MildState
<1> QED BY <1>3, <1>4, <1>5 DEF Turn

\* A delete that fails, and one that undoes its mark after an outage.
LEMMA FaultMild ==
    ASSUME Inv, NEW t \in Tasks, DeleteFault(t) \/ unmark_subtree_deleting(t)
    PROVE  Mild(t)
<1>1. TxOK /\ TreeOK
  BY DEF Inv
<1>2. MildTask(t)
  <2>1. tx[t].pc \in {"rows", "unmark"}
    BY DEF DeleteFault, unmark_subtree_deleting, Locked
  <2>2. End(t) \/ tx' = [tx EXCEPT ![t] = Over] \/ \E rest : GoLock(t, "unmark", rest)
    BY DEF DeleteFault, unmark_subtree_deleting
  <2> QED BY <1>1, <2>1, <2>2, MildGo DEF Busy, Elsewhere
<1>3. CASE DeleteFault(t)
  BY <1>1, <1>2, <1>3 DEF DeleteFault, Release, dbVars, histVars, Mild, MildState, TreeOK
<1>4. CASE unmark_subtree_deleting(t)
  <2> DEFINE back == {w \in tx[t].was : state[w[1]] = "stopped"}
             ids  == {w[1] : w \in back}
             old(c) == (CHOOSE w \in back : w[1] = c)[2]
  <2>1. state' = [c \in Convs |-> IF c \in ids THEN old(c) ELSE state[c]]
    BY <1>4 DEF unmark_subtree_deleting
  <2>2. PICK Old : tx \in [Tasks -> Record(Old)]
    BY <1>1 DEF TxOK
  <2>3. tx[t].was \subseteq Convs \X {"active", "finished"}
    BY <2>2 DEF Record
  <2>4. \A c \in ids : state[c] = "stopped" /\ old(c) \in {"active", "finished"}
    <3> SUFFICES ASSUME NEW c \in ids
                 PROVE  state[c] = "stopped" /\ old(c) \in {"active", "finished"}
      OBVIOUS
    <3> DEFINE w == CHOOSE w \in back : w[1] = c
    <3>1. w \in back /\ w[1] = c
      OBVIOUS
    <3> QED BY <2>3, <3>1
  <2>5. /\ held' = [held EXCEPT ![t] = {}] /\ UNCHANGED <<parent, cut, faults>>
        /\ deleting' \subseteq deleting /\ faults # 0
    BY <1>4 DEF unmark_subtree_deleting, Locked, End, Release, Inv, NoUnmark
  <2> HIDE DEF back, ids, old
  <2> QED BY <1>2, <2>1, <2>4, <2>5 DEF Mild, MildState
<1> QED BY <1>3, <1>4

-----------------------------------------------------------------------------
(* The tree invariant: ids are given in order, a task is about a           *)
(* conversation that is or was there, and what it has read of a subtree is *)
(* under it.                                                               *)

UnusedAbove  == \A c \in Unused : \A d \in Convs : c <= d => d \in Unused
TasksPresent == \A t \in Tasks :
    /\ Busy(tx[t]) /\ tx[t].pc # "link" => Present(tx[t].on)
    /\ ~Busy(tx[t]) => tx[t].on \notin Convs /\ tx[t].rest = {}
    /\ tx[t].pc = "link" => Present(tx[t].by) /\ tx[t].by < tx[t].on
TreesUnder == \A t \in Tasks : \A d \in tx[t].tree : Present(d) /\ tx[t].on \in Up[d]

TreeInv == ParentsBelow /\ UnusedAbove /\ TasksPresent /\ TreesUnder

\* What every step leaves of the tree and of the other tasks.
TreeFrame(t) ==
    /\ \A c \in Convs : Present(c) => /\ state'[c] # "absent" /\ parent'[c] = parent[c]
                                      /\ state[c] = "deleted" => state'[c] = "deleted"
    /\ \A u \in Tasks \ {t} : tx'[u] = tx[u] \/ (tx'[u] = Over /\ tx[u].pc # "link")

\* Where a step that makes no agent leaves its own task.
OwnTree(t) ==
    \/ tx'[t] = Over /\ tx[t].pc # "link"
    \/ /\ ~Busy(tx[t]) /\ tx'[t].pc = "link" /\ tx'[t].tree = {}
       /\ tx'[t].by \in Live /\ tx'[t].on \in Unused /\ \A d \in Unused : tx'[t].on <= d
    \/ /\ Busy(tx[t]) /\ Busy(tx'[t]) /\ tx'[t].on = tx[t].on
       /\ \/ tx[t].pc # "link" /\ tx'[t].pc # "link"
          \/ tx[t].pc = "link" /\ tx'[t].pc = "link" /\ tx'[t].by = tx[t].by
       /\ \A d \in tx'[t].tree : d \in tx[t].tree \/ (Present(d) /\ tx[t].on \in Up[d])
    \/ /\ ~Busy(tx[t]) /\ Busy(tx'[t]) /\ tx'[t].pc # "link" /\ Present(tx'[t].on)
       /\ \A d \in tx'[t].tree : Present(d) /\ tx'[t].on \in Up[d]

\* What a subtree read has is there, and under its conversation.
LEMMA ReadUnder ==
    ASSUME Typed, NEW c \in Convs, Present(c)
    PROVE  \A d \in subtree_ids(c) : Present(d) /\ c \in Up[d]
<1>1. Convs \subseteq 0..MaxConvs /\ 0 \notin Convs
  BY AgentTreeAssumption DEF Convs
<1>2. c \in Up[c]
  BY <1>1, UpNow DEF Unfolds
<1> QED BY <1>2 DEF subtree_ids, Live, Present

\* A step that makes no agent keeps the tree invariant.
LEMMA TreeKeeps ==
    ASSUME Inv, TreeInv, NEW t \in Tasks, TreeFrame(t), OwnTree(t), Typed',
           \A c \in Convs : state[c] = "absent" => state'[c] = "absent" /\ parent'[c] = parent[c]
    PROVE  TreeInv' /\ \A c \in Convs : Present(c) => Up'[c] = Up[c]
<1>1. Typed /\ Convs \subseteq 0..MaxConvs /\ Convs \subseteq Nat
  BY DEF Inv, TreeOK, Typed, Convs
<1>2. \A c : Present(c)' <=> Present(c)
  BY DEF TreeFrame, Present
<1>3. \A c \in Convs : Present(c) => Up'[c] = Up[c]
  BY <1>1, UpKept DEF TreeInv, TreeFrame
<1>4. ParentsBelow'
  BY <1>2 DEF TreeInv, ParentsBelow, TreeFrame
<1>5. Over.pc = "done" /\ Over.on \notin Convs /\ Over.tree = {} /\ Over.rest = {} /\ ~Busy(Over)
  BY DEF Over, NoTask, Busy, Convs
<1>6. \A u \in Tasks : tx'[u] # tx[u] /\ u # t => tx'[u] = Over /\ tx[u].pc # "link"
  BY DEF TreeFrame
<1>7. TasksPresent'
  <2> SUFFICES ASSUME NEW u \in Tasks
               PROVE  /\ Busy(tx'[u]) /\ tx'[u].pc # "link" => Present(tx'[u].on)
                      /\ ~Busy(tx'[u]) => tx'[u].on \notin Convs /\ tx'[u].rest = {}
                      /\ tx'[u].pc = "link" => Present(tx'[u].by) /\ tx'[u].by < tx'[u].on
    BY <1>2 DEF TasksPresent, Busy, Present
  <2>1. CASE tx'[u] = Over
    BY <1>5, <2>1 DEF Busy
  <2>2. CASE tx'[u] = tx[u]
    BY <2>2 DEF TreeInv, TasksPresent
  <2>3. CASE u = t /\ tx'[t] # Over
    <3>1. CASE tx'[t].pc = "link" /\ tx'[t].by \in Live /\ tx'[t].on \in Unused
      <4>1. Present(tx'[t].by) /\ tx'[t].by \notin Unused
        BY <3>1 DEF Live, Present, Unused
      <4>2. ~(tx'[t].on <= tx'[t].by)
        BY <3>1, <4>1 DEF TreeInv, UnusedAbove, Present
      <4>3. tx'[t].by \in Nat /\ tx'[t].on \in Nat
        BY <1>1, <3>1, <4>1 DEF Present, Unused
      <4>4. tx'[t].by < tx'[t].on
        BY <4>2, <4>3
      <4> QED BY <2>3, <3>1, <4>1, <4>4 DEF Busy
    <3>2. CASE Busy(tx[t]) /\ Busy(tx'[t]) /\ tx'[t].on = tx[t].on /\ tx[t].pc # "link" /\ tx'[t].pc # "link"
      BY <2>3, <3>2 DEF TreeInv, TasksPresent
    <3>3. CASE tx'[t].on = tx[t].on /\ tx[t].pc = "link" /\ tx'[t].pc = "link" /\ tx'[t].by = tx[t].by
      BY <2>3, <3>3 DEF TreeInv, TasksPresent, Busy
    <3>4. CASE Busy(tx'[t]) /\ tx'[t].pc # "link" /\ Present(tx'[t].on)
      BY <2>3, <3>4
    <3> QED BY <2>3, <3>1, <3>2, <3>3, <3>4 DEF OwnTree
  <2> QED BY <1>6, <2>1, <2>2, <2>3
<1>8. TreesUnder'
  <2> SUFFICES ASSUME NEW u \in Tasks, NEW d \in tx'[u].tree
               PROVE  Present(d) /\ tx'[u].on \in Up'[d]
    BY <1>2 DEF TreesUnder
  <2>1. Present(d) /\ tx'[u].on \in Up[d]
    <3>1. CASE tx'[u] = tx[u]
      BY <3>1 DEF TreeInv, TreesUnder
    <3>2. CASE tx'[u] # tx[u] /\ u = t
      BY <1>5, <3>2 DEF OwnTree, TreeInv, TreesUnder
    <3> QED BY <1>5, <1>6, <3>1, <3>2
  <2>2. d \in Convs
    BY <2>1 DEF Present
  <2> QED BY <1>3, <2>1, <2>2
<1>9. UnusedAbove'
  <2> DEFINE new == {c \in Convs : tx'[t].pc = "link" /\ tx[t].pc # "link" /\ tx'[t].on = c}
  <2>1. \A c \in Convs : c \in Unused' <=> c \in Unused /\ c \notin new
    <3> SUFFICES ASSUME NEW c \in Convs, ~Present(c)
                 PROVE  (\A u \in Tasks : tx'[u].on # c) <=> (\A u \in Tasks : tx[u].on # c) /\ c \notin new
      BY <1>2 DEF Unused, Present
    <3>1. \A u \in Tasks : tx'[u] # tx[u] /\ u # t => tx'[u].on # c /\ tx[u].on # c
      BY <1>5, <1>6 DEF TreeInv, TasksPresent, Busy
    <3>2. CASE tx'[t] = Over /\ tx[t].pc # "link"
      BY <1>5, <3>1, <3>2 DEF TreeInv, TasksPresent
    <3>3. CASE ~Busy(tx[t]) /\ tx'[t].pc = "link"
      BY <3>1, <3>3 DEF TreeInv, TasksPresent, Busy
    <3>4. CASE tx'[t].on = tx[t].on /\ (tx[t].pc = "link" <=> tx'[t].pc = "link")
      BY <3>1, <3>4
    <3>5. CASE ~Busy(tx[t]) /\ tx'[t].pc # "link" /\ Present(tx'[t].on)
      BY <3>1, <3>5 DEF TreeInv, TasksPresent
    <3> QED BY <3>2, <3>3, <3>4, <3>5 DEF OwnTree
  <2>2. \A c \in new : \A d \in Unused : c <= d
    BY <1>5 DEF OwnTree, Busy
  <2>3. SUFFICES ASSUME NEW c \in Unused', NEW d \in Convs, c <= d
                 PROVE  d \in Unused'
    BY DEF UnusedAbove
  <2>4. c \in Convs /\ c \in Unused /\ c \notin new /\ d \in Unused
    BY <2>1, <2>3 DEF Unused, TreeInv, UnusedAbove
  <2>5. d \notin new
    <3> SUFFICES ASSUME d \in new PROVE FALSE
      OBVIOUS
    <3>1. d <= c /\ c \in Nat /\ d \in Nat
      BY <1>1, <2>2, <2>4
    <3>2. c = d
      BY <2>3, <3>1
    <3> QED BY <2>4, <3>2
  <2> QED BY <2>1, <2>4, <2>5
<1> QED BY <1>3, <1>4, <1>7, <1>8, <1>9 DEF TreeInv

\* The commit of a create puts the agent under its caller.
LEMMA CreateTree ==
    ASSUME Inv, TreeInv, NEW t \in Tasks, CreateCommit(t), Typed'
    PROVE  TreeInv' /\ TreeFrame(t) /\ \A c \in Convs : Present(c) => Up'[c] = Up[c]
<1> DEFINE by == tx[t].by
           on == tx[t].on
<1>1. Typed /\ Convs \subseteq 0..MaxConvs /\ Convs \subseteq Nat
  BY DEF Inv, TreeOK, Typed, Convs
<1>2. PICK Old : tx \in [Tasks -> Record(Old)]
  BY DEF Inv, TxOK
<1>3. /\ on \in Convs /\ state[on] = "absent" /\ Present(by) /\ by < on /\ tx[t].pc = "link"
      /\ parent' = [parent EXCEPT ![on] = by] /\ state' = [state EXCEPT ![on] = "starting"]
  BY DEF CreateCommit, Inv, TxOK, Busy, LinkAbsent, TreeInv, TasksPresent
<1>4. Others(t) /\ tx'[t].pc \in {"complete", "fail"} /\ tx'[t].on = on /\ tx'[t].tree = tx[t].tree
  <2>1. PICK pc, rest : pc \in {"complete", "fail"} /\ GoLock(t, pc, rest)
    BY DEF CreateCommit, run_start
  <2>2. Went(t, pc)
    BY <2>1, GoesOn DEF Inv
  <2>3. tx'[t] = [tx[t] EXCEPT !.pc = pc, !.rest = rest]
    BY <1>2, <2>1 DEF GoLock
  <2>4. tx'[t].tree = tx[t].tree
    BY <1>2, <2>3 DEF Record
  <2> QED BY <2>1, <2>2, <2>4 DEF Went
<1>5. \A c \in Convs : Present(c)' <=> Present(c) \/ c = on
  BY <1>3 DEF Present, Inv, TreeOK
<1>6. TreeFrame(t)
  BY <1>3, <1>4 DEF TreeFrame, Present, Others, Inv, TreeOK, Typed
<1>7. \A c \in Convs : Present(c) => Up'[c] = Up[c]
  BY <1>1, <1>6, UpKept DEF TreeInv, TreeFrame
<1>8. ParentsBelow'
  <2> SUFFICES ASSUME NEW c \in Convs, Present(c)'
               PROVE  parent'[c] = 0 \/ (Present(parent[c])' /\ parent'[c] < c)
    BY DEF ParentsBelow
  <2>1. CASE c = on
    <3>1. parent'[c] = by
      BY <1>1, <1>3, <2>1 DEF Typed
    <3> QED BY <1>3, <1>5, <2>1, <3>1 DEF Present
  <2>2. CASE c # on
    <3>1. Present(c) /\ parent'[c] = parent[c]
      BY <1>3, <1>5, <2>2 DEF Inv, TreeOK
    <3>2. parent[c] = 0 \/ (Present(parent[c]) /\ parent[c] < c)
      BY <3>1 DEF TreeInv, ParentsBelow
    <3> QED BY <1>5, <3>1, <3>2 DEF Present
  <2> QED BY <2>1, <2>2
<1>9. UnusedAbove'
  <2>1. Unused' = Unused
    <3>1. \A c : (\A u \in Tasks : tx'[u].on # c) <=> (\A u \in Tasks : tx[u].on # c)
      BY <1>4 DEF Others
    <3>2. \A c \in Convs : c # on => (state'[c] = "absent" <=> state[c] = "absent")
      BY <1>3 DEF Inv, TreeOK
    <3>3. on \notin Unused /\ on \notin Unused'
      BY <1>4 DEF Unused
    <3> QED BY <3>1, <3>2, <3>3 DEF Unused
  <2> QED BY <2>1 DEF TreeInv, UnusedAbove
<1>10. TasksPresent'
  <2> DEFINE Here(c) == c \in Convs /\ state'[c] # "absent"
  <2>1. \A c \in Convs : Here(c) <=> Present(c) \/ c = on
    BY <1>5 DEF Present
  <2>2. SUFFICES ASSUME NEW u \in Tasks
                 PROVE  /\ Busy(tx'[u]) /\ tx'[u].pc # "link" => Here(tx'[u].on)
                        /\ ~Busy(tx'[u]) => tx'[u].on \notin Convs /\ tx'[u].rest = {}
                        /\ tx'[u].pc = "link" => Here(tx'[u].by) /\ tx'[u].by < tx'[u].on
    BY DEF TasksPresent, Busy, Present
  <2>3. CASE u = t
    BY <1>3, <1>4, <2>1, <2>3 DEF Busy
  <2>4. CASE u # t
    BY <1>4, <2>1, <2>4 DEF Others, TreeInv, TasksPresent, Present
  <2> QED BY <2>2, <2>3, <2>4
<1>11. TreesUnder'
  <2> SUFFICES ASSUME NEW u \in Tasks, NEW d \in tx'[u].tree
               PROVE  Present(d)' /\ tx'[u].on \in Up'[d]
    BY DEF TreesUnder
  <2>1. tx'[u].on = tx[u].on /\ d \in tx[u].tree
    BY <1>4 DEF Others
  <2>2. Present(d) /\ tx[u].on \in Up[d]
    BY <2>1 DEF TreeInv, TreesUnder
  <2> QED BY <1>5, <1>7, <2>1, <2>2 DEF Present
<1> QED BY <1>6, <1>7, <1>8, <1>9, <1>10, <1>11 DEF TreeInv

-----------------------------------------------------------------------------
(* The locks.                                                              *)

\* No two tasks hold locks on a conversation that conflict; a create holds
\* its caller's, who may start agents still; a delete that reads has its
\* root's, or takes it next; and so has a stop or a delete every conversation
\* of the subtree it has read.
LocksApart == \A t, u \in Tasks : t # u =>
    \A h \in held[t], k \in held[u] : h[1] = k[1] => ~Conflict(h[2], k[2])
LinkHolds == \A t \in Tasks : tx[t].pc = "link" =>
    /\ <<tx[t].by, "change">> \in held[t]
    /\ tx[t].by \in Live /\ tx[t].by \notin deleting /\ state[tx[t].by] # "stopped"
RootHolds == \A t \in Tasks : tx[t].pc = "root" /\ Root(tx[t].on) \in Live =>
    <<Root(tx[t].on), "change">> \in tx[t].rest \cup held[t]
SubtreeHolds == \A t \in Tasks : tx[t].pc = "subtree" =>
    \A d \in tx[t].tree : d \in Live => <<d, "change">> \in tx[t].rest \cup held[t]

\* Every task has its set of locks.
LockInv == /\ held = [t \in Tasks |-> held[t]]
           /\ LocksApart /\ LinkHolds /\ RootHolds /\ SubtreeHolds

\* What a step of task t leaves to those that hold locks.
HeldFrame(t) ==
    /\ held' = [u \in Tasks |-> held'[u]] /\ LocksApart'
    /\ \A u \in Tasks \ {t} : held'[u] = held[u]
    /\ \A c \in Live : (\E u \in Tasks \ {t} : <<c, "change">> \in held[u]) =>
          /\ c \in Live'
          /\ state[c] # "stopped" => state'[c] # "stopped"
          /\ c \notin deleting => c \notin deleting'
\* And what it holds itself.
OwnHolds(t) ==
    /\ tx'[t].pc = "link" => /\ <<tx'[t].by, "change">> \in held'[t] /\ tx'[t].by \in Live'
                             /\ tx'[t].by \notin deleting' /\ state'[tx'[t].by] # "stopped"
    /\ tx'[t].pc = "root" /\ Root(tx'[t].on) \in Live =>
          <<Root(tx'[t].on), "change">> \in tx'[t].rest \cup held'[t]
    /\ tx'[t].pc = "subtree" =>
          \A d \in tx'[t].tree : d \in Live => <<d, "change">> \in tx'[t].rest \cup held'[t]

\* The root of a conversation stays its root.
LEMMA RootKept ==
    ASSUME Typed, Typed', TreeInv, NEW t \in Tasks, TreeFrame(t),
           \A c \in Convs : Present(c) => Up'[c] = Up[c],
           NEW c \in Convs, Present(c)
    PROVE  Root(c)' = Root(c) /\ Present(Root(c))
<1>1. /\ Root(c) \in Up[c] /\ parent[Root(c)] = 0
      /\ \A r, s \in Up[c] : parent[r] = 0 /\ parent[s] = 0 => r = s
  BY OneRoot DEF TreeInv, Root
<1>2. \A d \in Up[c] : Present(d) /\ d \in Convs
  BY UpPresent DEF TreeInv, Present
<1>3. \A d \in Up[c] : parent'[d] = parent[d]
  BY <1>2 DEF TreeFrame
<1>4. \E r \in Up'[c] : parent'[r] = 0
  BY <1>1, <1>3
<1>5. Root(c)' \in Up'[c] /\ parent'[Root(c)'] = 0
  BY <1>4 DEF Root
<1>6. Root(c)' \in Up[c] /\ parent[Root(c)'] = 0
  BY <1>3, <1>5
<1> QED BY <1>1, <1>2, <1>6

\* Such a step keeps the locks.
LEMMA LocksKeep ==
    ASSUME Typed, Typed', TreeInv, TreeInv', LockInv, NEW t \in Tasks, TreeFrame(t), HeldFrame(t), OwnHolds(t),
           \A c \in Convs : Present(c) => Up'[c] = Up[c], Present(tx'[t].on) \/ tx'[t].pc # "root",
           \A d \in tx'[t].tree : Present(d)
    PROVE  LockInv'
<1>1. \A u \in Tasks \ {t} : tx'[u] = tx[u] \/ (tx'[u].pc = "done" /\ tx'[u].on \notin Convs)
  BY DEF TreeFrame, Over, NoTask, Convs
<1>2. \A c \in Convs : Present(c) /\ c \in Live' => c \in Live
  BY DEF TreeFrame, Live, Present
<1>3. \A c \in Convs : Present(c) => Root(c)' = Root(c) /\ Present(Root(c))
  BY RootKept
<1>4. \A u \in Tasks : held'[u] = held[u] \/ u = t
  BY DEF HeldFrame
<1>5. LinkHolds'
  <2> SUFFICES ASSUME NEW u \in Tasks, tx'[u].pc = "link"
               PROVE  /\ <<tx'[u].by, "change">> \in held'[u]
                      /\ tx'[u].by \in Live' /\ tx'[u].by \notin deleting' /\ state'[tx'[u].by] # "stopped"
    BY DEF LinkHolds
  <2>1. CASE u = t
    BY <2>1 DEF OwnHolds
  <2>2. CASE u # t
    <3>1. tx'[u] = tx[u] /\ held'[u] = held[u] /\ u \in Tasks \ {t}
      BY <1>1, <1>4, <2>2
    <3>2. /\ <<tx[u].by, "change">> \in held[u]
          /\ tx[u].by \in Live /\ tx[u].by \notin deleting /\ state[tx[u].by] # "stopped"
      BY <3>1 DEF LockInv, LinkHolds
    <3> QED BY <3>1, <3>2 DEF HeldFrame
  <2> QED BY <2>1, <2>2
<1>6. RootHolds'
  <2> SUFFICES ASSUME NEW u \in Tasks, tx'[u].pc = "root", NEW c, c = tx'[u].on, Root(c)' \in Live'
               PROVE  <<Root(c)', "change">> \in tx'[u].rest \cup held'[u]
    BY DEF RootHolds
  <2>1. Present(c) /\ c \in Convs
    <3>1. CASE u = t
      BY <3>1 DEF Present
    <3>2. CASE u # t
      BY <1>1, <3>2 DEF TreeInv, TasksPresent, Busy, Present
    <3> QED BY <3>1, <3>2
  <2>2. Root(c)' = Root(c) /\ Root(c) \in Live
    BY <1>2, <1>3, <2>1 DEF Present
  <2>3. CASE u = t
    BY <2>2, <2>3 DEF OwnHolds
  <2>4. CASE u # t
    BY <1>1, <1>4, <2>2, <2>4 DEF LockInv, RootHolds
  <2> QED BY <2>3, <2>4
<1>7. SubtreeHolds'
  <2> SUFFICES ASSUME NEW u \in Tasks, tx'[u].pc = "subtree", NEW d \in tx'[u].tree, d \in Live'
               PROVE  <<d, "change">> \in tx'[u].rest \cup held'[u]
    BY DEF SubtreeHolds
  <2>1. CASE u = t
    BY <1>2, <2>1 DEF OwnHolds, Present
  <2>2. CASE u # t
    <3>1. tx'[u] = tx[u] /\ held'[u] = held[u]
      BY <1>1, <1>4, <2>2
    <3>2. Present(d)
      BY <3>1 DEF TreeInv, TreesUnder
    <3> QED BY <1>2, <3>1, <3>2 DEF LockInv, SubtreeHolds, Present
  <2> QED BY <2>1, <2>2
<1> QED BY <1>5, <1>6, <1>7 DEF LockInv, HeldFrame
\* What a step that makes no agent leaves: the tree, its task's place in it
\* and its task's locks.
Step(t) ==
    /\ TreeFrame(t) /\ OwnTree(t) /\ HeldFrame(t) /\ OwnHolds(t)
    /\ \A c \in Convs : state[c] = "absent" => state'[c] = "absent" /\ parent'[c] = parent[c]

\* A step leaves the tree and who is being deleted as they are.
Still == UNCHANGED <<parent, state, deleting, cut, faults>>

\* The mild steps.
LEMMA MildStep ==
    ASSUME Inv, TreeInv, LockInv, NEW t \in Tasks, Mild(t)
    PROVE  Step(t)
<1>1. Over.pc = "done"
  BY DEF Over, NoTask
<1>2. TreeFrame(t) /\ \A c \in Convs : state[c] = "absent" => state'[c] = "absent" /\ parent'[c] = parent[c]
  BY DEF Mild, MildTask, MildState, Others, TreeFrame, Present
<1>3. OwnTree(t)
  <2>1. Elsewhere(tx'[t].pc) => Busy(tx'[t]) /\ tx'[t].pc # "link"
    BY DEF Elsewhere, Busy
  <2> QED BY <2>1 DEF Mild, MildTask, OwnTree, Live, Present
<1>4. OwnHolds(t)
  BY <1>1 DEF Mild, MildTask, Elsewhere, OwnHolds
<1>5. HeldFrame(t)
  <2>1. \A c \in Live : c \in Live' /\ (state[c] # "stopped" => state'[c] # "stopped")
                        /\ (c \notin deleting => c \notin deleting')
    BY DEF Mild, MildState, Live
  <2>2. /\ held' = [u \in Tasks |-> held'[u]] /\ \A u \in Tasks \ {t} : held'[u] = held[u]
        /\ \A u \in Tasks : held'[u] \subseteq held[u]
    BY DEF Mild, MildState, LockInv
  <2>3. LocksApart'
    BY <2>2 DEF LocksApart, LockInv
  <2> QED BY <2>1, <2>2, <2>3 DEF HeldFrame
<1> QED BY <1>2, <1>3, <1>4, <1>5 DEF Step

\* Who holds all of a task's locks but one keeps them apart as it takes that
\* one.
LEMMA TakeApart ==
    ASSUME LockInv, NEW t \in Tasks, NEW r, Lockable(t, r[1], r[2]),
           NEW hs, hs \subseteq held[t] \cup {r}, held' = [held EXCEPT ![t] = hs]
    PROVE  /\ held' = [u \in Tasks |-> held'[u]] /\ LocksApart'
           /\ \A u \in Tasks \ {t} : held'[u] = held[u]
<1>1. /\ held' = [u \in Tasks |-> held'[u]] /\ held'[t] = hs
      /\ \A u \in Tasks \ {t} : held'[u] = held[u]
  BY DEF LockInv
<1>2. \A u \in Tasks \ {t} : \A k \in held[u], h \in hs : h[1] = k[1] => ~Conflict(h[2], k[2]) /\ ~Conflict(k[2], h[2])
  BY DEF LockInv, LocksApart, Lockable, Conflict
<1>3. LocksApart'
  <2> SUFFICES ASSUME NEW a \in Tasks, NEW b \in Tasks, a # b, NEW h \in held'[a], NEW k \in held'[b], h[1] = k[1]
               PROVE  ~Conflict(h[2], k[2])
    BY DEF LocksApart, Conflict
  <2>1. CASE a = t
    BY <1>1, <1>2, <2>1
  <2>2. CASE b = t
    BY <1>1, <1>2, <2>2
  <2>3. CASE a # t /\ b # t
    BY <1>1, <2>3 DEF LockInv, LocksApart
  <2> QED BY <2>1, <2>2, <2>3
<1> QED BY <1>1, <1>3

\* Nor do locks that are kept or given back conflict.
LEMMA KeepApart ==
    ASSUME LockInv, NEW t \in Tasks, held' = held \/ held' = [held EXCEPT ![t] = {}]
    PROVE  /\ held' = [u \in Tasks |-> held'[u]] /\ LocksApart'
           /\ \A u \in Tasks \ {t} : held'[u] = held[u]
<1>1. /\ held' = [u \in Tasks |-> held'[u]] /\ \A u \in Tasks \ {t} : held'[u] = held[u]
      /\ \A u \in Tasks : held'[u] \subseteq held[u]
  BY DEF LockInv
<1>2. LocksApart'
  BY <1>1 DEF LocksApart, LockInv
<1> QED BY <1>1, <1>2

\* lock_conversations takes what its task has to take.
LEMMA LockStep ==
    ASSUME Inv, TreeInv, LockInv, NEW t \in Tasks, lock_conversations(t)
    PROVE  Step(t) /\ Still
<1> DEFINE r == NextRow(t)
<1>1. PICK Old : tx \in [Tasks -> Record(Old)]
  BY DEF Inv, TxOK
<1>2. Still /\ Lockable(t, r[1], r[2])
      /\ held' = [held EXCEPT ![t] = IF r[1] \in Live THEN @ \cup {r} ELSE @]
      /\ tx' = [tx EXCEPT ![t] = [tx[t] EXCEPT !.rest = @ \ {r}]]
  BY <1>1 DEF lock_conversations, dbVars, histVars, Still
<1> HIDE DEF r
<1>3. Others(t) /\ tx'[t] = [tx[t] EXCEPT !.rest = @ \ {r}]
  BY <1>1, <1>2 DEF Others
<1>4. /\ tx'[t].pc = tx[t].pc /\ tx'[t].on = tx[t].on /\ tx'[t].by = tx[t].by /\ tx'[t].tree = tx[t].tree
      /\ tx'[t].rest = tx[t].rest \ {r}
  BY <1>1, <1>3 DEF Record
<1>5. Busy(tx[t])
  BY DEF lock_conversations, Locking, TreeInv, TasksPresent
<1>6. held'[t] = IF r[1] \in Live THEN held[t] \cup {r} ELSE held[t]
  BY <1>2 DEF LockInv
<1>7. TreeFrame(t) /\ \A c \in Convs : state[c] = "absent" => state'[c] = "absent" /\ parent'[c] = parent[c]
  BY <1>2, <1>3 DEF Still, TreeFrame, Others, Present
<1>8. OwnTree(t)
  BY <1>4, <1>5 DEF OwnTree, Busy
<1>9. HeldFrame(t)
  <2>1. held' = [held EXCEPT ![t] = held'[t]] /\ held'[t] \subseteq held[t] \cup {r}
    BY <1>2, <1>6 DEF LockInv
  <2>2. /\ held' = [u \in Tasks |-> held'[u]] /\ LocksApart' /\ \A u \in Tasks \ {t} : held'[u] = held[u]
    BY <1>2, <2>1, TakeApart
  <2> QED BY <1>2, <2>2 DEF HeldFrame, Still, Live
<1>10. OwnHolds(t)
  <2>1. Live' = Live /\ deleting' = deleting /\ state' = state
    BY <1>2 DEF Still, Live
  <2>2. \A d \in Live : <<d, "change">> \in tx[t].rest \cup held[t] => <<d, "change">> \in tx'[t].rest \cup held'[t]
    BY <1>4, <1>6
  <2>3. held[t] \subseteq held'[t]
    BY <1>6
  <2> QED BY <1>4, <2>1, <2>2, <2>3 DEF OwnHolds, LockInv, LinkHolds, RootHolds, SubtreeHolds
<1> QED BY <1>2, <1>7, <1>8, <1>9, <1>10 DEF Step

\* A step that leaves the tree, and takes no lock.
LEMMA StillFrame ==
    ASSUME LockInv, NEW t \in Tasks, Still, held' = held \/ held' = [held EXCEPT ![t] = {}],
           \A u \in Tasks \ {t} : tx'[u] = tx[u] \/ (tx'[u] = Over /\ tx[u].pc # "link"),
           OwnTree(t), OwnHolds(t)
    PROVE  Step(t)
<1>1. TreeFrame(t) /\ \A c \in Convs : state[c] = "absent" => state'[c] = "absent" /\ parent'[c] = parent[c]
  BY DEF Still, TreeFrame, Present
<1>2. HeldFrame(t)
  BY KeepApart DEF HeldFrame, Still, Live
<1> QED BY <1>1, <1>2 DEF Step

\* A create's first lock: its caller's row.
LEMMA AgentStep ==
    ASSUME Inv, TreeInv, LockInv, NEW t \in Tasks, start_agent(t)
    PROVE  Step(t) /\ Still
<1>1. Still
  BY DEF start_agent, dbVars, histVars, Still
<1>2. PICK by \in Live, c \in Unused :
         /\ Lockable(t, by, "change") /\ MayStart(by) /\ \A d \in Unused : c <= d
         /\ held' = [held EXCEPT ![t] = {<<by, "change">>}]
         /\ tx' = [tx EXCEPT ![t] = [NoTask EXCEPT !.op = "create", !.pc = "link", !.by = by, !.on = c]]
  BY DEF start_agent
<1>3. /\ Others(t) /\ tx'[t].pc = "link" /\ tx'[t].by = by /\ tx'[t].on = c /\ tx'[t].tree = {}
      /\ tx[t].pc = "idle"
  BY <1>2 DEF Inv, TxOK, Others, NoTask, start_agent
<1>4. TreeFrame(t) /\ \A d \in Convs : state[d] = "absent" => state'[d] = "absent" /\ parent'[d] = parent[d]
  BY <1>1, <1>3 DEF Still, TreeFrame, Others, Present
<1>5. OwnTree(t)
  BY <1>2, <1>3 DEF OwnTree, Busy
<1>6. HeldFrame(t) /\ <<by, "change">> \in held'[t]
  <2> DEFINE r == <<by, "change">>
  <2>1. Lockable(t, r[1], r[2]) /\ held' = [held EXCEPT ![t] = {r}] /\ {r} \subseteq held[t] \cup {r}
    BY <1>2
  <2>2. /\ held' = [u \in Tasks |-> held'[u]] /\ LocksApart' /\ \A u \in Tasks \ {t} : held'[u] = held[u]
    <3> HIDE DEF r
    <3> QED BY <2>1, TakeApart
  <2>3. r \in held'[t]
    BY <2>1 DEF LockInv
  <2> QED BY <1>1, <2>2, <2>3 DEF HeldFrame, Still, Live
<1>7. OwnHolds(t)
  BY <1>1, <1>2, <1>3, <1>6 DEF OwnHolds, MayStart, Still, Live
<1> QED BY <1>1, <1>4, <1>5, <1>6, <1>7 DEF Step

\* stop_agent and delete_subtree set out.
LEMMA SetOutStep ==
    ASSUME Inv, TreeInv, LockInv, NEW t \in Tasks, stop_agent(t) \/ delete_subtree(t)
    PROVE  Step(t) /\ Still
<1>1. Still /\ held' = held /\ tx[t].pc = "idle"
  BY DEF stop_agent, delete_subtree, dbVars, histVars, lockVars, Still
<1>2. CASE stop_agent(t)
  <2>1. PICK by \in Live, c \in Live :
           tx' = [tx EXCEPT ![t] = [NoTask EXCEPT !.op = "stop", !.pc = "subtree", !.by = by, !.on = c,
                                                  !.tree = subtree_ids(c), !.rest = AllOf(subtree_ids(c), "change")]]
    BY <1>2 DEF stop_agent
  <2>2. /\ Others(t) /\ tx'[t].pc = "subtree" /\ tx'[t].on = c /\ tx'[t].tree = subtree_ids(c)
        /\ tx'[t].rest = AllOf(subtree_ids(c), "change")
    BY <2>1 DEF Inv, TxOK, Others, NoTask
  <2>3. OwnTree(t)
    <3>1. c \in Convs /\ Present(c) /\ Typed
      BY DEF Live, Present, Inv, TreeOK, Typed
    <3>2. \A d \in subtree_ids(c) : Present(d) /\ c \in Up[d]
      BY <3>1, ReadUnder
    <3> QED BY <1>1, <2>2, <3>1, <3>2 DEF OwnTree, Busy
  <2>4. OwnHolds(t)
    BY <2>2 DEF OwnHolds, AllOf
  <2> QED BY <1>1, <2>2, <2>3, <2>4, StillFrame DEF Others
<1>3. CASE delete_subtree(t)
  <2>1. PICK c \in Live :
           tx' = [tx EXCEPT ![t] = [NoTask EXCEPT !.op = "delete", !.pc = "root", !.on = c,
                                                  !.rest = {<<Root(c), "change">>}]]
    BY <1>3 DEF delete_subtree
  <2>2. /\ Others(t) /\ tx'[t].pc = "root" /\ tx'[t].on = c /\ tx'[t].tree = {}
        /\ tx'[t].rest = {<<Root(c), "change">>}
    BY <2>1 DEF Inv, TxOK, Others, NoTask
  <2>3. OwnTree(t)
    BY <1>1, <2>2 DEF OwnTree, Busy, Live, Present
  <2>4. OwnHolds(t)
    BY <2>2 DEF OwnHolds
  <2> QED BY <1>1, <2>2, <2>3, <2>4, StillFrame DEF Others
<1> QED BY <1>2, <1>3

\* Both read the subtree, again and again.
LEMMA ReadStep ==
    ASSUME Inv, TreeInv, LockInv, NEW t \in Tasks, lock_subtree(t) \/ DeleteRoot(t)
    PROVE  Step(t) /\ Still
<1> DEFINE c == tx[t].on
           ids == subtree_ids(c)
<1>1. PICK Old : tx \in [Tasks -> Record(Old)]
  BY DEF Inv, TxOK
<1>2. Still /\ tx[t].rest = {} /\ tx[t].pc \in {"subtree", "root"}
  BY DEF lock_subtree, DeleteRoot, Locked, dbVars, histVars, Still
<1>3. c \in Convs /\ Present(c) /\ Typed
  BY <1>2 DEF TreeInv, TasksPresent, Busy, Present, Inv, TreeOK, Typed
<1>4. \A d \in ids : Present(d) /\ c \in Up[d]
  BY <1>3, ReadUnder
<1> HIDE DEF ids
<1>5. CASE lock_subtree(t)
  <2> DEFINE new == ids \ tx[t].tree
             r   == [tx[t] EXCEPT !.tree = @ \cup new, !.rest = AllOf(new, "change")]
  <2>1. tx' = [tx EXCEPT ![t] = r] /\ held' = held /\ tx[t].pc = "subtree"
    BY <1>1, <1>5 DEF lock_subtree, Locked, lockVars, ids
  <2>2. /\ r.pc = "subtree" /\ r.on = c /\ r.tree = tx[t].tree \cup new /\ r.rest = AllOf(new, "change")
    BY <1>1, <2>1 DEF Record
  <2>3. Others(t) /\ tx'[t] = r
    BY <1>1, <2>1 DEF Others
  <2> HIDE DEF r
  <2>4. OwnTree(t)
    BY <1>4, <2>1, <2>2, <2>3 DEF OwnTree, Busy
  <2>5. OwnHolds(t)
    <3>1. \A d \in tx[t].tree : d \in Live => <<d, "change">> \in held[t]
      BY <1>2, <2>1 DEF LockInv, SubtreeHolds
    <3> QED BY <2>1, <2>2, <2>3, <3>1 DEF OwnHolds, AllOf
  <2> QED BY <1>2, <2>1, <2>3, <2>4, <2>5, StillFrame DEF Others
<1>6. CASE DeleteRoot(t) /\ c \in Live
  <2> DEFINE rest == AllOf(ids \ {Root(c)}, "change")
             r == [tx[t] EXCEPT !.pc = "subtree", !.tree = ids, !.rest = rest]
  <2>1. tx' = [tx EXCEPT ![t] = r] /\ held' = held /\ tx[t].pc = "root"
    BY <1>1, <1>6 DEF DeleteRoot, Locked, lockVars, ids
  <2>2. /\ r.pc = "subtree" /\ r.on = c /\ r.tree = ids /\ r.rest = rest
    BY <1>1 DEF Record
  <2>3. Others(t) /\ tx'[t] = r
    BY <1>1, <2>1 DEF Others
  <2> HIDE DEF r
  <2>4. OwnTree(t)
    BY <1>4, <2>1, <2>2, <2>3 DEF OwnTree, Busy
  <2>5. OwnHolds(t)
    <3>1. Root(c) \in Live => <<Root(c), "change">> \in held[t]
      BY <1>2, <2>1 DEF LockInv, RootHolds
    <3> QED BY <2>1, <2>2, <2>3, <3>1 DEF OwnHolds, AllOf
  <2> QED BY <1>2, <2>1, <2>3, <2>4, <2>5, StillFrame DEF Others
<1>7. CASE DeleteRoot(t) /\ c \notin Live
  <2>1. held' = [held EXCEPT ![t] = {}] /\ GoLock(t, "forget", {<<c, "halt">>})
    BY <1>7 DEF DeleteRoot, Release
  <2>2. Went(t, "forget")
    BY <2>1, GoesOn DEF Inv
  <2>3. tx'[t].tree = tx[t].tree
    <3>1. tx'[t] = [tx[t] EXCEPT !.pc = "forget", !.rest = {<<c, "halt">>}]
      BY <1>1, <2>1 DEF GoLock
    <3> QED BY <1>1, <3>1 DEF Record
  <2>4. OwnTree(t)
    BY <1>2, <2>2, <2>3 DEF OwnTree, Went, Busy
  <2>5. OwnHolds(t)
    BY <2>2 DEF OwnHolds, Went
  <2> QED BY <1>2, <2>1, <2>2, <2>4, <2>5, StillFrame DEF Went, Others
<1> QED BY <1>2, <1>5, <1>6, <1>7

\* Where a halt leaves its task.
LEMMA HaltPlace ==
    ASSUME TxOK, NEW t \in Tasks, HaltNext(t)
    PROVE  /\ tx[t].pc \in {"halt", "forget"}
           /\ \/ tx'[t] = Over
              \/ /\ tx'[t].op = tx[t].op /\ tx'[t].on = tx[t].on /\ tx'[t].tree = tx[t].tree
                 /\ tx'[t].pc = tx[t].pc \/ (tx[t].op = "delete" /\ tx[t].pc = "halt" /\ tx'[t].pc = "rows")
           /\ \A u \in Tasks \ {t} : tx'[u] = tx[u] \/ (tx'[u] = Over /\ tx[u].pc # "link")
<1>1. PICK Old : tx \in [Tasks -> Record(Old)]
  BY DEF TxOK
<1> DEFINE r == [tx[t] EXCEPT !.rest = @ \ {NextRow(t)}]
           halted == Halted(t)
<1>2. /\ r.op = tx[t].op /\ r.on = tx[t].on /\ r.tree = tx[t].tree /\ r.pc = tx[t].pc
      /\ tx[t].pc \in {"halt", "forget"}
  BY <1>1 DEF Record, HaltNext
<1>3. \/ halted = Over
      \/ /\ halted.op = tx[t].op /\ halted.on = tx[t].on /\ halted.tree = tx[t].tree
         /\ tx[t].op = "delete" /\ tx[t].pc = "halt" /\ halted.pc = "rows"
  <2> DEFINE rest == AllOf(tx[t].tree, "remove")
                       \cup (IF parent[tx[t].on] = 0 THEN {} ELSE {<<parent[tx[t].on], "share">>})
             go   == [tx[t] EXCEPT !.pc = "rows", !.rest = rest]
  <2>1. halted = Over \/ (halted = go /\ tx[t].op = "delete" /\ tx[t].pc = "halt")
    BY DEF Halted
  <2>2. go.op = tx[t].op /\ go.on = tx[t].on /\ go.tree = tx[t].tree /\ go.pc = "rows"
    <3> HIDE DEF rest
    <3> QED BY <1>1 DEF Record
  <2> HIDE DEF go, halted
  <2> QED BY <2>1, <2>2
<1>4. tx' = [u \in Tasks |->
               CASE u = t -> IF tx[t].rest = {NextRow(t)} THEN halted ELSE r
                 [] InTurn(u, NextRow(t)[1]) -> Over
                 [] OTHER -> tx[u]]
  BY DEF HaltNext
<1>5. ~InTurn(t, NextRow(t)[1])
  BY <1>2 DEF InTurn
<1> HIDE DEF r, halted
<1>6. tx'[t] \in {halted, r}
  BY <1>4, <1>5
<1>7. \A u \in Tasks \ {t} : tx'[u] = tx[u] \/ (tx'[u] = Over /\ tx[u].pc # "link")
  <2>1. \A u \in Tasks : InTurn(u, NextRow(t)[1]) => tx[u].pc # "link"
    BY DEF InTurn
  <2> QED BY <1>4, <2>1
<1> QED BY <1>2, <1>3, <1>6, <1>7

\* A halt ends turns, and leaves the tree and its locks.
LEMMA HaltStep ==
    ASSUME Inv, TreeInv, LockInv, NEW t \in Tasks, HaltNext(t)
    PROVE  Step(t) /\ Still
<1>1. Still /\ held' = held
  BY DEF HaltNext, dbVars, histVars, lockVars, Still
<1>2. /\ tx[t].pc \in {"halt", "forget"}
      /\ \/ tx'[t] = Over
         \/ /\ tx'[t].op = tx[t].op /\ tx'[t].on = tx[t].on /\ tx'[t].tree = tx[t].tree
            /\ tx'[t].pc = tx[t].pc \/ (tx[t].op = "delete" /\ tx[t].pc = "halt" /\ tx'[t].pc = "rows")
      /\ \A u \in Tasks \ {t} : tx'[u] = tx[u] \/ (tx'[u] = Over /\ tx[u].pc # "link")
  BY HaltPlace DEF Inv
<1>3. Over.pc = "done"
  BY DEF Over, NoTask
<1>4. OwnTree(t)
  BY <1>2 DEF OwnTree, Busy
<1>5. OwnHolds(t)
  BY <1>2, <1>3 DEF OwnHolds
<1> QED BY <1>1, <1>2, <1>4, <1>5, StillFrame

\* The conversations a stop or a delete has locked, no other holds against it.
LEMMA TreeLocked ==
    ASSUME LockInv, NEW t \in Tasks, SubtreeLocked(t)
    PROVE  \A c \in Live : c \in tx[t].tree => \A u \in Tasks \ {t} : <<c, "change">> \notin held[u]
<1>1. \A c \in Live : c \in tx[t].tree => <<c, "change">> \in held[t]
  BY DEF SubtreeLocked, Locked, LockInv, SubtreeHolds
<1> QED BY <1>1 DEF LockInv, LocksApart, Conflict

\* Stopped changes no more than its conversations.
LEMMA StoppedOnly ==
    ASSUME NEW cs, state' = Stopped(cs)
    PROVE  \A c \in Convs : /\ state'[c] # state[c] => c \in cs /\ state[c] \notin {"absent", "deleted"}
                            /\ state'[c] # state[c] => state'[c] = "stopped"
                            /\ c \in cs => state'[c] # "starting"
  BY DEF Stopped, Running

\* Where the step that ends the subtree's agents, or removes their rows,
\* leaves its task and its locks.
Leaves(t, pcs) ==
    /\ tx[t].pc \in {"subtree", "rows"} /\ held' = [held EXCEPT ![t] = {}] /\ Others(t)
    /\ \/ tx'[t] = Over
       \/ tx'[t].pc \in pcs /\ tx'[t].on = tx[t].on /\ tx'[t].tree = tx[t].tree

\* What such a step makes of the conversations nobody else holds.
Harms(t) ==
    /\ \A c \in Convs : Present(c) => /\ state'[c] # "absent" /\ parent'[c] = parent[c]
                                      /\ state[c] = "deleted" => state'[c] = "deleted"
    /\ \A c \in Convs : state[c] = "absent" => state'[c] = "absent" /\ parent'[c] = parent[c]
    /\ \A c \in Live : (\E u \in Tasks \ {t} : <<c, "change">> \in held[u]) =>
          state'[c] = state[c] /\ (c \notin deleting => c \notin deleting')

\* So it keeps the tree and the locks.
LEMMA LeavesStep ==
    ASSUME Inv, TreeInv, LockInv, NEW t \in Tasks, Leaves(t, {"halt", "forget"}), Harms(t)
    PROVE  Step(t)
<1>1. Over.pc = "done"
  BY DEF Over, NoTask
<1>2. TreeFrame(t)
  BY DEF Leaves, Harms, TreeFrame, Others
<1>3. OwnTree(t)
  BY DEF Leaves, OwnTree, Busy
<1>4. OwnHolds(t)
  BY <1>1 DEF Leaves, OwnHolds
<1>5. HeldFrame(t)
  BY KeepApart DEF Leaves, Harms, HeldFrame, Live
<1> QED BY <1>2, <1>3, <1>4, <1>5 DEF Step, Harms

\* A stop ends the subtree's agents.
LEMMA StopStep ==
    ASSUME Inv, TreeInv, LockInv, NEW t \in Tasks, stop_subtree(t)
    PROVE  Step(t)
<1>1. PICK Old : tx \in [Tasks -> Record(Old)]
  BY DEF Inv, TxOK
<1>2. tx[t].pc = "subtree" /\ UNCHANGED <<parent, deleting>> /\ (state' = state \/ state' = Stopped(tx[t].tree))
  BY DEF stop_subtree, SubtreeLocked, Locked
<1>3. Leaves(t, {"halt", "forget"})
  <2>1. CASE End(t)
    BY <1>1, <1>2, <2>1 DEF End, Release, Leaves, Others
  <2>2. CASE Release(t) /\ GoLock(t, "halt", AllOf(tx[t].tree, "halt"))
    <3>1. Went(t, "halt")
      BY <2>2, GoesOn DEF Inv
    <3>2. tx'[t] = [tx[t] EXCEPT !.pc = "halt", !.rest = AllOf(tx[t].tree, "halt")]
      BY <1>1, <2>2 DEF GoLock
    <3>3. tx'[t].tree = tx[t].tree
      BY <1>1, <3>2 DEF Record
    <3> QED BY <1>2, <2>2, <3>1, <3>3 DEF Went, Release, Leaves
  <2> QED BY <2>1, <2>2 DEF stop_subtree
<1>4. Harms(t)
  <2>1. \A c \in Live : c \in tx[t].tree => \A u \in Tasks \ {t} : <<c, "change">> \notin held[u]
    BY TreeLocked DEF stop_subtree
  <2>2. CASE state' = state
    BY <1>2, <2>2 DEF Harms, Present
  <2>3. CASE state' = Stopped(tx[t].tree)
    BY <1>2, <2>1, <2>3, StoppedOnly DEF Harms, Present, Live
  <2> QED BY <1>2, <2>2, <2>3
<1> QED BY <1>3, <1>4, LeavesStep

\* A delete's mark ends them too.
LEMMA MarkStep ==
    ASSUME Inv, TreeInv, LockInv, NEW t \in Tasks, mark_subtree_deleting(t)
    PROVE  Step(t) /\ tx'[t].on = tx[t].on /\ tx'[t].tree = tx[t].tree /\ Others(t)
<1> DEFINE was == {w \in tx[t].tree \X {"active", "finished"} : state[w[1]] = w[2]}
           r == [tx[t] EXCEPT !.pc = "halt", !.rest = AllOf(tx[t].tree, "halt"), !.was = was]
<1>1. PICK Old : tx \in [Tasks -> Record(Old)]
  BY DEF Inv, TxOK
<1>2. /\ tx[t].pc = "subtree" /\ parent' = parent /\ state' = Stopped(tx[t].tree)
      /\ deleting' = deleting \cup (tx[t].tree \cap Live) /\ held' = [held EXCEPT ![t] = {}]
      /\ tx' = [tx EXCEPT ![t] = r]
  BY <1>1 DEF mark_subtree_deleting, SubtreeLocked, Locked, Release
<1>3. r.pc = "halt" /\ r.on = tx[t].on /\ r.tree = tx[t].tree
  <2> HIDE DEF was
  <2> QED BY <1>1 DEF Record
<1> HIDE DEF r
<1>4. tx'[t] = r /\ Others(t)
  BY <1>1, <1>2 DEF Others
<1>5. Leaves(t, {"halt", "forget"})
  BY <1>2, <1>3, <1>4 DEF Leaves
<1>6. Harms(t)
  <2>1. \A c \in Live : c \in tx[t].tree => \A u \in Tasks \ {t} : <<c, "change">> \notin held[u]
    BY TreeLocked DEF mark_subtree_deleting
  <2> QED BY <1>2, <2>1, StoppedOnly DEF Harms, Present, Live
<1> QED BY <1>3, <1>4, <1>5, <1>6, LeavesStep

\* A delete's cascade takes what is under its conversation, and no lock on
\* that is held by another.
LEMMA RowsStep ==
    ASSUME Inv, TreeInv, LockInv, NEW t \in Tasks, delete_subtree_rows(t)
    PROVE  Step(t) /\ Went(t, "forget")
<1> DEFINE gone == IF tx[t].on \in Live THEN subtree_ids(tx[t].on) ELSE {}
<1>1. PICK Old : tx \in [Tasks -> Record(Old)]
  BY DEF Inv, TxOK
<1>2. /\ tx[t].pc = "rows" /\ parent' = parent /\ held' = [held EXCEPT ![t] = {}]
      /\ state' = [c \in Convs |-> IF c \in gone THEN "deleted" ELSE state[c]]
      /\ deleting' = deleting \ gone /\ \A d \in gone : Lockable(t, d, "remove")
      /\ GoLock(t, "forget", AllOf(tx[t].tree, "halt"))
  BY DEF delete_subtree_rows, Locked, Release
<1>3. Went(t, "forget")
  BY <1>2, GoesOn DEF Inv
<1>4. Leaves(t, {"halt", "forget"})
  <2>1. tx'[t] = [tx[t] EXCEPT !.pc = "forget", !.rest = AllOf(tx[t].tree, "halt")]
    BY <1>1, <1>2 DEF GoLock
  <2>2. tx'[t].tree = tx[t].tree
    BY <1>1, <2>1 DEF Record
  <2> QED BY <1>2, <1>3, <2>2 DEF Went, Leaves
<1>5. gone \subseteq Live
  BY DEF subtree_ids
<1> HIDE DEF gone
<1>6. Harms(t)
  <2>1. \A c \in gone : \A u \in Tasks \ {t} : <<c, "change">> \notin held[u]
    BY <1>2 DEF Lockable, Conflict
  <2>2. \A c \in Convs : state'[c] = IF c \in gone THEN "deleted" ELSE state[c]
    BY <1>2
  <2> QED BY <1>2, <1>5, <2>1, <2>2 DEF Harms, Present, Live
<1> QED BY <1>3, <1>4, <1>6, LeavesStep

\* The commit of a create.
LEMMA CommitStep ==
    ASSUME Inv, TreeInv, LockInv, NEW t \in Tasks, CreateCommit(t), Typed'
    PROVE  TreeInv' /\ TreeFrame(t) /\ HeldFrame(t) /\ OwnHolds(t) /\ tx'[t].pc \in {"complete", "fail"}
<1>1. TreeInv' /\ TreeFrame(t)
  BY CreateTree
<1>2. tx'[t].pc \in {"complete", "fail"}
  <2>1. PICK pc, rest : pc \in {"complete", "fail"} /\ GoLock(t, pc, rest)
    BY DEF CreateCommit, run_start
  <2>2. Went(t, pc)
    BY <2>1, GoesOn DEF Inv
  <2> QED BY <2>1, <2>2 DEF Went
<1>3. state' = [state EXCEPT ![tx[t].on] = "starting"] /\ state[tx[t].on] = "absent" /\ deleting' = deleting
      /\ held' = [held EXCEPT ![t] = {}]
  BY DEF CreateCommit, Inv, LinkAbsent, Release
<1>4. \A c \in Live : c \in Live' /\ state'[c] = state[c]
  BY <1>3 DEF Live, Inv, TreeOK
<1>5. HeldFrame(t)
  BY <1>3, <1>4, KeepApart DEF HeldFrame
<1>6. OwnHolds(t)
  BY <1>2 DEF OwnHolds
<1> QED BY <1>1, <1>2, <1>5, <1>6

\* So every step of a task but a create's commit keeps the tree and the locks.
LEMMA StepLocks ==
    ASSUME Inv, TreeInv, LockInv, NEW t \in Tasks, Step(t), Typed'
    PROVE  TreeInv' /\ LockInv' /\ \A c \in Convs : Present(c) => Up'[c] = Up[c]
<1>1. Typed
  BY DEF Inv, TreeOK, Typed
<1>2. TreeInv' /\ \A c \in Convs : Present(c) => Up'[c] = Up[c]
  BY TreeKeeps DEF Step
<1>3. Over.pc = "done" /\ Over.tree = {}
  BY DEF Over, NoTask
<1>4. Present(tx'[t].on) \/ tx'[t].pc # "root"
  BY <1>3 DEF Step, OwnTree, TreeInv, TasksPresent
<1>5. \A d \in tx'[t].tree : Present(d)
  BY <1>3 DEF Step, OwnTree, TreeInv, TreesUnder
<1> QED BY <1>1, <1>2, <1>4, <1>5, LocksKeep DEF Step

\* And so does the commit.
LEMMA CommitLocks ==
    ASSUME Inv, TreeInv, LockInv, NEW t \in Tasks, CreateCommit(t), Typed'
    PROVE  TreeInv' /\ LockInv' /\ \A c \in Convs : Present(c) => Up'[c] = Up[c]
<1>1. Typed
  BY DEF Inv, TreeOK, Typed
<1>2. TreeInv' /\ TreeFrame(t) /\ HeldFrame(t) /\ OwnHolds(t) /\ tx'[t].pc \in {"complete", "fail"}
  BY CommitStep
<1>3. \A c \in Convs : Present(c) => Up'[c] = Up[c]
  BY CreateTree
<1>4. \A d \in tx'[t].tree : Present(d)
  <2>1. PICK Old : tx \in [Tasks -> Record(Old)]
    BY DEF Inv, TxOK
  <2>2. PICK pc, rest : GoLock(t, pc, rest)
    BY DEF CreateCommit, run_start
  <2>3. tx'[t] = [tx[t] EXCEPT !.pc = pc, !.rest = rest]
    BY <2>1, <2>2 DEF GoLock
  <2>4. tx'[t].tree = tx[t].tree
    BY <2>1, <2>3 DEF Record
  <2> QED BY <2>4 DEF TreeInv, TreesUnder
<1> QED BY <1>1, <1>2, <1>3, <1>4, LocksKeep

-----------------------------------------------------------------------------
(* What a stop and a delete take.                                          *)

\* Without outages a delete past its mark has marked what it has read, and
\* nothing has come under its conversation since.
MarkedOne(t) ==
    /\ \A d \in tx[t].tree : d \in Live => d \in deleting
    /\ tx[t].on \in Live => subtree_ids(tx[t].on) \subseteq tx[t].tree
Marking(r) == r.pc = "rows" \/ (r.op = "delete" /\ r.pc = "halt")
Marked  == faults = 0 => \A t \in Tasks : Marking(tx[t]) => MarkedOne(t)
CutNone == faults = 0 => cut = {}

\* What a stop and a delete take.
TakesInv == NoStartUnderEnded /\ Marked /\ CutNone

\* A step that ends no caller leaves every start's.
LEMMA StartsSpared ==
    ASSUME Inv, NoStartUnderEnded, parent' = parent, deleting' \subseteq deleting,
           \A c \in Convs : state'[c] = "starting" => state[c] = "starting",
           \A c \in Live : c \in Live' /\ (state[c] # "stopped" => state'[c] # "stopped")
    PROVE  NoStartUnderEnded'
  BY DEF NoStartUnderEnded

\* One that ends callers takes what starts under them.
LEMMA StartsTaken ==
    ASSUME Inv, NoStartUnderEnded, parent' = parent, NEW cs, deleting' \subseteq deleting \cup cs,
           \A c \in Convs : c \notin cs => state'[c] = state[c],
           \A c \in Convs : c \in cs => state'[c] # "starting",
           \A c \in Live : parent[c] \in cs => c \in cs
    PROVE  NoStartUnderEnded'
<1> SUFFICES ASSUME NEW c \in Convs, state'[c] = "starting"
             PROVE  parent[c] \in Live' \ deleting' /\ state'[parent[c]] # "stopped"
  BY DEF NoStartUnderEnded
<1>1. state[c] = "starting" /\ c \notin cs /\ c \in Live
  BY DEF Live
<1>2. parent[c] \in Live \ deleting /\ state[parent[c]] # "stopped" /\ parent[c] \notin cs
  BY <1>1 DEF NoStartUnderEnded
<1> QED BY <1>2 DEF Live

\* What is under a conversation of the subtree is in it.
LEMMA TreeClosed ==
    ASSUME Inv, TreeInv, NEW t \in Tasks, tx[t].on \in Convs, subtree_ids(tx[t].on) \subseteq tx[t].tree
    PROVE  \A c \in Live : parent[c] \in tx[t].tree => c \in tx[t].tree
<1> SUFFICES ASSUME NEW c \in Live, parent[c] \in tx[t].tree
             PROVE  c \in subtree_ids(tx[t].on)
  OBVIOUS
<1>1. c \in Convs /\ parent[c] \in Convs /\ tx[t].on \in Up[parent[c]] /\ Typed
  BY DEF Live, TreeInv, TreesUnder, Present, Inv, TreeOK, Typed
<1>2. Up[c] = {c} \cup Up[parent[c]]
  BY <1>1, Under
<1> QED BY <1>1, <1>2 DEF subtree_ids

\* What is under a conversation a subtree read finds, it finds too.
LEMMA SubtreeClosed ==
    ASSUME Inv, TreeInv, NEW a \in Live
    PROVE  \A c \in Live : parent[c] \in subtree_ids(a) => c \in subtree_ids(a)
<1> SUFFICES ASSUME NEW c \in Live, parent[c] \in subtree_ids(a)
             PROVE  c \in subtree_ids(a)
  OBVIOUS
<1>1. a \in Convs /\ Present(a) /\ Typed
  BY DEF Live, Present, Inv, TreeOK, Typed
<1>2. c \in Convs /\ parent[c] \in Convs /\ a \in Up[parent[c]]
  <2>1. Present(parent[c]) /\ a \in Up[parent[c]]
    BY <1>1, ReadUnder
  <2> QED BY <2>1 DEF Live, Present
<1>3. Up[c] = {c} \cup Up[parent[c]]
  BY <1>1, <1>2, Under
<1> QED BY <1>2, <1>3 DEF subtree_ids

\* A step that brings nothing under a marked conversation keeps the marks:
\* what is new is under a caller that no delete has marked.
LEMMA MarksKept ==
    ASSUME Inv, TreeInv, Marked, NEW t \in Tasks,
           \A u \in Tasks \ {t} : tx'[u] = tx[u] \/ tx'[u] = Over,
           faults' = 0 => faults = 0 /\ \A d \in deleting : d \in Live' => d \in deleting',
           \A c \in Convs : Present(c) => Up'[c] = Up[c],
           \A c \in Live' : \/ c \in Live
                            \/ /\ state[c] = "absent" /\ tx[t].by \in Live \ deleting
                               /\ \A a \in Up'[c] : a = c \/ a \in Up[tx[t].by],
           faults' = 0 /\ Marking(tx'[t]) => MarkedOne(t)'
    PROVE  Marked'
<1>1. ~Marking(Over)
  BY DEF Over, NoTask, Marking
<1>2. Marked' <=> (faults' = 0 => \A u \in Tasks : Marking(tx'[u]) => MarkedOne(u)')
  BY DEF Marked, Marking
<1> SUFFICES ASSUME faults' = 0, NEW u \in Tasks, Marking(tx'[u]), u # t
             PROVE  MarkedOne(u)'
  BY <1>2
<1>3. tx'[u] = tx[u] /\ Marking(tx[u]) /\ MarkedOne(u)
  BY <1>1 DEF Marked
<1> DEFINE on == tx[u].on
<1>4. on \in Convs /\ Present(on) /\ \A d \in tx[u].tree : Present(d)
  BY <1>3 DEF TreeInv, TasksPresent, TreesUnder, Marking, Busy, Present
<1>5. \A d \in Live' : Present(d) => d \in Live
  BY DEF Present
<1>6. \A d \in tx[u].tree : d \in Live' => d \in deleting'
  BY <1>3, <1>4, <1>5 DEF MarkedOne
<1>7. on \in Live' => subtree_ids(on) \subseteq tx[u].tree
  BY <1>3, <1>4, <1>5 DEF MarkedOne
<1>8. on \in Live' => \A d \in Live' : on \in Up'[d] => d \in tx[u].tree
  <2> SUFFICES ASSUME on \in Live', NEW d \in Live', on \in Up'[d]
               PROVE  d \in tx[u].tree
    OBVIOUS
  <2>1. on \in Live /\ subtree_ids(on) \subseteq tx[u].tree
    BY <1>4, <1>5, <1>7
  <2>2. CASE d \in Live
    <3>1. Up'[d] = Up[d]
      BY <2>2 DEF Live, Present
    <3> QED BY <2>1, <2>2, <3>1 DEF subtree_ids
  <2>3. CASE d \notin Live
    <3>1. on # d
      BY <1>4, <2>3 DEF Present
    <3>2. on \in Up[tx[t].by] /\ tx[t].by \in Live \ deleting
      BY <2>3, <3>1
    <3>3. tx[t].by \in tx[u].tree
      BY <2>1, <3>2 DEF subtree_ids
    <3> QED BY <1>3, <3>2, <3>3 DEF MarkedOne
  <2> QED BY <2>2, <2>3
<1>9. on \in Live' => on \in tx[u].tree
  BY <1>7 DEF subtree_ids
<1>10. MarkedOne(u)' <=>
         /\ \A d \in tx'[u].tree : d \in Live' => d \in deleting'
         /\ tx'[u].on \in Live' =>
              {tx'[u].on} \cup {d \in Live' : tx'[u].on \in Up'[d]} \subseteq tx'[u].tree
  BY DEF MarkedOne, subtree_ids
<1> QED BY <1>3, <1>6, <1>8, <1>9, <1>10
\* A mild step marks nothing, and ends no caller.
LEMMA MildTakes ==
    ASSUME Inv, TreeInv, TakesInv, NEW t \in Tasks, Mild(t), \A c \in Convs : Present(c) => Up'[c] = Up[c]
    PROVE  TakesInv'
<1>1. NoStartUnderEnded'
  <2>1. /\ parent' = parent /\ deleting' \subseteq deleting
        /\ \A c \in Convs : state'[c] = "starting" => state[c] = "starting"
        /\ \A c \in Live : c \in Live' /\ (state[c] # "stopped" => state'[c] # "stopped")
    BY DEF Mild, MildState, Live
  <2> QED BY <2>1, StartsSpared DEF TakesInv
<1>2. Marked'
  <2>1. ~Marking(tx'[t])
    BY DEF Mild, MildTask, Elsewhere, Over, NoTask, Marking
  <2>2. \A c \in Live' : c \in Live
    BY DEF Mild, MildState, Live
  <2>3. /\ \A u \in Tasks \ {t} : tx'[u] = tx[u]
        /\ faults' = 0 => faults = 0 /\ deleting' = deleting
    BY DEF Mild, MildTask, MildState, Others
  <2> QED BY <2>1, <2>2, <2>3, MarksKept DEF TakesInv
<1>3. CutNone'
  BY DEF Mild, MildState, TakesInv, CutNone
<1> QED BY <1>1, <1>2, <1>3 DEF TakesInv

\* Nor does a step that leaves the tree as it is.
LEMMA StillTakes ==
    ASSUME Inv, TreeInv, TakesInv, NEW t \in Tasks, Step(t), Still,
           \A c \in Convs : Present(c) => Up'[c] = Up[c],
           Marking(tx'[t]) => Marking(tx[t]) /\ tx'[t].on = tx[t].on /\ tx'[t].tree = tx[t].tree
    PROVE  TakesInv'
<1>1. Live' = Live /\ Up' = Up
  BY DEF Still, Live, Up
<1>2. NoStartUnderEnded'
  BY <1>1, StartsSpared DEF TakesInv, Still
<1>3. Marked'
  <2>1. ASSUME faults' = 0, Marking(tx'[t])
        PROVE  MarkedOne(t)'
    <3>1. MarkedOne(t) /\ tx'[t].on = tx[t].on /\ tx'[t].tree = tx[t].tree
      BY <2>1 DEF TakesInv, Marked, Still
    <3>2. MarkedOne(t)' <=>
            /\ \A d \in tx'[t].tree : d \in Live' => d \in deleting'
            /\ tx'[t].on \in Live' =>
                 {tx'[t].on} \cup {d \in Live' : tx'[t].on \in Up'[d]} \subseteq tx'[t].tree
      BY DEF MarkedOne, subtree_ids
    <3>3. MarkedOne(t) <=>
            /\ \A d \in tx[t].tree : d \in Live => d \in deleting
            /\ tx[t].on \in Live => {tx[t].on} \cup {d \in Live : tx[t].on \in Up[d]} \subseteq tx[t].tree
      BY DEF MarkedOne, subtree_ids
    <3> QED BY <1>1, <3>1, <3>2, <3>3 DEF Still
  <2>2. \A u \in Tasks \ {t} : tx'[u] = tx[u] \/ tx'[u] = Over
    BY DEF Step, TreeFrame
  <2>3. faults' = 0 => faults = 0 /\ \A d \in deleting : d \in Live' => d \in deleting'
    BY DEF Still
  <2> QED BY <1>1, <2>1, <2>2, <2>3, MarksKept DEF TakesInv
<1>4. CutNone'
  BY DEF Still, TakesInv, CutNone
<1> QED BY <1>2, <1>3, <1>4 DEF TakesInv

\* The commit of a create finds its caller as its lock kept it.
LEMMA CommitTakes ==
    ASSUME Inv, TreeInv, LockInv, TakesInv, NEW t \in Tasks, CreateCommit(t), Typed',
           \A c \in Convs : Present(c) => Up'[c] = Up[c]
    PROVE  TakesInv'
<1> DEFINE by == tx[t].by
           on == tx[t].on
<1>1. /\ state' = [state EXCEPT ![on] = "starting"] /\ parent' = [parent EXCEPT ![on] = by]
      /\ deleting' = deleting /\ faults' = faults /\ cut' = cut
      /\ state[on] = "absent" /\ on \in Convs /\ tx[t].pc = "link"
  BY DEF CreateCommit, Inv, TxOK, Busy, LinkAbsent
<1>2. by \in Live \ deleting /\ state[by] # "stopped" /\ by \in Convs
  BY <1>1 DEF LockInv, LinkHolds, Live
<1>3. /\ \A c \in Live : c \in Live' /\ state'[c] = state[c]
      /\ \A c \in Live' : c \in Live \/ c = on
  BY <1>1 DEF Live, Inv, TreeOK
<1>4. NoStartUnderEnded'
  <2> SUFFICES ASSUME NEW c \in Convs, state'[c] = "starting"
               PROVE  parent'[c] \in Live' \ deleting' /\ state'[parent'[c]] # "stopped"
    BY DEF NoStartUnderEnded
  <2>1. CASE c = on
    <3>1. parent'[c] = by
      BY <1>1, <2>1 DEF Inv, TreeOK
    <3> QED BY <1>1, <1>2, <1>3, <3>1
  <2>2. CASE c # on
    <3>1. parent'[c] = parent[c] /\ state[c] = "starting"
      BY <1>1, <2>2 DEF Inv, TreeOK
    <3>2. parent[c] \in Live \ deleting /\ state[parent[c]] # "stopped"
      BY <3>1 DEF TakesInv, NoStartUnderEnded
    <3> QED BY <1>1, <1>3, <3>1, <3>2
  <2> QED BY <2>1, <2>2
<1>5. Marked'
  <2>1. PICK pc, rest : pc \in {"complete", "fail"} /\ GoLock(t, pc, rest)
    BY DEF CreateCommit, run_start
  <2>2. Others(t) /\ ~Marking(tx'[t])
    BY <2>1, GoesOn DEF Inv, Went, Marking
  <2>3. \A a \in Up'[on] : a = on \/ a \in Up[by]
    <3>1. parent'[on] = by /\ on # 0 /\ on \in 0..MaxConvs
      BY <1>1, AgentTreeAssumption DEF Inv, TreeOK, Convs
    <3>2. Up'[on] = {on} \cup Up'[by]
      BY <3>1, UpNext DEF Unfolds
    <3>3. Up'[by] = Up[by]
      BY <1>2 DEF Live, Present
    <3> QED BY <3>2, <3>3
  <2>4. \A c \in Live' : \/ c \in Live
                         \/ /\ state[c] = "absent" /\ tx[t].by \in Live \ deleting
                            /\ \A a \in Up'[c] : a = c \/ a \in Up[tx[t].by]
    BY <1>1, <1>2, <1>3, <2>3
  <2> QED BY <1>1, <2>2, <2>4, MarksKept DEF Others, TakesInv
<1>6. CutNone'
  BY <1>1 DEF TakesInv, CutNone
<1> QED BY <1>4, <1>5, <1>6 DEF TakesInv

\* A stop takes what starts under the agents it ends.
LEMMA StopTakes ==
    ASSUME Inv, TreeInv, TakesInv, NEW t \in Tasks, stop_subtree(t),
           \A c \in Convs : Present(c) => Up'[c] = Up[c]
    PROVE  TakesInv'
<1> DEFINE tree == tx[t].tree
<1>1. PICK Old : tx \in [Tasks -> Record(Old)]
  BY DEF Inv, TxOK
<1>2. /\ tx[t].pc = "subtree" /\ tx[t].op = "stop" /\ UNCHANGED <<parent, deleting, faults, cut>>
      /\ state' = state \/ state' = Stopped(tree)
      /\ subtree_ids(tx[t].on) \subseteq tree
  BY DEF stop_subtree, SubtreeLocked, Locked
<1>3. \A c \in Live : parent[c] \in tree => c \in tree
  <2>1. tx[t].on \in Convs
    BY <1>2 DEF Inv, TxOK, Busy
  <2> QED BY <1>2, <2>1, TreeClosed
<1>4. NoStartUnderEnded'
  <2>1. CASE state' = state
    BY <1>2, <2>1, StartsSpared DEF TakesInv, Live
  <2>2. CASE state' = Stopped(tree)
    <3>1. /\ \A c \in Convs : c \notin tree => state'[c] = state[c]
          /\ \A c \in Convs : c \in tree => state'[c] # "starting"
      BY <2>2, StoppedOnly
    <3> QED BY <1>2, <1>3, <3>1, StartsTaken DEF TakesInv
  <2> QED BY <1>2, <2>1, <2>2
<1>5. Marked'
  <2>1. Others(t) /\ ~Marking(tx'[t])
    <3>1. CASE End(t)
      BY <1>1, <3>1 DEF End, Others, Marking, Over, NoTask
    <3>2. CASE GoLock(t, "halt", AllOf(tree, "halt"))
      <4>1. tx'[t] = [tx[t] EXCEPT !.pc = "halt", !.rest = AllOf(tree, "halt")] /\ Others(t)
        BY <1>1, <3>2 DEF GoLock, Others
      <4>2. tx'[t].pc = "halt" /\ tx'[t].op = tx[t].op
        BY <1>1, <4>1 DEF Record
      <4> QED BY <1>2, <4>1, <4>2 DEF Marking
    <3> QED BY <3>1, <3>2 DEF stop_subtree
  <2>2. \A c \in Live' : c \in Live
    BY <1>2, StoppedOnly DEF Live
  <2> QED BY <1>2, <2>1, <2>2, MarksKept DEF Others, TakesInv
<1>6. CutNone'
  BY <1>2 DEF TakesInv, CutNone
<1> QED BY <1>4, <1>5, <1>6 DEF TakesInv

\* So does a delete's mark, and its subtree is marked.
LEMMA MarkTakes ==
    ASSUME Inv, TreeInv, LockInv, TakesInv, NEW t \in Tasks, mark_subtree_deleting(t),
           \A c \in Convs : Present(c) => Up'[c] = Up[c]
    PROVE  TakesInv'
<1> DEFINE tree == tx[t].tree
<1>1. /\ tx[t].pc = "subtree" /\ UNCHANGED <<parent, faults, cut>> /\ state' = Stopped(tree)
      /\ deleting' = deleting \cup (tree \cap Live) /\ subtree_ids(tx[t].on) \subseteq tree
  BY DEF mark_subtree_deleting, SubtreeLocked, Locked, histVars
<1>2. \A c \in Live : parent[c] \in tree => c \in tree
  <2>1. tx[t].on \in Convs
    BY <1>1 DEF Inv, TxOK, Busy
  <2> QED BY <1>1, <2>1, TreeClosed
<1>3. Others(t) /\ tx'[t].on = tx[t].on /\ tx'[t].tree = tree
  BY MarkStep
<1>4. \A c \in Convs : c \in Live' <=> c \in Live
  BY <1>1, StoppedOnly DEF Live
<1>5. NoStartUnderEnded'
  <2>1. /\ \A c \in Convs : c \notin tree => state'[c] = state[c]
        /\ \A c \in Convs : c \in tree => state'[c] # "starting"
    BY <1>1, StoppedOnly
  <2> QED BY <1>1, <1>2, <2>1, StartsTaken DEF TakesInv
<1>6. Marked'
  <2>1. MarkedOne(t)'
    <3>1. Up' = Up /\ Live' = Live
      BY <1>1, <1>4 DEF Up, Live
    <3>2. MarkedOne(t)' <=>
            /\ \A d \in tx'[t].tree : d \in Live' => d \in deleting'
            /\ tx'[t].on \in Live' =>
                 {tx'[t].on} \cup {d \in Live' : tx'[t].on \in Up'[d]} \subseteq tx'[t].tree
      BY DEF MarkedOne, subtree_ids
    <3> QED BY <1>1, <1>3, <3>1, <3>2 DEF subtree_ids
  <2>2. \A c \in Live' : c \in Live
    BY <1>4 DEF Live
  <2> QED BY <1>1, <1>3, <2>1, <2>2, MarksKept DEF Others, TakesInv
<1>7. CutNone'
  BY <1>1 DEF TakesInv, CutNone
<1> QED BY <1>5, <1>6, <1>7 DEF TakesInv

\* A delete's cascade takes what starts under its conversation, and what it
\* takes it had marked.
LEMMA RowsTakes ==
    ASSUME Inv, TreeInv, LockInv, TakesInv, NEW t \in Tasks, delete_subtree_rows(t),
           \A c \in Convs : Present(c) => Up'[c] = Up[c]
    PROVE  TakesInv'
<1> DEFINE gone == IF tx[t].on \in Live THEN subtree_ids(tx[t].on) ELSE {}
<1>1. /\ tx[t].pc = "rows" /\ UNCHANGED <<parent, faults>>
      /\ state' = [c \in Convs |-> IF c \in gone THEN "deleted" ELSE state[c]]
      /\ deleting' = deleting \ gone /\ cut' = cut \cup (gone \ tx[t].tree)
  BY DEF delete_subtree_rows, Locked
<1>2. Went(t, "forget")
  BY RowsStep
<1>3. \A c \in Live : parent[c] \in gone => c \in gone
  BY SubtreeClosed
<1>4. faults = 0 => gone \subseteq tx[t].tree
  BY <1>1 DEF TakesInv, Marked, MarkedOne, Marking
<1> HIDE DEF gone
<1>5. NoStartUnderEnded'
  <2>1. /\ \A c \in Convs : c \notin gone => state'[c] = state[c]
        /\ \A c \in Convs : c \in gone => state'[c] # "starting"
        /\ deleting' \subseteq deleting \cup gone
    BY <1>1
  <2> QED BY <1>1, <1>3, <2>1, StartsTaken DEF TakesInv
<1>6. Marked'
  <2>1. ~Marking(tx'[t]) /\ Others(t)
    BY <1>2 DEF Went, Marking
  <2>2. \A c \in Live' : c \in Live /\ c \notin gone
    BY <1>1 DEF Live
  <2>3. faults' = 0 => faults = 0 /\ \A d \in deleting : d \in Live' => d \in deleting'
    BY <1>1, <2>2
  <2> QED BY <2>1, <2>2, <2>3, MarksKept DEF Others, TakesInv
<1>7. CutNone'
  BY <1>1, <1>4 DEF TakesInv, CutNone
<1> QED BY <1>5, <1>6, <1>7 DEF TakesInv

-----------------------------------------------------------------------------
\* The tree, its locks, and what a stop and a delete take.
LockedInv == TreeInv /\ LockInv /\ TakesInv

\* Every step keeps the tree, the locks and what a stop and a delete take.
LEMMA LockedNext ==
    ASSUME Inv, LockedInv, [Next]_vars, Typed'
    PROVE  LockedInv'
<1> USE DEF LockedInv
<1>1. ASSUME NEW t \in Tasks, Mild(t)
      PROVE  LockedInv'
  BY <1>1, MildStep, StepLocks, MildTakes
<1>2. ASSUME NEW t \in Tasks, Step(t), Still,
             Marking(tx'[t]) => Marking(tx[t]) /\ tx'[t].on = tx[t].on /\ tx'[t].tree = tx[t].tree
      PROVE  LockedInv'
  BY <1>2, StepLocks, StillTakes
<1>3. ASSUME NEW t \in Tasks, lock_conversations(t)
      PROVE  LockedInv'
  <2>1. PICK Old : tx \in [Tasks -> Record(Old)]
    BY DEF Inv, TxOK
  <2>2. tx' = [tx EXCEPT ![t] = [tx[t] EXCEPT !.rest = @ \ {NextRow(t)}]]
    BY <1>3, <2>1 DEF lock_conversations
  <2>3. /\ tx'[t].op = tx[t].op /\ tx'[t].pc = tx[t].pc /\ tx'[t].on = tx[t].on /\ tx'[t].tree = tx[t].tree
    BY <2>1, <2>2 DEF Record
  <2> QED BY <1>2, <1>3, <2>3, LockStep DEF Marking
<1>4. ASSUME NEW t \in Tasks, Start(t)
      PROVE  LockedInv'
  <2>1. CASE start_agent(t)
    <3>1. ~Marking(tx'[t])
      BY <2>1 DEF start_agent, Inv, TxOK, NoTask, Marking
    <3> QED BY <1>2, <2>1, <3>1, AgentStep
  <2>2. CASE CreateCommit(t)
    BY <2>2, CommitLocks, CommitTakes
  <2>3. CASE complete_start(t) \/ fail_start(t) \/ StartFault(t)
    BY <1>1, <2>3, StartMild
  <2> QED BY <1>4, <2>1, <2>2, <2>3 DEF Start
<1>5. ASSUME NEW t \in Tasks, Finish(t) \/ Message(t) \/ Turn(t)
      PROVE  LockedInv'
  BY <1>1, <1>5, FinishMild, MessageMild, TurnMild
<1>6. ASSUME NEW t \in Tasks, stop_agent(t) \/ delete_subtree(t)
      PROVE  LockedInv'
  <2>1. ~Marking(tx'[t])
    BY <1>6 DEF stop_agent, delete_subtree, Inv, TxOK, NoTask, Marking
  <2> QED BY <1>2, <1>6, <2>1, SetOutStep
<1>7. ASSUME NEW t \in Tasks, lock_subtree(t) \/ DeleteRoot(t)
      PROVE  LockedInv'
  <2>1. tx'[t].pc \in {"subtree", "forget"}
    <3>1. PICK Old : tx \in [Tasks -> Record(Old)]
      BY DEF Inv, TxOK
    <3>2. CASE lock_subtree(t)
      <4> DEFINE new == subtree_ids(tx[t].on) \ tx[t].tree
                 r   == [tx[t] EXCEPT !.tree = @ \cup new, !.rest = AllOf(new, "change")]
      <4>1. tx' = [tx EXCEPT ![t] = r] /\ tx[t].pc = "subtree"
        BY <3>1, <3>2 DEF lock_subtree, Locked
      <4>2. r.pc = tx[t].pc
        <5> HIDE DEF new
        <5> QED BY <3>1 DEF Record
      <4> HIDE DEF r
      <4> QED BY <3>1, <4>1, <4>2
    <3>3. CASE DeleteRoot(t) /\ tx[t].on \notin Live
      BY <3>3, GoesOn DEF DeleteRoot, Inv, Went
    <3>4. CASE DeleteRoot(t) /\ tx[t].on \in Live
      <4> DEFINE ids  == subtree_ids(tx[t].on)
                 rest == AllOf(ids \ {Root(tx[t].on)}, "change")
                 r    == [tx[t] EXCEPT !.pc = "subtree", !.tree = ids, !.rest = rest]
      <4>1. tx' = [tx EXCEPT ![t] = r]
        BY <3>1, <3>4 DEF DeleteRoot
      <4>2. r.pc = "subtree"
        <5> HIDE DEF ids, rest
        <5> QED BY <3>1 DEF Record
      <4> HIDE DEF r
      <4> QED BY <3>1, <4>1, <4>2
    <3> QED BY <1>7, <3>2, <3>3, <3>4
  <2> QED BY <1>2, <1>7, <2>1, ReadStep DEF Marking
<1>8. ASSUME NEW t \in Tasks, HaltNext(t)
      PROVE  LockedInv'
  <2>1. Marking(tx'[t]) => Marking(tx[t]) /\ tx'[t].on = tx[t].on /\ tx'[t].tree = tx[t].tree
    BY <1>8, HaltPlace DEF Inv, Marking, Over, NoTask
  <2> QED BY <1>2, <1>8, <2>1, HaltStep
<1>9. ASSUME NEW t \in Tasks, stop_subtree(t)
      PROVE  LockedInv'
  BY <1>9, StopStep, StepLocks, StopTakes
<1>10. ASSUME NEW t \in Tasks, mark_subtree_deleting(t)
       PROVE  LockedInv'
  BY <1>10, MarkStep, StepLocks, MarkTakes
<1>11. ASSUME NEW t \in Tasks, delete_subtree_rows(t)
       PROVE  LockedInv'
  BY <1>11, RowsStep, StepLocks, RowsTakes
<1>12. ASSUME NEW t \in Tasks, DeleteFault(t) \/ unmark_subtree_deleting(t)
       PROVE  LockedInv'
  BY <1>1, <1>12, FaultMild
<1>13. ASSUME UNCHANGED <<parent, state, deleting, cut, faults, tx, held>>
       PROVE  LockedInv'
  <2>1. Up' = Up /\ Live' = Live /\ Unused' = Unused
    BY <1>13 DEF Up, Live, Unused
  <2>2. TreeInv'
    BY <1>13, <2>1 DEF TreeInv, ParentsBelow, UnusedAbove, TasksPresent, TreesUnder, Present
  <2>3. LockInv'
    BY <1>13, <2>1 DEF LockInv, LocksApart, LinkHolds, RootHolds, SubtreeHolds, Root
  <2>4. TakesInv'
    BY <1>13, <2>1 DEF TakesInv, NoStartUnderEnded, Marked, MarkedOne, Marking, subtree_ids, CutNone
  <2> QED BY <2>2, <2>3, <2>4
<1> QED
  <2>1. CASE vars' = vars
    BY <1>13, <2>1 DEF vars, dbVars, lockVars, histVars
  <2>2. ASSUME NEW c \in Convs, deliver_agent_message(c)
        PROVE  LockedInv'
    BY <1>13, <2>2 DEF deliver_agent_message, lockVars, histVars
  <2> QED BY <1>3, <1>4, <1>5, <1>6, <1>7, <1>8, <1>9, <1>10, <1>11, <1>12, <2>1, <2>2 DEF Next, Stop, Delete

\* At first the user's conversation, its agent, and that one's.
LEMMA InitLocked == Init => LockedInv
<1> SUFFICES ASSUME Init PROVE LockedInv
  OBVIOUS
<1>1. /\ parent = [c \in Convs |-> IF c \in {2, 3} THEN c - 1 ELSE 0]
      /\ \A c \in Convs : state[c] # "absent" <=> c \in {1, 2, 3}
      /\ \A c \in Convs : state[c] # "starting"
      /\ \A t \in Tasks : tx[t] = NoTask /\ held[t] = {}
      /\ held = [t \in Tasks |-> {}] /\ cut = {}
  BY DEF Init
<1>2. NoTask.pc = "idle" /\ NoTask.on = 0 /\ NoTask.tree = {} /\ NoTask.rest = {} /\ NoTask.op = "none"
  BY DEF NoTask
<1>3. {1, 2, 3} \subseteq Convs /\ Convs \subseteq Nat /\ 0 \notin Convs
  BY AgentTreeAssumption DEF Convs
<1>4. TreeInv
  <2>1. ParentsBelow
    BY <1>1, <1>3 DEF ParentsBelow, Present
  <2>2. UnusedAbove
    <3>1. \A c \in Convs : c \in Unused <=> c \notin {1, 2, 3}
      BY <1>1, <1>2, <1>3 DEF Unused
    <3>2. \A c, d \in Convs : c \notin {1, 2, 3} /\ c <= d => d \notin {1, 2, 3}
      BY AgentTreeAssumption DEF Convs
    <3> QED BY <3>1, <3>2 DEF UnusedAbove, Unused
  <2>3. TasksPresent /\ TreesUnder
    BY <1>1, <1>2, <1>3 DEF TasksPresent, TreesUnder, Busy
  <2> QED BY <2>1, <2>2, <2>3 DEF TreeInv
<1>5. LockInv
  BY <1>1, <1>2 DEF LockInv, LocksApart, LinkHolds, RootHolds, SubtreeHolds
<1>6. TakesInv
  BY <1>1, <1>2 DEF TakesInv, NoStartUnderEnded, Marked, Marking, CutNone
<1> QED BY <1>4, <1>5, <1>6 DEF LockedInv

\* The tree, the locks and what a stop and a delete take, in every behaviour.
LEMMA AgentTreeLocked == Spec => [](Inv /\ LockedInv)
<1>1. Init => Inv /\ LockedInv
  BY InitInv, InitLocked
<1>2. Inv /\ LockedInv /\ [Next]_vars => (Inv /\ LockedInv)'
  <2> SUFFICES ASSUME Inv, LockedInv, [Next]_vars PROVE Inv' /\ LockedInv'
    OBVIOUS
  <2>1. Inv'
    BY NextKeeps
  <2>2. Typed'
    BY <2>1 DEF Inv, TreeOK, Typed
  <2> QED BY <2>1, <2>2, LockedNext
<1> QED BY <1>1, <1>2, PTL DEF Spec

\* No agent is left starting under a caller that was stopped or is being
\* deleted: create_child keeps its caller's row to its commit, lock_subtree
\* reads until nothing new appears, and mark_subtree_deleting and
\* stop_subtree hold all of what they end.
THEOREM AgentTreeNoStartUnderEnded == Spec => []NoStartUnderEnded
<1>1. Inv /\ LockedInv => NoStartUnderEnded
  BY DEF LockedInv, TakesInv
<1> QED BY <1>1, AgentTreeLocked, PTL

\* A delete's cascade removes no conversation it had not marked
\* (delete_subtree), as long as no outage made a delete undo its mark, or
\* leave it, under another's.
THEOREM AgentTreeCascadeCovered == Spec => [](faults = 0 => CascadeCovered)
<1>1. Inv /\ LockedInv => (faults = 0 => CascadeCovered)
  BY DEF LockedInv, TakesInv, CutNone, CascadeCovered
<1> QED BY <1>1, AgentTreeLocked, PTL

-----------------------------------------------------------------------------
(* No circle of waits.                                                     *)

\* What is under a conversation goes with it; who has no parent is no agent;
\* and a lock is on a row that is there.
LiveUp   == \A c \in Live : parent[c] # 0 => parent[c] \in Live
OwnRoots == \A c \in Live : parent[c] = 0 => state[c] = "own"
HeldLive == \A t \in Tasks : \A h \in held[t] : h[1] \in Live

\* Where a task has locks to take, and where it holds none.
Pairs   == {"complete", "fail", "finish", "after", "recipient"}
Takes   == Pairs \cup {"root", "subtree", "rows", "unmark"}
Nothing == {"idle", "done", "halt", "forget", "revive", "count", "counted", "turn", "run"}
Rowed   == {"running", "unread", "report", "check", "send"}

RestFits(t) ==
    /\ tx[t].rest # {} => tx[t].pc \in Takes \cup {"halt", "forget"}
    /\ tx[t].pc \in Nothing => held[t] = {}
    /\ tx[t].pc = "root" => /\ tx[t].rest \subseteq {<<Root(tx[t].on), "change">>}
                            /\ held[t] # {} => tx[t].rest = {}
                            /\ held[t] \subseteq {<<Root(tx[t].on), "change">>}
    /\ tx[t].pc = "link" => held[t] \subseteq {<<tx[t].by, "change">>}
    /\ rows[t] # {} => tx[t].pc \in Rowed

\* A start's done step, a finish and a message lock an agent's row after its
\* parent's, which they share.
PairOf(t, k, m) ==
    \/ tx[t].rest = {<<parent[k], "share">>, <<k, m>>} /\ held[t] = {}
    \/ tx[t].rest = {<<k, m>>} /\ held[t] \subseteq {<<parent[k], "share">>}
PairFits(t) ==
    /\ tx[t].pc \in {"complete", "fail"} => parent[tx[t].on] = tx[t].by /\ tx[t].by # 0
    /\ tx[t].pc \in Pairs /\ tx[t].rest # {} =>
          \E k \in Convs, m \in {"share", "change"} : Present(k) /\ parent[k] # 0 /\ PairOf(t, k, m)

\* The subtree a task has read has all that is between its conversation and
\* what is in it, and is locked from above.
TreeWhole(t) ==
    /\ tx[t].on \in tx[t].tree
    /\ \A d \in tx[t].tree : \A a \in Up[d] : tx[t].on \in Up[a] => a \in tx[t].tree
FromAbove(t, m) ==
    \A d \in tx[t].tree : <<d, m>> \in held[t] =>
        \A a \in Up[d] : a \in tx[t].tree /\ a \in Live => <<a, m>> \in held[t]
TreeFits(t) ==
    /\ tx[t].pc \in {"subtree", "halt", "rows"} => TreeWhole(t)
    /\ tx[t].pc = "subtree" =>
         /\ tx[t].rest \subseteq AllOf(tx[t].tree, "change")
         /\ held[t] \subseteq AllOf(tx[t].tree, "change") \cup {<<Root(tx[t].on), "change">>}
         /\ tx[t].rest \cap held[t] = {} /\ FromAbove(t, "change")
    /\ tx[t].pc = "rows" =>
         /\ tx[t].rest \cup held[t] \subseteq AllOf(tx[t].tree, "remove") \cup {<<parent[tx[t].on], "share">>}
         /\ \A d \in tx[t].tree : d \in Live => <<d, "remove">> \in tx[t].rest \cup held[t]
         /\ tx[t].rest \cap held[t] = {} /\ FromAbove(t, "remove")
         /\ <<parent[tx[t].on], "share">> \in tx[t].rest => held[t] = {} /\ parent[tx[t].on] # 0

Fits(t) == RestFits(t) /\ PairFits(t) /\ TreeFits(t)
WaitInv == LiveUp /\ OwnRoots /\ HeldLive /\ \A t \in Tasks : Fits(t)

-----------------------------------------------------------------------------
(* Above and below.                                                        *)

\* What is above what is above is above, and has a smaller id.
LEMMA UpBelow ==
    ASSUME Typed, ParentsBelow
    PROVE  \A c \in Convs : Present(c) => \A d \in Up[c] : d <= c /\ d \in Convs /\ Up[d] \subseteq Up[c]
<1> DEFINE Good(c) == \A d \in Up[c] : d <= c /\ d \in Convs /\ Up[d] \subseteq Up[c]
           T == {c \in Convs : Present(c) /\ ~Good(c)}
<1>1. Convs \subseteq Nat /\ Convs \subseteq 0..MaxConvs /\ 0 \in 0..MaxConvs /\ 0 \notin Convs
  BY AgentTreeAssumption DEF Convs
<1> SUFFICES ASSUME T # {} PROVE FALSE
  OBVIOUS
<1>2. PICK c \in T : \A d \in T : c <= d
  BY <1>1, LeastNat
<1>3. Up[c] = {c} \cup Up[parent[c]] /\ Up[0] = {} /\ c \in Nat /\ c \in Convs
  BY <1>1, <1>2, UpNow DEF Unfolds
<1>4. parent[c] # 0 => Present(parent[c]) /\ parent[c] < c /\ parent[c] \in Nat
  BY <1>1, <1>2 DEF ParentsBelow, Present
<1>5. parent[c] # 0 => Good(parent[c])
  <2> SUFFICES ASSUME parent[c] # 0, ~Good(parent[c]) PROVE FALSE
    OBVIOUS
  <2>1. parent[c] \in T
    BY <1>4 DEF Present
  <2>2. c <= parent[c]
    BY <1>2, <2>1
  <2> QED BY <1>3, <1>4, <2>2
<1>6. Good(c)
  <2> SUFFICES ASSUME NEW d \in Up[c] PROVE d <= c /\ d \in Convs /\ Up[d] \subseteq Up[c]
    OBVIOUS
  <2>1. CASE d = c
    BY <1>3, <2>1
  <2>2. CASE d # c
    <3>1. d \in Up[parent[c]] /\ parent[c] # 0
      BY <1>3, <2>2
    <3>2. d <= parent[c] /\ d \in Convs /\ d \in Nat /\ Up[d] \subseteq Up[parent[c]]
      BY <1>1, <1>5, <3>1
    <3> QED BY <1>3, <1>4, <3>1, <3>2
  <2> QED BY <2>1, <2>2
<1> QED BY <1>2, <1>6

\* Of two conversations above a third one is above the other.
LEMMA UpLine ==
    ASSUME Typed, ParentsBelow
    PROVE  \A c \in Convs : Present(c) => \A a, b \in Up[c] : a \in Up[b] \/ b \in Up[a]
<1> DEFINE Good(c) == \A a, b \in Up[c] : a \in Up[b] \/ b \in Up[a]
           T == {c \in Convs : Present(c) /\ ~Good(c)}
<1>1. Convs \subseteq Nat /\ Convs \subseteq 0..MaxConvs /\ 0 \in 0..MaxConvs /\ 0 \notin Convs
  BY AgentTreeAssumption DEF Convs
<1> SUFFICES ASSUME T # {} PROVE FALSE
  OBVIOUS
<1>2. PICK c \in T : \A d \in T : c <= d
  BY <1>1, LeastNat
<1>3. Up[c] = {c} \cup Up[parent[c]] /\ Up[0] = {} /\ c \in Nat /\ c \in Convs
  BY <1>1, <1>2, UpNow DEF Unfolds
<1>4. parent[c] # 0 => Present(parent[c]) /\ parent[c] < c /\ parent[c] \in Nat
  BY <1>1, <1>2 DEF ParentsBelow, Present
<1>5. parent[c] # 0 => Good(parent[c])
  <2> SUFFICES ASSUME parent[c] # 0, ~Good(parent[c]) PROVE FALSE
    OBVIOUS
  <2>1. parent[c] \in T
    BY <1>4 DEF Present
  <2>2. c <= parent[c]
    BY <1>2, <2>1
  <2> QED BY <1>3, <1>4, <2>2
<1>6. Good(c)
  BY <1>3, <1>5
<1> QED BY <1>2, <1>6

\* What is above a conversation that is there is there.
LEMMA UpLive ==
    ASSUME Typed, ParentsBelow, LiveUp
    PROVE  \A c \in Live : \A d \in Up[c] : d \in Live
<1> DEFINE T == {c \in Live : \E d \in Up[c] : d \notin Live}
<1>1. /\ Convs \subseteq Nat /\ Convs \subseteq 0..MaxConvs /\ 0 \in 0..MaxConvs /\ 0 \notin Convs
      /\ Live \subseteq Convs
  BY AgentTreeAssumption DEF Convs, Live
<1> SUFFICES ASSUME T # {} PROVE FALSE
  OBVIOUS
<1>2. PICK c \in T : \A d \in T : c <= d
  <2>1. T \subseteq Nat
    BY <1>1
  <2> QED BY <2>1, LeastNat
<1>3. Up[c] = {c} \cup Up[parent[c]] /\ Up[0] = {} /\ c \in Nat /\ c \in Live
  BY <1>1, <1>2, UpNow DEF Unfolds
<1>4. parent[c] # 0
  BY <1>2, <1>3
<1>5. parent[c] \in Live /\ parent[c] < c /\ parent[c] \in Nat
  BY <1>1, <1>3, <1>4 DEF LiveUp, ParentsBelow, Present, Live
<1>6. parent[c] \in T
  BY <1>2, <1>3, <1>5
<1>7. c <= parent[c]
  BY <1>2, <1>6
<1> QED BY <1>3, <1>5, <1>7

\* Nothing is above what has no parent, and each is above itself.
LEMMA UpEnds ==
    ASSUME Typed, NEW c \in Convs
    PROVE  c \in Up[c] /\ (parent[c] = 0 => Up[c] = {c}) /\ Up[c] = {c} \cup Up[parent[c]]
<1>1. Convs \subseteq 0..MaxConvs /\ 0 \in 0..MaxConvs /\ 0 \notin Convs
  BY AgentTreeAssumption DEF Convs
<1>2. \A d \in 0..MaxConvs : Up[d] = IF d = 0 THEN {} ELSE {d} \cup Up[parent[d]]
  BY UpNow DEF Unfolds
<1>3. Up[0] = {}
  BY <1>1, <1>2
<1>4. Up[c] = {c} \cup Up[parent[c]]
  BY <1>1, <1>2
<1> QED BY <1>3, <1>4

\* The row a task locks next is one of those it has left, the least.
LEMMA NextLeast ==
    ASSUME NEW t \in Tasks, tx[t].rest # {}, \A r \in tx[t].rest : r[1] \in Convs
    PROVE  NextRow(t) \in tx[t].rest /\ \A s \in tx[t].rest : NextRow(t)[1] <= s[1]
<1> DEFINE ids == {r[1] : r \in tx[t].rest}
<1>1. ids \subseteq Nat /\ ids # {}
  BY DEF Convs
<1>2. PICK n \in ids : \A m \in ids : n <= m
  BY <1>1, LeastNat
<1>3. \E r \in tx[t].rest : \A s \in tx[t].rest : r[1] <= s[1]
  BY <1>2
<1> QED BY <1>3 DEF NextRow

-----------------------------------------------------------------------------
(* Who waits for whom.                                                     *)

Goal(t)   == NextRow(t)[1]
Waiter(t) == Locking(t) /\ held[t] # {} /\ Goal(t) \in Live

\* A task that waits and holds: with its parent's row shared, for a row; with
\* its subtree's locks down to some, for more of it; with the root's alone.
Sharing(t) == \A h \in held[t] : h[1] = parent[Goal(t)] /\ h[2] = "share"
Heading(t, m) ==
    /\ <<tx[t].on, m>> \in held[t] /\ Goal(t) \in tx[t].tree /\ <<Goal(t), m>> \notin held[t]
    /\ TreeWhole(t) /\ FromAbove(t, m)
    /\ \A h \in held[t] : \/ h[1] \in tx[t].tree /\ <<h[1], m>> \in held[t]
                          \/ parent[h[1]] = 0
                          \/ h[1] = parent[tx[t].on]
Rooting(t) == \A h \in held[t] : parent[h[1]] = 0

\* A conversation's root is above it, and has no parent.
LEMMA RootAbove ==
    ASSUME Typed, ParentsBelow, NEW c \in Convs, Present(c)
    PROVE  Root(c) \in Up[c] /\ parent[Root(c)] = 0 /\ (parent[c] = 0 => Root(c) = c)
<1>1. Root(c) \in Up[c] /\ parent[Root(c)] = 0
  BY OneRoot DEF Root
<1>2. parent[c] = 0 => Up[c] = {c}
  BY UpEnds
<1> QED BY <1>1, <1>2

\* Every task that waits and holds is of these three kinds, and waits for a row
\* that has a parent.
LEMMA Kinds ==
    ASSUME Inv, LockedInv, WaitInv, faults = 0, NEW t \in Tasks, Waiter(t)
    PROVE  /\ parent[Goal(t)] # 0
           /\ Sharing(t) \/ Heading(t, "change") \/ Heading(t, "remove") \/ Rooting(t)
<1> DEFINE n  == Goal(t)
           on == tx[t].on
           tree == tx[t].tree
<1>1. Typed /\ TreeInv /\ ParentsBelow /\ LockInv /\ Fits(t) /\ LiveUp /\ HeldLive
  BY DEF Inv, TreeOK, Typed, LockedInv, TreeInv, WaitInv
<1>2. tx[t].rest # {} /\ held[t] # {} /\ n \in Live /\ n \in Convs /\ Present(n)
  BY DEF Waiter, Locking, Live, Present
<1>3. tx[t].pc \in Pairs \cup {"subtree", "rows"}
  <2>1. tx[t].pc # "unmark"
    BY DEF Inv, NoUnmark
  <2> QED BY <1>1, <1>2, <2>1 DEF Fits, RestFits, Takes, Waiter, Locking
<1>4. CASE tx[t].pc \in Pairs
  <2>1. PICK k \in Convs, m \in {"share", "change"} : Present(k) /\ parent[k] # 0 /\ PairOf(t, k, m)
    BY <1>1, <1>2, <1>4 DEF Fits, PairFits
  <2>2. tx[t].rest = {<<k, m>>} /\ held[t] \subseteq {<<parent[k], "share">>}
    BY <1>2, <2>1 DEF PairOf
  <2>3. NextRow(t) = <<k, m>>
    <3>1. <<k, m>>[1] = k
      OBVIOUS
    <3>2. \A r \in tx[t].rest : r[1] \in Convs
      BY <2>2, <3>1
    <3>3. NextRow(t) \in tx[t].rest
      BY <1>2, <3>2, NextLeast
    <3> QED BY <2>2, <3>3
  <2>4. n = k
    BY <2>3 DEF Goal
  <2> QED BY <2>1, <2>2, <2>4 DEF Sharing
<1>5. ASSUME NEW m \in {"change", "remove"}, TreeWhole(t), FromAbove(t, m), tx[t].rest \cap held[t] = {},
             NextRow(t) = <<n, m>>, NextRow(t) \in tx[t].rest, n \in tree,
             NEW d \in tree, <<d, m>> \in held[t]
      PROVE  parent[n] # 0 /\ <<on, m>> \in held[t] /\ <<n, m>> \notin held[t]
  <2>1. on \in Up[n] /\ on \in Up[d]
    BY <1>1, <1>5 DEF TreeInv, TreesUnder
  <2>2. on \in Live
    BY <1>1, <1>2, <2>1, UpLive
  <2>3. <<on, m>> \in held[t]
    BY <1>5, <2>1, <2>2 DEF TreeWhole, FromAbove
  <2>4. <<n, m>> \notin held[t]
    BY <1>5
  <2>5. parent[n] # 0
    <3>1. parent[n] = 0 => Up[n] = {n}
      BY <1>1, <1>2, UpEnds
    <3> QED BY <2>1, <2>3, <2>4, <3>1
  <2> QED BY <2>3, <2>4, <2>5
<1>6. CASE tx[t].pc = "subtree"
  <2>1. /\ TreeWhole(t) /\ FromAbove(t, "change") /\ tx[t].rest \cap held[t] = {}
        /\ tx[t].rest \subseteq AllOf(tree, "change")
        /\ held[t] \subseteq AllOf(tree, "change") \cup {<<Root(on), "change">>}
    BY <1>1, <1>6 DEF Fits, TreeFits
  <2>2. tree \subseteq Convs /\ \A d \in tree : on \in Up[d]
    BY <1>1 DEF TreeInv, TreesUnder, Present
  <2>3. NextRow(t) \in tx[t].rest
    BY <1>2, <2>1, <2>2, NextLeast DEF AllOf
  <2>4. NextRow(t) = <<n, "change">> /\ n \in tree
    BY <2>1, <2>3 DEF Goal, AllOf
  <2>5. on \in Convs /\ Present(on)
    BY <1>1, <1>6 DEF TreeInv, TasksPresent, Busy, Present
  <2>6. parent[Root(on)] = 0 /\ (parent[on] = 0 => Root(on) = on)
    BY <1>1, <2>5, RootAbove
  <2>7. CASE \E d \in tree : <<d, "change">> \in held[t]
    <3>1. parent[n] # 0 /\ <<on, "change">> \in held[t] /\ <<n, "change">> \notin held[t]
      BY <1>5, <2>1, <2>3, <2>4, <2>7
    <3> QED BY <2>1, <2>4, <2>6, <3>1 DEF Heading, AllOf
  <2>8. CASE ~\E d \in tree : <<d, "change">> \in held[t]
    <3>1. held[t] \subseteq {<<Root(on), "change">>} /\ Root(on) \notin tree
      BY <1>2, <2>1, <2>8 DEF AllOf
    <3>2. parent[n] # 0
      <4>1. parent[n] = 0 => Up[n] = {n}
        BY <1>1, <1>2, UpEnds
      <4> QED BY <2>1, <2>2, <2>4, <2>6, <3>1, <4>1 DEF TreeWhole
    <3> QED BY <2>6, <3>1, <3>2 DEF Rooting
  <2> QED BY <2>7, <2>8
<1>7. CASE tx[t].pc = "rows"
  <2>1. /\ TreeWhole(t) /\ FromAbove(t, "remove") /\ tx[t].rest \cap held[t] = {}
        /\ tx[t].rest \cup held[t] \subseteq AllOf(tree, "remove") \cup {<<parent[on], "share">>}
        /\ \A d \in tree : d \in Live => <<d, "remove">> \in tx[t].rest \cup held[t]
        /\ <<parent[on], "share">> \notin tx[t].rest
    BY <1>1, <1>2, <1>7 DEF Fits, TreeFits
  <2>2. tree \subseteq Convs /\ \A d \in tree : on \in Up[d]
    BY <1>1 DEF TreeInv, TreesUnder, Present
  <2>3. tx[t].rest \subseteq AllOf(tree, "remove")
    BY <2>1
  <2>4. NextRow(t) \in tx[t].rest /\ \A s \in tx[t].rest : NextRow(t)[1] <= s[1]
    BY <1>2, <2>2, <2>3, NextLeast DEF AllOf
  <2>5. NextRow(t) = <<n, "remove">> /\ n \in tree
    BY <2>3, <2>4 DEF Goal, AllOf
  <2>6. CASE \E d \in tree : <<d, "remove">> \in held[t]
    <3>1. parent[n] # 0 /\ <<on, "remove">> \in held[t] /\ <<n, "remove">> \notin held[t]
      BY <1>5, <2>1, <2>4, <2>5, <2>6
    <3> QED BY <2>1, <2>5, <3>1 DEF Heading, AllOf
  <2>7. CASE ~\E d \in tree : <<d, "remove">> \in held[t]
    <3>1. held[t] = {<<parent[on], "share">>}
      BY <1>2, <2>1, <2>7 DEF AllOf
    <3>2. parent[on] \in Live
      <4>1. <<parent[on], "share">>[1] \in Live
        BY <1>1, <3>1 DEF HeldLive
      <4> QED BY <4>1
    <3>3. parent[on] # 0
      BY <3>2 DEF Live, Convs
    <3>4. on \in Live /\ on <= n
      <4>1. on \in Up[n]
        BY <2>2, <2>5
      <4> QED BY <1>1, <1>2, <4>1, UpLive, UpBelow
    <3>5. n <= on
      <4>1. <<on, "remove">> \in tx[t].rest
        BY <2>1, <2>7, <3>4 DEF TreeWhole
      <4> QED BY <2>4, <2>5, <4>1
    <3>6. n = on
      BY <1>2, <3>4, <3>5 DEF Live, Convs
    <3> QED BY <3>1, <3>3, <3>6 DEF Sharing
  <2> QED BY <2>6, <2>7
<1> QED BY <1>3, <1>4, <1>6, <1>7

\* A set of conversations has a last one.
LEMMA LastConv ==
    ASSUME NEW T, T \subseteq Convs, T # {}
    PROVE  \E x \in T : \A y \in T : y <= x
<1> DEFINE S == {MaxConvs - x : x \in T}
<1>1. S \subseteq Nat /\ S # {}
  <2>1. \A x \in T : MaxConvs - x \in Nat
    BY AgentTreeAssumption DEF Convs
  <2> QED BY <2>1
<1>2. PICK n \in S : \A m \in S : n <= m
  BY <1>1, LeastNat
<1>3. PICK x \in T : n = MaxConvs - x
  BY <1>2
<1>4. ASSUME NEW y \in T PROVE y <= x
  <2>1. MaxConvs - x <= MaxConvs - y
    BY <1>2, <1>3
  <2> QED BY <2>1, AgentTreeAssumption DEF Convs
<1> QED BY <1>4

\* Task t waits for a lock of task u's.
Hits(t, u) == t # u /\ \E h \in held[u] : h[1] = Goal(t) /\ Conflict(NextRow(t)[2], h[2])

\* A task with its subtree's locks waits below its conversation.
LEMMA HeadBelow ==
    ASSUME Inv, LockedInv, WaitInv, NEW t \in Tasks, Waiter(t), NEW m \in {"change", "remove"}, Heading(t, m)
    PROVE  /\ tx[t].on \in Up[Goal(t)] /\ tx[t].on \in Live /\ tx[t].on < Goal(t)
<1>1. Typed /\ ParentsBelow /\ HeldLive /\ TreesUnder /\ LiveUp
  BY DEF Inv, TreeOK, Typed, LockedInv, TreeInv, WaitInv
<1>2. tx[t].on \in Up[Goal(t)] /\ tx[t].on # Goal(t)
  BY <1>1 DEF Heading, TreesUnder
<1>3. Goal(t) \in Live /\ Goal(t) \in Convs /\ Present(Goal(t))
  BY DEF Waiter, Live, Present
<1>4. tx[t].on <= Goal(t) /\ tx[t].on \in Convs /\ tx[t].on \in Live
  BY <1>1, <1>2, <1>3, UpBelow, UpLive
<1> QED BY <1>2, <1>3, <1>4 DEF Convs

\* Of two such tasks, the one with a lock below the other's conversation has
\* its own below that too.
LEMMA HeadsApart ==
    ASSUME Inv, LockedInv, WaitInv, NEW t \in Tasks, NEW u \in Tasks, t # u, Waiter(t), Waiter(u),
           NEW m \in {"change", "remove"}, NEW n \in {"change", "remove"}, Heading(t, m), Heading(u, n),
           NEW c \in Live, c \in tx[u].tree, <<c, n>> \in held[u], tx[t].on \in Up[c]
    PROVE  tx[t].on < tx[u].on
<1> DEFINE a == tx[t].on
           b == tx[u].on
<1>1. Typed /\ ParentsBelow /\ TreesUnder /\ LocksApart
  BY DEF Inv, TreeOK, Typed, LockedInv, TreeInv, LockInv
<1>2. a \in Live /\ b \in Live /\ a \in Nat /\ b \in Nat
  BY HeadBelow DEF Live, Convs
<1>3. b \in Up[c] /\ Present(c) /\ c \in Convs
  BY <1>1 DEF TreesUnder, Live, Present
<1>4. <<a, n>> \notin held[u]
  <2> SUFFICES ASSUME <<a, n>> \in held[u] PROVE FALSE
    OBVIOUS
  <2>1. <<a, m>> \in held[t]
    BY DEF Heading
  <2>2. Conflict(m, n)
    BY DEF Conflict
  <2>3. <<a, m>>[1] = <<a, n>>[1] /\ <<a, m>>[2] = m /\ <<a, n>>[2] = n
    OBVIOUS
  <2> QED BY <1>1, <2>1, <2>2, <2>3 DEF LocksApart
<1>5. b \notin Up[a]
  <2> SUFFICES ASSUME b \in Up[a] PROVE FALSE
    OBVIOUS
  <2>1. a \in tx[u].tree
    BY <1>3 DEF Heading, TreeWhole
  <2> QED BY <1>2, <1>4, <2>1 DEF Heading, FromAbove
<1>6. a \in Up[b]
  BY <1>1, <1>3, <1>5, UpLine
<1>7. a <= b
  BY <1>1, <1>2, <1>6, UpBelow DEF Live, Present
<1>8. a # b
  BY <1>4 DEF Heading
<1> QED BY <1>2, <1>7, <1>8

\* Whom a waiting task waits for: one with its parent's row shared, for what is
\* under the row waited for; or one with its subtree's locks.
LEMMA HitKinds ==
    ASSUME Inv, LockedInv, WaitInv, NEW t \in Tasks, NEW u \in Tasks, Waiter(t), Waiter(u), Hits(t, u),
           parent[Goal(t)] # 0
    PROVE  /\ ~Rooting(u)
           /\ Sharing(u) => Goal(t) = parent[Goal(u)] /\ Goal(t) < Goal(u) /\ Up[Goal(t)] \subseteq Up[Goal(u)]
           /\ \A m \in {"change", "remove"} : Heading(u, m) =>
                \/ Goal(t) = parent[tx[u].on] /\ Goal(t) < tx[u].on
                \/ Goal(t) \in tx[u].tree /\ <<Goal(t), m>> \in held[u]
<1>1. Typed /\ ParentsBelow
  BY DEF Inv, TreeOK, Typed, LockedInv, TreeInv
<1>2. Goal(t) \in Live /\ Goal(u) \in Live /\ Goal(t) # 0
  BY DEF Waiter, Live, Convs
<1>3. PICK h \in held[u] : h[1] = Goal(t)
  BY DEF Hits
<1>4. ASSUME NEW c \in Live, Goal(t) = parent[c]
      PROVE  Goal(t) < c /\ Up[Goal(t)] \subseteq Up[c]
  <2>1. Present(c) /\ c \in Convs
    BY DEF Live, Present
  <2> QED BY <1>1, <1>2, <1>4, <2>1, UpEnds DEF ParentsBelow
<1>5. ~Rooting(u)
  BY <1>3 DEF Rooting
<1>6. Sharing(u) => Goal(t) = parent[Goal(u)]
  BY <1>3 DEF Sharing
<1>7. ASSUME NEW m \in {"change", "remove"}, Heading(u, m)
      PROVE  \/ Goal(t) = parent[tx[u].on] /\ Goal(t) < tx[u].on
             \/ Goal(t) \in tx[u].tree /\ <<Goal(t), m>> \in held[u]
  <2>1. tx[u].on \in Live
    BY <1>7, HeadBelow
  <2>2. \/ Goal(t) \in tx[u].tree /\ <<Goal(t), m>> \in held[u]
        \/ Goal(t) = parent[tx[u].on]
    BY <1>3, <1>7 DEF Heading
  <2> QED BY <1>4, <2>1, <2>2
<1> QED BY <1>2, <1>4, <1>5, <1>6, <1>7

\* Tasks that wait and hold, each for another of them, are none.
LEMMA NoRing ==
    ASSUME Inv, LockedInv, WaitInv, NEW R, R \subseteq Tasks, R # {},
           \A t \in R : /\ Waiter(t) /\ parent[Goal(t)] # 0
                        /\ Sharing(t) \/ Heading(t, "change") \/ Heading(t, "remove")
                        /\ \E u \in R : Hits(t, u)
    PROVE  FALSE
<1> DEFINE Heads == {t \in R : \E m \in {"change", "remove"} : Heading(t, m)}
<1>1. Typed /\ ParentsBelow /\ Live \subseteq Convs /\ \A c \in Live : Present(c)
  BY DEF Inv, TreeOK, Typed, LockedInv, TreeInv, Live, Present
<1>2. \A t \in R : Goal(t) \in Live /\ Goal(t) \in Nat
  BY DEF Waiter, Live, Convs
<1>3. ASSUME NEW t \in R, NEW m \in {"change", "remove"}, Heading(t, m)
      PROVE  tx[t].on \in Up[Goal(t)] /\ tx[t].on \in Live /\ tx[t].on \in Nat
  <2>1. tx[t].on \in Up[Goal(t)] /\ tx[t].on \in Live
    BY <1>3, HeadBelow
  <2> QED BY <2>1 DEF Live, Convs
\* Of those that share alone, the last would wait for one after it.
<1>4. ASSUME NEW Q, Q \subseteq R, Q # {},
             \A q \in Q : \A w \in R : Hits(q, w) /\ Sharing(w) => w \in Q
      PROVE  \E q \in Q : \E w \in R : /\ Hits(q, w) /\ ~Sharing(w)
                                       /\ \E m \in {"change", "remove"} : Heading(w, m)
  <2> DEFINE goals == {Goal(q) : q \in Q}
  <2>1. goals \subseteq Convs /\ goals # {}
    BY <1>1, <1>2, <1>4
  <2>2. PICK g \in goals : \A x \in goals : x <= g
    BY <2>1, LastConv
  <2>3. PICK q \in Q : g = Goal(q)
    BY <2>2
  <2>4. PICK w \in R : Hits(q, w)
    BY <1>4
  <2>5. ~Sharing(w)
    <3> SUFFICES ASSUME Sharing(w) PROVE FALSE
      OBVIOUS
    <3>1. Goal(q) < Goal(w)
      BY <1>4, <2>4, HitKinds
    <3>2. w \in Q
      BY <1>4, <2>4
    <3>3. Goal(w) <= Goal(q)
      BY <2>2, <2>3, <3>2
    <3>4. Goal(w) \in Nat /\ Goal(q) \in Nat
      BY <1>2, <1>4
    <3> QED BY <3>1, <3>3, <3>4
  <2> QED BY <2>4, <2>5
\* So some have locks on their subtrees; let u be the one whose is the last.
<1>5. Heads # {}
  BY <1>4
<1>6. PICK u \in Heads : \A t \in Heads : tx[t].on <= tx[u].on
  <2> DEFINE ons == {tx[t].on : t \in Heads}
  <2>1. ons \subseteq Convs /\ ons # {}
    BY <1>1, <1>5, HeadBelow
  <2>2. PICK n \in ons : \A x \in ons : x <= n
    BY <2>1, LastConv
  <2> QED BY <2>2
<1>7. PICK m \in {"change", "remove"} : Heading(u, m)
  BY <1>6
<1>8. tx[u].on \in Up[Goal(u)] /\ tx[u].on \in Nat /\ u \in R /\ u \in Tasks
  BY <1>6, <1>7, <1>3
\* Whoever waits at or below the row that u waits for waits for no other such.
<1>9. ASSUME NEW q \in R, Goal(u) \in Up[Goal(q)],
             NEW w \in R, Hits(q, w), NEW n \in {"change", "remove"}, Heading(w, n)
      PROVE  FALSE
  <2>1. tx[u].on \in Up[Goal(q)] /\ tx[u].on <= Goal(q)
    BY <1>1, <1>2, <1>8, <1>9, UpBelow
  <2>2. w \in Heads /\ tx[w].on <= tx[u].on /\ tx[w].on \in Nat
    BY <1>6, <1>9, <1>3
  <2>3. CASE Goal(q) < tx[w].on
    BY <1>2, <1>8, <2>1, <2>2, <2>3
  <2>4. CASE Goal(q) \in tx[w].tree /\ <<Goal(q), n>> \in held[w]
    <3>1. CASE w = u
      BY <1>2, <1>9, <2>4, <3>1 DEF Heading, FromAbove
    <3>2. CASE w # u
      <4>1. tx[u].on < tx[w].on
        BY <1>2, <1>7, <1>8, <1>9, <2>1, <2>4, <3>2, HeadsApart
      <4> QED BY <1>8, <2>2, <4>1
    <3> QED BY <3>1, <3>2
  <2> QED BY <1>9, <2>3, <2>4, HitKinds
<1>10. Goal(u) \in Up[Goal(u)]
  BY <1>1, <1>2, <1>8, UpEnds
\* So u waits for one that shares, and those below it again for one below.
<1>11. DEFINE Q == {q \in R : Sharing(q) /\ Goal(u) \in Up[Goal(q)]}
<1>12. Q # {}
  <2>1. PICK v \in R : Hits(u, v)
    BY <1>8
  <2>2. Sharing(v)
    BY <1>8, <1>9, <1>10, <2>1
  <2>3. Goal(u) \in Up[Goal(v)]
    BY <1>8, <1>10, <2>1, <2>2, HitKinds
  <2> QED BY <2>2, <2>3
<1>13. \A q \in Q : \A w \in R : Hits(q, w) /\ Sharing(w) => w \in Q
  BY HitKinds
<1>14. \E q \in Q : \E w \in R : /\ Hits(q, w) /\ ~Sharing(w)
                                 /\ \E n \in {"change", "remove"} : Heading(w, n)
  BY <1>4, <1>12, <1>13
<1> QED BY <1>9, <1>14

\* Who has an agents row locked waits for nothing.
LEMMA RowedWaits ==
    ASSUME WaitInv, NEW u \in Tasks, rows[u] # {}
    PROVE  Wants(u) = {} /\ WantsRows(u) = {}
<1>1. tx[u].pc \in Rowed /\ tx[u].rest = {}
  BY DEF WaitInv, Fits, RestFits, Rowed, Takes, Pairs
<1>2. ~Locking(u) /\ ~Locked(u, "rows")
  BY <1>1 DEF Locking, Locked, Rowed
<1>3. Wants(u) = {}
  BY <1>1, <1>2 DEF Wants, Rowed
<1>4. WantsRows(u) = {}
  BY <1>1, <1>2 DEF WantsRows, Rowed
<1> QED BY <1>3, <1>4

\* A delete about to remove its rows waits for no lock: it has them all.
LEMMA CascadeWaits ==
    ASSUME Inv, LockedInv, WaitInv, faults = 0, NEW t \in Tasks, Locked(t, "rows"), NEW u \in Tasks, t # u
    PROVE  \A r \in Wants(t), h \in held[u] : r[1] = h[1] => ~Conflict(r[2], h[2])
<1>1. tx[t].pc = "rows" /\ tx[t].rest = {} /\ tx[t].on \in Convs
  BY DEF Locked, Inv, TxOK, Busy
<1>2. Wants(t) = AllOf(subtree_ids(tx[t].on) \cap Live, "remove")
  BY <1>1 DEF Wants, Locked, Locking
<1>3. subtree_ids(tx[t].on) \cap Live \subseteq tx[t].tree
  <2>1. CASE tx[t].on \in Live
    BY <1>1, <2>1 DEF LockedInv, TakesInv, Marked, MarkedOne, Marking
  <2>2. CASE tx[t].on \notin Live
    <3>1. \A d \in Live : tx[t].on \notin Up[d]
      BY <2>2, UpLive DEF Inv, TreeOK, Typed, LockedInv, TreeInv, WaitInv
    <3> QED BY <2>2, <3>1 DEF subtree_ids
  <2> QED BY <2>1, <2>2
<1>4. \A d \in Live : d \in tx[t].tree => <<d, "remove">> \in held[t]
  BY <1>1 DEF WaitInv, Fits, TreeFits
<1> SUFFICES ASSUME NEW d \in Live, d \in tx[t].tree, NEW h \in held[u], d = h[1]
             PROVE  ~Conflict("remove", h[2])
  BY <1>2, <1>3 DEF AllOf
<1>5. <<d, "remove">> \in held[t]
  BY <1>4
<1>6. <<d, "remove">>[1] = h[1] /\ <<d, "remove">>[2] = "remove"
  OBVIOUS
<1> QED BY <1>5, <1>6 DEF LockedInv, LockInv, LocksApart

\* Who waits for a lock and has one for a removal has read its subtree.
LEMMA RemovesRows ==
    ASSUME Inv, LockedInv, WaitInv, faults = 0, NEW u \in Tasks, Locking(u), NEW h \in held[u], h[2] = "remove"
    PROVE  tx[u].pc = "rows" /\ h[1] \in tx[u].tree
<1>1. Fits(u)
  BY DEF WaitInv
<1>2. tx[u].pc \in Pairs \cup {"root", "subtree", "rows"} /\ tx[u].rest # {}
  <2>1. tx[u].pc # "unmark"
    BY DEF Inv, NoUnmark
  <2> QED BY <1>1, <2>1 DEF Fits, RestFits, Takes, Locking
<1>3. CASE tx[u].pc \in Pairs
  <2>1. \E k \in Convs : held[u] \subseteq {<<parent[k], "share">>}
    BY <1>1, <1>2, <1>3 DEF Fits, PairFits, PairOf
  <2> QED BY <2>1
<1>4. CASE tx[u].pc = "root"
  BY <1>1, <1>4 DEF Fits, RestFits
<1>5. CASE tx[u].pc = "subtree"
  BY <1>1, <1>5 DEF Fits, TreeFits, AllOf
<1>6. CASE tx[u].pc = "rows"
  BY <1>1, <1>6 DEF Fits, TreeFits, AllOf
<1> QED BY <1>2, <1>3, <1>4, <1>5, <1>6

\* A create's foreign key waits for none of those that wait for a lock: one
\* with its root removed would be deleting its caller.
LEMMA LinkWaits ==
    ASSUME Inv, LockedInv, WaitInv, faults = 0, NEW t \in Tasks, tx[t].pc = "link",
           NEW u \in Tasks, Locking(u)
    PROVE  \A r \in Wants(t), h \in held[u] : r[1] = h[1] => ~Conflict(r[2], h[2])
<1> DEFINE by == tx[t].by
           root == Root(by)
           on == tx[u].on
<1>1. ~Locking(t)
  BY DEF WaitInv, Fits, RestFits, Takes, Pairs, Locking
<1>2. Wants(t) = {<<root, "share">>}
  <2>1. ~Locked(t, "rows")
    BY DEF Locked
  <2> QED BY <1>1, <2>1 DEF Wants
<1> SUFFICES ASSUME NEW h \in held[u], h[1] = root, Conflict("share", h[2]) PROVE FALSE
  BY <1>2
<1>3. h[2] = "remove"
  BY DEF Conflict
<1>4. tx[u].pc = "rows" /\ root \in tx[u].tree
  BY <1>3, RemovesRows
<1>5. Typed /\ ParentsBelow /\ by \in Live \ deleting /\ by \in Convs /\ Present(by)
  BY DEF Inv, TreeOK, Typed, LockedInv, TreeInv, LockInv, LinkHolds, Live, Present
<1>6. root \in Up[by] /\ parent[root] = 0 /\ root \in Live /\ root \in Convs
  BY <1>5, RootAbove, UpLive DEF WaitInv, Live
<1>7. Up[root] = {root} /\ on \in Up[root]
  BY <1>4, <1>5, <1>6, UpEnds DEF LockedInv, TreeInv, TreesUnder
<1>8. on = root /\ by \in subtree_ids(on)
  BY <1>5, <1>6, <1>7 DEF subtree_ids
<1>9. by \in deleting
  BY <1>4, <1>5, <1>6, <1>8 DEF LockedInv, TakesInv, Marked, MarkedOne, Marking
<1> QED BY <1>5, <1>9

\* So tasks that wait for each other in a circle are none.
LEMMA NoCircle ==
    ASSUME Inv, LockedInv, WaitInv, faults = 0
    PROVE  NoWaitCycle
<1> SUFFICES ASSUME NEW ts \in SUBSET Tasks, ts # {}, \A t \in ts : \E u \in ts : WaitsFor(t, u)
             PROVE  FALSE
  BY DEF NoWaitCycle
<1>1. \A t \in ts : rows[t] = {}
  <2> SUFFICES ASSUME NEW t \in ts, rows[t] # {} PROVE FALSE
    OBVIOUS
  <2>1. Wants(t) = {} /\ WantsRows(t) = {}
    BY RowedWaits
  <2> QED BY <2>1 DEF WaitsFor
<1>2. \A t, u \in ts : WaitsFor(t, u) =>
         t # u /\ \E r \in Wants(t), h \in held[u] : r[1] = h[1] /\ Conflict(r[2], h[2])
  BY <1>1 DEF WaitsFor
<1>3. \A t \in ts : Wants(t) # {} /\ ~Locked(t, "rows")
  BY <1>2, CascadeWaits
<1>4. \A t \in ts : Locking(t) \/ tx[t].pc = "link"
  BY <1>3 DEF Wants
\* A task at its foreign key holds no lock that another waits to take.
<1>5. \A t, u \in ts : WaitsFor(t, u) /\ tx[t].pc = "link" => tx[u].pc = "link"
  BY <1>2, <1>4, LinkWaits
<1>6. \A t, u \in ts : WaitsFor(t, u) /\ tx[t].pc = "link" => FALSE
  <2> SUFFICES ASSUME NEW t \in ts, NEW u \in ts, WaitsFor(t, u), tx[t].pc = "link" PROVE FALSE
    OBVIOUS
  <2>1. tx[u].pc = "link" /\ ~Locking(t)
    BY <1>5 DEF WaitInv, Fits, RestFits, Takes, Pairs, Locking
  <2>2. held[u] \subseteq {<<tx[u].by, "change">>}
    BY <2>1 DEF WaitInv, Fits, RestFits
  <2>3. Wants(t) = {<<Root(tx[t].by), "share">>}
    BY <1>3, <2>1 DEF Wants
  <2>4. \A r \in Wants(t), h \in held[u] : r[2] = "share" /\ h[2] = "change"
    BY <2>2, <2>3
  <2> QED BY <1>2, <2>4 DEF Conflict
<1>7. \A t \in ts : Locking(t) /\ Wants(t) = {NextRow(t)} /\ \E u \in ts : Hits(t, u)
  <2> SUFFICES ASSUME NEW t \in ts
               PROVE  Locking(t) /\ Wants(t) = {NextRow(t)} /\ \E u \in ts : Hits(t, u)
    OBVIOUS
  <2>1. PICK u \in ts : WaitsFor(t, u)
    OBVIOUS
  <2>2. Locking(t) /\ tx[t].pc # "link"
    BY <1>4, <1>6, <2>1
  <2>3. Wants(t) = {NextRow(t)}
    BY <1>3, <2>2 DEF Wants
  <2> QED BY <1>2, <2>1, <2>2, <2>3 DEF Hits, Goal
\* What is waited for is there.
<1>8. \A t, u \in ts : Hits(t, u) => Goal(t) \in Live /\ held[u] # {}
  BY DEF Hits, WaitInv, HeldLive
<1> DEFINE H == {u \in ts : \E t \in ts : Hits(t, u)}
           R == {u \in H : \E t \in H : Hits(t, u)}
<1>9. \A u \in H : /\ u \in Tasks /\ Waiter(u) /\ parent[Goal(u)] # 0
                   /\ Sharing(u) \/ Heading(u, "change") \/ Heading(u, "remove") \/ Rooting(u)
  <2> SUFFICES ASSUME NEW u \in H
               PROVE  /\ u \in Tasks /\ Waiter(u) /\ parent[Goal(u)] # 0
                      /\ Sharing(u) \/ Heading(u, "change") \/ Heading(u, "remove") \/ Rooting(u)
    OBVIOUS
  <2>1. u \in Tasks /\ Waiter(u)
    BY <1>7, <1>8 DEF Waiter
  <2> QED BY <2>1, Kinds
<1>10. \A u \in H : \E v \in R : Hits(u, v)
  BY <1>7
<1>11. H # {}
  BY <1>7
<1>12. \A u \in R : ~Rooting(u)
  BY <1>9, HitKinds
<1>13. R # {} /\ R \subseteq Tasks
  BY <1>10, <1>11
<1>14. \A t \in R : /\ Waiter(t) /\ parent[Goal(t)] # 0
                    /\ Sharing(t) \/ Heading(t, "change") \/ Heading(t, "remove")
                    /\ \E u \in R : Hits(t, u)
  BY <1>9, <1>10, <1>12
<1> HIDE DEF R
<1> QED BY <1>13, <1>14, NoRing

-----------------------------------------------------------------------------
(* What keeps it.                                                          *)

\* What a step of task t leaves of the other tasks: a halt ends some, which
\* hold nothing.
WaitFrame(t) == \A u \in Tasks \ {t} :
    /\ held'[u] = held[u] /\ rows'[u] = rows[u]
    /\ tx'[u] = tx[u] \/ (tx'[u] = Over /\ tx[u].pc \in {"counted", "turn", "run"})

\* A task that neither moved nor locked fits still.
LEMMA FitsKept ==
    ASSUME Typed, Typed', TreeInv, NEW t \in Tasks, TreeFrame(t), \A c \in Convs : Present(c) => Up'[c] = Up[c],
           NEW u \in Tasks, tx'[u] = tx[u], held'[u] = held[u], rows'[u] = rows[u], Fits(u)
    PROVE  Fits(u)'
<1> DEFINE on == tx[u].on
<1>1. ParentsBelow /\ \A c \in Convs : Present(c) => parent'[c] = parent[c] /\ Present(c)'
  BY DEF TreeInv, TreeFrame, Present
<1>2. \A c \in Convs : Present(c) /\ c \in Live' => c \in Live
  BY DEF TreeFrame, Live, Present
<1>3. tx[u].pc \notin {"idle", "done", "link"} => Present(on) /\ on \in Convs
  BY DEF TreeInv, TasksPresent, Busy, Present
<1>4. \A d \in tx[u].tree : d \in Convs /\ Present(d) /\ Up'[d] = Up[d]
  BY DEF TreeInv, TreesUnder, Present
<1>5. RestFits(u)'
  <2>1. tx[u].pc = "root" => Root(on)' = Root(on)
    BY <1>3, RootKept
  <2> QED BY <2>1 DEF Fits, RestFits
<1>6. PairFits(u)'
  <2>1. tx[u].pc \in {"complete", "fail"} => parent'[on] = tx[u].by /\ tx[u].by # 0
    BY <1>1, <1>3 DEF Fits, PairFits
  <2>2. ASSUME tx[u].pc \in Pairs, tx[u].rest # {}
        PROVE  \E k \in Convs, m \in {"share", "change"} : Present(k)' /\ parent'[k] # 0 /\ PairOf(u, k, m)'
    <3>1. PICK k \in Convs, m \in {"share", "change"} : Present(k) /\ parent[k] # 0 /\ PairOf(u, k, m)
      BY <2>2 DEF Fits, PairFits
    <3>2. PairOf(u, k, m)'
      BY <1>1, <3>1 DEF PairOf
    <3> QED BY <1>1, <3>1, <3>2
  <2> QED BY <2>1, <2>2 DEF PairFits
<1>7. TreeFits(u)'
  <2>1. TreeWhole(u) => TreeWhole(u)'
    <3>1. \A d \in tx[u].tree : \A a \in Up[d] : a \in Convs /\ Up'[a] = Up[a]
      BY <1>1, <1>4, UpPresent DEF Present
    <3> QED BY <1>4, <3>1 DEF TreeWhole
  <2>2. \A m : FromAbove(u, m) => FromAbove(u, m)'
    BY <1>2, <1>4 DEF FromAbove
  <2>3. CASE tx[u].pc = "subtree"
    <3>1. Root(on)' = Root(on)
      BY <1>3, <2>3, RootKept
    <3> QED BY <2>1, <2>2, <2>3, <3>1 DEF Fits, TreeFits, AllOf
  <2>4. CASE tx[u].pc = "rows"
    BY <1>1, <1>2, <1>3, <1>4, <2>1, <2>2, <2>4 DEF Fits, TreeFits, AllOf
  <2>5. CASE tx[u].pc \notin {"subtree", "rows"}
    BY <2>1, <2>5 DEF Fits, TreeFits
  <2> QED BY <2>3, <2>4, <2>5
<1> QED BY <1>5, <1>6, <1>7 DEF Fits

\* A task fits that has no lock to take, and none or its agents row locked; and
\* one that begins to undo its mark.
LEMMA FitsFree ==
    ASSUME NEW t \in Tasks,
           \/ tx'[t].pc \in Nothing \ {"halt"} /\ tx'[t].rest = {} /\ held'[t] = {} /\ rows'[t] = {}
           \/ tx'[t].pc \in {"forget", "unmark"} /\ held'[t] = {} /\ rows'[t] = {}
           \/ tx'[t].pc \in Rowed /\ tx'[t].rest = {}
    PROVE  Fits(t)'
<1>1. tx'[t].pc \notin Pairs \cup {"root", "link", "subtree", "halt", "rows"}
  BY DEF Pairs, Nothing, Rowed
<1>2. tx'[t].pc \in Rowed => tx'[t].pc \notin Nothing \cup {"forget", "unmark"}
  BY DEF Nothing, Rowed
<1>3. RestFits(t)'
  BY <1>1, <1>2 DEF RestFits, Takes
<1>4. PairFits(t)'
  BY <1>1 DEF PairFits, Pairs
<1>5. TreeFits(t)'
  BY <1>1 DEF TreeFits
<1> QED BY <1>3, <1>4, <1>5 DEF Fits

\* A task that is over fits, and so does one that goes on without a lock, or
\* with its agents row.
LEMMA FitsOver ==
    ASSUME Inv, LockInv, NEW t \in Tasks, Release(t), tx' = [tx EXCEPT ![t] = Over]
    PROVE  Fits(t)'
<1>1. tx'[t].pc = "done" /\ tx'[t].rest = {}
  BY GoesRest DEF Inv
<1>2. held'[t] = {} /\ rows'[t] = {}
  BY DEF Release, LockInv, Inv, TreeOK
<1> QED BY <1>1, <1>2, FitsFree DEF Nothing

\* Likewise a task that only goes on to its next step.
LEMMA FitsGo ==
    ASSUME Inv, WaitInv, NEW t \in Tasks, NEW pc, Go(t, pc),
           \/ pc \in Nothing \ {"halt"} /\ tx[t].pc \in Nothing \ {"halt", "forget"} /\ UNCHANGED lockVars
           \/ pc \in Rowed /\ tx[t].rest = {}
    PROVE  Fits(t)'
<1>1. tx'[t].pc = pc /\ tx'[t].rest = tx[t].rest
  BY GoesRest DEF Inv, Went
<1>2. CASE pc \in Rowed /\ tx[t].rest = {}
  BY <1>1, <1>2, FitsFree
<1>3. CASE pc \in Nothing \ {"halt"} /\ tx[t].pc \in Nothing \ {"halt", "forget"} /\ UNCHANGED lockVars
  <2>1. tx[t].rest = {} /\ held[t] = {} /\ rows[t] = {}
    BY <1>3 DEF WaitInv, Fits, RestFits, Nothing, Takes, Pairs, Rowed
  <2> QED BY <1>1, <1>3, <2>1, FitsFree DEF lockVars
<1> QED BY <1>2, <1>3

\* A step keeps the invariant that does for its own task.
LEMMA WaitKeeps ==
    ASSUME Inv, TreeInv, WaitInv, Typed', NEW t \in Tasks, TreeFrame(t), WaitFrame(t), LiveUp', OwnRoots',
           \A u \in Tasks \ {t} : \A h \in held[u] : h[1] \in Live',
           \A h \in held'[t] : h[1] \in Live', Fits(t)'
    PROVE  WaitInv'
<1>1. Typed
  BY DEF Inv, TreeOK, Typed
<1>2. \A c \in Convs : Present(c) => Up'[c] = Up[c]
  BY <1>1, UpKept DEF TreeInv, TreeFrame
<1>3. HeldLive'
  BY DEF HeldLive, WaitFrame
<1>4. ASSUME NEW u \in Tasks, u # t
      PROVE  Fits(u)'
  <2>1. held'[u] = held[u] /\ rows'[u] = rows[u] /\ Fits(u)
    BY <1>4 DEF WaitFrame, WaitInv
  <2>2. CASE tx'[u] = tx[u]
    BY <1>1, <1>2, <2>1, <2>2, FitsKept
  <2>3. CASE tx'[u] = Over /\ tx[u].pc \in {"counted", "turn", "run"}
    <3>1. held[u] = {} /\ rows[u] = {}
      BY <2>1, <2>3 DEF Fits, RestFits, Nothing, Rowed
    <3>2. Over.pc = "done" /\ Over.rest = {}
      BY DEF Over, NoTask
    <3>3. tx'[u].rest = {} /\ tx'[u].pc \in Nothing \ {"halt"} /\ held'[u] = {} /\ rows'[u] = {}
      BY <2>1, <2>3, <3>1, <3>2 DEF Nothing
    <3> QED BY <3>3, FitsFree
  <2> QED BY <1>4, <2>2, <2>3 DEF WaitFrame
<1> QED BY <1>3, <1>4 DEF WaitInv

\* A step that makes and removes no conversation.
World == /\ parent' = parent
         /\ \A c \in Convs : /\ state[c] \in {"absent", "own", "deleted"} => state'[c] = state[c]
                             /\ state'[c] \in {"absent", "deleted"} => state'[c] = state[c]

\* The others fit after a step that makes and removes no conversation.
LEMMA WorldKeeps ==
    ASSUME Inv, TreeInv, WaitInv, Typed', NEW t \in Tasks, World, WaitFrame(t),
           \A h \in held'[t] : h[1] \in Live, Fits(t)'
    PROVE  WaitInv'
<1>1. \A c : c \in Live' <=> c \in Live
  BY DEF World, Live
<1>2. TreeFrame(t)
  <2>1. \A u \in Tasks \ {t} : tx'[u] = tx[u] \/ (tx'[u] = Over /\ tx[u].pc # "link")
    BY DEF WaitFrame
  <2> QED BY <2>1 DEF World, TreeFrame, Present
<1>3. LiveUp'
  BY <1>1 DEF LiveUp, World, WaitInv
<1>4. OwnRoots'
  BY <1>1 DEF OwnRoots, World, WaitInv, Live
<1>5. \A u \in Tasks \ {t} : \A h \in held[u] : h[1] \in Live'
  BY <1>1 DEF WaitInv, HeldLive
<1> QED BY <1>1, <1>2, <1>3, <1>4, <1>5, WaitKeeps

\* A mild step is one of those.
LEMMA MildWorld ==
    ASSUME Inv, LockInv, NEW t \in Tasks, Mild(t), StateMoves(t), RowsMove(t)
    PROVE  World /\ WaitFrame(t) /\ \A h \in held'[t] : h \in held[t]
<1>1. World
  <2>1. \A c \in Convs : state[c] = "own" => state'[c] \in {"own", "deleted"}
    BY DEF StateMoves, Arrow, Running
  <2> QED BY <2>1 DEF Mild, MildState, World
<1>2. WaitFrame(t)
  <2>1. \A u \in Tasks \ {t} : held'[u] = held[u]
    BY DEF Mild, MildState, LockInv
  <2> QED BY <2>1 DEF Mild, MildTask, Others, RowsMove, WaitFrame
<1>3. held'[t] \subseteq held[t]
  BY DEF Mild, MildState, LockInv
<1> QED BY <1>1, <1>2, <1>3

-----------------------------------------------------------------------------
(* Each action keeps it.                                                   *)

\* A turn holds nothing.
LEMMA TurnWaits ==
    ASSUME Inv, LockInv, WaitInv, NEW t \in Tasks, Turn(t)
    PROVE  Fits(t)'
<1>1. CASE start_turn(t) \/ wake_conversation(t)
  <2>1. PICK op \in {"send", "wake"}, c \in Live, pc \in {"count", "revive"} : BeginTurn(t, op, c, pc)
    BY <1>1 DEF start_turn, wake_conversation, admits_notices
  <2>2. tx'[t].pc = pc /\ tx'[t].rest = {}
    BY <2>1 DEF BeginTurn, Inv, TxOK, NoTask
  <2>3. held[t] = {} /\ rows[t] = {}
    BY <2>1 DEF BeginTurn, WaitInv, Fits, RestFits, Nothing, Rowed
  <2> QED BY <2>1, <2>2, <2>3, FitsFree DEF BeginTurn, lockVars, Nothing
<1>2. CASE ~(start_turn(t) \/ wake_conversation(t))
  <2>1. tx[t].pc \in {"revive", "count", "counted", "turn", "run"}
    BY <1>2 DEF Turn, Reactivate, CountUser, confirm_user_turn, resume_finished, start_unless_paused, TurnEnds
  <2>2. \/ End(t)
        \/ \E pc \in {"count", "counted", "turn", "run"} : Go(t, pc) /\ UNCHANGED lockVars
    BY <1>2 DEF Turn, Reactivate, CountUser, confirm_user_turn, resume_finished, start_unless_paused, TurnEnds
  <2> QED BY <2>1, <2>2, FitsOver, FitsGo DEF End, Nothing
<1> QED BY <1>1, <1>2

\* A pair of rows to lock, of which one is the other's parent.
LEMMA FitsPair ==
    ASSUME NEW t \in Tasks, tx'[t].pc \in Pairs, NEW k \in Convs, NEW m \in {"share", "change"},
           Present(k)', parent'[k] # 0, tx'[t].rest = {<<parent'[k], "share">>, <<k, m>>},
           held'[t] = {}, rows'[t] = {},
           tx'[t].pc \in {"complete", "fail"} => parent'[tx'[t].on] = tx'[t].by /\ tx'[t].by # 0
    PROVE  Fits(t)'
<1>1. tx'[t].pc \notin Nothing \cup {"root", "link", "halt", "subtree", "rows"}
  BY DEF Pairs, Nothing
<1>2. RestFits(t)'
  BY <1>1 DEF RestFits, Takes
<1>3. PairFits(t)'
  BY DEF PairFits, PairOf
<1>4. TreeFits(t)'
  BY <1>1 DEF TreeFits
<1> QED BY <1>2, <1>3, <1>4 DEF Fits

\* A finish locks the agent's row after its parent's; and then its agents row.
LEMMA FinishWaits ==
    ASSUME Inv, LockInv, WaitInv, NEW t \in Tasks, Finish(t), World
    PROVE  Fits(t)'
<1> DEFINE on == tx[t].on
<1>1. ASSUME NEW c \in Live, state[c] \in {"active", "finished"}
      PROVE  Present(c)' /\ parent'[c] # 0 /\ c \in Convs /\ parent'[c] = parent[c]
  BY <1>1 DEF World, WaitInv, OwnRoots, Live, Present
<1>2. CASE finish(t)
  <2>1. PICK c \in Live : /\ state[c] \in {"active", "finished"}
                          /\ tx' = [tx EXCEPT ![t] = [NoTask EXCEPT !.op = "finish", !.pc = "finish", !.on = c,
                                                                   !.rest = BothShared(c)]]
    BY <1>2 DEF finish
  <2>2. tx'[t].pc = "finish" /\ tx'[t].rest = BothShared(c)
    BY <2>1 DEF Inv, TxOK, NoTask
  <2>3. held'[t] = {} /\ rows'[t] = {}
    BY <1>2 DEF finish, lockVars, WaitInv, Fits, RestFits, Nothing, Rowed
  <2>4. tx'[t].rest = {<<parent'[c], "share">>, <<c, "share">>}
    BY <1>1, <2>1, <2>2 DEF BothShared
  <2> QED BY <1>1, <2>1, <2>2, <2>3, <2>4, FitsPair DEF Pairs
<1>3. CASE FinishUpdate(t)
  <2>1. tx[t].rest = {} /\ on \in Convs
    BY <1>3 DEF FinishUpdate, Locked, Inv, TxOK, Busy
  <2>2. CASE Go(t, "running")
    BY <2>1, <2>2, FitsGo DEF Rowed
  <2>3. CASE state[on] = "finished" /\ Release(t) /\ GoLock(t, "after", BothShared(on))
    <3>1. tx'[t].pc = "after" /\ tx'[t].rest = BothShared(on)
      BY <2>3, GoesRest DEF Inv, Went
    <3>2. held'[t] = {} /\ rows'[t] = {}
      BY <2>3 DEF Release, LockInv, Inv, TreeOK
    <3>3. on \in Live
      BY <2>1, <2>3 DEF Live
    <3>4. tx'[t].rest = {<<parent'[on], "share">>, <<on, "share">>}
      BY <1>1, <2>3, <3>1, <3>3 DEF BothShared
    <3> QED BY <1>1, <2>3, <3>1, <3>2, <3>3, <3>4, FitsPair DEF Pairs
  <2>4. CASE End(t)
    BY <2>4, FitsOver DEF End
  <2> QED BY <1>3, <2>2, <2>3, <2>4 DEF FinishUpdate
<1>4. CASE FinishRunning(t) \/ FinishUnread(t)
  <2>1. tx[t].rest = {}
    BY <1>4 DEF FinishRunning, FinishUnread, WaitInv, Fits, RestFits, Takes, Pairs
  <2>2. End(t) \/ Go(t, "unread") \/ Go(t, "report")
    BY <1>4 DEF FinishRunning, FinishUnread
  <2> QED BY <2>1, <2>2, FitsOver, FitsGo DEF End, Rowed
<1>5. CASE FinishCommit(t) \/ report_after_finish(t)
  BY <1>5, FitsOver DEF FinishCommit, report_after_finish, End
<1> QED BY <1>2, <1>3, <1>4, <1>5 DEF Finish

\* A message locks its sender and its recipient, of which one is the other's
\* parent; and then the recipient's agents row.
LEMMA MessageWaits ==
    ASSUME Inv, LockInv, WaitInv, NEW t \in Tasks, Message(t), World
    PROVE  Fits(t)'
<1>1. CASE message_agent(t)
  <2>1. PICK by \in Live, to \in Live :
           /\ parent[by] = to \/ parent[to] = by
           /\ tx' = [tx EXCEPT ![t] = [NoTask EXCEPT !.op = "message", !.pc = "recipient", !.by = by, !.on = to,
                                                     !.rest = {<<by, "share">>, <<to, "share">>}]]
    BY <1>1 DEF message_agent
  <2>2. tx'[t].pc = "recipient" /\ tx'[t].rest = {<<by, "share">>, <<to, "share">>}
    BY <2>1 DEF Inv, TxOK, NoTask
  <2>3. held'[t] = {} /\ rows'[t] = {}
    BY <1>1 DEF message_agent, lockVars, WaitInv, Fits, RestFits, Nothing, Rowed
  <2>4. PICK k \in Live : parent[k] \in Live /\ tx'[t].rest = {<<parent[k], "share">>, <<k, "share">>}
    BY <2>1, <2>2
  <2>5. k \in Convs /\ Present(k)' /\ parent'[k] = parent[k] /\ parent[k] # 0
    BY <2>4 DEF World, Live, Present, Convs
  <2> QED BY <2>2, <2>3, <2>4, <2>5, FitsPair DEF Pairs
<1>2. CASE MessageRow(t) \/ MessageCheck(t)
  <2>1. tx[t].rest = {}
    BY <1>2 DEF MessageRow, MessageCheck, Locked, WaitInv, Fits, RestFits, Takes, Pairs
  <2>2. End(t) \/ Go(t, "check") \/ Go(t, "send")
    BY <1>2 DEF MessageRow, MessageCheck
  <2> QED BY <2>1, <2>2, FitsOver, FitsGo DEF End, Rowed
<1>3. CASE MessageSend(t)
  BY <1>3, FitsOver DEF MessageSend, End
<1> QED BY <1>1, <1>2, <1>3 DEF Message

\* A start's done step locks the caller's row and the agent's; so does a
\* failed start's.
LEMMA StartWaits ==
    ASSUME Inv, TreeInv, LockInv, WaitInv, NEW t \in Tasks, complete_start(t) \/ fail_start(t) \/ StartFault(t), World
    PROVE  Fits(t)'
<1> DEFINE on == tx[t].on
           by == tx[t].by
<1>1. CASE End(t)
  BY <1>1, FitsOver DEF End
<1>2. CASE tx[t].pc = "complete" /\ Release(t) /\ GoLock(t, "fail", {<<by, "share">>, <<on, "change">>})
  <2>1. /\ tx'[t].pc = "fail" /\ tx'[t].rest = {<<by, "share">>, <<on, "change">>}
        /\ tx'[t].on = on /\ tx'[t].by = by
    BY <1>2, GoesRest DEF Inv, Went
  <2>2. parent[on] = by /\ by # 0 /\ on \in Convs /\ Present(on)
    BY <1>2 DEF WaitInv, Fits, PairFits, TreeInv, TasksPresent, Busy, Present
  <2>3. \A k \in Convs : k = on => parent'[k] = by /\ Present(k)'
    BY <2>2 DEF World, Present
  <2>4. held'[t] = {} /\ rows'[t] = {}
    BY <1>2 DEF Release, LockInv, Inv, TreeOK
  <2> QED BY <2>1, <2>2, <2>3, <2>4, FitsPair DEF Pairs
<1> QED BY <1>1, <1>2 DEF complete_start, fail_start, StartFault

\* A create holds its caller's row, and at its commit gives it back.
LEMMA AgentWaits ==
    ASSUME Inv, LockInv, WaitInv, NEW t \in Tasks, start_agent(t)
    PROVE  Fits(t)' /\ \A h \in held'[t] : h[1] \in Live
<1>1. PICK by \in Live, c \in Unused :
         /\ held' = [held EXCEPT ![t] = {<<by, "change">>}]
         /\ tx' = [tx EXCEPT ![t] = [NoTask EXCEPT !.op = "create", !.pc = "link", !.by = by, !.on = c]]
  BY DEF start_agent
<1>2. tx'[t].pc = "link" /\ tx'[t].rest = {} /\ tx'[t].by = by
  BY <1>1 DEF Inv, TxOK, NoTask
<1>3. held'[t] = {<<by, "change">>} /\ rows'[t] = {}
  BY <1>1 DEF start_agent, LockInv, WaitInv, Fits, RestFits, Rowed
<1>4. RestFits(t)'
  BY <1>2, <1>3 DEF RestFits, Nothing
<1>5. PairFits(t)' /\ TreeFits(t)'
  BY <1>2 DEF PairFits, Pairs, TreeFits
<1> QED BY <1>1, <1>3, <1>4, <1>5 DEF Fits

\* The commit puts a conversation in the tree, which nobody has locked or read.
LEMMA CommitWaits ==
    ASSUME Inv, TreeInv, LockInv, WaitInv, Typed', NEW t \in Tasks, CreateCommit(t)
    PROVE  WaitInv'
<1> DEFINE on == tx[t].on
           by == tx[t].by
<1>1. /\ tx[t].pc = "link" /\ on \in Convs /\ state[on] = "absent" /\ by \in Live
      /\ parent' = [parent EXCEPT ![on] = by] /\ state' = [state EXCEPT ![on] = "starting"]
      /\ held' = [held EXCEPT ![t] = {}] /\ rows' = [rows EXCEPT ![t] = {}]
  BY DEF CreateCommit, Release, Inv, TxOK, Busy, LinkAbsent, LockInv, LinkHolds
<1>2. by # 0 /\ parent'[on] = by /\ state'[on] = "starting" /\ by # on
  BY <1>1 DEF Live, Convs, Inv, TreeOK
<1>3. \A c : c \in Live' <=> c \in Live \/ c = on
  BY <1>1, <1>2 DEF Live, Inv, TreeOK
<1>4. \A c \in Live : parent'[c] = parent[c] /\ state'[c] = state[c] /\ c # on
  BY <1>1 DEF Live, Inv, TreeOK
<1>5. LiveUp' /\ OwnRoots'
  BY <1>1, <1>2, <1>3, <1>4 DEF LiveUp, OwnRoots, WaitInv
<1>6. PICK pc \in {"complete", "fail"} : GoLock(t, pc, {<<by, "share">>, <<on, "change">>})
  BY DEF CreateCommit, run_start
<1>7. /\ tx'[t].pc = pc /\ tx'[t].rest = {<<by, "share">>, <<on, "change">>} /\ tx'[t].on = on /\ tx'[t].by = by
      /\ Others(t)
  BY <1>6, GoesRest DEF Inv, Went
<1>8. held'[t] = {} /\ rows'[t] = {} /\ \A u \in Tasks \ {t} : held'[u] = held[u] /\ rows'[u] = rows[u]
  BY <1>1 DEF LockInv, Inv, TreeOK
<1>9. \A k \in Convs : k = on => Present(k)'
  BY <1>1, <1>2 DEF Present
<1>10. Fits(t)'
  BY <1>1, <1>2, <1>7, <1>8, <1>9, FitsPair DEF Pairs
<1>11. TreeFrame(t)
  BY CreateTree
<1>12. WaitFrame(t)
  BY <1>7, <1>8 DEF WaitFrame, Others
<1>13. \A u \in Tasks \ {t} : \A h \in held[u] : h[1] \in Live'
  BY <1>3 DEF WaitInv, HeldLive
<1> QED BY <1>5, <1>8, <1>10, <1>11, <1>12, <1>13, WaitKeeps

\* What a task with a subtree has to fit.
LEMMA FitsTree ==
    ASSUME NEW t \in Tasks, tx'[t].pc \in {"subtree", "halt", "rows"}, rows'[t] = {},
           tx'[t].pc = "halt" => held'[t] = {}, TreeFits(t)'
    PROVE  Fits(t)'
<1>1. tx'[t].pc \notin Pairs \cup {"root", "link"} \cup (Nothing \ {"halt"})
  BY DEF Pairs, Nothing
<1>2. RestFits(t)'
  BY <1>1 DEF RestFits, Takes
<1>3. PairFits(t)'
  BY <1>1 DEF PairFits, Pairs
<1> QED BY <1>2, <1>3 DEF Fits

\* A subtree that was whole stays so.
LEMMA WholeKept ==
    ASSUME Typed, Typed', TreeInv, NEW t \in Tasks, \A c \in Convs : Present(c) => Up'[c] = Up[c],
           TreeWhole(t), tx'[t].on = tx[t].on, tx'[t].tree = tx[t].tree
    PROVE  TreeWhole(t)'
<1>1. \A d \in tx[t].tree : d \in Convs /\ Present(d) /\ Up'[d] = Up[d]
  BY DEF TreeInv, TreesUnder, Present
<1>2. \A d \in tx[t].tree : \A a \in Up[d] : a \in Convs /\ Up'[a] = Up[a]
  BY <1>1, UpPresent DEF TreeInv, Present
<1> QED BY <1>1, <1>2 DEF TreeWhole

\* A subtree as it is read has all that is between its top and what is in it.
LEMMA ReadWhole ==
    ASSUME Typed, ParentsBelow, LiveUp, NEW c \in Live
    PROVE  /\ c \in subtree_ids(c)
           /\ \A d \in subtree_ids(c) : \A a \in Up[d] : c \in Up[a] => a \in subtree_ids(c)
<1>1. \A d \in subtree_ids(c) : d \in Live
  BY DEF subtree_ids
<1> QED BY <1>1, UpLive DEF subtree_ids

\* A stop reads a subtree, and has its rows to lock.
LEMMA StopAgentWaits ==
    ASSUME Inv, TreeInv, LockInv, WaitInv, NEW t \in Tasks, stop_agent(t)
    PROVE  Fits(t)'
<1>1. PICK by \in Live, c \in Live :
         tx' = [tx EXCEPT ![t] = [NoTask EXCEPT !.op = "stop", !.pc = "subtree", !.by = by, !.on = c,
                                                !.tree = subtree_ids(c), !.rest = AllOf(subtree_ids(c), "change")]]
  BY DEF stop_agent
<1>2. /\ tx'[t].pc = "subtree" /\ tx'[t].on = c /\ tx'[t].tree = subtree_ids(c)
      /\ tx'[t].rest = AllOf(subtree_ids(c), "change")
  BY <1>1 DEF Inv, TxOK, NoTask
<1>3. held'[t] = {} /\ rows'[t] = {} /\ Up' = Up
  BY DEF stop_agent, dbVars, lockVars, Up, WaitInv, Fits, RestFits, Nothing, Rowed
<1>4. TreeWhole(t)'
  <2>1. /\ c \in subtree_ids(c)
        /\ \A d \in subtree_ids(c) : \A a \in Up[d] : c \in Up[a] => a \in subtree_ids(c)
    BY ReadWhole DEF Inv, TreeOK, Typed, TreeInv, WaitInv
  <2> QED BY <1>2, <1>3, <2>1 DEF TreeWhole
<1>5. TreeFits(t)'
  BY <1>2, <1>3, <1>4 DEF TreeFits, FromAbove
<1> QED BY <1>2, <1>3, <1>5, FitsTree

\* Read again, it has what is new to lock, which is under what it has locked.
LEMMA LockSubtreeWaits ==
    ASSUME Inv, TreeInv, LockInv, WaitInv, NEW t \in Tasks, lock_subtree(t)
    PROVE  Fits(t)'
<1> DEFINE on   == tx[t].on
           tree == tx[t].tree
           ids  == subtree_ids(on)
           new  == ids \ tree
           r    == [tx[t] EXCEPT !.tree = @ \cup new, !.rest = AllOf(new, "change")]
<1>1. PICK Old : tx \in [Tasks -> Record(Old)]
  BY DEF Inv, TxOK
<1>2. tx' = [tx EXCEPT ![t] = r] /\ tx[t].pc = "subtree" /\ tx[t].rest = {}
  BY <1>1 DEF lock_subtree, Locked
<1>3. UNCHANGED <<parent, state, held, rows>>
  BY DEF lock_subtree, dbVars, lockVars
<1>4. Typed /\ ParentsBelow /\ LiveUp /\ Fits(t) /\ on \in Convs /\ Present(on)
  BY <1>2 DEF Inv, TreeOK, Typed, TreeInv, TasksPresent, Busy, Present, WaitInv
<1>5. \A d \in ids : on \in Up[d] /\ d \in Convs /\ (d # on => d \in Live)
  BY <1>4, UpEnds DEF subtree_ids, Live
<1> HIDE DEF ids
<1>6. r.pc = "subtree" /\ r.on = on /\ r.tree = tree \cup new /\ r.rest = AllOf(new, "change")
  BY <1>1, <1>2 DEF Record
<1> HIDE DEF r
<1>7. /\ tx'[t].pc = "subtree" /\ tx'[t].on = on /\ tx'[t].tree = tree \cup new
      /\ tx'[t].rest = AllOf(new, "change") /\ held'[t] = held[t] /\ Up' = Up /\ Live' = Live /\ parent' = parent
  BY <1>1, <1>2, <1>3, <1>6 DEF Up, Live
<1>8. /\ TreeWhole(t) /\ held[t] \subseteq AllOf(tree, "change") \cup {<<Root(on), "change">>}
      /\ FromAbove(t, "change")
  BY <1>2, <1>4 DEF Fits, TreeFits
<1>9. on \in tree
  BY <1>8 DEF TreeWhole
\* What is new is live, and what is above it down to the conversation is read.
<1>10. \A d \in new : d \in Live /\ \A a \in Up[d] : a \in Live /\ (on \in Up[a] => a \in tree \cup new)
  <2>1. \A d \in new : d \in Live
    BY <1>5, <1>9
  <2>2. \A d \in new : \A a \in Up[d] : a \in Live
    BY <1>4, <2>1, UpLive
  <2>3. \A a \in Live : on \in Up[a] => a \in ids
    BY DEF subtree_ids, ids
  <2> QED BY <2>1, <2>2, <2>3
<1>11. \A d \in new : <<d, "change">> \notin held[t]
  <2> SUFFICES ASSUME NEW d \in new, <<d, "change">> \in held[t] PROVE FALSE
    OBVIOUS
  <2>1. d = Root(on)
    BY <1>8 DEF AllOf
  <2>2. Up[d] = {d}
    BY <1>4, <1>5, <2>1, RootAbove, UpEnds
  <2> QED BY <1>5, <1>9, <2>2
<1>12. TreeWhole(t)'
  <2>1. \A d \in tree \cup new : \A a \in Up[d] : on \in Up[a] => a \in tree \cup new
    BY <1>8, <1>10 DEF TreeWhole
  <2> QED BY <1>7, <1>9, <2>1 DEF TreeWhole
<1>13. FromAbove(t, "change")'
  <2> SUFFICES ASSUME NEW d \in tree \cup new, <<d, "change">> \in held[t], NEW a \in Up[d], a \in tree \cup new, a \in Live
               PROVE  <<a, "change">> \in held[t]
    BY <1>7 DEF FromAbove
  <2>1. d \in tree
    BY <1>11
  <2>2. a \in tree
    BY <1>5, <1>8, <2>1 DEF TreeWhole
  <2> QED BY <1>8, <2>1, <2>2 DEF FromAbove
<1>14. TreeFits(t)'
  <2>1. tx'[t].rest \subseteq AllOf(tree \cup new, "change") /\ AllOf(tree, "change") \subseteq AllOf(tree \cup new, "change")
    BY <1>7 DEF AllOf
  <2>2. tx'[t].rest \cap held[t] = {}
    BY <1>7, <1>11 DEF AllOf
  <2>3. Root(on)' = Root(on)
    BY <1>7 DEF Root
  <2> QED BY <1>7, <1>8, <1>12, <1>13, <2>1, <2>2, <2>3 DEF TreeFits
<1>15. rows'[t] = {}
  BY <1>2, <1>3, <1>4 DEF Fits, RestFits, Rowed
<1> QED BY <1>7, <1>14, <1>15, FitsTree

\* A delete locks its conversation's root, and then reads the subtree.
LEMMA DeleteWaits ==
    ASSUME Inv, WaitInv, NEW t \in Tasks, delete_subtree(t)
    PROVE  Fits(t)'
<1>1. PICK c \in Live :
         tx' = [tx EXCEPT ![t] = [NoTask EXCEPT !.op = "delete", !.pc = "root", !.on = c,
                                                !.rest = {<<Root(c), "change">>}]]
  BY DEF delete_subtree
<1>2. tx'[t].pc = "root" /\ tx'[t].on = c /\ tx'[t].rest = {<<Root(c), "change">>}
  BY <1>1 DEF Inv, TxOK, NoTask
<1>3. held'[t] = {} /\ rows'[t] = {} /\ Up' = Up /\ parent' = parent
  BY DEF delete_subtree, dbVars, lockVars, Up, WaitInv, Fits, RestFits, Nothing, Rowed
<1>4. Root(tx[t].on)' = Root(c)
  BY <1>2, <1>3 DEF Root
<1>5. RestFits(t)'
  BY <1>2, <1>3, <1>4 DEF RestFits, Takes, Nothing
<1>6. PairFits(t)' /\ TreeFits(t)'
  BY <1>2 DEF PairFits, Pairs, TreeFits
<1> QED BY <1>5, <1>6 DEF Fits

\* A delete with its root's lock has the subtree below the root to lock.
LEMMA DeleteRootWaits ==
    ASSUME Inv, TreeInv, LockInv, WaitInv, NEW t \in Tasks, DeleteRoot(t)
    PROVE  Fits(t)'
<1> DEFINE c    == tx[t].on
           ids  == subtree_ids(c)
           rest == AllOf(ids \ {Root(c)}, "change")
           r    == [tx[t] EXCEPT !.pc = "subtree", !.tree = ids, !.rest = rest]
<1>1. PICK Old : tx \in [Tasks -> Record(Old)]
  BY DEF Inv, TxOK
<1>2. /\ tx[t].pc = "root" /\ tx[t].rest = {} /\ Fits(t)
  BY DEF DeleteRoot, Locked, WaitInv
<1>3. CASE c \notin Live
  <2>1. Release(t) /\ GoLock(t, "forget", {<<c, "halt">>})
    BY <1>3 DEF DeleteRoot
  <2>2. tx'[t].pc = "forget"
    BY <2>1, GoesRest DEF Inv, Went
  <2>3. held'[t] = {} /\ rows'[t] = {}
    BY <2>1 DEF Release, LockInv, Inv, TreeOK
  <2> QED BY <2>2, <2>3, FitsFree
<1>4. CASE c \in Live
  <2>1. tx' = [tx EXCEPT ![t] = r] /\ UNCHANGED <<parent, state, held, rows>>
    BY <1>1, <1>4 DEF DeleteRoot, dbVars, lockVars
  <2>2. r.pc = "subtree" /\ r.on = c /\ r.tree = ids /\ r.rest = rest
    <3> HIDE DEF ids, rest
    <3> QED BY <1>1 DEF Record
  <2> HIDE DEF r
  <2>3. /\ tx'[t].pc = "subtree" /\ tx'[t].on = c /\ tx'[t].tree = ids /\ tx'[t].rest = rest
        /\ held'[t] = held[t] /\ rows'[t] = {} /\ Up' = Up /\ Live' = Live /\ parent' = parent
    BY <1>1, <1>2, <2>1, <2>2 DEF Up, Live, Fits, RestFits, Rowed
  <2>4. held[t] \subseteq {<<Root(c), "change">>}
    BY <1>2 DEF Fits, RestFits
  <2>5. Up[Root(c)] = {Root(c)} /\ Root(c)' = Root(c)
    <3>1. Typed /\ ParentsBelow /\ c \in Convs /\ Present(c)
      BY <1>4 DEF Inv, TreeOK, Typed, TreeInv, Live, Present
    <3>2. Root(c) \in Convs /\ parent[Root(c)] = 0
      BY <3>1, RootAbove, UpBelow
    <3> QED BY <2>3, <3>1, <3>2, UpEnds DEF Root
  <2>6. /\ c \in ids /\ \A d \in ids : \A a \in Up[d] : c \in Up[a] => a \in ids
    BY <1>4, ReadWhole DEF Inv, TreeOK, Typed, TreeInv, WaitInv
  <2> HIDE DEF ids
  <2>7. TreeWhole(t)'
    BY <2>3, <2>6 DEF TreeWhole
  <2>8. FromAbove(t, "change")'
    BY <2>3, <2>4, <2>5 DEF FromAbove
  <2>9. tx'[t].rest \subseteq AllOf(ids, "change") /\ tx'[t].rest \cap held[t] = {}
    BY <2>3, <2>4 DEF AllOf
  <2>10. TreeFits(t)'
    BY <2>3, <2>4, <2>5, <2>7, <2>8, <2>9 DEF TreeFits
  <2> QED BY <2>3, <2>10, FitsTree
<1> QED BY <1>3, <1>4

\* Who stops and who marks gives its locks back, and halts the subtree.
LEMMA EndsWaits ==
    ASSUME Inv, TreeInv, LockInv, WaitInv, Typed', NEW t \in Tasks, stop_subtree(t) \/ mark_subtree_deleting(t)
    PROVE  Fits(t)'
<1>1. PICK Old : tx \in [Tasks -> Record(Old)]
  BY DEF Inv, TxOK
<1>2. tx[t].pc = "subtree" /\ parent' = parent /\ TreeWhole(t)
  BY DEF stop_subtree, mark_subtree_deleting, SubtreeLocked, Locked, WaitInv, Fits, TreeFits
<1>3. Release(t) /\ held'[t] = {} /\ rows'[t] = {}
  BY DEF stop_subtree, mark_subtree_deleting, End, Release, LockInv, Inv, TreeOK
<1>4. CASE End(t)
  BY <1>4, FitsOver DEF End
<1>5. CASE tx'[t].pc = "halt" /\ tx'[t].on = tx[t].on /\ tx'[t].tree = tx[t].tree
  <2>1. Up' = Up
    BY <1>2 DEF Up
  <2>2. TreeWhole(t)'
    BY <1>2, <1>5, <2>1 DEF TreeWhole
  <2>3. TreeFits(t)'
    BY <1>5, <2>2 DEF TreeFits
  <2> QED BY <1>3, <1>5, <2>3, FitsTree
<1>6. stop_subtree(t) => End(t) \/ (tx'[t].pc = "halt" /\ tx'[t].on = tx[t].on /\ tx'[t].tree = tx[t].tree)
  <2> SUFFICES ASSUME GoLock(t, "halt", AllOf(tx[t].tree, "halt"))
               PROVE  tx'[t].pc = "halt" /\ tx'[t].on = tx[t].on /\ tx'[t].tree = tx[t].tree
    BY DEF stop_subtree
  <2>1. tx'[t] = [tx[t] EXCEPT !.pc = "halt", !.rest = AllOf(tx[t].tree, "halt")]
    BY <1>1 DEF GoLock
  <2> QED BY <1>1, <2>1 DEF Record
<1>7. mark_subtree_deleting(t) => tx'[t].pc = "halt" /\ tx'[t].on = tx[t].on /\ tx'[t].tree = tx[t].tree
  <2> DEFINE was  == {w \in tx[t].tree \X {"active", "finished"} : state[w[1]] = w[2]}
             r    == [tx[t] EXCEPT !.pc = "halt", !.rest = AllOf(tx[t].tree, "halt"), !.was = was]
  <2>1. r.pc = "halt" /\ r.on = tx[t].on /\ r.tree = tx[t].tree
    <3> HIDE DEF was
    <3> QED BY <1>1 DEF Record
  <2>2. mark_subtree_deleting(t) => tx' = [tx EXCEPT ![t] = r]
    BY <1>1 DEF mark_subtree_deleting
  <2> HIDE DEF r
  <2> QED BY <1>1, <2>1, <2>2
<1> QED BY <1>4, <1>5, <1>6, <1>7

\* A halt goes through the subtree, and ends turns, which hold nothing; after
\* the last a delete has its rows to lock.
LEMMA HaltWaits ==
    ASSUME Inv, TreeInv, LockInv, WaitInv, NEW t \in Tasks, HaltNext(t)
    PROVE  Fits(t)' /\ WaitFrame(t)
<1> DEFINE on   == tx[t].on
           up   == parent[on]
           tree == tx[t].tree
           next == NextRow(t)
           more == [tx[t] EXCEPT !.rest = @ \ {next}]
           rest == AllOf(tree, "remove") \cup (IF up = 0 THEN {} ELSE {<<up, "share">>})
           go   == [tx[t] EXCEPT !.pc = "rows", !.rest = rest]
<1>1. PICK Old : tx \in [Tasks -> Record(Old)]
  BY DEF Inv, TxOK
<1>2. /\ tx[t].pc \in {"halt", "forget"} /\ UNCHANGED <<parent, state, held, rows>>
      /\ tx' = [u \in Tasks |->
                  CASE u = t               -> IF tx[t].rest = {next} THEN Halted(t) ELSE more
                    [] InTurn(u, next[1])  -> Over
                    [] OTHER               -> tx[u]]
  BY DEF HaltNext, dbVars, lockVars
<1>3. Halted(t) = Over \/ (Halted(t) = go /\ tx[t].pc = "halt")
  BY DEF Halted
<1>4. more.pc = tx[t].pc /\ more.on = on /\ more.tree = tree
  <2> HIDE DEF next
  <2> QED BY <1>1 DEF Record
<1>5. go.pc = "rows" /\ go.on = on /\ go.tree = tree /\ go.rest = rest
  <2> HIDE DEF rest
  <2> QED BY <1>1 DEF Record
<1> HIDE DEF next, more, go
<1>6. ~InTurn(t, next[1])
  BY <1>2 DEF InTurn
<1>7. tx'[t] \in {Over, go, more} /\ (tx'[t] = go => tx[t].pc = "halt" \/ go \in {Over, more})
  BY <1>2, <1>3
<1>8. WaitFrame(t)
  <2>1. \A u \in Tasks : InTurn(u, next[1]) => tx[u].pc \in {"counted", "turn", "run"}
    BY DEF InTurn
  <2> QED BY <1>2, <2>1 DEF WaitFrame
<1>9. /\ held'[t] = {} /\ rows'[t] = {} /\ Up' = Up /\ Live' = Live /\ parent' = parent
      /\ tx[t].pc = "halt" => TreeWhole(t)
  BY <1>2 DEF Up, Live, WaitInv, Fits, RestFits, TreeFits, Nothing, Rowed
<1>10. CASE tx'[t] = Over
  <2>1. Over.pc = "done" /\ Over.rest = {}
    BY DEF Over, NoTask
  <2> QED BY <1>8, <1>9, <1>10, <2>1, FitsFree DEF Nothing
<1>11. CASE tx'[t] = more /\ tx[t].pc = "forget"
  BY <1>4, <1>8, <1>9, <1>11, FitsFree
<1>12. CASE tx'[t] = more /\ tx[t].pc = "halt"
  <2>1. TreeWhole(t)'
    BY <1>4, <1>9, <1>12 DEF TreeWhole
  <2>2. TreeFits(t)'
    BY <1>4, <1>12, <2>1 DEF TreeFits
  <2> QED BY <1>4, <1>8, <1>9, <1>12, <2>2, FitsTree
<1>13. CASE tx'[t] = go /\ tx[t].pc = "halt"
  <2>1. tx'[t].pc = "rows" /\ tx'[t].on = on /\ tx'[t].tree = tree /\ tx'[t].rest = rest
    BY <1>5, <1>13
  <2>2. TreeWhole(t)'
    BY <1>9, <1>13, <2>1 DEF TreeWhole
  <2>3. FromAbove(t, "remove")'
    BY <1>9 DEF FromAbove
  <2>4. rest \subseteq AllOf(tree, "remove") \cup {<<up, "share">>} /\ \A d \in tree : <<d, "remove">> \in rest
    BY DEF AllOf
  <2>5. <<up, "share">> \in rest => up # 0
    <3>1. <<up, "share">> \notin AllOf(tree, "remove")
      BY DEF AllOf
    <3> QED BY <3>1
  <2> HIDE DEF rest
  <2>6. TreeFits(t)'
    <3>1. tx'[t].pc \notin {"subtree", "halt"}
      BY <2>1
    <3>2. parent'[tx'[t].on] = up
      BY <1>9, <2>1
    <3>3. /\ tx'[t].rest \cup held'[t] \subseteq AllOf(tree, "remove") \cup {<<up, "share">>}
          /\ \A d \in tree : <<d, "remove">> \in tx'[t].rest
      BY <1>9, <2>1, <2>4
    <3> QED BY <1>9, <2>1, <2>2, <2>3, <2>5, <3>1, <3>2, <3>3 DEF TreeFits
  <2> QED BY <1>8, <1>9, <2>1, <2>6, FitsTree
<1>14. CASE tx'[t] = go /\ go \in {Over, more}
  BY <1>2, <1>10, <1>11, <1>12, <1>14
<1> QED BY <1>2, <1>7, <1>10, <1>11, <1>12, <1>13, <1>14

\* A delete's cascade gives its locks back, and so do one that fails and one
\* that undoes its mark.
LEMMA FreesWaits ==
    ASSUME Inv, LockInv, WaitInv, NEW t \in Tasks,
           delete_subtree_rows(t) \/ DeleteFault(t) \/ unmark_subtree_deleting(t)
    PROVE  Fits(t)' /\ held'[t] = {}
<1>1. Release(t) /\ held'[t] = {} /\ rows'[t] = {}
  BY DEF delete_subtree_rows, DeleteFault, unmark_subtree_deleting, End, Release, LockInv, Inv, TreeOK
<1>2. tx' = [tx EXCEPT ![t] = Over] \/ \E pc \in {"forget", "unmark"} : \E rest : GoLock(t, pc, rest)
  BY DEF delete_subtree_rows, DeleteFault, unmark_subtree_deleting, End
<1>3. CASE tx' = [tx EXCEPT ![t] = Over]
  BY <1>1, <1>3, FitsOver
<1>4. ASSUME NEW pc \in {"forget", "unmark"}, NEW rest, GoLock(t, pc, rest)
      PROVE  Fits(t)'
  <2>1. tx'[t].pc = pc
    BY <1>4, GoesRest DEF Inv, Went
  <2> QED BY <1>1, <2>1, FitsFree
<1> QED BY <1>1, <1>2, <1>3, <1>4

\* A task that takes the lock of a row from what it has left takes it in
\* order, so that its subtree stays locked from above.
LEMMA TakeAbove ==
    ASSUME Typed, Typed', TreeInv, LiveUp, NEW t \in Tasks, NEW m, FromAbove(t, m), Up' = Up, Live' = Live,
           tx'[t].tree = tx[t].tree, NEW r, tx'[t].rest = tx[t].rest \ {r},
           held'[t] = IF r[1] \in Live THEN held[t] \cup {r} ELSE held[t],
           \A s \in tx[t].rest : r[1] <= s[1],
           \A d \in tx[t].tree : d \in Live => <<d, m>> \in tx[t].rest \cup held[t]
    PROVE  FromAbove(t, m)'
<1> SUFFICES ASSUME NEW d \in tx[t].tree, <<d, m>> \in held'[t], NEW a \in Up[d], a \in tx[t].tree, a \in Live
             PROVE  <<a, m>> \in held'[t]
  BY DEF FromAbove
<1>1. held[t] \subseteq held'[t]
  OBVIOUS
<1>2. CASE <<d, m>> \in held[t]
  BY <1>1, <1>2 DEF FromAbove
<1>3. CASE <<d, m>> \notin held[t]
  <2>1. r = <<d, m>> /\ r[1] = d
    BY <1>3
  <2>2. CASE a = d
    BY <2>2
  <2>3. CASE a # d
    <3>1. a <= d /\ a \in Nat /\ d \in Nat
      BY UpBelow DEF TreeInv, TreesUnder, Present, Live, Convs
    <3>2. <<a, m>> \notin tx[t].rest
      <4> SUFFICES ASSUME <<a, m>> \in tx[t].rest PROVE FALSE
        OBVIOUS
      <4>1. r[1] <= <<a, m>>[1]
        OBVIOUS
      <4> QED BY <2>1, <2>3, <3>1, <4>1
    <3> QED BY <1>1, <3>2
  <2> QED BY <2>2, <2>3
<1> QED BY <1>2, <1>3

\* lock_conversations takes a row, and leaves its task fit.
LEMMA LockWaits ==
    ASSUME Inv, TreeInv, LockInv, WaitInv, Typed', NEW t \in Tasks, lock_conversations(t)
    PROVE  Fits(t)' /\ WaitFrame(t) /\ \A h \in held'[t] : h[1] \in Live
<1> DEFINE r    == NextRow(t)
           on   == tx[t].on
           tree == tx[t].tree
           rest == tx[t].rest
<1>1. PICK Old : tx \in [Tasks -> Record(Old)]
  BY DEF Inv, TxOK
<1>2. /\ UNCHANGED <<parent, state, rows>> /\ rest # {} /\ tx[t].pc \notin {"halt", "forget"}
      /\ held' = [held EXCEPT ![t] = IF r[1] \in Live THEN @ \cup {r} ELSE @]
      /\ tx' = [tx EXCEPT ![t] = [tx[t] EXCEPT !.rest = @ \ {r}]]
  BY <1>1 DEF lock_conversations, Locking, dbVars
<1>3. Typed /\ ParentsBelow /\ LiveUp /\ Fits(t) /\ Convs \subseteq Nat
  BY DEF Inv, TreeOK, Typed, TreeInv, WaitInv, Convs
<1> HIDE DEF r
<1>5. tx'[t] = [tx[t] EXCEPT !.rest = @ \ {r}] /\ \A u \in Tasks \ {t} : tx'[u] = tx[u]
  BY <1>1, <1>2
<1>6. /\ tx'[t].pc = tx[t].pc /\ tx'[t].on = on /\ tx'[t].by = tx[t].by /\ tx'[t].tree = tree
      /\ tx'[t].rest = rest \ {r}
  BY <1>1, <1>5 DEF Record
<1>7. /\ held'[t] = IF r[1] \in Live THEN held[t] \cup {r} ELSE held[t]
      /\ \A u \in Tasks \ {t} : held'[u] = held[u]
  BY <1>2 DEF LockInv
<1>8. WaitFrame(t) /\ \A h \in held'[t] : h[1] \in Live
  BY <1>2, <1>5, <1>7 DEF WaitFrame, WaitInv, HeldLive
<1>9. Up' = Up /\ Live' = Live /\ parent' = parent /\ Root(on)' = Root(on)
  <2>1. Up' = Up /\ Live' = Live /\ parent' = parent
    BY <1>2 DEF Up, Live
  <2> QED BY <1>6, <2>1 DEF Root
<1>10. tx[t].pc \in Takes /\ rows'[t] = {} /\ held'[t] \subseteq held[t] \cup {r}
  BY <1>2, <1>3, <1>7 DEF Fits, RestFits, Takes, Pairs, Rowed
<1>11. CASE tx[t].pc \in Pairs
  <2>1. PICK k \in Convs, m \in {"share", "change"} : Present(k) /\ parent[k] # 0 /\ PairOf(t, k, m)
    BY <1>2, <1>3, <1>11 DEF Fits, PairFits
  <2>2. parent[k] < k /\ parent[k] \in Convs /\ parent[k] \in Nat /\ k \in Nat
    BY <1>3, <2>1 DEF ParentsBelow, Present
  <2>3. Present(k)' /\ parent'[k] # 0
    BY <1>2, <2>1 DEF Present
  <2>4. tx'[t].rest # {} => PairOf(t, k, m)'
    <3>1. CASE rest = {<<parent[k], "share">>, <<k, m>>} /\ held[t] = {}
      <4>1. <<parent[k], "share">>[1] = parent[k] /\ <<k, m>>[1] = k
        OBVIOUS
      <4>2. r \in rest /\ \A s \in rest : r[1] <= s[1]
        BY <1>2, <2>2, <3>1, <4>1, NextLeast DEF r
      <4>3. r = <<parent[k], "share">>
        <5> SUFFICES ASSUME r = <<k, m>> PROVE FALSE
          BY <3>1, <4>2
        <5>1. k <= parent[k]
          BY <3>1, <4>1, <4>2
        <5> QED BY <2>2, <5>1
      <4>4. tx'[t].rest = {<<k, m>>} /\ held'[t] \subseteq {<<parent[k], "share">>}
        BY <1>6, <1>10, <2>2, <3>1, <4>3
      <4> QED BY <1>9, <4>4 DEF PairOf
    <3>2. CASE rest = {<<k, m>>}
      <4>1. r \in rest
        <5>1. \A s \in rest : s[1] \in Convs
          BY <3>2
        <5> QED BY <1>2, <5>1, NextLeast DEF r
      <4> QED BY <1>6, <3>2, <4>1
    <3> QED BY <2>1, <3>1, <3>2 DEF PairOf
  <2>5. PairFits(t)'
    BY <1>3, <1>6, <1>9, <2>3, <2>4 DEF Fits, PairFits
  <2>6. RestFits(t)' /\ TreeFits(t)'
    BY <1>6, <1>10, <1>11 DEF RestFits, TreeFits, Takes, Pairs, Nothing
  <2> QED BY <1>8, <2>5, <2>6 DEF Fits
<1>12. CASE tx[t].pc = "unmark"
  <2>1. RestFits(t)' /\ PairFits(t)' /\ TreeFits(t)'
    BY <1>6, <1>10, <1>12 DEF RestFits, PairFits, TreeFits, Takes, Pairs, Nothing
  <2> QED BY <1>8, <2>1 DEF Fits
<1>13. CASE tx[t].pc = "root"
  <2>1. rest \subseteq {<<Root(on), "change">>} /\ held[t] \subseteq {<<Root(on), "change">>}
    BY <1>3, <1>13 DEF Fits, RestFits
  <2>2. r = <<Root(on), "change">>
    <3>1. rest = {<<Root(on), "change">>}
      BY <1>2, <2>1
    <3>2. r \in rest
      <4>1. on \in Convs /\ Present(on)
        BY <1>13 DEF TreeInv, TasksPresent, Busy, Present
      <4>2. Root(on) \in Convs
        BY <1>3, <4>1, RootAbove, UpBelow
      <4>3. \A s \in rest : s[1] \in Convs
        BY <3>1, <4>2
      <4> QED BY <1>2, <4>3, NextLeast DEF r
    <3> QED BY <3>1, <3>2
  <2>3. tx'[t].rest = {} /\ held'[t] \subseteq {<<Root(on), "change">>}
    BY <1>6, <1>10, <2>1, <2>2
  <2>4. RestFits(t)' /\ PairFits(t)' /\ TreeFits(t)'
    BY <1>6, <1>9, <1>10, <1>13, <2>3 DEF RestFits, PairFits, TreeFits, Takes, Pairs, Nothing
  <2> QED BY <1>8, <2>4 DEF Fits
<1>14. CASE tx[t].pc \in {"subtree", "rows"}
  <2>1. tree \subseteq Convs /\ \A d \in tree : on \in Up[d] /\ Present(d)
    BY DEF TreeInv, TreesUnder, Present
  <2>2. on \in Convs /\ Present(on)
    BY <1>14 DEF TreeInv, TasksPresent, Busy, Present
  <2>3. TreeWhole(t) /\ TreeWhole(t)'
    BY <1>3, <1>6, <1>9, <1>14 DEF Fits, TreeFits, TreeWhole
  <2>4. CASE tx[t].pc = "subtree"
    <3>1. /\ rest \subseteq AllOf(tree, "change") /\ rest \cap held[t] = {} /\ FromAbove(t, "change")
          /\ held[t] \subseteq AllOf(tree, "change") \cup {<<Root(on), "change">>}
      BY <1>3, <2>4 DEF Fits, TreeFits
    <3>2. \A s \in rest : s[1] \in Convs
      BY <2>1, <3>1 DEF AllOf
    <3>3. r \in rest /\ \A s \in rest : r[1] <= s[1]
      BY <1>2, <3>2, NextLeast DEF r
    <3>4. \A d \in tree : d \in Live => <<d, "change">> \in rest \cup held[t]
      BY <2>4 DEF LockInv, SubtreeHolds
    <3>5. FromAbove(t, "change")'
      BY <1>3, <1>6, <1>7, <1>9, <3>1, <3>3, <3>4, TakeAbove
    <3>6. TreeFits(t)'
      <4>1. tx'[t].rest \cap held'[t] = {}
        BY <1>6, <1>10, <3>1
      <4>2. /\ tx'[t].rest \subseteq AllOf(tree, "change")
            /\ held'[t] \subseteq AllOf(tree, "change") \cup {<<Root(on), "change">>}
        BY <1>6, <1>10, <3>1, <3>3
      <4>3. AllOf(tree, "change")' = AllOf(tree, "change")
        BY <1>6 DEF AllOf
      <4> QED BY <1>6, <1>9, <2>3, <2>4, <3>5, <4>1, <4>2, <4>3 DEF TreeFits
    <3> QED BY <1>6, <1>8, <1>10, <2>4, <3>6, FitsTree
  <2>5. CASE tx[t].pc = "rows"
    <3> DEFINE share == <<parent[on], "share">>
    <3>1. /\ rest \cup held[t] \subseteq AllOf(tree, "remove") \cup {share}
          /\ \A d \in tree : d \in Live => <<d, "remove">> \in rest \cup held[t]
          /\ rest \cap held[t] = {} /\ FromAbove(t, "remove")
          /\ share \in rest => held[t] = {} /\ parent[on] # 0
      BY <1>3, <2>5 DEF Fits, TreeFits
    <3>2. share \in rest => parent[on] \in Convs /\ parent[on] < on /\ on \in Nat /\ parent[on] \in Nat
      BY <1>3, <2>2, <3>1 DEF ParentsBelow, Present
    <3>3. \A s \in rest : s[1] \in Convs
      <4>1. share[1] = parent[on]
        OBVIOUS
      <4> QED BY <2>1, <3>1, <3>2, <4>1 DEF AllOf
    <3>4. r \in rest /\ \A s \in rest : r[1] <= s[1]
      BY <1>2, <3>3, NextLeast DEF r
    <3>5. FromAbove(t, "remove")'
      BY <1>3, <1>6, <1>7, <1>9, <3>1, <3>4, TakeAbove
    <3>6. share \notin tx'[t].rest
      <4> SUFFICES ASSUME share \in rest, share # r PROVE FALSE
        BY <1>6
      <4>1. r \in AllOf(tree, "remove") /\ share[1] = parent[on]
        BY <3>1, <3>4
      <4>2. r[1] <= parent[on] /\ r[1] \in tree /\ r[1] \in Nat
        BY <1>3, <2>1, <3>4, <4>1 DEF AllOf
      <4>3. on <= r[1]
        BY <1>3, <2>1, <4>2, UpBelow
      <4> QED BY <3>2, <4>2, <4>3
    <3>7. TreeFits(t)'
      <4>1. tx'[t].rest \cap held'[t] = {}
        BY <1>6, <1>10, <3>1
      <4>2. tx'[t].rest \cup held'[t] \subseteq AllOf(tree, "remove") \cup {share}
        BY <1>6, <1>10, <3>1, <3>4
      <4>3. AllOf(tree, "remove")' = AllOf(tree, "remove")
        BY <1>6 DEF AllOf
      <4>4. \A d \in tree : d \in Live => <<d, "remove">> \in tx'[t].rest \cup held'[t]
        <5> SUFFICES ASSUME NEW d \in tree, d \in Live PROVE <<d, "remove">> \in tx'[t].rest \cup held'[t]
          OBVIOUS
        <5>1. <<d, "remove">> = r => r[1] = d
          OBVIOUS
        <5> QED BY <1>6, <1>7, <3>1, <5>1
      <4>5. parent'[tx'[t].on] = parent[on]
        BY <1>6, <1>9
      <4> QED BY <1>6, <1>9, <2>3, <2>5, <3>5, <3>6, <4>1, <4>2, <4>3, <4>4, <4>5 DEF TreeFits
    <3> QED BY <1>6, <1>8, <1>10, <2>5, <3>7, FitsTree
  <2> QED BY <1>14, <2>4, <2>5
<1> QED BY <1>10, <1>11, <1>12, <1>13, <1>14 DEF Takes

\* A step that writes one task's record, and takes no lock.
LEMMA OwnFrame ==
    ASSUME Inv, LockInv, WaitInv, NEW t \in Tasks, \E r : tx' = [tx EXCEPT ![t] = r],
           UNCHANGED lockVars \/ Release(t)
    PROVE  WaitFrame(t) /\ \A h \in held'[t] : h[1] \in Live
<1>1. \A u \in Tasks \ {t} : tx'[u] = tx[u]
  BY DEF Inv, TxOK
<1>2. \A u \in Tasks \ {t} : held'[u] = held[u] /\ rows'[u] = rows[u]
  BY DEF lockVars, Release, LockInv, Inv, TreeOK
<1>3. held'[t] \subseteq held[t]
  BY DEF lockVars, Release, LockInv
<1> QED BY <1>1, <1>2, <1>3 DEF WaitFrame, WaitInv, HeldLive

\* A delete's cascade removes all that is under its conversation, on which
\* nobody else holds a lock.
LEMMA RowsWaits ==
    ASSUME Inv, TreeInv, LockInv, WaitInv, Typed', NEW t \in Tasks, delete_subtree_rows(t)
    PROVE  WaitInv'
<1> DEFINE gone == IF tx[t].on \in Live THEN subtree_ids(tx[t].on) ELSE {}
<1>1. /\ parent' = parent /\ state' = [c \in Convs |-> IF c \in gone THEN "deleted" ELSE state[c]]
      /\ \A d \in gone : Lockable(t, d, "remove")
      /\ Release(t) /\ GoLock(t, "forget", AllOf(tx[t].tree, "halt"))
  BY DEF delete_subtree_rows
<1>2. \A c \in Live : parent[c] \in gone => c \in gone
  BY SubtreeClosed
<1> HIDE DEF gone
<1>3. \A c : c \in Live' <=> c \in Live /\ c \notin gone
  BY <1>1 DEF Live
<1>4. LiveUp'
  BY <1>1, <1>2, <1>3 DEF LiveUp, WaitInv
<1>5. OwnRoots'
  BY <1>1, <1>3 DEF OwnRoots, WaitInv, Live
<1>6. \A u \in Tasks \ {t} : \A h \in held[u] : h[1] \in Live'
  BY <1>1, <1>3 DEF WaitInv, HeldLive, Lockable, Conflict
<1>7. TreeFrame(t)
  BY RowsStep DEF Step
<1>8. WaitFrame(t)
  <2>1. Others(t)
    BY <1>1, GoesRest DEF Inv, Went
  <2>2. \A u \in Tasks \ {t} : held'[u] = held[u] /\ rows'[u] = rows[u]
    BY <1>1 DEF Release, LockInv, Inv, TreeOK
  <2> QED BY <2>1, <2>2 DEF WaitFrame, Others
<1>9. Fits(t)' /\ held'[t] = {}
  BY FreesWaits
<1> QED BY <1>4, <1>5, <1>6, <1>7, <1>8, <1>9, WaitKeeps

\* Every step keeps who holds what, and what it waits for.
LEMMA WaitNext ==
    ASSUME Inv, LockedInv, WaitInv, [Next]_vars, Typed'
    PROVE  WaitInv'
<1>1. TreeInv /\ LockInv
  BY DEF LockedInv
<1>2. ASSUME NEW t \in Tasks, Mild(t), StateMoves(t), RowsMove(t), World => Fits(t)'
      PROVE  WaitInv'
  <2>1. World /\ WaitFrame(t) /\ \A h \in held'[t] : h \in held[t]
    BY <1>1, <1>2, MildWorld
  <2>2. \A h \in held'[t] : h[1] \in Live
    BY <2>1 DEF WaitInv, HeldLive
  <2> QED BY <1>1, <1>2, <2>1, <2>2, WorldKeeps
<1>3. ASSUME NEW t \in Tasks, UNCHANGED <<parent, state>>, WaitFrame(t), \A h \in held'[t] : h[1] \in Live, Fits(t)'
      PROVE  WaitInv'
  <2>1. World
    BY <1>3 DEF World
  <2> QED BY <1>1, <1>3, <2>1, WorldKeeps
<1>4. ASSUME NEW t \in Tasks, lock_conversations(t)
      PROVE  WaitInv'
  <2>1. UNCHANGED <<parent, state>>
    BY <1>4 DEF lock_conversations, dbVars
  <2> QED BY <1>1, <1>3, <1>4, <2>1, LockWaits
<1>5. ASSUME NEW t \in Tasks, Start(t)
      PROVE  WaitInv'
  <2>1. CASE start_agent(t)
    <3>1. WaitFrame(t) /\ UNCHANGED <<parent, state>>
      BY <1>1, <2>1 DEF start_agent, dbVars, WaitFrame, LockInv, Inv, TxOK
    <3> QED BY <1>1, <1>3, <2>1, <3>1, AgentWaits
  <2>2. CASE CreateCommit(t)
    BY <1>1, <2>2, CommitWaits
  <2>3. CASE complete_start(t) \/ fail_start(t) \/ StartFault(t)
    BY <1>1, <1>2, <1>5, <2>3, StartMild, StartStates, StartMoves, StartWaits
  <2> QED BY <1>5, <2>1, <2>2, <2>3 DEF Start
<1>6. ASSUME NEW t \in Tasks, Finish(t)
      PROVE  WaitInv'
  BY <1>1, <1>2, <1>6, FinishMild, FinishStates, FinishMoves, FinishWaits
<1>7. ASSUME NEW t \in Tasks, Message(t)
      PROVE  WaitInv'
  BY <1>1, <1>2, <1>7, MessageMild, MessageStates, MessageMoves, MessageWaits
<1>8. ASSUME NEW t \in Tasks, Turn(t)
      PROVE  WaitInv'
  BY <1>1, <1>2, <1>8, TurnMild, TurnStates, TurnMoves, TurnWaits
<1>9. ASSUME NEW t \in Tasks, stop_agent(t) \/ delete_subtree(t) \/ lock_subtree(t) \/ DeleteRoot(t)
      PROVE  WaitInv'
  <2>1. Fits(t)'
    BY <1>1, <1>9, StopAgentWaits, DeleteWaits, LockSubtreeWaits, DeleteRootWaits
  <2>2. UNCHANGED <<parent, state>> /\ (UNCHANGED lockVars \/ Release(t))
    BY <1>9 DEF stop_agent, delete_subtree, lock_subtree, DeleteRoot, dbVars
  <2>3. \E r : tx' = [tx EXCEPT ![t] = r]
    BY <1>9 DEF stop_agent, delete_subtree, lock_subtree, DeleteRoot, GoLock
  <2> QED BY <1>1, <1>3, <2>1, <2>2, <2>3, OwnFrame
<1>10. ASSUME NEW t \in Tasks, HaltNext(t)
       PROVE  WaitInv'
  <2>1. UNCHANGED <<parent, state, held>>
    BY <1>10 DEF HaltNext, dbVars, lockVars
  <2>2. \A h \in held'[t] : h[1] \in Live
    BY <2>1 DEF WaitInv, HeldLive
  <2> QED BY <1>1, <1>3, <1>10, <2>1, <2>2, HaltWaits
<1>11. ASSUME NEW t \in Tasks, stop_subtree(t) \/ mark_subtree_deleting(t)
       PROVE  WaitInv'
  <2>1. World
    BY <1>11 DEF stop_subtree, mark_subtree_deleting, Stopped, Running, World
  <2>2. Release(t) /\ \E r : tx' = [tx EXCEPT ![t] = r]
    BY <1>11 DEF stop_subtree, mark_subtree_deleting, End, GoLock
  <2> QED BY <1>1, <1>11, <2>1, <2>2, EndsWaits, OwnFrame, WorldKeeps
<1>12. ASSUME NEW t \in Tasks, delete_subtree_rows(t)
       PROVE  WaitInv'
  BY <1>1, <1>12, RowsWaits
<1>13. ASSUME NEW t \in Tasks, DeleteFault(t) \/ unmark_subtree_deleting(t)
       PROVE  WaitInv'
  BY <1>1, <1>2, <1>13, FaultMild, DeleteStates, DeleteMoves, FreesWaits DEF Delete
<1>14. ASSUME UNCHANGED <<parent, state, tx, held, rows>>
       PROVE  WaitInv'
  <2>1. Up' = Up /\ Live' = Live
    BY <1>14 DEF Up, Live
  <2>2. LiveUp' /\ OwnRoots' /\ HeldLive'
    BY <1>14, <2>1 DEF WaitInv, LiveUp, OwnRoots, HeldLive
  <2>3. \A u \in Tasks : Fits(u)'
    BY <1>14, <2>1 DEF WaitInv, Fits, RestFits, PairFits, TreeFits, PairOf, TreeWhole, FromAbove, Root, Present
  <2> QED BY <2>2, <2>3 DEF WaitInv
<1> QED
  <2>1. CASE vars' = vars
    BY <1>14, <2>1 DEF vars, dbVars, lockVars
  <2>2. ASSUME NEW c \in Convs, deliver_agent_message(c)
        PROVE  WaitInv'
    BY <1>14, <2>2 DEF deliver_agent_message, lockVars
  <2> QED BY <1>4, <1>5, <1>6, <1>7, <1>8, <1>9, <1>10, <1>11, <1>12, <1>13, <2>1, <2>2 DEF Next, Stop, Delete

\* At first nobody holds or waits.
LEMMA InitWaits == Init => WaitInv
<1> SUFFICES ASSUME Init PROVE WaitInv
  OBVIOUS
<1>1. /\ parent = [c \in Convs |-> IF c \in {2, 3} THEN c - 1 ELSE 0]
      /\ \A c \in Convs : c \in Live <=> c \in {1, 2, 3}
      /\ state[1] = "own"
      /\ \A t \in Tasks : tx[t] = NoTask /\ held[t] = {} /\ rows[t] = {}
  <2>1. {1, 2, 3} \subseteq Convs
    BY AgentTreeAssumption DEF Convs
  <2> QED BY <2>1 DEF Init, Live
<1>2. {1, 2, 3} \subseteq Convs /\ Live \subseteq Convs
  BY AgentTreeAssumption DEF Convs, Live
<1>3. LiveUp /\ OwnRoots /\ HeldLive
  BY <1>1, <1>2 DEF LiveUp, OwnRoots, HeldLive
<1>4. NoTask.pc = "idle" /\ NoTask.rest = {}
  BY DEF NoTask
<1>5. \A t \in Tasks : Fits(t)
  BY <1>1, <1>4 DEF Fits, RestFits, PairFits, TreeFits, Pairs
<1> QED BY <1>3, <1>5 DEF WaitInv

\* No tasks wait for each other in a circle, without an outage of the
\* database: conversations' rows are locked in ascending id ("Lock order, in
\* every transaction here", db/agents/mod.rs), and the locks a task takes out
\* of that order, create_child's on the root and the rows of a subtree read
\* again under its first locks, are on conversations nobody waits with.
THEOREM AgentTreeNoWaitCycle == Spec => [](faults = 0 => NoWaitCycle)
<1>1. Init => Inv /\ LockedInv /\ WaitInv
  BY InitInv, InitLocked, InitWaits
<1>2. Inv /\ LockedInv /\ WaitInv /\ [Next]_vars => (Inv /\ LockedInv /\ WaitInv)'
  <2> SUFFICES ASSUME Inv, LockedInv, WaitInv, [Next]_vars PROVE Inv' /\ LockedInv' /\ WaitInv'
    OBVIOUS
  <2>1. Inv'
    BY NextKeeps
  <2>2. Typed'
    BY <2>1 DEF Inv, TreeOK, Typed
  <2> QED BY <2>1, <2>2, LockedNext, WaitNext
<1>3. Inv /\ LockedInv /\ WaitInv => (faults = 0 => NoWaitCycle)
  BY NoCircle
<1> QED BY <1>1, <1>2, <1>3, PTL DEF Spec

=============================================================================
