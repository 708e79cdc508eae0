----------------------------- MODULE AgentTree -----------------------------
(***************************************************************************)
(* A conversation and the agents under it: the transactions that make,     *)
(* start, finish, message, stop and delete them (db/agents), run by tasks  *)
(* that interleave at every statement, and how those decide which turns    *)
(* run (agents/mod.rs, agents/queue.rs, agents/delete.rs).                 *)
(*                                                                         *)
(* The database runs READ COMMITTED: a statement sees what is committed    *)
(* when it starts, and a row lock is kept to the transaction's end.  So a  *)
(* transaction is one action for each lock it may wait for but the first,  *)
(* which its opening action takes, and for each read that can be stale by  *)
(* the time it is used; its writes show in the action that commits it.     *)
(* A task runs one operation.  Ids are given in order, so a parent's is    *)
(* smaller than its agents'.                                               *)
(***************************************************************************)
EXTENDS Naturals, FiniteSets

CONSTANTS
    Tasks,      \* what runs: tool calls, requests, spawned tasks
    Ops,        \* the operations they may run: a subset of AllOps
    MaxConvs,   \* bound: conversations ever made
    MaxDepth,   \* SMELT_AGENT_DEPTH
    MaxFaults   \* bound: the database's outages

AllOps == {"create", "finish", "message", "send", "wake", "stop", "delete"}

ASSUME AgentTreeAssumption ==
    /\ IsFiniteSet(Tasks)
    /\ Ops \subseteq AllOps
    /\ MaxConvs \in Nat /\ MaxConvs >= 3
    /\ MaxDepth \in Nat \ {0} /\ MaxFaults \in Nat

VARIABLES
    (* The database. *)
    parent,     \* conversations.parent_id, 0 for the user's own
    state,      \* agents.state; "own" without an agents row
    started,    \* the agents whose started_at is set
    deleting,   \* the conversations whose deleting_at is set
    unread,     \* whose messages, questions or reports wait for each one
    held,       \* the locks each task holds on conversations, as <<id, mode>>
    rows,       \* the agents rows each task has locked
    (* Memory. *)
    paused,     \* the conversations paused
    tx,         \* what each task is doing
    faults,     \* outages so far
    (* History, read by the properties only. *)
    stands,     \* agents a stop_agent ended, and nobody wrote to since
    cut,        \* conversations deleted by a delete that did not know them
    fresh       \* for each finish past its reads, who came back or reported again since

dbVars   == <<parent, state, started, deleting, unread>>
lockVars == <<held, rows>>
histVars == <<stands, cut, fresh>>
vars     == <<dbVars, lockVars, paused, tx, faults, histVars>>

-----------------------------------------------------------------------------
Convs       == 1..MaxConvs
AgentStates == {"starting", "active", "finished", "stopped", "failed"}
States      == AgentStates \cup {"absent", "own", "deleted"}
Running     == {"starting", "active"}
Ended       == {"stopped", "failed"}

\* RowLock: FOR KEY SHARE, FOR NO KEY UPDATE and FOR UPDATE.
Modes == {"share", "change", "remove"}
Conflict(m, n) == "remove" \in {m, n} \/ (m = "change" /\ n = "change")

Pcs == {"idle", "done", "link", "complete", "fail",
        "finish", "running", "unread", "report", "after", "recipient", "check", "send",
        "revive", "count", "counted", "turn", "run",
        "root", "subtree", "halt", "rows", "unmark", "forget"}

\* A task: its operation, where it is, who called it, which conversation it
\* is about, what it has left to lock (or to halt), the subtree it has read,
\* and the states its mark replaced.
NoTask == [op |-> "none", pc |-> "idle", by |-> 0, on |-> 0, rest |-> {}, tree |-> {}, was |-> {}]
Task   == [op : Ops \cup {"none"}, pc : Pcs, by : 0..MaxConvs, on : 0..MaxConvs,
           rest : SUBSET (Convs \X (Modes \cup {"halt"})), tree : SUBSET Convs,
           was : SUBSET (Convs \X {"active", "finished"})]

Live       == {c \in Convs : state[c] \notin {"absent", "deleted"}}
IsAgent(c) == state[c] \in AgentStates

\* A conversation and everything above it, and what is under one.
Up == LET up[c \in 0..MaxConvs] == IF c = 0 THEN {} ELSE {c} \cup up[parent[c]] IN up
subtree_ids(c) == {c} \cup {d \in Live : c \in Up[d]}
Root(c)  == CHOOSE r \in Up[c] : parent[r] = 0
Depth(c) == Cardinality(Up[c]) - 1
Own(c)   == {d \in Live : parent[d] = c}

-----------------------------------------------------------------------------
(* Locks. *)

Lockable(t, c, m) ==
    \A u \in Tasks \ {t} : \A h \in held[u] : h[1] = c => ~Conflict(h[2], m)

RowFree(t, c) == \A u \in Tasks \ {t} : c \notin rows[u]

\* Mutation: the rows are locked from the last one, unsorted.
NextRowUnsorted(t) == CHOOSE r \in tx[t].rest : \A s \in tx[t].rest : r[1] >= s[1]

\* Rows are locked in ascending id.
NextRow(t) == CHOOSE r \in tx[t].rest : \A s \in tx[t].rest : r[1] <= s[1]

Locking(t)  == tx[t].rest # {} /\ tx[t].pc \notin {"halt", "forget"}
Locked(t, pc) == tx[t].pc = pc /\ tx[t].rest = {}

Release(t) ==
    /\ held' = [held EXCEPT ![t] = {}]
    /\ rows' = [rows EXCEPT ![t] = {}]

\* A row that is gone is no row to lock.
lock_conversations(t) ==
    /\ Locking(t)
    /\ LET r == NextRow(t) IN
        /\ Lockable(t, r[1], r[2])
        /\ held' = [held EXCEPT ![t] = IF r[1] \in Live THEN @ \cup {r} ELSE @]
        /\ tx' = [tx EXCEPT ![t].rest = @ \ {r}]
    /\ UNCHANGED <<dbVars, rows, paused, faults, histVars>>

Go(t, pc)      == tx' = [tx EXCEPT ![t].pc = pc]
GoLock(t, pc, rest) == tx' = [tx EXCEPT ![t].pc = pc, ![t].rest = rest]
Over           == [NoTask EXCEPT !.pc = "done"]

\* The end of a task, its transaction over.
End(t) == Release(t) /\ tx' = [tx EXCEPT ![t] = Over]

\* What a finish past its reads has not seen.
Freshly(cs) ==
    fresh' = [u \in Tasks |-> IF tx[u].pc \in {"unread", "report"} THEN fresh[u] \cup cs ELSE fresh[u]]

-----------------------------------------------------------------------------
(* start_agent: create_child's transaction, then the start it spawns, in a *)
(* task of its own.                                                        *)

\* Mutation: create_child does not look at deleting_at.
MayStartDeleting(by) == by \in Live /\ state[by] # "stopped" /\ Depth(by) < MaxDepth

MayStart(by) ==
    /\ by \in Live \ deleting
    /\ state[by] # "stopped"
    /\ Depth(by) < MaxDepth

\* The sequence gives the child its id, which nobody sees yet.
Unused == {c \in Convs : state[c] = "absent" /\ \A u \in Tasks : tx[u].on # c}

\* create_child locks its caller's row, and is refused or makes the child's.
\* A stopped caller's call may have been made before.
start_agent(t) ==
    /\ tx[t].pc = "idle" /\ "create" \in Ops
    /\ \E by \in Live, c \in Unused :
        /\ state[by] \in {"own", "active", "finished", "stopped"}
        /\ Lockable(t, by, "change")
        /\ MayStart(by)
        /\ \A d \in Unused : c <= d
        /\ held' = [held EXCEPT ![t] = {<<by, "change">>}]
        /\ tx' = [tx EXCEPT ![t] = [NoTask EXCEPT !.op = "create", !.pc = "link", !.by = by, !.on = c]]
    /\ UNCHANGED <<dbVars, rows, paused, faults, histVars>>

\* run_start, spawned after the commit: its steps go well, or fail.
run_start(t) ==
    \E pc \in {"complete", "fail"} : GoLock(t, pc, {<<tx[t].by, "share">>, <<tx[t].on, "change">>})

\* The agents row's foreign key share-locks the root; then the commit.
CreateCommit(t) ==
    LET by == tx[t].by  c == tx[t].on IN
    /\ tx[t].pc = "link"
    /\ Lockable(t, Root(by), "share")
    /\ parent' = [parent EXCEPT ![c] = by]
    /\ state' = [state EXCEPT ![c] = "starting"]
    /\ run_start(t)
    /\ Release(t)
    /\ Freshly({c})
    /\ UNCHANGED <<started, deleting, unread, paused, faults, stands, cut>>

\* Mutation: the done step's update is not gated on the state.
NotGone(t) == {tx[t].by, tx[t].on} \subseteq Live

\* complete_start: nothing is written unless the child is still starting.
StillStarting(t) == {tx[t].by, tx[t].on} \subseteq Live /\ state[tx[t].on] = "starting"
complete_start(t) ==
    LET c == tx[t].on IN
    /\ Locked(t, "complete")
    /\ RowFree(t, c)
    /\ IF StillStarting(t)
        THEN state' = [state EXCEPT ![c] = "active"] /\ started' = started \cup {c}
        ELSE UNCHANGED <<state, started>>
    /\ End(t)
    /\ UNCHANGED <<parent, deleting, unread, paused, faults, histVars>>

fail_start(t) ==
    LET c == tx[t].on IN
    /\ Locked(t, "fail")
    /\ RowFree(t, c)
    /\ IF StillStarting(t)
        THEN /\ state' = [state EXCEPT ![c] = "failed"]
             /\ unread' = [unread EXCEPT ![tx[t].by] = @ \cup {c}]
        ELSE UNCHANGED <<state, unread>>
    /\ End(t)
    /\ UNCHANGED <<parent, started, deleting, paused, faults, histVars>>

\* A start's write fails: the done step's makes it a failed start, and the
\* failed start's, tried FAIL_START_ATTEMPTS times, leaves it starting.
StartFault(t) ==
    /\ tx[t].pc \in {"complete", "fail"}
    /\ faults < MaxFaults
    /\ faults' = faults + 1
    /\ IF tx[t].pc = "complete"
        THEN Release(t) /\ GoLock(t, "fail", {<<tx[t].by, "share">>, <<tx[t].on, "change">>})
        ELSE End(t)
    /\ UNCHANGED <<dbVars, paused, histVars>>

-----------------------------------------------------------------------------
(* finish, and the follow-up report of an agent that had finished.         *)

BothShared(c) == {<<parent[c], "share">>, <<c, "share">>}

finish(t) ==
    /\ tx[t].pc = "idle" /\ "finish" \in Ops
    /\ \E c \in Live :
        /\ state[c] \in {"active", "finished"}
        /\ \A u \in Tasks : ~(tx[u].op = "finish" /\ tx[u].on = c)    \* one turn at a time
        /\ tx' = [tx EXCEPT ![t] = [NoTask EXCEPT !.op = "finish", !.pc = "finish", !.on = c,
                                                    !.rest = BothShared(c)]]
    /\ UNCHANGED <<dbVars, lockVars, paused, faults, histVars>>

\* The update of its row, which waits for who has it locked.
FinishUpdate(t) ==
    LET c == tx[t].on IN
    /\ Locked(t, "finish")
    /\ RowFree(t, c)
    /\ CASE state[c] = "active" ->
              /\ rows' = [rows EXCEPT ![t] = {c}]
              /\ Go(t, "running")
              /\ UNCHANGED held
         [] state[c] = "finished" -> Release(t) /\ GoLock(t, "after", BothShared(c))
         [] OTHER -> End(t)
    /\ UNCHANGED <<dbVars, paused, faults, histVars>>

\* Refused while a command or an agent of its own runs.
FinishRunning(t) ==
    /\ tx[t].pc = "running"
    /\ \/ End(t)                               \* a terminal command runs
       \/ /\ \E d \in Own(tx[t].on) : state[d] \in Running
          /\ End(t)
       \/ /\ \A d \in Own(tx[t].on) : state[d] \notin Running
          /\ Go(t, "unread")
          /\ UNCHANGED lockVars
    /\ UNCHANGED <<dbVars, paused, faults, histVars>>

\* Mutation: the unread check is dropped.
FinishUnreadUnchecked(t) ==
    /\ tx[t].pc = "unread"
    /\ Go(t, "report")
    /\ UNCHANGED <<dbVars, lockVars, paused, faults, histVars>>

\* Refused while something waits for it to be read.
FinishUnread(t) ==
    /\ tx[t].pc = "unread"
    /\ IF unread[tx[t].on] # {}
        THEN End(t) /\ fresh' = [fresh EXCEPT ![t] = {}]
        ELSE Go(t, "report") /\ UNCHANGED <<lockVars, fresh>>
    /\ UNCHANGED <<dbVars, paused, faults, stands, cut>>

FinishCommit(t) ==
    LET c == tx[t].on IN
    /\ tx[t].pc = "report"
    /\ state' = [state EXCEPT ![c] = "finished"]
    /\ unread' = [unread EXCEPT ![parent[c]] = @ \cup {c}]
    /\ End(t)
    /\ fresh' = [fresh EXCEPT ![t] = {}]
    /\ UNCHANGED <<parent, started, deleting, paused, faults, stands, cut>>

report_after_finish(t) ==
    LET c == tx[t].on IN
    /\ Locked(t, "after")
    /\ RowFree(t, c)
    /\ IF state[c] = "finished"
        THEN /\ unread' = [unread EXCEPT ![parent[c]] = @ \cup {c}]
             /\ Freshly({c})
        ELSE UNCHANGED <<unread, fresh>>
    /\ End(t)
    /\ UNCHANGED <<parent, state, started, deleting, paused, faults, stands, cut>>

-----------------------------------------------------------------------------
(* message_agent, to a parent or to one of its agents, and the delivery of *)
(* what waits for a conversation, by a turn of its own.                    *)

message_agent(t) ==
    /\ tx[t].pc = "idle" /\ "message" \in Ops
    /\ \E by \in Live, to \in Live :
        /\ state[by] \in {"own", "active", "finished"}
        /\ parent[by] = to \/ parent[to] = by
        /\ tx' = [tx EXCEPT ![t] = [NoTask EXCEPT !.op = "message", !.pc = "recipient", !.by = by, !.on = to,
                                                    !.rest = {<<by, "share">>, <<to, "share">>}]]
    /\ UNCHANGED <<dbVars, lockVars, paused, faults, histVars>>

\* The recipient's agents row is locked as its state is read.
MessageRow(t) ==
    LET to == tx[t].on IN
    /\ Locked(t, "recipient")
    /\ RowFree(t, to)
    /\ IF {tx[t].by, to} \subseteq Live /\ state[to] \notin Ended
        THEN /\ rows' = [rows EXCEPT ![t] = IF IsAgent(to) THEN {to} ELSE {}]
             /\ Go(t, "check")
             /\ UNCHANGED held
        ELSE End(t)
    /\ UNCHANGED <<dbVars, paused, faults, histVars>>

MessageCheck(t) ==
    /\ tx[t].pc = "check"
    /\ IF tx[t].on \in deleting THEN End(t) ELSE Go(t, "send") /\ UNCHANGED lockVars
    /\ UNCHANGED <<dbVars, paused, faults, histVars>>

\* A finished recipient is active again.
MessageSend(t) ==
    LET to == tx[t].on IN
    /\ tx[t].pc = "send"
    /\ IF state[to] = "finished"
        THEN state' = [state EXCEPT ![to] = "active"] /\ Freshly({to})
        ELSE UNCHANGED <<state, fresh>>
    /\ unread' = [unread EXCEPT ![to] = @ \cup {tx[t].by}]
    /\ End(t)
    /\ UNCHANGED <<parent, started, deleting, paused, faults, stands, cut>>

deliver_agent_message(c) ==
    /\ state[c] \in {"own", "active", "finished"}
    /\ \A u \in Tasks : ~(tx[u].op = "finish" /\ tx[u].on = c)
    /\ \A u \in Tasks : \A h \in held[u] : h[1] = c => ~Conflict(h[2], "change")
    /\ \E from \in unread[c] : unread' = [unread EXCEPT ![c] = @ \ {from}]
    /\ UNCHANGED <<parent, state, started, deleting, lockVars, paused, tx, faults, histVars>>

-----------------------------------------------------------------------------
(* The user's send, and a wake: what lets a turn run in an agent.          *)

BeginTurn(t, op, c, pc) ==
    /\ tx[t].pc = "idle" /\ op \in Ops
    /\ tx' = [tx EXCEPT ![t] = [NoTask EXCEPT !.op = op, !.pc = pc, !.on = c]]
    /\ UNCHANGED <<dbVars, lockVars, paused, faults, histVars>>

\* admit_user_turn's read: one that starts or failed is refused.
start_turn(t) ==
    \E c \in Live :
        \/ state[c] \in {"own", "active"} /\ BeginTurn(t, "send", c, "count")
        \/ state[c] \in {"finished", "stopped"} /\ BeginTurn(t, "send", c, "revive")

\* Mutation: reactivate_agent does not ask for started_at.
ReactivateAny(t) ==
    /\ tx[t].pc = "revive"
    /\ RowFree(t, tx[t].on)
    /\ state' = [state EXCEPT ![tx[t].on] = IF @ \in {"finished", "stopped"} THEN "active" ELSE @]
    /\ Go(t, "count")
    /\ UNCHANGED <<parent, started, deleting, unread, lockVars, paused, faults, histVars>>

\* reactivate_agent, and the read again when it found nothing to do.
Reactivate(t) ==
    LET c == tx[t].on IN
    /\ tx[t].pc = "revive"
    /\ RowFree(t, c)
    /\ IF state[c] \in {"finished", "stopped"} /\ c \in started
        THEN /\ state' = [state EXCEPT ![c] = "active"]
             /\ stands' = stands \ {c}
             /\ Freshly({c})
             /\ Go(t, "count")
             /\ UNCHANGED lockVars
        ELSE /\ IF state[c] \in Ended THEN End(t) ELSE Go(t, "count") /\ UNCHANGED lockVars
             /\ UNCHANGED <<state, stands, fresh>>
    /\ UNCHANGED <<parent, started, deleting, unread, paused, faults, cut>>

\* start_by_user: the turn is counted, and ends the pause.
CountUser(t) ==
    /\ tx[t].pc = "count" /\ tx[t].op = "send"
    /\ paused' = paused \ {tx[t].on}
    /\ Go(t, "counted")
    /\ UNCHANGED <<dbVars, lockVars, faults, histVars>>

\* Mutation: the turn goes on as it was admitted, unconfirmed.
Unconfirmed(t) ==
    /\ tx[t].pc = "counted"
    /\ Go(t, "turn")
    /\ UNCHANGED <<dbVars, lockVars, paused, faults, histVars>>

confirm_user_turn(t) ==
    /\ tx[t].pc = "counted"
    /\ IF state[tx[t].on] \in Ended \cup {"starting"} THEN End(t) ELSE Go(t, "turn") /\ UNCHANGED lockVars
    /\ UNCHANGED <<dbVars, paused, faults, histVars>>

\* The turn, holding the turn lock, in an agent that finished meanwhile.
resume_finished(t) ==
    LET c == tx[t].on IN
    /\ tx[t].pc = "turn"
    /\ RowFree(t, c)
    /\ IF state[c] = "finished"
        THEN state' = [state EXCEPT ![c] = "active"] /\ Freshly({c})
        ELSE UNCHANGED <<state, fresh>>
    /\ Go(t, "run")
    /\ UNCHANGED <<parent, started, deleting, unread, lockVars, paused, faults, stands, cut>>

\* A wake's read, which refuses one that starts, was stopped or failed.
admits_notices(c) == c \in Live /\ state[c] \notin Ended \cup {"starting"}
wake_conversation(t) == \E c \in Convs : admits_notices(c) /\ BeginTurn(t, "wake", c, "count")

start_unless_paused(t) ==
    /\ tx[t].pc = "count" /\ tx[t].op = "wake"
    /\ IF tx[t].on \in paused THEN End(t) ELSE Go(t, "run") /\ UNCHANGED lockVars
    /\ UNCHANGED <<dbVars, paused, faults, histVars>>

TurnEnds(t) ==
    /\ tx[t].pc = "run"
    /\ End(t)
    /\ UNCHANGED <<dbVars, paused, faults, histVars>>

-----------------------------------------------------------------------------
(* stop_agent and delete_subtree. *)

AllOf(cs, mode) == cs \X {mode}

InTurn(u, c) == tx[u].on = c /\ tx[u].pc \in {"counted", "turn", "run"}

\* After the last one a delete goes on to its rows, which it locks, its
\* parent's shared; a stop and a forget are over.
Halted(t) ==
    LET up == parent[tx[t].on] IN
    IF tx[t].op = "delete" /\ tx[t].pc = "halt"
    THEN [tx[t] EXCEPT !.pc = "rows",
                       !.rest = AllOf(tx[t].tree, "remove") \cup (IF up = 0 THEN {} ELSE {<<up, "share">>})]
    ELSE Over

\* stop_turn_now: every turn counted ends; a delete's forget leaves no pause.
HaltNext(t) ==
    /\ tx[t].pc \in {"halt", "forget"}
    /\ LET r == NextRow(t)  c == r[1] IN
        /\ tx' = [u \in Tasks |->
                    CASE u = t        -> IF tx[t].rest = {r} THEN Halted(t) ELSE [tx[t] EXCEPT !.rest = @ \ {r}]
                      [] InTurn(u, c) -> Over
                      [] OTHER        -> tx[u]]
        /\ paused' = IF tx[t].pc = "halt" THEN paused \cup {c} ELSE paused \ {c}
    /\ UNCHANGED <<dbVars, lockVars, faults, histVars>>

stop_agent(t) ==
    /\ tx[t].pc = "idle" /\ "stop" \in Ops
    /\ \E by \in Live, c \in Live :
        /\ state[by] \in {"own", "active", "finished"}
        /\ IsAgent(c) /\ parent[c] = by
        /\ tx' = [tx EXCEPT ![t] = [NoTask EXCEPT !.op = "stop", !.pc = "subtree", !.by = by, !.on = c,
                                                  !.tree = subtree_ids(c), !.rest = AllOf(subtree_ids(c), "change")]]
    /\ UNCHANGED <<dbVars, lockVars, paused, faults, histVars>>

\* lock_subtree: read again until nothing new appears under the locks.
lock_subtree(t) ==
    LET new == subtree_ids(tx[t].on) \ tx[t].tree IN
    /\ Locked(t, "subtree")
    /\ new # {}
    /\ tx' = [tx EXCEPT ![t].tree = @ \cup new, ![t].rest = AllOf(new, "change")]
    /\ UNCHANGED <<dbVars, lockVars, paused, faults, histVars>>

\* Mutation: the subtree is read once, before its rows are locked.
SubtreeReadOnce(t) == Locked(t, "subtree") /\ tx[t].tree # {}

SubtreeLocked(t) == Locked(t, "subtree") /\ subtree_ids(tx[t].on) \subseteq tx[t].tree
Stopped(cs)      == [c \in Convs |-> IF c \in cs /\ state[c] \in Running \cup {"finished"} THEN "stopped" ELSE state[c]]

stop_subtree(t) ==
    LET c == tx[t].on  tree == tx[t].tree IN
    /\ SubtreeLocked(t) /\ tx[t].op = "stop"
    /\ \A d \in tree : RowFree(t, d)
    /\ IF c \in Live /\ state[c] \notin Ended
        THEN /\ state' = Stopped(tree)
             /\ stands' = stands \cup {d \in tree : state'[d] = "stopped"}
             /\ GoLock(t, "halt", AllOf(tree, "halt"))
             /\ Release(t)
        ELSE /\ stands' = IF state[c] = "stopped" THEN stands \cup {c} ELSE stands
             /\ End(t)
             /\ UNCHANGED state
    /\ UNCHANGED <<parent, started, deleting, unread, paused, faults, cut, fresh>>

delete_subtree(t) ==
    /\ tx[t].pc = "idle" /\ "delete" \in Ops
    /\ \E c \in Live :
        tx' = [tx EXCEPT ![t] = [NoTask EXCEPT !.op = "delete", !.pc = "root", !.on = c,
                                               !.rest = {<<Root(c), "change">>}]]
    /\ UNCHANGED <<dbVars, lockVars, paused, faults, histVars>>

\* The root locked: the conversation may be gone, or its subtree is read.
DeleteRoot(t) ==
    LET c == tx[t].on IN
    /\ Locked(t, "root")
    /\ IF c \in Live
        THEN /\ tx' = [tx EXCEPT ![t].pc = "subtree", ![t].tree = subtree_ids(c),
                                 ![t].rest = AllOf(subtree_ids(c) \ {Root(c)}, "change")]
             /\ UNCHANGED lockVars
        ELSE Release(t) /\ GoLock(t, "forget", {<<c, "halt">>})
    /\ UNCHANGED <<dbVars, paused, faults, histVars>>

mark_subtree_deleting(t) ==
    LET tree == tx[t].tree IN
    /\ SubtreeLocked(t) /\ tx[t].op = "delete"
    /\ \A d \in tree : RowFree(t, d)
    /\ deleting' = deleting \cup (tree \cap Live)
    /\ state' = Stopped(tree)
    /\ tx' = [tx EXCEPT ![t].pc = "halt", ![t].rest = AllOf(tree, "halt"),
                        ![t].was = {w \in tree \X {"active", "finished"} : state[w[1]] = w[2]}]
    /\ Release(t)
    /\ UNCHANGED <<parent, started, unread, paused, faults, histVars>>

\* The delete, whose cascade takes all that is under it.
delete_subtree_rows(t) ==
    LET gone == IF tx[t].on \in Live THEN subtree_ids(tx[t].on) ELSE {} IN
    /\ Locked(t, "rows")
    /\ \A d \in gone : Lockable(t, d, "remove") /\ RowFree(t, d)
    /\ state' = [c \in Convs |-> IF c \in gone THEN "deleted" ELSE state[c]]
    /\ deleting' = deleting \ gone
    /\ started' = started \ gone
    /\ unread' = [c \in Convs |-> IF c \in gone THEN {} ELSE unread[c]]
    /\ cut' = cut \cup (gone \ tx[t].tree)
    /\ Release(t)
    /\ GoLock(t, "forget", AllOf(tx[t].tree, "halt"))
    /\ UNCHANGED <<parent, paused, faults, stands, fresh>>

\* A delete that fails undoes its mark; the fault may last, and the mark is
\* left.
DeleteFault(t) ==
    /\ tx[t].pc = "rows"
    /\ faults < MaxFaults
    /\ faults' = faults + 1
    /\ Release(t)
    /\ \/ GoLock(t, "unmark", AllOf(tx[t].tree, "change"))
       \/ tx' = [tx EXCEPT ![t] = Over]
    /\ UNCHANGED <<dbVars, paused, histVars>>

unmark_subtree_deleting(t) ==
    LET back == {w \in tx[t].was : state[w[1]] = "stopped"}
        ids  == {w[1] : w \in back} IN
    /\ Locked(t, "unmark")
    /\ \A d \in ids : RowFree(t, d)
    /\ deleting' = deleting \ tx[t].tree
    /\ state' = [c \in Convs |-> IF c \in ids THEN (CHOOSE w \in back : w[1] = c)[2] ELSE state[c]]
    /\ Freshly({w[1] : w \in {v \in back : v[2] = "active"}})
    /\ End(t)
    /\ UNCHANGED <<parent, started, unread, paused, faults, stands, cut>>

-----------------------------------------------------------------------------
\* The user's conversation, an agent of its own, and one of that agent's.
Init ==
    /\ parent = [c \in Convs |-> IF c \in {2, 3} THEN c - 1 ELSE 0]
    /\ \E s \in {"active", "finished"}, k \in {"active", "finished", "failed"} :
        state = [c \in Convs |-> CASE c = 1 -> "own" [] c = 2 -> s [] c = 3 -> k [] OTHER -> "absent"]
    /\ started = {c \in Convs : state[c] \in {"active", "finished"}}
    /\ deleting = {} /\ paused = {} /\ faults = 0
    /\ unread = [c \in Convs |-> {}]
    /\ held = [t \in Tasks |-> {}] /\ rows = [t \in Tasks |-> {}]
    /\ tx = [t \in Tasks |-> NoTask]
    /\ stands = {} /\ cut = {} /\ fresh = [t \in Tasks |-> {}]

Start(t)   == start_agent(t) \/ CreateCommit(t) \/ complete_start(t) \/ fail_start(t) \/ StartFault(t)
Finish(t)  == finish(t) \/ FinishUpdate(t) \/ FinishRunning(t) \/ FinishUnread(t) \/ FinishCommit(t)
              \/ report_after_finish(t)
Message(t) == message_agent(t) \/ MessageRow(t) \/ MessageCheck(t) \/ MessageSend(t)
Turn(t)    == start_turn(t) \/ Reactivate(t) \/ CountUser(t) \/ confirm_user_turn(t)
              \/ resume_finished(t) \/ wake_conversation(t) \/ start_unless_paused(t) \/ TurnEnds(t)
Stop(t)    == stop_agent(t) \/ lock_subtree(t) \/ stop_subtree(t) \/ HaltNext(t)
Delete(t)  == delete_subtree(t) \/ DeleteRoot(t) \/ mark_subtree_deleting(t) \/ delete_subtree_rows(t)
              \/ DeleteFault(t) \/ unmark_subtree_deleting(t)

Next ==
    \/ \E t \in Tasks : lock_conversations(t) \/ Start(t) \/ Finish(t) \/ Message(t) \/ Turn(t) \/ Stop(t) \/ Delete(t)
    \/ \E c \in Convs : deliver_agent_message(c)

Spec == Init /\ [][Next]_vars

-----------------------------------------------------------------------------
\* Every variable keeps its type: a task's record holds what its operation
\* uses, and a lock is held on a conversation that exists.
TypeOK ==
    /\ parent \in [Convs -> 0..MaxConvs]
    /\ state \in [Convs -> States]
    /\ started \subseteq Live /\ deleting \subseteq Live
    /\ unread \in [Convs -> SUBSET Convs]
    /\ held \in [Tasks -> SUBSET (Live \X Modes)]
    /\ rows \in [Tasks -> SUBSET Live]
    /\ paused \subseteq Convs
    /\ tx \in [Tasks -> Task]
    /\ faults \in 0..MaxFaults
    /\ stands \subseteq Convs /\ cut \subseteq Convs
    /\ fresh \in [Tasks -> SUBSET Convs]

\* What a task waits for: the rows its next statement locks, and the agents
\* rows it updates.
Wants(t) ==
    CASE Locking(t)                    -> {NextRow(t)}
      [] tx[t].pc = "link"             -> {<<Root(tx[t].by), "share">>}
      [] Locked(t, "rows")             -> AllOf(subtree_ids(tx[t].on) \cap Live, "remove")
      [] OTHER                         -> {}
WantsRows(t) ==
    CASE Locking(t)                                                            -> {}
      [] tx[t].pc \in {"complete", "fail", "finish", "after", "recipient",
                       "revive", "turn"}                                       -> {tx[t].on}
      [] tx[t].pc = "subtree" /\ SubtreeLocked(t)                              -> tx[t].tree
      [] tx[t].pc = "rows"                                                     -> subtree_ids(tx[t].on)
      [] tx[t].pc = "unmark"                                                   -> {w[1] : w \in tx[t].was}
      [] OTHER                                                                 -> {}
WaitsFor(t, u) ==
    /\ t # u
    /\ \/ \E r \in Wants(t), h \in held[u] : r[1] = h[1] /\ Conflict(r[2], h[2])
       \/ WantsRows(t) \cap rows[u] # {}

\* No tasks wait for each other in a circle: what "Lock order, in every
\* transaction here" (db/agents/mod.rs) is for, create_child's foreign key
\* to the root, taken after its caller's row, included.
NoWaitCycle ==
    \A ts \in (SUBSET Tasks) \ {{}} : \E t \in ts : \A u \in ts : ~WaitsFor(t, u)

\* No agent is left starting under a caller that was stopped or is being
\* deleted: a stop and a delete take the agent made meanwhile with them
\* (lock_subtree), and create_child is refused after them.
NoStartUnderEnded ==
    \A c \in Convs : state[c] = "starting" =>
        /\ parent[c] \in Live \ deleting
        /\ state[parent[c]] # "stopped"

\* An agent that never completed its start never runs, whatever stops,
\* deletes, undone deletes and messages it meets: end_start gives its
\* credentials back relying on it (clear_agent_credentials).
NeverStartedNeverRuns ==
    \A c \in Convs : state[c] \in {"active", "finished"} => c \in started

\* What a stop_agent ended, or found ended, stays so until the user writes
\* to it: a start's done step, a message, a queued turn or an undone delete
\* do not bring it back ("a Stop since then stands", unmark_subtree_deleting).
StopStands ==
    \A c \in stands : state[c] \in {"stopped", "deleted"}

\* Once a stop or a delete has halted a stopped agent's turns, no turn runs
\* in it: one admitted meanwhile is refused when it is counted, and one
\* counted is ended (confirm_user_turn, start_unless_paused).
StoppedRunsNothing ==
    \A c \in Convs :
        (state[c] = "stopped" /\ \A t \in Tasks : <<c, "halt">> \notin tx[t].rest) =>
            \A t \in Tasks : ~(tx[t].on = c /\ tx[t].pc \in {"turn", "run"})

\* A delete removes no conversation it did not know of, and so did not stop,
\* tear down or forget: "Marks the subtree first, so no start_agent adds to
\* it" (delete_subtree).
CascadeCovered == cut = {}

\* An agent finishes with nothing unread and no agent of its own running,
\* but for an agent that came back, or reported again, after its finish had
\* looked (finish_agent reads who runs before it reads what is unread).
FinishReadsAll ==
    [][\A t \in Tasks :
        (tx[t].pc = "report" /\ tx'[t].pc = "done" /\ state'[tx[t].on] = "finished") =>
            unread[tx[t].on] \cup {d \in Own(tx[t].on) : state[d] \in Running} \subseteq fresh[t]]_vars

=============================================================================
