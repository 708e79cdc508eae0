----------------------------- MODULE TurnState -----------------------------
(***************************************************************************)
(* One conversation's turns: its runtime entry (turn/state.rs), the life   *)
(* of a turn from its admission to its end (turn/lifecycle.rs, with the    *)
(* body of turn/run.rs reduced to what it does to this state), the notices *)
(* saved between turns (turn/notify.rs), and what reaches the entry from   *)
(* outside a turn: a Stop, an error shown, a delete (turn/outside_turn.rs, *)
(* agents/delete.rs).                                                      *)
(*                                                                         *)
(* Every access to the entry is one critical section of the RUNTIMES       *)
(* mutex, and one action here.  Every await is a point where the others    *)
(* may go on, so a handler is cut into actions at its awaits.  A turn lock *)
(* is named after the turn that made it: a turn makes one at most.         *)
(***************************************************************************)
EXTENDS Naturals, Sequences, FiniteSets, Queues

CONSTANTS
    Turns,      \* the turns ever asked for
    Kinds,      \* the kinds of turn there are: a subset of AllKinds
    NoLock,     \* no turn lock
    Child,      \* whether the conversation is an agent's, so has a parent
    Deletable,  \* whether the user may delete it
    Owes,       \* what a body may leave the user to see, of Attentions
    MaxStops,   \* bound: Stops the user makes
    MaxShown,   \* bound: errors shown from outside a turn
    MaxFaults,  \* bound: database calls that fail
    MaxRounds   \* bound: tool passes of one turn (turn::run's MAX_TURNS)

\* The user's send, the user's answer on a card (no message of its own), a
\* delivered notice, and a wake (no message of its own).
AllKinds == {"send", "answer", "deliver", "wake"}

\* events::Attention in its order, CutOff standing for Refused too.
None     == 0
Notified == 1
CutOff   == 2
Failed   == 3
Question == 4
Attentions == {Notified, CutOff, Failed, Question}

ASSUME TurnStateAssumption ==
    /\ IsFiniteSet(Turns)
    /\ NoLock \notin Turns
    /\ Kinds \subseteq AllKinds
    /\ Child \in BOOLEAN /\ Deletable \in BOOLEAN
    /\ Owes \subseteq {Notified, CutOff, Question}
    /\ MaxStops \in Nat /\ MaxShown \in Nat /\ MaxFaults \in Nat /\ MaxRounds \in Nat

VARIABLES
    (* The database: with `deleting`, what is left of the conversation. *)
    log,        \* the conversation's messages, as <<what, whose>>
    (* The runtime entry. *)
    flags,      \* which of its Boolean and optional fields are set
    lock,       \* the turn lock
    counter,    \* the stop counter's value
    noted,      \* the last stop noted
    flights,    \* turns_in_flight
    gen,        \* the turn generation
    err,        \* the kept error: {} or {the turn that failed}
    att,        \* what the busy spell owes the user
    published,  \* the last NeedsUser published: {} or {<<generation, kind>>}
    notice,     \* the last notify_user message published: {} or {generation}
    reply,      \* the turns whose text is in the reply in progress
    (* The turns. *)
    pc,         \* where each turn is
    kind,       \* the kind of each turn
    ref,        \* the turn lock each turn has a handle on
    queue,      \* who holds (first) and waits for each turn lock
    hearing,    \* the turns that have a receiver of the stop counter
    seen,       \* the counter value each turn has seen
    mine,       \* the generation each turn's error is kept under
    took,       \* the turns that took a generation holding the lock
    rounds,     \* tool passes each turn has made
    outcome,    \* how each turn ended
    (* What goes on outside the turns. *)
    deleting,   \* how far the delete is
    checks,     \* checks, after a Stop or a shown error, yet to run
    stopped,    \* Stops made
    shown,      \* errors shown
    faults,     \* database calls that failed
    (* History, read by the properties only. *)
    order,      \* the turns in the order they were admitted
    due,        \* the turns in flight at some Stop or forget
    spell       \* the turns of the current, or last, busy spell

keptVars  == <<gen, err>>
owedVars  == <<att, published, notice>>
entryVars == <<flags, lock, counter, noted, flights, keptVars, owedVars, reply>>
lockVars  == <<ref, queue>>
turnVars  == <<pc, kind, hearing, seen, mine, took, rounds, outcome>>
envVars   == <<deleting, checks, stopped, shown, faults>>
histVars  == <<order, due, spell>>
vars      == <<log, entryVars, lockVars, turnVars, envVars, histVars>>

-----------------------------------------------------------------------------
Flags  == {"entry", "stops", "paused", "notified", "forgotten"}
Shown  == "shown"               \* an error that is no turn's
Writes == {"message", "call", "result", "reply", "failure", "note"}
States == {"idle", "checked", "queued", "granted", "saving", "top", "call", "tools",
           "asked", "finished", "stopQueued", "stopBody", "stopWait", "noting", "ended", "settled",
           "between", "after", "done"}

\* A turn is counted from its admission to the drop of its TurnInFlight.
Counted == {"queued", "granted", "saving", "top", "call", "tools", "asked", "finished",
            "stopQueued", "stopBody", "stopWait", "noting", "ended", "settled"}

\* Where a turn may write to the conversation, holding the turn lock.
Writing == {"granted", "saving", "top", "call", "tools", "asked", "finished", "noting"}

\* Where a turn would be ended by a Stop: it has yet to select on it, or
\* selects on it now.
Listening == {"queued", "granted", "saving", "top", "call", "tools", "asked", "finished"}

InFlight == {t \in Turns : pc[t] \in Counted}

EntryOK ==
    /\ flags \subseteq Flags
    /\ lock \in Turns \cup {NoLock}
    /\ counter \in Nat
    /\ noted \in Nat
    /\ flights \in Nat
    /\ gen \in Nat
    /\ err \subseteq Turns \cup {Shown}
    /\ att \in Attentions \cup {None}
    /\ published \subseteq Nat \X Attentions
    /\ notice \subseteq Nat
    /\ reply \subseteq Turns

TurnsOK ==
    /\ pc \in [Turns -> States]
    /\ kind \in [Turns -> AllKinds]
    /\ ref \in [Turns -> Turns \cup {NoLock}]
    /\ queue \in [Turns -> Seq(Turns)]
    /\ hearing \subseteq Turns
    /\ seen \in [Turns -> Nat]
    /\ mine \in [Turns -> Nat]
    /\ took \subseteq Turns
    /\ rounds \in [Turns -> Nat]
    /\ outcome \in [Turns -> {"none", "ok", "failed", "stopped"}]

OutsideOK ==
    /\ log \in Seq(Writes \X Turns)
    /\ deleting \in {"no", "marked", "deleted", "over"}
    /\ checks \in Nat
    /\ stopped \in Nat /\ shown \in Nat /\ faults \in Nat

HistoryOK ==
    /\ order \in Seq(Turns)
    /\ due \subseteq Turns
    /\ spell \subseteq Turns

TypeOK == EntryOK /\ TurnsOK /\ OutsideOK /\ HistoryOK

Init ==
    /\ log = <<>>
    /\ flags \in {{}, {"entry", "paused"}}      \* restore_pauses, at startup
    /\ lock = NoLock
    /\ counter = 0 /\ noted = 0 /\ flights = 0 /\ gen = 0
    /\ err = {} /\ att = None /\ published = {} /\ notice = {} /\ reply = {}
    /\ pc = [t \in Turns |-> "idle"]
    /\ kind \in [Turns -> Kinds]
    /\ ref = [t \in Turns |-> NoLock]
    /\ queue = [t \in Turns |-> <<>>]
    /\ hearing = {}
    /\ seen = [t \in Turns |-> 0]
    /\ mine = [t \in Turns |-> 0]
    /\ took = {}
    /\ rounds = [t \in Turns |-> 0]
    /\ outcome = [t \in Turns |-> "none"]
    /\ deleting = "no"
    /\ checks = 0 /\ stopped = 0 /\ shown = 0 /\ faults = 0
    /\ order = <<>> /\ due = {} /\ spell = {}

-----------------------------------------------------------------------------
Exists == deleting \in {"no", "marked"}
Paused == "paused" \in flags

HasMessage(t) == kind[t] \in {"send", "deliver"}
ByUser(t)     == kind[t] \in {"send", "answer"}

Larger(a, b) == IF a >= b THEN a ELSE b

\* A database call fails.
Fault == faults < MaxFaults /\ faults' = faults + 1

Write(what, t) == log' = Append(log, <<what, t>>)

\* ConversationRuntime::is_idle, but for the fields kept in `flags`.
RestIdle ==
    /\ lock = NoLock /\ reply = {} /\ flights = 0 /\ att = None
    /\ published = {} /\ notice = {} /\ gen = 0 /\ err = {}

\* update_existing: with f as its other fields, an idle entry is removed.
Tidy(f) ==
    flags' = IF RestIdle' /\ f \cap {"stops", "paused", "notified"} = {} THEN {} ELSE f

-----------------------------------------------------------------------------
(* Turn locks (external: tokio::sync::Mutex, fair).                        *)

Holds(t) == ref[t] # NoLock /\ queue[ref[t]] # <<>> /\ Head(queue[ref[t]]) = t

\* t takes a handle on the entry's lock, made if need be, and joins its queue.
JoinQueue(t) ==
    LET l == IF lock = NoLock THEN t ELSE lock
    IN  /\ lock' = l
        /\ ref' = [ref EXCEPT ![t] = l]
        /\ queue' = [queue EXCEPT ![l] = Append(@, t)]

\* t's guard, or its place in the queue, is dropped, and its handle with it.
LeaveQueue(t) ==
    /\ queue' = [queue EXCEPT ![ref[t]] = Without(@, t)]
    /\ ref' = [ref EXCEPT ![t] = NoLock]

-----------------------------------------------------------------------------
(* Admission: admit, by start_turn, answer_question, deliver_notice and    *)
(* wake_conversation.                                                      *)

\* The caller's checks before the admission, awaits between them.  Only a
\* delivery is not preceded by something that finds a deleted conversation.
Arrive(t) ==
    /\ pc[t] = "idle"
    /\ Exists \/ kind[t] = "deliver"
    /\ pc' = [pc EXCEPT ![t] = "checked"]
    /\ UNCHANGED <<log, entryVars, lockVars, kind, hearing, seen, mine, took, rounds,
                   outcome, envVars, histVars>>

\* Mutation: a stop receiver that has not seen the stops before it.
AdmitUnseen(t, f) ==
    /\ flights' = flights + 1
    /\ JoinQueue(t)
    /\ hearing' = hearing \cup {t}
    /\ att' = IF flights = 0 THEN None ELSE att
    /\ flags' = (IF flights = 0 THEN f \ {"notified"} ELSE f) \cup {"entry", "stops"}
    /\ pc' = [pc EXCEPT ![t] = "queued"]
    /\ order' = Append(order, t)
    /\ spell' = IF flights = 0 THEN {t} ELSE spell \cup {t}
    /\ UNCHANGED <<log, counter, noted, notice, reply, kind, seen, took, rounds, outcome,
                   envVars, due>>

\* What every admission does in its critical section, f being the flags but
\* for that: the count, the stop receiver, the place in the queue and, as
\* the conversation goes busy, a clean spell.
Admit(t, f) ==
    /\ flights' = flights + 1
    /\ JoinQueue(t)
    /\ hearing' = hearing \cup {t}
    /\ seen' = [seen EXCEPT ![t] = counter]
    /\ att' = IF flights = 0 THEN None ELSE att
    /\ flags' = (IF flights = 0 THEN f \ {"notified"} ELSE f) \cup {"entry", "stops"}
    /\ pc' = [pc EXCEPT ![t] = "queued"]
    /\ order' = Append(order, t)
    /\ spell' = IF flights = 0 THEN {t} ELSE spell \cup {t}
    /\ UNCHANGED <<log, counter, noted, notice, reply, kind, took, rounds, outcome,
                   envVars, due>>

\* Admission::ByUser ends the pause and takes a new generation.
AdmitByUser(t) ==
    /\ pc[t] = "checked"
    /\ ByUser(t)
    /\ gen' = gen + 1
    /\ mine' = [mine EXCEPT ![t] = gen + 1]
    /\ err' = {}
    /\ published' = {}
    /\ Admit(t, flags \ {"paused"})

\* Mutation: the pause is not looked at again in the critical section.
AdmitNoticeUnasked(t) ==
    /\ pc[t] = "checked"
    /\ ~ ByUser(t)
    /\ Admit(t, flags)
    /\ UNCHANGED <<keptVars, published, mine>>

\* Admission::UnlessPaused.
AdmitNotice(t) ==
    /\ pc[t] = "checked"
    /\ ~ ByUser(t)
    /\ ~ Paused
    /\ Admit(t, flags)
    /\ UNCHANGED <<keptVars, published, mine>>

\* A wake refused, by the pause or by the state of an agent, does nothing.
RefuseWake(t) ==
    /\ pc[t] = "checked"
    /\ kind[t] = "wake"
    /\ Paused \/ Child
    /\ pc' = [pc EXCEPT ![t] = "done"]
    /\ UNCHANGED <<log, entryVars, lockVars, kind, hearing, seen, mine, took, rounds,
                   outcome, envVars, histVars>>

\* A delivery so refused is saved between turns: save_notice_between_turns
\* queues for the turn lock.
QueueBetween(t) ==
    /\ pc[t] = "checked"
    /\ kind[t] = "deliver"
    /\ Paused \/ Child
    /\ JoinQueue(t)
    /\ flags' = flags \cup {"entry"}
    /\ pc' = [pc EXCEPT ![t] = "between"]
    /\ UNCHANGED <<log, counter, noted, flights, keptVars, owedVars, reply, kind, hearing,
                   seen, mine, took, rounds, outcome, envVars, histVars>>

\* confirm_user_turn finds the agent stopped: the counted turn never runs,
\* and its place in the queue goes.
ConfirmRefused(t) ==
    /\ pc[t] = "queued"
    /\ Child /\ Exists /\ ByUser(t)
    /\ LeaveQueue(t)
    /\ pc' = [pc EXCEPT ![t] = "settled"]
    /\ UNCHANGED <<log, entryVars, kind, hearing, seen, mine, took, rounds, outcome,
                   envVars, histVars>>

-----------------------------------------------------------------------------
(* A turn that has its place: run_turn_stoppable.                          *)

\* Its stop receiver changed: a later Stop, or the counter was dropped by a
\* forget.
News(t) == t \notin hearing \/ counter > seen[t]

\* The counter value that ended t: the last one, if the counter is gone.
StoppedBy(t) == IF t \in hearing THEN counter ELSE seen[t]

\* take_turn_generation: a new one, unless the entry's lock is no longer the
\* one t holds.
TakeGeneration(t) ==
    IF ref[t] = lock
    THEN /\ gen' = gen + 1
         /\ err' = {}
         /\ mine' = [mine EXCEPT ![t] = gen + 1]
         /\ took' = took \cup {t}
    ELSE UNCHANGED <<keptVars, mine, took>>

\* run_turn_stoppable returns: the lock is let go.
End(t, how) ==
    /\ LeaveQueue(t)
    /\ pc' = [pc EXCEPT ![t] = "ended"]
    /\ outcome' = [outcome EXCEPT ![t] = how]

\* The lock is granted; a turn with a message takes its generation.
Grant(t) ==
    /\ pc[t] = "queued"
    /\ Holds(t)
    /\ IF HasMessage(t) THEN TakeGeneration(t) ELSE UNCHANGED <<keptVars, mine, took>>
    /\ pc' = [pc EXCEPT ![t] = "granted"]
    /\ UNCHANGED <<log, flags, lock, counter, noted, flights, owedVars, reply, lockVars,
                   kind, hearing, seen, rounds, outcome, envVars, histVars>>

\* conversation_exists, under the lock.
FindConversation(t) ==
    /\ pc[t] = "granted"
    /\ Exists
    /\ pc' = [pc EXCEPT ![t] = "saving"]
    /\ UNCHANGED <<log, entryVars, lockVars, kind, hearing, seen, mine, took, rounds,
                   outcome, envVars, histVars>>

\* It is gone: forget_turn_generation, and the turn fails.
FindGone(t) ==
    /\ pc[t] = "granted"
    /\ ~ Exists
    /\ gen' = 0 /\ err' = {} /\ published' = {}
    /\ flags' = flags \cup {"forgotten"}
    /\ End(t, "failed")
    /\ UNCHANGED <<log, lock, counter, noted, flights, att, notice, reply, kind, hearing,
                   seen, mine, took, rounds, envVars, histVars>>

\* The check, or the save after it, fails, and with it the turn.
FailEarly(t) ==
    /\ pc[t] \in {"granted", "saving"}
    /\ Fault
    /\ End(t, "failed")
    /\ UNCHANGED <<log, entryVars, kind, hearing, seen, mine, took, rounds,
                   deleting, checks, stopped, shown, histVars>>

\* save_turn_message: the turn's own message,
SaveMessage(t) ==
    /\ pc[t] = "saving"
    /\ HasMessage(t)
    /\ Exists
    /\ Write("message", t)
    /\ pc' = [pc EXCEPT ![t] = "top"]
    /\ UNCHANGED <<entryVars, lockVars, kind, hearing, seen, mine, took, rounds, outcome,
                   envVars, histVars>>

\* which a conversation deleted meanwhile no longer takes;
SaveInGone(t) ==
    /\ pc[t] = "saving"
    /\ HasMessage(t)
    /\ ~ Exists
    /\ End(t, "failed")
    /\ UNCHANGED <<log, entryVars, kind, hearing, seen, mine, took, rounds, envVars, histVars>>

\* or a card's answer, which makes this a turn with something to tell;
SaveAnswer(t) ==
    /\ pc[t] = "saving"
    /\ ~ HasMessage(t)
    /\ Exists
    /\ Write("message", t)
    /\ TakeGeneration(t)
    /\ pc' = [pc EXCEPT ![t] = "top"]
    /\ UNCHANGED <<flags, lock, counter, noted, flights, owedVars, reply, lockVars, kind,
                   hearing, seen, rounds, outcome, envVars, histVars>>

\* or nothing.
SaveNothing(t) ==
    /\ pc[t] = "saving"
    /\ ~ HasMessage(t)
    /\ pc' = [pc EXCEPT ![t] = "top"]
    /\ UNCHANGED <<log, entryVars, lockVars, kind, hearing, seen, mine, took, rounds,
                   outcome, envVars, histVars>>

-----------------------------------------------------------------------------
(* The body, holding the lock: run_turn_body.                              *)

Body == {"top", "call", "tools", "asked", "finished"}

Saved(t) == \E i \in 1..Len(log) : log[i] = <<"message", t>>

\* A turn that finds a question waiting, or a wake nothing to tell, is over.
EndWithNothing(t) ==
    /\ pc[t] = "top"
    /\ kind[t] # "send" /\ rounds[t] = 0
    /\ End(t, "ok")
    /\ UNCHANGED <<log, entryVars, kind, hearing, seen, mine, took, rounds, envVars, histVars>>

\* The notices drained, if the turn has nothing else to tell, are saved; a
\* turn without a generation takes one; the model call starts clean.
CallModel(t) ==
    /\ pc[t] = "top"
    /\ IF Saved(t) THEN UNCHANGED log ELSE Exists /\ Write("message", t)
    /\ IF t \in took THEN UNCHANGED <<keptVars, mine, took>> ELSE TakeGeneration(t)
    /\ reply' = {}
    /\ pc' = [pc EXCEPT ![t] = "call"]
    /\ UNCHANGED <<flags, lock, counter, noted, flights, owedVars, lockVars, kind,
                   hearing, seen, rounds, outcome, envVars, histVars>>

\* append_reply.
Stream(t) ==
    /\ pc[t] = "call"
    /\ reply' = reply \cup {t}
    /\ UNCHANGED <<log, flags, lock, counter, noted, flights, keptVars, owedVars, lockVars,
                   turnVars, envVars, histVars>>

\* A reply without calls ends the turn; one cut off owes the user that.
SaveReply(t, a) ==
    /\ pc[t] = "call"
    /\ Exists
    /\ a \in {None} \cup (Owes \cap {CutOff})
    /\ Write("reply", t)
    /\ reply' = {}
    /\ att' = Larger(att, a)
    /\ End(t, "ok")
    /\ UNCHANGED <<flags, lock, counter, noted, flights, keptVars, published, notice,
                   kind, hearing, seen, mine, took, rounds, envVars, histVars>>

\* One that is to be corrected, or cut off for want of room, calls again.
CallAgain(t) ==
    /\ pc[t] = "call"
    /\ Exists
    /\ rounds[t] < MaxRounds
    /\ Write("reply", t)
    /\ reply' = {}
    /\ pc' = [pc EXCEPT ![t] = "top"]
    /\ rounds' = [rounds EXCEPT ![t] = @ + 1]
    /\ UNCHANGED <<flags, lock, counter, noted, flights, keptVars, owedVars, lockVars,
                   kind, hearing, seen, mine, took, outcome, envVars, histVars>>

\* A reply with calls is saved, and its tools run.
SaveCall(t) ==
    /\ pc[t] = "call"
    /\ Exists
    /\ rounds[t] < MaxRounds
    /\ Write("call", t)
    /\ reply' = {}
    /\ pc' = [pc EXCEPT ![t] = "tools"]
    /\ rounds' = [rounds EXCEPT ![t] = @ + 1]
    /\ UNCHANGED <<flags, lock, counter, noted, flights, keptVars, owedVars, lockVars,
                   kind, hearing, seen, mine, took, outcome, envVars, histVars>>

\* Their results are saved, and the loop goes round.
SaveResults(t) ==
    /\ pc[t] = "tools"
    /\ Exists
    /\ Write("result", t)
    /\ pc' = [pc EXCEPT ![t] = "top"]
    /\ UNCHANGED <<entryVars, lockVars, kind, hearing, seen, mine, took, rounds, outcome,
                   envVars, histVars>>

\* Three tools end the turn: notify_user, which the spell then owes the user,
NotifyUser(t) ==
    /\ pc[t] = "tools"
    /\ Notified \in Owes
    /\ att' = Larger(att, Notified)
    /\ flags' = flags \cup {"notified"}
    /\ pc' = [pc EXCEPT ![t] = "finished"]
    /\ UNCHANGED <<log, lock, counter, noted, flights, keptVars, published, notice, reply,
                   lockVars, kind, hearing, seen, mine, took, rounds, outcome, envVars,
                   histVars>>

\* an agent's finish,
FinishAgent(t) ==
    /\ pc[t] = "tools"
    /\ Child
    /\ pc' = [pc EXCEPT ![t] = "finished"]
    /\ UNCHANGED <<log, entryVars, lockVars, kind, hearing, seen, mine, took, rounds,
                   outcome, envVars, histVars>>

\* and ask_user, whose answer will be its result.
AskUser(t) ==
    /\ pc[t] = "tools"
    /\ Exists
    /\ Question \in Owes
    /\ att' = Larger(att, Question)
    /\ pc' = [pc EXCEPT ![t] = "asked"]
    /\ UNCHANGED <<log, flags, lock, counter, noted, flights, keptVars, published, notice,
                   reply, lockVars, kind, hearing, seen, mine, took, rounds, outcome,
                   envVars, histVars>>

\* The results there are, which a question alone has none of, are saved, and
\* the turn is over.
EndAfterTools(t) ==
    /\ \/ /\ pc[t] \in {"asked", "finished"}
          /\ Exists /\ Write("result", t)
       \/ pc[t] = "asked" /\ UNCHANGED log
    /\ End(t, "ok")
    /\ UNCHANGED <<entryVars, kind, hearing, seen, mine, took, rounds, envVars, histVars>>

\* The body fails: the reply in progress goes, and the conversation may be
\* told why, all before the lock is let go.
FailBody(t) ==
    /\ reply' = {}
    /\ UNCHANGED log \/ (Exists /\ Write("failure", t))
    /\ End(t, "failed")
    /\ UNCHANGED <<flags, lock, counter, noted, flights, keptVars, owedVars, kind, hearing,
                   seen, mine, took, rounds, histVars>>

\* After it took its generation,
Fail(t) ==
    /\ pc[t] \in Body
    /\ t \in took \/ pc[t] # "top"
    /\ FailBody(t)
    /\ UNCHANGED envVars

\* or before, when only the database can fail it.
FailAtTop(t) ==
    /\ pc[t] = "top"
    /\ t \notin took
    /\ Fault
    /\ FailBody(t)
    /\ UNCHANGED <<deleting, checks, stopped, shown>>

-----------------------------------------------------------------------------
(* A turn a Stop ends.                                                     *)

\* Mutation: a turn a Stop ends in the queue goes to the back of it.
StopQueuedAtBack(t) ==
    /\ pc[t] = "queued"
    /\ News(t)
    /\ seen' = [seen EXCEPT ![t] = StoppedBy(t)]
    /\ queue' = [queue EXCEPT ![ref[t]] = Append(Without(@, t), t)]
    /\ pc' = [pc EXCEPT ![t] = "stopQueued"]
    /\ UNCHANGED <<log, entryVars, ref, kind, hearing, mine, took, rounds, outcome,
                   envVars, histVars>>

\* Caught waiting for the lock: it keeps its place in the queue.
StopQueued(t) ==
    /\ pc[t] = "queued"
    /\ News(t)
    /\ seen' = [seen EXCEPT ![t] = StoppedBy(t)]
    /\ pc' = [pc EXCEPT ![t] = "stopQueued"]
    /\ UNCHANGED <<log, entryVars, lockVars, kind, hearing, mine, took, rounds, outcome,
                   envVars, histVars>>

\* Once it has the lock its message is saved all the same;
KeepMessage(t) ==
    /\ pc[t] = "stopQueued"
    /\ Holds(t)
    /\ HasMessage(t) /\ Exists
    /\ Write("message", t)
    /\ pc' = [pc EXCEPT ![t] = "noting"]
    /\ UNCHANGED <<entryVars, lockVars, kind, hearing, seen, mine, took, rounds, outcome,
                   envVars, histVars>>

\* a wake or an answer has none, and a deleted conversation takes none;
KeepNothing(t) ==
    /\ pc[t] = "stopQueued"
    /\ Holds(t)
    /\ ~ (HasMessage(t) /\ Exists)
    /\ pc' = [pc EXCEPT ![t] = "noting"]
    /\ UNCHANGED <<log, entryVars, lockVars, kind, hearing, seen, mine, took, rounds,
                   outcome, envVars, histVars>>

\* a failed save is only logged.
KeepFails(t) ==
    /\ pc[t] = "stopQueued"
    /\ Holds(t)
    /\ HasMessage(t)
    /\ Fault
    /\ pc' = [pc EXCEPT ![t] = "noting"]
    /\ UNCHANGED <<log, entryVars, lockVars, kind, hearing, seen, mine, took, rounds,
                   outcome, deleting, checks, stopped, shown, histVars>>

\* Mutation: the body's hold on the lock outlives it.
StopBodyHolding(t) ==
    /\ pc[t] \in Body
    /\ News(t)
    /\ seen' = [seen EXCEPT ![t] = StoppedBy(t)]
    /\ pc' = [pc EXCEPT ![t] = "stopBody"]
    /\ UNCHANGED <<log, entryVars, lockVars, kind, hearing, mine, took, rounds, outcome,
                   envVars, histVars>>

\* Caught in its body: the body is dropped wherever it waits, and with it
\* the hold on the lock,
StopBody(t) ==
    /\ pc[t] \in Body
    /\ News(t)
    /\ seen' = [seen EXCEPT ![t] = StoppedBy(t)]
    /\ queue' = [queue EXCEPT ![ref[t]] = Without(@, t)]
    /\ pc' = [pc EXCEPT ![t] = "stopBody"]
    /\ UNCHANGED <<log, entryVars, ref, kind, hearing, mine, took, rounds, outcome,
                   envVars, histVars>>

\* for which the turn then queues again.
Requeue(t) ==
    /\ pc[t] = "stopBody"
    /\ queue' = [queue EXCEPT ![ref[t]] = Append(@, t)]
    /\ pc' = [pc EXCEPT ![t] = "stopWait"]
    /\ UNCHANGED <<log, entryVars, ref, kind, hearing, seen, mine, took, rounds, outcome,
                   envVars, histVars>>

LockBack(t) ==
    /\ pc[t] = "stopWait"
    /\ Holds(t)
    /\ pc' = [pc EXCEPT ![t] = "noting"]
    /\ UNCHANGED <<log, entryVars, lockVars, kind, hearing, seen, mine, took, rounds,
                   outcome, envVars, histVars>>

\* Mutation: every turn a stop ends notes it.
AlwaysNoted(n) == TRUE

\* note_stop says whether stop `n` is noted for the first time.
FirstNoted(n) == n > noted

\* The conversation's last message already is a stop's note.
LastIsNote == log # <<>> /\ log[Len(log)][1] = "note"

\* end_stopped_turn: no reply in progress is left, and the stop is noted,
\* once, and not right after another note.  A failed save is only logged.
EndStopped(t) ==
    /\ pc[t] = "noting"
    /\ reply' = {}
    /\ flags' = flags \cup {"entry", "stops"}
    /\ noted' = Larger(noted, seen[t])
    /\ IF FirstNoted(seen[t]) /\ Exists /\ ~ LastIsNote
       THEN \/ Write("note", t) /\ UNCHANGED faults
            \/ Fault /\ UNCHANGED log
       ELSE UNCHANGED <<log, faults>>
    /\ End(t, "stopped")
    /\ UNCHANGED <<lock, counter, flights, keptVars, owedVars, kind, hearing, seen, mine,
                   took, rounds, deleting, checks, stopped, shown, histVars>>

-----------------------------------------------------------------------------
(* A turn's end: run_turn_bounded after run_turn_stoppable, and the drop   *)
(* of its TurnInFlight.                                                    *)

\* Mutation: a turn that ends well clears what the ones before it owe.
OwedByLast(t) == IF outcome[t] = "failed" THEN Larger(att, Failed) ELSE None

\* note_attention, clear_attention: what the spell owes once t has ended.
OwedAfter(t) ==
    CASE outcome[t] = "failed"  -> Larger(att, Failed)
      [] outcome[t] = "stopped" -> None
      [] OTHER                  -> att

\* forgo_child_outcome: an agent's failure or cut-off is its parent's to tell.
Forgone(a) == IF Child /\ a \in {CutOff, Failed} THEN None ELSE a

\* The user's failed turn keeps its error, unless a newer generation began;
\* what its end owes the user is noted.
Settle(t) ==
    /\ pc[t] = "ended"
    /\ err' = IF ByUser(t) /\ outcome[t] = "failed" /\ gen = mine[t] THEN {t} ELSE err
    /\ att' = Forgone(OwedAfter(t))
    /\ flags' = IF outcome[t] = "stopped" THEN flags \ {"notified"} ELSE flags
    /\ pc' = [pc EXCEPT ![t] = "settled"]
    /\ UNCHANGED <<log, lock, counter, noted, flights, gen, published, notice, reply,
                   lockVars, kind, hearing, seen, mine, took, rounds, outcome, envVars,
                   histVars>>

\* What the spell's end publishes: a Failed repeating one that stands is not.
Repeats(a) == a = Failed /\ \E p \in published : p[2] = Failed

Publish ==
    IF att = None \/ Repeats(att) \/ "forgotten" \in flags
    THEN published
    ELSE {<<gen, att>>}

\* Mutation: the lock goes although a turn or a notice waits for it.
ReleaseIdleInUse(f, heard) ==
    /\ lock' = NoLock
    /\ counter' = IF heard = {} THEN 0 ELSE counter
    /\ noted' = IF heard = {} THEN 0 ELSE noted
    /\ Tidy(IF heard = {} THEN f \ {"stops"} ELSE f)

\* release_idle: the lock goes once nobody has a handle on it, the counter
\* once nobody hears it; f are the flags but for that, `heard` who hears.
ReleaseIdle(f, heard) ==
    /\ lock' = IF \E t \in Turns : ref[t] = lock THEN lock ELSE NoLock
    /\ counter' = IF heard = {} THEN 0 ELSE counter
    /\ noted' = IF heard = {} THEN 0 ELSE noted
    /\ Tidy(IF heard = {} THEN f \ {"stops"} ELSE f)

\* The turn, its stop receiver and all it kept are gone.
TurnGone(t) ==
    /\ pc' = [pc EXCEPT ![t] = "done"]
    /\ hearing' = hearing \ {t}
    /\ seen' = [seen EXCEPT ![t] = 0]
    /\ mine' = [mine EXCEPT ![t] = 0]
    /\ rounds' = [rounds EXCEPT ![t] = 0]
    /\ UNCHANGED <<kind, took, outcome>>

\* The last turn in flight ends the busy spell;
DropLast(t) ==
    /\ pc[t] = "settled"
    /\ flights = 1
    /\ flights' = 0
    /\ published' = Publish
    /\ notice' = IF "notified" \in flags /\ "forgotten" \notin flags THEN {gen} ELSE notice
    /\ att' = None
    /\ reply' = {}
    /\ TurnGone(t)
    /\ UNCHANGED <<log, keptVars, lockVars, envVars, histVars>>
    /\ ReleaseIdle(flags \ {"notified"}, hearing \ {t})

\* another is only counted out.
DropOther(t) ==
    /\ pc[t] = "settled"
    /\ flights > 1
    /\ flights' = flights - 1
    /\ TurnGone(t)
    /\ UNCHANGED <<log, flags, lock, counter, noted, keptVars, owedVars, reply, lockVars,
                   envVars, histVars>>

-----------------------------------------------------------------------------
(* save_notice_between_turns.                                              *)

\* Mutation: the notice is saved while a turn has the lock.
SaveBetweenAtOnce(t) ==
    /\ pc[t] = "between"
    /\ Exists /\ Write("message", t)
    /\ LeaveQueue(t)
    /\ pc' = [pc EXCEPT ![t] = "after"]
    /\ UNCHANGED <<entryVars, kind, hearing, seen, mine, took, rounds, outcome,
                   envVars, histVars>>

\* With the lock, the notice is saved; a failed save is only logged.
SaveBetween(t) ==
    /\ pc[t] = "between"
    /\ Holds(t)
    /\ \/ Exists /\ Write("message", t) /\ UNCHANGED faults
       \/ ~ Exists /\ UNCHANGED <<log, faults>>
       \/ Fault /\ UNCHANGED log
    /\ LeaveQueue(t)
    /\ pc' = [pc EXCEPT ![t] = "after"]
    /\ UNCHANGED <<entryVars, kind, hearing, seen, mine, took, rounds, outcome,
                   deleting, checks, stopped, shown, histVars>>

\* Unless a turn is in flight, whose end does it, idle state is released.
AfterBetween(t) ==
    /\ pc[t] = "after"
    /\ pc' = [pc EXCEPT ![t] = "done"]
    /\ UNCHANGED <<log, flights, keptVars, owedVars, reply, lockVars, kind, hearing, seen,
                   mine, took, rounds, outcome, envVars, histVars>>
    /\ IF flights = 0 /\ "entry" \in flags
       THEN ReleaseIdle(flags, hearing)
       ELSE UNCHANGED <<flags, lock, counter, noted>>

-----------------------------------------------------------------------------
(* From outside a turn: a Stop, an error shown, a delete.                  *)

\* stop_turn_now: paused, and the turns in flight told.
StopTurnNow ==
    /\ flags' = flags \cup {"entry", "paused"}
    /\ counter' = IF "stops" \in flags THEN counter + 1 ELSE counter
    /\ stopped' = stopped + 1
    /\ due' = due \cup InFlight
    /\ UNCHANGED <<log, lock, noted, flights, keptVars, owedVars, reply, lockVars,
                   turnVars, shown, faults, order, spell>>

\* Mutation: the whole entry goes, the count of turns in flight with it.
ForgetCount ==
    /\ flags' = {} /\ lock' = NoLock /\ counter' = 0 /\ noted' = 0 /\ flights' = 0
    /\ hearing' = {}
    /\ seen' = [t \in Turns |-> IF t \in hearing THEN counter ELSE seen[t]]
    /\ gen' = 0 /\ err' = {} /\ att' = None /\ published' = {} /\ notice' = {} /\ reply' = {}
    /\ due' = due \cup InFlight

\* forget_conversation_lock.  The turns in flight hear their counter go.
Forget ==
    IF "entry" \in flags
    THEN /\ lock' = NoLock
         /\ counter' = 0 /\ noted' = 0
         /\ hearing' = {}
         /\ seen' = [t \in Turns |-> IF t \in hearing THEN counter ELSE seen[t]]
         /\ gen' = 0 /\ err' = {} /\ att' = None /\ published' = {} /\ notice' = {}
         /\ UNCHANGED <<flights, reply>>
         /\ Tidy((flags \ {"stops", "paused", "notified"}) \cup {"forgotten"})
         /\ due' = due \cup InFlight
    ELSE UNCHANGED <<entryVars, hearing, seen, due>>

\* stop_conversation: the check that the conversation is still there comes
\* later, in a task of its own.
Stop ==
    /\ stopped < MaxStops
    /\ StopTurnNow
    /\ checks' = checks + 1
    /\ UNCHANGED deleting

\* show_error_outside_turn, checked likewise.
ShowError ==
    /\ shown < MaxShown
    /\ shown' = shown + 1
    /\ err' = {Shown}
    /\ flags' = flags \cup {"entry"}
    /\ checks' = checks + 1
    /\ UNCHANGED <<log, lock, counter, noted, flights, gen, owedVars, reply, lockVars,
                   turnVars, deleting, stopped, faults, histVars>>

\* Mutation: nothing is done about a conversation found gone.
CheckNothing ==
    /\ checks > 0
    /\ checks' = checks - 1
    /\ UNCHANGED <<log, entryVars, lockVars, turnVars, deleting, stopped, shown, faults,
                   histVars>>

\* after_turn_state_write: found gone, the conversation is forgotten.
CheckAfterWrite ==
    /\ checks > 0
    /\ checks' = checks - 1
    /\ \/ Exists /\ UNCHANGED <<entryVars, hearing, seen, due, faults>>
       \/ ~ Exists /\ Forget /\ UNCHANGED faults
       \/ Fault /\ UNCHANGED <<entryVars, hearing, seen, due>>
    /\ UNCHANGED <<log, lockVars, pc, kind, mine, took, rounds, outcome, deleting,
                   stopped, shown, order, spell>>

\* note_trust_decided: a published Question stands no longer.
TrustDecided ==
    /\ \E p \in published : p[2] = Question
    /\ published' = {}
    /\ UNCHANGED <<log, lock, counter, noted, flights, keptVars, att, notice, reply,
                   lockVars, turnVars, envVars, histVars>>
    /\ Tidy(flags)

\* delete_subtree: the conversation is marked, and its turns stopped;
DeleteMark ==
    /\ Deletable
    /\ deleting = "no"
    /\ deleting' = "marked"
    /\ StopTurnNow
    /\ UNCHANGED checks

\* its rows go,
DeleteRows ==
    /\ deleting = "marked"
    /\ deleting' = "deleted"
    /\ UNCHANGED <<log, entryVars, lockVars, turnVars, checks, stopped, shown, faults, histVars>>

\* or do not, and the mark is undone;
DeleteFails ==
    /\ deleting = "marked"
    /\ deleting' = "no"
    /\ Fault
    /\ UNCHANGED <<log, entryVars, lockVars, turnVars, checks, stopped, shown, histVars>>

\* and at last its turn state is forgotten.
DeleteForget ==
    /\ deleting = "deleted"
    /\ deleting' = "over"
    /\ Forget
    /\ UNCHANGED <<log, lockVars, pc, kind, mine, took, rounds, outcome, checks, stopped,
                   shown, faults, order, spell>>

-----------------------------------------------------------------------------
Admission(t) == Arrive(t) \/ AdmitByUser(t) \/ AdmitNotice(t) \/ RefuseWake(t)
                \/ QueueBetween(t) \/ ConfirmRefused(t)

Start(t) == Grant(t) \/ FindConversation(t) \/ FindGone(t) \/ SaveMessage(t)
            \/ SaveInGone(t) \/ SaveAnswer(t) \/ SaveNothing(t)

\* The body goes on until its next await, where a Stop that came ends it:
\* select! polls both.  A write sent before the Stop came counts as done then.
Unstopped(t) == ~ News(t)

RunBody(t) ==
    /\ Unstopped(t)
    /\ \/ EndWithNothing(t) \/ CallModel(t) \/ (\E a \in {None, CutOff} : SaveReply(t, a))
       \/ CallAgain(t) \/ SaveCall(t) \/ SaveResults(t) \/ NotifyUser(t) \/ FinishAgent(t)
       \/ AskUser(t) \/ EndAfterTools(t) \/ Fail(t)
       \/ FailAtTop(t)

Streaming(t) == Unstopped(t) /\ Stream(t)

Stopping(t) == StopQueued(t) \/ KeepMessage(t) \/ KeepNothing(t) \/ StopBody(t)
               \/ Requeue(t) \/ LockBack(t) \/ EndStopped(t)

Ending(t) == Settle(t) \/ DropLast(t) \/ DropOther(t)

Between(t) == SaveBetween(t) \/ AfterBetween(t)

Faulty(t) == FailEarly(t) \/ KeepFails(t)

Outside == Stop \/ ShowError \/ CheckAfterWrite \/ TrustDecided \/ DeleteMark
           \/ DeleteRows \/ DeleteFails \/ DeleteForget

Next ==
    \/ \E t \in Turns : \/ Admission(t) \/ Start(t) \/ RunBody(t) \/ Streaming(t)
                         \/ Stopping(t) \/ Ending(t) \/ Between(t) \/ Faulty(t)
    \/ Outside

Spec == Init /\ [][Next]_vars

\* A task that can go on is scheduled, and a body ends: its calls and tools
\* have timeouts and its rounds a bound.  Nobody has to ask, stop or delete.
TurnStep(t) == Start(t) \/ RunBody(t) \/ Stopping(t) \/ Ending(t) \/ Between(t)
Fairness == \A t \in Turns : WF_vars(TurnStep(t))

FairSpec == Spec /\ Fairness

-----------------------------------------------------------------------------
(* Properties.                                                             *)

\* While the conversation exists one turn at most holds a turn lock of its,
\* and whoever writes to it holds one: a lock in use, were it only a notice that
\* waits for it, is never replaced by a fresh one (release_idle,
\* forget_conversation_lock), which the next turn would get beside it.
OneWriter ==
    Exists =>
        /\ \A t \in Turns : pc[t] \in Writing => Holds(t)
        /\ \A t, u \in Turns : Holds(t) /\ Holds(u) => t = u
        /\ \A t \in Turns : ref[t] # NoLock => ref[t] = lock

\* A turn's tool results come right after its calls: no notice, stop note or
\* other turn's message ever lands between them, an order the API rejects
\* (save_notice_between_turns).
ResultsFollowCalls ==
    \A i \in 1..Len(log) : log[i][1] = "result" => i > 1 /\ log[i - 1] = <<"call", log[i][2]>>

\* Neither in the messages saved nor in the reply in progress do two turns
\* mix: a turn's results follow its calls, and the text a tab is shown is of
\* one turn (save_notice_between_turns, append_reply).
TurnsDontMix == ResultsFollowCalls /\ Cardinality(reply) <= 1

\* The count of turns in flight is exact whenever the entry is made, tidied
\* or forgotten, so that the conversation is busy just while one is.
CountExact == flights = Cardinality(InFlight)

\* A Stop ends exactly the turns counted before it: a turn hears of a Stop
\* or a forget if and only if it was in flight then (admit, SME-216).
StopEndsExactly ==
    \A t \in Turns :
        /\ pc[t] \in Listening => (News(t) <=> t \in due)
        /\ outcome[t] = "stopped" => t \in due

\* While the conversation is paused no turn goes on unaware of the Stop: a
\* wake or a delivery is refused by it, or ended by it (SME-217).
NoTurnGoesOnPaused ==
    Paused => \A t \in Turns : pc[t] \in Listening => News(t)

Position(e) == CHOOSE i \in 1..Len(log) : log[i] = e
Place(t)    == CHOOSE i \in 1..Len(order) : order[i] = t
Admitted    == {order[i] : i \in 1..Len(order)}

\* Admitted turns' messages are saved in the order of their admissions, of
\* the turns that run and of the ones stopped while queued (SME-202).
SavedInOrder ==
    \A t, u \in Admitted :
        Saved(t) /\ Saved(u) /\ Place(t) < Place(u)
            => Position(<<"message", t>>) < Position(<<"message", u>>)

Notes == {i \in 1..Len(log) : log[i][1] = "note"}

\* However many turns it ends, a stop is noted once at most (record_stop).
StopNotedOnce == Cardinality(Notes) <= stopped

\* What a stopped turn's body had written is followed by a stop's note, so
\* the model can tell it was cut short (record_stop), while nothing fails.
StopNotedAfterWork ==
    (Exists /\ faults = 0) =>
        \A t \in Turns : outcome[t] = "stopped" =>
            \A i \in 1..Len(log) :
                (log[i][2] = t /\ log[i][1] \in {"call", "result"}) => \E j \in Notes : j > i

\* Every stop that cut work short is noted after that work, and no stop twice
\* (record_stop).
StopNoted == StopNotedOnce /\ StopNotedAfterWork

Resting == {"idle", "checked", "done"}

\* Once nobody uses the conversation its lock and stop counter are freed,
\* and once it is deleted nothing of its entry is left, whatever a late
\* turn, notice, Stop or shown error made anew (SME-91, SME-179, SME-219).
NothingLeft ==
    (faults = 0 /\ \A t \in Turns : pc[t] \in Resting) =>
        /\ lock = NoLock /\ "stops" \notin flags
        /\ (deleting = "over" /\ checks = 0) => flags = {}

\* A failure of a root conversation's busy spell is told when the spell ends,
\* whatever its later turns owe, unless the user stopped one (TurnInFlight's
\* drop, note_attention).
FailureToldStep ==
    (flights = 1 /\ flights' = 0 /\ Exists /\ ~ Child
        /\ (\E t \in spell : outcome[t] = "failed")
        /\ (\A t \in spell : outcome[t] # "stopped"))
           => \E p \in published' : p[2] >= Failed

\* The user's failed turn keeps its error for a tab that reconnects, unless
\* a newer turn has started: the user acted again, or a turn admitted after
\* it has something to tell (run_turn_bounded, keep_turn_error).
UserFailureKeptStep ==
    \A t \in Turns :
        (/\ pc[t] = "ended" /\ pc'[t] = "settled"
         /\ ByUser(t) /\ outcome[t] = "failed" /\ Exists
         /\ \A u \in Admitted : Place(u) > Place(t) => ~ ByUser(u) /\ u \notin took)
            => err' = {t}

\* No failure is lost: the spell's end tells of it (TurnInFlight's drop), and
\* the user's own is kept for the tabs (keep_turn_error).
FailuresKept == [][FailureToldStep /\ UserFailureKeptStep]_vars

\* Every admitted turn ends, and every notice queued between turns is done
\* with: nobody waits for the turn lock for ever, least of all a stopped
\* turn that queues for it again.
TurnEnds == \A t \in Turns : pc[t] \in Counted \cup {"between"} ~> pc[t] = "done"

-----------------------------------------------------------------------------
(* The inductive strengthening of OneWriter, StopEndsExactly and           *)
(* NoTurnGoesOnPaused.                                                     *)

\* Every handle on a turn lock is on the entry's, while there is no delete
\* to forget it.
LocksAgree == Exists => \A t \in Turns : ref[t] # NoLock => ref[t] = lock

WritersHold == \A t \in Turns : pc[t] \in Writing => Holds(t)

\* A receiver has a counter, and has seen none of its values to come.
ReceiversFit == \A t \in hearing : "stops" \in flags /\ seen[t] <= counter

\* Whom a Stop or a forget ends was in flight then, and nobody else was.
DueFits(t) ==
    /\ pc[t] \in {"idle", "checked"} => t \notin due
    /\ pc[t] \in {"stopQueued", "stopBody", "stopWait", "noting"} => t \in due
    /\ outcome[t] = "stopped" => t \in due
    /\ pc[t] \in Listening => (News(t) <=> t \in due)
    /\ pc[t] \in Listening /\ Paused => t \in due

AllDueFit == \A t \in Turns : DueFits(t)

IndInv == TypeOK /\ LocksAgree /\ WritersHold /\ ReceiversFit /\ AllDueFit
=============================================================================
