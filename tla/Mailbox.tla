------------------------------- MODULE Mailbox -------------------------------
(***************************************************************************)
(* What a conversation and one of its agents have to tell each other and   *)
(* the user: the questions their models ask (turn/questions.rs,            *)
(* db/questions.rs), the rows queued from one to the other (agent_messages *)
(* with its drain, turn/notify.rs, db/agents/messages.rs), the reports and *)
(* notices an agent owes its parent (agents/queue.rs), and what a restart  *)
(* makes of all that (agents/sweep.rs).                                    *)
(*                                                                         *)
(* A turn here is what it saves and consumes: TurnState has its locks and  *)
(* its Stop in full, AgentTree the transactions' locks.  So an admission,  *)
(* and a transaction, is one step, and a turn's place is its place in the  *)
(* conversation's queue, whose head holds the turn lock.                   *)
(***************************************************************************)
EXTENDS Naturals, Sequences, FiniteSets

CONSTANTS MaxEvents,   \* bound: what the user does (sends, answers, Stops)
          MaxTools,    \* bound: tool calls of the models
          MaxRestarts  \* bound: restarts of the server

ASSUME MailAssumption == MaxEvents \in Nat /\ MaxTools \in Nat /\ MaxRestarts \in Nat

Convs == {"root", "child"}
Other(c) == IF c = "root" THEN "child" ELSE "root"

VARIABLES
  (* The database. *)
  agent,       \* the child's agents.state: "active", "finished" or "stopped"
  pausedConvs, \* the paused conversations (PauseStore has the storing)
  question,    \* each one's pending_questions row
  mail,        \* undelivered agent_messages to each, oldest first
  read,        \* the questions whose agent_messages row the root was delivered
  last,        \* what the child's last message is
  (* Memory. *)
  turns,       \* the turns in flight, in the order of their admission
  waking,      \* wake_conversation tasks of each
  answering,   \* answers recorded whose turn is not admitted yet
  ending,      \* after_last_turn tasks of the child, at their two steps
  telling,     \* user_stopped tasks of the child
  (* Bounds and history. *)
  events, tools, restarts,
  asked,       \* questions asked so far
  accepted,    \* questions the answer of which was recorded
  results,     \* the results saved for each question's call
  owes,        \* the child ended a turn and its parent has heard nothing since
  hollow       \* ... as a turn with nothing to do came last, or will, an answer
               \* kept with a stopped turn's message being what it was for

dbs     == <<agent, pausedConvs, question, mail, read, last>>
tasks   == <<waking, answering, ending, telling>>
bounds  == <<events, tools, restarts>>
history == <<asked, accepted, results, owes, hollow>>
mvars   == <<dbs, turns, tasks, bounds, history>>

Questions == 1..(MaxTools + 1)
NoRow == [id |-> 0, of |-> "user", answered |-> FALSE]
NewTurn(k) == [kind |-> k, pc |-> "queued", own |-> FALSE, saved |-> FALSE, left |-> 0,
               ends |-> FALSE, stopped |-> FALSE]

MailInit ==
  /\ agent = "active" /\ pausedConvs = {}
  /\ question = [c \in Convs |-> NoRow]
  /\ mail = [c \in Convs |-> IF c = "child" THEN <<[kind |-> "row", id |-> 0]>> ELSE <<>>]
  /\ read = {}
  /\ last = "reply"
  /\ turns = [c \in Convs |-> <<>>]
  /\ waking = [c \in Convs |-> IF c = "child" THEN 1 ELSE 0]
  /\ answering = [c \in Convs |-> 0]
  /\ ending = [check |-> 0, tell |-> 0]
  /\ telling = 0
  /\ events = 0 /\ tools = 0 /\ restarts = 0
  /\ asked = 0 /\ accepted = {}
  /\ results = [q \in Questions |-> <<>>]
  /\ owes = FALSE /\ hollow = FALSE

Waits(c) == question[c].id # 0 /\ ~question[c].answered
Answered(c) == question[c].id # 0 /\ question[c].answered
Last(c, l) == IF c = "child" THEN l ELSE last
Admits(c) == c = "child" => agent # "stopped"

-----------------------------------------------------------------------------
(* Queueing a row and waking its recipient.                                *)

Queued(c, kind, id) == [mail EXCEPT ![c] = Append(@, [kind |-> kind, id |-> id])]
Woken(c) == [waking EXCEPT ![c] = @ + 1]

\* wake_conversation: a wake sure to find nothing is not counted
\* (wake_has_work), nor one of a stopped agent or a paused conversation.
Wake(c) ==
  /\ waking[c] > 0
  /\ waking' = [waking EXCEPT ![c] = @ - 1]
  /\ turns' = IF (mail[c] # <<>> \/ Answered(c)) /\ Admits(c) /\ c \notin pausedConvs
              THEN [turns EXCEPT ![c] = Append(@, NewTurn("wake"))] ELSE turns
  /\ UNCHANGED <<dbs, answering, ending, telling, bounds, history>>

-----------------------------------------------------------------------------
(* The user.                                                               *)

Event == events < MaxEvents /\ events' = events + 1

\* start_turn: it brings a finished or stopped agent back and ends a pause.
Send(c) ==
  /\ Event
  /\ agent' = IF c = "child" THEN "active" ELSE agent
  /\ pausedConvs' = pausedConvs \ {c}
  /\ turns' = [turns EXCEPT ![c] = Append(@, NewTurn("user"))]
  /\ UNCHANGED <<question, mail, read, last, tasks, tools, restarts, history>>

\* deliver_notice: something that happened outside a turn (a trust decision,
\* a pod's restart), as a turn's own message or, to one that takes none, saved.
Deliver(c) ==
  /\ Event
  /\ IF Admits(c) /\ c \notin pausedConvs
     THEN turns' = [turns EXCEPT ![c] = Append(@, NewTurn("deliver"))] /\ UNCHANGED last
     ELSE last' = Last(c, "note") /\ UNCHANGED turns
  /\ UNCHANGED <<agent, pausedConvs, question, mail, read, tasks, tools, restarts, history>>

\* answer_question: the agent is admitted, then the answer recorded, once.
Answer(c) ==
  /\ Event
  /\ Waits(c) /\ question[c].of = "user"
  /\ agent' = IF c = "child" THEN "active" ELSE agent
  /\ question' = [question EXCEPT ![c].answered = TRUE]
  /\ accepted' = accepted \cup {question[c].id}
  /\ answering' = [answering EXCEPT ![c] = @ + 1]
  /\ UNCHANGED <<pausedConvs, mail, read, last, turns, waking, ending, telling, tools, restarts,
                 asked, results, owes, hollow>>

\* start_by_user, then confirm_user_turn: an agent stopped since takes no
\* turn, and the answer is kept for its next one.
AnswerAdmitted(c) ==
  /\ answering[c] > 0
  /\ answering' = [answering EXCEPT ![c] = @ - 1]
  /\ pausedConvs' = pausedConvs \ {c}
  /\ turns' = IF Admits(c) THEN [turns EXCEPT ![c] = Append(@, NewTurn("answer"))] ELSE turns
  /\ UNCHANGED <<agent, question, mail, read, last, waking, ending, telling, bounds, history>>

Halted(q) == [i \in DOMAIN q |-> [q[i] EXCEPT !.stopped = TRUE]]

\* user_stop: turns end, the conversation is paused, and the parent of an
\* active agent that was not paused before is told.
UserStop(c) ==
  /\ Event
  /\ pausedConvs' = pausedConvs \cup {c}
  /\ turns' = [turns EXCEPT ![c] = Halted(@)]
  /\ telling' = IF c = "child" /\ agent = "active" /\ c \notin pausedConvs
                THEN telling + 1 ELSE telling
  /\ UNCHANGED <<agent, question, mail, read, last, waking, answering, ending, tools,
                 restarts, history>>

\* user_stopped.
TellStopped ==
  /\ telling > 0
  /\ telling' = telling - 1
  /\ mail' = Queued("root", "row", 0)
  /\ waking' = Woken("root")
  /\ owes' = FALSE
  /\ UNCHANGED <<agent, pausedConvs, question, read, last, turns, answering, ending, bounds,
                 asked, accepted, results, hollow>>

-----------------------------------------------------------------------------
(* A turn's message, and the question it takes.                            *)

Turn(c) == Head(turns[c])
Holds(c, pc) == turns[c] # <<>> /\ Turn(c).pc = pc
Runs(c, pc) == Holds(c, pc) /\ ~Turn(c).stopped
Becomes(c, t) == turns' = [turns EXCEPT ![c] = [@ EXCEPT ![1] = t]]
To(c, pc) == Becomes(c, [Turn(c) EXCEPT !.pc = pc])
Leaves(c) == turns' = [turns EXCEPT ![c] = Tail(@)]

HasMessage(k) == k \in {"user", "deliver"}

\* take_pending_question_on: an answered question always, a waiting one for
\* the user's own message.
Takes(c, k) == Answered(c) \/ (Waits(c) /\ k = "user")

\* Mutation: the result is saved and the row left.
TakeLeavesRow(c) ==
  /\ results' = [results EXCEPT ![question[c].id] =
                   Append(@, IF question[c].answered THEN "answer" ELSE Turn(c).kind)]
  /\ UNCHANGED question

\* create_message_taking_question's take and the call's result, in one
\* transaction: the answer, or the dismissal by the message of this turn.
TakeResult(c) ==
  /\ question' = [question EXCEPT ![c] = NoRow]
  /\ results' = [results EXCEPT ![question[c].id] =
                   Append(@, IF question[c].answered THEN "answer" ELSE Turn(c).kind)]

\* What save_turn_message leaves as the last message.
SavedLast(c, k) ==
  IF Takes(c, k) THEN Last(c, "result") ELSE IF HasMessage(k) THEN Last(c, "typed") ELSE last

\* save_turn_message for a turn of kind k: says whether anything was saved.
Saves(c, k) == HasMessage(k) \/ Takes(c, k)
SaveTurnMessage(c, k) ==
  /\ IF Takes(c, k) THEN TakeResult(c) ELSE UNCHANGED <<question, results>>
  /\ last' = SavedLast(c, k)

\* The turn has the lock: resume_finished for the user's, then its message.
Begin(c) ==
  /\ Runs(c, "queued")
  /\ agent' = IF c = "child" /\ agent = "finished" /\ Turn(c).kind \in {"user", "answer"}
              THEN "active" ELSE agent
  /\ SaveTurnMessage(c, Turn(c).kind)
  /\ LET saves == Saves(c, Turn(c).kind) IN
       Becomes(c, [Turn(c) EXCEPT !.pc = "top", !.own = saves, !.saved = saves])
  /\ UNCHANGED <<pausedConvs, mail, read, tasks, bounds, asked, accepted, owes, hollow>>

\* Stopped in the queue: a message is kept as a turn that ran would keep it,
\* and the stop noted, unless a turn before this one noted it (record_stop).
EndQueued(c) ==
  /\ Holds(c, "queued") /\ Turn(c).stopped
  /\ IF HasMessage(Turn(c).kind) /\ Takes(c, Turn(c).kind) THEN TakeResult(c)
     ELSE UNCHANGED <<question, results>>
  /\ last' \in {Last(c, "note"), IF HasMessage(Turn(c).kind) THEN SavedLast(c, Turn(c).kind) ELSE last}
  /\ Leaves(c)
  /\ hollow' = (hollow \/ (c = "child" /\ HasMessage(Turn(c).kind) /\ Answered(c)))
  /\ UNCHANGED <<agent, pausedConvs, mail, read, tasks, bounds, asked, accepted, owes>>

\* A Stop drops the body where it waits.  It comes before those queued behind
\* it, so the note is its own.
EndStopped(c) ==
  /\ turns[c] # <<>> /\ Turn(c).stopped /\ Turn(c).pc # "queued"
  /\ last' = Last(c, "note")
  /\ Leaves(c)
  /\ UNCHANGED <<agent, pausedConvs, question, mail, read, tasks, bounds, history>>

-----------------------------------------------------------------------------
(* The end of a turn that was not stopped.                                 *)

\* Mutation: a turn's end tells the parent only if it failed.
EndsSilently(c) ==
  /\ Leaves(c)
  /\ owes' = (owes \/ (c = "child" /\ agent = "active" /\ Turn(c).saved))
  /\ UNCHANGED <<ending, hollow>>

\* in_flight is dropped; the last turn of the child, unless it found nothing
\* to do, checks whether its parent is owed a word.
Ends(c) ==
  /\ Leaves(c)
  /\ LET something == c = "child" /\ Turn(c).saved
         isLast == Len(turns[c]) = 1 IN
       /\ ending' = IF something /\ isLast THEN [ending EXCEPT !.check = @ + 1] ELSE ending
       /\ owes' = (owes \/ (something /\ agent = "active"))
       /\ hollow' = IF something THEN ~isLast ELSE hollow

\* idle_agent_without_report, and the pause, when the check runs.
AfterCheck ==
  /\ ending.check > 0
  /\ ending' = IF agent = "active" /\ ~Waits("child") /\ "child" \notin pausedConvs
               THEN [check |-> ending.check - 1, tell |-> ending.tell + 1]
               ELSE [ending EXCEPT !.check = @ - 1]
  /\ UNCHANGED <<dbs, turns, waking, answering, telling, bounds, history>>

\* The notice that its turn ended without a report.
AfterTell ==
  /\ ending.tell > 0
  /\ ending' = [ending EXCEPT !.tell = @ - 1]
  /\ mail' = Queued("root", "row", 0)
  /\ waking' = Woken("root")
  /\ owes' = FALSE
  /\ UNCHANGED <<agent, pausedConvs, question, read, last, turns, answering, telling, bounds,
                 asked, accepted, results, hollow>>

-----------------------------------------------------------------------------
(* The body: take_answer_or_wait, the drain, the model.                    *)

\* An answer recorded since the turn's own message is taken.
TakeAnswer(c) ==
  /\ Runs(c, "top")
  /\ IF Answered(c) THEN TakeResult(c) /\ last' = Last(c, "result")
     ELSE UNCHANGED <<question, results, last>>
  /\ Becomes(c, [Turn(c) EXCEPT !.pc = "look", !.saved = @ \/ Answered(c)])
  /\ UNCHANGED <<agent, pausedConvs, mail, read, tasks, bounds, asked, accepted, owes, hollow>>

\* undelivered_agent_messages.
ListMail(c) == Becomes(c, [Turn(c) EXCEPT !.pc = "drain", !.left = Len(mail[c])])

\* A question still waiting ends the turn before it has consumed anything.
Look(c) ==
  /\ Runs(c, "look")
  /\ \/ /\ question[c].id = 0
        /\ ListMail(c) /\ UNCHANGED <<ending, owes, hollow>>
     \/ /\ Answered(c)
        /\ To(c, "top") /\ UNCHANGED <<ending, owes, hollow>>
     \/ /\ Waits(c)
        /\ Ends(c)
  /\ UNCHANGED <<dbs, waking, answering, telling, bounds, asked, accepted, results>>

\* deliver_agent_message: one row saved and marked, in one transaction.
Drain(c) ==
  /\ Runs(c, "drain") /\ Turn(c).left > 0
  /\ mail' = [mail EXCEPT ![c] = Tail(@)]
  /\ read' = read \cup ({Head(mail[c]).id} \ {0})
  /\ last' = Last(c, "queued")
  /\ Becomes(c, [Turn(c) EXCEPT !.left = @ - 1, !.saved = TRUE])
  /\ UNCHANGED <<agent, pausedConvs, question, tasks, bounds, history>>

\* A wake with nothing to tell ends there.
Drained(c) ==
  /\ Runs(c, "drain") /\ Turn(c).left = 0
  /\ IF ~Turn(c).own /\ ~Turn(c).saved
     THEN Ends(c)
     ELSE To(c, "call") /\ UNCHANGED <<ending, owes, hollow>>
  /\ UNCHANGED <<dbs, waking, answering, telling, bounds, asked, accepted, results>>

\* The model answers, or its call fails: the turn ends.  Its failure may be
\* noted in the conversation.
Reply(c) ==
  /\ Runs(c, "call")
  /\ \E l \in {"reply", "note"} : last' = Last(c, l)
  /\ Ends(c)
  /\ UNCHANGED <<agent, pausedConvs, question, mail, read, waking, answering, telling, bounds,
                 asked, accepted, results>>

\* The model calls a tool: its reply is saved, then the tool runs.
CallTool(c) ==
  /\ Runs(c, "call") /\ tools < MaxTools
  /\ tools' = tools + 1
  /\ last' = Last(c, "call")
  /\ To(c, "tool")
  /\ UNCHANGED <<agent, pausedConvs, question, mail, read, tasks, events, restarts, history>>

\* The results are saved, if there are any, and the turn goes on or ends.
SaveResults(c) ==
  /\ Runs(c, "results")
  /\ last' = IF Turn(c).ends /\ question[c].id # 0 THEN last ELSE Last(c, "result")
  /\ IF Turn(c).ends THEN Ends(c) ELSE To(c, "top") /\ UNCHANGED <<ending, owes, hollow>>
  /\ UNCHANGED <<agent, pausedConvs, question, mail, read, waking, answering, telling, bounds,
                 asked, accepted, results>>

-----------------------------------------------------------------------------
(* The tools.                                                              *)

After(c, ends) == [Turn(c) EXCEPT !.pc = "results", !.ends = ends]
Ran(c, ends) == Becomes(c, After(c, ends))

AskRow(c, of) ==
  /\ asked' = asked + 1
  /\ question' = [question EXCEPT ![c] = [id |-> asked + 1, of |-> of, answered |-> FALSE]]

\* Any other tool, or one refused.
OtherTool(c) ==
  /\ Runs(c, "tool")
  /\ Ran(c, FALSE)
  /\ UNCHANGED <<dbs, tasks, bounds, history>>

\* ask_user.
AskUser(c) ==
  /\ Runs(c, "tool")
  /\ AskRow(c, "user")
  /\ Ran(c, TRUE)
  /\ UNCHANGED <<agent, pausedConvs, mail, read, last, tasks, bounds, accepted, results,
                 owes, hollow>>

\* ask_parent: the row and the question queued to the parent, both or neither.
AskParent ==
  /\ Runs("child", "tool") /\ agent = "active"
  /\ AskRow("child", "parent")
  /\ mail' = Queued("root", "row", asked + 1)
  /\ waking' = Woken("root")
  /\ Ran("child", TRUE)
  /\ UNCHANGED <<agent, pausedConvs, read, last, answering, ending, telling, bounds,
                 accepted, results, owes, hollow>>

\* The child writes to its parent.
MessageParent ==
  /\ Runs("child", "tool")
  /\ mail' = Queued("root", "row", 0)
  /\ waking' = Woken("root")
  /\ Ran("child", FALSE)
  /\ UNCHANGED <<agent, pausedConvs, question, read, last, answering, ending, telling, bounds,
                 history>>

\* The parent writes to its child, which makes a finished one active: the
\* answer to a question it has read, else a message.
MessageChild ==
  /\ Runs("root", "tool") /\ agent # "stopped"
  /\ agent' = "active"
  /\ IF Waits("child") /\ question["child"].of = "parent" /\ question["child"].id \in read
     THEN /\ question' = [question EXCEPT !["child"].answered = TRUE]
          /\ accepted' = accepted \cup {question["child"].id}
          /\ UNCHANGED mail
     ELSE mail' = Queued("child", "row", 0) /\ UNCHANGED <<question, accepted>>
  /\ waking' = Woken("child")
  /\ Ran("root", FALSE)
  /\ UNCHANGED <<pausedConvs, read, last, answering, ending, telling, bounds,
                 asked, results, owes, hollow>>

\* unread_by: anything but a notice, or an answer untaken.
Unread == Answered("child") \/ \E i \in DOMAIN mail["child"] : mail["child"][i].kind # "notice"

\* finish, refused while something is unread; of one that has finished, it
\* is a follow-up report.
Finish ==
  /\ Runs("child", "tool")
  /\ \/ /\ agent = "active" /\ ~Unread
        /\ agent' = "finished"
     \/ /\ agent = "finished"
        /\ UNCHANGED agent
  /\ mail' = Queued("root", "row", 0)
  /\ waking' = Woken("root")
  /\ owes' = FALSE
  /\ Ran("child", TRUE)
  /\ UNCHANGED <<pausedConvs, question, read, last, answering, ending, telling, bounds,
                 asked, accepted, results, hollow>>

\* stop_agent: the state first, a finished agent's too, then the child's turns.
StopAgent ==
  /\ Runs("root", "tool") /\ agent # "stopped"
  /\ agent' = "stopped"
  /\ pausedConvs' = pausedConvs \cup {"child"}
  /\ turns' = [turns EXCEPT !["child"] = Halted(@),
                            !["root"] = [@ EXCEPT ![1] = After("root", FALSE)]]
  /\ UNCHANGED <<question, mail, read, last, tasks, bounds, history>>

-----------------------------------------------------------------------------
(* A restart.                                                              *)

\* queue_restart_notices: an agent cut off in a turn.
CutOff ==
  /\ agent = "active" /\ "child" \notin pausedConvs
  /\ last \in {"result", "queued", "call"}
  /\ question["child"].id = 0
  /\ \A i \in DOMAIN mail["child"] : mail["child"][i].kind # "notice"

\* Mutation: only the agents cut off in a turn are woken.
SweepCutOff(m) == [c \in Convs |-> IF c = "child" /\ CutOff THEN 1 ELSE 0]

\* conversations_with_queued_messages: who has mail, and an agent with an
\* answer untaken.
SweepWakes(m) ==
  [c \in Convs |->
     IF c \notin pausedConvs /\ Admits(c) /\ (m[c] # <<>> \/ (c = "child" /\ Answered(c)))
     THEN 1 ELSE 0]

\* The server dies with its tasks, and startup_sweep runs.
MailRestart ==
  /\ restarts < MaxRestarts
  /\ restarts' = restarts + 1
  /\ turns' = [c \in Convs |-> <<>>]
  /\ answering' = [c \in Convs |-> 0]
  /\ ending' = [check |-> 0, tell |-> 0]
  /\ telling' = 0
  /\ mail' = IF CutOff THEN Queued("child", "notice", 0) ELSE mail
  /\ waking' = SweepWakes(mail')
  /\ UNCHANGED <<agent, pausedConvs, question, read, last, events, tools, history>>

-----------------------------------------------------------------------------
Body(c) ==
  \/ Begin(c) \/ EndQueued(c) \/ EndStopped(c) \/ TakeAnswer(c) \/ Look(c) \/ Drain(c)
  \/ Drained(c) \/ Reply(c) \/ CallTool(c) \/ SaveResults(c)
Tool(c) == OtherTool(c) \/ AskUser(c)
ChildTool == AskParent \/ MessageParent \/ Finish
RootTool == MessageChild \/ StopAgent
User(c) == Send(c) \/ Deliver(c) \/ Answer(c) \/ UserStop(c)

MailNext ==
  \/ \E c \in Convs : User(c) \/ Body(c) \/ Tool(c) \/ Wake(c) \/ AnswerAdmitted(c)
  \/ ChildTool \/ RootTool \/ TellStopped \/ AfterCheck \/ AfterTell \/ MailRestart

MailSpec == MailInit /\ [][MailNext]_mvars

-----------------------------------------------------------------------------
(* Properties.                                                             *)

TurnKinds == {"user", "deliver", "answer", "wake"}
TurnPcs == {"queued", "top", "look", "drain", "call", "tool", "results"}
Turns == [kind : TurnKinds, pc : TurnPcs, own : BOOLEAN, saved : BOOLEAN, left : Nat,
          ends : BOOLEAN, stopped : BOOLEAN]

\* The state has its shape: nothing counts below zero.
MailTypeOK ==
  /\ agent \in {"active", "finished", "stopped"}
  /\ pausedConvs \subseteq Convs
  /\ question \in [Convs -> [id : Nat, of : {"user", "parent"}, answered : BOOLEAN]]
  /\ mail \in [Convs -> Seq([kind : {"row", "notice"}, id : Nat])]
  /\ read \subseteq Nat
  /\ turns \in [Convs -> Seq(Turns)]
  /\ waking \in [Convs -> Nat]
  /\ answering \in [Convs -> Nat]
  /\ ending \in [check : Nat, tell : Nat]
  /\ telling \in Nat
  /\ events \in 0..MaxEvents
  /\ tools \in 0..MaxTools
  /\ restarts \in 0..MaxRestarts
  /\ asked \in Nat
  /\ accepted \subseteq 1..asked
  /\ results \in [Questions -> Seq({"answer"} \cup TurnKinds)]
  /\ owes \in BOOLEAN
  /\ hollow \in BOOLEAN

\* Every question asked is in its row or has had one result, its answer or
\* the dismissal by the user's own message; and an answer the user or the
\* parent was told is recorded is that result: neither a Stop, a restart, a
\* message sent instead nor a new question loses it or tells it twice
\* (create_message_taking_question).
OneResult ==
  \A q \in 1..asked :
    LET rows == {c \in Convs : question[c].id = q} IN
    /\ Cardinality(rows) + Len(results[q]) = 1
    /\ results[q] \in {<<>>, <<"answer">>, <<"user">>}
    /\ q \in accepted => \/ \E c \in rows : question[c].answered
                         \/ results[q] = <<"answer">>

\* The model is never called with a question of its own open: a waiting one
\* ends the turn before it consumes anything, an answered one is taken first
\* (take_answer_or_wait).
NoCallWhileAsking == \A c \in Convs : Holds(c, "call") => question[c].id = 0

\* A question to the parent is answered only by a message written after the
\* parent was delivered it.
AnsweredHavingRead ==
  (Answered("child") /\ question["child"].of = "parent") => question["child"].id \in read

\* What becomes of a question, from its call to the call's one result.
QuestionAccounted == OneResult /\ NoCallWhileAsking /\ AnsweredHavingRead

Resting(c) == turns[c] = <<>> /\ waking[c] = 0 /\ answering[c] = 0

\* Nothing queued is stranded: once a conversation is quiet, what is left in
\* its queue waits for a question's answer, for the user who paused it, or for
\* one to bring back a stopped agent; and an answer recorded has been taken.
\* (An answer to a user's own conversation waits for its next turn after a
\* restart: the sweep asks for agents' only.)
NothingStranded ==
  \A c \in Convs : Resting(c) =>
    \/ c \in pausedConvs \/ ~Admits(c) \/ Waits(c)
    \/ /\ mail[c] = <<>>
       /\ Answered(c) => (c = "root" /\ restarts > 0)

Told == ~owes \/ agent # "active" \/ Waits("child") \/ "child" \in pausedConvs
Settled == Resting("child") /\ ending = [check |-> 0, tell |-> 0] /\ telling = 0

\* An agent that is active with nothing to wait for has told its parent its
\* turn ended, unless its last turn came with nothing to do, or a restart cut
\* off the telling (after_last_turn).
ParentTold == (Settled /\ ~hollow /\ restarts = 0) => Told

\* What after_last_turn says of itself: "otherwise the parent would wait for
\* a report that won't come".  It does not hold (README).
NoParentWaitsUntold == (Settled /\ restarts = 0) => Told

-----------------------------------------------------------------------------
(* The inductive strengthening of QuestionAccounted.                       *)

\* Who waits for the turn lock is queued; a drain lists no more than there is;
\* and a turn past its look has no question of its own open.
HeadFits(c) ==
  /\ \A i \in DOMAIN turns[c] : i > 1 => turns[c][i].pc = "queued"
  /\ Holds(c, "drain") => Turn(c).left <= Len(mail[c])
  /\ (Holds(c, "drain") \/ Holds(c, "call") \/ Holds(c, "tool")) => question[c].id = 0

\* A call that has yet to run was counted, and may be the one that asks.
AsksFit ==
  /\ asked <= tools
  /\ \A c \in Convs : Holds(c, "tool") => asked < tools
  /\ (Holds("root", "tool") /\ Holds("child", "tool")) => asked + 1 < tools

\* A question is in one row or has its one result.
RowsFit ==
  /\ \A c \in Convs : question[c].id <= asked
  /\ question["root"].id = question["child"].id => question["root"].id = 0

Rows(q) == {c \in Convs : question[c].id = q}

ResultFits(q) ==
  /\ \/ Rows(q) # {} /\ results[q] = <<>>
     \/ Rows(q) = {} /\ results[q] \in {<<"answer">>, <<"user">>}
  /\ q \in accepted => (\E c \in Rows(q) : question[c].answered) \/ results[q] = <<"answer">>

AskInv ==
  /\ MailTypeOK /\ AsksFit /\ RowsFit /\ AnsweredHavingRead
  /\ \A c \in Convs : HeadFits(c)
  /\ \A q \in Questions : IF q <= asked THEN ResultFits(q) ELSE results[q] = <<>>

-----------------------------------------------------------------------------
(* The inductive strengthening of NothingStranded.                         *)

AnyStopped(c) == \E i \in DOMAIN turns[c] : turns[c][i].stopped
AnyRuns(c)    == \E i \in DOMAIN turns[c] : ~turns[c][i].stopped

\* A Stop ends all the turns there are, so those stopped come first; a pause
\* began with one; and the turn or the answer that ended a pause is still there
\* as long as one stopped is.
StopsFit(c) ==
  /\ \A i, j \in DOMAIN turns[c] : i < j /\ turns[c][j].stopped => turns[c][i].stopped
  /\ c \in pausedConvs => ~AnyRuns(c)
  /\ AnyStopped(c) => c \in pausedConvs \/ ~Admits(c) \/ answering[c] > 0 \/ AnyRuns(c)

\* A turn that has yet to list the mail, or lists all of it.
WillLook(c, t) ==
  /\ ~t.stopped
  /\ \/ t.pc \in {"queued", "top", "look"}
     \/ t.pc = "drain" /\ t.left = Len(mail[c])

\* Whatever is there to read has its reader: a task that will start a turn, or
\* a turn that will look; but for what waits for the user.
Attended(c) ==
  \/ c \in pausedConvs \/ ~Admits(c) \/ Waits(c)
  \/ waking[c] > 0 \/ answering[c] > 0
  \/ \E i \in DOMAIN turns[c] : WillLook(c, turns[c][i])
  \/ mail[c] = <<>> /\ (Answered(c) => (c = "root" /\ restarts > 0))

ReadInv == AskInv /\ \A c \in Convs : StopsFit(c) /\ Attended(c)

-----------------------------------------------------------------------------
(* The inductive strengthening of ParentTold.                              *)

\* A turn whose end says something.
WillSay(t) == ~t.stopped /\ (t.saved \/ HasMessage(t.kind))
AnySays == \E i \in DOMAIN turns["child"] : WillSay(turns["child"][i])

\* The parent is owed a word, and nothing excuses it.
Owed == owes /\ ~hollow /\ restarts = 0 /\ agent = "active"

\* A turn saves its message as it starts, and nothing before; a report settles
\* what is owed.
SavedFit ==
  /\ \A i \in DOMAIN turns["child"] :
       LET t == turns["child"][i] IN
       IF t.pc = "queued" THEN ~t.saved ELSE HasMessage(t.kind) => t.saved
  /\ agent = "finished" => ~owes

\* After a Stop the user's Stop is told, or what brought the agent back is an
\* answer to take or a message.
HaltedTold ==
  (Owed /\ ("child" \in pausedConvs \/ AnyStopped("child"))) =>
    telling > 0 \/ Answered("child") \/ AnySays

\* Otherwise a check, a notice or another turn's end is to come.
RunningTold ==
  (Owed /\ ~Waits("child") /\ "child" \notin pausedConvs) =>
    telling > 0 \/ ending.check > 0 \/ ending.tell > 0 \/ Answered("child") \/ AnySays

TellInv == ReadInv /\ SavedFit /\ HaltedTold /\ RunningTold

=============================================================================
