----------------------------- MODULE ClaudeRun -----------------------------
(***************************************************************************)
(* A conversation on a Claude Code provider (claude_cli/): the turn's CLI   *)
(* process with its waiting tool calls (run.rs, run/), the session smelt    *)
(* records to resume it in the next turn, the marks of what a closed run    *)
(* delivered and what a compaction replaced (session.rs), the runs that are *)
(* still ending, and what of the history each process is sent (render.rs).  *)
(*                                                                          *)
(* What the model is shown is a set of items: <<0, n>> the user's side's    *)
(* nth text, <<r, 0>> reply r, <<r, i>> the result of its ith call.  A      *)
(* request is a sequence of blocks, a reply and the user's side's items     *)
(* after it.  The CLI and the API behind it are external.                   *)
(***************************************************************************)
EXTENDS Naturals, Sequences, FiniteSets, Functions

CONSTANTS
    Shapes,      \* how a reply can be: [calls, ask, cut]
    MaxTurns, MaxReplies, MaxProcs,
    MaxBends,    \* notices, compactions, larger reply caps, turns of another provider
    MaxCliFaults \* calls that fail, processes that die, waits that run out

ASSUME CliAssumption == MaxProcs \in Nat \ {0}

VARIABLES
    hist,       \* the saved messages, block by block: [reply, texts]
    shape,      \* the replies made so far
    texts,      \* the texts so far
    session,    \* the conversation's row of claude_cli_sessions
    marks,      \* its Marks: reset, retired, delivered
    turn,       \* the turn: where it is, its TurnCli and its call
    endings,    \* the runs in its entry of ENDINGS
    proc,       \* each process, its Run and the task that ends it
    procs,      \* how many there have been
    ctx,        \* what each session's model has been shown
    forgotten,  \* the sessions whose files smelt removed
    deleting,   \* the conversation's delete: "no", "wait", "done"
    turns, bends, cliFaults,
    again,      \* an item was shown to a session that had it
    dropped     \* a Stop dropped a wait for runs that were ending

cliVars == <<hist, shape, texts, session, marks, turn, endings, proc, procs, ctx, forgotten,
             deleting, turns, bends, cliFaults, again, dropped>>

Procs == 1..MaxProcs
NoRow == [sess |-> 0, synced |-> <<>>]
NoTurn == [pc |-> "none", run |-> 0, rec |-> NoRow, resume |-> TRUE, retried |-> FALSE,
           wait |-> {}, resumed |-> FALSE, replaced |-> {}, held |-> FALSE, lone |-> FALSE,
           reply |-> 0, sess |-> 0, unchanged |-> FALSE]

\* A process: the CLI's side (whether it took a message in its session, what it
\* was sent, where it is, the call it waits on, what it said), smelt's Run, and
\* the task that ends it.
NoProc == [sess |-> 0, alive |-> FALSE, took |-> FALSE, sent |-> FALSE, msg |-> {},
           intr |-> FALSE, at |-> "idle", reply |-> 0, next |-> 1, fly |-> "no", ans |-> {},
           out |-> <<>>, chan |-> {}, state |-> "Streaming", expected |-> {}, arrived |-> {}, held |-> {},
           answers |-> <<>>, answered |-> {}, ids |-> {}, synced |-> <<>>,
           heard |-> FALSE, started |-> FALSE, pc |-> "run", echoed |-> {}, hold |-> {}]

CliInit ==
    /\ hist = <<>> /\ shape = <<>> /\ texts = 0
    /\ session = NoRow
    /\ marks = [reset |-> FALSE, retired |-> {}, delivered |-> {}]
    /\ turn = NoTurn
    /\ endings = {} /\ proc = [p \in Procs |-> NoProc] /\ procs = 0
    /\ ctx = [p \in Procs |-> {}] /\ forgotten = {} /\ deleting = "no"
    /\ turns = 0 /\ bends = 0 /\ cliFaults = 0 /\ again = FALSE /\ dropped = FALSE

-----------------------------------------------------------------------------
(* What is sent (turn/history.rs, render.rs).                               *)

Calls(r) == IF r = 0 THEN {} ELSE {<<r, i>> : i \in 1..shape[r].calls}
Question(r) == IF r # 0 /\ shape[r].ask THEN {<<r, shape[r].calls>>} ELSE {}

\* The user's side says something more.
Say(h, n) == IF h = <<>> THEN <<[reply |-> 0, texts |-> {<<0, n>>}]>>
             ELSE [h EXCEPT ![Len(h)].texts = @ \cup {<<0, n>>}]

\* history_for_request: every call has a result in the message after it, one
\* saying that it did not finish if none was saved.
Request == [b \in DOMAIN hist |->
              [reply |-> hist[b].reply, items |-> hist[b].texts \cup Calls(hist[b].reply)]]

Items(request) == UNION {request[b].items \cup
                           (IF request[b].reply = 0 THEN {} ELSE {<<request[b].reply, 0>>}) :
                         b \in DOMAIN request}

\* tail_after: the request goes on from what was synced by its reply and the
\* user's side after it, and by nothing else.
GoesOn(synced) ==
    /\ Len(Request) = Len(synced) + 1
    /\ SubSeq(Request, 1, Len(synced)) = synced
    /\ Request[Len(Request)].items # {}
NewItems == Request[Len(Request)].items

-----------------------------------------------------------------------------
(* The run's steps on a call the CLI made.                                  *)

Answer(p, c) == [p EXCEPT !.ans = p.answers[c], !.fly = "got", !.answered = @ \cup {c},
                          !.answers = Restrict(@, DOMAIN @ \ {c})]
RefuseCall(p) == [p EXCEPT !.ans = {}, !.fly = "got"]

\* Run::take_call, of a call with an id.
TakeCall(p, c) ==
    IF c \in DOMAIN p.answers THEN Answer(p, c)
    ELSE IF c \in p.expected \cup p.ids THEN [p EXCEPT !.arrived = @ \cup {c}]
    ELSE IF p.state = "Streaming" /\ p.answers = <<>> THEN [p EXCEPT !.held = @ \cup {c}]
    ELSE RefuseCall(p)

\* The calls that came early get the answers now there (send_tail, settle): the
\* CLI waits on one at a time.
TakeArrived(p) ==
    LET ready == p.arrived \cap DOMAIN p.answers
    IN IF ready = {} THEN p
       ELSE Answer([p EXCEPT !.arrived = @ \ ready], CHOOSE c \in ready : TRUE)

\* Run::settle_held: at the reply's end its own calls wait, others are refused.
SettleHeld(p) ==
    LET ours == p.held \cap p.expected
        rest == [p EXCEPT !.held = {}, !.arrived = @ \cup ours]
    IN IF p.held = ours THEN rest ELSE RefuseCall(rest)

\* A reader takes a call as it comes (next_event).
ReadingRun(p) == \/ turn.run = p /\ turn.pc \in {"read", "result"}
                 \/ proc[p].pc \in {"settle", "wind"}
Receive(p) ==
    /\ ReadingRun(p) /\ proc[p].chan # {}
    /\ \E c \in proc[p].chan : proc' = [proc EXCEPT ![p] = TakeCall([@ EXCEPT !.chan = {}], c)]
    /\ UNCHANGED <<hist, shape, texts, session, marks, turn, endings, procs, ctx, forgotten,
                   deleting, turns, bends, cliFaults, again, dropped>>

-----------------------------------------------------------------------------
(* The end of a run (Run::ending) and the wait for it (ended).              *)

\* end_in_background: interrupted unless it is idle.  What smelt still reads of
\* it no longer matters; what may still reach its session does.
WindDown(p, interrupt) ==
    LET bare == [NoProc EXCEPT !.pc = "wind", !.sess = p.sess, !.alive = p.alive, !.took = p.took]
    IN IF ~p.alive \/ ~(p.sent \/ p.fly = "got" \/ p.answers # <<>>) THEN bare
       ELSE [bare EXCEPT !.intr = interrupt, !.answers = p.answers, !.sent = p.sent, !.msg = p.msg,
                !.at = p.at, !.reply = p.reply, !.next = p.next, !.fly = p.fly, !.ans = p.ans,
                !.chan = p.chan]
Ended(p) == WindDown(p, p.state # "Idle")
Enlist(p) == {q \in endings : proc[q].pc # "gone"} \cup {p}

\* What becomes of the turn's run when it is ended, if there is one.
EndRun(f) ==
    IF turn.run = 0 THEN proc' = f /\ UNCHANGED endings
    ELSE proc' = [f EXCEPT ![turn.run] = Ended(@)] /\ endings' = Enlist(turn.run)

\* TurnCli::close: a parked run with a reply for each call is closed, the
\* question that was asked getting its placeholder (close::replies).
CloseCli ==
    LET p == proc[turn.run]
        asked == UNION {Question(r) : r \in {c[1] : c \in p.expected}}
    IN /\ IF turn.run # 0 /\ p.state = "Parked" /\ turn.held
          THEN /\ proc' = [proc EXCEPT ![turn.run] = TakeArrived([p EXCEPT
                      !.answers = [c \in p.expected |-> IF c \in asked THEN {} ELSE {c}],
                      !.hold = asked, !.pc = "settle"])]
               /\ endings' = Enlist(turn.run)
          ELSE EndRun(proc)
       /\ turn' = NoTurn

\* The wait for the echoes is over (settle): what was echoed is noted, a
\* placeholder's question excepted.
NotedDelivered(p) == p.echoed \ p.hold
Settled(p, f, interrupt) ==
    /\ marks' = [marks EXCEPT !.delivered = @ \cup NotedDelivered(f)]
    /\ proc' = [proc EXCEPT ![p] = WindDown(f, interrupt)]

\* Something fails, or takes too long.
CliFault == cliFaults < MaxCliFaults /\ cliFaults' = cliFaults + 1

Settle(p) ==
    /\ proc[p].pc = "settle"
    /\ LET q == proc[p]
           e == Head(q.out)
           f == [q EXCEPT !.out = Tail(@)]
           all == q.expected \subseteq q.answered
       IN \/ /\ all /\ q.expected \subseteq q.echoed
             /\ Settled(p, q, TRUE) /\ UNCHANGED cliFaults
          \/ /\ ~(all /\ q.expected \subseteq q.echoed) /\ q.out # <<>>
             /\ CASE e.what = "start" /\ all -> Settled(p, f, TRUE)
                  [] e.what \in {"result", "missing"} -> Settled(p, f, FALSE)
                  [] e.what = "echo" /\ e.call \in q.answered ->
                       proc' = [proc EXCEPT ![p] = [f EXCEPT !.echoed = @ \cup {e.call}]] /\ UNCHANGED marks
                  [] OTHER -> proc' = [proc EXCEPT ![p] = f] /\ UNCHANGED marks
             /\ UNCHANGED cliFaults
          \/ /\ ~q.alive /\ q.out = <<>>
             /\ Settled(p, q, FALSE) /\ UNCHANGED cliFaults
          \/ /\ IF cliFaults = 0 THEN CliFault ELSE UNCHANGED cliFaults     \* CLOSE_WAIT
             /\ Settled(p, q, TRUE)
    /\ UNCHANGED <<hist, shape, texts, session, turn, endings, procs, ctx, forgotten,
                   deleting, turns, bends, again, dropped>>

\* The process exits once its input is closed, or is killed.
Exit(p) ==
    /\ proc[p].pc = "wind"
    /\ proc' = [proc EXCEPT ![p] = [NoProc EXCEPT !.pc = "gone"]]
    /\ UNCHANGED <<hist, shape, texts, session, marks, turn, endings, procs, ctx, forgotten,
                   deleting, turns, bends, cliFaults, again, dropped>>

-----------------------------------------------------------------------------
(* The turn (turn/run.rs) and its calls (run::call).                        *)

\* A turn starts, its message saved.
Begin ==
    /\ turn.pc = "none" /\ deleting = "no" /\ turns < MaxTurns
    /\ turns' = turns + 1 /\ texts' = texts + 1 /\ hist' = Say(hist, texts + 1)
    /\ turn' = [NoTurn EXCEPT !.pc = "loop"]
    /\ UNCHANGED <<shape, session, marks, endings, proc, procs, ctx, forgotten, deleting,
                   bends, cliFaults, again, dropped>>

\* A turn of another provider ran meanwhile, its reply no session's.
OtherTurn ==
    /\ turn.pc = "none" /\ deleting = "no" /\ bends < MaxBends
    /\ hist # <<>> /\ Len(shape) < MaxReplies
    /\ bends' = bends + 1 /\ texts' = texts + 1
    /\ shape' = Append(shape, [calls |-> 0, ask |-> FALSE, cut |-> FALSE])
    /\ hist' = Append(Say(hist, texts + 1), [reply |-> Len(shape) + 1, texts |-> {}])
    /\ UNCHANGED <<session, marks, turn, endings, proc, procs, ctx, forgotten, deleting,
                   turns, cliFaults, again, dropped>>

\* A notice is drained into the turn.
Drain ==
    /\ turn.pc = "loop" /\ bends < MaxBends /\ bends' = bends + 1
    /\ texts' = texts + 1 /\ hist' = Say(hist, texts + 1)
    /\ UNCHANGED <<shape, session, marks, turn, endings, proc, procs, ctx, forgotten, deleting,
                   turns, cliFaults, again, dropped>>

\* A compaction replaces the history, before a call or after one that did not
\* fit, whose retry has a run of its own (overflow_recovery); then
\* session::reset, which goes on when the database fails it.
Compact ==
    /\ turn.pc = "loop" \/ (turn.pc = "failed" /\ turn.unchanged /\ ~turn.lone)
    /\ bends < MaxBends /\ bends' = bends + 1
    /\ texts' = texts + 1 /\ hist' = Say(<<>>, texts + 1)
    /\ \/ session' = NoRow /\ UNCHANGED cliFaults
       \/ CliFault /\ UNCHANGED session
    /\ marks' = [reset |-> TRUE, delivered |-> {},
                 retired |-> marks.retired \cup ({session.sess} \ {0})]
    /\ turn' = [turn EXCEPT !.pc = "loop", !.lone = turn.pc = "failed"]
    /\ UNCHANGED <<shape, endings, proc, procs, ctx, forgotten, deleting, turns, again, dropped>>

\* The turn fails or ends between calls.
ReturnCli ==
    /\ turn.pc \in {"loop", "failed", "return"}
    /\ CloseCli
    /\ UNCHANGED <<hist, shape, texts, session, marks, procs, ctx, forgotten, deleting, turns,
                   bends, cliFaults, again, dropped>>

\* run::call: the record is read and set aside before anything is sent.
SetAside ==
    /\ turn.pc = "loop"
    /\ \/ /\ turn' = [turn EXCEPT !.pc = "call", !.rec = session, !.held = FALSE]
          /\ session' = NoRow /\ UNCHANGED cliFaults
       \/ /\ session # NoRow /\ CliFault /\ UNCHANGED session
          /\ \E read \in {NoRow, session} :
                turn' = [turn EXCEPT !.pc = "call", !.rec = read, !.held = FALSE]
    /\ UNCHANGED <<hist, shape, texts, marks, endings, proc, procs, ctx, forgotten, deleting,
                   turns, bends, again, dropped>>

\* What a call does to the run it reads from (read_once, read_reply).
Awaiting(p) == [p EXCEPT !.synced = Request, !.heard = FALSE, !.started = FALSE, !.ids = {}]

\* send_tail: the results go to the parked calls, other text with the last of
\* them; an idle run gets a message, without what a closed run delivered.
SendTail(p) ==
    IF p.state = "Idle"
    THEN [p EXCEPT !.sent = TRUE, !.msg = NewItems \ marks.delivered, !.state = "Streaming"]
    ELSE LET last == CHOOSE c \in p.expected : \A d \in p.expected : d[2] <= c[2]
             reply(c) == ({c} \cap NewItems) \cup (IF c = last THEN NewItems \ p.expected ELSE {})
         IN TakeArrived([p EXCEPT !.answers = [c \in p.expected |-> reply(c)],
                                  !.state = "Streaming"])

\* call_run: the turn's run takes the call if it can go on from its last one;
\* otherwise it is ended and the call starts another.
CallRun ==
    /\ turn.pc = "call"
    /\ \E grew \in BOOLEAN :                       \* the reply's cap (max_tokens)
         LET old == proc[turn.run]
             goesOn == turn.run # 0 /\ ~marks.reset /\ old.alive /\ ~grew /\ GoesOn(old.synced)
         IN /\ grew => turn.run # 0 /\ bends < MaxBends
            /\ bends' = IF grew THEN bends + 1 ELSE bends
            /\ IF goesOn
               THEN /\ proc' = [proc EXCEPT ![turn.run] = Awaiting(SendTail(old))]
                    /\ turn' = [turn EXCEPT !.pc = "read"]
                    /\ marks' = IF old.state = "Idle" THEN [marks EXCEPT !.delivered = {}] ELSE marks
                    /\ UNCHANGED endings
               ELSE /\ EndRun(proc)
                    /\ turn' = [turn EXCEPT !.pc = "start", !.run = 0]
                    /\ marks' = [marks EXCEPT !.reset = FALSE]
    /\ UNCHANGED <<hist, shape, texts, session, procs, ctx, forgotten, deleting, turns, cliFaults,
                   again, dropped>>

Resumable == turn.resume /\ turn.rec # NoRow /\ GoesOn(turn.rec.synced)

\* Mutation: only a replaced session's files wait for its process.
WaitsToReplace(replaced) == replaced # {}

\* A resume always waits for the runs still ending, a new session only if it
\* replaces one.
Waits(replaced) == Resumable \/ replaced # {}

\* start, to that wait (ended takes the entry before it waits).
StartRun ==
    /\ turn.pc = "start"
    /\ LET replaced == IF Resumable THEN {} ELSE marks.retired \cup ({turn.rec.sess} \ {0})
       IN /\ turn' = [turn EXCEPT !.pc = "wait", !.resumed = Resumable, !.replaced = replaced,
                                  !.wait = IF Waits(replaced) THEN endings ELSE {}]
          /\ endings' = IF Waits(replaced) THEN {} ELSE endings
          /\ marks' = IF Resumable THEN marks ELSE [marks EXCEPT !.retired = {}]
    /\ UNCHANGED <<hist, shape, texts, session, proc, procs, ctx, forgotten, deleting, turns,
                   bends, cliFaults, again, dropped>>

Gone(ps) == \A p \in ps : proc[p].pc = "gone"

\* start, after it: the replaced sessions' files go, the process is spawned and
\* sent what is new to a resumed session, or all of the history.
Spawn ==
    /\ turn.pc = "wait" /\ Gone(turn.wait)
    /\ marks' = [marks EXCEPT !.delivered = {}]
    /\ forgotten' = forgotten \cup turn.replaced
    /\ ctx' = [p \in Procs |-> IF p \in turn.replaced THEN {} ELSE ctx[p]]
    /\ \/ /\ procs < MaxProcs /\ procs' = procs + 1 /\ UNCHANGED cliFaults
          /\ LET new == [NoProc EXCEPT !.alive = TRUE, !.sent = TRUE,
                           !.sess = IF turn.resumed THEN turn.rec.sess ELSE procs + 1,
                           !.msg = IF turn.resumed THEN NewItems \ marks.delivered ELSE Items(Request)]
             IN proc' = [proc EXCEPT ![procs + 1] = Awaiting(new)]
          /\ turn' = [turn EXCEPT !.pc = "read", !.run = procs + 1, !.wait = {}, !.resumed = FALSE,
                                  !.replaced = {}]
       \/ /\ CliFault
          /\ turn' = [turn EXCEPT !.pc = "failed", !.wait = {}, !.resumed = FALSE, !.replaced = {}]
          /\ UNCHANGED <<proc, procs>>
    /\ UNCHANGED <<hist, shape, texts, session, endings, deleting, turns, bends, again, dropped>>

\* A call fails: the run ends, and the record comes back only if the session is
\* taken to be as it was.
FailCall(f, unchanged) ==
    /\ EndRun(f)
    /\ turn' = [turn EXCEPT !.pc = "failed", !.run = 0, !.unchanged = unchanged]
    /\ session' = IF unchanged /\ turn.rec # NoRow THEN turn.rec ELSE session

\* A reply at its message_stop (finish), which is what the call returns.
Finish(f, p, r) ==
    LET q == SettleHeld([f EXCEPT !.expected = Calls(r)])
    IN /\ turn' = [turn EXCEPT !.pc = IF Calls(r) # {} THEN "keep" ELSE "result",
                               !.reply = r, !.sess = f.sess]
       /\ proc' = [proc EXCEPT ![p] =
             IF Calls(r) # {} THEN [q EXCEPT !.state = "Parked"]
             ELSE [q EXCEPT !.intr = shape[r].cut]]
       /\ UNCHANGED <<session, endings>>

\* The session was missing, or the process died before it said anything: once
\* more, on another run.
Restart(f, resume) ==
    /\ EndRun(f)
    /\ turn' = [turn EXCEPT !.pc = "start", !.run = 0, !.resume = resume,
                            !.retried = turn.retried \/ resume]
    /\ UNCHANGED session

\* Mutation: the CLI's own answer to a call is passed over.
AnsweredByCliPassed(e, p) == FALSE

\* answered_by_the_cli: the echo of an answer that smelt did not give to one of the
\* calls it was handed.
AnsweredByCli(e, p) == e.what = "echo" /\ e.call \in p.expected \ p.answered

\* read_reply, a line at a time.
ReadLine ==
    /\ turn.pc = "read" /\ proc[turn.run].out # <<>>
    /\ LET p == turn.run
           e == Head(proc[p].out)
           f == [proc[p] EXCEPT !.out = Tail(@), !.heard = TRUE]
           on(q) == proc' = [proc EXCEPT ![p] = q] /\ UNCHANGED <<session, turn, endings>>
           all(q) == [proc EXCEPT ![p] = q]
       IN CASE e.what = "start" -> on([f EXCEPT !.started = TRUE, !.ids = Calls(e.reply)])
            [] e.what = "stop" -> Finish(f, p, e.reply)
            [] AnsweredByCli(e, f) -> FailCall(all(f), FALSE)
            [] e.what = "echo" /\ ~AnsweredByCli(e, f) -> on(f)
            [] e.what = "missing" -> Restart(all([f EXCEPT !.state = "Idle"]), FALSE)
            [] OTHER ->                                                     \* "result"
                 FailCall(all([f EXCEPT !.state = "Idle"]), ~f.started)
    /\ UNCHANGED <<hist, shape, texts, marks, procs, ctx, forgotten, deleting, turns, bends,
                   cliFaults, again, dropped>>

\* The process is gone, or says nothing for too long (next_event).
ReadFails ==
    /\ turn.pc = "read" /\ proc[turn.run].out = <<>>
    /\ LET q == proc[turn.run]
       IN \/ /\ ~q.alive /\ UNCHANGED cliFaults
             /\ IF q.heard \/ turn.retried THEN FailCall(proc, FALSE) ELSE Restart(proc, TRUE)
          \/ q.alive /\ CliFault /\ FailCall(proc, ~q.started)
    /\ UNCHANGED <<hist, shape, texts, marks, procs, ctx, forgotten, deleting, turns, bends,
                   again, dropped>>

\* await_result: a run that does not say its result is not used again.
AwaitResult ==
    /\ turn.pc = "result"
    /\ LET p == turn.run
           q == proc[p]
           f == [q EXCEPT !.out = Tail(@)]
           idle(r) == [proc EXCEPT ![p] = [r EXCEPT !.state = "Idle", !.expected = {}]]
       IN \/ /\ q.out # <<>> /\ UNCHANGED <<cliFaults, endings>>
             /\ IF Head(q.out).what = "result"
                THEN proc' = idle(f) /\ turn' = [turn EXCEPT !.pc = "keep"]
                ELSE proc' = [proc EXCEPT ![p] = f] /\ UNCHANGED turn
          \/ /\ q.out = <<>> /\ (IF q.alive THEN CliFault ELSE UNCHANGED cliFaults)
             /\ EndRun(idle(q))
             /\ turn' = [turn EXCEPT !.pc = "save", !.run = 0]
    /\ UNCHANGED <<hist, shape, texts, session, marks, procs, ctx, forgotten, deleting, turns,
                   bends, again, dropped>>

\* run::call's end: the session is recorded as of this call.  A retry's own run
\* goes with it (overflow_recovery's no_cli).
Keep ==
    /\ turn.pc = "keep"
    /\ \/ session' = [sess |-> proc[turn.run].sess, synced |-> proc[turn.run].synced] /\ UNCHANGED cliFaults
       \/ CliFault /\ UNCHANGED session
    /\ IF turn.lone THEN EndRun(proc) ELSE UNCHANGED <<proc, endings>>
    /\ turn' = [turn EXCEPT !.pc = "save", !.run = IF turn.lone THEN 0 ELSE @]
    /\ UNCHANGED <<hist, shape, texts, marks, procs, ctx, forgotten, deleting, turns, bends,
                   again, dropped>>

\* The reply is saved, its tools run and their results are saved and held
\* (hold_results); or the turn is told something more, or ends.
NextCall(pc) == [turn EXCEPT !.pc = pc, !.lone = FALSE, !.resume = TRUE, !.retried = FALSE,
                             !.rec = NoRow, !.reply = 0, !.sess = 0, !.unchanged = FALSE]
SaveReply ==
    /\ turn.pc = "save"
    /\ hist' = Append(hist, [reply |-> turn.reply, texts |-> {}])
    /\ turn' = NextCall(IF Calls(turn.reply) # {} THEN "tools" ELSE "ended")
    /\ UNCHANGED <<shape, texts, session, marks, endings, proc, procs, ctx, forgotten, deleting,
                   turns, bends, cliFaults, again, dropped>>

RunTools ==
    /\ turn.pc = "tools"
    /\ LET asks == Question(hist[Len(hist)].reply) # {}
       IN turn' = [turn EXCEPT !.held = TRUE, !.pc = IF asks THEN "return" ELSE "loop"]
    /\ UNCHANGED <<hist, shape, texts, session, marks, endings, proc, procs, ctx, forgotten,
                   deleting, turns, bends, cliFaults, again, dropped>>

AfterReply ==
    /\ turn.pc = "ended"
    /\ \/ /\ bends < MaxBends /\ bends' = bends + 1
          /\ texts' = texts + 1 /\ hist' = Say(hist, texts + 1)
          /\ turn' = [turn EXCEPT !.pc = "loop"] /\ UNCHANGED <<proc, endings>>
       \/ CloseCli /\ UNCHANGED <<texts, hist, bends>>
    /\ UNCHANGED <<shape, session, marks, procs, ctx, forgotten, deleting, turns, cliFaults, again,
                   dropped>>

\* A Stop drops the turn where it waits, its TurnCli with it (Drop), and the
\* handles of the tasks it waited for.  A reply or a result that cannot be saved
\* ends the turn with nothing held, which ends its run alike (close).
Stop ==
    /\ turn.pc # "none"
    /\ EndRun(proc) /\ turn' = NoTurn
    /\ dropped' = (dropped \/ ~Gone(turn.wait))
    /\ UNCHANGED <<hist, shape, texts, session, marks, procs, ctx, forgotten, deleting, turns,
                   bends, cliFaults, again>>

\* The conversation's delete, its turns stopped (agents/delete.rs): the runs
\* still ending are waited for, then everything the CLI kept goes.
DeleteWaits ==
    /\ turn.pc = "none" /\ deleting = "no"
    /\ deleting' = "wait" /\ endings' = {} /\ turn' = [NoTurn EXCEPT !.wait = endings]
    /\ UNCHANGED <<hist, shape, texts, session, marks, proc, procs, ctx, forgotten, turns,
                   bends, cliFaults, again, dropped>>

DeleteForgets ==
    /\ deleting = "wait" /\ Gone(turn.wait)
    /\ deleting' = "done" /\ turn' = NoTurn /\ session' = NoRow
    /\ forgotten' = Procs /\ ctx' = [p \in Procs |-> {}] /\ hist' = <<>>
    /\ marks' = [reset |-> FALSE, retired |-> {}, delivered |-> {}]
    /\ UNCHANGED <<shape, texts, endings, proc, procs, turns, bends, cliFaults, again, dropped>>

-----------------------------------------------------------------------------
(* The CLI (external), as run.rs says it behaves: it makes a reply's calls   *)
(* one at a time, the first before the reply's end is read (S2), echoes      *)
(* each answer, and then calls the API again.                                *)

Line(what) == [what |-> what, reply |-> 0, call |-> <<0, 0>>]
Said(q, lines) == IF q.pc = "wind" THEN q.out ELSE q.out \o lines
Shown(p, items) ==
    /\ ctx' = [ctx EXCEPT ![proc[p].sess] = @ \cup items]
    /\ again' = (again \/ ctx[proc[p].sess] \cap items # {})
CliOnly == UNCHANGED <<hist, texts, session, marks, turn, endings, procs, forgotten, deleting,
                       turns, bends, dropped>>

\* It reads its input in order: an interrupt of the last reply comes before the
\* next message, one that ends the run after it.
CliTakes(p) ==
    /\ proc[p].alive /\ proc[p].sent /\ proc[p].at = "idle"
    /\ proc[p].intr => proc[p].pc # "run"
    /\ \/ /\ proc[p].sess \notin forgotten
          /\ Shown(p, proc[p].msg) /\ UNCHANGED cliFaults
          /\ proc' = [proc EXCEPT ![p] = [@ EXCEPT !.took = TRUE, !.sent = FALSE, !.msg = {},
                                          !.at = "api"]]
       \/ /\ \/ proc[p].sess \in forgotten /\ UNCHANGED cliFaults          \* no such session
             \/ proc[p].sess # p /\ proc[p].pc # "wind" /\ CliFault
          /\ UNCHANGED <<ctx, again>>
          /\ proc' = [proc EXCEPT ![p] = [@ EXCEPT !.sent = FALSE, !.msg = {},
                                          !.out = Said(proc[p], <<Line("missing")>>)]]
    /\ UNCHANGED shape /\ CliOnly

\* Process q says reply r, of shape s.
Replied(q, r, s) ==
    LET said(what) == [Line(what) EXCEPT !.reply = r]
    IN [q EXCEPT !.reply = r, !.next = 1,
                 !.at = IF s.calls > 0 THEN "calls" ELSE IF s.cut THEN "carry" ELSE "idle",
                 !.out = Said(q, <<said("start"), said("stop")>>
                           \o (IF s.calls = 0 /\ ~s.cut THEN <<Line("result")>> ELSE <<>>))]

\* (Of a run that is only waited for, neither this nor its death matters.)
CliReplies(p) ==
    /\ proc[p].alive /\ proc[p].at = "api" /\ proc[p].pc # "wind"
    /\ \/ /\ Len(shape) < MaxReplies /\ UNCHANGED cliFaults
          /\ \E s \in Shapes :
               /\ shape' = Append(shape, s)
               /\ Shown(p, {<<Len(shape) + 1, 0>>})
               /\ proc' = [proc EXCEPT ![p] = Replied(proc[p], Len(shape) + 1, s)]
       \/ /\ CliFault /\ UNCHANGED <<shape, ctx, again>>                   \* the API refuses
          /\ proc' = [proc EXCEPT ![p] = [@ EXCEPT !.at = "idle",
                                                   !.out = Said(proc[p], <<Line("result")>>)]]
    /\ CliOnly

CliCalls(p) ==
    /\ proc[p].alive /\ proc[p].at = "calls" /\ proc[p].fly = "no"
    /\ proc' = [proc EXCEPT ![p] = [@ EXCEPT !.fly = "wait", !.chan = {<<proc[p].reply, proc[p].next>>}]]
    /\ UNCHANGED <<shape, ctx, again, cliFaults>> /\ CliOnly

\* The answer to a call is echoed; a CLI that answers one itself echoes that.
CliEchoes(p) ==
    /\ proc[p].alive /\ proc[p].at = "calls"
    /\ \/ proc[p].fly = "got" /\ UNCHANGED cliFaults
       \/ proc[p].fly = "no" /\ proc[p].pc # "wind" /\ CliFault
    /\ Shown(p, proc[p].ans)
    /\ LET q == proc[p]
           c == <<q.reply, q.next>>
       IN proc' = [proc EXCEPT ![p] = [q EXCEPT
             !.fly = "no", !.ans = {}, !.next = q.next + 1,
             !.at = IF q.next = shape[q.reply].calls THEN "api" ELSE q.at,
             !.out = Said(q, <<[Line("echo") EXCEPT !.call = c]>>)]]
    /\ UNCHANGED shape /\ CliOnly

\* An interrupt ends what it does; a cut-off reply's continuation ends by itself
\* too (S6).
CliStops(p) ==
    /\ proc[p].alive
    /\ (proc[p].intr /\ (proc[p].sent => proc[p].pc = "run")) \/ proc[p].at = "carry"
    /\ LET q == proc[p] IN
         proc' = [proc EXCEPT ![p] = [q EXCEPT
            !.intr = FALSE, !.at = "idle", !.fly = "no", !.ans = {}, !.chan = {},
            !.out = IF q.at = "idle" THEN q.out ELSE Said(q, <<Line("result")>>)]]
    /\ UNCHANGED <<shape, ctx, again, cliFaults>> /\ CliOnly

\* The process dies, some of what it said unsaid.
CliDies(p) ==
    /\ proc[p].alive /\ proc[p].pc # "wind" /\ CliFault
    /\ \E n \in 0..Len(proc[p].out) :
          proc' = [proc EXCEPT ![p] = [@ EXCEPT !.alive = FALSE, !.out = SubSeq(proc[p].out, 1, n),
             !.sent = FALSE, !.msg = {}, !.intr = FALSE, !.at = "idle", !.reply = 0, !.next = 1,
             !.fly = "no", !.ans = {}, !.chan = {}]]
    /\ UNCHANGED <<shape, ctx, again>> /\ CliOnly

Done == deleting = "done" /\ (\A p \in Procs : ~proc[p].alive) /\ UNCHANGED cliVars

CliNext ==
    \/ Begin \/ OtherTurn \/ Drain \/ Compact \/ ReturnCli \/ SetAside \/ CallRun \/ StartRun \/ Spawn
    \/ ReadLine \/ ReadFails \/ AwaitResult \/ Keep \/ SaveReply \/ RunTools \/ AfterReply
    \/ Stop \/ DeleteWaits \/ DeleteForgets
    \/ \E p \in Procs : \/ Receive(p) \/ Settle(p) \/ Exit(p)
                        \/ CliTakes(p) \/ CliReplies(p) \/ CliCalls(p) \/ CliEchoes(p)
                        \/ CliStops(p) \/ CliDies(p)
    \/ Done

CliSpec == CliInit /\ [][CliNext]_cliVars

-----------------------------------------------------------------------------
(* Properties.                                                              *)

\* A reply that smelt takes was made by a model that had been shown the whole
\* request: no result refused because its call came early, none taken for
\* delivered that was not, no answer to a question lost to its placeholder, no
\* session resumed past a message.  And with nothing failing, no session is
\* shown a message or a result twice (run::call, start, settle, tail_after).
ShownOnce ==
    /\ turn.pc \in {"result", "keep", "save"} => Items(Request) \subseteq ctx[turn.sess]
    /\ cliFaults = 0 => ~again

\* "Never two processes in one session", and no process left that would write
\* back a session whose files were removed, having taken a message in it; but
\* for a Stop that dropped the wait for it (ended).
SessionsAlone ==
    /\ ~dropped \/ cliFaults = 0 =>
         \A p, q \in Procs : p # q /\ proc[p].alive /\ proc[q].alive => proc[p].sess # proc[q].sess
    /\ ~dropped =>
         \A p \in Procs : proc[p].alive /\ proc[p].took => proc[p].sess \notin forgotten

\* What SessionsAlone rests on.  Processes are numbered as they start, and so are
\* the sessions; the turn's run is in neither wait, and has not been ended.
RunFits ==
    /\ turn.run \in 0..procs
    /\ turn.run # 0 => proc[turn.run].pc = "run" /\ turn.run \notin endings \cup turn.wait
    /\ turn.pc \in {"none", "start", "wait", "failed"} => turn.run = 0
    /\ turn.pc \in {"read", "result", "keep"} => turn.run # 0
    /\ \A p \in Procs : proc[p].pc = "gone" \/ p > procs => ~proc[p].alive
    /\ \A p \in Procs : p <= procs /\ proc[p].pc # "gone" => proc[p].sess \in 1..procs

\* Whoever waits has taken the entry of ENDINGS, and nothing is added to it
\* before the next run: none but the turn's own can be, and it has none.
WaitFits ==
    /\ endings \cup turn.wait \subseteq 1..procs
    /\ turn.pc = "wait" /\ (turn.resumed \/ turn.replaced # {}) => endings = {}
    /\ turn.pc # "wait" /\ (turn.pc = "none" => deleting = "no") => turn.wait = {}
    /\ deleting # "no" => turn.pc = "none" /\ endings = {}

\* The sessions a later call may resume, or be in.
Claimed == {session.sess, turn.rec.sess} \cup (IF turn.run = 0 THEN {} ELSE {proc[turn.run].sess})

\* A record is of a session, and while no call fails it is set aside before
\* anything is sent.  So a process that nobody will wait for again, as a Stop
\* dropped the wait, is in a session that is not resumed again.
Stray(p) == proc[p].alive /\ p # turn.run /\ p \notin endings \cup turn.wait
RecordFits ==
    /\ {session.sess, turn.rec.sess} \subseteq 0..procs
    /\ session # NoRow => session.sess # 0
    /\ turn.rec # NoRow => turn.rec.sess # 0
    /\ turn.pc = "wait" /\ turn.resumed => turn.rec # NoRow
    /\ cliFaults = 0 /\ turn.pc \in {"call", "start", "wait", "read", "result", "keep"} =>
         session = NoRow
    /\ \A p \in Procs : Stray(p) => dropped /\ (cliFaults = 0 => proc[p].sess \notin Claimed)

CliInv ==
    /\ procs \in 0..MaxProcs /\ cliFaults \in Nat /\ dropped \in BOOLEAN
    /\ proc = [p \in Procs |-> proc[p]] /\ \A p \in Procs : DOMAIN proc[p] = DOMAIN NoProc
    /\ DOMAIN turn = DOMAIN NoTurn
    /\ RunFits
    /\ WaitFits
    /\ RecordFits
    /\ SessionsAlone

=============================================================================
