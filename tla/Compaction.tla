----------------------------- MODULE Compaction -----------------------------
(* The room a conversation has in its model's window: when a turn compacts, *)
(* what reply it asks for, what it does with a server that refuses a        *)
(* request as too big, and what it learns of the window on the way           *)
(* (turn/compaction_progress.rs, turn/room.rs, turn/overflow.rs, the model   *)
(* call of turn/run.rs and turn/reply.rs).                                   *)
(*                                                                          *)
(* Sizes are in units of 1,024 tokens, in which every threshold of the code *)
(* is a whole number.  The server is external: it takes a request or         *)
(* refuses it by its own window, which need not be the one smelt believes.   *)
EXTENDS Integers, FiniteSetsExt

CONSTANTS
    Own,        \* windows the user may have set for the model; 0 is none
    Reported,   \* windows the provider reports
    Servers,    \* windows the server may really have
    Kinds,      \* of server: "counts", "names", "silent"
    Fixeds,     \* sizes of the system prompt and tools
    Typed,      \* sizes of what the user writes
    Results,    \* sizes of a step's tool results
    Wants,      \* sizes a reply would take, given the room
    Summaries,  \* sizes of a summary
    Skews,      \* by how much the estimate of a request is off
    MaxHistory, \* bound on what the tools and the user add
    MaxEdits    \* bound on settings changed under the conversation

VARIABLES
    own, learned, reported, \* the windows of the model's row, 0 for none
    server,     \* the server's window and how it refuses
    skew,
    fixed,      \* what no compaction shrinks
    history,    \* what a compaction summarizes
    unanswered, \* what a compaction quotes of what the user wrote, unanswered
    usage,      \* the usage row: what the last reply read and wrote, 0 if cleared
    progress,   \* the conversation's CompactionProgress
    turn,       \* the turn that runs
    edits,
    spending,   \* wakes in a row that failed having spent, and no step taken
    unheard,    \* the user's sends in a row of which no request was taken
    unsummed    \* some summary request was refused twice over

world == <<own, learned, reported, server, skew, fixed>>
ghosts == <<spending, unheard, unsummed>>
pvars == <<world, history, unanswered, usage, progress, turn, edits, ghosts>>

COMPACTION_SAFETY_BUFFER == 4
MIN_REPLY_TOKENS == 16
MIN_ROOM_TO_WORK == 4
SHORT_REPLY_TOKENS == 2
MIN_USEFUL_REPLY == 1
TRANSCRIPT_ROOM == 8
SUMMARY_MAX_TOKENS == 2
QUOTE_MAX == 1
TIGHT_RESULTS == 2
MAX_AT_LIMIT == 3
MAX_REFUSAL_COMPACTIONS == 3

\* The estimate is short of a request by no more than the buffer, its "headroom for the
\* token estimate's error"; a summary and what it quotes fit in the buffer, as
\* SUMMARY_MAX_TOKENS and the quotes' limit do; and a server's window is larger.
ASSUME RoomAssumption ==
    /\ Own \cup Fixeds \cup Typed \cup Results \cup Wants \subseteq Nat
    /\ Reported \subseteq Nat \ {0}
    /\ \A w \in Servers : w \in Nat /\ w > COMPACTION_SAFETY_BUFFER + MIN_USEFUL_REPLY
    /\ \A s \in Summaries : s \in Nat /\ s + QUOTE_MAX <= COMPACTION_SAFETY_BUFFER
    /\ \A k \in Skews : k \in Int /\ -k <= COMPACTION_SAFETY_BUFFER

AtLeast0(n) == Max({n, 0})
Least(a, b) == Min({a, b})

\* providers::context_window: the user's own number, else the learned one.
Believed == IF own # 0 THEN own ELSE IF learned # 0 THEN learned ELSE reported

Real == fixed + history
Estimate(size) == AtLeast0(size + skew)

\* What a reply would be asked for at most, and the trigger and the limit of
\* a request's size.
Ceiling(w) == AtLeast0(w - Max({MIN_REPLY_TOKENS, COMPACTION_SAFETY_BUFFER}))
Limit(w) == AtLeast0(w - COMPACTION_SAFETY_BUFFER - SHORT_REPLY_TOKENS)

\* A budget is its tokens (0 stands for less than one unit) and whether the
\* room left is what bounds it.
ReplyBudget(w, projected) ==
    LET half == w \div 2
        room == AtLeast0(w - projected - COMPACTION_SAFETY_BUFFER)
        tokens == Max({Least(room, half), Least(MIN_REPLY_TOKENS, half)})
    IN  [tokens |-> tokens, roomLeft |-> tokens # half]

\* Mutation: a request past the trigger keeps the usual reply's floor.
BudgetUnheld(w, projected, roomOnly) == ReplyBudget(w, projected)

BudgetFor(w, projected, roomOnly) ==
    LET budget == ReplyBudget(w, projected)
        room == AtLeast0(w - projected - COMPACTION_SAFETY_BUFFER)
    IN  IF roomOnly /\ room < budget.tokens
        THEN [tokens |-> room, roomLeft |-> TRUE]
        ELSE budget

-----------------------------------------------------------------------------
(* CompactionProgress.  `after` and `guess` are 0 for none.                  *)

Fresh(w) ==
    [window |-> w, awaiting |-> FALSE, after |-> 0, tightResults |-> 0,
     tight |-> FALSE, atLimit |-> 0, stuck |-> FALSE, guess |-> 0,
     refusalCompactions |-> 0, compactForRoom |-> FALSE,
     roomRetried |-> FALSE, tryAnyway |-> FALSE, believing |-> FALSE]

ForgetMeasures(q) ==
    [q EXCEPT !.after = 0, !.awaiting = FALSE, !.tight = FALSE,
              !.tightResults = 0, !.atLimit = 0]

Sync(q, w) ==
    IF q.guess = w THEN q
    ELSE IF q.window # w THEN Fresh(w)
    ELSE IF q.guess # 0 THEN ForgetMeasures([q EXCEPT !.guess = 0])
    ELSE q

Guessed(q, believed, guess) ==
    ForgetMeasures([Sync(q, believed) EXCEPT !.guess = guess])

Compacted(q, w) == [Sync(q, w) EXCEPT !.awaiting = TRUE]

RefusalCompacted(q, w) ==
    [Compacted(q, w) EXCEPT !.refusalCompactions = @ + 1]

StepTaken(q) ==
    [q EXCEPT !.refusalCompactions = 0, !.tryAnyway = FALSE, !.believing = FALSE]

RetryTaken(q) == [q EXCEPT !.tryAnyway = FALSE, !.believing = FALSE]

\* The server refused a request of `input`, 0 if it didn't say.
RefusedFor(q, input) ==
    [q EXCEPT !.believing = FALSE,
              !.after = IF ~q.believing THEN @
                        ELSE IF input = 0 THEN 0 ELSE Max({@, input})]

\* Mutation: a window too small for the tools alone is not remembered.
TooSmallForgotten(q, w) == Sync(q, w)

TooSmall(q, w) == [Sync(q, w) EXCEPT !.stuck = TRUE]

RefusedOut(q) == q.refusalCompactions >= MAX_REFUSAL_COMPACTIONS

\* `step`: what to do before a request of `projected`, 0 if not measured.
StepAnswer(q, w, projected) ==
    IF q.stuck THEN "stuck"
    ELSE IF q.compactForRoom THEN "compact"
    ELSE IF q.guess # 0 /\ q.after # 0 /\ q.after >= Limit(w) THEN "go"
    ELSE IF projected # 0
            /\ projected >= IF q.tight \/ q.guess # 0 THEN Limit(w) ELSE Ceiling(w)
         THEN "compact"
    ELSE "go"

Measured(q, input, w) ==
    LET s == Sync(q, w)
        m == [s EXCEPT !.awaiting = FALSE, !.after = input]
        close == input + SHORT_REPLY_TOKENS > Limit(w)
        counted == [m EXCEPT !.tightResults = Least(@ + 1, TIGHT_RESULTS),
                             !.tight = @ \/ s.tightResults + 1 >= TIGHT_RESULTS,
                             !.atLimit = IF close THEN @ + 1 ELSE 0]
    IN  IF ~s.awaiting THEN s
        ELSE IF s.guess # 0 THEN m
        ELSE IF input + MIN_ROOM_TO_WORK <= Ceiling(w)
             THEN [m EXCEPT !.tightResults = 0, !.tight = FALSE, !.atLimit = 0]
        ELSE [counted EXCEPT !.stuck = @ \/ counted.atLimit >= MAX_AT_LIMIT]

RoomOnly(q) == q.tight /\ q.guess = 0

CutForRoom(q, sized) ==
    /\ RoomOnly(q)
    /\ ~q.roomRetried
    /\ sized # 0
    /\ q.after # 0
    /\ q.after + SHORT_REPLY_TOKENS < sized

\* Mutation: the user's message clears `stuck` and gives no try.
WroteNoTry(q) ==
    [q EXCEPT !.stuck = FALSE, !.roomRetried = FALSE, !.compactForRoom = FALSE,
              !.atLimit = Least(@, MAX_AT_LIMIT - 1),
              !.refusalCompactions = Least(@, MAX_REFUSAL_COMPACTIONS - 1)]

UserWrote(q) ==
    [q EXCEPT !.tryAnyway = @ \/ q.stuck, !.stuck = FALSE,
              !.roomRetried = FALSE, !.compactForRoom = FALSE,
              !.atLimit = Least(@, MAX_AT_LIMIT - 1),
              !.refusalCompactions = Least(@, MAX_REFUSAL_COMPACTIONS - 1)]

\* `floor_fired`: a compacted request of `size` leaves no useful room.
FloorFits(q, w) ==
    q.after # 0 /\ q.after + COMPACTION_SAFETY_BUFFER + MIN_USEFUL_REPLY <= w
FloorAnswer(q, w) ==
    IF FloorFits(q, w) THEN "believe" ELSE IF q.tryAnyway THEN "try" ELSE "noRoom"
FloorFired(q, w, size) ==
    CASE FloorAnswer(q, w) = "believe" -> [q EXCEPT !.believing = TRUE]
      [] FloorAnswer(q, w) = "try"     -> [q EXCEPT !.tryAnyway = FALSE]
      [] FloorAnswer(q, w) = "noRoom"  ->
            [q EXCEPT !.after = IF @ = 0 THEN size ELSE @, !.stuck = TRUE]

-----------------------------------------------------------------------------
(* The turn.  Turns of a conversation run one at a time (TurnState), so one  *)
(* record holds the turn that runs; `retry`, `hold`, `under` and `usage` are *)
(* the recovery's own (overflow::recover).                                   *)

NoBudget == [tokens |-> 0, roomLeft |-> FALSE]

NoTurn == [at |-> "idle", users |-> FALSE, window |-> 0, pending |-> 0,
           usage |-> 0, compacted |-> FALSE, retry |-> FALSE, hold |-> FALSE,
           under |-> 0, sized |-> 0, budget |-> NoBudget,
           spent |-> FALSE, took |-> FALSE]

RoomInit ==
    /\ own \in Own
    /\ learned = 0
    /\ reported \in Reported
    /\ \E w \in Servers, k \in Kinds : server = [window |-> w, kind |-> k]
    /\ skew \in Skews
    /\ fixed \in Fixeds
    /\ history = 0
    /\ unanswered = 0
    /\ usage = 0
    /\ progress = Fresh(0)
    /\ turn = NoTurn
    /\ edits = 0
    /\ spending = 0
    /\ unheard = 0
    /\ unsummed = FALSE

\* Where the counts of the properties stop: escape.rs's SPENDING_FAILURES and
\* one more, and its SENDS.
SpendingCap == 5
MaxUnheard == 3

\* How a turn ends.  `late` is a failure that says nothing of sizes.
Ends(ok, late) ==
    /\ turn' = NoTurn
    /\ spending' = IF late \/ turn.took \/ ok \/ turn.users THEN 0
                   ELSE IF turn.spent THEN Least(spending + 1, SpendingCap) ELSE spending
    /\ unheard' = IF late \/ turn.took THEN 0
                  ELSE IF turn.users THEN Least(unheard + 1, MaxUnheard) ELSE unheard

\* projected_input: 0 when nothing was measured since the history changed.
Projected(measured, since) == IF measured = 0 THEN 0 ELSE measured + since

\* A turn begins, with what it saved: the user's message, or a notice, which
\* is far under a unit.
Begin(users, size) ==
    /\ turn.at = "idle"
    /\ history + size <= MaxHistory
    /\ history' = history + size
    /\ unanswered' = IF users THEN Least(unanswered + size, QUOTE_MAX) ELSE unanswered
    /\ progress' = IF users THEN UserWrote(progress) ELSE progress
    /\ turn' = [NoTurn EXCEPT !.at = "step", !.users = users, !.window = Believed,
                           !.pending = size, !.usage = usage]
    /\ spending' = IF users THEN 0 ELSE spending
    /\ UNCHANGED <<world, usage, edits, unheard, unsummed>>

Send(size) == Begin(TRUE, size)
Wake == Begin(FALSE, 0)

\* CompactionProgress::step, before each model call.
Step ==
    LET q == Sync(progress, turn.window)
        answer == StepAnswer(q, turn.window, Projected(turn.usage, turn.pending))
    IN  /\ turn.at = "step"
        /\ progress' = IF answer = "compact" THEN [q EXCEPT !.compactForRoom = FALSE] ELSE q
        /\ IF answer = "stuck"
           THEN Ends(FALSE, FALSE)
           ELSE /\ turn' = [turn EXCEPT !.at = IF answer = "compact" THEN "compact" ELSE "build",
                                  !.compacted = FALSE]
                /\ UNCHANGED <<spending, unheard>>
        /\ UNCHANGED <<world, history, unanswered, usage, edits, unsummed>>

\* learn: a window the server names lands on the turn, and on the row if it is
\* below what the row holds (save_learned_context_window).
RowWindow == IF learned # 0 THEN learned ELSE IF own # 0 THEN own ELSE reported
Learned(w) == IF w < RowWindow THEN w ELSE learned
Names == server.kind # "silent"

\* compact: the summary call, asked once more if it is refused: of a
\* transcript sized to the window the refusal names, or half as long.
SummaryOf(w) == Least(history, AtLeast0(w - TRANSCRIPT_ROOM))
OverServer(input, tokens) ==
    \/ input > server.window
    \/ server.kind = "counts" /\ input + tokens > server.window

Summary(s, w) ==
    /\ history' = s + unanswered
    /\ usage' = 0
    /\ progress' = IF turn.retry THEN RefusalCompacted(progress, w) ELSE Compacted(progress, w)
    /\ turn' = [turn EXCEPT !.at = "build", !.window = w, !.usage = 0,
                      !.compacted = TRUE, !.spent = TRUE]
    /\ UNCHANGED <<own, reported, server, skew, fixed, unanswered, edits, ghosts>>

Compact(s) ==
    /\ turn.at = "compact"
    /\ ~OverServer(SummaryOf(turn.window), SUMMARY_MAX_TOKENS)
    /\ Summary(s, turn.window)
    /\ UNCHANGED learned

CompactAgain(s) ==
    /\ turn.at = "compact"
    /\ OverServer(SummaryOf(turn.window), SUMMARY_MAX_TOKENS)
    /\ IF Names
       THEN /\ learned' = Learned(server.window)
            /\ Summary(s, Least(turn.window, server.window))
       ELSE /\ SummaryOf(turn.window) \div 2 <= server.window
            /\ Summary(s, turn.window)
            /\ UNCHANGED learned

CompactFails ==
    /\ turn.at = "compact"
    /\ ~Names
    /\ SummaryOf(turn.window) \div 2 > server.window
    /\ turn' = [NoTurn EXCEPT !.at = "failed", !.users = turn.users, !.took = turn.took, !.spent = TRUE]
    /\ unsummed' = TRUE
    /\ UNCHANGED <<world, history, unanswered, usage, progress, edits, spending, unheard>>

Fails ==
    /\ turn.at = "failed"
    /\ Ends(FALSE, FALSE)
    /\ UNCHANGED <<world, history, unanswered, usage, progress, edits, unsummed>>

\* One pass of build_request_with_room's loop, with before_sending.
Build ==
    LET q == Sync(progress, turn.window)
        roomOnly == RoomOnly(q) \/ turn.hold
        size == Estimate(Real) + turn.under
        projected == IF turn.usage = 0 THEN size ELSE turn.usage + turn.pending
        budget == BudgetFor(turn.window, projected, roomOnly)
        underTheFloor == roomOnly /\ budget.roomLeft /\ budget.tokens < MIN_USEFUL_REPLY
        answer == FloorAnswer(q, turn.window)
        sent == IF ~underTheFloor THEN budget
                ELSE IF answer = "believe" THEN BudgetFor(turn.window, q.after, TRUE)
                ELSE [tokens |-> MIN_USEFUL_REPLY, roomLeft |-> TRUE]
        sized == IF turn.retry THEN IF turn.compacted THEN 0 ELSE turn.sized
                 ELSE Projected(turn.usage, turn.pending)
    IN  /\ turn.at = "build"
        /\ IF underTheFloor /\ ~turn.compacted
           THEN /\ progress' = q
                /\ turn' = [turn EXCEPT !.at = "compact"]
                /\ UNCHANGED <<spending, unheard>>
           ELSE /\ progress' = IF underTheFloor THEN FloorFired(q, turn.window, size) ELSE q
                /\ IF underTheFloor /\ answer = "noRoom"
                   THEN Ends(FALSE, FALSE)
                   ELSE /\ turn' = [turn EXCEPT !.at = "call", !.budget = sent, !.sized = sized]
                        /\ UNCHANGED <<spending, unheard>>
        /\ UNCHANGED <<world, history, unanswered, usage, edits, unsummed>>

\* The server takes the request: the reply is measured, and the turn ends,
\* goes on with its tools' results, or compacts for the room that cut it.
Reply(wants, results) ==
    LET written == Min({wants, turn.budget.tokens, server.window - Real})
        cut == written < wants
        taken == IF turn.retry THEN RetryTaken(progress) ELSE StepTaken(progress)
        m == Measured(taken, Real, turn.window)
        q == IF cut THEN m ELSE [m EXCEPT !.roomRetried = FALSE]
        again == cut /\ turn.budget.roomLeft /\ CutForRoom(q, turn.sized)
        goesOn == again \/ (~cut /\ results # 0)
    IN  /\ turn.at = "call"
        /\ ~OverServer(Real, turn.budget.tokens)
        /\ results = 0 \/ (~cut /\ history + written + results <= MaxHistory)
        /\ progress' = IF again THEN [q EXCEPT !.compactForRoom = TRUE, !.roomRetried = TRUE] ELSE q
        /\ usage' = Real + written
        /\ learned' = IF learned # 0 /\ Real + written > learned THEN 0 ELSE learned
        /\ history' = history + written + results
        /\ unanswered' = 0
        /\ IF goesOn
           THEN /\ turn' = [NoTurn EXCEPT !.at = "step", !.users = turn.users, !.window = turn.window,
                              !.pending = results, !.usage = usage', !.took = TRUE]
                /\ UNCHANGED <<spending, unheard>>
           ELSE /\ turn' = NoTurn
                /\ spending' = 0
                /\ unheard' = 0
        /\ UNCHANGED <<own, reported, server, skew, fixed, edits, unsummed>>

\* A call that fails for another reason ends the turn, here and in a retry.
CallFails ==
    /\ turn.at = "call"
    /\ Ends(FALSE, TRUE)
    /\ UNCHANGED <<world, history, unanswered, usage, progress, edits, unsummed>>

Said == IF Names THEN Real ELSE 0

\* The server refuses a request as too big, and the turn recovers: once.
Recover ==
    LET q == RefusedFor(Sync(progress, turn.window), Said)
        w == IF Names THEN Least(turn.window, server.window) ELSE turn.window
        input == IF Names THEN Real ELSE Estimate(Real)
        guess == (3 * input) \div 4
        guesses == ~Names /\ guess < w
        tooSmall == Names /\ Estimate(fixed) + MIN_USEFUL_REPLY > w
        compacts == ~Names \/ input + MIN_REPLY_TOKENS + COMPACTION_SAFETY_BUFFER > w
    IN  /\ turn.at = "call"
        /\ ~turn.retry
        /\ OverServer(Real, turn.budget.tokens)
        /\ ~RefusedOut(Sync(progress, turn.window))
        /\ learned' = IF Names THEN Learned(server.window) ELSE learned
        /\ progress' = IF tooSmall THEN TooSmall(q, w)
                ELSE IF guesses THEN Guessed(q, w, guess) ELSE q
        /\ turn' = IF tooSmall
                THEN [NoTurn EXCEPT !.at = "failed", !.users = turn.users, !.took = turn.took, !.spent = TRUE]
                ELSE [turn EXCEPT !.at = IF compacts THEN "compact" ELSE "build",
                               !.window = IF guesses THEN guess ELSE w,
                               !.usage = IF compacts THEN 0
                                         ELSE Max({Projected(turn.usage, turn.pending), input}),
                               !.pending = 0, !.compacted = FALSE, !.retry = TRUE,
                               !.hold = Names, !.spent = TRUE,
                               !.under = AtLeast0(Said - Estimate(Real))]
        /\ UNCHANGED <<own, reported, server, skew, fixed, history, unanswered, usage, edits, ghosts>>

\* Three compactions answered refusals, and here is another: no more.
RefuseOut ==
    /\ turn.at = "call"
    /\ ~turn.retry
    /\ OverServer(Real, turn.budget.tokens)
    /\ RefusedOut(Sync(progress, turn.window))
    /\ progress' = [Sync(progress, turn.window) EXCEPT !.stuck = TRUE]
    /\ turn' = [turn EXCEPT !.at = "failed", !.spent = TRUE]
    /\ UNCHANGED <<world, history, unanswered, usage, edits, ghosts>>

\* The retry is refused too: the turn fails, with the window it may name.
RetryRefused ==
    /\ turn.at = "call"
    /\ turn.retry
    /\ OverServer(Real, turn.budget.tokens)
    /\ progress' = RefusedFor(progress, Said)
    /\ learned' = IF Names THEN Learned(server.window) ELSE learned
    /\ turn' = [turn EXCEPT !.at = "failed", !.spent = TRUE]
    /\ UNCHANGED <<own, reported, server, skew, fixed, history, unanswered, usage, edits, ghosts>>

\* Settings change between turns: the tools or the system prompt, the model's
\* row on its provider's page, the server behind it.
Edit ==
    /\ turn.at = "idle"
    /\ edits < MaxEdits
    /\ edits' = edits + 1
    /\ \/ \E f \in Fixeds \ {fixed} : fixed' = f /\ UNCHANGED <<own, server, learned>>
       \/ \E w \in Own \ {own} : own' = w /\ UNCHANGED <<fixed, server, learned>>
       \/ \E w \in Servers \ {server.window} :
              server' = [server EXCEPT !.window = w] /\ UNCHANGED <<fixed, own, learned>>
       \/ learned # 0 /\ learned' = 0 /\ UNCHANGED <<fixed, own, server>>
    /\ spending' = 0
    /\ unheard' = 0
    /\ UNCHANGED <<reported, skew, history, unanswered, usage, progress, turn, unsummed>>

RoomNext ==
    \/ \E size \in Typed : Send(size)
    \/ Wake
    \/ Step
    \/ \E s \in Summaries : Compact(s) \/ CompactAgain(s)
    \/ CompactFails
    \/ Fails
    \/ Build
    \/ \E wants \in Wants, results \in Results \cup {0} : Reply(wants, results)
    \/ CallFails
    \/ Recover
    \/ RefuseOut
    \/ RetryRefused
    \/ Edit

RoomSpec == RoomInit /\ [][RoomNext]_pvars

-----------------------------------------------------------------------------
\* Type invariant: the counts keep to their bounds, and the turn to its places.
RoomTypes ==
    /\ progress.tightResults \in 0..TIGHT_RESULTS
    /\ progress.atLimit \in 0..MAX_AT_LIMIT
    /\ progress.refusalCompactions \in 0..MAX_REFUSAL_COMPACTIONS
    /\ turn.at \in {"idle", "step", "compact", "build", "call", "failed"}
    /\ spending \in 0..SpendingCap /\ unheard \in 0..MaxUnheard

\* turn/tests/escape.rs fits_a_short_reply: a compacted request fits with a
\* short reply, by the server's count and by the estimate, in the server's
\* window and the believed one alike.
FitsAShortReply ==
    LET compacted == fixed + Max(Summaries) + QUOTE_MAX
    IN  Max({compacted, Estimate(compacted)}) + MIN_USEFUL_REPLY
            <= Least(server.window, Believed)

\* Whatever went before, a conversation whose compacted request fits isn't
\* wedged: of three of the user's sends in a row, with nothing else changing,
\* the server takes a request.  For a model whose window the user didn't set,
\* and summaries that fit.
SendGetsThrough ==
    (own = 0 /\ ~unsummed /\ FitsAShortReply) => unheard < MaxUnheard

\* Wakes alone stop spending on a conversation that doesn't fit: at most four
\* in a row fail having called the model or compacted, with no step taken.
\* Of the same conversations.
WakesStopSpending == (own = 0 /\ ~unsummed) => spending < SpendingCap

\* As turn/tests/escape.rs says it, of every model: "after any sequence, a
\* user's send whose request fits with a short reply reaches the server
\* within a few sends".  It does not hold of a model whose window the user set
\* above the server's (README).
SendReachesServer == FitsAShortReply => unheard < MaxUnheard

\* Once compacting can't help, a request asks for no more reply than fits:
\* nothing goes out that the server has to refuse, but for the user's one try,
\* while the window believed is the server's, the tools stay as they are and
\* the usage counts the whole history (what a failed turn saved, no usage
\* counts).
RoomIsKept ==
    (/\ turn.at = "call" /\ RoomOnly(progress)
     /\ turn.window = server.window /\ edits = 0
     /\ turn.usage = 0 \/ turn.usage + turn.pending = Real
     /\ ~(turn.budget.roomLeft /\ turn.budget.tokens = MIN_USEFUL_REPLY))
    => ~OverServer(Real, turn.budget.tokens)

\* What RoomIsKept rests on.  The size of the last compacted request, where it
\* is known, is not below what no compaction shrinks, or else it is too large
\* for the window to be believed of it.
ProgressFits(q) == DOMAIN q = DOMAIN Fresh(0) /\ {q.window, q.after, q.guess} \subseteq Nat
AfterFits(q) ==
    edits = 0 /\ q.after # 0 /\ q.guess = 0 =>
        \/ q.after >= fixed
        \/ q.after + COMPACTION_SAFETY_BUFFER + MIN_USEFUL_REPLY > q.window

\* A turn that just compacted has the history its summary made.
TurnFits ==
    /\ DOMAIN turn = DOMAIN NoTurn
    /\ {turn.window, turn.pending, turn.usage, turn.under} \subseteq Nat
    /\ turn.at \in {"step", "compact", "build", "call"} => turn.window # 0
    /\ turn.at = "call" => turn.budget.tokens \in Nat
    /\ turn.at \in {"build", "call"} /\ turn.compacted =>
         turn.usage = 0 /\ history <= COMPACTION_SAFETY_BUFFER

WorldFits ==
    /\ own \in Nat /\ learned \in Nat /\ reported \in Nat \ {0} /\ fixed \in Nat
    /\ server \in [window : Servers, kind : Kinds] /\ skew \in Skews
    /\ history \in Nat /\ unanswered \in 0..QUOTE_MAX /\ usage \in Nat /\ edits \in Nat

RoomInv ==
    /\ WorldFits
    /\ TurnFits
    /\ ProgressFits(progress)
    /\ AfterFits(progress)
    /\ RoomIsKept

=============================================================================
