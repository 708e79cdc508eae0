# A TLA+ verification of smelt

smelt is a self-hosted coding agent: a Rust server (axum, Dioxus, Postgres) that
runs conversations with a model, executes the tools the model calls in Kubernetes
sandboxes, and lets a conversation start agents, which are conversations under it.
One user, many tabs, many conversations at once. This directory models the parts of
the server whose correctness is a matter of order: what runs when, who holds what,
what survives a Stop, a delete, a failed call or a restart.

Paths below are relative to `src/src/`.

## The system

| Part | State | Operations | Hard because |
|---|---|---|---|
| Turn state (`turn/state.rs`) | `RUNTIMES`: per conversation a lock, a stop counter, a pause, a count of turns, a generation with the kept error, what the user is owed, the reply in progress | `admit`, `stop_turn_now`, `TurnInFlight::drop`, `take_turn_generation`, `keep_turn_error`, `note_attention`, `forget_conversation_lock` | each is one critical section, but a turn is dozens of them with awaits between |
| Turn life cycle (`turn/lifecycle.rs`) | the futures of the turns | queue for the lock, save the message, run the body, end | a Stop may land at every await, and the body is dropped where it waits |
| Turn body (`turn/run.rs`, `reply.rs`, `call.rs`) | what is saved so far, the slot held | drain notices, call the model, save the reply, run tools | retries, cut-offs, compaction in the middle |
| Notices (`turn/notify.rs`) | rows not yet told | `deliver_notice`, `wake_conversation`, `save_notice_between_turns` | they race the user's Stop and each other |
| Outside a turn (`turn/outside_turn.rs`) | `paused_at` | `stop_conversation`, `store_pause`, `restore_pauses`, `show_error_outside_turn` | memory is the truth and the row its mirror; the conversation may be gone |
| Questions (`turn/questions.rs`, `db/questions.rs`) | one waiting question per conversation | ask, answer, dismiss, take | answered on a card while other turns run |
| Request limiter (`providers/limiter.rs`, `anthropic/stream/endpoint.rs`) | per provider a limit as of a row's version and a pool: a semaphore and a debt | `set`, `forget`, `acquire`, `Slot::drop` | two atomics changed in two steps; sets arrive out of order |
| Providers (`providers/server`) | rows of providers, learned windows | save, delete, resolve a turn's model | a row is read, saved and applied in separate steps |
| Compaction (`turn/compaction*.rs`, `overflow.rs`, `room.rs`) | `CompactionProgress` | compact, be refused, get stuck | must stop repeating itself |
| Agents (`agents/`, `db/agents/`) | a tree of conversations, each with a state and a mark while it is deleted, and the messages between them | start, stop, finish, report, delete a subtree | every step spans the database, a pod and a turn |
| Sandboxes (`sandbox/`, `db/sandbox.rs`) | pods, claims, storage and its grace period, the registry of connected pods | start, terminate, adopt, quiet stop, tear down | Kubernetes answers late, the server restarts with pods running |
| In-pod agent (`bin/sandbox_agent/`) | commands and their output | run, kill, report | its connection comes and goes |
| Claude Code runs (`claude_cli/`) | a CLI process per turn, its waiting calls | start, deliver results, close | a run outlives a model call, not its turn |
| Language servers (`lsp/`), MCP servers (`mcp/`, `mcp_oauth.rs`), browsing (`browsing/`) | sessions | start once, call, restart | many callers for one session |
| Git (`git/`), credentials, events, usage, previews, proxies, frontend | rows, channels, relays | | little order of their own |

How they meet: a request, a finished command or an agent's report starts a turn
(`admit`), which queues for the conversation's turn lock, saves its message, and loops:
drain notices, take the provider's slot, call the model, run tools. Tools reach into
sandboxes, agents, language servers. A Stop changes the turn state only, and the turn
hears of it through its receiver. A delete reaches everything.

What makes each part correct, in a line: a conversation has one writer at a time; a
Stop ends exactly what was running; nothing the user was owed is lost or told twice; a
restart has what was stored; nothing is left of what was deleted; a limit limits and
never starves.

## Modules

| Module | Models | State ↔ code |
|---|---|---|
| `Queues` | tokio's first-come-first-served waiter lists (external) | |
| `Limiter` | `providers/limiter.rs`, `Endpoint::slot`, `TurnSlot`, and the saves and deletes of a provider that set its limit | `limit` is the provider's entry in `LIMITS`; `permits`, `queue`, `closed` each pool's semaphore; `owed` the pool's debt; `count` the limit it was sized to; `resizing` the rest of a `Pool::resize` under way; `pending` the rows read or written whose `limiter::set` has yet to run |
| `TurnState` | one conversation: its runtime entry, its turns from admission to end, notices, Stops, shown errors, a delete | `flags` the entry's Boolean and optional fields; `lock`, `ref`, `queue` the turn lock, who has a handle on it, who holds and waits for it; `counter`, `hearing`, `seen`, `noted` the watch channel of `TurnStops`, its receivers and `note_stop`'s memory; `flights` `turns_in_flight`; `gen`, `err` `KeptTurnError`; `att`, `published`, `notice` what a busy spell owes and published; `log` the saved messages |
| `PauseStore` | the pause in memory and in `paused_at`, with any number of `store_pause` tasks, crashes and deletes | `paused` is `ConversationRuntime::paused`, `row` the column; `at`, `value`, `tries` the tasks |
| `AgentTree` | a conversation and its agents: `db/agents`' transactions statement by statement, the starts, stops and deletes around them, and which turns an agent's state lets run | `parent`, `state`, `started`, `deleting`, `unread` the rows; `held`, `rows` the row locks each transaction holds; `paused` the pause in memory; `tx` where each task is in its operation, with the subtree it has read and the states its mark replaced |
| `Mailbox` | a root and its agent: the question each may have open, the messages queued between them, the reports and notices an agent owes its parent, and a restart | `question` the `pending_questions` rows; `mail` the undelivered `agent_messages`, oldest first; `read` which questions the parent was delivered; `turns` the turns in flight in the order of the turn lock, whose head holds it; `waking`, `answering`, `ending`, `telling` the spawned tasks |
| `Compaction` | `CompactionProgress` and the turn that drives it against a server of its own window | `progress` is `CompactionProgress`, field by field; `own`, `learned`, `reported` the windows of the model's row; `turn` the turn's locals; `usage` the last reply's usage; `history`, `fixed`, `unanswered` the sizes of what is sent |
| `PodLife` | a conversation's pods, their rows, the two claims they mount, and every task that starts or ends them: starts, turns, the user's Stop, quiet stops, storage removals by the user and by the grace period, the delete, the watcher, a crash and the sweep after it | `row`, `mark`, `tried` the columns of `sandbox_pods`; `pod`, `claim` the cluster's objects; `lock` the turn lock and the start lock; `task` where each task is |
| `SandboxStorage` | abstract: what the sandbox manager promises of the storage | |
| `PodConn` | smelt's connection to one pod: `connect_with_retry` in its three modes, the registry, teardowns, requests and replies, the crash cleanup | `reg`, `torn`, `outdated` the `Registry`; `conns` every `TerminalConnection` made, with its pending table, its socket and its reader; `connLock` the pod's connect lock; `terms` the terminals' rows |
| `AgentLink` | a command's row, its way to the pod, and its exit's way back over connections that come and go | `row`, `told` the `terminal_commands` row; `events`, `unsent`, `ready`, `newest` the agent's `AppState`; `link` each connection, both ends and what is on the wire |
| `Shells` | one terminal in the pod: the claim of a command, its two markers, the reader, the shell's end | `shell` each `Shell` with its `current`, `marker` and `ended` and its reader's `Ending`; `term` the terminal's entry; `start` the `start_command` under way |
| `ClaudeRun` | a conversation on a Claude Code provider: each turn's CLI process, its waiting calls, the session recorded to resume it, the runs still ending | `session`, `marks` the `claude_cli_sessions` row and `Marks`; `turn` the turn with its `TurnCli`; `proc` each process, smelt's `Run` and the task that ends it; `endings` its entry of `ENDINGS`; `ctx` what each session's model has been shown |
| `QueueProofs`, `RequestProofs` (of `Limiter` and `Compaction`), `TurnStateProofs`, `ConversationProofs` (of `PauseStore` and `Mailbox`), `PodLifeProofs`, `SandboxProofs` (of `PodConn` and `ClaudeRun`), `AgentTreeProofs`, `ExitProofs` (of `AgentLink` and `Shells`) | the theorems | |
| `MCLimiter`, `MCTurnState`, `MCAgentTree` | symmetry sets for TLC, and the kinds two turns may have | |
| `MCRequests`, `MCConversation`, `MCLive`, `MCSandbox` | several components checked in one run | |

`TurnState` and `PauseStore` cut the same code differently: `TurnState` has all that a
Stop does to the turns and none of its storing, `PauseStore` has all of the storing and
takes a turn's admission as the one step that ends a pause. `Limiter` has a turn as its
slot sees it, and `AgentTree` as its admission and its end, which is what an agent's
state decides. They share no state but the conversation's and the provider's rows, and
the pause, so they are checked apart. The same holds of the newer modules: `Mailbox` has what
a turn saves and consumes and leaves its locks to `TurnState` and the transactions' locks to
`AgentTree`; `PodLife` has a pod as its row, object and claims and leaves who can talk to it to
`PodConn`, which has the start and the end of the pod as single steps; `PodConn` has how a
connection is made, `AgentLink` what is sent over it, `Shells` what makes the exits it sends.

A run of `MCRequests`, `MCConversation`, `MCLive` or `MCSandbox` is about several such modules at
once: a variable `part`, chosen at the start, says whose behaviour it is, and the others stand
still in one initial state. It explores what separate runs would, no more and no less; no
property is about two parts.

`SandboxStorage` is the one abstract specification so far: one holder at a time, which takes the
volumes only when they are whole, and volumes that go only while nobody holds them.
`PodLife` implements it (`ImplementsStorage`) with the pods whose object stands as the holders,
through all its locks, waits, rows and retries.

### Abstractions

* An access to `RUNTIMES` is one action, since it is one critical section; a handler is
  cut into actions at its awaits. Where two awaits have nothing between them that another
  task can see, they are one action: a turn's `keep_turn_error`, `note_attention` and
  `forgo_child_outcome` (`Settle`), for while the turn is counted nobody else can clear
  what it notes but a forget, which clears all three.
* The body goes on only while no Stop has come (`Unstopped`): at its next await
  `select!` polls both and the stop's branch wins at the latest then. A write sent
  before the Stop counts as done before it.
* What a turn has to tell, whether the model calls tools, and how a reply ends are
  choices (`\E`, disjuncts). `CutOff` stands for `Refused` too. `started_at` is set just
  while `flights > 0`, so it is not a variable.
* The semaphore's permits are given one by one, as tokio assigns them.
* The turn lock is named after the turn that made it: a turn makes one at most. After a
  forget the next turn makes another, which is how two locks can be about.
* A transaction of `AgentTree` is one action for each lock it may wait for, but the first
  (who holds nothing is in no circle), and each read whose moment matters, and its writes show in the action that commits it: Postgres runs
  READ COMMITTED, where a statement sees what is committed when it starts. Row locks have
  the three modes of `RowLock`; an `agents` row has one, as every statement that waits for
  one updates it or locks it for that. Foreign keys are locks too: `create_child`'s to the
  root is one that its own code does not name.
* In `unread` a message, a question, a report and an answer are one kind, by sender:
  `unread_by` asks for any of them. Notices from smelt are not in it, as it leaves them out.
* `Compaction` counts in units of 1,024 tokens, in which each threshold of the code is a whole
  number. An estimate is the true size off by a constant `skew`; how a server refuses is its kind:
  it `counts` the reply asked for with the request and names its window, it only `names` it, or it
  refuses `silent`ly. A summary, a reply and a tool's results have sizes from small sets.
* In `PodLife` the two checks a quiet stop makes, of activity and of running commands, are
  `Stoppable`; whether the time has come is a choice. A task that takes both locks takes them in
  one step when the code does so with `try_lock`s and gives up otherwise.
* A dropped request (`Drop`, `UserLeaves`) is the future of an HTTP handler that axum drops when
  its client leaves: it stops at any await, and what it held is released.
* `StartClaims` makes, and `RemoveClaims` deletes, both of the pod's claims in one step; a failure
  between the two is a branch of each.
* In `AgentLink` a socket that breaks may swallow what was already sent into it; such an exit is
  the one loss that `handle_socket` says is not covered, and it is recorded as such.
* In `Shells` the output is only its markers; a pipe's end, a shell's exit and its reaping are
  separate steps. A command that redirects the shell's own streams away is left out: while a job
  holds the old pipes it gives neither marker nor end of pipe, and so no exit (`commands.rs`).
* In `ClaudeRun` what is sent is a set of items, so that what a model has been shown can be
  compared with the request; the wording of `render.rs` is left out. The CLI is external, as
  `run.rs` and its tests say it behaves; of a run that is only waited for it keeps what may still
  reach its session. A new session is shown the whole request: what `rehydrate` cuts from a long
  history is left out.
* `create_child`'s checks on repositories and volumes refuse before anything is written and
  are left out, as are a start's clone and persona, of which `run_start` keeps the outcome.

## Runs

| Run | Checks | Bounds, and why they are enough |
|---|---|---|
| `requests` | of `Limiter`: `SlotsConserved`, `NobodyWaitsOnIdlePool`, `LimitFollowsRow`; of `Compaction`: `SendGetsThrough`, `WakesStopSpending`, `RoomIsKept` | 2 turns, limit 2, 3 versions, 2 pools, 1 tool pass: a raise, a lowering and a replacement can each meet a drop and a wait. A model reported at 28 units and set by the user to 0 (not at all) or 40, servers of 8 and 24 that count or are silent, fixed parts of 4 and 17, messages up to 14, estimates off by 2 either way, one change of settings: a request can fit, fit once compacted, fit only with a short reply, or never |
| `limiter_live` | `SlotGranted`, with fairness | limits up to 2, 2 versions, 2 pools: a waiter whose pool is resized, closed or forgotten, or that still holds the slot of the pool before, for which another waits |
| `limiter_race` | finds `NoNewRequestOverLimit` violated | 3 turns, limit 2 |
| `turn_state` | `OneWriter`, `StopEndsExactly`, `NoTurnGoesOnPaused`, `StopNoted`, `SavedInOrder`, `FailuresKept` | 2 turns (a send with a send, an answer, a wake or a notice; a wake with a wake or an answer), 2 Stops, a tool pass each: a Stop may hit one turn running and one queued, both queued, or two turns of two spells. A notice, saved between turns, may wait for the lock or have it when the turn before frees what is idle. `OneWriter` says that a handle on a lock is on the one the next turn would get, so it takes no third turn to see two writers coming |
| `conversation` | of `PauseStore`: `StoredMirrorsMemory`; of `Mailbox`: `QuestionAccounted`, `NothingStranded`, `ParentTold` | 3 stores of 2 writes at most, 2 faults, a crash, a delete; a root and its agent 1 thing the user does, 2 tool calls, a restart: enough for a question to be asked, answered and dismissed around a restart. Checked too with 2 of the user's events and no restart, and by random runs with 3, where it takes an answer kept with a stopped turn's message for `ParentTold` to need `hollow` |
| `turn_delete` | `TurnsDontMix`, `CountExact`, `NothingLeft` | an agent's conversation, 2 turns, sends or deliveries, a delete (whose stop stands for a Stop), a shown error, a database fault, a tool pass each |
| `live` | `TurnEnds` of `TurnState`; `ExitIsTold` of `AgentLink` and `OverGetsExit` of `Shells`; `ExitsAccounted` of both; with fairness | 2 turns, sends, deliveries or wakes, a Stop, a database fault; 3 commands in 2 terminals over 3 connections: one replaced while it sends, one past its look at what is unsent; 3 commands in one terminal and 3 shells: a shell may end twice |
| `agent_tree` | `NoWaitCycle`, `NoStartUnderEnded`, `StopStands`, `StoppedRunsNothing` | 3 tasks that start, send, stop or delete; a conversation, its agent and that one's agent at first, 1 more to make, depth 2: a start under either agent while both are stopped or deleted |
| `agent_finish` | `CascadeCovered`, `FinishReadsAll` | 3 tasks that start, finish, message, wake or delete, 1 agent to make: parent and child may finish at once |
| `agent_undone` | `NeverStartedNeverRuns` | 3 tasks that start, send or delete, an outage: a delete undone around a start |
| `agent_wake` | finds `StoppedRunsNothing` violated | 3 tasks: a send, a wake and a stop |
| `sandbox` | of `PodLife`: `StopKeepsStorage`, `OneTrueNotice`, `NothingLeft`, `ImplementsStorage`; of `PodConn`: `RegistryAgrees`, `WaiterIsHeard`, `CrashToldOnce`; of `ClaudeRun`: `ShownOnce`, `SessionsAlone` | 2 pods, 5 operations begun, 1 fault or crash: a stop, a start of the next pod and two more tasks between them; 2 callers making 3 calls, 2 connections, 1 fault, 1 terminal, 2 of the 3 attempts: a connection replaced while one is torn down; 2 turns, 2 replies that are cut off, call a tool, or call one and ask, 1 notice, compaction, larger cap or fault, and 3 processes, the third only for a session that was missing: a resume while the last turn's process still ends, a question answered in the next turn |

The operations of `AgentTree` are a constant: three tasks of any of the seven operations
are more than TLC does in minutes, so each run has those its properties are about.
`agent_tree` asks `StoppedRunsNothing` of sends without wakes, since together they break it
(`agent_wake`).

Several properties are conjunctions of named parts: `StopNoted` that a stop is noted once
at most and after the work it cut short; `FailuresKept` that a spell's failure is told and the
user's own kept; `QuestionAccounted` that a question has one result, that no model is called
before, and that a parent answers what it has read; `ShownOnce` that a model has been shown the
whole request, and no item twice; `RegistryAgrees`, `TurnsDontMix`, `NothingLeft`
likewise. Each module has a type invariant too; those of `Limiter`, `PauseStore`, `Mailbox`, `TurnState`,
`PodLife` and `AgentTree` are parts of the inductive invariants that are proved, as far as the proofs
need them; the others describe the state and are not among the runs' properties.

Deadlock is checked in the limiter's runs and in `requests`. In the others the system may really stop: a
bounded number of turns, stores or tasks is done with, and nothing else happens. That no
transactions of `AgentTree` wait for each other is an invariant, `NoWaitCycle`.

Every property has a mutant: a change of one definition, as a slip in that code would
make it, under which TLC finds the property violated.

### Fairness

Weak fairness of the steps of a turn that has been admitted: tokio schedules a task that
can go on, a model call and a tool have timeouts, and a turn's passes are bounded
(`MAX_TURNS`). The turn lock and the semaphores are fair by tokio's own contract, which
the queues model. In the limiter a turn's reads of `LIMITS` are strongly fair: the mutex
is held for no longer than a resize, again and again, and a thread that waits for it gets
it at last; a turn is at one of its two reads at a time, so the two are one fairness condition. In `AgentLink` the agent's tasks and smelt's reader run, smelt reconnects (the reader
does when a connection ends by itself, startup does after a restart) and a wake drains what has
ended; in `Shells` the agent's reader and `start_command` run, and a command may run for ever.
Nobody has to send, stop, save or delete, no connection has to break and no pod has to die.

### What the violations show

* `limiter_race`: lowering a limit forgets free permits and then books the rest as owed. A
  slot dropped between the two is freed rather than taken back, so a request gets in over
  the new limit. The debt booked then is paid by the next drop, so `SlotsConserved` holds
  all along; it is the module comment's "never" that does not.
* `agent_wake`: a send reads the agent as active, is counted after the stop has paused it, and
  so ends the pause, before `confirm_user_turn` refuses it. A wake that read it as active too
  finds no pause, and runs a turn in the stopped agent.

Other limits of what holds, which a changed bound shows:

* With `MaxFaults = 1` in `MCTurnState.cfg`, `FailuresKept` fails: an answer's turn that
  fails on a database error before it has a generation of its own keeps its error under the
  one taken when the user answered, which a wake admitted earlier, and running first, has
  made stale. The error is not kept.
* With `MaxFaults = 1` in `MCAgentTree.cfg`, `StopStands` fails: a stop that finds the agent
  stopped by a delete's mark changes nothing; the delete fails, and its undo makes the agent
  active again. The row does not tell whose stop it was, though `unmark_subtree_deleting`
  says a Stop since then stands.
* With `MaxFaults = 1` in `MCAgentTreeFinish.cfg`, `CascadeCovered` fails: two deletes of one
  conversation mark it; the first fails and clears the mark of both; an agent is started; the
  second removes its rows with all the others, and does not stop its turns, tear down its
  pods or forget it, as its list was read at the mark. The same undone mark lets a start and
  a delete wait for each other, which Postgres ends by failing one.
* `StoredMirrorsMemory` excludes a delete that fails (`lapses`): it leaves its conversations
  paused in memory and not in their rows, until something else stores the pause.

### What does not hold

The modules state some properties that no run checks, because they fail. Each is what a
comment, taken by itself, would lead one to expect; what the runs check instead is the nearest
statement that holds.

* `Compaction!SendReachesServer` (`turn/tests/escape.rs`: "after any sequence, a user's send
  whose request fits with a short reply reaches the server within a few sends"). A window the
  user set comes first (`context_window`), so one set above the server's real window is believed
  again in each turn, whatever a refusal taught, and `sync` drops the progress made under the
  learned one. `SendGetsThrough` asks it of models whose window the user did not set. Both
  properties leave out conversations of which a summary call was refused twice: such a failure
  counts nowhere, so each wake pays for it again.
* `Mailbox!NoParentWaitsUntold` (`after_last_turn`: "otherwise the parent would wait for a report
  that won't come"). An agent's turn ends, and a wake with nothing to do is counted before
  the check that no turn runs; that wake's own end tells nobody, as it saved nothing. A second
  way: the parent stops the agent with a message of the user still queued in it; the user
  answers the agent's question, which brings it back; the stopped message is kept and the answer
  taken with it (`create_message_taking_question`), so that the answer's own turn finds nothing to do
  and tells nobody. `ParentTold` leaves both out (`hollow`), and
  restarts, after which the sweep tells agents that were cut off; one whose last turn had ended
  when the server died, before `after_last_turn`, is told nothing, and neither is its parent.
* `PodLife!NoStrayPod` (`create.rs`: "a pod left running with no live record is one nothing
  deletes"). The user's Stop deletes the pod's object before the start has made it, the start
  makes it and finds its row still live, and the Stop closes the row. The pod runs until the
  conversation's next start or its delete, which go by label.
* `PodLife!OneNotice` (`storage_grace.rs`: "one notice per stop still holds"). The mark's clear
  fails after the notice, the next pass is given up on or crashes with its attempt on record,
  and the pass after it credits that attempt. `OneTrueNotice` has one notice without faults, and
  none for what the user removed while one call at most fails. With two it may be false: the
  user's removal fails to clear the mark (or a start died before it made the claims), a pass
  finds nothing and fails to forget its attempt, and the next pass credits it.
* `PodConn!StaysReachable` (`terminate_pod_as`: "so it must stay reachable too"). A teardown's
  future dropped between `deregister` and its end, as when the user's request is, leaves the mark
  that refuses connections. `RegistryAgrees` asks it of teardowns that ran to their end.
* `AgentLink!OneSlotIsEnough` (`client.rs`: one unsent event "is enough"). A connection that was
  replaced in the middle of a send fails it after the newer one's own send failed: the second
  overwrites the first. `ExitsAccounted` shows this, and a socket that swallows what it took,
  are the only ways an exit is lost.
* `AgentLink!NothingWaitsOnUnrun` (`run_command`: "so nothing waits on a command that never ran").
  A send into a channel whose socket is already dead succeeds; the row says running until the
  pod's end or a stop settles it.

Smaller ones, seen while modelling and in no property: a user's Stop can be reported as a crash
too by a caller that was already dialling; two teardowns of one pod may overlap, of which the
first to fail takes the mark of both; `mark_terminal_command_finished` does not look at the row's
status, so a late exit turns a lost command into a finished one; the agent's
`terminate_terminal` looks at `ended` and kills outside of `current`'s lock; after a
restart an answer recorded for a user's own conversation waits for its next turn, as the sweep goes
by agents' rows; a call that fails with its session taken to be unchanged, after parked calls were
answered, sends those answers again; the marks of what a closed run delivered are taken before a
resume that may fail; a Stop or a delete that drops the wait for runs still ending
(`ended` takes the table's entry first) leaves a process that nothing waits for (`dropped`); a session that was missing is resumed, and missing, once more
when the process started in its place dies before it says anything (`start` with a record whose files
it just removed: `SessionsAlone` has `took`); and what a failed turn saved is counted by no usage until the next reply.

## Proofs

All for every value of the constants: any finite set of turns or tasks, any bounds.

* **Limiter.** `LimiterInductive`: `IndInv` is `SlotsConserved` with what it needs to be
  inductive. A resize has one half left, of one kind (`OneHalf`); a turn holds at most one
  of a pool's permits, as it never asks the pool whose slot it has (`TurnsFit`), so that
  the set `Out(p)` counts permits; whoever is in a semaphore's queue waits there, once
  (`QueuesFit`); pools not yet made are untouched (`UnmadeUntouched`), the current one is
  open (`CurrentMade`). From it `LimiterTypes`, `LimiterConserves` and `LimiterNoIdleWait`:
  if a waiter's pool had no permit out, none free and none to be added, conservation would
  make its limit zero. `RowInv`: a row read or written is never newer than the committed one,
  and the committed one's set has yet to run, has run, or none ever began; a limiter whose version
  is the row's enforces that row. Hence `LimiterFollowsRow`: once no set is to come, its version is.
* **Compaction** (`RoomKept`, of `RoomInv`, in `RequestProofs` with `Limiter`'s). Where the request is
  built and compacting can help no more, the reply asked for is what is left after the usage, which
  counts all of the history, or after the estimate, which the buffer covers, or after `after`, the
  last compacted request's size as a server counted it. The last needs `AfterFits`: `after` is not
  below the fixed part, as each measure and refusal counts all of a request, or, where it is only
  the estimate of a request that had no room, it is too large for `FloorFits` to believe it; and
  `TurnFits`: a turn that has just compacted has a history within the buffer. Each operation of
  `CompactionProgress` keeps both, and so does a change of window, which forgets the measures
  (`SyncFits`, `GuessedFits`). TLC found no behaviour against `RoomInv`, in the run's instance and in
  random behaviours of larger ones.
* **PauseStore.** `Mending`: while the row is not what memory holds some store has still
  to read memory. It is the point of reading again after the write: the last to write is
  either about to see the change, or wrote it. From it `PauseIsStored`, and `PauseStoreTypes`.
* **Mailbox**, three invariants, each with the one before it (`MailInductive`, `MailKeepsTypes`).
  `AskInv`: behind the head of a queue of turns all are queued, and a head past its look has no
  question of its own open (`HeadFits`), so the one call that may ask finds the row free; a call to
  come was counted (`AsksFit`), so each question has a number of its own, and is in one row, or has
  its one result (`ResultFits`). Hence `QuestionsAreAccounted`. `ReadInv`: who has something to read,
  and waits for nobody, has a task that will start a turn, or a turn that has yet to list the mail
  or lists all of it (`Attended`). A Stop could take that turn away: `StopsFit` says that it
  leaves the pause, and that what ends the pause is a turn, or an answer on its way, behind the
  stopped ones. Hence `NothingIsStranded`. `TellInv`: while a word is owed to the parent there is
  a check, a notice, a Stop's task, an answer, or a turn that will save something (`RunningTold`); and,
  since a Stop takes the turns and a Send or an answer takes its pause, this holds, by
  `HaltedTold`, before the pause ends too. Hence `ParentIsTold`, by way of `Attended`: an answer
  still there at rest would have its reader.
* **TurnState.** `LocksAgree`: while the conversation exists every handle on a turn lock
  is on the entry's; `WritersHold`: who writes is the head of its lock's queue; together
  `TurnStateOneWriter`. `ReceiversFit` and `AllDueFit`: a receiver has seen no value to
  come, and has news just if its turn was in flight at a Stop or a forget; hence
  `TurnStateStopsExactly` and `TurnStateNoneGoesOnPaused`. `TurnStateTypes` comes with them.
* **TurnState**, the entry's use and the log (`TurnStateWhole`, which has the above and three groups
  more). `SpellInv`: the count is exact (`TurnStateCountExact`); a turn has a receiver and a handle on a
  lock just from its admission to its end (`HearersFit`, `UsersFit`); a lock or a counter is
  there only while someone will release it (`LockUsed`); the end of a spell leaves no reply and
  nothing owed (`SpellOver`). `LogInv`: who waits for results wrote the last message and has the
  lock (`CallLast`), and a turn that streams found the reply empty and is the only one that does
  (`ReplyFits`), hence `TurnStateTurnsDontMix`; each note raises the stop noted last, which the counter is
  never behind (`NotesFit`), and while a turn's work has no note after it no stop is noted
  that it has not seen, nor the one that ends it (`WorkFits`), hence `TurnStateStopNoted`. `OverInv`: what
  is left of the entry after a delete has someone to clear it, a check that is due, a turn that
  will find the conversation gone, or the next to release idle state (`OverFits`), and a turn
  that will not look any more was forgotten; when all rest that is `TurnStateNothingLeft`.
* **TurnState**, the order of the turns and what a failure leaves. `OrderInv`: as long as a turn
  has the place in the queue that its admission gave it, running or not, those admitted after
  it wait behind it, or were refused, and have saved nothing (`BehindFits`), so the lock's holder
  has nobody before it that has yet to save (`HolderFirst`); a message is saved once, and not before the
  lock is granted (`SavesFit`, `SavedOnce`). A stopped body gives its place up, but its message is
  saved by then; a notice saved between turns has a place and no admission, so no order to
  keep. Hence `TurnStateSavedInOrder`. `ToldInv`: what is owed covers the failures settled so far,
  unless a turn of the spell was stopped (`Owed`), hence `TurnStateFailureTold`, whatever
  fails. `KeepInv`, while no database call fails: a turn past its first model call has taken a
  generation, which is the newest as long as none after it is the user's or took one
  (`KeepFits`): who takes one holds the lock, and so is behind no turn that still runs; with it
  `TurnStateFailuresKept`.
* **PodLife.** `Inv`, in three groups. What the locks keep (`PathInv`): a start past its wait, a
  removal and a grace pass hold the start lock (`LockHeld`), so what one of them waited for, that
  no pod stands, is still so when it makes the claims, makes the pod or deletes the claims
  (`Clear`), and a teardown is of a deleted conversation (`TearsGone`). From these
  `StorageInv`: one object stands (`OneHolder`), the claims are whole when a pod is made
  (`ClaimsReady`) and not being deleted while one stands (`NoneDoomed`); and with it each step is a
  step of `SandboxStorage` or leaves it alone (`StorageRefines`, `PodLifeStorage`). `KeptInv`: a mark
  is of an ended row, so a quiet stop cannot set one after the Stop closed it, and a Stop's
  task is the user's, so its close clears one set before (`PodLifeStop`). `PodsCovered` and
  `ClaimsCovered`: as long as a pod or claim of a deleted conversation stands there is a task
  that will delete it (the delete, the start that made it, the sweep); the first without
  faults, the second with crashes only; when all tasks are idle that is `PodLifeNothingLeft`.
  A live row's conversation exists (`LiveExists`), so a start's check of its row is a check of
  the delete too.
* **PodLife**, its notices (`PodLifeOneTrueNotice`, of `NoteInv`). The start lock keeps the pass's
  pod the newest (`GraceLatest`), and its row is over for good (`NoticedOver`); a quiet stop is marked
  once, so a pod told of is marked only until its pass clears the mark (`ToldOnce`). That a
  notice is true takes a count of the failures: until the first, the claims of a marked stop
  are whole unless a pass or the user's removal is at them (`ConcernedWhole`), and only a pass
  at work has an attempt on record that removed nothing (`TriedAtWork`); after it, a recorded attempt
  still has its claims (`TriedWhole`), so a second attempt finds them or the first removed them
  (`AgainWhole`). With a second failure it does not hold.
* **PodConn**, the registry (`PodConnRegistry`, of `RegInv`). Whoever is under the connect lock holds it
  (`Holds`), so that while one dials no connection is registered (`NoReg`); a connection that has
  ended has its reader told (`Shape`), so one that can be registered is still read from; a
  reader is no caller before its connection's end (`ReaderIdle`); and a mark in the registry is that
  of a teardown under way or of a pod that is gone, unless one was cut off (`Tear`).
* **PodConn**, crashes and requests. `PodConnCrashTold`: a cleanup lists and closes under the lock, so what it
  is about to close nobody has told of (`Untold`), and a terminal told of is closed (`Told`).
  `PodConnWaiter`, of `HeardInv`: ids are given out once (`IdsPast`), so two requests of a connection
  differ (`Apart`), giving one up takes no other's id, and a reply to an id is for its caller
  (`Waiting`). Each from any number of callers, connections and terminals. All in `SandboxProofs`.
* **ClaudeRun** (`SessionsKeptAlone`, of `CliInv`, in the same module). Processes, and the sessions they make, are
  numbered as they start, so a new session is nobody's (`RunFits`). Whoever resumes a session or is about to
  remove one's files has taken the entry of `ENDINGS`, to which nothing is added before the next
  run (`WaitFits`): when its wait is over no process of the conversation is left, but one whose wait a
  Stop dropped. Of such a process (`Stray`) it remains that, as long as nothing failed, no
  record has its session, which was set aside before anything was sent (`RecordFits`). With a failure a
  record may come back, so the first half of `SessionsAlone` needs one of its hypotheses. Any shapes
  of replies, any number of turns, processes, bends and faults.
* **AgentTree**, what tasks have to themselves (`AgentTreeProofs`). `Inv`: an agents row is locked by
  one task (`RowsApart`), so a finish past its update has an active agent (`FinishHolds`); a child
  being made is known to its create alone (`LinkAbsent`); what a mark replaced had started
  (`WasStarted`). Each operation moves a state along one of few arrows (`Arrow`), hence
  `AgentTreeTypes`, `AgentTreeNeverStarted`, and `AgentTreeStopStands` as long as there was no outage: the
  only step against a stop is an undone mark (`NoUnmark`). `FreshInv`: a finish past its first read
  has seen no agent of its own running, past its second nothing unread, but for what came
  back since; who is about to report holds its row, or ran when it was seen (`SendHolds`,
  `SeenRunning`, `SeenUnread`); hence `AgentTreeFinishReadsAll`. `HaltInv`: what a halt has still to
  end is in the stopping task's list, so a turn in a stopped agent is one that task will
  reach (`HaltsOnly`); hence `AgentTreeStoppedRunsNothing`, of `Ops` without wakes.
* **AgentTree**, the tree and its locks (in the same module). `TreeInv`: a parent is there and has a
  smaller id (`ParentsBelow`), as ids are given in order (`UnusedAbove`), and what a task has read of
  a subtree is under it (`TreesUnder`). That `Up` is the function its recursion describes, and that a
  conversation has one root, are inductions over ids, made with the least element of a set of
  ids (`LeastNat`). `LockInv`: no two tasks hold conflicting locks (`LocksApart`); a create has its
  caller's until its commit (`LinkHolds`); a stop or a delete has, or has still to take, the lock of all it has
  read (`SubtreeHolds`), the root's from the start (`RootHolds`). So when a stop or a delete acts,
  `lock_subtree`'s last read holds: nothing is being made under what it ends. `TakesInv`: hence
  `AgentTreeNoStartUnderEnded`, with outages too, and `AgentTreeCascadeCovered` without: past its mark all that is under
  a delete's conversation is marked (`Marked`), so that nothing more comes under it.
* **AgentTree**, no circle of waits (`AgentTreeNoWaitCycle`, in the same module, without outages).
  Locks are taken in ascending id, but not all of them: a create takes its root's after its
  caller's, and a subtree read again may have a smaller id to lock than the ones locked. So the
  order of ids alone proves nothing, and `WaitInv` says what a task holds while it waits: a tree is
  there from its root down (`LiveUp`, `OwnRoots`), locks are on rows that are there (`HeldLive`), and
  each task's locks and what it has left to lock fit its step (`Fits`). A waiting task that holds
  something is then of one of three kinds (`Kinds`): it has its row's parent shared (`Sharing`), its
  subtree locked from above down to where it waits (`Heading`), or just a root (`Rooting`). Of two
  that head, the one whose locks reach into the other's subtree has its own conversation in it
  (`HeadsApart`). Suppose some tasks wait in a circle. Those that share wait for ever later rows, so
  some head; let `u` be the one of these with the last conversation. Whoever waits at or below the
  row `u` waits for waits for no task that heads, as that one would have the row, or a later
  conversation. So `u` waits for one that shares, which waits for a row under that, and so on
  down, without an end: there is none, as ids are finite (`NoRing`). What is
  out of order does no harm: who has an agents row waits for nothing (`RowedWaits`), a cascade has
  all its locks (`CascadeWaits`), and a create's root is removed by no task that waits, since it
  would be deleting the create's caller, whose row the create has (`LinkWaits`).
* **AgentLink and Shells**, where an exit is (`ExitsAreAccounted`). In `Shells` only the command sent last
  may lack its exit, for as long as its start or its shell has it (`OneInFlight`): the shell that has it as
  `current` looks for its marker, and a marker on its way is of a command that was sent, so one
  seen is of that command and gives no other's exit (`SeenIsOver`); `Completed` and `FinishEnded` clear `current`
  with the report, so a command is reported once (`ShellInv`, from any number of shells and commands;
  `ShellSpec => []ExitIsItsOwn`). In `AgentLink` an event is in one place (`OnePlace`): the agent's queue, the
  unsent slot, a connection's hands or a wire; a connection has one in hand exactly when it sends, and what
  is swallowed or overwritten is recorded (`Placed`). `LinkInv`: hence an exit given is in one of these, told or
  recorded as lost, as long as the pod is up (`Traced`), over any number of connections.

Assumptions are `LimiterAssumption`, `RoomAssumption`, `TurnStateAssumption`, `PauseStoreAssumption`,
`MailAssumption`, `PodAssumption`, `ConnAssumption`, `CliAssumption`, `ShellsAssumption`, `AgentLinkAssumption` and
`AgentTreeAssumption`: finite sets, natural bounds, that "no lock" is
no turn and "no task" no caller, that callers are not readers, a process at least, and room for `AgentTree`'s first three conversations.
`RoomAssumption` is about sizes: they are natural, a window reported is not 0, an estimate is short by no more
than `COMPACTION_SAFETY_BUFFER`, which the code has as "headroom for the token estimate's error", a summary and
the words it quotes fit in that buffer, and a server's window is larger than it by more than the least reply.
The bound on the estimate is needed: with one short by 6 units TLC finds `RoomIsKept` violated. `faults = 0` in `TurnStateFailuresKept` and in three
of `AgentTree`'s theorems, and the missing wakes in another, are needed: "What the violations show" has
the behaviours.

Only model-checked: the liveness properties (`SlotGranted`, `TurnEnds`, `ExitIsTold`,
`OverGetsExit`), `ShownOnce` of `ClaudeRun`, and `SendGetsThrough` and
`WakesStopSpending` of `Compaction`, which count refusals over several turns.

## Not modelled

Text: parsing of streams, prompts, notices, calls written as text, token estimates. I/O
relays: previews, proxies, files, ports, browsing. Sums: usage and pricing. The frontend, which
is more than a third of the source. Of the agents: credentials, volumes, personas. Of the
compaction: a window learned from a reply that the window stopped, Ollama's quiet truncation,
a server that reports no usage, a model's cap on its output, settings changed in the middle
of a turn. Of the sandboxes: memory limits, docker's restarts, model volumes, claims of another
server, a pod adopted from an older server, metrics. Of the in-pod agent: files, signals, MCP
scripts. A lost answer to a commit that went through.

Of Claude Code's runs: the login, the version check, usage limits, files written for the CLI, and
what a `result` reports of windows and caps.

Three parts have an order of their own and no module: the language servers' sessions, OAuth's
logins and refreshes, and git's held directories.

## Plan

1. `TurnOrder`, an abstract specification of a conversation (admitted turns are served one
   at a time, in order, and a Stop serves those before it), implemented by `TurnState`.
2. `LspManager`, `OauthLogin`.
3. Proofs: `ShownOnce` of `ClaudeRun`, and `SendGetsThrough` and `WakesStopSpending` of `Compaction`.
