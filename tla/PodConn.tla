------------------------------ MODULE PodConn ------------------------------
(***************************************************************************)
(* smelt's connection to one pod's agent (src/src/sandbox/agent.rs and     *)
(* agent/registry.rs): who may connect, what a failed attempt means, how a *)
(* teardown of the pod meets a connect under way, and how a request waits  *)
(* for its reply.                                                          *)
(*                                                                         *)
(* The registry (reg, torn, outdated) is one lock, so each of its          *)
(* operations is one step.  Everything a task awaits between them (the     *)
(* connect lock, a dial, the cluster, the database) is a step of its own.  *)
(* Tasks are the callers (turns and requests) and, for each connection,    *)
(* its reader: the reader of a connection that ends by itself becomes a    *)
(* caller of connect_with_retry.                                           *)
(*                                                                         *)
(* The pod's start is PodLife's; here it is one step.  The pod's terminals *)
(* are a set of ids; what runs in them is Shells'.  No name here is one of *)
(* PodLife's: one module extends both.                                     *)
(***************************************************************************)
EXTENDS Naturals, FiniteSets

CONSTANTS Callers,    \* tasks of turns, requests and the startup reconnect
          MaxConns,   \* bound: connections made in a behaviour
          MaxAsks,    \* bound: calls made by the callers together
          MaxConnFaults, \* bound: dials, sockets, deletes and writes that fail
          MaxTerms,   \* bound: terminals created
          MaxAttempts \* RECONNECT_ATTEMPTS

VARIABLES
  podPhase,   \* the cluster's pod: "pending", "running", "gone"
  podRow,     \* TRUE while sandbox_pods' row is live
  agentOld,   \* TRUE if the agent in the pod speaks another major version
  reg,        \* Registry::connections for the pod: a connection, or 0
  torn,       \* the pod is in Registry::torn_down
  outdated,   \* Registry::outdated: "no", "noimage" or "known"
  connLock,   \* who holds pod_connect_lock, or NoTask
  conns,      \* the connections made so far
  caller,     \* where each task is
  terms,      \* the live terminals' rows
  made,       \* terminals created so far
  crashTold,  \* ghost: crash notices saved, per terminal they covered
  cut,        \* ghost: a teardown was cut off between its mark and its end
  asks,       \* calls made so far
  connFaults  \* faults so far

podState == <<podPhase, podRow, agentOld>>
registry == <<reg, torn, outdated>>
rows == <<terms, made, crashTold>>
counts == <<cut, asks, connFaults>>
cvars == <<podState, registry, connLock, conns, caller, rows, counts>>

NoTask == 0
ConnIds == 1..MaxConns
Readers == ConnIds
ConnTasks == Callers \cup Readers

\* The bounds are numbers; a caller is no reader, and no task is NoTask.
ASSUME ConnAssumption ==
  /\ MaxConns \in Nat /\ MaxAsks \in Nat /\ MaxConnFaults \in Nat
  /\ MaxTerms \in Nat /\ MaxAttempts \in Nat
  /\ NoTask \notin Callers /\ Callers \cap ConnIds = {}

Modes == {"First", "Reconnect", "Startup"}

\* A TerminalConnection: its socket, whether it has ended (its table of
\* waiting requests is gone), the request ids waiting for a reply, the next
\* id, the replies on their way with the caller each is for, and its reader.
Conn == [sock : {"none", "open", "shut"}, ended : BOOLEAN, pend : SUBSET (1..MaxAsks),
         next : 1..(MaxAsks + 1), replies : SUBSET ((1..MaxAsks) \X Callers),
         reader : {"none", "reading", "failed", "done", "aborted"}]

NoConn == [sock |-> "none", ended |-> FALSE, pend |-> {}, next |-> 1, replies |-> {},
           reader |-> "none"]

NoCall == [pc |-> "idle", mode |-> "none", conn |-> 0, tries |-> 0, seen |-> {},
         req |-> 0, got |-> NoTask, end |-> "none"]

PCs == {"idle", "wait", "look", "dial", "register", "old", "failed", "dereg1",
        "list", "close", "dereg", "delete", "row", "send", "reply", "stopterms", "stopclose"}

ConnInit ==
  /\ podPhase \in {"pending", "running"}
  /\ podRow = TRUE
  /\ agentOld \in BOOLEAN
  /\ reg = 0
  /\ torn = FALSE
  /\ outdated = "no"
  /\ connLock = NoTask
  /\ conns = [k \in ConnIds |-> NoConn]
  /\ caller = [t \in ConnTasks |-> NoCall]
  /\ terms = {}
  /\ made = 0
  /\ crashTold = [x \in 1..MaxTerms |-> 0]
  /\ cut = FALSE
  /\ asks = 0
  /\ connFaults = 0

-----------------------------------------------------------------------------
(* TerminalConnection.                                                     *)

\* fail_pending: every waiter is told, and nothing new waits.
FailPending(c) == [c EXCEPT !.ended = TRUE, !.pend = {}]

\* close: fail the waiters and stop both tasks, which shuts the socket.  A
\* reader past its loop has no socket to read and runs on to its end.
CloseConn(c) ==
  [FailPending(c) EXCEPT !.sock = "shut",
                         !.reader = IF @ = "reading" THEN "aborted" ELSE @]

\* deregister: the pod is being torn down.  Its connection is closed, and
\* none that is still being made will be registered.
Deregister ==
  /\ torn' = TRUE
  /\ outdated' = "no"
  /\ reg' = 0
  /\ conns' = IF reg = 0 THEN conns ELSE [conns EXCEPT ![reg] = CloseConn(@)]

Step(t, pc) == caller' = [caller EXCEPT ![t].pc = pc]
Leave(t) == caller' = [caller EXCEPT ![t] = NoCall]
Unlock(t) == connLock' = IF connLock = t THEN NoTask ELSE connLock

ConnFault == connFaults < MaxConnFaults /\ connFaults' = connFaults + 1
\* A step that either goes well or is a fault.
Fine == connFaults' = connFaults

-----------------------------------------------------------------------------
(* connect_with_retry.                                                     *)

\* The caller's registry look, before any lock: a live connection is used, a
\* pod known to be outdated is refused.
Enter(t, mode) ==
  caller' = [caller EXCEPT ![t] =
    [NoCall EXCEPT !.mode = mode,
       !.conn = reg,
       !.pc = IF reg # 0 THEN IF mode = "Startup" THEN "idle" ELSE "send"
              ELSE IF outdated = "known" THEN "idle" ELSE "wait"]]

\* create_terminal's ensure_pod_connection (First), reconnect_if_needed for
\* every other tool (Reconnect), reconnect_live_pods (Startup).  Each first
\* resolves a live pod row.
Ask(t, mode) ==
  /\ t \in Callers
  /\ caller[t].pc = "idle"
  /\ podRow
  /\ asks < MaxAsks
  /\ asks' = asks + 1
  /\ Enter(t, mode)
  /\ UNCHANGED <<podState, registry, rows, cut, connLock, conns, connFaults>>

\* pod_connect_lock taken, and the registry looked at again: another caller
\* may have connected, or found the agent outdated, meanwhile.
Lock(t) ==
  /\ caller[t].pc = "wait"
  /\ connLock = NoTask
  /\ \/ /\ reg # 0
        /\ caller' = [caller EXCEPT ![t] = IF t \in Callers /\ @.mode # "Startup"
                                           THEN [@ EXCEPT !.pc = "send", !.conn = reg] ELSE NoCall]
        /\ UNCHANGED connLock
     \/ /\ reg = 0 /\ outdated = "known"
        /\ Leave(t)
        /\ UNCHANGED connLock
     \/ /\ reg = 0 /\ outdated # "known"
        /\ Step(t, "look")
        /\ connLock' = t
  /\ UNCHANGED <<podState, registry, rows, counts, conns>>

\* Under the lock: a pod whose start is under way is left to it, an outdated
\* one only has its image read again, and a first connection needs the pod
\* Running.
Look(t) ==
  /\ caller[t].pc = "look"
  /\ IF \/ caller[t].mode # "First" /\ podPhase = "pending"
        \/ outdated = "noimage"
        \/ caller[t].mode = "First" /\ podPhase # "running"
     THEN Leave(t) /\ Unlock(t)
     ELSE caller' = [caller EXCEPT ![t].pc = "dial", ![t].tries = 1] /\ UNCHANGED connLock
  /\ outdated' \in IF outdated = "noimage" THEN {"noimage", "known"} ELSE {outdated}
  /\ UNCHANGED <<podState, rows, counts, reg, torn, conns>>

\* The connections not made yet.
Fresh == {k \in ConnIds : conns[k].sock = "none"}

\* connect: port-forward, handshake and hello.  A connection has its reader
\* running from the start, before it is registered.
DialConnects(t) ==
  /\ caller[t].pc = "dial"
  /\ podPhase = "running" /\ ~agentOld
  /\ Fresh # {}
  /\ LET k == CHOOSE k \in Fresh : \A j \in Fresh : k <= j IN
       /\ conns' = [conns EXCEPT ![k] = [@ EXCEPT !.sock = "open", !.reader = "reading"]]
       /\ caller' = [caller EXCEPT ![t].pc = "register", ![t].conn = k]
  /\ UNCHANGED <<podState, registry, rows, counts, connLock>>

\* A hello of another major, or none: not worth another try.  Silence is
\* not remembered (it may be a slow link), a message that says so is.
DialOutdated(t) ==
  /\ caller[t].pc = "dial"
  /\ podPhase = "running"
  /\ \/ agentOld /\ Fine /\ Step(t, "old") /\ UNCHANGED connLock
     \/ ConnFault /\ Leave(t) /\ Unlock(t)
  /\ UNCHANGED <<podState, registry, rows, cut, conns, asks>>

\* The image is read, and the pod remembered as outdated unless it was torn
\* down meanwhile: nothing would ever clear that.
RememberOutdated(t) ==
  /\ caller[t].pc = "old"
  /\ outdated' \in IF torn THEN {outdated} ELSE {"noimage", "known"}
  /\ Leave(t)
  /\ Unlock(t)
  /\ UNCHANGED <<podState, rows, counts, reg, torn, conns>>

\* The dial failed: always for a pod that does not run, and now and then for
\* one that does (always once MaxConns are made).
DialFails(t) ==
  /\ caller[t].pc = "dial"
  /\ IF podPhase = "running" /\ (agentOld \/ Fresh # {}) THEN ConnFault ELSE Fine
  /\ Step(t, "failed")
  /\ UNCHANGED <<podState, registry, rows, cut, connLock, conns, asks>>

\* register's three answers for connection k.  A refused one is closed by the
\* caller; one that has ended is worth another attempt.
Refuse(t, k) ==
  /\ conns' = [conns EXCEPT ![k] = CloseConn(@)]
  /\ Leave(t) /\ Unlock(t)
  /\ UNCHANGED reg
TryAgain(t) == Step(t, "failed") /\ UNCHANGED <<reg, connLock, conns>>
Accept(t, k) ==
  /\ reg' = k
  /\ IF t \in Callers /\ caller[t].mode # "Startup" THEN Step(t, "send") ELSE Leave(t)
  /\ Unlock(t)
  /\ UNCHANGED conns

\* Mutation: a connection whose pod was torn down while it was made is kept.
RegisterTorn(t) ==
  /\ caller[t].pc = "register"
  /\ LET k == caller[t].conn IN IF conns[k].ended THEN TryAgain(t) ELSE Accept(t, k)
  /\ UNCHANGED <<podState, torn, outdated, rows, counts>>

\* register, under the registry's lock: refused for a pod torn down or for a
\* connection that has ended.
Register(t) ==
  /\ caller[t].pc = "register"
  /\ LET k == caller[t].conn IN
     \/ torn /\ Refuse(t, k)
     \/ ~torn /\ conns[k].ended /\ TryAgain(t)
     \/ ~torn /\ ~conns[k].ended /\ Accept(t, k)
  /\ UNCHANGED <<podState, torn, outdated, rows, counts>>

\* After a failed attempt: except in First mode the cluster is asked whether
\* the pod is dead, and a dead pod is cleaned up at once; otherwise another
\* attempt.  After the last, First and Startup just fail, and Reconnect
\* cleans up and stops the pod as after a crash.
Failed(t) ==
  /\ caller[t].pc = "failed"
  /\ LET dead == caller[t].mode # "First" /\ podPhase = "gone"
         last == caller[t].tries = MaxAttempts
     IN \/ /\ dead \/ (last /\ caller[t].mode = "Reconnect")
           /\ Step(t, "list")
           /\ UNCHANGED connLock
        \/ /\ ~dead /\ ~last
           /\ caller' = [caller EXCEPT ![t].pc = "dial", ![t].tries = @ + 1]
           /\ UNCHANGED connLock
        \/ /\ ~dead /\ last /\ caller[t].mode # "Reconnect"
           /\ Leave(t) /\ Unlock(t)
  /\ UNCHANGED <<podState, registry, rows, counts, conns>>

-----------------------------------------------------------------------------
(* handle_crash_cleanup, then force_terminate_pod.                         *)

\* close_pod_terminals reads the live terminals first ...
CleanList(t) ==
  /\ caller[t].pc = "list"
  /\ caller' = [caller EXCEPT ![t].pc = "close", ![t].seen = terms]
  /\ UNCHANGED <<podState, registry, rows, counts, connLock, conns>>

\* ... then closes each; one notice is saved if there was any.
CleanClose(t) ==
  /\ caller[t].pc = "close"
  /\ terms' = terms \ caller[t].seen
  /\ crashTold' = [x \in 1..MaxTerms |-> crashTold[x] + (IF x \in caller[t].seen THEN 1 ELSE 0)]
  /\ Step(t, "dereg1")
  /\ UNCHANGED <<podState, registry, counts, connLock, conns, made>>

\* handle_crash_cleanup's own deregister.
CleanDeregister(t) ==
  /\ caller[t].pc = "dereg1"
  /\ Deregister
  /\ Step(t, "dereg")
  /\ UNCHANGED <<podState, rows, counts, connLock>>

\* terminate_pod (a turn's tool): refused while a terminal lives.
AskTerminate(t) ==
  /\ t \in Callers
  /\ caller[t].pc = "idle"
  /\ asks < MaxAsks
  /\ podRow /\ terms = {}
  /\ asks' = asks + 1
  /\ caller' = [caller EXCEPT ![t] = [NoCall EXCEPT !.pc = "dereg", !.end = "turn"]]
  /\ UNCHANGED <<podState, registry, rows, cut, connLock, conns, connFaults>>

\* stop_pod_for_user: the row must be live.
AskStop(t) ==
  /\ t \in Callers
  /\ caller[t].pc = "idle"
  /\ asks < MaxAsks
  /\ podRow
  /\ asks' = asks + 1
  /\ caller' = [caller EXCEPT ![t] = [NoCall EXCEPT !.pc = "dereg", !.end = "user"]]
  /\ UNCHANGED <<podState, registry, rows, cut, connLock, conns, connFaults>>

\* terminate_pod_as deregisters before it touches the cluster.
TermDeregister(t) ==
  /\ caller[t].pc = "dereg"
  /\ Deregister
  /\ Step(t, "delete")
  /\ UNCHANGED <<podState, rows, counts, connLock>>

\* Mutation: a failed delete leaves the pod marked torn down.
TermFailedKeepsMark(t) ==
  /\ caller[t].pc \in {"delete", "row"}
  /\ ConnFault
  /\ Leave(t) /\ Unlock(t)
  /\ UNCHANGED <<podState, registry, rows, cut, conns, asks>>

\* The delete, or the row's close, fails: the pod stays, and its mark is
\* taken back so that it stays reachable.
TermFailed(t) ==
  /\ caller[t].pc \in {"delete", "row"}
  /\ ConnFault
  /\ torn' = FALSE
  /\ Leave(t) /\ Unlock(t)
  /\ UNCHANGED <<podState, rows, cut, reg, outdated, conns, asks>>

TermDelete(t) ==
  /\ caller[t].pc = "delete"
  /\ podPhase' = "gone"
  /\ Step(t, "row")
  /\ UNCHANGED <<registry, rows, counts, podRow, agentOld, connLock, conns>>

\* The row closes.  A user's Stop goes on to close the pod's terminals,
\* quietly, only now that the delete worked.
TermRow(t) ==
  /\ caller[t].pc = "row"
  /\ podRow' = FALSE
  /\ IF caller[t].end = "user" THEN Step(t, "stopterms") /\ UNCHANGED connLock
     ELSE Leave(t) /\ Unlock(t)
  /\ UNCHANGED <<registry, rows, counts, podPhase, agentOld, conns>>

StopTerms(t) ==
  /\ caller[t].pc = "stopterms"
  /\ caller' = [caller EXCEPT ![t].pc = "stopclose", ![t].seen = terms]
  /\ UNCHANGED <<podState, registry, rows, counts, connLock, conns>>

\* Mutation: a user's Stop tells of the terminals it closed as a crash does.
StopCloseTells(t) ==
  /\ caller[t].pc = "stopclose"
  /\ terms' = terms \ caller[t].seen
  /\ crashTold' = [x \in 1..MaxTerms |-> crashTold[x] + (IF x \in caller[t].seen THEN 1 ELSE 0)]
  /\ Leave(t)
  /\ UNCHANGED <<podState, registry, counts, connLock, conns, made>>

StopClose(t) ==
  /\ caller[t].pc = "stopclose"
  /\ terms' = terms \ caller[t].seen
  /\ Leave(t)
  /\ UNCHANGED <<podState, registry, counts, connLock, conns, made, crashTold>>

-----------------------------------------------------------------------------
(* Requests.                                                               *)

\* next_request_id: per connection and never reused.
NextId(c) == c.next

\* request: a fresh id waits for its reply, unless the connection has ended.
\* create_terminal's row is written first.  The agent sees what is written
\* to a socket that is still open, and answers it once.
Send(t) ==
  /\ caller[t].pc = "send"
  /\ LET k == caller[t].conn
         id == NextId(conns[k])
         term == IF caller[t].mode = "First" /\ made < MaxTerms THEN {made + 1} ELSE {}
         sent == IF conns[k].sock = "open" THEN {<<id, t>>} ELSE {}
     IN \/ /\ conns[k].ended
           /\ Leave(t)
           /\ UNCHANGED <<conns, terms, made>>
        \/ /\ ~conns[k].ended
           /\ conns' = [conns EXCEPT ![k].pend = @ \cup {id}, ![k].next = @ + 1,
                                     ![k].replies = @ \cup sent]
           /\ made' = made + Cardinality(term)
           /\ terms' = terms \cup term
           /\ caller' = [caller EXCEPT ![t].pc = "reply", ![t].req = id, ![t].seen = term]
  /\ UNCHANGED <<podState, registry, connLock, crashTold, counts>>

\* resolve: the reader hands a reply to the request waiting for it; one that
\* nobody waits for is dropped.
Resolve(k, r) ==
  /\ r \in conns[k].replies
  /\ conns[k].reader = "reading"
  /\ conns' = [conns EXCEPT ![k].replies = @ \ {r},
                            ![k].pend = @ \ {r[1]}]
  /\ caller' = [t \in ConnTasks |->
       IF caller[t].pc = "reply" /\ caller[t].conn = k /\ caller[t].req = r[1]
       THEN [caller[t] EXCEPT !.got = r[2]] ELSE caller[t]]
  /\ UNCHANGED <<podState, registry, rows, counts, connLock>>

\* The reply: the terminal is the caller's.
Answered(t) ==
  /\ caller[t].pc = "reply"
  /\ caller[t].got # NoTask
  /\ Leave(t)
  /\ UNCHANGED <<podState, registry, rows, counts, connLock, conns>>

\* Disconnected (the waiters were failed) or Timeout (the request is
\* forgotten): create_terminal closes the row it made.
Unanswered(t) ==
  /\ caller[t].pc = "reply"
  /\ caller[t].got = NoTask
  /\ conns' = [conns EXCEPT ![caller[t].conn].pend = @ \ {caller[t].req}]
  /\ terms' = terms \ caller[t].seen
  /\ Leave(t)
  /\ UNCHANGED <<podState, registry, counts, connLock, made, crashTold>>

-----------------------------------------------------------------------------
(* A connection's end.                                                     *)

\* The socket of a pod that is gone ends; another may drop.
SocketEnds(k) ==
  /\ conns[k].sock = "open"
  /\ IF podPhase = "gone" THEN Fine ELSE ConnFault
  /\ conns' = [conns EXCEPT ![k].sock = "shut"]
  /\ UNCHANGED <<podState, registry, rows, cut, connLock, caller, asks>>

\* Mutation: the waiters of a connection that ends are left waiting.
ReaderEndsQuietly(k) ==
  /\ conns[k].reader = "reading"
  /\ conns[k].sock = "shut"
  /\ conns' = [conns EXCEPT ![k].reader = "failed"]
  /\ UNCHANGED <<podState, registry, rows, counts, connLock, caller>>

\* The reader's loop ends: it fails its waiters before it looks in the
\* registry.
ReaderEnds(k) ==
  /\ conns[k].reader = "reading"
  /\ conns[k].sock = "shut"
  /\ conns' = [conns EXCEPT ![k] = [FailPending(@) EXCEPT !.reader = "failed"]]
  /\ UNCHANGED <<podState, registry, rows, counts, connLock, caller>>

\* deregister_if_current: an end nobody made is the reader's to react to, by
\* reconnecting or confirming a crash.
ReaderLooks(k) ==
  /\ conns[k].reader = "failed"
  /\ conns' = [conns EXCEPT ![k].reader = "done"]
  /\ IF reg = k
     THEN /\ reg' = 0
          /\ caller' = [caller EXCEPT ![k] =
               [NoCall EXCEPT !.mode = "Reconnect",
                            !.pc = IF outdated = "known" THEN "idle" ELSE "wait"]]
     ELSE UNCHANGED <<reg, caller>>
  /\ UNCHANGED <<podState, rows, counts, torn, outdated, connLock>>

-----------------------------------------------------------------------------
(* The pod, and what happens to a caller.                                  *)

\* PodLife's start ends: the pod runs.
PodStarts ==
  /\ podPhase = "pending" /\ podRow
  /\ podPhase' = "running"
  /\ UNCHANGED <<registry, rows, counts, podRow, agentOld, connLock, conns, caller>>

\* The pod dies: an OOM kill, an eviction, a delete from outside.
PodLost ==
  /\ podPhase = "running"
  /\ ConnFault
  /\ podPhase' = "gone"
  /\ UNCHANGED <<registry, rows, cut, podRow, agentOld, connLock, conns, caller, asks>>

\* A caller's future is dropped where it waits: its request's tab closed, or
\* its turn was stopped.  Its lock is released, a socket it was opening is
\* shut, and nothing else is undone.  (A connection made is registered, and a
\* teardown marked, with no await between.)
Drop(t) ==
  /\ t \in Callers
  /\ caller[t].pc \notin {"idle", "register", "dereg"}
  /\ ConnFault
  /\ cut' = (cut \/ caller[t].pc \in {"delete", "row"})
  /\ Leave(t) /\ Unlock(t)
  /\ UNCHANGED <<podState, registry, rows, conns, asks>>

TaskStep(t) ==
  \/ Lock(t) \/ Look(t) \/ DialConnects(t) \/ DialOutdated(t) \/ RememberOutdated(t)
  \/ DialFails(t) \/ Register(t) \/ Failed(t)
  \/ CleanList(t) \/ CleanClose(t) \/ CleanDeregister(t)
  \/ TermDeregister(t) \/ TermFailed(t) \/ TermDelete(t) \/ TermRow(t)
  \/ StopTerms(t) \/ StopClose(t)
  \/ Send(t) \/ Answered(t) \/ Unanswered(t)

Call(t) == (\E mode \in Modes : Ask(t, mode)) \/ AskTerminate(t) \/ AskStop(t)

Reading(k) == ReaderEnds(k) \/ ReaderLooks(k) \/ (\E r \in conns[k].replies : Resolve(k, r))

ConnNext ==
  \/ \E t \in Callers : Call(t) \/ Drop(t)
  \/ \E t \in ConnTasks : TaskStep(t)
  \/ \E k \in ConnIds : Reading(k) \/ SocketEnds(k)
  \/ PodStarts \/ PodLost

ConnSpec == ConnInit /\ [][ConnNext]_cvars

-----------------------------------------------------------------------------
(* Properties.                                                             *)

\* The state has its shape.
ConnTypeOK ==
  /\ podPhase \in {"pending", "running", "gone"}
  /\ podRow \in BOOLEAN /\ agentOld \in BOOLEAN /\ torn \in BOOLEAN
  /\ reg \in ConnIds \cup {0}
  /\ outdated \in {"no", "noimage", "known"}
  /\ connLock \in ConnTasks \cup {NoTask}
  /\ conns \in [ConnIds -> Conn]
  /\ \A t \in ConnTasks : caller[t].pc \in PCs
  /\ terms \subseteq 1..made /\ made \in 0..MaxTerms
  /\ crashTold \in [1..MaxTerms -> Nat]

\* With nobody at work on it, a pod that runs and whose row is live can be
\* connected to (terminate_pod_as: "The pod stays running and its row live if
\* either step fails, so it must stay reachable too.").  It does not hold of a
\* teardown cut off on its way (README).
StaysReachable ==
  (podPhase = "running" /\ podRow /\ \A t \in ConnTasks : caller[t].pc = "idle") => ~torn

\* The registry agrees with the connections, however a connect meets a
\* teardown or the connection's own end: a pod being torn down has none, the
\* one registered has a reader that will still react to its end (a dead one
\* would never be replaced), and one left open is the registered one or one
\* that a task is about to register (register, CloseConn).  And a teardown that
\* ran to its end, failed or not, took its own mark back, also when two of them
\* overlapped.
RegistryAgrees ==
  /\ torn => reg = 0
  /\ reg # 0 => conns[reg].reader \in {"reading", "failed"}
  /\ \A k \in ConnIds : conns[k].sock = "open" =>
       reg = k \/ \E t \in ConnTasks : caller[t].pc = "register" /\ caller[t].conn = k
  /\ ~cut => StaysReachable

\* A request that waits is either in its connection's table, so that a reply
\* or the connection's end reaches it, or has been told already; and what it
\* gets is its own reply, never the late one of an earlier request.
WaiterIsHeard ==
  \A t \in Callers :
    /\ caller[t].got \in {NoTask, t}
    /\ (caller[t].pc = "reply" /\ caller[t].got = NoTask) =>
         LET c == conns[caller[t].conn]
         IN c.ended \/ (caller[t].req \in c.pend /\ c.reader = "reading")

\* One crash is told once: however many tasks find the pod dead, each of its
\* terminals is covered by at most one crash notice.
CrashToldOnce == \A x \in 1..MaxTerms : crashTold[x] <= 1
=============================================================================
